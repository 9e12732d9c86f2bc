SPECIFICATION Spec
CONSTANTS
  Exts = {"jxl"}
  p = p
  q = q
  bad = bad
  Params = {p, q, bad}
  WithSuffix = {q}
  BadParams = {bad}
  Paths = {"here", "moved"}
  NoFile = NoFile
  MaxEdits = 2
  MaxFaults = 2
  MaxOutside = 1
PROPERTIES WarningHonest SavedExact FailedLeavesNothing
