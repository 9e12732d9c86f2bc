SPECIFICATION Spec
CONSTANTS
  Paths = {"a", "./a", "b"}
  Key <- MCKey
  Picks = {"file", "folder", "empty", "gone"}
  Scan <- MCScan
  Unreadable = Unreadable
  NoFile = NoFile
  MaxAdds = 2
  MaxRuns = 3
  MaxPosts = 2
  MaxFaults = 1
INVARIANTS QuietBetweenRuns
PROPERTIES RetryExact RunSettles
