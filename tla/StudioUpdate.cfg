SPECIFICATION Spec
CONSTANTS
  s1 = s1
  s2 = s2
  Studios = {s1, s2}
  Versions = {1, 2, 3}
  Manifests = {1, 2, 3}
  Listed <- MCListed
  Revoked <- MCRevoked
  MinUpdater <- MCMinUpdater
  Prereleases = {3}
  Platforms = {"windows", "linux"}
  MaxEdits = 1
  MaxFaults = 2
  MaxStarts = 2
SYMMETRY Symmetry
INVARIANTS ShownIsSaved
PROPERTIES OfferExact RecordLeads VerifiesBestKnown
CHECK_DEADLOCK FALSE
