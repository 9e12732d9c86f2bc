SPECIFICATION Spec
CONSTANTS
  u1 = u1
  u2 = u2
  Users = {u1, u2}
  Helper = Helper
  Recovery = Recovery
  NoUser = NoUser
  Victims = {u1, u2, Helper, Recovery}
  Refusals = TRUE
  Overlap = FALSE
INVARIANTS PairRecoverable
PROPERTIES CommittedStays HelperEnds
CHECK_DEADLOCK FALSE
