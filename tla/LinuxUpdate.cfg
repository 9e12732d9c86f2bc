SPECIFICATION Spec
CONSTANTS
  u1 = u1
  u2 = u2
  Users = {u1, u2}
  Helper = Helper
  NoUser = NoUser
  Overlap = FALSE
INVARIANTS UpdateRecoverable
PROPERTIES CommittedStays EndsWell
CHECK_DEADLOCK FALSE
