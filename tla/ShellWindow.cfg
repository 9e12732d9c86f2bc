SPECIFICATION Spec
CONSTANTS
  p = p
  q = q
  r = r
  None = None
  Procs = {p, q, r}
  Launched <- MCLaunched
  TooLong = {3}
  MaxTries = 2
  MaxFaults = 2
  AutoClose = TRUE
  Watched = {p}
INVARIANTS OneCollector InputsOnce
PROPERTIES ClosesItselfWhenOk CollectingEnds
