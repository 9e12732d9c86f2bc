SPECIFICATION Spec
CONSTANTS
  Tree <- MCTree
  Requests <- MCRequests
  MaxRequests = 2
  ScanSteps = 20
  Verdicts = {"done", "canceled"}
  MaxPosts = 2
  MaxRuns = 2
  MaxFaults = 1
INVARIANTS ImportsExact OneWorker RunShown
PROPERTIES VerdictsStand QueueFollowsRun
