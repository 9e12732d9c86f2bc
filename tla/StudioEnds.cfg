SPECIFICATION Spec
CONSTANTS
  Tree <- MCTree
  Requests <- MCPicks
  MaxRequests = 1
  ScanSteps = 20
  Verdicts = {"done", "canceled"}
  MaxPosts = 1
  MaxRuns = 2
  MaxFaults = 1
PROPERTIES RunEnds StudioExits
