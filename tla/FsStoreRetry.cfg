SPECIFICATION Spec
CONSTANTS
  w1 = w1
  w2 = w2
  p1 = p1
  p2 = p2
  Writer = {w1}
  Process = {p1}
  Pid <- MCPid
  Root <- StoreRoot
  File <- OneFile
  InitDirs <- RootOnly
  MaxPuts = 2
  MaxNames = 2
INVARIANT AckedSurvives
