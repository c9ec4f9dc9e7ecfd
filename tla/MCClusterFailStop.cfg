SPECIFICATION Spec
SYMMETRY NodeSymmetry
CONSTANTS
  Nodes = {n1, n2, n3}
  Kinds = {"legacy"}
  MaxRaftTerm = 3
  MaxLog = 6
  MaxRequests = 2
  MaxFaults = 0
  None = None
INVARIANT FailStopMeansEngineFailure
CHECK_DEADLOCK FALSE
