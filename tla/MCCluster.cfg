SPECIFICATION Spec
SYMMETRY NodeSymmetry
CONSTANTS
  Nodes = {n1, n2, n3}
  Kinds = {"identified", "directory"}
  MaxRaftTerm = 2
  MaxLog = 4
  MaxRequests = 2
  MaxFaults = 1
  None = None
INVARIANTS BrokerTermWithinRaftTerm AcknowledgedSurvive DirectoryReadsFresh
CHECK_DEADLOCK FALSE
