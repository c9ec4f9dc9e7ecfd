SPECIFICATION Spec
SYMMETRY CommandSymmetry
CONSTANTS
  Clients = {c1}
  Commands = {x1, x2}
  Responses = {ok, failed}
  InstancesPerClient = 1
  MaxSequence = 1
  MaxOwnerEpoch = 1
  MaxFaults = 0
  QueueMayFill = TRUE
  None = None
INVARIANTS RejectedNeverExecuted
CHECK_DEADLOCK FALSE
