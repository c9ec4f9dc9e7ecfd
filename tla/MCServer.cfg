CONSTANTS
  BrokerConns = {b1, b2}
  OperationsConns = {o1}
  Timer = timer
  MaxConnections = 1
  Capacity = 1
  MaxJobs = 1
  MaxFaults = 1
  None = None
SPECIFICATION FairSpec
INVARIANTS QueuedCountExact ActiveCountExact RejectedNotExecuted
PROPERTIES RequestsAnswered ShutdownCompletes
CHECK_DEADLOCK FALSE
