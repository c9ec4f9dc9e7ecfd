SPECIFICATION FairSpec
CONSTANTS
  Clients = {c1, c2}
  Commands = {x1, x2}
  Responses = {ok, failed}
  InstancesPerClient = 1
  MaxSequence = 2
  MaxOwnerEpoch = 2
  MaxFaults = 1
  QueueMayFill = TRUE
  None = None
CHECK_DEADLOCK FALSE
INVARIANTS ExecutedOnceInOrder OutcomeIsOwn SequencesAgree
PROPERTIES InFlightResolved
