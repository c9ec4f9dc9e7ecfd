CONSTANTS
  FrameLimits <- Limits
  MaxDeliveries = 2
  MaxAttempts = 2
  MaxLeaderChanges = 1
  Calls = {c1, c2}
  Workers = {w1, w2}
  QueueCapacity = 1
  MaxRpcFaults = 1
  Nobody = Nobody
SPECIFICATION NetworkSpec
INVARIANTS ExecutedAsAsked AnswerIsOutcome RepetitionRecognised
INVARIANTS RoutedOnce FramesJustified LoadExact QuietWhenStopped
PROPERTIES RpcStopCompletes AcceptedResolved
CHECK_DEADLOCK FALSE
