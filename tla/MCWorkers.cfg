SPECIFICATION WSpec
VIEW View
CONSTANTS
  Namespaces = {n1}
  Tasks = {1}
  Groups = {1}
  Members = {1, 2}
  LeaseIds = {l1}
  Objectives = {o1}
  Results = {r1}
  Capabilities = {c1}
  Clock = {0, 1}
  Durations = {1, 2}
  Batches = {1}
  MaxTimestamp = 9
  MaxNamespaces = 2
  MaxNamespaceTasks = 2
  MaxNamespaceGroups = 2
  MaxGroupMembers = 2
  MaxTerm = 1
  MaxRevision = 100
  MaxGeneration = 3
  MaxEpoch = 2
  None = None
INVARIANTS OnlyCurrentGrantActs RestartTransparent
PROPERTIES CompletionIsFinal
