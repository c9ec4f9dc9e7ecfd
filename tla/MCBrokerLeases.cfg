SPECIFICATION Spec
VIEW View
SYMMETRY LeaseIdSymmetry
CONSTANTS
  Namespaces = {n1}
  Tasks = {1, 2}
  Groups = {1}
  Members = {1}
  LeaseIds = {l1, l2}
  Objectives = {o1}
  Results = {r1}
  Capabilities = {c1}
  Clock = {0, 1}
  Durations = {1}
  Batches = {1, 2}
  MaxTimestamp = 9
  MaxNamespaces = 2
  MaxNamespaceTasks = 2
  MaxNamespaceGroups = 2
  MaxGroupMembers = 2
  MaxTerm = 2
  MaxRevision = 100
  MaxGeneration = 2
  MaxEpoch = 2
  None = None
INVARIANTS LeaseMapExact NoTaskLost
PROPERTIES HandoverAdvancesEpoch JournalReplaysStep OldestFirst
