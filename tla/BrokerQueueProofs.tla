-------------------------- MODULE BrokerQueueProofs -------------------------
(***************************************************************************)
(* The heaps and counters of the broker state machine as functions of its  *)
(* task and group records, for all sets of identifiers, clocks and limits: *)
(* no task is lost, a restart shows in nothing, claims take the oldest     *)
(* task, and namespaces stay apart.                                        *)
(***************************************************************************)
EXTENDS BrokerProofs

\* The prover of a step that names none.
USE ZenonT(30)

-----------------------------------------------------------------------------
(* The ready and expiration heaps.  Neither is exact: a heap keeps entries *)
(* of leases long gone, and they are recognised when popped.  What no      *)
(* command may lose is the entry of a task that waits or is held.          *)

ReadyEntry(t) == <<tasks[t].created_at, t>>
ExpirationEntry(t) == <<tasks[t].expires_at, t, tasks[t].lease_epoch>>

\* Ready entries are those of queued tasks, each in one heap; every queued
\* task has its entry and every lease the one that will expire it.
ReadyExact ==
  \A n \in Namespaces : \A e \in ready_tasks[n] :
    \E t \in Tasks : tasks[t].status = "queued" /\ e = ReadyEntry(t)

ReadyOnce ==
  \A n, k \in Namespaces : \A e \in ready_tasks[n] :
    e \in ready_tasks[k] => n = k

QueuedReady ==
  \A t \in Tasks : tasks[t].status = "queued" =>
    \E n \in Namespaces : ReadyEntry(t) \in ready_tasks[n]

LeasedExpiring ==
  \A t \in Tasks : tasks[t].status = "leased" =>
    \E n \in Namespaces : ExpirationEntry(t) \in lease_expirations[n]

QueueInv == ReadyExact /\ ReadyOnce /\ QueuedReady /\ LeasedExpiring

LEMMA EntriesDiffer ==
  /\ \A a, b, c, d : <<a, b>> = <<c, d>> => a = c /\ b = d
  /\ \A a, b, x, c, d, y : <<a, b, x>> = <<c, d, y>> => a = c /\ b = d /\ x = y
BY SMTT(30)

LEMMA QueueInit == Init => QueueInv
<1> SUFFICES ASSUME Init PROVE QueueInv
  OBVIOUS
<1>1. /\ \A n \in Namespaces : ready_tasks[n] = {}
      /\ \A t \in Tasks : tasks[t].status = "absent"
  BY AbsentTaskFields DEF Init
<1> QED
  BY <1>1 DEF QueueInv, ReadyExact, ReadyOnce, QueuedReady, LeasedExpiring

\* A step that leaves the heaps alone and starts no wait and no lease.
LEMMA QueueFrame ==
  ASSUME QueueInv, UNCHANGED <<ready_tasks, lease_expirations>>,
         \A t \in Tasks : \/ tasks'[t] = tasks[t]
                          \/ /\ tasks[t].status # "queued"
                             /\ tasks'[t].status \notin {"queued", "leased"}
  PROVE  QueueInv'
<1>1. ReadyExact'
  BY DEF QueueInv, ReadyExact, ReadyEntry
<1>2. QueuedReady' /\ LeasedExpiring'
  BY DEF QueueInv, QueuedReady, LeasedExpiring, ReadyEntry, ExpirationEntry
<1> QED
  BY <1>1, <1>2 DEF QueueInv, ReadyOnce

LEMMA QueueRegister ==
  ASSUME TypeOK, QueueInv, Register
  PROVE  QueueInv'
<1>1. ASSUME NEW n \in Namespaces, EnsureNamespace(n)
      PROVE  QueueInv'
  BY <1>1, QueueFrame DEF EnsureNamespace, indexes
<1>2. ASSUME NEW n \in Namespaces, NEW g \in Groups, EnsureConsumerGroup(n, g)
      PROVE  QueueInv'
  BY <1>2, QueueFrame DEF EnsureConsumerGroup
<1>3. ASSUME NEW n \in Namespaces, NEW t \in Tasks, NEW o \in Objectives,
             NEW now \in Clock, PublishTask(n, t, o, now)
      PROVE  QueueInv'
  <2>1. /\ tasks \in [Tasks -> TaskRecords] /\ now \in Nat
        /\ ready_tasks \in [Namespaces -> SUBSET (Nat \X Tasks)]
    BY ClockAssumption DEF TypeOK
  <2>2. /\ tasks[t].status = "absent"
        /\ tasks' = [tasks EXCEPT ![t] = QueuedTask(n, o, now)]
        /\ ready_tasks' = [ready_tasks EXCEPT ![n] = @ \cup {<<now, t>>}]
        /\ lease_expirations' = lease_expirations
    BY <1>3 DEF PublishTask
  <2>3. /\ tasks'[t].status = "queued" /\ tasks'[t].created_at = now
        /\ \A u \in Tasks \ {t} : tasks'[u] = tasks[u]
    <3>1. /\ tasks'[t] = QueuedTask(n, o, now)
          /\ \A u \in Tasks \ {t} : tasks'[u] = tasks[u]
      BY <2>1, <2>2
    <3> QED
      <4>1. /\ QueuedTask(n, o, now).status = "queued"
            /\ QueuedTask(n, o, now).created_at = now
        BY <2>1, QueuedTaskFields
      <4> QED
        BY <3>1, <4>1
  <2>4. /\ ready_tasks'[n] = ready_tasks[n] \cup {<<now, t>>}
        /\ \A k \in Namespaces \ {n} : ready_tasks'[k] = ready_tasks[k]
    BY <2>1, <2>2, SMTT(30)
  <2>5. \A k \in Namespaces : \A x : <<x, t>> \notin ready_tasks[k]
    BY <2>2, EntriesDiffer DEF QueueInv, ReadyExact, ReadyEntry
  <2>6. ReadyExact'
    <3> SUFFICES ASSUME NEW k \in Namespaces, NEW e \in ready_tasks'[k]
                 PROVE  \E u \in Tasks : /\ tasks'[u].status = "queued"
                                         /\ e = <<tasks'[u].created_at, u>>
      BY DEF ReadyExact, ReadyEntry
    <3>1. CASE e = <<now, t>>
      BY <2>3, <3>1
    <3>2. CASE e # <<now, t>>
      <4>1. PICK u \in Tasks : /\ tasks[u].status = "queued"
                               /\ e = <<tasks[u].created_at, u>>
        BY <2>4, <3>2 DEF QueueInv, ReadyExact, ReadyEntry
      <4> QED
        BY <2>2, <2>3, <4>1
    <3> QED
      BY <3>1, <3>2
  <2>7. ReadyOnce'
    BY <2>4, <2>5, SMTT(30) DEF QueueInv, ReadyOnce
  <2>8. QueuedReady'
    BY <2>3, <2>4 DEF QueueInv, QueuedReady, ReadyEntry
  <2>9. LeasedExpiring'
    BY <2>2, <2>3 DEF QueueInv, LeasedExpiring, ExpirationEntry
  <2> QED
    BY <2>6, <2>7, <2>8, <2>9 DEF QueueInv
<1> QED
  BY <1>1, <1>2, <1>3 DEF Register

\* The leases that R names go back to the heap of their own namespace.
LEMMA QueueRemoveMembers ==
  ASSUME TypeOK, Stored, QueueInv, NEW P \in SUBSET (Groups \X Members),
         RemoveMembers(P)
  PROVE  QueueInv'
<1> DEFINE R == LeasedBy(P)
           back(n) == {<<tasks[t].created_at, t>> :
                         t \in {u \in R : tasks[u].namespace_id = n}}
<1>1. R \in SUBSET Tasks /\ \A t \in R : tasks[t].status = "leased"
  BY LeasedByTypes DEF LeasedBy
<1>2. /\ tasks' = RequeuedTasks(R)
      /\ ready_tasks' = [n \in Namespaces |-> ready_tasks[n] \cup back(n)]
      /\ lease_expirations' = lease_expirations
  BY DEF RemoveMembers, RequeueMemberLeases
<1>3. \A t \in R : tasks[t].namespace_id \in Namespaces
  BY <1>1 DEF Stored, StoredTask, TypeOK
<1>4. \A n \in Namespaces : \A e : e \in back(n) <=>
        \E t \in R : tasks[t].namespace_id = n /\ e = <<tasks[t].created_at, t>>
  OBVIOUS
<1> HIDE DEF R, back
<1>5. /\ \A t \in R : /\ tasks'[t].status = "queued"
                      /\ tasks'[t].created_at = tasks[t].created_at
      /\ \A t \in Tasks \ R : tasks'[t] = tasks[t]
  <2>1. tasks \in [Tasks -> TaskRecords]
    BY DEF TypeOK
  <2>2. /\ \A t \in R : /\ RequeuedTasks(R)[t].status = "queued"
                        /\ RequeuedTasks(R)[t].created_at = tasks[t].created_at
        /\ \A t \in Tasks \ R : RequeuedTasks(R)[t] = tasks[t]
    BY <1>1, <2>1, RequeuedTasksFields, SMTT(30)
  <2> QED
    BY <1>2, <2>2
<1>6. \A n \in Namespaces : ready_tasks'[n] = ready_tasks[n] \cup back(n)
  BY <1>2
<1>7. ReadyExact'
  <2> SUFFICES ASSUME NEW k \in Namespaces, NEW e \in ready_tasks'[k]
               PROVE  \E u \in Tasks : /\ tasks'[u].status = "queued"
                                       /\ e = <<tasks'[u].created_at, u>>
    BY DEF ReadyExact, ReadyEntry
  <2>1. CASE e \in ready_tasks[k]
    <3>1. PICK u \in Tasks : /\ tasks[u].status = "queued"
                             /\ e = <<tasks[u].created_at, u>>
      BY <2>1 DEF QueueInv, ReadyExact, ReadyEntry
    <3> QED
      BY <1>1, <1>5, <3>1
  <2>2. CASE e \in back(k)
    <3>1. PICK u \in R : e = <<tasks[u].created_at, u>>
      BY <1>4, <2>2
    <3> QED
      BY <1>1, <1>5, <3>1
  <2> QED
    BY <1>6, <2>1, <2>2
<1>8. ReadyOnce'
  <2> SUFFICES ASSUME NEW n \in Namespaces, NEW k \in Namespaces,
                      NEW e \in ready_tasks'[n], e \in ready_tasks'[k]
               PROVE  n = k
    BY DEF ReadyOnce
  <2>1. ASSUME NEW i \in Namespaces, NEW j \in Namespaces,
               e \in ready_tasks[i], e \in back(j)
        PROVE  FALSE
    <3>1. PICK t \in R : e = <<tasks[t].created_at, t>>
      BY <1>4, <2>1
    <3>2. PICK u \in Tasks : tasks[u].status = "queued"
                               /\ e = <<tasks[u].created_at, u>>
      BY <2>1 DEF QueueInv, ReadyExact, ReadyEntry
    <3>3. t = u
      BY <3>1, <3>2, SMTT(30)
    <3> QED
      BY <1>1, <3>2, <3>3
  <2>2. e \in back(n) /\ e \in back(k) => n = k
    <3> SUFFICES ASSUME e \in back(n), e \in back(k) PROVE n = k
      OBVIOUS
    <3>1. PICK t \in R : tasks[t].namespace_id = n
                          /\ e = <<tasks[t].created_at, t>>
      BY <1>4
    <3>2. PICK u \in R : tasks[u].namespace_id = k
                          /\ e = <<tasks[u].created_at, u>>
      BY <1>4
    <3>3. t = u
      BY <3>1, <3>2, SMTT(30)
    <3> QED
      BY <3>1, <3>2, <3>3
  <2> QED
    BY <1>6, <2>1, <2>2 DEF QueueInv, ReadyOnce
<1>9. QueuedReady'
  <2> SUFFICES ASSUME NEW t \in Tasks, tasks'[t].status = "queued"
               PROVE  \E n \in Namespaces :
                        <<tasks'[t].created_at, t>> \in ready_tasks'[n]
    BY DEF QueuedReady, ReadyEntry
  <2>1. CASE t \in R
    BY <1>3, <1>4, <1>5, <1>6, <2>1
  <2>2. CASE t \notin R
    BY <1>5, <1>6, <2>2 DEF QueueInv, QueuedReady, ReadyEntry
  <2> QED
    BY <2>1, <2>2
<1>10. LeasedExpiring'
  BY <1>2, <1>5 DEF QueueInv, LeasedExpiring, ExpirationEntry
<1> QED
  BY <1>7, <1>8, <1>9, <1>10 DEF QueueInv

\* Every entry that survives recovery is claimable.
LEMMA ReadyIsClaimable ==
  ASSUME TypeOK, QueueInv, NEW n \in Namespaces, NEW now \in Nat
  PROVE  /\ ClaimableEntries(n, now) = ReadyAfterRecovery(n, now)
         /\ \A e \in ReadyAfterRecovery(n, now) : \E t \in Tasks :
              /\ e = ReadyEntry(t)
              /\ \/ tasks[t].status = "queued" /\ e \in ready_tasks[n]
                 \/ t \in RecoverableTasks(n, now)
<1> DEFINE R == RecoverableTasks(n, now)
<1>1. R \in SUBSET Tasks
  BY RecoveryTypes
<1>2. \A e : e \in ReadyAfterRecovery(n, now) <=>
        e \in ready_tasks[n] \/ \E t \in R : e = ReadyEntry(t)
  BY DEF ReadyAfterRecovery, ReadyEntry
<1> HIDE DEF R
<1>3. ASSUME NEW e \in ReadyAfterRecovery(n, now)
      PROVE  \E t \in Tasks :
               /\ e = ReadyEntry(t)
               /\ \/ tasks[t].status = "queued" /\ e \in ready_tasks[n]
                  \/ t \in R
  BY <1>1, <1>2, <1>3 DEF QueueInv, ReadyExact
<1>4. ASSUME NEW e \in ReadyAfterRecovery(n, now)
      PROVE  tasks[e[2]].status = "queued" \/ e[2] \in R
  <2>1. PICK t \in Tasks : /\ e = ReadyEntry(t)
                           /\ tasks[t].status = "queued" \/ t \in R
    BY <1>3, <1>4
  <2>2. e[2] = t
    BY <2>1, SMTT(30) DEF ReadyEntry
  <2> QED
    BY <2>1, <2>2
<1> QED
  BY <1>3, <1>4 DEF ClaimableEntries, R

\* The first entry is no entry's successor but its own.
LEMMA FirstBeforeOthers ==
  ASSUME NEW S \in SUBSET (Nat \X Tasks), NEW e, IsFirst(e, S)
  PROVE  {f \in S : Before(e, f)} = S \ {e}
<1>1. e[1] \in Nat /\ e[2] \in Nat
  <2>1. e \in Nat \X Tasks
    BY DEF IsFirst
  <2>2. e[1] \in Nat /\ e[2] \in Tasks
    BY <2>1
  <2> QED
    BY <2>2, IdentifiersAreOrdered
<1>2. ~Before(e, e)
  BY <1>1, SMTT(30) DEF Before
<1> QED
  BY <1>2 DEF IsFirst

\* A claim at time now takes t, the first of the waiting and the recovered
\* tasks, out of the heap of namespace n and registers its deadline.
ClaimQueues(t, g, n, now, d) ==
  LET R == RecoverableTasks(n, now) IN
  /\ \/ tasks[t].status = "queued" /\ ReadyEntry(t) \in ready_tasks[n]
     \/ t \in R
  /\ \A f \in ReadyAfterRecovery(n, now) :
       f = ReadyEntry(t) \/ Before(ReadyEntry(t), f)
  /\ tasks'[t].status = "leased" /\ tasks'[t].group = g
  /\ tasks'[t].expires_at = now + d
  /\ tasks'[t].lease_epoch = tasks[t].lease_epoch + 1
  /\ tasks'[t].namespace_id = tasks[t].namespace_id
  /\ \A u \in R \ {t} :
       /\ tasks'[u].status = "queued"
       /\ tasks'[u].created_at = tasks[u].created_at
       /\ tasks'[u].namespace_id = tasks[u].namespace_id
       /\ tasks'[u].lease_epoch = tasks[u].lease_epoch
  /\ \A u \in Tasks \ (R \cup {t}) : tasks'[u] = tasks[u]
  /\ ready_tasks'[n] = ReadyAfterRecovery(n, now) \ {ReadyEntry(t)}
  /\ lease_expirations'[n] =
       (lease_expirations[n] \ DueExpirations(n, now))
         \cup {<<now + d, t, tasks[t].lease_epoch + 1>>}
  /\ \A k \in Namespaces \ {n} :
       /\ ready_tasks'[k] = ready_tasks[k]
       /\ lease_expirations'[k] = lease_expirations[k]

LEMMA ClaimTaskQueues ==
  ASSUME TypeOK, QueueInv, NEW g \in Groups, NEW m \in Members,
         NEW l \in LeaseIds, NEW now \in Clock, NEW d \in Durations,
         ClaimTask(g, m, term, groups[g].generation, l, now, d)
  PROVE  /\ groups[g].namespace_id \in Namespaces /\ now \in Nat
         /\ \E t \in Tasks : ClaimQueues(t, g, groups[g].namespace_id, now, d)
<1> DEFINE n == groups[g].namespace_id
           R == RecoverableTasks(n, now)
           k == groups[g].generation
           ready == ReadyAfterRecovery(n, now)
           due == DueExpirations(n, now)
<1>1. n \in Namespaces /\ now \in Nat /\ k \in Nat /\ now + d \in Nat
  <2>1. n \in Namespaces /\ now \in Nat /\ k \in Nat
    BY ClaimTypes DEF ClaimTask
  <2> QED
    BY <2>1, ClockAssumption, SMTT(30)
<1>2. /\ R \in SUBSET Tasks /\ ready \in SUBSET (Nat \X Tasks)
      /\ \A u \in R : tasks[u].status = "leased" /\ ExpirationEntry(u) \in due
      /\ tasks \in [Tasks -> TaskRecords]
      /\ ready_tasks \in [Namespaces -> SUBSET (Nat \X Tasks)]
      /\ lease_expirations \in [Namespaces -> SUBSET (Nat \X Tasks \X Nat)]
  BY <1>1, RecoveryTypes DEF RecoverableTasks, ExpirationEntry, TypeOK
<1>3. PICK e \in ready :
        /\ IsFirst(e, ready)
        /\ tasks' = [RequeuedTasks(R) EXCEPT
             ![e[2]] = LeasedTask(@, l, g, m, k, now + d)]
        /\ ready_tasks' = [ready_tasks EXCEPT ![n] = {f \in ready : Before(e, f)}]
        /\ lease_expirations' = [lease_expirations EXCEPT
             ![n] = (@ \ due) \cup {<<now + d, e[2], tasks[e[2]].lease_epoch + 1>>}]
  <2>1. ClaimableEntries(n, now) = ready
    BY <1>1, ReadyIsClaimable
  <2> QED
    BY <2>1 DEF ClaimTask
<1>4. PICK t \in Tasks : /\ e = ReadyEntry(t)
                         /\ \/ tasks[t].status = "queued" /\ e \in ready_tasks[n]
                            \/ t \in R
  BY <1>1, ReadyIsClaimable
<1>5. e[2] = t
  BY <1>4, SMTT(30) DEF ReadyEntry
<1> HIDE DEF n, R, k, ready, due
<1>6. /\ RequeuedTasks(R) \in [Tasks -> TaskRecords]
      /\ \A u \in R : /\ RequeuedTasks(R)[u].status = "queued"
                      /\ RequeuedTasks(R)[u].namespace_id = tasks[u].namespace_id
                      /\ RequeuedTasks(R)[u].created_at = tasks[u].created_at
                      /\ RequeuedTasks(R)[u].lease_epoch = tasks[u].lease_epoch
      /\ \A u \in Tasks \ R : RequeuedTasks(R)[u] = tasks[u]
  BY <1>2, RequeuedTasksFields, SMTT(30)
<1>7. /\ tasks'[t].status = "leased"
      /\ tasks'[t].expires_at = now + d
      /\ tasks'[t].lease_epoch = tasks[t].lease_epoch + 1
      /\ tasks'[t].namespace_id = tasks[t].namespace_id
      /\ tasks'[t].group = g
  <2> DEFINE x == RequeuedTasks(R)[t]
  <2>1. tasks'[t] = LeasedTask(x, l, g, m, k, now + d)
    BY <1>3, <1>5, <1>6
  <2>2. /\ x \in TaskRecords /\ x.lease_epoch = tasks[t].lease_epoch
        /\ x.namespace_id = tasks[t].namespace_id
    BY <1>6
  <2> HIDE DEF x
  <2> QED
    BY <1>1, <2>1, <2>2, LeasedTaskFields, SMTT(30)
<1>8. \A u \in Tasks \ {t} : tasks'[u] = RequeuedTasks(R)[u]
  BY <1>3, <1>5, <1>6
<1>9. ready_tasks'[n] = ready \ {ReadyEntry(t)}
  <2>1. ready_tasks'[n] = {f \in ready : Before(e, f)}
    BY <1>1, <1>2, <1>3
  <2> QED
    BY <1>2, <1>3, <1>4, <2>1, FirstBeforeOthers
<1>10. lease_expirations'[n] =
         (lease_expirations[n] \ due) \cup {<<now + d, t, tasks[t].lease_epoch + 1>>}
  BY <1>1, <1>2, <1>3, <1>5
<1>11. \A j \in Namespaces \ {n} : /\ ready_tasks'[j] = ready_tasks[j]
                                   /\ lease_expirations'[j] = lease_expirations[j]
  BY <1>1, <1>2, <1>3
<1>12. \A f \in ready : f = ReadyEntry(t) \/ Before(ReadyEntry(t), f)
  BY <1>3, <1>4 DEF IsFirst
<1>13. /\ \A u \in R \ {t} : /\ tasks'[u].status = "queued"
                             /\ tasks'[u].created_at = tasks[u].created_at
                             /\ tasks'[u].namespace_id = tasks[u].namespace_id
                             /\ tasks'[u].lease_epoch = tasks[u].lease_epoch
       /\ \A u \in Tasks \ (R \cup {t}) : tasks'[u] = tasks[u]
  BY <1>2, <1>6, <1>8
<1> QED
  BY <1>1, <1>4, <1>7, <1>9, <1>10, <1>11, <1>12, <1>13
  DEF n, R, ready, due, ClaimQueues

LEMMA QueueClaimTask ==
  ASSUME TypeOK, QueueInv, NEW g \in Groups, NEW m \in Members,
         NEW l \in LeaseIds, NEW now \in Clock, NEW d \in Durations,
         ClaimTask(g, m, term, groups[g].generation, l, now, d)
  PROVE  QueueInv'
<1> DEFINE n == groups[g].namespace_id
           R == RecoverableTasks(n, now)
           ready == ReadyAfterRecovery(n, now)
           due == DueExpirations(n, now)
<1>1. n \in Namespaces /\ now \in Nat
  BY ClaimTaskQueues
<1>2. PICK t \in Tasks : ClaimQueues(t, g, n, now, d)
  BY ClaimTaskQueues
<1>3. R \in SUBSET Tasks /\ \A u \in R : tasks[u].status = "leased"
  BY <1>1, RecoveryTypes, ClaimableFields
<1>4. /\ \/ tasks[t].status = "queued" /\ ReadyEntry(t) \in ready_tasks[n]
         \/ t \in R
      /\ tasks'[t].status = "leased"
      /\ tasks'[t].expires_at = now + d
      /\ tasks'[t].lease_epoch = tasks[t].lease_epoch + 1
      /\ \A u \in R \ {t} : /\ tasks'[u].status = "queued"
                            /\ tasks'[u].created_at = tasks[u].created_at
      /\ \A u \in Tasks \ (R \cup {t}) : tasks'[u] = tasks[u]
      /\ ready_tasks'[n] = ready \ {ReadyEntry(t)}
      /\ lease_expirations'[n] =
           (lease_expirations[n] \ due)
             \cup {<<now + d, t, tasks[t].lease_epoch + 1>>}
      /\ \A k \in Namespaces \ {n} :
           /\ ready_tasks'[k] = ready_tasks[k]
           /\ lease_expirations'[k] = lease_expirations[k]
  BY <1>2 DEF ClaimQueues
<1>5. \A e : e \in ready <=>
        e \in ready_tasks[n] \/ \E u \in R : e = ReadyEntry(u)
  BY DEF ReadyAfterRecovery, ReadyEntry
<1>6. /\ \A k \in Namespaces : \A e \in ready_tasks[k] :
           \E u \in Tasks : tasks[u].status = "queued" /\ e = ReadyEntry(u)
      /\ \A u \in Tasks \ R : tasks[u].status = "leased" =>
           \E k \in Namespaces :
             ExpirationEntry(u) \in lease_expirations[k]
               /\ (k = n => ExpirationEntry(u) \notin due)
  <2>1. \A u \in Tasks \ R : tasks[u].status = "leased" =>
          ExpirationEntry(u) \notin due
    BY DEF RecoverableTasks, ExpirationEntry
  <2> QED
    BY <2>1 DEF QueueInv, ReadyExact, LeasedExpiring
<1> HIDE DEF n, R, ready, due
<1>7. \A u, v \in Tasks : ReadyEntry(u) = ReadyEntry(v) => u = v
  BY SMTT(30) DEF ReadyEntry
<1>8. \A u \in Tasks \ {t} : tasks'[u].created_at = tasks[u].created_at
  BY <1>4
<1>9. \A u \in Tasks \ {t} : ReadyEntry(u)' = ReadyEntry(u)
  BY <1>8 DEF ReadyEntry
\* The claimed task waits nowhere afterwards.
<1>10. \A k \in Namespaces : ReadyEntry(t) \notin ready_tasks'[k]
  <2> SUFFICES ASSUME NEW k \in Namespaces, k # n, ReadyEntry(t) \in ready_tasks[k]
               PROVE  FALSE
    BY <1>4
  <2>1. tasks[t].status = "queued"
    BY <1>6, <1>7
  <2>2. ReadyEntry(t) \in ready_tasks[n]
    BY <1>1, <1>3, <1>4, <2>1
  <2> QED
    BY <1>1, <1>3, <2>2 DEF QueueInv, ReadyOnce
<1>11. \A k \in Namespaces : \A e \in ready_tasks'[k] :
        e \in ready_tasks[k] \/ (k = n /\ \E u \in R : e = ReadyEntry(u))
  BY <1>4, <1>5
<1>12. ReadyExact'
  <2> SUFFICES ASSUME NEW k \in Namespaces, NEW e \in ready_tasks'[k]
               PROVE  \E u \in Tasks : /\ tasks'[u].status = "queued"
                                       /\ e = ReadyEntry(u)'
    BY DEF ReadyExact
  <2>1. PICK u \in Tasks : /\ e = ReadyEntry(u)
                           /\ tasks[u].status = "queued" \/ u \in R
    BY <1>1, <1>3, <1>6, <1>11
  <2>2. u # t
    BY <1>10, <2>1
  <2>3. tasks'[u].status = "queued"
    BY <1>4, <2>1, <2>2
  <2> QED
    BY <1>9, <2>1, <2>2, <2>3
<1>13. ReadyOnce'
  <2> SUFFICES ASSUME NEW k \in Namespaces, NEW j \in Namespaces,
                      NEW e \in ready_tasks'[k], e \in ready_tasks'[j]
               PROVE  k = j
    BY DEF ReadyOnce
  <2>1. ASSUME NEW i \in Namespaces, e \in ready_tasks[i], NEW u \in R,
               e = ReadyEntry(u)
        PROVE  FALSE
    BY <1>1, <1>3, <1>6, <1>7, <2>1
  <2> QED
    BY <1>11, <2>1 DEF QueueInv, ReadyOnce
<1>14. QueuedReady'
  <2> SUFFICES ASSUME NEW u \in Tasks, tasks'[u].status = "queued"
               PROVE  \E k \in Namespaces : ReadyEntry(u)' \in ready_tasks'[k]
    BY DEF QueuedReady
  <2>1. u # t /\ ReadyEntry(u)' = ReadyEntry(u) /\ ReadyEntry(u) # ReadyEntry(t)
    BY <1>4, <1>7, <1>9
  <2>2. CASE u \in R
    BY <1>1, <1>3, <1>4, <1>5, <2>1, <2>2
  <2>3. CASE u \notin R
    <3>1. PICK k \in Namespaces : ReadyEntry(u) \in ready_tasks[k]
      BY <1>4, <2>1, <2>3 DEF QueueInv, QueuedReady
    <3>2. ReadyEntry(u) \in ready_tasks'[k]
      BY <1>4, <1>5, <2>1, <3>1
    <3> QED
      BY <2>1, <3>2
  <2> QED
    BY <2>2, <2>3
<1>15. LeasedExpiring'
  <2> SUFFICES ASSUME NEW u \in Tasks, tasks'[u].status = "leased"
               PROVE  \E k \in Namespaces :
                        ExpirationEntry(u)' \in lease_expirations'[k]
    BY DEF LeasedExpiring
  <2>1. CASE u = t
    <3>1. ExpirationEntry(u)' = <<now + d, t, tasks[t].lease_epoch + 1>>
      BY <1>4, <2>1 DEF ExpirationEntry
    <3> QED
      BY <1>1, <1>3, <1>4, <3>1
  <2>2. CASE u # t
    <3>1. u \notin R /\ tasks'[u] = tasks[u]
      BY <1>4, <2>2
    <3>2. ExpirationEntry(u)' = ExpirationEntry(u)
      BY <3>1 DEF ExpirationEntry
    <3>3. PICK k \in Namespaces :
            ExpirationEntry(u) \in lease_expirations[k]
              /\ (k = n => ExpirationEntry(u) \notin due)
      BY <1>6, <3>1
    <3>4. ExpirationEntry(u) \in lease_expirations'[k]
      BY <1>4, <3>3
    <3> QED
      BY <3>2, <3>4
  <2> QED
    BY <2>1, <2>2
<1> QED
  BY <1>12, <1>13, <1>14, <1>15 DEF QueueInv

\* A claim that finds nothing drops no entry of a task that waits or is held.
LEMMA QueueClaimNothing ==
  ASSUME TypeOK, QueueInv, NEW g \in Groups, NEW m \in Members,
         NEW l \in LeaseIds, NEW now \in Clock,
         ClaimNothing(g, m, term, groups[g].generation, l, now)
  PROVE  QueueInv'
<1> DEFINE n == groups[g].namespace_id
           due == DueExpirations(n, now)
<1>1. n \in Namespaces /\ now \in Nat
  BY ClaimTypes DEF ClaimNothing
<1>2. /\ tasks' = tasks
      /\ ready_tasks' = [ready_tasks EXCEPT ![n] = {}]
      /\ lease_expirations' = [lease_expirations EXCEPT ![n] = @ \ due]
      /\ ClaimableEntries(n, now) = {}
  BY DEF ClaimNothing, state
<1>3. ReadyAfterRecovery(n, now) = {}
  BY <1>1, <1>2, ReadyIsClaimable
<1>4. ready_tasks[n] = {} /\ RecoverableTasks(n, now) = {}
  BY <1>3 DEF ReadyAfterRecovery
<1>5. /\ ready_tasks \in [Namespaces -> SUBSET (Nat \X Tasks)]
      /\ lease_expirations \in [Namespaces -> SUBSET (Nat \X Tasks \X Nat)]
  BY DEF TypeOK
<1>6. \A t \in Tasks : tasks[t].status = "leased" => ExpirationEntry(t) \notin due
  BY <1>4 DEF RecoverableTasks, ExpirationEntry
<1> HIDE DEF n, due
<1>7. \A k \in Namespaces : ready_tasks'[k] = ready_tasks[k]
  BY <1>1, <1>2, <1>4, <1>5
<1>8. \A k \in Namespaces : \A e \in lease_expirations[k] :
        e \in lease_expirations'[k] \/ e \in due
  BY <1>1, <1>2, <1>5
<1>9. ReadyExact' /\ ReadyOnce' /\ QueuedReady'
  <2>1. \A t \in Tasks : ReadyEntry(t)' = ReadyEntry(t)
    BY <1>2 DEF ReadyEntry
  <2>2. ReadyExact'
    BY <1>2, <1>7, <2>1 DEF QueueInv, ReadyExact
  <2>3. ReadyOnce'
    BY <1>7 DEF QueueInv, ReadyOnce
  <2>4. QueuedReady'
    BY <1>2, <1>7, <2>1 DEF QueueInv, QueuedReady
  <2> QED
    BY <2>2, <2>3, <2>4
<1>10. LeasedExpiring'
  BY <1>2, <1>6, <1>8 DEF QueueInv, LeasedExpiring, ExpirationEntry
<1> QED
  BY <1>9, <1>10 DEF QueueInv

LEMMA QueueUse ==
  ASSUME TypeOK, Stored, QueueInv, UseLease
  PROVE  QueueInv'
<1>1. tasks \in [Tasks -> TaskRecords]
  BY DEF TypeOK
<1>2. ASSUME NEW t \in Tasks, tasks[t].status = "leased", NEW now \in Clock,
             NEW d \in Durations, NEW g, NEW m, NEW k, NEW x, NEW l,
             RenewTaskLease(t, g, m, term, k, x, l, now, d)
      PROVE  QueueInv'
  <2> DEFINE n == tasks[t].namespace_id
             entry == <<now + d, t, tasks[t].lease_epoch>>
  <2>1. n \in Namespaces
    BY <1>2 DEF Stored, StoredTask, TypeOK
  <2>2. /\ tasks' = [tasks EXCEPT ![t].expires_at = now + d]
        /\ lease_expirations' = [lease_expirations EXCEPT ![n] = @ \cup {entry}]
        /\ ready_tasks' = ready_tasks
        /\ lease_expirations \in [Namespaces -> SUBSET (Nat \X Tasks \X Nat)]
    BY <1>2 DEF RenewTaskLease, TypeOK
  <2>3. /\ tasks'[t] = [tasks[t] EXCEPT !.expires_at = now + d]
        /\ \A u \in Tasks \ {t} : tasks'[u] = tasks[u]
    BY <1>1, <2>2
  <2>4. /\ tasks'[t].status = "leased" /\ tasks'[t].expires_at = now + d
        /\ tasks'[t].lease_epoch = tasks[t].lease_epoch
    BY <1>1, <1>2, <2>3 DEF TaskRecords
  <2> HIDE DEF n
  <2>5. entry \in lease_expirations'[n]
    <3> HIDE DEF entry
    <3> QED
      BY <2>1, <2>2
  <2>6. \A j \in Namespaces : lease_expirations[j] \subseteq lease_expirations'[j]
    <3> HIDE DEF entry
    <3> QED
      BY <2>1, <2>2
  <2>7. ExpirationEntry(t)' = entry
    BY <2>4 DEF ExpirationEntry
  <2>8. LeasedExpiring'
    BY <2>1, <2>3, <2>5, <2>6, <2>7 DEF QueueInv, LeasedExpiring, ExpirationEntry
  <2>9. ReadyExact' /\ ReadyOnce' /\ QueuedReady'
    <3>1. \A u \in Tasks : tasks'[u].status = "queued" \/ tasks[u].status = "queued"
                             => tasks'[u] = tasks[u]
      BY <1>2, <2>3, <2>4
    <3> QED
      <4>1. ReadyExact'
        BY <2>2, <3>1 DEF QueueInv, ReadyExact, ReadyEntry
      <4>2. QueuedReady'
        BY <2>2, <3>1 DEF QueueInv, QueuedReady, ReadyEntry
      <4> QED
        BY <2>2, <4>1, <4>2 DEF QueueInv, ReadyOnce
  <2> QED
    BY <2>8, <2>9 DEF QueueInv
<1>3. ASSUME NEW t \in Tasks, tasks[t].status = "leased", NEW now \in Clock,
             NEW r \in Results, NEW g, NEW m, NEW k, NEW x, NEW l,
             CompleteTask(t, g, m, term, k, x, l, r, now)
      PROVE  QueueInv'
  <2>1. /\ tasks' = [tasks EXCEPT ![t] = CompletedTask(@, r, now)]
        /\ UNCHANGED <<ready_tasks, lease_expirations>>
    BY <1>3 DEF CompleteTask
  <2>2. /\ tasks'[t] = CompletedTask(tasks[t], r, now)
        /\ \A u \in Tasks \ {t} : tasks'[u] = tasks[u]
    BY <1>1, <2>1
  <2>3. tasks'[t].status = "completed"
    <3>1. CompletedTask(tasks[t], r, now).status = "completed"
      BY <1>1 DEF CompletedTask, TaskRecords
    <3> QED
      BY <2>2, <3>1
  <2> QED
    BY <1>3, <2>1, <2>2, <2>3, QueueFrame
<1> QED
  BY <1>2, <1>3 DEF UseLease

LEMMA QueuePrune ==
  ASSUME TypeOK, QueueInv, NEW cutoff \in Clock, NEW max \in Batches,
         PruneCompletedTasks(cutoff, max)
  PROVE  QueueInv'
<1> DEFINE selected == PruneSelection(cutoff, max)
           pruned == {e[2] : e \in selected}
<1>1. \A t \in pruned : tasks[t].status = "completed"
  BY DEF PruneSelection
<1>2. /\ tasks' = [t \in Tasks |-> IF t \in pruned THEN AbsentTask ELSE tasks[t]]
      /\ UNCHANGED <<ready_tasks, lease_expirations>>
  BY DEF PruneCompletedTasks
<1> HIDE DEF pruned
<1>3. \A t \in Tasks : \/ tasks'[t] = tasks[t]
                       \/ /\ tasks[t].status # "queued"
                          /\ tasks'[t].status \notin {"queued", "leased"}
  BY <1>1, <1>2, AbsentTaskFields
<1> QED
  BY <1>2, <1>3, QueueFrame

LEMMA QueueFromCheckpoint ==
  ASSUME TypeOK, Stored, FromCheckpoint
  PROVE  QueueInv'
<1>1. /\ tasks' = tasks
      /\ ready_tasks' = RebuiltReady /\ lease_expirations' = RebuiltExpirations
  BY DEF FromCheckpoint, state
<1>2. /\ \A n \in Namespaces : \A e : e \in ready_tasks'[n] <=>
           \E t \in Tasks : /\ tasks[t].status = "queued"
                            /\ tasks[t].namespace_id = n /\ e = ReadyEntry(t)
      /\ \A n \in Namespaces : \A e : e \in lease_expirations'[n] <=>
           \E t \in Tasks : /\ tasks[t].status = "leased"
                            /\ tasks[t].namespace_id = n /\ e = ExpirationEntry(t)
  BY <1>1 DEF RebuiltReady, RebuiltExpirations, TasksIn, ReadyEntry, ExpirationEntry
<1>3. \A t \in Tasks : tasks[t].status # "absent" =>
        tasks[t].namespace_id \in Namespaces
  BY DEF Stored, StoredTask, TypeOK
<1>4. \A t \in Tasks : /\ ReadyEntry(t)' = ReadyEntry(t)
                       /\ ExpirationEntry(t)' = ExpirationEntry(t)
  BY <1>1 DEF ReadyEntry, ExpirationEntry
<1>5. \A t, u \in Tasks : ReadyEntry(t) = ReadyEntry(u) => t = u
  BY SMTT(30) DEF ReadyEntry
<1>6. ReadyExact'
  <2> SUFFICES ASSUME NEW n \in Namespaces, NEW e \in ready_tasks'[n]
               PROVE  \E t \in Tasks : /\ tasks'[t].status = "queued"
                                       /\ e = ReadyEntry(t)'
    BY DEF ReadyExact
  <2>1. PICK t \in Tasks : tasks[t].status = "queued" /\ e = ReadyEntry(t)
    BY <1>2, SMTT(30)
  <2> QED
    BY <1>1, <1>4, <2>1
<1>7. ReadyOnce'
  <2> SUFFICES ASSUME NEW n \in Namespaces, NEW k \in Namespaces,
                      NEW e \in ready_tasks'[n], e \in ready_tasks'[k]
               PROVE  n = k
    BY DEF ReadyOnce
  <2>1. PICK t \in Tasks : tasks[t].namespace_id = n /\ e = ReadyEntry(t)
    BY <1>2, SMTT(30)
  <2>2. PICK u \in Tasks : tasks[u].namespace_id = k /\ e = ReadyEntry(u)
    BY <1>2, SMTT(30)
  <2> QED
    BY <1>5, <2>1, <2>2
<1>8. QueuedReady'
  <2> SUFFICES ASSUME NEW t \in Tasks, tasks'[t].status = "queued"
               PROVE  \E n \in Namespaces : ReadyEntry(t)' \in ready_tasks'[n]
    BY DEF QueuedReady
  <2>1. tasks[t].status = "queued" /\ tasks[t].namespace_id \in Namespaces
    BY <1>1, <1>3
  <2>2. ReadyEntry(t) \in ready_tasks'[tasks[t].namespace_id]
    BY <1>2, <2>1
  <2> QED
    BY <1>4, <2>1, <2>2
<1>9. LeasedExpiring'
  <2> SUFFICES ASSUME NEW t \in Tasks, tasks'[t].status = "leased"
               PROVE  \E n \in Namespaces :
                        ExpirationEntry(t)' \in lease_expirations'[n]
    BY DEF LeasedExpiring
  <2>1. tasks[t].status = "leased" /\ tasks[t].namespace_id \in Namespaces
    BY <1>1, <1>3
  <2>2. ExpirationEntry(t) \in lease_expirations'[tasks[t].namespace_id]
    BY <1>2, <2>1
  <2> QED
    BY <1>4, <2>1, <2>2
<1> QED
  BY <1>6, <1>7, <1>8, <1>9 DEF QueueInv

LEMMA NoOverflow ==
  ASSUME DeadlinesFit, NEW g, NEW m, NEW e, NEW k, NEW l, NEW now \in Clock,
         NEW d \in Durations
  PROVE  ~ClaimTaskOverflow(g, m, e, k, l, now, d)
BY ClockAssumption, SMTT(30) DEF DeadlinesFit, ClaimTaskOverflow

LEMMA QueueStep ==
  ASSUME DeadlinesFit, TypeOK, Stored, QueueInv, [Next]_vars
  PROVE  QueueInv'
<1>1. ASSUME UNCHANGED <<tasks, ready_tasks, lease_expirations>>
      PROVE  QueueInv'
  BY <1>1, QueueFrame
<1>2. CASE Membership
  <2>1. ASSUME NEW g \in Groups, NEW m \in Members,
               LeaveConsumerGroup(g, m, groups[g].generation)
        PROVE  QueueInv'
    <3>1. {<<g, m>>} \in SUBSET (Groups \X Members)
      BY SMTT(30)
    <3> QED
      BY <2>1, <3>1, QueueRemoveMembers DEF LeaveConsumerGroup
  <2>2. ASSUME NEW g \in Groups, NEW m \in Members, NEW now \in Clock
        PROVE  /\ \A c \in Capabilities :
                    JoinConsumerGroup(g, m, c, now) => QueueInv'
               /\ HeartbeatConsumerGroup(g, m, groups[g].generation, now)
                    => QueueInv'
    BY <1>1 DEF JoinConsumerGroup, HeartbeatConsumerGroup, indexes
  <2> QED
    BY <1>2, <2>1, <2>2 DEF Membership
<1>3. CASE Claim
  BY <1>3, QueueClaimNothing, QueueClaimTask, NoOverflow DEF Claim
<1>4. CASE Maintain
  BY <1>4, ReapedTypes, QueueRemoveMembers, QueuePrune
  DEF Maintain, ReapStaleMembers
<1>5. ASSUME NEW new_term \in 1..MaxTerm, AdvanceTerm(term, new_term)
      PROVE  QueueInv'
  BY <1>1, <1>5 DEF AdvanceTerm, indexes
<1>6. CASE UNCHANGED vars
  BY <1>1, <1>6 DEF vars, state, indexes
<1> QED
  BY <1>2, <1>3, <1>4, <1>5, <1>6, QueueRegister, QueueUse, QueueFromCheckpoint
  DEF Next

LEMMA QueueInvariant == DeadlinesFit => (Spec => []QueueInv)
<1> SUFFICES ASSUME DeadlinesFit PROVE Spec => []QueueInv
  OBVIOUS
<1>1. Init => QueueInv
  BY QueueInit
<1>2. TypeOK /\ Stored /\ QueueInv /\ [Next]_vars => QueueInv'
  BY QueueStep
<1> QED
  BY <1>1, <1>2, TypeCorrect, StoredInvariant, PTL DEF Spec

LEMMA QueueInvKeepsTasks ==
  ASSUME QueueInv
  PROVE  NoTaskLost
<1> SUFFICES ASSUME NEW t \in Tasks
             PROVE  LET waiting == {n \in Namespaces : ReadyEntry(t)
                                                         \in ready_tasks[n]}
                        expiring == {n \in Namespaces :
                                       ExpirationEntry(t) \in lease_expirations[n]}
                    IN  /\ tasks[t].status = "queued" =>
                             \E n \in Namespaces : waiting = {n}
                        /\ tasks[t].status # "queued" => waiting = {}
                        /\ tasks[t].status = "leased" => expiring # {}
  BY DEF NoTaskLost, ReadyEntry, ExpirationEntry
<1> DEFINE waiting == {n \in Namespaces : ReadyEntry(t) \in ready_tasks[n]}
           expiring == {n \in Namespaces :
                          ExpirationEntry(t) \in lease_expirations[n]}
<1>1. ASSUME tasks[t].status = "queued"
      PROVE  \E n \in Namespaces : waiting = {n}
  <2>1. PICK n \in Namespaces : ReadyEntry(t) \in ready_tasks[n]
    BY <1>1 DEF QueueInv, QueuedReady
  <2>2. waiting = {n}
    BY <2>1 DEF QueueInv, ReadyOnce
  <2> QED
    BY <2>2
<1>2. ASSUME NEW n \in waiting
      PROVE  tasks[t].status = "queued"
  <2>1. PICK u \in Tasks : tasks[u].status = "queued" /\ ReadyEntry(t) = ReadyEntry(u)
    BY <1>2 DEF QueueInv, ReadyExact
  <2>2. t = u
    BY <2>1, SMTT(30) DEF ReadyEntry
  <2> QED
    BY <2>1, <2>2
<1>3. tasks[t].status = "leased" => expiring # {}
  BY DEF QueueInv, LeasedExpiring
<1> QED
  BY <1>1, <1>2, <1>3

\* No command sequence loses a task, provided deadlines fit a timestamp: a
\* queued task waits in exactly one ready heap of the broker, and the heap of
\* expirations keeps an entry that will return every leased one.
THEOREM NoTaskEverLost == DeadlinesFit => (Spec => []NoTaskLost)
<1> SUFFICES ASSUME DeadlinesFit PROVE Spec => []NoTaskLost
  OBVIOUS
<1>1. QueueInv => NoTaskLost
  BY QueueInvKeepsTasks
<1> QED
  BY <1>1, QueueInvariant, PTL

-----------------------------------------------------------------------------
(* The completion heap and the counters of each namespace.  They hold      *)
(* exactly what rebuild_indexes would compute: a pruned task leaves the    *)
(* heap and gives its room back, whatever the batch limit cuts off.        *)

CompletedEntry(t) == <<tasks[t].completed_at, t>>
StoredIn(n) == {t \in Tasks : tasks[t].status # "absent"
                                /\ tasks[t].namespace_id = n}
GroupsIn(n) == {g \in Groups : groups[g].namespace_id = n}

CompletedExact ==
  \A e : e \in completed_tasks <=>
    \E t \in Tasks : tasks[t].status = "completed" /\ e = CompletedEntry(t)

TaskCountsExact ==
  \A n \in Namespaces : namespace_task_counts[n] = Cardinality(StoredIn(n))

GroupCountsExact ==
  \A n \in Namespaces : namespace_group_counts[n] = Cardinality(GroupsIn(n))

CountInv == CompletedExact /\ TaskCountsExact /\ GroupCountsExact

LEMMA CountedSetsFinite ==
  ASSUME NEW n
  PROVE  /\ IsFiniteSet(StoredIn(n)) /\ Cardinality(StoredIn(n)) \in Nat
         /\ IsFiniteSet(GroupsIn(n)) /\ Cardinality(GroupsIn(n)) \in Nat
<1>1. StoredIn(n) \in SUBSET Tasks /\ GroupsIn(n) \in SUBSET Groups
  BY DEF StoredIn, GroupsIn
<1>2. IsFiniteSet(StoredIn(n)) /\ IsFiniteSet(GroupsIn(n))
  BY <1>1, FS_Subset, IdentifiersAreFinite
<1> QED
  BY <1>2, FS_CardinalityType

\* The invariant says what rebuild_indexes says.
LEMMA CountInvIsRebuilt ==
  ASSUME TypeOK, CountInv
  PROVE  /\ completed_tasks = RebuiltCompleted
         /\ namespace_task_counts = RebuiltTaskCounts
         /\ namespace_group_counts = RebuiltGroupCounts
<1>1. completed_tasks = RebuiltCompleted
  BY DEF CountInv, CompletedExact, CompletedEntry, RebuiltCompleted
<1>2. RebuiltTaskCounts = [n \in Namespaces |-> Cardinality(StoredIn(n))]
  BY DEF RebuiltTaskCounts, StoredIn
<1>3. RebuiltGroupCounts = [n \in Namespaces |-> Cardinality(GroupsIn(n))]
  BY DEF RebuiltGroupCounts, GroupsIn
<1> QED
  BY <1>1, <1>2, <1>3 DEF CountInv, TaskCountsExact, GroupCountsExact, TypeOK

\* What a step leaves of a task for the heap and the counters not to change.
StaysCompleted(t) ==
  /\ tasks'[t].status = "completed" <=> tasks[t].status = "completed"
  /\ tasks[t].status = "completed" =>
       tasks'[t].completed_at = tasks[t].completed_at

StaysStored(t) ==
  /\ tasks'[t].status = "absent" <=> tasks[t].status = "absent"
  /\ tasks[t].status # "absent" =>
       tasks'[t].namespace_id = tasks[t].namespace_id

LEMMA CompletedFrame ==
  ASSUME CompletedExact, UNCHANGED completed_tasks,
         \A t \in Tasks : StaysCompleted(t)
  PROVE  CompletedExact'
<1>1. \A t \in Tasks : tasks[t].status = "completed" =>
        CompletedEntry(t)' = CompletedEntry(t)
  BY DEF StaysCompleted, CompletedEntry
<1> QED
  BY <1>1, SMTT(30) DEF CompletedExact, StaysCompleted

LEMMA TaskCountsFrame ==
  ASSUME TaskCountsExact, UNCHANGED namespace_task_counts,
         \A t \in Tasks : StaysStored(t)
  PROVE  TaskCountsExact'
<1>1. \A n \in Namespaces : StoredIn(n)' = StoredIn(n)
  BY DEF StoredIn, StaysStored
<1> QED
  BY <1>1 DEF TaskCountsExact

LEMMA GroupCountsFrame ==
  ASSUME GroupCountsExact, UNCHANGED namespace_group_counts,
         \A g \in Groups : groups'[g].namespace_id = groups[g].namespace_id
  PROVE  GroupCountsExact'
<1>1. \A n \in Namespaces : GroupsIn(n)' = GroupsIn(n)
  BY DEF GroupsIn
<1> QED
  BY <1>1 DEF GroupCountsExact

\* A step that stores, completes and deletes nothing.
LEMMA CountFrame ==
  ASSUME CountInv,
         UNCHANGED <<completed_tasks, namespace_task_counts, namespace_group_counts>>,
         \A t \in Tasks : StaysCompleted(t) /\ StaysStored(t),
         \A g \in Groups : groups'[g].namespace_id = groups[g].namespace_id
  PROVE  CountInv'
BY CompletedFrame, TaskCountsFrame, GroupCountsFrame DEF CountInv

LEMMA SameStays ==
  ASSUME NEW t, tasks'[t] = tasks[t]
  PROVE  StaysCompleted(t) /\ StaysStored(t)
BY DEF StaysCompleted, StaysStored

\* Returning leased tasks to the queue is such a step for every task.
LEMMA RequeueStays ==
  ASSUME TypeOK, NEW R \in SUBSET Tasks, \A t \in R : tasks[t].status = "leased",
         NEW t \in Tasks, tasks'[t] = RequeuedTasks(R)[t]
  PROVE  StaysCompleted(t) /\ StaysStored(t)
<1>1. tasks \in [Tasks -> TaskRecords]
  BY DEF TypeOK
<1>2. CASE t \in R
  <2>1. /\ RequeuedTasks(R)[t].status = "queued"
        /\ RequeuedTasks(R)[t].namespace_id = tasks[t].namespace_id
    BY <1>1, <1>2, RequeuedTasksFields, SMTT(30)
  <2> QED
    BY <1>2, <2>1 DEF StaysCompleted, StaysStored
<1>3. CASE t \notin R
  <2>1. RequeuedTasks(R)[t] = tasks[t]
    BY <1>3 DEF RequeuedTasks
  <2> QED
    BY <2>1, SameStays
<1> QED
  BY <1>2, <1>3

LEMMA CountInit == Init => CountInv
<1> SUFFICES ASSUME Init PROVE CountInv
  OBVIOUS
<1>1. /\ \A t \in Tasks : tasks[t].status = "absent"
      /\ \A g \in Groups : groups[g].namespace_id = None
      /\ completed_tasks = {}
      /\ \A n \in Namespaces : /\ namespace_task_counts[n] = 0
                               /\ namespace_group_counts[n] = 0
  BY AbsentTaskFields DEF Init, AbsentGroup
<1>2. \A n \in Namespaces : StoredIn(n) = {} /\ GroupsIn(n) = {}
  BY <1>1, NoneIsNoValue DEF StoredIn, GroupsIn
<1> QED
  BY <1>1, <1>2, FS_EmptySet
  DEF CountInv, CompletedExact, TaskCountsExact, GroupCountsExact

LEMMA CountRegister ==
  ASSUME TypeOK, CountInv, Register
  PROVE  CountInv'
<1>1. ASSUME NEW n \in Namespaces, EnsureNamespace(n)
      PROVE  CountInv'
  BY <1>1, CountFrame, SameStays DEF EnsureNamespace, indexes
<1>2. ASSUME NEW n \in Namespaces, NEW g \in Groups, EnsureConsumerGroup(n, g)
      PROVE  CountInv'
  <2>1. /\ groups \in [Groups -> GroupRecords]
        /\ namespace_group_counts \in [Namespaces -> Nat]
    BY DEF TypeOK
  <2>2. /\ groups[g].namespace_id = None /\ None # n
        /\ groups' = [groups EXCEPT ![g].namespace_id = n]
        /\ namespace_group_counts' = [namespace_group_counts EXCEPT ![n] = @ + 1]
        /\ UNCHANGED <<tasks, completed_tasks, namespace_task_counts>>
    BY <1>2, NoneIsNoValue DEF EnsureConsumerGroup
  <2>3. /\ groups'[g] = [groups[g] EXCEPT !.namespace_id = n]
        /\ \A h \in Groups \ {g} : groups'[h] = groups[h]
    BY <2>1, <2>2
  <2>4. groups'[g].namespace_id = n
    BY <2>1, <2>3 DEF GroupRecords
  <2>5. /\ g \notin GroupsIn(n) /\ GroupsIn(n)' = GroupsIn(n) \cup {g}
        /\ \A k \in Namespaces \ {n} : GroupsIn(k)' = GroupsIn(k)
    BY <2>2, <2>3, <2>4, NoneIsNoValue DEF GroupsIn
  <2>6. Cardinality(GroupsIn(n)') = Cardinality(GroupsIn(n)) + 1
    BY <2>5, CountedSetsFinite, FS_AddElement
  <2>7. /\ namespace_group_counts'[n] = namespace_group_counts[n] + 1
        /\ \A k \in Namespaces \ {n} :
             namespace_group_counts'[k] = namespace_group_counts[k]
    BY <2>1, <2>2
  <2>8. GroupCountsExact'
    BY <2>5, <2>6, <2>7 DEF CountInv, GroupCountsExact
  <2> QED
    BY <2>2, <2>8, SameStays, CompletedFrame, TaskCountsFrame DEF CountInv
<1>3. ASSUME NEW n \in Namespaces, NEW t \in Tasks, NEW o \in Objectives,
             NEW now \in Clock, PublishTask(n, t, o, now)
      PROVE  CountInv'
  <2>1. /\ tasks \in [Tasks -> TaskRecords] /\ now \in Nat
        /\ namespace_task_counts \in [Namespaces -> Nat]
    BY ClockAssumption DEF TypeOK
  <2>2. /\ tasks[t].status = "absent"
        /\ tasks' = [tasks EXCEPT ![t] = QueuedTask(n, o, now)]
        /\ namespace_task_counts' = [namespace_task_counts EXCEPT ![n] = @ + 1]
        /\ UNCHANGED <<groups, completed_tasks, namespace_group_counts>>
    BY <1>3 DEF PublishTask
  <2>3. /\ tasks'[t] = QueuedTask(n, o, now)
        /\ \A u \in Tasks \ {t} : tasks'[u] = tasks[u]
    BY <2>1, <2>2
  <2>4. tasks'[t].status = "queued" /\ tasks'[t].namespace_id = n
    <3>1. /\ QueuedTask(n, o, now).status = "queued"
          /\ QueuedTask(n, o, now).namespace_id = n
      BY <2>1, QueuedTaskFields
    <3> QED
      BY <2>3, <3>1
  <2>5. /\ t \notin StoredIn(n) /\ StoredIn(n)' = StoredIn(n) \cup {t}
        /\ \A k \in Namespaces \ {n} : StoredIn(k)' = StoredIn(k)
    BY <2>2, <2>3, <2>4 DEF StoredIn
  <2>6. Cardinality(StoredIn(n)') = Cardinality(StoredIn(n)) + 1
    BY <2>5, CountedSetsFinite, FS_AddElement
  <2>7. /\ namespace_task_counts'[n] = namespace_task_counts[n] + 1
        /\ \A k \in Namespaces \ {n} :
             namespace_task_counts'[k] = namespace_task_counts[k]
    BY <2>1, <2>2
  <2>8. TaskCountsExact'
    BY <2>5, <2>6, <2>7 DEF CountInv, TaskCountsExact
  <2>9. \A u \in Tasks : StaysCompleted(u)
    BY <2>2, <2>3, <2>4 DEF StaysCompleted
  <2> QED
    BY <2>2, <2>8, <2>9, CompletedFrame, GroupCountsFrame DEF CountInv
<1> QED
  BY <1>1, <1>2, <1>3 DEF Register

LEMMA CountRemoveMembers ==
  ASSUME TypeOK, CountInv, NEW P \in SUBSET (Groups \X Members), RemoveMembers(P)
  PROVE  CountInv'
<1> DEFINE R == LeasedBy(P)
<1>1. R \in SUBSET Tasks /\ \A t \in R : tasks[t].status = "leased"
  BY LeasedByTypes DEF LeasedBy
<1>2. /\ tasks' = RequeuedTasks(R)
      /\ UNCHANGED <<completed_tasks, namespace_task_counts, namespace_group_counts>>
  BY DEF RemoveMembers, RequeueMemberLeases
<1> HIDE DEF R
<1>3. \A t \in Tasks : StaysCompleted(t) /\ StaysStored(t)
  BY <1>1, <1>2, RequeueStays
<1>4. ASSUME NEW g \in Groups
      PROVE  groups'[g].namespace_id = groups[g].namespace_id
  <2> DEFINE gone == {m \in Members : <<g, m>> \in P}
  <2>1. /\ gone \in SUBSET Members /\ groups[g] \in GroupRecords
        /\ groups'[g] \in {groups[g], WithoutMembers(groups[g], gone)}
    BY DEF RemoveMembers, TypeOK
  <2> HIDE DEF gone
  <2>2. WithoutMembers(groups[g], gone).namespace_id = groups[g].namespace_id
    BY <2>1, WithoutMembersFields
  <2> QED
    BY <2>1, <2>2
<1> QED
  BY <1>2, <1>3, <1>4, CountFrame

LEMMA CountMembership ==
  ASSUME TypeOK, CountInv, Membership
  PROVE  CountInv'
<1>1. ASSUME UNCHANGED <<tasks, completed_tasks, namespace_task_counts,
                         namespace_group_counts>>,
             \A g \in Groups : groups'[g].namespace_id = groups[g].namespace_id
      PROVE  CountInv'
  BY <1>1, CountFrame, SameStays
<1>2. ASSUME NEW g \in Groups, NEW m \in Members, NEW c \in Capabilities,
             NEW now \in Clock, JoinConsumerGroup(g, m, c, now)
      PROVE  CountInv'
  <2>1. groups \in [Groups -> GroupRecords]
    BY DEF TypeOK
  <2>2. /\ groups' = groups \/ groups' = [groups EXCEPT ![g] = WithMember(@, m)]
        /\ UNCHANGED <<tasks, indexes>>
    BY <1>2 DEF JoinConsumerGroup
  <2>3. WithMember(groups[g], m).namespace_id = groups[g].namespace_id
    BY <2>1, WithMemberFields
  <2>4. \A h \in Groups : groups'[h].namespace_id = groups[h].namespace_id
    BY <2>1, <2>2, <2>3
  <2> QED
    BY <1>1, <2>2, <2>4 DEF indexes
<1>3. ASSUME NEW g \in Groups, NEW m \in Members, NEW now \in Clock,
             HeartbeatConsumerGroup(g, m, groups[g].generation, now)
      PROVE  CountInv'
  BY <1>1, <1>3 DEF HeartbeatConsumerGroup, indexes
<1>4. ASSUME NEW g \in Groups, NEW m \in Members,
             LeaveConsumerGroup(g, m, groups[g].generation)
      PROVE  CountInv'
  <2>1. {<<g, m>>} \in SUBSET (Groups \X Members)
    BY SMTT(30)
  <2> QED
    BY <1>4, <2>1, CountRemoveMembers DEF LeaveConsumerGroup
<1> QED
  BY <1>2, <1>3, <1>4 DEF Membership

LEMMA CountClaim ==
  ASSUME TypeOK, CountInv, Claim
  PROVE  CountInv'
<1>1. PICK g \in Groups, m \in Members, l \in LeaseIds, now \in Clock :
        \/ ClaimNothing(g, m, term, groups[g].generation, l, now)
        \/ \E d \in Durations :
             \/ ClaimTask(g, m, term, groups[g].generation, l, now, d)
             \/ ClaimTaskOverflow(g, m, term, groups[g].generation, l, now, d)
  BY DEF Claim
<1> DEFINE n == groups[g].namespace_id
           R == RecoverableTasks(n, now)
<1>2. /\ n \in Namespaces /\ now \in Nat /\ R \in SUBSET Tasks
      /\ \A t \in R : tasks[t].status = "leased"
      /\ groups[g].generation \in Nat
  <2>1. /\ n \in Namespaces /\ now \in Nat
        /\ groups[g].generation \in Nat
    BY <1>1, ClaimTypes DEF ClaimNothing, ClaimTask, ClaimTaskOverflow
  <2> QED
    BY <2>1, RecoveryTypes, ClaimableFields
<1>3. UNCHANGED <<groups, completed_tasks, namespace_task_counts,
                  namespace_group_counts>>
  BY <1>1 DEF ClaimNothing, ClaimTask, ClaimTaskOverflow, state
<1>4. CASE ClaimNothing(g, m, term, groups[g].generation, l, now)
  BY <1>3, <1>4, CountFrame, SameStays DEF ClaimNothing, state
<1>5. ASSUME NEW d \in Durations,
             ClaimTask(g, m, term, groups[g].generation, l, now, d)
      PROVE  CountInv'
  <2> DEFINE k == groups[g].generation
  <2>1. PICK e \in ClaimableEntries(n, now) :
          tasks' = [RequeuedTasks(R) EXCEPT
                      ![e[2]] = LeasedTask(@, l, g, m, k, now + d)]
    BY <1>5 DEF ClaimTask
  <2> DEFINE t == e[2]
             x == RequeuedTasks(R)[t]
  <2>2. t \in Tasks /\ (tasks[t].status = "queued" \/ t \in R)
    BY <1>2, ClaimableFields
  <2> HIDE DEF n, R, t, k
  <2>3. /\ RequeuedTasks(R) \in [Tasks -> TaskRecords]
        /\ x.namespace_id = tasks[t].namespace_id
    <3>1. tasks \in [Tasks -> TaskRecords]
      BY DEF TypeOK
    <3> QED
      BY <1>2, <2>2, <3>1, RequeuedTasksFields, SMTT(30)
  <2>4. /\ tasks'[t] = LeasedTask(x, l, g, m, k, now + d)
        /\ \A u \in Tasks \ {t} : tasks'[u] = RequeuedTasks(R)[u]
    BY <2>1, <2>2, <2>3 DEF t
  <2>5. /\ x \in TaskRecords /\ now + d \in Nat /\ k \in Nat
    BY <1>2, <2>2, <2>3, ClockAssumption, SMTT(30) DEF k
  <2> HIDE DEF x
  <2>6. tasks'[t].status = "leased" /\ tasks'[t].namespace_id = x.namespace_id
    BY <2>4, <2>5, LeasedTaskFields, SMTT(30)
  <2>7. StaysCompleted(t) /\ StaysStored(t)
    BY <1>2, <2>2, <2>3, <2>6 DEF StaysCompleted, StaysStored
  <2>8. \A u \in Tasks \ {t} : StaysCompleted(u) /\ StaysStored(u)
    BY <1>2, <2>4, RequeueStays
  <2> QED
    BY <1>3, <2>7, <2>8, CountFrame
<1>6. ASSUME NEW d \in Durations,
             ClaimTaskOverflow(g, m, term, groups[g].generation, l, now, d)
      PROVE  CountInv'
  <2>1. tasks' = RequeuedTasks(R)
    BY <1>6 DEF ClaimTaskOverflow
  <2> HIDE DEF n, R
  <2>2. \A t \in Tasks : StaysCompleted(t) /\ StaysStored(t)
    BY <1>2, <2>1, RequeueStays
  <2> QED
    BY <1>3, <2>2, CountFrame
<1> QED
  BY <1>1, <1>4, <1>5, <1>6

LEMMA CountUse ==
  ASSUME TypeOK, CountInv, UseLease
  PROVE  CountInv'
<1>1. tasks \in [Tasks -> TaskRecords]
  BY DEF TypeOK
<1>2. ASSUME NEW t \in Tasks, tasks[t].status = "leased", NEW now \in Clock,
             NEW d \in Durations, NEW g, NEW m, NEW k, NEW x, NEW l,
             RenewTaskLease(t, g, m, term, k, x, l, now, d)
      PROVE  CountInv'
  <2>1. /\ tasks' = [tasks EXCEPT ![t].expires_at = now + d]
        /\ UNCHANGED <<groups, completed_tasks, namespace_task_counts,
                       namespace_group_counts>>
    BY <1>2 DEF RenewTaskLease
  <2>2. /\ tasks'[t] = [tasks[t] EXCEPT !.expires_at = now + d]
        /\ \A u \in Tasks \ {t} : tasks'[u] = tasks[u]
    BY <1>1, <2>1
  <2>3. /\ tasks'[t].status = "leased"
        /\ tasks'[t].namespace_id = tasks[t].namespace_id
    BY <1>1, <1>2, <2>2 DEF TaskRecords
  <2>4. StaysCompleted(t) /\ StaysStored(t)
    BY <1>2, <2>3 DEF StaysCompleted, StaysStored
  <2> QED
    BY <2>1, <2>2, <2>4, SameStays, CountFrame
<1>3. ASSUME NEW t \in Tasks, tasks[t].status = "leased", NEW now \in Clock,
             NEW r \in Results, NEW g, NEW m, NEW k, NEW x, NEW l,
             CompleteTask(t, g, m, term, k, x, l, r, now)
      PROVE  CountInv'
  <2>1. /\ tasks' = [tasks EXCEPT ![t] = CompletedTask(@, r, now)]
        /\ completed_tasks' = completed_tasks \cup {<<now, t>>}
        /\ UNCHANGED <<groups, namespace_task_counts, namespace_group_counts>>
    BY <1>3 DEF CompleteTask
  <2>2. /\ tasks'[t] = CompletedTask(tasks[t], r, now)
        /\ \A u \in Tasks \ {t} : tasks'[u] = tasks[u]
    BY <1>1, <2>1
  <2>3. /\ tasks'[t].status = "completed" /\ tasks'[t].completed_at = now
        /\ tasks'[t].namespace_id = tasks[t].namespace_id
    <3>1. LET y == CompletedTask(tasks[t], r, now) IN
            /\ y.status = "completed" /\ y.completed_at = now
            /\ y.namespace_id = tasks[t].namespace_id
      BY <1>1 DEF CompletedTask, TaskRecords
    <3> QED
      BY <2>2, <3>1
  <2>4. CompletedExact'
    <3>1. /\ CompletedEntry(t)' = <<now, t>>
          /\ \A u \in Tasks \ {t} : CompletedEntry(u)' = CompletedEntry(u)
      BY <2>2, <2>3 DEF CompletedEntry
    <3>2. ASSUME NEW e
          PROVE  e \in completed_tasks' <=>
                   \E u \in Tasks : /\ tasks'[u].status = "completed"
                                    /\ e = CompletedEntry(u)'
      <4>1. e \in completed_tasks <=>
              \E u \in Tasks : tasks[u].status = "completed" /\ e = CompletedEntry(u)
        BY DEF CountInv, CompletedExact
      <4>2. e \in completed_tasks' <=> e \in completed_tasks \/ e = <<now, t>>
        BY <2>1
      <4> HIDE DEF CompletedEntry
      <4> QED
        BY <1>3, <2>2, <2>3, <3>1, <4>1, <4>2, SMTT(30)
    <3> QED
      BY <3>2 DEF CompletedExact
  <2>5. \A u \in Tasks : StaysStored(u)
    BY <1>3, <2>2, <2>3 DEF StaysStored
  <2> QED
    BY <2>1, <2>4, <2>5, TaskCountsFrame, GroupCountsFrame DEF CountInv
<1> QED
  BY <1>2, <1>3 DEF UseLease

\* The order of heap entries is total, and each entry follows those before
\* the ones it follows.
LEMMA BeforeOrder ==
  ASSUME NEW e \in Nat \X Tasks, NEW f \in Nat \X Tasks
  PROVE  /\ ~Before(e, e)
         /\ e # f => Before(e, f) \/ Before(f, e)
         /\ ~(Before(e, f) /\ Before(f, e))
         /\ \A h \in Nat \X Tasks : Before(h, e) /\ Before(e, f) => Before(h, f)
<1>1. \A x \in Nat \X Tasks : /\ x = <<x[1], x[2]>>
                              /\ x[1] \in Nat /\ x[2] \in Nat
  <2> SUFFICES ASSUME NEW x \in Nat \X Tasks
               PROVE  x = <<x[1], x[2]>> /\ x[1] \in Nat /\ x[2] \in Nat
    OBVIOUS
  <2>1. x[1] \in Nat /\ x[2] \in Tasks
    OBVIOUS
  <2>2. x = <<x[1], x[2]>>
    BY SMTT(30)
  <2> QED
    BY <2>1, <2>2, IdentifiersAreOrdered
<1>2. e # f => e[1] # f[1] \/ e[2] # f[2]
  BY <1>1
<1> QED
  BY <1>1, <1>2, SMTT(30) DEF Before

LEMMA CompletedFinite ==
  ASSUME TypeOK, CompletedExact
  PROVE  IsFiniteSet(completed_tasks)
<1> DEFINE f == [e \in completed_tasks |-> e[2]]
<1>1. completed_tasks \subseteq Nat \X Tasks
  BY DEF TypeOK
<1>2. f \in [completed_tasks -> Tasks]
  BY <1>1, SMTT(30)
<1>3. ASSUME NEW a \in completed_tasks, NEW b \in completed_tasks, f[a] = f[b]
      PROVE  a = b
  <2>1. PICK t \in Tasks : a = CompletedEntry(t)
    BY DEF CompletedExact
  <2>2. PICK u \in Tasks : b = CompletedEntry(u)
    BY DEF CompletedExact
  <2>3. a[2] = t /\ b[2] = u
    BY <2>1, <2>2, SMTT(30) DEF CompletedEntry
  <2> QED
    BY <1>3, <2>1, <2>2, <2>3
<1>4. f \in Injection(completed_tasks, Tasks)
  BY <1>2, <1>3 DEF Injection, IsInjective
<1> QED
  BY <1>4, FS_Injection, IdentifiersAreFinite

\* What pruning selects is an initial segment of the completion heap, so that
\* the entries it leaves are exactly the others.
LEMMA PruneIsPrefix ==
  ASSUME TypeOK, CompletedExact, NEW cutoff \in Clock, NEW max \in Batches
  PROVE  LET selected == PruneSelection(cutoff, max) IN
         /\ selected \in SUBSET completed_tasks
         /\ {e \in completed_tasks : \A f \in selected : Before(f, e)}
              = completed_tasks \ selected
<1> DEFINE selected == PruneSelection(cutoff, max)
           live == {e \in completed_tasks :
                      /\ e[1] <= cutoff
                      /\ tasks[e[2]].status = "completed"
                      /\ tasks[e[2]].completed_at = e[1]}
           before(e) == {f \in live : Before(f, e)}
<1>1. selected = {e \in live : Cardinality(before(e)) < max}
  BY DEF PruneSelection
<1>2. /\ completed_tasks \subseteq Nat \X Tasks
      /\ cutoff \in Nat /\ max \in Nat
  BY ClockAssumption, LimitsAssumption DEF TypeOK
<1>3. \A e \in completed_tasks : /\ tasks[e[2]].status = "completed"
                                 /\ tasks[e[2]].completed_at = e[1]
  <2> SUFFICES ASSUME NEW e \in completed_tasks
               PROVE  /\ tasks[e[2]].status = "completed"
                      /\ tasks[e[2]].completed_at = e[1]
    OBVIOUS
  <2>1. PICK t \in Tasks : tasks[t].status = "completed" /\ e = CompletedEntry(t)
    BY DEF CompletedExact
  <2>2. e[1] = tasks[t].completed_at /\ e[2] = t
    BY <2>1, SMTT(30) DEF CompletedEntry
  <2> QED
    BY <2>1, <2>2
<1>4. \A e \in completed_tasks : e \in live <=> e[1] <= cutoff
  BY <1>3
<1>5. live \in SUBSET completed_tasks
  OBVIOUS
<1>6. ASSUME NEW e \in completed_tasks
      PROVE  IsFiniteSet(before(e)) /\ Cardinality(before(e)) \in Nat
  <2>1. before(e) \in SUBSET completed_tasks
    OBVIOUS
  <2>2. IsFiniteSet(before(e))
    BY <2>1, CompletedFinite, FS_Subset
  <2> QED
    BY <2>2, FS_CardinalityType
<1> HIDE DEF selected, live
<1>7. ASSUME NEW f \in selected, NEW e \in completed_tasks \ selected
      PROVE  Before(f, e)
  <2>1. /\ f \in live /\ f \in completed_tasks /\ Cardinality(before(f)) < max
        /\ e \in Nat \X Tasks /\ f \in Nat \X Tasks /\ e # f
    BY <1>1, <1>2, <1>5
  <2>2. CASE e \notin live
    <3>1. e[1] \in Nat /\ f[1] \in Nat
      BY <2>1
    <3>2. f[1] <= cutoff /\ ~(e[1] <= cutoff)
      BY <1>4, <2>1, <2>2
    <3> QED
      BY <1>2, <3>1, <3>2, SMTT(30) DEF Before
  <2>3. ASSUME e \in live, Before(e, f)
        PROVE  FALSE
    <3>1. before(e) \in SUBSET before(f)
      <4> SUFFICES ASSUME NEW h \in live, Before(h, e) PROVE Before(h, f)
        OBVIOUS
      <4>1. h \in Nat \X Tasks
        BY <1>2, <1>5
      <4> QED
        BY <2>1, <2>3, <4>1, BeforeOrder
    <3>2. Cardinality(before(e)) <= Cardinality(before(f))
      BY <1>6, <2>1, <3>1, FS_Subset
    <3>3. ~(Cardinality(before(e)) < max)
      BY <1>1, <2>3
    <3>4. Cardinality(before(e)) \in Nat /\ Cardinality(before(f)) \in Nat
      BY <1>6, <2>1
    <3> HIDE DEF before
    <3> QED
      BY <1>2, <2>1, <3>2, <3>3, <3>4, SMTT(30)
  <2> QED
    BY <2>1, <2>2, <2>3, BeforeOrder
<1>8. \A f \in selected : ~Before(f, f) /\ f \in completed_tasks
  <2>1. \A f \in selected : f \in completed_tasks /\ f \in Nat \X Tasks
    BY <1>1, <1>2, <1>5
  <2> QED
    BY <2>1, BeforeOrder
<1> QED
  BY <1>7, <1>8 DEF selected

LEMMA CountPrune ==
  ASSUME TypeOK, CountInv, NEW cutoff \in Clock, NEW max \in Batches,
         PruneCompletedTasks(cutoff, max)
  PROVE  CountInv'
<1> DEFINE selected == PruneSelection(cutoff, max)
           pruned == {e[2] : e \in selected}
<1>1. /\ tasks' = [t \in Tasks |-> IF t \in pruned THEN AbsentTask ELSE tasks[t]]
      /\ completed_tasks' = {e \in completed_tasks : \A f \in selected : Before(f, e)}
      /\ namespace_task_counts' = CountsAfterPrune(pruned)
      /\ UNCHANGED <<groups, namespace_group_counts>>
  BY DEF PruneCompletedTasks
<1>2. /\ selected \in SUBSET completed_tasks
      /\ completed_tasks' = completed_tasks \ selected
  BY <1>1, PruneIsPrefix DEF CountInv
<1>3. \A e : e \in completed_tasks <=>
        \E t \in Tasks : tasks[t].status = "completed" /\ e = CompletedEntry(t)
  BY DEF CountInv, CompletedExact
<1>4. \A t : CompletedEntry(t)[2] = t
  BY SMTT(30) DEF CompletedEntry
<1>5. \A t \in Tasks : t \in pruned <=>
        tasks[t].status = "completed" /\ CompletedEntry(t) \in selected
  <2> HIDE DEF selected
  <2>1. ASSUME NEW t \in Tasks, t \in pruned
        PROVE  tasks[t].status = "completed" /\ CompletedEntry(t) \in selected
    <3>1. PICK e \in selected : t = e[2]
      BY <2>1
    <3>2. PICK u \in Tasks : tasks[u].status = "completed" /\ e = CompletedEntry(u)
      BY <1>2, <1>3
    <3> QED
      BY <1>4, <3>1, <3>2
  <2>2. ASSUME NEW t \in Tasks, CompletedEntry(t) \in selected
        PROVE  t \in pruned
    BY <1>4, <2>2
  <2> QED
    BY <2>1, <2>2
<1> HIDE DEF selected, pruned
<1>6. /\ \A t \in Tasks : t \in pruned => tasks'[t].status = "absent"
      /\ \A t \in Tasks : t \notin pruned => tasks'[t] = tasks[t]
  BY <1>1, AbsentTaskFields
<1>7. CompletedExact'
  <2> SUFFICES ASSUME NEW e
               PROVE  e \in completed_tasks' <=>
                        \E t \in Tasks : /\ tasks'[t].status = "completed"
                                         /\ e = CompletedEntry(t)'
    BY DEF CompletedExact
  <2>1. \A t \in Tasks : t \notin pruned => CompletedEntry(t)' = CompletedEntry(t)
    BY <1>6 DEF CompletedEntry
  <2>2. ASSUME e \in completed_tasks'
        PROVE  \E t \in Tasks : /\ tasks'[t].status = "completed"
                                /\ e = CompletedEntry(t)'
    <3>1. PICK t \in Tasks : tasks[t].status = "completed" /\ e = CompletedEntry(t)
      BY <1>2, <1>3, <2>2
    <3>2. t \notin pruned
      BY <1>2, <1>5, <2>2, <3>1
    <3> QED
      BY <1>6, <2>1, <3>1, <3>2
  <2>3. ASSUME NEW t \in Tasks, tasks'[t].status = "completed",
               e = CompletedEntry(t)'
        PROVE  e \in completed_tasks'
    <3>1. t \notin pruned /\ tasks[t].status = "completed" /\ e = CompletedEntry(t)
      BY <1>6, <2>1, <2>3
    <3> QED
      BY <1>2, <1>3, <1>5, <3>1
  <2> QED
    BY <2>2, <2>3
<1>8. TaskCountsExact'
  <2> SUFFICES ASSUME NEW n \in Namespaces
               PROVE  namespace_task_counts'[n] = Cardinality(StoredIn(n)')
    BY DEF TaskCountsExact
  <2>1. namespace_task_counts'[n] =
          namespace_task_counts[n] - Cardinality(PrunedIn(n, pruned))
    BY <1>1 DEF CountsAfterPrune
  <2>2. pruned \subseteq Tasks
    <3>1. completed_tasks \subseteq Nat \X Tasks
      BY DEF TypeOK
    <3>2. \A e \in selected : e[2] \in Tasks
      BY <1>2, <3>1
    <3> QED
      BY <3>2 DEF pruned
  <2>3. /\ StoredIn(n)' = StoredIn(n) \ PrunedIn(n, pruned)
        /\ StoredIn(n) \cap PrunedIn(n, pruned) = PrunedIn(n, pruned)
    BY <1>5, <1>6, <2>2 DEF StoredIn, PrunedIn
  <2>4. Cardinality(StoredIn(n) \ PrunedIn(n, pruned)) =
          Cardinality(StoredIn(n)) - Cardinality(PrunedIn(n, pruned))
    BY <2>3, CountedSetsFinite, FS_Difference
  <2> QED
    BY <2>1, <2>3, <2>4 DEF CountInv, TaskCountsExact
<1>9. GroupCountsExact'
  BY <1>1, GroupCountsFrame DEF CountInv
<1> QED
  BY <1>7, <1>8, <1>9 DEF CountInv

LEMMA CountFromCheckpoint ==
  ASSUME FromCheckpoint
  PROVE  CountInv'
<1>1. /\ tasks' = tasks /\ groups' = groups
      /\ completed_tasks' = RebuiltCompleted
      /\ namespace_task_counts' = RebuiltTaskCounts
      /\ namespace_group_counts' = RebuiltGroupCounts
  BY DEF FromCheckpoint, state
<1>2. CompletedExact'
  BY <1>1 DEF CompletedExact, CompletedEntry, RebuiltCompleted
<1>3. TaskCountsExact'
  BY <1>1 DEF TaskCountsExact, StoredIn, RebuiltTaskCounts
<1>4. GroupCountsExact'
  BY <1>1 DEF GroupCountsExact, GroupsIn, RebuiltGroupCounts
<1> QED
  BY <1>2, <1>3, <1>4 DEF CountInv

LEMMA CountStep ==
  ASSUME TypeOK, CountInv, [Next]_vars
  PROVE  CountInv'
<1>1. CASE UNCHANGED vars
  BY <1>1, CountFrame, SameStays DEF vars, state, indexes
<1>2. CASE Maintain
  BY <1>2, ReapedTypes, CountRemoveMembers, CountPrune
  DEF Maintain, ReapStaleMembers
<1>3. ASSUME NEW new_term \in 1..MaxTerm, AdvanceTerm(term, new_term)
      PROVE  CountInv'
  BY <1>3, CountFrame, SameStays DEF AdvanceTerm, indexes
<1> QED
  BY <1>1, <1>2, <1>3, CountRegister, CountMembership, CountClaim, CountUse,
     CountFromCheckpoint
  DEF Next

LEMMA CountInvariant == Spec => []CountInv
<1>1. Init => CountInv
  BY CountInit
<1>2. TypeOK /\ CountInv /\ [Next]_vars => CountInv'
  BY CountStep
<1> QED
  BY <1>1, <1>2, TypeCorrect, PTL DEF Spec

\* Whatever commands ran and whoever reuses an identifier, the completion heap
\* and the counters of tasks and groups that admission consults are those
\* from_checkpoint would compute from the records.
THEOREM CountsAlwaysRebuilt ==
  Spec => [](/\ completed_tasks = RebuiltCompleted
             /\ namespace_task_counts = RebuiltTaskCounts
             /\ namespace_group_counts = RebuiltGroupCounts)
<1>1. LeaseInv /\ CountInv =>
        /\ completed_tasks = RebuiltCompleted
        /\ namespace_task_counts = RebuiltTaskCounts
        /\ namespace_group_counts = RebuiltGroupCounts
  BY CountInvIsRebuilt DEF LeaseInv
<1> QED
  BY <1>1, LeaseInvariant, CountInvariant, PTL

-----------------------------------------------------------------------------
(* Namespaces apart.  A recovery believes any expiration entry that fits   *)
(* the task's lease, and an entry outlives its task: published again in    *)
(* another namespace, a task can be recovered, and then claimed, through   *)
(* its former one.  As long as a task identifier keeps to one namespace,   *)
(* the namespaces never mix.                                               *)

\* Each task is only ever stored in its home namespace.
Homed(Home) ==
  \A t \in Tasks : tasks[t].status # "absent" => tasks[t].namespace_id = Home[t]

HomeQueues(Home) ==
  \A n \in Namespaces : /\ \A e \in ready_tasks[n] : Home[e[2]] = n
                        /\ \A e \in lease_expirations[n] : Home[e[2]] = n

\* A step that adds entries to the heaps of their tasks' homes only.
LEMMA HomeFrame ==
  ASSUME NEW Home, HomeQueues(Home),
         \A n \in Namespaces :
           /\ \A e \in ready_tasks'[n] : e \in ready_tasks[n] \/ Home[e[2]] = n
           /\ \A e \in lease_expirations'[n] :
                e \in lease_expirations[n] \/ Home[e[2]] = n
  PROVE  HomeQueues(Home)'
BY DEF HomeQueues

LEMMA HomeRecovered ==
  ASSUME TypeOK, NEW Home, HomeQueues(Home), NEW n \in Namespaces, NEW now \in Nat
  PROVE  /\ \A t \in RecoverableTasks(n, now) : Home[t] = n
         /\ \A e \in ReadyAfterRecovery(n, now) : Home[e[2]] = n
<1>1. ASSUME NEW t \in RecoverableTasks(n, now)
      PROVE  Home[t] = n
  <2>1. <<tasks[t].expires_at, t, tasks[t].lease_epoch>> \in lease_expirations[n]
    BY DEF RecoverableTasks, DueExpirations
  <2>2. <<tasks[t].expires_at, t, tasks[t].lease_epoch>>[2] = t
    OBVIOUS
  <2> QED
    BY <2>1, <2>2 DEF HomeQueues
<1>2. ASSUME NEW e \in ReadyAfterRecovery(n, now), e \notin ready_tasks[n]
      PROVE  Home[e[2]] = n
  <2>1. PICK t \in RecoverableTasks(n, now) : e = <<tasks[t].created_at, t>>
    BY <1>2 DEF ReadyAfterRecovery
  <2>2. e[2] = t
    BY <2>1
  <2> QED
    BY <1>1, <2>1, <2>2
<1> QED
  BY <1>1, <1>2 DEF HomeQueues

LEMMA HomeClaim ==
  ASSUME TypeOK, NEW Home, HomeQueues(Home), Claim
  PROVE  HomeQueues(Home)'
<1>1. PICK g \in Groups, m \in Members, l \in LeaseIds, now \in Clock :
        \/ ClaimNothing(g, m, term, groups[g].generation, l, now)
        \/ \E d \in Durations :
             \/ ClaimTask(g, m, term, groups[g].generation, l, now, d)
             \/ ClaimTaskOverflow(g, m, term, groups[g].generation, l, now, d)
  BY DEF Claim
<1> DEFINE n == groups[g].namespace_id
           ready == ReadyAfterRecovery(n, now)
           due == DueExpirations(n, now)
<1>2. n \in Namespaces /\ now \in Nat
  BY <1>1, ClaimTypes DEF ClaimNothing, ClaimTask, ClaimTaskOverflow
<1>3. /\ ready_tasks \in [Namespaces -> SUBSET (Nat \X Tasks)]
      /\ lease_expirations \in [Namespaces -> SUBSET (Nat \X Tasks \X Nat)]
  BY DEF TypeOK
<1>4. CASE ClaimNothing(g, m, term, groups[g].generation, l, now)
  <2>1. /\ ready_tasks' = [ready_tasks EXCEPT ![n] = {}]
        /\ lease_expirations' = [lease_expirations EXCEPT ![n] = @ \ due]
    BY <1>4 DEF ClaimNothing
  <2> HIDE DEF n, due
  <2> QED
    BY <1>2, <1>3, <2>1, HomeFrame
<1>5. ASSUME NEW d \in Durations,
             ClaimTask(g, m, term, groups[g].generation, l, now, d)
      PROVE  HomeQueues(Home)'
  <2>1. PICK e \in ClaimableEntries(n, now) :
          /\ ready_tasks' = [ready_tasks EXCEPT ![n] = {f \in ready : Before(e, f)}]
          /\ lease_expirations' = [lease_expirations EXCEPT
               ![n] = (@ \ due) \cup {<<now + d, e[2], tasks[e[2]].lease_epoch + 1>>}]
    BY <1>5 DEF ClaimTask
  <2> DEFINE entry == <<now + d, e[2], tasks[e[2]].lease_epoch + 1>>
  <2>2. entry[2] = e[2] /\ e \in ready
    BY DEF ClaimableEntries
  <2>3. Home[entry[2]] = n
    BY <1>2, <2>2, HomeRecovered, SMTT(30)
  <2>4. \A f \in ready : Home[f[2]] = n
    BY <1>2, HomeRecovered, SMTT(30)
  <2> HIDE DEF n, ready, due, entry
  <2>5. \A k \in Namespaces :
          /\ \A f \in ready_tasks'[k] : f \in ready_tasks[k] \/ (k = n /\ f \in ready)
          /\ \A f \in lease_expirations'[k] :
               f \in lease_expirations[k] \/ (k = n /\ f = entry)
    BY <1>2, <1>3, <2>1 DEF entry
  <2> QED
    BY <2>3, <2>4, <2>5, HomeFrame
<1>6. ASSUME NEW d \in Durations,
             ClaimTaskOverflow(g, m, term, groups[g].generation, l, now, d)
      PROVE  HomeQueues(Home)'
  <2>1. PICK e \in ClaimableEntries(n, now) :
          /\ ready_tasks' = [ready_tasks EXCEPT ![n] = {f \in ready : Before(e, f)}]
          /\ lease_expirations' = [lease_expirations EXCEPT ![n] = @ \ due]
    BY <1>6 DEF ClaimTaskOverflow
  <2>2. \A f \in ready : Home[f[2]] = n
    BY <1>2, HomeRecovered, SMTT(30)
  <2> HIDE DEF n, ready, due
  <2>3. \A k \in Namespaces :
          /\ \A f \in ready_tasks'[k] : f \in ready_tasks[k] \/ (k = n /\ f \in ready)
          /\ \A f \in lease_expirations'[k] : f \in lease_expirations[k]
    BY <1>2, <1>3, <2>1
  <2> QED
    BY <2>2, <2>3, HomeFrame
<1> QED
  BY <1>1, <1>4, <1>5, <1>6

LEMMA HomeRemoveMembers ==
  ASSUME TypeOK, NEW Home, HomeQueues(Home), Homed(Home),
         NEW P \in SUBSET (Groups \X Members), RemoveMembers(P)
  PROVE  HomeQueues(Home)'
<1> DEFINE R == LeasedBy(P)
           back(n) == {<<tasks[t].created_at, t>> :
                         t \in {u \in R : tasks[u].namespace_id = n}}
<1>1. R \in SUBSET Tasks /\ \A t \in R : tasks[t].status = "leased"
  BY LeasedByTypes DEF LeasedBy
<1>2. /\ ready_tasks' = [n \in Namespaces |-> ready_tasks[n] \cup back(n)]
      /\ lease_expirations' = lease_expirations
  BY DEF RemoveMembers, RequeueMemberLeases
<1>3. ASSUME NEW n \in Namespaces, NEW e \in back(n)
      PROVE  Home[e[2]] = n
  <2>1. PICK t \in R : tasks[t].namespace_id = n /\ e = <<tasks[t].created_at, t>>
    BY <1>3
  <2>2. e[2] = t
    BY <2>1
  <2> QED
    BY <1>1, <2>1, <2>2 DEF Homed
<1> HIDE DEF back
<1> QED
  BY <1>2, <1>3, HomeFrame

LEMMA HomeFromCheckpoint ==
  ASSUME NEW Home, Homed(Home), FromCheckpoint
  PROVE  HomeQueues(Home)'
<1> SUFFICES ASSUME NEW n \in Namespaces
             PROVE  /\ \A e \in ready_tasks'[n] : Home[e[2]] = n
                    /\ \A e \in lease_expirations'[n] : Home[e[2]] = n
  BY DEF HomeQueues
<1>1. ready_tasks' = RebuiltReady /\ lease_expirations' = RebuiltExpirations
  BY DEF FromCheckpoint
<1>2. ASSUME NEW e \in ready_tasks'[n]
      PROVE  Home[e[2]] = n
  <2>1. PICK t \in Tasks : /\ tasks[t].status = "queued"
                           /\ tasks[t].namespace_id = n
                           /\ e = <<tasks[t].created_at, t>>
    BY <1>1 DEF RebuiltReady, TasksIn
  <2>2. e[2] = t
    BY <2>1
  <2> QED
    BY <2>1, <2>2 DEF Homed
<1>3. ASSUME NEW e \in lease_expirations'[n]
      PROVE  Home[e[2]] = n
  <2>1. PICK t \in Tasks :
          /\ tasks[t].status = "leased" /\ tasks[t].namespace_id = n
          /\ e = <<tasks[t].expires_at, t, tasks[t].lease_epoch>>
    BY <1>1 DEF RebuiltExpirations, TasksIn
  <2>2. e[2] = t
    BY <2>1
  <2> QED
    BY <2>1, <2>2 DEF Homed
<1> QED
  BY <1>2, <1>3

LEMMA HomeQueuesStep ==
  ASSUME TypeOK, NEW Home, HomeQueues(Home), Homed(Home), Homed(Home)',
         [Next]_vars
  PROVE  HomeQueues(Home)'
<1>1. ASSUME UNCHANGED <<ready_tasks, lease_expirations>>
      PROVE  HomeQueues(Home)'
  BY <1>1 DEF HomeQueues
<1>2. CASE Register
  <2>1. ASSUME NEW n \in Namespaces, NEW t \in Tasks, NEW o \in Objectives,
               NEW now \in Clock, PublishTask(n, t, o, now)
        PROVE  HomeQueues(Home)'
    <3>1. /\ tasks \in [Tasks -> TaskRecords] /\ now \in Nat
          /\ ready_tasks \in [Namespaces -> SUBSET (Nat \X Tasks)]
      BY ClockAssumption DEF TypeOK
    <3>2. /\ tasks' = [tasks EXCEPT ![t] = QueuedTask(n, o, now)]
          /\ ready_tasks' = [ready_tasks EXCEPT ![n] = @ \cup {<<now, t>>}]
          /\ lease_expirations' = lease_expirations
      BY <2>1 DEF PublishTask
    <3>3. tasks'[t] = QueuedTask(n, o, now)
      BY <3>1, <3>2
    <3>4. tasks'[t].status # "absent" /\ tasks'[t].namespace_id = n
      <4>1. /\ QueuedTask(n, o, now).status = "queued"
            /\ QueuedTask(n, o, now).namespace_id = n
        BY <3>1, QueuedTaskFields
      <4> QED
        BY <3>3, <4>1
    <3>5. Home[t] = n
      BY <3>4 DEF Homed
    <3> DEFINE entry == <<now, t>>
    <3>6. Home[entry[2]] = n
      BY <3>5
    <3> HIDE DEF entry
    <3>7. \A k \in Namespaces : \A e \in ready_tasks'[k] :
            e \in ready_tasks[k] \/ (k = n /\ e = entry)
      BY <3>1, <3>2 DEF entry
    <3> QED
      BY <3>2, <3>6, <3>7, HomeFrame
  <2>2. ASSUME NEW n \in Namespaces, NEW g \in Groups, EnsureConsumerGroup(n, g)
        PROVE  HomeQueues(Home)'
    BY <1>1, <2>2 DEF EnsureConsumerGroup
  <2>3. ASSUME NEW n \in Namespaces, EnsureNamespace(n)
        PROVE  HomeQueues(Home)'
    BY <1>1, <2>3 DEF EnsureNamespace, indexes
  <2> QED
    BY <1>2, <2>1, <2>2, <2>3 DEF Register
<1>3. CASE Membership
  <2>1. ASSUME NEW g \in Groups, NEW m \in Members,
               LeaveConsumerGroup(g, m, groups[g].generation)
        PROVE  HomeQueues(Home)'
    <3>1. {<<g, m>>} \in SUBSET (Groups \X Members)
      BY SMTT(30)
    <3> QED
      BY <2>1, <3>1, HomeRemoveMembers DEF LeaveConsumerGroup
  <2>2. ASSUME NEW g \in Groups, NEW m \in Members, NEW now \in Clock
        PROVE  /\ \A c \in Capabilities :
                    JoinConsumerGroup(g, m, c, now) => HomeQueues(Home)'
               /\ HeartbeatConsumerGroup(g, m, groups[g].generation, now)
                    => HomeQueues(Home)'
    BY <1>1 DEF JoinConsumerGroup, HeartbeatConsumerGroup, indexes
  <2> QED
    BY <1>3, <2>1, <2>2 DEF Membership
<1>4. CASE UseLease
  <2>1. ASSUME NEW t \in Tasks, tasks[t].status = "leased", NEW now \in Clock,
               NEW d \in Durations, NEW g, NEW m, NEW k, NEW x, NEW l,
               RenewTaskLease(t, g, m, term, k, x, l, now, d)
        PROVE  HomeQueues(Home)'
    <3> DEFINE n == tasks[t].namespace_id
               entry == <<now + d, t, tasks[t].lease_epoch>>
    <3>1. n = Home[t] /\ entry[2] = t
      BY <2>1 DEF Homed
    <3>2. /\ lease_expirations \in [Namespaces -> SUBSET (Nat \X Tasks \X Nat)]
          /\ lease_expirations' = [lease_expirations EXCEPT ![n] = @ \cup {entry}]
          /\ ready_tasks' = ready_tasks
      BY <2>1 DEF RenewTaskLease, TypeOK
    <3> HIDE DEF n, entry
    <3>3. \A j \in Namespaces : \A e \in lease_expirations'[j] :
            e \in lease_expirations[j] \/ (j = n /\ e = entry)
      BY <3>2
    <3> QED
      BY <3>1, <3>2, <3>3, HomeFrame
  <2>2. ASSUME NEW t \in Tasks, NEW now \in Clock,
               NEW r \in Results, NEW g, NEW m, NEW k, NEW x, NEW l,
               CompleteTask(t, g, m, term, k, x, l, r, now)
        PROVE  HomeQueues(Home)'
    BY <1>1, <2>2 DEF CompleteTask
  <2> QED
    BY <1>4, <2>1, <2>2 DEF UseLease
<1>5. CASE Maintain
  <2>1. ASSUME NEW cutoff \in Clock, NEW max \in Batches,
               PruneCompletedTasks(cutoff, max)
        PROVE  HomeQueues(Home)'
    BY <1>1, <2>1 DEF PruneCompletedTasks
  <2> QED
    BY <1>5, <2>1, ReapedTypes, HomeRemoveMembers DEF Maintain, ReapStaleMembers
<1>6. ASSUME NEW new_term \in 1..MaxTerm, AdvanceTerm(term, new_term)
      PROVE  HomeQueues(Home)'
  BY <1>1, <1>6 DEF AdvanceTerm, indexes
<1>7. CASE UNCHANGED vars
  BY <1>1, <1>7 DEF vars, indexes
<1> QED
  BY <1>2, <1>3, <1>4, <1>5, <1>6, <1>7, HomeClaim, HomeFromCheckpoint DEF Next

\* A group never changes its namespace.
LEMMA GroupKeepsNamespace ==
  ASSUME TypeOK, Stored, [Next]_vars, NEW g \in Groups,
         groups[g].namespace_id # None
  PROVE  groups'[g].namespace_id = groups[g].namespace_id
<1>1. CASE UNCHANGED vars
  BY <1>1 DEF vars, state
<1>2. ASSUME NEW h \in Groups, NEW m \in Members, NEW l \in LeaseIds,
             NEW now \in Clock, NEW d \in Durations,
             ClaimTaskOverflow(h, m, term, groups[h].generation, l, now, d)
      PROVE  groups'[g].namespace_id = groups[g].namespace_id
  BY <1>2 DEF ClaimTaskOverflow
<1>3. CASE Recorded
  BY <1>3 DEF Recorded, GroupRecorded, GroupCreated, GroupChanged, GroupKept
<1> QED
  BY <1>1, <1>2, <1>3, StepRecorded

\* Only the task that a claim indexes under its lease id gets a grant.
LEMMA OnlyClaimGrants ==
  ASSUME LeaseInv, [Next]_vars, NEW u \in Tasks, ~EpochKept(u)
  PROVE  \E g \in Groups, m \in Members, l \in LeaseIds, now \in Clock,
            d \in Durations :
           /\ ClaimTask(g, m, term, groups[g].generation, l, now, d)
           /\ ClaimGrants(u, g, m, l)
<1>1. CASE Claim
  <2>1. PICK g \in Groups, m \in Members, l \in LeaseIds, now \in Clock :
          \/ ClaimNothing(g, m, term, groups[g].generation, l, now)
          \/ \E d \in Durations :
               \/ ClaimTask(g, m, term, groups[g].generation, l, now, d)
               \/ ClaimTaskOverflow(g, m, term, groups[g].generation, l, now, d)
    BY <1>1 DEF Claim
  <2>2. ~ClaimNothing(g, m, term, groups[g].generation, l, now)
    BY SameKept DEF ClaimNothing, state
  <2>3. PICK d \in Durations :
          ClaimTask(g, m, term, groups[g].generation, l, now, d)
    BY <2>1, <2>2, EpochOverflow
  <2>4. PICK t \in Tasks : ClaimGrants(t, g, m, l)
    BY <2>3, ClaimTaskGrants
  <2>5. t = u
    BY <2>4 DEF ClaimGrants
  <2> QED
    BY <2>3, <2>4, <2>5
<1>2. CASE UNCHANGED tasks
  BY <1>2, SameKept
<1> QED
  BY <1>1, <1>2, EpochRegister, EpochMembership, EpochUse, EpochMaintain
  DEF Next, AdvanceTerm, FromCheckpoint, vars, state

LEMMA HomeLeasesStep ==
  ASSUME LeaseInv, Stored, NEW Home, HomeQueues(Home), Homed(Home), Homed(Home)',
         LeaseWithinNamespace, [Next]_vars
  PROVE  LeaseWithinNamespace'
<1> SUFFICES ASSUME NEW t \in Tasks, tasks'[t].status = "leased"
             PROVE  groups'[tasks'[t].group].namespace_id = tasks'[t].namespace_id
  BY DEF LeaseWithinNamespace
<1>1. tasks'[t].namespace_id = Home[t] /\ TypeOK
  BY DEF Homed, LeaseInv
<1>2. CASE EpochKept(t)
  <2> DEFINE g == tasks[t].group
  <2>1. tasks[t].status = "leased" /\ tasks'[t].group = g
    <3>1. tasks[t].status = "leased" /\ GrantOf(tasks'[t]) = GrantOf(tasks[t])
      BY <1>2 DEF EpochKept
    <3> QED
      BY <3>1, SMTT(30) DEF GrantOf
  <2>2. g \in Groups /\ tasks[t].namespace_id = Home[t]
    BY <2>1 DEF LeaseInv, LeaseHeldByMember, Homed
  <2>3. groups[g].namespace_id = Home[t]
    BY <2>1, <2>2 DEF LeaseWithinNamespace
  <2>4. groups[g].namespace_id # None
    BY <1>1, <2>1, <2>2, <2>3, NoneIsNoValue DEF Stored, StoredTask, TypeOK
  <2> HIDE DEF g
  <2> QED
    BY <1>1, <2>1, <2>2, <2>3, <2>4, GroupKeepsNamespace
<1>3. CASE ~EpochKept(t)
  <2>1. PICK g \in Groups, m \in Members, l \in LeaseIds, now \in Clock,
            d \in Durations :
           /\ ClaimTask(g, m, term, groups[g].generation, l, now, d)
           /\ ClaimGrants(t, g, m, l)
    BY <1>3, OnlyClaimGrants
  <2> DEFINE n == groups[g].namespace_id
  <2>2. n \in Namespaces /\ now \in Nat /\ groups' = groups
    BY <1>1, <2>1, ClaimTypes DEF ClaimTask
  <2>3. PICK e \in ClaimableEntries(n, now) :
          active_lease_tasks' =
            [ReleasedLeases(RecoverableTasks(n, now)) EXCEPT ![l] = e[2]]
    BY <2>1 DEF ClaimTask
  <2>4. e[2] = t
    BY <2>1, <2>3 DEF ClaimGrants, ReleasedLeases
  <2>5. e \in ReadyAfterRecovery(n, now)
    BY DEF ClaimableEntries
  <2> HIDE DEF n
  <2>6. Home[t] = n
    BY <1>1, <2>2, <2>4, <2>5, HomeRecovered, SMTT(30)
  <2>7. tasks'[t].group = g
    <3>1. GrantOf(tasks'[t]) = <<l, g, m, groups[g].generation>>
      BY <2>1 DEF ClaimGrants
    <3> QED
      BY <3>1, SMTT(30) DEF GrantOf
  <2> QED
    BY <1>1, <2>2, <2>6, <2>7 DEF n
<1> QED
  BY <1>2, <1>3

HomeInv(Home) == HomeQueues(Home) /\ LeaseWithinNamespace

LEMMA HomeInit ==
  ASSUME NEW Home, Init
  PROVE  HomeInv(Home)
<1>1. HomeQueues(Home)
  BY DEF Init, HomeQueues
<1>2. LeaseWithinNamespace
  BY AbsentTaskFields DEF Init, LeaseWithinNamespace
<1> QED
  BY <1>1, <1>2 DEF HomeInv

LEMMA HomeStep ==
  ASSUME NEW Home, LeaseInv, Stored, HomeInv(Home), Homed(Home), Homed(Home)',
         [Next]_vars
  PROVE  HomeInv(Home)'
BY HomeQueuesStep, HomeLeasesStep DEF HomeInv, LeaseInv

LEMMA HomeInvariant ==
  ASSUME NEW Home
  PROVE  Spec /\ []Homed(Home) => []HomeInv(Home)
<1>1. Init => HomeInv(Home)
  BY HomeInit
<1>2. /\ LeaseInv /\ Stored /\ HomeInv(Home) /\ Homed(Home) /\ Homed(Home)'
      /\ [Next]_vars
      => HomeInv(Home)'
  BY HomeStep
<1> QED
  BY <1>1, <1>2, LeaseInvariant, StoredInvariant, PTL DEF Spec

\* Where a task identifier keeps to one namespace, claim_task never leases a
\* task to a member of another namespace's group, whatever entries of former
\* leases recover_expired_leases still finds.
THEOREM HomedLeasesWithinNamespace ==
  ASSUME NEW Home
  PROVE  Spec /\ []Homed(Home) => []LeaseWithinNamespace
<1>1. HomeInv(Home) => LeaseWithinNamespace
  BY DEF HomeInv
<1> QED
  BY <1>1, HomeInvariant, PTL

\* What is committed can always be restored.
LEMMA AlwaysRestorable ==
  ASSUME LeaseInv, Stored
  PROVE  Restorable
<1>1. \A t \in Tasks : tasks[t].status # "absent" =>
        task_revision[t] > 0 /\ tasks[t].namespace_id \in namespaces
  BY DEF Stored, StoredTask
<1>2. \A g \in Groups : groups[g].namespace_id # None =>
        group_revision[g] > 0 /\ groups[g].namespace_id \in namespaces
  BY DEF Stored, StoredGroup
<1>3. \A l \in LeaseIds : \A t, u \in HoldersOf(l) : t = u
  <2> SUFFICES ASSUME NEW l \in LeaseIds, NEW t \in HoldersOf(l),
                      NEW u \in HoldersOf(l)
               PROVE  t = u
    OBVIOUS
  <2>1. active_lease_tasks[l] = t /\ active_lease_tasks[l] = u
    BY DEF HoldersOf, LeaseInv, LeaseMapExact
  <2> QED
    BY <2>1
<1> QED
  BY <1>1, <1>2, <1>3 DEF Restorable

LEMMA HomeOfEntry ==
  ASSUME NEW Home, HomeQueues(Home), NEW k \in Namespaces, NEW t
  PROVE  /\ ReadyEntry(t) \in ready_tasks[k] => Home[t] = k
         /\ ExpirationEntry(t) \in lease_expirations[k] => Home[t] = k
<1>1. <<tasks[t].created_at, t>>[2] = t
  OBVIOUS
<1>2. <<tasks[t].expires_at, t, tasks[t].lease_epoch>>[2] = t
  OBVIOUS
<1>3. <<tasks[t].created_at, t>> \in ready_tasks[k] => Home[t] = k
  BY <1>1 DEF HomeQueues
<1>4. <<tasks[t].expires_at, t, tasks[t].lease_epoch>> \in lease_expirations[k]
      => Home[t] = k
  BY <1>2 DEF HomeQueues
<1> QED
  BY <1>3, <1>4 DEF ReadyEntry, ExpirationEntry

\* The heaps of a namespace hold its own tasks and so are what a rebuild makes
\* of them, but for entries that recover nothing.
LEMMA HomeHeapsRebuilt ==
  ASSUME TypeOK, QueueInv, NEW Home, HomeQueues(Home), Homed(Home)
  PROVE  /\ ready_tasks = RebuiltReady
         /\ \A n \in Namespaces, now \in Clock :
              RecoverableTasks(n, now) =
                {t \in TasksIn(n, "leased") : tasks[t].expires_at <= now}
<1>1. \A t : ExpirationEntry(t)[1] = tasks[t].expires_at
  BY SMTT(30) DEF ExpirationEntry
<1>2. ASSUME NEW n \in Namespaces
      PROVE  ready_tasks[n] = {ReadyEntry(t) : t \in TasksIn(n, "queued")}
  <2>1. ASSUME NEW e \in ready_tasks[n]
        PROVE  \E t \in TasksIn(n, "queued") : e = ReadyEntry(t)
    <3>1. PICK t \in Tasks : tasks[t].status = "queued" /\ e = ReadyEntry(t)
      BY DEF QueueInv, ReadyExact
    <3>2. Home[t] = n
      BY <3>1, HomeOfEntry
    <3>3. t \in TasksIn(n, "queued")
      BY <3>1, <3>2 DEF Homed, TasksIn
    <3> QED
      BY <3>1, <3>3
  <2>2. ASSUME NEW t \in TasksIn(n, "queued")
        PROVE  ReadyEntry(t) \in ready_tasks[n]
    <3>1. /\ t \in Tasks /\ tasks[t].status = "queued"
          /\ tasks[t].namespace_id = n
      BY DEF TasksIn
    <3>2. PICK k \in Namespaces : ReadyEntry(t) \in ready_tasks[k]
      BY <3>1 DEF QueueInv, QueuedReady
    <3>3. Home[t] = k /\ Home[t] = n
      BY <3>1, <3>2, HomeOfEntry DEF Homed
    <3> QED
      BY <3>2, <3>3
  <2> QED
    BY <2>1, <2>2
<1>3. ready_tasks = RebuiltReady
  <2>1. ready_tasks \in [Namespaces -> SUBSET (Nat \X Tasks)]
    BY DEF TypeOK
  <2>2. RebuiltReady = [n \in Namespaces |->
                          {ReadyEntry(t) : t \in TasksIn(n, "queued")}]
    BY DEF RebuiltReady, ReadyEntry
  <2> QED
    BY <1>2, <2>1, <2>2
<1>4. ASSUME NEW n \in Namespaces, NEW now \in Clock
      PROVE  RecoverableTasks(n, now) =
               {t \in TasksIn(n, "leased") : tasks[t].expires_at <= now}
  <2>1. ASSUME NEW t \in RecoverableTasks(n, now)
        PROVE  t \in TasksIn(n, "leased") /\ tasks[t].expires_at <= now
    <3>1. /\ t \in Tasks /\ tasks[t].status = "leased"
          /\ ExpirationEntry(t) \in lease_expirations[n]
          /\ ExpirationEntry(t)[1] <= now
      BY DEF RecoverableTasks, DueExpirations, ExpirationEntry
    <3>2. Home[t] = n
      BY <3>1, HomeOfEntry
    <3> QED
      BY <1>1, <3>1, <3>2 DEF Homed, TasksIn
  <2>2. ASSUME NEW t \in TasksIn(n, "leased"), tasks[t].expires_at <= now
        PROVE  t \in RecoverableTasks(n, now)
    <3>1. /\ t \in Tasks /\ tasks[t].status = "leased"
          /\ tasks[t].namespace_id = n
      BY DEF TasksIn
    <3>2. PICK k \in Namespaces : ExpirationEntry(t) \in lease_expirations[k]
      BY <3>1 DEF QueueInv, LeasedExpiring
    <3>3. Home[t] = k /\ Home[t] = n
      BY <3>1, <3>2, HomeOfEntry DEF Homed
    <3>4. ExpirationEntry(t) \in DueExpirations(n, now)
      BY <1>1, <2>2, <3>2, <3>3 DEF DueExpirations
    <3> QED
      BY <3>1, <3>4 DEF RecoverableTasks, ExpirationEntry
  <2>3. RecoverableTasks(n, now) \subseteq Tasks /\ TasksIn(n, "leased") \subseteq Tasks
    BY DEF RecoverableTasks, TasksIn
  <2> QED
    BY <2>1, <2>2, <2>3
<1> QED
  BY <1>3, <1>4

LEMMA HomeRestart ==
  ASSUME LeaseInv, Stored, QueueInv, CountInv, NEW Home, HomeQueues(Home),
         Homed(Home)
  PROVE  RestartTransparent
<1>1. TypeOK
  BY DEF LeaseInv
<1>2. Restorable
  BY AlwaysRestorable
<1>3. /\ ready_tasks = RebuiltReady
      /\ \A n \in Namespaces, now \in Clock :
           RecoverableTasks(n, now) =
             {t \in TasksIn(n, "leased") : tasks[t].expires_at <= now}
  BY <1>1, HomeHeapsRebuilt
<1>4. /\ completed_tasks = RebuiltCompleted
      /\ namespace_task_counts = RebuiltTaskCounts
      /\ namespace_group_counts = RebuiltGroupCounts
  BY <1>1, CountInvIsRebuilt
<1> QED
  BY <1>2, <1>3, <1>4 DEF RestartTransparent

\* Where deadlines fit a timestamp and a task identifier keeps to one
\* namespace, from_checkpoint accepts what was committed and the broker it
\* builds claims, recovers and prunes what the running one would and has the
\* same room: a restart shows in nothing a client can observe.
THEOREM RestartAlwaysTransparent ==
  ASSUME NEW Home, DeadlinesFit
  PROVE  Spec /\ []Homed(Home) => []RestartTransparent
<1>1. /\ LeaseInv /\ Stored /\ QueueInv /\ CountInv /\ HomeInv(Home) /\ Homed(Home)
      => RestartTransparent
  BY HomeRestart DEF HomeInv
<1> QED
  BY <1>1, LeaseInvariant, StoredInvariant, QueueInvariant, CountInvariant,
     HomeInvariant, PTL

\* One namespace is a home for every task.
LEMMA OneNamespaceHomes ==
  ASSUME TypeOK, Stored, NEW n, Namespaces = {n}
  PROVE  Homed([t \in Tasks |-> n])
BY DEF TypeOK, Stored, StoredTask, Homed

\* A claim takes the first of the namespace's queued and recovered tasks.
LEMMA OldestClaimed ==
  ASSUME TypeOK, QueueInv, NEW Home, HomeQueues(Home), Homed(Home),
         NEW g \in Groups, NEW m \in Members, NEW l \in LeaseIds,
         NEW now \in Clock, NEW d \in Durations,
         ClaimTask(g, m, term, groups[g].generation, l, now, d),
         NEW t \in Tasks, tasks'[t].status = "leased",
         tasks'[t].lease_epoch > tasks[t].lease_epoch,
         NEW u \in Tasks, tasks'[u].status = "queued",
         tasks'[u].namespace_id = tasks'[t].namespace_id
  PROVE  Before(ReadyEntry(t), ReadyEntry(u))
<1> DEFINE n == groups[g].namespace_id
           R == RecoverableTasks(n, now)
<1>1. n \in Namespaces /\ now \in Nat
  BY ClaimTaskQueues
<1>2. PICK w \in Tasks : ClaimQueues(w, g, n, now, d)
  BY ClaimTaskQueues
<1>3. /\ \/ tasks[w].status = "queued" /\ ReadyEntry(w) \in ready_tasks[n]
         \/ w \in R
      /\ \A f \in ReadyAfterRecovery(n, now) :
           f = ReadyEntry(w) \/ Before(ReadyEntry(w), f)
      /\ tasks'[w].status = "leased"
      /\ tasks'[w].namespace_id = tasks[w].namespace_id
      /\ \A v \in R \ {w} : tasks'[v].status = "queued"
      /\ \A v \in Tasks \ (R \cup {w}) : tasks'[v] = tasks[v]
  BY <1>2 DEF ClaimQueues
<1>4. \A v \in Tasks : ReadyEntry(v)[2] = v
  BY SMTT(30) DEF ReadyEntry
<1>5. t = w
  <2>1. ~(tasks[t].lease_epoch > tasks[t].lease_epoch)
    <3>1. tasks[t].lease_epoch \in Nat
      BY DEF TypeOK, TaskRecords
    <3> QED
      BY <3>1, SMTT(30)
  <2> QED
    BY <1>3, <2>1
<1>6. /\ \A v \in R : Home[v] = n /\ ReadyEntry(v) \in ReadyAfterRecovery(n, now)
      /\ ready_tasks[n] \subseteq ReadyAfterRecovery(n, now)
      /\ \A v \in R : tasks[v].status = "leased"
  <2>1. \A v \in R : Home[v] = n
    BY <1>1, HomeRecovered, SMTT(30)
  <2> QED
    BY <1>1, <2>1, ClaimableFields DEF ReadyAfterRecovery, ReadyEntry
<1> HIDE DEF n, R
<1>7. tasks[t].status # "absent" /\ Home[t] = n
  <2>1. CASE w \in R
    BY <1>5, <1>6, <2>1
  <2>2. CASE tasks[w].status = "queued" /\ ReadyEntry(w) \in ready_tasks[n]
    <3>1. Home[w] = n
      BY <1>1, <2>2, HomeOfEntry, SMTT(30)
    <3> QED
      BY <1>5, <2>2, <3>1
  <2> QED
    BY <1>3, <2>1, <2>2
<1>8. u # t
  BY <1>3, <1>5
<1>9. ReadyEntry(u) \in ReadyAfterRecovery(n, now)
  <2>1. CASE u \in R
    BY <1>6, <2>1
  <2>2. CASE u \notin R
    <3>1. tasks'[u] = tasks[u]
      BY <1>3, <1>5, <1>8, <2>2
    <3>2. tasks[u].status = "queued" /\ tasks[u].namespace_id = n
      BY <1>3, <1>5, <1>7, <3>1 DEF Homed
    <3>3. PICK k \in Namespaces : ReadyEntry(u) \in ready_tasks[k]
      BY <3>2 DEF QueueInv, QueuedReady
    <3>4. Home[u] = k
      BY <3>3, HomeOfEntry
    <3>5. Home[u] = n
      BY <3>2 DEF Homed
    <3> QED
      BY <1>6, <3>3, <3>4, <3>5
  <2> QED
    BY <2>1, <2>2
<1>10. ReadyEntry(u) # ReadyEntry(t)
  BY <1>4, <1>8
<1> QED
  BY <1>3, <1>5, <1>9, <1>10

\* What a step that grants a lease says of the tasks it leaves waiting.
OldestGranted ==
  \A t, u \in Tasks :
    /\ tasks'[t].status = "leased"
    /\ tasks'[t].lease_epoch > tasks[t].lease_epoch
    /\ tasks'[u].status = "queued"
    /\ tasks'[u].namespace_id = tasks'[t].namespace_id
    => \/ tasks[t].created_at < tasks[u].created_at
       \/ tasks[t].created_at = tasks[u].created_at /\ t < u

LEMMA OldestStep ==
  ASSUME NEW Home, LeaseInv, QueueInv, HomeInv(Home), Homed(Home), [Next]_vars
  PROVE  OldestGranted
<1> SUFFICES ASSUME NEW t \in Tasks, NEW u \in Tasks,
                    tasks'[t].status = "leased",
                    tasks'[t].lease_epoch > tasks[t].lease_epoch,
                    tasks'[u].status = "queued",
                    tasks'[u].namespace_id = tasks'[t].namespace_id
             PROVE  \/ tasks[t].created_at < tasks[u].created_at
                    \/ tasks[t].created_at = tasks[u].created_at /\ t < u
  BY DEF OldestGranted
<1>1. TypeOK /\ HomeQueues(Home)
  BY DEF LeaseInv, HomeInv
<1>2. ~EpochKept(t)
  <2>1. tasks[t].lease_epoch \in Nat
    BY <1>1 DEF TypeOK, TaskRecords
  <2> QED
    BY <2>1, SMTT(30) DEF EpochKept
<1>3. PICK g \in Groups, m \in Members, l \in LeaseIds, now \in Clock,
          d \in Durations :
        ClaimTask(g, m, term, groups[g].generation, l, now, d)
  BY <1>2, OnlyClaimGrants
<1>4. Before(ReadyEntry(t), ReadyEntry(u))
  BY <1>1, <1>3, OldestClaimed
<1> QED
  BY <1>4, SMTT(30) DEF Before, ReadyEntry

\* Where deadlines fit a timestamp and a task identifier keeps to one
\* namespace, claim_task grants the oldest waiting task of the namespace,
\* counting the tasks whose leases it recovers on the way.
THEOREM OldestAlwaysFirst ==
  ASSUME NEW Home, DeadlinesFit
  PROVE  Spec /\ []Homed(Home) => OldestFirst
<1>1. LeaseInv /\ QueueInv /\ HomeInv(Home) /\ Homed(Home) /\ [Next]_vars
      => OldestGranted
  BY OldestStep
<1> QED
  BY <1>1, LeaseInvariant, QueueInvariant, HomeInvariant,
     PTL DEF Spec, OldestFirst, OldestGranted

\* In a broker that serves a single namespace the condition on identifiers
\* holds by itself: every restart is transparent, every lease stays within the
\* namespace of its group and every claim takes the oldest task.
THEOREM OneNamespaceBroker ==
  ASSUME NEW n, Namespaces = {n}, DeadlinesFit
  PROVE  Spec => []RestartTransparent /\ []LeaseWithinNamespace /\ OldestFirst
<1> DEFINE Home == [t \in Tasks |-> n]
<1>1. LeaseInv /\ Stored => Homed(Home)
  BY OneNamespaceHomes DEF LeaseInv
<1> HIDE DEF Home
<1>2. Init => HomeInv(Home)
  BY HomeInit
<1>3. /\ LeaseInv /\ Stored /\ HomeInv(Home) /\ Homed(Home) /\ Homed(Home)'
      /\ [Next]_vars
      => HomeInv(Home)'
  BY HomeStep
<1>4. /\ LeaseInv /\ Stored /\ QueueInv /\ CountInv /\ HomeInv(Home) /\ Homed(Home)
      => RestartTransparent /\ LeaseWithinNamespace
  BY HomeRestart DEF HomeInv
<1>5. LeaseInv /\ QueueInv /\ HomeInv(Home) /\ Homed(Home) /\ [Next]_vars
      => OldestGranted
  BY OldestStep
<1> QED
  BY <1>1, <1>2, <1>3, <1>4, <1>5, LeaseInvariant, StoredInvariant,
     QueueInvariant, CountInvariant, PTL DEF Spec, OldestFirst, OldestGranted

=============================================================================
