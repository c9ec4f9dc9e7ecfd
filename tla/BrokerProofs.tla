---------------------------- MODULE BrokerProofs ----------------------------
(***************************************************************************)
(* The broker state machine, for all sets of identifiers, clocks and       *)
(* limits: type correctness, the exactness of its lease indexes, the       *)
(* epochs that fence a lease's former holders, what late, repeated and     *)
(* reordered commands of workers can do, the reaper's selection, and what  *)
(* the change record of a step carries.                                    *)
(***************************************************************************)
EXTENDS WorkerFencing, FiniteSetTheorems, TLAPS

\* The prover of a step that names none.
USE ZenonT(30)

-----------------------------------------------------------------------------
(* The transitions of a task record *)

\* Task::new: a published task is queued in its namespace.
LEMMA QueuedTaskFields ==
  ASSUME NEW n \in Namespaces, NEW o \in Objectives, NEW now \in Nat
  PROVE  /\ QueuedTask(n, o, now) \in TaskRecords
         /\ QueuedTask(n, o, now).status = "queued"
         /\ QueuedTask(n, o, now).namespace_id = n
         /\ QueuedTask(n, o, now).created_at = now
BY DEF QueuedTask, AbsentTask, TaskRecords

\* Task::requeue: only the lease is dropped.
LEMMA RequeuedFields ==
  ASSUME NEW x \in TaskRecords
  PROVE  /\ Requeued(x) \in TaskRecords
         /\ Requeued(x).status = "queued"
         /\ Requeued(x).namespace_id = x.namespace_id
         /\ Requeued(x).created_at = x.created_at
         /\ Requeued(x).lease_epoch = x.lease_epoch
BY DEF Requeued, TaskRecords

\* Task::claim: the record carries the new lease, one epoch on.
LEMMA LeasedTaskFields ==
  ASSUME NEW x \in TaskRecords, NEW l \in LeaseIds, NEW g \in Groups,
         NEW m \in Members, NEW generation \in Nat, NEW expires \in Nat
  PROVE  LET y == LeasedTask(x, l, g, m, generation, expires) IN
         /\ y \in TaskRecords
         /\ y.status = "leased" /\ y.lease_id = l /\ y.group = g
         /\ y.owner = m /\ y.generation = generation
         /\ y.expires_at = expires
         /\ y.lease_epoch = x.lease_epoch + 1
         /\ y.namespace_id = x.namespace_id /\ y.created_at = x.created_at
<1> DEFINE y == LeasedTask(x, l, g, m, generation, expires)
<1>1. /\ x.lease_epoch + 1 \in Nat
      /\ y = [x EXCEPT !.status = "leased", !.lease_id = l,
                       !.lease_epoch = x.lease_epoch + 1, !.owner = m,
                       !.group = g, !.generation = generation,
                       !.expires_at = expires]
  BY SMTT(30) DEF LeasedTask, TaskRecords
<1>2. y \in TaskRecords
  <2> DEFINE v == [x EXCEPT !.status = "leased", !.lease_id = l,
                            !.lease_epoch = x.lease_epoch + 1]
             w == [v EXCEPT !.owner = m, !.group = g]
  <2>1. v \in TaskRecords
    BY <1>1 DEF TaskRecords
  <2> HIDE DEF v
  <2>2. w \in TaskRecords
    BY <2>1 DEF TaskRecords
  <2> HIDE DEF w
  <2>3. [w EXCEPT !.generation = generation, !.expires_at = expires]
          \in TaskRecords
    BY <2>2 DEF TaskRecords
  <2>4. y = [w EXCEPT !.generation = generation, !.expires_at = expires]
    BY <1>1 DEF v, w, TaskRecords
  <2> QED
    BY <2>3, <2>4
<1> QED
  BY <1>1, <1>2, SMTT(30) DEF TaskRecords

\* Task::complete: the record is closed where it is.
LEMMA CompletedTaskFields ==
  ASSUME NEW x \in TaskRecords, NEW r \in Results, NEW now \in Nat
  PROVE  LET y == CompletedTask(x, r, now) IN
         /\ y \in TaskRecords
         /\ y.status = "completed"
         /\ y.namespace_id = x.namespace_id /\ y.created_at = x.created_at
         /\ y.completed_at = now
BY DEF CompletedTask, TaskRecords

\* ConsumerGroup::join, leave and reap_stale_members: a change of members
\* advances the generation by one.
LEMMA WithMemberFields ==
  ASSUME NEW x \in GroupRecords, NEW m \in Members
  PROVE  /\ WithMember(x, m) \in GroupRecords
         /\ WithMember(x, m).members = x.members \cup {m}
         /\ WithMember(x, m).generation = x.generation + 1
         /\ WithMember(x, m).namespace_id = x.namespace_id
<1> DEFINE M == x.members \cup {m}
           k == x.generation + 1
<1>1. M \in SUBSET Members /\ k \in Nat
  BY SMTT(30) DEF GroupRecords
<1>2. WithMember(x, m) = [x EXCEPT !.members = M, !.generation = k]
  BY DEF WithMember, GroupRecords
<1>3. M = x.members \cup {m} /\ k = x.generation + 1
  OBVIOUS
<1> HIDE DEF M, k
<1> QED
  BY <1>1, <1>2, <1>3 DEF GroupRecords

LEMMA WithoutMembersFields ==
  ASSUME NEW x \in GroupRecords, NEW S \in SUBSET Members
  PROVE  /\ WithoutMembers(x, S) \in GroupRecords
         /\ WithoutMembers(x, S).members = x.members \ S
         /\ WithoutMembers(x, S).generation = x.generation + 1
         /\ WithoutMembers(x, S).namespace_id = x.namespace_id
<1> DEFINE M == x.members \ S
           k == x.generation + 1
<1>1. M \in SUBSET Members /\ k \in Nat
  BY SMTT(30) DEF GroupRecords
<1>2. WithoutMembers(x, S) = [x EXCEPT !.members = M, !.generation = k]
  BY DEF WithoutMembers, GroupRecords
<1>3. M = x.members \ S /\ k = x.generation + 1
  OBVIOUS
<1> HIDE DEF M, k
<1> QED
  BY <1>1, <1>2, <1>3 DEF GroupRecords

LEMMA ConsumerTypes ==
  /\ AbsentConsumer \in ConsumerRecords
  /\ \A x \in ConsumerRecords, now \in Nat :
       Refreshed(x, now) \in ConsumerRecords
BY DEF AbsentConsumer, Refreshed, ConsumerRecords

LEMMA AbsentTaskFields ==
  AbsentTask \in TaskRecords /\ AbsentTask.status = "absent"
BY DEF AbsentTask, TaskRecords

\* Requeueing a set of tasks leaves the others alone.
LEMMA RequeuedTasksFields ==
  ASSUME tasks \in [Tasks -> TaskRecords], NEW R \in SUBSET Tasks
  PROVE  /\ RequeuedTasks(R) \in [Tasks -> TaskRecords]
         /\ \A t \in R : /\ RequeuedTasks(R)[t] = Requeued(tasks[t])
                         /\ RequeuedTasks(R)[t].status = "queued"
                         /\ RequeuedTasks(R)[t].namespace_id
                              = tasks[t].namespace_id
                         /\ RequeuedTasks(R)[t].created_at
                              = tasks[t].created_at
                         /\ RequeuedTasks(R)[t].lease_epoch
                              = tasks[t].lease_epoch
         /\ \A t \in Tasks \ R : RequeuedTasks(R)[t] = tasks[t]
BY RequeuedFields DEF RequeuedTasks

-----------------------------------------------------------------------------
(* Type correctness *)

LEMMA RequeuedTypes ==
  ASSUME TypeOK, NEW R \in SUBSET Tasks
  PROVE  /\ RequeuedTasks(R) \in [Tasks -> TaskRecords]
         /\ RequeuedRevisions(R) \in [Tasks -> Nat]
         /\ ReleasedLeases(R) \in [LeaseIds -> Tasks \cup {None}]
         /\ ReleasedMemberLeases(R) \in [Groups \X Members -> SUBSET Tasks]
<1>1. RequeuedTasks(R) \in [Tasks -> TaskRecords]
  BY RequeuedTasksFields DEF TypeOK
<1>2. RequeuedRevisions(R) \in [Tasks -> Nat]
  BY SMTT(30) DEF TypeOK, RequeuedRevisions
<1>3. ReleasedLeases(R) \in [LeaseIds -> Tasks \cup {None}]
  BY DEF TypeOK, ReleasedLeases
<1>4. ReleasedMemberLeases(R) \in [Groups \X Members -> SUBSET Tasks]
  BY DEF TypeOK, ReleasedMemberLeases
<1> QED
  BY <1>1, <1>2, <1>3, <1>4

\* The tasks a removal of members requeues, with their ready entries.
LEMMA LeasedByTypes ==
  ASSUME TypeOK, NEW P \in SUBSET (Groups \X Members)
  PROVE  /\ LeasedBy(P) \in SUBSET Tasks
         /\ \A t \in LeasedBy(P) : <<tasks[t].created_at, t>> \in Nat \X Tasks
<1>1. \A p \in P : member_lease_tasks[p] \subseteq Tasks
  BY DEF TypeOK
<1>2. LeasedBy(P) \in SUBSET Tasks
  BY <1>1 DEF LeasedBy
<1>3. \A t \in Tasks : tasks[t].created_at \in Nat
  BY DEF TypeOK, TaskRecords
<1> QED
  BY <1>2, <1>3

LEMMA ReapedTypes ==
  ASSUME NEW cutoff, NEW max
  PROVE  Reaped(cutoff, max) \in SUBSET (Groups \X Members)
BY DEF Reaped

LEMMA RecoveryTypes ==
  ASSUME TypeOK, NEW n \in Namespaces, NEW now \in Nat
  PROVE  /\ RecoverableTasks(n, now) \in SUBSET Tasks
         /\ ReadyAfterRecovery(n, now) \in SUBSET (Nat \X Tasks)
         /\ ClaimableEntries(n, now) \in SUBSET (Nat \X Tasks)
<1>1. RecoverableTasks(n, now) \in SUBSET Tasks
  BY DEF RecoverableTasks
<1>2. \A t \in Tasks : tasks[t].created_at \in Nat
  BY DEF TypeOK, TaskRecords
<1>3. ready_tasks[n] \in SUBSET (Nat \X Tasks)
  BY DEF TypeOK
<1>4. ReadyAfterRecovery(n, now) \in SUBSET (Nat \X Tasks)
  BY <1>1, <1>2, <1>3, SMTT(30) DEF ReadyAfterRecovery
<1> QED
  BY <1>1, <1>4 DEF ClaimableEntries

LEMMA NextRevisionType ==
  ASSUME TypeOK, NextRevision
  PROVE  revision' \in Nat
BY SMTT(30) DEF TypeOK, NextRevision

LEMMA ChangeSetTypes ==
  /\ NoChanges \in ChangeSets
  /\ \A S \in SUBSET Namespaces :
       [NoChanges EXCEPT !.namespaces = S] \in ChangeSets
  /\ \A S \in SUBSET Tasks : [NoChanges EXCEPT !.tasks = S] \in ChangeSets
  /\ \A S \in SUBSET Tasks :
       [NoChanges EXCEPT !.deleted_tasks = S] \in ChangeSets
  /\ \A S \in SUBSET Groups : [NoChanges EXCEPT !.groups = S] \in ChangeSets
  /\ \A S \in SUBSET Groups, R \in SUBSET Tasks :
       [NoChanges EXCEPT !.groups = S, !.tasks = R] \in ChangeSets
BY DEF NoChanges, ChangeSets

LEMMA TypeInit == Init => TypeOK
<1> SUFFICES ASSUME Init PROVE TypeOK
  OBVIOUS
<1>1. tasks \in [Tasks -> TaskRecords]
  BY AbsentTaskFields DEF Init
<1>2. groups \in [Groups -> GroupRecords]
  BY DEF Init, AbsentGroup, GroupRecords
<1>3. consumers \in [Groups \X Members -> ConsumerRecords]
  BY DEF Init, AbsentConsumer, ConsumerRecords
<1> QED
  BY <1>1, <1>2, <1>3, ChangeSetTypes DEF Init, TypeOK

LEMMA TypeRegister ==
  ASSUME TypeOK, Register
  PROVE  TypeOK'
<1>1. ASSUME NEW n \in Namespaces, EnsureNamespace(n)
      PROVE  TypeOK'
  BY <1>1, NextRevisionType, ChangeSetTypes
  DEF EnsureNamespace, TypeOK, indexes
<1>2. ASSUME NEW n \in Namespaces, NEW g \in Groups, EnsureConsumerGroup(n, g)
      PROVE  TypeOK'
  <2>1. [groups[g] EXCEPT !.namespace_id = n] \in GroupRecords
    BY SMTT(30) DEF TypeOK, GroupRecords
  <2>2. groups' \in [Groups -> GroupRecords]
    BY <1>2, <2>1 DEF EnsureConsumerGroup, TypeOK
  <2>3. /\ group_revision' \in [Groups -> Nat]
        /\ namespace_group_counts' \in [Namespaces -> Nat]
    BY <1>2, SMTT(30) DEF EnsureConsumerGroup, TypeOK
  <2>4. revision' \in Nat /\ changes' \in ChangeSets
    BY <1>2, NextRevisionType, ChangeSetTypes DEF EnsureConsumerGroup
  <2> QED
    BY <1>2, <2>2, <2>3, <2>4 DEF EnsureConsumerGroup, TypeOK
<1>3. ASSUME NEW n \in Namespaces, NEW t \in Tasks, NEW o \in Objectives,
             NEW now \in Clock, PublishTask(n, t, o, now)
      PROVE  TypeOK'
  <2>1. now \in Nat /\ QueuedTask(n, o, now) \in TaskRecords
    BY ClockAssumption, QueuedTaskFields
  <2>2. /\ tasks' \in [Tasks -> TaskRecords]
        /\ task_revision' \in [Tasks -> Nat]
    BY <1>3, <2>1 DEF PublishTask, TypeOK
  <2>3. /\ ready_tasks' \in [Namespaces -> SUBSET (Nat \X Tasks)]
        /\ namespace_task_counts' \in [Namespaces -> Nat]
    BY <1>3, <2>1, SMTT(30) DEF PublishTask, TypeOK
  <2>4. revision' \in Nat /\ changes' \in ChangeSets
    BY <1>3, NextRevisionType, ChangeSetTypes DEF PublishTask
  <2> QED
    BY <1>3, <2>2, <2>3, <2>4 DEF PublishTask, TypeOK
<1> QED
  BY <1>1, <1>2, <1>3 DEF Register

LEMMA TypeRemoveMembers ==
  ASSUME TypeOK, NEW P \in SUBSET (Groups \X Members), RemoveMembers(P)
  PROVE  TypeOK'
<1>1. LeasedBy(P) \in SUBSET Tasks
  BY LeasedByTypes
<1>2. /\ tasks' \in [Tasks -> TaskRecords]
      /\ task_revision' \in [Tasks -> Nat]
      /\ active_lease_tasks' \in [LeaseIds -> Tasks \cup {None}]
  BY <1>1, RequeuedTypes DEF RemoveMembers, RequeueMemberLeases
<1>3. member_lease_tasks' \in [Groups \X Members -> SUBSET Tasks]
  BY DEF RemoveMembers, RequeueMemberLeases, TypeOK
<1>4. ready_tasks' \in [Namespaces -> SUBSET (Nat \X Tasks)]
  <2> DEFINE Returned(n) ==
        {<<tasks[t].created_at, t>> :
           t \in {u \in LeasedBy(P) : tasks[u].namespace_id = n}}
  <2>1. \A n \in Namespaces : ready_tasks[n] \in SUBSET (Nat \X Tasks)
    BY DEF TypeOK
  <2>2. \A n \in Namespaces : Returned(n) \in SUBSET (Nat \X Tasks)
    BY LeasedByTypes
  <2>3. ready_tasks' = [n \in Namespaces |-> ready_tasks[n] \cup Returned(n)]
    BY DEF RemoveMembers, RequeueMemberLeases
  <2> HIDE DEF Returned
  <2> QED
    BY <2>1, <2>2, <2>3
<1>5. groups' \in [Groups -> GroupRecords]
  <2>1. \A g \in Groups : groups[g] \in GroupRecords
    BY DEF TypeOK
  <2>2. \A g \in Groups :
          WithoutMembers(groups[g], {m \in Members : <<g, m>> \in P})
            \in GroupRecords
    <3> SUFFICES ASSUME NEW g \in Groups
                 PROVE  WithoutMembers(groups[g],
                          {m \in Members : <<g, m>> \in P}) \in GroupRecords
      OBVIOUS
    <3> DEFINE S == {m \in Members : <<g, m>> \in P}
    <3>1. S \in SUBSET Members
      OBVIOUS
    <3> HIDE DEF S
    <3>2. WithoutMembers(groups[g], S) \in GroupRecords
      BY <2>1, <3>1, WithoutMembersFields
    <3> QED
      BY <3>2 DEF S
  <2> QED
    BY <2>1, <2>2 DEF RemoveMembers
<1>6. consumers' \in [Groups \X Members -> ConsumerRecords]
  BY ConsumerTypes DEF RemoveMembers, TypeOK
<1>7. group_revision' \in [Groups -> Nat]
  BY SMTT(30) DEF RemoveMembers, TypeOK
<1>8. changes' \in ChangeSets
  <2>1. {p[1] : p \in P} \in SUBSET Groups
    OBVIOUS
  <2> QED
    BY <1>1, <2>1, ChangeSetTypes DEF RemoveMembers
<1>9. revision' \in Nat
  BY NextRevisionType DEF RemoveMembers
<1> QED
  BY <1>2, <1>3, <1>4, <1>5, <1>6, <1>7, <1>8, <1>9 DEF RemoveMembers, TypeOK

LEMMA TypeMembership ==
  ASSUME TypeOK, Membership
  PROVE  TypeOK'
<1>1. PICK g \in Groups, m \in Members :
        \/ \E c \in Capabilities, now \in Clock :
             JoinConsumerGroup(g, m, c, now)
        \/ \E now \in Clock :
             HeartbeatConsumerGroup(g, m, groups[g].generation, now)
        \/ LeaveConsumerGroup(g, m, groups[g].generation)
  BY DEF Membership
<1>2. /\ groups[g] \in GroupRecords
      /\ <<g, m>> \in Groups \X Members
      /\ consumers[<<g, m>>] \in ConsumerRecords
  BY DEF TypeOK
<1>3. ASSUME NEW c \in Capabilities, NEW now \in Clock,
             JoinConsumerGroup(g, m, c, now)
      PROVE  TypeOK'
  <2>1. now \in Nat
    BY ClockAssumption
  <2>2. [heartbeat |-> now, capabilities |-> c] \in ConsumerRecords
    BY <2>1 DEF ConsumerRecords
  <2>3. groups' \in [Groups -> GroupRecords]
    <3>1. WithMember(groups[g], m) \in GroupRecords
      BY <1>2, WithMemberFields
    <3> QED
      BY <1>3, <3>1 DEF JoinConsumerGroup, TypeOK
  <2>4. consumers' \in [Groups \X Members -> ConsumerRecords]
    <3>1. Refreshed(consumers[<<g, m>>], now) \in ConsumerRecords
      BY <1>2, <2>1, ConsumerTypes
    <3> QED
      BY <1>2, <1>3, <2>2, <3>1 DEF JoinConsumerGroup, TypeOK
  <2>5. group_revision' \in [Groups -> Nat]
    BY <1>3, SMTT(30) DEF JoinConsumerGroup, TypeOK
  <2>6. revision' \in Nat /\ changes' \in ChangeSets
    BY <1>3, NextRevisionType, ChangeSetTypes DEF JoinConsumerGroup
  <2> QED
    BY <1>3, <2>3, <2>4, <2>5, <2>6 DEF JoinConsumerGroup, TypeOK, indexes
<1>4. ASSUME NEW now \in Clock,
             HeartbeatConsumerGroup(g, m, groups[g].generation, now)
      PROVE  TypeOK'
  <2>1. Refreshed(consumers[<<g, m>>], now) \in ConsumerRecords
    BY <1>2, ClockAssumption, ConsumerTypes
  <2>2. consumers' \in [Groups \X Members -> ConsumerRecords]
    BY <1>2, <1>4, <2>1 DEF HeartbeatConsumerGroup, TypeOK
  <2>3. group_revision' \in [Groups -> Nat]
    BY <1>4, SMTT(30) DEF HeartbeatConsumerGroup, TypeOK
  <2>4. revision' \in Nat /\ changes' \in ChangeSets
    BY <1>4, NextRevisionType, ChangeSetTypes DEF HeartbeatConsumerGroup
  <2> QED
    BY <1>4, <2>2, <2>3, <2>4 DEF HeartbeatConsumerGroup, TypeOK, indexes
<1>5. ASSUME LeaveConsumerGroup(g, m, groups[g].generation)
      PROVE  TypeOK'
  BY <1>2, <1>5, TypeRemoveMembers DEF LeaveConsumerGroup
<1> QED
  BY <1>1, <1>3, <1>4, <1>5

\* A claim works in the namespace of a registered group.
LEMMA ClaimTypes ==
  ASSUME TypeOK, NEW g \in Groups, NEW m \in Members, NEW l \in LeaseIds,
         NEW now \in Clock,
         ClaimAllowed(g, m, term, groups[g].generation, l)
  PROVE  /\ groups[g] \in GroupRecords
         /\ groups[g].namespace_id \in Namespaces
         /\ groups[g].generation \in Nat
         /\ now \in Nat
         /\ <<g, m>> \in Groups \X Members
<1>1. groups[g] \in GroupRecords
  BY DEF TypeOK
<1> QED
  BY <1>1, ClockAssumption DEF ClaimAllowed, RequireGroupMember, GroupRecords

LEMMA TypeClaimNothing ==
  ASSUME TypeOK, NEW g \in Groups, NEW m \in Members, NEW l \in LeaseIds,
         NEW now \in Clock,
         ClaimNothing(g, m, term, groups[g].generation, l, now)
  PROVE  TypeOK'
<1> DEFINE n == groups[g].namespace_id
<1>1. n \in Namespaces
  BY ClaimTypes DEF ClaimNothing
<1>2. /\ ready_tasks' \in [Namespaces -> SUBSET (Nat \X Tasks)]
      /\ lease_expirations' \in [Namespaces -> SUBSET (Nat \X Tasks \X Nat)]
  BY <1>1 DEF ClaimNothing, TypeOK
<1> QED
  BY <1>2, ChangeSetTypes DEF ClaimNothing, TypeOK, state

LEMMA TypeClaimTask ==
  ASSUME TypeOK, NEW g \in Groups, NEW m \in Members, NEW l \in LeaseIds,
         NEW now \in Clock, NEW d \in Durations,
         ClaimTask(g, m, term, groups[g].generation, l, now, d)
  PROVE  TypeOK'
<1> DEFINE n == groups[g].namespace_id
           R == RecoverableTasks(n, now)
           entries == ClaimableEntries(n, now)
           ready == ReadyAfterRecovery(n, now)
<1>1. /\ n \in Namespaces /\ groups[g].generation \in Nat
      /\ now \in Nat /\ <<g, m>> \in Groups \X Members
  BY ClaimTypes DEF ClaimTask
<1>2. now + d \in Nat
  BY <1>1, ClockAssumption, SMTT(30)
<1>3. /\ R \in SUBSET Tasks
      /\ ready \in SUBSET (Nat \X Tasks)
      /\ entries \in SUBSET (Nat \X Tasks)
  BY <1>1, RecoveryTypes
<1>4. PICK e \in entries :
        LET t == e[2] IN
        /\ tasks' = [RequeuedTasks(R) EXCEPT
             ![t] = LeasedTask(@, l, g, m, groups[g].generation, now + d)]
        /\ task_revision' = [RequeuedRevisions(R) EXCEPT ![t] = @ + 1]
        /\ active_lease_tasks' = [ReleasedLeases(R) EXCEPT ![l] = t]
        /\ member_lease_tasks' =
             [ReleasedMemberLeases(R) EXCEPT ![<<g, m>>] = @ \cup {t}]
        /\ ready_tasks' = [ready_tasks EXCEPT
             ![n] = {f \in ready : Before(e, f)}]
        /\ lease_expirations' = [lease_expirations EXCEPT
             ![n] = (@ \ DueExpirations(n, now)) \cup
                      {<<now + d, t, tasks[t].lease_epoch + 1>>}]
        /\ changes' = [NoChanges EXCEPT !.tasks = R \cup {t}]
  BY DEF ClaimTask
<1> DEFINE t == e[2]
<1>5. t \in Tasks
  BY <1>3
<1>6. /\ RequeuedTasks(R) \in [Tasks -> TaskRecords]
      /\ RequeuedRevisions(R) \in [Tasks -> Nat]
      /\ ReleasedLeases(R) \in [LeaseIds -> Tasks \cup {None}]
      /\ ReleasedMemberLeases(R) \in [Groups \X Members -> SUBSET Tasks]
  BY <1>3, RequeuedTypes
<1>7. /\ revision' \in Nat
      /\ UNCHANGED <<term, namespaces, groups, consumers, group_revision,
                     completed_tasks, namespace_task_counts,
                     namespace_group_counts>>
  BY NextRevisionType DEF ClaimTask
<1>8. tasks[t].lease_epoch + 1 \in Nat
  BY <1>5, SMTT(30) DEF TypeOK, TaskRecords
<1> HIDE DEF n, R, entries, ready, t
<1>9. tasks' \in [Tasks -> TaskRecords]
  <2>1. LeasedTask(RequeuedTasks(R)[t], l, g, m, groups[g].generation, now + d)
          \in TaskRecords
    BY <1>1, <1>2, <1>5, <1>6, LeasedTaskFields, SMTT(30)
  <2> QED
    BY <1>4, <1>5, <1>6, <2>1 DEF t
<1>10. /\ task_revision' \in [Tasks -> Nat]
       /\ active_lease_tasks' \in [LeaseIds -> Tasks \cup {None}]
  BY <1>4, <1>5, <1>6, SMTT(30) DEF t
<1>11. member_lease_tasks' \in [Groups \X Members -> SUBSET Tasks]
  BY <1>1, <1>4, <1>5, <1>6 DEF t
<1>12. ready_tasks' \in [Namespaces -> SUBSET (Nat \X Tasks)]
  BY <1>3, <1>4 DEF TypeOK
<1>13. lease_expirations' \in [Namespaces -> SUBSET (Nat \X Tasks \X Nat)]
  <2>1. <<now + d, t, tasks[t].lease_epoch + 1>> \in Nat \X Tasks \X Nat
    BY <1>2, <1>5, <1>8
  <2> QED
    BY <1>4, <2>1 DEF TypeOK, t
<1>14. changes' \in ChangeSets
  <2>1. R \cup {t} \in SUBSET Tasks
    BY <1>3, <1>5
  <2> QED
    BY <1>4, <2>1, ChangeSetTypes DEF t
<1> QED
  BY <1>7, <1>9, <1>10, <1>11, <1>12, <1>13, <1>14 DEF TypeOK

LEMMA TypeClaimTaskOverflow ==
  ASSUME TypeOK, NEW g \in Groups, NEW m \in Members, NEW l \in LeaseIds,
         NEW now \in Clock, NEW d \in Durations,
         ClaimTaskOverflow(g, m, term, groups[g].generation, l, now, d)
  PROVE  TypeOK'
<1> DEFINE n == groups[g].namespace_id
           R == RecoverableTasks(n, now)
           ready == ReadyAfterRecovery(n, now)
<1>1. n \in Namespaces /\ now \in Nat
  BY ClaimTypes DEF ClaimTaskOverflow
<1>2. R \in SUBSET Tasks /\ ready \in SUBSET (Nat \X Tasks)
  BY <1>1, RecoveryTypes
<1>3. /\ tasks' \in [Tasks -> TaskRecords]
      /\ task_revision' \in [Tasks -> Nat]
      /\ active_lease_tasks' \in [LeaseIds -> Tasks \cup {None}]
      /\ member_lease_tasks' \in [Groups \X Members -> SUBSET Tasks]
  BY <1>2, RequeuedTypes DEF ClaimTaskOverflow
<1>4. PICK e : ready_tasks' = [ready_tasks EXCEPT
                                 ![n] = {f \in ready : Before(e, f)}]
  BY DEF ClaimTaskOverflow
<1>5. lease_expirations' \in [Namespaces -> SUBSET (Nat \X Tasks \X Nat)]
  BY <1>1 DEF ClaimTaskOverflow, TypeOK
<1>6. /\ changes' \in ChangeSets
      /\ UNCHANGED <<term, revision, namespaces, groups, consumers,
                     group_revision, completed_tasks, namespace_task_counts,
                     namespace_group_counts>>
  BY ChangeSetTypes DEF ClaimTaskOverflow
<1> HIDE DEF n, R, ready
<1>7. ready_tasks' \in [Namespaces -> SUBSET (Nat \X Tasks)]
  BY <1>2, <1>4 DEF TypeOK
<1> QED
  BY <1>3, <1>5, <1>6, <1>7 DEF TypeOK

LEMMA TypeUseLease ==
  ASSUME TypeOK, UseLease
  PROVE  TypeOK'
<1>1. PICK t \in Tasks, now \in Clock :
        LET lease == tasks[t]
            generation == groups[lease.group].generation
        IN  \/ \E d \in Durations :
                 RenewTaskLease(t, lease.group, lease.owner, term, generation,
                                lease.lease_epoch, lease.lease_id, now, d)
            \/ \E r \in Results :
                 CompleteTask(t, lease.group, lease.owner, term, generation,
                              lease.lease_epoch, lease.lease_id, r, now)
  BY DEF UseLease
<1>2. /\ now \in Nat
      /\ tasks[t] \in TaskRecords
      /\ tasks[t].lease_epoch \in Nat
  BY ClockAssumption DEF TypeOK, TaskRecords
<1>3. ASSUME NEW d \in Durations, NEW g, NEW m, NEW k, NEW l,
             RenewTaskLease(t, g, m, term, k, tasks[t].lease_epoch, l, now, d)
      PROVE  TypeOK'
  <2>1. now + d \in Nat
    BY <1>2, ClockAssumption, SMTT(30)
  <2>2. tasks' \in [Tasks -> TaskRecords]
    <3>1. [tasks[t] EXCEPT !.expires_at = now + d] \in TaskRecords
      BY <1>2, <2>1 DEF TaskRecords
    <3> QED
      BY <1>3, <3>1 DEF RenewTaskLease, TypeOK
  <2>3. task_revision' \in [Tasks -> Nat]
    BY <1>3, SMTT(30) DEF RenewTaskLease, TypeOK
  <2>4. lease_expirations' \in [Namespaces -> SUBSET (Nat \X Tasks \X Nat)]
    <3>1. <<now + d, t, tasks[t].lease_epoch>> \in Nat \X Tasks \X Nat
      BY <1>2, <2>1
    <3> QED
      BY <1>3, <3>1 DEF RenewTaskLease, TypeOK
  <2>5. revision' \in Nat /\ changes' \in ChangeSets
    BY <1>3, NextRevisionType, ChangeSetTypes DEF RenewTaskLease
  <2> QED
    BY <1>3, <2>2, <2>3, <2>4, <2>5 DEF RenewTaskLease, TypeOK
<1>4. ASSUME NEW r \in Results, NEW g, NEW m, NEW k, NEW l,
             CompleteTask(t, g, m, term, k, tasks[t].lease_epoch, l, r, now)
      PROVE  TypeOK'
  <2>1. tasks' \in [Tasks -> TaskRecords]
    <3>1. CompletedTask(tasks[t], r, now) \in TaskRecords
      BY <1>2, CompletedTaskFields
    <3> QED
      BY <1>4, <3>1 DEF CompleteTask, TypeOK
  <2>2. task_revision' \in [Tasks -> Nat]
    BY <1>4, SMTT(30) DEF CompleteTask, TypeOK
  <2>3. active_lease_tasks' \in [LeaseIds -> Tasks \cup {None}]
    BY <1>4 DEF CompleteTask, TypeOK
  <2>4. member_lease_tasks' \in [Groups \X Members -> SUBSET Tasks]
    BY <1>4 DEF CompleteTask, TypeOK
  <2>5. completed_tasks' \subseteq Nat \X Tasks
    BY <1>2, <1>4, SMTT(30) DEF CompleteTask, TypeOK
  <2>6. revision' \in Nat /\ changes' \in ChangeSets
    BY <1>4, NextRevisionType, ChangeSetTypes DEF CompleteTask
  <2> QED
    BY <1>4, <2>1, <2>2, <2>3, <2>4, <2>5, <2>6 DEF CompleteTask, TypeOK
<1> QED
  BY <1>1, <1>3, <1>4

LEMMA TypePrune ==
  ASSUME TypeOK, NEW cutoff \in Clock, NEW max \in Batches,
         PruneCompletedTasks(cutoff, max)
  PROVE  TypeOK'
<1> DEFINE selected == PruneSelection(cutoff, max)
           pruned == {e[2] : e \in selected}
<1>1. selected \subseteq completed_tasks
  BY DEF PruneSelection
<1>2. pruned \in SUBSET Tasks
  BY <1>1, SMTT(30) DEF TypeOK
<1>3. /\ \A n \in Namespaces :
           Cardinality(PrunedIn(n, pruned)) <= namespace_task_counts[n]
      /\ tasks' = [t \in Tasks |-> IF t \in pruned THEN AbsentTask ELSE tasks[t]]
      /\ task_revision' =
           [t \in Tasks |-> IF t \in pruned THEN 0 ELSE task_revision[t]]
      /\ completed_tasks' \subseteq completed_tasks
      /\ namespace_task_counts' = CountsAfterPrune(pruned)
      /\ changes' = [NoChanges EXCEPT !.deleted_tasks = pruned]
      /\ NextRevision
      /\ UNCHANGED <<term, namespaces, groups, consumers, group_revision,
                     ready_tasks, lease_expirations, active_lease_tasks,
                     member_lease_tasks, namespace_group_counts>>
  BY DEF PruneCompletedTasks
<1> HIDE DEF selected, pruned
<1>4. tasks' \in [Tasks -> TaskRecords] /\ task_revision' \in [Tasks -> Nat]
  BY <1>3, AbsentTaskFields DEF TypeOK
<1>5. namespace_task_counts' \in [Namespaces -> Nat]
  <2>1. ASSUME NEW n \in Namespaces
        PROVE  /\ Cardinality(PrunedIn(n, pruned)) \in Nat
               /\ namespace_task_counts[n] \in Nat
    <3>1. PrunedIn(n, pruned) \subseteq Tasks
      BY <1>2 DEF PrunedIn
    <3> QED
      BY <3>1, IdentifiersAreFinite, FS_Subset, FS_CardinalityType DEF TypeOK
  <2> QED
    BY <1>3, <2>1, SMTT(30) DEF CountsAfterPrune
<1>6. revision' \in Nat /\ changes' \in ChangeSets
  BY <1>2, <1>3, NextRevisionType, ChangeSetTypes
<1>7. completed_tasks' \subseteq Nat \X Tasks
  BY <1>3 DEF TypeOK
<1> QED
  BY <1>3, <1>4, <1>5, <1>6, <1>7 DEF TypeOK

LEMMA TypeMaintain ==
  ASSUME TypeOK, Maintain
  PROVE  TypeOK'
<1>1. ASSUME NEW cutoff \in Clock, NEW max \in Batches,
             ReapStaleMembers(cutoff, max)
      PROVE  TypeOK'
  BY <1>1, ReapedTypes, TypeRemoveMembers DEF ReapStaleMembers
<1> QED
  BY <1>1, TypePrune DEF Maintain

LEMMA TypeFromCheckpoint ==
  ASSUME TypeOK, FromCheckpoint
  PROVE  TypeOK'
<1>1. \A t \in Tasks : /\ tasks[t].created_at \in Nat
                       /\ tasks[t].expires_at \in Nat
                       /\ tasks[t].lease_epoch \in Nat
                       /\ tasks[t].completed_at \in Nat
  BY DEF TypeOK, TaskRecords
<1>2. ready_tasks' \in [Namespaces -> SUBSET (Nat \X Tasks)]
  BY <1>1, SMTT(30) DEF FromCheckpoint, RebuiltReady, TasksIn
<1>3. lease_expirations' \in [Namespaces -> SUBSET (Nat \X Tasks \X Nat)]
  BY <1>1, SMTT(30) DEF FromCheckpoint, RebuiltExpirations, TasksIn
<1>4. active_lease_tasks' \in [LeaseIds -> Tasks \cup {None}]
  <2>1. \A l \in LeaseIds : HoldersOf(l) \subseteq Tasks
    BY DEF HoldersOf
  <2> QED
    BY <2>1 DEF FromCheckpoint, RebuiltLeases
<1>5. member_lease_tasks' \in [Groups \X Members -> SUBSET Tasks]
  BY DEF FromCheckpoint, RebuiltMemberLeases
<1>6. completed_tasks' \subseteq Nat \X Tasks
  BY <1>1, SMTT(30) DEF FromCheckpoint, RebuiltCompleted
<1>7. \A S : S \subseteq Tasks \/ S \subseteq Groups => Cardinality(S) \in Nat
  BY IdentifiersAreFinite, FS_Subset, FS_CardinalityType
<1>8. namespace_task_counts' \in [Namespaces -> Nat]
  <2> DEFINE S(n) == {t \in Tasks : tasks[t].status # "absent"
                                      /\ tasks[t].namespace_id = n}
  <2>1. \A n \in Namespaces : Cardinality(S(n)) \in Nat
    BY <1>7
  <2>2. namespace_task_counts' = [n \in Namespaces |-> Cardinality(S(n))]
    BY DEF FromCheckpoint, RebuiltTaskCounts
  <2> HIDE DEF S
  <2> QED
    BY <2>1, <2>2
<1>9. namespace_group_counts' \in [Namespaces -> Nat]
  <2> DEFINE S(n) == {g \in Groups : groups[g].namespace_id = n}
  <2>1. \A n \in Namespaces : Cardinality(S(n)) \in Nat
    BY <1>7
  <2>2. namespace_group_counts' = [n \in Namespaces |-> Cardinality(S(n))]
    BY DEF FromCheckpoint, RebuiltGroupCounts
  <2> HIDE DEF S
  <2> QED
    BY <2>1, <2>2
<1> QED
  BY <1>2, <1>3, <1>4, <1>5, <1>6, <1>8, <1>9, ChangeSetTypes
  DEF FromCheckpoint, TypeOK, state

LEMMA TypeStep ==
  ASSUME TypeOK, [Next]_vars
  PROVE  TypeOK'
<1>1. CASE Register
  BY <1>1, TypeRegister
<1>2. CASE Membership
  BY <1>2, TypeMembership
<1>3. CASE Claim
  BY <1>3, TypeClaimNothing, TypeClaimTask, TypeClaimTaskOverflow DEF Claim
<1>4. CASE UseLease
  BY <1>4, TypeUseLease
<1>5. CASE Maintain
  BY <1>5, TypeMaintain
<1>6. ASSUME NEW new_term \in 1..MaxTerm, AdvanceTerm(term, new_term)
      PROVE  TypeOK'
  <2>1. term' \in Nat
    BY <1>6, LimitsAssumption, SMTT(30) DEF AdvanceTerm
  <2>2. revision' \in Nat /\ changes' \in ChangeSets
    BY <1>6, NextRevisionType, ChangeSetTypes DEF AdvanceTerm
  <2> QED
    BY <1>6, <2>1, <2>2 DEF AdvanceTerm, TypeOK, indexes
<1>7. CASE FromCheckpoint
  BY <1>7, TypeFromCheckpoint
<1>8. CASE UNCHANGED vars
  BY <1>8 DEF vars, state, indexes, TypeOK
<1> QED
  BY <1>1, <1>2, <1>3, <1>4, <1>5, <1>6, <1>7, <1>8 DEF Next

\* Every command, every rejected claim and every restart keep the broker and
\* its indexes in their types.
THEOREM TypeCorrect == Spec => []TypeOK
<1>1. Init => TypeOK
  BY TypeInit
<1>2. TypeOK /\ [Next]_vars => TypeOK'
  BY TypeStep
<1> QED
  BY <1>1, <1>2, PTL DEF Spec

-----------------------------------------------------------------------------
(* The lease indexes of the broker state machine are exact and no lease    *)
(* outlives its holder's membership, including claims rejected half way    *)
(* and restarts.  The three properties need each other: a removal of       *)
(* members requeues what the member map lists, so LeaseHeldByMember needs  *)
(* the map to be complete; a claim may use a lease id because the lease    *)
(* map has no entry for it, so LeaseMapExact needs that map to be          *)
(* complete.                                                               *)

LeasesWellFormed ==
  \A t \in Tasks : tasks[t].status = "leased" =>
    /\ tasks[t].lease_id \in LeaseIds
    /\ tasks[t].group \in Groups
    /\ tasks[t].owner \in Members

LeaseInv ==
  /\ TypeOK
  /\ LeasesWellFormed
  /\ LeaseMapExact
  /\ MemberMapExact
  /\ LeaseHeldByMember

SameLease(t) ==
  /\ tasks'[t].status = "leased" <=> tasks[t].status = "leased"
  /\ tasks[t].status = "leased" =>
       /\ tasks'[t].lease_id = tasks[t].lease_id
       /\ tasks'[t].group = tasks[t].group
       /\ tasks'[t].owner = tasks[t].owner
       /\ tasks'[t].generation = tasks[t].generation

NoMemberLost ==
  \A g \in Groups : /\ groups[g].members \subseteq groups'[g].members
                    /\ groups[g].generation <= groups'[g].generation

-----------------------------------------------------------------------------
LEMMA LeaseInit == Init => LeaseInv
<1> SUFFICES ASSUME Init PROVE LeaseInv
  OBVIOUS
<1>1. \A t \in Tasks : tasks[t].status = "absent"
  BY AbsentTaskFields DEF Init
<1>2. /\ LeasesWellFormed /\ LeaseHeldByMember
  BY <1>1 DEF LeasesWellFormed, LeaseHeldByMember
<1>3. LeaseMapExact
  BY <1>1, NoneIsNoValue DEF Init, LeaseMapExact
<1>4. MemberMapExact
  BY <1>1 DEF Init, MemberMapExact
<1> QED
  BY <1>2, <1>3, <1>4, TypeInit DEF LeaseInv

\* A step that changes no lease and removes no member.
LEMMA LeaseFrame ==
  ASSUME LeaseInv, TypeOK', \A t \in Tasks : SameLease(t), NoMemberLost,
         UNCHANGED <<active_lease_tasks, member_lease_tasks>>
  PROVE  LeaseInv'
<1>1. LeasesWellFormed'
  BY DEF LeaseInv, LeasesWellFormed, SameLease
<1>2. LeaseMapExact'
  BY SMTT(30) DEF LeaseInv, LeaseMapExact, SameLease
<1>3. MemberMapExact'
  <2> SUFFICES ASSUME NEW p \in Groups \X Members
               PROVE  member_lease_tasks'[p] =
                        {t \in Tasks : tasks'[t].status = "leased"
                           /\ <<tasks'[t].group, tasks'[t].owner>> = p}
    BY DEF MemberMapExact
  <2>1. member_lease_tasks[p] =
          {t \in Tasks : tasks[t].status = "leased"
             /\ <<tasks[t].group, tasks[t].owner>> = p}
    BY DEF LeaseInv, MemberMapExact
  <2> QED
    BY <2>1 DEF SameLease
<1>4. LeaseHeldByMember'
  <2> SUFFICES ASSUME NEW t \in Tasks, tasks'[t].status = "leased"
               PROVE  /\ tasks'[t].group \in Groups
                      /\ tasks'[t].owner \in groups'[tasks'[t].group].members
                      /\ tasks'[t].generation
                           <= groups'[tasks'[t].group].generation
    BY DEF LeaseHeldByMember
  <2> DEFINE g == tasks[t].group
  <2>1. /\ g \in Groups
        /\ tasks[t].owner \in groups[g].members
        /\ tasks[t].generation <= groups[g].generation
    BY DEF LeaseInv, LeaseHeldByMember, SameLease
  <2>2. /\ tasks[t].generation \in Nat
        /\ groups[g].generation \in Nat /\ groups'[g].generation \in Nat
    BY <2>1 DEF LeaseInv, TypeOK, TaskRecords, GroupRecords
  <2>3. /\ groups[g].members \subseteq groups'[g].members
        /\ groups[g].generation <= groups'[g].generation
    BY <2>1 DEF NoMemberLost
  <2>4. /\ tasks'[t].group = g /\ tasks'[t].owner = tasks[t].owner
        /\ tasks'[t].generation = tasks[t].generation
    BY DEF SameLease
  <2> QED
    BY <2>1, <2>2, <2>3, <2>4, SMTT(30)
<1> QED
  BY <1>1, <1>2, <1>3, <1>4 DEF LeaseInv

-----------------------------------------------------------------------------
(* Requeueing *)

\* Releasing the ids of the leased tasks R leaves the map exact.
LEMMA ReleasedLeasesExact ==
  ASSUME LeaseInv, NEW R \in SUBSET Tasks,
         \A t \in R : tasks[t].status = "leased",
         NEW l \in LeaseIds, NEW t \in Tasks
  PROVE  ReleasedLeases(R)[l] = t <=>
           t \notin R /\ tasks[t].status = "leased" /\ tasks[t].lease_id = l
<1>1. \A u \in Tasks : active_lease_tasks[l] = u <=>
                         tasks[u].status = "leased" /\ tasks[u].lease_id = l
  BY DEF LeaseInv, LeaseMapExact
<1>2. CASE \E u \in R : tasks[u].lease_id = l
  <2>1. PICK u \in R : tasks[u].lease_id = l
    BY <1>2
  <2>2. active_lease_tasks[l] = u
    BY <1>1, <2>1
  <2>3. ReleasedLeases(R)[l] = None
    BY <1>2 DEF ReleasedLeases
  <2> QED
    BY <1>1, <2>1, <2>2, <2>3, NoneIsNoValue
<1>3. CASE ~ \E u \in R : tasks[u].lease_id = l
  <2>1. ReleasedLeases(R)[l] = active_lease_tasks[l]
    BY <1>3 DEF ReleasedLeases
  <2> QED
    BY <1>1, <1>3, <2>1
<1> QED
  BY <1>2, <1>3

\* And so does striking them from their holders' lists.
LEMMA ReleasedMemberLeasesExact ==
  ASSUME LeaseInv, NEW R \in SUBSET Tasks, NEW p \in Groups \X Members
  PROVE  ReleasedMemberLeases(R)[p] =
           {t \in Tasks : /\ t \notin R /\ tasks[t].status = "leased"
                          /\ <<tasks[t].group, tasks[t].owner>> = p}
<1>1. member_lease_tasks[p] =
        {t \in Tasks : tasks[t].status = "leased"
                         /\ <<tasks[t].group, tasks[t].owner>> = p}
  BY DEF LeaseInv, MemberMapExact
<1>2. ReleasedMemberLeases(R)[p] =
        {t \in member_lease_tasks[p] :
           ~(t \in R /\ <<tasks[t].group, tasks[t].owner>> = p)}
  BY DEF ReleasedMemberLeases
<1> QED
  BY <1>1, <1>2

\* The member map leads to every lease of the members being removed.
LEMMA LeasedByExact ==
  ASSUME LeaseInv, NEW P \in SUBSET (Groups \X Members)
  PROVE  LeasedBy(P) = {t \in Tasks : /\ tasks[t].status = "leased"
                                      /\ <<tasks[t].group, tasks[t].owner>> \in P}
<1>1. ASSUME NEW t \in Tasks, tasks[t].status = "leased",
             <<tasks[t].group, tasks[t].owner>> \in P
      PROVE  t \in UNION {member_lease_tasks[p] : p \in P}
  <2> DEFINE q == <<tasks[t].group, tasks[t].owner>>
  <2>1. q \in Groups \X Members
    BY <1>1
  <2>2. t \in member_lease_tasks[q]
    BY <1>1, <2>1 DEF LeaseInv, MemberMapExact
  <2> QED
    BY <1>1, <2>2
<1>2. LeasedBy(P) \subseteq Tasks
  BY LeasedByTypes DEF LeaseInv
<1> QED
  BY <1>1, <1>2 DEF LeasedBy

LEMMA LeaseRemoveMembers ==
  ASSUME LeaseInv, NEW P \in SUBSET (Groups \X Members), RemoveMembers(P)
  PROVE  LeaseInv'
<1> DEFINE R == LeasedBy(P)
<1>1. /\ R \in SUBSET Tasks
      /\ \A t \in Tasks : t \in R <=>
           /\ tasks[t].status = "leased"
           /\ <<tasks[t].group, tasks[t].owner>> \in P
  BY LeasedByExact
<1>2. /\ tasks' = RequeuedTasks(R)
      /\ active_lease_tasks' = ReleasedLeases(R)
      /\ member_lease_tasks' = [p \in Groups \X Members |->
           IF p \in P THEN {} ELSE member_lease_tasks[p]]
  BY DEF RemoveMembers, RequeueMemberLeases
<1>3. TypeOK'
  BY TypeRemoveMembers DEF LeaseInv
<1> HIDE DEF R
<1>4. /\ \A t \in R : tasks'[t].status = "queued"
      /\ \A t \in Tasks \ R : tasks'[t] = tasks[t]
  BY <1>1, <1>2, RequeuedTasksFields, SMTT(30) DEF LeaseInv, TypeOK
<1>5. LeasesWellFormed'
  BY <1>4 DEF LeaseInv, LeasesWellFormed
<1>6. LeaseMapExact'
  <2> SUFFICES ASSUME NEW l \in LeaseIds, NEW t \in Tasks
               PROVE  active_lease_tasks'[l] = t <=>
                        tasks'[t].status = "leased" /\ tasks'[t].lease_id = l
    BY DEF LeaseMapExact
  <2>1. active_lease_tasks'[l] = t <=>
          t \notin R /\ tasks[t].status = "leased" /\ tasks[t].lease_id = l
    <3>1. \A u \in R : tasks[u].status = "leased"
      BY <1>1
    <3> QED
      BY <1>1, <1>2, <3>1, ReleasedLeasesExact, SMTT(30)
  <2> QED
    BY <1>4, <2>1
<1>7. MemberMapExact'
  <2> SUFFICES ASSUME NEW p \in Groups \X Members
               PROVE  member_lease_tasks'[p] =
                        {t \in Tasks : tasks'[t].status = "leased"
                           /\ <<tasks'[t].group, tasks'[t].owner>> = p}
    BY DEF MemberMapExact
  <2>1. member_lease_tasks[p] =
          {t \in Tasks : tasks[t].status = "leased"
             /\ <<tasks[t].group, tasks[t].owner>> = p}
    BY DEF LeaseInv, MemberMapExact
  <2>2. CASE p \in P
    BY <1>1, <1>2, <1>4, <2>2, SMTT(30)
  <2>3. CASE p \notin P
    BY <1>1, <1>2, <1>4, <2>1, <2>3, SMTT(30)
  <2> QED
    BY <2>2, <2>3
<1>8. LeaseHeldByMember'
  <2> SUFFICES ASSUME NEW t \in Tasks, tasks'[t].status = "leased"
               PROVE  /\ tasks'[t].group \in Groups
                      /\ tasks'[t].owner \in groups'[tasks'[t].group].members
                      /\ tasks'[t].generation
                           <= groups'[tasks'[t].group].generation
    BY DEF LeaseHeldByMember
  <2> DEFINE g == tasks[t].group
             m == tasks[t].owner
  <2>1. t \notin R /\ tasks'[t] = tasks[t] /\ tasks[t].status = "leased"
    BY <1>4
  <2>2. /\ g \in Groups /\ m \in Members /\ m \in groups[g].members
        /\ tasks[t].generation <= groups[g].generation
        /\ <<g, m>> \notin P
    BY <1>1, <2>1 DEF LeaseInv, LeasesWellFormed, LeaseHeldByMember
  <2>3. groups[g] \in GroupRecords /\ tasks[t].generation \in Nat
    BY <2>2 DEF LeaseInv, TypeOK, TaskRecords
  <2> DEFINE gone == {x \in Members : <<g, x>> \in P}
  <2>4. groups'[g] \in {groups[g], WithoutMembers(groups[g], gone)}
    BY <2>2 DEF RemoveMembers
  <2>5. gone \in SUBSET Members /\ m \notin gone
    BY <2>2
  <2> HIDE DEF gone
  <2>6. /\ WithoutMembers(groups[g], gone).members = groups[g].members \ gone
        /\ WithoutMembers(groups[g], gone).generation
             = groups[g].generation + 1
    BY <2>3, <2>5, WithoutMembersFields
  <2>7. m \in groups'[g].members
    BY <2>2, <2>4, <2>5, <2>6
  <2>8. tasks[t].generation <= groups'[g].generation
    BY <2>2, <2>3, <2>4, <2>6, SMTT(30) DEF GroupRecords
  <2> QED
    BY <2>1, <2>2, <2>7, <2>8
<1> QED
  BY <1>3, <1>5, <1>6, <1>7, <1>8 DEF LeaseInv

-----------------------------------------------------------------------------
(* Claiming *)

\* Only leased tasks are recovered, and what a claim takes is queued by then.
LEMMA ClaimableFields ==
  ASSUME TypeOK, NEW n \in Namespaces, NEW now \in Nat
  PROVE  /\ \A t \in RecoverableTasks(n, now) : tasks[t].status = "leased"
         /\ \A e \in ClaimableEntries(n, now) :
              /\ e[2] \in Tasks
              /\ tasks[e[2]].status = "queued" \/ e[2] \in RecoverableTasks(n, now)
<1>1. ClaimableEntries(n, now) \in SUBSET (Nat \X Tasks)
  BY RecoveryTypes
<1> QED
  BY <1>1 DEF RecoverableTasks, ClaimableEntries

LEMMA LeaseClaimTask ==
  ASSUME LeaseInv, NEW g \in Groups, NEW m \in Members, NEW l \in LeaseIds,
         NEW now \in Clock, NEW d \in Durations,
         ClaimTask(g, m, term, groups[g].generation, l, now, d)
  PROVE  LeaseInv'
<1> DEFINE n == groups[g].namespace_id
           R == RecoverableTasks(n, now)
           k == groups[g].generation
<1>1. /\ TypeOK /\ TypeOK'
      /\ n \in Namespaces /\ now \in Nat /\ k \in Nat
      /\ <<g, m>> \in Groups \X Members
  <2>1. TypeOK
    BY DEF LeaseInv
  <2>2. TypeOK'
    BY <2>1, TypeClaimTask
  <2>3. ClaimAllowed(g, m, term, groups[g].generation, l)
    BY DEF ClaimTask
  <2> QED
    BY <2>1, <2>2, <2>3, ClaimTypes
<1>2. PICK e \in ClaimableEntries(n, now) :
        LET t == e[2] IN
        /\ tasks' = [RequeuedTasks(R) EXCEPT
             ![t] = LeasedTask(@, l, g, m, groups[g].generation, now + d)]
        /\ active_lease_tasks' = [ReleasedLeases(R) EXCEPT ![l] = t]
        /\ member_lease_tasks' =
             [ReleasedMemberLeases(R) EXCEPT ![<<g, m>>] = @ \cup {t}]
  BY DEF ClaimTask
<1> DEFINE t == e[2]
<1>3. /\ R \in SUBSET Tasks /\ t \in Tasks
      /\ \A u \in R : tasks[u].status = "leased"
      /\ tasks[t].status = "queued" \/ t \in R
  BY <1>1, RecoveryTypes, ClaimableFields
<1>4. /\ UNCHANGED groups /\ active_lease_tasks[l] = None
      /\ m \in groups[g].members
  BY DEF ClaimTask, ClaimAllowed, RequireGroupMember
<1> HIDE DEF n, R, t
<1>5. /\ RequeuedTasks(R) \in [Tasks -> TaskRecords]
      /\ \A u \in R : RequeuedTasks(R)[u].status = "queued"
      /\ \A u \in Tasks \ R : RequeuedTasks(R)[u] = tasks[u]
  BY <1>1, <1>3, RequeuedTasksFields DEF TypeOK
<1>6. now + d \in Nat
  BY <1>1, ClockAssumption, SMTT(30)
<1>7. /\ tasks'[t].status = "leased" /\ tasks'[t].lease_id = l
      /\ tasks'[t].group = g /\ tasks'[t].owner = m
      /\ tasks'[t].generation = k
  <2>1. tasks'[t] = LeasedTask(RequeuedTasks(R)[t], l, g, m, k, now + d)
    BY <1>2, <1>3, <1>5 DEF t
  <2>2. RequeuedTasks(R)[t] \in TaskRecords
    BY <1>3, <1>5
  <2> QED
    BY <1>1, <1>6, <2>1, <2>2, LeasedTaskFields, SMTT(30)
<1>8. /\ \A u \in R \ {t} : tasks'[u].status = "queued"
      /\ \A u \in Tasks \ (R \cup {t}) : tasks'[u] = tasks[u]
  BY <1>2, <1>3, <1>5 DEF t
<1>9. LeasesWellFormed'
  BY <1>7, <1>8 DEF LeaseInv, LeasesWellFormed
<1>10. LeaseMapExact'
  <2> SUFFICES ASSUME NEW l2 \in LeaseIds, NEW u \in Tasks
               PROVE  active_lease_tasks'[l2] = u <=>
                        tasks'[u].status = "leased" /\ tasks'[u].lease_id = l2
    BY DEF LeaseMapExact
  <2>1. ReleasedLeases(R)[l2] = u <=>
          u \notin R /\ tasks[u].status = "leased" /\ tasks[u].lease_id = l2
    BY <1>3, ReleasedLeasesExact, SMTT(30)
  <2>2. active_lease_tasks'[l2] = IF l2 = l THEN t ELSE ReleasedLeases(R)[l2]
    BY <1>2 DEF t, ReleasedLeases
  <2>3. ~(tasks[u].status = "leased" /\ tasks[u].lease_id = l)
    BY <1>4, NoneIsNoValue, SMTT(30) DEF LeaseInv, LeaseMapExact
  <2>4. CASE u = t
    BY <1>3, <1>7, <2>1, <2>2, <2>4
  <2>5. CASE u # t
    BY <1>8, <2>1, <2>2, <2>3, <2>5, SMTT(30)
  <2> QED
    BY <2>4, <2>5
<1>11. MemberMapExact'
  <2> SUFFICES ASSUME NEW p \in Groups \X Members
               PROVE  member_lease_tasks'[p] =
                        {u \in Tasks : tasks'[u].status = "leased"
                           /\ <<tasks'[u].group, tasks'[u].owner>> = p}
    BY DEF MemberMapExact
  <2>1. ReleasedMemberLeases(R)[p] =
          {u \in Tasks : /\ u \notin R /\ tasks[u].status = "leased"
                         /\ <<tasks[u].group, tasks[u].owner>> = p}
    BY <1>3, ReleasedMemberLeasesExact
  <2>2. member_lease_tasks'[p] =
          IF p = <<g, m>> THEN ReleasedMemberLeases(R)[p] \cup {t}
                          ELSE ReleasedMemberLeases(R)[p]
    BY <1>2 DEF t, ReleasedMemberLeases
  <2>3. t \notin ReleasedMemberLeases(R)[p]
    BY <1>3, <2>1
  <2>4. \A u \in Tasks \ {t} :
          u \in ReleasedMemberLeases(R)[p] <=>
            tasks'[u].status = "leased"
              /\ <<tasks'[u].group, tasks'[u].owner>> = p
    BY <1>8, <2>1
  <2>5. ReleasedMemberLeases(R)[p] \subseteq Tasks
    BY <2>1
  <2> QED
    BY <1>3, <1>7, <2>2, <2>3, <2>4, <2>5
<1>12. LeaseHeldByMember'
  BY <1>1, <1>4, <1>7, <1>8, SMTT(30) DEF LeaseInv, LeaseHeldByMember
<1> QED
  BY <1>1, <1>9, <1>10, <1>11, <1>12 DEF LeaseInv

LEMMA LeaseClaimTaskOverflow ==
  ASSUME LeaseInv, NEW g \in Groups, NEW m \in Members, NEW l \in LeaseIds,
         NEW now \in Clock, NEW d \in Durations,
         ClaimTaskOverflow(g, m, term, groups[g].generation, l, now, d)
  PROVE  LeaseInv'
<1> DEFINE n == groups[g].namespace_id
           R == RecoverableTasks(n, now)
<1>1. /\ TypeOK /\ TypeOK' /\ n \in Namespaces /\ now \in Nat
  BY TypeClaimTaskOverflow, ClaimTypes DEF ClaimTaskOverflow, LeaseInv
<1>2. /\ tasks' = RequeuedTasks(R)
      /\ active_lease_tasks' = ReleasedLeases(R)
      /\ member_lease_tasks' = ReleasedMemberLeases(R)
      /\ UNCHANGED groups
  BY DEF ClaimTaskOverflow
<1>3. R \in SUBSET Tasks /\ \A t \in R : tasks[t].status = "leased"
  BY <1>1, RecoveryTypes, ClaimableFields
<1> HIDE DEF n, R
<1>4. /\ \A t \in R : tasks'[t].status = "queued"
      /\ \A t \in Tasks \ R : tasks'[t] = tasks[t]
  <2>1. tasks \in [Tasks -> TaskRecords]
    BY <1>1 DEF TypeOK
  <2> QED
    BY <1>2, <1>3, <2>1, RequeuedTasksFields
<1>5. LeasesWellFormed' /\ LeaseHeldByMember'
  BY <1>2, <1>4 DEF LeaseInv, LeasesWellFormed, LeaseHeldByMember
<1>6. LeaseMapExact'
  <2> SUFFICES ASSUME NEW l2 \in LeaseIds, NEW t \in Tasks
               PROVE  active_lease_tasks'[l2] = t <=>
                        tasks'[t].status = "leased" /\ tasks'[t].lease_id = l2
    BY DEF LeaseMapExact
  <2>1. active_lease_tasks'[l2] = t <=>
          t \notin R /\ tasks[t].status = "leased" /\ tasks[t].lease_id = l2
    BY <1>2, <1>3, ReleasedLeasesExact, SMTT(30)
  <2> QED
    BY <1>4, <2>1
<1>7. MemberMapExact'
  <2> SUFFICES ASSUME NEW p \in Groups \X Members
               PROVE  member_lease_tasks'[p] =
                        {t \in Tasks : tasks'[t].status = "leased"
                           /\ <<tasks'[t].group, tasks'[t].owner>> = p}
    BY DEF MemberMapExact
  <2>1. member_lease_tasks'[p] =
          {t \in Tasks : /\ t \notin R /\ tasks[t].status = "leased"
                         /\ <<tasks[t].group, tasks[t].owner>> = p}
    BY <1>2, <1>3, ReleasedMemberLeasesExact
  <2> QED
    BY <1>4, <2>1
<1> QED
  BY <1>1, <1>5, <1>6, <1>7 DEF LeaseInv

-----------------------------------------------------------------------------
(* The other commands *)

LEMMA LeaseComplete ==
  ASSUME LeaseInv, TypeOK', NEW t \in Tasks, NEW k, NEW r \in Results,
         NEW now \in Nat,
         CompleteTask(t, tasks[t].group, tasks[t].owner, term, k,
                      tasks[t].lease_epoch, tasks[t].lease_id, r, now)
  PROVE  LeaseInv'
<1> DEFINE l == tasks[t].lease_id
           q == <<tasks[t].group, tasks[t].owner>>
<1>1. /\ tasks[t].status = "leased"
      /\ tasks' = [tasks EXCEPT ![t] = CompletedTask(tasks[t], r, now)]
      /\ active_lease_tasks' = [active_lease_tasks EXCEPT ![l] = None]
      /\ member_lease_tasks' = [member_lease_tasks EXCEPT ![q] = @ \ {t}]
      /\ UNCHANGED groups
  BY DEF CompleteTask, ActiveLease
<1>2. /\ tasks[t] \in TaskRecords /\ tasks \in [Tasks -> TaskRecords]
      /\ active_lease_tasks \in [LeaseIds -> Tasks \cup {None}]
      /\ member_lease_tasks \in [Groups \X Members -> SUBSET Tasks]
  BY DEF LeaseInv, TypeOK
<1>3. /\ tasks'[t].status = "completed"
      /\ \A u \in Tasks \ {t} : tasks'[u] = tasks[u]
  BY <1>1, <1>2, CompletedTaskFields
<1>4. LeasesWellFormed' /\ LeaseHeldByMember'
  BY <1>1, <1>3 DEF LeaseInv, LeasesWellFormed, LeaseHeldByMember
<1>5. LeaseMapExact'
  <2> SUFFICES ASSUME NEW l2 \in LeaseIds, NEW u \in Tasks
               PROVE  active_lease_tasks'[l2] = u <=>
                        tasks'[u].status = "leased" /\ tasks'[u].lease_id = l2
    BY DEF LeaseMapExact
  <2>1. \A v \in Tasks : active_lease_tasks[l2] = v <=>
                           tasks[v].status = "leased" /\ tasks[v].lease_id = l2
    BY DEF LeaseInv, LeaseMapExact
  <2>2. active_lease_tasks'[l2] = IF l2 = l THEN None ELSE active_lease_tasks[l2]
    BY <1>1, <1>2
  <2> QED
    BY <1>1, <1>3, <2>1, <2>2, NoneIsNoValue, SMTT(30)
<1>6. MemberMapExact'
  <2> SUFFICES ASSUME NEW p \in Groups \X Members
               PROVE  member_lease_tasks'[p] =
                        {u \in Tasks : tasks'[u].status = "leased"
                           /\ <<tasks'[u].group, tasks'[u].owner>> = p}
    BY DEF MemberMapExact
  <2>1. member_lease_tasks[p] =
          {u \in Tasks : tasks[u].status = "leased"
             /\ <<tasks[u].group, tasks[u].owner>> = p}
    BY DEF LeaseInv, MemberMapExact
  <2>2. member_lease_tasks'[p] = IF p = q THEN member_lease_tasks[p] \ {t}
                                          ELSE member_lease_tasks[p]
    BY <1>1, <1>2
  <2> QED
    BY <1>3, <2>1, <2>2
<1> QED
  BY <1>4, <1>5, <1>6 DEF LeaseInv

LEMMA LeaseUse ==
  ASSUME LeaseInv, TypeOK', UseLease
  PROVE  LeaseInv'
<1>1. PICK t \in Tasks, now \in Clock :
        LET lease == tasks[t]
            generation == groups[lease.group].generation
        IN  \/ \E d \in Durations :
                 RenewTaskLease(t, lease.group, lease.owner, term, generation,
                                lease.lease_epoch, lease.lease_id, now, d)
            \/ \E r \in Results :
                 CompleteTask(t, lease.group, lease.owner, term, generation,
                              lease.lease_epoch, lease.lease_id, r, now)
  BY DEF UseLease
<1>2. now \in Nat /\ tasks \in [Tasks -> TaskRecords]
  BY ClockAssumption DEF LeaseInv, TypeOK
<1>3. ASSUME NEW d \in Durations, NEW g, NEW m, NEW k, NEW l,
             RenewTaskLease(t, g, m, term, k, tasks[t].lease_epoch, l, now, d)
      PROVE  LeaseInv'
  <2>1. /\ tasks' = [tasks EXCEPT ![t].expires_at = now + d]
        /\ UNCHANGED <<groups, active_lease_tasks, member_lease_tasks>>
    BY <1>3 DEF RenewTaskLease
  <2>2. \A u \in Tasks : SameLease(u)
    BY <1>2, <2>1 DEF SameLease, TaskRecords
  <2>3. NoMemberLost
    BY <2>1, SMTT(30) DEF NoMemberLost, LeaseInv, TypeOK, GroupRecords
  <2> QED
    BY <2>1, <2>2, <2>3, LeaseFrame
<1> QED
  BY <1>1, <1>2, <1>3, LeaseComplete

\* Pruning only touches completed tasks.
LEMMA LeasePrune ==
  ASSUME LeaseInv, TypeOK', NEW cutoff, NEW max,
         PruneCompletedTasks(cutoff, max)
  PROVE  LeaseInv'
<1> DEFINE pruned == {e[2] : e \in PruneSelection(cutoff, max)}
<1>1. \A t \in pruned : tasks[t].status = "completed"
  BY DEF PruneSelection
<1>2. /\ tasks' = [t \in Tasks |-> IF t \in pruned THEN AbsentTask ELSE tasks[t]]
      /\ UNCHANGED <<groups, active_lease_tasks, member_lease_tasks>>
  BY DEF PruneCompletedTasks
<1> HIDE DEF pruned
<1>3. \A t \in Tasks : SameLease(t)
  BY <1>1, <1>2, AbsentTaskFields DEF SameLease
<1>4. NoMemberLost
  BY <1>2, SMTT(30) DEF NoMemberLost, LeaseInv, TypeOK, GroupRecords
<1> QED
  BY <1>2, <1>3, <1>4, LeaseFrame

\* A restart derives the maps from the leases the tasks carry.
LEMMA LeaseFromCheckpoint ==
  ASSUME LeaseInv, TypeOK', FromCheckpoint
  PROVE  LeaseInv'
<1>1. UNCHANGED <<tasks, groups>>
  BY DEF FromCheckpoint, state
<1>2. LeasesWellFormed' /\ LeaseHeldByMember'
  BY <1>1 DEF LeaseInv, LeasesWellFormed, LeaseHeldByMember
<1>3. LeaseMapExact'
  <2> SUFFICES ASSUME NEW l \in LeaseIds, NEW t \in Tasks
               PROVE  active_lease_tasks'[l] = t <=>
                        tasks[t].status = "leased" /\ tasks[t].lease_id = l
    BY <1>1 DEF LeaseMapExact
  <2>1. active_lease_tasks'[l] = IF HoldersOf(l) = {} THEN None
                                   ELSE CHOOSE u \in HoldersOf(l) : TRUE
    BY DEF FromCheckpoint, RebuiltLeases
  <2>2. \A u, v \in HoldersOf(l) : u = v
    BY DEF FromCheckpoint, Restorable
  <2>3. t \in HoldersOf(l) <=> tasks[t].status = "leased"
                                 /\ tasks[t].lease_id = l
    BY DEF HoldersOf
  <2>4. CASE HoldersOf(l) = {}
    BY <2>1, <2>3, <2>4, NoneIsNoValue
  <2>5. CASE HoldersOf(l) # {}
    <3>1. active_lease_tasks'[l] \in HoldersOf(l)
      BY <2>1, <2>5
    <3> QED
      BY <2>2, <2>3, <3>1
  <2> QED
    BY <2>4, <2>5
<1>4. MemberMapExact'
  BY <1>1 DEF MemberMapExact, FromCheckpoint, RebuiltMemberLeases
<1> QED
  BY <1>2, <1>3, <1>4 DEF LeaseInv

LEMMA LeaseRegister ==
  ASSUME LeaseInv, TypeOK', Register
  PROVE  LeaseInv'
<1>1. \A g \in Groups : groups[g] \in GroupRecords
  BY DEF LeaseInv, TypeOK
<1>2. ASSUME NEW n \in Namespaces, EnsureNamespace(n)
      PROVE  LeaseInv'
  <2>1. (\A t \in Tasks : SameLease(t)) /\ NoMemberLost
    BY <1>1, <1>2, SMTT(30) DEF EnsureNamespace, SameLease, NoMemberLost, GroupRecords
  <2> QED
    BY <1>2, <2>1, LeaseFrame DEF EnsureNamespace, indexes
<1>3. ASSUME NEW n \in Namespaces, NEW g \in Groups, EnsureConsumerGroup(n, g)
      PROVE  LeaseInv'
  <2>1. \A t \in Tasks : SameLease(t)
    BY <1>3 DEF EnsureConsumerGroup, SameLease
  <2>2. NoMemberLost
    BY <1>1, <1>3, SMTT(30)
    DEF EnsureConsumerGroup, NoMemberLost, GroupRecords, LeaseInv, TypeOK
  <2> QED
    BY <1>3, <2>1, <2>2, LeaseFrame DEF EnsureConsumerGroup
<1>4. ASSUME NEW n \in Namespaces, NEW t \in Tasks, NEW o \in Objectives,
             NEW now \in Clock, PublishTask(n, t, o, now)
      PROVE  LeaseInv'
  <2>1. now \in Nat /\ tasks \in [Tasks -> TaskRecords]
    BY ClockAssumption DEF LeaseInv, TypeOK
  <2>2. QueuedTask(n, o, now).status = "queued"
    BY <2>1, QueuedTaskFields
  <2>3. \A u \in Tasks : SameLease(u)
    BY <1>4, <2>1, <2>2 DEF PublishTask, SameLease
  <2>4. NoMemberLost
    BY <1>1, <1>4, SMTT(30) DEF PublishTask, NoMemberLost, GroupRecords
  <2> QED
    BY <1>4, <2>3, <2>4, LeaseFrame DEF PublishTask
<1> QED
  BY <1>2, <1>3, <1>4 DEF Register

LEMMA LeaseMembership ==
  ASSUME LeaseInv, TypeOK', Membership
  PROVE  LeaseInv'
<1>1. \A g \in Groups : groups[g] \in GroupRecords
  BY DEF LeaseInv, TypeOK
<1>2. ASSUME NEW g \in Groups, NEW m \in Members, NEW c \in Capabilities,
             NEW now \in Clock, JoinConsumerGroup(g, m, c, now)
      PROVE  LeaseInv'
  <2>1. \A t \in Tasks : SameLease(t)
    BY <1>2 DEF JoinConsumerGroup, SameLease
  <2>2. /\ WithMember(groups[g], m).members = groups[g].members \cup {m}
        /\ WithMember(groups[g], m).generation = groups[g].generation + 1
    BY <1>1, WithMemberFields
  <2>3. NoMemberLost
    BY <1>1, <1>2, <2>2, SMTT(30)
    DEF JoinConsumerGroup, NoMemberLost, GroupRecords, LeaseInv, TypeOK
  <2> QED
    BY <1>2, <2>1, <2>3, LeaseFrame DEF JoinConsumerGroup, indexes
<1>3. ASSUME NEW g \in Groups, NEW m \in Members, NEW now \in Clock,
             HeartbeatConsumerGroup(g, m, groups[g].generation, now)
      PROVE  LeaseInv'
  <2>1. \A t \in Tasks : SameLease(t)
    BY <1>3 DEF HeartbeatConsumerGroup, SameLease
  <2>2. NoMemberLost
    BY <1>1, <1>3, SMTT(30) DEF HeartbeatConsumerGroup, NoMemberLost, GroupRecords
  <2> QED
    BY <1>3, <2>1, <2>2, LeaseFrame DEF HeartbeatConsumerGroup, indexes
<1>4. ASSUME NEW g \in Groups, NEW m \in Members,
             LeaveConsumerGroup(g, m, groups[g].generation)
      PROVE  LeaseInv'
  <2>1. {<<g, m>>} \in SUBSET (Groups \X Members)
    BY SMTT(30)
  <2> QED
    BY <1>4, <2>1, LeaseRemoveMembers DEF LeaveConsumerGroup
<1> QED
  BY <1>2, <1>3, <1>4 DEF Membership

LEMMA LeaseClaim ==
  ASSUME LeaseInv, TypeOK', Claim
  PROVE  LeaseInv'
<1>1. ASSUME NEW g \in Groups, NEW m \in Members, NEW l \in LeaseIds,
             NEW now \in Clock,
             ClaimNothing(g, m, term, groups[g].generation, l, now)
      PROVE  LeaseInv'
  <2>1. \A t \in Tasks : SameLease(t)
    BY <1>1 DEF ClaimNothing, state, SameLease
  <2>2. NoMemberLost
    BY <1>1, SMTT(30) DEF ClaimNothing, state, NoMemberLost, LeaseInv, TypeOK,
                GroupRecords
  <2> QED
    BY <1>1, <2>1, <2>2, LeaseFrame DEF ClaimNothing
<1> QED
  BY <1>1, LeaseClaimTask, LeaseClaimTaskOverflow DEF Claim

LEMMA LeaseStep ==
  ASSUME LeaseInv, [Next]_vars
  PROVE  LeaseInv'
<1>1. TypeOK'
  BY TypeStep DEF LeaseInv
<1>2. CASE Register
  BY <1>1, <1>2, LeaseRegister
<1>3. CASE Membership
  BY <1>1, <1>3, LeaseMembership
<1>4. CASE Claim
  BY <1>1, <1>4, LeaseClaim
<1>5. CASE UseLease
  BY <1>1, <1>5, LeaseUse
<1>6. CASE Maintain
  <2>1. ASSUME NEW cutoff \in Clock, NEW max \in Batches,
               ReapStaleMembers(cutoff, max)
        PROVE  LeaseInv'
    BY <2>1, ReapedTypes, LeaseRemoveMembers DEF ReapStaleMembers
  <2> QED
    BY <1>1, <1>6, <2>1, LeasePrune DEF Maintain
<1>7. ASSUME UNCHANGED <<tasks, groups, active_lease_tasks, member_lease_tasks>>
      PROVE  LeaseInv'
  <2>1. (\A t \in Tasks : SameLease(t)) /\ NoMemberLost
    BY <1>7, SMTT(30) DEF SameLease, NoMemberLost, LeaseInv, TypeOK, GroupRecords
  <2> QED
    BY <1>1, <1>7, <2>1, LeaseFrame
<1>8. ASSUME NEW new_term \in 1..MaxTerm, AdvanceTerm(term, new_term)
      PROVE  LeaseInv'
  BY <1>7, <1>8 DEF AdvanceTerm, indexes
<1>9. CASE FromCheckpoint
  BY <1>1, <1>9, LeaseFromCheckpoint
<1>10. CASE UNCHANGED vars
  BY <1>7, <1>10 DEF vars, state, indexes
<1> QED
  BY <1>2, <1>3, <1>4, <1>5, <1>6, <1>8, <1>9, <1>10 DEF Next

LEMMA LeaseInvariant == Spec => []LeaseInv
<1>1. Init => LeaseInv
  BY LeaseInit
<1>2. LeaseInv /\ [Next]_vars => LeaseInv'
  BY LeaseStep
<1> QED
  BY <1>1, <1>2, PTL DEF Spec

\* active_lease_tasks is the inverse of the leases the tasks carry, after any
\* sequence of commands and restarts: a lease id names at most one task.
THEOREM LeaseMapAlwaysExact == Spec => []LeaseMapExact
<1>1. LeaseInv => LeaseMapExact
  BY DEF LeaseInv
<1> QED
  BY <1>1, LeaseInvariant, PTL

\* member_lease_tasks lists exactly the leases of each member, so leaving and
\* reaping return all of a member's work and nobody else's.
THEOREM MemberMapAlwaysExact == Spec => []MemberMapExact
<1>1. LeaseInv => MemberMapExact
  BY DEF LeaseInv
<1> QED
  BY <1>1, LeaseInvariant, PTL

\* A task is only ever leased to a current member of a group that has reached
\* the generation the lease was granted under.
THEOREM LeasesHeldByMembers == Spec => []LeaseHeldByMember
<1>1. LeaseInv => LeaseHeldByMember
  BY DEF LeaseInv
<1> QED
  BY <1>1, LeaseInvariant, PTL

-----------------------------------------------------------------------------
(* A task's epoch advances with every grant and with nothing else.  A      *)
(* command may recover a lease and grant the task again in one step, to    *)
(* the same member of the same generation; that this is another grant      *)
(* rests on the lease map, which has no entry for a lease id that may be   *)
(* claimed under.                                                          *)

EpochFollows(t) ==
  tasks'[t].status # "absent" /\ tasks[t].status # "absent" =>
    tasks'[t].lease_epoch =
      tasks[t].lease_epoch + (IF Granted(t) THEN 1 ELSE 0)

\* Task t keeps its epoch and gets no lease it did not have.
EpochKept(t) ==
  /\ tasks'[t].status # "absent" /\ tasks[t].status # "absent" =>
       tasks'[t].lease_epoch = tasks[t].lease_epoch
  /\ tasks'[t].status = "leased" =>
       tasks[t].status = "leased" /\ GrantOf(tasks'[t]) = GrantOf(tasks[t])

LEMMA KeptFollows ==
  ASSUME TypeOK, NEW t \in Tasks, EpochKept(t)
  PROVE  EpochFollows(t)
<1>1. tasks[t].lease_epoch \in Nat
  BY DEF TypeOK, TaskRecords
<1>2. ~Granted(t)
  BY DEF EpochKept, Granted
<1> QED
  BY <1>1, <1>2, SMTT(30) DEF EpochKept, EpochFollows

LEMMA SameKept ==
  ASSUME NEW t \in Tasks, tasks'[t] = tasks[t]
  PROVE  EpochKept(t)
BY DEF EpochKept, GrantOf

\* A requeue keeps the epoch.
LEMMA RequeueKept ==
  ASSUME TypeOK, NEW R \in SUBSET Tasks, NEW t \in Tasks,
         tasks'[t] = RequeuedTasks(R)[t]
  PROVE  EpochKept(t)
<1>1. tasks[t] \in TaskRecords
  BY DEF TypeOK
<1>2. CASE t \in R
  <2>1. tasks'[t] = Requeued(tasks[t])
    BY <1>2 DEF RequeuedTasks
  <2> QED
    BY <1>1, <2>1, RequeuedFields DEF EpochKept
<1>3. CASE t \notin R
  BY <1>3, SameKept DEF RequeuedTasks
<1> QED
  BY <1>2, <1>3

-----------------------------------------------------------------------------
(* Claiming *)

\* A claim indexes task t under the lease id, grants it one epoch on, and at
\* most requeues the others.
ClaimGrants(t, g, m, l) ==
  /\ active_lease_tasks'[l] = t
  /\ tasks'[t].status = "leased"
  /\ GrantOf(tasks'[t]) = <<l, g, m, groups[g].generation>>
  /\ tasks'[t].lease_epoch = tasks[t].lease_epoch + 1
  /\ Granted(t)
  /\ \A u \in Tasks \ {t} : EpochKept(u)

LEMMA ClaimTaskGrants ==
  ASSUME LeaseInv, NEW g \in Groups, NEW m \in Members, NEW l \in LeaseIds,
         NEW now \in Clock, NEW d \in Durations,
         ClaimTask(g, m, term, groups[g].generation, l, now, d)
  PROVE  \E t \in Tasks : ClaimGrants(t, g, m, l)
<1> DEFINE n == groups[g].namespace_id
           R == RecoverableTasks(n, now)
           k == groups[g].generation
<1>1. TypeOK /\ n \in Namespaces /\ now \in Nat /\ k \in Nat
  BY ClaimTypes DEF ClaimTask, LeaseInv
<1>2. PICK e \in ClaimableEntries(n, now) :
        /\ tasks' = [RequeuedTasks(R) EXCEPT
             ![e[2]] = LeasedTask(@, l, g, m, k, now + d)]
        /\ active_lease_tasks' = [ReleasedLeases(R) EXCEPT ![l] = e[2]]
  BY DEF ClaimTask
<1> DEFINE t == e[2]
<1>3. /\ R \in SUBSET Tasks /\ t \in Tasks
      /\ active_lease_tasks[l] = None /\ now + d \in Nat
  BY <1>1, RecoveryTypes, ClaimableFields, ClockAssumption, SMTT(30)
  DEF ClaimTask, ClaimAllowed
<1> HIDE DEF n, R
<1>4. ASSUME NEW u \in Tasks \ {t}
      PROVE  EpochKept(u)
  <2>1. tasks'[u] = RequeuedTasks(R)[u]
    BY <1>2 DEF RequeuedTasks
  <2> QED
    BY <1>1, <1>3, <2>1, RequeueKept
<1> DEFINE x == RequeuedTasks(R)[t]
<1>5. tasks'[t] = LeasedTask(x, l, g, m, k, now + d)
  BY <1>2, <1>3 DEF RequeuedTasks
<1>6. /\ tasks[t] \in TaskRecords
      /\ x = IF t \in R THEN Requeued(tasks[t]) ELSE tasks[t]
  BY <1>1, <1>3 DEF TypeOK, RequeuedTasks
<1>7. x \in TaskRecords /\ x.lease_epoch = tasks[t].lease_epoch
  BY <1>6, RequeuedFields
<1>8. active_lease_tasks'[l] = t
  BY <1>2 DEF ReleasedLeases
<1> HIDE DEF x, t
<1>9. /\ tasks'[t].status = "leased" /\ tasks'[t].lease_id = l
      /\ tasks'[t].group = g /\ tasks'[t].owner = m
      /\ tasks'[t].generation = k
      /\ tasks'[t].lease_epoch = tasks[t].lease_epoch + 1
  BY <1>1, <1>3, <1>5, <1>7, LeasedTaskFields, SMTT(30)
<1>10. ~(tasks[t].status = "leased" /\ tasks[t].lease_id = l)
  BY <1>3, NoneIsNoValue, SMTT(30) DEF LeaseInv, LeaseMapExact
<1>11. Granted(t)
  BY <1>9, <1>10 DEF Granted, GrantOf
<1> QED
  BY <1>3, <1>4, <1>8, <1>9, <1>11 DEF ClaimGrants, GrantOf

-----------------------------------------------------------------------------
(* The other commands *)

\* Renewal and completion leave the epoch and, while there is one, the grant.
LEMMA EpochUse ==
  ASSUME LeaseInv, UseLease, NEW u \in Tasks
  PROVE  EpochKept(u)
<1>1. TypeOK /\ tasks \in [Tasks -> TaskRecords] /\ tasks[u] \in TaskRecords
  BY DEF LeaseInv, TypeOK
<1>2. ASSUME NEW t \in Tasks, NEW g, NEW m, NEW k, NEW epoch, NEW l,
             NEW now, NEW d, RenewTaskLease(t, g, m, term, k, epoch, l, now, d)
      PROVE  EpochKept(u)
  <2>1. tasks' = [tasks EXCEPT ![t].expires_at = now + d]
    BY <1>2 DEF RenewTaskLease
  <2>2. CASE u = t
    <3>1. tasks'[u] = [tasks[u] EXCEPT !.expires_at = now + d]
      BY <1>1, <2>1, <2>2
    <3> QED
      BY <1>1, <3>1 DEF EpochKept, GrantOf, TaskRecords
  <2>3. CASE u # t
    BY <1>1, <2>1, <2>3, SameKept
  <2> QED
    BY <2>2, <2>3
<1>3. ASSUME NEW t \in Tasks, NEW g, NEW m, NEW k, NEW epoch, NEW l,
             NEW now, NEW r, CompleteTask(t, g, m, term, k, epoch, l, r, now)
      PROVE  EpochKept(u)
  <2>1. tasks' = [tasks EXCEPT ![t] = CompletedTask(tasks[t], r, now)]
    BY <1>3 DEF CompleteTask
  <2>2. CASE u = t
    <3>1. tasks'[u] = CompletedTask(tasks[u], r, now)
      BY <1>1, <2>1, <2>2
    <3> QED
      BY <1>1, <3>1 DEF EpochKept, CompletedTask, TaskRecords
  <2>3. CASE u # t
    BY <1>1, <2>1, <2>3, SameKept
  <2> QED
    BY <2>2, <2>3
<1> QED
  BY <1>2, <1>3 DEF UseLease

LEMMA EpochRemoveMembers ==
  ASSUME LeaseInv, NEW P \in SUBSET (Groups \X Members), RemoveMembers(P),
         NEW u \in Tasks
  PROVE  EpochKept(u)
<1>1. TypeOK /\ LeasedBy(P) \in SUBSET Tasks
  BY LeasedByTypes DEF LeaseInv
<1>2. tasks'[u] = RequeuedTasks(LeasedBy(P))[u]
  BY DEF RemoveMembers, RequeueMemberLeases
<1> QED
  BY <1>1, <1>2, RequeueKept

LEMMA EpochRegister ==
  ASSUME LeaseInv, Register, NEW u \in Tasks
  PROVE  EpochKept(u)
<1>1. tasks \in [Tasks -> TaskRecords]
  BY DEF LeaseInv, TypeOK
<1>2. ASSUME NEW n \in Namespaces, NEW t \in Tasks, NEW o \in Objectives,
             NEW now \in Clock, PublishTask(n, t, o, now)
      PROVE  EpochKept(u)
  <2>1. /\ tasks[t].status = "absent"
        /\ tasks' = [tasks EXCEPT ![t] = QueuedTask(n, o, now)]
    BY <1>2 DEF PublishTask
  <2>2. QueuedTask(n, o, now).status = "queued"
    BY QueuedTaskFields, ClockAssumption, SMTT(30)
  <2> QED
    BY <1>1, <2>1, <2>2, SameKept DEF EpochKept
<1> QED
  BY <1>2, SameKept DEF Register, EnsureNamespace, EnsureConsumerGroup

LEMMA EpochMembership ==
  ASSUME LeaseInv, Membership, NEW u \in Tasks
  PROVE  EpochKept(u)
<1>1. ASSUME NEW g \in Groups, NEW m \in Members,
             LeaveConsumerGroup(g, m, groups[g].generation)
      PROVE  EpochKept(u)
  BY <1>1, EpochRemoveMembers, SMTT(30) DEF LeaveConsumerGroup
<1> QED
  BY <1>1, SameKept DEF Membership, JoinConsumerGroup, HeartbeatConsumerGroup

LEMMA EpochMaintain ==
  ASSUME LeaseInv, Maintain, NEW u \in Tasks
  PROVE  EpochKept(u)
<1>1. ASSUME NEW cutoff \in Clock, NEW max \in Batches,
             ReapStaleMembers(cutoff, max)
      PROVE  EpochKept(u)
  BY <1>1, ReapedTypes, EpochRemoveMembers DEF ReapStaleMembers
<1>2. ASSUME NEW cutoff \in Clock, NEW max \in Batches,
             PruneCompletedTasks(cutoff, max)
      PROVE  EpochKept(u)
  <2> DEFINE pruned == {e[2] : e \in PruneSelection(cutoff, max)}
  <2>1. tasks'[u] = IF u \in pruned THEN AbsentTask ELSE tasks[u]
    BY <1>2 DEF PruneCompletedTasks
  <2>2. CASE u \in pruned
    BY <2>1, <2>2, AbsentTaskFields DEF EpochKept
  <2>3. CASE u \notin pruned
    BY <2>1, <2>3, SameKept
  <2> QED
    BY <2>2, <2>3
<1> QED
  BY <1>1, <1>2 DEF Maintain

LEMMA EpochOverflow ==
  ASSUME LeaseInv, NEW g \in Groups, NEW m \in Members, NEW l \in LeaseIds,
         NEW now \in Clock, NEW d \in Durations,
         ClaimTaskOverflow(g, m, term, groups[g].generation, l, now, d),
         NEW u \in Tasks
  PROVE  EpochKept(u)
<1> DEFINE R == RecoverableTasks(groups[g].namespace_id, now)
<1>1. R \in SUBSET Tasks /\ TypeOK
  BY DEF RecoverableTasks, LeaseInv
<1>2. tasks'[u] = RequeuedTasks(R)[u]
  BY DEF ClaimTaskOverflow
<1> QED
  BY <1>1, <1>2, RequeueKept

LEMMA EpochStep ==
  ASSUME LeaseInv, [Next]_vars, NEW u \in Tasks
  PROVE  EpochFollows(u)
<1>1. TypeOK
  BY DEF LeaseInv
<1>2. CASE Register \/ Membership \/ UseLease \/ Maintain
  BY <1>1, <1>2, EpochRegister, EpochMembership, EpochUse, EpochMaintain,
     KeptFollows
<1>3. CASE Claim
  <2>1. ASSUME NEW g \in Groups, NEW m \in Members, NEW l \in LeaseIds,
               NEW now \in Clock, NEW d \in Durations,
               ClaimTask(g, m, term, groups[g].generation, l, now, d)
        PROVE  EpochFollows(u)
    <3>1. PICK t \in Tasks : ClaimGrants(t, g, m, l)
      BY <2>1, ClaimTaskGrants
    <3> QED
      BY <1>1, <3>1, KeptFollows DEF ClaimGrants, EpochFollows
  <2>2. ASSUME NEW g \in Groups, NEW m \in Members, NEW l \in LeaseIds,
               NEW now \in Clock,
               ClaimNothing(g, m, term, groups[g].generation, l, now)
        PROVE  EpochFollows(u)
    BY <1>1, <2>2, SameKept, KeptFollows DEF ClaimNothing, state
  <2> QED
    BY <1>1, <1>3, <2>1, <2>2, EpochOverflow, KeptFollows DEF Claim
<1>4. CASE UNCHANGED tasks
  BY <1>1, <1>4, SameKept, KeptFollows
<1> QED
  BY <1>2, <1>3, <1>4 DEF Next, AdvanceTerm, FromCheckpoint, vars, state

\* Whoever is granted a task by claim_task, at whatever point its former lease
\* ended, holds it under an epoch that nobody had before; and nothing but a
\* grant moves the epoch, so a holder's epoch stays good while it holds.
THEOREM HandoverAlwaysAdvancesEpoch == Spec => HandoverAdvancesEpoch
<1>1. LeaseInv /\ [Next]_vars =>
        [\A t \in Tasks :
           tasks'[t].status # "absent" /\ tasks[t].status # "absent" =>
             tasks'[t].lease_epoch =
               tasks[t].lease_epoch + (IF Granted(t) THEN 1 ELSE 0)]_vars
  BY EpochStep DEF EpochFollows
<1> QED
  BY <1>1, LeaseInvariant, PTL DEF Spec, HandoverAdvancesEpoch

-----------------------------------------------------------------------------
(* The workers.  A completed task is final; a command that passes the      *)
(* fences is one the broker's own specification offers; and the grant that *)
(* passes them is the task's latest.                                       *)

-----------------------------------------------------------------------------
(* Completion is final: the fence of renewal and completion asks for a     *)
(* running lease, recovery and the removal of members take leased tasks    *)
(* only, and a claim takes what is queued by then.                         *)

\* The tasks are a function on Tasks.
TasksTotal == tasks = [t \in Tasks |-> tasks[t]]

Final(t) ==
  tasks[t].status = "completed" =>
    tasks'[t] = tasks[t] \/ t \in changes'.deleted_tasks

LEMMA FinalRemoveMembers ==
  ASSUME NEW P, RemoveMembers(P)
  PROVE  TasksTotal' /\ \A u \in Tasks : Final(u)
<1>1. tasks' = RequeuedTasks(LeasedBy(P))
  BY DEF RemoveMembers, RequeueMemberLeases
<1>2. \A t \in LeasedBy(P) : tasks[t].status = "leased"
  BY DEF LeasedBy
<1> QED
  BY <1>1, <1>2 DEF RequeuedTasks, TasksTotal, Final

LEMMA FinalClaimTask ==
  ASSUME NEW g, NEW m, NEW k, NEW expected_term, NEW l, NEW now, NEW d,
         ClaimTask(g, m, expected_term, k, l, now, d)
  PROVE  TasksTotal' /\ \A u \in Tasks : Final(u)
<1> DEFINE n == groups[g].namespace_id
           R == RecoverableTasks(n, now)
<1>1. PICK e \in ClaimableEntries(n, now) :
        tasks' = [RequeuedTasks(R) EXCEPT
          ![e[2]] = LeasedTask(@, l, g, m, groups[g].generation, now + d)]
  BY DEF ClaimTask
<1>2. /\ \A t \in R : tasks[t].status = "leased"
      /\ tasks[e[2]].status = "queued" \/ e[2] \in R
  BY DEF ClaimableEntries, RecoverableTasks
<1> HIDE DEF n, R
<1>3. \A u \in Tasks : u # e[2] => tasks'[u] = RequeuedTasks(R)[u]
  BY <1>1 DEF RequeuedTasks
<1>4. TasksTotal'
  BY <1>1 DEF TasksTotal, RequeuedTasks
<1>5. ASSUME NEW u \in Tasks, tasks[u].status = "completed"
      PROVE  tasks'[u] = tasks[u]
  <2>1. u # e[2] /\ u \notin R
    BY <1>2, <1>5
  <2> QED
    BY <1>3, <2>1 DEF RequeuedTasks
<1> QED
  BY <1>4, <1>5 DEF Final

\* Renewal and completion write one task, whose lease is running.
LEMMA FinalUse ==
  ASSUME TasksTotal, NEW t, tasks[t].status = "leased", NEW x,
         tasks' = [tasks EXCEPT ![t] = x]
  PROVE  TasksTotal' /\ \A u \in Tasks : Final(u)
<1>1. DOMAIN tasks = Tasks
  BY DEF TasksTotal
<1>2. tasks' = [u \in Tasks |-> IF u = t THEN x ELSE tasks[u]]
  BY <1>1
<1> QED
  BY <1>2 DEF TasksTotal, Final

LEMMA FinalStep ==
  ASSUME TasksTotal, [WNext]_allVars
  PROVE  TasksTotal' /\ \A u \in Tasks : Final(u)
<1>1. ASSUME UNCHANGED tasks
      PROVE  TasksTotal' /\ \A u \in Tasks : Final(u)
  BY <1>1 DEF TasksTotal, Final
<1>2. ASSUME NEW g \in Groups, NEW m \in Members, NEW l \in LeaseIds,
             \/ RetryClaim(g, m, l)
             \/ \E now \in Clock, d \in Durations : Grant(g, m, l, now, d)
      PROVE  TasksTotal' /\ \A u \in Tasks : Final(u)
  BY <1>1, <1>2, FinalClaimTask DEF RetryClaim, Grant, vars, state
<1>3. ASSUME NEW reply \in held, NEW now \in Clock,
             NEW fence \in Fences(reply), NEW d \in Durations,
             Renew(reply, fence, now, d)
      PROVE  TasksTotal' /\ \A u \in Tasks : Final(u)
  <2> DEFINE t == reply.task
  <2>1. /\ tasks[t].status = "leased"
        /\ tasks' = [tasks EXCEPT ![t].expires_at = now + d]
    BY <1>3 DEF Renew, RenewTaskLease, ActiveLease
  <2>2. tasks' = [tasks EXCEPT ![t] = [tasks[t] EXCEPT !.expires_at = now + d]]
    BY <2>1
  <2> QED
    BY <2>1, <2>2, FinalUse
<1>4. ASSUME NEW reply \in held, NEW now \in Clock,
             NEW fence \in Fences(reply), NEW r \in Results,
             Complete(reply, fence, r, now)
      PROVE  TasksTotal' /\ \A u \in Tasks : Final(u)
  <2> DEFINE t == reply.task
  <2>1. /\ tasks[t].status = "leased"
        /\ tasks' = [tasks EXCEPT ![t] = CompletedTask(tasks[t], r, now)]
    BY <1>4 DEF Complete, CompleteTask, ActiveLease
  <2> QED
    BY <2>1, FinalUse
<1>5. CASE Register
  <2>1. ASSUME NEW n \in Namespaces, NEW t \in Tasks, NEW o \in Objectives,
               NEW now \in Clock, PublishTask(n, t, o, now)
        PROVE  TasksTotal' /\ \A u \in Tasks : Final(u)
    <3>1. /\ tasks[t].status = "absent"
          /\ tasks' = [tasks EXCEPT ![t] = QueuedTask(n, o, now)]
      BY <2>1 DEF PublishTask
    <3>2. tasks' = [u \in Tasks |-> IF u = t THEN QueuedTask(n, o, now)
                                             ELSE tasks[u]]
      BY <3>1 DEF TasksTotal
    <3> QED
      BY <3>1, <3>2 DEF TasksTotal, Final
  <2> QED
    BY <1>1, <1>5, <2>1 DEF Register, EnsureNamespace, EnsureConsumerGroup
<1>6. CASE Membership
  <2>1. UNCHANGED tasks \/ \E g \in Groups, m \in Members :
          LeaveConsumerGroup(g, m, groups[g].generation)
    BY <1>6 DEF Membership, JoinConsumerGroup, HeartbeatConsumerGroup
  <2> QED
    BY <1>1, <2>1, FinalRemoveMembers DEF LeaveConsumerGroup
<1>7. CASE Maintain
  <2>1. ASSUME NEW cutoff \in Clock, NEW max \in Batches,
               PruneCompletedTasks(cutoff, max)
        PROVE  TasksTotal' /\ \A u \in Tasks : Final(u)
    <3> DEFINE pruned == {e[2] : e \in PruneSelection(cutoff, max)}
    <3>1. /\ tasks' = [t \in Tasks |->
                         IF t \in pruned THEN AbsentTask ELSE tasks[t]]
          /\ changes' = [NoChanges EXCEPT !.deleted_tasks = pruned]
      BY <2>1 DEF PruneCompletedTasks
    <3> HIDE DEF pruned
    <3>2. changes'.deleted_tasks = pruned
      BY <3>1 DEF NoChanges
    <3> QED
      BY <3>1, <3>2 DEF TasksTotal, Final
  <2> QED
    BY <1>7, <2>1, FinalRemoveMembers DEF Maintain, ReapStaleMembers
<1>8. CASE FromCheckpoint
  BY <1>1, <1>8 DEF FromCheckpoint, state
<1>9. CASE \E new_term \in 1..MaxTerm : AdvanceTerm(term, new_term)
  BY <1>1, <1>9 DEF AdvanceTerm
<1>10. CASE \E g \in Groups, m \in Members, l \in LeaseIds, now \in Clock :
              ClaimNothing(g, m, term, groups[g].generation, l, now)
  BY <1>1, <1>10 DEF ClaimNothing, state
<1>11. CASE UNCHANGED allVars
  BY <1>1, <1>11 DEF allVars, vars, state
<1> QED
  BY <1>2, <1>3, <1>4, <1>5, <1>6, <1>7, <1>8, <1>9, <1>10, <1>11 DEF WNext

\* complete_task's result stays: whatever workers send late, twice or out of
\* order, and whatever expires or is removed, only pruning takes it away.
THEOREM CompletionAlwaysFinal == WSpec => CompletionIsFinal
<1>1. WInit => TasksTotal
  BY DEF WInit, Init, TasksTotal
<1>2. TasksTotal /\ [WNext]_allVars => TasksTotal'
  BY FinalStep
<1>3. TasksTotal /\ [WNext]_allVars =>
        [\A t \in Tasks : tasks[t].status = "completed" =>
           tasks'[t] = tasks[t] \/ t \in changes'.deleted_tasks]_allVars
  BY FinalStep DEF Final
<1> QED
  BY <1>1, <1>2, <1>3, PTL DEF WSpec, CompletionIsFinal

-----------------------------------------------------------------------------
(* Every step of the broker among its workers is a step of the broker.     *)

\* Replies are about tasks.
HeldTasks == \A reply \in held : reply.task \in Tasks

WInv == LeaseInv /\ HeldTasks

\* A renewal or completion that passes the fences names the running lease.
LEMMA UseIsUseLease ==
  ASSUME HeldTasks, NEW reply \in held, NEW now \in Clock, NEW fence,
         \/ \E d \in Durations : Renew(reply, fence, now, d)
         \/ \E r \in Results : Complete(reply, fence, r, now)
  PROVE  /\ UseLease
         /\ ActiveLease(reply.task, reply.group, reply.member,
                        fence.generation, reply.epoch, reply.lease, now)
         /\ RequireGroupMember(reply.group, reply.member, fence.generation)
         /\ acted' = reply
         /\ UNCHANGED <<held, current, groups>>
<1>1. /\ ActiveLease(reply.task, reply.group, reply.member,
                     fence.generation, reply.epoch, reply.lease, now)
      /\ RequireGroupMember(reply.group, reply.member, fence.generation)
      /\ fence.term = term
      /\ acted' = reply
      /\ UNCHANGED <<held, current, groups>>
  BY DEF Renew, Complete, RenewTaskLease, CompleteTask
<1> DEFINE t == reply.task
<1>2. /\ t \in Tasks /\ tasks[t].status = "leased"
      /\ reply.group = tasks[t].group /\ reply.member = tasks[t].owner
      /\ reply.epoch = tasks[t].lease_epoch
      /\ reply.lease = tasks[t].lease_id
      /\ fence.generation = groups[tasks[t].group].generation
  BY <1>1 DEF HeldTasks, ActiveLease, RequireGroupMember
<1>3. CASE \E d \in Durations : Renew(reply, fence, now, d)
  <2>1. PICK d \in Durations :
          RenewTaskLease(reply.task, reply.group, reply.member, fence.term,
                         fence.generation, reply.epoch, reply.lease, now, d)
    BY <1>3 DEF Renew
  <2>2. RenewTaskLease(t, tasks[t].group, tasks[t].owner, term,
                       groups[tasks[t].group].generation,
                       tasks[t].lease_epoch, tasks[t].lease_id, now, d)
    BY <1>1, <1>2, <2>1
  <2> HIDE DEF t
  <2> QED
    BY <1>1, <1>2, <2>2 DEF UseLease, t
<1>4. CASE \E r \in Results : Complete(reply, fence, r, now)
  <2>1. PICK r \in Results :
          CompleteTask(reply.task, reply.group, reply.member, fence.term,
                       fence.generation, reply.epoch, reply.lease, r, now)
    BY <1>4 DEF Complete
  <2>2. CompleteTask(t, tasks[t].group, tasks[t].owner, term,
                     groups[tasks[t].group].generation,
                     tasks[t].lease_epoch, tasks[t].lease_id, r, now)
    BY <1>1, <1>2, <2>1
  <2> HIDE DEF t
  <2> QED
    BY <1>1, <1>2, <2>2 DEF UseLease, t
<1> QED
  BY <1>3, <1>4

LEMMA WorkerStep ==
  ASSUME WInv, [WNext]_allVars
  PROVE  [Next]_vars /\ HeldTasks'
<1>1. ASSUME NEW g \in Groups, NEW m \in Members, NEW l \in LeaseIds,
             RetryClaim(g, m, l)
      PROVE  UNCHANGED vars /\ HeldTasks'
  <2> DEFINE t == active_lease_tasks[l]
  <2>1. t \in Tasks
    BY <1>1 DEF RetryClaim, WInv, LeaseInv, TypeOK
  <2>2. held' = held \cup {Reply(t, g, m, l, tasks[t].lease_epoch)}
    BY <1>1 DEF RetryClaim
  <2> HIDE DEF t
  <2>3. HeldTasks'
    BY <2>1, <2>2, SMTT(30) DEF HeldTasks, WInv, Reply
  <2> QED
    BY <1>1, <2>3 DEF RetryClaim
<1>2. ASSUME NEW g \in Groups, NEW m \in Members, NEW l \in LeaseIds,
             NEW now \in Clock, NEW d \in Durations, Grant(g, m, l, now, d)
      PROVE  Next /\ HeldTasks'
  <2>1. ClaimTask(g, m, term, groups[g].generation, l, now, d)
    BY <1>2 DEF Grant
  <2>2. PICK t \in Tasks : ClaimGrants(t, g, m, l)
    BY <2>1, ClaimTaskGrants DEF WInv
  <2>3. held' = held \cup {Reply(t, g, m, l, tasks'[t].lease_epoch)}
    BY <1>2, <2>2 DEF Grant, ClaimGrants
  <2>4. HeldTasks'
    BY <2>3, SMTT(30) DEF HeldTasks, WInv, Reply
  <2> QED
    BY <2>1, <2>4 DEF Next, Claim
<1>3. ASSUME NEW reply \in held, NEW now \in Clock,
             NEW fence \in Fences(reply),
             \/ \E d \in Durations : Renew(reply, fence, now, d)
             \/ \E r \in Results : Complete(reply, fence, r, now)
      PROVE  Next /\ HeldTasks'
  BY <1>3, UseIsUseLease DEF Next, HeldTasks, WInv
<1>4. ASSUME \/ Register \/ Membership \/ Maintain \/ FromCheckpoint
             \/ \E new_term \in 1..MaxTerm : AdvanceTerm(term, new_term)
             \/ \E g \in Groups, m \in Members, l \in LeaseIds, now \in Clock :
                  ClaimNothing(g, m, term, groups[g].generation, l, now),
             UNCHANGED <<held, current>>
      PROVE  Next /\ HeldTasks'
  BY <1>4 DEF Next, Claim, HeldTasks, WInv
<1>5. CASE UNCHANGED allVars
  BY <1>5 DEF allVars, workers, HeldTasks, WInv
<1> QED
  BY <1>1, <1>2, <1>3, <1>4, <1>5 DEF WNext

LEMMA WorkerInvariant == WSpec => []WInv
<1>1. WInit => WInv
  BY LeaseInit DEF WInit, WInv, HeldTasks
<1>2. WInv /\ [WNext]_allVars => WInv'
  BY WorkerStep, LeaseStep DEF WInv
<1> QED
  BY <1>1, <1>2, PTL DEF WSpec

\* The workers add no behaviour: every renewal and completion that passes the
\* fences of require_active_lease is one that the broker's specification
\* offers, so what is proved of the broker holds whatever workers send.
THEOREM WorkersImplementBroker == WSpec => Spec
<1>1. WInit => Init
  BY DEF WInit
<1>2. WInv /\ [WNext]_allVars => [Next]_vars
  BY WorkerStep
<1> QED
  BY <1>1, <1>2, WorkerInvariant, PTL DEF WSpec, Spec

-----------------------------------------------------------------------------
(* Only the latest grant acts.                                             *)

\* A leased task's lease is the one of its latest grant.
IsCurrent(t) ==
  /\ current[t].group = tasks[t].group
  /\ current[t].member = tasks[t].owner
  /\ current[t].lease = tasks[t].lease_id
  /\ current[t].epoch = tasks[t].lease_epoch
  /\ current[t].generation = tasks[t].generation

CurrentExact ==
  /\ DOMAIN current = Tasks
  /\ \A t \in Tasks : tasks[t].status = "leased" => IsCurrent(t)

\* A step that grants nothing leaves the leased tasks their latest grants.
LEMMA CurrentKept ==
  ASSUME CurrentExact, UNCHANGED current, \A t \in Tasks : EpochKept(t)
  PROVE  CurrentExact'
<1> SUFFICES ASSUME NEW t \in Tasks, tasks'[t].status = "leased"
             PROVE  IsCurrent(t)'
  BY DEF CurrentExact
<1>1. /\ tasks[t].status = "leased"
      /\ GrantOf(tasks'[t]) = GrantOf(tasks[t])
      /\ tasks'[t].lease_epoch = tasks[t].lease_epoch
  BY DEF EpochKept
<1> QED
  BY <1>1 DEF CurrentExact, IsCurrent, GrantOf

LEMMA CurrentGrant ==
  ASSUME WInv, CurrentExact, NEW g \in Groups, NEW m \in Members,
         NEW l \in LeaseIds, NEW now \in Clock, NEW d \in Durations,
         Grant(g, m, l, now, d)
  PROVE  CurrentExact'
<1>1. PICK t \in Tasks : ClaimGrants(t, g, m, l)
  BY ClaimTaskGrants DEF WInv, Grant
<1> DEFINE reply == Reply(t, g, m, l, tasks'[t].lease_epoch)
<1>2. current' = [current EXCEPT ![t] = reply]
  BY <1>1 DEF Grant, ClaimGrants
<1>3. /\ reply.group = g /\ reply.member = m /\ reply.lease = l
      /\ reply.epoch = tasks'[t].lease_epoch
      /\ reply.generation = groups[g].generation
  BY DEF Reply
<1> HIDE DEF reply
<1>4. DOMAIN current' = Tasks /\ current'[t] = reply
  BY <1>2 DEF CurrentExact
<1>5. IsCurrent(t)'
  BY <1>1, <1>3, <1>4 DEF IsCurrent, ClaimGrants, GrantOf
<1>6. ASSUME NEW u \in Tasks \ {t}, tasks'[u].status = "leased"
      PROVE  IsCurrent(u)'
  <2>1. /\ tasks[u].status = "leased"
        /\ GrantOf(tasks'[u]) = GrantOf(tasks[u])
        /\ tasks'[u].lease_epoch = tasks[u].lease_epoch
    BY <1>1, <1>6 DEF ClaimGrants, EpochKept
  <2>2. current'[u] = current[u]
    BY <1>2 DEF CurrentExact
  <2> QED
    BY <2>1, <2>2 DEF CurrentExact, IsCurrent, GrantOf
<1> QED
  BY <1>4, <1>5, <1>6 DEF CurrentExact

CurrentInv == CurrentExact /\ OnlyCurrentGrantActs

LEMMA CurrentStep ==
  ASSUME WInv, CurrentInv, [WNext]_allVars
  PROVE  CurrentInv'
<1> USE DEF CurrentInv
<1>1. ASSUME UNCHANGED <<tasks, current>>
      PROVE  CurrentExact'
  BY <1>1, SameKept, CurrentKept
<1>2. ASSUME acted' = NoAction
      PROVE  OnlyCurrentGrantActs'
  BY <1>2 DEF OnlyCurrentGrantActs
<1>3. ASSUME NEW g \in Groups, NEW m \in Members, NEW l \in LeaseIds,
             \/ RetryClaim(g, m, l)
             \/ \E now \in Clock, d \in Durations : Grant(g, m, l, now, d)
      PROVE  CurrentInv'
  <2>1. CASE RetryClaim(g, m, l)
    BY <1>1, <1>2, <2>1 DEF RetryClaim, vars, state
  <2>2. CASE \E now \in Clock, d \in Durations : Grant(g, m, l, now, d)
    BY <1>2, <2>2, CurrentGrant DEF Grant
  <2> QED
    BY <1>3, <2>1, <2>2
<1>4. ASSUME NEW reply \in held, NEW now \in Clock,
             NEW fence \in Fences(reply),
             \/ \E d \in Durations : Renew(reply, fence, now, d)
             \/ \E r \in Results : Complete(reply, fence, r, now)
      PROVE  CurrentInv'
  <2>1. /\ UseLease
        /\ ActiveLease(reply.task, reply.group, reply.member,
                       fence.generation, reply.epoch, reply.lease, now)
        /\ RequireGroupMember(reply.group, reply.member, fence.generation)
        /\ acted' = reply
        /\ UNCHANGED <<held, current, groups>>
    BY <1>4, UseIsUseLease DEF WInv
  <2>2. CurrentExact'
    BY <2>1, EpochUse, CurrentKept DEF WInv
  <2>3. reply.task \in Tasks
    BY DEF WInv, HeldTasks
  <2>4. /\ current[reply.task].group = reply.group
        /\ current[reply.task].member = reply.member
        /\ current[reply.task].lease = reply.lease
        /\ current[reply.task].epoch = reply.epoch
        /\ current[reply.task].generation = fence.generation
    BY <2>1, <2>3 DEF CurrentExact, IsCurrent, ActiveLease
  <2>5. OnlyCurrentGrantActs'
    BY <2>1, <2>4 DEF OnlyCurrentGrantActs, RequireGroupMember
  <2> QED
    BY <2>2, <2>5
<1>5. ASSUME \/ Register \/ Membership \/ Maintain \/ FromCheckpoint
             \/ \E new_term \in 1..MaxTerm : AdvanceTerm(term, new_term)
             \/ \E g \in Groups, m \in Members, l \in LeaseIds, now \in Clock :
                  ClaimNothing(g, m, term, groups[g].generation, l, now),
             acted' = NoAction, UNCHANGED <<held, current>>
      PROVE  CurrentInv'
  <2>1. CASE Register \/ Membership \/ Maintain
    BY <1>2, <1>5, <2>1, EpochRegister, EpochMembership, EpochMaintain,
       CurrentKept DEF WInv
  <2>2. CASE UNCHANGED tasks
    BY <1>1, <1>2, <1>5, <2>2
  <2> QED
    BY <1>5, <2>1, <2>2 DEF FromCheckpoint, AdvanceTerm, ClaimNothing, state
<1>6. CASE UNCHANGED allVars
  <2>1. UNCHANGED <<tasks, current, acted, groups>>
    BY <1>6 DEF allVars, workers, vars, state
  <2> QED
    BY <1>1, <2>1 DEF OnlyCurrentGrantActs
<1> QED
  BY <1>3, <1>4, <1>5, <1>6 DEF WNext

\* Fencing: whatever a worker sends, and however late, a task is renewed or
\* completed under its latest grant only, by a member of the group whose
\* generation is still the one of the grant.
THEOREM OnlyCurrentGrantEverActs == WSpec => []OnlyCurrentGrantActs
<1>1. WInit => CurrentInv
  <2> SUFFICES ASSUME WInit PROVE CurrentInv
    OBVIOUS
  <2>1. \A t \in Tasks : tasks[t].status = "absent"
    BY AbsentTaskFields DEF WInit, Init
  <2> QED
    BY <2>1 DEF WInit, CurrentInv, CurrentExact, OnlyCurrentGrantActs
<1>2. WInv /\ CurrentInv /\ [WNext]_allVars => CurrentInv'
  BY CurrentStep
<1>3. CurrentInv => OnlyCurrentGrantActs
  BY DEF CurrentInv
<1> QED
  BY <1>1, <1>2, <1>3, WorkerInvariant, PTL DEF WSpec

\* A set closed downwards is the one that counting predecessors selects.
LEMMA CountingSelects ==
  ASSUME NEW S, IsFiniteSet(S), NEW D \in SUBSET S, NEW P \in [S -> SUBSET S],
         \A m \in D : m \notin P[m] /\ P[m] \subseteq D,
         \A m \in S \ D : D \subseteq P[m]
  PROVE  D = {m \in S : Cardinality(P[m]) < Cardinality(D)}
<1>1. IsFiniteSet(D) /\ Cardinality(D) \in Nat
  BY FS_Subset, FS_CardinalityType
<1>2. ASSUME NEW m \in S
      PROVE  IsFiniteSet(P[m]) /\ Cardinality(P[m]) \in Nat
  <2>1. P[m] \in SUBSET S
    OBVIOUS
  <2> QED
    BY <2>1, FS_Subset, FS_CardinalityType
<1>3. ASSUME NEW m \in D
      PROVE  Cardinality(P[m]) < Cardinality(D)
  <2>1. P[m] \in SUBSET D /\ m \in S
    OBVIOUS
  <2>2. /\ Cardinality(P[m]) <= Cardinality(D)
        /\ Cardinality(D) = Cardinality(P[m]) => D = P[m]
    BY <1>1, <2>1, FS_Subset
  <2>3. D # P[m]
    OBVIOUS
  <2>4. Cardinality(P[m]) \in Nat
    BY <1>2, <2>1
  <2> QED
    BY <1>1, <2>2, <2>3, <2>4, SMTT(30)
<1>4. ASSUME NEW m \in S \ D
      PROVE  ~(Cardinality(P[m]) < Cardinality(D))
  <2>1. D \in SUBSET P[m] /\ m \in S
    OBVIOUS
  <2>2. Cardinality(D) <= Cardinality(P[m])
    BY <1>2, <2>1, FS_Subset
  <2>3. Cardinality(P[m]) \in Nat
    BY <1>2, <2>1
  <2> QED
    BY <1>1, <2>2, <2>3, SMTT(30)
<1> QED
  BY <1>3, <1>4

\* The stale members of all groups, as ReapCandidates orders them.
StaleEntries(cutoff) ==
  UNION {{<<consumers[<<g, m>>].heartbeat, g, m>> :
            m \in StaleMembers(g, cutoff)} : g \in Groups}

EntryOf(g, m) == <<consumers[<<g, m>>].heartbeat, g, m>>

LEMMA StaleEntriesFinite ==
  ASSUME TypeOK, NEW cutoff
  PROVE  /\ IsFiniteSet(StaleEntries(cutoff))
         /\ \A e \in StaleEntries(cutoff) :
              /\ e = EntryOf(e[2], e[3])
              /\ e[2] \in Groups /\ e[3] \in StaleMembers(e[2], cutoff)
         /\ \A g \in Groups : StaleMembers(g, cutoff) \in SUBSET Members
         /\ \A g \in Groups : \A m \in StaleMembers(g, cutoff) :
              EntryOf(g, m) \in StaleEntries(cutoff)
         /\ StaleEntries(cutoff) \subseteq Nat \X Groups \X Members
<1>1. ASSUME NEW g \in Groups
      PROVE  StaleMembers(g, cutoff) \in SUBSET Members
  BY DEF TypeOK, GroupRecords, StaleMembers
<1>2. ASSUME NEW g \in Groups, NEW m \in StaleMembers(g, cutoff)
      PROVE  EntryOf(g, m) \in StaleEntries(cutoff)
  BY SMTT(30) DEF EntryOf, StaleEntries
<1>3. ASSUME NEW e \in StaleEntries(cutoff)
      PROVE  \E g \in Groups, m \in Members :
               m \in StaleMembers(g, cutoff) /\ e = EntryOf(g, m)
  BY <1>1 DEF EntryOf, StaleEntries
<1>4. ASSUME NEW g, NEW m
      PROVE  EntryOf(g, m)[2] = g /\ EntryOf(g, m)[3] = m
  BY DEF EntryOf
<1>5. ASSUME NEW g \in Groups, NEW m \in Members
      PROVE  EntryOf(g, m) \in Nat \X Groups \X Members
  <2>1. consumers[<<g, m>>].heartbeat \in Nat
    BY DEF TypeOK, ConsumerRecords
  <2> QED
    BY <2>1 DEF EntryOf
<1>6. IsFiniteSet(StaleEntries(cutoff))
  <2> DEFINE T == {p \in Groups \X Members : p[2] \in StaleMembers(p[1], cutoff)}
             f == [p \in T |-> EntryOf(p[1], p[2])]
  <2>1. IsFiniteSet(T)
    <3>1. IsFiniteSet(Groups \X Members)
      BY FS_Product, IdentifiersAreFinite
    <3> QED
      BY <3>1, FS_Subset
  <2>2. f \in [T -> StaleEntries(cutoff)]
    BY <1>2
  <2>3. ASSUME NEW e \in StaleEntries(cutoff)
        PROVE  \E p \in T : f[p] = e
    <3>1. PICK g \in Groups, m \in Members :
            m \in StaleMembers(g, cutoff) /\ e = EntryOf(g, m)
      BY <1>3
    <3>2. <<g, m>> \in T
      BY <1>1, <3>1
    <3>3. f[<<g, m>>] = EntryOf(g, m)
      BY <3>2
    <3> QED
      BY <3>1, <3>2, <3>3
  <2> HIDE DEF T, f
  <2>4. f \in Surjection(T, StaleEntries(cutoff))
    BY <2>2, <2>3 DEF Surjection
  <2> QED
    BY <2>1, <2>4, FS_Surjection
<1>7. ASSUME NEW e \in StaleEntries(cutoff)
      PROVE  /\ e = EntryOf(e[2], e[3])
             /\ e[2] \in Groups /\ e[3] \in StaleMembers(e[2], cutoff)
             /\ e \in Nat \X Groups \X Members
  <2>1. PICK g \in Groups, m \in Members :
            m \in StaleMembers(g, cutoff) /\ e = EntryOf(g, m)
    BY <1>3
  <2>2. e[2] = g /\ e[3] = m /\ m \in Members
    BY <1>1, <1>4, <2>1
  <2> QED
    BY <1>5, <2>1, <2>2
<1> QED
  BY <1>1, <1>2, <1>6, <1>7

\* StalerThan and Before are the same strict order on the entries of a group.
LEMMA StalerOrder ==
  ASSUME NEW e \in Nat \X Groups \X Members, NEW f \in Nat \X Groups \X Members,
         NEW x \in Nat \X Groups \X Members
  PROVE  /\ ~StalerThan(e, e)
         /\ StalerThan(e, f) \/ StalerThan(f, e) \/ e = f
         /\ StalerThan(x, f) /\ StalerThan(f, e) => StalerThan(x, e)
<1>1. ASSUME NEW y \in Nat \X Groups \X Members
      PROVE  /\ y = <<y[1], y[2], y[3]>>
             /\ y[1] \in Nat /\ y[2] \in Nat /\ y[3] \in Nat
  <2>1. y = <<y[1], y[2], y[3]>>
    BY SMTT(30)
  <2>2. y[1] \in Nat /\ y[2] \in Groups /\ y[3] \in Members
    OBVIOUS
  <2> QED
    BY <2>1, <2>2, IdentifiersAreOrdered
<1>2. ~StalerThan(e, e)
  BY <1>1, SMTT(30) DEF StalerThan
<1>3. StalerThan(e, f) \/ StalerThan(f, e)
        \/ (e[1] = f[1] /\ e[2] = f[2] /\ e[3] = f[3])
  BY <1>1, SMTT(30) DEF StalerThan
<1>4. StalerThan(x, f) /\ StalerThan(f, e) => StalerThan(x, e)
  BY <1>1, SMTT(30) DEF StalerThan
<1> QED
  BY <1>1, <1>2, <1>3, <1>4

\* What is staler than a selected member is selected.
LEMMA CandidatesClosed ==
  ASSUME TypeOK, NEW cutoff, NEW max \in Nat,
         NEW e \in ReapCandidates(cutoff, max), NEW f \in StaleEntries(cutoff),
         StalerThan(f, e)
  PROVE  f \in ReapCandidates(cutoff, max)
<1> DEFINE S == StaleEntries(cutoff)
           before(x) == {y \in S : StalerThan(y, x)}
<1>1. /\ ReapCandidates(cutoff, max) = {x \in S : Cardinality(before(x)) < max}
      /\ IsFiniteSet(S) /\ S \subseteq Nat \X Groups \X Members
  <2>1. ReapCandidates(cutoff, max) = {x \in S : Cardinality(before(x)) < max}
    BY DEF ReapCandidates, StaleEntries
  <2> QED
    BY <2>1, StaleEntriesFinite
<1>2. e \in S /\ f \in S /\ Cardinality(before(e)) < max
  BY <1>1
<1>3. before(f) \in SUBSET before(e)
  BY <1>1, <1>2, StalerOrder
<1>4. IsFiniteSet(before(e)) /\ IsFiniteSet(before(f))
  <2>1. before(e) \in SUBSET S /\ before(f) \in SUBSET S
    OBVIOUS
  <2> QED
    BY <1>1, <2>1, FS_Subset
<1>5. /\ Cardinality(before(f)) <= Cardinality(before(e))
      /\ Cardinality(before(e)) \in Nat /\ Cardinality(before(f)) \in Nat
  BY <1>3, <1>4, FS_Subset, FS_CardinalityType
<1> HIDE DEF before
<1>6. Cardinality(before(f)) < max
  BY <1>2, <1>5, SMTT(30)
<1> QED
  BY <1>1, <1>2, <1>6

\* GroupReap, told how many of its members were selected, selects them.
LEMMA GroupReapTakesSelection ==
  ASSUME TypeOK, NEW cutoff, NEW max \in Nat, NEW g \in Groups
  PROVE  GroupReap(g, cutoff, Cardinality({e \in ReapCandidates(cutoff, max) :
                                             e[2] = g}))
           = {m \in Members : EntryOf(g, m) \in ReapCandidates(cutoff, max)}
<1> DEFINE sel == ReapCandidates(cutoff, max)
           S == StaleMembers(g, cutoff)
           D == {m \in Members : EntryOf(g, m) \in sel}
           E == {e \in sel : e[2] = g}
           age(m) == <<consumers[<<g, m>>].heartbeat, m>>
           P == [m \in S |-> {x \in S : Before(age(x), age(m))}]
<1>1. /\ sel \subseteq StaleEntries(cutoff)
      /\ IsFiniteSet(StaleEntries(cutoff)) /\ S \in SUBSET Members
  <2>1. sel \subseteq StaleEntries(cutoff)
    BY DEF ReapCandidates, StaleEntries
  <2> QED
    BY <2>1, StaleEntriesFinite
<1>2. ASSUME NEW m
      PROVE  EntryOf(g, m)[2] = g /\ EntryOf(g, m)[3] = m
  BY DEF EntryOf
<1>3. D \in SUBSET S
  <2>1. ASSUME NEW m \in D
        PROVE  m \in S
    <3>1. EntryOf(g, m) \in StaleEntries(cutoff)
      BY <1>1
    <3>2. EntryOf(g, m)[3] \in StaleMembers(EntryOf(g, m)[2], cutoff)
      BY <3>1, StaleEntriesFinite
    <3> QED
      BY <1>2, <3>2
  <2> QED
    BY <2>1
<1>4. IsFiniteSet(S) /\ IsFiniteSet(E)
  <2>1. E \in SUBSET StaleEntries(cutoff)
    BY <1>1
  <2> QED
    BY <1>1, <2>1, FS_Subset, IdentifiersAreFinite
<1>5. Cardinality(E) = Cardinality(D)
  <2> DEFINE f == [e \in E |-> e[3]]
  <2>1. ASSUME NEW e \in E
        PROVE  e = EntryOf(g, e[3]) /\ e[3] \in D
    <3>1. e \in StaleEntries(cutoff) /\ e[2] = g
      BY <1>1
    <3>2. e = EntryOf(e[2], e[3]) /\ e[3] \in StaleMembers(e[2], cutoff)
      BY <3>1, StaleEntriesFinite
    <3> QED
      BY <1>1, <3>1, <3>2
  <2>2. ASSUME NEW m \in D
        PROVE  EntryOf(g, m) \in E /\ f[EntryOf(g, m)] = m
    BY <1>2
  <2>3. f \in [E -> D]
    BY <2>1
  <2>4. \A x, y \in E : f[x] = f[y] => x = y
    BY <2>1
  <2> HIDE DEF f, E, D
  <2>5. f \in Bijection(E, D)
    BY <2>2, <2>3, <2>4 DEF Bijection, Injection, Surjection, IsInjective
  <2> QED
    BY <1>4, <2>5, FS_Bijection DEF ExistsBijection
<1>6. ASSUME NEW x \in S, NEW m \in S
      PROVE  Before(age(x), age(m)) <=> StalerThan(EntryOf(g, x), EntryOf(g, m))
  <2>1. /\ consumers[<<g, x>>].heartbeat \in Nat
        /\ consumers[<<g, m>>].heartbeat \in Nat
        /\ g \in Nat /\ x \in Nat /\ m \in Nat
    BY <1>1, IdentifiersAreOrdered DEF TypeOK, ConsumerRecords
  <2> QED
    BY <2>1, SMTT(30) DEF Before, StalerThan, EntryOf
<1>7. \A m \in S : EntryOf(g, m) \in StaleEntries(cutoff)
  BY StaleEntriesFinite
<1>8. \A m \in S : EntryOf(g, m) \in Nat \X Groups \X Members
  BY <1>7, StaleEntriesFinite
<1>9. ASSUME NEW m \in D
      PROVE  m \notin P[m] /\ P[m] \subseteq D
  <2>1. m \in S
    BY <1>3
  <2>2. ASSUME NEW x \in P[m]
        PROVE  x \in D /\ x # m
    <3>1. x \in S /\ StalerThan(EntryOf(g, x), EntryOf(g, m))
      BY <1>6, <2>1
    <3>2. EntryOf(g, x) \in sel
      BY <1>7, <3>1, CandidatesClosed
    <3>3. x # m
      BY <1>8, <2>1, <3>1, StalerOrder
    <3> QED
      BY <1>1, <3>1, <3>2, <3>3
  <2> QED
    BY <2>2
<1>10. ASSUME NEW m \in S \ D
       PROVE  D \subseteq P[m]
  <2> SUFFICES ASSUME NEW x \in D PROVE x \in P[m]
    OBVIOUS
  <2>1. x \in S /\ x # m /\ m \in S /\ m \in Members
    BY <1>1, <1>3
  <2>2. EntryOf(g, x) # EntryOf(g, m)
    BY <1>2, <2>1
  <2>3. ~StalerThan(EntryOf(g, m), EntryOf(g, x))
    BY <1>7, <2>1, CandidatesClosed
  <2>4. StalerThan(EntryOf(g, x), EntryOf(g, m))
    BY <1>8, <2>1, <2>2, <2>3, StalerOrder
  <2> QED
    BY <1>6, <2>1, <2>4
<1>11. P \in [S -> SUBSET S]
  OBVIOUS
<1>12. /\ GroupReap(g, cutoff, Cardinality(E))
             = {m \in S : Cardinality({x \in S : Before(age(x), age(m))})
                            < Cardinality(E)}
       /\ \A m \in S : P[m] = {x \in S : Before(age(x), age(m))}
  BY DEF GroupReap
<1> HIDE DEF P, age, D, E, S
<1>13. D = {m \in S : Cardinality(P[m]) < Cardinality(D)}
  BY <1>3, <1>4, <1>9, <1>10, <1>11, CountingSelects
<1>14. GroupReap(g, cutoff, Cardinality(E)) = D
  BY <1>5, <1>12, <1>13
<1> QED
  BY <1>14 DEF D, E

LEMMA ReapSelects ==
  TypeOK => ReapTakesSelection
<1> SUFFICES ASSUME TypeOK, NEW cutoff \in Clock, NEW max \in Batches
             PROVE  Reaped(cutoff, max) =
                      {<<e[2], e[3]>> : e \in ReapCandidates(cutoff, max)}
  BY DEF ReapTakesSelection
<1> DEFINE sel == ReapCandidates(cutoff, max)
           count(g) == Cardinality({e \in sel : e[2] = g})
<1>1. max \in Nat
  BY LimitsAssumption
<1>2. Reaped(cutoff, max) = {p \in Groups \X Members :
                               p[2] \in GroupReap(p[1], cutoff, count(p[1]))}
  BY DEF Reaped
<1>3. ASSUME NEW g \in Groups
      PROVE  GroupReap(g, cutoff, count(g)) =
               {m \in Members : EntryOf(g, m) \in sel}
  BY <1>1, GroupReapTakesSelection
<1>4. ASSUME NEW e \in sel
      PROVE  e[2] \in Groups /\ e[3] \in Members /\ e = EntryOf(e[2], e[3])
  <2>1. e \in StaleEntries(cutoff)
    BY DEF ReapCandidates, StaleEntries
  <2> QED
    BY <2>1, StaleEntriesFinite
<1>5. ASSUME NEW g, NEW m
      PROVE  EntryOf(g, m)[2] = g /\ EntryOf(g, m)[3] = m
  BY DEF EntryOf
<1> HIDE DEF sel, count
<1>6. ASSUME NEW p \in Reaped(cutoff, max)
      PROVE  p \in {<<e[2], e[3]>> : e \in sel}
  <2>1. PICK g \in Groups, m \in Members : p = <<g, m>>
    BY <1>2, SMTT(30)
  <2>2. p[1] = g /\ p[2] = m
    BY <2>1
  <2>3. EntryOf(g, m) \in sel
    BY <1>2, <1>3, <2>2
  <2>4. p = <<EntryOf(g, m)[2], EntryOf(g, m)[3]>>
    BY <1>5, <2>1
  <2> QED
    BY <2>3, <2>4
<1>7. ASSUME NEW e \in sel
      PROVE  <<e[2], e[3]>> \in Reaped(cutoff, max)
  <2>1. e[3] \in GroupReap(e[2], cutoff, count(e[2]))
    BY <1>3, <1>4
  <2> QED
    BY <1>2, <1>4, <2>1
<1>8. {<<e[2], e[3]>> : e \in sel} = Reaped(cutoff, max)
  BY <1>6, <1>7
<1> QED
  BY <1>8 DEF sel

\* The members that reap_stale_members removes group by group are the ones it
\* selected, and preflighted, across all groups: cutting each group's own
\* order after as many members as were selected cuts at the same place.
THEOREM ReapAlwaysTakesSelection == Spec => []ReapTakesSelection
BY ReapSelects, TypeCorrect, PTL

-----------------------------------------------------------------------------
(* The journal record.  Every command but a claim that is rejected half    *)
(* way names in its change set the entities it touches, and advances their *)
(* revisions.  That a published task's first revision is an advance needs  *)
(* the revision of an absent one to be zero, which Stored states together  *)
(* with what from_checkpoint asks of stored entities.                      *)

\* Deadlines stay within the timestamps: durations are half an hour at most
\* and the largest timestamp is millions of years away.
DeadlinesFit == \A now \in Clock, d \in Durations : now + d <= MaxTimestamp

StoredTask(t) ==
  IF tasks[t].status = "absent"
    THEN task_revision[t] = 0
    ELSE task_revision[t] > 0 /\ tasks[t].namespace_id \in namespaces

StoredGroup(g) ==
  IF groups[g].namespace_id = None
    THEN group_revision[g] = 0 /\ groups[g].members = {}
    ELSE group_revision[g] > 0 /\ groups[g].namespace_id \in namespaces

Stored ==
  /\ \A t \in Tasks : StoredTask(t)
  /\ \A g \in Groups : StoredGroup(g)

\* What the record says of a task, and how the task may have changed.
TaskPublished(t) ==
  /\ tasks[t].status = "absent" /\ tasks'[t].status # "absent"
  /\ tasks'[t].namespace_id \in namespaces
  /\ task_revision'[t] = 1

TaskChanged(t) ==
  /\ tasks[t].status # "absent" /\ tasks'[t].status # "absent"
  /\ tasks'[t].namespace_id = tasks[t].namespace_id
  /\ task_revision'[t] > task_revision[t]

TaskDeleted(t) == tasks'[t] = AbsentTask /\ task_revision'[t] = 0

TaskKept(t) == tasks'[t] = tasks[t] /\ task_revision'[t] = task_revision[t]

TaskRecorded(t) ==
  IF t \in changes'.deleted_tasks THEN t \notin changes'.tasks /\ TaskDeleted(t)
  ELSE IF t \in changes'.tasks THEN TaskPublished(t) \/ TaskChanged(t)
  ELSE TaskKept(t)

GroupCreated(g) ==
  /\ groups[g].namespace_id = None /\ groups'[g].namespace_id \in namespaces
  /\ group_revision'[g] = 1

GroupChanged(g) ==
  /\ groups[g].namespace_id # None
  /\ groups'[g].namespace_id = groups[g].namespace_id
  /\ group_revision'[g] > group_revision[g]

GroupKept(g) ==
  /\ groups'[g] = groups[g] /\ group_revision'[g] = group_revision[g]
  /\ \A m \in Members : consumers'[<<g, m>>] = consumers[<<g, m>>]

GroupRecorded(g) ==
  IF g \in changes'.groups THEN GroupCreated(g) \/ GroupChanged(g)
                           ELSE GroupKept(g)

Recorded ==
  /\ revision' = revision + 1 \/ (revision' = revision /\ state' = state)
  /\ namespaces' = namespaces \cup changes'.namespaces
  /\ \A t \in Tasks : TaskRecorded(t)
  /\ \A g \in Groups : GroupRecorded(g)

LEMMA ChangeSetFields ==
  /\ NoChanges.namespaces = {} /\ NoChanges.tasks = {}
  /\ NoChanges.deleted_tasks = {} /\ NoChanges.groups = {}
  /\ \A S : LET c == [NoChanges EXCEPT !.namespaces = S] IN
       c.namespaces = S /\ c.tasks = {} /\ c.deleted_tasks = {} /\ c.groups = {}
  /\ \A S : LET c == [NoChanges EXCEPT !.tasks = S] IN
       c.namespaces = {} /\ c.tasks = S /\ c.deleted_tasks = {} /\ c.groups = {}
  /\ \A S : LET c == [NoChanges EXCEPT !.deleted_tasks = S] IN
       c.namespaces = {} /\ c.tasks = {} /\ c.deleted_tasks = S /\ c.groups = {}
  /\ \A S : LET c == [NoChanges EXCEPT !.groups = S] IN
       c.namespaces = {} /\ c.tasks = {} /\ c.deleted_tasks = {} /\ c.groups = S
  /\ \A S, R : LET c == [NoChanges EXCEPT !.groups = S, !.tasks = R] IN
       c.namespaces = {} /\ c.tasks = R /\ c.deleted_tasks = {} /\ c.groups = S
BY DEF NoChanges

\* A step that touches no group, or no task, and records none.
LEMMA GroupsKept ==
  ASSUME UNCHANGED <<groups, group_revision, consumers>>, changes'.groups = {}
  PROVE  \A g \in Groups : GroupRecorded(g)
BY DEF GroupRecorded, GroupKept

LEMMA TasksKept ==
  ASSUME UNCHANGED <<tasks, task_revision>>,
         changes'.tasks = {}, changes'.deleted_tasks = {}
  PROVE  \A t \in Tasks : TaskRecorded(t)
BY DEF TaskRecorded, TaskKept

LEMMA RecordedRegister ==
  ASSUME TypeOK, Register
  PROVE  Recorded
<1>1. ASSUME NEW n \in Namespaces, EnsureNamespace(n)
      PROVE  Recorded
  <2>1. /\ changes'.namespaces = {n} /\ changes'.tasks = {}
        /\ changes'.deleted_tasks = {} /\ changes'.groups = {}
    BY <1>1, ChangeSetFields DEF EnsureNamespace
  <2> QED
    BY <1>1, <2>1, GroupsKept, TasksKept
    DEF Recorded, EnsureNamespace, NextRevision
<1>2. ASSUME NEW n \in Namespaces, NEW g \in Groups, EnsureConsumerGroup(n, g)
      PROVE  Recorded
  <2>1. /\ changes'.namespaces = {} /\ changes'.tasks = {}
        /\ changes'.deleted_tasks = {} /\ changes'.groups = {g}
    BY <1>2, ChangeSetFields DEF EnsureConsumerGroup
  <2>2. /\ groups \in [Groups -> GroupRecords]
        /\ group_revision \in [Groups -> Nat]
    BY DEF TypeOK
  <2>3. ASSUME NEW h \in Groups
        PROVE  GroupRecorded(h)
    <3>1. CASE h = g
      <4>1. groups'[h] = [groups[h] EXCEPT !.namespace_id = n]
        BY <1>2, <2>2, <3>1 DEF EnsureConsumerGroup
      <4>2. groups'[h].namespace_id = n
        BY <2>2, <4>1 DEF GroupRecords
      <4> QED
        BY <1>2, <2>1, <2>2, <3>1, <4>2
        DEF EnsureConsumerGroup, GroupRecorded, GroupCreated
    <3>2. CASE h # g
      BY <1>2, <2>1, <2>2, <3>2 DEF EnsureConsumerGroup, GroupRecorded, GroupKept
    <3> QED
      BY <3>1, <3>2
  <2> QED
    BY <1>2, <2>1, <2>3, TasksKept
    DEF Recorded, EnsureConsumerGroup, NextRevision
<1>3. ASSUME NEW n \in Namespaces, NEW t \in Tasks, NEW o \in Objectives,
             NEW now \in Clock, PublishTask(n, t, o, now)
      PROVE  Recorded
  <2>1. /\ changes'.namespaces = {} /\ changes'.tasks = {t}
        /\ changes'.deleted_tasks = {} /\ changes'.groups = {}
    BY <1>3, ChangeSetFields DEF PublishTask
  <2>2. /\ tasks \in [Tasks -> TaskRecords] /\ task_revision \in [Tasks -> Nat]
        /\ now \in Nat
    BY ClockAssumption DEF TypeOK
  <2>3. /\ QueuedTask(n, o, now).status = "queued"
        /\ QueuedTask(n, o, now).namespace_id = n
    BY <2>2, QueuedTaskFields
  <2>4. ASSUME NEW u \in Tasks
        PROVE  TaskRecorded(u)
    <3>1. CASE u = t
      BY <1>3, <2>1, <2>2, <2>3, <3>1
      DEF PublishTask, TaskRecorded, TaskPublished
    <3>2. CASE u # t
      BY <1>3, <2>1, <2>2, <3>2 DEF PublishTask, TaskRecorded, TaskKept
    <3> QED
      BY <3>1, <3>2
  <2> QED
    BY <1>3, <2>1, <2>4, GroupsKept DEF Recorded, PublishTask, NextRevision
<1> QED
  BY <1>1, <1>2, <1>3 DEF Register

\* Requeueing leased tasks is recorded as a change of each.
LEMMA RequeueChanges ==
  ASSUME TypeOK, NEW R \in SUBSET Tasks,
         \A t \in R : tasks[t].status = "leased",
         NEW t \in Tasks, tasks'[t] = RequeuedTasks(R)[t],
         task_revision'[t] = RequeuedRevisions(R)[t]
  PROVE  IF t \in R THEN TaskChanged(t) ELSE TaskKept(t)
<1>1. tasks[t] \in TaskRecords /\ task_revision[t] \in Nat
  BY DEF TypeOK
<1>2. CASE t \in R
  <2>1. tasks'[t] = Requeued(tasks[t]) /\ task_revision'[t] = task_revision[t] + 1
    BY <1>2 DEF RequeuedTasks, RequeuedRevisions
  <2>2. task_revision'[t] > task_revision[t]
    BY <1>1, <2>1, SMTT(30)
  <2> QED
    BY <1>1, <1>2, <2>1, <2>2, RequeuedFields DEF TaskChanged
<1>3. CASE t \notin R
  BY <1>3 DEF RequeuedTasks, RequeuedRevisions, TaskKept
<1> QED
  BY <1>2, <1>3

LEMMA RecordedRemoveMembers ==
  ASSUME TypeOK, NEW P \in SUBSET (Groups \X Members), RemoveMembers(P),
         \A p \in P : groups[p[1]].namespace_id # None
  PROVE  Recorded
<1> DEFINE R == LeasedBy(P)
           affected == {p[1] : p \in P}
<1>1. /\ changes'.namespaces = {} /\ changes'.tasks = R
      /\ changes'.deleted_tasks = {} /\ changes'.groups = affected
  <2>1. changes' = [NoChanges EXCEPT !.groups = affected, !.tasks = R]
    BY DEF RemoveMembers
  <2> HIDE DEF R, affected
  <2> QED
    BY <2>1, ChangeSetFields
<1>2. R \in SUBSET Tasks /\ \A t \in R : tasks[t].status = "leased"
  <2>1. \A t \in R : tasks[t].status = "leased"
    BY DEF LeasedBy
  <2> QED
    BY <2>1, LeasedByTypes
<1>3. tasks' = RequeuedTasks(R) /\ task_revision' = RequeuedRevisions(R)
  BY DEF RemoveMembers, RequeueMemberLeases
<1>4. \A g \in affected : groups[g].namespace_id # None
  OBVIOUS
<1>5. \A g \in Groups : g \notin affected =>
        \A m \in Members : <<g, m>> \in Groups \X Members /\ <<g, m>> \notin P
  <2>1. ASSUME NEW g, NEW m
        PROVE  <<g, m>>[1] = g
    OBVIOUS
  <2> QED
    BY <2>1
<1>6. /\ groups' = [g \in Groups |->
           IF g \in affected
             THEN WithoutMembers(groups[g], {m \in Members : <<g, m>> \in P})
             ELSE groups[g]]
      /\ consumers' = [p \in Groups \X Members |->
           IF p \in P THEN AbsentConsumer ELSE consumers[p]]
      /\ group_revision' = [g \in Groups |->
           IF g \in affected THEN group_revision[g] + 1 ELSE group_revision[g]]
  BY DEF RemoveMembers
<1> HIDE DEF R, affected
<1>7. ASSUME NEW t \in Tasks
      PROVE  TaskRecorded(t)
  BY <1>1, <1>2, <1>3, RequeueChanges DEF TaskRecorded
<1>8. ASSUME NEW g \in Groups
      PROVE  GroupRecorded(g)
  <2>1. CASE g \in affected
    <3>1. groups[g] \in GroupRecords /\ group_revision[g] \in Nat
      BY DEF TypeOK
    <3> DEFINE gone == {m \in Members : <<g, m>> \in P}
    <3>2. gone \in SUBSET Members /\ groups'[g] = WithoutMembers(groups[g], gone)
      BY <1>6, <2>1
    <3> HIDE DEF gone
    <3>3. groups'[g].namespace_id = groups[g].namespace_id
      <4>1. WithoutMembers(groups[g], gone).namespace_id
              = groups[g].namespace_id
        BY <3>1, <3>2, WithoutMembersFields
      <4> QED
        BY <3>2, <4>1
    <3>4. group_revision'[g] = group_revision[g] + 1
      BY <1>6, <2>1
    <3>5. group_revision'[g] > group_revision[g]
      BY <3>1, <3>4, SMTT(30)
    <3> QED
      BY <1>1, <1>4, <2>1, <3>3, <3>5 DEF GroupRecorded, GroupChanged
  <2>2. CASE g \notin affected
    <3>1. ASSUME NEW m \in Members
          PROVE  consumers'[<<g, m>>] = consumers[<<g, m>>]
      <4>1. <<g, m>> \in Groups \X Members /\ <<g, m>> \notin P
        BY <1>5, <2>2
      <4> QED
        BY <1>6, <4>1
    <3> QED
      BY <1>1, <1>6, <2>2, <3>1 DEF GroupRecorded, GroupKept
  <2> QED
    BY <2>1, <2>2
<1> QED
  BY <1>1, <1>7, <1>8 DEF Recorded, RemoveMembers, NextRevision

LEMMA RecordedMembership ==
  ASSUME TypeOK, Membership
  PROVE  Recorded
<1>1. /\ groups \in [Groups -> GroupRecords] /\ group_revision \in [Groups -> Nat]
      /\ consumers \in [Groups \X Members -> ConsumerRecords]
  BY DEF TypeOK
<1>2. ASSUME NEW g \in Groups, NEW m \in Members, changes' = [NoChanges EXCEPT !.groups = {g}],
             NextRevision, groups[g].namespace_id # None,
             groups'[g].namespace_id = groups[g].namespace_id,
             \A h \in Groups \ {g} : groups'[h] = groups[h],
             \A p \in (Groups \X Members) \ {<<g, m>>} : consumers'[p] = consumers[p],
             group_revision' = [group_revision EXCEPT ![g] = @ + 1],
             UNCHANGED <<namespaces, tasks, task_revision>>
      PROVE  Recorded
  <2>1. /\ changes'.namespaces = {} /\ changes'.tasks = {}
        /\ changes'.deleted_tasks = {} /\ changes'.groups = {g}
    BY <1>2, ChangeSetFields
  <2>2. ASSUME NEW h \in Groups
        PROVE  GroupRecorded(h)
    <3>1. CASE h = g
      <4>1. group_revision'[g] = group_revision[g] + 1
        BY <1>1, <1>2
      <4>2. group_revision'[g] > group_revision[g]
        BY <1>1, <4>1, SMTT(30)
      <4> QED
        BY <1>2, <2>1, <3>1, <4>2 DEF GroupRecorded, GroupChanged
    <3>2. CASE h # g
      <4>1. group_revision'[h] = group_revision[h]
        BY <1>1, <1>2, <3>2
      <4>2. ASSUME NEW x \in Members
            PROVE  consumers'[<<h, x>>] = consumers[<<h, x>>]
        <5>1. <<h, x>> # <<g, m>> /\ <<h, x>> \in Groups \X Members
          BY <3>2
        <5> QED
          BY <1>2, <5>1
      <4> QED
        BY <1>2, <2>1, <3>2, <4>1, <4>2 DEF GroupRecorded, GroupKept
    <3> QED
      BY <3>1, <3>2
  <2> QED
    BY <1>2, <2>1, <2>2, TasksKept DEF Recorded, NextRevision
<1>3. ASSUME NEW g \in Groups, NEW m \in Members, NEW c \in Capabilities,
             NEW now \in Clock, JoinConsumerGroup(g, m, c, now)
      PROVE  Recorded
  <2>1. WithMember(groups[g], m).namespace_id = groups[g].namespace_id
    BY <1>1, WithMemberFields
  <2>2. /\ groups'[g].namespace_id = groups[g].namespace_id
        /\ \A h \in Groups \ {g} : groups'[h] = groups[h]
    BY <1>1, <1>3, <2>1 DEF JoinConsumerGroup
  <2>3. \A p \in (Groups \X Members) \ {<<g, m>>} : consumers'[p] = consumers[p]
    BY <1>1, <1>3 DEF JoinConsumerGroup
  <2> QED
    BY <1>2, <1>3, <2>2, <2>3 DEF JoinConsumerGroup
<1>4. ASSUME NEW g \in Groups, NEW m \in Members, NEW now \in Clock,
             HeartbeatConsumerGroup(g, m, groups[g].generation, now)
      PROVE  Recorded
  <2>1. \A p \in (Groups \X Members) \ {<<g, m>>} : consumers'[p] = consumers[p]
    BY <1>1, <1>4 DEF HeartbeatConsumerGroup
  <2> QED
    BY <1>2, <1>4, <2>1 DEF HeartbeatConsumerGroup, RequireGroupMember
<1>5. ASSUME NEW g \in Groups, NEW m \in Members,
             LeaveConsumerGroup(g, m, groups[g].generation)
      PROVE  Recorded
  <2>1. {<<g, m>>} \in SUBSET (Groups \X Members)
    BY SMTT(30)
  <2>2. \A p \in {<<g, m>>} : groups[p[1]].namespace_id # None
    BY <1>5, SMTT(30) DEF LeaveConsumerGroup, RequireGroupMember
  <2> QED
    BY <1>5, <2>1, <2>2, RecordedRemoveMembers DEF LeaveConsumerGroup
<1> QED
  BY <1>3, <1>4, <1>5 DEF Membership

\* The tasks a claim recovers and the one it grants are the ones it records.
LEMMA RecordedClaimTask ==
  ASSUME TypeOK, NEW g \in Groups, NEW m \in Members, NEW l \in LeaseIds,
         NEW now \in Clock, NEW d \in Durations,
         ClaimTask(g, m, term, groups[g].generation, l, now, d)
  PROVE  Recorded
<1> DEFINE n == groups[g].namespace_id
           R == RecoverableTasks(n, now)
           k == groups[g].generation
<1>1. n \in Namespaces /\ now \in Nat /\ k \in Nat
  BY ClaimTypes DEF ClaimTask
<1>2. PICK e \in ClaimableEntries(n, now) :
        /\ tasks' = [RequeuedTasks(R) EXCEPT
             ![e[2]] = LeasedTask(@, l, g, m, k, now + d)]
        /\ task_revision' = [RequeuedRevisions(R) EXCEPT ![e[2]] = @ + 1]
        /\ changes' = [NoChanges EXCEPT !.tasks = R \cup {e[2]}]
  BY DEF ClaimTask
<1> DEFINE t == e[2]
<1>3. /\ R \in SUBSET Tasks /\ t \in Tasks
      /\ \A u \in R : tasks[u].status = "leased"
      /\ tasks[t].status = "queued" \/ t \in R
  BY <1>1, RecoveryTypes, ClaimableFields
<1>4. now + d \in Nat
  BY <1>1, ClockAssumption, SMTT(30)
<1>5. /\ changes'.namespaces = {} /\ changes'.tasks = R \cup {t}
      /\ changes'.deleted_tasks = {} /\ changes'.groups = {}
  BY <1>2, ChangeSetFields
<1> HIDE DEF n, R
<1>6. ASSUME NEW u \in Tasks \ {t}
      PROVE  TaskRecorded(u)
  <2>1. tasks'[u] = RequeuedTasks(R)[u] /\ task_revision'[u] = RequeuedRevisions(R)[u]
    BY <1>2 DEF RequeuedTasks, RequeuedRevisions
  <2>2. IF u \in R THEN TaskChanged(u) ELSE TaskKept(u)
    BY <1>3, <2>1, RequeueChanges
  <2> QED
    BY <1>5, <2>2 DEF TaskRecorded
<1>7. TaskChanged(t)
  <2> DEFINE x == RequeuedTasks(R)[t]
             r == RequeuedRevisions(R)[t]
  <2>1. /\ tasks'[t] = LeasedTask(x, l, g, m, k, now + d)
        /\ task_revision'[t] = r + 1
    BY <1>2, <1>3 DEF RequeuedTasks, RequeuedRevisions
  <2>2. tasks[t] \in TaskRecords /\ task_revision[t] \in Nat
    BY <1>3 DEF TypeOK
  <2>3. /\ x = IF t \in R THEN Requeued(tasks[t]) ELSE tasks[t]
        /\ r = IF t \in R THEN task_revision[t] + 1 ELSE task_revision[t]
    BY <1>3 DEF RequeuedTasks, RequeuedRevisions
  <2>4. x \in TaskRecords /\ x.namespace_id = tasks[t].namespace_id
    BY <2>2, <2>3, RequeuedFields
  <2> HIDE DEF x, r, t
  <2>5. /\ tasks'[t].status = "leased"
        /\ tasks'[t].namespace_id = tasks[t].namespace_id
    BY <1>1, <1>4, <2>1, <2>4, LeasedTaskFields, SMTT(30)
  <2>6. task_revision'[t] > task_revision[t]
    BY <2>1, <2>2, <2>3, SMTT(30)
  <2>7. tasks[t].status # "absent"
    BY <1>3
  <2> QED
    BY <2>5, <2>6, <2>7 DEF TaskChanged
<1>8. ASSUME NEW u \in Tasks
      PROVE  TaskRecorded(u)
  BY <1>5, <1>6, <1>7 DEF TaskRecorded
<1> QED
  BY <1>5, <1>8, GroupsKept DEF Recorded, ClaimTask, NextRevision

LEMMA RecordedUse ==
  ASSUME TypeOK, UseLease
  PROVE  Recorded
<1>1. tasks \in [Tasks -> TaskRecords] /\ task_revision \in [Tasks -> Nat]
  BY DEF TypeOK
<1>2. ASSUME NEW t \in Tasks, changes' = [NoChanges EXCEPT !.tasks = {t}],
             NextRevision, tasks[t].status # "absent",
             tasks'[t].status # "absent",
             tasks'[t].namespace_id = tasks[t].namespace_id,
             \A u \in Tasks \ {t} : tasks'[u] = tasks[u],
             task_revision' = [task_revision EXCEPT ![t] = @ + 1],
             UNCHANGED <<namespaces, groups, consumers, group_revision>>
      PROVE  Recorded
  <2>1. /\ changes'.namespaces = {} /\ changes'.tasks = {t}
        /\ changes'.deleted_tasks = {} /\ changes'.groups = {}
    BY <1>2, ChangeSetFields
  <2>2. ASSUME NEW u \in Tasks
        PROVE  TaskRecorded(u)
    <3>1. CASE u = t
      <4>1. task_revision'[t] = task_revision[t] + 1
        BY <1>1, <1>2
      <4>2. task_revision'[t] > task_revision[t]
        BY <1>1, <4>1, SMTT(30)
      <4> QED
        BY <1>2, <2>1, <3>1, <4>2 DEF TaskRecorded, TaskChanged
    <3>2. CASE u # t
      BY <1>1, <1>2, <2>1, <3>2 DEF TaskRecorded, TaskKept
    <3> QED
      BY <3>1, <3>2
  <2> QED
    BY <1>2, <2>1, <2>2, GroupsKept DEF Recorded, NextRevision
<1>3. ASSUME NEW t \in Tasks, NEW g, NEW m, NEW k, NEW epoch, NEW l,
             NEW now, NEW d, RenewTaskLease(t, g, m, term, k, epoch, l, now, d)
      PROVE  Recorded
  <2>1. /\ tasks[t].status = "leased"
        /\ tasks' = [tasks EXCEPT ![t].expires_at = now + d]
    BY <1>3 DEF RenewTaskLease, ActiveLease
  <2>2. tasks'[t] = [tasks[t] EXCEPT !.expires_at = now + d]
    BY <1>1, <2>1
  <2>3. /\ tasks'[t].status = "leased"
        /\ tasks'[t].namespace_id = tasks[t].namespace_id
    BY <1>1, <2>1, <2>2 DEF TaskRecords
  <2>4. \A u \in Tasks \ {t} : tasks'[u] = tasks[u]
    BY <1>1, <2>1
  <2> QED
    BY <1>2, <1>3, <2>1, <2>3, <2>4 DEF RenewTaskLease
<1>4. ASSUME NEW t \in Tasks, NEW g, NEW m, NEW k, NEW epoch, NEW l,
             NEW now \in Clock, NEW r \in Results,
             CompleteTask(t, g, m, term, k, epoch, l, r, now)
      PROVE  Recorded
  <2>1. /\ tasks[t].status = "leased"
        /\ tasks' = [tasks EXCEPT ![t] = CompletedTask(tasks[t], r, now)]
    BY <1>4 DEF CompleteTask, ActiveLease
  <2>2. now \in Nat /\ tasks[t] \in TaskRecords
    BY <1>1, ClockAssumption
  <2>3. /\ tasks'[t].status = "completed"
        /\ tasks'[t].namespace_id = tasks[t].namespace_id
    BY <1>1, <2>1, <2>2, CompletedTaskFields
  <2>4. \A u \in Tasks \ {t} : tasks'[u] = tasks[u]
    BY <1>1, <2>1
  <2> QED
    BY <1>2, <1>4, <2>1, <2>3, <2>4 DEF CompleteTask
<1> QED
  BY <1>3, <1>4 DEF UseLease

LEMMA RecordedPrune ==
  ASSUME TypeOK, NEW cutoff, NEW max, PruneCompletedTasks(cutoff, max)
  PROVE  Recorded
<1> DEFINE pruned == {e[2] : e \in PruneSelection(cutoff, max)}
<1>1. /\ tasks' = [t \in Tasks |-> IF t \in pruned THEN AbsentTask ELSE tasks[t]]
      /\ task_revision' =
           [t \in Tasks |-> IF t \in pruned THEN 0 ELSE task_revision[t]]
      /\ changes' = [NoChanges EXCEPT !.deleted_tasks = pruned]
      /\ NextRevision
      /\ UNCHANGED <<namespaces, groups, consumers, group_revision>>
  BY DEF PruneCompletedTasks
<1> HIDE DEF pruned
<1>2. /\ changes'.namespaces = {} /\ changes'.tasks = {}
      /\ changes'.deleted_tasks = pruned /\ changes'.groups = {}
  BY <1>1, ChangeSetFields
<1>3. ASSUME NEW t \in Tasks
      PROVE  TaskRecorded(t)
  BY <1>1, <1>2 DEF TaskRecorded, TaskDeleted, TaskKept
<1> QED
  BY <1>1, <1>2, <1>3, GroupsKept DEF Recorded, NextRevision

\* The members that are reaped are members.
LEMMA ReapedMembers ==
  ASSUME TypeOK, NEW cutoff, NEW max, NEW p \in Reaped(cutoff, max)
  PROVE  p[1] \in Groups /\ p[2] \in groups[p[1]].members
<1>1. p \in Groups \X Members
  BY ReapedTypes
<1>2. \E k : p[2] \in GroupReap(p[1], cutoff, k)
  BY DEF Reaped
<1>3. p[2] \in StaleMembers(p[1], cutoff)
  BY <1>2 DEF GroupReap
<1> QED
  BY <1>1, <1>3 DEF StaleMembers

\* Every step but a claim rejected half way is what its record says.
LEMMA StepRecorded ==
  ASSUME TypeOK, Stored, Next,
         ~ \E g \in Groups, m \in Members, l \in LeaseIds, now \in Clock,
              d \in Durations :
             ClaimTaskOverflow(g, m, term, groups[g].generation, l, now, d)
  PROVE  Recorded
<1>1. CASE Register
  BY <1>1, RecordedRegister
<1>2. CASE Membership
  BY <1>2, RecordedMembership
<1>3. ASSUME NEW g \in Groups, NEW m \in Members, NEW l \in LeaseIds,
             NEW now \in Clock,
             ClaimNothing(g, m, term, groups[g].generation, l, now)
      PROVE  Recorded
  <2>1. /\ changes'.namespaces = {} /\ changes'.tasks = {}
        /\ changes'.deleted_tasks = {} /\ changes'.groups = {}
    BY <1>3, ChangeSetFields DEF ClaimNothing
  <2> QED
    BY <1>3, <2>1, GroupsKept, TasksKept DEF Recorded, ClaimNothing, state
<1>4. CASE Claim
  BY <1>3, <1>4, RecordedClaimTask DEF Claim
<1>5. CASE UseLease
  BY <1>5, RecordedUse
<1>6. CASE Maintain
  <2>1. ASSUME NEW cutoff \in Clock, NEW max \in Batches,
               ReapStaleMembers(cutoff, max)
        PROVE  Recorded
    <3>1. ASSUME NEW p \in Reaped(cutoff, max)
          PROVE  groups[p[1]].namespace_id # None
      BY ReapedMembers DEF Stored, StoredGroup
    <3> QED
      BY <2>1, <3>1, ReapedTypes, RecordedRemoveMembers DEF ReapStaleMembers
  <2> QED
    BY <1>6, <2>1, RecordedPrune DEF Maintain
<1>7. ASSUME NEW new_term \in 1..MaxTerm, AdvanceTerm(term, new_term)
      PROVE  Recorded
  <2>1. /\ changes'.namespaces = {} /\ changes'.tasks = {}
        /\ changes'.deleted_tasks = {} /\ changes'.groups = {}
    BY <1>7, ChangeSetFields DEF AdvanceTerm
  <2> QED
    BY <1>7, <2>1, GroupsKept, TasksKept DEF Recorded, AdvanceTerm, NextRevision
<1>8. CASE FromCheckpoint
  <2>1. /\ changes'.namespaces = {} /\ changes'.tasks = {}
        /\ changes'.deleted_tasks = {} /\ changes'.groups = {}
    BY <1>8, ChangeSetFields DEF FromCheckpoint
  <2> QED
    BY <1>8, <2>1, GroupsKept, TasksKept DEF Recorded, FromCheckpoint, state
<1> QED
  BY <1>1, <1>2, <1>4, <1>5, <1>6, <1>7, <1>8 DEF Next

LEMMA StoredInit == Init => Stored
<1> SUFFICES ASSUME Init PROVE Stored
  OBVIOUS
<1>1. \A t \in Tasks : StoredTask(t)
  BY AbsentTaskFields DEF Init, StoredTask
<1>2. \A g \in Groups : StoredGroup(g)
  BY DEF Init, StoredGroup, AbsentGroup
<1> QED
  BY <1>1, <1>2 DEF Stored

\* Members are only ever those of groups that exist.
LEMMA GroupsWithoutNamespace ==
  ASSUME TypeOK, Stored, Next, NEW g \in Groups,
         groups[g].namespace_id = None
  PROVE  groups'[g].members = {}
<1>1. /\ groups \in [Groups -> GroupRecords] /\ groups[g] \in GroupRecords
      /\ groups[g].members = {}
  BY DEF TypeOK, Stored, StoredGroup
<1>2. CASE groups'[g] = groups[g]
  BY <1>1, <1>2
<1>3. ASSUME NEW n \in Namespaces, NEW h \in Groups, EnsureConsumerGroup(n, h)
      PROVE  groups'[g].members = {}
  <2>1. groups' = [groups EXCEPT ![h].namespace_id = n]
    BY <1>3 DEF EnsureConsumerGroup
  <2>2. groups'[g] \in {groups[g], [groups[g] EXCEPT !.namespace_id = n]}
    BY <1>1, <2>1
  <2> QED
    BY <1>1, <2>2 DEF GroupRecords
<1>4. ASSUME NEW h \in Groups, NEW m \in Members, NEW c \in Capabilities,
             NEW now \in Clock, JoinConsumerGroup(h, m, c, now)
      PROVE  groups'[g] = groups[g]
  BY <1>1, <1>4 DEF JoinConsumerGroup
<1>5. ASSUME NEW P \in SUBSET (Groups \X Members), RemoveMembers(P)
      PROVE  groups'[g].members = {}
  <2> DEFINE gone == {m \in Members : <<g, m>> \in P}
  <2>1. /\ gone \in SUBSET Members
        /\ groups'[g] \in {groups[g], WithoutMembers(groups[g], gone)}
    BY <1>5 DEF RemoveMembers
  <2> HIDE DEF gone
  <2>2. WithoutMembers(groups[g], gone).members = groups[g].members \ gone
    BY <1>1, <2>1, WithoutMembersFields
  <2> QED
    BY <1>1, <2>1, <2>2
<1>6. CASE Register
  BY <1>2, <1>3, <1>6 DEF Register, EnsureNamespace, PublishTask
<1>7. CASE Membership
  <2>1. ASSUME NEW h \in Groups, NEW m \in Members,
               LeaveConsumerGroup(h, m, groups[h].generation)
        PROVE  groups'[g].members = {}
    BY <1>5, <2>1, SMTT(30) DEF LeaveConsumerGroup
  <2> QED
    BY <1>2, <1>4, <1>7, <2>1 DEF Membership, HeartbeatConsumerGroup
<1>8. CASE Claim \/ UseLease
  <2>1. CASE Claim
    <3>1. ASSUME NEW h \in Groups, NEW m \in Members, NEW l \in LeaseIds,
                 NEW now \in Clock
          PROVE  /\ ClaimNothing(h, m, term, groups[h].generation, l, now)
                      => groups' = groups
                 /\ \A d \in Durations :
                      \/ ClaimTask(h, m, term, groups[h].generation, l, now, d)
                      \/ ClaimTaskOverflow(h, m, term, groups[h].generation,
                                           l, now, d)
                      => groups' = groups
      BY DEF ClaimNothing, ClaimTask, ClaimTaskOverflow, state
    <3> QED
      BY <1>2, <2>1, <3>1 DEF Claim
  <2>2. CASE UseLease
    BY <1>2, <2>2 DEF UseLease, RenewTaskLease, CompleteTask
  <2> QED
    BY <1>8, <2>1, <2>2
<1>9. CASE Maintain
  BY <1>2, <1>5, <1>9, ReapedTypes
  DEF Maintain, ReapStaleMembers, PruneCompletedTasks
<1> QED
  BY <1>2, <1>6, <1>7, <1>8, <1>9 DEF Next, AdvanceTerm, FromCheckpoint, state

LEMMA StoredStep ==
  ASSUME TypeOK, TypeOK', Stored, [Next]_vars
  PROVE  Stored'
<1>1. CASE UNCHANGED vars
  BY <1>1 DEF Stored, StoredTask, StoredGroup, vars, state
<1>2. ASSUME NEW t \in Tasks, namespaces \subseteq namespaces',
             TaskPublished(t) \/ TaskChanged(t) \/ TaskDeleted(t) \/ TaskKept(t)
      PROVE  StoredTask(t)'
  <2>1. task_revision[t] \in Nat /\ task_revision'[t] \in Nat /\ StoredTask(t)
    BY DEF TypeOK, Stored
  <2>2. CASE TaskPublished(t)
    BY <1>2, <2>2, SMTT(30) DEF TaskPublished, StoredTask
  <2>3. CASE TaskChanged(t)
    BY <1>2, <2>1, <2>3, SMTT(30) DEF TaskChanged, StoredTask
  <2>4. CASE TaskDeleted(t)
    BY <2>4, AbsentTaskFields DEF TaskDeleted, StoredTask
  <2>5. CASE TaskKept(t)
    BY <1>2, <2>1, <2>5, SMTT(30) DEF TaskKept, StoredTask
  <2> QED
    BY <1>2, <2>2, <2>3, <2>4, <2>5
<1>3. ASSUME NEW g \in Groups, namespaces \subseteq namespaces', Next,
             GroupCreated(g) \/ GroupChanged(g) \/ GroupKept(g)
      PROVE  StoredGroup(g)'
  <2>1. /\ group_revision[g] \in Nat /\ group_revision'[g] \in Nat
        /\ StoredGroup(g) /\ None \notin namespaces
    BY NoneIsNoValue DEF TypeOK, Stored
  <2>2. CASE GroupCreated(g)
    BY <1>3, <2>1, <2>2, SMTT(30) DEF GroupCreated, StoredGroup
  <2>3. CASE GroupChanged(g)
    BY <1>3, <2>1, <2>3, SMTT(30) DEF GroupChanged, StoredGroup
  <2>4. CASE GroupKept(g)
    BY <1>3, <2>1, <2>4, GroupsWithoutNamespace, SMTT(30) DEF GroupKept, StoredGroup
  <2> QED
    BY <1>3, <2>2, <2>3, <2>4
<1>4. ASSUME NEW g \in Groups, NEW m \in Members, NEW l \in LeaseIds,
             NEW now \in Clock, NEW d \in Durations, Next,
             ClaimTaskOverflow(g, m, term, groups[g].generation, l, now, d)
      PROVE  Stored'
  <2> DEFINE n == groups[g].namespace_id
             R == RecoverableTasks(n, now)
  <2>1. n \in Namespaces /\ now \in Nat
    BY <1>4, ClaimTypes DEF ClaimTaskOverflow
  <2>2. /\ tasks' = RequeuedTasks(R) /\ task_revision' = RequeuedRevisions(R)
        /\ UNCHANGED <<namespaces, groups, group_revision, consumers>>
    BY <1>4 DEF ClaimTaskOverflow
  <2>3. R \in SUBSET Tasks /\ \A t \in R : tasks[t].status = "leased"
    BY <2>1, RecoveryTypes, ClaimableFields
  <2> HIDE DEF n, R
  <2>4. ASSUME NEW t \in Tasks
        PROVE  StoredTask(t)'
    BY <1>2, <2>2, <2>3, RequeueChanges
  <2>5. ASSUME NEW h \in Groups
        PROVE  StoredGroup(h)'
    BY <1>3, <1>4, <2>2 DEF GroupKept
  <2> QED
    BY <2>4, <2>5 DEF Stored
<1>5. ASSUME Next, Recorded
      PROVE  Stored'
  BY <1>2, <1>3, <1>5 DEF Recorded, TaskRecorded, GroupRecorded, Stored
<1> QED
  BY <1>1, <1>4, <1>5, StepRecorded

LEMMA StoredInvariant == Spec => []Stored
<1>1. Init => Stored
  BY StoredInit
<1>2. TypeOK /\ TypeOK' /\ Stored /\ [Next]_vars => Stored'
  BY StoredStep
<1> QED
  BY <1>1, <1>2, TypeCorrect, PTL DEF Spec

\* The change set that apply leaves for the journal is complete and truthful:
\* unless a claim is rejected after it recovered leases, replaying the
\* entities a command names yields the state after it, their revisions only
\* advance, and a command that records nothing changed nothing.
THEOREM JournalAlwaysReplaysStep ==
  DeadlinesFit => (Spec => JournalReplaysStep)
<1> SUFFICES ASSUME DeadlinesFit PROVE Spec => JournalReplaysStep
  OBVIOUS
<1> DEFINE Replays ==
      /\ revision' \in {revision, revision + 1}
      /\ revision' = revision => state' = state
      /\ changes'.tasks \cap changes'.deleted_tasks = {}
      /\ namespaces' = namespaces \cup changes'.namespaces
      /\ \A t \in Tasks :
           IF t \in changes'.deleted_tasks THEN tasks'[t] = AbsentTask
           ELSE IF t \in changes'.tasks
             THEN task_revision'[t] > task_revision[t]
                    /\ tasks'[t].status # "absent"
             ELSE tasks'[t] = tasks[t] /\ task_revision'[t] = task_revision[t]
      /\ \A g \in Groups :
           IF g \in changes'.groups
             THEN group_revision'[g] > group_revision[g]
             ELSE /\ groups'[g] = groups[g]
                  /\ \A m \in Members : consumers'[<<g, m>>] = consumers[<<g, m>>]
<1>1. ASSUME TypeOK, TypeOK', Stored, Next
      PROVE  Replays
  <2>1. ASSUME NEW g \in Groups, NEW m \in Members, NEW l \in LeaseIds,
               NEW now \in Clock, NEW d \in Durations
        PROVE  ~ClaimTaskOverflow(g, m, term, groups[g].generation, l, now, d)
    BY ClockAssumption, SMTT(30) DEF DeadlinesFit, ClaimTaskOverflow
  <2>2. Recorded
    BY <1>1, <2>1, StepRecorded
  <2>3. /\ revision' \in {revision, revision + 1}
        /\ revision' = revision => state' = state
    <3>1. revision # revision + 1
      BY <1>1, SMTT(30) DEF TypeOK
    <3> QED
      BY <2>2, <3>1 DEF Recorded
  <2>4. changes'.tasks \cap changes'.deleted_tasks = {}
    <3>1. changes'.deleted_tasks \subseteq Tasks
      BY <1>1 DEF TypeOK, ChangeSets
    <3> QED
      BY <2>2, <3>1 DEF Recorded, TaskRecorded
  <2>5. ASSUME NEW t \in Tasks, t \notin changes'.deleted_tasks, t \in changes'.tasks
        PROVE  task_revision'[t] > task_revision[t] /\ tasks'[t].status # "absent"
    <3>1. TaskPublished(t) \/ TaskChanged(t)
      BY <2>2, <2>5 DEF Recorded, TaskRecorded
    <3>2. StoredTask(t)
      BY <1>1 DEF Stored
    <3> QED
      BY <3>1, <3>2, SMTT(30) DEF TaskPublished, TaskChanged, StoredTask
  <2>6. ASSUME NEW g \in Groups, g \in changes'.groups
        PROVE  group_revision'[g] > group_revision[g]
    <3>1. GroupCreated(g) \/ GroupChanged(g)
      BY <2>2, <2>6 DEF Recorded, GroupRecorded
    <3>2. StoredGroup(g)
      BY <1>1 DEF Stored
    <3> QED
      BY <3>1, <3>2, SMTT(30) DEF GroupCreated, GroupChanged, StoredGroup
  <2> QED
    BY <2>2, <2>3, <2>4, <2>5, <2>6
    DEF Recorded, TaskRecorded, TaskDeleted, TaskKept, GroupRecorded, GroupKept
<1>2. TypeOK /\ TypeOK' /\ Stored /\ [Next]_vars => [Replays]_vars
  BY <1>1
<1> QED
  BY <1>2, TypeCorrect, StoredInvariant, PTL DEF Spec, JournalReplaysStep

=============================================================================
