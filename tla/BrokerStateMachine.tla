------------------------- MODULE BrokerStateMachine -------------------------
(***************************************************************************)
(* The deterministic broker state machine of agent-broker-domain: the      *)
(* authoritative state (term, revision, namespaces, tasks, consumer        *)
(* groups), the indexes derived from it (ready, expiration and completion  *)
(* heaps, lease and member maps, counters) and one action per command.     *)
(*                                                                         *)
(* A command the code rejects leaves the state unchanged, so a rejection   *)
(* is a stuttering step and the rejecting conditions are guards.  The one  *)
(* exception is ClaimTaskOverflow, a rejection that follows mutations.     *)
(*                                                                         *)
(* Heaps are sets of entries: the code only looks at their order when it   *)
(* takes the least entries, which Before expresses.  Task, group and       *)
(* member identifiers are naturals because their order breaks ties.        *)
(***************************************************************************)
EXTENDS Naturals, FiniteSets

CONSTANTS
  Namespaces, Tasks, Groups, Members, LeaseIds, Objectives, Results,
  Capabilities,        \* the capability sets a consumer may advertise
  Clock,               \* timestamps a command may carry, in any order
  Durations,           \* lease durations
  Batches,             \* batch limits of the two maintenance commands
  MaxTimestamp,        \* the largest TimestampMs
  MaxNamespaces, MaxNamespaceTasks, MaxNamespaceGroups, MaxGroupMembers,
  MaxTerm, MaxRevision, MaxGeneration, MaxEpoch,  \* bounds of the counters
  None

ASSUME IdentifiersAreOrdered ==
  Tasks \subseteq Nat /\ Groups \subseteq Nat /\ Members \subseteq Nat

ASSUME IdentifiersAreFinite ==
  IsFiniteSet(Tasks) /\ IsFiniteSet(Groups) /\ IsFiniteSet(Members)

ASSUME ClockAssumption ==
  Clock \subseteq Nat /\ Durations \subseteq Nat \ {0} /\ MaxTimestamp \in Nat

ASSUME LimitsAssumption ==
  /\ Batches \subseteq Nat \ {0}
  /\ {MaxNamespaces, MaxNamespaceTasks, MaxNamespaceGroups, MaxGroupMembers}
       \subseteq Nat \ {0}
  /\ {MaxTerm, MaxRevision, MaxGeneration, MaxEpoch} \subseteq Nat

ASSUME NoneIsNoValue ==
  None \notin Namespaces \cup Tasks \cup Groups \cup Members \cup LeaseIds
                \cup Objectives \cup Results \cup Capabilities

VARIABLES
  term, revision, namespaces,
  tasks,                   \* task records; status "absent" when not stored
  task_revision,
  groups,                  \* namespace, generation and members of each group
  consumers,               \* heartbeat and capabilities of each member
  group_revision,
  ready_tasks,             \* per namespace, entries <<created_at, task>>
  lease_expirations,       \* per namespace, <<expires_at, task, epoch>>
  active_lease_tasks,      \* lease id -> task, or None
  member_lease_tasks,      \* <<group, member>> -> set of tasks
  completed_tasks,         \* entries <<completed_at, task>>
  namespace_task_counts, namespace_group_counts,
  changes                  \* the change set of the last applied command

state == <<term, revision, namespaces, tasks, task_revision,
           groups, consumers, group_revision>>
indexes == <<ready_tasks, lease_expirations, active_lease_tasks,
             member_lease_tasks, completed_tasks,
             namespace_task_counts, namespace_group_counts>>
vars == <<state, indexes, changes>>

-----------------------------------------------------------------------------
(* Records and their transitions *)

AbsentTask ==
  [status |-> "absent", namespace_id |-> None, objective |-> None,
   created_at |-> 0, lease_epoch |-> 0, lease_id |-> None, owner |-> None,
   group |-> None, generation |-> 0, expires_at |-> 0, result |-> None,
   completed_at |-> 0]

QueuedTask(n, o, now) ==
  [AbsentTask EXCEPT !.status = "queued", !.namespace_id = n,
                     !.objective = o, !.created_at = now]

\* Mutant: a requeue resets the epoch.
RequeuedEpochReset(task) ==
  [task EXCEPT !.status = "queued", !.lease_id = None, !.owner = None,
               !.group = None, !.generation = 0, !.expires_at = 0,
               !.lease_epoch = 0]

\* Leased to queued: the epoch is kept, so the next claim advances it.
Requeued(task) ==
  [task EXCEPT !.status = "queued", !.lease_id = None, !.owner = None,
               !.group = None, !.generation = 0, !.expires_at = 0]

LeasedTask(task, l, g, m, generation, expires) ==
  [task EXCEPT !.status = "leased", !.lease_id = l,
               !.lease_epoch = task.lease_epoch + 1,
               !.owner = m, !.group = g, !.generation = generation,
               !.expires_at = expires]

CompletedTask(task, r, now) ==
  [task EXCEPT !.status = "completed", !.result = r, !.completed_at = now,
               !.expires_at = 0]

AbsentGroup == [namespace_id |-> None, generation |-> 0, members |-> {}]
AbsentConsumer == [heartbeat |-> 0, capabilities |-> None]

\* Any change of a group's members advances its generation.
WithMember(group, m) ==
  [group EXCEPT !.members = @ \cup {m}, !.generation = @ + 1]

WithoutMembers(group, gone) ==
  [group EXCEPT !.members = @ \ gone, !.generation = @ + 1]

Refreshed(consumer, now) == [consumer EXCEPT !.heartbeat = now]

\* Mutant: entries are ordered by task identifier alone.
BeforeByIdentifier(e, f) == e[2] < f[2]

Before(e, f) == e[1] < f[1] \/ (e[1] = f[1] /\ e[2] < f[2])

\* The order of the reaper's candidates <<heartbeat, group, member>>.
StalerThan(e, f) ==
  \/ e[1] < f[1]
  \/ e[1] = f[1] /\ e[2] < f[2]
  \/ e[1] = f[1] /\ e[2] = f[2] /\ e[3] < f[3]

NoChanges ==
  [namespaces |-> {}, tasks |-> {}, deleted_tasks |-> {}, groups |-> {}]

NextRevision == revision < MaxRevision /\ revision' = revision + 1

Init ==
  /\ term = 1 /\ revision = 0 /\ namespaces = {}
  /\ tasks = [t \in Tasks |-> AbsentTask]
  /\ task_revision = [t \in Tasks |-> 0]
  /\ groups = [g \in Groups |-> AbsentGroup]
  /\ consumers = [p \in Groups \X Members |-> AbsentConsumer]
  /\ group_revision = [g \in Groups |-> 0]
  /\ ready_tasks = [n \in Namespaces |-> {}]
  /\ lease_expirations = [n \in Namespaces |-> {}]
  /\ active_lease_tasks = [l \in LeaseIds |-> None]
  /\ member_lease_tasks = [p \in Groups \X Members |-> {}]
  /\ completed_tasks = {}
  /\ namespace_task_counts = [n \in Namespaces |-> 0]
  /\ namespace_group_counts = [n \in Namespaces |-> 0]
  /\ changes = NoChanges

-----------------------------------------------------------------------------
(* Registration and publication *)

EnsureNamespace(n) ==
  /\ n \notin namespaces
  /\ Cardinality(namespaces) < MaxNamespaces
  /\ NextRevision
  /\ namespaces' = namespaces \cup {n}
  /\ changes' = [NoChanges EXCEPT !.namespaces = {n}]
  /\ UNCHANGED <<term, tasks, task_revision, groups, consumers,
                 group_revision, indexes>>

PublishTask(n, t, o, now) ==
  /\ n \in namespaces
  /\ tasks[t].status = "absent"
  /\ namespace_task_counts[n] < MaxNamespaceTasks
  /\ NextRevision
  /\ tasks' = [tasks EXCEPT ![t] = QueuedTask(n, o, now)]
  /\ task_revision' = [task_revision EXCEPT ![t] = 1]
  /\ ready_tasks' = [ready_tasks EXCEPT ![n] = @ \cup {<<now, t>>}]
  /\ namespace_task_counts' = [namespace_task_counts EXCEPT ![n] = @ + 1]
  /\ changes' = [NoChanges EXCEPT !.tasks = {t}]
  /\ UNCHANGED <<term, namespaces, groups, consumers, group_revision,
                 lease_expirations, active_lease_tasks, member_lease_tasks,
                 completed_tasks, namespace_group_counts>>

EnsureConsumerGroup(n, g) ==
  /\ n \in namespaces
  /\ groups[g].namespace_id = None
  /\ namespace_group_counts[n] < MaxNamespaceGroups
  /\ NextRevision
  /\ groups' = [groups EXCEPT ![g].namespace_id = n]
  /\ group_revision' = [group_revision EXCEPT ![g] = 1]
  /\ namespace_group_counts' = [namespace_group_counts EXCEPT ![n] = @ + 1]
  /\ changes' = [NoChanges EXCEPT !.groups = {g}]
  /\ UNCHANGED <<term, namespaces, tasks, task_revision, consumers,
                 ready_tasks, lease_expirations, active_lease_tasks,
                 member_lease_tasks, completed_tasks, namespace_task_counts>>

-----------------------------------------------------------------------------
(* Returning the leased tasks R to the queue *)

RequeuedTasks(R) ==
  [t \in Tasks |-> IF t \in R THEN Requeued(tasks[t]) ELSE tasks[t]]

\* Mutant: a requeue does not advance the task's revision.
RequeuedRevisionsKept(R) == task_revision

RequeuedRevisions(R) ==
  [t \in Tasks |->
     IF t \in R THEN task_revision[t] + 1 ELSE task_revision[t]]

\* Mutant: the lease ids of requeued tasks stay active.
ReleasedLeasesKept(R) == active_lease_tasks

ReleasedLeases(R) ==
  [l \in LeaseIds |-> IF \E t \in R : tasks[t].lease_id = l
                        THEN None ELSE active_lease_tasks[l]]

-----------------------------------------------------------------------------
(* Consumer group membership *)

JoinConsumerGroup(g, m, c, now) ==
  /\ groups[g].namespace_id # None
  /\ \/ /\ m \in groups[g].members                   \* refresh
        /\ consumers[<<g, m>>].capabilities = c
        /\ now > consumers[<<g, m>>].heartbeat
        /\ consumers' = [consumers EXCEPT ![<<g, m>>] = Refreshed(@, now)]
        /\ UNCHANGED groups
     \/ /\ m \notin groups[g].members                \* a new member
        /\ Cardinality(groups[g].members) < MaxGroupMembers
        /\ groups[g].generation < MaxGeneration
        /\ groups' = [groups EXCEPT ![g] = WithMember(@, m)]
        /\ consumers' = [consumers EXCEPT
                           ![<<g, m>>] = [heartbeat |-> now, capabilities |-> c]]
  /\ NextRevision
  /\ group_revision' = [group_revision EXCEPT ![g] = @ + 1]
  /\ changes' = [NoChanges EXCEPT !.groups = {g}]
  /\ UNCHANGED <<term, namespaces, tasks, task_revision, indexes>>

RequireGroupMember(g, m, expected_generation) ==
  /\ groups[g].namespace_id # None
  /\ groups[g].generation = expected_generation
  /\ m \in groups[g].members

HeartbeatConsumerGroup(g, m, expected_generation, now) ==
  /\ RequireGroupMember(g, m, expected_generation)
  /\ now > consumers[<<g, m>>].heartbeat
  /\ NextRevision
  /\ consumers' = [consumers EXCEPT ![<<g, m>>] = Refreshed(@, now)]
  /\ group_revision' = [group_revision EXCEPT ![g] = @ + 1]
  /\ changes' = [NoChanges EXCEPT !.groups = {g}]
  /\ UNCHANGED <<term, namespaces, tasks, task_revision, groups, indexes>>

\* Mutant: only leases of the group's current generation are returned.
LeasedByCurrentGeneration(P) ==
  {t \in UNION {member_lease_tasks[p] : p \in P} :
     /\ tasks[t].status = "leased"
     /\ <<tasks[t].group, tasks[t].owner>> \in P
     /\ tasks[t].generation = groups[tasks[t].group].generation}

\* The tasks that removing the members P (pairs <<group, member>>) requeues.
LeasedBy(P) ==
  {t \in UNION {member_lease_tasks[p] : p \in P} :
     /\ tasks[t].status = "leased"
     /\ <<tasks[t].group, tasks[t].owner>> \in P}

\* Requeue every lease of the removed members P into its task's namespace.
RequeueMemberLeases(P) ==
  LET R == LeasedBy(P) IN
  /\ tasks' = RequeuedTasks(R)
  /\ task_revision' = RequeuedRevisions(R)
  /\ active_lease_tasks' = ReleasedLeases(R)
  /\ member_lease_tasks' = [p \in Groups \X Members |->
       IF p \in P THEN {} ELSE member_lease_tasks[p]]
  /\ ready_tasks' = [n \in Namespaces |-> ready_tasks[n] \cup
       {<<tasks[t].created_at, t>> :
          t \in {u \in R : tasks[u].namespace_id = n}}]

\* Remove the members P and requeue their leases, advancing each affected
\* group's generation once.
RemoveMembers(P) ==
  LET affected == {p[1] : p \in P} IN
  /\ \A g \in affected : groups[g].generation < MaxGeneration
  /\ NextRevision
  /\ groups' = [g \in Groups |->
       IF g \in affected
         THEN WithoutMembers(groups[g], {m \in Members : <<g, m>> \in P})
         ELSE groups[g]]
  /\ consumers' = [p \in Groups \X Members |->
       IF p \in P THEN AbsentConsumer ELSE consumers[p]]
  /\ group_revision' = [g \in Groups |->
       IF g \in affected THEN group_revision[g] + 1 ELSE group_revision[g]]
  /\ changes' = [NoChanges EXCEPT !.groups = affected, !.tasks = LeasedBy(P)]
  /\ RequeueMemberLeases(P)
  /\ UNCHANGED <<term, namespaces, lease_expirations, completed_tasks,
                 namespace_task_counts, namespace_group_counts>>

LeaveConsumerGroup(g, m, expected_generation) ==
  /\ RequireGroupMember(g, m, expected_generation)
  /\ RemoveMembers({<<g, m>>})

\* The members of g whose heartbeat is at or before the cutoff.
StaleMembers(g, cutoff) ==
  {m \in groups[g].members : consumers[<<g, m>>].heartbeat <= cutoff}

\* The globally stalest members, as the reaper selects them.
ReapCandidates(cutoff, max) ==
  LET stale == UNION {{<<consumers[<<g, m>>].heartbeat, g, m>> :
                         m \in StaleMembers(g, cutoff)} : g \in Groups}
  IN  {e \in stale : Cardinality({f \in stale : StalerThan(f, e)}) < max}

\* Mutant: a group takes its stale members in identifier order.
GroupReapByIdentifier(g, cutoff, k) ==
  LET stale == StaleMembers(g, cutoff)
  IN  {m \in stale : Cardinality({x \in stale : x < m}) < k}

\* ConsumerGroup::reap_stale_members: the k stalest members of one group.
GroupReap(g, cutoff, k) ==
  LET age(m) == <<consumers[<<g, m>>].heartbeat, m>>
      stale == StaleMembers(g, cutoff)
  IN  {m \in stale :
         Cardinality({x \in stale : Before(age(x), age(m))}) < k}

\* What each group removes when told how many of its members were selected.
Reaped(cutoff, max) ==
  LET selected == ReapCandidates(cutoff, max)
      count(g) == Cardinality({e \in selected : e[2] = g})
  IN  {p \in Groups \X Members : p[2] \in GroupReap(p[1], cutoff, count(p[1]))}

ReapStaleMembers(cutoff, max) ==
  /\ Reaped(cutoff, max) # {}
  /\ RemoveMembers(Reaped(cutoff, max))

-----------------------------------------------------------------------------
(* Leases *)

\* Expiration entries of namespace n that a claim at time now pops.
DueExpirations(n, now) == {e \in lease_expirations[n] : e[1] <= now}

\* Mutant: an entry recovers its task whatever lease it now carries.
RecoverableTasksAnyLease(n, now) ==
  {t \in Tasks : /\ tasks[t].status = "leased"
                 /\ \E e \in DueExpirations(n, now) : e[2] = t}

\* The tasks those entries still describe: recover_expired_leases requeues
\* them, whatever namespace they belong to.
RecoverableTasks(n, now) ==
  {t \in Tasks :
     /\ tasks[t].status = "leased"
     /\ <<tasks[t].expires_at, t, tasks[t].lease_epoch>>
          \in DueExpirations(n, now)}

\* Mutant: recovered tasks are not put back on the ready heap.
ReadyAfterRecoveryUnqueued(n, now) == ready_tasks[n]

\* The ready heap of n after recovery, and its entries for queued tasks.
ReadyAfterRecovery(n, now) ==
  ready_tasks[n] \cup
    {<<tasks[t].created_at, t>> : t \in RecoverableTasks(n, now)}

ClaimableEntries(n, now) ==
  {e \in ReadyAfterRecovery(n, now) :
     tasks[e[2]].status = "queued" \/ e[2] \in RecoverableTasks(n, now)}

\* Mutant: recovered tasks stay listed under their former holder.
ReleasedMemberLeasesKept(R) == member_lease_tasks

ReleasedMemberLeases(R) ==
  [p \in Groups \X Members |->
     {t \in member_lease_tasks[p] :
        ~(t \in R /\ <<tasks[t].group, tasks[t].owner>> = p)}]

\* The checks of claim_task before it mutates anything.  A lease id that is
\* active answers a retry of its holder, or conflicts; neither mutates.
ClaimAllowed(g, m, expected_term, expected_generation, l) ==
  /\ expected_term = term
  /\ RequireGroupMember(g, m, expected_generation)
  /\ active_lease_tasks[l] = None

\* Nothing to claim.  Recovered tasks are claimable, so none was recovered;
\* the stale heap entries are gone all the same.
ClaimNothing(g, m, expected_term, expected_generation, l, now) ==
  LET n == groups[g].namespace_id IN
  /\ ClaimAllowed(g, m, expected_term, expected_generation, l)
  /\ ClaimableEntries(n, now) = {}
  /\ ready_tasks' = [ready_tasks EXCEPT ![n] = {}]
  /\ lease_expirations' =
       [lease_expirations EXCEPT ![n] = @ \ DueExpirations(n, now)]
  /\ changes' = NoChanges
  /\ UNCHANGED <<state, active_lease_tasks, member_lease_tasks,
                 completed_tasks, namespace_task_counts,
                 namespace_group_counts>>

IsFirst(e, entries) == e \in entries /\ \A f \in entries : f = e \/ Before(e, f)

\* Recover the expired leases of the namespace and lease its oldest ready task.
ClaimTask(g, m, expected_term, expected_generation, l, now, d) ==
  LET n == groups[g].namespace_id
      R == RecoverableTasks(n, now)
  IN
  /\ ClaimAllowed(g, m, expected_term, expected_generation, l)
  /\ now + d <= MaxTimestamp
  /\ \E e \in ClaimableEntries(n, now) :
       LET t == e[2] IN
       /\ IsFirst(e, ClaimableEntries(n, now))
       /\ tasks[t].lease_epoch < MaxEpoch
       /\ tasks' = [RequeuedTasks(R) EXCEPT
            ![t] = LeasedTask(@, l, g, m, groups[g].generation, now + d)]
       /\ task_revision' = [RequeuedRevisions(R) EXCEPT ![t] = @ + 1]
       /\ active_lease_tasks' = [ReleasedLeases(R) EXCEPT ![l] = t]
       /\ member_lease_tasks' =
            [ReleasedMemberLeases(R) EXCEPT ![<<g, m>>] = @ \cup {t}]
       /\ ready_tasks' = [ready_tasks EXCEPT
            ![n] = {f \in ReadyAfterRecovery(n, now) : Before(e, f)}]
       /\ lease_expirations' = [lease_expirations EXCEPT
            ![n] = (@ \ DueExpirations(n, now)) \cup
                     {<<now + d, t, tasks[t].lease_epoch + 1>>}]
       /\ changes' = [NoChanges EXCEPT !.tasks = R \cup {t}]
  /\ NextRevision
  /\ UNCHANGED <<term, namespaces, groups, consumers, group_revision,
                 completed_tasks, namespace_task_counts,
                 namespace_group_counts>>

\* The deadline does not fit a timestamp: the command is rejected after
\* recovery and after the task was popped from the ready heap.
ClaimTaskOverflow(g, m, expected_term, expected_generation, l, now, d) ==
  LET n == groups[g].namespace_id
      R == RecoverableTasks(n, now)
  IN
  /\ ClaimAllowed(g, m, expected_term, expected_generation, l)
  /\ now + d > MaxTimestamp
  /\ \E e \in ClaimableEntries(n, now) :
       /\ IsFirst(e, ClaimableEntries(n, now))
       /\ ready_tasks' = [ready_tasks EXCEPT
            ![n] = {f \in ReadyAfterRecovery(n, now) : Before(e, f)}]
  /\ tasks' = RequeuedTasks(R)
  /\ task_revision' = RequeuedRevisions(R)
  /\ active_lease_tasks' = ReleasedLeases(R)
  /\ member_lease_tasks' = ReleasedMemberLeases(R)
  /\ lease_expirations' =
       [lease_expirations EXCEPT ![n] = @ \ DueExpirations(n, now)]
  /\ changes' = NoChanges
  /\ UNCHANGED <<term, revision, namespaces, groups, consumers,
                 group_revision, completed_tasks, namespace_task_counts,
                 namespace_group_counts>>

\* Mutant: the lease epoch is not compared.
ActiveLeaseAnyEpoch(t, g, m, expected_generation, expected_epoch, l, now) ==
  /\ tasks[t].status = "leased"
  /\ tasks[t].group = g
  /\ tasks[t].owner = m
  /\ tasks[t].generation = expected_generation
  /\ tasks[t].lease_id = l
  /\ tasks[t].expires_at > now

\* Mutant: the lease is identified, but not required to be running.
ActiveLeaseAnyStatus(t, g, m, expected_generation, expected_epoch, l, now) ==
  /\ tasks[t].group = g
  /\ tasks[t].owner = m
  /\ tasks[t].generation = expected_generation
  /\ tasks[t].lease_epoch = expected_epoch
  /\ tasks[t].lease_id = l

\* Task::require_active_lease: the fence of renewal and completion.
ActiveLease(t, g, m, expected_generation, expected_epoch, l, now) ==
  /\ tasks[t].status = "leased"
  /\ tasks[t].group = g
  /\ tasks[t].owner = m
  /\ tasks[t].generation = expected_generation
  /\ tasks[t].lease_epoch = expected_epoch
  /\ tasks[t].lease_id = l
  /\ tasks[t].expires_at > now

RenewTaskLease(t, g, m, expected_term, expected_generation, expected_epoch, l, now, d) ==
  /\ expected_term = term
  /\ RequireGroupMember(g, m, expected_generation)
  /\ now + d <= MaxTimestamp
  /\ ActiveLease(t, g, m, expected_generation, expected_epoch, l, now)
  /\ NextRevision
  /\ tasks' = [tasks EXCEPT ![t].expires_at = now + d]
  /\ task_revision' = [task_revision EXCEPT ![t] = @ + 1]
  /\ lease_expirations' = [lease_expirations EXCEPT
       ![tasks[t].namespace_id] =
         @ \cup {<<now + d, t, tasks[t].lease_epoch>>}]
  /\ changes' = [NoChanges EXCEPT !.tasks = {t}]
  /\ UNCHANGED <<term, namespaces, groups, consumers, group_revision,
                 ready_tasks, active_lease_tasks, member_lease_tasks,
                 completed_tasks, namespace_task_counts,
                 namespace_group_counts>>

CompleteTask(t, g, m, expected_term, expected_generation, expected_epoch, l, r, now) ==
  /\ expected_term = term
  /\ RequireGroupMember(g, m, expected_generation)
  /\ ActiveLease(t, g, m, expected_generation, expected_epoch, l, now)
  /\ NextRevision
  /\ tasks' = [tasks EXCEPT ![t] = CompletedTask(@, r, now)]
  /\ task_revision' = [task_revision EXCEPT ![t] = @ + 1]
  /\ active_lease_tasks' = [active_lease_tasks EXCEPT ![l] = None]
  /\ member_lease_tasks' = [member_lease_tasks EXCEPT ![<<g, m>>] = @ \ {t}]
  /\ completed_tasks' = completed_tasks \cup {<<now, t>>}
  /\ changes' = [NoChanges EXCEPT !.tasks = {t}]
  /\ UNCHANGED <<term, namespaces, groups, consumers, group_revision,
                 ready_tasks, lease_expirations, namespace_task_counts,
                 namespace_group_counts>>

-----------------------------------------------------------------------------
(* Retention, terms and restart *)

\* The first max live entries of the completion heap at or before the cutoff.
PruneSelection(cutoff, max) ==
  LET live == {e \in completed_tasks :
                 /\ e[1] <= cutoff
                 /\ tasks[e[2]].status = "completed"
                 /\ tasks[e[2]].completed_at = e[1]}
  IN  {e \in live : Cardinality({f \in live : Before(f, e)}) < max}

\* The tasks of namespace n among the pruned ones, and the counts left.
PrunedIn(n, pruned) == {t \in pruned : tasks[t].namespace_id = n}

\* Mutant: pruning does not give capacity back.
CountsAfterPruneKept(pruned) == namespace_task_counts

CountsAfterPrune(pruned) ==
  [n \in Namespaces |->
     namespace_task_counts[n] - Cardinality(PrunedIn(n, pruned))]

PruneCompletedTasks(cutoff, max) ==
  LET selected == PruneSelection(cutoff, max)
      pruned == {e[2] : e \in selected}
  IN
  /\ selected # {}
  /\ \A n \in Namespaces :
       Cardinality(PrunedIn(n, pruned)) <= namespace_task_counts[n]
  /\ NextRevision
  /\ tasks' = [t \in Tasks |-> IF t \in pruned THEN AbsentTask ELSE tasks[t]]
  /\ task_revision' =
       [t \in Tasks |-> IF t \in pruned THEN 0 ELSE task_revision[t]]
  /\ completed_tasks' =
       {e \in completed_tasks : \A f \in selected : Before(f, e)}
  /\ namespace_task_counts' = CountsAfterPrune(pruned)
  /\ changes' = [NoChanges EXCEPT !.deleted_tasks = pruned]
  /\ UNCHANGED <<term, namespaces, groups, consumers, group_revision,
                 ready_tasks, lease_expirations, active_lease_tasks,
                 member_lease_tasks, namespace_group_counts>>

AdvanceTerm(expected_term, new_term) ==
  /\ expected_term = term
  /\ new_term > term
  /\ NextRevision
  /\ term' = new_term
  /\ changes' = NoChanges
  /\ UNCHANGED <<namespaces, tasks, task_revision, groups, consumers,
                 group_revision, indexes>>

\* The indexes rebuild_indexes derives from the authoritative state.
TasksIn(n, status) ==
  {t \in Tasks : tasks[t].status = status /\ tasks[t].namespace_id = n}

RebuiltReady ==
  [n \in Namespaces |->
     {<<tasks[t].created_at, t>> : t \in TasksIn(n, "queued")}]

RebuiltExpirations ==
  [n \in Namespaces |->
     {<<tasks[t].expires_at, t, tasks[t].lease_epoch>> :
        t \in TasksIn(n, "leased")}]

\* The tasks leased under lease id l: at most one, or a restore fails.
HoldersOf(l) == {t \in Tasks : tasks[t].status = "leased"
                                 /\ tasks[t].lease_id = l}

RebuiltLeases ==
  [l \in LeaseIds |->
     IF HoldersOf(l) = {} THEN None ELSE CHOOSE t \in HoldersOf(l) : TRUE]

RebuiltMemberLeases ==
  [p \in Groups \X Members |->
     {t \in Tasks : tasks[t].status = "leased"
                      /\ <<tasks[t].group, tasks[t].owner>> = p}]

RebuiltCompleted ==
  {<<tasks[t].completed_at, t>> :
     t \in {u \in Tasks : tasks[u].status = "completed"}}

RebuiltTaskCounts ==
  [n \in Namespaces |->
     Cardinality({t \in Tasks : tasks[t].status # "absent"
                                  /\ tasks[t].namespace_id = n})]

RebuiltGroupCounts ==
  [n \in Namespaces |->
     Cardinality({g \in Groups : groups[g].namespace_id = n})]

\* What from_checkpoint demands of a checkpoint.
Restorable ==
  /\ \A t \in Tasks : tasks[t].status # "absent" =>
       task_revision[t] > 0 /\ tasks[t].namespace_id \in namespaces
  /\ \A g \in Groups : groups[g].namespace_id # None =>
       group_revision[g] > 0 /\ groups[g].namespace_id \in namespaces
  /\ \A l \in LeaseIds : \A t, u \in HoldersOf(l) : t = u

FromCheckpoint ==
  /\ Restorable
  /\ ready_tasks' = RebuiltReady
  /\ lease_expirations' = RebuiltExpirations
  /\ active_lease_tasks' = RebuiltLeases
  /\ member_lease_tasks' = RebuiltMemberLeases
  /\ completed_tasks' = RebuiltCompleted
  /\ namespace_task_counts' = RebuiltTaskCounts
  /\ namespace_group_counts' = RebuiltGroupCounts
  /\ changes' = NoChanges
  /\ UNCHANGED state

-----------------------------------------------------------------------------
(* A command whose fence differs from the current term, generation, epoch   *)
(* or lease is rejected, so Next need only offer the fences that pass;      *)
(* module WorkerFencing issues the others.                                  *)

Register ==
  \E n \in Namespaces :
    \/ EnsureNamespace(n)
    \/ \E g \in Groups : EnsureConsumerGroup(n, g)
    \/ \E t \in Tasks, o \in Objectives, now \in Clock :
         PublishTask(n, t, o, now)

Membership ==
  \E g \in Groups, m \in Members :
    \/ \E c \in Capabilities, now \in Clock : JoinConsumerGroup(g, m, c, now)
    \/ \E now \in Clock :
         HeartbeatConsumerGroup(g, m, groups[g].generation, now)
    \/ LeaveConsumerGroup(g, m, groups[g].generation)

Claim ==
  \E g \in Groups, m \in Members, l \in LeaseIds, now \in Clock :
    \/ ClaimNothing(g, m, term, groups[g].generation, l, now)
    \/ \E d \in Durations :
         \/ ClaimTask(g, m, term, groups[g].generation, l, now, d)
         \/ ClaimTaskOverflow(g, m, term, groups[g].generation, l, now, d)

UseLease ==
  \E t \in Tasks, now \in Clock :
    /\ tasks[t].status = "leased"
    /\ LET lease == tasks[t]
           generation == groups[lease.group].generation
       IN  \/ \E d \in Durations :
                RenewTaskLease(t, lease.group, lease.owner, term, generation,
                               lease.lease_epoch, lease.lease_id, now, d)
           \/ \E r \in Results :
                CompleteTask(t, lease.group, lease.owner, term, generation,
                             lease.lease_epoch, lease.lease_id, r, now)

Maintain ==
  \E cutoff \in Clock, max \in Batches :
    ReapStaleMembers(cutoff, max) \/ PruneCompletedTasks(cutoff, max)

Next ==
  \/ Register \/ Membership \/ Claim \/ UseLease \/ Maintain
  \/ \E new_term \in 1..MaxTerm : AdvanceTerm(term, new_term)
  \/ FromCheckpoint

Spec == Init /\ [][Next]_vars

-----------------------------------------------------------------------------
(* Properties *)

TaskRecords ==
  [status : {"absent", "queued", "leased", "completed"},
   namespace_id : Namespaces \cup {None}, objective : Objectives \cup {None},
   created_at : Nat, lease_epoch : Nat, lease_id : LeaseIds \cup {None},
   owner : Members \cup {None}, group : Groups \cup {None},
   generation : Nat, expires_at : Nat, result : Results \cup {None},
   completed_at : Nat]

GroupRecords ==
  [namespace_id : Namespaces \cup {None}, generation : Nat,
   members : SUBSET Members]

ConsumerRecords ==
  [heartbeat : Nat, capabilities : Capabilities \cup {None}]

ChangeSets ==
  [namespaces : SUBSET Namespaces, tasks : SUBSET Tasks,
   deleted_tasks : SUBSET Tasks, groups : SUBSET Groups]

\* The state the broker and its indexes range over.
TypeOK ==
  /\ term \in Nat /\ revision \in Nat /\ namespaces \subseteq Namespaces
  /\ tasks \in [Tasks -> TaskRecords]
  /\ task_revision \in [Tasks -> Nat]
  /\ groups \in [Groups -> GroupRecords]
  /\ consumers \in [Groups \X Members -> ConsumerRecords]
  /\ group_revision \in [Groups -> Nat]
  /\ ready_tasks \in [Namespaces -> SUBSET (Nat \X Tasks)]
  /\ lease_expirations \in [Namespaces -> SUBSET (Nat \X Tasks \X Nat)]
  /\ active_lease_tasks \in [LeaseIds -> Tasks \cup {None}]
  /\ member_lease_tasks \in [Groups \X Members -> SUBSET Tasks]
  /\ completed_tasks \subseteq Nat \X Tasks
  /\ namespace_task_counts \in [Namespaces -> Nat]
  /\ namespace_group_counts \in [Namespaces -> Nat]
  /\ changes \in ChangeSets

\* The lease map is exactly the inverse of the leases tasks carry, so a lease
\* id is held by at most one task and a claim retry finds its own task.
LeaseMapExact ==
  \A l \in LeaseIds, t \in Tasks :
    active_lease_tasks[l] = t <=>
      tasks[t].status = "leased" /\ tasks[t].lease_id = l

\* The member map lists exactly the tasks each member holds, so removing a
\* member requeues all of its work and nobody else's.
MemberMapExact ==
  \A p \in Groups \X Members :
    member_lease_tasks[p] =
      {t \in Tasks : tasks[t].status = "leased"
                       /\ <<tasks[t].group, tasks[t].owner>> = p}

\* No lease outlives its holder's membership, and no lease carries a
\* generation its group has not reached.
LeaseHeldByMember ==
  \A t \in Tasks : tasks[t].status = "leased" =>
    /\ tasks[t].group \in Groups
    /\ tasks[t].owner \in groups[tasks[t].group].members
    /\ tasks[t].generation <= groups[tasks[t].group].generation

\* No task is lost: a queued task waits in exactly one ready heap, a leased
\* one in none, and every lease has an entry that will expire it.
NoTaskLost ==
  \A t \in Tasks :
    LET waiting == {n \in Namespaces : <<tasks[t].created_at, t>>
                                         \in ready_tasks[n]}
        expiring == {n \in Namespaces :
                       <<tasks[t].expires_at, t, tasks[t].lease_epoch>>
                         \in lease_expirations[n]}
    IN  /\ tasks[t].status = "queued" => \E n \in Namespaces : waiting = {n}
        /\ tasks[t].status # "queued" => waiting = {}
        /\ tasks[t].status = "leased" => expiring # {}

\* The members each group removes are the ones selected, and preflighted,
\* across all groups.
ReapTakesSelection ==
  \A cutoff \in Clock, max \in Batches :
    Reaped(cutoff, max) =
      {<<e[2], e[3]>> : e \in ReapCandidates(cutoff, max)}

\* The committed state can be restored, and a broker rebuilt from it claims
\* and recovers exactly what the running one would: same ready entries, and
\* the same tasks recoverable at every time.  It also prunes the same tasks
\* and has the same room: the completion heap and the counters agree.
RestartTransparent ==
  /\ Restorable
  /\ ready_tasks = RebuiltReady
  /\ completed_tasks = RebuiltCompleted
  /\ namespace_task_counts = RebuiltTaskCounts
  /\ namespace_group_counts = RebuiltGroupCounts
  /\ \A n \in Namespaces, now \in Clock :
       RecoverableTasks(n, now) =
         {t \in TasksIn(n, "leased") : tasks[t].expires_at <= now}

\* A task is leased only by members of groups of its own namespace.
LeaseWithinNamespace ==
  \A t \in Tasks : tasks[t].status = "leased" =>
    groups[tasks[t].group].namespace_id = tasks[t].namespace_id

\* What a lease was granted as, and whether a step grants task t anew.
GrantOf(task) == <<task.lease_id, task.group, task.owner, task.generation>>

Granted(t) ==
  /\ tasks'[t].status = "leased"
  /\ tasks[t].status # "leased" \/ GrantOf(tasks'[t]) # GrantOf(tasks[t])

\* Whenever a task comes to be held under another grant, even by a recovery
\* and a claim inside one command, its epoch advances by one; a stored task's
\* epoch never moves otherwise.
HandoverAdvancesEpoch ==
  [][\A t \in Tasks :
       tasks'[t].status # "absent" /\ tasks[t].status # "absent" =>
         tasks'[t].lease_epoch =
           tasks[t].lease_epoch + (IF Granted(t) THEN 1 ELSE 0)]_vars

\* Replaying the journal record of a command, the entities its change set
\* names, onto the previous state yields the new state, with no local
\* revision going back; a command that records nothing changed nothing.
JournalReplaysStep ==
  [][/\ revision' \in {revision, revision + 1}
     /\ revision' = revision => state' = state
     /\ changes'.tasks \cap changes'.deleted_tasks = {}
     /\ namespaces' = namespaces \cup changes'.namespaces
     /\ \A t \in Tasks :
          IF t \in changes'.deleted_tasks THEN tasks'[t] = AbsentTask
          ELSE IF t \in changes'.tasks
            THEN task_revision'[t] > task_revision[t]
                   /\ tasks'[t].status # "absent"
            ELSE tasks'[t] = tasks[t] /\ task_revision'[t] = task_revision[t]
     /\ \A g \in Groups :
          IF g \in changes'.groups
            THEN group_revision'[g] > group_revision[g]
            ELSE /\ groups'[g] = groups[g]
                 /\ \A m \in Members : consumers'[<<g, m>>] = consumers[<<g, m>>]]_vars

\* A claim grants the oldest task waiting in the group's namespace, counting
\* the tasks it recovers on the way.
OldestFirst ==
  [][\A t, u \in Tasks :
       /\ tasks'[t].status = "leased"
       /\ tasks'[t].lease_epoch > tasks[t].lease_epoch
       /\ tasks'[u].status = "queued"
       /\ tasks'[u].namespace_id = tasks'[t].namespace_id
       => \/ tasks[t].created_at < tasks[u].created_at
          \/ tasks[t].created_at = tasks[u].created_at /\ t < u]_vars

=============================================================================
