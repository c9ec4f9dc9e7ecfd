--------------------------- MODULE BrokerExchange ---------------------------
(***************************************************************************)
(* One call from a client to the Broker and back: encoded, decoded by the  *)
(* connection handler, dispatched to the application service, turned into  *)
(* a domain command with the server's clock and limits, carried through    *)
(* the replicated log's codec, executed, answered and decoded again.       *)
(* Replies get lost, the client repeats the exact frame, the clock and the *)
(* capacity policy move between two deliveries, a client reuses an         *)
(* identity for another request, and either end may be another build whose *)
(* frames differ by one field.                                             *)
(***************************************************************************)
EXTENDS WireProtocol

CONSTANTS
    FrameLimits,      \* the configured max_frame_bytes of the server
    MaxDeliveries     \* deliveries of one call, the first included

ASSUME ExchangeAssumption ==
    /\ FrameLimits \subseteq {l \in Nat : l >= MinimumFrameBytes}
    /\ MaxDeliveries \in Nat \ {0}

VARIABLES
    call,         \* what the caller asks, and the deployment it asks
    frame,        \* the request frame on the wire
    stage,        \* how far the exchange is
    observed,     \* the server's clock and capacity policy
    stored,       \* the session's last identified command and its outcome
    executed,     \* the commands the state machine executed, with what was asked
    outcome,      \* what the state machine or the dispatcher decided last
    reply,        \* the response frame on the wire
    answer,       \* what the client call returned
    deliveries    \* deliveries so far

exchangeVars == <<call, frame, stage, observed, stored, executed, outcome, reply, answer, deliveries>>

---------------------------------------------------------------------------
(* From a request to a command                                             *)

\* The typed requests a caller can make, and what the maintenance loop or an
\* operator hands to the service.
RequestFields ==
    [health           |-> {},
     namespace_ensure |-> {"namespace_id"},
     task_publish     |-> {"namespace_id", "task_id", "objective"},
     group_ensure     |-> {"namespace_id", "group_id"},
     group_join       |-> {"group_id", "member_id", "capabilities"},
     group_heartbeat  |-> {"group_id", "member_id", "expected_generation"},
     group_leave      |-> {"group_id", "member_id", "expected_generation"},
     task_claim       |-> {"group_id", "member_id", "expected_term", "expected_generation", "lease_id",
                           "lease_duration"},
     task_renew       |-> {"task_id", "group_id", "member_id", "expected_term", "expected_generation",
                           "expected_lease_epoch", "lease_id", "lease_duration"},
     task_complete    |-> {"task_id", "group_id", "member_id", "expected_term", "expected_generation",
                           "expected_lease_epoch", "lease_id", "result"}]

MaintenanceInputs ==
    [reap_stale_members    |-> {"stale_before_ms", "max_members"},
     prune_completed_tasks |-> {"completed_before_ms", "max_tasks"},
     advance_term          |-> {"expected_term", "new_term"}]

\* dispatch: the parameters of every use case, each with the request's field
\* or the time at which the server observed the request.
DispatchInputs ==
    [namespace_ensure |-> Same({"namespace_id"}),
     task_publish     |-> ("created_at_ms" :> "observed_at_ms") @@ Same({"namespace_id", "task_id", "objective"}),
     group_ensure     |-> Same({"namespace_id", "group_id"}),
     group_join       |-> ("now_ms" :> "observed_at_ms") @@ Same({"group_id", "member_id", "capabilities"}),
     group_heartbeat  |-> ("now_ms" :> "observed_at_ms") @@ Same({"group_id", "member_id", "expected_generation"}),
     group_leave      |-> Same({"group_id", "member_id", "expected_generation"}),
     task_claim       |-> ("now_ms" :> "observed_at_ms")
                            @@ Same({"group_id", "member_id", "expected_term", "expected_generation", "lease_id",
                                     "lease_duration"}),
     task_renew       |-> ("now_ms" :> "observed_at_ms")
                            @@ Same({"task_id", "group_id", "member_id", "expected_term", "expected_generation",
                                     "expected_lease_epoch", "lease_id", "lease_duration"}),
     task_complete    |-> ("completed_at_ms" :> "observed_at_ms")
                            @@ Same({"task_id", "group_id", "member_id", "expected_term", "expected_generation",
                                     "expected_lease_epoch", "lease_id", "result"})]

\* dispatch_identified, the same for the use cases that take an identity.
IdentifiedInputs ==
    [namespace_ensure |-> Same({"namespace_id"}),
     task_publish     |-> ("created_at_ms" :> "observed_at_ms") @@ Same({"namespace_id", "task_id", "objective"}),
     group_ensure     |-> Same({"namespace_id", "group_id"}),
     group_join       |-> ("now_ms" :> "observed_at_ms") @@ Same({"group_id", "member_id", "capabilities"}),
     group_heartbeat  |-> ("now_ms" :> "observed_at_ms") @@ Same({"group_id", "member_id", "expected_generation"}),
     group_leave      |-> Same({"group_id", "member_id", "expected_generation"}),
     task_claim       |-> ("now_ms" :> "observed_at_ms")
                            @@ Same({"group_id", "member_id", "expected_term", "expected_generation", "lease_id",
                                     "lease_duration"}),
     task_renew       |-> ("now_ms" :> "observed_at_ms")
                            @@ Same({"task_id", "group_id", "member_id", "expected_term", "expected_generation",
                                     "expected_lease_epoch", "lease_id", "lease_duration"}),
     task_complete    |-> ("completed_at_ms" :> "observed_at_ms")
                            @@ Same({"task_id", "group_id", "member_id", "expected_term", "expected_generation",
                                     "expected_lease_epoch", "lease_id", "result"})]

\* BrokerCapacityPolicy, of which a use case takes the limit it needs.
Policy ==
    [limit \in {"max_namespaces", "max_tasks_per_namespace", "max_groups_per_namespace", "max_members_per_group"} |->
        <<limit, observed.capacity>>]

\* The use cases: the fields of the domain command, each with the parameter or
\* the limit that fills it.
UseCaseCommands ==
    [namespace_ensure |-> ("max_namespaces" :> "max_namespaces") @@ Same({"namespace_id"}),
     task_publish     |-> ("max_namespace_tasks" :> "max_tasks_per_namespace")
                            @@ Same({"namespace_id", "task_id", "objective", "created_at_ms"}),
     group_ensure     |-> ("max_namespace_groups" :> "max_groups_per_namespace") @@ Same({"namespace_id", "group_id"}),
     group_join       |-> ("max_group_members" :> "max_members_per_group")
                            @@ Same({"group_id", "member_id", "capabilities", "now_ms"}),
     group_heartbeat  |-> Same({"group_id", "member_id", "expected_generation", "now_ms"}),
     group_leave      |-> Same({"group_id", "member_id", "expected_generation"}),
     task_claim       |-> ("lease_duration_ms" :> "lease_duration")
                            @@ Same({"group_id", "member_id", "expected_term", "expected_generation", "lease_id",
                                     "now_ms"}),
     task_renew       |-> ("lease_duration_ms" :> "lease_duration")
                            @@ Same({"task_id", "group_id", "member_id", "expected_term", "expected_generation",
                                     "expected_lease_epoch", "lease_id", "now_ms"}),
     task_complete    |-> Same({"task_id", "group_id", "member_id", "expected_term", "expected_generation",
                                "expected_lease_epoch", "lease_id", "result", "completed_at_ms"}),
     reap_stale_members    |-> Same({"stale_before_ms", "max_members"}),
     prune_completed_tasks |-> Same({"completed_before_ms", "max_tasks"}),
     advance_term          |-> Same({"expected_term", "new_term"})]

\* Mutant: a namespace that takes as many groups as it may have tasks.
LimitsMixed ==
    [namespace_ensure |-> [max_namespaces |-> "max_namespaces"],
     task_publish     |-> [max_namespace_tasks |-> "max_tasks_per_namespace"],
     group_ensure     |-> [max_namespace_groups |-> "max_tasks_per_namespace"],
     group_join       |-> [max_group_members |-> "max_members_per_group"]]

\* The limits that the identified use cases take from the policy.
IdentifiedLimits ==
    [namespace_ensure |-> [max_namespaces |-> "max_namespaces"],
     task_publish     |-> [max_namespace_tasks |-> "max_tasks_per_namespace"],
     group_ensure     |-> [max_namespace_groups |-> "max_groups_per_namespace"],
     group_join       |-> [max_group_members |-> "max_members_per_group"]]

\* The identified use cases.
IdentifiedCommands ==
    [namespace_ensure |-> IdentifiedLimits.namespace_ensure @@ Same({"namespace_id"}),
     task_publish     |-> IdentifiedLimits.task_publish
                            @@ Same({"namespace_id", "task_id", "objective", "created_at_ms"}),
     group_ensure     |-> IdentifiedLimits.group_ensure @@ Same({"namespace_id", "group_id"}),
     group_join       |-> IdentifiedLimits.group_join @@ Same({"group_id", "member_id", "capabilities", "now_ms"}),
     group_heartbeat  |-> Same({"group_id", "member_id", "expected_generation", "now_ms"}),
     group_leave      |-> Same({"group_id", "member_id", "expected_generation"}),
     task_claim       |-> ("lease_duration_ms" :> "lease_duration")
                            @@ Same({"group_id", "member_id", "expected_term", "expected_generation", "lease_id",
                                     "now_ms"}),
     task_renew       |-> ("lease_duration_ms" :> "lease_duration")
                            @@ Same({"task_id", "group_id", "member_id", "expected_term", "expected_generation",
                                     "expected_lease_epoch", "lease_id", "now_ms"}),
     task_complete    |-> Same({"task_id", "group_id", "member_id", "expected_term", "expected_generation",
                                "expected_lease_epoch", "lease_id", "result", "completed_at_ms"})]

\* The domain command of a validated request: capabilities become a set, the
\* dispatcher supplies the observed time and the use case its limit.
CommandOf(request) ==
    LET given    == ("observed_at_ms" :> <<"observed_at_ms", observed.clock>>)
                        @@ [field \in DOMAIN request.fields |-> Normalized(request.fields[field])]
        inputs   == IF request.version = 1 THEN DispatchInputs ELSE IdentifiedInputs
        commands == IF request.version = 1 THEN UseCaseCommands ELSE IdentifiedCommands
    IN  [operation |-> request.operation,
         fields    |-> Through(commands[request.operation], Policy @@ Through(inputs[request.operation], given))]

---------------------------------------------------------------------------
(* The replicated log's codec                                              *)

\* ReplicatedBrokerCommandV1 from BrokerCommand: the fields of the entry.
EntryFields ==
    [namespace_ensure |-> Same({"namespace_id", "max_namespaces"}),
     task_publish     |-> Same({"namespace_id", "task_id", "objective", "created_at_ms", "max_namespace_tasks"}),
     group_ensure     |-> Same({"namespace_id", "group_id", "max_namespace_groups"}),
     group_join       |-> Same({"group_id", "member_id", "capabilities", "now_ms", "max_group_members"}),
     group_heartbeat  |-> Same({"group_id", "member_id", "expected_generation", "now_ms"}),
     group_leave      |-> Same({"group_id", "member_id", "expected_generation"}),
     reap_stale_members    |-> Same({"stale_before_ms", "max_members"}),
     task_claim       |-> Same({"group_id", "member_id", "expected_term", "expected_generation", "lease_id", "now_ms",
                                "lease_duration_ms"}),
     task_renew       |-> Same({"task_id", "group_id", "member_id", "expected_term", "expected_generation",
                                "expected_lease_epoch", "lease_id", "now_ms", "lease_duration_ms"}),
     task_complete    |-> Same({"task_id", "group_id", "member_id", "expected_term", "expected_generation",
                                "expected_lease_epoch", "lease_id", "result", "completed_at_ms"}),
     prune_completed_tasks |-> Same({"completed_before_ms", "max_tasks"}),
     advance_term          |-> Same({"expected_term", "new_term"})]

\* BrokerCommand from ReplicatedBrokerCommandV1: the fields of the command.
ReplayedFields ==
    [namespace_ensure |-> Same({"namespace_id", "max_namespaces"}),
     task_publish     |-> Same({"namespace_id", "task_id", "objective", "created_at_ms", "max_namespace_tasks"}),
     group_ensure     |-> Same({"namespace_id", "group_id", "max_namespace_groups"}),
     group_join       |-> Same({"group_id", "member_id", "capabilities", "now_ms", "max_group_members"}),
     group_heartbeat  |-> Same({"group_id", "member_id", "expected_generation", "now_ms"}),
     group_leave      |-> Same({"group_id", "member_id", "expected_generation"}),
     reap_stale_members    |-> Same({"stale_before_ms", "max_members"}),
     task_claim       |-> Same({"group_id", "member_id", "expected_term", "expected_generation", "lease_id", "now_ms",
                                "lease_duration_ms"}),
     task_renew       |-> Same({"task_id", "group_id", "member_id", "expected_term", "expected_generation",
                                "expected_lease_epoch", "lease_id", "now_ms", "lease_duration_ms"}),
     task_complete    |-> Same({"task_id", "group_id", "member_id", "expected_term", "expected_generation",
                                "expected_lease_epoch", "lease_id", "result", "completed_at_ms"}),
     prune_completed_tasks |-> Same({"completed_before_ms", "max_tasks"}),
     advance_term          |-> Same({"expected_term", "new_term"})]

EntryOf(command) == [command EXCEPT !.fields = Through(EntryFields[command.operation], @)]
Replayed(entry) == [entry EXCEPT !.fields = Through(ReplayedFields[entry.operation], @)]

\* The identity in an entry, and out of it.
IdentityEntry(head) ==
    Through([session_id |-> "session_id", owner_epoch |-> "owner_epoch", owner_instance_id |-> "owner_instance_id",
             sequence |-> "sequence"], head)

ReplayedIdentity(entry) ==
    Through([session_id |-> "session_id", owner_epoch |-> "owner_epoch", owner_instance_id |-> "owner_instance_id",
             sequence |-> "sequence"], entry)

\* The domain's constructors run again on every replica that decodes an entry,
\* except on the lease duration, counters and server-supplied numbers.  An
\* entry that does not decode would stop each of them.
Replayable(entry) ==
    \A field \in DOMAIN entry.fields \cap (Identifiers \cup {"objective", "result", "capabilities", "expected_term",
                                                             "new_term"}) :
        entry.fields[field][2] \in Accepts(field)

\* The caller-stable content of an identified request.
StableFields ==
    [namespace_ensure |-> {"namespace_id"},
     task_publish     |-> {"namespace_id", "task_id", "objective"},
     group_ensure     |-> {"namespace_id", "group_id"},
     group_join       |-> {"group_id", "member_id", "capabilities"},
     group_heartbeat  |-> {"group_id", "member_id", "expected_generation"},
     group_leave      |-> {"group_id", "member_id", "expected_generation"},
     task_claim       |-> {"group_id", "member_id", "expected_term", "expected_generation", "lease_id",
                           "lease_duration_ms"},
     task_renew       |-> {"task_id", "group_id", "member_id", "expected_term", "expected_generation",
                           "expected_lease_epoch", "lease_id", "lease_duration_ms"},
     task_complete    |-> {"task_id", "group_id", "member_id", "expected_term", "expected_generation",
                           "expected_lease_epoch", "lease_id", "result"}]

\* Mutant: a comparison that also compares the time and the limits.
SameEntry(left, right) == left = right

\* same_identified_request.
SameIdentifiedRequest(left, right) ==
    /\ left.operation = right.operation
    /\ \A field \in StableFields[left.operation] : left.fields[field] = right.fields[field]

---------------------------------------------------------------------------
(* Results, from the state machine to the response                         *)

\* The results of the state machine; no protocol generation can express the
\* last three.
MutationResults ==
    [Namespace        |-> {"term", "revision", "namespace_id", "namespace_revision"},
     TaskPublished    |-> {"term", "revision", "task_id", "task_revision", "status"},
     ConsumerGroup    |-> {"term", "revision", "group_id", "generation", "group_revision", "member_count"},
     Heartbeat        |-> {"term", "revision", "group_id", "member_id", "generation", "member_revision"},
     TaskClaimed      |-> {"term", "revision", "generation"} \cup LeaseFields,
     TaskLeaseRenewed |-> {"term", "revision", "generation"} \cup (LeaseFields \ {"objective"}),
     TaskCompleted    |-> {"term", "revision", "task_id", "task_revision", "status"},
     StaleMembersReaped   |-> {"term", "revision", "reaped_count", "affected_group_count"},
     CompletedTasksPruned |-> {"term", "revision", "pruned_count"},
     TermAdvanced         |-> {"term", "revision"}]

\* ReplicatedBrokerMutationResultV1 from BrokerMutationResult.
ResultEntry ==
    [Namespace        |-> Same({"term", "revision", "namespace_id", "namespace_revision"}),
     TaskPublished    |-> Same({"term", "revision", "task_id", "task_revision", "status"}),
     ConsumerGroup    |-> Same({"term", "revision", "group_id", "generation", "group_revision", "member_count"}),
     Heartbeat        |-> Same({"term", "revision", "group_id", "member_id", "generation", "member_revision"}),
     StaleMembersReaped   |-> Same({"term", "revision", "reaped_count", "affected_group_count"}),
     TaskClaimed      |-> Same({"term", "revision", "task_id", "objective", "task_revision", "lease_id", "lease_epoch",
                                "lease_expires_at_ms", "generation"}),
     TaskLeaseRenewed |-> Same({"term", "revision", "task_id", "task_revision", "lease_id", "lease_epoch",
                                "lease_expires_at_ms", "generation"}),
     TaskCompleted    |-> Same({"term", "revision", "task_id", "task_revision", "status"}),
     CompletedTasksPruned |-> Same({"term", "revision", "pruned_count"}),
     TermAdvanced         |-> Same({"term", "revision"})]

\* BrokerMutationResult from ReplicatedBrokerMutationResultV1.
ReplayedResult ==
    [Namespace        |-> Same({"term", "revision", "namespace_id", "namespace_revision"}),
     TaskPublished    |-> Same({"term", "revision", "task_id", "task_revision", "status"}),
     ConsumerGroup    |-> Same({"term", "revision", "group_id", "generation", "group_revision", "member_count"}),
     Heartbeat        |-> Same({"term", "revision", "group_id", "member_id", "generation", "member_revision"}),
     StaleMembersReaped   |-> Same({"term", "revision", "reaped_count", "affected_group_count"}),
     TaskClaimed      |-> Same({"term", "revision", "task_id", "objective", "task_revision", "lease_id", "lease_epoch",
                                "lease_expires_at_ms", "generation"}),
     TaskLeaseRenewed |-> Same({"term", "revision", "task_id", "task_revision", "lease_id", "lease_epoch",
                                "lease_expires_at_ms", "generation"}),
     TaskCompleted    |-> Same({"term", "revision", "task_id", "task_revision", "status"}),
     CompletedTasksPruned |-> Same({"term", "revision", "pruned_count"}),
     TermAdvanced         |-> Same({"term", "revision"})]

\* A cluster node carries the outcome of an entry as a replicated response,
\* which is validated again when it is read.
ThroughReplicatedResponse(result) ==
    LET entry    == Through(ResultEntry[result.variant], result.fields)
        legal(f) == \/ entry[f][2] \in Accepts(f)
                    \/ result.variant = "TaskClaimed" /\ f \in LeaseFields /\ entry[f][2] = Null
    IN  IF ~result.ok THEN result
        ELSE IF /\ \A field \in DOMAIN entry \cap (Identifiers \cup {"objective", "term"}) : legal(field)
                /\ result.variant = "TaskClaimed" => ClaimComplete(entry)
        THEN Success(result.variant, Through(ReplayedResult[result.variant], entry))
        ELSE Failure(Error("INTERNAL_ERROR", "UNKNOWN"))

\* SuccessPayload from DispatchResult.
SuccessFields ==
    [Health           |-> Same({"protocol_version", "term", "revision"}),
     Namespace        |-> Same({"term", "revision", "namespace_id", "namespace_revision"}),
     TaskPublished    |-> Same({"term", "revision", "task_id", "task_revision", "status"}),
     ConsumerGroup    |-> Same({"term", "revision", "group_id", "generation", "group_revision", "member_count"}),
     Heartbeat        |-> Same({"term", "revision", "group_id", "member_id", "generation", "member_revision"}),
     TaskClaimed      |-> Same({"term", "revision", "task_id", "objective", "task_revision", "lease_id", "lease_epoch",
                                "lease_expires_at_ms", "generation"}),
     TaskLeaseRenewed |-> Same({"term", "revision", "task_id", "task_revision", "lease_id", "lease_epoch",
                                "lease_expires_at_ms", "generation"}),
     TaskCompleted    |-> Same({"term", "revision", "task_id", "task_revision", "status"}),
     SessionOwnerAcquired |-> Same({"owner_epoch"})]

\* What the service returns.  Health reads and the acquisition of a session
\* are no mutation results, and a standalone server has no replicated log.
Delivered(result) ==
    IF result.variant \in DOMAIN MutationResults /\ call.adapter = "cluster" THEN ThroughReplicatedResponse(result)
    ELSE result

\* What the dispatcher gives to the response encoder.
Responded(result) ==
    LET delivered == Delivered(result)
    IN  IF delivered.ok THEN Success(delivered.variant, Through(SuccessFields[delivered.variant], delivered.fields))
        ELSE delivered

---------------------------------------------------------------------------
(* Consensus and the state machine, as seen from the service               *)

MaintenanceVariant ==
    [reap_stale_members |-> "StaleMembersReaped", prune_completed_tasks |-> "CompletedTasksPruned",
     advance_term |-> "TermAdvanced"]

\* The results the state machine may give: identifiers of the command come
\* back, counters are small or at the end of their range, and a claim finds a
\* task or does not.
Results(command) ==
    LET variant == IF command.operation \in Operations THEN VariantOf(command.operation)
                   ELSE MaintenanceVariant[command.operation]
        given(level, leased) ==
            [field \in MutationResults[variant] |->
                IF variant = "TaskClaimed" /\ field \in LeaseFields /\ ~leased THEN <<field, Null>>
                ELSE IF field \in DOMAIN command.fields THEN command.fields[field]
                ELSE <<field, level>>]
    IN  {Success(variant, given(level, leased)) :
            level \in {Ordinary, Largest}, leased \in (IF variant = "TaskClaimed" THEN BOOLEAN ELSE {TRUE})}

\* A refusal by the state machine is a committed outcome.
Refused == Failure(Error("NOT_FOUND", "COMMITTED"))

NoCommand == [operation |-> "none", fields |-> Absent]
NothingStored == [entry |-> NoCommand, outcome |-> Failure(NoError)]
Identified == call.version \in {2, 3}
Acquiring == call.operation = AcquireOwner

\* What is executed, recorded with the call and the server's observations.
Record(command, identity) ==
    executed' = Append(executed, [command |-> command, identity |-> identity, asked |-> call, observed |-> observed])

\* A command of its own: a cluster node replays it from the log entry, a
\* standalone server applies it as it is.
Execute(command) ==
    LET applied == IF call.adapter = "cluster" THEN Replayed(EntryOf(command)) ELSE command
    IN  Record(applied, Absent) /\ outcome' \in Results(applied) \cup {Refused}

\* The entry of an identified command is executed, and stored with its outcome.
ExecuteIdentified(entry, identity, result) ==
    /\ Record(Replayed(entry), ReplayedIdentity(identity))
    /\ stored' = [entry |-> entry, outcome |-> result]

\* apply_identified for a session whose owner and sequence match: the first
\* delivery executes and is stored, a repetition gets the stored outcome,
\* other content under the same sequence is refused before it executes.
ApplyIdentified(entry, identity) ==
    \/ /\ stored.entry = NoCommand
       /\ \E result \in Results(Replayed(entry)) \cup {Refused} :
            ExecuteIdentified(entry, identity, result) /\ outcome' = result
    \/ /\ stored.entry # NoCommand
       /\ outcome' = IF SameIdentifiedRequest(entry, stored.entry) THEN stored.outcome
                     ELSE Failure(Error("CONFLICT", "REJECTED"))
       /\ UNCHANGED <<stored, executed>>

\* The response deadline elapsed after submission: the command may have been
\* executed, and the caller is told that nobody knows.
DeadlineElapsed(entry, identity) ==
    /\ outcome' = Failure(Error("COMMIT_OUTCOME_UNKNOWN", "UNKNOWN"))
    /\ \/ UNCHANGED <<stored, executed>>
       \/ /\ stored.entry = NoCommand
          /\ \E result \in Results(Replayed(entry)) \cup {Refused} : ExecuteIdentified(entry, identity, result)

---------------------------------------------------------------------------
(* The client                                                              *)

\* The values a caller of the given weight supplies.  A protocol-v2 identity
\* has no owner.
HeadOf(version, weight) ==
    LET head == [request_id |-> <<"request_id", weight>>, session_id |-> <<"session_id", weight>>,
                 owner_epoch |-> <<"owner_epoch", Ordinary>>, owner_instance_id |-> <<"owner_instance_id", weight>>,
                 expected_owner_epoch |-> <<"expected_owner_epoch", weight>>, sequence |-> <<"sequence", Ordinary>>]
    IN  IF version = 2 THEN Unowned @@ head ELSE head

FieldsOf(operation, weight) ==
    [field \in RequestFields[operation] |->
        <<field, IF field = "capabilities" /\ weight = Ordinary THEN Reordered ELSE weight>>]

Call(version, operation, fields, weight, adapter, limit) ==
    [version |-> version, operation |-> operation, head |-> HeadOf(version, weight), fields |-> fields,
     adapter |-> adapter, limit |-> limit]

\* Every operation in every protocol generation that carries it, and the
\* commands of the maintenance loop, against both consensus adapters.
CallSet ==
    LET weights  == {Ordinary, Largest}
        adapters == {"standalone", "cluster"}
    IN  {Call(version, operation, FieldsOf(operation, weight), weight, adapter, limit) :
            version \in 1..3, operation \in Operations \ {"health"}, weight \in weights,
            adapter \in adapters, limit \in FrameLimits}
        \cup {Call(1, "health", Absent, weight, adapter, limit) :
                weight \in weights, adapter \in adapters, limit \in FrameLimits}
        \cup {Call(3, AcquireOwner, Absent, weight, adapter, limit) :
                weight \in weights, adapter \in adapters, limit \in FrameLimits}
        \cup {Call(0, operation, [field \in MaintenanceInputs[operation] |-> <<field, Ordinary>>],
                   Ordinary, adapter, DefaultMaxFrameBytes) :
                operation \in DOMAIN MaintenanceInputs, adapter \in adapters}

NoFrame == [version |-> 0, operation |-> "none", head |-> Absent, payload |-> Absent]
NoReply == [version |-> 0, request_id |-> <<"request_id", Null>>, ok |-> FALSE, result |-> Absent, error |-> Absent]
TransportError == Failure(Error("TRANSPORT", "UNKNOWN"))

ExchangeInit ==
    /\ call \in CallSet
    /\ frame = NoFrame
    /\ stage = "ready"
    /\ observed = [clock |-> 0, capacity |-> 0]
    /\ stored = NothingStored
    /\ executed = << >>
    /\ outcome = Failure(NoError)
    /\ reply = NoReply
    /\ answer = Failure(NoError)
    /\ deliveries = 0

\* The encoder a client call uses.
EncodedBy(caller) ==
    CASE caller.version = 1 -> EncodeRequest(caller, DefaultMaxFrameBytes)
      [] caller.version = 2 -> EncodeIdentifiedRequest(caller, DefaultMaxFrameBytes)
      [] caller.version = 3 /\ caller.operation = AcquireOwner -> EncodeOwnerAcquisition(caller, DefaultMaxFrameBytes)
      [] OTHER -> EncodeOwnerMutation(caller, DefaultMaxFrameBytes)

\* The client encodes under its own bound and writes, or fails without writing.
EncodeCall ==
    /\ stage = "ready"
    /\ call.version # 0
    /\ LET encoded == EncodedBy(call)
       IN  IF encoded.fits
           THEN frame' = encoded.frame /\ stage' = "sent" /\ deliveries' = 1 /\ UNCHANGED answer
           ELSE answer' = ProtocolError /\ stage' = "done" /\ UNCHANGED <<frame, deliveries>>
    /\ UNCHANGED <<call, observed, stored, executed, outcome, reply>>

\* An object with one member dropped, added, or given a value outside its
\* contract.  A zero task_revision is left out: in a claim it is legal.
OneFieldOff(object) ==
    {[key \in DOMAIN object \ {dropped} |-> object[key]] : dropped \in DOMAIN object}
        \cup {[key \in DOMAIN object \cup {"unknown"} |->
                  IF key = "unknown" THEN <<key, level>> ELSE object[key]] : level \in {Ordinary, Beyond}}
        \cup UNION {{[object EXCEPT ![key] = <<key, level>>] : level \in {Null, Zero, Beyond} \ Accepts(key)} :
                        key \in DOMAIN object \ {"task_revision"}}

\* The frame is that of a client of another build.
OtherClient ==
    /\ stage = "sent"
    /\ deliveries = 1
    /\ call.limit = DefaultMaxFrameBytes
    /\ frame = EncodedBy(call).frame
    /\ frame' \in {[frame EXCEPT !.payload = payload] : payload \in OneFieldOff(frame.payload)}
                    \cup {[frame EXCEPT !.head = head] : head \in OneFieldOff(frame.head)}
                    \cup {[frame EXCEPT !.head = (key :> <<key, Ordinary>>) @@ frame.head] :
                            key \in {"owner_epoch", "expected_owner_epoch", "command_sequence"}
                                        \ DOMAIN frame.head}
                    \cup {[frame EXCEPT !.version = 4], [frame EXCEPT !.operation = "unknown"]}
    /\ UNCHANGED <<call, stage, observed, stored, executed, outcome, reply, answer, deliveries>>

\* The decoder of the same client call.
DecodedReply ==
    LET request_id == call.head["request_id"]
    IN  CASE call.version = 1 ->
                DecodeResponseForOperation(reply, request_id, call.operation, DefaultMaxFrameBytes)
          [] call.version = 2 -> DecodeResponseV2(reply, request_id, call.operation, DefaultMaxFrameBytes)
          [] call.version = 3 /\ Acquiring ->
                DecodeOwnerAcquisitionResponse(reply, request_id, DefaultMaxFrameBytes)
          [] OTHER -> DecodeOwnerMutationResponse(reply, request_id, call.operation, DefaultMaxFrameBytes)

\* The client reads the response and decodes it for the operation it sent.
TakeAnswer ==
    /\ stage = "replied"
    /\ answer' = DecodedReply
    /\ stage' = "done"
    /\ reply' = NoReply
    /\ UNCHANGED <<call, frame, observed, stored, executed, outcome, deliveries>>

\* The connection breaks, or the call times out, before the whole response.
LoseConnection ==
    /\ stage \in {"sent", "replied", "closed"}
    /\ answer' = TransportError
    /\ stage' = "lost"
    /\ reply' = NoReply
    /\ UNCHANGED <<call, frame, observed, stored, executed, outcome, deliveries>>

\* The exact frame again, after a transport failure or an UNKNOWN error.  The
\* server observes it later, perhaps under another capacity policy.
RetryExact ==
    /\ \/ stage = "lost"
       \/ stage = "done" /\ ~answer.ok /\ answer.error.disposition = "UNKNOWN" /\ answer # ProtocolError
    /\ Identified
    /\ deliveries < MaxDeliveries
    /\ frame # NoFrame
    /\ stage' = "sent"
    /\ deliveries' = deliveries + 1
    /\ \E capacity \in {0, 1} : observed' = [clock |-> observed.clock + 1, capacity |-> capacity]
    /\ outcome' = Failure(NoError) /\ answer' = Failure(NoError)
    /\ UNCHANGED <<call, frame, stored, executed, reply>>

\* A caller that does not advance its sequence after a success and sends
\* another request under the same identity: one value differs.
ReuseIdentity ==
    /\ stage = "done"
    /\ answer.ok
    /\ Identified /\ ~Acquiring
    /\ deliveries \in 1 .. MaxDeliveries - 1
    /\ \E field \in DOMAIN call.fields : \E level \in Accepts(field) :
         /\ call.fields[field] # <<field, level>>
         /\ call' = [call EXCEPT !.fields[field] = <<field, level>>]
    /\ EncodedBy(call').fits
    /\ frame' = EncodedBy(call').frame
    /\ stage' = "sent"
    /\ deliveries' = deliveries + 1
    /\ observed' = [observed EXCEPT !.clock = @ + 1]
    /\ outcome' = Failure(NoError) /\ answer' = Failure(NoError)
    /\ UNCHANGED <<stored, executed, reply>>

---------------------------------------------------------------------------
(* The server                                                              *)

FallbackId == <<"fallback_id", Ordinary>>
Decoded == DecodeWireRequest(frame, call.limit)
EchoesLongKey == \E object \in {frame.head, frame.payload} :
                    "unknown" \in DOMAIN object /\ object["unknown"][2] = Beyond

\* The response is encoded in the protocol of the request.
EncodedFor(version, request_id, result) ==
    CASE version = 2 -> EncodeResponseV2(request_id, result, call.limit)
      [] version = 3 -> EncodeResponseV3(request_id, result, call.limit)
      [] OTHER -> EncodeResponse(request_id, result, call.limit)

\* handle_connection on a frame past the bound: an error under the fallback
\* id, in protocol-v1 whatever the client speaks.
RefuseOversized ==
    /\ stage = "sent"
    /\ RequestBytes(frame) > call.limit
    /\ reply' = EncodedFor(1, FallbackId, Failure(Error("INVALID_REQUEST", "UNKNOWN"))).reply
    /\ stage' = "replied"
    /\ UNCHANGED <<call, frame, observed, stored, executed, outcome, answer, deliveries>>

\* handle_connection on a frame that does not decode: an error under the
\* fallback id, in the protocol the version probe saw.  The message names the
\* unknown key; when that makes it too long the connection just closes.
RefuseUndecodable ==
    /\ stage = "sent"
    /\ RequestBytes(frame) <= call.limit
    /\ ~Decoded.ok
    /\ LET message == IF EchoesLongKey THEN Beyond ELSE Ordinary
           error   == [code |-> "INVALID_REQUEST", message |-> message, disposition |-> "UNKNOWN"]
           encoded == EncodedFor(frame.version, FallbackId, Failure(error))
       IN  IF encoded.fits THEN reply' = encoded.reply /\ stage' = "replied"
           ELSE stage' = "closed" /\ UNCHANGED reply
    /\ UNCHANGED <<call, frame, observed, stored, executed, outcome, answer, deliveries>>

\* A request that decoded reaches the dispatcher.
Dispatching == stage = "sent" /\ Decoded.ok

DispatchDone == /\ stage' = "decided"
                /\ UNCHANGED <<call, frame, observed, reply, answer, deliveries>>

\* The state owner's queue is full, or the clock or the state owner fails:
\* answered before anything happened.
RefuseSaturated ==
    /\ Dispatching
    /\ outcome' \in {Failure(Error("CAPACITY_EXCEEDED", "REJECTED")), Failure(Error("INTERNAL_ERROR", "UNKNOWN"))}
    /\ UNCHANGED <<stored, executed>>
    /\ DispatchDone

\* A health read reports term and revision without a proposal.
DispatchHealth ==
    /\ Dispatching
    /\ Decoded.operation = "health"
    /\ \E level \in {Ordinary, Largest} :
         outcome' = Success("Health", [protocol_version |-> <<"protocol_version", Ordinary>>,
                                       term |-> <<"term", level>>, revision |-> <<"revision", level>>])
    /\ UNCHANGED <<stored, executed>>
    /\ DispatchDone

\* A legacy mutation, which either adapter executes.
DispatchMutation ==
    /\ Dispatching
    /\ Decoded.version = 1
    /\ Decoded.operation # "health"
    /\ Execute(CommandOf(Decoded))
    /\ UNCHANGED stored
    /\ DispatchDone

\* An identified mutation on a cluster node that leads.
DispatchIdentified ==
    /\ Dispatching
    /\ Decoded.version \in {2, 3} /\ ~Acquiring
    /\ call.adapter = "cluster"
    /\ LET entry    == EntryOf(CommandOf(Decoded))
           identity == IdentityEntry(Decoded.head)
       IN  ApplyIdentified(entry, identity) \/ DeadlineElapsed(entry, identity)
    /\ DispatchDone

\* acquire_command_session_owner on a session nobody owns, or that the same
\* instance already acquired: epoch one; any other expectation is stale.
DispatchAcquisition ==
    /\ Dispatching
    /\ Acquiring
    /\ call.adapter = "cluster"
    /\ outcome' = IF Decoded.head["expected_owner_epoch"][2] = Ordinary
                  THEN Success("SessionOwnerAcquired", [owner_epoch |-> <<"owner_epoch", Ordinary>>])
                  ELSE Failure(Error("STALE_FENCE", "REJECTED"))
    /\ UNCHANGED <<stored, executed>>
    /\ DispatchDone

\* The standalone adapter supports neither identities nor owners, and a
\* cluster node that does not lead submits nothing.
RefuseUnsupported ==
    /\ Dispatching
    /\ Decoded.operation # "health"
    /\ \/ call.adapter = "standalone" /\ Decoded.version # 1
          /\ outcome' = Failure(Error("INVALID_REQUEST", "UNKNOWN"))
       \/ call.adapter = "cluster"
          /\ outcome' = Failure(Error("TRANSPORT_ERROR", "UNKNOWN"))
    /\ UNCHANGED <<stored, executed>>
    /\ DispatchDone

\* A command of the maintenance loop goes to the service without a frame.
\* A cluster node leaves the term to Raft.
Maintain ==
    /\ stage = "ready"
    /\ call.version = 0
    /\ IF call.operation = "advance_term" /\ call.adapter = "cluster"
       THEN outcome' = Failure(Error("INVALID_REQUEST", "UNKNOWN")) /\ UNCHANGED executed
       ELSE Execute([operation |-> call.operation, fields |-> Through(UseCaseCommands[call.operation], call.fields)])
    /\ answer' = Delivered(outcome')
    /\ stage' = "done"
    /\ UNCHANGED <<call, frame, observed, stored, reply, deliveries>>

\* The response in the protocol of the request; one that does not encode ends
\* the connection although the command may have been executed.
Reply ==
    /\ stage = "decided"
    /\ LET encoded == EncodedFor(Decoded.version, Decoded.head["request_id"], Responded(outcome))
       IN  IF encoded.fits THEN reply' = encoded.reply /\ stage' = "replied"
           ELSE stage' = "closed" /\ UNCHANGED reply
    /\ UNCHANGED <<call, frame, observed, stored, executed, outcome, answer, deliveries>>

\* The response is that of a server of another build.
OtherServer ==
    /\ stage = "replied"
    /\ deliveries = 1
    /\ call.limit = DefaultMaxFrameBytes
    /\ Decoded.ok
    /\ reply = EncodedFor(Decoded.version, Decoded.head["request_id"], Responded(outcome)).reply
    /\ reply' \in {[reply EXCEPT !.result = result] : result \in OneFieldOff(reply.result)}
                    \cup {[reply EXCEPT !.error = error] : error \in OneFieldOff(reply.error)}
                    \cup {[reply EXCEPT !.version = 4], [reply EXCEPT !.request_id = FallbackId]}
    /\ UNCHANGED <<call, frame, stage, observed, stored, executed, outcome, answer, deliveries>>

ExchangeNext ==
    \/ EncodeCall \/ OtherClient \/ TakeAnswer \/ LoseConnection \/ RetryExact \/ ReuseIdentity
    \/ RefuseOversized \/ RefuseUndecodable \/ RefuseSaturated \/ DispatchHealth \/ DispatchMutation
    \/ DispatchIdentified \/ DispatchAcquisition \/ RefuseUnsupported \/ Maintain \/ Reply \/ OtherServer

ExchangeSpec == ExchangeInit /\ [][ExchangeNext]_exchangeVars

---------------------------------------------------------------------------
(* Properties                                                              *)

\* What a field of a domain command means: the field of that name which the
\* caller supplied; capabilities as a set; the time at which the server
\* observed the request; or the policy's limit on what the command creates.
Meaning(field, record) ==
    CASE field = "capabilities" -> Normalized(record.asked.fields[field])
      [] field = "lease_duration_ms" -> record.asked.fields["lease_duration"]
      [] field \in {"created_at_ms", "now_ms", "completed_at_ms"} -> <<"observed_at_ms", record.observed.clock>>
      [] field = "max_namespaces" -> <<"max_namespaces", record.observed.capacity>>
      [] field = "max_namespace_tasks" -> <<"max_tasks_per_namespace", record.observed.capacity>>
      [] field = "max_namespace_groups" -> <<"max_groups_per_namespace", record.observed.capacity>>
      [] field = "max_group_members" -> <<"max_members_per_group", record.observed.capacity>>
      [] OTHER -> record.asked.fields[field]

\* What the state machine executes is what the caller asked for.  Through the
\* hand-written field lists of the encoder, the payload structures, the
\* decoder, dispatch, the use case and the replicated codec, in any protocol
\* generation and on the first delivery as on a later one, every field of the
\* command gets the value it means, nothing the caller supplied is dropped,
\* the proposal carries the caller's identity, and no entry is proposed that a
\* replica cannot decode.
ExecutedAsAsked ==
    \A i \in DOMAIN executed :
        LET record == executed[i]
            fields == record.command.fields
        IN  /\ record.command.operation = record.asked.operation
            /\ \A field \in DOMAIN fields : fields[field] = Meaning(field, record)
            /\ \A supplied \in DOMAIN record.asked.fields :
                    \E field \in DOMAIN fields : fields[field] = Normalized(record.asked.fields[supplied])
            /\ Identified => \A part \in {"session_id", "owner_epoch", "owner_instance_id", "sequence"} :
                    record.identity[part] = record.asked.head[part]
            /\ call.adapter = "cluster" => Replayable(EntryOf(record.command))

\* A success the client returns is what the state machine decided, field by
\* field, through the field lists of the replicated response, the success
\* payload, the response encoder and the response decoder.  A Broker error is
\* the Broker's: with its disposition in protocol-v3, and as UNKNOWN in the
\* generations whose frames have no place for it.
AnswerIsOutcome ==
    stage = "done" /\ (call.version = 0 \/ (deliveries > 0 /\ Decoded.ok)) =>
        /\ answer.ok => outcome.ok /\ answer.variant = outcome.variant /\ answer.fields = outcome.fields
        /\ ~answer.ok /\ answer # ProtocolError =>
                /\ ~outcome.ok
                /\ answer.error.code = outcome.error.code
                /\ answer.error.disposition =
                        (IF call.version \in {0, 3} THEN outcome.error.disposition ELSE "UNKNOWN")

\* An exact repetition is recognised although the clock and the capacity
\* policy moved, and other content under the same identity never is: of an
\* identity whose command was executed, CONFLICT is the answer exactly when
\* the caller now asks for something else than what was executed.
RepetitionRecognised ==
    stage = "decided" /\ Identified /\ ~Acquiring /\ call.adapter = "cluster" /\ deliveries > 1 /\ executed # << >> =>
        LET first == executed[1].asked
            same  == /\ call.operation = first.operation
                     /\ \A field \in DOMAIN call.fields :
                            Normalized(call.fields[field]) = Normalized(first.fields[field])
        IN  /\ outcome.error.code = "CONFLICT" => ~same
            /\ outcome.ok => same

=============================================================================
