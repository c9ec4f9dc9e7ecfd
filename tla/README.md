# A verification development of the agent broker

The broker hands tasks to workers. A task is published to a namespace, waits in
a queue, is leased to a member of a consumer group for a limited time, and is
completed under that lease. Every command goes through one deterministic state
machine; its effects are made durable by a journal (standalone broker) or by
Raft (cluster) before a client is answered, and clients may send commands under
a session that executes each of them once whatever is retried. This directory
holds TLA+ models of those parts, TLC configurations that check them on small
instances, and TLAPS proofs of what matters most for all instances.

Run a model with `tlc -config MCBrokerLeases.cfg MCBroker`, check proofs with
`tlapm BrokerProofs.tla`.

## Inventory

| Component | Source (under `src/crates/`) | State | Operations that change it | Module |
|---|---|---|---|---|
| Broker state machine | `agent-broker-domain`: `state_machine.rs`, `task.rs`, `group.rs`, `fencing.rs`, `checkpoint.rs` | term, revision, namespaces, tasks, groups; ready, expiration and completion heaps, lease and member maps, counters; the change set | the eleven commands of `apply`, `from_checkpoint` | `BrokerStateMachine` |
| Workers | callers of the above | claim replies they hold | claim, retry a claim, renew, complete | `WorkerFencing` |
| Command sessions | `agent-broker-consensus`: `raft_state_machine.rs` | owner epoch, owner instance, last outcome | `apply_identified`, `acquire_command_session_owner` | `CommandSessions` |
| Durable client sessions | `agent-broker-client`: `session_store.rs`, `client.rs`, `async_client.rs` | owner, pending acquisition, next sequence, in-flight command, in memory and on disk | acquire, reserve, attempt, acknowledge, release, restart | `CommandSessions` |
| Journal repository | `agent-broker-storage`: `repository.rs`, `journal_v1.rs`, `filesystem_durability.rs` | snapshot and journal files, deferred compaction, counters | `load`, `commit`, `compact`, one file call at a time | `JournalRepository`, `DurableLog` |
| Standalone adapter | `agent-broker-consensus/src/standalone.rs` | machine, poisoned flag | `propose` | `JournalRepository` |
| Server process | `agent-broker-runtime`: `state_owner.rs`, `tcp_server.rs`, `operations.rs`, `standalone_maintenance.rs`, `bin/agentbrokerd.rs` | bounded job queue and its counter, connections and their counter, the stop flag, one program counter per thread | accept, read, submit, take, answer, close, tick, panic, stop, join | `BrokerServer` |
| Cluster Raft adapter | `agent-broker-consensus`: `cluster_raft.rs`, `raft_observation.rs` | request in the controller, broker term against Raft term, fail-stop flag; log and leadership of the engine | propose, term synchronisation, directory read, readiness, open | `ClusterRaft` |
| Raft storage and snapshots | `agent-broker-consensus`: `raft_log_storage.rs`, `raft_persistence.rs`, `raft_state_machine.rs` | log, vote, committed and purge positions, snapshot pair; the machine, a snapshot being built | append, vote, truncate, purge, apply, build, install, open | `RaftStorage` |
| Peer transport | `agent-broker-consensus/src/cluster_transport.rs` | connection queue, load counters, receiver mutex, stop flag, one program counter per thread | start, accept, refuse, take, run a call, answer, stop, join | `RaftRpc` |
| Wire protocol | `agent-broker-protocol`: `wire_v1.rs`, `wire_v2.rs`, `wire_v3.rs`, `request.rs`, `response.rs` | none | encode and decode on both sides, schemas, frame bounds | `WireProtocol` |
| Dispatch, service, replicated codec | `dispatch.rs`; `agent-broker-application/src/service.rs`; `agent-broker-consensus`: `replicated_command.rs`, `replicated_response.rs`; `tcp_server.rs` | the session's last command | request to command, command to log entry, outcome to response | `BrokerExchange` |
| Router | `agent-broker-client`: `router.rs`, `async_router.rs` | the routing call | probe, choose, send, try again | `ClusterRouter` |
| One-node adapter, snapshot codec, quorum policy, TLS configuration, process lock, tooling, Python SDK | `one_node_raft.rs`, `snapshot_v1.rs`, `quorum.rs`, `cluster_tls.rs`, `state_process_lock.rs`, `xtask`, `sdks/python` | see "What is not modelled" | | |

### How the parts interact

A request arrives on a connection of the TCP server, which decodes it and puts
a job into the bounded queue of the state owner. The owner is a single thread:
it dispatches one job at a time to the service, which proposes a command to
the consensus adapter. The standalone adapter applies the command to its state
machine and then commits the change set to the journal; when that fails it
refuses every later command and directory read. The cluster adapter first
brings the broker's term up to the Raft term and then writes the command to the Raft log; every node applies what is
committed to its own state machine, together with the command sessions. The
answer returns the same way. The maintenance timer is one more producer of
jobs: it reaps members and prunes completed tasks. Operations connections read
the group directory through the same queue and, in a cluster, counters without it.

`WorkerFencing` composes the state machine with the workers that use its
answers; `CommandSessions` composes the durable client, the network, the queue
and the replicated session table; `JournalRepository` composes the adapter, the
repository and the disk; `BrokerServer` composes the threads of one process;
`ClusterRaft` composes the controllers of all nodes with the Raft engine;
`RaftStorage` composes the log storage, the state machine with its sessions and
the embedded database under one engine; `BrokerExchange` composes a client, the
wire protocol, dispatch, the service, the replicated codec and the session
record; `ClusterRouter` composes the router, the network and the nodes it asks;
`RaftRpc` composes the threads of a node's peer server with their callers.

### What is hard here

- Expired leases are recovered lazily, by the next claim in the namespace, from
  heaps whose entries are never removed when a lease changes. An entry must be
  told apart from a lease that was renewed, completed or granted again.
- Removing a member returns its work; a lease belongs to a group, a member, a
  generation and an epoch, each of which may have moved on when it is used.
- Indexes are rebuilt on restart and on replicas; they must agree with those
  that a running machine keeps incrementally.
- A commit is several file operations, and a compaction several more; a process
  may be killed, or power lost, between any two.
- An answer may be lost, a request duplicated or delayed past a takeover of its
  session, and the client itself may end between an answer and the record of it.
- Counters of the server are changed on either side of the operation they count.
- A leader may be deposed between any two steps of a request it is handling.
- A snapshot is captured, written, and relied on by a purge in three separate
  steps, and one received from a peer is installed beside them.
- A request passes several independent conversions before it is executed, and its
  outcome several more; a retry passes them later and under other limits.
- A router acts on what nodes said of themselves a moment ago, and repeats a
  frame whose first copy may still arrive.

## Modules

`PROJECT.json` maps every definition to the lines it translates. Operators
whose comment begins with "Mutant:" are not part of a model: each is a plausible
bug for the definition that follows it, used to confirm that a property can fail.
Each module states its type invariant next to its properties; those of
`BrokerStateMachine` and `ClusterRaft` are theorems of their own, and the others
document the state (`INVARIANT TypeOK` in a configuration checks them).

### `BrokerStateMachine`

The variables are the fields of `BrokerState`: `term`, `revision`,
`namespaces`, `tasks`, `groups`; the members' heartbeats and capabilities are
kept apart as `consumers`, and local revisions as `task_revision` and
`group_revision`. The derived indexes are `ready_tasks`, `lease_expirations`,
`completed_tasks`, `active_lease_tasks`, `member_lease_tasks` and two counters.
`changes` is the change set of the last command.

Each command of `apply` is one action with every helper its handler calls:
`ClaimTask` recovers the expired leases of the namespace, drops stale heap
entries, leases the oldest task and indexes it. A command that the code rejects
before it changes anything leaves the state as it is, so it is a stuttering step
and its conditions are guards. `ClaimTaskOverflow` is the one rejection that
follows mutations. `FromCheckpoint` is a restart: the indexes are rebuilt.

A heap is a set of entries, since only its least entries are ever taken.
Timestamps come from `Clock` in any order, because the state machine takes
them from its commands; `MaxTimestamp` is the largest `TimestampMs`. Texts and
payloads are model values.

### `WorkerFencing`

The state machine with its workers. `held` is every claim reply sent; a worker
may renew or complete with any of them at any later time, with any generation
and term it may have learnt since, and may repeat its claim.

### `CommandSessions`

The broker's record of one session and the durable stores of the clients that
share it. `AcquireOwner` and `ApplyIdentified` are the two state-machine
operations, in the order of the code's checks. A store has a copy in memory and
one on disk; a write fails before or after the file is replaced, and a client
may end and start again from disk. An attempt is answered, or refused by a full
queue, or ends without an answer; in the last case its request stays in `sent`
and may be applied at any later time, any number of times.

### `JournalRepository` and `DurableLog`

`propose`, `commit`, `compact` and `load`, one file call per action. Each file
has the content that every process sees and what a loss of power may leave,
which differ until the file, or for names its directory, is synced. Any call
may fail; `Kill` ends the process between two calls, `PowerLoss` also picks
what is left on disk. An entity is abstracted to the revision that last wrote it.
`told` is the highest revision a command was answered with. A health request is not
an action: it reads the machine without looking at the poisoned flag, so after a
failed commit it reports a revision that may never become durable, and the model
promises nothing about the revisions that health reports.

`DurableLog` is the promise: states follow one another, clients are told of
them, and a crash drops only states no client was told of. The refinement
mapping takes the log to be the states the machine went through or, while no
process runs, those the files lead to.

### `BrokerServer`

The threads of one process: two listeners, a thread per connection, the
maintenance timer, the state owner, and the main thread that joins them. One
operation on shared state is one step, so that an atomic counter and the channel
operation beside it interleave with other threads. Any I/O call may fail, and
the owner may panic, which drops the channel and the reply senders it holds.

### `ClusterRaft`

The OpenRaft engine is external and modelled by what it promises: elections of
nodes with up-to-date logs, replication, commitment by a majority in the
leader's term, application in log order. The controller is the repository's:
it checks leadership, reads the Raft term, reads the broker's term, writes an
`AdvanceTerm` when the two differ, writes the command and waits for it to be
applied or for the deadline. Directory reads confirm authority with a majority
and wait for what was committed to be applied. `ShouldPoison` decides which
errors fail-stop the adapter; `Restart` and `Open` bring a node back.

### `RaftStorage`

One clustered node: the tables of its database, the replicated state machine in
memory, and the answers given to the engine. A redb transaction is one step,
atomic and durable; the callback that tells the engine of it is another.
`decided` is the log the cluster agrees on, and the external engine is modelled
by what OpenRaft 0.9 may ask of its storage: append what a leader sends, truncate
what conflicts, apply what is committed, purge what its snapshot covers, install
a snapshot past its committed position, and run a snapshot build as a task of its
own. `CaptureSnapshot` and `BuildSnapshot` are therefore two actions, and
`InstallDuringBuild` says whether an installation may come between them. Of a
command only its session and sequence matter; the broker is the sequence of what
it executed. A snapshot received from a peer may be corrupt.

### `WireProtocol` and `BrokerExchange`

`WireProtocol` has no state. A frame is a record of a version, an operation, a
head and a payload; a value is the name of the field it was supplied for and a
level: null, zero, ordinary, the largest that its contract admits, or beyond it. It
keeps that name wherever it is copied to. The encoders and decoders of the three
generations are composed as in the code: v2 and v3 wrap v1's payloads. A frame is as
long as its longest value (an objective, a result or a capability list at its
contract's end, in bytes of JSON); everything else together stays below the smallest
bound that can be configured.

The code spells the fields of an operation out once per stage, and each of these
lists is a table of its own, read from its own lines, that says what is written from
what is read. For a request: `RequestFields` (the typed request), `RequestKeys` (the
encoder), `PayloadKeys` (the schema), `DecodedFields` (the decoder), `DispatchInputs`
and `IdentifiedInputs` (the dispatchers), `UseCaseCommands` and `IdentifiedCommands`
(the service), `EntryFields` and `ReplayedFields` (into and out of the Raft log),
`StableFields` (the comparison of repetitions). For a result: `MutationResults`,
`ResultEntry`, `ReplayedResult`, `SuccessFields`, `SuccessKeys`, `ResultKeys`,
`DecodedResult`. No table is derived from another, so a field that one stage drops,
or fills from another field, makes the stages disagree and reaches the properties as
a wrong or missing value. Two things stay out of their sight: a wrong name that both
ends of one stage pair share, which changes nothing for a caller, and a value changed
within its level.

`BrokerExchange` is one call through all of it: encoded by the client, decoded by
`handle_connection`, dispatched, turned into a command with the server's clock and
limits, carried through the replicated codec, executed or matched with the
recorded outcome, answered and decoded. The reply may be lost and the exact frame
sent again; the clock and the capacity policy move in between; a caller may reuse
an identity; either side may be another build, whose frame is off by one field.

### `ClusterRouter`

One routing call, of a mutation or of an acquisition, by the sequential or the
concurrent router. Each probe of an operations endpoint gives a verdict; exactly
one write-ready node is required; the frame is sent to the Broker address configured
for it; an ambiguous outcome is followed by another discovery. Meanwhile leadership moves, deposed leaders go on
claiming it, entries of a deposed leader are committed by a successor or
overwritten, frames are lost or arrive after the call has returned, endpoints may
be wired to another node or to a stranger, and a rival takes the session over.

### `RaftRpc`

The peer server of a node: the acceptor counts a connection and sends it into a
bounded channel; workers share the receiver behind a mutex. One step is one
operation on shared state. The call itself runs in the engine, which is external,
and every wait on a socket ends at a deadline. A thread may fail to be spawned,
`accept` may fail, and callers may give up at any time.

## Runs

| Run | Instance | Distinct states |
|---|---|---|
| `broker_leases` | one namespace and group, two tasks, two lease ids | 113,804 |
| `broker_membership` | two namespaces, groups, members and lease ids, one task | 120,196 |
| `workers` | the state machine with workers, two lease durations | 82,694 |
| `sessions` | two clients, two commands, one fault, full queues | 123,680 |
| `storage` | the journal: two entities, three revisions, two failing calls, two kills or two losses of power; the Raft storage: two logs of four entries with a repeated command, two stops | 364,446 |
| `server` | two broker connections and one operations connection, queue and connection limit of one, one fault | 197,158 |
| `cluster` | three nodes, two Raft terms, two requests, one restart or engine failure | 1,113,383 |
| `network` | every operation in every protocol generation, two deliveries; three nodes, two attempts, one election; two peer calls, two workers, a queue of one, one fault | 224,832 |

`storage` and `network` check several modules, one of which runs in each
behaviour: `mode` is chosen initially and the others stay at rest. The other four
runs expect a violation; see Findings.

### What the passing runs show

- **Leases.** The lease map and the member map are exactly what the tasks imply
  (`LeaseMapExact`, `MemberMapExact`). A queued task waits in exactly one ready heap, and a lease
  has an entry that will expire it (`NoTaskLost`). Each new grant advances the
  epoch by one (`HandoverAdvancesEpoch`), and a claim takes the oldest task
  (`OldestFirst`).
- **Membership.** A lease is held by a current member (`LeaseHeldByMember`). The
  reaper removes exactly the members it selected across groups
  (`ReapTakesSelection`).
- **Journal record.** Replaying the change set of a command onto the state before
  it gives the state after it (`JournalReplaysStep`).
- **Workers.** Only the latest grant of a task renews or completes it
  (`OnlyCurrentGrantActs`), and a completed task stays as it is until it is pruned
  (`CompletionIsFinal`). In one namespace a restarted broker claims, recovers,
  counts and prunes what the running one would (`RestartTransparent`); it is checked
  here because stale expiration entries come from renewals to a later deadline.
- **Sessions.** A reserved command runs at most once, and commands run in order of
  owner and sequence (`ExecutedOnceInOrder`); a caller gets the outcome of
  its own command (`OutcomeIsOwn`); store and broker never disagree by more than
  one sequence (`SequencesAgree`); a command in flight is resolved
  (`InFlightResolved`).
- **Journal.** Whatever was answered survives a kill between any two calls, and a
  loss of power if no process was killed before it (`CrashLosesNothing`). Compaction never falls behind (`CompactionFallsDue`).
  The repository refines `DurableLog` (`ImplementsDurableLog`).
- **Raft storage.** What the engine was told is on disk stays there
  (`FlushedSurvives`). No stop leaves a gap between snapshot and log
  (`SnapshotCoversPurge`), so committed entries can be replayed
  (`CommittedReplayable`). The machine is always the one that applied the decided
  log from its start, however it came by its state, and a retry after a snapshot is
  not executed again (`StateIsReplay`); a node can always be opened (`NodeOpens`).
- **Server.** The queue and connection counters equal what they count plus the
  threads caught between two operations (`QueuedCountExact`, `ActiveCountExact`),
  and the connection limit holds. A job refused by a full queue is not
  executed (`RejectedNotExecuted`). A counted request is answered and a
  listener that returns ends the process (`RequestsAnswered`,
  `ShutdownCompletes`).
- **Exchange.** What is executed is what the caller asked for, under the caller's
  identity: every field of the command has the value it stands for, through all the
  field lists on the way, in each generation, on either adapter and on every delivery,
  and every proposed entry can be decoded by a replica (`ExecutedAsAsked`). What the client returns
  is the outcome, with its disposition where the generation has one
  (`AnswerIsOutcome`). Retries are recognised by content and nothing else is
  (`RepetitionRecognised`).
- **Routing.** A routed mutation is executed at most once, and a success that was
  returned stays true (`RoutedOnce`). A frame goes only to the configured Broker
  address of the one node that reported write-readiness in the discovery just made,
  and is not sent again after a stable outcome (`FramesJustified`). That the address is
  that node's the code does not verify, and the model wires some of them wrongly.
- **Peer server.** The load counters are exact at every step (`LoadExact`). When stop or a
  failed start returns nothing is left running or counted (`QuietWhenStopped`),
  and both do return (`RpcStopCompletes`). An accepted connection is answered or
  closed (`AcceptedResolved`).
- **Cluster.** The broker's term never passes the Raft term
  (`BrokerTermWithinRaftTerm`), acknowledged commands are in the log of every
  later leader (`AcknowledgedSurvive`), and a directory read misses no command
  acknowledged before it began (`DirectoryReadsFresh`).

### Bounds

Two of each identifier are enough for a task to be granted to another member,
a lease id to be used for another task and a tie to be broken. `MaxEpoch` and
`MaxGeneration` allow a second grant and a second change of membership, and
`MaxTerm` a change of term. The counters `MaxRevision`, `MaxRequests`, `MaxLog`,
`MaxFaults` and the like are guards on the action that would pass them. The
broker runs use a `VIEW` without revisions and change set, which no step reads.
`MixedCrashes` is FALSE: a file is subject to kills or to losses of power and not
to both (see Findings). `InstallDuringBuild` is FALSE in `storage` and TRUE in
`raft_snapshot`. `MaxStops` allows a node to be stopped and opened twice, once
before and once after a snapshot. The two logs of `RepeatedCommands` have a
command on either side of a snapshot, of a membership entry and of a later
command. `FrameLimits` are the smallest and the default bound, `MaxDeliveries`
allows one retry or one reuse of an identity, `MaxAttempts` one redirection and
`MaxLeaderChanges` one election, which can come before, between or after the
attempts. Two calls, two workers and a queue of one let a connection be refused
and one worker wait for the mutex. Lease ids, namespaces, entities and nodes are symmetric where a run says so and checks
no liveness.

Runs turn deadlock checking off where the system may stop: when the bounded
clients have nothing left to do, or the process has ended or refused to load.

### Fairness

`sessions` assumes that a client keeps retrying its unresolved request, that the
broker answers some attempt, and that the client acts on the answer; the store
itself blocks every later command until this is done. Faults are finite.
`server` assumes that threads are scheduled and that a dispatch returns. Nothing
obliges a client to send or the timer to tick. `network` assumes that the threads
of the peer server are scheduled, that their socket waits end at a deadline and
that the engine answers a call: it is shut down only after the server has stopped. Peers need not call, and stop need not be called.
No other run assumes fairness.

## Proofs

Eight modules hold theorems. Each extends the modules it is about;
`BrokerQueueProofs` and `ClusterRaftProofs` also extend the proofs they build on.

| Theorem | Statement |
|---|---|
| **`BrokerProofs`** (`BrokerStateMachine`, `WorkerFencing`) | |
| `TypeCorrect` | `Spec => []TypeOK` |
| `LeaseMapAlwaysExact` | `Spec => []LeaseMapExact` |
| `MemberMapAlwaysExact` | `Spec => []MemberMapExact` |
| `LeasesHeldByMembers` | `Spec => []LeaseHeldByMember` |
| `HandoverAlwaysAdvancesEpoch` | `Spec => HandoverAdvancesEpoch` |
| `WorkersImplementBroker` | `WSpec => Spec` |
| `OnlyCurrentGrantEverActs` | `WSpec => []OnlyCurrentGrantActs` |
| `CompletionAlwaysFinal` | `WSpec => CompletionIsFinal` |
| `ReapAlwaysTakesSelection` | `Spec => []ReapTakesSelection` |
| `JournalAlwaysReplaysStep` | `DeadlinesFit` implies `Spec => JournalReplaysStep` |
| **`BrokerQueueProofs`** (`BrokerStateMachine`) | |
| `NoTaskEverLost` | `DeadlinesFit` implies `Spec => []NoTaskLost` |
| `CountsAlwaysRebuilt` | completion heap and counters always equal a rebuild |
| `HomedLeasesWithinNamespace` | `Spec /\ []Homed(Home) => []LeaseWithinNamespace` |
| `RestartAlwaysTransparent` | `DeadlinesFit` implies `Spec /\ []Homed(Home) => []RestartTransparent` |
| `OldestAlwaysFirst` | `DeadlinesFit` implies `Spec /\ []Homed(Home) => OldestFirst` |
| `OneNamespaceBroker` | with one namespace the last three hold without `Homed` |
| **`CommandSessionsProofs`** | |
| `CommandsExecuteOnceInOrder` | `Spec => []ExecutedOnceInOrder` |
| `CommittedOutcomeIsOwn` | `Spec => []OutcomeIsOwn` |
| `OwnerSequenceInStep` | `Spec => []SequencesAgree` |
| **`JournalRepositoryProofs`** | |
| `AnsweredCommitsSurviveCrashes` | `~MixedCrashes` implies `Spec => []CrashLosesNothing` |
| `CompactionAlwaysFallsDue` | `~MixedCrashes` implies `Spec => []CompactionFallsDue` |
| `RepositoryImplementsLog` | `~MixedCrashes` implies `Spec => ImplementsDurableLog` |
| **`RaftLogProofs`, `ClusterRaftProofs`** (`ClusterRaft`) | |
| `ClusterTypeCorrect` | `Spec => []TypeOK` |
| `BrokerTermNeverAhead` | `Spec => []BrokerTermWithinRaftTerm` |
| `AnsweredCommandsSurvive` | `Spec => []AcknowledgedSurvive` |
| `DirectoryAlwaysFresh` | `Spec => []DirectoryReadsFresh` |
| `ReplicasAgree` | `Spec => []CommittedAgree` |
| **`BrokerServerProofs`** | |
| `ActiveCountAlwaysExact` | `Spec => []ActiveCountExact` |
| `QueuedCountAlwaysExact` | `Spec => []QueuedCountExact` |
| `RejectedNeverExecuted` | `Spec => []RejectedNotExecuted` |
| **`ClusterNodeProofs`** (`RaftStorage`, `RaftRpc`, `ClusterRouter`) | |
| `CompactionSafe` | `~InstallDuringBuild` implies `RaftSpec => []SnapshotCoversPurge` |
| `AlwaysOpens` | `RaftSpec => []NodeOpens` |
| `AnsweredWritesSurvive` | `~InstallDuringBuild` implies `RaftSpec => []FlushedSurvives` |
| `CommittedAlwaysReplayable` | `~InstallDuringBuild` implies `RaftSpec => []CommittedReplayable` |
| `StateAlwaysReplay` | `~InstallDuringBuild` implies `RaftSpec => []StateIsReplay` |
| `LoadAlwaysExact` | `RpcSpec => []LoadExact` |
| `AcceptorHasWorkers` | `RpcSpec => []WorkersOutliveAcceptor` |
| `StoppedServerQuiet` | `RpcSpec => []QuietWhenStopped` |
| `RoutedExecutesOnce` | `RouterSpec => []RoutedOnce` |
| `FramesAlwaysJustified` | `RouterSpec => []FramesJustified` |

### Assumptions and conditions

An `ASSUME` says what the constants are, and TLC evaluates it on every run. The
theorems about the broker hold for all sets of namespaces, tasks, groups, members
and lease ids, all clocks, durations, batches and limits with these assumptions:
identifiers that break ties are naturals (`IdentifiersAreOrdered`), there are
finitely many tasks, groups and members (`IdentifiersAreFinite`), times are naturals
and durations positive (`ClockAssumption`), limits are positive (`LimitsAssumption`)
and `None` is no identifier (`NoneIsNoValue`). Those of the other modules are of the
same kind: bounds are naturals, sets of threads and nodes are finite, `None` is not
a job, a command or an instance.

Four conditions are stated in the theorems that need them. The program does not
establish them everywhere, and without them TLC refutes each of these properties but
one: `CompactionFallsDue` needs `~MixedCrashes` only for the invariant its proof shares.

- `DeadlinesFit`: no time plus duration passes the largest timestamp. `policy.rs`
  bounds a lease to 30 minutes (`MAX_LEASE_DURATION_MS`), so this fails only in the
  last half hour that a 64-bit count of milliseconds can express. There a claim is
  rejected after it has recovered leases and taken a task off its heap
  (`ClaimTaskOverflow`): the changes are in no change set and the task is in no heap.
- `Homed(Home)`: a task identifier is only ever stored in one namespace, `Home[t]`.
  A deployment that uses each task identifier once establishes it. Otherwise a pruned
  task may be published again elsewhere and the finding `broker_foreign_lease`
  applies: the task is leased out of turn through a foreign heap, which a rebuild
  would not fill.
- `~MixedCrashes`: see Findings, on a kill followed by a loss of power.
- `~InstallDuringBuild`: see Findings, `raft_snapshot`.

### Leases and workers

The inductive invariant of the three lease theorems is `LeaseInv`: `TypeOK`, the
fact that a leased task names a lease id, a group and a member, and the three
properties together. None is inductive alone. Removing a member requeues what the
member map lists, so `LeaseHeldByMember` needs a complete `MemberMapExact`. A claim
may use a lease id because the lease map has no entry for it, so `LeaseMapExact`
needs that map to be complete. A requeued task gives up the lease id and the holder
it names, so both maps need leases to be well formed. The proof has one step per
action; `LeaseFrame` covers the actions that touch no lease, and lemmas about
requeueing are shared by expiry and removal of members.

`HandoverAdvancesEpoch` is an action property and follows from `LeaseInv` one
command at a time: every command but a claim keeps each task's epoch and gives it
no lease it did not have (`EpochKept`), and a claim grants one task, one epoch on
(`ClaimTaskGrants`). The claim may take back an expired lease and grant the task to
the same member again in one step; that the new grant differs from the old one is
`LeaseMapExact`, since a claim needs a lease id the map has no entry for.

The workers' theorems start from `WorkersImplementBroker`, a refinement with the
identity as its mapping. A command is built from any reply ever sent and any later
generation and term, but one that passes `require_active_lease` names the lease the
task carries, and that is the command `Next` offers. So `LeaseInv` holds among
workers too. `OnlyCurrentGrantActs` then needs that a leased task carries its latest
grant (`CurrentExact`), which the facts about epochs keep. `CompletionIsFinal` needs
only that recovery and removal take leased tasks and that the fence asks for one.

### The reaper, the change set, heaps and counters

`ReapTakesSelection` compares what each group removes, which it counts off among its
own members, with the members selected across groups. The selection takes with a
member all staler ones of its group. A set closed in this way consists of the members
with fewer predecessors than the set has members, for any finite set
(`CountingSelects`), and that is how a group finds them.

`JournalReplaysStep` needs each command to name in its change set every entity whose
record it changes (`Recorded`, one lemma per command), and to move that entity's
local revision on. That a published task's first revision is an advance needs
`Stored`: an absent entity has revision zero, a stored one a positive revision and a
namespace that exists, which is also what `from_checkpoint` insists on.

The ready and expiration heaps are not exact: entries of former leases stay behind.
`QueueInv` says what they may not lose. Every entry of a ready heap is that of a
queued task and in one heap only, every queued task has one, and every lease has an
expiration entry with its own deadline and epoch. A claim is the hard step: it
recovers, takes the least entry and drops nothing else that is current
(`ClaimTaskQueues`).

The completion heap and the counters are exact (`CountInv`): a function of the task
and group records. Pruning pops the heap up to the last task it removes, and removes
the tasks it selected; the two agree because the selection is a prefix of the heap's
order (`PruneIsPrefix`).

### Namespaces and restarts

With `Homed`, every entry of a namespace's heaps is of a task at home there
(`HomeQueues`). Then a claim through a group of the namespace can only grant a task
of the namespace, and a rebuild, which sorts tasks by the namespace they name, gives
the ready heaps back and expiration heaps that recover the same tasks. With `CountInv`
and with `Stored` for the acceptance of the checkpoint this is `RestartTransparent`.
`OldestFirst` follows from the same facts about a claim. In one namespace `Homed` is a
consequence of `Stored`, and `OneNamespaceBroker` states the results without it.

### Sessions

`SessionInv` relates each client's store, in memory and on disk, to the broker's
record (`StoreInv`) and the record to the log of executed commands (`LogInv`). A store
follows the record by at most the command in flight, the disk is never behind what
memory has sent, and an answer in a client's inbox is for the request it made. The
log is sorted by owner epoch and sequence and ends at the record, so a request that is
not the next one is a replay or refused. The theorems hold whether or not the queue
may fill: a rejection affects what a client believes, not what the broker runs.

### Journal

`JournalInv` states which of the file contents the code may leave at each stage, which
revisions the journal holds and the snapshot covers, and what a loss of power may
undo. Loading is a fold over the journal, so its value is established by induction
over revisions, as a fact about the set of revisions it holds of
(`WellFoundedInduction`). The refinement of `DurableLog` is proved step by step: a
proposal extends the log, an answer tells of its last state, a crash drops states that
nobody was told of, and every other file call changes nothing of it.

### Raft storage

`SnapshotCoversPurge` is inductive only with positions around it, which
`CompactionInv` states: while a node runs, the engine's snapshot is the persisted
one, it and the applied state are behind the committed position, and a captured
state lies between the two. So a purge, which goes up to the engine's snapshot, is
covered, and an installed snapshot, which is past the committed position, is past
the purged one. Without the hypothesis the captured state may be behind what was
installed meanwhile. `NodeOpens` is inductive as it stands, because both ways to store
a snapshot store what has been encoded or decoded before. `LogInv` adds contents to
positions: the log has no gap, and what was flushed, committed or is about to be
committed is on disk. `StatesReplayed` says that the running machine, the stored
snapshot and one being built are replays of the decided log; that replaying a longer
prefix continues a shorter one is shown by induction over its length.

### Cluster

`RaftLogProofs` shows for the engine, as modelled, that what is committed on one node
is in the log of every later leader. Its invariant has the classical parts: one leader
per term, logs that agree up to an entry of equal term, leaders that keep what they
wrote, voters that had to be behind. The core is that a majority which stores an entry
and one which elects share a node. `ClusterInv` adds the adapter: a request waits for
an entry that was written, the terms it read and the broker's term are within the Raft
term, and an answered command is at or before an entry that was chosen in a term no
later than the answer's. A directory read waits for a position past all commands
answered before it began, because authority was confirmed by a majority since.

### Server and peer transport

The theorems about the server's counters hold for all finite sets of connections, all
limits and all capacities. `ConnInv` is `ActiveCountExact` over typed state with one
fact more: the connection that a listener is refusing is one of its own and not served,
so uncounting it takes away the right one. `JobInv` is `QueuedCountExact` over typed
state. A step moves at most one thread in or out of a finite set whose cardinality is
part of a counter. `RejectInv` adds that a job its thread has counted and not sent, or
not yet numbered, is nowhere, so that the thread which gives up leaves nothing behind.

For the peer server, `RpcInv` is `LoadExact` over typed state, with the acceptor's
phase against the server's: while start or the acceptor holds a sender, no worker has
returned, since `recv` fails only when every sender is gone. `PhaseInv` says what each
phase of start and stop has already seen, and `LinkInv` that an open connection is in
somebody's hands and one in the backlog has a listener; when all threads have
returned, nobody is left to hold one.

`RouterInv` relates the routing call to the network and the session: the session
executes the frame once and gives an epoch to one process; an answer that reports
success, on its way or returned, says what the session did; the target is the one node
that reported write-readiness in the discovery just made; and only the last outcome
heard may be a stable one.

### Model-checked only

- Liveness is out of the prover's reach: `InFlightResolved`, `RequestsAnswered`,
  `ShutdownCompletes`, `RpcStopCompletes`, `AcceptedResolved`.
- `ExecutedAsAsked`, `AnswerIsOutcome` and `RepetitionRecognised` compare finite tables
  of fields, operations and generations that TLC enumerates completely; the one
  parameter left, the number of deliveries, would add nothing to a proof by the same
  enumeration.
- The properties of the violation runs are false; those of their conditional forms that
  are true are theorems above.

## Findings

- **`broker_foreign_lease`.** Expiration entries are matched by task, epoch and
  deadline, not by namespace. A task that is completed, pruned and published again in
  another namespace can match an old entry; it is then put on the ready heap of
  the namespace that is claiming and leased to a group of that namespace.
  `service.rs` promises "the member's Consumer Group namespace".
- **`sessions_saturated`.** A full queue answers REJECTED to a retry as well. The
  client releases its command although the first attempt may still be applied.
- **`raft_snapshot`.** `build_snapshot` writes what it captured without comparing
  it with the stored pair. When a newer snapshot is installed, and the log purged
  to it, while a build is under way, the older pair replaces the newer one; the
  entries between the two are then in neither. The next start loads the older
  state and cannot replay up to the commit index.
- **`cluster_fail_stop`.** The controller reads the Raft term and the broker's
  term one after the other. If the node loses leadership in between, regains it
  later, and the broker's term has meanwhile moved past the Raft term it read, it
  takes the difference for corruption and fail-stops a healthy adapter, reporting
  an engine failure.

Others have no run of their own:

- A process is killed after writing a journal record and before syncing it. The
  next process replays the record without syncing it and answers clients from it;
  a loss of power then takes it away. In `JournalRepository`, the invariant
  `AnyCrashLosesNothing` fails after six steps once a process was killed, which is
  why `CrashLosesNothing` speaks of losses of power in histories without kills.
- A request of a displaced owner is rejected, as `sessions` models, without telling
  whether an earlier attempt was executed before the takeover.
- The router returns the error of a failed discovery as it is, also when an earlier
  attempt ended with an unknown outcome.
- Under a configured frame bound below the default, a claim of a task with a large
  objective is committed and cannot be answered.
- An `accept` error other than WouldBlock ends the peer acceptor; nothing notices
  before the node is stopped.

## What is not modelled

- **Snapshot codec** (`snapshot_v1.rs`): a conversion between records and JSON.
  What depends on it is modelled: a snapshot that decodes, one that does not, and
  one of the format without sessions.
- **One-node Raft adapter**: the storage and the state machine of `RaftStorage`
  under an engine with one voter; its proposal path is the cluster adapter's
  without elections.
- **TLS** (`cluster_tls.rs` and the certificate checks of the transport): the
  handshake and the peer check are one step of a worker that succeeds or fails.
- **Quorum policy** (`quorum.rs`): arithmetic on voter counts without state.
- **Process lock**: one operating-system call at start.
- **Cluster bootstrap and membership changes**: they happen once, before the
  states modelled.
- **Python SDK**: a second client of the same protocol, without durable sessions.
- **Command sessions** of protocol-v2 identities without an owner instance, and
  the limit on the number of sessions.
- **Tooling** (`xtask`): not part of the broker.

Possible next step: a weaker form of `Homed` that follows the expiration entries, so
that an identifier may move once its old entries have been drained.
