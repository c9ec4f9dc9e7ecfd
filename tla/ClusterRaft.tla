----------------------------- MODULE ClusterRaft ----------------------------
(***************************************************************************)
(* The Raft consensus adapter of a clustered broker.  Each node runs an    *)
(* OpenRaft engine, which is external and modelled by what it promises:    *)
(* elections of nodes with up-to-date logs, replication, commitment by a   *)
(* majority in the leader's term, application in log order, and a client   *)
(* write answered when its entry is applied or leadership is lost.         *)
(*                                                                         *)
(* On top of it one controller thread per node serves one request at a     *)
(* time.  Before every write it brings the broker's fencing term up to the *)
(* Raft term with an AdvanceTerm command of its own; certain errors make   *)
(* the adapter fail-stop until the process is restarted.                   *)
(***************************************************************************)
EXTENDS Naturals, Sequences, FiniteSets, FiniteSetsExt

CONSTANTS
  Nodes,
  Kinds,        \* requests made: "legacy", "identified" or "directory"
  MaxRaftTerm,  \* bound on elections
  MaxLog,       \* bound on the length of a log
  MaxRequests,  \* bound on requests served
  MaxFaults,    \* bound on restarts of a process and fatal errors of an engine
  None

ASSUME ClusterAssumption ==
  /\ IsFiniteSet(Nodes) /\ Nodes # {}
  /\ Kinds \subseteq {"legacy", "identified", "directory"}
  /\ {MaxRaftTerm, MaxLog} \subseteq Nat \ {0}
  /\ {MaxRequests, MaxFaults} \subseteq Nat

VARIABLES
  raft_term,     \* the term of each engine's vote
  leads,         \* whether the engine reports its own node as current leader
  log,           \* entries of each node
  committed, applied,
  failed,        \* engines stopped by a fatal error
  broker_term,   \* the broker's term in each node's applied state
  request,       \* what each controller is doing, and what it has read so far
  fail_stopped,
  acknowledged,  \* commands answered with their result: <<index, Raft term,
                 \* Raft term of the node when it answered>>
  requests, faults

engine == <<raft_term, leads, log, committed, failed>>
replica == <<applied, broker_term>>
adapter == <<request, fail_stopped>>
bounds == <<requests, faults>>
vars == <<engine, replica, adapter, acknowledged, bounds>>

IsMajority(Q) == 2 * Cardinality(Q) > Cardinality(Nodes)
Quorums == {Q \in SUBSET Nodes : IsMajority(Q) /\ \A n \in Q : ~IsMajority(Q \ {n})}

Blank(t) == [term |-> t, kind |-> "blank"]
Command(t) == [term |-> t, kind |-> "command"]
AdvanceTerm(t, expected, new) ==
  [term |-> t, kind |-> "advance", expected |-> expected, new |-> new]

NoRequest == [pc |-> "idle", kind |-> None, term |-> 0, expected |-> 0,
              entry |-> <<0, 0>>, floor |-> {}]

\* A bootstrapped cluster: one leader in term 1, whose first entry everybody
\* has applied, and a broker in its initial term.
Init ==
  /\ raft_term = [n \in Nodes |-> 1]
  /\ \E l \in Nodes : leads = [n \in Nodes |-> n = l]
  /\ log = [n \in Nodes |-> <<Blank(1)>>]
  /\ committed = [n \in Nodes |-> 1] /\ applied = [n \in Nodes |-> 1]
  /\ failed = {}
  /\ broker_term = [n \in Nodes |-> 1]
  /\ request = [n \in Nodes |-> NoRequest]
  /\ fail_stopped = {}
  /\ acknowledged = {}
  /\ requests = 0 /\ faults = 0

-----------------------------------------------------------------------------
(* The engine (external) *)

Up == {n \in Nodes \ failed : request[n].pc # "down"}

LastTerm(n) == log[n][Len(log[n])].term

UpToDate(n, m) ==
  \/ LastTerm(n) > LastTerm(m)
  \/ LastTerm(n) = LastTerm(m) /\ Len(log[n]) >= Len(log[m])

\* n wins the votes of Q in term t and opens it with a blank entry.
Elect(n, Q, t) ==
  /\ n \in Q /\ Q \subseteq Up
  /\ \A m \in Q : raft_term[m] < t /\ UpToDate(n, m)
  /\ Len(log[n]) < MaxLog
  /\ raft_term' = [m \in Nodes |-> IF m \in Q THEN t ELSE raft_term[m]]
  /\ leads' = [m \in Nodes |-> m = n \/ (leads[m] /\ m \notin Q)]
  /\ log' = [log EXCEPT ![n] = Append(@, Blank(t))]
  /\ UNCHANGED <<committed, failed, replica, adapter, acknowledged, bounds>>

\* f takes over l's log and its commit index.
Replicate(l, f) ==
  /\ leads[l] /\ {l, f} \subseteq Up
  /\ raft_term[f] <= raft_term[l]
  /\ log[f] # log[l] \/ committed[f] < committed[l] \/ raft_term[f] < raft_term[l]
  /\ raft_term' = [raft_term EXCEPT ![f] = raft_term[l]]
  /\ leads' = [leads EXCEPT ![f] = FALSE]
  /\ log' = [log EXCEPT ![f] = log[l]]
  /\ committed' = [committed EXCEPT ![f] = Max({@, committed[l]})]
  /\ UNCHANGED <<failed, replica, adapter, acknowledged, bounds>>

\* l learns that a majority holds its log up to an entry of its term.  A log
\* that ends in l's term came from l, and its node said so; who has moved on
\* to the log of a later leader counted, if at all, before it did.
AdvanceCommit(l, i) ==
  /\ leads[l] /\ l \in Up
  /\ i \in (committed[l] + 1)..Len(log[l]) /\ log[l][i].term = raft_term[l]
  /\ IsMajority({m \in Nodes : LastTerm(m) = raft_term[l] /\ i <= Len(log[m])})
  /\ committed' = [committed EXCEPT ![l] = i]
  /\ UNCHANGED <<raft_term, leads, log, failed, replica, adapter, acknowledged,
                 bounds>>

EngineFails(n) ==
  /\ n \in Up /\ faults < MaxFaults
  /\ failed' = failed \cup {n}
  /\ faults' = faults + 1
  /\ UNCHANGED <<raft_term, leads, log, committed, replica, adapter,
                 acknowledged, requests>>

-----------------------------------------------------------------------------
(* The controller: RunningClusterRaft, and the adapter's fail-stop *)

At(n, pc) == request[n].pc = pc
Goto(n, pc) == request' = [request EXCEPT ![n].pc = pc]
Finish(n) == request' = [request EXCEPT ![n] = NoRequest]

ShouldPoison(code) == code \in {"PersistenceError", "InternalError"}

\* An error answers the request and may fail-stop the adapter; an error while
\* the node is being opened ends the process.
Fail(n, code) ==
  IF request[n].kind = "startup"
    THEN /\ request' = [request EXCEPT ![n] = [NoRequest EXCEPT !.pc = "down"]]
         /\ UNCHANGED fail_stopped
    ELSE /\ Finish(n)
         /\ fail_stopped' = IF ShouldPoison(code) THEN fail_stopped \cup {n}
                                                  ELSE fail_stopped

\* A write or a directory read reaches the leader.  A node that is not, or
\* that is fail-stopped, answers an error and changes nothing.
Begin(n, kind) ==
  /\ At(n, "idle") /\ n \notin fail_stopped /\ leads[n]
  /\ requests < MaxRequests /\ requests' = requests + 1
  /\ request' = [request EXCEPT ![n] = [NoRequest EXCEPT
       !.kind = kind,
       !.pc = IF kind = "directory" THEN "confirming" ELSE "checked",
       !.floor = IF kind = "directory" THEN acknowledged ELSE {}]]
  /\ UNCHANGED <<engine, replica, fail_stopped, acknowledged, faults>>

\* sync_broker_term_to_raft reads the engine's term,
ReadRaftTerm(n) ==
  /\ At(n, "checked")
  /\ \/ /\ n \in failed
        /\ Fail(n, "PersistenceError")
     \/ /\ n \notin failed
        /\ request' = [request EXCEPT ![n].pc = "read", ![n].term = raft_term[n]]
        /\ UNCHANGED fail_stopped
  /\ UNCHANGED <<engine, replica, acknowledged, bounds>>

\* Where a request goes on once the terms agree.
Synchronised(n) ==
  IF request[n].kind = "startup" THEN Finish(n) ELSE Goto(n, "writing")

\* then the broker's term, from the state applied so far.
ReadBrokerTerm(n) ==
  /\ At(n, "read")
  /\ \/ /\ request[n].term < broker_term[n]
        /\ Fail(n, "PersistenceError")
     \/ /\ request[n].term = broker_term[n]
        /\ Synchronised(n)
        /\ UNCHANGED fail_stopped
     \/ /\ request[n].term > broker_term[n]
        /\ request' = [request EXCEPT ![n].pc = "advancing",
                                      ![n].expected = broker_term[n]]
        /\ UNCHANGED fail_stopped
  /\ UNCHANGED <<engine, replica, acknowledged, bounds>>

\* client_write on the leader: the entry is appended and waited for.
ClientWrite(n, entry, pc) ==
  /\ n \in Up /\ leads[n] /\ Len(log[n]) < MaxLog
  /\ log' = [log EXCEPT ![n] = Append(@, entry)]
  /\ request' = [request EXCEPT
       ![n].pc = pc, ![n].entry = <<Len(log[n]) + 1, raft_term[n]>>]
  /\ UNCHANGED <<raft_term, leads, committed, failed, replica,
                 fail_stopped, acknowledged, bounds>>

\* Mutant: the broker's term is moved one past the engine's.
SyncCommandAhead(n) ==
  AdvanceTerm(raft_term[n], request[n].expected, request[n].term + 1)

SyncCommand(n) ==
  AdvanceTerm(raft_term[n], request[n].expected, request[n].term)

WriteAdvance(n) ==
  At(n, "advancing") /\ ClientWrite(n, SyncCommand(n), "syncing")

WriteCommand(n) ==
  At(n, "writing") /\ ClientWrite(n, Command(raft_term[n]), "waiting")

\* The node does not lead any more, or its engine has stopped.
WriteRefused(n) ==
  /\ At(n, "advancing") \/ At(n, "writing")
  /\ ~leads[n] \/ n \in failed
  /\ Fail(n, IF n \in failed /\ At(n, "writing") /\ request[n].kind = "identified"
               THEN "PersistenceError" ELSE "TransportError")
  /\ UNCHANGED <<engine, replica, acknowledged, bounds>>

Submitted(n) == At(n, "syncing") \/ At(n, "waiting")

\* Leadership is lost, or the engine stops, before the entry is applied: the
\* caller is told of a transport error, and the entry may still be committed.
WriteLost(n) ==
  /\ Submitted(n)
  /\ \/ ~leads[n] \/ n \in failed
     \/ raft_term[n] # request[n].entry[2]
  /\ Fail(n, "TransportError")
  /\ UNCHANGED <<engine, replica, acknowledged, bounds>>

\* Mutant: a write that timed out is answered as if it had succeeded.
AnsweredAtDeadlineAnyway(n) ==
  acknowledged \cup {Append(request[n].entry, raft_term[n])}

AnsweredAtDeadline(n) == acknowledged

\* Only an identified command has a deadline, and only once its own entry is
\* submitted; it is answered CommitOutcomeUnknown.
DeadlineElapses(n) ==
  /\ At(n, "waiting") /\ request[n].kind = "identified"
  /\ Fail(n, "CommitOutcomeUnknown")
  /\ acknowledged' = AnsweredAtDeadline(n)
  /\ UNCHANGED <<engine, replica, bounds>>

\* BrokerStateMachine's advance_term.
Advances(entry, current) ==
  /\ entry.kind = "advance"
  /\ entry.expected = current /\ entry.new > current

\* The engine applies its next entry, the observation follows, and a write
\* that waits for the entry has its answer.
Apply(n) ==
  LET i == applied[n] + 1
      entry == log[n][i]
      advanced == Advances(entry, broker_term[n])
      awaited == request[n].entry = <<i, entry.term>>
  IN
  /\ n \in Up /\ applied[n] < committed[n]
  /\ applied' = [applied EXCEPT ![n] = i]
  /\ broker_term' = [broker_term EXCEPT ![n] = IF advanced THEN entry.new ELSE @]
  /\ \/ /\ ~(awaited /\ Submitted(n))
        /\ UNCHANGED <<adapter, acknowledged>>
     \/ /\ awaited /\ At(n, "syncing") /\ advanced
        /\ Synchronised(n)
        /\ UNCHANGED <<fail_stopped, acknowledged>>
     \/ /\ awaited /\ At(n, "syncing") /\ ~advanced
        /\ Fail(n, "InternalError")
        /\ UNCHANGED acknowledged
     \/ /\ awaited /\ At(n, "waiting")
        /\ Finish(n)
        /\ acknowledged' = acknowledged \cup {<<i, entry.term, raft_term[n]>>}
        /\ UNCHANGED fail_stopped
  /\ UNCHANGED <<engine, bounds>>

-----------------------------------------------------------------------------
(* Reading the group directory *)

\* Mutant: the cached identity of the leader is taken for authority.
HasAuthorityCached(n, Q) == leads[n]

\* ensure_linearizable: a majority still follows n in its term.
HasAuthority(n, Q) ==
  /\ leads[n]
  /\ \A m \in Q : raft_term[m] <= raft_term[n]

\* The answers of the majority; the index that has to be applied is the last
\* one committed, and at least that of the entry n opened its term with.
Confirm(n, Q) ==
  /\ At(n, "confirming")
  /\ n \in Q /\ Q \subseteq Up /\ HasAuthority(n, Q)
  /\ LET own == {i \in 1..Len(log[n]) : log[n][i].term = raft_term[n]} IN
       request' = [request EXCEPT
         ![n].pc = "catching_up",
         ![n].entry = <<Max({committed[n], Min(own)}), raft_term[n]>>]
  /\ raft_term' = [m \in Nodes |->
       IF m \in Q THEN Max({raft_term[m], raft_term[n]}) ELSE raft_term[m]]
  /\ leads' = [m \in Nodes |-> leads[m] /\ (m = n \/ m \notin Q)]
  /\ UNCHANGED <<log, committed, failed, replica, fail_stopped,
                 acknowledged, bounds>>

\* Once it is applied the directory is copied from the observation, if the
\* node still leads.
AnswerDirectory(n) ==
  /\ At(n, "catching_up") /\ applied[n] >= request[n].entry[1]
  /\ leads[n] /\ n \in Up
  /\ Finish(n)
  /\ UNCHANGED <<engine, replica, fail_stopped, acknowledged, bounds>>

\* Leadership or quorum is gone, the probe's deadline elapses or the engine
\* has stopped: the read is unavailable.
DirectoryUnavailable(n) ==
  /\ At(n, "confirming") \/ At(n, "catching_up")
  /\ Fail(n, "TransportError")
  /\ UNCHANGED <<engine, replica, acknowledged, bounds>>

\* The operations endpoint's probe meets a stopped engine.
Observe(n) ==
  /\ At(n, "idle") /\ n \in failed \ fail_stopped
  /\ fail_stopped' = fail_stopped \cup {n}
  /\ UNCHANGED <<engine, replica, request, acknowledged, bounds>>

-----------------------------------------------------------------------------
(* Restarting a node *)

\* The vote, the log and the commit index are on disk, and an engine whose own
\* vote was the leader's may lead again.  The state is replayed, which nobody
\* observes before open returns.
Restart(n) ==
  /\ faults < MaxFaults /\ faults' = faults + 1
  /\ failed' = failed \ {n} /\ fail_stopped' = fail_stopped \ {n}
  /\ \E still \in BOOLEAN :
       leads' = [leads EXCEPT ![n] = @ /\ still]
  /\ request' = [request EXCEPT ![n] = [NoRequest EXCEPT
       !.pc = "opening", !.kind = "startup", !.entry = <<committed[n], 0>>]]
  /\ UNCHANGED <<raft_term, log, committed, replica, acknowledged, requests>>

\* open waits for what was committed to be applied; a leader synchronises the
\* broker's term before it serves.
Open(n) ==
  /\ At(n, "opening") /\ applied[n] >= request[n].entry[1]
  /\ IF leads[n]
       THEN request' = [request EXCEPT ![n] =
              [NoRequest EXCEPT !.pc = "checked", !.kind = "startup"]]
       ELSE Finish(n)
  /\ UNCHANGED <<engine, replica, fail_stopped, acknowledged, bounds>>

-----------------------------------------------------------------------------
Engine ==
  \/ \E n \in Nodes, Q \in Quorums, t \in 2..MaxRaftTerm : Elect(n, Q, t)
  \/ \E l, f \in Nodes : Replicate(l, f)
  \/ \E l \in Nodes, i \in 1..MaxLog : AdvanceCommit(l, i)
  \/ \E n \in Nodes : Apply(n) \/ EngineFails(n)

Controller ==
  \E n \in Nodes :
    \/ \E kind \in Kinds : Begin(n, kind)
    \/ ReadRaftTerm(n) \/ ReadBrokerTerm(n)
    \/ WriteAdvance(n) \/ WriteCommand(n) \/ WriteRefused(n) \/ WriteLost(n)
    \/ DeadlineElapses(n)
    \/ \E Q \in Quorums : Confirm(n, Q)
    \/ AnswerDirectory(n) \/ DirectoryUnavailable(n)
    \/ Observe(n) \/ Restart(n) \/ Open(n)

Next == Engine \/ Controller

Spec == Init /\ [][Next]_vars

-----------------------------------------------------------------------------
(* Properties *)

Pcs == {"idle", "checked", "read", "advancing", "syncing", "writing",
        "waiting", "confirming", "catching_up", "opening", "down"}

\* The shape of the engines, the replicas and the controllers' requests.
TypeOK ==
  /\ raft_term \in [Nodes -> 1..MaxRaftTerm]
  /\ leads \in [Nodes -> BOOLEAN]
  /\ \A n \in Nodes :
       /\ Len(log[n]) \in 1..MaxLog
       /\ applied[n] \in 1..committed[n] /\ committed[n] <= Len(log[n])
       /\ request[n].pc \in Pcs
  /\ broker_term \in [Nodes -> 1..MaxRaftTerm]
  /\ {failed, fail_stopped} \subseteq SUBSET Nodes
  /\ acknowledged \subseteq (1..MaxLog) \X (1..MaxRaftTerm) \X (1..MaxRaftTerm)

\* The broker's fencing term never runs ahead of Raft's, on any node: however
\* late a term advance is written, it was read from a term that the log which
\* holds it has passed.
BrokerTermWithinRaftTerm ==
  \A n \in Nodes : broker_term[n] <= raft_term[n]

\* A command whose result was answered is in the log of every node that leads
\* the term it was answered in or a later one, whatever was answered to other
\* writers.
AcknowledgedSurvive ==
  \A a \in acknowledged, n \in Nodes :
    leads[n] /\ raft_term[n] >= a[3] =>
      a[1] <= Len(log[n]) /\ log[n][a[1]] = Command(a[2])

\* A group directory is returned only from a state that has applied every
\* command acknowledged by any node before the read began.
DirectoryReadsFresh ==
  \A n \in Nodes :
    At(n, "catching_up") /\ applied[n] >= request[n].entry[1] =>
      \A a \in request[n].floor : a[1] <= applied[n]

\* A node that leads and whose adapter is fail-stopped has a failed engine.
FailStopMeansEngineFailure ==
  \A n \in fail_stopped : leads[n] => n \in failed

=============================================================================
