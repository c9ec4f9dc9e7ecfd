------------------------- MODULE ClusterRaftProofs --------------------------
(***************************************************************************)
(* What the engine promises the broker's adapter, for clusters, logs and   *)
(* terms of any size: an answered command survives every later leader, a   *)
(* directory read is fresh, and the broker's term stays within Raft's.     *)
(***************************************************************************)
EXTENDS RaftLogProofs

\* The prover of a step that names none.
USE ZenonT(30)

\* The command a client waits for: nothing else has its index and term.
Written(i, t) ==
  /\ Voted(t)
  /\ \A l \in Nodes : leads[l] /\ raft_term[l] = t => Holds(l, i, t)
  /\ \A m \in Nodes : Holds(m, i, t) => log[m][i] = Command(t)

Answers == (1..MaxLog) \X Terms \X Terms

\* An answered command is at or before an entry chosen by then.
AnswerOK(a) ==
  /\ a \in Answers
  /\ \E c, t \in Nat, p \in Nodes :
       /\ Chosen(c, t) /\ Holds(p, c, t) /\ t <= a[3]
       /\ a[1] \in 1..c /\ log[p][a[1]] = Command(a[2])

RequestRecords ==
  [pc : Pcs, kind : Kinds \cup {"startup", None},
   term : 0..MaxRaftTerm, expected : 0..MaxRaftTerm,
   entry : Nat \X Nat, floor : SUBSET Answers]

RequestOK(n) ==
  /\ request[n] \in RequestRecords
  /\ request[n].term <= raft_term[n]
  /\ request[n].pc \in {"read", "advancing"} => request[n].term # 0
  /\ request[n].pc = "advancing" => request[n].expected # 0
  /\ request[n].pc = "waiting" =>
       Written(request[n].entry[1], request[n].entry[2])
  /\ request[n].floor \subseteq acknowledged
  /\ request[n].pc = "catching_up" =>
       \A a \in request[n].floor : a[1] <= request[n].entry[1]

ReplicaOK(n) ==
  /\ applied[n] \in 1..committed[n]
  /\ broker_term[n] \in Terms /\ broker_term[n] <= raft_term[n]

ClusterInv ==
  /\ RaftInv
  /\ applied \in [Nodes -> Nat] /\ broker_term \in [Nodes -> Terms]
  /\ request \in [Nodes -> RequestRecords]
  /\ failed \in SUBSET Nodes /\ fail_stopped \in SUBSET Nodes
  /\ \A n \in Nodes : ReplicaOK(n) /\ RequestOK(n)
  /\ \A a \in acknowledged : AnswerOK(a)

KeepsWritten == \A i, t \in Nat : Written(i, t) => Written(i, t)'

-----------------------------------------------------------------------------
(* A write that is waited for *)

LEMMA VotesGrow ==
  ASSUME EngineShape, EngineShape',
         \A n \in Nodes : raft_term'[n] >= raft_term[n]
  PROVE  \A t \in Nat : Voted(t) => Voted(t)'
<1> SUFFICES ASSUME NEW t \in Nat, Voted(t) PROVE Voted(t)'
  OBVIOUS
<1>1. \A n \in Nodes : raft_term[n] \in Nat /\ raft_term'[n] \in Nat
  BY ClusterAssumption, SMTT(30) DEF EngineShape, Terms
<1>2. /\ Voters(t) \subseteq Voters(t)'
      /\ Voters(t) \in SUBSET Nodes /\ Voters(t)' \in SUBSET Nodes
  BY <1>1, SMTT(30) DEF Voters
<1> QED BY <1>2, Larger DEF Voted

LEMMA QuietWritten ==
  ASSUME EngineShape, EngineShape', log' = log,
         \A n \in Nodes : raft_term'[n] >= raft_term[n],
         \A n \in Nodes : leads'[n] => leads[n] /\ raft_term'[n] = raft_term[n]
  PROVE  KeepsWritten
<1>1. \A t \in Nat : Voted(t) => Voted(t)'
  BY VotesGrow
<1>2. \A m, i, t : Holds(m, i, t)' <=> Holds(m, i, t)
  BY DEF Holds, TermAt
<1> QED BY <1>1, <1>2 DEF KeepsWritten, Written

LEMMA ReplicateWritten ==
  ASSUME EngineShape, EngineShape', NEW l \in Nodes, NEW f \in Nodes,
         Replicate(l, f)
  PROVE  KeepsWritten
<1> DEFINE from(n) == IF n = f THEN l ELSE n
<1>1. /\ raft_term[f] <= raft_term[l]
      /\ raft_term' = [raft_term EXCEPT ![f] = raft_term[l]]
      /\ leads' = [leads EXCEPT ![f] = FALSE]
      /\ log' = [log EXCEPT ![f] = log[l]]
  BY DEF Replicate
<1>2. \A n \in Nodes : raft_term[n] \in Nat
  BY LogShape
<1>3. \A n \in Nodes : raft_term'[n] >= raft_term[n]
  BY <1>1, <1>2, SMTT(30) DEF EngineShape
<1>4. \A t \in Nat : Voted(t) => Voted(t)'
  BY <1>3, VotesGrow
<1>5. \A n \in Nodes :
        /\ leads'[n] => n # f /\ leads[n] /\ raft_term'[n] = raft_term[n]
        /\ from(n) \in Nodes /\ log'[n] = log[from(n)]
        /\ \A i, t : Holds(n, i, t)' <=> Holds(from(n), i, t)
  BY <1>1 DEF EngineShape, Holds, TermAt
<1>6. \A n \in Nodes : n # f => from(n) = n
  OBVIOUS
<1> HIDE DEF from
<1>7. ASSUME NEW i \in Nat, NEW t \in Nat, Written(i, t) PROVE Written(i, t)'
  <2>1. ASSUME NEW k \in Nodes, leads'[k], raft_term'[k] = t
        PROVE  Holds(k, i, t)'
    BY <1>5, <1>6, <1>7, <2>1, SMTT(30) DEF Written
  <2>2. ASSUME NEW m \in Nodes, Holds(m, i, t)' PROVE log'[m][i] = Command(t)
    BY <1>5, <1>7, <2>2 DEF Written
  <2> QED BY <1>4, <1>7, <2>1, <2>2 DEF Written
<1> QED BY <1>7 DEF KeepsWritten

LEMMA AppendWritten ==
  ASSUME EngineShape, EngineShape', NEW n \in Nodes, NEW e \in Entries,
         log' = [log EXCEPT ![n] = Append(@, e)],
         \A m \in Nodes : raft_term'[m] >= raft_term[m],
         \A m \in Nodes \ {n} : leads'[m] => leads[m] /\ raft_term'[m] = raft_term[m],
         raft_term'[n] = e.term,
         \A i, t \in Nat : Written(i, t) /\ e.term = t => Holds(n, i, t)
  PROVE  KeepsWritten
<1>1. \A t \in Nat : Voted(t) => Voted(t)'
  BY VotesGrow
<1>2. PICK w \in Nat : w = Len(log[n])
  BY LogShape
<1>3. Grown(n, e, w)
  BY <1>2, Appended
<1>4. ASSUME NEW i \in Nat, NEW t \in Nat, Written(i, t) PROVE Written(i, t)'
  <2>1. ASSUME NEW k \in Nodes, leads'[k], raft_term'[k] = t
        PROVE  Holds(k, i, t)'
    <3>1. Holds(k, i, t)
      BY <1>4, <2>1 DEF Written
    <3> QED BY <1>3, <3>1 DEF Grown
  <2>2. ASSUME NEW m \in Nodes, Holds(m, i, t)' PROVE log'[m][i] = Command(t)
    <3>1. CASE i \in 1..Len(log[m])
      <4>1. Holds(m, i, t) /\ log'[m][i] = log[m][i]
        BY <1>3, <2>2, <3>1, SMTT(30) DEF Grown, Holds
      <4> QED BY <1>4, <4>1 DEF Written
    <3>2. CASE m = n /\ i = w + 1
      <4>1. e.term = t
        BY <1>3, <2>2, <3>2 DEF Grown, Holds
      <4>2. Holds(n, i, t)
        BY <1>4, <4>1
      <4> QED BY <1>2, <3>2, <4>2, SMTT(30) DEF Holds
    <3> QED BY <1>3, <2>2, <3>1, <3>2, SMTT(30) DEF Grown, Holds
  <2> QED BY <1>1, <1>4, <2>1, <2>2 DEF Written
<1> QED BY <1>4 DEF KeepsWritten

-----------------------------------------------------------------------------
(* Answers, replicas and requests *)

LEMMA AnswersStay ==
  ASSUME RaftInv, KeepsChosen, NEW a, AnswerOK(a)
  PROVE  AnswerOK(a)'
<1>1. PICK c \in Nat, t \in Nat, p \in Nodes :
        /\ Chosen(c, t) /\ Holds(p, c, t) /\ t <= a[3]
        /\ a[1] \in 1..c /\ log[p][a[1]] = Command(a[2])
  BY DEF AnswerOK
<1>2. /\ Chosen(c, t)' /\ Holds(p, c, t)'
      /\ \A j \in 1..c : log'[p][j] = log[p][j]
  BY <1>1 DEF KeepsChosen
<1> QED BY <1>1, <1>2 DEF AnswerOK

LEMMA RequestStays ==
  ASSUME EngineShape, EngineShape', KeepsWritten, acknowledged \subseteq acknowledged',
         \A n \in Nodes : raft_term'[n] >= raft_term[n],
         NEW n \in Nodes, request'[n] = request[n], RequestOK(n)
  PROVE  RequestOK(n)'
<1>1. PICK r \in RequestRecords : r = request[n] /\ r = request'[n]
  BY DEF RequestOK
<1>2. r.entry[1] \in Nat /\ r.entry[2] \in Nat /\ r.term \in Nat
  BY <1>1, ClusterAssumption, SMTT(30) DEF RequestRecords
<1>3. r.term <= raft_term'[n]
  <2>1. raft_term[n] \in Nat /\ raft_term'[n] \in Nat
    BY ClusterAssumption, SMTT(30) DEF EngineShape, Terms
  <2> QED BY <1>1, <1>2, <2>1, SMTT(30) DEF RequestOK
<1>4. r.pc = "waiting" => Written(r.entry[1], r.entry[2])'
  <2>1. PICK i \in Nat, t \in Nat : i = r.entry[1] /\ t = r.entry[2]
    BY <1>2
  <2>2. r.pc = "waiting" => Written(i, t)
    BY <1>1, <2>1 DEF RequestOK
  <2>3. r.pc = "waiting" => Written(i, t)'
    BY <2>2 DEF KeepsWritten
  <2> QED BY <2>1, <2>3
<1> QED BY <1>1, <1>3, <1>4 DEF RequestOK

\* A step that keeps the logs in order, and moves at most one request.
LEMMA StepKeeps ==
  ASSUME ClusterInv, RaftInv', KeepsChosen, KeepsWritten,
         \A n \in Nodes : raft_term'[n] >= raft_term[n],
         \A n \in Nodes : committed'[n] >= committed[n],
         applied' = applied, broker_term' = broker_term,
         acknowledged' = acknowledged,
         failed' \in SUBSET Nodes, fail_stopped' \in SUBSET Nodes,
         request' \in [Nodes -> RequestRecords],
         \A n \in Nodes : request'[n] = request[n] \/ RequestOK(n)'
  PROVE  ClusterInv'
<1>1. EngineShape /\ EngineShape'
  BY DEF ClusterInv, RaftInv, LogInv
<1>2. \A n \in Nodes : /\ raft_term[n] \in Nat /\ raft_term'[n] \in Nat
                       /\ committed[n] \in Nat /\ committed'[n] \in Nat
  BY <1>1, ClusterAssumption, SMTT(30) DEF EngineShape, Terms
<1>3. \A n \in Nodes : RequestOK(n)'
  BY <1>1, RequestStays DEF ClusterInv
<1>4. ASSUME NEW n \in Nodes PROVE ReplicaOK(n)'
  <2>1. ReplicaOK(n) /\ applied[n] \in Nat /\ broker_term[n] \in Nat
    BY ClusterAssumption, SMTT(30) DEF ClusterInv, Terms
  <2> QED BY <1>2, <2>1, SMTT(30) DEF ReplicaOK
<1>5. \A a \in acknowledged' : AnswerOK(a)'
  BY AnswersStay DEF ClusterInv
<1> QED BY <1>3, <1>4, <1>5 DEF ClusterInv

-----------------------------------------------------------------------------
(* Steps of the whole *)

LEMMA ElectKeeps ==
  ASSUME ClusterInv, NEW n \in Nodes, NEW Q \in Quorums, NEW t \in Terms,
         Elect(n, Q, t)
  PROVE  ClusterInv'
<1>1. RaftInv /\ EngineShape
  BY DEF ClusterInv, RaftInv, LogInv
<1>2. RaftInv' /\ KeepsChosen
  BY <1>1, ElectStep
<1>3. EngineShape'
  BY <1>2 DEF RaftInv, LogInv
<1>4. /\ n \in Q /\ \A m \in Q : raft_term[m] < t
      /\ raft_term' = [m \in Nodes |-> IF m \in Q THEN t ELSE raft_term[m]]
      /\ leads' = [m \in Nodes |-> m = n \/ (leads[m] /\ m \notin Q)]
      /\ log' = [log EXCEPT ![n] = Append(@, Blank(t))]
      /\ committed' = committed /\ failed' = failed /\ applied' = applied
      /\ broker_term' = broker_term /\ request' = request
      /\ fail_stopped' = fail_stopped /\ acknowledged' = acknowledged
  BY DEF Elect, replica, adapter
<1>5. Q \in SUBSET Nodes /\ IsMajority(Q) /\ t \in Nat
  BY ClusterAssumption, SMTT(30) DEF Quorums, Terms
<1>6. \A m \in Nodes : raft_term[m] \in Nat /\ committed[m] \in Nat
  BY <1>1, LogShape DEF EngineShape
<1>7. PICK e \in Entries : e = Blank(t) /\ e.term = t
  <2>1. Blank(t) \in Entries
    BY DEF Entries, Blanks
  <2>2. Blank(t).term = t
    BY DEF Blank
  <2> QED BY <2>1, <2>2
<1>8. \A m \in Nodes : raft_term'[m] >= raft_term[m]
  BY <1>4, <1>5, <1>6, SMTT(30)
<1>9. ASSUME NEW i \in Nat, NEW u \in Nat, Written(i, u), e.term = u
      PROVE  Holds(n, i, u)
  <2>1. IsMajority(Voters(u)) /\ Voters(u) \in SUBSET Nodes
    BY <1>9 DEF Written, Voted, Voters
  <2>2. PICK q \in Nodes : q \in Q /\ q \in Voters(u)
    BY <1>5, <2>1, Intersect
  <2> QED BY <1>4, <1>6, <1>7, <1>9, <2>2, SMTT(30) DEF Voters
<1>10. KeepsWritten
  <2>1. \A m \in Nodes \ {n} : leads'[m] => leads[m] /\ raft_term'[m] = raft_term[m]
    BY <1>4
  <2>2. raft_term'[n] = e.term /\ log' = [log EXCEPT ![n] = Append(@, e)]
    BY <1>4, <1>7
  <2> QED BY <1>1, <1>3, <1>8, <1>9, <2>1, <2>2, AppendWritten
<1>11. \A m \in Nodes : committed'[m] >= committed[m]
  BY <1>4, <1>6, SMTT(30)
<1>12. request' \in [Nodes -> RequestRecords] /\ failed' \in SUBSET Nodes
       /\ fail_stopped' \in SUBSET Nodes
  BY <1>4 DEF ClusterInv
<1> QED BY <1>2, <1>4, <1>8, <1>10, <1>11, <1>12, StepKeeps

LEMMA ReplicateKeeps ==
  ASSUME ClusterInv, NEW l \in Nodes, NEW f \in Nodes, Replicate(l, f)
  PROVE  ClusterInv'
<1>1. RaftInv /\ EngineShape
  BY DEF ClusterInv, RaftInv, LogInv
<1>2. RaftInv' /\ KeepsChosen
  BY <1>1, ReplicateStep
<1>3. EngineShape'
  BY <1>2 DEF RaftInv, LogInv
<1>4. KeepsWritten
  BY <1>1, <1>3, ReplicateWritten
<1>5. /\ raft_term[f] <= raft_term[l]
      /\ raft_term' = [raft_term EXCEPT ![f] = raft_term[l]]
      /\ committed' = [committed EXCEPT ![f] = Max({committed[f], committed[l]})]
      /\ failed' = failed /\ applied' = applied
      /\ broker_term' = broker_term /\ request' = request
      /\ fail_stopped' = fail_stopped /\ acknowledged' = acknowledged
  BY DEF Replicate, replica, adapter
<1>6. \A m \in Nodes : raft_term[m] \in Nat /\ committed[m] \in Nat
  BY <1>1, LogShape DEF EngineShape
<1>7. Max({committed[f], committed[l]}) =
        IF committed[f] >= committed[l] THEN committed[f] ELSE committed[l]
  BY <1>6, LargerOfTwo
<1>8. /\ \A m \in Nodes : raft_term'[m] >= raft_term[m]
      /\ \A m \in Nodes : committed'[m] >= committed[m]
  BY <1>1, <1>5, <1>6, <1>7, SMTT(30) DEF EngineShape
<1>9. request' \in [Nodes -> RequestRecords] /\ failed' \in SUBSET Nodes
      /\ fail_stopped' \in SUBSET Nodes
  BY <1>5 DEF ClusterInv
<1> QED BY <1>2, <1>4, <1>5, <1>8, <1>9, StepKeeps

LEMMA AdvanceCommitKeeps ==
  ASSUME ClusterInv, NEW l \in Nodes, NEW i \in Nat, AdvanceCommit(l, i)
  PROVE  ClusterInv'
<1>1. RaftInv /\ EngineShape
  BY DEF ClusterInv, RaftInv, LogInv
<1>2. RaftInv' /\ KeepsChosen
  BY <1>1, AdvanceCommitStep
<1>3. EngineShape'
  BY <1>2 DEF RaftInv, LogInv
<1>4. /\ i \in (committed[l] + 1)..Len(log[l])
      /\ committed' = [committed EXCEPT ![l] = i]
      /\ raft_term' = raft_term /\ leads' = leads /\ log' = log
      /\ failed' = failed /\ applied' = applied
      /\ broker_term' = broker_term /\ request' = request
      /\ fail_stopped' = fail_stopped /\ acknowledged' = acknowledged
  BY DEF AdvanceCommit, replica, adapter
<1>5. \A m \in Nodes : raft_term[m] \in Nat /\ committed[m] \in Nat
  BY <1>1, LogShape DEF EngineShape
<1>6. /\ \A m \in Nodes : raft_term'[m] >= raft_term[m]
      /\ \A m \in Nodes : committed'[m] >= committed[m]
  BY <1>1, <1>4, <1>5, SMTT(30) DEF EngineShape
<1>7. KeepsWritten
  BY <1>1, <1>3, <1>4, <1>6, QuietWritten
<1>8. request' \in [Nodes -> RequestRecords] /\ failed' \in SUBSET Nodes
      /\ fail_stopped' \in SUBSET Nodes
  BY <1>4 DEF ClusterInv
<1> QED BY <1>2, <1>4, <1>6, <1>7, <1>8, StepKeeps

\* A request that neither waits for its entry nor for its state to catch up.
GoodRequest(n, r) ==
  /\ r \in RequestRecords /\ r.pc \notin {"waiting", "catching_up"}
  /\ r.term <= raft_term[n]
  /\ r.pc \in {"read", "advancing"} => r.term # 0
  /\ r.pc = "advancing" => r.expected # 0
  /\ r.floor \subseteq acknowledged

\* Whatever a controller does without the engine.
LEMMA QuietKeeps ==
  ASSUME ClusterInv, log' = log, committed' = committed, raft_term' = raft_term,
         leads' \in [Nodes -> BOOLEAN], \A m \in Nodes : leads'[m] => leads[m],
         applied' = applied, broker_term' = broker_term,
         acknowledged' = acknowledged,
         failed' \in SUBSET Nodes, fail_stopped' \in SUBSET Nodes,
         \/ request' = request
         \/ \E n \in Nodes : \E r :
              GoodRequest(n, r) /\ request' = [request EXCEPT ![n] = r]
  PROVE  ClusterInv'
<1>1. RaftInv /\ EngineShape
  BY DEF ClusterInv, RaftInv, LogInv
<1>2. EngineShape'
  BY <1>1 DEF EngineShape
<1>3. \A m \in Nodes : raft_term[m] \in Nat /\ committed[m] \in Nat
  BY <1>1, LogShape DEF EngineShape
<1>4. /\ \A m \in Nodes : raft_term'[m] >= raft_term[m]
      /\ \A m \in Nodes : committed'[m] >= committed[m]
      /\ \A m \in Nodes : leads'[m] => leads[m] /\ raft_term'[m] = raft_term[m]
  BY <1>3, SMTT(30)
<1>5. RaftInv' /\ KeepsChosen
  BY <1>1, <1>2, <1>4, QuietStep
<1>6. KeepsWritten
  BY <1>1, <1>2, <1>4, QuietWritten
<1>7. /\ request' \in [Nodes -> RequestRecords]
      /\ \A m \in Nodes : request'[m] = request[m] \/ RequestOK(m)'
  <2>1. CASE request' = request
    BY <2>1 DEF ClusterInv
  <2>2. ASSUME NEW n \in Nodes, NEW r, GoodRequest(n, r),
               request' = [request EXCEPT ![n] = r]
        PROVE  /\ request' \in [Nodes -> RequestRecords]
               /\ \A m \in Nodes : request'[m] = request[m] \/ RequestOK(m)'
    <3>1. request' \in [Nodes -> RequestRecords] /\ request'[n] = r
      BY <2>2 DEF ClusterInv, GoodRequest
    <3>2. RequestOK(n)'
      BY <2>2, <3>1 DEF RequestOK, GoodRequest
    <3> QED BY <2>2, <3>1, <3>2 DEF ClusterInv
  <2> QED BY <2>1, <2>2
<1> QED BY <1>4, <1>5, <1>6, <1>7, StepKeeps

\* The requests a controller starts from.
LEMMA FreshRequest ==
  ASSUME ClusterInv, NEW n \in Nodes,
         NEW pc \in {"idle", "down", "checked", "opening", "confirming"},
         NEW kind \in Kinds \cup {"startup", None},
         NEW entry \in Nat \X Nat, NEW floor \in SUBSET acknowledged,
         NEW r, r = [pc |-> pc, kind |-> kind, term |-> 0, expected |-> 0,
                     entry |-> entry, floor |-> floor]
  PROVE  GoodRequest(n, r)
<1>1. acknowledged \subseteq Answers /\ raft_term[n] \in Nat
  BY LogShape DEF ClusterInv, AnswerOK, RaftInv, LogInv
<1>2. r \in RequestRecords
  BY <1>1, ClusterAssumption, SMTT(30) DEF RequestRecords, Pcs
<1>3. /\ r.pc = pc /\ r.term = 0 /\ r.floor = floor
  OBVIOUS
<1> QED BY <1>1, <1>2, <1>3, SMTT(30) DEF GoodRequest

LEMMA Fails ==
  ASSUME ClusterInv, NEW n \in Nodes, NEW code, Fail(n, code)
  PROVE  /\ fail_stopped' \in SUBSET Nodes
         /\ \E r : GoodRequest(n, r) /\ request' = [request EXCEPT ![n] = r]
<1>1. fail_stopped \in SUBSET Nodes
  BY DEF ClusterInv
<1>2. <<0, 0>> \in Nat \X Nat /\ {} \in SUBSET acknowledged
  OBVIOUS
<1>3. PICK r : r = NoRequest /\ GoodRequest(n, r)
  <2>1. PICK q : q = NoRequest
    OBVIOUS
  <2>2. q = [pc |-> "idle", kind |-> None, term |-> 0, expected |-> 0,
             entry |-> <<0, 0>>, floor |-> {}]
    BY <2>1 DEF NoRequest
  <2> QED BY <2>1, <2>2, <1>2, FreshRequest
<1>4. PICK s : s = [NoRequest EXCEPT !.pc = "down"] /\ GoodRequest(n, s)
  <2>1. PICK q : q = [NoRequest EXCEPT !.pc = "down"]
    OBVIOUS
  <2>2. q = [pc |-> "down", kind |-> None, term |-> 0, expected |-> 0,
             entry |-> <<0, 0>>, floor |-> {}]
    BY <2>1 DEF NoRequest
  <2> QED BY <2>1, <2>2, <1>2, FreshRequest, SMTT(30)
<1>5. CASE request[n].kind = "startup"
  BY <1>1, <1>4, <1>5 DEF Fail
<1>6. CASE request[n].kind # "startup"
  BY <1>1, <1>3, <1>6 DEF Fail, Finish
<1> QED BY <1>5, <1>6

\* The controller's steps that write nothing.
LEMMA ControllerKeeps ==
  ASSUME ClusterInv, NEW n \in Nodes,
         \/ ReadRaftTerm(n) \/ ReadBrokerTerm(n) \/ WriteRefused(n) \/ WriteLost(n)
         \/ DeadlineElapses(n) \/ AnswerDirectory(n) \/ DirectoryUnavailable(n)
         \/ Observe(n) \/ Restart(n) \/ Open(n) \/ EngineFails(n)
         \/ \E kind \in Kinds : Begin(n, kind)
  PROVE  ClusterInv'
<1>1. /\ EngineShape /\ raft_term[n] \in Terms /\ committed[n] \in Nat
      /\ broker_term[n] \in Terms /\ request \in [Nodes -> RequestRecords]
      /\ failed \in SUBSET Nodes /\ fail_stopped \in SUBSET Nodes
      /\ leads \in [Nodes -> BOOLEAN]
  BY DEF ClusterInv, RaftInv, LogInv, EngineShape
<1>2. PICK old \in RequestRecords : old = request[n] /\ RequestOK(n)
  BY <1>1 DEF ClusterInv
<1>3. <<0, 0>> \in Nat \X Nat /\ {} \in SUBSET acknowledged
  OBVIOUS
<1>4. PICK idle : idle = NoRequest /\ GoodRequest(n, idle)
  <2>1. PICK q : q = NoRequest
    OBVIOUS
  <2>2. q = [pc |-> "idle", kind |-> None, term |-> 0, expected |-> 0,
             entry |-> <<0, 0>>, floor |-> {}]
    BY <2>1 DEF NoRequest
  <2> QED BY <2>1, <2>2, <1>3, FreshRequest
<1>5. CASE /\ \E code : Fail(n, code)
           /\ UNCHANGED <<engine, replica, acknowledged>>
  <2>1. PICK r : GoodRequest(n, r) /\ request' = [request EXCEPT ![n] = r]
    BY <1>5, Fails
  <2>2. fail_stopped' \in SUBSET Nodes
    BY <1>5, Fails
  <2> QED BY <1>1, <1>5, <2>1, <2>2, QuietKeeps DEF engine, replica
<1>6. ASSUME UNCHANGED <<engine, replica, acknowledged, fail_stopped>>,
             NEW r, GoodRequest(n, r), request' = [request EXCEPT ![n] = r]
      PROVE  ClusterInv'
  BY <1>1, <1>6, QuietKeeps DEF engine, replica
<1>7. CASE ReadRaftTerm(n)
  <2>1. CASE n \in failed
    BY <1>5, <1>7, <2>1 DEF ReadRaftTerm
  <2>2. CASE n \notin failed
    <3>1. PICK r : r = [old EXCEPT !.pc = "read", !.term = raft_term[n]]
      OBVIOUS
    <3>2. GoodRequest(n, r)
      <4>1. r \in RequestRecords
        <5>1. raft_term[n] \in 0..MaxRaftTerm /\ "read" \in Pcs
          BY <1>1, ClusterAssumption, SMTT(30) DEF Terms, Pcs
        <5> QED BY <3>1, <5>1 DEF RequestRecords
      <4>2. r.pc = "read" /\ r.term = raft_term[n] /\ r.floor = old.floor
        BY <3>1 DEF RequestRecords
      <4>3. raft_term[n] \in Nat \ {0} /\ old.floor \subseteq acknowledged
        BY <1>1, <1>2, ClusterAssumption, SMTT(30) DEF Terms, RequestOK
      <4> QED BY <4>1, <4>2, <4>3, SMTT(30) DEF GoodRequest
    <3>3. request' = [request EXCEPT ![n] = r]
      BY <1>1, <1>2, <1>7, <2>2, <3>1 DEF ReadRaftTerm
    <3> QED BY <1>6, <1>7, <2>2, <3>2, <3>3 DEF ReadRaftTerm
  <2> QED BY <2>1, <2>2
<1>8. CASE ReadBrokerTerm(n)
  <2>1. CASE request[n].term < broker_term[n]
    <3>1. Fail(n, "PersistenceError")
      BY <1>1, <1>2, <1>8, <2>1, ClusterAssumption, SMTT(30)
         DEF ReadBrokerTerm, RequestRecords, Terms
    <3> QED BY <1>5, <1>8, <3>1 DEF ReadBrokerTerm
  <2>2. CASE request[n].term = broker_term[n]
    <3>1. Synchronised(n) /\ UNCHANGED <<engine, replica, acknowledged, fail_stopped>>
      BY <1>1, <1>2, <1>8, <2>2, ClusterAssumption, SMTT(30)
         DEF ReadBrokerTerm, RequestRecords, Terms
    <3>2. CASE Finish(n)
      BY <1>4, <1>6, <3>1, <3>2 DEF Finish
    <3>3. CASE Goto(n, "writing")
      <4>1. PICK r : r = [old EXCEPT !.pc = "writing"]
        OBVIOUS
      <4>2. GoodRequest(n, r)
        BY <1>2, <4>1 DEF GoodRequest, RequestRecords, RequestOK, Pcs
      <4>3. request' = [request EXCEPT ![n] = r]
        BY <1>1, <1>2, <3>3, <4>1 DEF Goto
      <4> QED BY <1>6, <3>1, <4>2, <4>3
    <3> QED BY <3>1, <3>2, <3>3 DEF Synchronised
  <2>3. CASE request[n].term > broker_term[n]
    <3>1. PICK r : r = [old EXCEPT !.pc = "advancing", !.expected = broker_term[n]]
      OBVIOUS
    <3>2. At(n, "read")
      BY <1>8 DEF ReadBrokerTerm
    <3>3. GoodRequest(n, r)
      <4>1. r \in RequestRecords
        <5>1. broker_term[n] \in 0..MaxRaftTerm /\ "advancing" \in Pcs
          BY <1>1, ClusterAssumption, SMTT(30) DEF Terms, Pcs
        <5> QED BY <3>1, <5>1 DEF RequestRecords
      <4>2. /\ r.pc = "advancing" /\ r.term = old.term
            /\ r.expected = broker_term[n] /\ r.floor = old.floor
        BY <3>1 DEF RequestRecords
      <4>3. /\ broker_term[n] # 0 /\ old.term # 0 /\ old.term <= raft_term[n]
            /\ old.floor \subseteq acknowledged
        BY <1>1, <1>2, <3>2, ClusterAssumption, SMTT(30) DEF Terms, RequestOK, At
      <4> QED BY <4>1, <4>2, <4>3 DEF GoodRequest
    <3>4. /\ request' = [request EXCEPT ![n].pc = "advancing",
                                        ![n].expected = broker_term[n]]
          /\ UNCHANGED <<engine, replica, acknowledged, fail_stopped>>
      BY <1>1, <1>2, <1>8, <2>3, ClusterAssumption, SMTT(30)
         DEF ReadBrokerTerm, RequestRecords, Terms
    <3>5. request' = [request EXCEPT ![n] = r]
      BY <1>1, <1>2, <3>1, <3>4
    <3> QED BY <1>6, <3>3, <3>4, <3>5
  <2>4. request[n].term \in Nat /\ broker_term[n] \in Nat
    BY <1>1, <1>2, ClusterAssumption, SMTT(30) DEF RequestRecords, Terms
  <2> QED BY <2>1, <2>2, <2>3, <2>4, SMTT(30)
<1>9. CASE WriteRefused(n)
  BY <1>5, <1>9 DEF WriteRefused
<1>10. CASE WriteLost(n)
  BY <1>5, <1>10 DEF WriteLost
<1>11. CASE DeadlineElapses(n)
  BY <1>5, <1>11 DEF DeadlineElapses, AnsweredAtDeadline
<1>12. CASE AnswerDirectory(n)
  BY <1>4, <1>6, <1>12 DEF AnswerDirectory, Finish
<1>13. CASE DirectoryUnavailable(n)
  BY <1>5, <1>13 DEF DirectoryUnavailable
<1>14. CASE Open(n)
  <2>1. CASE leads[n]
    <3>1. PICK r : r = [NoRequest EXCEPT !.pc = "checked", !.kind = "startup"]
      OBVIOUS
    <3>2. r = [pc |-> "checked", kind |-> "startup", term |-> 0, expected |-> 0,
               entry |-> <<0, 0>>, floor |-> {}]
      BY <3>1 DEF NoRequest
    <3>3. GoodRequest(n, r)
      BY <1>3, <3>2, FreshRequest
    <3> QED BY <1>6, <1>14, <2>1, <3>1, <3>3 DEF Open
  <2>2. CASE ~leads[n]
    BY <1>4, <1>6, <1>14, <2>2 DEF Open, Finish
  <2> QED BY <2>1, <2>2
<1>15. CASE \E kind \in Kinds : Begin(n, kind)
  <2>1. PICK kind \in Kinds : Begin(n, kind)
    BY <1>15
  <2>2. PICK pc \in {"checked", "confirming"}, floor \in SUBSET acknowledged :
          /\ pc = IF kind = "directory" THEN "confirming" ELSE "checked"
          /\ floor = IF kind = "directory" THEN acknowledged ELSE {}
    <3>1. CASE kind = "directory"
      BY <3>1
    <3>2. CASE kind # "directory"
      BY <3>2
    <3> QED BY <3>1, <3>2
  <2>3. PICK r : r = [NoRequest EXCEPT !.kind = kind, !.pc = pc, !.floor = floor]
    OBVIOUS
  <2>4. r = [pc |-> pc, kind |-> kind, term |-> 0, expected |-> 0,
             entry |-> <<0, 0>>, floor |-> floor]
    BY <2>3 DEF NoRequest
  <2>6. GoodRequest(n, r)
    BY <1>3, <2>4, FreshRequest
  <2>7. request' = [request EXCEPT ![n] = r]
    BY <2>1, <2>2, <2>3 DEF Begin
  <2> QED BY <1>6, <2>1, <2>6, <2>7 DEF Begin
<1>16. CASE Observe(n)
  <2>1. fail_stopped' \in SUBSET Nodes
    BY <1>1, <1>16 DEF Observe
  <2> QED BY <1>1, <1>16, <2>1, QuietKeeps DEF Observe, engine, replica
<1>17. CASE Restart(n)
  <2>1. PICK r : r = [NoRequest EXCEPT !.pc = "opening", !.kind = "startup",
                                       !.entry = <<committed[n], 0>>]
    OBVIOUS
  <2>2. PICK entry \in Nat \X Nat : entry = <<committed[n], 0>>
    BY <1>1
  <2>4. r = [pc |-> "opening", kind |-> "startup", term |-> 0, expected |-> 0,
             entry |-> entry, floor |-> {}]
    BY <2>1, <2>2 DEF NoRequest
  <2>5. GoodRequest(n, r)
    BY <1>3, <2>4, FreshRequest
  <2>6. /\ leads' \in [Nodes -> BOOLEAN] /\ \A m \in Nodes : leads'[m] => leads[m]
        /\ failed' \in SUBSET Nodes /\ fail_stopped' \in SUBSET Nodes
    BY <1>1, <1>17 DEF Restart
  <2>7. request' = [request EXCEPT ![n] = r]
    BY <1>17, <2>1 DEF Restart
  <2> QED BY <1>17, <2>5, <2>6, <2>7, QuietKeeps DEF Restart, replica
<1>18. CASE EngineFails(n)
  <2>1. failed' \in SUBSET Nodes
    BY <1>1, <1>18 DEF EngineFails
  <2> QED BY <1>1, <1>18, <2>1, QuietKeeps DEF EngineFails, replica, adapter
<1> QED BY <1>7, <1>8, <1>9, <1>10, <1>11, <1>12, <1>13, <1>14, <1>15, <1>16,
           <1>17, <1>18

\* An entry a leader has just appended is the only one with its index and term.
LEMMA JustWritten ==
  ASSUME LogInv, LogInv', NEW n \in Nodes, leads[n], leads' = leads,
         raft_term' = raft_term, NEW t \in Terms, t = raft_term[n],
         NEW w \in Nat, w = Len(log[n]), Grown(n, Command(t), w)
  PROVE  Written(w + 1, t)'
<1>1. /\ \A m \in Nodes : m # n => log'[m] = log[m]
      /\ Len(log'[n]) = w + 1 /\ log'[n][w + 1] = Command(t)
  BY DEF Grown
<1>2. TermAt(n, w + 1)' = t
  BY DEF Grown, Command
<1>3. Holds(n, w + 1, t)'
  BY <1>1, <1>2, SMTT(30) DEF Holds
<1>4. Voted(t)'
  BY <1>1, <1>2, SMTT(30) DEF LogInv, LogsVoted
<1>5. \A l \in Nodes : leads'[l] /\ raft_term'[l] = t => Holds(l, w + 1, t)'
  BY <1>3 DEF LogInv, OneLeader
<1>6. ASSUME NEW m \in Nodes, Holds(m, w + 1, t)', m # n
      PROVE  FALSE
  <2>1. Holds(m, w + 1, t)
    BY <1>1, <1>6 DEF Holds, TermAt
  <2>2. Holds(n, w + 1, t)
    BY <2>1 DEF LogInv, LeadersHold, Holds
  <2> QED BY <2>2, SMTT(30) DEF Holds
<1> QED BY <1>1, <1>4, <1>5, <1>6 DEF Written

LEMMA ClientWriteKeeps ==
  ASSUME ClusterInv, NEW n \in Nodes, NEW t \in Terms, t = raft_term[n],
         NEW e \in Entries, e.term = t,
         NEW pc \in {"syncing", "waiting"}, pc = "waiting" => e = Command(t),
         ClientWrite(n, e, pc)
  PROVE  ClusterInv'
<1>1. RaftInv /\ LogInv /\ EngineShape
  BY DEF ClusterInv, RaftInv, LogInv
<1>2. PICK w \in Nat : w = Len(log[n])
  BY <1>1, LogShape
<1>3. /\ leads[n] /\ w < MaxLog
      /\ log' = [log EXCEPT ![n] = Append(@, e)]
      /\ request' = [request EXCEPT ![n].pc = pc, ![n].entry = <<w + 1, t>>]
      /\ raft_term' = raft_term /\ leads' = leads /\ committed' = committed
      /\ failed' = failed /\ applied' = applied /\ broker_term' = broker_term
      /\ fail_stopped' = fail_stopped /\ acknowledged' = acknowledged
  BY <1>2 DEF ClientWrite, replica
<1>4. RaftInv' /\ KeepsChosen
  BY <1>1, <1>2, <1>3, WriteStep
<1>5. LogInv' /\ EngineShape'
  BY <1>4 DEF RaftInv, LogInv
<1>6. \A m \in Nodes : raft_term[m] \in Nat /\ committed[m] \in Nat
  BY <1>1, LogShape DEF EngineShape
<1>7. /\ \A m \in Nodes : raft_term'[m] >= raft_term[m]
      /\ \A m \in Nodes : committed'[m] >= committed[m]
  BY <1>3, <1>6, SMTT(30)
<1>8. KeepsWritten
  <2>1. \A i, u \in Nat : Written(i, u) /\ e.term = u => Holds(n, i, u)
    BY <1>3 DEF Written
  <2>2. \A m \in Nodes \ {n} : leads'[m] => leads[m] /\ raft_term'[m] = raft_term[m]
    BY <1>3
  <2>3. raft_term'[n] = e.term
    BY <1>3
  <2> QED BY <1>1, <1>3, <1>5, <1>7, <2>1, <2>2, <2>3, AppendWritten
<1>9. PICK old \in RequestRecords : old = request[n] /\ RequestOK(n)
  BY DEF ClusterInv
<1>10. PICK r : r = [old EXCEPT !.pc = pc, !.entry = <<w + 1, t>>]
  OBVIOUS
<1>11. r \in RequestRecords
  <2>1. <<w + 1, t>> \in Nat \X Nat /\ pc \in Pcs
    BY ClusterAssumption, SMTT(30) DEF Terms, Pcs
  <2> QED BY <1>10, <2>1 DEF RequestRecords
<1>12. /\ r.pc = pc /\ r.entry = <<w + 1, t>>
       /\ r.term = old.term /\ r.floor = old.floor
  BY <1>10 DEF RequestRecords
<1>13. request' \in [Nodes -> RequestRecords] /\ request'[n] = r
  BY <1>3, <1>9, <1>10, <1>11 DEF ClusterInv
<1>14. pc = "waiting" => Written(w + 1, t)'
  <2> SUFFICES ASSUME e = Command(t) PROVE Written(w + 1, t)'
    OBVIOUS
  <2>1. Grown(n, e, w)
    BY <1>1, <1>2, <1>3, Appended
  <2> QED BY <1>1, <1>2, <1>3, <1>5, <2>1, JustWritten
<1>15. RequestOK(n)'
  <2>1. old.term <= raft_term'[n] /\ old.floor \subseteq acknowledged'
    BY <1>3, <1>9 DEF RequestOK
  <2> QED BY <1>11, <1>12, <1>13, <1>14, <2>1, SMTT(30) DEF RequestOK
<1>16. \A m \in Nodes : request'[m] = request[m] \/ RequestOK(m)'
  BY <1>3, <1>15 DEF ClusterInv
<1>17. failed' \in SUBSET Nodes /\ fail_stopped' \in SUBSET Nodes
  BY <1>3 DEF ClusterInv
<1> QED BY <1>3, <1>4, <1>7, <1>8, <1>13, <1>16, <1>17, StepKeeps

LEMMA WriteKeeps ==
  ASSUME ClusterInv, NEW n \in Nodes, WriteAdvance(n) \/ WriteCommand(n)
  PROVE  ClusterInv'
<1>1. PICK t \in Terms : t = raft_term[n]
  BY DEF ClusterInv, RaftInv, LogInv, EngineShape
<1>2. CASE WriteAdvance(n)
  <2>1. PICK e : e = SyncCommand(n)
    OBVIOUS
  <2>2. /\ request[n].term \in Terms /\ request[n].term <= t
        /\ request[n].expected \in Terms
    <3>1. At(n, "advancing") /\ RequestOK(n)
      BY <1>2 DEF WriteAdvance, ClusterInv
    <3>2. /\ request[n].term \in 0..MaxRaftTerm
          /\ request[n].expected \in 0..MaxRaftTerm
      BY <3>1 DEF RequestOK, RequestRecords
    <3> QED BY <1>1, <3>1, <3>2, ClusterAssumption, SMTT(30) DEF RequestOK, At, Terms
  <2>3. e \in Advancements /\ e.new <= e.term /\ e.term = t
    BY <1>1, <2>1, <2>2, SMTT(30) DEF SyncCommand, Advancements, AdvanceTerm
  <2>4. e \in Entries
    BY <2>3 DEF Entries
  <2>5. ClientWrite(n, e, "syncing")
    BY <1>2, <2>1 DEF WriteAdvance
  <2> QED BY <1>1, <2>3, <2>4, <2>5, ClientWriteKeeps
<1>3. CASE WriteCommand(n)
  <2>1. PICK e : e = Command(t)
    OBVIOUS
  <2>2. e.term = t
    BY <2>1 DEF Command
  <2>3. e \in Entries
    BY <2>1 DEF Entries, Commands
  <2>4. ClientWrite(n, e, "waiting")
    BY <1>1, <1>3, <2>1 DEF WriteCommand
  <2> QED BY <1>1, <2>1, <2>2, <2>3, <2>4, ClientWriteKeeps
<1> QED BY <1>2, <1>3

\* What was answered before the read began is before the index that has to be
\* applied: the majority that confirms the leader met the one that chose it.
LEMMA ConfirmCovers ==
  ASSUME ClusterInv, NEW n \in Nodes, leads[n],
         NEW Q \in SUBSET Nodes, IsMajority(Q),
         \A m \in Q : raft_term[m] <= raft_term[n],
         NEW own \in SUBSET Nat,
         own = {i \in 1..Len(log[n]) : log[n][i].term = raft_term[n]},
         NEW a \in acknowledged
  PROVE  a[1] \in Nat /\ a[1] <= Max({committed[n], Min(own)})
         /\ Max({committed[n], Min(own)}) \in Nat
<1>1. LogInv /\ EngineShape /\ raft_term[n] \in Nat /\ committed[n] \in Nat
  BY LogShape DEF ClusterInv, RaftInv, LogInv, EngineShape
<1>2. PICK c \in Nat, t \in Nat, p \in Nodes :
        Chosen(c, t) /\ a[1] \in 1..c
  BY DEF ClusterInv, AnswerOK
<1>3. raft_term[n] >= t
  <2>1. IsMajority(Holders(c, t)) /\ Holders(c, t) \in SUBSET Nodes
    BY <1>2 DEF Chosen, Holders
  <2>2. PICK q \in Nodes : q \in Q /\ q \in Holders(c, t)
    BY <2>1, Intersect
  <2>3. t <= raft_term[q] /\ raft_term[q] \in Nat
    BY <1>1, <2>2, LogShape DEF LogInv, LogsVoted, Holders, Holds
  <2> QED BY <1>1, <2>2, <2>3, SMTT(30)
<1>4. own # {}
  <2>1. Len(log[n]) \in 1..Len(log[n]) /\ LastTerm(n) = raft_term[n]
    BY <1>1, LogShape, SMTT(30) DEF LogInv, LeadersWrote
  <2> QED BY <2>1 DEF LastTerm
<1>5. Min(own) \in own /\ Min(own) \in Nat
  BY <1>4, LeastIsMin
<1>6. Max({committed[n], Min(own)}) =
        IF committed[n] >= Min(own) THEN committed[n] ELSE Min(own)
  BY <1>1, <1>5, LargerOfTwo
<1>7. c <= committed[n] \/ c <= Min(own)
  <2>1. CASE raft_term[n] = t
    BY <1>2, <2>1 DEF Chosen
  <2>2. CASE raft_term[n] > t
    <3>1. Holds(n, c, t)
      BY <1>1, <1>2, <1>3, LeaderHasChosen
    <3>2. Min(own) \in 1..Len(log[n]) /\ TermAt(n, Min(own)) = raft_term[n]
      BY <1>5 DEF TermAt
    <3>3. ~(Min(own) <= c)
      <4> SUFFICES ASSUME Min(own) <= c PROVE FALSE
        OBVIOUS
      <4>1. TermAt(n, Min(own)) <= TermAt(n, c)
        BY <1>1, <3>1, <3>2 DEF LogInv, LogsSorted, Holds
      <4> QED BY <1>1, <2>2, <3>1, <3>2, <4>1, SMTT(30) DEF Holds
    <3> QED BY <1>5, <3>3, SMTT(30)
  <2> QED BY <1>1, <1>3, <2>1, <2>2, SMTT(30)
<1> QED BY <1>1, <1>2, <1>5, <1>6, <1>7, SMTT(30)

LEMMA ConfirmKeeps ==
  ASSUME ClusterInv, NEW n \in Nodes, NEW Q \in Quorums, Confirm(n, Q)
  PROVE  ClusterInv'
<1> DEFINE own == {i \in 1..Len(log[n]) : log[n][i].term = raft_term[n]}
           index == Max({committed[n], Min(own)})
<1>1. /\ n \in Q /\ leads[n] /\ \A m \in Q : raft_term[m] <= raft_term[n]
      /\ request' = [request EXCEPT ![n].pc = "catching_up",
                                    ![n].entry = <<index, raft_term[n]>>]
      /\ raft_term' = [m \in Nodes |->
           IF m \in Q THEN Max({raft_term[m], raft_term[n]}) ELSE raft_term[m]]
      /\ leads' = [m \in Nodes |-> leads[m] /\ (m = n \/ m \notin Q)]
      /\ log' = log /\ committed' = committed /\ failed' = failed
      /\ applied' = applied /\ broker_term' = broker_term
      /\ fail_stopped' = fail_stopped /\ acknowledged' = acknowledged
  BY DEF Confirm, HasAuthority, replica
<1>2. RaftInv /\ LogInv /\ EngineShape
  BY DEF ClusterInv, RaftInv, LogInv
<1>3. \A m \in Nodes : /\ raft_term[m] \in Terms /\ raft_term[m] \in Nat
                       /\ committed[m] \in Nat
  BY <1>2, LogShape DEF EngineShape
<1>4. Q \in SUBSET Nodes /\ IsMajority(Q)
  BY DEF Quorums
<1>5. \A m \in Nodes : raft_term'[m] = IF m \in Q THEN raft_term[n] ELSE raft_term[m]
  <2> TAKE m \in Nodes
  <2>1. Max({raft_term[m], raft_term[n]}) =
          IF raft_term[m] >= raft_term[n] THEN raft_term[m] ELSE raft_term[n]
    BY <1>3, LargerOfTwo
  <2> QED BY <1>1, <1>3, <2>1, SMTT(30)
<1>6. /\ \A m \in Nodes : raft_term'[m] >= raft_term[m]
      /\ \A m \in Nodes : committed'[m] >= committed[m]
      /\ \A m \in Nodes : leads'[m] => leads[m] /\ raft_term'[m] = raft_term[m]
  <2>1. \A m \in Nodes : raft_term'[m] >= raft_term[m]
    BY <1>1, <1>3, <1>5, SMTT(30)
  <2>2. \A m \in Nodes : committed'[m] >= committed[m]
    BY <1>1, <1>3, SMTT(30)
  <2>3. \A m \in Nodes : leads'[m] => leads[m] /\ (m = n \/ m \notin Q)
    BY <1>1
  <2> QED BY <1>5, <2>1, <2>2, <2>3
<1>7. EngineShape'
  <2>1. raft_term' \in [Nodes -> Terms]
    BY <1>1, <1>3, <1>5
  <2>2. leads' \in [Nodes -> BOOLEAN]
    BY <1>1, <1>2 DEF EngineShape
  <2> QED BY <1>1, <1>2, <2>1, <2>2 DEF EngineShape
<1>8. RaftInv' /\ KeepsChosen
  BY <1>1, <1>2, <1>6, <1>7, QuietStep
<1>9. KeepsWritten
  BY <1>1, <1>2, <1>6, <1>7, QuietWritten
<1>10. PICK old \in RequestRecords : old = request[n] /\ RequestOK(n)
  BY DEF ClusterInv
<1>11. index \in Nat /\ \A a \in acknowledged : a[1] <= index
  <2>1. own \in SUBSET Nat
    BY SMTT(30)
  <2>2. \A a \in acknowledged : a[1] <= index
    <3> HIDE DEF own
    <3>1. own = {i \in 1..Len(log[n]) : log[n][i].term = raft_term[n]}
      BY DEF own
    <3> QED BY <1>1, <1>4, <2>1, <3>1, ConfirmCovers
  <2>3. own # {}
    <3>1. Len(log[n]) \in 1..Len(log[n]) /\ LastTerm(n) = raft_term[n]
      BY <1>1, <1>2, LogShape, SMTT(30) DEF LogInv, LeadersWrote
    <3> QED BY <3>1 DEF LastTerm
  <2>4. Min(own) \in Nat
    <3> HIDE DEF own
    <3> QED BY <2>1, <2>3, LeastIsMin
  <2>5. index \in Nat
    <3> HIDE DEF own
    <3> QED BY <1>3, <2>4, LargerOfTwo
  <2> QED BY <2>2, <2>5
<1> HIDE DEF index
<1>12. PICK e \in Nat \X Nat : e = <<index, raft_term[n]>>
  BY <1>3, <1>11
<1>13. PICK r : r = [old EXCEPT !.pc = "catching_up", !.entry = e]
  OBVIOUS
<1>14. r \in RequestRecords
  BY <1>13 DEF RequestRecords, Pcs
<1>15. /\ r.pc = "catching_up" /\ r.entry = e
       /\ r.term = old.term /\ r.floor = old.floor
  BY <1>13 DEF RequestRecords
<1>16. request' \in [Nodes -> RequestRecords] /\ request'[n] = r
  BY <1>1, <1>10, <1>12, <1>13, <1>14 DEF ClusterInv
<1>17. RequestOK(n)'
  <2>1. old.floor \subseteq acknowledged' /\ old.term <= raft_term'[n]
    BY <1>1, <1>6, <1>10 DEF RequestOK
  <2>2. \A a \in old.floor : a[1] <= e[1]
    BY <1>1, <1>11, <1>12, <2>1
  <2> QED BY <1>14, <1>15, <1>16, <2>1, <2>2 DEF RequestOK
<1>18. \A m \in Nodes : request'[m] = request[m] \/ RequestOK(m)'
  BY <1>1, <1>17 DEF ClusterInv
<1>19. failed' \in SUBSET Nodes /\ fail_stopped' \in SUBSET Nodes
  BY <1>1 DEF ClusterInv
<1> QED BY <1>1, <1>6, <1>8, <1>9, <1>16, <1>18, <1>19, StepKeeps

\* A replica applies the next entry its engine has committed.
LEMMA ApplyReplica ==
  ASSUME ClusterInv, NEW n \in Nodes, applied[n] < committed[n],
         NEW e, e = log[n][applied[n] + 1],
         applied' = [applied EXCEPT ![n] = applied[n] + 1],
         broker_term' = [broker_term EXCEPT ![n] =
           IF Advances(e, broker_term[n]) THEN e.new ELSE @],
         UNCHANGED engine
  PROVE  /\ applied' \in [Nodes -> Nat] /\ broker_term' \in [Nodes -> Terms]
         /\ \A m \in Nodes : ReplicaOK(m)'
         /\ applied[n] + 1 \in 1..committed[n] /\ committed[n] \in 1..Len(log[n])
         /\ e \in Entries /\ e.term \in Terms /\ e.term <= raft_term[n]
<1>1. LogInv /\ EngineShape /\ CommittedChosen
  BY DEF ClusterInv, RaftInv, LogInv
<1>2. /\ committed[n] \in 1..Len(log[n]) /\ applied[n] \in 1..committed[n]
      /\ Len(log[n]) \in Nat
  BY <1>1, LogShape DEF CommittedChosen, ClusterInv, ReplicaOK
<1>3. /\ applied[n] + 1 \in 1..committed[n]
      /\ applied[n] + 1 \in 1..Len(log[n])
  BY <1>2, SMTT(30)
<1>4. e \in Entries
  BY <1>1, <1>3, LogShape
<1>5. e.term \in Terms /\ (e.kind = "advance" => e.new \in Terms /\ e.new <= e.term)
  BY <1>4, EntryShape
<1>6. e.term <= raft_term[n] /\ raft_term[n] \in Terms
  BY <1>1, <1>3 DEF LogInv, LogsVoted, TermAt, EngineShape
<1>7. /\ broker_term \in [Nodes -> Terms] /\ applied \in [Nodes -> Nat]
      /\ \A m \in Nodes : ReplicaOK(m)
  BY DEF ClusterInv
<1>8. CASE Advances(e, broker_term[n])
  <2>1. e.new \in Terms /\ e.new <= raft_term[n]
    BY <1>5, <1>6, <1>8, ClusterAssumption, SMTT(30) DEF Advances, Terms
  <2>2. broker_term' = [broker_term EXCEPT ![n] = e.new]
    BY <1>8
  <2>3. applied' \in [Nodes -> Nat] /\ broker_term' \in [Nodes -> Terms]
    BY <1>2, <1>7, <2>1, <2>2, SMTT(30)
  <2>4. \A m \in Nodes : ReplicaOK(m)'
    BY <1>3, <1>7, <2>1, <2>2 DEF ReplicaOK, engine
  <2> QED BY <1>2, <1>3, <1>4, <1>5, <1>6, <2>3, <2>4
<1>9. CASE ~Advances(e, broker_term[n])
  <2>1. broker_term' = broker_term
    BY <1>7, <1>9
  <2>2. applied' \in [Nodes -> Nat]
    BY <1>2, <1>7, SMTT(30)
  <2>3. \A m \in Nodes : ReplicaOK(m)'
    BY <1>3, <1>7, <2>1 DEF ReplicaOK, engine
  <2> QED BY <1>2, <1>3, <1>4, <1>5, <1>6, <1>7, <2>1, <2>2, <2>3
<1> QED BY <1>8, <1>9

LEMMA ApplyKeeps ==
  ASSUME ClusterInv, NEW n \in Nodes, Apply(n)
  PROVE  ClusterInv'
<1>1. PICK e : e = log[n][applied[n] + 1]
  OBVIOUS
<1>2. /\ applied[n] < committed[n]
      /\ applied' = [applied EXCEPT ![n] = applied[n] + 1]
      /\ broker_term' = [broker_term EXCEPT ![n] =
           IF Advances(e, broker_term[n]) THEN e.new ELSE @]
      /\ UNCHANGED engine
      /\ \/ UNCHANGED <<adapter, acknowledged>>
         \/ Synchronised(n) /\ UNCHANGED <<fail_stopped, acknowledged>>
         \/ Fail(n, "InternalError") /\ UNCHANGED acknowledged
         \/ /\ request[n].entry = <<applied[n] + 1, e.term>> /\ At(n, "waiting")
            /\ Finish(n)
            /\ acknowledged' =
                 acknowledged \cup {<<applied[n] + 1, e.term, raft_term[n]>>}
            /\ UNCHANGED fail_stopped
  BY <1>1 DEF Apply
<1>3. /\ applied' \in [Nodes -> Nat] /\ broker_term' \in [Nodes -> Terms]
      /\ \A m \in Nodes : ReplicaOK(m)'
      /\ applied[n] + 1 \in 1..committed[n] /\ committed[n] \in 1..Len(log[n])
      /\ e \in Entries /\ e.term \in Terms /\ e.term <= raft_term[n]
  BY <1>1, <1>2, ApplyReplica
<1>4. RaftInv /\ LogInv /\ EngineShape
  BY DEF ClusterInv, RaftInv, LogInv
<1>5. /\ raft_term' = raft_term /\ leads' = leads /\ log' = log
      /\ committed' = committed /\ failed' = failed
  BY <1>2 DEF engine
<1>6. \A m \in Nodes : raft_term[m] \in Nat
  BY <1>4, LogShape
<1>7. /\ EngineShape' /\ \A m \in Nodes : raft_term'[m] >= raft_term[m]
      /\ \A m \in Nodes : leads'[m] => leads[m] /\ raft_term'[m] = raft_term[m]
  BY <1>4, <1>5, <1>6, SMTT(30) DEF EngineShape
<1>8. RaftInv' /\ KeepsChosen
  BY <1>4, <1>5, <1>7, QuietStep
<1>9. KeepsWritten
  BY <1>4, <1>5, <1>7, QuietWritten
<1>10. PICK old \in RequestRecords : old = request[n] /\ RequestOK(n)
  BY DEF ClusterInv
<1>11. PICK idle : idle = NoRequest /\ GoodRequest(n, idle)
  <2>1. PICK q : q = NoRequest
    OBVIOUS
  <2>2. q = [pc |-> "idle", kind |-> None, term |-> 0, expected |-> 0,
             entry |-> <<0, 0>>, floor |-> {}]
    BY <2>1 DEF NoRequest
  <2>3. <<0, 0>> \in Nat \X Nat /\ {} \in SUBSET acknowledged
    OBVIOUS
  <2> QED BY <2>1, <2>2, <2>3, FreshRequest
<1>12. acknowledged \subseteq acknowledged'
  BY <1>2
<1>13. /\ fail_stopped' \in SUBSET Nodes
       /\ \/ request' = request
          \/ \E r : GoodRequest(n, r) /\ request' = [request EXCEPT ![n] = r]
  <2>0. fail_stopped \in SUBSET Nodes
    BY DEF ClusterInv
  <2>1. CASE UNCHANGED <<adapter, acknowledged>>
    BY <2>0, <2>1 DEF adapter
  <2>2. CASE Synchronised(n) /\ UNCHANGED fail_stopped
    <3>1. CASE Finish(n)
      BY <1>11, <2>0, <2>2, <3>1 DEF Finish
    <3>2. CASE Goto(n, "writing")
      <4>1. PICK r : r = [old EXCEPT !.pc = "writing"]
        OBVIOUS
      <4>2. GoodRequest(n, r)
        BY <1>10, <4>1 DEF GoodRequest, RequestRecords, RequestOK, Pcs
      <4>3. request' = [request EXCEPT ![n] = r]
        BY <1>10, <3>2, <4>1 DEF Goto, ClusterInv
      <4> QED BY <2>0, <2>2, <4>2, <4>3
    <3> QED BY <2>2, <3>1, <3>2 DEF Synchronised
  <2>3. CASE Fail(n, "InternalError")
    BY <2>3, Fails
  <2>4. CASE Finish(n) /\ UNCHANGED fail_stopped
    BY <1>11, <2>0, <2>4 DEF Finish
  <2> QED BY <1>2, <2>1, <2>2, <2>3, <2>4
<1>14. request' \in [Nodes -> RequestRecords] /\ \A m \in Nodes : RequestOK(m)'
  <2>1. \A m \in Nodes : request'[m] = request[m] => RequestOK(m)'
    BY <1>4, <1>7, <1>9, <1>12, RequestStays DEF ClusterInv
  <2>2. CASE request' = request
    BY <2>1, <2>2 DEF ClusterInv
  <2>3. ASSUME NEW r, GoodRequest(n, r), request' = [request EXCEPT ![n] = r]
        PROVE  request' \in [Nodes -> RequestRecords] /\ \A m \in Nodes : RequestOK(m)'
    <3>1. request' \in [Nodes -> RequestRecords] /\ request'[n] = r
      BY <2>3 DEF ClusterInv, GoodRequest
    <3>2. RequestOK(n)'
      BY <1>5, <1>12, <2>3, <3>1 DEF RequestOK, GoodRequest
    <3>3. \A m \in Nodes : m # n => request'[m] = request[m]
      BY <2>3 DEF ClusterInv
    <3> QED BY <2>1, <3>1, <3>2, <3>3
  <2> QED BY <1>13, <2>2, <2>3
<1>15. \A a \in acknowledged' : AnswerOK(a)'
  <2>1. \A a \in acknowledged : AnswerOK(a)'
    BY <1>4, <1>8, AnswersStay DEF ClusterInv
  <2>2. ASSUME request[n].entry = <<applied[n] + 1, e.term>>, At(n, "waiting"),
               NEW a, a = <<applied[n] + 1, e.term, raft_term[n]>>
        PROVE  AnswerOK(a)
    <3>1. PICK i \in Nat, t \in Nat : i = applied[n] + 1 /\ t = e.term
      BY <1>3, ClusterAssumption, SMTT(30) DEF Terms
    <3>2. Written(i, t)
      BY <1>10, <2>2, <3>1, SMTT(30) DEF RequestOK, At
    <3>3. Holds(n, i, t)
      BY <1>1, <1>3, <3>1, SMTT(30) DEF Holds, TermAt
    <3>4. log[n][i] = Command(t)
      BY <3>2, <3>3 DEF Written
    <3>5. PICK c \in Nat, u \in Nat : c = committed[n] /\ u = TermAt(n, c)
      BY <1>3, <1>4, LogShape, SMTT(30)
    <3>6. Chosen(c, u) /\ Holds(n, c, u) /\ u <= raft_term[n]
      BY <1>3, <1>4, <3>5
         DEF RaftInv, CommittedChosen, Holds, LogInv, LogsVoted
    <3>7. a \in Answers
      <4>1. applied[n] + 1 \in 1..MaxLog /\ raft_term[n] \in Terms
        BY <1>3, <1>4, ClusterAssumption, SMTT(30) DEF EngineShape
      <4> QED BY <1>3, <2>2, <4>1 DEF Answers
    <3>8. a[1] = i /\ a[2] = t /\ a[3] = raft_term[n] /\ i \in 1..c
      BY <1>3, <2>2, <3>1, <3>5
    <3> QED BY <3>4, <3>6, <3>7, <3>8 DEF AnswerOK
  <2>3. ASSUME NEW a \in acknowledged', a \notin acknowledged
        PROVE  AnswerOK(a)'
    <3>1. AnswerOK(a)
      BY <1>2, <2>2, <2>3
    <3> QED BY <1>4, <1>8, <3>1, AnswersStay
  <2> QED BY <2>1, <2>3
<1>16. failed' \in SUBSET Nodes
  BY <1>5 DEF ClusterInv
<1> QED BY <1>3, <1>8, <1>13, <1>14, <1>15, <1>16 DEF ClusterInv

LEMMA ClusterInit == Init => ClusterInv
<1> SUFFICES ASSUME Init PROVE ClusterInv
  OBVIOUS
<1>1. PICK l \in Nodes : leads = [n \in Nodes |-> n = l]
  BY DEF Init
<1>2. PICK b \in Entries : b = Blank(1) /\ b.term = 1
  <2>1. 1 \in Terms
    BY ClusterAssumption, SMTT(30) DEF Terms
  <2>2. Blank(1) \in Entries
    BY <2>1 DEF Entries, Blanks
  <2>3. Blank(1).term = 1
    BY DEF Blank
  <2> QED BY <2>2, <2>3
<1>3. /\ raft_term = [n \in Nodes |-> 1] /\ log = [n \in Nodes |-> <<b>>]
      /\ committed = [n \in Nodes |-> 1] /\ applied = [n \in Nodes |-> 1]
      /\ broker_term = [n \in Nodes |-> 1]
  BY <1>2 DEF Init
<1>4. /\ 1 \in Terms /\ 1 \in 1..MaxLog
      /\ \A n \in Nodes : Len(log[n]) = 1 /\ log[n][1] = b
      /\ \A n \in Nodes : \A i \in 1..Len(log[n]) : i = 1
  BY <1>3, ClusterAssumption, SMTT(30) DEF Terms
<1>5. EngineShape
  <2>1. log \in [Nodes -> Seq(Entries)]
    BY <1>3, SMTT(30)
  <2> QED BY <1>1, <1>3, <1>4, <2>1 DEF EngineShape
<1>6. \A n \in Nodes : TermAt(n, 1) = 1 /\ LastTerm(n) = 1 /\ Holds(n, 1, 1)
  BY <1>2, <1>4, SMTT(30) DEF TermAt, LastTerm, Holds
<1>7. Voters(1) = Nodes /\ Holders(1, 1) = Nodes
  BY <1>3, <1>6, SMTT(30) DEF Voters, Holders
<1>8. LogInv
  <2>1. LogsSorted /\ LogsStart
    BY <1>4, <1>6 DEF LogsSorted, LogsStart
  <2>2. LogsVoted
    BY <1>3, <1>4, <1>6, <1>7, AllNodes, SMTT(30) DEF LogsVoted, Voted
  <2>3. OneLeader /\ LeadersWrote /\ LeadersHold
    BY <1>1, <1>3, <1>4, <1>6 DEF OneLeader, LeadersWrote, LeadersHold
  <2>4. LogsMatch /\ Elected
    BY <1>4, SMTT(30) DEF LogsMatch, Elected
  <2> QED BY <1>5, <2>1, <2>2, <2>3, <2>4 DEF LogInv
<1>9. Chosen(1, 1)
  BY <1>3, <1>4, <1>6, <1>7, AllNodes, SMTT(30) DEF Chosen
<1>10. RaftInv
  BY <1>3, <1>4, <1>6, <1>8, <1>9, SMTT(30) DEF RaftInv, CommittedChosen
<1>11. PICK r : r = NoRequest
  OBVIOUS
<1>12. r = [pc |-> "idle", kind |-> None, term |-> 0, expected |-> 0,
            entry |-> <<0, 0>>, floor |-> {}]
  BY <1>11 DEF NoRequest
<1>13. r \in RequestRecords
  BY <1>12, ClusterAssumption, SMTT(30) DEF RequestRecords, Pcs
<1>14. request = [n \in Nodes |-> r]
  BY <1>11 DEF Init
<1>15. \A n \in Nodes : RequestOK(n)
  BY <1>3, <1>12, <1>13, <1>14, SMTT(30) DEF RequestOK
<1>16. \A n \in Nodes : ReplicaOK(n)
  BY <1>3, <1>4, SMTT(30) DEF ReplicaOK
<1> QED BY <1>3, <1>4, <1>10, <1>13, <1>14, <1>15, <1>16, SMTT(30) DEF ClusterInv, Init

LEMMA ClusterStep == ClusterInv /\ [Next]_vars => ClusterInv'
<1> SUFFICES ASSUME ClusterInv, [Next]_vars PROVE ClusterInv'
  OBVIOUS
<1>1. CASE UNCHANGED vars
  <2>1. /\ leads \in [Nodes -> BOOLEAN]
        /\ failed \in SUBSET Nodes /\ fail_stopped \in SUBSET Nodes
    BY DEF ClusterInv, RaftInv, LogInv, EngineShape
  <2> QED BY <1>1, <2>1, QuietKeeps DEF vars, engine, replica, adapter
<1>2. ASSUME NEW n \in Nodes, NEW Q \in Quorums, NEW t \in 2..MaxRaftTerm,
             Elect(n, Q, t)
      PROVE  ClusterInv'
  <2>1. t \in Terms
    BY ClusterAssumption, SMTT(30) DEF Terms
  <2> QED BY <1>2, <2>1, ElectKeeps
<1>3. ASSUME NEW l \in Nodes, NEW f \in Nodes, Replicate(l, f) PROVE ClusterInv'
  BY <1>3, ReplicateKeeps
<1>4. ASSUME NEW l \in Nodes, NEW i \in 1..MaxLog, AdvanceCommit(l, i)
      PROVE  ClusterInv'
  BY <1>4, AdvanceCommitKeeps, SMTT(30)
<1>5. ASSUME NEW n \in Nodes, Apply(n) PROVE ClusterInv'
  BY <1>5, ApplyKeeps
<1>6. ASSUME NEW n \in Nodes, WriteAdvance(n) \/ WriteCommand(n) PROVE ClusterInv'
  BY <1>6, WriteKeeps
<1>7. ASSUME NEW n \in Nodes, NEW Q \in Quorums, Confirm(n, Q) PROVE ClusterInv'
  BY <1>7, ConfirmKeeps
<1>8. ASSUME NEW n \in Nodes,
             \/ ReadRaftTerm(n) \/ ReadBrokerTerm(n) \/ WriteRefused(n)
             \/ WriteLost(n) \/ DeadlineElapses(n) \/ AnswerDirectory(n)
             \/ DirectoryUnavailable(n) \/ Observe(n) \/ Restart(n) \/ Open(n)
             \/ EngineFails(n) \/ \E kind \in Kinds : Begin(n, kind)
      PROVE  ClusterInv'
  BY <1>8, ControllerKeeps
<1>9. CASE Engine
  BY <1>2, <1>3, <1>4, <1>5, <1>8, <1>9 DEF Engine
<1>10. CASE Controller
  BY <1>6, <1>7, <1>8, <1>10 DEF Controller
<1> QED BY <1>1, <1>9, <1>10 DEF Next

LEMMA ClusterInvariant == Spec => []ClusterInv
BY ClusterInit, ClusterStep, PTL DEF Spec

\* The engines, replicas and controllers keep their shape; in particular a
\* commit index that a follower kept while it took over a leader's log never
\* points past the end of it.
THEOREM ClusterTypeCorrect == Spec => []TypeOK
<1>1. ClusterInv => TypeOK
  <2> SUFFICES ASSUME ClusterInv PROVE TypeOK
    OBVIOUS
  <2>1. EngineShape /\ CommittedChosen
    BY DEF ClusterInv, RaftInv, LogInv
  <2>2. /\ raft_term \in [Nodes -> 1..MaxRaftTerm] /\ leads \in [Nodes -> BOOLEAN]
        /\ broker_term \in [Nodes -> 1..MaxRaftTerm]
        /\ {failed, fail_stopped} \subseteq SUBSET Nodes
    BY <2>1 DEF EngineShape, ClusterInv, Terms
  <2>3. ASSUME NEW n \in Nodes
        PROVE  /\ Len(log[n]) \in 1..MaxLog
               /\ applied[n] \in 1..committed[n] /\ committed[n] <= Len(log[n])
               /\ request[n].pc \in Pcs
    <3>1. request[n] \in RequestRecords
      BY DEF ClusterInv
    <3>2. request[n].pc \in Pcs
      BY <3>1 DEF RequestRecords
    <3> QED BY <2>1, <3>2, SMTT(30) DEF EngineShape, CommittedChosen, ClusterInv, ReplicaOK
  <2>4. acknowledged \subseteq (1..MaxLog) \X (1..MaxRaftTerm) \X (1..MaxRaftTerm)
    BY DEF ClusterInv, AnswerOK, Answers, Terms
  <2> QED BY <2>2, <2>3, <2>4 DEF TypeOK
<1> QED BY <1>1, ClusterInvariant, PTL

\* On every node the broker's fencing term stays within the term of the
\* engine's vote, although sync_broker_term_to_raft reads the one and writes
\* the other in separate steps, across elections and restarts.
THEOREM BrokerTermNeverAhead == Spec => []BrokerTermWithinRaftTerm
<1>1. ClusterInv => BrokerTermWithinRaftTerm
  BY DEF ClusterInv, ReplicaOK, BrokerTermWithinRaftTerm
<1> QED BY <1>1, ClusterInvariant, PTL

\* A command that execute_cluster answered with its result is in the log of
\* every node that leads the term of that answer or a later one.
THEOREM AnsweredCommandsSurvive == Spec => []AcknowledgedSurvive
<1>1. ClusterInv => AcknowledgedSurvive
  <2> SUFFICES ASSUME ClusterInv, NEW a \in acknowledged, NEW n \in Nodes,
                      leads[n], raft_term[n] >= a[3]
               PROVE  a[1] <= Len(log[n]) /\ log[n][a[1]] = Command(a[2])
    BY DEF AcknowledgedSurvive
  <2>1. LogInv /\ EngineShape /\ raft_term[n] \in Nat
    BY LogShape DEF ClusterInv, RaftInv, LogInv
  <2>2. PICK c \in Nat, t \in Nat, p \in Nodes :
          /\ Chosen(c, t) /\ Holds(p, c, t) /\ t <= a[3]
          /\ a[1] \in 1..c /\ log[p][a[1]] = Command(a[2])
    BY DEF ClusterInv, AnswerOK
  <2>3. a[3] \in Nat
    <3>1. a \in (1..MaxLog) \X Terms \X Terms
      BY DEF ClusterInv, AnswerOK, Answers
    <3> QED BY <3>1, ClusterAssumption, SMTT(30) DEF Terms
  <2>4. Holds(n, c, t)
    <3>1. raft_term[n] >= t
      <4>1. PICK k \in Nat : k = a[3]
        BY <2>3
      <4>2. raft_term[n] >= k /\ t <= k /\ raft_term[n] \in Nat
        BY <2>1, <2>2, <4>1
      <4> QED BY <4>2, SMTT(30)
    <3> QED BY <2>1, <2>2, <3>1, LeaderHasChosen
  <2>5. log[n][a[1]] = log[p][a[1]]
    BY <2>1, <2>2, <2>4, SMTT(30) DEF LogInv, LogsMatch, Holds
  <2> QED BY <2>1, <2>2, <2>4, <2>5, LogShape, SMTT(30) DEF Holds
<1> QED BY <1>1, ClusterInvariant, PTL

\* A group directory is read from a state that has applied every command
\* answered, by any node, before the read began.
THEOREM DirectoryAlwaysFresh == Spec => []DirectoryReadsFresh
<1>1. ClusterInv => DirectoryReadsFresh
  <2> SUFFICES ASSUME ClusterInv, NEW n \in Nodes, At(n, "catching_up"),
                      applied[n] >= request[n].entry[1],
                      NEW a \in request[n].floor
               PROVE  a[1] <= applied[n]
    BY DEF DirectoryReadsFresh
  <2>1. RequestOK(n) /\ applied[n] \in Nat
    BY DEF ClusterInv
  <2>2. a[1] <= request[n].entry[1] /\ a \in Answers
    BY <2>1 DEF RequestOK, At, RequestRecords
  <2>3. a[1] \in Nat /\ request[n].entry[1] \in Nat
    BY <2>1, <2>2, ClusterAssumption, SMTT(30) DEF Answers, RequestOK, RequestRecords
  <2> QED BY <2>1, <2>2, <2>3, SMTT(30)
<1> QED BY <1>1, ClusterInvariant, PTL

\* Two nodes have committed, and so apply, the same entries in the same order.
CommittedAgree ==
  \A n, m \in Nodes : \A i \in 1..Len(log[n]) :
    i <= committed[n] /\ i <= committed[m] => log[n][i] = log[m][i]

\* Whatever is elected, lost or restarted, the brokers of all nodes are fed
\* one sequence of commands.
THEOREM ReplicasAgree == Spec => []CommittedAgree
<1>1. ASSUME ClusterInv, NEW n \in Nodes, NEW m \in Nodes, NEW i \in Nat \ {0},
             i <= committed[n], i <= committed[m],
             TermAt(n, committed[n]) <= TermAt(m, committed[m])
      PROVE  log[n][i] = log[m][i]
  <2>1. LogInv /\ EngineShape
    BY <1>1 DEF ClusterInv, RaftInv, LogInv
  <2>2. /\ committed[n] \in 1..Len(log[n]) /\ committed[m] \in 1..Len(log[m])
        /\ Chosen(committed[n], TermAt(n, committed[n]))
    BY <1>1 DEF ClusterInv, RaftInv, CommittedChosen
  <2>3. PICK c \in Nat, t \in Nat, d \in Nat, u \in Nat :
          /\ c = committed[n] /\ t = TermAt(n, c)
          /\ d = committed[m] /\ u = TermAt(m, d)
    BY <2>1, <2>2, LogShape, SMTT(30)
  <2>4. CASE t < u
    <3>1. Holds(m, c, t)
      BY <2>2, <2>3, <2>4 DEF Chosen
    <3> QED BY <1>1, <2>1, <2>2, <2>3, <3>1, SMTT(30) DEF LogInv, LogsMatch, Holds
  <2>5. CASE t = u /\ c <= d
    <3>1. \A j \in 1..c : log[m][j] = log[n][j]
      <4>1. LogsMatch /\ c \in 1..Len(log[n]) /\ d \in 1..Len(log[m])
        BY <2>1, <2>2, <2>3 DEF LogInv
      <4>2. TermAt(n, c) = TermAt(m, d)
        BY <2>3, <2>5
      <4> QED BY <2>5, <4>1, <4>2 DEF LogsMatch
    <3> QED BY <1>1, <2>3, <3>1, SMTT(30)
  <2>6. CASE t = u /\ d <= c
    <3>1. \A j \in 1..d : log[n][j] = log[m][j]
      <4>1. LogsMatch /\ c \in 1..Len(log[n]) /\ d \in 1..Len(log[m])
        BY <2>1, <2>2, <2>3 DEF LogInv
      <4>2. TermAt(n, c) = TermAt(m, d)
        BY <2>3, <2>6
      <4> QED BY <2>6, <4>1, <4>2 DEF LogsMatch
    <3> QED BY <1>1, <2>3, <3>1, SMTT(30)
  <2> QED BY <1>1, <2>3, <2>4, <2>5, <2>6, SMTT(30)
<1>2. ClusterInv => CommittedAgree
  <2> SUFFICES ASSUME ClusterInv, NEW n \in Nodes, NEW m \in Nodes,
                      NEW i \in 1..Len(log[n]), i <= committed[n], i <= committed[m]
               PROVE  log[n][i] = log[m][i]
    BY DEF CommittedAgree
  <2>1. /\ TermAt(n, committed[n]) \in Nat /\ TermAt(m, committed[m]) \in Nat
        /\ i \in Nat \ {0}
    BY LogShape, SMTT(30) DEF ClusterInv, RaftInv, LogInv, CommittedChosen
  <2>2. \/ TermAt(n, committed[n]) <= TermAt(m, committed[m])
        \/ TermAt(m, committed[m]) <= TermAt(n, committed[n])
    BY <2>1, SMTT(30)
  <2> QED BY <1>1, <2>1, <2>2
<1> QED BY <1>2, ClusterInvariant, PTL

=============================================================================
