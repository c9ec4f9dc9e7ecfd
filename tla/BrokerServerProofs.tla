------------------------ MODULE BrokerServerProofs --------------------------
(***************************************************************************)
(* The two counters of the broker process, for any number of connections,  *)
(* limits and capacities: each step of each thread that moves a job or a   *)
(* connection moves its counter in the same direction, or leaves it to a   *)
(* step that the same thread still owes.                                   *)
(* A job refused by a full queue was never in it.                          *)
(***************************************************************************)
EXTENDS BrokerServer, FiniteSetTheorems, TLAPS

\* The prover of a step that names none.
USE ZenonT(30)

States == ConnStates \cup TimerStates
Counting == {"counted", "saturated", "stopped"}
Outside == {"closed", "dialing"}
Phases == {"top", "polling", "refusing", "returned"}
Received == IF owner = "received" THEN 1 ELSE 0
Refusing(l) == IF listener[l][1] = "refusing" THEN 1 ELSE 0

\* QueuedCountExact over typed state.
JobInv ==
  /\ pc \in [Submitters -> States]
  /\ job \in [Submitters -> Nat]
  /\ queue \in Seq(Submitters \X Nat)
  /\ QueuedCountExact

\* ActiveCountExact over typed state; the connection a listener is refusing
\* is its own, and not served.
ConnInv ==
  /\ pc \in [Submitters -> States]
  /\ listener \in [Servers -> Phases \X (Conns \cup {None})]
  /\ active \in [Servers -> Nat]
  /\ \A l \in Servers : listener[l][1] = "refusing" =>
       /\ listener[l][2] \in Conns /\ ServerOf(listener[l][2]) = l
       /\ pc[listener[l][2]] = "dialing"
  /\ ActiveCountExact

LEMMA Finite ==
  /\ IsFiniteSet(Submitters) /\ Cardinality({}) = 0
  /\ IsFiniteSet(Unsent) /\ Cardinality(Unsent) \in Nat
  /\ \A l \in Servers :
       IsFiniteSet(Served(l)) /\ Cardinality(Served(l)) \in Nat
<1>1. IsFiniteSet(Conns) /\ IsFiniteSet({Timer})
  BY ThreadsAssumption, FS_Union, FS_Singleton DEF Conns
<1>2. IsFiniteSet(Submitters)
  BY <1>1, FS_Union DEF Submitters
<1>3. Unsent \subseteq Submitters /\ \A l \in Servers : Served(l) \subseteq Conns
  BY DEF Unsent, Served
<1>4. IsFiniteSet(Unsent) /\ \A l \in Servers : IsFiniteSet(Served(l))
  BY <1>1, <1>2, <1>3, FS_Subset
<1> QED
  BY <1>2, <1>4, FS_CardinalityType, FS_EmptySet

-----------------------------------------------------------------------------
(* The queued-job counter *)

LEMMA JobInit == Init => JobInv
<1> SUFFICES ASSUME Init PROVE JobInv
  OBVIOUS
<1>1. pc \in [Submitters -> States] /\ job \in [Submitters -> Nat]
  BY DEF Init, States, ConnStates, TimerStates
<1>2. Unsent = {}
  BY DEF Init, Unsent
<1>3. queue \in Seq(Submitters \X Nat) /\ Len(queue) = 0
  BY SMTT(30) DEF Init
<1> QED
  BY <1>1, <1>2, <1>3, Finite, SMTT(30) DEF Init, JobInv, QueuedCountExact

\* A thread's move that the counter does not see.
LEMMA JobQuiet ==
  ASSUME JobInv, NEW s \in Submitters, NEW where \in States, Goto(s, where),
         pc[s] \in Counting <=> where \in Counting,
         UNCHANGED <<job, queue, queued_jobs, owner>>
  PROVE  JobInv'
<1>1. Unsent' = Unsent
  BY DEF JobInv, Goto, Unsent, Counting
<1>2. pc' \in [Submitters -> States]
  BY DEF JobInv, Goto
<1> QED
  BY <1>1, <1>2 DEF JobInv, QueuedCountExact

LEMMA JobSame ==
  ASSUME JobInv, UNCHANGED <<threads, queue, queued_jobs, owner>>
  PROVE  JobInv'
<1>1. UNCHANGED <<pc, job, Unsent>>
  BY DEF threads, Unsent
<1> QED
  BY <1>1 DEF JobInv, QueuedCountExact

LEMMA JobCount ==
  ASSUME JobInv, NEW s \in Submitters, pc[s] \notin Counting, CountJob(s)
  PROVE  JobInv'
<1>1. /\ pc' = [pc EXCEPT ![s] = "counted"] /\ job' = [job EXCEPT ![s] = @ + 1]
      /\ queued_jobs' = queued_jobs + 1 /\ UNCHANGED <<queue, owner>>
  BY DEF CountJob, Goto, ownerVars
<1>2. Unsent' = Unsent \cup {s} /\ s \notin Unsent
  BY <1>1 DEF JobInv, Unsent, Counting
<1>3. Cardinality(Unsent') = Cardinality(Unsent) + 1
  BY <1>2, Finite, FS_AddElement
<1>4. pc' \in [Submitters -> States] /\ job' \in [Submitters -> Nat]
  BY <1>1, SMTT(30) DEF JobInv, States, ConnStates
<1>5. Len(queue) \in Nat
  BY SMTT(30) DEF JobInv
<1> QED
  BY <1>1, <1>3, <1>4, <1>5, Finite, SMTT(30) DEF JobInv, QueuedCountExact

LEMMA JobTrySend ==
  ASSUME JobInv, NEW s \in Submitters, TrySend(s)
  PROVE  JobInv'
<1>1. CASE owner = "dead" \/ Full
  <2>1. PICK where \in Counting : Goto(s, where)
    BY <1>1 DEF TrySend, Counting
  <2>2. /\ pc[s] \in Counting /\ where \in States
        /\ UNCHANGED <<job, queue, queued_jobs, owner>>
    BY <1>1 DEF TrySend, ChannelAfter, counters, Counting, States, ConnStates,
           TimerStates
  <2> QED
    BY <2>1, <2>2, JobQuiet
<1>2. CASE owner # "dead" /\ ~Full
  <2>1. /\ pc[s] = "counted" /\ pc' = [pc EXCEPT ![s] = "waiting"]
        /\ queue' = Append(queue, JobOf(s))
        /\ UNCHANGED <<job, queued_jobs, owner>>
    BY <1>2 DEF TrySend, ChannelAfter, Goto, counters
  <2>2. Unsent' = Unsent \ {s} /\ s \in Unsent
    BY <2>1 DEF JobInv, Unsent
  <2>3. Cardinality(Unsent') = Cardinality(Unsent) - 1
    BY <2>2, Finite, FS_RemoveElement
  <2>4. JobOf(s) \in Submitters \X Nat
    BY DEF JobInv, JobOf
  <2>5. /\ queue' \in Seq(Submitters \X Nat)
        /\ Len(queue') = Len(queue) + 1 /\ Len(queue) \in Nat
    BY <2>1, <2>4, SMTT(30) DEF JobInv
  <2>6. pc' \in [Submitters -> States]
    BY <2>1 DEF JobInv, States, ConnStates
  <2>7. /\ queued_jobs = Len(queue) + Cardinality(Unsent) + Received
        /\ Received' = Received /\ Received \in Nat
    BY <1>2, <2>1 DEF JobInv, QueuedCountExact, Received
  <2>8. queued_jobs' = Len(queue') + Cardinality(Unsent') + Received'
    BY <2>1, <2>3, <2>5, <2>7, Finite, SMTT(30)
  <2> QED
    BY <2>1, <2>5, <2>6, <2>8 DEF JobInv, QueuedCountExact, Received
<1> QED
  BY <1>1, <1>2

LEMMA JobGiveUp ==
  ASSUME JobInv, NEW s \in Submitters, GiveUp(s)
  PROVE  JobInv'
<1>1. PICK where \in {"awake", "writing"} : pc' = [pc EXCEPT ![s] = where]
  BY DEF GiveUp, Answered, Goto
<1>2. /\ pc[s] \in Counting /\ queued_jobs' = queued_jobs - 1
      /\ UNCHANGED <<job, queue, owner>>
  BY DEF GiveUp, UncountUnsent, ownerVars, Counting
<1>3. Unsent' = Unsent \ {s} /\ s \in Unsent
  BY <1>1, <1>2 DEF JobInv, Unsent, Counting
<1>4. Cardinality(Unsent') = Cardinality(Unsent) - 1
  BY <1>3, Finite, FS_RemoveElement
<1>5. pc' \in [Submitters -> States] /\ Len(queue) \in Nat
  BY <1>1, SMTT(30) DEF JobInv, States, ConnStates, TimerStates
<1>6. CASE owner = "dead"
  BY <1>2, <1>5, <1>6 DEF JobInv, QueuedCountExact
<1>7. CASE owner # "dead"
  <2>1. /\ queued_jobs = Len(queue) + Cardinality(Unsent) + Received
        /\ Received' = Received /\ Received \in Nat
    BY <1>2, <1>7 DEF JobInv, QueuedCountExact, Received
  <2>2. queued_jobs' = Len(queue') + Cardinality(Unsent') + Received'
    BY <1>2, <1>4, <1>5, <2>1, Finite, SMTT(30)
  <2> QED
    BY <1>2, <1>5, <2>2 DEF JobInv, QueuedCountExact, Received
<1> QED
  BY <1>6, <1>7

LEMMA JobOwner ==
  ASSUME JobInv, OwnerNext \/ Panic
  PROVE  JobInv'
<1>1. UNCHANGED <<pc, job, Unsent>>
  BY DEF OwnerNext, Receive, CountDown, Run, Panic, threads, Unsent
<1>2. Len(queue) \in Nat /\ queue \in Seq(Submitters \X Nat)
  BY SMTT(30) DEF JobInv
<1>3. CASE Receive
  <2>1. /\ owner = "idle" /\ owner' = "received"
        /\ queue # <<>> /\ queue' = Tail(queue) /\ UNCHANGED queued_jobs
    BY <1>3 DEF Receive, counters
  <2>2. queue' \in Seq(Submitters \X Nat) /\ Len(queue') = Len(queue) - 1
    BY <1>2, <2>1, SMTT(30)
  <2> QED
    BY <1>1, <1>2, <2>1, <2>2, Finite, SMTT(30) DEF JobInv, QueuedCountExact
<1>4. CASE CountDown
  BY <1>1, <1>2, <1>4, Finite, SMTT(30) DEF CountDown, JobInv, QueuedCountExact
<1>5. CASE Run
  BY <1>1, <1>5 DEF Run, JobInv, QueuedCountExact, counters
<1>6. CASE Panic
  BY <1>1, <1>6, SMTT(30) DEF Panic, JobInv, QueuedCountExact, DroppedWithOwner
<1> QED
  BY <1>3, <1>4, <1>5, <1>6 DEF OwnerNext

\* The actions that leave the job counter and the channel alone.
LEMMA JobElsewhere ==
  ASSUME JobInv, NEW s \in Submitters,
         \/ Dial(s) \/ ReadOther(s) \/ ReadEnds(s) \/ Write(s)
         \/ WriteFails(s) \/ Close(s) \/ TakeReply(s) \/ ReplyDropped(s)
         \/ s = Timer /\ TimerStops
  PROVE  JobInv'
<1>1. UNCHANGED <<job, queue, queued_jobs, owner>>
  BY DEF Dial, ReadOther, ReadEnds, Write, WriteFails, Close, TakeReply,
         ReplyDropped, TimerStops, counters, ownerVars
<1>2. PICK where \in States \ Counting : Goto(s, where)
  BY DEF Dial, ReadOther, ReadEnds, Write, WriteFails, Close, TakeReply,
         ReplyDropped, TimerStops, Answered, States, ConnStates,
         TimerStates, Counting
<1>3. pc[s] \notin Counting
  BY DEF Dial, ReadOther, ReadEnds, Write, WriteFails, Close, TakeReply,
         ReplyDropped, TimerStops, Counting
<1> QED
  BY <1>1, <1>2, <1>3, JobQuiet

LEMMA JobListener ==
  ASSUME JobInv, ConnInv, NEW l \in Servers, ListenerNext(l) \/ ListenerFails(l)
  PROVE  JobInv'
<1>1. UNCHANGED <<job, queue, queued_jobs, owner>>
  BY DEF ListenerNext, ListenerFails, Poll, Refuse, RaiseStop, Accept,
         counters, ownerVars, threads
<1>2. CASE UNCHANGED pc
  BY <1>1, <1>2, JobSame DEF threads
<1>3. ASSUME NEW c \in Conns, pc[c] = "dialing", NEW where \in {"reading", "closed"},
             Goto(c, where)
      PROVE  JobInv'
  <2>1. c \in Submitters /\ where \in States \ Counting /\ pc[c] \notin Counting
    BY <1>3 DEF Submitters, States, ConnStates, Counting
  <2> QED
    BY <1>1, <1>3, <2>1, JobQuiet
<1>4. CASE Refuse(l)
  BY <1>3, <1>4 DEF Refuse, ConnInv
<1>5. CASE ListenerFails(l)
  BY <1>2, <1>3, <1>5 DEF ListenerFails
<1>6. CASE \E c \in Conns : Accept(l, c)
  BY <1>2, <1>3, <1>6 DEF Accept
<1> QED
  BY <1>2, <1>4, <1>5, <1>6 DEF ListenerNext, Poll, RaiseStop, threads

LEMMA JobStep ==
  ASSUME JobInv, ConnInv, [Next]_vars
  PROVE  JobInv'
<1>1. ASSUME NEW s \in Submitters, ThreadNext(s)
      PROVE  JobInv'
  BY <1>1, JobTrySend, JobGiveUp, JobElsewhere DEF ThreadNext
<1>2. ASSUME NEW c \in Conns,
             \/ Dial(c) \/ ReadRequest(c) \/ ReadOther(c) \/ ReadEnds(c)
             \/ WriteFails(c)
      PROVE  JobInv'
  <2>1. c \in Submitters
    BY DEF Submitters
  <2>2. CASE ReadRequest(c)
    BY <2>1, <2>2, JobCount DEF ReadRequest, Counting
  <2> QED
    BY <1>2, <2>1, <2>2, JobElsewhere
<1>3. CASE Tick
  BY <1>3, JobCount DEF Tick, Counting, Submitters
<1>4. CASE Exit \/ UNCHANGED vars
  BY <1>4, JobSame DEF Exit, vars, counters, ownerVars
<1> QED
  BY <1>1, <1>2, <1>3, <1>4, JobListener, JobOwner DEF Next

-----------------------------------------------------------------------------
(* The connection counters *)

LEMMA ConnInit == Init => ConnInv
<1> SUFFICES ASSUME Init PROVE ConnInv
  OBVIOUS
<1>1. pc \in [Submitters -> States] /\ active \in [Servers -> Nat]
  BY DEF Init, States, ConnStates, TimerStates
<1>2. /\ listener \in [Servers -> Phases \X (Conns \cup {None})]
      /\ \A l \in Servers : listener[l][1] = "top"
  BY DEF Init, Phases
<1>3. \A c \in Conns : pc[c] = "closed"
  BY ThreadsAssumption DEF Init, Submitters, Conns
<1>4. \A l \in Servers : Served(l) = {} /\ active[l] = 0
  BY <1>3 DEF Init, Served
<1>5. 0 <= MaxConnections
  BY SizesAssumption, SMTT(30)
<1>6. ASSUME NEW l \in Servers
      PROVE  /\ active[l] = Cardinality(Served(l)) + Refusing(l)
             /\ Cardinality(Served(l)) <= MaxConnections
  <2>1. Served(l) = {} /\ active[l] = 0 /\ listener[l][1] = "top"
    BY <1>2, <1>4
  <2>2. Cardinality(Served(l)) = 0
    BY <2>1, FS_EmptySet
  <2>3. Refusing(l) = 0
    BY <2>1 DEF Refusing
  <2> QED
    BY <1>5, <2>1, <2>2, <2>3, SMTT(30)
<1>7. ActiveCountExact
  BY <1>6 DEF ActiveCountExact, Refusing
<1> QED
  BY <1>1, <1>2, <1>7 DEF ConnInv

\* A step of a thread that neither starts nor ends a connection.
LEMMA ConnQuiet ==
  ASSUME ConnInv, NEW s \in Submitters, NEW where \in States, Goto(s, where),
         s = Timer \/ (pc[s] \in Outside <=> where \in Outside),
         pc[s] # "dialing", UNCHANGED <<active, listener>>
  PROVE  ConnInv'
<1>1. \A c \in Conns : pc[c] \in Outside <=> pc'[c] \in Outside
  BY ThreadsAssumption DEF ConnInv, Goto, Submitters, Conns
<1>2. \A l \in Servers : Served(l)' = Served(l)
  BY <1>1 DEF Served, Outside
<1>3. \A c \in Conns : pc[c] = "dialing" => pc'[c] = "dialing"
  BY DEF ConnInv, Goto, Submitters
<1>4. pc' \in [Submitters -> States]
  BY DEF ConnInv, Goto
<1> QED
  BY <1>2, <1>3, <1>4 DEF ConnInv, ActiveCountExact

LEMMA ConnSame ==
  ASSUME ConnInv, UNCHANGED <<pc, active, listener>>
  PROVE  ConnInv'
BY DEF ConnInv, ActiveCountExact, Served

\* A listener that is refusing nobody, before and after.
LEMMA ConnListener ==
  ASSUME ConnInv, NEW l \in Servers, NEW phase \in {"top", "polling", "returned"},
         listener[l][1] # "refusing",
         listener' = [listener EXCEPT ![l] = <<phase, None>>],
         UNCHANGED <<pc, active>>
  PROVE  ConnInv'
<1>1. /\ listener' \in [Servers -> Phases \X (Conns \cup {None})]
      /\ \A k \in Servers : Refusing(k)' = Refusing(k)
      /\ \A k \in Servers : listener'[k][1] = "refusing" => listener'[k] = listener[k]
  BY DEF ConnInv, Refusing, Phases
<1>2. \A k \in Servers : Served(k)' = Served(k)
  BY DEF Served
<1>3. ActiveCountExact'
  BY <1>1, <1>2 DEF ConnInv, ActiveCountExact, Refusing
<1> QED
  BY <1>1, <1>3 DEF ConnInv

\* One connection c of listener l moves from outside to a thread of its own.
LEMMA ServedMore ==
  ASSUME ConnInv, NEW c \in Conns, NEW where \in States \ Outside,
         pc[c] \in Outside, Goto(c, where)
  PROVE  /\ Cardinality(Served(ServerOf(c))') = Cardinality(Served(ServerOf(c))) + 1
         /\ \A k \in Servers : k # ServerOf(c) => Served(k)' = Served(k)
<1> DEFINE l == ServerOf(c)
<1>1. c \in Submitters /\ l \in Servers
  BY DEF Submitters, ServerOf, Servers
<1>2. pc' = [pc EXCEPT ![c] = where] /\ pc \in [Submitters -> States] /\ Conns \subseteq Submitters
  BY DEF Goto, ConnInv, Submitters
<1>3. Served(l)' = Served(l) \cup {c} /\ c \notin Served(l)
  BY <1>1, <1>2 DEF Served, Outside
<1>4. \A k \in Servers : k # l => Served(k)' = Served(k)
  BY <1>1, <1>2 DEF Served
<1>5. IsFiniteSet(Served(l))
  BY <1>1, Finite
<1>6. Cardinality(Served(l)') = Cardinality(Served(l)) + 1
  BY <1>3, <1>5, FS_AddElement
<1> QED
  BY <1>4, <1>6

LEMMA ServedFewer ==
  ASSUME ConnInv, NEW c \in Conns, NEW where \in Outside,
         pc[c] \notin Outside, Goto(c, where)
  PROVE  /\ Cardinality(Served(ServerOf(c))') = Cardinality(Served(ServerOf(c))) - 1
         /\ \A k \in Servers : k # ServerOf(c) => Served(k)' = Served(k)
<1> DEFINE l == ServerOf(c)
<1>1. c \in Submitters /\ l \in Servers
  BY DEF Submitters, ServerOf, Servers
<1>2. pc' = [pc EXCEPT ![c] = where] /\ pc \in [Submitters -> States] /\ Conns \subseteq Submitters
  BY DEF Goto, ConnInv, Submitters
<1>3. Served(l)' = Served(l) \ {c} /\ c \in Served(l)
  BY <1>1, <1>2 DEF Served, Outside
<1>4. \A k \in Servers : k # l => Served(k)' = Served(k)
  BY <1>1, <1>2 DEF Served
<1>5. IsFiniteSet(Served(l))
  BY <1>1, Finite
<1>6. Cardinality(Served(l)') = Cardinality(Served(l)) - 1
  BY <1>3, <1>5, FS_RemoveElement
<1> QED
  BY <1>4, <1>6

LEMMA ConnAccept ==
  ASSUME ConnInv, NEW l \in Servers, NEW c \in Conns, Accept(l, c)
  PROVE  ConnInv'
<1>1. /\ listener[l][1] = "polling" /\ pc[c] = "dialing" /\ ServerOf(c) = l
      /\ active' = [active EXCEPT ![l] = @ + 1]
  BY DEF Accept
<1>2. active[l] = Cardinality(Served(l)) /\ active[l] \in Nat
  <2>1. active[l] = Cardinality(Served(l)) + 0
    BY <1>1 DEF ConnInv, ActiveCountExact
  <2> QED
    BY <2>1, Finite, SMTT(30)
<1>3. /\ active' \in [Servers -> Nat] /\ active'[l] = active[l] + 1
      /\ \A k \in Servers \ {l} : active'[k] = active[k]
  BY <1>1, <1>2, SMTT(30) DEF ConnInv
<1>4. CASE OverLimit(l)
  <2>1. listener' = [listener EXCEPT ![l] = <<"refusing", c>>] /\ UNCHANGED pc
    BY <1>4 DEF Accept
  <2>2. /\ listener' \in [Servers -> Phases \X (Conns \cup {None})]
        /\ listener'[l] = <<"refusing", c>>
        /\ \A k \in Servers \ {l} : listener'[k] = listener[k]
    BY <2>1 DEF ConnInv, Phases
  <2>3. \A k \in Servers : Served(k)' = Served(k)
    BY <2>1 DEF Served
  <2>4. ASSUME NEW k \in Servers
        PROVE  /\ active'[k] = Cardinality(Served(k)') + Refusing(k)'
               /\ Cardinality(Served(k)') <= MaxConnections
    <3>1. CASE k = l
      BY <1>2, <1>3, <2>2, <2>3, <3>1, SMTT(30) DEF ConnInv, ActiveCountExact, Refusing
    <3>2. CASE k # l
      BY <1>3, <2>2, <2>3, <3>2, SMTT(30) DEF ConnInv, ActiveCountExact, Refusing
    <3> QED
      BY <3>1, <3>2
  <2>5. ActiveCountExact'
    BY <2>4 DEF ActiveCountExact, Refusing
  <2> QED
    BY <1>1, <1>3, <2>1, <2>2, <2>5 DEF ConnInv
<1>5. CASE ~OverLimit(l)
  <2>1. listener' = [listener EXCEPT ![l] = <<"top", None>>] /\ Goto(c, "reading")
    BY <1>5 DEF Accept
  <2>2. /\ listener' \in [Servers -> Phases \X (Conns \cup {None})]
        /\ listener'[l] = <<"top", None>>
        /\ \A k \in Servers \ {l} : listener'[k] = listener[k]
    BY <2>1 DEF ConnInv, Phases
  <2>3. /\ Cardinality(Served(l)') = Cardinality(Served(l)) + 1
        /\ \A k \in Servers \ {l} : Served(k)' = Served(k)
    BY <1>1, <2>1, ServedMore DEF States, ConnStates, Outside
  <2>4. active[l] + 1 <= MaxConnections
    BY <1>2, <1>5, SizesAssumption, SMTT(30) DEF OverLimit
  <2>5. ASSUME NEW k \in Servers
        PROVE  /\ active'[k] = Cardinality(Served(k)') + Refusing(k)'
               /\ Cardinality(Served(k)') <= MaxConnections
    <3>1. CASE k = l
      BY <1>2, <1>3, <2>2, <2>3, <2>4, <3>1, SMTT(30) DEF Refusing
    <3>2. CASE k # l
      BY <1>3, <2>2, <2>3, <3>2 DEF ConnInv, ActiveCountExact, Refusing
    <3> QED
      BY <3>1, <3>2
  <2>6. ActiveCountExact'
    BY <2>5 DEF ActiveCountExact, Refusing
  <2>7. /\ pc' \in [Submitters -> States]
        /\ \A b \in Conns : ServerOf(b) # l => pc'[b] = pc[b]
    BY <1>1, <2>1 DEF ConnInv, Goto, States, ConnStates, Submitters
  <2> QED
    BY <1>3, <2>2, <2>6, <2>7, SMTT(30) DEF ConnInv
<1> QED
  BY <1>4, <1>5

LEMMA ConnRefuse ==
  ASSUME ConnInv, NEW l \in Servers, Refuse(l)
  PROVE  ConnInv'
<1> DEFINE c == listener[l][2]
<1>1. /\ listener[l][1] = "refusing" /\ pc' = [pc EXCEPT ![c] = "closed"]
      /\ active' = [active EXCEPT ![l] = @ - 1]
      /\ listener' = [listener EXCEPT ![l] = <<"top", None>>]
  BY DEF Refuse, Goto, UncountRefused
<1>2. c \in Conns /\ ServerOf(c) = l /\ pc[c] = "dialing"
  BY <1>1 DEF ConnInv
<1> HIDE DEF c
<1>3. /\ pc' \in [Submitters -> States] /\ pc'[c] = "closed"
      /\ \A b \in Conns \ {c} : pc'[b] = pc[b]
  BY <1>1, <1>2 DEF ConnInv, States, ConnStates, Submitters
<1>4. \A k \in Servers : Served(k)' = Served(k)
  BY <1>2, <1>3 DEF Served
<1>5. active[l] = Cardinality(Served(l)) + 1 /\ Cardinality(Served(l)) \in Nat
  BY <1>1, Finite DEF ConnInv, ActiveCountExact
<1>6. /\ active' \in [Servers -> Nat] /\ active'[l] = Cardinality(Served(l))
      /\ \A k \in Servers \ {l} : active'[k] = active[k]
  BY <1>1, <1>5, SMTT(30) DEF ConnInv
<1>7. /\ listener' \in [Servers -> Phases \X (Conns \cup {None})]
      /\ listener'[l] = <<"top", None>>
      /\ \A k \in Servers \ {l} : listener'[k] = listener[k]
  BY <1>1 DEF ConnInv, Phases
<1>8. ASSUME NEW k \in Servers
      PROVE  /\ active'[k] = Cardinality(Served(k)') + Refusing(k)'
             /\ Cardinality(Served(k)') <= MaxConnections
  <2>1. CASE k = l
    BY <1>4, <1>5, <1>6, <1>7, <2>1, SMTT(30) DEF ConnInv, ActiveCountExact, Refusing
  <2>2. CASE k # l
    BY <1>4, <1>6, <1>7, <2>2, SMTT(30) DEF ConnInv, ActiveCountExact, Refusing
  <2> QED
    BY <2>1, <2>2
<1>9. ActiveCountExact'
  BY <1>8 DEF ActiveCountExact, Refusing
<1> QED
  BY <1>2, <1>3, <1>6, <1>7, <1>9, SMTT(30) DEF ConnInv

LEMMA ConnListenerFails ==
  ASSUME ConnInv, NEW l \in Servers, ListenerFails(l)
  PROVE  ConnInv'
<1>1. /\ listener[l][1] \in {"top", "polling"} /\ UNCHANGED active
      /\ listener' = [listener EXCEPT ![l] = <<"returned", None>>]
  BY DEF ListenerFails, counters
<1>2. CASE UNCHANGED pc
  BY <1>1, <1>2, ConnListener
<1>3. ASSUME NEW c \in Conns, pc[c] = "dialing", ServerOf(c) = l,
             Goto(c, "closed")
      PROVE  ConnInv'
  <2>1. /\ pc' \in [Submitters -> States] /\ pc'[c] = "closed"
        /\ \A b \in Conns \ {c} : pc'[b] = pc[b]
    BY <1>3 DEF ConnInv, Goto, States, ConnStates, Submitters
  <2>2. \A k \in Servers : Served(k)' = Served(k)
    BY <1>3, <2>1 DEF Served
  <2>3. /\ listener' \in [Servers -> Phases \X (Conns \cup {None})]
        /\ listener'[l] = <<"returned", None>>
        /\ \A k \in Servers \ {l} : listener'[k] = listener[k]
    BY <1>1 DEF ConnInv, Phases
  <2>4. \A k \in Servers : Refusing(k)' = Refusing(k)
    BY <1>1, <2>3 DEF Refusing
  <2>5. ActiveCountExact'
    BY <1>1, <2>2, <2>4 DEF ConnInv, ActiveCountExact, Refusing
  <2> QED
    BY <1>1, <1>3, <2>1, <2>3, <2>5 DEF ConnInv
<1> QED
  BY <1>2, <1>3 DEF ListenerFails

LEMMA ConnClose ==
  ASSUME ConnInv, NEW c \in Conns, Close(c)
  PROVE  ConnInv'
<1> DEFINE l == ServerOf(c)
<1>1. /\ pc[c] = "closing" /\ Goto(c, "closed") /\ UNCHANGED listener
      /\ active' = [active EXCEPT ![l] = @ - 1]
  BY DEF Close, lifecycle
<1>2. l \in Servers
  BY DEF ServerOf, Servers
<1>3. /\ pc' \in [Submitters -> States]
      /\ \A b \in Conns : pc[b] = "dialing" => pc'[b] = "dialing"
  BY <1>1 DEF ConnInv, Goto, States, ConnStates, Submitters
<1>4. /\ Cardinality(Served(l)') = Cardinality(Served(l)) - 1
      /\ \A k \in Servers \ {l} : Served(k)' = Served(k)
  BY <1>1, ServedFewer DEF Outside
<1>5. c \in Served(l) /\ IsFiniteSet(Served(l))
  BY <1>1, <1>2, Finite DEF Served
<1>6. Cardinality(Served(l)) # 0 /\ Cardinality(Served(l)) \in Nat
  <2>1. Served(l) # {}
    BY <1>5
  <2> HIDE DEF l
  <2> QED
    BY <1>2, <1>5, <2>1, FS_EmptySet, FS_CardinalityType
<1> HIDE DEF l
<1>7. /\ active[l] = Cardinality(Served(l)) + Refusing(l)
      /\ Cardinality(Served(l)) <= MaxConnections
      /\ Refusing(l) \in Nat /\ Refusing(l)' = Refusing(l)
  BY <1>1, <1>2 DEF ConnInv, ActiveCountExact, Refusing
<1>8. /\ active' \in [Servers -> Nat] /\ active'[l] = active[l] - 1
      /\ \A k \in Servers \ {l} : active'[k] = active[k]
  <2>1. active \in [Servers -> Nat] /\ active[l] - 1 \in Nat
    BY <1>2, <1>6, <1>7, SMTT(30) DEF ConnInv
  <2> QED
    BY <1>1, <1>2, <2>1
<1>9. ASSUME NEW k \in Servers
      PROVE  /\ active'[k] = Cardinality(Served(k)') + Refusing(k)'
             /\ Cardinality(Served(k)') <= MaxConnections
  <2>1. CASE k = l
    BY <1>4, <1>6, <1>7, <1>8, <2>1, SizesAssumption, SMTT(30)
  <2>2. CASE k # l
    BY <1>1, <1>4, <1>8, <2>2 DEF ConnInv, ActiveCountExact, Refusing
  <2> QED
    BY <2>1, <2>2
<1>10. ActiveCountExact'
  BY <1>9 DEF ActiveCountExact, Refusing
<1> QED
  BY <1>1, <1>3, <1>8, <1>10 DEF ConnInv

\* The actions of a thread that keeps its connection.
LEMMA ConnElsewhere ==
  ASSUME ConnInv, NEW s \in Submitters,
         \/ TrySend(s) \/ GiveUp(s) \/ TakeReply(s) \/ ReplyDropped(s)
         \/ Dial(s) \/ ReadRequest(s) \/ ReadOther(s) \/ ReadEnds(s)
         \/ Write(s) \/ WriteFails(s)
         \/ s = Timer /\ (Tick \/ TimerStops)
  PROVE  ConnInv'
<1>1. UNCHANGED <<active, listener>>
  BY DEF TrySend, GiveUp, TakeReply, ReplyDropped, Dial, ReadRequest,
         ReadOther, ReadEnds, Write, WriteFails, Tick, TimerStops, CountJob,
         counters, lifecycle
<1>2. CASE Dial(s)
  BY <1>1, <1>2, ConnQuiet DEF Dial, States, ConnStates, Outside
<1>3. CASE ~Dial(s)
  <2>1. /\ s = Timer \/ pc[s] \notin Outside
        /\ pc[s] # "dialing"
    BY <1>3 DEF TrySend, GiveUp, TakeReply, ReplyDropped, ReadRequest,
         ReadOther, ReadEnds, Write, WriteFails, Tick, TimerStops, Outside
  <2>2. PICK where \in States \ Outside : Goto(s, where)
    BY <1>3 DEF TrySend, GiveUp, TakeReply, ReplyDropped, ReadRequest,
         ReadOther, ReadEnds, Write, WriteFails, Tick, TimerStops, CountJob,
         Answered, States, ConnStates, TimerStates, Outside
  <2> QED
    BY <1>1, <2>1, <2>2, ConnQuiet
<1> QED
  BY <1>2, <1>3

LEMMA ConnStep ==
  ASSUME ConnInv, [Next]_vars
  PROVE  ConnInv'
<1>1. ASSUME NEW l \in Servers, ListenerNext(l) \/ ListenerFails(l)
      PROVE  ConnInv'
  <2>1. CASE Poll(l)
    BY <2>1, ConnListener DEF Poll, threads, counters
  <2>2. CASE RaiseStop(l)
    BY <2>2, ConnSame DEF RaiseStop, threads, counters
  <2> QED
    BY <1>1, <2>1, <2>2, ConnAccept, ConnRefuse, ConnListenerFails
    DEF ListenerNext
<1>2. ASSUME NEW s \in Submitters, ThreadNext(s)
      PROVE  ConnInv'
  <2>1. s # Timer => s \in Conns
    BY DEF Submitters
  <2> QED
    BY <1>2, <2>1, ConnClose, ConnElsewhere DEF ThreadNext
<1>3. ASSUME NEW c \in Conns,
             \/ Dial(c) \/ ReadRequest(c) \/ ReadOther(c) \/ ReadEnds(c)
             \/ WriteFails(c)
      PROVE  ConnInv'
  BY <1>3, ConnElsewhere DEF Submitters
<1>4. CASE Tick
  BY <1>4, ConnElsewhere DEF Submitters
<1>5. CASE OwnerNext \/ Panic \/ Exit \/ UNCHANGED vars
  BY <1>5, ConnSame DEF OwnerNext, Receive, CountDown, Run, Panic, Exit,
     vars, threads, counters, lifecycle
<1> QED
  BY <1>1, <1>2, <1>3, <1>4, <1>5 DEF Next

-----------------------------------------------------------------------------
\* Every way a connection ends gives its slot back once, and the threads of a
\* listener never exceed max_connections, whatever the order of accepts,
\* refusals, failures and disconnects.
THEOREM ActiveCountAlwaysExact == Spec => []ActiveCountExact
<1>1. ConnInv => ActiveCountExact
  BY DEF ConnInv
<1>2. ConnInv /\ [Next]_vars => ConnInv'
  BY ConnStep
<1> QED
  BY <1>1, <1>2, ConnInit, PTL DEF Spec

\* While the state owner lives, the counter try_send raises before it tries
\* the channel, and lowers when the channel is full, is the channel's length
\* and the operations that threads are in the middle of.
THEOREM QueuedCountAlwaysExact == Spec => []QueuedCountExact
<1>1. JobInv => QueuedCountExact
  BY DEF JobInv
<1>2. ConnInv /\ JobInv /\ [Next]_vars => ConnInv' /\ JobInv'
  BY ConnStep, JobStep
<1> QED
  BY <1>1, <1>2, ConnInit, JobInit, PTL DEF Spec

-----------------------------------------------------------------------------
(* What a rejection promises *)

\* In the channel, or with the state owner.
Placed(j) == current = j \/ j \in Range(queue)
Fresh(j) == ~Placed(j) /\ j \notin rejected

\* RejectedNotExecuted, and what it takes: a job that its thread has counted
\* and not sent, or has yet to number, is neither placed nor rejected.
RejectInv ==
  /\ rejected \subseteq Submitters \X Nat
  /\ \A j \in rejected : ~Placed(j)
  /\ \A s \in Submitters : pc[s] \in {"counted", "saturated"} => Fresh(JobOf(s))
  /\ \A s \in Submitters : \A n \in Nat : n > job[s] => Fresh(<<s, n>>)

LEMMA NoneIsNoJob == None \notin Submitters \X Nat
BY ThreadsAssumption DEF Submitters, Conns

LEMMA RejectInit == Init => RejectInv
<1> SUFFICES ASSUME Init PROVE RejectInv
  OBVIOUS
<1>1. queue = <<>> /\ current = None /\ rejected = {}
  BY DEF Init
<1>2. Range(queue) = {}
  BY <1>1, SMTT(30) DEF Range
<1>3. \A j \in Submitters \X Nat : Fresh(j)
  BY <1>1, <1>2, NoneIsNoJob DEF Fresh, Placed
<1>4. \A s \in Submitters : pc[s] \notin {"counted", "saturated"}
  BY DEF Init
<1> QED
  BY <1>1, <1>3, <1>4 DEF RejectInv

\* A step that places and rejects nothing, and after which no thread holds a
\* job that it did not hold before.
LEMMA RejectQuiet ==
  ASSUME RejectInv, UNCHANGED <<job, rejected>>,
         \A j \in Submitters \X Nat : Placed(j)' => Placed(j),
         \A s \in Submitters : pc'[s] \in {"counted", "saturated"} =>
                                 pc[s] \in {"counted", "saturated"},
         JobInv
  PROVE  RejectInv'
<1>1. \A j \in Submitters \X Nat : Fresh(j) => Fresh(j)'
  BY DEF Fresh
<1>2. \A s \in Submitters : JobOf(s) \in Submitters \X Nat /\ JobOf(s)' = JobOf(s)
  BY DEF JobInv, JobOf
<1>3. \A j \in rejected' : ~Placed(j)'
  BY DEF RejectInv
<1>4. \A s \in Submitters : pc'[s] \in {"counted", "saturated"} => Fresh(JobOf(s))'
  BY <1>1, <1>2 DEF RejectInv
<1>5. \A s \in Submitters : \A n \in Nat : n > job'[s] => Fresh(<<s, n>>)'
  BY <1>1 DEF RejectInv
<1> QED
  BY <1>3, <1>4, <1>5 DEF RejectInv

LEMMA RejectCount ==
  ASSUME RejectInv, JobInv, NEW s \in Submitters, CountJob(s)
  PROVE  RejectInv'
<1>1. /\ pc' = [pc EXCEPT ![s] = "counted"] /\ job' = [job EXCEPT ![s] = @ + 1]
      /\ UNCHANGED <<queue, current, rejected>>
  BY DEF CountJob, Goto, ownerVars
<1>2. \A j : Fresh(j)' = Fresh(j) /\ Placed(j)' = Placed(j)
  BY <1>1 DEF Fresh, Placed
<1>3. /\ job'[s] \in Nat /\ job'[s] > job[s]
      /\ \A n \in Nat : n > job'[s] => n > job[s]
  BY <1>1, SMTT(30) DEF JobInv
<1>4. \A t \in Submitters : t # s => pc'[t] = pc[t] /\ job'[t] = job[t]
  BY <1>1 DEF JobInv
<1>5. Fresh(<<s, job'[s]>>)
  BY <1>3 DEF RejectInv
<1>6. \A t \in Submitters : pc'[t] \in {"counted", "saturated"} => Fresh(JobOf(t))'
  BY <1>2, <1>4, <1>5 DEF RejectInv, JobOf
<1>7. \A t \in Submitters : \A n \in Nat : n > job'[t] => Fresh(<<t, n>>)'
  BY <1>2, <1>3, <1>4 DEF RejectInv
<1> QED
  BY <1>1, <1>2, <1>6, <1>7 DEF RejectInv

LEMMA RejectTrySend ==
  ASSUME RejectInv, JobInv, NEW s \in Submitters, TrySend(s)
  PROVE  RejectInv'
<1>1. /\ pc[s] = "counted" /\ UNCHANGED <<job, current, rejected>>
  BY DEF TrySend
<1>2. CASE owner = "dead" \/ Full
  <2>1. UNCHANGED queue
    BY <1>2 DEF TrySend, ChannelAfter
  <2>2. \A j \in Submitters \X Nat : Placed(j)' => Placed(j)
    BY <1>1, <2>1 DEF Placed
  <2>3. \A t \in Submitters : t # s => pc'[t] = pc[t]
    BY DEF TrySend, Goto, JobInv
  <2> QED
    BY <1>1, <2>2, <2>3, RejectQuiet
<1>3. CASE owner # "dead" /\ ~Full
  <2>1. /\ pc' = [pc EXCEPT ![s] = "waiting"] /\ queue' = Append(queue, JobOf(s))
    BY <1>3 DEF TrySend, ChannelAfter, Goto
  <2>2. Range(queue') = Range(queue) \cup {JobOf(s)}
    <3>1. /\ DOMAIN queue' = DOMAIN queue \cup {Len(queue) + 1}
          /\ \A i \in DOMAIN queue : queue'[i] = queue[i]
          /\ queue'[Len(queue) + 1] = JobOf(s)
      BY <2>1, SMTT(30) DEF JobInv
    <3> QED
      BY <3>1 DEF Range
  <2>3. \A j : Fresh(j) /\ j # JobOf(s) => Fresh(j)'
    BY <1>1, <2>2 DEF Fresh, Placed
  <2>4. Fresh(JobOf(s))
    BY <1>1 DEF RejectInv
  <2>5. \A j \in rejected' : ~Placed(j)'
    BY <1>1, <2>2, <2>4 DEF RejectInv, Fresh, Placed
  <2>6. \A t \in Submitters : t # s => pc'[t] = pc[t] /\ JobOf(t) # JobOf(s)
    BY <2>1 DEF JobInv, JobOf
  <2>7. pc'[s] = "waiting"
    BY <2>1 DEF JobInv
  <2>8. \A t \in Submitters : pc'[t] \in {"counted", "saturated"} => Fresh(JobOf(t))'
    BY <1>1, <2>3, <2>6, <2>7 DEF RejectInv, JobOf
  <2>9. \A t \in Submitters : \A n \in Nat : n > job'[t] => <<t, n>> # JobOf(s)
    BY <1>1, SMTT(30) DEF JobOf, JobInv
  <2>10. \A t \in Submitters : \A n \in Nat : n > job'[t] => Fresh(<<t, n>>)'
    BY <1>1, <2>3, <2>9 DEF RejectInv
  <2> QED
    BY <1>1, <2>5, <2>8, <2>10 DEF RejectInv
<1> QED
  BY <1>2, <1>3

LEMMA RejectGiveUp ==
  ASSUME RejectInv, JobInv, NEW s \in Submitters, GiveUp(s)
  PROVE  RejectInv'
<1>1. /\ UNCHANGED <<job, queue, current>>
      /\ \A j : Placed(j)' = Placed(j)
  BY DEF GiveUp, ownerVars, Placed
<1>2. \A t \in Submitters : t # s => pc'[t] = pc[t] /\ JobOf(t) # JobOf(s)
  BY DEF GiveUp, Answered, Goto, JobInv, JobOf
<1>3. pc'[s] \in {"awake", "writing"}
  BY DEF GiveUp, Answered, Goto, JobInv
<1>4. CASE pc[s] = "saturated"
  <2>1. rejected' = rejected \cup {JobOf(s)} /\ Fresh(JobOf(s))
    BY <1>4 DEF GiveUp, RejectInv
  <2>2. JobOf(s) \in Submitters \X Nat
    BY DEF JobOf, JobInv
  <2>3. \A j : Fresh(j) /\ j # JobOf(s) => Fresh(j)'
    BY <1>1, <2>1 DEF Fresh
  <2>4. \A t \in Submitters : pc'[t] \in {"counted", "saturated"} => Fresh(JobOf(t))'
    BY <1>1, <1>2, <1>3, <2>3 DEF RejectInv, JobOf
  <2>5. \A t \in Submitters : \A n \in Nat : n > job'[t] => <<t, n>> # JobOf(s)
    BY <1>1, SMTT(30) DEF JobOf, JobInv
  <2>6. \A t \in Submitters : \A n \in Nat : n > job'[t] => Fresh(<<t, n>>)'
    BY <1>1, <2>3, <2>5 DEF RejectInv
  <2>7. \A j \in rejected' : ~Placed(j)'
    BY <1>1, <2>1 DEF RejectInv, Fresh
  <2> QED
    BY <2>1, <2>2, <2>4, <2>6, <2>7 DEF RejectInv
<1>5. CASE pc[s] # "saturated"
  BY <1>1, <1>2, <1>3, <1>5, RejectQuiet DEF GiveUp
<1> QED
  BY <1>4, <1>5

LEMMA RejectOwner ==
  ASSUME RejectInv, JobInv, OwnerNext \/ Panic
  PROVE  RejectInv'
<1>1. UNCHANGED <<pc, job, rejected>>
  BY DEF OwnerNext, Receive, CountDown, Run, Panic, threads
<1>2. CASE Receive
  <2>1. queue # <<>> /\ current' = Head(queue) /\ queue' = Tail(queue)
    BY <1>2 DEF Receive
  <2>2. current' \in Range(queue) /\ Range(queue') \subseteq Range(queue)
    BY <2>1, SMTT(30) DEF Range, JobInv
  <2> QED
    BY <1>1, <2>2, RejectQuiet DEF Placed
<1>3. CASE CountDown
  BY <1>1, <1>3, RejectQuiet DEF CountDown, Placed
<1>4. CASE Run
  BY <1>1, <1>4, NoneIsNoJob, RejectQuiet DEF Run, Placed
<1>5. CASE Panic
  <2>1. current' = None /\ queue' = <<>>
    BY <1>5 DEF Panic, DroppedWithOwner
  <2>2. Range(queue') = {}
    BY <2>1, SMTT(30) DEF Range
  <2> QED
    BY <1>1, <2>1, <2>2, NoneIsNoJob, RejectQuiet DEF Placed
<1> QED
  BY <1>2, <1>3, <1>4, <1>5 DEF OwnerNext

LEMMA RejectStep ==
  ASSUME RejectInv, JobInv, ConnInv, [Next]_vars
  PROVE  RejectInv'
<1>1. ASSUME UNCHANGED <<job, queue, current, rejected>>,
             \A s \in Submitters : pc'[s] \in {"counted", "saturated"} =>
                                     pc[s] \in {"counted", "saturated"}
      PROVE  RejectInv'
  BY <1>1, RejectQuiet DEF Placed
<1>2. ASSUME NEW s \in Submitters,
             \/ Dial(s) \/ ReadOther(s) \/ ReadEnds(s) \/ Write(s)
             \/ WriteFails(s) \/ Close(s) \/ TakeReply(s) \/ ReplyDropped(s)
             \/ s = Timer /\ TimerStops
      PROVE  RejectInv'
  <2>1. UNCHANGED <<job, queue, current, rejected>>
    BY <1>2 DEF Dial, ReadOther, ReadEnds, Write, WriteFails, Close, TakeReply,
           ReplyDropped, TimerStops, ownerVars
  <2>2. PICK where \in States \ Counting : Goto(s, where)
    BY <1>2 DEF Dial, ReadOther, ReadEnds, Write, WriteFails, Close, TakeReply,
           ReplyDropped, TimerStops, Answered, States, ConnStates,
           TimerStates, Counting
  <2> QED
    BY <1>1, <2>1, <2>2 DEF Goto, JobInv, Counting
<1>3. ASSUME NEW l \in Servers, ListenerNext(l) \/ ListenerFails(l)
      PROVE  RejectInv'
  <2>1. UNCHANGED <<job, queue, current, rejected>>
    BY <1>3 DEF ListenerNext, ListenerFails, Poll, Refuse, RaiseStop, Accept,
           ownerVars, threads
  <2>2. \/ UNCHANGED pc
        \/ \E c \in Conns : \E where \in {"reading", "closed"} : Goto(c, where)
    BY <1>3 DEF ListenerNext, ListenerFails, Poll, Refuse, RaiseStop, Accept,
           threads, ConnInv
  <2>3. \A s \in Submitters : pc'[s] = pc[s] \/ pc'[s] \in {"reading", "closed"}
    BY <2>2 DEF Goto, JobInv
  <2> QED
    BY <1>1, <2>1, <2>3
<1>4. ASSUME NEW s \in Submitters, ThreadNext(s)
      PROVE  RejectInv'
  BY <1>2, <1>4, RejectTrySend, RejectGiveUp DEF ThreadNext
<1>5. ASSUME NEW c \in Conns,
             \/ Dial(c) \/ ReadRequest(c) \/ ReadOther(c) \/ ReadEnds(c)
             \/ WriteFails(c)
      PROVE  RejectInv'
  BY <1>2, <1>5, RejectCount DEF ReadRequest, Submitters
<1>6. CASE Tick
  BY <1>6, RejectCount DEF Tick, Submitters
<1>7. CASE Exit \/ UNCHANGED vars
  BY <1>1, <1>7 DEF Exit, vars, threads, ownerVars
<1> QED
  BY <1>3, <1>4, <1>5, <1>6, <1>7, RejectOwner DEF Next

\* A request that try_send answered REJECTED is in neither the channel nor the
\* state owner's hands, then and ever after: the client may send it again.
THEOREM RejectedNeverExecuted == Spec => []RejectedNotExecuted
<1>1. RejectInv => RejectedNotExecuted
  BY DEF RejectInv, RejectedNotExecuted, Placed
<1>2. ConnInv /\ JobInv /\ RejectInv /\ [Next]_vars => ConnInv' /\ JobInv' /\ RejectInv'
  BY ConnStep, JobStep, RejectStep
<1> QED
  BY <1>1, <1>2, ConnInit, JobInit, RejectInit, PTL DEF Spec

=============================================================================
