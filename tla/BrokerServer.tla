---------------------------- MODULE BrokerServer ----------------------------
(***************************************************************************)
(* The threads of one broker process: the broker and operations listeners, *)
(* a thread per connection, the maintenance timer, and the single thread   *)
(* that owns the broker's state and takes jobs from a bounded queue.       *)
(*                                                                         *)
(* A step is one operation on shared state (an atomic counter, the channel *)
(* or the stop flag), so the counters that readiness reports are seen      *)
(* between the operations that keep them.  What a job does to the broker   *)
(* is BrokerStateMachine's matter; here it is taken and answered.          *)
(***************************************************************************)
EXTENDS Naturals, Sequences, FiniteSets, Functions

CONSTANTS
  BrokerConns, OperationsConns,  \* connections that clients may make
  Timer,                         \* the maintenance thread
  MaxConnections,                \* max_connections, of each listener
  Capacity,                      \* max_inflight_requests
  MaxJobs,                       \* bound on the jobs a thread submits
  MaxFaults,                     \* bound on failing calls and panics
  None

ASSUME SizesAssumption ==
  /\ {MaxConnections, Capacity} \subseteq Nat \ {0}
  /\ {MaxJobs, MaxFaults} \subseteq Nat

ASSUME ThreadsAssumption ==
  /\ IsFiniteSet(BrokerConns) /\ IsFiniteSet(OperationsConns)
  /\ Timer \notin BrokerConns \cup OperationsConns
  /\ None \notin (BrokerConns \cup OperationsConns \cup {Timer}) \X Nat

VARIABLES
  pc,           \* what each submitting thread is doing
  job,          \* the number of the last job of each submitting thread
  listener,     \* what each listener is doing
  active,       \* active_connections of each listener
  queue,        \* the channel to the state owner
  queued_jobs,  \* the counter of jobs in the channel
  owner,        \* the state owner: "idle", "received", "running" or "dead"
  current,      \* the job the state owner has taken, or None
  replied,      \* threads whose reply channel holds the answer
  rejected,     \* jobs answered CapacityExceeded with disposition REJECTED
  stop, exited, faults

counters == <<active, queued_jobs>>
threads == <<pc, job>>
ownerVars == <<queue, owner, current, replied>>
lifecycle == <<listener, stop, exited>>
vars == <<threads, counters, ownerVars, rejected, lifecycle, faults>>

Servers == {"broker", "operations"}
Conns == BrokerConns \cup OperationsConns
Submitters == Conns \cup {Timer}
ServerOf(c) == IF c \in BrokerConns THEN "broker" ELSE "operations"
JobOf(s) == <<s, job[s]>>

Init ==
  /\ pc = [s \in Submitters |-> IF s = Timer THEN "awake" ELSE "closed"]
  /\ job = [s \in Submitters |-> 0]
  /\ listener = [l \in Servers |-> <<"top", None>>]
  /\ active = [l \in Servers |-> 0]
  /\ queue = <<>> /\ queued_jobs = 0
  /\ owner = "idle" /\ current = None
  /\ replied = {}
  /\ rejected = {}
  /\ stop = FALSE /\ exited = FALSE
  /\ faults = 0

Goto(s, where) == pc' = [pc EXCEPT ![s] = where]
Fault == faults < MaxFaults /\ faults' = faults + 1

-----------------------------------------------------------------------------
(* Listeners: serve_until of both servers *)

Dial(c) ==
  /\ pc[c] = "closed"
  /\ job[c] < MaxJobs
  /\ Goto(c, "dialing")
  /\ UNCHANGED <<job, counters, ownerVars, rejected, lifecycle, faults>>

\* The head of the accept loop reads the stop flag and the listener looks for
\* a connection; a look that finds none changes nothing.
Poll(l) ==
  /\ listener[l][1] = "top"
  /\ stop \/ \E c \in Conns : ServerOf(c) = l /\ pc[c] = "dialing"
  /\ listener' = [listener EXCEPT
       ![l] = <<IF stop THEN "returned" ELSE "polling", None>>]
  /\ UNCHANGED <<threads, counters, ownerVars, rejected, stop, exited, faults>>

\* Mutant: one connection too many is let in.
OverLimitByOne(l) == active[l] > MaxConnections

OverLimit(l) == active[l] >= MaxConnections

\* The connection is counted before the limit is checked.  One within the
\* limit gets a thread; one over it is uncounted in a step of its own.
Accept(l, c) ==
  /\ listener[l][1] = "polling"
  /\ pc[c] = "dialing" /\ ServerOf(c) = l
  /\ active' = [active EXCEPT ![l] = @ + 1]
  /\ \/ /\ OverLimit(l)
        /\ listener' = [listener EXCEPT ![l] = <<"refusing", c>>]
        /\ UNCHANGED pc
     \/ /\ ~OverLimit(l)
        /\ listener' = [listener EXCEPT ![l] = <<"top", None>>]
        /\ Goto(c, "reading")
  /\ UNCHANGED <<job, queued_jobs, ownerVars, rejected, stop, exited, faults>>

\* Mutant: a refused connection stays counted.
UncountRefusedKept(l) == active

UncountRefused(l) == [active EXCEPT ![l] = @ - 1]

Refuse(l) ==
  /\ listener[l][1] = "refusing"
  /\ Goto(listener[l][2], "closed")
  /\ active' = UncountRefused(l)
  /\ listener' = [listener EXCEPT ![l] = <<"top", None>>]
  /\ UNCHANGED <<job, queued_jobs, ownerVars, rejected, stop, exited, faults>>

\* accept fails, or the creation of a thread for a connection within the
\* limit, which is uncounted again: the listener returns an error.
ListenerFails(l) ==
  /\ Fault
  /\ \/ /\ listener[l][1] = "top" /\ ~stop
        /\ UNCHANGED pc
     \/ /\ listener[l][1] = "polling" /\ ~OverLimit(l)
        /\ \E c \in Conns :
             pc[c] = "dialing" /\ ServerOf(c) = l /\ Goto(c, "closed")
  /\ listener' = [listener EXCEPT ![l] = <<"returned", None>>]
  /\ UNCHANGED <<job, counters, ownerVars, rejected, stop, exited>>

\* Mutant: only the broker's listener is watched.
WatchedServersBrokerOnly == {"broker"}

\* The daemon sets the stop flag once either listener has returned.
WatchedServers == Servers

RaiseStop(l) ==
  /\ l \in WatchedServers
  /\ listener[l][1] = "returned" /\ ~stop
  /\ stop' = TRUE
  /\ UNCHANGED <<threads, counters, ownerVars, rejected, listener, exited, faults>>

\* It joins the timer and the operations listener and ends; connection
\* threads and the state owner end with the process, whatever they do.
Exit ==
  /\ stop /\ \A l \in Servers : listener[l][1] = "returned"
  /\ pc[Timer] = "done"
  /\ exited' = TRUE
  /\ UNCHANGED <<threads, counters, ownerVars, rejected, listener, stop, faults>>

-----------------------------------------------------------------------------
(* Submitting a job: StateOwnerHandle::try_send and the wait for the reply *)

\* The counter goes up before the channel is tried.
CountJob(s) ==
  /\ job[s] < MaxJobs
  /\ job' = [job EXCEPT ![s] = @ + 1]
  /\ queued_jobs' = queued_jobs + 1
  /\ Goto(s, "counted")
  /\ UNCHANGED <<active, ownerVars, rejected, lifecycle, faults>>

Full == Len(queue) >= Capacity

\* Mutant: the job is queued whatever the sender is told.
ChannelAfterAlways(s) == Append(queue, JobOf(s))

ChannelAfter(s) == IF Full THEN queue ELSE Append(queue, JobOf(s))

TrySend(s) ==
  /\ pc[s] = "counted"
  /\ \/ /\ owner = "dead"
        /\ Goto(s, "stopped")
        /\ UNCHANGED queue
     \/ /\ owner # "dead"
        /\ queue' = ChannelAfter(s)
        /\ Goto(s, IF Full THEN "saturated" ELSE "waiting")
  /\ UNCHANGED <<job, counters, owner, current, replied, rejected,
                 lifecycle, faults>>

\* What a thread does once its job is answered or was not taken: the timer
\* sleeps out its interval and looks at the stop flag, a connection writes.
Answered(s) == Goto(s, IF s = Timer THEN "awake" ELSE "writing")

\* Mutant: a job the channel did not take stays counted.
UncountUnsentKept == queued_jobs

UncountUnsent == queued_jobs - 1

\* The counter goes down again; a full queue is answered REJECTED.
GiveUp(s) ==
  /\ pc[s] \in {"saturated", "stopped"}
  /\ queued_jobs' = UncountUnsent
  /\ Answered(s)
  /\ rejected' = IF pc[s] = "saturated" THEN rejected \cup {JobOf(s)}
                                        ELSE rejected
  /\ UNCHANGED <<job, active, ownerVars, lifecycle, faults>>

TakeReply(s) ==
  /\ pc[s] = "waiting" /\ s \in replied
  /\ Answered(s)
  /\ replied' = replied \ {s}
  /\ UNCHANGED <<job, counters, queue, owner, current, rejected,
                 lifecycle, faults>>

\* The job and the sending end of its reply channel are gone.
ReplyDropped(s) ==
  /\ pc[s] = "waiting" /\ s \notin replied
  /\ current # JobOf(s) /\ JobOf(s) \notin Range(queue)
  /\ Answered(s)
  /\ UNCHANGED <<job, counters, ownerVars, rejected, lifecycle, faults>>

-----------------------------------------------------------------------------
(* Connection threads: handle_connection, handle_operations_connection *)

\* A request that needs the state owner.
ReadRequest(c) == pc[c] = "reading" /\ CountJob(c)

\* A frame that is answered without it: it does not decode, the clock fails,
\* or the operations endpoint answers from the counters.
ReadOther(c) ==
  /\ pc[c] = "reading"
  /\ Goto(c, "writing")
  /\ UNCHANGED <<job, counters, ownerVars, rejected, lifecycle, faults>>

\* The peer closes, the read times out or fails, or the frame is over the
\* limit, which is answered, if that can be written, for the last time.
ReadEnds(c) ==
  /\ pc[c] = "reading"
  /\ Goto(c, "closing")
  /\ UNCHANGED <<job, counters, ownerVars, rejected, lifecycle, faults>>

\* An operations connection carries one request.
Write(c) ==
  /\ pc[c] = "writing"
  /\ Goto(c, IF c \in OperationsConns THEN "closing" ELSE "reading")
  /\ UNCHANGED <<job, counters, ownerVars, rejected, lifecycle, faults>>

WriteFails(c) ==
  /\ pc[c] = "writing"
  /\ Fault
  /\ Goto(c, "closing")
  /\ UNCHANGED <<job, counters, ownerVars, rejected, lifecycle>>

\* The guard uncounts the connection when its thread ends.
Close(c) ==
  /\ pc[c] = "closing"
  /\ Goto(c, "closed")
  /\ active' = [active EXCEPT ![ServerOf(c)] = @ - 1]
  /\ UNCHANGED <<job, queued_jobs, ownerVars, rejected, lifecycle,
                 faults>>

-----------------------------------------------------------------------------
(* The maintenance timer *)

\* A tick that fails is not repeated before the next interval.
Tick == pc[Timer] = "awake" /\ ~stop /\ CountJob(Timer)

TimerStops ==
  /\ pc[Timer] = "awake" /\ stop
  /\ Goto(Timer, "done")
  /\ UNCHANGED <<job, counters, ownerVars, rejected, lifecycle, faults>>

-----------------------------------------------------------------------------
(* The state owner: the loop of StateOwnerHandle::spawn *)

Receive ==
  /\ owner = "idle" /\ queue # <<>>
  /\ current' = Head(queue) /\ queue' = Tail(queue)
  /\ owner' = "received"
  /\ UNCHANGED <<threads, counters, replied, rejected, lifecycle,
                 faults>>

CountDown ==
  /\ owner = "received"
  /\ queued_jobs' = queued_jobs - 1
  /\ owner' = "running"
  /\ UNCHANGED <<threads, active, queue, current, replied, rejected,
                 lifecycle, faults>>

\* The job is dispatched and answered; nobody need be waiting for the answer.
Run ==
  /\ owner = "running"
  /\ replied' = replied \cup {current[1]}
  /\ owner' = "idle" /\ current' = None
  /\ UNCHANGED <<threads, counters, queue, rejected, lifecycle, faults>>

\* Mutant: the jobs in the channel outlive the thread that takes them.
DroppedWithOwnerNothing == queue

DroppedWithOwner == <<>>

\* A panic ends the thread, before or after the broker applied the job, and
\* drops the receiving end with every job in it.
Panic ==
  /\ Fault
  /\ owner = "running"
  /\ owner' = "dead" /\ current' = None
  /\ queue' = DroppedWithOwner
  /\ UNCHANGED <<threads, counters, replied, rejected, lifecycle>>

-----------------------------------------------------------------------------
ListenerNext(l) ==
  \/ Poll(l) \/ Refuse(l) \/ RaiseStop(l)
  \/ \E c \in Conns : Accept(l, c)

\* A thread with a job in hand or an answer to write, a connection to close,
\* or, for the timer, a stop flag to obey.
ThreadNext(s) ==
  \/ TrySend(s) \/ GiveUp(s) \/ TakeReply(s) \/ ReplyDropped(s)
  \/ s # Timer /\ (Write(s) \/ Close(s))
  \/ s = Timer /\ TimerStops

OwnerNext == Receive \/ CountDown \/ Run

Next ==
  /\ ~exited
  /\ \/ \E l \in Servers : ListenerNext(l) \/ ListenerFails(l)
     \/ \E s \in Submitters : ThreadNext(s)
     \/ \E c \in Conns :
          \/ Dial(c) \/ ReadRequest(c) \/ ReadOther(c) \/ ReadEnds(c)
          \/ WriteFails(c)
     \/ Tick
     \/ OwnerNext \/ Panic
     \/ Exit

Spec == Init /\ [][Next]_vars

\* Threads are scheduled, and a dispatch returns.  Nothing obliges clients to
\* send, or the timer to tick.
Step(A) == ~exited /\ A

Fairness ==
  /\ WF_vars(Step(OwnerNext)) /\ WF_vars(Step(Exit))
  /\ \A l \in Servers : WF_vars(Step(ListenerNext(l)))
  /\ \A s \in Submitters : WF_vars(Step(ThreadNext(s)))

FairSpec == Spec /\ Fairness

-----------------------------------------------------------------------------
(* Properties *)

ConnStates == {"closed", "dialing", "reading", "counted", "saturated",
               "stopped", "waiting", "writing", "closing"}
TimerStates == {"awake", "counted", "saturated", "stopped", "waiting", "done"}
Jobs == Submitters \X (1..MaxJobs)

\* The state of the threads, the counters and the channel.
TypeOK ==
  /\ pc \in [Submitters -> ConnStates \cup TimerStates]
  /\ \A s \in Submitters :
       pc[s] \in IF s = Timer THEN TimerStates ELSE ConnStates
  /\ job \in [Submitters -> 0..MaxJobs]
  /\ listener \in [Servers ->
       {"top", "polling", "refusing", "returned"}
         \X (Conns \cup {None})]
  /\ active \in [Servers -> 0..Cardinality(Conns)]
  /\ queue \in Seq(Jobs) /\ Len(queue) <= Capacity
  /\ queued_jobs \in 0..(Cardinality(Submitters) + Capacity)
  /\ owner \in {"idle", "received", "running", "dead"}
  /\ current \in Jobs \cup {None}
  /\ replied \subseteq Submitters
  /\ rejected \subseteq Jobs
  /\ {stop, exited} \subseteq BOOLEAN /\ faults \in 0..MaxFaults

\* The threads whose job is counted and not in the channel.
Unsent == {s \in Submitters : pc[s] \in {"counted", "saturated", "stopped"}}

\* While the state owner lives, the queued-job counter that readiness reports
\* is the length of the channel, plus the jobs whose sender is between its
\* counter and its channel operation, plus a job the owner is between the two
\* of; so it never underflows and never reports room in a full channel.
QueuedCountExact ==
  owner # "dead" =>
    queued_jobs =
      Len(queue) + Cardinality(Unsent) + (IF owner = "received" THEN 1 ELSE 0)

Served(l) ==
  {c \in Conns : ServerOf(c) = l /\ pc[c] \notin {"closed", "dialing"}}

\* Every way a connection can end gives its slot back once: the counter is
\* the number of connection threads, plus a connection being refused, so
\* that the threads never exceed the limit, although a connection is counted
\* before the limit is checked.
ActiveCountExact ==
  \A l \in Servers :
    /\ active[l] = Cardinality(Served(l))
                    + (IF listener[l][1] = "refusing" THEN 1 ELSE 0)
    /\ Cardinality(Served(l)) <= MaxConnections

\* A request answered REJECTED because the queue was full is never in the
\* channel or in the state owner's hands, so this attempt does not execute it.
RejectedNotExecuted ==
  \A j \in rejected : current # j /\ j \notin Range(queue)

\* A request that was counted is answered, whether it is executed, refused or
\* lost with a state owner that panicked; unless the process ends first.
RequestsAnswered ==
  \A c \in BrokerConns :
    pc[c] = "counted" ~> pc[c] \in {"writing", "closing"} \/ exited

\* Once either listener has returned, the process ends: the timer it joins is
\* never left waiting for a reply.
ShutdownCompletes ==
  \A l \in Servers : listener[l][1] = "returned" ~> exited

=============================================================================
