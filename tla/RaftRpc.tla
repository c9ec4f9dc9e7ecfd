------------------------------ MODULE RaftRpc -------------------------------
(***************************************************************************)
(* Raft calls between nodes: TcpRaftNetwork, which makes one connection    *)
(* per call, and the RPC server of a node, whose acceptor thread puts      *)
(* connections into a bounded channel that a pool of workers shares behind *)
(* a mutex.                                                                *)
(*                                                                         *)
(* A step of a thread is one operation on what threads share: a counter,   *)
(* the channel, the mutex, the stop flag or the socket.  The engine that   *)
(* runs the call is external; every wait on a socket ends at a deadline.   *)
(***************************************************************************)
EXTENDS Integers, Sequences, FiniteSets

CONSTANTS
  Calls,                \* calls that peers make, each on its connection
  Workers,              \* RPC_CONNECTION_WORKERS threads
  QueueCapacity,        \* RPC_CONNECTION_QUEUE_CAPACITY
  MaxRpcFaults,         \* bound on failing system calls
  Nobody

ASSUME RpcAssumption ==
  /\ QueueCapacity \in Nat \ {0} /\ MaxRpcFaults \in Nat
  /\ IsFiniteSet(Workers) /\ Workers # {} /\ Nobody \notin Workers \cup Calls

VARIABLES
  caller,       \* the calling side: "idle", "waiting", or what it returned
  link,         \* the connection: "none", "backlog", "open" or "closed"
  ran,          \* calls the engine has run
  server,       \* where start_raft_rpc_server, then stop, is
  acceptor,     \* what the acceptor is doing, and the connection it holds
  channel,      \* connections on their way to the workers
  lock,         \* the worker that holds the receiver, or Nobody
  worker,       \* what each worker is doing
  stream,       \* the connection each worker holds, or Nobody
  queued_connections, active_connections,
  stopping,     \* the stop flag
  rpc_faults

peers == <<caller, link, ran>>
control == <<server, stopping, rpc_faults>>
load == <<queued_connections, active_connections>>
workers == <<lock, worker, stream>>
rpcVars == <<peers, control, load, acceptor, channel, workers>>

RpcInit ==
  /\ caller = [c \in Calls |-> "idle"]
  /\ link = [c \in Calls |-> "none"]
  /\ ran = {}
  /\ server = "starting" /\ acceptor = <<"unborn", Nobody>>
  /\ channel = <<>> /\ lock = Nobody
  /\ worker = [w \in Workers |-> "unborn"]
  /\ stream = [w \in Workers |-> Nobody]
  /\ queued_connections = 0 /\ active_connections = 0
  /\ stopping = FALSE /\ rpc_faults = 0

RpcFault == rpc_faults < MaxRpcFaults /\ rpc_faults' = rpc_faults + 1
WorkerTo(w, where) == worker' = [worker EXCEPT ![w] = where]
AllReturned == \A w \in Workers : worker[w] \in {"unborn", "returned"}

\* Mutant: start keeps its own end of the channel.
SenderKept == server # "stopped"

\* Whether anyone can still send to the channel: start until it has handed the
\* sender over or dropped it, then the acceptor.
SenderAlive ==
  \/ server = "starting"
  \/ acceptor[1] \notin {"unborn", "returned"}

\* The listener belongs to start, then to the acceptor; connections nobody
\* accepted are closed with it.
CloseBacklog ==
  link' = [c \in Calls |-> IF link[c] = "backlog" THEN "closed" ELSE link[c]]

-----------------------------------------------------------------------------
(* start_raft_rpc_server and stop *)

SpawnWorker(w) ==
  /\ server = "starting" /\ worker[w] = "unborn"
  /\ WorkerTo(w, "lock")
  /\ UNCHANGED <<peers, control, load, acceptor, channel, lock, stream>>

SpawnAcceptor ==
  /\ server = "starting" /\ \A w \in Workers : worker[w] # "unborn"
  /\ server' = "serving" /\ acceptor' = <<"top", Nobody>>
  /\ UNCHANGED <<peers, stopping, rpc_faults, load, channel, workers>>

\* A thread cannot be spawned: the sender is dropped and the workers joined.
SpawnFails ==
  /\ server = "starting" /\ RpcFault
  /\ server' = "failing"
  /\ UNCHANGED <<peers, stopping, load, acceptor, channel, workers>>

StartFailed ==
  /\ server = "failing" /\ AllReturned
  /\ server' = "failed"
  /\ CloseBacklog
  /\ UNCHANGED <<caller, ran, stopping, rpc_faults, load, acceptor, channel,
                 workers>>

StopServer ==
  /\ server = "serving"
  /\ stopping' = TRUE /\ server' = "joining_acceptor"
  /\ UNCHANGED <<peers, rpc_faults, load, acceptor, channel, workers>>

JoinAcceptor ==
  /\ server = "joining_acceptor" /\ acceptor[1] = "returned"
  /\ server' = "joining_workers"
  /\ UNCHANGED <<peers, stopping, rpc_faults, load, acceptor, channel, workers>>

\* Mutant: the workers are not joined.
JoinWorkersUnwaited ==
  /\ server = "joining_workers"
  /\ server' = "stopped"
  /\ UNCHANGED <<peers, stopping, rpc_faults, load, acceptor, channel, workers>>

JoinWorkers ==
  /\ server = "joining_workers" /\ AllReturned
  /\ server' = "stopped"
  /\ UNCHANGED <<peers, stopping, rpc_faults, load, acceptor, channel, workers>>

-----------------------------------------------------------------------------
(* The caller: request and blocking_request *)

\* Whether the port is bound.
Listening == server \in {"starting", "failing"} \/ SenderAlive

Connect(c) ==
  /\ caller[c] = "idle"
  /\ IF Listening
       THEN /\ caller' = [caller EXCEPT ![c] = "waiting"]
            /\ link' = [link EXCEPT ![c] = "backlog"]
       ELSE /\ caller' = [caller EXCEPT ![c] = "unreachable"]
            /\ UNCHANGED link
  /\ UNCHANGED <<ran, control, load, acceptor, channel, workers>>

\* A deadline passes or the connection is closed: Unreachable, whether or not
\* the peer's engine has run the call or will run it.
CallFails(c) ==
  /\ caller[c] = "waiting"
  /\ caller' = [caller EXCEPT ![c] = "unreachable"]
  /\ UNCHANGED <<link, ran, control, load, acceptor, channel, workers>>

-----------------------------------------------------------------------------
(* The acceptor: serve_rpc *)

AcceptorStops ==
  /\ acceptor[1] = "top" /\ stopping
  /\ acceptor' = <<"returned", Nobody>>
  /\ CloseBacklog
  /\ UNCHANGED <<caller, ran, control, load, channel, workers>>

\* accept fails with an error other than WouldBlock.
AcceptFails ==
  /\ acceptor[1] = "top" /\ ~stopping /\ RpcFault
  /\ acceptor' = <<"returned", Nobody>>
  /\ CloseBacklog
  /\ UNCHANGED <<caller, ran, server, stopping, load, channel, workers>>

\* A connection is counted before it is sent.
AcceptConnection(c) ==
  /\ acceptor[1] = "top" /\ link[c] = "backlog"
  /\ link' = [link EXCEPT ![c] = "open"]
  /\ queued_connections' = queued_connections + 1
  /\ acceptor' = <<"counted", c>>
  /\ UNCHANGED <<caller, ran, control, active_connections, channel, workers>>

SendConnection ==
  /\ acceptor[1] = "counted" /\ Len(channel) < QueueCapacity
  /\ channel' = Append(channel, acceptor[2])
  /\ acceptor' = <<"top", Nobody>>
  /\ UNCHANGED <<peers, control, load, workers>>

\* Mutant: a refused connection stays counted.
RefuseStillCounted ==
  /\ acceptor[1] = "counted" /\ Len(channel) >= QueueCapacity
  /\ link' = [link EXCEPT ![acceptor[2]] = "closed"]
  /\ acceptor' = <<"top", Nobody>>
  /\ UNCHANGED <<caller, ran, control, load, channel, workers>>

\* A full channel closes the connection.
RefuseConnection ==
  /\ acceptor[1] = "counted" /\ Len(channel) >= QueueCapacity
  /\ queued_connections' = queued_connections - 1
  /\ link' = [link EXCEPT ![acceptor[2]] = "closed"]
  /\ acceptor' = <<"top", Nobody>>
  /\ UNCHANGED <<caller, ran, control, active_connections, channel, workers>>

-----------------------------------------------------------------------------
(* A worker: serve_rpc_connections and handle_connection *)

LockReceiver(w) ==
  /\ worker[w] = "lock" /\ lock = Nobody
  /\ lock' = w
  /\ WorkerTo(w, "recv")
  /\ UNCHANGED <<peers, control, load, acceptor, channel, stream>>

\* recv returns a connection, or fails once the channel is empty for good.
TakeConnection(w) ==
  /\ worker[w] = "recv"
  /\ \/ /\ channel # <<>>
        /\ stream' = [stream EXCEPT ![w] = Head(channel)]
        /\ channel' = Tail(channel)
        /\ WorkerTo(w, "received")
     \/ /\ channel = <<>> /\ ~SenderAlive
        /\ WorkerTo(w, "returned")
        /\ UNCHANGED <<stream, channel>>
  /\ lock' = Nobody
  /\ UNCHANGED <<peers, control, load, acceptor>>

UncountQueued(w) ==
  /\ worker[w] = "received"
  /\ queued_connections' = queued_connections - 1
  /\ WorkerTo(w, "check")
  /\ UNCHANGED <<peers, control, active_connections, acceptor, channel, lock,
                 stream>>

\* A worker lets go of its connection, which closes it.
Release(w) ==
  /\ link' = [link EXCEPT ![stream[w]] = "closed"]
  /\ stream' = [stream EXCEPT ![w] = Nobody]

\* Connections still queued when the server stops are closed unread.
CheckStop(w) ==
  /\ worker[w] = "check"
  /\ IF stopping THEN Release(w) /\ WorkerTo(w, "lock")
                 ELSE WorkerTo(w, "admit") /\ UNCHANGED <<link, stream>>
  /\ UNCHANGED <<caller, ran, control, load, acceptor, channel, lock>>

CountActive(w) ==
  /\ worker[w] = "admit"
  /\ active_connections' = active_connections + 1
  /\ WorkerTo(w, "read")
  /\ UNCHANGED <<peers, control, queued_connections, acceptor, channel, lock,
                 stream>>

\* The handshake, the frame and the peer's certificate: a caller that has gone
\* leaves them incomplete until the deadline.
ReadCall(w) ==
  /\ worker[w] = "read" /\ caller[stream[w]] = "waiting"
  /\ WorkerTo(w, "run")
  /\ UNCHANGED <<peers, control, load, acceptor, channel, lock, stream>>

\* Mutant: the socket has no deadline.
ReadFailsIfPresent(w) ==
  /\ worker[w] = "read" /\ caller[stream[w]] = "waiting"
  /\ Release(w)
  /\ WorkerTo(w, "done")
  /\ UNCHANGED <<caller, ran, control, load, acceptor, channel, lock>>

ReadFails(w) ==
  /\ worker[w] = "read"
  /\ Release(w)
  /\ WorkerTo(w, "done")
  /\ UNCHANGED <<caller, ran, control, load, acceptor, channel, lock>>

\* The engine runs the call, to its result or to a fatal error.
RunCall(w) ==
  /\ worker[w] = "run"
  /\ ran' = ran \cup {stream[w]}
  /\ \E result \in {"ok", "fatal"} : WorkerTo(w, result)
  /\ UNCHANGED <<caller, link, control, load, acceptor, channel, lock, stream>>

\* The response, which the caller may no longer wait for: an answer of the
\* engine, or its fatal error as a RemoteError.
WriteResponse(w) ==
  /\ worker[w] \in {"ok", "fatal"}
  /\ \/ /\ caller[stream[w]] = "waiting"
        /\ caller' = [caller EXCEPT ![stream[w]] =
                        IF worker[w] = "ok" THEN "ok" ELSE "remote_error"]
     \/ UNCHANGED caller
  /\ Release(w)
  /\ WorkerTo(w, "done")
  /\ UNCHANGED <<ran, control, load, acceptor, channel, lock>>

UncountActive(w) ==
  /\ worker[w] = "done"
  /\ active_connections' = active_connections - 1
  /\ WorkerTo(w, "lock")
  /\ UNCHANGED <<peers, control, queued_connections, acceptor, channel, lock,
                 stream>>

WorkerNext(w) ==
  \/ LockReceiver(w) \/ TakeConnection(w) \/ UncountQueued(w) \/ CheckStop(w)
  \/ CountActive(w) \/ ReadCall(w) \/ ReadFails(w) \/ RunCall(w)
  \/ WriteResponse(w) \/ UncountActive(w)

AcceptorNext ==
  \/ AcceptorStops \/ AcceptFails
  \/ \E c \in Calls : AcceptConnection(c)
  \/ SendConnection \/ RefuseConnection

RpcNext ==
  \/ \E w \in Workers : SpawnWorker(w) \/ WorkerNext(w)
  \/ SpawnAcceptor \/ SpawnFails \/ StartFailed
  \/ StopServer \/ JoinAcceptor \/ JoinWorkers
  \/ AcceptorNext
  \/ \E c \in Calls : Connect(c) \/ CallFails(c)

RpcSpec == RpcInit /\ [][RpcNext]_rpcVars

\* Threads are scheduled, sockets have deadlines and the engine answers: it is
\* shut down only after the server has stopped.
RpcFairness ==
  /\ WF_rpcVars(StartFailed) /\ WF_rpcVars(JoinAcceptor)
  /\ WF_rpcVars(JoinWorkers)
  /\ WF_rpcVars(AcceptorStops) /\ WF_rpcVars(SendConnection)
  /\ WF_rpcVars(RefuseConnection)
  /\ \A w \in Workers : WF_rpcVars(WorkerNext(w))

-----------------------------------------------------------------------------
(* Properties *)

WorkerStates ==
  {"unborn", "lock", "recv", "received", "check", "admit", "read", "run", "ok",
   "fatal", "done", "returned"}

\* The threads, the connections and the counters.
RpcTypeOK ==
  /\ caller \in [Calls -> {"idle", "waiting", "unreachable", "ok",
                           "remote_error"}]
  /\ link \in [Calls -> {"none", "backlog", "open", "closed"}]
  /\ server \in {"starting", "serving", "failing", "failed",
                 "joining_acceptor", "joining_workers", "stopped"}
  /\ acceptor \in {"unborn", "top", "counted", "returned"}
                    \X (Calls \cup {Nobody})
  /\ Len(channel) <= QueueCapacity
  /\ lock \in Workers \cup {Nobody}
  /\ worker \in [Workers -> WorkerStates]
  /\ stream \in [Workers -> Calls \cup {Nobody}]
  /\ queued_connections \in Nat /\ active_connections \in Nat

\* The load that the node reports is what waits for a worker and what workers
\* handle, at every moment between the operations that keep it; a counter that
\* went below zero would wrap to its largest value.
LoadExact ==
  /\ queued_connections =
       Len(channel) + (IF acceptor[1] = "counted" THEN 1 ELSE 0)
         + Cardinality({w \in Workers : worker[w] = "received"})
  /\ active_connections =
       Cardinality({w \in Workers :
                      worker[w] \in {"read", "run", "ok", "fatal", "done"}})

\* The acceptor never finds the workers gone: its Disconnected branch and the
\* loss of the connection it holds are out of reach.
WorkersOutliveAcceptor ==
  acceptor[1] \in {"top", "counted"} =>
    \A w \in Workers : worker[w] # "returned"

\* When stop or a failed start returns, every connection is closed, no worker
\* is inside the engine, which is shut down next, and the load is zero.
QuietWhenStopped ==
  server \in {"stopped", "failed"} =>
    /\ \A c \in Calls : link[c] \in {"none", "closed"}
    /\ channel = <<>> /\ queued_connections = 0 /\ active_connections = 0

\* stop returns, and a start that fails half-way joins the workers it had
\* spawned and returns, whatever the peers do.
RpcStopCompletes ==
  server \in {"joining_acceptor", "failing"} ~> server \in {"stopped", "failed"}

\* A connection that was accepted is answered or closed: none is left waiting
\* in the channel by a stop, a slow peer or workers that hold the receiver.
\* (A call connects once, so together they end too.)
AcceptedResolved ==
  (\E c \in Calls : link[c] = "open") ~> (\A c \in Calls : link[c] # "open")

=============================================================================
