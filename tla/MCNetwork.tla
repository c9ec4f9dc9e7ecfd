------------------------------ MODULE MCNetwork -----------------------------
(* What travels between processes: a client's frame and its answer, the    *)
(* routing of a frame through a cluster, and the peer RPCs of its nodes.   *)
EXTENDS BrokerExchange, ClusterRouter, RaftRpc

VARIABLE mode

Limits == {MinimumFrameBytes, DefaultMaxFrameBytes}

\* The parts that a behaviour does not exercise are at rest.
ExchangeAtRest == ExchangeInit /\ call = (CHOOSE c \in CallSet : TRUE)

RouterAtRest ==
  /\ setup = [kind |-> "owned", flavour |-> "sync", operations |-> RightWiring, broker |-> RightWiring]
  /\ leader = 1 /\ claimants = {1} /\ elections = 0 /\ posts = << >>
  /\ session = [epoch |-> 1, owner |-> Us, sequence |-> 0, outcome |-> NoAnswer, runs |-> 0, granted |-> {}]
  /\ router = [pc |-> "returned", attempt |-> 1, verdicts |-> Unprobed, reporters |-> {}, target |-> 0,
               heard |-> << >>, result |-> NoAnswer]

NetworkInit ==
  /\ mode \in {"exchange", "router", "peers"}
  /\ RpcInit
  /\ IF mode = "exchange" THEN ExchangeInit ELSE ExchangeAtRest
  /\ IF mode = "router" THEN RouterInit ELSE RouterAtRest

NetworkNext ==
  \/ mode = "exchange" /\ ExchangeNext /\ UNCHANGED <<mode, routerVars, rpcVars>>
  \/ mode = "router" /\ RouterNext /\ UNCHANGED <<mode, exchangeVars, rpcVars>>
  \/ mode = "peers" /\ RpcNext /\ UNCHANGED <<mode, exchangeVars, routerVars>>

\* RpcFairness, for the part that runs; nothing is asked of the others.
NetworkFairness ==
  /\ WF_rpcVars(mode = "peers" /\ StartFailed) /\ WF_rpcVars(mode = "peers" /\ JoinAcceptor)
  /\ WF_rpcVars(mode = "peers" /\ JoinWorkers)
  /\ WF_rpcVars(mode = "peers" /\ AcceptorStops) /\ WF_rpcVars(mode = "peers" /\ SendConnection)
  /\ WF_rpcVars(mode = "peers" /\ RefuseConnection)
  /\ \A w \in Workers : WF_rpcVars(mode = "peers" /\ WorkerNext(w))

NetworkSpec ==
  NetworkInit /\ [][NetworkNext]_<<mode, exchangeVars, routerVars, rpcVars>> /\ NetworkFairness

=============================================================================
