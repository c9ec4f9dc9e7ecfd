---------------------------- MODULE ClusterRouter ----------------------------
(***************************************************************************)
(* A client that routes one call through the static cluster routers        *)
(* (crates/agent-broker-client/src/router.rs and async_router.rs): probe   *)
(* every operations endpoint, demand exactly one verified write-ready      *)
(* node, send the frame there, and after a transport failure or an UNKNOWN *)
(* error discover again and send the same frame.  Meanwhile leadership     *)
(* moves, deposed leaders go on claiming it, frames and answers get lost   *)
(* or arrive after the client gave up, endpoints may be wired to another   *)
(* node, and a rival process may take the command session over.            *)
(***************************************************************************)
EXTENDS Integers, Sequences, FiniteSets

CONSTANTS
    MaxAttempts,        \* StaticClusterRoutingRetryPolicy
    MaxLeaderChanges    \* bound on elections

ASSUME RouterAssumption == MaxAttempts \in Nat \ {0} /\ MaxLeaderChanges \in Nat

VARIABLES
    setup,       \* the call, the router's flavour and how its endpoints are wired
    leader,      \* the node that can commit
    claimants,   \* nodes that report write-readiness and accept proposals
    elections,   \* elections so far
    session,     \* the replicated command-session record, and what it executed
    posts,       \* frames sent, one per attempt that got a connection
    router       \* the routing call

routerVars == <<setup, leader, claimants, elections, session, posts, router>>

\* The configuration always names three nodes.
RouterNodes == 1..3
Stranger == 0      \* an endpoint that is no Broker node
Us == "us"
Rival == "rival"
Former == "former"   \* the process that owned the session before

\* The wirings of three endpoints: right, or with one address wrong.
RightWiring == [n \in RouterNodes |-> n]
Wirings == {RightWiring} \cup {[RightWiring EXCEPT ![2] = 1, ![1] = 2], [RightWiring EXCEPT ![1] = Stranger]}

Unprobed == [n \in RouterNodes |-> "unprobed"]

---------------------------------------------------------------------------
(* Answers                                                                 *)

NoAnswer == [kind |-> "none", value |-> 0]
Ok(value) == [kind |-> "ok", value |-> value]
BrokerUnknown == [kind |-> "unknown", value |-> 0]
BrokerCommitted == [kind |-> "committed", value |-> 0]
BrokerRejected == [kind |-> "rejected", value |-> 0]
TransportFailed == [kind |-> "transport", value |-> 0]
BrokeProtocol == [kind |-> "protocol", value |-> 0]
RoutingError(kind) == [kind |-> kind, value |-> 0]

Ambiguous == {BrokerUnknown, TransportFailed}

\* Mutant: a router that redirects every failure.
ShouldRediscoverAny(answer_) == answer_.kind # "ok"

\* should_rediscover.
ShouldRediscover(answer_) == answer_ \in Ambiguous

---------------------------------------------------------------------------
(* The command session, as every replica applies it                        *)

\* Mutant: the frame is serialized anew, with a new sequence, per attempt.
FrameAgain(attempt) == [sequence |-> attempt]

\* What a frame says.  It is serialized once, before any node is chosen.
ExactFrame(attempt) == [sequence |-> 1]

\* apply_identified for the session the router's process owns at epoch one.
\* The state machine may refuse a command; that too is a recorded outcome.
ApplyOwned(post, answer_) ==
    LET owned == session.epoch = 1 /\ session.owner = Us
        next  == IF session.sequence = 0 THEN post.sequence = 1 ELSE post.sequence > session.sequence
    IN  \/ /\ ~owned \/ (post.sequence # session.sequence /\ ~next)
           /\ answer_ = BrokerRejected
           /\ UNCHANGED session
        \/ /\ owned /\ post.sequence = session.sequence
           /\ answer_ = session.outcome
           /\ UNCHANGED session
        \/ /\ owned /\ next
           /\ answer_ \in {Ok(1), BrokerCommitted}
           /\ session' = [session EXCEPT !.sequence = post.sequence, !.outcome = answer_, !.runs = @ + 1]

\* Mutant: a takeover that grants the epoch after the expected one to any instance.
AcquireSameEpoch(instance, expected, answer_) ==
    \/ /\ session.epoch \notin {0, expected, expected + 1}
       /\ answer_ = BrokerRejected
       /\ UNCHANGED session
    \/ LET epoch == IF session.epoch = 0 THEN 1 ELSE expected + 1
       IN  /\ session.epoch \in {0, expected, expected + 1}
           /\ answer_ = Ok(epoch)
           /\ session' = [session EXCEPT !.epoch = epoch, !.owner = instance, !.granted = @ \cup {<<instance, epoch>>}]

\* acquire_command_session_owner: a new session starts at epoch one, the
\* owner's own repetition is answered alike, and a takeover advances the epoch
\* and forgets the last outcome.
AcquireOwnership(instance, expected, answer_) ==
    LET mine  == session.owner = instance /\ session.epoch \in {expected, expected + 1}
        grant(epoch, sequence, last) ==
            /\ answer_ = Ok(epoch)
            /\ session' = [session EXCEPT !.epoch = epoch, !.owner = instance, !.sequence = sequence,
                                          !.outcome = last, !.granted = @ \cup {<<instance, epoch>>}]
    IN  \/ session.epoch = 0 /\ expected = 1 /\ grant(1, 0, NoAnswer)
        \/ session.epoch # 0 /\ mine /\ grant(session.epoch, session.sequence, session.outcome)
        \/ session.epoch # 0 /\ ~mine /\ session.epoch = expected /\ grant(expected + 1, 0, NoAnswer)
        \/ /\ IF session.epoch = 0 THEN expected # 1 ELSE ~mine /\ session.epoch # expected
           /\ answer_ = BrokerRejected
           /\ UNCHANGED session

Answers == {BrokerRejected, BrokerCommitted} \cup {Ok(value) : value \in 1..3}

ApplyPost(post, answer_) ==
    \/ setup.kind = "owned" /\ ApplyOwned(post, answer_)
    \/ setup.kind = "acquire" /\ AcquireOwnership(Us, 1, answer_)

---------------------------------------------------------------------------
(* The cluster                                                             *)

RouterInit ==
    /\ setup \in [kind : {"owned", "acquire"}, flavour : {"sync", "async"}, operations : Wirings, broker : Wirings]
    /\ setup.operations = RightWiring \/ setup.broker = RightWiring
    /\ setup.kind = "acquire" \/ setup.flavour = "async" => setup.operations = RightWiring /\ setup.broker = RightWiring
    /\ leader = 1
    /\ claimants = {1}
    /\ elections = 0
    /\ session \in [epoch : 0..1, owner : {Us, Former}, sequence : {0}, outcome : {NoAnswer}, runs : {0}, granted : {{}}]
    /\ IF setup.kind = "owned" THEN session.epoch = 1 /\ session.owner = Us ELSE session.owner = Former
    /\ posts = << >>
    /\ router = [pc |-> "start", attempt |-> 1, verdicts |-> Unprobed,
                 reporters |-> {}, target |-> 0, heard |-> << >>, result |-> NoAnswer]

\* Leadership is followed until the call returns; frames still on their way
\* then meet it as it is.
Elect(n) ==
    /\ router.pc # "returned"
    /\ elections < MaxLeaderChanges
    /\ n # leader
    /\ leader' = n
    /\ claimants' = claimants \cup {n}
    /\ elections' = elections + 1
    /\ UNCHANGED <<setup, session, posts, router>>

\* A deposed leader learns of it, or the leader's queue is full for a while.
Disclaim(n) ==
    /\ router.pc # "returned"
    /\ n \in claimants
    /\ claimants' = claimants \ {n}
    /\ UNCHANGED <<setup, leader, elections, session, posts, router>>

Reclaim ==
    /\ router.pc # "returned"
    /\ leader \notin claimants
    /\ claimants' = claimants \cup {leader}
    /\ UNCHANGED <<setup, leader, elections, session, posts, router>>

\* Another process takes the session over.
RivalAcquires ==
    /\ session.epoch # 0
    /\ \E expected \in 1..2, answer_ \in Answers : AcquireOwnership(Rival, expected, answer_)
    /\ session' # session
    /\ UNCHANGED <<setup, leader, claimants, elections, posts, router>>

\* The router reads on the connection of its last frame only, until it stops
\* waiting; what is answered on another one is never seen.
OnConnection(i) == router.pc = "waiting" /\ i = Len(posts)

Settle(i, status, answer_) ==
    posts' = [posts EXCEPT ![i].status = status,
                           ![i].reply = IF OnConnection(i) /\ @ = NoAnswer THEN answer_ ELSE @]

\* The frame, or the whole connection, is lost before the node reads it.
LosePost(i) ==
    /\ posts[i].status = "travelling"
    /\ Settle(i, "settled", NoAnswer)
    /\ UNCHANGED <<setup, leader, claimants, elections, session, router>>

\* A node that does not lead submits nothing and says TRANSPORT_ERROR; a full
\* state-owner queue refuses; a stranger does not speak the protocol.
RefusePost(i) ==
    /\ posts[i].status = "travelling"
    /\ \E answer_ \in {BrokerUnknown, BrokerRejected, BrokeProtocol} :
         /\ answer_ = BrokerUnknown => posts[i].node \in RouterNodes \ claimants
         /\ answer_ = BrokerRejected => posts[i].node \in RouterNodes
         /\ answer_ = BrokeProtocol => posts[i].node = Stranger
         /\ Settle(i, "settled", answer_)
    /\ UNCHANGED <<setup, leader, claimants, elections, session, router>>

\* The proposal enters the log of the node, which is doomed when another node
\* was elected before.
SubmitPost(i) ==
    /\ posts[i].status = "travelling"
    /\ posts[i].node \in claimants
    /\ Settle(i, IF posts[i].node = leader THEN "submitted" ELSE "doomed", NoAnswer)
    /\ UNCHANGED <<setup, leader, claimants, elections, session, router>>

\* The entry is committed, by its leader or by a successor that inherited it.
CommitPost(i) ==
    /\ posts[i].status = "submitted"
    /\ \E answer_ \in Answers : ApplyPost(posts[i], answer_) /\ Settle(i, "settled", answer_)
    /\ UNCHANGED <<setup, leader, claimants, elections, router>>

\* The write deadline: UNKNOWN is answered while the entry stays in the log.
DeadlinePost(i) ==
    /\ posts[i].status \in {"submitted", "doomed"}
    /\ posts[i].reply = NoAnswer /\ OnConnection(i)
    /\ Settle(i, posts[i].status, BrokerUnknown)
    /\ UNCHANGED <<setup, leader, claimants, elections, session, router>>

\* A deposed leader's entry is overwritten.
DropPost(i) ==
    /\ posts[i].status = "doomed" \/ (posts[i].status = "submitted" /\ posts[i].node # leader)
    /\ Settle(i, "settled", BrokerUnknown)
    /\ UNCHANGED <<setup, leader, claimants, elections, session, router>>

---------------------------------------------------------------------------
(* The router                                                              *)

RouterTo(fields) ==
    /\ router' = fields
    /\ UNCHANGED <<setup, leader, claimants, elections, session>>

\* The sequential router stops at the first endpoint that answers nonsense.
MayProbe(n) ==
    /\ router.pc = "start"
    /\ router.verdicts[n] = "unprobed"
    /\ setup.flavour = "sync" =>
         \A m \in RouterNodes : m < n => router.verdicts[m] \notin {"unprobed", "invalid"}

\* Mutant: a verdict that trusts the configuration about whose endpoint it is.
VerdictUnidentified(n, reporter) ==
    IF reporter = Stranger THEN "invalid"
    ELSE IF reporter \notin claimants THEN "absent" ELSE "ready"

\* validate_readiness: a node that claims write-readiness must prove that it
\* is the configured node and its own leader.
Verdict(n, reporter) ==
    IF reporter = Stranger THEN "invalid"
    ELSE IF reporter \notin claimants THEN "absent"
    ELSE IF reporter = n THEN "ready" ELSE "invalid"

\* probe_operations: unreachable, late or truncated is the same as not ready.
ProbeOperations(n) ==
    /\ MayProbe(n)
    /\ \/ RouterTo([router EXCEPT !.verdicts[n] = "absent"])
       \/ LET reporter == setup.operations[n]
          IN  RouterTo([router EXCEPT !.verdicts[n] = Verdict(n, reporter),
                                      !.reporters = @ \cup ({reporter} \cap claimants)])
    /\ UNCHANGED posts

Voted(verdict) == {n \in RouterNodes : router.verdicts[n] = verdict}
ProbesDone == Voted("unprobed") = {} \/ (setup.flavour = "sync" /\ Voted("invalid") # {})

\* discover_write_leader: exactly one node, or the call ends.
DiscoverWriteLeader ==
    /\ router.pc = "start"
    /\ ProbesDone
    /\ LET fails(kind) == RouterTo([router EXCEPT !.pc = "returned", !.result = RoutingError(kind)])
       IN  CASE Voted("invalid") # {} -> fails("InvalidOperationsResponse")
             [] Voted("invalid") = {} /\ Voted("ready") = {} -> fails("NoWriteReadyLeader")
             [] Voted("invalid") = {} /\ Cardinality(Voted("ready")) > 1 -> fails("MultipleWriteReadyLeaders")
             [] OTHER -> RouterTo([router EXCEPT !.pc = "chosen", !.target = CHOOSE n \in Voted("ready") : TRUE,
                                                 !.verdicts = Unprobed])
    /\ UNCHANGED posts

AttemptsLeft == router.attempt < MaxAttempts

\* What route_exact_frame does with the outcome of an attempt.
Conclude(answer_) ==
    LET again == ShouldRediscover(answer_) /\ AttemptsLeft
    IN  RouterTo([pc        |-> IF again THEN "start" ELSE "returned",
                  attempt   |-> IF again THEN router.attempt + 1 ELSE router.attempt,
                  verdicts  |-> Unprobed,
                  reporters |-> {},
                  target    |-> 0,
                  heard     |-> Append(router.heard, answer_),
                  result    |-> IF again THEN NoAnswer ELSE answer_])

\* The connection is dropped with the attempt.
Disconnect == posts' = [posts EXCEPT ![Len(posts)].reply = NoAnswer]

\* round_trip_encoded on a new connection to the chosen node's Broker address.
SendFrame ==
    /\ router.pc = "chosen"
    /\ posts' = Append(posts, [node |-> setup.broker[router.target], status |-> "travelling", reply |-> NoAnswer,
                               sequence |-> ExactFrame(router.attempt).sequence])
    /\ RouterTo([router EXCEPT !.pc = "waiting"])

ConnectFails ==
    /\ router.pc = "chosen"
    /\ Conclude(TransportFailed)
    /\ UNCHANGED posts

\* The answer to this attempt arrives; every connection carries one frame.
HearAnswer ==
    /\ router.pc = "waiting"
    /\ posts[Len(posts)].reply # NoAnswer
    /\ Conclude(posts[Len(posts)].reply)
    /\ Disconnect

\* The timeout, or a broken connection.  The frame may still be on its way.
GiveUpWaiting ==
    /\ router.pc = "waiting"
    /\ Conclude(TransportFailed)
    /\ Disconnect

RouterStep ==
    \/ \E n \in RouterNodes : ProbeOperations(n)
    \/ DiscoverWriteLeader \/ SendFrame \/ ConnectFails \/ HearAnswer \/ GiveUpWaiting

RouterNext ==
    \/ \E n \in RouterNodes : Elect(n) \/ Disclaim(n)
    \/ Reclaim \/ RivalAcquires
    \/ \E i \in DOMAIN posts :
         LosePost(i) \/ RefusePost(i) \/ SubmitPost(i) \/ CommitPost(i) \/ DeadlinePost(i) \/ DropPost(i)
    \/ RouterStep

RouterSpec == RouterInit /\ [][RouterNext]_routerVars

---------------------------------------------------------------------------
(* Properties                                                              *)

\* Type invariant.
RouterTypeOK ==
    /\ leader \in RouterNodes /\ claimants \subseteq RouterNodes
    /\ elections \in 0..MaxLeaderChanges
    /\ session.epoch \in 0..3 /\ session.owner \in {Us, Rival, Former}
    /\ Len(posts) <= router.attempt
    /\ router.attempt \in 1..MaxAttempts
    /\ router.pc \in {"start", "chosen", "waiting", "returned"}
    /\ router.verdicts \in [RouterNodes -> {"unprobed", "absent", "ready", "invalid"}]

\* However often a routed mutation is sent, to however many leaders, and
\* whenever its frames arrive, it is executed at most once.  A success that
\* the router returned stays true: the mutation was executed and its recorded
\* outcome is the one returned, whatever duplicates of the frame arrive
\* afterwards; an acquired epoch was granted to this process and no other.
RoutedOnce ==
    /\ session.runs <= 1
    /\ router.pc = "returned" /\ router.result.kind = "ok" =>
        IF setup.kind = "owned"
        THEN session.runs = 1 /\ (session.epoch = 1 => session.outcome = router.result)
        ELSE /\ <<Us, router.result.value>> \in session.granted
             /\ <<Rival, router.result.value>> \notin session.granted

\* Every frame is justified.  It goes to the configured Broker address of the
\* node that, in the discovery just made, was the only one to report
\* write-readiness, under its configured identity (whether that address is
\* that node's nobody verifies); and another one follows ambiguous outcomes
\* only: a rejection, a committed refusal or a protocol failure ends the call,
\* which returns it.
FramesJustified ==
    /\ router.pc \in {"chosen", "waiting"} => router.reporters = {router.target}
    /\ \A i \in DOMAIN router.heard :
        router.heard[i] \notin Ambiguous => /\ i = Len(router.heard)
                                            /\ router.pc = "returned" /\ router.result = router.heard[i]

=============================================================================
