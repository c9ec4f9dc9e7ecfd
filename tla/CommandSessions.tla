-------------------------- MODULE CommandSessions ---------------------------
(***************************************************************************)
(* Exactly-once command sessions: the session record that the replicated   *)
(* state machine keeps (owner epoch, owner instance, last outcome), and    *)
(* the durable session stores of the clients that send identified          *)
(* mutations and take the session over from one another.                   *)
(*                                                                         *)
(* One session is modelled; sessions share nothing but their number.  The  *)
(* network is the set of requests sent so far: an attempt whose answer the *)
(* client did not see may be applied at any later time, or never.  Every   *)
(* command is reserved at most once, so a command names its reservation.   *)
(***************************************************************************)
EXTENDS Naturals, Sequences, FiniteSets

CONSTANTS
  Clients, Commands,
  Responses,       \* results and application errors a command may have
  InstancesPerClient,
  MaxSequence, MaxOwnerEpoch,  \* bounds of the counters
  MaxFaults,       \* bound on crashes and failed writes of the stores
  QueueMayFill,    \* whether the broker's request queue ever saturates
  None

ASSUME BoundsAssumption ==
  /\ {InstancesPerClient, MaxSequence, MaxOwnerEpoch} \subseteq Nat \ {0}
  /\ MaxFaults \in Nat /\ QueueMayFill \in BOOLEAN

VARIABLES
  session,   \* the broker's record of the session, or None
  log,       \* the commands the broker executed, in order
  sent,      \* requests that may still be applied
  memory,    \* the state each client's store works on
  disk,      \* the state each client's store has persisted
  inbox,     \* the answer a client has read and not yet acted on, or None
  told,      \* what the caller of each command was told
  fresh,     \* commands not yet reserved
  faults

broker == <<session, log>>
clients == <<memory, disk, inbox, told, fresh, faults>>
vars == <<broker, sent, clients>>

Instances == Clients \X (1..InstancesPerClient)
NoOutcome == [sequence |-> 0, command |-> None, response |-> None]
Outcomes == [sequence : 0..MaxSequence, command : Commands \cup {None},
             response : Responses \cup {None}]

\* What the broker records of a session, and what a store asks for.
SessionRecords == [owner_epoch : 1..MaxOwnerEpoch, owner_instance : Instances,
                   last_outcome : Outcomes]
Acquisitions == [expected_epoch : 1..MaxOwnerEpoch, owner_instance : Instances]

ASSUME NoneIsNoValue ==
  None \notin Commands \cup Responses \cup Instances \cup SessionRecords
             \cup Acquisitions

EmptyStore ==
  [owner_epoch |-> 0, owner_instance |-> None, pending |-> None,
   next_sequence |-> 1, in_flight |-> None]

Init ==
  /\ session = None /\ log = <<>> /\ sent = {}
  /\ memory = [c \in Clients |-> EmptyStore]
  /\ disk = [c \in Clients |-> EmptyStore]
  /\ inbox = [c \in Clients |-> None]
  /\ told = [x \in Commands |-> None]
  /\ fresh = Commands
  /\ faults = 0

-----------------------------------------------------------------------------
(* The replicated state machine *)

\* Mutant: the owner is not compared.
FencedOutWithoutSession(r) == session = None

FencedOut(r) ==
  \/ session = None
  \/ r.owner_epoch # session.owner_epoch
  \/ r.owner_instance # session.owner_instance

\* Mutant: a repeated sequence is answered whatever command it carries.
ReplaysAnyCommand(r) ==
  /\ ~FencedOut(r)
  /\ session.last_outcome # NoOutcome
  /\ r.sequence = session.last_outcome.sequence

\* apply_identified answers a retry of the last command from its record.
Replays(r) ==
  /\ ~FencedOut(r)
  /\ session.last_outcome # NoOutcome
  /\ r.sequence = session.last_outcome.sequence
  /\ r.command = session.last_outcome.command

\* Mutant: a repeated sequence is executed again.
ExecutesAgain(r) ==
  /\ ~FencedOut(r)
  /\ r.sequence >= session.last_outcome.sequence

\* It executes a command that comes after the last one, the first being 1.
Executes(r) ==
  /\ ~FencedOut(r)
  /\ IF session.last_outcome = NoOutcome
       THEN r.sequence = 1
       ELSE r.sequence > session.last_outcome.sequence

Committed(response) == [kind |-> "committed", response |-> response]
Rejected == [kind |-> "rejected"]
Acquired(epoch) == [kind |-> "acquired", owner_epoch |-> epoch]

\* Apply an identified mutation and answer it.
ApplyIdentified(r, reply) ==
  \/ /\ Executes(r)
     /\ \E response \in Responses :
          /\ session' = [session EXCEPT !.last_outcome =
               [sequence |-> r.sequence, command |-> r.command,
                response |-> response]]
          /\ log' = Append(log, [owner_epoch |-> r.owner_epoch,
                                 sequence |-> r.sequence,
                                 command |-> r.command,
                                 response |-> response])
          /\ reply = Committed(response)
  \/ /\ Replays(r)
     /\ reply = Committed(session.last_outcome.response)
     /\ UNCHANGED broker
  \/ /\ ~Executes(r) /\ ~Replays(r)
     /\ reply = Rejected
     /\ UNCHANGED broker

\* acquire_command_session_owner: a new session, a retry by the instance that
\* already owns it, a takeover, or a stale expectation.
AcquireOwner(r, reply) ==
  \/ /\ session = None /\ r.expected_epoch = 1
     /\ session' = [owner_epoch |-> 1, owner_instance |-> r.owner_instance,
                    last_outcome |-> NoOutcome]
     /\ reply = Acquired(1)
     /\ UNCHANGED log
  \/ /\ session # None
     /\ session.owner_instance = r.owner_instance
     /\ session.owner_epoch \in {r.expected_epoch, r.expected_epoch + 1}
     /\ reply = Acquired(session.owner_epoch)
     /\ UNCHANGED broker
  \/ /\ session # None
     /\ session.owner_instance # r.owner_instance
     /\ session.owner_epoch = r.expected_epoch
     /\ session.owner_epoch < MaxOwnerEpoch
     /\ session' = [owner_epoch |-> session.owner_epoch + 1,
                    owner_instance |-> r.owner_instance,
                    last_outcome |-> NoOutcome]
     /\ reply = Acquired(session.owner_epoch + 1)
     /\ UNCHANGED log
  \/ /\ IF session = None
          THEN r.expected_epoch # 1
          ELSE /\ session.owner_epoch # r.expected_epoch
               /\ \/ session.owner_instance # r.owner_instance
                  \/ session.owner_epoch # r.expected_epoch + 1
     /\ reply = Rejected
     /\ UNCHANGED broker

Apply(r, reply) ==
  IF r.kind = "command" THEN ApplyIdentified(r, reply)
                        ELSE AcquireOwner(r, reply)

Replies == {Committed(response) : response \in Responses} \cup {Rejected}
             \cup {Acquired(epoch) : epoch \in 1..MaxOwnerEpoch}

-----------------------------------------------------------------------------
(* The clients' durable stores *)

\* commit_state: persist, then work on the new state.
Commit(c, next) ==
  /\ memory' = [memory EXCEPT ![c] = next]
  /\ disk' = [disk EXCEPT ![c] = next]
  /\ UNCHANGED faults

\* The write fails, before the new file replaced the old one or after: the
\* store keeps working on the old state and the caller gets an error.
CommitFails(c, next) ==
  /\ faults < MaxFaults
  /\ faults' = faults + 1
  /\ disk' \in {disk, [disk EXCEPT ![c] = next]}
  /\ UNCHANGED memory

BeginOwnerAcquisition(c, i) ==
  LET store == memory[c]
      expected == IF store.owner_epoch = 0 THEN 1 ELSE store.owner_epoch
      next == [store EXCEPT !.pending =
                 [expected_epoch |-> expected, owner_instance |-> i]]
  IN
  /\ inbox[c] = None
  /\ store.in_flight = None /\ store.pending = None
  /\ store.owner_instance # i
  /\ Commit(c, next) \/ CommitFails(c, next)
  /\ UNCHANGED <<broker, sent, inbox, told, fresh>>

ReserveCommand(c, x) ==
  LET store == memory[c]
      next == [store EXCEPT !.in_flight = x]
  IN
  /\ inbox[c] = None
  /\ store.pending = None /\ store.in_flight = None
  /\ store.owner_epoch # 0
  /\ store.next_sequence <= MaxSequence
  /\ x \in fresh
  /\ fresh' = fresh \ {x}
  /\ Commit(c, next) \/ CommitFails(c, next)
  /\ UNCHANGED <<broker, sent, inbox, told>>

\* The exact request a store retries: its acquisition or its command.
Unresolved(c) == memory[c].pending # None \/ memory[c].in_flight # None

RequestOf(c) ==
  LET store == memory[c] IN
  IF store.pending # None
    THEN [kind |-> "acquire", expected_epoch |-> store.pending.expected_epoch,
          owner_instance |-> store.pending.owner_instance]
    ELSE [kind |-> "command", owner_epoch |-> store.owner_epoch,
          owner_instance |-> store.owner_instance,
          sequence |-> store.next_sequence, command |-> store.in_flight]

\* An attempt that the broker applies and the client sees answered.
AttemptAnswered(c) ==
  /\ Unresolved(c) /\ inbox[c] = None
  /\ \E reply \in Replies :
       /\ Apply(RequestOf(c), reply)
       /\ inbox' = [inbox EXCEPT ![c] = reply]
  /\ UNCHANGED <<sent, memory, disk, told, fresh, faults>>

\* An attempt that ends in a transport error, a deadline or an UNKNOWN error:
\* the request may be applied later.
AttemptAmbiguous(c) ==
  /\ Unresolved(c) /\ inbox[c] = None
  /\ sent' = sent \cup {RequestOf(c)}
  /\ UNCHANGED <<broker, clients>>

\* An attempt that finds the state owner's queue full, which the server
\* answers as REJECTED without looking at the session.
AttemptSaturated(c) ==
  /\ QueueMayFill
  /\ Unresolved(c) /\ inbox[c] = None
  /\ inbox' = [inbox EXCEPT ![c] = Rejected]
  /\ UNCHANGED <<broker, sent, memory, disk, told, fresh, faults>>

\* An earlier attempt reaches the state machine after its client gave up on it.
ApplyLate(r) ==
  /\ \E reply \in Replies : Apply(r, reply)
  /\ UNCHANGED <<sent, clients>>

\* validate_acquired_epoch
AcceptableEpoch(store, epoch) ==
  \/ epoch = store.pending.expected_epoch + 1
  \/ store.owner_epoch = 0 /\ epoch = store.pending.expected_epoch

\* What the store becomes when its client acts on an answer; an answer that
\* calls for no write leaves it alone.
Confirmed(store, epoch) ==
  [owner_epoch |-> epoch, owner_instance |-> store.pending.owner_instance,
   pending |-> None, next_sequence |-> 1, in_flight |-> None]

Acknowledged(store) ==
  [store EXCEPT !.next_sequence = @ + 1, !.in_flight = None]

\* Mutant: a rejected command uses up its sequence.
ReleasedWithSequence(store) ==
  [store EXCEPT !.next_sequence = @ + 1, !.in_flight = None]

\* Mutant: a rejected command stays in flight.
ReleasedNever(store) == store

Released(store) == [store EXCEPT !.in_flight = None]

AfterReply(store, reply) ==
  IF reply.kind = "acquired"
    THEN IF AcceptableEpoch(store, reply.owner_epoch)
           THEN Confirmed(store, reply.owner_epoch) ELSE store
  ELSE IF store.pending # None THEN store
  ELSE IF reply.kind = "committed" THEN Acknowledged(store)
  ELSE Released(store)

\* Only a completed write lets the caller learn its command's outcome.
HandleReply(c) ==
  LET store == memory[c]
      next == AfterReply(store, inbox[c])
      x == store.in_flight
  IN
  /\ inbox[c] # None
  /\ inbox' = [inbox EXCEPT ![c] = None]
  /\ \/ /\ IF next = store THEN UNCHANGED <<memory, disk, faults>>
                           ELSE Commit(c, next)
        /\ told' = IF x = None THEN told ELSE [told EXCEPT ![x] = inbox[c]]
     \/ /\ next # store
        /\ CommitFails(c, next)
        /\ UNCHANGED told
  /\ UNCHANGED <<broker, sent, fresh>>

\* The client process ends and is started again on its persisted state.
Restart(c) ==
  /\ faults < MaxFaults
  /\ faults' = faults + 1
  /\ memory' = [memory EXCEPT ![c] = disk[c]]
  /\ inbox' = [inbox EXCEPT ![c] = None]
  /\ UNCHANGED <<broker, sent, disk, told, fresh>>

Next ==
  \/ \E c \in Clients :
       \/ \E k \in 1..InstancesPerClient : BeginOwnerAcquisition(c, <<c, k>>)
       \/ \E x \in Commands : ReserveCommand(c, x)
       \/ AttemptAnswered(c) \/ AttemptAmbiguous(c) \/ AttemptSaturated(c)
       \/ HandleReply(c) \/ Restart(c)
  \/ \E r \in sent : ApplyLate(r)

Spec == Init /\ [][Next]_vars

\* A client keeps recovering its in-flight command, and the broker answers
\* some attempt; faults are finite.
FairSpec ==
  Spec /\ \A c \in Clients :
            WF_vars(AttemptAnswered(c)) /\ WF_vars(HandleReply(c))

-----------------------------------------------------------------------------
(* Properties *)

Stores ==
  [owner_epoch : 0..MaxOwnerEpoch, owner_instance : Instances \cup {None},
   pending : Acquisitions \cup {None},
   next_sequence : 1..(MaxSequence + 1), in_flight : Commands \cup {None}]

Executions == [owner_epoch : 1..MaxOwnerEpoch, sequence : 1..MaxSequence,
               command : Commands, response : Responses]

\* The state of the broker's record, the stores and the answers.
TypeOK ==
  /\ session \in SessionRecords \cup {None}
  /\ log \in Seq(Executions)
  /\ memory \in [Clients -> Stores] /\ disk \in [Clients -> Stores]
  /\ inbox \in [Clients -> Replies \cup {None}]
  /\ told \in [Commands -> Replies \cup {None}]
  /\ fresh \subseteq Commands /\ faults \in 0..MaxFaults

\* Retries, late duplicates, takeovers and restarts never execute a reserved
\* command twice, and commands run in the order of owner epoch and sequence:
\* once a new owner runs, nothing of an earlier owner does.
ExecutedOnceInOrder ==
  \A i, j \in DOMAIN log : i < j =>
    /\ log[i].command # log[j].command
    /\ \/ log[i].owner_epoch < log[j].owner_epoch
       \/ /\ log[i].owner_epoch = log[j].owner_epoch
          /\ log[i].sequence < log[j].sequence

\* A caller told that its command is committed gets the outcome of that very
\* command.
OutcomeIsOwn ==
  \A x \in Commands : told[x] # None /\ told[x].kind = "committed" =>
    \E i \in DOMAIN log :
      log[i].command = x /\ log[i].response = told[x].response

\* The store of the session's owner never lags behind or runs ahead of the
\* broker: the sequence it uses next is the last one recorded or its successor.
SequencesAgree ==
  session # None =>
    \A c \in Clients : \A store \in {memory[c], disk[c]} :
      /\ store.owner_epoch <= session.owner_epoch
      /\ /\ store.owner_epoch = session.owner_epoch
         /\ store.owner_instance = session.owner_instance
         => session.last_outcome.sequence
              \in {store.next_sequence - 1, store.next_sequence}

\* A command its caller was told is REJECTED was not executed and never will
\* be.
RejectedNeverExecuted ==
  \A x \in Commands : told[x] = Rejected =>
    \A i \in DOMAIN log : log[i].command # x

\* Every reserved command is eventually resolved: acknowledged or released.
InFlightResolved ==
  \A c \in Clients :
    memory[c].in_flight # None ~> memory[c].in_flight = None

=============================================================================
