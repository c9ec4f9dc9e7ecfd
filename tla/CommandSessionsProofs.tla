----------------------- MODULE CommandSessionsProofs ------------------------
(***************************************************************************)
(* Proofs about exactly-once command sessions, for any number of clients,  *)
(* instances, commands and faults, whether or not the broker's request     *)
(* queue fills.                                                            *)
(***************************************************************************)
EXTENDS CommandSessions, TLAPS

\* The prover of a step that names none.
USE ZenonT(30)

CommandRequests ==
  [kind : {"command"}, owner_epoch : 1..MaxOwnerEpoch,
   owner_instance : Instances, sequence : 1..MaxSequence, command : Commands]

AcquireRequests ==
  [kind : {"acquire"}, expected_epoch : 1..MaxOwnerEpoch,
   owner_instance : Instances]

Requests == CommandRequests \cup AcquireRequests

InstancesOf(c) == {c} \X (1..InstancesPerClient)

\* The sequence of the last outcome, 0 before the first.
LastSequence == session.last_outcome.sequence

-----------------------------------------------------------------------------
(* What holds of a store, in memory or on disk, whatever the other one says *)

\* A store acts only for instances of its own client, waits for at most one
\* answer, and asks to follow the epoch it knows.
StoreShape(c, s) ==
  /\ s \in Stores
  /\ s.owner_instance \in InstancesOf(c) \cup {None}
  /\ s.owner_epoch # 0 => s.owner_instance # None
  /\ s.pending # None =>
       /\ s.in_flight = None
       /\ s.pending.owner_instance \in InstancesOf(c)
       /\ s.pending.expected_epoch = IF s.owner_epoch = 0 THEN 1
                                                          ELSE s.owner_epoch
  /\ s.in_flight # None => s.owner_epoch # 0 /\ s.next_sequence <= MaxSequence

\* A store knows no epoch the broker has not granted; while its client's
\* instance owns the session and has executed something, it knows the epoch,
\* and then its next sequence is the last one recorded or the one after it.
StoreFollows(c, s) ==
  IF session = None THEN s.owner_epoch = 0 ELSE
  /\ s.owner_epoch <= session.owner_epoch
  /\ session.owner_instance \in InstancesOf(c) /\ LastSequence # 0
       => s.owner_epoch = session.owner_epoch
  /\ /\ s.owner_epoch = session.owner_epoch
     /\ s.owner_instance = session.owner_instance
     => LastSequence \in {s.next_sequence - 1, s.next_sequence}

\* Nothing its client has sent is ahead of the store.
Ahead(r, s) ==
  \/ r.owner_epoch > s.owner_epoch
  \/ r.owner_epoch = s.owner_epoch /\ r.sequence > s.next_sequence

StoreLeads(c, s) ==
  \A r \in sent : r.kind = "command" /\ r.owner_instance \in InstancesOf(c)
    => ~Ahead(r, s)

\* A failed write may leave on disk what the store was about to become.
DiskKeepsUp(c) ==
  /\ memory[c].owner_epoch <= disk[c].owner_epoch
  /\ memory[c].owner_epoch = disk[c].owner_epoch
       => memory[c].next_sequence <= disk[c].next_sequence

\* An answer a client holds belongs to the request its store waits for.
ReplyFits(c, reply) ==
  /\ Unresolved(c)
  /\ reply.kind = "acquired" =>
       /\ memory[c].pending # None
       /\ session # None /\ reply.owner_epoch <= session.owner_epoch
  /\ reply.kind = "committed" =>
       /\ memory[c].pending = None
       /\ session # None
       /\ /\ session.owner_epoch = memory[c].owner_epoch
          /\ session.owner_instance = memory[c].owner_instance
          => LastSequence = memory[c].next_sequence
       /\ \E i \in DOMAIN log : /\ log[i].command = memory[c].in_flight
                                /\ log[i].response = reply.response

InboxOK(c) == inbox[c] # None => ReplyFits(c, inbox[c])

\* The inductive invariant of the stores.
StoreInv ==
  /\ TypeOK /\ sent \subseteq Requests
  /\ \A c \in Clients :
       /\ \A s \in {memory[c], disk[c]} :
            StoreShape(c, s) /\ StoreFollows(c, s) /\ StoreLeads(c, s)
       /\ DiskKeepsUp(c) /\ InboxOK(c)

-----------------------------------------------------------------------------
(* What holds of the log *)

\* A command is at an owner epoch and a sequence if a store holds it there, a
\* request carries it or the log has it.
HeldAt(x, e, n) ==
  \E c \in Clients : \E s \in {memory[c], disk[c]} :
    s.in_flight = x /\ s.owner_epoch = e /\ s.next_sequence = n

SentAt(x, e, n) ==
  \E r \in sent :
    r.kind = "command" /\ r.command = x /\ r.owner_epoch = e /\ r.sequence = n

LoggedAt(x, e, n) ==
  \E i \in DOMAIN log :
    log[i].command = x /\ log[i].owner_epoch = e /\ log[i].sequence = n

PlacedAt(x, e, n) == HeldAt(x, e, n) \/ SentAt(x, e, n) \/ LoggedAt(x, e, n)

Epochs == 1..MaxOwnerEpoch
Sequences == 1..MaxSequence

\* A command is reserved for one place and stays there.
OnePlace ==
  \A x \in Commands, d, e \in Epochs, m, n \in Sequences :
    /\ PlacedAt(x, d, m) /\ PlacedAt(x, e, n) => d = e /\ m = n
    /\ PlacedAt(x, e, n) => x \notin fresh

\* The broker's record is at the end of the log: its outcome is there, and
\* nothing of its epoch comes after it.
RecordIsLast ==
  IF session = None THEN log = <<>> ELSE
  /\ \A i \in DOMAIN log :
       /\ log[i].owner_epoch <= session.owner_epoch
       /\ log[i].owner_epoch = session.owner_epoch
            => log[i].sequence <= LastSequence
  /\ LastSequence = 0 => session.last_outcome = NoOutcome
  /\ LastSequence # 0 =>
       \E i \in DOMAIN log :
         /\ log[i].command = session.last_outcome.command
         /\ log[i].response = session.last_outcome.response

LogInv == RecordIsLast /\ ExecutedOnceInOrder /\ OnePlace

SessionInv == StoreInv /\ LogInv /\ OutcomeIsOwn

-----------------------------------------------------------------------------
(* The broker applies a request *)

\* A request that was sent, or that a store is about to send.
Due(r) ==
  /\ r \in Requests
  /\ r.kind = "command" =>
       /\ \A c \in Clients : r.owner_instance \in InstancesOf(c) =>
            ~Ahead(r, memory[c]) /\ ~Ahead(r, disk[c])
       /\ PlacedAt(r.command, r.owner_epoch, r.sequence)

Executed(r, response) ==
  /\ session' = [session EXCEPT !.last_outcome =
       [sequence |-> r.sequence, command |-> r.command, response |-> response]]
  /\ log' = Append(log, [owner_epoch |-> r.owner_epoch,
                         sequence |-> r.sequence,
                         command |-> r.command,
                         response |-> response])

\* A new session, or a takeover of one.
NewOwner(r) ==
  /\ session' \in SessionRecords
  /\ session'.owner_instance = r.owner_instance
  /\ session'.last_outcome = NoOutcome
  /\ session # None => session.owner_epoch < session'.owner_epoch
  /\ log' = log

LEMMA Bounds ==
  /\ InstancesPerClient \in Nat /\ MaxSequence \in Nat /\ MaxOwnerEpoch \in Nat
  /\ 1 \in 1..MaxOwnerEpoch /\ 1 \in 1..MaxSequence
BY BoundsAssumption, SMTT(30)

\* What apply_identified and acquire_command_session_owner do to the record
\* and the log, and what they answer.
LEMMA ApplyOutcomes ==
  ASSUME TypeOK, NEW r \in Requests, NEW reply \in Replies, Apply(r, reply)
  PROVE  \/ /\ r \in CommandRequests /\ Executes(r)
            /\ \E response \in Responses :
                 Executed(r, response) /\ reply = Committed(response)
         \/ /\ r \in CommandRequests /\ Replays(r) /\ UNCHANGED broker
            /\ reply = Committed(session.last_outcome.response)
         \/ UNCHANGED broker /\ reply = Rejected
         \/ /\ r \in AcquireRequests /\ UNCHANGED broker /\ session # None
            /\ reply = Acquired(session.owner_epoch)
         \/ /\ r \in AcquireRequests /\ NewOwner(r)
            /\ reply = Acquired(session'.owner_epoch)
<1>1. CASE r \in CommandRequests
  BY <1>1 DEF Apply, ApplyIdentified, CommandRequests, Executed
<1>2. CASE r \in AcquireRequests
  <2>1. AcquireOwner(r, reply)
    BY <1>2 DEF Apply, AcquireRequests
  <2>2. NoOutcome \in Outcomes
    BY Bounds, SMTT(30) DEF NoOutcome, Outcomes
  <2>3. ASSUME NEW e \in 1..MaxOwnerEpoch
        PROVE  [owner_epoch |-> e, owner_instance |-> r.owner_instance,
                last_outcome |-> NoOutcome] \in SessionRecords
    BY <1>2, <2>2 DEF SessionRecords, AcquireRequests
  <2>4. CASE session = None /\ r.expected_epoch = 1 /\ session' # None
    BY <1>2, <2>1, <2>3, <2>4, Bounds, SMTT(30)
       DEF AcquireOwner, NewOwner, broker, Acquired
  <2>5. CASE session = None /\ ~(r.expected_epoch = 1 /\ session' # None)
    BY <1>2, <2>1, <2>3, <2>5, Bounds, NoneIsNoValue
       DEF AcquireOwner, NewOwner, broker, Acquired
  <2>6. CASE session # None
    <3>1. session.owner_epoch \in 1..MaxOwnerEpoch
      BY <2>6 DEF TypeOK, SessionRecords
    <3>2. session.owner_epoch < MaxOwnerEpoch
            => session.owner_epoch + 1 \in 1..MaxOwnerEpoch
      BY <3>1, Bounds, SMTT(30)
    <3> QED BY <1>2, <2>1, <2>3, <2>6, <3>1, <3>2, SMTT(30)
            DEF AcquireOwner, NewOwner, broker, Acquired
  <2> QED BY <2>4, <2>5, <2>6
<1> QED BY <1>1, <1>2 DEF Requests

\* Executing a request that is due moves the record to a sequence that each
\* store of the owner uses next.
LEMMA ExecutionFits ==
  ASSUME StoreInv, NEW r \in CommandRequests, Due(r), Executes(r),
         NEW response \in Responses, Executed(r, response)
  PROVE  /\ session' \in SessionRecords /\ session' # None /\ session # None
         /\ session'.owner_epoch = session.owner_epoch
         /\ session'.owner_instance = session.owner_instance
         /\ session'.owner_epoch = r.owner_epoch
         /\ session'.owner_instance = r.owner_instance
         /\ LastSequence' = r.sequence /\ LastSequence \in Nat
         /\ LastSequence < r.sequence
         /\ session'.last_outcome.command = r.command
         /\ session'.last_outcome.response = response
<1>1. session \in SessionRecords /\ session # None
  BY DEF Executes, FencedOut, StoreInv, TypeOK
<1>2. /\ session.owner_epoch = r.owner_epoch
      /\ session.owner_instance = r.owner_instance
  BY DEF Executes, FencedOut
<1>3. [sequence |-> r.sequence, command |-> r.command, response |-> response]
        \in Outcomes
  BY Bounds, SMTT(30) DEF Outcomes, CommandRequests
<1>4. session' \in SessionRecords
  BY <1>1, <1>3 DEF Executed, SessionRecords
<1>5. /\ session'.owner_epoch = session.owner_epoch
      /\ session'.owner_instance = session.owner_instance
      /\ session'.last_outcome.sequence = r.sequence
      /\ session'.last_outcome.command = r.command
      /\ session'.last_outcome.response = response
  BY <1>1 DEF Executed, SessionRecords
<1>6. LastSequence \in Nat /\ LastSequence < r.sequence
  BY <1>1, SMTT(30) DEF Executes, LastSequence, SessionRecords, Outcomes, NoOutcome, CommandRequests
<1> QED BY <1>1, <1>2, <1>4, <1>5, <1>6, NoneIsNoValue DEF LastSequence

LEMMA ExecutionFollowed ==
  ASSUME StoreInv, NEW r \in CommandRequests, Due(r), Executes(r),
         NEW response \in Responses, Executed(r, response),
         NEW c \in Clients, NEW s \in {memory[c], disk[c]}
  PROVE  /\ s.owner_epoch <= session'.owner_epoch
         /\ session'.owner_instance \in InstancesOf(c) /\ LastSequence' # 0
              => s.owner_epoch = session'.owner_epoch
         /\ /\ s.owner_epoch = session'.owner_epoch
            /\ s.owner_instance = session'.owner_instance
            => LastSequence' = s.next_sequence
<1>1. s \in Stores /\ StoreShape(c, s) /\ StoreFollows(c, s)
  BY DEF StoreInv, StoreShape
<1>2. /\ r.owner_epoch \in Nat /\ r.sequence \in Nat
      /\ s.owner_epoch \in Nat /\ s.next_sequence \in Nat
      /\ session.owner_epoch \in Nat
  BY <1>1, ExecutionFits, Bounds, SMTT(30) DEF CommandRequests, Stores, SessionRecords
<1>3. r.owner_instance \in InstancesOf(c) => ~Ahead(r, s)
  BY DEF Due, CommandRequests
<1>4. s.owner_epoch <= session'.owner_epoch
  BY <1>1, ExecutionFits DEF StoreFollows
<1>5. ASSUME session'.owner_instance \in InstancesOf(c)
      PROVE  s.owner_epoch = session'.owner_epoch
  BY <1>2, <1>3, <1>4, <1>5, ExecutionFits, SMTT(30) DEF Ahead
<1>6. ASSUME s.owner_epoch = session'.owner_epoch,
             s.owner_instance = session'.owner_instance
      PROVE  LastSequence' = s.next_sequence
  <2>1. s.owner_instance \in InstancesOf(c)
    BY <1>1, <1>6, ExecutionFits, NoneIsNoValue, SMTT(30)
       DEF StoreShape, SessionRecords
  <2>2. r.sequence <= s.next_sequence
    BY <1>2, <1>3, <1>6, <2>1, ExecutionFits, SMTT(30) DEF Ahead
  <2>3. LastSequence \in {s.next_sequence - 1, s.next_sequence}
    BY <1>1, <1>6, ExecutionFits DEF StoreFollows
  <2> QED BY <1>2, <2>2, <2>3, ExecutionFits, SMTT(30)
<1> QED BY <1>4, <1>5, <1>6

\* An execution is appended to the log.
LEMMA ExecutionLogged ==
  ASSUME StoreInv, NEW r \in CommandRequests, NEW response \in Responses,
         Executed(r, response)
  PROVE  /\ log' \in Seq(Executions) /\ Len(log) \in Nat
         /\ DOMAIN log = 1..Len(log) /\ DOMAIN log' = 1..(Len(log) + 1)
         /\ \A i \in DOMAIN log : i \in DOMAIN log' /\ log'[i] = log[i]
         /\ log'[Len(log) + 1].owner_epoch = r.owner_epoch
         /\ log'[Len(log) + 1].sequence = r.sequence
         /\ log'[Len(log) + 1].command = r.command
         /\ log'[Len(log) + 1].response = response
<1> DEFINE e == [owner_epoch |-> r.owner_epoch, sequence |-> r.sequence,
                 command |-> r.command, response |-> response]
<1>1. e \in Executions
  BY DEF Executions, CommandRequests
<1>2. log \in Seq(Executions) /\ log' = Append(log, e)
  BY DEF StoreInv, TypeOK, Executed
<1> HIDE DEF e
<1>3. /\ log' \in Seq(Executions) /\ Len(log) \in Nat
      /\ DOMAIN log = 1..Len(log) /\ DOMAIN log' = 1..(Len(log) + 1)
      /\ \A i \in DOMAIN log : i \in DOMAIN log' /\ log'[i] = log[i]
      /\ log'[Len(log) + 1] = e
  BY <1>1, <1>2, SMTT(30)
<1> QED BY <1>3, SMTT(30) DEF e

\* Applying a request that is due keeps every store in step with the record.
LEMMA BrokerFollowed ==
  ASSUME StoreInv, NEW r, Due(r), NEW reply \in Replies, Apply(r, reply),
         UNCHANGED <<memory, disk>>
  PROVE  /\ session' \in SessionRecords \cup {None}
         /\ log' \in Seq(Executions)
         /\ \A c \in Clients : /\ StoreFollows(c, memory[c])'
                               /\ StoreFollows(c, disk[c])'
<1> r \in Requests
  BY DEF Due
<1>0. /\ session \in SessionRecords \cup {None} /\ log \in Seq(Executions)
      /\ \A c \in Clients : StoreFollows(c, memory[c]) /\ StoreFollows(c, disk[c])
      /\ \A c \in Clients : memory[c] \in Stores /\ disk[c] \in Stores
  BY DEF StoreInv, TypeOK
<1>1. CASE UNCHANGED broker
  BY <1>0, <1>1 DEF broker, StoreFollows, LastSequence
<1>2. CASE /\ r \in CommandRequests /\ Executes(r)
           /\ \E response \in Responses : Executed(r, response)
  <2> PICK response \in Responses : Executed(r, response)
    BY <1>2
  <2>1. session' \in SessionRecords /\ session' # None
    BY <1>2, ExecutionFits
  <2>2. log' \in Seq(Executions)
    BY <1>2, ExecutionLogged
  <2>3. ASSUME NEW c \in Clients, NEW s \in {memory[c], disk[c]}
        PROVE  /\ s.owner_epoch <= session'.owner_epoch
               /\ session'.owner_instance \in InstancesOf(c) /\ LastSequence' # 0
                    => s.owner_epoch = session'.owner_epoch
               /\ /\ s.owner_epoch = session'.owner_epoch
                  /\ s.owner_instance = session'.owner_instance
                  => LastSequence' = s.next_sequence
    BY <1>2, ExecutionFollowed
  <2>4. ASSUME NEW c \in Clients
        PROVE  StoreFollows(c, memory[c])' /\ StoreFollows(c, disk[c])'
    BY <2>1, <2>3 DEF StoreFollows
  <2> QED BY <2>1, <2>2, <2>4
<1>3. CASE r \in AcquireRequests /\ NewOwner(r)
  <2>1. /\ session' \in SessionRecords /\ session' # None /\ log' = log
        /\ session'.owner_epoch \in 1..MaxOwnerEpoch
        /\ LastSequence' = 0
    BY <1>3, NoneIsNoValue, SMTT(30) DEF NewOwner, SessionRecords, LastSequence, NoOutcome
  <2>2. ASSUME NEW c \in Clients, NEW s \in {memory[c], disk[c]}
        PROVE  s.owner_epoch < session'.owner_epoch
    <3>1. s.owner_epoch \in Nat
      BY <1>0, SMTT(30) DEF Stores
    <3>2. CASE session = None
      BY <1>0, <2>1, <3>1, <3>2, SMTT(30) DEF StoreFollows
    <3>3. CASE session # None
      <4>1. /\ session.owner_epoch \in Nat /\ s.owner_epoch <= session.owner_epoch
            /\ session.owner_epoch < session'.owner_epoch
        BY <1>0, <1>3, <3>3, SMTT(30) DEF StoreFollows, NewOwner, SessionRecords
      <4> QED BY <2>1, <3>1, <4>1, SMTT(30)
    <3> QED BY <3>2, <3>3
  <2>3. ASSUME NEW c \in Clients
        PROVE  StoreFollows(c, memory[c])' /\ StoreFollows(c, disk[c])'
    <3>1. memory[c].owner_epoch \in Nat /\ disk[c].owner_epoch \in Nat
      BY <1>0, SMTT(30) DEF Stores
    <3>2. /\ memory[c].owner_epoch < session'.owner_epoch
          /\ disk[c].owner_epoch < session'.owner_epoch
      BY <2>2
    <3> QED BY <2>1, <3>1, <3>2, SMTT(30) DEF StoreFollows
  <2> QED BY <1>0, <2>1, <2>3
<1> QED BY <1>1, <1>2, <1>3, ApplyOutcomes DEF StoreInv

\* An answer that a client holds still fits when the broker goes on.
LEMMA AnswerStillFits ==
  ASSUME StoreInv, NEW r, Due(r), NEW reply \in Replies, Apply(r, reply),
         UNCHANGED <<memory, disk>>, NEW c \in Clients, NEW old \in Replies,
         ReplyFits(c, old)
  PROVE  ReplyFits(c, old)'
<1> r \in Requests
  BY DEF Due
<1>1. CASE UNCHANGED broker
  BY <1>1 DEF broker, ReplyFits, Unresolved, LastSequence
<1>2. CASE /\ r \in CommandRequests /\ Executes(r)
           /\ \E response \in Responses : Executed(r, response)
  <2> PICK response \in Responses : Executed(r, response)
    BY <1>2
  <2>1. /\ session' # None /\ session # None
        /\ session'.owner_epoch = session.owner_epoch
        /\ session'.owner_instance = session.owner_instance
    BY <1>2, ExecutionFits
  <2>2. /\ memory[c].owner_epoch = session'.owner_epoch
        /\ memory[c].owner_instance = session'.owner_instance
        => LastSequence' = memory[c].next_sequence
    BY <1>2, ExecutionFollowed
  <2>3. \A i \in DOMAIN log : i \in DOMAIN log' /\ log'[i] = log[i]
    BY <1>2, ExecutionLogged
  <2> QED BY <2>1, <2>2, <2>3 DEF ReplyFits, Unresolved
<1>3. CASE r \in AcquireRequests /\ NewOwner(r)
  <2>1. /\ session' \in SessionRecords /\ session' # None /\ log' = log
        /\ session # None => session.owner_epoch < session'.owner_epoch
    BY <1>3, NoneIsNoValue DEF NewOwner
  <2>2. session # None => session.owner_epoch \in Nat /\ session'.owner_epoch \in Nat
    BY <2>1, SMTT(30) DEF StoreInv, TypeOK, SessionRecords
  <2>3. memory[c].owner_epoch \in Nat
    BY SMTT(30) DEF StoreInv, TypeOK, Stores
  <2>4. session # None => memory[c].owner_epoch <= session.owner_epoch
    BY DEF StoreInv, StoreFollows
  <2>5. old.kind = "acquired" => old.owner_epoch \in Nat
    BY SMTT(30) DEF Replies, Committed, Rejected, Acquired
  <2> QED BY <2>1, <2>2, <2>3, <2>4, <2>5, SMTT(30) DEF ReplyFits, Unresolved
<1> QED BY <1>1, <1>2, <1>3, ApplyOutcomes DEF StoreInv

\* The request a store retries is due.
LEMMA RequestDue ==
  ASSUME StoreInv, NEW c \in Clients, Unresolved(c), NEW r, r = RequestOf(c)
  PROVE  /\ Due(r)
         /\ r.kind = "command" =>
              /\ memory[c].pending = None /\ memory[c].in_flight = r.command
              /\ r.owner_epoch = memory[c].owner_epoch
              /\ r.owner_instance = memory[c].owner_instance
              /\ r.sequence = memory[c].next_sequence
         /\ r.kind = "acquire" => memory[c].pending # None
<1> DEFINE s == memory[c]
<1>1. s \in Stores /\ disk[c] \in Stores /\ StoreShape(c, s) /\ DiskKeepsUp(c)
  BY DEF StoreInv, TypeOK
<1>2. CASE s.pending # None
  <2>1. /\ s.pending \in Acquisitions
        /\ r = [kind |-> "acquire", expected_epoch |-> s.pending.expected_epoch,
                owner_instance |-> s.pending.owner_instance]
    BY <1>1, <1>2 DEF RequestOf, Stores
  <2>2. r \in AcquireRequests /\ r.kind = "acquire"
    BY <2>1, SMTT(30) DEF Acquisitions, AcquireRequests
  <2> QED BY <1>2, <2>2 DEF Due, Requests
<1>3. CASE s.pending = None
  <2>1. /\ s.in_flight # None
        /\ r = [kind |-> "command", owner_epoch |-> s.owner_epoch,
                owner_instance |-> s.owner_instance,
                sequence |-> s.next_sequence, command |-> s.in_flight]
    BY <1>3 DEF RequestOf, Unresolved
  <2>2. /\ s.owner_epoch \in 1..MaxOwnerEpoch /\ s.owner_instance \in InstancesOf(c)
        /\ s.next_sequence \in 1..MaxSequence /\ s.in_flight \in Commands
    BY <1>1, <2>1, Bounds, SMTT(30) DEF StoreShape, Stores
  <2>3. InstancesOf(c) \subseteq Instances
    BY DEF InstancesOf, Instances
  <2>4. /\ r.kind = "command" /\ r.command = s.in_flight
        /\ r.owner_epoch = s.owner_epoch /\ r.sequence = s.next_sequence
        /\ r.owner_instance = s.owner_instance
    BY <2>1, SMTT(30)
  <2>5. r \in CommandRequests
    BY <2>1, <2>2, <2>3, SMTT(30) DEF CommandRequests
  <2>6. PlacedAt(r.command, r.owner_epoch, r.sequence)
    BY <2>4 DEF PlacedAt, HeldAt
  <2>7. ASSUME NEW d \in Clients, r.owner_instance \in InstancesOf(d)
        PROVE  d = c
    BY <2>2, <2>4, <2>7 DEF InstancesOf
  <2>8. ~Ahead(r, memory[c]) /\ ~Ahead(r, disk[c])
    <3>1. /\ s.owner_epoch \in Nat /\ disk[c].owner_epoch \in Nat
          /\ s.next_sequence \in Nat /\ disk[c].next_sequence \in Nat
      BY <1>1, SMTT(30) DEF Stores
    <3> QED BY <1>1, <2>4, <3>1, SMTT(30) DEF DiskKeepsUp, Ahead
  <2> QED BY <1>3, <2>4, <2>5, <2>6, <2>7, <2>8 DEF Due, Requests
<1> QED BY <1>2, <1>3

\* The broker's answer to it fits.
LEMMA AnswerFits ==
  ASSUME StoreInv, RecordIsLast, NEW c \in Clients, Unresolved(c),
         NEW r, r = RequestOf(c), NEW reply \in Replies, Apply(r, reply),
         UNCHANGED <<memory, disk>>
  PROVE  ReplyFits(c, reply)'
<1> Due(r) /\ r \in Requests
  BY RequestDue DEF Due
<1>1. Unresolved(c)'
  BY DEF Unresolved
<1>2. CASE UNCHANGED broker /\ reply = Rejected
  BY <1>1, <1>2 DEF ReplyFits, Rejected
<1>3. CASE r \in AcquireRequests /\ session' # None
           /\ session'.owner_epoch \in Nat /\ reply = Acquired(session'.owner_epoch)
  <2>1. r.kind = "acquire" /\ memory[c].pending # None
    BY <1>3, RequestDue DEF AcquireRequests
  <2> QED BY <1>1, <1>3, <2>1, SMTT(30) DEF ReplyFits, Acquired
<1>4. CASE /\ r \in CommandRequests /\ Executes(r)
           /\ \E response \in Responses :
                Executed(r, response) /\ reply = Committed(response)
  <2> PICK response \in Responses : Executed(r, response) /\ reply = Committed(response)
    BY <1>4
  <2>1. r.kind = "command"
    BY <1>4 DEF CommandRequests
  <2>2. session' # None /\ LastSequence' = r.sequence
    BY <1>4, ExecutionFits
  <2>3. \E i \in DOMAIN log' : log'[i].command = r.command
                               /\ log'[i].response = response
    BY <1>4, ExecutionLogged, SMTT(30)
  <2> QED BY <1>1, <2>1, <2>2, <2>3, RequestDue DEF ReplyFits, Committed
<1>5. CASE /\ r \in CommandRequests /\ Replays(r) /\ UNCHANGED broker
           /\ reply = Committed(session.last_outcome.response)
  <2>1. r.kind = "command"
    BY <1>5 DEF CommandRequests
  <2>2. session # None /\ LastSequence = r.sequence
        /\ session.last_outcome.command = r.command
    BY <1>5 DEF Replays, FencedOut, LastSequence
  <2>3. LastSequence # 0
    BY <1>5, <2>2, SMTT(30) DEF CommandRequests
  <2>4. PICK i \in DOMAIN log : /\ log[i].command = r.command
                                /\ log[i].response = session.last_outcome.response
    BY <2>2, <2>3 DEF RecordIsLast
  <2>5. session' = session /\ log' = log
    BY <1>5 DEF broker
  <2>6. LastSequence' = LastSequence
    BY <2>5 DEF LastSequence
  <2> QED BY <1>1, <1>5, <2>1, <2>2, <2>4, <2>5, <2>6, RequestDue
          DEF ReplyFits, Committed
<1> QED
  <2>1. session \in SessionRecords \cup {None}
    BY DEF StoreInv, TypeOK
  <2>2. UNCHANGED broker /\ session # None
          => session' # None /\ session'.owner_epoch \in Nat
             /\ session'.owner_epoch = session.owner_epoch
    BY <2>1, SMTT(30) DEF broker, SessionRecords
  <2>3. NewOwner(r) => session' # None /\ session'.owner_epoch \in Nat
    BY NoneIsNoValue, SMTT(30) DEF NewOwner, SessionRecords
  <2>4. TypeOK
    BY DEF StoreInv
  <2> QED BY <1>2, <1>3, <1>4, <1>5, <2>2, <2>3, <2>4, ApplyOutcomes

-----------------------------------------------------------------------------
(* The log *)

LEMMA LogEntry ==
  ASSUME StoreInv, NEW i \in DOMAIN log
  PROVE  /\ log[i].owner_epoch \in Epochs /\ log[i].sequence \in Sequences
         /\ log[i].owner_epoch \in Nat /\ log[i].sequence \in Nat
<1>1. log \in Seq(Executions)
  BY DEF StoreInv, TypeOK
<1>2. log[i] \in Executions
  BY <1>1, SMTT(30)
<1> QED BY <1>2, SMTT(30) DEF Executions, Epochs, Sequences

\* A step of the broker keeps the log ordered and its record at the end.
LEMMA BrokerLog ==
  ASSUME StoreInv, LogInv, NEW r, Due(r), NEW reply \in Replies,
         Apply(r, reply), UNCHANGED <<sent, memory, disk>>
  PROVE  /\ RecordIsLast' /\ ExecutedOnceInOrder'
         /\ \A i \in DOMAIN log : i \in DOMAIN log' /\ log'[i] = log[i]
         /\ \A x, e, n : PlacedAt(x, e, n)' => PlacedAt(x, e, n)
<1> r \in Requests
  BY DEF Due
<1>1. CASE UNCHANGED broker
  BY <1>1, SMTT(30) DEF broker, LogInv, RecordIsLast, LastSequence, ExecutedOnceInOrder,
              PlacedAt, HeldAt, SentAt, LoggedAt
<1>2. CASE /\ r \in CommandRequests /\ Executes(r)
           /\ \E response \in Responses : Executed(r, response)
  <2> PICK response \in Responses : Executed(r, response)
    BY <1>2
  <2> DEFINE n == Len(log)
  <2>1. /\ n \in Nat /\ DOMAIN log = 1..n /\ DOMAIN log' = 1..(n + 1)
        /\ \A i \in 1..n : log'[i] = log[i]
        /\ log'[n + 1].owner_epoch = r.owner_epoch
        /\ log'[n + 1].sequence = r.sequence
        /\ log'[n + 1].command = r.command
        /\ log'[n + 1].response = response
    BY <1>2, ExecutionLogged
  <2>2. /\ session' # None /\ session # None
        /\ session'.owner_epoch = session.owner_epoch
        /\ session.owner_epoch = r.owner_epoch
        /\ LastSequence' = r.sequence /\ LastSequence \in Nat
        /\ LastSequence < r.sequence
        /\ session'.last_outcome.command = r.command
        /\ session'.last_outcome.response = response
    BY <1>2, ExecutionFits
  <2>3. /\ r.owner_epoch \in Epochs /\ r.sequence \in Sequences
        /\ r.command \in Commands
    BY <1>2 DEF CommandRequests, Epochs, Sequences
  <2>4. \A i \in 1..n : /\ log[i].owner_epoch \in Epochs
                        /\ log[i].sequence \in Sequences
    BY <2>1, LogEntry
  <2>5. \A i \in 1..n : /\ log[i].owner_epoch <= r.owner_epoch
                        /\ log[i].owner_epoch = r.owner_epoch
                             => log[i].sequence <= LastSequence
    BY <2>1, <2>2 DEF LogInv, RecordIsLast
  <2>6. r.sequence # 0 /\ r.sequence \in Nat /\ r.owner_epoch \in Nat
    BY <2>3, SMTT(30) DEF Sequences, Epochs
  <2> HIDE DEF n
  <2>7. \A i \in 1..n : /\ log[i].owner_epoch \in Nat /\ log[i].sequence \in Nat
    BY <2>4, SMTT(30) DEF Sequences, Epochs
  <2>8. RecordIsLast'
    <3>1. ASSUME NEW i \in 1..(n + 1)
          PROVE  /\ log'[i].owner_epoch <= session'.owner_epoch
                 /\ log'[i].owner_epoch = session'.owner_epoch
                      => log'[i].sequence <= LastSequence'
      <4>1. CASE i = n + 1
        BY <2>1, <2>2, <2>6, <4>1, SMTT(30)
      <4>2. CASE i \in 1..n
        BY <2>1, <2>2, <2>5, <2>6, <2>7, <4>2, SMTT(30)
      <4> QED BY <2>1, <4>1, <4>2, SMTT(30)
    <3>2. n + 1 \in DOMAIN log'
      BY <2>1, SMTT(30)
    <3> QED BY <2>1, <2>2, <2>6, <3>1, <3>2 DEF RecordIsLast
  <2>9. PlacedAt(r.command, r.owner_epoch, r.sequence)
    BY <1>2 DEF Due, CommandRequests
  <2>10. ASSUME NEW i \in 1..n PROVE log[i].command # r.command
    <3>1. PlacedAt(log[i].command, log[i].owner_epoch, log[i].sequence)
      BY <2>1 DEF PlacedAt, LoggedAt
    <3>2. SUFFICES ASSUME log[i].command = r.command PROVE FALSE
      OBVIOUS
    <3>3. log[i].owner_epoch = r.owner_epoch /\ log[i].sequence = r.sequence
      BY <2>3, <2>4, <2>9, <3>1, <3>2, SMTT(30) DEF LogInv, OnePlace
    <3> QED BY <2>2, <2>5, <2>6, <3>3, SMTT(30)
  <2>11. ExecutedOnceInOrder'
    <3> SUFFICES ASSUME NEW i \in 1..(n + 1), NEW j \in 1..(n + 1), i < j
                 PROVE  /\ log'[i].command # log'[j].command
                        /\ \/ log'[i].owner_epoch < log'[j].owner_epoch
                           \/ /\ log'[i].owner_epoch = log'[j].owner_epoch
                              /\ log'[i].sequence < log'[j].sequence
      BY <2>1 DEF ExecutedOnceInOrder
    <3>1. i \in 1..n
      BY <2>1, SMTT(30)
    <3>2. CASE j = n + 1
      BY <2>1, <2>2, <2>5, <2>6, <2>7, <2>10, <3>1, <3>2, SMTT(30)
    <3>3. CASE j \in 1..n
      BY <2>1, <3>1, <3>3, SMTT(30) DEF LogInv, ExecutedOnceInOrder
    <3> QED BY <2>1, <3>2, <3>3, SMTT(30)
  <2>12. ASSUME NEW x, NEW e, NEW k, PlacedAt(x, e, k)'
         PROVE  PlacedAt(x, e, k)
    <3>1. CASE HeldAt(x, e, k)' \/ SentAt(x, e, k)'
      BY <3>1 DEF PlacedAt, HeldAt, SentAt
    <3>2. CASE LoggedAt(x, e, k)'
      <4>1. PICK i \in 1..(n + 1) : /\ log'[i].command = x
                                    /\ log'[i].owner_epoch = e
                                    /\ log'[i].sequence = k
        BY <2>1, <3>2 DEF LoggedAt
      <4>2. CASE i = n + 1
        BY <2>1, <2>9, <4>1, <4>2
      <4>3. CASE i \in 1..n
        BY <2>1, <4>1, <4>3 DEF PlacedAt, LoggedAt
      <4> QED BY <2>1, <4>2, <4>3, SMTT(30)
    <3> QED BY <2>12, <3>1, <3>2 DEF PlacedAt
  <2>13. \A i \in DOMAIN log : i \in DOMAIN log' /\ log'[i] = log[i]
    BY <2>1, SMTT(30)
  <2> QED BY <2>8, <2>11, <2>12, <2>13
<1>3. CASE r \in AcquireRequests /\ NewOwner(r)
  <2>1. /\ session' \in SessionRecords /\ session' # None /\ log' = log
        /\ session'.last_outcome = NoOutcome /\ LastSequence' = 0
        /\ session # None => session.owner_epoch < session'.owner_epoch
    BY <1>3, NoneIsNoValue, SMTT(30) DEF NewOwner, LastSequence, NoOutcome
  <2>2. ASSUME NEW i \in DOMAIN log
        PROVE  log[i].owner_epoch < session'.owner_epoch
    <3>1. session # None
      BY SMTT(30) DEF LogInv, RecordIsLast
    <3>2. log[i].owner_epoch \in Nat /\ session.owner_epoch \in Nat
          /\ session'.owner_epoch \in Nat
      BY <2>1, <3>1, LogEntry, SMTT(30) DEF StoreInv, TypeOK, SessionRecords
    <3>3. log[i].owner_epoch <= session.owner_epoch
      BY <3>1 DEF LogInv, RecordIsLast
    <3> QED BY <2>1, <3>1, <3>2, <3>3, SMTT(30)
  <2>3. \A i \in DOMAIN log : log[i].owner_epoch \in Nat
    BY LogEntry
  <2>4. session'.owner_epoch \in Nat
    BY <2>1, SMTT(30) DEF SessionRecords
  <2>5. RecordIsLast'
    BY <2>1, <2>2, <2>3, <2>4, SMTT(30) DEF RecordIsLast
  <2> QED BY <2>1, <2>5, SMTT(30) DEF LogInv, ExecutedOnceInOrder, PlacedAt, HeldAt, SentAt,
                           LoggedAt
<1> QED BY <1>1, <1>2, <1>3, ApplyOutcomes DEF StoreInv

-----------------------------------------------------------------------------
(* A client writes its store *)

\* What a store may become: it goes on with what its client knows.
GoodNext(c, t) ==
  /\ StoreShape(c, t) /\ StoreFollows(c, t) /\ StoreLeads(c, t)
  /\ memory[c].owner_epoch <= t.owner_epoch
  /\ memory[c].owner_epoch = t.owner_epoch
       => memory[c].next_sequence <= t.next_sequence

\* The stores' part of the invariant.
StoresOK ==
  \A c \in Clients :
    /\ \A s \in {memory[c], disk[c]} :
         StoreShape(c, s) /\ StoreFollows(c, s) /\ StoreLeads(c, s)
    /\ DiskKeepsUp(c)

\* commit_state keeps the stores in order, whether it completes, fails before
\* the rename or fails after it.
LEMMA WriteKeepsStores ==
  ASSUME StoreInv, NEW c \in Clients, NEW t, GoodNext(c, t),
         Commit(c, t) \/ CommitFails(c, t), UNCHANGED <<broker, sent>>
  PROVE  /\ memory' \in [Clients -> Stores] /\ disk' \in [Clients -> Stores]
         /\ faults' \in 0..MaxFaults
         /\ \A d \in Clients \ {c} : memory'[d] = memory[d]
         /\ StoresOK'
<1>1. /\ memory \in [Clients -> Stores] /\ disk \in [Clients -> Stores]
      /\ faults \in 0..MaxFaults /\ t \in Stores
  BY DEF StoreInv, TypeOK, GoodNext, StoreShape
<1>2. /\ memory' \in [Clients -> Stores] /\ disk' \in [Clients -> Stores]
      /\ faults' \in 0..MaxFaults
  BY <1>1, BoundsAssumption, SMTT(30) DEF Commit, CommitFails
<1>3. \A d \in Clients \ {c} : memory'[d] = memory[d] /\ disk'[d] = disk[d]
  BY <1>1 DEF Commit, CommitFails
<1>4. \/ memory'[c] = t /\ disk'[c] = t
      \/ memory'[c] = memory[c] /\ disk'[c] \in {disk[c], t}
  BY <1>1 DEF Commit, CommitFails
<1>5. ASSUME NEW d \in Clients, NEW s
      PROVE  /\ StoreFollows(d, s)' <=> StoreFollows(d, s)
             /\ StoreLeads(d, s)' <=> StoreLeads(d, s)
  BY DEF broker, StoreFollows, StoreLeads, LastSequence
<1>6. ASSUME NEW d \in Clients
      PROVE  /\ \A s \in {memory'[d], disk'[d]} :
                  StoreShape(d, s) /\ StoreFollows(d, s) /\ StoreLeads(d, s)
             /\ DiskKeepsUp(d)'
  <2>1. /\ \A s \in {memory[d], disk[d]} :
             StoreShape(d, s) /\ StoreFollows(d, s) /\ StoreLeads(d, s)
        /\ DiskKeepsUp(d)
    BY DEF StoreInv
  <2>2. CASE d # c
    BY <1>3, <2>1, <2>2 DEF DiskKeepsUp
  <2>3. CASE d = c
    <3>1. \A s \in {memory'[d], disk'[d]} :
            StoreShape(d, s) /\ StoreFollows(d, s) /\ StoreLeads(d, s)
      BY <1>4, <2>1, <2>3 DEF GoodNext
    <3>2. t.owner_epoch \in Nat /\ t.next_sequence \in Nat
      BY <1>1, SMTT(30) DEF Stores
    <3>3. DiskKeepsUp(d)'
      BY <1>4, <2>1, <2>3, <3>2, SMTT(30) DEF GoodNext, DiskKeepsUp
    <3> QED BY <3>1, <3>3
  <2> QED BY <2>2, <2>3
<1>7. StoresOK'
  BY <1>5, <1>6, SMTT(30) DEF StoresOK, StoreShape
<1> QED BY <1>2, <1>3, <1>7

\* A write places no command but the one the store takes up.
LEMMA WritePlaces ==
  ASSUME StoreInv, NEW c \in Clients, NEW t,
         Commit(c, t) \/ CommitFails(c, t), UNCHANGED <<broker, sent>>
  PROVE  \A x, e, n : PlacedAt(x, e, n)' =>
           \/ PlacedAt(x, e, n)
           \/ t.in_flight = x /\ t.owner_epoch = e /\ t.next_sequence = n
<1> SUFFICES ASSUME NEW x, NEW e, NEW n, PlacedAt(x, e, n)'
             PROVE  \/ PlacedAt(x, e, n)
                    \/ t.in_flight = x /\ t.owner_epoch = e /\ t.next_sequence = n
  OBVIOUS
<1>1. memory \in [Clients -> Stores] /\ disk \in [Clients -> Stores]
  BY DEF StoreInv, TypeOK
<1>2. \A d \in Clients : memory'[d] \in {memory[d], t} /\ disk'[d] \in {disk[d], t}
  BY <1>1 DEF Commit, CommitFails
<1>3. CASE HeldAt(x, e, n)'
  BY <1>2, <1>3 DEF HeldAt, PlacedAt
<1>4. CASE SentAt(x, e, n)' \/ LoggedAt(x, e, n)'
  BY <1>4 DEF SentAt, LoggedAt, PlacedAt, broker
<1> QED BY <1>3, <1>4 DEF PlacedAt

\* Answers that other clients hold fit as before.
LEMMA OthersStillFit ==
  ASSUME StoreInv, NEW c \in Clients, UNCHANGED broker,
         inbox' = inbox \/ inbox' = [inbox EXCEPT ![c] = None],
         inbox'[c] = None,
         \A d \in Clients \ {c} : memory'[d] = memory[d]
  PROVE  /\ inbox' \in [Clients -> Replies \cup {None}]
         /\ \A d \in Clients : InboxOK(d)'
<1>1. inbox \in [Clients -> Replies \cup {None}]
  BY DEF StoreInv, TypeOK
<1>2. inbox' \in [Clients -> Replies \cup {None}]
  BY <1>1
<1>3. ASSUME NEW d \in Clients PROVE InboxOK(d)'
  <2>1. CASE d = c
    BY <2>1 DEF InboxOK
  <2>2. CASE d # c
    <3>1. inbox'[d] = inbox[d] /\ memory'[d] = memory[d] /\ InboxOK(d)
      BY <1>1, <2>2 DEF StoreInv
    <3> QED BY <3>1 DEF InboxOK, ReplyFits, Unresolved, LastSequence, broker
  <2> QED BY <2>1, <2>2
<1> QED BY <1>2, <1>3

\* A step that leaves the log alone and places nothing new keeps it in order.
LEMMA LogKept ==
  ASSUME LogInv, UNCHANGED broker, fresh' = fresh,
         \A x \in Commands, e \in Epochs, n \in Sequences :
           PlacedAt(x, e, n)' => PlacedAt(x, e, n)
  PROVE  LogInv'
<1>1. RecordIsLast' /\ ExecutedOnceInOrder'
  BY SMTT(30) DEF LogInv, RecordIsLast, LastSequence, ExecutedOnceInOrder, broker
<1>2. OnePlace'
  BY SMTT(30) DEF LogInv, OnePlace
<1> QED BY <1>1, <1>2 DEF LogInv

-----------------------------------------------------------------------------
(* One lemma for each action *)

LEMMA BeginStep ==
  ASSUME SessionInv, NEW c \in Clients, NEW k \in 1..InstancesPerClient,
         BeginOwnerAcquisition(c, <<c, k>>)
  PROVE  SessionInv'
<1> DEFINE s == memory[c]
           expected == IF s.owner_epoch = 0 THEN 1 ELSE s.owner_epoch
           acquisition == [expected_epoch |-> expected, owner_instance |-> <<c, k>>]
<1>1. StoreInv /\ LogInv /\ OutcomeIsOwn
  BY DEF SessionInv
<1>2. PICK t : /\ t = [s EXCEPT !.pending = acquisition]
               /\ Commit(c, t) \/ CommitFails(c, t)
  BY DEF BeginOwnerAcquisition
<1>3. /\ s \in Stores /\ StoreShape(c, s) /\ StoreFollows(c, s)
      /\ StoreLeads(c, s) /\ s.in_flight = None
      /\ inbox[c] = None /\ UNCHANGED <<broker, sent, inbox, told, fresh>>
  BY <1>1 DEF BeginOwnerAcquisition, StoreInv, TypeOK
<1>4. acquisition \in Acquisitions
  BY <1>3, Bounds, SMTT(30) DEF Stores, Acquisitions, Instances
<1>5. /\ t \in Stores /\ t.pending = acquisition
      /\ t.owner_epoch = s.owner_epoch /\ t.owner_instance = s.owner_instance
      /\ t.next_sequence = s.next_sequence /\ t.in_flight = s.in_flight
  BY <1>2, <1>3, <1>4 DEF Stores
<1>6. GoodNext(c, t)
  <2>1. StoreShape(c, t)
    BY <1>3, <1>5, SMTT(30) DEF StoreShape, InstancesOf
  <2>2. StoreFollows(c, t) /\ StoreLeads(c, t)
    BY <1>3, <1>5 DEF StoreFollows, StoreLeads, Ahead
  <2>3. s.owner_epoch <= s.owner_epoch /\ s.next_sequence <= s.next_sequence
    BY <1>3, SMTT(30) DEF Stores
  <2> QED BY <1>5, <2>1, <2>2, <2>3 DEF GoodNext
<1>7. /\ memory' \in [Clients -> Stores] /\ disk' \in [Clients -> Stores]
      /\ faults' \in 0..MaxFaults /\ StoresOK'
      /\ \A d \in Clients \ {c} : memory'[d] = memory[d]
  BY <1>1, <1>2, <1>3, <1>6, WriteKeepsStores
<1>8. /\ inbox' \in [Clients -> Replies \cup {None}]
      /\ \A d \in Clients : InboxOK(d)'
  BY <1>1, <1>3, <1>7, OthersStillFit
<1>9. StoreInv'
  BY <1>1, <1>3, <1>7, <1>8 DEF StoreInv, StoresOK, TypeOK, broker
<1>10. ASSUME NEW x \in Commands, NEW e \in Epochs, NEW n \in Sequences,
              PlacedAt(x, e, n)'
       PROVE  PlacedAt(x, e, n)
  <2>1. \A y, d, m : PlacedAt(y, d, m)' =>
          \/ PlacedAt(y, d, m)
          \/ t.in_flight = y /\ t.owner_epoch = d /\ t.next_sequence = m
    <3>1. (Commit(c, t) \/ CommitFails(c, t)) /\ UNCHANGED <<broker, sent>>
      BY <1>2, <1>3
    <3> QED BY <1>1, <3>1, WritePlaces
  <2>2. t.in_flight # x
    BY <1>3, <1>5, NoneIsNoValue
  <2> QED BY <1>10, <2>1, <2>2
<1>11. LogInv'
  BY <1>1, <1>3, <1>10, LogKept
<1>12. OutcomeIsOwn'
  BY <1>1, <1>3 DEF OutcomeIsOwn, broker
<1> QED BY <1>9, <1>11, <1>12 DEF SessionInv

LEMMA ReserveStep ==
  ASSUME SessionInv, NEW c \in Clients, NEW x \in Commands, ReserveCommand(c, x)
  PROVE  SessionInv'
<1> DEFINE s == memory[c]
<1>1. StoreInv /\ LogInv /\ OutcomeIsOwn
  BY DEF SessionInv
<1>2. PICK t : t = [s EXCEPT !.in_flight = x] /\ (Commit(c, t) \/ CommitFails(c, t))
  BY DEF ReserveCommand
<1>3. /\ s \in Stores /\ StoreShape(c, s) /\ StoreFollows(c, s)
      /\ StoreLeads(c, s) /\ s.pending = None
      /\ s.owner_epoch # 0 /\ s.next_sequence <= MaxSequence
      /\ inbox[c] = None /\ x \in fresh /\ fresh' = fresh \ {x}
      /\ UNCHANGED <<broker, sent, inbox, told>>
  BY <1>1 DEF ReserveCommand, StoreInv, TypeOK
<1>4. /\ t \in Stores /\ t.pending = None /\ t.in_flight = x
      /\ t.owner_epoch = s.owner_epoch /\ t.owner_instance = s.owner_instance
      /\ t.next_sequence = s.next_sequence
  BY <1>2, <1>3 DEF Stores
<1>5. GoodNext(c, t)
  <2>1. StoreShape(c, t)
    BY <1>3, <1>4 DEF StoreShape
  <2>2. StoreFollows(c, t) /\ StoreLeads(c, t)
    BY <1>3, <1>4 DEF StoreFollows, StoreLeads, Ahead
  <2>3. s.owner_epoch <= s.owner_epoch /\ s.next_sequence <= s.next_sequence
    BY <1>3, SMTT(30) DEF Stores
  <2> QED BY <1>4, <2>1, <2>2, <2>3 DEF GoodNext
<1>6. /\ memory' \in [Clients -> Stores] /\ disk' \in [Clients -> Stores]
      /\ faults' \in 0..MaxFaults /\ StoresOK'
      /\ \A d \in Clients \ {c} : memory'[d] = memory[d]
  BY <1>1, <1>2, <1>3, <1>5, WriteKeepsStores
<1>7. /\ inbox' \in [Clients -> Replies \cup {None}]
      /\ \A d \in Clients : InboxOK(d)'
  BY <1>1, <1>3, <1>6, OthersStillFit
<1>8. StoreInv'
  BY <1>1, <1>3, <1>6, <1>7 DEF StoreInv, StoresOK, TypeOK, broker
<1>9. ASSUME NEW y \in Commands, NEW e \in Epochs, NEW n \in Sequences,
             PlacedAt(y, e, n)'
      PROVE  \/ y # x /\ PlacedAt(y, e, n)
             \/ y = x /\ e = s.owner_epoch /\ n = s.next_sequence
  <2>1. \A z, d, m : PlacedAt(z, d, m)' =>
          \/ PlacedAt(z, d, m)
          \/ t.in_flight = z /\ t.owner_epoch = d /\ t.next_sequence = m
    <3>1. (Commit(c, t) \/ CommitFails(c, t)) /\ UNCHANGED <<broker, sent>>
      BY <1>2, <1>3
    <3> QED BY <1>1, <3>1, WritePlaces
  <2>2. ~PlacedAt(x, e, n)
    BY <1>1, <1>3 DEF LogInv, OnePlace
  <2> QED BY <1>4, <1>9, <2>1, <2>2
<1>10. OnePlace'
  BY <1>1, <1>3, <1>9 DEF LogInv, OnePlace
<1>11. RecordIsLast' /\ ExecutedOnceInOrder'
  BY <1>1, <1>3, SMTT(30) DEF LogInv, RecordIsLast, LastSequence, ExecutedOnceInOrder, broker
<1>12. OutcomeIsOwn'
  BY <1>1, <1>3 DEF OutcomeIsOwn, broker
<1> QED BY <1>8, <1>10, <1>11, <1>12 DEF SessionInv, LogInv

LEMMA BrokerStep ==
  ASSUME SessionInv, NEW r, Due(r), NEW reply \in Replies, Apply(r, reply),
         UNCHANGED <<sent, memory, disk, told, fresh, faults>>,
         inbox' \in [Clients -> Replies \cup {None}],
         \A d \in Clients : inbox'[d] = inbox[d] \/ InboxOK(d)'
  PROVE  SessionInv'
<1>1. StoreInv /\ LogInv /\ OutcomeIsOwn
  BY DEF SessionInv
<1>2. /\ session' \in SessionRecords \cup {None} /\ log' \in Seq(Executions)
      /\ \A d \in Clients : StoreFollows(d, memory[d])' /\ StoreFollows(d, disk[d])'
  BY <1>1, BrokerFollowed
<1>3. ASSUME NEW d \in Clients PROVE InboxOK(d)'
  <2>1. CASE inbox'[d] # None /\ inbox'[d] = inbox[d]
    <3>1. PICK old \in Replies : old = inbox[d]
      BY <1>1, <2>1 DEF StoreInv, TypeOK
    <3>2. ReplyFits(d, old)
      BY <1>1, <2>1, <3>1 DEF StoreInv, InboxOK
    <3>3. ReplyFits(d, old)'
      BY <1>1, <3>2, AnswerStillFits
    <3> QED BY <2>1, <3>1, <3>3 DEF InboxOK
  <2> QED BY <2>1 DEF InboxOK
<1>4. ASSUME NEW d \in Clients
      PROVE  /\ StoreShape(d, memory[d])' /\ StoreShape(d, disk[d])'
             /\ StoreLeads(d, memory[d])' /\ StoreLeads(d, disk[d])'
             /\ DiskKeepsUp(d)'
  BY <1>1 DEF StoreInv, StoreShape, StoreLeads, DiskKeepsUp
<1>5. TypeOK' /\ sent' \subseteq Requests
  BY <1>1, <1>2 DEF StoreInv, TypeOK
<1>6. StoreInv'
  BY <1>2, <1>3, <1>4, <1>5 DEF StoreInv
<1>7. /\ RecordIsLast' /\ ExecutedOnceInOrder'
      /\ \A i \in DOMAIN log : i \in DOMAIN log' /\ log'[i] = log[i]
      /\ \A x, e, n : PlacedAt(x, e, n)' => PlacedAt(x, e, n)
  BY <1>1, BrokerLog
<1>8. OnePlace'
  BY <1>1, <1>7, SMTT(30) DEF LogInv, OnePlace
<1>9. OutcomeIsOwn'
  BY <1>1, <1>7, SMTT(30) DEF OutcomeIsOwn
<1> QED BY <1>6, <1>7, <1>8, <1>9 DEF SessionInv, LogInv

LEMMA AnsweredStep ==
  ASSUME SessionInv, NEW c \in Clients, AttemptAnswered(c)
  PROVE  SessionInv'
<1>1. StoreInv /\ RecordIsLast
  BY DEF SessionInv, LogInv
<1>2. PICK reply \in Replies : /\ Apply(RequestOf(c), reply)
                               /\ inbox' = [inbox EXCEPT ![c] = reply]
  BY DEF AttemptAnswered
<1>3. PICK r : r = RequestOf(c) /\ Apply(r, reply)
  BY <1>2
<1>4. Unresolved(c) /\ UNCHANGED <<sent, memory, disk, told, fresh, faults>>
  BY DEF AttemptAnswered
<1>5. Due(r)
  BY <1>1, <1>3, <1>4, RequestDue
<1>6. ReplyFits(c, reply)'
  BY <1>1, <1>3, <1>4, AnswerFits
<1>7. inbox \in [Clients -> Replies \cup {None}]
  BY <1>1 DEF StoreInv, TypeOK
<1>8. inbox' \in [Clients -> Replies \cup {None}]
  BY <1>2, <1>7
<1>9. ASSUME NEW d \in Clients PROVE inbox'[d] = inbox[d] \/ InboxOK(d)'
  <2>1. CASE d = c
    <3>1. inbox'[c] = reply
      BY <1>2, <1>7
    <3> QED BY <1>6, <2>1, <3>1 DEF InboxOK
  <2> QED BY <1>2, <1>7, <2>1
<1> QED BY <1>3, <1>4, <1>5, <1>8, <1>9, BrokerStep

\* A request in the network is due.
LEMMA SentDue ==
  ASSUME StoreInv, NEW r \in sent
  PROVE  Due(r)
<1>1. r \in Requests
  BY DEF StoreInv
<1>2. ASSUME r.kind = "command", NEW c \in Clients,
             r.owner_instance \in InstancesOf(c)
      PROVE  ~Ahead(r, memory[c]) /\ ~Ahead(r, disk[c])
  BY <1>2 DEF StoreInv, StoreLeads
<1>3. r.kind = "command" => PlacedAt(r.command, r.owner_epoch, r.sequence)
  BY DEF PlacedAt, SentAt
<1> QED BY <1>1, <1>2, <1>3 DEF Due

LEMMA LateStep ==
  ASSUME SessionInv, NEW r \in sent, ApplyLate(r)
  PROVE  SessionInv'
<1>1. StoreInv
  BY DEF SessionInv
<1>2. PICK reply \in Replies : Apply(r, reply)
  BY DEF ApplyLate
<1>3. UNCHANGED <<sent, memory, disk, inbox, told, fresh, faults>>
  BY DEF ApplyLate, clients
<1>4. inbox' \in [Clients -> Replies \cup {None}]
  BY <1>1, <1>3 DEF StoreInv, TypeOK
<1> QED BY <1>1, <1>2, <1>3, <1>4, SentDue, BrokerStep

LEMMA AmbiguousStep ==
  ASSUME SessionInv, NEW c \in Clients, AttemptAmbiguous(c)
  PROVE  SessionInv'
<1>1. StoreInv /\ LogInv /\ OutcomeIsOwn
  BY DEF SessionInv
<1>2. PICK r : r = RequestOf(c)
  OBVIOUS
<1>3. /\ Unresolved(c) /\ sent' = sent \cup {r}
      /\ UNCHANGED <<broker, memory, disk, inbox, told, fresh, faults>>
  BY <1>2 DEF AttemptAmbiguous, clients
<1>4. Due(r)
  BY <1>1, <1>2, <1>3, RequestDue
<1>5. TypeOK' /\ sent' \subseteq Requests
  BY <1>1, <1>3, <1>4 DEF StoreInv, TypeOK, broker, Due
<1>6. ASSUME NEW d \in Clients
      PROVE  /\ StoreShape(d, memory[d])' /\ StoreShape(d, disk[d])'
             /\ StoreFollows(d, memory[d])' /\ StoreFollows(d, disk[d])'
             /\ DiskKeepsUp(d)' /\ InboxOK(d)'
  <2>1. /\ StoreShape(d, memory[d])' /\ StoreShape(d, disk[d])' /\ DiskKeepsUp(d)'
    BY <1>1, <1>3 DEF StoreInv, StoreShape, DiskKeepsUp
  <2>2. StoreFollows(d, memory[d])' /\ StoreFollows(d, disk[d])'
    BY <1>1, <1>3 DEF StoreInv, StoreFollows, LastSequence, broker
  <2>3. InboxOK(d)'
    BY <1>1, <1>3 DEF StoreInv, InboxOK, ReplyFits, Unresolved, LastSequence, broker
  <2> QED BY <2>1, <2>2, <2>3
<1>7. ASSUME NEW d \in Clients
      PROVE  StoreLeads(d, memory[d])' /\ StoreLeads(d, disk[d])'
  <2>1. StoreLeads(d, memory[d]) /\ StoreLeads(d, disk[d])
    BY <1>1 DEF StoreInv
  <2>2. r.kind = "command" /\ r.owner_instance \in InstancesOf(d)
          => ~Ahead(r, memory[d]) /\ ~Ahead(r, disk[d])
    BY <1>4 DEF Due
  <2> QED BY <1>3, <2>1, <2>2 DEF StoreLeads, Ahead
<1>8. StoreInv'
  BY <1>5, <1>6, <1>7 DEF StoreInv
<1>9. ASSUME NEW x \in Commands, NEW e \in Epochs, NEW n \in Sequences,
             PlacedAt(x, e, n)'
      PROVE  PlacedAt(x, e, n)
  <2>1. CASE HeldAt(x, e, n)' \/ LoggedAt(x, e, n)'
    BY <1>3, <2>1 DEF HeldAt, LoggedAt, PlacedAt, broker
  <2>2. CASE SentAt(x, e, n)'
    <3>1. PICK q \in sent \cup {r} :
            /\ q.kind = "command" /\ q.command = x
            /\ q.owner_epoch = e /\ q.sequence = n
      BY <1>3, <2>2 DEF SentAt
    <3>2. CASE q \in sent
      BY <3>1, <3>2 DEF SentAt, PlacedAt
    <3>3. CASE q = r
      BY <1>4, <3>1, <3>3 DEF Due
    <3> QED BY <3>2, <3>3
  <2> QED BY <1>9, <2>1, <2>2 DEF PlacedAt
<1>10. LogInv'
  BY <1>1, <1>3, <1>9, LogKept
<1>11. OutcomeIsOwn'
  BY <1>1, <1>3 DEF OutcomeIsOwn, broker
<1> QED BY <1>8, <1>10, <1>11 DEF SessionInv

LEMMA SaturatedStep ==
  ASSUME SessionInv, NEW c \in Clients, AttemptSaturated(c)
  PROVE  SessionInv'
<1>1. StoreInv /\ LogInv /\ OutcomeIsOwn
  BY DEF SessionInv
<1>2. /\ Unresolved(c) /\ inbox' = [inbox EXCEPT ![c] = Rejected]
      /\ UNCHANGED <<broker, sent, memory, disk, told, fresh, faults>>
  BY DEF AttemptSaturated
<1>3. inbox \in [Clients -> Replies \cup {None}] /\ Rejected \in Replies
  BY <1>1 DEF StoreInv, TypeOK, Replies
<1>4. inbox' \in [Clients -> Replies \cup {None}]
  BY <1>2, <1>3
<1>5. TypeOK' /\ sent' \subseteq Requests
  BY <1>1, <1>2, <1>4 DEF StoreInv, TypeOK, broker
<1>6. ASSUME NEW d \in Clients PROVE InboxOK(d)'
  <2>1. CASE d = c
    <3>1. inbox'[d] = Rejected /\ Unresolved(d)'
      BY <1>2, <1>3, <2>1 DEF Unresolved
    <3> QED BY <3>1, SMTT(30) DEF InboxOK, ReplyFits, Rejected
  <2>2. CASE d # c
    <3>1. inbox'[d] = inbox[d] /\ InboxOK(d)
      BY <1>1, <1>2, <1>3, <2>2 DEF StoreInv
    <3> QED BY <1>2, <3>1 DEF InboxOK, ReplyFits, Unresolved, LastSequence, broker
  <2> QED BY <2>1, <2>2
<1>7. ASSUME NEW d \in Clients
      PROVE  /\ StoreShape(d, memory[d])' /\ StoreShape(d, disk[d])'
             /\ StoreFollows(d, memory[d])' /\ StoreFollows(d, disk[d])'
             /\ StoreLeads(d, memory[d])' /\ StoreLeads(d, disk[d])'
             /\ DiskKeepsUp(d)'
  BY <1>1, <1>2 DEF StoreInv, StoreShape, StoreFollows, StoreLeads, Ahead,
                    DiskKeepsUp, LastSequence, broker
<1>8. StoreInv'
  BY <1>5, <1>6, <1>7 DEF StoreInv
<1>9. LogInv'
  BY <1>1, <1>2, LogKept DEF PlacedAt, HeldAt, SentAt, LoggedAt, broker
<1>10. OutcomeIsOwn'
  BY <1>1, <1>2 DEF OutcomeIsOwn, broker
<1> QED BY <1>8, <1>9, <1>10 DEF SessionInv

\* What a store becomes when its client acts on an answer that fits goes on
\* with what the client knows, and takes up no command.
LEMMA ReplyLeadsOn ==
  ASSUME StoreInv, NEW c \in Clients, NEW reply \in Replies,
         ReplyFits(c, reply), NEW t, t = AfterReply(memory[c], reply)
  PROVE  /\ GoodNext(c, t)
         /\ t.in_flight # None => t = memory[c]
<1> DEFINE s == memory[c]
<1>1. /\ s \in Stores /\ StoreShape(c, s) /\ StoreFollows(c, s) /\ StoreLeads(c, s)
      /\ session \in SessionRecords \cup {None}
  BY DEF StoreInv, TypeOK
<1>2. s.owner_epoch \in Nat /\ s.next_sequence \in Nat
  BY <1>1, SMTT(30) DEF Stores
<1>3. \/ reply.kind = "acquired" /\ reply.owner_epoch \in 1..MaxOwnerEpoch
      \/ reply.kind = "committed" \/ reply.kind = "rejected"
  BY SMTT(30) DEF Replies, Committed, Rejected, Acquired
<1>4. CASE t = s
  BY <1>1, <1>2, <1>4, SMTT(30) DEF GoodNext
<1>5. CASE /\ reply.kind = "acquired" /\ AcceptableEpoch(s, reply.owner_epoch)
           /\ t = Confirmed(s, reply.owner_epoch)
  <2> DEFINE e == reply.owner_epoch
  <2>1. /\ s.pending # None /\ session # None /\ e <= session.owner_epoch
        /\ e \in 1..MaxOwnerEpoch
    BY <1>3, <1>5 DEF ReplyFits
  <2>2. /\ t.owner_epoch = e /\ t.owner_instance = s.pending.owner_instance
        /\ t.pending = None /\ t.next_sequence = 1 /\ t.in_flight = None
    BY <1>5, SMTT(30) DEF Confirmed
  <2>3. s.pending.owner_instance \in InstancesOf(c)
        /\ s.pending.owner_instance \in Instances
    BY <1>1, <2>1 DEF StoreShape, Stores, Acquisitions
  <2>4. t \in Stores
    BY <1>5, <2>1, <2>3, Bounds, SMTT(30) DEF Confirmed, Stores
  <2>5. s.owner_epoch < e
    BY <1>1, <1>2, <1>5, <2>1, SMTT(30) DEF StoreShape, AcceptableEpoch
  <2>6. StoreShape(c, t)
    BY <2>2, <2>3, <2>4, NoneIsNoValue DEF StoreShape
  <2>7. StoreFollows(c, t)
    <3>1. session \in SessionRecords
      BY <1>1, <2>1
    <3>2. LastSequence \in Nat /\ session.owner_epoch \in Nat
      BY <3>1, SMTT(30) DEF SessionRecords, Outcomes, LastSequence
    <3>3. session.owner_instance \in InstancesOf(c) => LastSequence = 0
      BY <1>1, <1>2, <2>1, <2>5, <3>2, SMTT(30) DEF StoreFollows
    <3> QED BY <2>1, <2>2, <2>3, <3>2, <3>3, SMTT(30) DEF StoreFollows
  <2>8. StoreLeads(c, t)
    <3> SUFFICES ASSUME NEW r \in sent, r.kind = "command",
                        r.owner_instance \in InstancesOf(c)
                 PROVE  ~Ahead(r, t)
      BY DEF StoreLeads
    <3>1. r \in CommandRequests
      BY DEF StoreInv, Requests, CommandRequests, AcquireRequests
    <3>2. r.owner_epoch \in Nat /\ r.owner_epoch <= s.owner_epoch
      BY <1>1, <1>2, <3>1, SMTT(30) DEF CommandRequests, StoreLeads, Ahead
    <3> QED BY <1>2, <2>1, <2>2, <2>5, <3>2, SMTT(30) DEF Ahead
  <2> QED BY <1>2, <2>1, <2>2, <2>5, <2>6, <2>7, <2>8, SMTT(30) DEF GoodNext
<1>6. CASE reply.kind = "committed" /\ s.pending = None /\ t = Acknowledged(s)
  <2>1. /\ s.in_flight # None /\ s.owner_epoch # 0
        /\ s.next_sequence <= MaxSequence
    BY <1>1, <1>6 DEF ReplyFits, Unresolved, StoreShape
  <2>2. t = [s EXCEPT !.next_sequence = s.next_sequence + 1, !.in_flight = None]
    BY <1>6 DEF Acknowledged
  <2>3. /\ t.owner_epoch = s.owner_epoch /\ t.owner_instance = s.owner_instance
        /\ t.pending = None /\ t.next_sequence = s.next_sequence + 1
        /\ t.in_flight = None /\ t \in Stores
    <3>1. s.next_sequence + 1 \in 1..(MaxSequence + 1)
      BY <1>2, <2>1, Bounds, SMTT(30)
    <3>2. PICK next \in 1..(MaxSequence + 1) : next = s.next_sequence + 1
      BY <3>1
    <3>3. t = [s EXCEPT !.next_sequence = next, !.in_flight = None]
      BY <2>2, <3>2
    <3>4. /\ t.owner_epoch = s.owner_epoch /\ t.owner_instance = s.owner_instance
          /\ t.pending = s.pending /\ t.next_sequence = next
          /\ t.in_flight = None /\ t \in Stores
      BY <1>1, <3>3 DEF Stores
    <3> QED BY <1>6, <3>2, <3>4
  <2>4. StoreShape(c, t)
    BY <1>1, <2>3 DEF StoreShape
  <2>5. StoreFollows(c, t)
    <3>1. session # None /\ session \in SessionRecords
      BY <1>1, <1>6 DEF ReplyFits
    <3>2. /\ session.owner_epoch = s.owner_epoch
          /\ session.owner_instance = s.owner_instance
          => LastSequence = s.next_sequence
      BY <1>6 DEF ReplyFits
    <3> QED BY <1>1, <1>2, <2>3, <3>1, <3>2, SMTT(30) DEF StoreFollows
  <2>6. StoreLeads(c, t)
    <3> SUFFICES ASSUME NEW r \in sent, r.kind = "command",
                        r.owner_instance \in InstancesOf(c)
                 PROVE  ~Ahead(r, t)
      BY DEF StoreLeads
    <3>1. r \in CommandRequests
      BY DEF StoreInv, Requests, CommandRequests, AcquireRequests
    <3>2. r.owner_epoch \in Nat /\ r.sequence \in Nat /\ ~Ahead(r, s)
      BY <1>1, <3>1, SMTT(30) DEF CommandRequests, StoreLeads
    <3> QED BY <1>2, <2>3, <3>2, SMTT(30) DEF Ahead
  <2> QED BY <1>2, <2>3, <2>4, <2>5, <2>6, SMTT(30) DEF GoodNext
<1>7. CASE s.pending = None /\ t = Released(s)
  <2>1. /\ t.owner_epoch = s.owner_epoch /\ t.owner_instance = s.owner_instance
        /\ t.pending = None /\ t.next_sequence = s.next_sequence
        /\ t.in_flight = None /\ t \in Stores
    BY <1>1, <1>7 DEF Released, Stores
  <2>2. StoreShape(c, t)
    BY <1>1, <2>1 DEF StoreShape
  <2>3. StoreFollows(c, t) /\ StoreLeads(c, t)
    BY <1>1, <2>1 DEF StoreFollows, StoreLeads, Ahead
  <2> QED BY <1>2, <2>1, <2>2, <2>3, SMTT(30) DEF GoodNext
<1> QED BY <1>3, <1>4, <1>5, <1>6, <1>7 DEF AfterReply

LEMMA HandleStep ==
  ASSUME SessionInv, NEW c \in Clients, HandleReply(c)
  PROVE  SessionInv'
<1> DEFINE x == memory[c].in_flight
<1>1. StoreInv /\ LogInv /\ OutcomeIsOwn
  BY DEF SessionInv
<1>2. /\ inbox \in [Clients -> Replies \cup {None}] /\ inbox[c] # None
      /\ told \in [Commands -> Replies \cup {None}]
      /\ memory \in [Clients -> Stores] /\ disk \in [Clients -> Stores]
      /\ faults \in 0..MaxFaults
      /\ inbox' = [inbox EXCEPT ![c] = None] /\ UNCHANGED <<broker, sent, fresh>>
  BY <1>1 DEF HandleReply, StoreInv, TypeOK
<1>3. PICK reply \in Replies : reply = inbox[c]
  BY <1>2
<1>4. ReplyFits(c, reply)
  BY <1>1, <1>2, <1>3 DEF StoreInv, InboxOK
<1>5. PICK t : t = AfterReply(memory[c], reply)
  OBVIOUS
<1>6. /\ GoodNext(c, t) /\ (t.in_flight # None => t = memory[c])
  BY <1>1, <1>4, <1>5, ReplyLeadsOn
<1>7. \/ /\ UNCHANGED <<memory, disk, faults>> \/ Commit(c, t)
         /\ told' = IF x = None THEN told ELSE [told EXCEPT ![x] = reply]
      \/ CommitFails(c, t) /\ UNCHANGED told
  BY <1>3, <1>5 DEF HandleReply
<1>8. /\ memory' \in [Clients -> Stores] /\ disk' \in [Clients -> Stores]
      /\ faults' \in 0..MaxFaults
      /\ \A d \in Clients \ {c} : memory'[d] = memory[d]
      /\ StoresOK'
  <2>1. CASE UNCHANGED <<memory, disk, faults>>
    BY <1>1, <1>2, <2>1, SMTT(30) DEF StoreInv, StoresOK, StoreShape, StoreFollows,
                            StoreLeads, DiskKeepsUp, LastSequence, broker
  <2>2. CASE Commit(c, t) \/ CommitFails(c, t)
    BY <1>1, <1>2, <1>6, <2>2, WriteKeepsStores
  <2> QED BY <1>7, <2>1, <2>2
<1>9. /\ inbox' \in [Clients -> Replies \cup {None}]
      /\ \A d \in Clients : InboxOK(d)'
  <2>1. inbox'[c] = None
    BY <1>2
  <2> QED BY <1>1, <1>2, <1>8, <2>1, OthersStillFit
<1>10. x \in Commands \cup {None}
  BY <1>2 DEF Stores
<1>11. told' \in [Commands -> Replies \cup {None}]
  BY <1>2, <1>7, <1>10
<1>12. StoreInv'
  BY <1>1, <1>2, <1>8, <1>9, <1>11 DEF StoreInv, StoresOK, TypeOK, broker
<1>13. ASSUME NEW y \in Commands, NEW e \in Epochs, NEW n \in Sequences,
              PlacedAt(y, e, n)'
       PROVE  PlacedAt(y, e, n)
  <2>1. CASE UNCHANGED <<memory, disk, faults>>
    BY <1>2, <1>13, <2>1 DEF PlacedAt, HeldAt, SentAt, LoggedAt, broker
  <2>2. CASE Commit(c, t) \/ CommitFails(c, t)
    <3>1. \A z, d, m : PlacedAt(z, d, m)' =>
            \/ PlacedAt(z, d, m)
            \/ t.in_flight = z /\ t.owner_epoch = d /\ t.next_sequence = m
      BY <1>1, <1>2, <2>2, WritePlaces
    <3>2. CASE t.in_flight = y /\ t.owner_epoch = e /\ t.next_sequence = n
      <4>1. t = memory[c]
        BY <1>6, <3>2, NoneIsNoValue
      <4> QED BY <3>2, <4>1 DEF PlacedAt, HeldAt
    <3> QED BY <1>13, <3>1, <3>2
  <2> QED BY <1>7, <2>1, <2>2
<1>14. LogInv'
  BY <1>1, <1>2, <1>13, LogKept
<1>15. OutcomeIsOwn'
  <2> SUFFICES ASSUME NEW y \in Commands, told'[y] # None,
                      told'[y].kind = "committed"
               PROVE  \E i \in DOMAIN log : /\ log[i].command = y
                                            /\ log[i].response = told'[y].response
    BY <1>2 DEF OutcomeIsOwn, broker
  <2>1. CASE told'[y] = told[y]
    BY <1>1, <2>1, SMTT(30) DEF OutcomeIsOwn
  <2>2. CASE told'[y] # told[y]
    <3>1. y = x /\ told'[y] = reply
      BY <1>2, <1>7, <2>2
    <3> QED BY <1>4, <3>1 DEF ReplyFits
  <2> QED BY <2>1, <2>2
<1> QED BY <1>12, <1>14, <1>15 DEF SessionInv

LEMMA RestartStep ==
  ASSUME SessionInv, NEW c \in Clients, Restart(c)
  PROVE  SessionInv'
<1>1. StoreInv /\ LogInv /\ OutcomeIsOwn
  BY DEF SessionInv
<1>2. /\ memory \in [Clients -> Stores] /\ disk \in [Clients -> Stores]
      /\ inbox \in [Clients -> Replies \cup {None}] /\ faults \in 0..MaxFaults
  BY <1>1 DEF StoreInv, TypeOK
<1>3. /\ memory' = [memory EXCEPT ![c] = disk[c]] /\ disk' = disk
      /\ inbox' = [inbox EXCEPT ![c] = None] /\ faults' \in 0..MaxFaults
      /\ UNCHANGED <<broker, sent, told, fresh>>
  BY <1>2, BoundsAssumption, SMTT(30) DEF Restart
<1>4. /\ memory' \in [Clients -> Stores] /\ memory'[c] = disk[c] /\ inbox'[c] = None
      /\ \A d \in Clients \ {c} : memory'[d] = memory[d]
  BY <1>2, <1>3
<1>5. /\ inbox' \in [Clients -> Replies \cup {None}]
      /\ \A d \in Clients : InboxOK(d)'
  BY <1>1, <1>3, <1>4, OthersStillFit
<1>6. ASSUME NEW d \in Clients, NEW s
      PROVE  /\ StoreFollows(d, s)' <=> StoreFollows(d, s)
             /\ StoreLeads(d, s)' <=> StoreLeads(d, s)
  BY <1>3 DEF broker, StoreFollows, StoreLeads, LastSequence
<1>7. ASSUME NEW d \in Clients
      PROVE  /\ \A s \in {memory'[d], disk'[d]} :
                  StoreShape(d, s) /\ StoreFollows(d, s) /\ StoreLeads(d, s)
             /\ DiskKeepsUp(d)'
  <2>1. /\ \A s \in {memory[d], disk[d]} :
             StoreShape(d, s) /\ StoreFollows(d, s) /\ StoreLeads(d, s)
        /\ DiskKeepsUp(d)
    BY <1>1 DEF StoreInv
  <2>2. disk[d].owner_epoch \in Nat /\ disk[d].next_sequence \in Nat
    BY <1>2, SMTT(30) DEF Stores
  <2>3. memory'[d] \in {memory[d], disk[d]} /\ disk'[d] = disk[d]
    BY <1>3, <1>4
  <2> QED BY <2>1, <2>2, <2>3, SMTT(30) DEF DiskKeepsUp
<1>8. StoresOK'
  BY <1>6, <1>7, SMTT(30) DEF StoresOK, StoreShape
<1>9. StoreInv'
  BY <1>1, <1>3, <1>4, <1>5, <1>8 DEF StoreInv, StoresOK, TypeOK, broker
<1>10. ASSUME NEW x \in Commands, NEW e \in Epochs, NEW n \in Sequences,
              PlacedAt(x, e, n)'
       PROVE  PlacedAt(x, e, n)
  <2>1. \A d \in Clients : memory'[d] \in {memory[d], disk[d]}
    BY <1>4
  <2>2. CASE HeldAt(x, e, n)'
    BY <1>3, <2>1, <2>2 DEF HeldAt, PlacedAt
  <2>3. CASE SentAt(x, e, n)' \/ LoggedAt(x, e, n)'
    BY <1>3, <2>3 DEF SentAt, LoggedAt, PlacedAt, broker
  <2> QED BY <1>10, <2>2, <2>3 DEF PlacedAt
<1>11. LogInv'
  BY <1>1, <1>3, <1>10, LogKept
<1>12. OutcomeIsOwn'
  BY <1>1, <1>3 DEF OutcomeIsOwn, broker
<1> QED BY <1>9, <1>11, <1>12 DEF SessionInv

-----------------------------------------------------------------------------

LEMMA SessionInit == Init => SessionInv
<1> SUFFICES ASSUME Init PROVE SessionInv
  OBVIOUS
<1>1. EmptyStore \in Stores
  BY Bounds, SMTT(30) DEF EmptyStore, Stores
<1>2. TypeOK /\ sent \subseteq Requests
  BY <1>1, BoundsAssumption, SMTT(30) DEF Init, TypeOK
<1>3. ASSUME NEW c \in Clients
      PROVE  /\ memory[c] = EmptyStore /\ disk[c] = EmptyStore /\ inbox[c] = None
  BY DEF Init
<1>4. ASSUME NEW c \in Clients
      PROVE  /\ StoreShape(c, EmptyStore) /\ StoreFollows(c, EmptyStore)
             /\ StoreLeads(c, EmptyStore) /\ DiskKeepsUp(c) /\ InboxOK(c)
  BY <1>1, <1>3, SMTT(30) DEF Init, StoreShape, StoreFollows, StoreLeads, DiskKeepsUp,
                    InboxOK, EmptyStore
<1>5. StoreInv
  BY <1>2, <1>3, <1>4 DEF StoreInv
<1>6. ASSUME NEW x \in Commands, NEW e, NEW n PROVE ~PlacedAt(x, e, n)
  <2>1. EmptyStore.in_flight # x
    BY NoneIsNoValue DEF EmptyStore
  <2>2. DOMAIN log = {} /\ sent = {}
    BY SMTT(30) DEF Init
  <2> QED BY <1>3, <2>1, <2>2 DEF PlacedAt, HeldAt, SentAt, LoggedAt
<1>7. LogInv
  BY <1>6, SMTT(30) DEF Init, LogInv, RecordIsLast, ExecutedOnceInOrder, OnePlace
<1>8. OutcomeIsOwn
  BY DEF Init, OutcomeIsOwn
<1> QED BY <1>5, <1>7, <1>8 DEF SessionInv

LEMMA SessionStep == SessionInv /\ [Next]_vars => SessionInv'
<1> SUFFICES ASSUME SessionInv, [Next]_vars PROVE SessionInv'
  OBVIOUS
<1>1. CASE UNCHANGED vars
  <2>1. UNCHANGED <<session, log, sent, memory, disk, inbox, told, fresh, faults>>
    BY <1>1 DEF vars, broker, clients
  <2>2. StoreInv'
    BY <2>1, SMTT(30) DEF SessionInv, StoreInv, TypeOK, StoreShape, StoreFollows,
                StoreLeads, DiskKeepsUp, InboxOK, ReplyFits, Unresolved, LastSequence
  <2>3. LogInv'
    BY <2>1, LogKept DEF SessionInv, PlacedAt, HeldAt, SentAt, LoggedAt, broker
  <2>4. OutcomeIsOwn'
    BY <2>1 DEF SessionInv, OutcomeIsOwn
  <2> QED BY <2>2, <2>3, <2>4 DEF SessionInv
<1>2. CASE Next
  BY <1>2, BeginStep, ReserveStep, AnsweredStep, AmbiguousStep, SaturatedStep,
     HandleStep, RestartStep, LateStep DEF Next
<1> QED BY <1>1, <1>2

LEMMA SessionInvariant == Spec => []SessionInv
BY SessionInit, SessionStep, PTL DEF Spec

\* However many clients retry, take the session over, crash, lose answers and
\* fail to write, and however late a request arrives, apply_identified executes
\* no reserved command twice, and never one of an earlier owner or an earlier
\* sequence after a later one.
THEOREM CommandsExecuteOnceInOrder == Spec => []ExecutedOnceInOrder
<1>1. SessionInv => ExecutedOnceInOrder
  BY DEF SessionInv, LogInv
<1> QED BY <1>1, SessionInvariant, PTL

\* A caller that DurableCommandSession tells of a commit has the outcome of
\* its own command, whether the broker executed it for this attempt or
\* answered from its record.
THEOREM CommittedOutcomeIsOwn == Spec => []OutcomeIsOwn
<1>1. SessionInv => OutcomeIsOwn
  BY DEF SessionInv
<1> QED BY <1>1, SessionInvariant, PTL

\* The sequence that the owner's store uses next, in memory and on disk, is the
\* last one the broker recorded or its successor, so that no failed write, crash
\* or takeover leaves a gap that makes the broker execute out of turn.
THEOREM OwnerSequenceInStep == Spec => []SequencesAgree
<1>1. SessionInv => SequencesAgree
  BY DEF SessionInv, StoreInv, StoreFollows, SequencesAgree, LastSequence
<1> QED BY <1>1, SessionInvariant, PTL

=============================================================================
