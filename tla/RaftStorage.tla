---------------------------- MODULE RaftStorage -----------------------------
(***************************************************************************)
(* What one clustered node keeps on disk: the Raft log, vote, committed    *)
(* and purge positions (AgentBrokerRaftLogStorage), the snapshot pair, and *)
(* the replicated state machine that is rebuilt from them                  *)
(* (AgentBrokerRaftStateMachine), all over one redb database whose         *)
(* transactions are atomic and durable (RedbRaftPersistence).              *)
(*                                                                         *)
(* The Raft engine that calls them is external.  It is modelled by what it *)
(* may ask of its storage: it appends what a leader sends, truncates what  *)
(* conflicts with it, applies what is committed, purges what a snapshot    *)
(* covers, and never touches what it knows to be committed.  `decided' is  *)
(* the log the cluster agrees on.  A snapshot is built by a task of its    *)
(* own: the state is captured at once and persisted later.                 *)
(*                                                                         *)
(* Of a command only its session and sequence number matter: the broker is *)
(* the sequence of commands it executed.                                   *)
(***************************************************************************)
EXTENDS Naturals, Sequences, Functions

CONSTANTS
  Sessions,
  Logs,                \* the logs the cluster may decide
  MaxIndex,            \* bound on their length
  MaxSequence,         \* bound on the commands of a session
  MaxBatch,            \* entries in one append
  MaxVote, MaxStops,   \* bounds on elections and on processes that end
  InstallDuringBuild   \* whether a snapshot arrives while one is being built

VARIABLES
  decided,        \* the log the cluster decides
  raft_log,       \* table raft_log_v1: entries by index
  vote, committed, last_purged,
  snapshot_pair,  \* snapshot_meta_v1 and snapshot_data_v1
  running,
  sm,             \* the state machine in memory
  builder,        \* the state a snapshot task has captured, or Nothing
  writing,        \* the log write that is done and not yet answered
  engine,         \* the committed and snapshot positions the engine knows
  flushed,        \* entries the engine was told are on disk
  promised,       \* the vote the engine was told is on disk
  stops

database == <<raft_log, vote, committed, last_purged, snapshot_pair>>
node == <<running, sm, builder, writing, engine>>
answers == <<flushed, promised>>
raftVars == <<decided, database, node, answers, stops>>

Nothing == [nothing |-> TRUE]
Idle == [op |-> "idle", entries |-> <<>>]
Voting == [op |-> "save_vote", entries |-> <<>>]
Appending(entries) == [op |-> "append", entries |-> entries]

Blank == [term |-> 2, kind |-> "blank"]
Membership == [term |-> 2, kind |-> "membership"]
Command(s, n) == [term |-> 2, kind |-> "command", session |-> s, sequence |-> n]

\* An entry of a deposed leader, which no majority has.
Stale == [term |-> 1, kind |-> "blank"]

DecidedEntries ==
  {Blank, Membership} \cup {Command(s, n) : s \in Sessions, n \in 1..MaxSequence}

ASSUME RaftStorageAssumption ==
  /\ {MaxIndex, MaxSequence, MaxBatch, MaxVote, MaxStops} \subseteq Nat
  /\ InstallDuringBuild \in BOOLEAN
  /\ \A l \in Logs : l \in Seq(DecidedEntries) /\ Len(l) <= MaxIndex

Larger(a, b) == IF a > b THEN a ELSE b

-----------------------------------------------------------------------------
(* The state machine and its snapshots *)

NewMachine ==
  [broker |-> <<>>, sessions |-> [s \in Sessions |-> 0],
   applied |-> 0, membership |-> 0]

\* Mutant: a sequence that was answered is executed again.
ApplyAgain(m, e) ==
  IF e.sequence < m.sessions[e.session]
    THEN m
    ELSE [m EXCEPT !.broker = Append(@, <<e.session, e.sequence>>),
                   !.sessions[e.session] = e.sequence]

\* apply_identified: a sequence of the session that was seen is answered from
\* the record or rejected; a later one is executed and recorded.
ApplyToSession(m, e) ==
  IF e.sequence <= m.sessions[e.session]
    THEN m
    ELSE [m EXCEPT !.broker = Append(@, <<e.session, e.sequence>>),
                   !.sessions[e.session] = e.sequence]

\* One turn of apply's loop.
ApplyEntry(m, e, index) ==
  LET next == IF e.kind = "command" THEN ApplyToSession(m, e) ELSE m IN
  [broker |-> next.broker, sessions |-> next.sessions, applied |-> index,
   membership |-> IF e.kind = "membership" THEN index ELSE next.membership]

\* What every node's state machine is after the first entries of the decided
\* log, one turn of the loop after another.
Replayed[n \in 0..Len(decided)] ==
  IF n = 0 THEN NewMachine ELSE ApplyEntry(Replayed[n - 1], decided[n], n)

\* Mutant: the sessions are left out.
EncodeWithoutSessions(m) ==
  [format |-> "consensus", broker |-> m.broker, records |-> {}]

\* One record for each session that has an outcome.
EncodeConsensusSnapshot(m) ==
  [format |-> "consensus", broker |-> m.broker,
   records |-> {[session_id |-> s, sequence |-> m.sessions[s]] :
                  s \in {t \in Sessions : m.sessions[t] > 0}}]

Corrupt == [format |-> "corrupt"]
Legacy == [format |-> "legacy", broker |-> <<>>]

\* The sessions of decode_command_session_records; a snapshot without the
\* consensus header is a broker snapshot and has none.
DecodeSessions(data) ==
  [s \in Sessions |->
     IF data.format = "consensus"
       /\ \E r \in data.records : r.session_id = s
     THEN (CHOOSE r \in data.records : r.session_id = s).sequence
     ELSE 0]

DecodeConsensusSnapshot(data) ==
  IF data.format = "corrupt" THEN Nothing
  ELSE [broker |-> data.broker, sessions |-> DecodeSessions(data)]

\* The machine that load and install_snapshot make from a snapshot.
FromSnapshot(pair) ==
  LET decoded == DecodeConsensusSnapshot(pair.data) IN
  [broker |-> decoded.broker, sessions |-> decoded.sessions,
   applied |-> pair.last_log, membership |-> pair.membership]

NoSnapshot == [last_log |-> 0, membership |-> 0,
               data |-> EncodeConsensusSnapshot(NewMachine)]

SnapshotOf(m) ==
  [last_log |-> m.applied, membership |-> m.membership,
   data |-> EncodeConsensusSnapshot(m)]

-----------------------------------------------------------------------------
(* The tables *)

RetainBelow(log, index) == Restrict(log, {i \in DOMAIN log : i < index})
RetainAbove(log, index) == Restrict(log, {i \in DOMAIN log : i > index})

\* get_log_state: the last entry present, or else the last one purged.
LastLog(log, purged) ==
  IF DOMAIN log = {} THEN purged
  ELSE CHOOSE i \in DOMAIN log : \A j \in DOMAIN log : j <= i

LastLogIndex == LastLog(raft_log, last_purged)

\* read_log_range: the entries of a range that are present.
ReadLogRange(first, end) == Restrict(raft_log, {i \in DOMAIN raft_log : first <= i /\ i < end})

\* Mutant: the last entry of a batch is not inserted.
InsertBatchButLast(log, b, first) ==
  [i \in DOMAIN log \cup first..(first + Len(b) - 2) |->
     IF i < first THEN log[i] ELSE b[i - first + 1]]

\* append_log_batch: one transaction inserts every entry.
InsertBatch(log, b, first) ==
  [i \in DOMAIN log \cup first..(first + Len(b) - 1) |->
     IF i < first THEN log[i] ELSE b[i - first + 1]]

\* Whether the log agrees with the decided one up to an index.
Agrees(index) ==
  /\ index <= Len(decided)
  /\ \A i \in DOMAIN raft_log :
       engine.committed < i /\ i <= index => raft_log[i] = decided[i]

-----------------------------------------------------------------------------

\* A new node, or one whose snapshot was written before sessions existed.
RaftInit ==
  /\ decided \in Logs
  /\ \/ snapshot_pair = NoSnapshot
     \/ /\ decided # <<>> /\ decided[1] = Membership
        /\ snapshot_pair = [last_log |-> 1, membership |-> 1, data |-> Legacy]
  /\ raft_log = <<>> /\ vote = 0 /\ committed = 0
  /\ last_purged = snapshot_pair.last_log
  /\ running = FALSE /\ sm = NewMachine
  /\ builder = Nothing /\ writing = Idle
  /\ engine = [committed |-> 0, snapshot |-> 0]
  /\ flushed = <<>> /\ promised = 0 /\ stops = 0

\* The process ends: it is killed, or a storage error shuts the engine down.
EndProcess ==
  /\ stops < MaxStops
  /\ stops' = stops + 1
  /\ running' = FALSE /\ sm' = NewMachine
  /\ builder' = Nothing /\ writing' = Idle
  /\ engine' = [committed |-> 0, snapshot |-> 0]

Stop ==
  /\ running
  /\ EndProcess
  /\ UNCHANGED <<decided, database, answers>>

\* The node is opened on its database: load, then the engine takes over the
\* positions it reads.  A snapshot that does not decode keeps it from starting.
OpenNode ==
  /\ ~running
  /\ DecodeConsensusSnapshot(snapshot_pair.data) # Nothing
  /\ running' = TRUE
  /\ sm' = FromSnapshot(snapshot_pair)
  /\ engine' = [committed |-> Larger(committed, snapshot_pair.last_log),
                snapshot |-> snapshot_pair.last_log]
  /\ UNCHANGED <<decided, database, builder, writing, answers, stops>>

\* Log writes hold write_serial until they are answered.
MayWrite == running /\ writing = Idle

\* The leader's entries after the last one, decided or not; what follows an
\* entry that conflicts with the decided log is not decided either.
Batches ==
  {b \in UNION {[1..n -> {Stale} \cup Range(decided)] : n \in 1..MaxBatch} :
     /\ LastLogIndex + Len(b) <= MaxIndex
     /\ \A i \in DOMAIN b :
          \/ b[i] = Stale
          \/ /\ Agrees(LastLogIndex + i - 1)
             /\ \A j \in 1..i : /\ LastLogIndex + j <= Len(decided)
                                /\ b[j] = decided[LastLogIndex + j]}

\* append: one transaction inserts the batch; the callback comes after it.
AppendEntries ==
  /\ MayWrite /\ LastLogIndex >= engine.snapshot
  /\ \E b \in Batches :
       /\ raft_log' = InsertBatch(raft_log, b, LastLogIndex + 1)
       /\ writing' = Appending([i \in (LastLogIndex + 1)..(LastLogIndex + Len(b))
                                   |-> b[i - LastLogIndex]])
  /\ UNCHANGED <<decided, vote, committed, last_purged, snapshot_pair, running,
                 sm, builder, engine, answers, stops>>

\* save_vote, answered after its transaction.
SaveVote ==
  /\ MayWrite /\ vote < MaxVote
  /\ vote' = vote + 1
  /\ writing' = Voting
  /\ UNCHANGED <<decided, raft_log, committed, last_purged, snapshot_pair,
                 running, sm, builder, engine, answers, stops>>

\* The entries of one table over those of another.
Overlay(f, g) ==
  [i \in DOMAIN f \cup DOMAIN g |-> IF i \in DOMAIN f THEN f[i] ELSE g[i]]

Answered ==
  /\ running /\ writing # Idle
  /\ writing' = Idle
  /\ IF writing = Voting
       THEN promised' = vote /\ UNCHANGED flushed
       ELSE /\ flushed' = Overlay(writing.entries, flushed)
            /\ UNCHANGED promised
  /\ UNCHANGED <<decided, database, running, sm, builder, engine, stops>>

\* truncate: the engine drops its entries from the first conflicting one.
Truncate ==
  /\ MayWrite
  /\ \E i \in DOMAIN raft_log :
       /\ engine.committed < i /\ i <= Len(decided)
       /\ raft_log[i] # decided[i] /\ Agrees(i - 1)
       /\ raft_log' = RetainBelow(raft_log, i)
       /\ flushed' = RetainBelow(flushed, i)
  /\ UNCHANGED <<decided, vote, committed, last_purged, snapshot_pair, node,
                 promised, stops>>

\* The engine learns that more of its log is committed.
CommitAdvances ==
  /\ running
  /\ \E i \in (engine.committed + 1)..Len(decided) :
       /\ i \in DOMAIN flushed /\ Agrees(i)
       /\ engine' = [engine EXCEPT !.committed = i]
  /\ UNCHANGED <<decided, database, running, sm, builder, writing, answers,
                 stops>>

SaveCommitted ==
  /\ MayWrite /\ committed < engine.committed
  /\ committed' = engine.committed
  /\ UNCHANGED <<decided, raft_log, vote, last_purged, snapshot_pair, node,
                 answers, stops>>

\* apply, for the next committed entry.  The engine hands over batches of any
\* length; what may come between two batches may come between any two entries.
Apply ==
  /\ running /\ sm.applied < engine.committed
  /\ LET index == sm.applied + 1
         read  == ReadLogRange(index, index + 1)
     IN /\ index \in DOMAIN read
        /\ sm' = ApplyEntry(sm, read[index], index)
  /\ UNCHANGED <<decided, database, running, builder, writing, engine, answers,
                 stops>>

\* get_snapshot_builder captures the state.
CaptureSnapshot ==
  /\ running /\ builder = Nothing
  /\ sm.applied > engine.snapshot
  /\ builder' = sm
  /\ UNCHANGED <<decided, database, running, sm, writing, engine, answers,
                 stops>>

\* Mutant: the snapshot is handed to the engine without being persisted.
BuildUnpersisted ==
  /\ running /\ builder # Nothing
  /\ engine' = [engine EXCEPT !.snapshot = Larger(@, builder.applied)]
  /\ builder' = Nothing
  /\ UNCHANGED <<decided, database, running, sm, writing, answers, stops>>

\* build_snapshot persists it, whatever was persisted meanwhile; the engine
\* only takes a later snapshot for its current one.
BuildSnapshot ==
  /\ running /\ builder # Nothing
  /\ snapshot_pair' = SnapshotOf(builder)
  /\ engine' = [engine EXCEPT !.snapshot = Larger(@, builder.applied)]
  /\ builder' = Nothing
  /\ UNCHANGED <<decided, raft_log, vote, committed, last_purged, running, sm,
                 writing, answers, stops>>

\* Mutant: the entry after the purged ones goes too.
PurgeThroughNext(index) ==
  /\ raft_log' = RetainAbove(raft_log, index + 1)
  /\ last_purged' = index

\* The entries and the position change in one transaction.
PurgeThrough(index) ==
  /\ raft_log' = RetainAbove(raft_log, index)
  /\ last_purged' = index

\* purge: the engine drops entries its snapshot covers.
Purge ==
  /\ MayWrite
  /\ \E i \in (last_purged + 1)..engine.snapshot : PurgeThrough(i)
  /\ UNCHANGED <<decided, vote, committed, snapshot_pair, node, answers, stops>>

\* Mutant: the received bytes are persisted before they are decoded.
InstallUnchecked(index, data) ==
  LET pair == [last_log |-> index, membership |-> Replayed[index].membership,
               data |-> data]
  IN
  /\ snapshot_pair' = pair
  /\ IF DecodeConsensusSnapshot(data) = Nothing
       THEN EndProcess
       ELSE /\ sm' = FromSnapshot(pair)
            /\ engine' = [committed |-> index, snapshot |-> index]
            /\ UNCHANGED <<running, builder, writing, stops>>

\* Decode, persist, then replace the machine; a snapshot that does not decode
\* is a storage error.
InstallSnapshot(index, data) ==
  LET pair == [last_log |-> index, membership |-> Replayed[index].membership,
               data |-> data]
  IN
  IF DecodeConsensusSnapshot(data) = Nothing
    THEN EndProcess /\ UNCHANGED snapshot_pair
    ELSE /\ snapshot_pair' = pair
         /\ sm' = FromSnapshot(pair)
         /\ engine' = [committed |-> index, snapshot |-> index]
         /\ UNCHANGED <<running, builder, writing, stops>>

\* The leader sends the state after an index the node does not know to be
\* committed; the engine has truncated a conflict at that index.
ReceiveSnapshot ==
  /\ running
  /\ InstallDuringBuild \/ builder = Nothing
  /\ \E index \in (engine.committed + 1)..Len(decided) :
       /\ index \in DOMAIN raft_log => raft_log[index] = decided[index]
       /\ \E data \in {EncodeConsensusSnapshot(Replayed[index]), Corrupt} :
            InstallSnapshot(index, data)
  /\ UNCHANGED <<decided, raft_log, vote, committed, last_purged, answers>>

RaftNext ==
  \/ Stop \/ OpenNode
  \/ AppendEntries \/ SaveVote \/ Answered \/ Truncate
  \/ CommitAdvances \/ SaveCommitted \/ Apply
  \/ CaptureSnapshot \/ BuildSnapshot \/ Purge \/ ReceiveSnapshot

RaftSpec == RaftInit /\ [][RaftNext]_raftVars

-----------------------------------------------------------------------------
(* Properties *)

Machines ==
  [broker : Seq(Sessions \X (1..MaxSequence)),
   sessions : [Sessions -> 0..MaxSequence],
   applied : 0..MaxIndex, membership : 0..MaxIndex]

\* The tables, the machine and the positions.
RaftTypeOK ==
  /\ decided \in Seq(DecidedEntries)
  /\ DOMAIN raft_log \subseteq 1..MaxIndex
  /\ \A i \in DOMAIN raft_log : raft_log[i] \in DecidedEntries \cup {Stale}
  /\ {vote, promised} \subseteq 0..MaxVote
  /\ {committed, last_purged, snapshot_pair.last_log} \subseteq 0..MaxIndex
  /\ sm \in Machines /\ builder \in Machines \cup {Nothing}
  /\ writing.op \in {"idle", "save_vote", "append"}
  /\ engine \in [committed : 0..MaxIndex, snapshot : 0..MaxIndex]
  /\ running \in BOOLEAN /\ stops \in 0..MaxStops

\* An entry the engine was told is on disk stays there, through crashes and
\* purges, unless it is truncated or a snapshot covers it; so does the vote.
FlushedSurvives ==
  /\ \A i \in DOMAIN flushed :
       \/ i <= snapshot_pair.last_log
       \/ i \in DOMAIN raft_log /\ raft_log[i] = flushed[i]
  /\ promised <= vote

\* Compaction erases only what the persisted snapshot holds: a node that is
\* stopped at any moment finds no gap between its snapshot and its log.
SnapshotCoversPurge == last_purged <= snapshot_pair.last_log

\* Every committed entry that the machine still lacks, after a restart for
\* one, can be read from the log and applied.
CommittedReplayable ==
  running => \A i \in (sm.applied + 1)..engine.committed :
               i \in DOMAIN raft_log /\ raft_log[i] = decided[i]

\* The machine is the one that applied the decided log from its start, however
\* it came by its state: entries, its own snapshot or a leader's.  A command
\* the log holds several times is in it once, also when a snapshot was taken,
\* restored or installed between the retries.
StateIsReplay ==
  running => sm = Replayed[sm.applied] /\ IsInjective(sm.broker)

\* No crash and no bad snapshot from a peer leaves a node that cannot be
\* opened again.
NodeOpens == DecodeConsensusSnapshot(snapshot_pair.data) # Nothing

=============================================================================
