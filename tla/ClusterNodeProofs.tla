-------------------------- MODULE ClusterNodeProofs -------------------------
(* Proofs about a clustered node and the calls that reach it: its storage,   *)
(* for any log the cluster may decide and any number of stops; its peer      *)
(* server's threads, for any number of workers, calls and queue places; and  *)
(* the routing of a client's call, for any number of attempts and elections. *)
EXTENDS RaftStorage, RaftRpc, ClusterRouter, FiniteSetTheorems,
        WellFoundedInduction, TLAPS

\* The prover of a step that names none.
USE ZenonT(30)

-----------------------------------------------------------------------------
(* What a compaction must not lose *)

\* Positions only: what SnapshotCoversPurge needs to be inductive.  While a
\* node runs, the engine's snapshot is the persisted one, and it and the
\* applied state stay behind the committed position, so that a snapshot the
\* leader sends (past the committed position) is past the purged one; a state
\* that was captured for a snapshot lies between the two.
CompactionInv ==
  /\ decided \in Logs
  /\ {last_purged, committed, snapshot_pair.last_log, sm.applied} \subseteq Nat
  /\ engine \in [committed : Nat, snapshot : Nat]
  /\ SnapshotCoversPurge
  /\ running => /\ engine.snapshot = snapshot_pair.last_log
                /\ engine.snapshot <= engine.committed
                /\ sm.applied <= engine.committed
  /\ builder # Nothing => /\ running /\ builder.applied \in Nat
                          /\ engine.snapshot < builder.applied
                          /\ builder.applied <= engine.committed

LEMMA LogsAreSequences == \A l \in Logs : Len(l) \in Nat
BY RaftStorageAssumption, SMTT(30)

LEMMA CompactionInit == RaftInit => CompactionInv
BY RaftStorageAssumption, SMTT(30)
   DEF RaftInit, CompactionInv, SnapshotCoversPurge, NoSnapshot, NewMachine

LEMMA CompactionStep ==
  ASSUME ~InstallDuringBuild, CompactionInv, [RaftNext]_raftVars
  PROVE  CompactionInv'
<1> USE DEF CompactionInv, SnapshotCoversPurge
<1>1. CASE UNCHANGED raftVars
  BY <1>1 DEF raftVars, database, node, answers
<1>2. CASE Stop
  BY <1>2, SMTT(30) DEF Stop, EndProcess, NewMachine, database
<1>3. CASE OpenNode
  BY <1>3, SMTT(30) DEF OpenNode, FromSnapshot, Larger, database
<1>4. CASE AppendEntries
  BY <1>4 DEF AppendEntries, answers
<1>5. CASE SaveVote
  BY <1>5 DEF SaveVote, answers
<1>6. CASE Answered
  BY <1>6 DEF Answered, database
<1>7. CASE Truncate
  BY <1>7 DEF Truncate, node
<1>8. CASE CommitAdvances
  BY <1>8, LogsAreSequences, SMTT(30) DEF CommitAdvances, database, answers
<1>9. CASE SaveCommitted
  BY <1>9 DEF SaveCommitted, node, answers
<1>10. CASE Apply
  BY <1>10, SMTT(30) DEF Apply, ApplyEntry, database, answers
<1>11. CASE CaptureSnapshot
  BY <1>11 DEF CaptureSnapshot, database, answers
<1>12. CASE BuildSnapshot
  BY <1>12, SMTT(30) DEF BuildSnapshot, SnapshotOf, Larger, answers
<1>13. CASE Purge
  BY <1>13, SMTT(30) DEF Purge, MayWrite, PurgeThrough, node, answers
<1>14. CASE ReceiveSnapshot
  <2>1. builder = Nothing
    BY <1>14 DEF ReceiveSnapshot
  <2>2. PICK index \in (engine.committed + 1)..Len(decided) :
          \E data \in {EncodeConsensusSnapshot(Replayed[index]), Corrupt} :
            InstallSnapshot(index, data)
    BY <1>14 DEF ReceiveSnapshot
  <2>3. index \in Nat /\ index > engine.committed
    BY <2>2, LogsAreSequences, SMTT(30)
  <2>4. PICK data : InstallSnapshot(index, data)
    BY <2>2
  <2>5. CASE EndProcess /\ UNCHANGED snapshot_pair
    BY <1>14, <2>5, SMTT(30) DEF ReceiveSnapshot, EndProcess, NewMachine, answers
  <2>6. CASE ~(EndProcess /\ UNCHANGED snapshot_pair)
    <3>1. /\ snapshot_pair'.last_log = index /\ sm'.applied = index
          /\ engine' = [committed |-> index, snapshot |-> index]
          /\ running' = running /\ builder' = builder
      BY <2>4, <2>6, SMTT(30) DEF InstallSnapshot, FromSnapshot
    <3>2. UNCHANGED <<decided, committed, last_purged>> /\ running
      BY <1>14 DEF ReceiveSnapshot
    <3> QED BY <2>1, <2>3, <3>1, <3>2, SMTT(30)
  <2> QED BY <2>5, <2>6
<1> QED
  BY <1>1, <1>2, <1>3, <1>4, <1>5, <1>6, <1>7, <1>8, <1>9, <1>10, <1>11, <1>12,
     <1>13, <1>14 DEF RaftNext

\* Compaction never erases what the persisted snapshot lacks, as long as no
\* snapshot is installed while build_snapshot is at work.
THEOREM CompactionSafe ==
  ASSUME ~InstallDuringBuild
  PROVE  RaftSpec => []SnapshotCoversPurge
<1>1. CompactionInv /\ [RaftNext]_raftVars => CompactionInv'
  BY CompactionStep
<1>2. CompactionInv => SnapshotCoversPurge
  BY DEF CompactionInv
<1> QED
  BY CompactionInit, <1>1, <1>2, PTL DEF RaftSpec

-----------------------------------------------------------------------------

\* A snapshot that is encoded decodes to something.
LEMMA EncodedDecodes ==
  ASSUME NEW m
  PROVE  DecodeConsensusSnapshot(EncodeConsensusSnapshot(m)) # Nothing
BY DEF DecodeConsensusSnapshot, EncodeConsensusSnapshot, Nothing

\* install_snapshot decodes before it persists, so whatever bytes a peer sends
\* and whenever the node stops, it can be opened again.
THEOREM AlwaysOpens == RaftSpec => []NodeOpens
<1>1. RaftInit => NodeOpens
  BY EncodedDecodes, SMTT(30)
     DEF RaftInit, NodeOpens, NoSnapshot, Legacy, DecodeConsensusSnapshot, Nothing
<1>2. NodeOpens /\ [RaftNext]_raftVars => NodeOpens'
  <2> SUFFICES ASSUME NodeOpens, [RaftNext]_raftVars PROVE NodeOpens'
    OBVIOUS
  <2>1. CASE UNCHANGED snapshot_pair
    BY <2>1 DEF NodeOpens
  <2>2. CASE BuildSnapshot
    BY <2>2, EncodedDecodes DEF BuildSnapshot, SnapshotOf, NodeOpens
  <2>3. CASE ReceiveSnapshot
    <3>1. PICK index, data : InstallSnapshot(index, data)
      BY <2>3 DEF ReceiveSnapshot
    <3>2. CASE DecodeConsensusSnapshot(data) = Nothing
      BY <3>1, <3>2 DEF InstallSnapshot, NodeOpens
    <3>3. CASE DecodeConsensusSnapshot(data) # Nothing
      <4>1. snapshot_pair'.data = data
        BY <3>1, <3>3, SMTT(30) DEF InstallSnapshot
      <4> QED BY <3>3, <4>1 DEF NodeOpens
    <3> QED BY <3>2, <3>3
  <2> QED
    BY <2>1, <2>2, <2>3
       DEF RaftNext, raftVars, database, Stop, OpenNode, AppendEntries, SaveVote,
           Answered, Truncate, CommitAdvances, SaveCommitted, Apply,
           CaptureSnapshot, Purge
<1> QED
  BY <1>1, <1>2, PTL DEF RaftSpec

-----------------------------------------------------------------------------
(* What the log and the snapshot hold *)

\* The log is one run of entries that starts after the purged ones.
LogContiguous ==
  \E last \in 0..MaxIndex :
    last_purged <= last /\ DOMAIN raft_log = (last_purged + 1)..last

\* Entries that are in the log or covered by the snapshot.
OnDisk(entries) ==
  /\ DOMAIN entries \subseteq Nat
  /\ \A i \in DOMAIN entries :
       \/ i <= snapshot_pair.last_log
       \/ i \in DOMAIN raft_log /\ raft_log[i] = entries[i]

\* The decided entries the snapshot lacks, up to a position.
DecidedOnDisk(position) ==
  \A i \in (snapshot_pair.last_log + 1)..position :
    i \in DOMAIN raft_log /\ raft_log[i] = decided[i]

\* A write that is not answered yet is on disk already.
WritingOnDisk ==
  \/ writing = Idle
  \/ writing = Voting /\ running
  \/ writing.op = "append" /\ running /\ OnDisk(writing.entries)

\* Every position is one of the decided log, and while the node runs none is
\* ahead of what the engine knows to be committed.
PositionsDecided ==
  /\ committed <= Len(decided) /\ snapshot_pair.last_log <= Len(decided)
  /\ running => /\ committed <= engine.committed
                /\ engine.committed <= Len(decided)
                /\ snapshot_pair.last_log <= sm.applied
  /\ builder # Nothing => builder.applied <= sm.applied

\* The inductive invariant of the log: what was answered or committed is in
\* the log or covered by the snapshot.  The positions alone are not enough:
\* an entry the engine may commit next must be known to be there, and so must
\* the ones a restarted engine will find committed.
LogInv ==
  /\ CompactionInv
  /\ LogContiguous
  /\ {vote, promised} \subseteq Nat /\ promised <= vote
  /\ OnDisk(flushed) /\ WritingOnDisk
  /\ PositionsDecided
  /\ DecidedOnDisk(committed)
  /\ running => DecidedOnDisk(engine.committed)

\* Wherever a state of the machine is kept, in memory, in the hands of a
\* snapshot task or on disk, it is the one the decided log leads to.
StatesReplayed ==
  /\ running => sm = Replayed[sm.applied]
  /\ builder # Nothing => builder = Replayed[builder.applied]
  /\ FromSnapshot(snapshot_pair) = Replayed[snapshot_pair.last_log]

-----------------------------------------------------------------------------
(* The log *)

\* get_log_state reads the end of the run of entries.
LEMMA LastOfRun ==
  ASSUME NEW log, NEW purged \in Nat, NEW last \in Nat, purged <= last,
         DOMAIN log = (purged + 1)..last
  PROVE  LastLog(log, purged) = last
<1>1. CASE last = purged
  BY <1>1, SMTT(30) DEF LastLog
<1>2. CASE last > purged
  <2>1. last \in DOMAIN log /\ \A j \in DOMAIN log : j <= last
    BY <1>2, SMTT(30)
  <2>2. \A i \in DOMAIN log : (\A j \in DOMAIN log : j <= i) => i = last
    BY <2>1, SMTT(30)
  <2> QED BY <2>1, <2>2 DEF LastLog
<1> QED BY <1>1, <1>2, SMTT(30)

\* The log ends at its last index, and nothing in it is past it.
LEMMA LogEnd ==
  ASSUME LogInv
  PROVE  /\ LastLogIndex \in Nat /\ last_purged <= LastLogIndex
         /\ LastLogIndex <= MaxIndex
         /\ DOMAIN raft_log = (last_purged + 1)..LastLogIndex
<1>1. PICK last \in 0..MaxIndex :
        last_purged <= last /\ DOMAIN raft_log = (last_purged + 1)..last
  BY DEF LogInv, LogContiguous
<1>2. last_purged \in Nat /\ MaxIndex \in Nat
  BY RaftStorageAssumption DEF LogInv, CompactionInv
<1>3. LastLogIndex = last
  BY <1>1, <1>2, LastOfRun, SMTT(30) DEF LastLogIndex
<1> QED BY <1>1, <1>2, <1>3, SMTT(30)

LEMMA LogInit == RaftInit => LogInv
<1> SUFFICES ASSUME RaftInit PROVE LogInv
  OBVIOUS
<1>1. CompactionInv
  BY CompactionInit
<1>2. \/ snapshot_pair.last_log = 0
      \/ snapshot_pair.last_log = 1 /\ decided # <<>>
  BY SMTT(30) DEF RaftInit, NoSnapshot
<1>3. decided \in Seq(DecidedEntries) /\ Len(decided) <= MaxIndex /\ MaxIndex \in Nat
  BY RaftStorageAssumption DEF RaftInit
<1>4. /\ snapshot_pair.last_log \in Nat /\ snapshot_pair.last_log <= Len(decided)
      /\ last_purged = snapshot_pair.last_log /\ committed = 0 /\ ~running
  BY <1>2, <1>3, SMTT(30) DEF RaftInit
<1>5. LogContiguous
  <2>1. DOMAIN raft_log = {}
    BY SMTT(30) DEF RaftInit
  <2>2. last_purged \in 0..MaxIndex
    BY <1>3, <1>4, SMTT(30)
  <2>3. DOMAIN raft_log = (last_purged + 1)..last_purged
    BY <2>1, <2>2, SMTT(30)
  <2> QED BY <2>2, <2>3, SMTT(30) DEF LogContiguous
<1>6. OnDisk(flushed) /\ WritingOnDisk
  BY SMTT(30) DEF RaftInit, OnDisk, WritingOnDisk
<1>7. PositionsDecided /\ DecidedOnDisk(committed)
  BY <1>3, <1>4, SMTT(30) DEF PositionsDecided, DecidedOnDisk, RaftInit
<1>8. {vote, promised} \subseteq Nat /\ promised <= vote
  BY SMTT(30) DEF RaftInit
<1> QED
  BY <1>1, <1>4, <1>5, <1>6, <1>7, <1>8 DEF LogInv

\* What is on disk stays on disk when each entry of the log stays, or comes to
\* be covered by the snapshot.
LEMMA DiskKept ==
  ASSUME LogInv, decided' = decided, snapshot_pair'.last_log \in Nat,
         snapshot_pair.last_log <= snapshot_pair'.last_log,
         \A i \in DOMAIN raft_log :
           \/ i <= snapshot_pair'.last_log
           \/ i \in DOMAIN raft_log' /\ raft_log'[i] = raft_log[i]
  PROVE  /\ flushed' = flushed => OnDisk(flushed)'
         /\ writing' = writing /\ running' = running => WritingOnDisk'
         /\ committed' = committed => DecidedOnDisk(committed)'
         /\ running /\ engine'.committed = engine.committed
              => DecidedOnDisk(engine.committed)'
<1>1. snapshot_pair.last_log \in Nat /\ committed \in Nat /\ engine.committed \in Nat
  BY DEF LogInv, CompactionInv
<1>2. DOMAIN raft_log \subseteq Nat
  BY LogEnd, SMTT(30) DEF LogInv, CompactionInv
<1>3. flushed' = flushed => OnDisk(flushed)'
  BY <1>1, <1>2, SMTT(30) DEF LogInv, OnDisk
<1>4. writing' = writing /\ running' = running => WritingOnDisk'
  BY <1>1, <1>2, SMTT(30) DEF LogInv, OnDisk, WritingOnDisk
<1>5. committed' = committed => DecidedOnDisk(committed)'
  BY <1>1, <1>2, SMTT(30) DEF LogInv, DecidedOnDisk
<1>6. running /\ engine'.committed = engine.committed
        => DecidedOnDisk(engine.committed)'
  BY <1>1, <1>2, SMTT(30) DEF LogInv, DecidedOnDisk
<1> QED BY <1>3, <1>4, <1>5, <1>6

\* Steps that leave the log and the snapshot alone.
LEMMA QuietLog ==
  ASSUME LogInv, CompactionInv', PositionsDecided',
         UNCHANGED <<decided, raft_log, last_purged, snapshot_pair, vote,
                     committed, answers>>,
         writing' = Idle \/ UNCHANGED <<writing, running>>,
         running' => running /\ engine'.committed = engine.committed
  PROVE  LogInv'
<1>1. snapshot_pair.last_log \in Nat
  BY DEF LogInv, CompactionInv
<1>2. LogContiguous'
  BY DEF LogInv, LogContiguous
<1>3. /\ OnDisk(flushed)' /\ DecidedOnDisk(committed)'
      /\ writing' = writing /\ running' = running => WritingOnDisk'
      /\ running' => DecidedOnDisk(engine.committed)'
  BY <1>1, DiskKept, SMTT(30) DEF answers
<1>4. WritingOnDisk'
  <2>1. CASE writing' = Idle
    BY <2>1 DEF WritingOnDisk, Idle
  <2> QED BY <1>3, <2>1
<1>5. ({vote, promised} \subseteq Nat /\ promised <= vote)'
  BY DEF LogInv, answers
<1> QED BY <1>2, <1>3, <1>4, <1>5 DEF LogInv

LEMMA AppendKeepsLog ==
  ASSUME LogInv, AppendEntries, CompactionInv'
  PROVE  LogInv'
<1>1. PICK b \in Batches :
        /\ raft_log' = InsertBatch(raft_log, b, LastLogIndex + 1)
        /\ writing' = Appending([i \in (LastLogIndex + 1)..(LastLogIndex + Len(b))
                                   |-> b[i - LastLogIndex]])
  BY DEF AppendEntries
<1>2. running /\ UNCHANGED <<decided, vote, committed, last_purged, snapshot_pair,
                             running, sm, builder, engine, answers>>
  BY DEF AppendEntries, MayWrite
<1>3. PICK n \in 1..MaxBatch : b \in [1..n -> {Stale} \cup Range(decided)]
  BY <1>1 DEF Batches
<1>4. Len(b) = n /\ n \in Nat
  BY <1>3, RaftStorageAssumption, SMTT(30)
<1>5. PICK last \in Nat : last = LastLogIndex
  BY LogEnd
<1>6. last + n <= MaxIndex /\ MaxIndex \in Nat
  BY <1>1, <1>4, <1>5, RaftStorageAssumption DEF Batches
<1>7. DOMAIN raft_log = (last_purged + 1)..last /\ last_purged <= last
      /\ last_purged \in Nat
  BY <1>5, LogEnd DEF LogInv, CompactionInv
<1>8. /\ DOMAIN raft_log' = (last_purged + 1)..(last + n)
      /\ \A i \in (last_purged + 1)..last : raft_log'[i] = raft_log[i]
      /\ \A i \in (last + 1)..(last + n) : raft_log'[i] = b[i - last]
  <2>1. raft_log' = [i \in DOMAIN raft_log \cup (last + 1)..(last + n) |->
                       IF i < last + 1 THEN raft_log[i] ELSE b[i - last]]
    BY <1>1, <1>4, <1>5, <1>7, RaftStorageAssumption, SMTT(30) DEF InsertBatch
  <2> QED BY <1>4, <1>7, <2>1, SMTT(30)
<1>9. LogContiguous'
  BY <1>2, <1>4, <1>6, <1>7, <1>8, SMTT(30) DEF LogContiguous
<1>10. /\ OnDisk(flushed)' /\ DecidedOnDisk(committed)'
       /\ DecidedOnDisk(engine.committed)'
  <2>1. snapshot_pair.last_log \in Nat
    BY DEF LogInv, CompactionInv
  <2>2. \A i \in DOMAIN raft_log : i \in DOMAIN raft_log' /\ raft_log'[i] = raft_log[i]
    BY <1>4, <1>7, <1>8, SMTT(30)
  <2> QED BY <1>2, <2>1, <2>2, DiskKept, SMTT(30) DEF answers
<1>11. WritingOnDisk'
  <2>1. /\ writing'.op = "append"
        /\ writing'.entries = [i \in (last + 1)..(last + n) |-> b[i - last]]
    BY <1>1, <1>4, <1>5 DEF Appending
  <2>2. OnDisk(writing.entries)'
    BY <1>4, <1>7, <1>8, <2>1, SMTT(30) DEF OnDisk
  <2> QED BY <1>2, <2>1, <2>2 DEF WritingOnDisk
<1>12. PositionsDecided' /\ ({vote, promised} \subseteq Nat /\ promised <= vote)'
  BY <1>2 DEF LogInv, PositionsDecided, answers
<1> QED BY <1>9, <1>10, <1>11, <1>12 DEF LogInv

LEMMA AnsweredKeepsLog ==
  ASSUME LogInv, Answered, CompactionInv'
  PROVE  LogInv'
<1>1. UNCHANGED <<decided, raft_log, vote, committed, last_purged, snapshot_pair,
                  running, sm, builder, engine>>
  BY DEF Answered, database
<1>2. LogContiguous' /\ PositionsDecided' /\ DecidedOnDisk(committed)'
      /\ (running => DecidedOnDisk(engine.committed))'
  BY <1>1 DEF LogInv, LogContiguous, PositionsDecided, DecidedOnDisk
<1>3. WritingOnDisk'
  BY DEF Answered, WritingOnDisk
<1>4. CASE writing = Voting
  <2>1. promised' = vote /\ flushed' = flushed
    BY <1>4 DEF Answered
  <2>2. OnDisk(flushed)'
    BY <1>1, <2>1 DEF LogInv, OnDisk
  <2> QED BY <1>1, <1>2, <1>3, <2>1, <2>2, SMTT(30) DEF LogInv
<1>5. CASE writing # Voting
  <2>1. flushed' = Overlay(writing.entries, flushed) /\ promised' = promised
    BY <1>5 DEF Answered
  <2>2. OnDisk(writing.entries) /\ OnDisk(flushed)
    BY <1>5 DEF LogInv, WritingOnDisk, Answered
  <2>3. flushed' = [i \in DOMAIN writing.entries \cup DOMAIN flushed |->
                      IF i \in DOMAIN writing.entries THEN writing.entries[i]
                                                      ELSE flushed[i]]
    BY <2>1 DEF Overlay
  <2>4. OnDisk(flushed)'
    BY <1>1, <2>2, <2>3 DEF OnDisk
  <2> QED BY <1>1, <1>2, <1>3, <2>1, <2>4 DEF LogInv
<1> QED BY <1>4, <1>5

LEMMA TruncateKeepsLog ==
  ASSUME LogInv, Truncate, CompactionInv'
  PROVE  LogInv'
<1>1. PICK i \in DOMAIN raft_log :
        /\ engine.committed < i
        /\ raft_log' = RetainBelow(raft_log, i)
        /\ flushed' = RetainBelow(flushed, i)
  BY DEF Truncate
<1>2. running /\ writing = Idle
      /\ UNCHANGED <<decided, vote, committed, last_purged, snapshot_pair,
                     running, sm, builder, writing, engine, promised>>
  BY DEF Truncate, MayWrite, node
<1>3. PICK last \in Nat : last = LastLogIndex
  BY LogEnd
<1>4. /\ DOMAIN raft_log = (last_purged + 1)..last
      /\ last_purged \in Nat /\ last <= MaxIndex /\ MaxIndex \in Nat
  BY <1>3, LogEnd, RaftStorageAssumption DEF LogInv, CompactionInv
<1>5. i \in Nat /\ last_purged < i /\ i <= last
  BY <1>1, <1>4, SMTT(30)
<1>6. /\ DOMAIN raft_log' = (last_purged + 1)..(i - 1)
      /\ \A j \in (last_purged + 1)..(i - 1) : raft_log'[j] = raft_log[j]
  BY <1>1, <1>4, <1>5, SMTT(30) DEF RetainBelow, Restrict
<1>7. LogContiguous'
  <2>1. i - 1 \in 0..MaxIndex /\ last_purged <= i - 1
    BY <1>4, <1>5, SMTT(30)
  <2> QED BY <1>2, <1>6, <2>1 DEF LogContiguous
<1>8. /\ engine.committed \in Nat /\ committed \in Nat /\ committed <= engine.committed
      /\ snapshot_pair.last_log \in Nat /\ last_purged <= snapshot_pair.last_log
  BY <1>2 DEF LogInv, CompactionInv, PositionsDecided, SnapshotCoversPurge
<1>9. OnDisk(flushed)'
  <2>1. /\ DOMAIN flushed' = {j \in DOMAIN flushed : j < i}
        /\ \A j \in DOMAIN flushed' : flushed'[j] = flushed[j]
    BY <1>1 DEF RetainBelow, Restrict
  <2>2. OnDisk(flushed)
    BY DEF LogInv
  <2> QED BY <1>2, <1>4, <1>5, <1>6, <2>1, <2>2, SMTT(30) DEF OnDisk
<1>10. DecidedOnDisk(committed)' /\ DecidedOnDisk(engine.committed)'
  <2>1. DecidedOnDisk(engine.committed)
    BY <1>2 DEF LogInv
  <2>2. \A j \in (snapshot_pair.last_log + 1)..engine.committed :
          j \in DOMAIN raft_log' /\ raft_log'[j] = decided[j]
    BY <1>1, <1>4, <1>5, <1>6, <1>8, <2>1, SMTT(30) DEF DecidedOnDisk
  <2> QED BY <1>2, <1>8, <2>2, SMTT(30) DEF DecidedOnDisk
<1>11. WritingOnDisk' /\ PositionsDecided'
  BY <1>2 DEF LogInv, WritingOnDisk, PositionsDecided
<1> QED BY <1>2, <1>7, <1>9, <1>10, <1>11 DEF LogInv

LEMMA CommitKeepsLog ==
  ASSUME LogInv, CommitAdvances, CompactionInv'
  PROVE  LogInv'
<1>1. PICK i \in (engine.committed + 1)..Len(decided) :
        /\ i \in DOMAIN flushed /\ Agrees(i)
        /\ engine' = [engine EXCEPT !.committed = i]
  BY DEF CommitAdvances
<1>2. running /\ UNCHANGED <<decided, raft_log, vote, committed, last_purged,
                             snapshot_pair, running, sm, builder, writing, answers>>
  BY DEF CommitAdvances, database
<1>3. /\ decided \in Logs /\ Len(decided) \in Nat
      /\ engine \in [committed : Nat, snapshot : Nat]
      /\ {last_purged, committed, snapshot_pair.last_log, sm.applied} \subseteq Nat
      /\ last_purged <= snapshot_pair.last_log
      /\ snapshot_pair.last_log <= engine.committed
      /\ committed <= engine.committed
  BY <1>2, LogsAreSequences
     DEF LogInv, CompactionInv, PositionsDecided, SnapshotCoversPurge
<1>4. i \in Nat /\ i > engine.committed /\ i <= Len(decided) /\ engine'.committed = i
  BY <1>1, <1>3, SMTT(30)
<1>5. i \in DOMAIN raft_log
  BY <1>1, <1>3, <1>4, SMTT(30) DEF LogInv, OnDisk
<1>6. \A j \in (last_purged + 1)..i : j \in DOMAIN raft_log
  <2>1. PICK last \in Nat : last = LastLogIndex
    BY LogEnd
  <2>2. DOMAIN raft_log = (last_purged + 1)..last
    BY <2>1, LogEnd
  <2> QED BY <1>3, <1>4, <1>5, <2>2, SMTT(30)
<1>7. DecidedOnDisk(engine.committed)'
  <2> SUFFICES ASSUME NEW j \in (snapshot_pair.last_log + 1)..i
               PROVE  j \in DOMAIN raft_log /\ raft_log[j] = decided[j]
    BY <1>2, <1>4 DEF DecidedOnDisk
  <2>1. j \in DOMAIN raft_log
    BY <1>3, <1>4, <1>6, SMTT(30)
  <2>2. CASE j <= engine.committed
    BY <1>2, <1>3, <1>4, <2>2, SMTT(30) DEF LogInv, DecidedOnDisk
  <2>3. CASE engine.committed < j
    BY <1>1, <1>3, <1>4, <2>1, <2>3, SMTT(30) DEF Agrees
  <2> QED BY <1>3, <1>4, <2>2, <2>3, SMTT(30)
<1>8. LogContiguous' /\ OnDisk(flushed)' /\ WritingOnDisk' /\ DecidedOnDisk(committed)'
      /\ ({vote, promised} \subseteq Nat /\ promised <= vote)'
  BY <1>2 DEF LogInv, LogContiguous, OnDisk, WritingOnDisk, DecidedOnDisk, answers
<1>9. PositionsDecided'
  BY <1>2, <1>3, <1>4, SMTT(30) DEF LogInv, PositionsDecided
<1> QED BY <1>7, <1>8, <1>9 DEF LogInv

LEMMA BuildKeepsLog ==
  ASSUME LogInv, BuildSnapshot, CompactionInv'
  PROVE  LogInv'
<1>1. /\ running /\ builder # Nothing /\ builder' = Nothing
      /\ snapshot_pair'.last_log = builder.applied
      /\ engine'.committed = engine.committed
      /\ UNCHANGED <<decided, raft_log, vote, committed, last_purged, running, sm,
                     writing, answers>>
  BY DEF BuildSnapshot, SnapshotOf, LogInv, CompactionInv
<1>2. /\ builder.applied \in Nat /\ snapshot_pair.last_log \in Nat
      /\ engine.committed \in Nat /\ Len(decided) \in Nat /\ sm.applied \in Nat
      /\ snapshot_pair.last_log < builder.applied
      /\ builder.applied <= engine.committed /\ builder.applied <= sm.applied
      /\ engine.committed <= Len(decided)
  BY <1>1, LogsAreSequences DEF LogInv, CompactionInv, PositionsDecided
<1>3. /\ OnDisk(flushed)' /\ WritingOnDisk' /\ DecidedOnDisk(committed)'
      /\ DecidedOnDisk(engine.committed)'
  BY <1>1, <1>2, DiskKept, SMTT(30) DEF answers
<1>4. LogContiguous' /\ ({vote, promised} \subseteq Nat /\ promised <= vote)'
  BY <1>1 DEF LogInv, LogContiguous, answers
<1>5. PositionsDecided'
  BY <1>1, <1>2, SMTT(30) DEF LogInv, PositionsDecided
<1> QED BY <1>3, <1>4, <1>5 DEF LogInv

LEMMA PurgeKeepsLog ==
  ASSUME LogInv, Purge, CompactionInv'
  PROVE  LogInv'
<1>1. PICK i \in (last_purged + 1)..engine.snapshot : PurgeThrough(i)
  BY DEF Purge
<1>2. running /\ UNCHANGED <<decided, vote, committed, snapshot_pair, running, sm,
                             builder, writing, engine, answers>>
  BY DEF Purge, MayWrite, node
<1>3. PICK last \in Nat : last = LastLogIndex
  BY LogEnd
<1>4. /\ DOMAIN raft_log = (last_purged + 1)..last /\ last <= MaxIndex
      /\ last_purged \in Nat /\ MaxIndex \in Nat
      /\ engine.snapshot = snapshot_pair.last_log /\ snapshot_pair.last_log \in Nat
      /\ snapshot_pair.last_log <= Len(decided)
      /\ Len(decided) \in Nat /\ Len(decided) <= MaxIndex
  BY <1>2, <1>3, LogEnd, LogsAreSequences, RaftStorageAssumption
     DEF LogInv, CompactionInv, PositionsDecided
<1>5. /\ i \in Nat /\ last_purged < i /\ i <= snapshot_pair.last_log
      /\ last_purged' = i /\ i <= MaxIndex
  BY <1>1, <1>4, SMTT(30) DEF PurgeThrough
<1>6. /\ DOMAIN raft_log' = (i + 1)..last
      /\ \A j \in (i + 1)..last : raft_log'[j] = raft_log[j]
  BY <1>1, <1>4, <1>5, SMTT(30) DEF PurgeThrough, RetainAbove, Restrict
<1>7. LogContiguous'
  <2>1. CASE i <= last
    BY <1>4, <1>5, <1>6, <2>1, SMTT(30) DEF LogContiguous
  <2>2. CASE last < i
    <3>1. DOMAIN raft_log' = (i + 1)..i /\ i \in 0..MaxIndex
      BY <1>4, <1>5, <1>6, <2>2, SMTT(30)
    <3> QED BY <1>5, <3>1, SMTT(30) DEF LogContiguous
  <2> QED BY <1>5, <2>1, <2>2, SMTT(30)
<1>8. /\ OnDisk(flushed)' /\ WritingOnDisk' /\ DecidedOnDisk(committed)'
      /\ DecidedOnDisk(engine.committed)'
  <2>1. \A j \in DOMAIN raft_log :
          \/ j <= snapshot_pair'.last_log
          \/ j \in DOMAIN raft_log' /\ raft_log'[j] = raft_log[j]
    BY <1>2, <1>4, <1>5, <1>6, SMTT(30)
  <2> QED BY <1>2, <1>4, <2>1, DiskKept, SMTT(30) DEF answers
<1>9. PositionsDecided' /\ ({vote, promised} \subseteq Nat /\ promised <= vote)'
  BY <1>2 DEF LogInv, PositionsDecided, answers
<1> QED BY <1>7, <1>8, <1>9 DEF LogInv

LEMMA StopKeepsLog ==
  ASSUME LogInv, EndProcess, CompactionInv',
         UNCHANGED <<decided, raft_log, last_purged, snapshot_pair, vote,
                     committed, answers>>
  PROVE  LogInv'
<1>1. writing' = Idle /\ running' = FALSE /\ builder' = Nothing
  BY DEF EndProcess
<1>2. PositionsDecided'
  BY <1>1 DEF LogInv, PositionsDecided
<1> QED BY <1>1, <1>2, QuietLog

LEMMA ReceiveKeepsLog ==
  ASSUME LogInv, ReceiveSnapshot, CompactionInv', ~InstallDuringBuild
  PROVE  LogInv'
<1>1. PICK index \in (engine.committed + 1)..Len(decided) :
        \E data : InstallSnapshot(index, data)
  BY DEF ReceiveSnapshot
<1>2. /\ running /\ builder = Nothing
      /\ UNCHANGED <<decided, raft_log, vote, committed, last_purged, answers>>
  BY DEF ReceiveSnapshot
<1>3. CASE EndProcess /\ UNCHANGED snapshot_pair
  BY <1>2, <1>3, StopKeepsLog
<1>4. CASE ~(EndProcess /\ UNCHANGED snapshot_pair)
  <2>1. /\ snapshot_pair'.last_log = index /\ sm'.applied = index
        /\ engine' = [committed |-> index, snapshot |-> index]
        /\ UNCHANGED <<running, builder, writing>>
    BY <1>1, <1>4, SMTT(30) DEF InstallSnapshot, FromSnapshot
  <2>2. /\ Len(decided) \in Nat /\ engine.committed \in Nat /\ committed \in Nat
        /\ snapshot_pair.last_log \in Nat
        /\ snapshot_pair.last_log <= engine.committed
        /\ committed <= engine.committed
    BY <1>2, LogsAreSequences DEF LogInv, CompactionInv, PositionsDecided
  <2>3. /\ index \in Nat /\ engine.committed < index /\ index <= Len(decided)
        /\ engine'.committed = index
    BY <1>1, <2>1, <2>2, SMTT(30)
  <2>4. OnDisk(flushed)' /\ WritingOnDisk'
    BY <1>2, <2>1, <2>2, <2>3, DiskKept, SMTT(30) DEF answers
  <2>5. DecidedOnDisk(committed)' /\ DecidedOnDisk(engine.committed)'
    BY <1>2, <2>1, <2>2, <2>3, SMTT(30) DEF DecidedOnDisk
  <2>6. LogContiguous' /\ ({vote, promised} \subseteq Nat /\ promised <= vote)'
    BY <1>2 DEF LogInv, LogContiguous, answers
  <2>7. PositionsDecided'
    BY <1>2, <2>1, <2>2, <2>3, SMTT(30) DEF LogInv, PositionsDecided
  <2> QED BY <2>4, <2>5, <2>6, <2>7 DEF LogInv
<1> QED BY <1>3, <1>4

LEMMA LogStep ==
  ASSUME ~InstallDuringBuild, LogInv, [RaftNext]_raftVars
  PROVE  LogInv'
<1>0. CompactionInv'
  BY CompactionStep DEF LogInv
<1>1. CASE UNCHANGED raftVars
  <2>1. PositionsDecided'
    BY <1>1 DEF raftVars, database, node, LogInv, PositionsDecided
  <2> QED BY <1>0, <1>1, <2>1, QuietLog DEF raftVars, database, node, answers
<1>2. CASE Stop
  BY <1>0, <1>2, StopKeepsLog DEF Stop, database
<1>3. CASE OpenNode
  <2>1. /\ ~running /\ running' /\ sm'.applied = snapshot_pair.last_log
        /\ engine'.committed = Larger(committed, snapshot_pair.last_log)
        /\ UNCHANGED <<decided, raft_log, vote, committed, last_purged,
                       snapshot_pair, builder, writing, answers>>
    BY <1>3 DEF OpenNode, FromSnapshot, database
  <2>2. /\ committed \in Nat /\ snapshot_pair.last_log \in Nat
        /\ Len(decided) \in Nat /\ writing = Idle /\ builder = Nothing
    BY <2>1, LogsAreSequences DEF LogInv, CompactionInv, WritingOnDisk
  <2>3. PositionsDecided'
    BY <2>1, <2>2, SMTT(30) DEF LogInv, PositionsDecided, Larger
  <2>4. DecidedOnDisk(committed)' /\ DecidedOnDisk(engine.committed)'
    BY <2>1, <2>2, SMTT(30) DEF LogInv, DecidedOnDisk, Larger
  <2>5. LogContiguous' /\ OnDisk(flushed)' /\ WritingOnDisk'
        /\ ({vote, promised} \subseteq Nat /\ promised <= vote)'
    BY <2>1, <2>2 DEF LogInv, LogContiguous, OnDisk, WritingOnDisk, answers
  <2> QED BY <1>0, <2>3, <2>4, <2>5 DEF LogInv
<1>4. CASE AppendEntries
  BY <1>0, <1>4, AppendKeepsLog
<1>5. CASE SaveVote
  <2>1. /\ running /\ vote' = vote + 1 /\ writing' = Voting
        /\ UNCHANGED <<decided, raft_log, committed, last_purged, snapshot_pair,
                       running, sm, builder, engine, answers>>
    BY <1>5 DEF SaveVote, MayWrite
  <2>2. PositionsDecided' /\ DecidedOnDisk(committed)'
        /\ (running => DecidedOnDisk(engine.committed))'
        /\ LogContiguous' /\ OnDisk(flushed)'
    BY <2>1 DEF LogInv, PositionsDecided, DecidedOnDisk, LogContiguous, OnDisk, answers
  <2>3. WritingOnDisk' /\ ({vote, promised} \subseteq Nat /\ promised <= vote)'
    BY <2>1, SMTT(30) DEF LogInv, WritingOnDisk, answers
  <2> QED BY <1>0, <2>2, <2>3 DEF LogInv
<1>6. CASE Answered
  BY <1>0, <1>6, AnsweredKeepsLog
<1>7. CASE Truncate
  BY <1>0, <1>7, TruncateKeepsLog
<1>8. CASE CommitAdvances
  BY <1>0, <1>8, CommitKeepsLog
<1>9. CASE SaveCommitted
  <2>1. /\ running /\ committed' = engine.committed
        /\ UNCHANGED <<decided, raft_log, vote, last_purged, snapshot_pair, running,
                       sm, builder, writing, engine, answers>>
    BY <1>9 DEF SaveCommitted, MayWrite, node
  <2>2. PositionsDecided'
    BY <2>1, SMTT(30) DEF LogInv, PositionsDecided, CompactionInv
  <2>3. DecidedOnDisk(committed)' /\ DecidedOnDisk(engine.committed)'
    BY <2>1 DEF LogInv, DecidedOnDisk
  <2>4. LogContiguous' /\ OnDisk(flushed)' /\ WritingOnDisk'
        /\ ({vote, promised} \subseteq Nat /\ promised <= vote)'
    BY <2>1 DEF LogInv, LogContiguous, OnDisk, WritingOnDisk, answers
  <2> QED BY <1>0, <2>2, <2>3, <2>4 DEF LogInv
<1>10. CASE Apply
  <2>1. /\ running /\ sm'.applied = sm.applied + 1
        /\ UNCHANGED <<decided, raft_log, vote, committed, last_purged,
                       snapshot_pair, running, builder, writing, engine, answers>>
    BY <1>10 DEF Apply, ApplyEntry, database
  <2>2. PositionsDecided'
    BY <2>1, LogsAreSequences, SMTT(30) DEF LogInv, PositionsDecided, CompactionInv
  <2> QED BY <1>0, <2>1, <2>2, QuietLog
<1>11. CASE CaptureSnapshot
  <2>1. /\ running /\ builder' = sm
        /\ UNCHANGED <<decided, raft_log, vote, committed, last_purged,
                       snapshot_pair, running, sm, writing, engine, answers>>
    BY <1>11 DEF CaptureSnapshot, database
  <2>2. PositionsDecided'
    BY <2>1, SMTT(30) DEF LogInv, PositionsDecided, CompactionInv
  <2> QED BY <1>0, <2>1, <2>2, QuietLog
<1>12. CASE BuildSnapshot
  BY <1>0, <1>12, BuildKeepsLog
<1>13. CASE Purge
  BY <1>0, <1>13, PurgeKeepsLog
<1>14. CASE ReceiveSnapshot
  BY <1>0, <1>14, ReceiveKeepsLog
<1> QED
  BY <1>1, <1>2, <1>3, <1>4, <1>5, <1>6, <1>7, <1>8, <1>9, <1>10, <1>11, <1>12,
     <1>13, <1>14 DEF RaftNext

\* An entry whose append was answered, and a vote that was answered, outlive
\* every crash: append and save_vote answer after their transaction, truncate
\* and purge only take what the engine gave up or the snapshot covers.  No
\* snapshot is installed while build_snapshot is at work.
THEOREM AnsweredWritesSurvive ==
  ASSUME ~InstallDuringBuild
  PROVE  RaftSpec => []FlushedSurvives
<1>1. LogInv /\ [RaftNext]_raftVars => LogInv'
  BY LogStep
<1>2. LogInv => FlushedSurvives
  BY DEF LogInv, OnDisk, FlushedSurvives
<1> QED
  BY LogInit, <1>1, <1>2, PTL DEF RaftSpec

\* A node that is opened finds in its log each committed entry its snapshot
\* lacks, and apply can read every one it has yet to execute, as long as no
\* snapshot is installed while build_snapshot is at work.
THEOREM CommittedAlwaysReplayable ==
  ASSUME ~InstallDuringBuild
  PROVE  RaftSpec => []CommittedReplayable
<1>1. LogInv /\ [RaftNext]_raftVars => LogInv'
  BY LogStep
<1>2. LogInv => CommittedReplayable
  BY SMTT(30) DEF LogInv, CompactionInv, PositionsDecided, DecidedOnDisk, CommittedReplayable
<1> QED
  BY LogInit, <1>1, <1>2, PTL DEF RaftSpec

-----------------------------------------------------------------------------
(* The replicated state *)

\* Induction, as a fact about the set of numbers a statement holds of.
LEMMA Induction ==
  ASSUME NEW S, 0 \in S, \A n \in Nat : n \in S => n + 1 \in S
  PROVE  Nat \subseteq S
<1> DEFINE T == Nat \ S
<1> DEFINE Before == OpToRel(<, Nat)
<1> SUFFICES ASSUME T # {} PROVE FALSE
  OBVIOUS
<1>1. PICK x \in T : \A y \in T : ~(<<y, x>> \in Before)
  <2>1. T \subseteq Nat
    OBVIOUS
  <2>2. IsWellFoundedOn(Before, Nat)
    BY NatLessThanWellFounded
  <2> HIDE DEF T, Before
  <2> QED BY <2>1, <2>2, WFMin
<1>2. x \in Nat /\ x # 0 /\ x - 1 \in Nat /\ x - 1 < x
  BY SMTT(30)
<1>3. <<x - 1, x>> \in Before
  BY <1>2 DEF OpToRel
<1>4. x - 1 \in T
  BY <1>2, SMTT(30)
<1> QED BY <1>1, <1>3, <1>4

\* The loop over the decided log is well defined.
LEMMA ReplayedUnfolds ==
  ASSUME Len(decided) \in Nat
  PROVE  /\ Replayed[0] = NewMachine
         /\ \A n \in 1..Len(decided) :
              Replayed[n] = ApplyEntry(Replayed[n - 1], decided[n], n)
<1> DEFINE Loop(g, k) ==
      g = [n \in 0..k |-> IF n = 0 THEN NewMachine
                                   ELSE ApplyEntry(g[n - 1], decided[n], n)]
           S == {k \in Nat : \E g : Loop(g, k)}
<1>1. 0 \in S
  <2>1. Loop([n \in 0..0 |-> NewMachine], 0)
    BY SMTT(30)
  <2> HIDE DEF Loop
  <2> QED BY <2>1
<1>2. ASSUME NEW k \in Nat, k \in S PROVE k + 1 \in S
  <2>1. PICK g : Loop(g, k)
    BY <1>2
  <2> DEFINE h == [n \in 0..(k + 1) |->
                     IF n = k + 1 THEN ApplyEntry(g[k], decided[k + 1], k + 1)
                                  ELSE g[n]]
  <2>2. \A n \in 0..k : g[n] = IF n = 0 THEN NewMachine
                               ELSE ApplyEntry(g[n - 1], decided[n], n)
    BY <2>1
  <2>3. ASSUME NEW n \in 0..(k + 1)
        PROVE  h[n] = IF n = 0 THEN NewMachine
                      ELSE ApplyEntry(h[n - 1], decided[n], n)
    <3>1. CASE n = k + 1
      <4>1. h[n - 1] = g[k] /\ h[n] = ApplyEntry(g[k], decided[k + 1], k + 1)
        BY <3>1, SMTT(30)
      <4>2. n # 0 /\ n - 1 = k
        BY <3>1, SMTT(30)
      <4> HIDE DEF h
      <4> QED BY <3>1, <4>1, <4>2
    <3>2. CASE n # k + 1
      <4>1. n \in 0..k /\ h[n] = g[n]
        BY <3>2, SMTT(30)
      <4>2. n # 0 => h[n - 1] = g[n - 1]
        BY <4>1, SMTT(30)
      <4> HIDE DEF h
      <4> QED BY <2>2, <4>1, <4>2
    <3> QED BY <3>1, <3>2
  <2>4. Loop(h, k + 1)
    BY <2>3
  <2> HIDE DEF Loop, h
  <2> QED BY <2>4, SMTT(30)
<1>3. Len(decided) \in S
  <2> HIDE DEF S
  <2> QED BY <1>1, <1>2, Induction
<1>4. PICK g : Loop(g, Len(decided))
  BY <1>3
<1>5. Loop(Replayed, Len(decided))
  BY <1>4 DEF Replayed
<1> QED BY <1>5, SMTT(30)

\* A machine in which each command was executed at most once: no executed
\* command is past its session's sequence, and no two are the same.
ExecutedOnce(m) ==
  /\ \A i \in DOMAIN m.broker :
       m.broker[i][2] <= m.sessions[m.broker[i][1]]
  /\ \A i, j \in DOMAIN m.broker : m.broker[i] = m.broker[j] => i = j

Whole(m) ==
  /\ m \in [broker : Seq(Sessions \X Nat), sessions : [Sessions -> Nat],
            applied : Nat, membership : Nat]
  /\ ExecutedOnce(m)

LEMMA CommandEntry ==
  ASSUME NEW e \in DecidedEntries, e.kind = "command"
  PROVE  e.session \in Sessions /\ e.sequence \in Nat
BY RaftStorageAssumption, SMTT(30) DEF DecidedEntries, Blank, Membership, Command

\* apply_identified executes a command only past its session's sequence.
LEMMA ApplyToSessionWhole ==
  ASSUME NEW m, Whole(m), NEW e, e.session \in Sessions, e.sequence \in Nat
  PROVE  Whole(ApplyToSession(m, e))
<1>1. CASE e.sequence <= m.sessions[e.session]
  BY <1>1 DEF ApplyToSession
<1>2. CASE ~(e.sequence <= m.sessions[e.session])
  <2> DEFINE s == e.session
             q == e.sequence
             b == Append(m.broker, <<s, q>>)
             t == [m.sessions EXCEPT ![s] = q]
             r == [m EXCEPT !.broker = b, !.sessions = t]
  <2>1. /\ m.broker \in Seq(Sessions \X Nat) /\ m.sessions \in [Sessions -> Nat]
        /\ s \in Sessions /\ q \in Nat /\ m.sessions[s] < q
    BY <1>2, SMTT(30) DEF Whole
  <2>2. ApplyToSession(m, e) = r
    BY <1>2 DEF ApplyToSession, Whole
  <2>3. /\ r \in [broker : Seq(Sessions \X Nat), sessions : [Sessions -> Nat],
                  applied : Nat, membership : Nat]
        /\ r.broker = b /\ r.sessions = t
    <3>1. b \in Seq(Sessions \X Nat) /\ t \in [Sessions -> Nat]
      BY <2>1, SMTT(30)
    <3> HIDE DEF b, t
    <3> QED BY <3>1 DEF Whole
  <2>4. PICK n \in Nat : n = Len(m.broker)
    BY <2>1, SMTT(30)
  <2>5. /\ DOMAIN m.broker = 1..n /\ DOMAIN b = 1..(n + 1) /\ b[n + 1] = <<s, q>>
        /\ \A i \in 1..n : b[i] = m.broker[i] /\ b[i] \in Sessions \X Nat
    <3>1. DOMAIN m.broker = 1..n /\ \A i \in 1..n : m.broker[i] \in Sessions \X Nat
      BY <2>1, <2>4, SMTT(30)
    <3>2. /\ DOMAIN b = 1..(n + 1) /\ b[n + 1] = <<s, q>>
          /\ \A i \in 1..n : b[i] = m.broker[i]
      <4> HIDE DEF s, q
      <4>1. <<s, q>> \in Sessions \X Nat
        BY <2>1
      <4> QED BY <2>1, <2>4, <4>1, SMTT(30)
    <3> HIDE DEF b
    <3> QED BY <3>1, <3>2
  <2>6. /\ t[s] = q /\ \A x \in Sessions : x # s => t[x] = m.sessions[x]
        /\ \A x \in Sessions : m.sessions[x] \in Nat
    BY <2>1
  <2>7. \A i \in 1..n : b[i][2] <= m.sessions[b[i][1]] /\ b[i][1] \in Sessions
                        /\ b[i][2] \in Nat
    BY <2>5 DEF Whole, ExecutedOnce
  <2>8. \A i, j \in 1..n : b[i] = b[j] => i = j
    BY <2>5 DEF Whole, ExecutedOnce
  <2>9. \A i \in 1..(n + 1) : b[i][2] <= t[b[i][1]]
    <3> HIDE DEF b, t, s, q
    <3> SUFFICES ASSUME NEW i \in 1..(n + 1) PROVE b[i][2] <= t[b[i][1]]
      OBVIOUS
    <3>1. CASE i = n + 1
      BY <2>1, <2>5, <2>6, <3>1, SMTT(30)
    <3>2. CASE i # n + 1
      <4>1. i \in 1..n
        BY <2>4, <3>2, SMTT(30)
      <4>2. CASE b[i][1] = s
        BY <2>1, <2>6, <2>7, <4>1, <4>2, SMTT(30)
      <4>3. CASE b[i][1] # s
        BY <2>6, <2>7, <4>1, <4>3
      <4> QED BY <4>2, <4>3
    <3> QED BY <3>1, <3>2
  <2>10. \A i \in 1..n : b[i] # <<s, q>>
    <3> HIDE DEF b, t, s, q
    <3> SUFFICES ASSUME NEW i \in 1..n, b[i] = <<s, q>> PROVE FALSE
      OBVIOUS
    <3>1. b[i][1] = s /\ b[i][2] = q
      BY SMTT(30)
    <3> QED BY <2>1, <2>6, <2>7, <3>1, SMTT(30)
  <2>11. \A i, j \in 1..(n + 1) : b[i] = b[j] => i = j
    <3> HIDE DEF b, t, s, q
    <3> SUFFICES ASSUME NEW i \in 1..(n + 1), NEW j \in 1..(n + 1), b[i] = b[j]
                 PROVE  i = j
      OBVIOUS
    <3>1. CASE i \in 1..n /\ j \in 1..n
      BY <2>8, <3>1
    <3>2. CASE i = n + 1 \/ j = n + 1
      <4>1. \A k \in 1..(n + 1) : b[k] = b[n + 1] => k = n + 1
        BY <2>4, <2>5, <2>10, SMTT(30)
      <4> QED BY <3>2, <4>1
    <3> QED BY <2>4, <3>1, <3>2, SMTT(30)
  <2>12. ExecutedOnce(r)
    <3> HIDE DEF r, b, t
    <3> QED BY <2>3, <2>5, <2>9, <2>11 DEF ExecutedOnce
  <2> HIDE DEF r, b, t
  <2> QED BY <2>2, <2>3, <2>12 DEF Whole
<1> QED BY <1>1, <1>2

LEMMA ApplyEntryWhole ==
  ASSUME NEW m, Whole(m), NEW e \in DecidedEntries, NEW index \in Nat
  PROVE  Whole(ApplyEntry(m, e, index)) /\ ApplyEntry(m, e, index).applied = index
<1> DEFINE next == IF e.kind = "command" THEN ApplyToSession(m, e) ELSE m
           r == [broker |-> next.broker, sessions |-> next.sessions, applied |-> index,
                 membership |-> IF e.kind = "membership" THEN index
                                                         ELSE next.membership]
<1>1. Whole(next)
  BY CommandEntry, ApplyToSessionWhole
<1>2. ApplyEntry(m, e, index) = r
  BY DEF ApplyEntry
<1> HIDE DEF next
<1>3. r \in [broker : Seq(Sessions \X Nat), sessions : [Sessions -> Nat],
             applied : Nat, membership : Nat]
  BY <1>1 DEF Whole
<1>4. ExecutedOnce(r)
  BY <1>1 DEF Whole, ExecutedOnce
<1>5. r.applied = index
  OBVIOUS
<1> HIDE DEF r
<1> QED BY <1>2, <1>3, <1>4, <1>5 DEF Whole

\* Whatever the cluster decides, every state on the way is whole and knows how
\* far it is.
LEMMA ReplayedWhole ==
  ASSUME decided \in Seq(DecidedEntries)
  PROVE  \A n \in 0..Len(decided) : Whole(Replayed[n]) /\ Replayed[n].applied = n
<1> DEFINE S == {n \in Nat : n <= Len(decided) =>
                               Whole(Replayed[n]) /\ Replayed[n].applied = n}
<1>1. Len(decided) \in Nat
  BY SMTT(30)
<1>2. 0 \in S
  <2>1. Whole(NewMachine) /\ NewMachine.applied = 0
    BY SMTT(30) DEF NewMachine, Whole, ExecutedOnce
  <2> QED BY <1>1, <2>1, ReplayedUnfolds
<1>3. ASSUME NEW n \in Nat, n \in S PROVE n + 1 \in S
  <2> SUFFICES ASSUME n + 1 <= Len(decided)
               PROVE  Whole(Replayed[n + 1]) /\ Replayed[n + 1].applied = n + 1
    BY SMTT(30)
  <2>1. Whole(Replayed[n])
    BY <1>1, <1>3, SMTT(30)
  <2>2. decided[n + 1] \in DecidedEntries
    BY <1>1, SMTT(30)
  <2>3. Replayed[n + 1] = ApplyEntry(Replayed[n], decided[n + 1], n + 1)
    <3>1. n + 1 \in 1..Len(decided) /\ (n + 1) - 1 = n
      BY <1>1, SMTT(30)
    <3> QED BY <1>1, <3>1, ReplayedUnfolds
  <2>4. n + 1 \in Nat
    BY SMTT(30)
  <2>5. /\ Whole(ApplyEntry(Replayed[n], decided[n + 1], n + 1))
        /\ ApplyEntry(Replayed[n], decided[n + 1], n + 1).applied = n + 1
    BY <2>1, <2>2, <2>4, ApplyEntryWhole
  <2> QED BY <2>3, <2>5
<1>4. Nat \subseteq S
  <2> HIDE DEF S
  <2> QED BY <1>2, <1>3, Induction
<1> QED BY <1>1, <1>4, SMTT(30)

\* The records of the sessions that have an outcome lead back to every
\* session's sequence.
LEMMA SessionsRestored ==
  ASSUME NEW m, m.sessions \in [Sessions -> Nat]
  PROVE  DecodeSessions(EncodeConsensusSnapshot(m)) = m.sessions
<1> DEFINE data == EncodeConsensusSnapshot(m)
           Of(s) == [session_id |-> s, sequence |-> m.sessions[s]]
           Value(s) == IF /\ data.format = "consensus"
                          /\ \E r \in data.records : r.session_id = s
                       THEN (CHOOSE r \in data.records : r.session_id = s).sequence
                       ELSE 0
<1>1. /\ data.format = "consensus"
      /\ data.records = {Of(s) : s \in {t \in Sessions : m.sessions[t] > 0}}
  BY DEF EncodeConsensusSnapshot
<1>2. DecodeSessions(data) = [s \in Sessions |-> Value(s)]
  BY DEF DecodeSessions
<1> HIDE DEF data
<1>3. ASSUME NEW s \in Sessions PROVE Value(s) = m.sessions[s]
  <2>1. CASE m.sessions[s] > 0
    <3>1. Of(s) \in data.records /\ Of(s).session_id = s
      BY <1>1, <2>1
    <3>2. \A r \in data.records : r.session_id = s => r = Of(s)
      BY <1>1, SMTT(30)
    <3>3. (CHOOSE r \in data.records : r.session_id = s) = Of(s)
      BY <3>1, <3>2
    <3> QED BY <1>1, <3>1, <3>3, SMTT(30)
  <2>2. CASE ~(m.sessions[s] > 0)
    <3>1. m.sessions[s] = 0
      BY <2>2, SMTT(30)
    <3>2. ~ \E r \in data.records : r.session_id = s
      BY <1>1, <2>2, SMTT(30)
    <3> QED BY <3>1, <3>2
  <2> QED BY <2>1, <2>2
<1> HIDE DEF Value
<1>4. [s \in Sessions |-> Value(s)] = m.sessions
  BY <1>3
<1> QED BY <1>2, <1>4 DEF data

\* What is restored from a snapshot is the state it was taken of.
LEMMA SnapshotRestores ==
  ASSUME NEW m, Whole(m)
  PROVE  /\ SnapshotOf(m).last_log = m.applied
         /\ FromSnapshot(SnapshotOf(m)) = m
<1> DEFINE pair == SnapshotOf(m)
           data == EncodeConsensusSnapshot(m)
<1>1. /\ pair.last_log = m.applied /\ pair.membership = m.membership
      /\ pair.data = data
  BY DEF SnapshotOf
<1>2. data.format = "consensus" /\ data.broker = m.broker
  BY DEF EncodeConsensusSnapshot
<1>3. DecodeSessions(data) = m.sessions
  BY SessionsRestored DEF Whole
<1>4. FromSnapshot(pair) = [broker |-> m.broker, sessions |-> m.sessions,
                            applied |-> m.applied, membership |-> m.membership]
  <2> HIDE DEF data, pair
  <2> QED BY <1>1, <1>2, <1>3 DEF FromSnapshot, DecodeConsensusSnapshot
<1>5. m = [broker |-> m.broker, sessions |-> m.sessions,
           applied |-> m.applied, membership |-> m.membership]
  BY DEF Whole
<1> QED BY <1>1, <1>4, <1>5

LEMMA DecidedIsLog == LogInv => decided \in Seq(DecidedEntries) /\ Len(decided) \in Nat
BY RaftStorageAssumption, SMTT(30) DEF LogInv, CompactionInv

LEMMA ReplayInit == RaftInit => StatesReplayed
<1> SUFFICES ASSUME RaftInit PROVE StatesReplayed
  OBVIOUS
<1>1. decided \in Seq(DecidedEntries) /\ Len(decided) \in Nat
  BY RaftStorageAssumption, SMTT(30) DEF RaftInit
<1>2. ~running /\ builder = Nothing
  BY DEF RaftInit
<1>3. Replayed[0] = NewMachine
  BY <1>1, ReplayedUnfolds
<1>4. CASE snapshot_pair = NoSnapshot
  <2>1. NoSnapshot = SnapshotOf(NewMachine)
    BY DEF NoSnapshot, SnapshotOf, NewMachine
  <2>2. Whole(NewMachine) /\ NewMachine.applied = 0
    BY <1>1, <1>3, ReplayedWhole, SMTT(30)
  <2> QED BY <1>2, <1>3, <1>4, <2>1, <2>2, SnapshotRestores DEF StatesReplayed
<1>5. CASE /\ decided # <<>> /\ decided[1] = Membership
           /\ snapshot_pair = [last_log |-> 1, membership |-> 1, data |-> Legacy]
  <2>1. 1 \in 1..Len(decided) /\ 1 - 1 = 0
    BY <1>1, <1>5, SMTT(30)
  <2>2. Replayed[1] = ApplyEntry(NewMachine, Membership, 1)
    BY <1>1, <1>3, <1>5, <2>1, ReplayedUnfolds
  <2>3. Replayed[1] = [broker |-> <<>>, sessions |-> [s \in Sessions |-> 0],
                       applied |-> 1, membership |-> 1]
    BY <2>2 DEF ApplyEntry, NewMachine, Membership
  <2>4. DecodeConsensusSnapshot(Legacy)
          = [broker |-> <<>>, sessions |-> [s \in Sessions |-> 0]]
    BY DEF DecodeConsensusSnapshot, DecodeSessions, Legacy
  <2>5. FromSnapshot(snapshot_pair)
          = [broker |-> <<>>, sessions |-> [s \in Sessions |-> 0],
             applied |-> 1, membership |-> 1]
    BY <1>5, <2>4, SMTT(30) DEF FromSnapshot
  <2> QED BY <1>2, <1>5, <2>3, <2>5 DEF StatesReplayed
<1> QED BY <1>4, <1>5 DEF RaftInit

LEMMA ReplayStep ==
  ASSUME ~InstallDuringBuild, LogInv, StatesReplayed, [RaftNext]_raftVars
  PROVE  StatesReplayed'
<1>1. decided \in Seq(DecidedEntries) /\ Len(decided) \in Nat
  BY DecidedIsLog
<1>2. decided' = decided
  BY DEF RaftNext, raftVars, Stop, OpenNode, AppendEntries, SaveVote, Answered,
         Truncate, CommitAdvances, SaveCommitted, Apply, CaptureSnapshot,
         BuildSnapshot, Purge, ReceiveSnapshot
<1>3. Replayed' = Replayed
  BY <1>2 DEF Replayed
<1> USE DEF StatesReplayed
<1>4. CASE UNCHANGED <<running, sm, builder, snapshot_pair>>
  BY <1>3, <1>4
<1>5. CASE EndProcess /\ UNCHANGED snapshot_pair
  BY <1>3, <1>5 DEF EndProcess
<1>6. CASE OpenNode
  <2>1. builder' = builder /\ snapshot_pair' = snapshot_pair /\ ~running
        /\ sm' = FromSnapshot(snapshot_pair)
        /\ sm'.applied = snapshot_pair.last_log
    BY <1>6 DEF OpenNode, FromSnapshot, database
  <2> QED BY <1>3, <2>1
<1>7. CASE Apply
  <2>1. PICK index : index = sm.applied + 1
    OBVIOUS
  <2>2. /\ running /\ sm.applied < engine.committed
        /\ sm' = ApplyEntry(sm, ReadLogRange(index, index + 1)[index], index)
        /\ index \in DOMAIN ReadLogRange(index, index + 1)
        /\ UNCHANGED <<running, builder, snapshot_pair>>
    BY <1>7, <2>1 DEF Apply, database
  <2>3. ReadLogRange(index, index + 1)[index] = raft_log[index]
    BY <2>2 DEF ReadLogRange, Restrict
  <2>4. /\ sm.applied \in Nat /\ engine.committed \in Nat
        /\ engine.committed <= Len(decided)
        /\ snapshot_pair.last_log \in Nat /\ snapshot_pair.last_log <= sm.applied
    BY <2>2 DEF LogInv, CompactionInv, PositionsDecided
  <2>5. index \in 1..Len(decided) /\ index - 1 = sm.applied
    BY <1>1, <2>1, <2>2, <2>4, SMTT(30)
  <2>6. raft_log[index] = decided[index]
    <3>1. DecidedOnDisk(engine.committed)
      BY <2>2 DEF LogInv
    <3>2. index \in (snapshot_pair.last_log + 1)..engine.committed
      BY <2>1, <2>2, <2>4, SMTT(30)
    <3> QED BY <3>1, <3>2 DEF DecidedOnDisk
  <2>7. sm' = Replayed[index]
    <3>1. Replayed[index] = ApplyEntry(Replayed[index - 1], decided[index], index)
      BY <1>1, <2>5, ReplayedUnfolds
    <3>2. Replayed[index - 1] = sm
      BY <2>2, <2>5
    <3> QED BY <2>2, <2>3, <2>6, <3>1, <3>2
  <2>8. sm'.applied = index
    BY <2>2 DEF ApplyEntry
  <2> QED BY <1>3, <2>2, <2>7, <2>8
<1>8. CASE CaptureSnapshot
  BY <1>3, <1>8 DEF CaptureSnapshot, database
<1>9. CASE BuildSnapshot
  <2>1. /\ running /\ builder # Nothing /\ builder' = Nothing
        /\ snapshot_pair' = SnapshotOf(builder) /\ UNCHANGED <<running, sm>>
    BY <1>9 DEF BuildSnapshot
  <2>2. /\ builder.applied \in Nat /\ engine.committed \in Nat
        /\ builder.applied <= engine.committed /\ engine.committed <= Len(decided)
    BY <2>1 DEF LogInv, CompactionInv, PositionsDecided
  <2>3. Whole(builder)
    BY <1>1, <2>1, <2>2, ReplayedWhole, SMTT(30)
  <2>4. snapshot_pair'.last_log = builder.applied
        /\ FromSnapshot(snapshot_pair') = builder
    BY <2>1, <2>3, SnapshotRestores
  <2> QED BY <1>3, <2>1, <2>4
<1>10. CASE ReceiveSnapshot /\ ~(EndProcess /\ UNCHANGED snapshot_pair)
  <2>1. PICK index \in (engine.committed + 1)..Len(decided) :
          \E data \in {EncodeConsensusSnapshot(Replayed[index]), Corrupt} :
            InstallSnapshot(index, data)
    BY <1>10 DEF ReceiveSnapshot
  <2>2. PICK data \in {EncodeConsensusSnapshot(Replayed[index]), Corrupt} :
          InstallSnapshot(index, data)
    BY <2>1
  <2>3. index \in 0..Len(decided)
    BY <1>1, <2>1, SMTT(30) DEF LogInv, CompactionInv
  <2>4. Whole(Replayed[index]) /\ Replayed[index].applied = index
    BY <1>1, <2>3, ReplayedWhole
  <2>5. DecodeConsensusSnapshot(data) # Nothing
    BY <1>10, <2>2 DEF InstallSnapshot
  <2>6. data = EncodeConsensusSnapshot(Replayed[index])
    BY <2>2, <2>5, SMTT(30) DEF DecodeConsensusSnapshot, Corrupt
  <2>7. /\ snapshot_pair' = [last_log |-> index,
                             membership |-> Replayed[index].membership,
                             data |-> data]
        /\ sm' = FromSnapshot(snapshot_pair') /\ UNCHANGED <<running, builder>>
    BY <2>2, <2>5 DEF InstallSnapshot
  <2>8. snapshot_pair' = SnapshotOf(Replayed[index])
    BY <2>4, <2>6, <2>7 DEF SnapshotOf
  <2>9. /\ snapshot_pair'.last_log = index
        /\ FromSnapshot(snapshot_pair') = Replayed[index]
    BY <2>4, <2>8, SnapshotRestores
  <2> QED BY <1>3, <2>4, <2>7, <2>9
<1> QED
  BY <1>4, <1>5, <1>6, <1>7, <1>8, <1>9, <1>10
     DEF RaftNext, raftVars, database, node, Stop, AppendEntries, SaveVote,
         Answered, Truncate, CommitAdvances, SaveCommitted, Purge

\* However a node came by its state, by applying entries, from its own
\* snapshot after a crash or from a leader's, it is the state the decided log
\* leads to, and no command was executed twice on the way, as long as no
\* snapshot is installed while build_snapshot is at work.
THEOREM StateAlwaysReplay ==
  ASSUME ~InstallDuringBuild
  PROVE  RaftSpec => []StateIsReplay
<1>1. LogInv /\ StatesReplayed /\ [RaftNext]_raftVars => (LogInv /\ StatesReplayed)'
  BY LogStep, ReplayStep
<1>2. LogInv /\ StatesReplayed => StateIsReplay
  <2> SUFFICES ASSUME LogInv, StatesReplayed, running
               PROVE  sm = Replayed[sm.applied] /\ IsInjective(sm.broker)
    BY DEF StateIsReplay
  <2>1. sm = Replayed[sm.applied]
    BY DEF StatesReplayed
  <2>2. sm.applied \in 0..Len(decided)
    BY DecidedIsLog, SMTT(30) DEF LogInv, CompactionInv, PositionsDecided
  <2>3. Whole(sm)
    BY <2>1, <2>2, DecidedIsLog, ReplayedWhole
  <2> QED BY <2>1, <2>3 DEF Whole, ExecutedOnce, IsInjective
<1>3. RaftInit => LogInv /\ StatesReplayed
  BY LogInit, ReplayInit
<1> QED
  BY <1>1, <1>2, <1>3, PTL DEF RaftSpec

-----------------------------------------------------------------------------
(* The peer server's counters *)

\* The workers with a connection that is still counted as queued, and those
\* with one that is counted as active.
Receiving == {w \in Workers : worker[w] = "received"}
Busy == {"read", "run", "ok", "fatal", "done"}
Working == {w \in Workers : worker[w] \in Busy}
Counted == IF acceptor[1] = "counted" THEN 1 ELSE 0

\* LoadExact over typed state, and the acceptor's phases against the server's:
\* start spawns the acceptor before any worker can find the channel abandoned.
RpcInv ==
  /\ channel \in Seq(Calls)
  /\ worker \in [Workers -> WorkerStates]
  /\ acceptor \in {"unborn", "top", "counted", "returned"} \X (Calls \cup {Nobody})
  /\ acceptor[1] = "counted" => acceptor[2] \in Calls
  /\ queued_connections = Len(channel) + Counted + Cardinality(Receiving)
  /\ active_connections = Cardinality(Working)
  /\ server = "starting" => acceptor[1] = "unborn"
  /\ server = "starting" \/ acceptor[1] \in {"top", "counted"} =>
       \A w \in Workers : worker[w] # "returned"

LEMMA RpcInvImplies == RpcInv => LoadExact /\ WorkersOutliveAcceptor
BY DEF RpcInv, LoadExact, WorkersOutliveAcceptor, Counted, Receiving, Working, Busy

LEMMA RpcInvInit == RpcInit => RpcInv
<1> SUFFICES ASSUME RpcInit PROVE RpcInv
  OBVIOUS
<1>1. Receiving = {} /\ Working = {}
  BY DEF RpcInit, Receiving, Working, Busy
<1>2. Cardinality({}) = 0
  BY FS_EmptySet
<1>3. channel \in Seq(Calls) /\ Len(channel) = 0
  BY SMTT(30) DEF RpcInit
<1>4. worker \in [Workers -> WorkerStates] /\ \A w \in Workers : worker[w] # "returned"
  BY DEF RpcInit, WorkerStates
<1>5. acceptor \in {"unborn", "top", "counted", "returned"} \X (Calls \cup {Nobody}) /\ acceptor[1] = "unborn"
  BY DEF RpcInit
<1>6. queued_connections = 0 /\ active_connections = 0 /\ Counted = 0
  BY <1>5 DEF RpcInit, Counted
<1>7. queued_connections = Len(channel) + Counted + Cardinality(Receiving)
  BY <1>1, <1>2, <1>3, <1>6, SMTT(30)
<1>8. active_connections = Cardinality(Working)
  BY <1>1, <1>2, <1>6
<1> QED BY <1>3, <1>4, <1>5, <1>7, <1>8 DEF RpcInv

\* A worker's move that touches neither the channel nor a counter.
LEMMA QuietMove ==
  ASSUME RpcInv, NEW w \in Workers, NEW s \in WorkerStates \ {"received", "returned"},
         worker' = [worker EXCEPT ![w] = s], worker[w] # "received",
         worker[w] \in Busy <=> s \in Busy,
         UNCHANGED <<channel, acceptor, server, queued_connections, active_connections>>
  PROVE  RpcInv'
<1>1. Receiving' = Receiving /\ Working' = Working
  BY DEF RpcInv, Receiving, Working
<1>2. worker' \in [Workers -> WorkerStates]
  BY DEF RpcInv
<1>3. \A v \in Workers : worker'[v] = "returned" => worker[v] = "returned"
  BY DEF RpcInv
<1> QED BY <1>1, <1>2, <1>3 DEF RpcInv, Counted

LEMMA RpcInvStep == RpcInv /\ [RpcNext]_rpcVars => RpcInv'
<1> SUFFICES ASSUME RpcInv, [RpcNext]_rpcVars PROVE RpcInv'
  OBVIOUS
<1> DEFINE received == Cardinality(Receiving)
           busy == Cardinality(Working)
<1>type. /\ channel \in Seq(Calls) /\ Len(channel) \in Nat
         /\ IsFiniteSet(Receiving) /\ IsFiniteSet(Working)
         /\ received \in Nat /\ busy \in Nat /\ Counted \in {0, 1}
         /\ worker \in [Workers -> WorkerStates]
  <2>1. Receiving \subseteq Workers /\ Working \subseteq Workers
    BY DEF Receiving, Working
  <2>2. IsFiniteSet(Receiving) /\ IsFiniteSet(Working)
    BY <2>1, RpcAssumption, FS_Subset
  <2>3. received \in Nat /\ busy \in Nat
    BY <2>2, FS_CardinalityType
  <2> QED BY <2>2, <2>3, SMTT(30) DEF RpcInv, Counted
<1>same. UNCHANGED worker => UNCHANGED <<Receiving, Working>>
  BY DEF Receiving, Working
<1>1. CASE UNCHANGED <<channel, acceptor, worker, load>> /\ (server' = "starting" => server = "starting")
  BY <1>1, <1>same DEF RpcInv, load, Counted
<1>2. CASE SpawnAcceptor
  BY <1>2, <1>same DEF SpawnAcceptor, RpcInv, Counted, load, workers
<1>3. CASE AcceptorStops \/ AcceptFails
  BY <1>3, <1>same, SMTT(30) DEF AcceptorStops, AcceptFails, RpcInv, Counted, load, workers, control
<1>4. ASSUME NEW c \in Calls, AcceptConnection(c) PROVE RpcInv'
  <2>1. /\ acceptor[1] = "top" /\ acceptor' = <<"counted", c>>
        /\ queued_connections' = queued_connections + 1
        /\ UNCHANGED <<server, channel, worker, active_connections>>
    BY <1>4 DEF AcceptConnection, control, workers
  <2>2. Counted = 0 /\ Counted' = 1
    BY <2>1 DEF Counted
  <2> QED BY <2>1, <2>2, <1>type, <1>same, SMTT(30) DEF RpcInv
<1>5. CASE SendConnection
  <2>1. /\ acceptor[1] = "counted" /\ acceptor' = <<"top", Nobody>>
        /\ channel' = Append(channel, acceptor[2])
        /\ UNCHANGED <<server, worker, queued_connections, active_connections>>
    BY <1>5 DEF SendConnection, control, workers, load
  <2>2. Counted = 1 /\ Counted' = 0
    BY <2>1 DEF Counted
  <2>3. channel' \in Seq(Calls) /\ Len(channel') = Len(channel) + 1
    BY <2>1, <1>type, SMTT(30) DEF RpcInv
  <2> QED BY <2>1, <2>2, <2>3, <1>type, <1>same, SMTT(30) DEF RpcInv
<1>6. CASE RefuseConnection
  <2>1. /\ acceptor[1] = "counted" /\ acceptor' = <<"top", Nobody>>
        /\ queued_connections' = queued_connections - 1
        /\ UNCHANGED <<server, channel, worker, active_connections>>
    BY <1>6 DEF RefuseConnection, control, workers
  <2>2. Counted = 1 /\ Counted' = 0
    BY <2>1 DEF Counted
  <2> QED BY <2>1, <2>2, <1>type, <1>same, SMTT(30) DEF RpcInv
<1>7. ASSUME NEW w \in Workers, WorkerNext(w) \/ SpawnWorker(w) PROVE RpcInv'
  <2>1. CASE SpawnWorker(w) \/ LockReceiver(w) \/ CheckStop(w) \/ ReadCall(w)
               \/ ReadFails(w) \/ RunCall(w) \/ WriteResponse(w)
    <3>1. UNCHANGED <<channel, acceptor, server, queued_connections, active_connections>>
      BY <2>1 DEF SpawnWorker, LockReceiver, CheckStop, ReadCall, ReadFails, RunCall, WriteResponse,
                  control, load
    <3>2. PICK s \in WorkerStates \ {"received", "returned"} :
            /\ worker' = [worker EXCEPT ![w] = s] /\ worker[w] # "received"
            /\ worker[w] \in Busy <=> s \in Busy
      BY <2>1 DEF SpawnWorker, LockReceiver, CheckStop, ReadCall, ReadFails, RunCall, WriteResponse,
                  WorkerTo, WorkerStates, Busy
    <3> QED BY <3>1, <3>2, QuietMove
  <2>2. CASE TakeConnection(w) /\ channel # <<>>
    <3>1. /\ worker' = [worker EXCEPT ![w] = "received"] /\ worker[w] = "recv"
          /\ channel' = Tail(channel)
          /\ UNCHANGED <<acceptor, server, queued_connections, active_connections>>
      BY <2>2 DEF TakeConnection, WorkerTo, control, load
    <3>2. /\ Cardinality(Receiving') = received + 1
          /\ Cardinality(Working') = busy
          /\ worker' \in [Workers -> WorkerStates]
      <4>1. Receiving' = Receiving \cup {w} /\ w \notin Receiving
        BY <1>type, <3>1 DEF Receiving
      <4>2. Working' = Working
        BY <1>type, <3>1 DEF Working, Busy
      <4>3. worker' \in [Workers -> WorkerStates]
        BY <1>type, <3>1 DEF WorkerStates
      <4> QED BY <1>type, <4>1, <4>2, <4>3, FS_AddElement
    <3>3. channel' \in Seq(Calls) /\ Len(channel') = Len(channel) - 1
      BY <2>2, <3>1, <1>type, SMTT(30)
    <3>4. \A v \in Workers : worker'[v] = "returned" => worker[v] = "returned"
      BY <3>1, <1>type
    <3>5. Counted' = Counted
      BY <3>1 DEF Counted
    <3> QED BY <3>1, <3>2, <3>3, <3>4, <3>5, <1>type, SMTT(30) DEF RpcInv
  <2>3. CASE TakeConnection(w) /\ channel = <<>>
    <3>1. /\ worker' = [worker EXCEPT ![w] = "returned"] /\ worker[w] = "recv" /\ ~SenderAlive
          /\ UNCHANGED <<acceptor, server, channel, queued_connections, active_connections>>
      BY <2>3 DEF TakeConnection, WorkerTo, control, load
    <3>2. /\ Cardinality(Receiving') = received
          /\ Cardinality(Working') = busy
          /\ worker' \in [Workers -> WorkerStates]
      <4>1. Receiving' = Receiving
        BY <1>type, <3>1 DEF Receiving
      <4>2. Working' = Working
        BY <1>type, <3>1 DEF Working, Busy
      <4>3. worker' \in [Workers -> WorkerStates]
        BY <1>type, <3>1 DEF WorkerStates
      <4> QED BY <1>type, <4>1, <4>2, <4>3
    <3> QED BY <3>1, <3>2, <1>type DEF RpcInv, Counted, SenderAlive
  <2>4. CASE UncountQueued(w)
    <3>1. /\ worker' = [worker EXCEPT ![w] = "check"] /\ worker[w] = "received"
          /\ queued_connections' = queued_connections - 1
          /\ UNCHANGED <<acceptor, server, channel, active_connections>>
      BY <2>4 DEF UncountQueued, WorkerTo, control
    <3>2. /\ Cardinality(Receiving') = received - 1
          /\ Cardinality(Working') = busy
          /\ worker' \in [Workers -> WorkerStates]
      <4>1. Receiving' = Receiving \ {w} /\ w \in Receiving
        BY <1>type, <3>1 DEF Receiving
      <4>2. Working' = Working
        BY <1>type, <3>1 DEF Working, Busy
      <4>3. worker' \in [Workers -> WorkerStates]
        BY <1>type, <3>1 DEF WorkerStates
      <4> QED BY <1>type, <4>1, <4>2, <4>3, FS_RemoveElement
    <3>3. \A v \in Workers : worker'[v] = "returned" => worker[v] = "returned"
      BY <3>1, <1>type
    <3> QED BY <3>1, <3>2, <3>3, <1>type, SMTT(30) DEF RpcInv, Counted
  <2>5. CASE CountActive(w)
    <3>1. /\ worker' = [worker EXCEPT ![w] = "read"] /\ worker[w] = "admit"
          /\ active_connections' = active_connections + 1
          /\ UNCHANGED <<acceptor, server, channel, queued_connections>>
      BY <2>5 DEF CountActive, WorkerTo, control
    <3>2. /\ Cardinality(Receiving') = received
          /\ Cardinality(Working') = busy + 1
          /\ worker' \in [Workers -> WorkerStates]
      <4>1. Receiving' = Receiving
        BY <1>type, <3>1 DEF Receiving
      <4>2. Working' = Working \cup {w} /\ w \notin Working
        BY <1>type, <3>1 DEF Working, Busy
      <4>3. worker' \in [Workers -> WorkerStates]
        BY <1>type, <3>1 DEF WorkerStates
      <4> QED BY <1>type, <4>1, <4>2, <4>3, FS_AddElement
    <3>3. \A v \in Workers : worker'[v] = "returned" => worker[v] = "returned"
      BY <3>1, <1>type
    <3> QED BY <3>1, <3>2, <3>3, <1>type DEF RpcInv, Counted
  <2>6. CASE UncountActive(w)
    <3>1. /\ worker' = [worker EXCEPT ![w] = "lock"] /\ worker[w] = "done"
          /\ active_connections' = active_connections - 1
          /\ UNCHANGED <<acceptor, server, channel, queued_connections>>
      BY <2>6 DEF UncountActive, WorkerTo, control
    <3>2. /\ Cardinality(Receiving') = received
          /\ Cardinality(Working') = busy - 1
          /\ worker' \in [Workers -> WorkerStates]
      <4>1. Receiving' = Receiving
        BY <1>type, <3>1 DEF Receiving
      <4>2. Working' = Working \ {w} /\ w \in Working
        BY <1>type, <3>1 DEF Working, Busy
      <4>3. worker' \in [Workers -> WorkerStates]
        BY <1>type, <3>1 DEF WorkerStates
      <4> QED BY <1>type, <4>1, <4>2, <4>3, FS_RemoveElement
    <3>3. \A v \in Workers : worker'[v] = "returned" => worker[v] = "returned"
      BY <3>1, <1>type
    <3> QED BY <3>1, <3>2, <3>3, <1>type DEF RpcInv, Counted
  <2> QED BY <1>7, <2>1, <2>2, <2>3, <2>4, <2>5, <2>6 DEF WorkerNext
<1>8. CASE \/ SpawnFails \/ StartFailed \/ StopServer \/ JoinAcceptor \/ JoinWorkers
           \/ \E c \in Calls : Connect(c) \/ CallFails(c)
  <2>1. UNCHANGED <<channel, acceptor, worker, load>> /\ (server' = "starting" => server = "starting")
    BY <1>8 DEF SpawnFails, StartFailed, StopServer, JoinAcceptor, JoinWorkers, Connect, CallFails,
                control, workers, load
  <2> QED BY <2>1, <1>1
<1>9. CASE UNCHANGED rpcVars
  <2>1. UNCHANGED <<channel, acceptor, worker, load>> /\ (server' = "starting" => server = "starting")
    BY <1>9 DEF rpcVars, control, workers, load
  <2> QED BY <2>1, <1>1
<1> QED
  BY <1>2, <1>3, <1>4, <1>5, <1>6, <1>7, <1>8, <1>9 DEF RpcNext, AcceptorNext

\* The load a node reports counts exactly the connections that wait and those
\* in work, at every step of every thread.
THEOREM LoadAlwaysExact == RpcSpec => []LoadExact
BY RpcInvInit, RpcInvStep, RpcInvImplies, PTL DEF RpcSpec

\* While the acceptor runs no worker returns, so that no accepted connection
\* meets a channel without receivers.
THEOREM AcceptorHasWorkers == RpcSpec => []WorkersOutliveAcceptor
BY RpcInvInit, RpcInvStep, RpcInvImplies, PTL DEF RpcSpec

-----------------------------------------------------------------------------
(* What a stopped server leaves behind *)

Links == {"none", "backlog", "open", "closed"}
Phases == {"starting", "serving", "failing", "failed", "joining_acceptor",
           "joining_workers", "stopped"}
Over == {"stopped", "failed"}
Holding == {"received", "check", "admit", "read", "run", "ok", "fatal"}

\* What each phase of start and stop has already seen: who was spawned, who has
\* returned, and a channel that is empty before the acceptor and after it.
PhaseInv ==
  /\ server \in Phases
  /\ server \in {"joining_workers", "stopped"} => acceptor[1] = "returned"
  /\ server \in {"failing", "failed"} => acceptor[1] = "unborn"
  /\ server \in Phases \ {"starting", "failing", "failed"} =>
       \A w \in Workers : worker[w] # "unborn"
  /\ acceptor[1] = "unborn" => channel = <<>>
  /\ \A w \in Workers : worker[w] = "returned" => channel = <<>>
  /\ server \in Over => AllReturned

\* The acceptor, the channel or a worker has the connection.
Held(c) ==
  \/ acceptor[1] = "counted" /\ acceptor[2] = c
  \/ \E i \in 1..Len(channel) : channel[i] = c
  \/ \E w \in Workers : worker[w] \in Holding /\ stream[w] = c

\* An open connection is in somebody's hands, one that waits to be accepted
\* has a listener.
LinkInv ==
  /\ link \in [Calls -> Links]
  /\ stream \in [Workers -> Calls \cup {Nobody}]
  /\ \A c \in Calls : link[c] = "open" => Held(c)
  /\ \A c \in Calls : link[c] = "backlog" => Listening

LEMMA QuietImplied ==
  ASSUME RpcInv, PhaseInv, LinkInv
  PROVE  QuietWhenStopped
<1> SUFFICES ASSUME server \in Over
             PROVE  /\ \A c \in Calls : link[c] \in {"none", "closed"}
                    /\ channel = <<>> /\ queued_connections = 0 /\ active_connections = 0
  BY DEF QuietWhenStopped, Over
<1>1. \A w \in Workers : worker[w] \in {"unborn", "returned"}
  BY DEF PhaseInv, AllReturned
<1>2. acceptor[1] \in {"unborn", "returned"}
  BY DEF PhaseInv, Over
<1>3. channel = <<>>
  <2>1. CASE server = "failed"
    BY <2>1 DEF PhaseInv
  <2>2. CASE server = "stopped"
    <3>1. PICK w \in Workers : TRUE
      BY RpcAssumption
    <3>2. worker[w] # "unborn"
      BY <2>2 DEF PhaseInv, Phases
    <3> QED
      BY <1>1, <3>2 DEF PhaseInv
  <2> QED
    BY <2>1, <2>2 DEF Over
<1>4. Receiving = {} /\ Working = {}
  BY <1>1 DEF Receiving, Working, Busy
<1>5. Counted = 0
  BY <1>2 DEF Counted
<1>6. Len(channel) = 0 /\ 1..Len(channel) = {}
  BY <1>3, SMTT(30)
<1>7. queued_connections = 0 /\ active_connections = 0
  BY <1>4, <1>5, <1>6, FS_EmptySet, SMTT(30) DEF RpcInv
<1>8. ~Listening
  BY <1>2 DEF Over, Listening, SenderAlive
<1>9. \A c \in Calls : ~Held(c)
  BY <1>1, <1>2, <1>6 DEF Held, Holding
<1> QED
  BY <1>3, <1>7, <1>8, <1>9 DEF LinkInv, Links

LEMMA PhaseInit == RpcInit => PhaseInv /\ LinkInv
<1> SUFFICES ASSUME RpcInit PROVE PhaseInv /\ LinkInv
  OBVIOUS
<1>1. PhaseInv
  BY DEF RpcInit, PhaseInv, Phases, Over
<1>2. link \in [Calls -> Links] /\ \A c \in Calls : link[c] = "none"
  BY DEF RpcInit, Links
<1>3. stream \in [Workers -> Calls \cup {Nobody}]
  BY DEF RpcInit
<1> QED
  BY <1>1, <1>2, <1>3 DEF LinkInv

\* A worker that moves on without ending, and without spawning.
LEMMA PhaseWorker ==
  ASSUME RpcInv, PhaseInv, NEW w \in Workers,
         NEW s \in WorkerStates \ {"unborn", "returned"},
         worker' = [worker EXCEPT ![w] = s], worker[w] \notin {"unborn", "returned"},
         UNCHANGED <<server, acceptor>>, channel = <<>> => channel' = <<>>
  PROVE  PhaseInv'
<1>1. /\ worker'[w] = s
      /\ \A v \in Workers : v # w => worker'[v] = worker[v]
  BY DEF RpcInv
<1>2. server \notin Over
  BY DEF PhaseInv, AllReturned
<1> QED
  BY <1>1, <1>2 DEF PhaseInv

LEMMA PhaseStep ==
  ASSUME RpcInv, PhaseInv, [RpcNext]_rpcVars
  PROVE  PhaseInv'
<1>1. CASE UNCHANGED <<server, acceptor, channel, worker>>
  BY <1>1 DEF PhaseInv, AllReturned
<1>2. ASSUME NEW w \in Workers, SpawnWorker(w)
      PROVE  PhaseInv'
  <2>1. /\ server = "starting" /\ worker' = [worker EXCEPT ![w] = "lock"]
        /\ UNCHANGED <<server, acceptor, channel>>
    BY <1>2 DEF SpawnWorker, WorkerTo, control
  <2>2. \A v \in Workers : worker'[v] = "returned" => worker[v] = "returned"
    BY <2>1 DEF RpcInv
  <2> QED
    BY <2>1, <2>2 DEF PhaseInv, Over, Phases
<1>3. ASSUME NEW w \in Workers, WorkerNext(w)
      PROVE  PhaseInv'
  <2>1. UNCHANGED <<server, acceptor>>
    BY <1>3 DEF WorkerNext, LockReceiver, TakeConnection, UncountQueued, CheckStop, CountActive,
                ReadCall, ReadFails, RunCall, WriteResponse, UncountActive, control
  <2>2. worker[w] \notin {"unborn", "returned"}
    BY <1>3 DEF WorkerNext, LockReceiver, TakeConnection, UncountQueued, CheckStop, CountActive,
                ReadCall, ReadFails, RunCall, WriteResponse, UncountActive
  <2>3. CASE TakeConnection(w) /\ channel = <<>>
    <3>1. worker' = [worker EXCEPT ![w] = "returned"] /\ channel' = <<>> /\ channel = <<>>
      BY <2>3 DEF TakeConnection, WorkerTo
    <3>2. \A v \in Workers : worker'[v] = "unborn" => worker[v] = "unborn"
      BY <3>1 DEF RpcInv
    <3>3. server \notin Over
      BY <2>2 DEF PhaseInv, AllReturned
    <3> QED
      BY <2>1, <3>1, <3>2, <3>3 DEF PhaseInv
  <2>4. CASE ~(TakeConnection(w) /\ channel = <<>>)
    <3>1. channel = <<>> => channel' = <<>>
      BY <1>3, <2>4 DEF WorkerNext, LockReceiver, TakeConnection, UncountQueued, CheckStop, CountActive,
                ReadCall, ReadFails, RunCall, WriteResponse, UncountActive
    <3>2. PICK s \in WorkerStates \ {"unborn", "returned"} : worker' = [worker EXCEPT ![w] = s]
      BY <1>3, <2>4 DEF WorkerNext, LockReceiver, TakeConnection, UncountQueued, CheckStop, CountActive,
                ReadCall, ReadFails, RunCall, WriteResponse, UncountActive, WorkerTo, WorkerStates
    <3> QED
      BY <2>1, <2>2, <3>1, <3>2, PhaseWorker
  <2> QED
    BY <2>3, <2>4
<1>4. CASE \/ SpawnAcceptor \/ SpawnFails \/ StartFailed \/ StopServer \/ JoinAcceptor \/ JoinWorkers
  <2>1. UNCHANGED <<channel, worker>>
    BY <1>4 DEF SpawnAcceptor, SpawnFails, StartFailed, StopServer, JoinAcceptor, JoinWorkers, workers
  <2>2. CASE SpawnAcceptor
    BY <2>1, <2>2 DEF SpawnAcceptor, PhaseInv, RpcInv, Phases, Over
  <2>3. CASE SpawnFails
    BY <2>1, <2>3 DEF SpawnFails, PhaseInv, RpcInv, Phases, Over
  <2>4. CASE StartFailed
    BY <2>1, <2>4 DEF StartFailed, PhaseInv, AllReturned, Phases, Over
  <2>5. CASE StopServer
    BY <2>1, <2>5 DEF StopServer, PhaseInv, Phases, Over
  <2>6. CASE JoinAcceptor
    BY <2>1, <2>6 DEF JoinAcceptor, PhaseInv, Phases, Over
  <2>7. CASE JoinWorkers
    BY <2>1, <2>7 DEF JoinWorkers, PhaseInv, AllReturned, Phases, Over
  <2> QED
    BY <1>4, <2>2, <2>3, <2>4, <2>5, <2>6, <2>7
<1>5. CASE AcceptorNext
  <2>1. UNCHANGED <<server, worker>>
    BY <1>5 DEF AcceptorNext, AcceptorStops, AcceptFails, AcceptConnection, SendConnection,
                RefuseConnection, control, workers
  <2>2. acceptor[1] \in {"top", "counted"}
    BY <1>5 DEF AcceptorNext, AcceptorStops, AcceptFails, AcceptConnection, SendConnection,
                RefuseConnection
  <2>3. acceptor'[1] # "unborn"
    BY <1>5, SMTT(30) DEF AcceptorNext, AcceptorStops, AcceptFails, AcceptConnection, SendConnection,
                          RefuseConnection
  <2>4. /\ server \notin Over \cup {"joining_workers", "failing"}
        /\ \A w \in Workers : worker[w] # "returned"
    BY <2>2 DEF PhaseInv, RpcInv, Over
  <2> QED
    BY <2>1, <2>3, <2>4 DEF PhaseInv, Over
<1>6. CASE (\E c \in Calls : Connect(c) \/ CallFails(c)) \/ UNCHANGED rpcVars
  BY <1>1, <1>6 DEF Connect, CallFails, rpcVars, control, workers
<1> QED
  BY <1>2, <1>3, <1>4, <1>5, <1>6 DEF RpcNext

\* A worker that keeps what it has.
LEMMA LinkQuiet ==
  ASSUME RpcInv, LinkInv, NEW w \in Workers, NEW s \in WorkerStates,
         worker' = [worker EXCEPT ![w] = s], worker[w] \in Holding => s \in Holding,
         UNCHANGED <<link, stream, acceptor, channel, server>>
  PROVE  LinkInv'
<1>1. \A v \in Workers : worker[v] \in Holding => worker'[v] \in Holding
  BY DEF RpcInv
<1>2. \A c \in Calls : Held(c) => Held(c)'
  BY <1>1 DEF Held
<1>3. Listening' = Listening
  BY DEF Listening, SenderAlive
<1> QED
  BY <1>2, <1>3 DEF LinkInv

\* A worker that lets go of its connection.
LEMMA LinkReleased ==
  ASSUME RpcInv, LinkInv, NEW w \in Workers, NEW s \in WorkerStates,
         worker' = [worker EXCEPT ![w] = s], Release(w),
         UNCHANGED <<acceptor, channel, server>>
  PROVE  LinkInv'
<1>1. /\ link' \in [Calls -> Links] /\ stream' \in [Workers -> Calls \cup {Nobody}]
      /\ \A c \in Calls : c # stream[w] => link'[c] = link[c]
      /\ stream[w] \in Calls => link'[stream[w]] = "closed"
  BY DEF LinkInv, Release, Links
<1>2. \A v \in Workers : v # w => worker'[v] = worker[v] /\ stream'[v] = stream[v]
  BY DEF RpcInv, LinkInv, Release
<1>3. \A c \in Calls : Held(c) /\ c # stream[w] => Held(c)'
  BY <1>2 DEF Held
<1>4. Listening' = Listening
  BY DEF Listening, SenderAlive
<1> QED
  BY <1>1, <1>3, <1>4 DEF LinkInv

LEMMA LinkWorker ==
  ASSUME RpcInv, LinkInv, NEW w \in Workers, SpawnWorker(w) \/ WorkerNext(w)
  PROVE  LinkInv'
<1>1. CASE \/ SpawnWorker(w) \/ LockReceiver(w) \/ UncountQueued(w) \/ CountActive(w) \/ ReadCall(w)
           \/ RunCall(w) \/ UncountActive(w) \/ (CheckStop(w) /\ ~stopping)
           \/ (TakeConnection(w) /\ channel = <<>>)
  <2>1. UNCHANGED <<link, stream, acceptor, channel, server>>
    BY <1>1 DEF SpawnWorker, LockReceiver, UncountQueued, CountActive, ReadCall, RunCall,
                UncountActive, CheckStop, TakeConnection, peers, control
  <2>2. PICK s \in WorkerStates : worker' = [worker EXCEPT ![w] = s] /\ (worker[w] \in Holding => s \in Holding)
    BY <1>1 DEF SpawnWorker, LockReceiver, UncountQueued, CountActive, ReadCall, RunCall,
                UncountActive, CheckStop, TakeConnection, WorkerTo, WorkerStates, Holding
  <2> QED
    BY <2>1, <2>2, LinkQuiet
<1>2. CASE \/ ReadFails(w) \/ WriteResponse(w) \/ (CheckStop(w) /\ stopping)
  <2>1. Release(w) /\ UNCHANGED <<acceptor, channel, server>>
    BY <1>2 DEF ReadFails, WriteResponse, CheckStop, control
  <2>2. PICK s \in WorkerStates : worker' = [worker EXCEPT ![w] = s]
    BY <1>2 DEF ReadFails, WriteResponse, CheckStop, WorkerTo, WorkerStates
  <2> QED
    BY <2>1, <2>2, LinkReleased
<1>3. CASE TakeConnection(w) /\ channel # <<>>
  <2>1. /\ worker[w] = "recv" /\ worker' = [worker EXCEPT ![w] = "received"]
        /\ stream' = [stream EXCEPT ![w] = Head(channel)] /\ channel' = Tail(channel)
        /\ UNCHANGED <<link, acceptor, server>>
    BY <1>3 DEF TakeConnection, WorkerTo, peers, control
  <2>2. /\ Head(channel) \in Calls
        /\ \A i \in 1..Len(channel) :
             \/ channel[i] = Head(channel)
             \/ \E j \in 1..Len(channel') : channel'[j] = channel[i]
    <3>1. /\ Head(channel) = channel[1] /\ Len(channel) \in Nat /\ Len(channel) > 0
          /\ Len(channel') = Len(channel) - 1
          /\ \A j \in 1..Len(channel') : channel'[j] = channel[j + 1]
          /\ \A i \in 1..Len(channel) : channel[i] \in Calls
      BY <1>3, <2>1, SMTT(30) DEF RpcInv
    <3>2. Head(channel) \in Calls
      BY <3>1, SMTT(30)
    <3>3. ASSUME NEW i \in 1..Len(channel), i # 1
          PROVE  i - 1 \in 1..Len(channel') /\ channel'[i - 1] = channel[i]
      BY <3>1, <3>3, SMTT(30)
    <3> QED
      BY <3>1, <3>2, <3>3
  <2>3. /\ worker'[w] = "received" /\ stream'[w] = Head(channel)
        /\ \A v \in Workers : v # w => worker'[v] = worker[v] /\ stream'[v] = stream[v]
    BY <2>1 DEF RpcInv, LinkInv
  <2>4. ASSUME NEW c \in Calls, Held(c)
        PROVE  Held(c)'
    <3>1. CASE acceptor[1] = "counted" /\ acceptor[2] = c
      BY <2>1, <3>1 DEF Held
    <3>2. CASE c = Head(channel)
      BY <2>3, <3>2 DEF Held, Holding
    <3>3. ASSUME NEW i \in 1..Len(channel), channel[i] = c, c # Head(channel)
          PROVE  Held(c)'
      BY <2>2, <3>3 DEF Held
    <3>4. ASSUME NEW v \in Workers, worker[v] \in Holding, stream[v] = c
          PROVE  Held(c)'
      <4>1. v # w
        BY <2>1, <3>4 DEF Holding
      <4> QED
        BY <2>3, <3>4, <4>1 DEF Held
    <3> QED
      BY <2>4, <3>1, <3>2, <3>3, <3>4 DEF Held
  <2>5. Listening' = Listening
    BY <2>1 DEF Listening, SenderAlive
  <2>6. stream' \in [Workers -> Calls \cup {Nobody}]
    BY <2>1, <2>2 DEF LinkInv
  <2> QED
    BY <2>1, <2>4, <2>5, <2>6 DEF LinkInv
<1> QED
  BY <1>1, <1>2, <1>3 DEF WorkerNext

LEMMA LinkAcceptor ==
  ASSUME RpcInv, LinkInv, AcceptorNext
  PROVE  LinkInv'
<1>1. UNCHANGED <<server, worker, stream>>
  BY DEF AcceptorNext, AcceptorStops, AcceptFails, AcceptConnection, SendConnection,
         RefuseConnection, control, workers
<1>2. CASE AcceptorStops \/ AcceptFails
  <2>1. /\ CloseBacklog /\ acceptor[1] = "top" /\ UNCHANGED channel
    BY <1>2 DEF AcceptorStops, AcceptFails
  <2>2. \A c \in Calls : Held(c) => Held(c)'
    BY <1>1, <2>1 DEF Held
  <2>3. /\ link' \in [Calls -> Links]
        /\ \A c \in Calls : link'[c] = "open" => link[c] = "open"
        /\ \A c \in Calls : link'[c] # "backlog"
    BY <2>1 DEF LinkInv, CloseBacklog, Links
  <2> QED
    BY <1>1, <2>2, <2>3 DEF LinkInv
<1>3. ASSUME NEW c \in Calls, AcceptConnection(c)
      PROVE  LinkInv'
  <2>1. /\ acceptor[1] = "top" /\ acceptor' = <<"counted", c>>
        /\ link' = [link EXCEPT ![c] = "open"] /\ UNCHANGED channel
    BY <1>3 DEF AcceptConnection
  <2>2. \A d \in Calls : Held(d) => Held(d)'
    BY <1>1, <2>1 DEF Held
  <2>3. Held(c)' /\ Listening'
    BY <2>1 DEF Held, Listening, SenderAlive
  <2>4. link' \in [Calls -> Links] /\ \A d \in Calls : d # c => link'[d] = link[d]
    BY <2>1 DEF LinkInv, Links
  <2> QED
    BY <1>1, <2>2, <2>3, <2>4 DEF LinkInv
<1>4. CASE SendConnection
  <2>1. /\ acceptor[1] = "counted" /\ acceptor' = <<"top", Nobody>>
        /\ channel' = Append(channel, acceptor[2]) /\ UNCHANGED link
    BY <1>4 DEF SendConnection, peers
  <2>2. /\ \A i \in 1..Len(channel) : i \in 1..Len(channel') /\ channel'[i] = channel[i]
        /\ Len(channel') \in 1..Len(channel') /\ channel'[Len(channel')] = acceptor[2]
    BY <2>1, SMTT(30) DEF RpcInv
  <2>3. \A c \in Calls : Held(c) => Held(c)'
    BY <1>1, <2>1, <2>2 DEF Held
  <2>4. Listening'
    BY <2>1 DEF Listening, SenderAlive
  <2> QED
    BY <1>1, <2>1, <2>3, <2>4 DEF LinkInv
<1>5. CASE RefuseConnection
  <2>1. /\ acceptor[1] = "counted" /\ acceptor' = <<"top", Nobody>>
        /\ link' = [link EXCEPT ![acceptor[2]] = "closed"] /\ UNCHANGED channel
    BY <1>5 DEF RefuseConnection
  <2>2. \A c \in Calls : c # acceptor[2] /\ Held(c) => Held(c)'
    BY <1>1, <2>1 DEF Held
  <2>3. Listening'
    BY <2>1 DEF Listening, SenderAlive
  <2>4. /\ link' \in [Calls -> Links] /\ \A c \in Calls : c # acceptor[2] => link'[c] = link[c]
        /\ acceptor[2] \in Calls /\ link'[acceptor[2]] = "closed"
    BY <2>1 DEF LinkInv, RpcInv, Links
  <2> QED
    BY <1>1, <2>2, <2>3, <2>4 DEF LinkInv
<1> QED
  BY <1>2, <1>3, <1>4, <1>5 DEF AcceptorNext

LEMMA LinkStep ==
  ASSUME RpcInv, PhaseInv, LinkInv, [RpcNext]_rpcVars
  PROVE  LinkInv'
<1>1. ASSUME UNCHANGED <<link, channel, worker, stream>>,
             acceptor[1] = "counted" => UNCHANGED acceptor, Listening => Listening'
      PROVE  LinkInv'
  <2>1. \A c \in Calls : Held(c) => Held(c)'
    BY <1>1 DEF Held
  <2> QED
    BY <1>1, <2>1 DEF LinkInv
<1>2. CASE SpawnAcceptor \/ SpawnFails \/ StopServer \/ JoinAcceptor \/ JoinWorkers
  <2>1. UNCHANGED <<link, channel, worker, stream>>
    BY <1>2 DEF SpawnAcceptor, SpawnFails, StopServer, JoinAcceptor, JoinWorkers, workers, peers
  <2>2. acceptor[1] = "counted" => UNCHANGED acceptor
    BY <1>2 DEF SpawnAcceptor, SpawnFails, StopServer, JoinAcceptor, JoinWorkers, RpcInv
  <2>3. Listening => Listening'
    BY <1>2, SMTT(30) DEF SpawnAcceptor, SpawnFails, StopServer, JoinAcceptor, JoinWorkers, Listening,
                          SenderAlive
  <2> QED
    BY <1>1, <2>1, <2>2, <2>3
<1>3. CASE StartFailed
  <2>1. CloseBacklog /\ UNCHANGED <<acceptor, channel, worker, stream>>
    BY <1>3 DEF StartFailed, workers
  <2>2. \A c \in Calls : Held(c) => Held(c)'
    BY <2>1 DEF Held
  <2>3. /\ link' \in [Calls -> Links]
        /\ \A c \in Calls : link'[c] = "open" => link[c] = "open"
        /\ \A c \in Calls : link'[c] # "backlog"
    BY <2>1 DEF LinkInv, CloseBacklog, Links
  <2> QED
    BY <2>1, <2>2, <2>3 DEF LinkInv
<1>4. ASSUME NEW c \in Calls, Connect(c)
      PROVE  LinkInv'
  <2>1. UNCHANGED <<server, acceptor, channel, worker, stream>>
    BY <1>4 DEF Connect, control, workers
  <2>2. Listening' = Listening /\ \A d \in Calls : Held(d)' = Held(d)
    BY <2>1 DEF Listening, SenderAlive, Held
  <2>3. CASE Listening
    <3>1. link' = [link EXCEPT ![c] = "backlog"]
      BY <1>4, <2>3 DEF Connect
    <3>2. link' \in [Calls -> Links] /\ \A d \in Calls : link'[d] = "open" => link[d] = "open"
      BY <3>1 DEF LinkInv, Links
    <3> QED
      BY <2>1, <2>2, <2>3, <3>2 DEF LinkInv
  <2>4. CASE ~Listening
    BY <1>4, <2>1, <2>2, <2>4 DEF Connect, LinkInv
  <2> QED
    BY <2>3, <2>4
<1>5. CASE (\E c \in Calls : CallFails(c)) \/ UNCHANGED rpcVars
  BY <1>1, <1>5 DEF CallFails, rpcVars, peers, control, workers, Listening, SenderAlive
<1> QED
  BY <1>2, <1>3, <1>4, <1>5, LinkWorker, LinkAcceptor DEF RpcNext

\* When stop, or a start that failed half-way, returns, and from then on, every
\* connection is closed, no worker is inside the engine and the load is zero.
THEOREM StoppedServerQuiet == RpcSpec => []QuietWhenStopped
<1>1. RpcInv /\ PhaseInv /\ LinkInv => QuietWhenStopped
  BY QuietImplied
<1>2. RpcInv /\ PhaseInv /\ LinkInv /\ [RpcNext]_rpcVars => RpcInv' /\ PhaseInv' /\ LinkInv'
  BY RpcInvStep, PhaseStep, LinkStep
<1> QED
  BY <1>1, <1>2, RpcInvInit, PhaseInit, PTL DEF RpcSpec

-----------------------------------------------------------------------------
(* The routing of a call: what is proved of its pieces *)

Kinds == {"none", "ok", "unknown", "committed", "rejected", "transport", "protocol",
          "InvalidOperationsResponse", "NoWriteReadyLeader", "MultipleWriteReadyLeaders"}
Statuses == {"travelling", "submitted", "doomed", "settled"}
Verdicts == {"unprobed", "absent", "ready", "invalid"}
Places == {"start", "chosen", "waiting", "returned"}
Owners == {Us, Rival, Former}
Replies == [kind : Kinds, value : Nat]
Posts == [node : 0..3, status : Statuses, reply : Replies, sequence : {1}]
Grants == SUBSET (Owners \X Nat)
SessionRecords ==
  [epoch : Nat, owner : Owners, sequence : Nat, outcome : Replies, runs : Nat,
   granted : Grants]
Routings ==
  [pc : Places, attempt : Nat, verdicts : [RouterNodes -> Verdicts],
   reporters : SUBSET RouterNodes, target : 0..3, heard : Seq(Replies),
   result : Replies]

\* Every post carries the one serialization of the frame.
RouterTypes ==
  /\ setup.broker \in [RouterNodes -> 0..3]
  /\ leader \in RouterNodes /\ claimants \subseteq RouterNodes
  /\ session \in SessionRecords /\ posts \in Seq(Posts) /\ router \in Routings

\* The session executes the frame once, and gives an epoch to one process.
SessionOK ==
  /\ session.runs \in {0, 1}
  /\ session.epoch = 0 => session.runs = 0
  /\ session.epoch = 1 => session.sequence = session.runs
  /\ \A g, h \in session.granted : g[2] = h[2] => g[1] = h[1]
  /\ \A g \in session.granted :
       g[2] <= session.epoch /\ (g[2] = session.epoch => g[1] = session.owner)

\* What a successful answer claims.
Sound(answer_) ==
  IF setup.kind = "owned"
  THEN session.runs = 1 /\ (session.epoch = 1 => session.outcome = answer_)
  ELSE <<Us, answer_.value>> \in session.granted

AnswersOK ==
  /\ \A i \in 1..Len(posts) : posts[i].reply.kind = "ok" => Sound(posts[i].reply)
  /\ router.result.kind = "ok" => Sound(router.result)
  /\ router.pc # "returned" => router.result = NoAnswer
  /\ router.pc = "waiting" => Len(posts) > 0

\* While nobody has answered nonsense, those who reported write-readiness are
\* those with a verdict "ready".
ProbesOK ==
  router.pc = "start" =>
    /\ \A n \in RouterNodes : router.verdicts[n] = "ready" => n \in router.reporters
    /\ \A n \in router.reporters : router.verdicts[n] = "ready" \/ Voted("invalid") # {}

HeardOK ==
  \A i \in 1..Len(router.heard) :
    router.heard[i] \notin Ambiguous =>
      /\ i = Len(router.heard)
      /\ router.pc = "returned" /\ router.result = router.heard[i]

TargetOK == router.pc \in {"chosen", "waiting"} => router.reporters = {router.target}

RouterInv ==
  RouterTypes /\ SessionOK /\ AnswersOK /\ ProbesOK /\ HeardOK /\ TargetOK

LEMMA RouterInvImplies == RouterInv => RoutedOnce /\ FramesJustified
<1> SUFFICES ASSUME RouterInv PROVE RoutedOnce /\ FramesJustified
  OBVIOUS
<1>1. session.runs <= 1
  BY SMTT(30) DEF RouterInv, SessionOK
<1>2. ASSUME router.pc = "returned", router.result.kind = "ok", setup.kind = "owned"
      PROVE  session.runs = 1 /\ (session.epoch = 1 => session.outcome = router.result)
  BY <1>2 DEF RouterInv, AnswersOK, Sound
<1>3. ASSUME router.pc = "returned", router.result.kind = "ok", setup.kind # "owned"
      PROVE  /\ <<Us, router.result.value>> \in session.granted
             /\ <<Rival, router.result.value>> \notin session.granted
  <2>1. <<Us, router.result.value>> \in session.granted
    BY <1>3 DEF RouterInv, AnswersOK, Sound
  <2>2. <<Rival, router.result.value>> \in session.granted => Us = Rival
    BY <2>1, SMTT(30) DEF RouterInv, SessionOK
  <2> QED
    BY <2>1, <2>2 DEF Us, Rival
<1>4. RoutedOnce
  BY <1>1, <1>2, <1>3 DEF RoutedOnce
<1>5. DOMAIN router.heard = 1..Len(router.heard)
  BY SMTT(30) DEF RouterInv, RouterTypes, Routings
<1> QED
  BY <1>4, <1>5 DEF RouterInv, HeardOK, TargetOK, FramesJustified

\* The answers, and which of them claim a success.
Failures == {"none", "unknown", "committed", "rejected", "transport", "protocol"}

LEMMA FrameAnswered ==
  /\ \A a \in {NoAnswer, BrokerUnknown, BrokerCommitted, BrokerRejected, TransportFailed,
               BrokeProtocol} : a \in Replies /\ a.kind # "ok"
  /\ \A n \in Nat : Ok(n) \in Replies /\ Ok(n).kind = "ok" /\ Ok(n).value = n
  /\ \A k \in Kinds : RoutingError(k) \in Replies /\ RoutingError(k).kind = k
<1>1. \A k \in Kinds : \A n \in Nat :
        /\ [kind |-> k, value |-> n] \in Replies
        /\ [kind |-> k, value |-> n].kind = k /\ [kind |-> k, value |-> n].value = n
  BY SMTT(30) DEF Replies
<1>2. /\ "ok" \in Kinds /\ Failures \subseteq Kinds /\ "ok" \notin Failures /\ 0 \in Nat
  BY SMTT(30) DEF Kinds, Failures
<1>3. \A a \in {NoAnswer, BrokerUnknown, BrokerCommitted, BrokerRejected, TransportFailed,
                BrokeProtocol} : \E k \in Failures : a = [kind |-> k, value |-> 0]
  BY DEF NoAnswer, BrokerUnknown, BrokerCommitted, BrokerRejected, TransportFailed,
     BrokeProtocol, Failures
<1>4. \A a \in {NoAnswer, BrokerUnknown, BrokerCommitted, BrokerRejected, TransportFailed,
                BrokeProtocol} : a \in Replies /\ a.kind # "ok"
  <2> TAKE a \in {NoAnswer, BrokerUnknown, BrokerCommitted, BrokerRejected, TransportFailed,
                  BrokeProtocol}
  <2>1. PICK k \in Failures : a = [kind |-> k, value |-> 0]
    BY <1>3
  <2>2. k \in Kinds /\ k # "ok"
    BY <1>2
  <2> QED
    BY <1>1, <1>2, <2>1, <2>2
<1>5. \A n \in Nat : Ok(n) \in Replies /\ Ok(n).kind = "ok" /\ Ok(n).value = n
  BY <1>1, <1>2 DEF Ok
<1>6. \A k \in Kinds : RoutingError(k) \in Replies /\ RoutingError(k).kind = k
  BY <1>1, <1>2 DEF RoutingError
<1> QED
  BY <1>4, <1>5, <1>6

LEMMA NoneFails == NoAnswer \in Replies /\ NoAnswer.kind # "ok"
BY FrameAnswered

LEMMA AnswersTyped == Answers \subseteq Replies
<1>1. 1..3 \subseteq Nat
  BY SMTT(30)
<1> QED
  BY <1>1, FrameAnswered DEF Answers

LEMMA RouterInvInit == RouterInit => RouterInv
<1> SUFFICES ASSUME RouterInit PROVE RouterInv
  OBVIOUS
<1>1. setup.broker \in [RouterNodes -> 0..3]
  <2>1. Wirings \subseteq [RouterNodes -> 0..3]
    <3>1. RightWiring \in [RouterNodes -> 0..3]
      BY SMTT(30) DEF RightWiring, RouterNodes
    <3>2. Stranger \in 0..3 /\ 1 \in 0..3 /\ 2 \in 0..3
      BY SMTT(30) DEF Stranger
    <3> QED
      BY <3>1, <3>2 DEF Wirings
  <2>2. setup.broker \in Wirings
    BY SMTT(30) DEF RouterInit
  <2> QED
    BY <2>1, <2>2
<1>2. leader \in RouterNodes /\ claimants \subseteq RouterNodes
  BY SMTT(30) DEF RouterInit, RouterNodes
<1>3. session \in SessionRecords /\ session.runs = 0 /\ session.sequence = 0 /\ session.granted = {}
  <2>1. session \in [epoch : 0..1, owner : {Us, Former}, sequence : {0}, outcome : {NoAnswer},
                     runs : {0}, granted : {{}}]
    BY DEF RouterInit
  <2> QED
    <3>1. {} \in Grants /\ NoAnswer \in Replies /\ {Us, Former} \subseteq Owners
      BY FrameAnswered DEF Grants, Owners
    <3> QED
      BY <2>1, <3>1, SMTT(30) DEF SessionRecords
<1>4. posts = << >> /\ posts \in Seq(Posts) /\ Len(posts) = 0 /\ 1..Len(posts) = {}
  BY SMTT(30) DEF RouterInit
<1>5. /\ router \in Routings /\ router.pc = "start" /\ router.reporters = {}
      /\ router.verdicts = Unprobed /\ Len(router.heard) = 0 /\ router.result = NoAnswer
  <2>1. Unprobed \in [RouterNodes -> Verdicts]
    BY DEF Unprobed, Verdicts
  <2>2. /\ 1 \in Nat /\ {} \subseteq RouterNodes /\ 0 \in 0..3
        /\ << >> \in Seq(Replies) /\ Len(<< >>) = 0
    BY SMTT(30)
  <2>3. "start" \in Places /\ NoAnswer \in Replies
    BY FrameAnswered DEF Places
  <2>4. router = [pc |-> "start", attempt |-> 1, verdicts |-> Unprobed, reporters |-> {},
                  target |-> 0, heard |-> << >>, result |-> NoAnswer]
    BY DEF RouterInit
  <2> QED
    BY <2>1, <2>2, <2>3, <2>4 DEF Routings
<1>6. \A n \in RouterNodes : router.verdicts[n] = "unprobed"
  BY <1>5 DEF Unprobed
<1>7. 1..Len(router.heard) = {}
  BY <1>5, SMTT(30)
<1>8. RouterTypes /\ SessionOK
  BY <1>1, <1>2, <1>3, <1>4, <1>5 DEF RouterTypes, SessionOK
<1>9. AnswersOK
  BY <1>4, <1>5, FrameAnswered DEF AnswersOK
<1> QED
  BY <1>5, <1>6, <1>7, <1>8, <1>9 DEF RouterInv, ProbesOK, HeardOK, TargetOK

-----------------------------------------------------------------------------
(* The session *)

\* The fields of the session.
LEMMA SessionFields ==
  ASSUME NEW s \in SessionRecords
  PROVE  /\ s.epoch \in Nat /\ s.owner \in Owners /\ s.granted \in Grants
         /\ s.runs \in Nat /\ s.runs + 1 \in Nat
BY SMTT(30) DEF SessionRecords

\* What a change of owner keeps: whether the frame was executed and, while the
\* epoch is one, with which outcome.
Kept ==
  /\ session'.runs = session.runs
  /\ session'.epoch = 1 /\ session.runs = 1 => session.epoch = 1 /\ session'.outcome = session.outcome

\* A session that was granted an epoch, or executed the frame, keeps what it
\* told the router.
LEMMA Granting ==
  ASSUME RouterInv, UNCHANGED setup, NEW instance \in Owners, NEW expected \in Nat,
         NEW answer_ \in Answers, AcquireOwnership(instance, expected, answer_)
  PROVE  /\ session' \in SessionRecords /\ SessionOK'
         /\ Kept
         /\ session.granted \subseteq session'.granted
         /\ answer_.kind = "ok" => <<instance, answer_.value>> \in session'.granted
<1>1. CASE UNCHANGED session /\ answer_ = BrokerRejected
  BY <1>1, FrameAnswered DEF RouterInv, RouterTypes, SessionOK, Kept
<1>2. ASSUME NEW e \in Nat, NEW seq \in Nat, NEW last \in Replies, answer_ = Ok(e),
             session' = [session EXCEPT !.epoch = e, !.owner = instance, !.sequence = seq,
                                        !.outcome = last, !.granted = @ \cup {<<instance, e>>}],
             e > session.epoch \/ (e = session.epoch /\ session.owner = instance),
             e # 0,
             e = 1 => \/ session.epoch = 0 /\ seq = 0
                      \/ session.epoch = 1 /\ seq = session.sequence /\ last = session.outcome
      PROVE  /\ session' \in SessionRecords /\ SessionOK'
             /\ Kept
             /\ session.granted \subseteq session'.granted
             /\ answer_.kind = "ok" => <<instance, answer_.value>> \in session'.granted
  <2>0. session \in SessionRecords
    BY DEF RouterInv, RouterTypes
  <2>1. /\ session.epoch \in Nat /\ session.owner \in Owners
        /\ session.granted \subseteq Owners \X Nat
    BY <2>0, SessionFields DEF Grants
  <2>g. session.granted \cup {<<instance, e>>} \in Grants
    <3>1. <<instance, e>> \in Owners \X Nat
      OBVIOUS
    <3> QED
      BY <2>1, <3>1 DEF Grants
  <2>2. /\ session'.epoch = e /\ session'.owner = instance
        /\ session'.granted = session.granted \cup {<<instance, e>>}
        /\ session'.runs = session.runs /\ session'.outcome = last
        /\ session'.sequence = seq
    BY <1>2, <2>0, <2>1, <2>g DEF SessionRecords
  <2>3. session' \in SessionRecords
    BY <1>2, <2>0, <2>1, <2>g DEF SessionRecords
  <2>4. \A g \in session.granted :
          /\ g[2] \in Nat /\ g[2] <= session.epoch
          /\ g[2] = session.epoch => g[1] = session.owner
    BY <2>1 DEF RouterInv, SessionOK
  <2>5. \A g \in session.granted : g[2] <= e /\ (g[2] = e => g[1] = instance)
    BY <1>2, <2>1, <2>4, SMTT(30)
  <2>6. <<instance, e>>[1] = instance /\ <<instance, e>>[2] = e /\ e <= e
    BY SMTT(30)
  <2>7. \A g \in session'.granted : g[2] <= e /\ (g[2] = e => g[1] = instance)
    BY <2>2, <2>5, <2>6
  <2>8. \A g, h \in session'.granted : g[2] = h[2] => g[1] = h[1]
    BY <2>2, <2>5, <2>6 DEF RouterInv, SessionOK
  <2>9. e = 1 => seq = session.runs
    BY <1>2 DEF RouterInv, SessionOK
  <2>10. SessionOK'
    BY <1>2, <2>2, <2>7, <2>8, <2>9 DEF RouterInv, SessionOK
  <2>11. Kept
    BY <1>2, <2>2 DEF RouterInv, SessionOK, Kept
  <2>12. answer_.value = e
    BY <1>2, FrameAnswered
  <2> QED
    BY <2>2, <2>3, <2>10, <2>11, <2>12
<1>3. session.epoch \in Nat /\ session.sequence \in Nat /\ session.outcome \in Replies
  BY SMTT(30) DEF RouterInv, RouterTypes, SessionRecords
<1>4. CASE ~(UNCHANGED session /\ answer_ = BrokerRejected)
  <2>1. PICK e, seq, last :
           /\ answer_ = Ok(e)
           /\ session' = [session EXCEPT !.epoch = e, !.owner = instance, !.sequence = seq,
                                         !.outcome = last, !.granted = @ \cup {<<instance, e>>}]
           /\ \/ e = 1 /\ session.epoch = 0 /\ seq = 0 /\ last = NoAnswer
              \/ /\ e = session.epoch /\ session.epoch # 0 /\ session.owner = instance
                 /\ seq = session.sequence /\ last = session.outcome
              \/ e = expected + 1 /\ session.epoch = expected /\ session.epoch # 0 /\ seq = 0 /\ last = NoAnswer
    BY <1>4 DEF AcquireOwnership
  <2>2. NoAnswer \in Replies
    BY SMTT(30) DEF NoAnswer, Replies, Kinds
  <2>3. /\ e \in Nat /\ (e > session.epoch \/ (e = session.epoch /\ session.owner = instance)) /\ e # 0
        /\ e = 1 => \/ session.epoch = 0 /\ seq = 0
                    \/ session.epoch = 1 /\ seq = session.sequence /\ last = session.outcome
        /\ seq \in Nat
    BY <1>3, <2>1, SMTT(30)
  <2>4. last \in Replies
    BY <1>3, <2>1, <2>2
  <2> QED
    BY <1>2, <2>1, <2>3, <2>4
<1> QED
  BY <1>1, <1>4

\* One frame applied: what it answers is so from now on, and what was so
\* before still is.
LEMMA Applying ==
  ASSUME RouterInv, UNCHANGED setup, NEW post \in Posts, NEW answer_ \in Answers,
         ApplyPost(post, answer_)
  PROVE  /\ session' \in SessionRecords /\ SessionOK'
         /\ answer_.kind = "ok" => Sound(answer_)'
         /\ \A a : Sound(a) => Sound(a)'
<1>1. CASE setup.kind # "owned"
  <2>1. AcquireOwnership(Us, 1, answer_)
    BY <1>1 DEF ApplyPost
  <2>2. Us \in Owners /\ 1 \in Nat
    BY SMTT(30) DEF Owners
  <2>3. /\ session' \in SessionRecords /\ SessionOK'
        /\ session.granted \subseteq session'.granted
        /\ answer_.kind = "ok" => <<Us, answer_.value>> \in session'.granted
    BY <2>1, <2>2, Granting
  <2> QED
    BY <1>1, <2>3 DEF Sound
<1>2. CASE setup.kind = "owned"
  <2>1. ApplyOwned(post, answer_)
    BY <1>2 DEF ApplyPost
  <2>2. /\ session \in SessionRecords /\ session.runs \in {0, 1} /\ post.sequence = 1
        /\ session.epoch = 1 => session.sequence = session.runs
    BY SMTT(30) DEF RouterInv, RouterTypes, SessionOK, Posts
  <2>3. CASE UNCHANGED session
    <3>0. answer_ \in Replies /\ 1 \in Nat
      BY AnswersTyped, SMTT(30)
    <3>1. answer_.kind = "ok" => Sound(answer_)
      <4>1. ASSUME answer_.kind = "ok"
            PROVE  session.epoch = 1 /\ session.sequence = 1 /\ session.outcome = answer_
        <5>1. CASE answer_ = BrokerRejected
          BY <4>1, <5>1, FrameAnswered
        <5>2. CASE session.epoch = 1 /\ post.sequence = session.sequence /\ answer_ = session.outcome
          BY <2>2, <5>2
        <5>3. CASE session' = [session EXCEPT !.sequence = post.sequence, !.outcome = answer_, !.runs = @ + 1]
          <6>1. session'.runs = session.runs + 1 /\ session'.runs = session.runs
            BY <2>2, <2>3, <5>3 DEF SessionRecords
          <6> QED
            BY <2>2, <6>1, SMTT(30)
        <5> QED
          BY <2>1, <5>1, <5>2, <5>3 DEF ApplyOwned
      <4> QED
        BY <1>2, <2>2, <4>1 DEF Sound
    <3>2. \A a : Sound(a)' = Sound(a)
      BY <2>3 DEF Sound
    <3> QED
      BY <2>2, <2>3, <3>1, <3>2 DEF RouterInv, SessionOK
  <2>4. CASE session' # session
    <3>1. /\ session.sequence = 0 /\ session.epoch = 1 /\ session.runs = 0
          /\ session' = [session EXCEPT !.sequence = 1, !.outcome = answer_, !.runs = @ + 1]
      <4>1. ~(1 > 1) /\ 0 # 1
        BY SMTT(30)
      <4> QED
        BY <2>1, <2>2, <2>4, <4>1 DEF ApplyOwned
    <3>2. answer_ \in Replies /\ 1 \in Nat /\ session.runs + 1 = 1
      BY <2>2, <3>1, AnswersTyped, SMTT(30)
    <3>3. /\ session' \in SessionRecords /\ session'.runs = 1 /\ session'.sequence = 1
          /\ session'.outcome = answer_ /\ session'.granted = session.granted
          /\ session'.epoch = session.epoch /\ session'.owner = session.owner
      BY <2>2, <3>1, <3>2 DEF SessionRecords
    <3>4. \A a : ~Sound(a)
      BY <1>2, <2>2, <3>1, SMTT(30) DEF Sound
    <3>5. Sound(answer_)'
      BY <1>2, <3>3 DEF Sound
    <3>6. SessionOK'
      <4>1. session'.runs \in {0, 1} /\ session'.epoch # 0 /\ session'.sequence = session'.runs
        BY <3>1, <3>3, SMTT(30)
      <4>2. session'.granted = session.granted /\ session'.epoch = session.epoch /\ session'.owner = session.owner
        BY <3>3
      <4> QED
        BY <4>1, <4>2 DEF RouterInv, SessionOK
    <3> QED
      BY <3>3, <3>4, <3>5, <3>6
  <2> QED
    BY <2>3, <2>4
<1> QED
  BY <1>1, <1>2

-----------------------------------------------------------------------------
(* Posts and their answers *)

LEMMA Settled ==
  ASSUME RouterTypes, NEW i \in DOMAIN posts, NEW status \in Statuses, NEW answer_ \in Replies,
         Settle(i, status, answer_)
  PROVE  /\ posts' \in Seq(Posts) /\ Len(posts') = Len(posts)
         /\ \A k \in 1..Len(posts) :
              posts'[k].reply = posts[k].reply \/ posts'[k].reply = answer_
<1>1. /\ posts \in Seq(Posts) /\ DOMAIN posts = 1..Len(posts) /\ i \in 1..Len(posts)
      /\ \A k \in 1..Len(posts) : posts[k] \in Posts
  BY SMTT(30) DEF RouterTypes
<1>2. PICK reply \in Replies :
        /\ reply = posts[i].reply \/ reply = answer_
        /\ posts' = [posts EXCEPT ![i] = [posts[i] EXCEPT !.status = status, !.reply = reply]]
  <2>1. posts[i].reply \in Replies
    BY <1>1, SMTT(30) DEF Posts
  <2>2. posts' = [posts EXCEPT ![i].status = status,
                    ![i].reply = IF OnConnection(i) /\ @ = NoAnswer THEN answer_ ELSE @]
    BY DEF Settle
  <2>3. [posts[i] EXCEPT !.status = status].reply = posts[i].reply
    BY <1>1 DEF Posts
  <2> QED
    BY <1>1, <2>1, <2>2, <2>3
<1>3. [posts[i] EXCEPT !.status = status, !.reply = reply] \in Posts
  BY <1>1, <1>2 DEF Posts
<1>4. posts' \in Seq(Posts) /\ Len(posts') = Len(posts)
  BY <1>1, <1>2, <1>3, SMTT(30)
<1>5. \A k \in 1..Len(posts) : k # i => posts'[k] = posts[k]
  BY <1>1, <1>2
<1>6. posts'[i] = [posts[i] EXCEPT !.status = status, !.reply = reply]
  BY <1>1, <1>2
<1>7. posts'[i].reply = reply
  BY <1>1, <1>6 DEF Posts
<1> QED
  BY <1>2, <1>4, <1>5, <1>7

\* Posts may be answered and the session may move on, as long as what answers
\* claim is so.
LEMMA RouterUntouched ==
  ASSUME RouterInv, UNCHANGED <<setup, router>>, RouterTypes', SessionOK',
         \A a : Sound(a) => Sound(a)', Len(posts') = Len(posts),
         \A i \in 1..Len(posts) :
           posts'[i].reply.kind = "ok" => posts'[i].reply = posts[i].reply \/ Sound(posts[i].reply)'
  PROVE  RouterInv'
<1>1. ASSUME NEW i \in 1..Len(posts'), posts'[i].reply.kind = "ok"
      PROVE  Sound(posts[i].reply)'
  <2>1. CASE posts'[i].reply = posts[i].reply
    <3>1. Sound(posts[i].reply)
      BY <1>1, <2>1 DEF RouterInv, AnswersOK
    <3>2. PICK a : a = posts[i].reply
      OBVIOUS
    <3> QED
      BY <2>1, <3>1, <3>2 DEF Sound
  <2> QED
    BY <1>1, <2>1
<1>2. AnswersOK'
  BY <1>1 DEF RouterInv, AnswersOK
<1>3. ProbesOK' /\ HeardOK' /\ TargetOK'
  BY DEF RouterInv, ProbesOK, HeardOK, TargetOK, Voted
<1> QED
  BY <1>2, <1>3 DEF RouterInv

LEMMA ClusterKeeps ==
  ASSUME RouterInv, (\E n \in RouterNodes : Elect(n) \/ Disclaim(n)) \/ Reclaim
  PROVE  RouterInv'
<1>1. UNCHANGED <<setup, session, posts, router>>
  BY DEF Elect, Disclaim, Reclaim
<1>2. leader' \in RouterNodes /\ claimants' \subseteq RouterNodes
  BY DEF Elect, Disclaim, Reclaim, RouterInv, RouterTypes
<1>3. \A a : Sound(a)' = Sound(a)
  BY <1>1 DEF Sound
<1> QED
  BY <1>1, <1>2, <1>3, RouterUntouched DEF RouterInv, RouterTypes, SessionOK

LEMMA RivalKeeps ==
  ASSUME RouterInv, RivalAcquires
  PROVE  RouterInv'
<1>1. UNCHANGED <<setup, leader, claimants, posts, router>>
  BY DEF RivalAcquires
<1>2. PICK expected \in 1..2, answer_ \in Answers : AcquireOwnership(Rival, expected, answer_)
  BY DEF RivalAcquires
<1>3. Rival \in Owners /\ expected \in Nat
  BY SMTT(30) DEF Owners
<1>4. /\ session' \in SessionRecords /\ SessionOK'
      /\ Kept /\ session.granted \subseteq session'.granted
  BY <1>1, <1>2, <1>3, Granting
<1>5. \A a : Sound(a) => Sound(a)'
  BY <1>1, <1>4 DEF Sound, Kept
<1>6. RouterTypes'
  BY <1>1, <1>4 DEF RouterInv, RouterTypes
<1> QED
  BY <1>1, <1>4, <1>5, <1>6, RouterUntouched

LEMMA PostKeeps ==
  ASSUME RouterInv, NEW i \in DOMAIN posts,
         \/ LosePost(i) \/ RefusePost(i) \/ SubmitPost(i) \/ CommitPost(i) \/ DeadlinePost(i)
         \/ DropPost(i)
  PROVE  RouterInv'
<1>1. UNCHANGED <<setup, leader, claimants, router>>
  BY DEF LosePost, RefusePost, SubmitPost, CommitPost, DeadlinePost, DropPost
<1>2. posts[i] \in Posts /\ posts[i].status \in Statuses
  <2>1. posts[i] \in Posts
    BY SMTT(30) DEF RouterInv, RouterTypes
  <2> QED
    BY <2>1 DEF Posts
<1>3. CASE CommitPost(i)
  <2>1. PICK answer_ \in Answers : ApplyPost(posts[i], answer_) /\ Settle(i, "settled", answer_)
    BY <1>3 DEF CommitPost
  <2>2. /\ session' \in SessionRecords /\ SessionOK'
        /\ answer_.kind = "ok" => Sound(answer_)'
        /\ \A a : Sound(a) => Sound(a)'
    BY <1>1, <1>2, <2>1, Applying
  <2>3. "settled" \in Statuses /\ answer_ \in Replies
    BY AnswersTyped DEF Statuses
  <2>4. /\ posts' \in Seq(Posts) /\ Len(posts') = Len(posts)
        /\ \A k \in 1..Len(posts) : posts'[k].reply = posts[k].reply \/ posts'[k].reply = answer_
    BY <2>1, <2>3, Settled DEF RouterInv
  <2>5. RouterTypes'
    BY <1>1, <2>2, <2>4 DEF RouterInv, RouterTypes
  <2>6. ASSUME NEW k \in 1..Len(posts), posts'[k].reply.kind = "ok", posts'[k].reply = answer_
        PROVE  Sound(posts[k].reply)'
    <3>1. Sound(answer_)'
      BY <2>2, <2>6
    <3> QED
      BY <2>6, <3>1 DEF Sound
  <2> QED
    BY <1>1, <2>2, <2>4, <2>5, <2>6, RouterUntouched
<1>4. CASE ~CommitPost(i)
  <2>1. UNCHANGED session
    BY <1>4 DEF LosePost, RefusePost, SubmitPost, DeadlinePost, DropPost
  <2>2. PICK status \in Statuses,
             answer_ \in {NoAnswer, BrokerUnknown, BrokerRejected, BrokeProtocol} :
               Settle(i, status, answer_)
    BY <1>2, <1>4 DEF LosePost, RefusePost, SubmitPost, DeadlinePost, DropPost, Statuses
  <2>3. answer_ \in Replies /\ answer_.kind # "ok"
    BY FrameAnswered
  <2>4. /\ posts' \in Seq(Posts) /\ Len(posts') = Len(posts)
        /\ \A k \in 1..Len(posts) : posts'[k].reply = posts[k].reply \/ posts'[k].reply = answer_
    BY <2>2, <2>3, Settled DEF RouterInv
  <2>5. RouterTypes' /\ SessionOK'
    BY <1>1, <2>1, <2>4 DEF RouterInv, RouterTypes, SessionOK
  <2>6. \A a : Sound(a)' = Sound(a)
    BY <1>1, <2>1 DEF Sound
  <2> QED
    BY <1>1, <2>3, <2>4, <2>5, <2>6, RouterUntouched
<1> QED
  BY <1>3, <1>4

-----------------------------------------------------------------------------
(* The router *)

LEMMA RoutingFields ==
  RouterInv =>
    /\ router.pc \in Places /\ router.attempt \in Nat /\ router.result \in Replies
    /\ router.verdicts \in [RouterNodes -> Verdicts] /\ router.reporters \subseteq RouterNodes
    /\ router.target \in 0..3 /\ router.heard \in Seq(Replies)
BY DEF RouterInv, RouterTypes, Routings

\* The router moves and the posts stay.
LEMMA PostsUntouched ==
  ASSUME RouterInv, UNCHANGED <<setup, leader, claimants, session, posts>>, router' \in Routings,
         router'.result.kind # "ok", router'.pc # "waiting",
         router'.pc # "returned" => router'.result = NoAnswer, ProbesOK', HeardOK', TargetOK'
  PROVE  RouterInv'
<1>1. RouterTypes' /\ SessionOK'
  BY DEF RouterInv, RouterTypes, SessionOK
<1>2. AnswersOK'
  BY DEF RouterInv, AnswersOK, Sound
<1> QED
  BY <1>1, <1>2 DEF RouterInv

LEMMA ProbeKeeps ==
  ASSUME RouterInv, NEW n \in RouterNodes, ProbeOperations(n)
  PROVE  RouterInv'
<1>1. /\ router.pc = "start" /\ router.verdicts[n] = "unprobed" /\ router.result = NoAnswer
      /\ UNCHANGED <<setup, leader, claimants, session, posts>>
  BY DEF ProbeOperations, MayProbe, RouterTo, RouterInv, AnswersOK
<1>2. router \in Routings
  BY DEF RouterInv, RouterTypes
<1>3. PICK v \in Verdicts, new \in SUBSET RouterNodes :
        /\ router' \in Routings /\ router'.verdicts = [router.verdicts EXCEPT ![n] = v]
        /\ router'.reporters = router.reporters \cup new
        /\ router'.pc = router.pc /\ router'.heard = router.heard /\ router'.result = router.result
        /\ v = "ready" => n \in new
        /\ \A m \in new : v = "invalid" \/ (v = "ready" /\ m = n)
  <2>1. ASSUME NEW v \in Verdicts
        PROVE  [router.verdicts EXCEPT ![n] = v] \in [RouterNodes -> Verdicts]
    BY RoutingFields
  <2>2. CASE router' = [router EXCEPT !.verdicts[n] = "absent"]
    <3>1. "absent" \in Verdicts
      BY DEF Verdicts
    <3>2. /\ router' \in Routings /\ router'.verdicts = [router.verdicts EXCEPT ![n] = "absent"]
          /\ router'.reporters = router.reporters
          /\ router'.pc = router.pc /\ router'.heard = router.heard /\ router'.result = router.result
      BY <1>2, <2>1, <2>2, <3>1 DEF Routings
    <3>3. {} \in SUBSET RouterNodes /\ router.reporters = router.reporters \cup {}
      OBVIOUS
    <3> QED
      BY <3>1, <3>2, <3>3
  <2>3. CASE router' # [router EXCEPT !.verdicts[n] = "absent"]
    <3>1. PICK reporter : reporter = setup.operations[n]
      OBVIOUS
    <3>2. PICK new : new = {reporter} \cap claimants
      OBVIOUS
    <3>3. PICK v : v = Verdict(n, reporter)
      OBVIOUS
    <3>4. router' = [router EXCEPT !.verdicts[n] = v, !.reporters = @ \cup new]
      BY <2>3, <3>1, <3>2, <3>3 DEF ProbeOperations, RouterTo
    <3>5. new \subseteq RouterNodes /\ claimants \subseteq RouterNodes
      BY <3>2 DEF RouterInv, RouterTypes
    <3>6. Stranger \notin RouterNodes
      BY SMTT(30) DEF RouterNodes, Stranger
    <3>7. CASE reporter \notin claimants
      <4>1. v = "invalid" \/ v = "absent"
        BY <3>3, <3>7 DEF Verdict
      <4> QED
        <5>1. v \in Verdicts /\ v # "ready" /\ new = {}
          BY <3>2, <3>7, <4>1 DEF Verdicts
        <5> QED
          BY <1>2, <2>1, <3>4, <3>5, <5>1 DEF Routings
    <3>8. CASE reporter \in claimants
      <4>1. reporter # Stranger /\ new = {reporter}
        BY <3>2, <3>5, <3>6, <3>8
      <4>2. \/ v = "ready" /\ reporter = n
            \/ v = "invalid" /\ reporter # n
        BY <3>3, <3>8, <4>1 DEF Verdict
      <4>3. /\ v \in Verdicts /\ (v = "ready" => n \in new)
            /\ \A m \in new : v = "invalid" \/ (v = "ready" /\ m = n)
        BY <4>1, <4>2 DEF Verdicts
      <4> QED
        BY <1>2, <2>1, <3>4, <3>5, <4>3 DEF Routings
    <3> QED
      BY <3>7, <3>8
  <2> QED
    BY <2>2, <2>3
<1>4. /\ router'.verdicts[n] = v
      /\ \A m \in RouterNodes : m # n => router'.verdicts[m] = router.verdicts[m]
  BY <1>3, RoutingFields
<1>5. Voted("invalid") \subseteq Voted("invalid")'
  BY <1>1, <1>4 DEF Voted
<1>6. v = "invalid" => n \in Voted("invalid")'
  BY <1>4 DEF Voted
<1>7. \A m \in RouterNodes : router'.verdicts[m] = "ready" => m \in router'.reporters
  BY <1>1, <1>3, <1>4 DEF RouterInv, ProbesOK
<1>8. \A m \in router'.reporters : router'.verdicts[m] = "ready" \/ Voted("invalid")' # {}
  <2>1. ASSUME NEW m \in router.reporters
        PROVE  router'.verdicts[m] = "ready" \/ Voted("invalid")' # {}
    <3>1. m \in RouterNodes
      BY <2>1, RoutingFields
    <3>2. router.verdicts[m] = "ready" \/ Voted("invalid") # {}
      BY <1>1, <2>1 DEF RouterInv, ProbesOK
    <3> QED
      BY <1>1, <1>4, <1>5, <3>1, <3>2
  <2>2. ASSUME NEW m \in new
        PROVE  router'.verdicts[m] = "ready" \/ Voted("invalid")' # {}
    BY <1>3, <1>4, <1>6, <2>2
  <2> QED
    BY <1>3, <2>1, <2>2
<1>9. ProbesOK'
  BY <1>7, <1>8 DEF ProbesOK
<1>10. HeardOK' /\ TargetOK'
  BY <1>1, <1>3 DEF RouterInv, HeardOK, TargetOK
<1> QED
  BY <1>1, <1>3, <1>9, <1>10, NoneFails, PostsUntouched

LEMMA OneReady ==
  ASSUME RouterInv, Voted("ready") # {}, ~(Cardinality(Voted("ready")) > 1)
  PROVE  \A n \in Voted("ready") : Voted("ready") = {n}
<1> SUFFICES ASSUME NEW m \in Voted("ready"), NEW n \in Voted("ready"), m # n
             PROVE  FALSE
  OBVIOUS
<1>1. IsFiniteSet(RouterNodes) /\ Voted("ready") \subseteq RouterNodes
  <2>1. IsFiniteSet(RouterNodes)
    <3>1. 1 \in Int /\ 3 \in Int
      BY SMTT(30)
    <3> QED
      BY <3>1, FS_Interval DEF RouterNodes
  <2> QED
    BY <2>1 DEF Voted
<1>2. IsFiniteSet(Voted("ready")) /\ Cardinality(Voted("ready")) \in Nat
  BY <1>1, FS_Subset, FS_CardinalityType
<1>3. IsFiniteSet({m}) /\ Cardinality({m}) = 1
  BY FS_Singleton
<1>4. Cardinality({m} \cup {n}) = Cardinality({m}) + 1
  BY <1>3, FS_AddElement
<1>5. {m} \cup {n} \subseteq Voted("ready")
  OBVIOUS
<1>6. Cardinality({m} \cup {n}) <= Cardinality(Voted("ready"))
  BY <1>2, <1>5, FS_Subset
<1> QED
  BY <1>2, <1>3, <1>4, <1>6, SMTT(30)

LEMMA DiscoverKeeps ==
  ASSUME RouterInv, DiscoverWriteLeader
  PROVE  RouterInv'
<1>1. /\ router.pc = "start" /\ router.result = NoAnswer
      /\ UNCHANGED <<setup, leader, claimants, session, posts>>
  BY DEF DiscoverWriteLeader, RouterTo, RouterInv, AnswersOK
<1>2. router \in Routings
  BY DEF RouterInv, RouterTypes
<1>3. \A i \in 1..Len(router.heard) : router.heard[i] \in Ambiguous
  BY <1>1 DEF RouterInv, HeardOK
<1>4. ASSUME NEW kind \in Kinds \ {"ok"},
             router' = [router EXCEPT !.pc = "returned", !.result = RoutingError(kind)]
      PROVE  RouterInv'
  <2>1. RoutingError(kind) \in Replies /\ RoutingError(kind).kind # "ok"
    BY FrameAnswered
  <2>2. "returned" \in Places
    BY DEF Places
  <2>3. /\ router' \in Routings /\ router'.pc = "returned" /\ router'.result = RoutingError(kind)
        /\ router'.heard = router.heard
    BY <1>2, <1>4, <2>1, <2>2 DEF Routings
  <2>4. ProbesOK' /\ HeardOK' /\ TargetOK'
    BY <1>3, <2>3 DEF ProbesOK, HeardOK, TargetOK
  <2> QED
    BY <1>1, <2>1, <2>3, <2>4, PostsUntouched
<1>5. CASE \/ Voted("invalid") # {} \/ Voted("ready") = {} \/ Cardinality(Voted("ready")) > 1
  <2>1. {"InvalidOperationsResponse", "NoWriteReadyLeader", "MultipleWriteReadyLeaders"}
          \subseteq Kinds \ {"ok"}
    BY DEF Kinds
  <2>2. \E kind \in {"InvalidOperationsResponse", "NoWriteReadyLeader", "MultipleWriteReadyLeaders"} :
          router' = [router EXCEPT !.pc = "returned", !.result = RoutingError(kind)]
    BY <1>5, SMTT(30) DEF DiscoverWriteLeader, RouterTo
  <2> QED
    BY <1>4, <2>1, <2>2
<1>6. CASE Voted("invalid") = {} /\ Voted("ready") # {} /\ ~(Cardinality(Voted("ready")) > 1)
  <2>1. PICK n : n = CHOOSE m \in Voted("ready") : TRUE
    OBVIOUS
  <2>2. n \in Voted("ready") /\ Voted("ready") = {n}
    BY <1>6, <2>1, OneReady
  <2>3. router' = [router EXCEPT !.pc = "chosen", !.target = n, !.verdicts = Unprobed]
    BY <1>6, <2>1 DEF DiscoverWriteLeader, RouterTo
  <2>4. n \in RouterNodes /\ n \in 0..3
    <3>1. n \in RouterNodes
      BY <2>2 DEF Voted
    <3> QED
      BY <3>1, SMTT(30) DEF RouterNodes
  <2>5. router.reporters = {n}
    <3>1. n \in router.reporters
      BY <1>1, <2>2, <2>4 DEF RouterInv, ProbesOK, Voted
    <3>2. \A m \in router.reporters : m \in Voted("ready")
      BY <1>1, <1>6, RoutingFields DEF RouterInv, ProbesOK, Voted
    <3> QED
      BY <2>2, <3>1, <3>2
  <2>6. "chosen" \in Places /\ Unprobed \in [RouterNodes -> Verdicts]
    BY DEF Places, Unprobed, Verdicts
  <2>7. /\ router' \in Routings /\ router'.pc = "chosen" /\ router'.target = n
        /\ router'.heard = router.heard /\ router'.reporters = router.reporters
        /\ router'.result = router.result
    BY <1>2, <2>3, <2>4, <2>6 DEF Routings
  <2>8. ProbesOK' /\ HeardOK' /\ TargetOK'
    BY <1>3, <2>5, <2>7 DEF ProbesOK, HeardOK, TargetOK
  <2> QED
    BY <1>1, <2>7, <2>8, NoneFails, PostsUntouched
<1> QED
  BY <1>5, <1>6

LEMMA SendKeeps ==
  ASSUME RouterInv, SendFrame
  PROVE  RouterInv'
<1>1. /\ router.pc = "chosen" /\ router.result = NoAnswer /\ router \in Routings
      /\ router' = [router EXCEPT !.pc = "waiting"]
      /\ UNCHANGED <<setup, leader, claimants, session>>
  BY DEF SendFrame, RouterTo, RouterInv, RouterTypes, AnswersOK
<1>2. PICK post : post = [node |-> setup.broker[router.target], status |-> "travelling",
                          reply |-> NoAnswer, sequence |-> 1]
  OBVIOUS
<1>3. posts' = Append(posts, post)
  BY <1>2 DEF SendFrame, ExactFrame
<1>4. post \in Posts /\ post.reply = NoAnswer
  <2>1. router.target \in RouterNodes
    BY <1>1, RoutingFields DEF RouterInv, TargetOK
  <2>2. setup.broker[router.target] \in 0..3
    BY <2>1 DEF RouterInv, RouterTypes
  <2>3. "travelling" \in Statuses /\ NoAnswer \in Replies
    BY NoneFails DEF Statuses
  <2> QED
    BY <1>2, <2>2, <2>3, SMTT(30) DEF Posts
<1>5. /\ posts' \in Seq(Posts) /\ Len(posts') = Len(posts) + 1 /\ Len(posts') > 0
      /\ \A i \in 1..Len(posts') :
           (i \in 1..Len(posts) /\ posts'[i] = posts[i]) \/ posts'[i] = post
  <2>1. posts \in Seq(Posts)
    BY DEF RouterInv, RouterTypes
  <2> QED
    BY <1>3, <1>4, <2>1, SMTT(30)
<1>6. "waiting" \in Places
  BY DEF Places
<1>7. /\ router' \in Routings /\ router'.pc = "waiting" /\ router'.result = NoAnswer
      /\ router'.heard = router.heard /\ router'.reporters = router.reporters
      /\ router'.target = router.target
  BY <1>1, <1>6 DEF Routings
<1>8. RouterTypes' /\ SessionOK'
  BY <1>1, <1>5, <1>7 DEF RouterInv, RouterTypes, SessionOK
<1>9. \A i \in 1..Len(posts') : posts'[i].reply.kind = "ok" =>
        i \in 1..Len(posts) /\ posts'[i] = posts[i]
  BY <1>4, <1>5, NoneFails
<1>10. AnswersOK'
  BY <1>1, <1>5, <1>7, <1>9, NoneFails DEF RouterInv, AnswersOK, Sound
<1>11. ProbesOK' /\ HeardOK' /\ TargetOK'
  BY <1>1, <1>7 DEF RouterInv, ProbesOK, HeardOK, TargetOK
<1> QED
  BY <1>8, <1>10, <1>11 DEF RouterInv

\* The end of an attempt: another one, or the end of the call.
LEMMA ConcludeKeeps ==
  ASSUME RouterInv, router.pc \in {"chosen", "waiting"}, NEW answer_ \in Replies,
         answer_.kind = "ok" => Sound(answer_), Conclude(answer_),
         posts' \in Seq(Posts), Len(posts') = Len(posts),
         \A i \in 1..Len(posts) : posts'[i].reply \in {posts[i].reply, NoAnswer}
  PROVE  RouterInv'
<1>1. /\ UNCHANGED <<setup, leader, claimants, session>>
      /\ router.heard \in Seq(Replies) /\ router.attempt \in Nat
      /\ \A i \in 1..Len(router.heard) : router.heard[i] \in Ambiguous
  BY RoutingFields DEF Conclude, RouterTo, RouterInv, HeardOK
<1>2. PICK heard : heard = Append(router.heard, answer_)
  OBVIOUS
<1>3. /\ heard \in Seq(Replies)
      /\ \A i \in 1..Len(heard) :
           (i = Len(heard) /\ heard[i] = answer_) \/ heard[i] \in Ambiguous
  BY <1>1, <1>2, SMTT(30)
<1>4. PICK again \in BOOLEAN : again = (ShouldRediscover(answer_) /\ AttemptsLeft)
  OBVIOUS
<1>5. answer_ \notin Ambiguous => again = FALSE
  BY <1>4 DEF ShouldRediscover
<1>6. PICK attempt \in Nat, pc \in Places, result \in Replies :
        /\ router' = [pc |-> pc, attempt |-> attempt, verdicts |-> Unprobed, reporters |-> {},
                      target |-> 0, heard |-> heard, result |-> result]
        /\ \/ again /\ pc = "start" /\ result = NoAnswer
           \/ ~again /\ pc = "returned" /\ result = answer_
  <2>1. router' = [pc        |-> IF again THEN "start" ELSE "returned",
                   attempt   |-> IF again THEN router.attempt + 1 ELSE router.attempt,
                   verdicts  |-> Unprobed,
                   reporters |-> {},
                   target    |-> 0,
                   heard     |-> heard,
                   result    |-> IF again THEN NoAnswer ELSE answer_]
    BY <1>2, <1>4 DEF Conclude, RouterTo
  <2>2. {"start", "returned"} \subseteq Places /\ router.attempt + 1 \in Nat
    BY <1>1, SMTT(30) DEF Places
  <2>3. CASE again
    <3>1. router' = [pc |-> "start", attempt |-> router.attempt + 1, verdicts |-> Unprobed,
                     reporters |-> {}, target |-> 0, heard |-> heard, result |-> NoAnswer]
      BY <2>1, <2>3
    <3> QED
      BY <2>2, <2>3, <3>1, NoneFails
  <2>4. CASE ~again
    <3>1. router' = [pc |-> "returned", attempt |-> router.attempt, verdicts |-> Unprobed,
                     reporters |-> {}, target |-> 0, heard |-> heard, result |-> answer_]
      BY <2>1, <2>4
    <3> QED
      BY <1>1, <2>2, <2>4, <3>1
  <2> QED
    BY <2>3, <2>4
<1>7. Unprobed \in [RouterNodes -> Verdicts] /\ {} \subseteq RouterNodes /\ 0 \in 0..3
  <2>1. Unprobed \in [RouterNodes -> Verdicts]
    BY DEF Unprobed, Verdicts
  <2> QED
    BY <2>1, SMTT(30)
<1>8. /\ router' \in Routings /\ router'.pc = pc /\ router'.heard = heard
      /\ router'.result = result /\ router'.verdicts = Unprobed /\ router'.reporters = {}
  BY <1>3, <1>6, <1>7 DEF Routings
<1>9. RouterTypes' /\ SessionOK'
  BY <1>1, <1>8 DEF RouterInv, RouterTypes, SessionOK
<1>10. AnswersOK'
  <2>1. \A i \in 1..Len(posts') : posts'[i].reply.kind = "ok" => posts'[i].reply = posts[i].reply
    BY NoneFails
  <2>2. router'.result.kind = "ok" => Sound(router'.result)
    BY <1>6, <1>8, NoneFails
  <2> QED
    BY <1>1, <1>6, <1>8, <2>1, <2>2 DEF RouterInv, AnswersOK, Sound
<1>11. ProbesOK'
  <2>1. \A n \in RouterNodes : router'.verdicts[n] = "unprobed"
    BY <1>8 DEF Unprobed
  <2> QED
    BY <1>8, <2>1 DEF ProbesOK
<1>12. HeardOK'
  BY <1>3, <1>5, <1>6, <1>8 DEF HeardOK
<1>13. TargetOK'
  BY <1>6, <1>8 DEF TargetOK
<1> QED
  BY <1>9, <1>10, <1>11, <1>12, <1>13 DEF RouterInv

LEMMA AttemptEnds ==
  ASSUME RouterInv, ConnectFails \/ HearAnswer \/ GiveUpWaiting
  PROVE  RouterInv'
<1>1. TransportFailed \in Replies /\ TransportFailed.kind # "ok"
  BY FrameAnswered
<1>2. CASE ConnectFails
  <2>1. posts' \in Seq(Posts) /\ UNCHANGED posts
    BY <1>2 DEF ConnectFails, RouterInv, RouterTypes
  <2> QED
    BY <1>1, <1>2, <2>1, ConcludeKeeps DEF ConnectFails
<1>3. CASE HearAnswer \/ GiveUpWaiting
  <2>1. /\ router.pc = "waiting" /\ Len(posts) > 0 /\ posts \in Seq(Posts)
        /\ posts' = [posts EXCEPT ![Len(posts)].reply = NoAnswer]
    BY <1>3 DEF HearAnswer, GiveUpWaiting, Disconnect, RouterInv, RouterTypes, AnswersOK
  <2>2. /\ Len(posts) \in 1..Len(posts) /\ DOMAIN posts = 1..Len(posts)
        /\ \A i \in 1..Len(posts) : posts[i] \in Posts
    BY <2>1, SMTT(30)
  <2>3. PICK last : last = Len(posts)
    OBVIOUS
  <2>4. PICK post : post = [posts[last] EXCEPT !.reply = NoAnswer]
    OBVIOUS
  <2>5. post \in Posts /\ post.reply = NoAnswer /\ posts[last].reply \in Replies
    BY <2>2, <2>3, <2>4, NoneFails DEF Posts
  <2>6. posts' = [posts EXCEPT ![last] = post]
    BY <2>1, <2>2, <2>3, <2>4
  <2>7. posts' \in Seq(Posts) /\ Len(posts') = Len(posts)
    BY <2>1, <2>2, <2>3, <2>5, <2>6, SMTT(30)
  <2>8. \A i \in 1..Len(posts) : posts'[i].reply \in {posts[i].reply, NoAnswer}
    BY <2>2, <2>3, <2>5, <2>6
  <2>9. CASE GiveUpWaiting
    BY <1>1, <2>1, <2>7, <2>8, <2>9, ConcludeKeeps DEF GiveUpWaiting
  <2>10. CASE HearAnswer
    <3>1. PICK answer_ : answer_ = posts[last].reply
      OBVIOUS
    <3>2. answer_ \in Replies /\ Conclude(answer_)
      BY <2>3, <2>5, <2>10, <3>1 DEF HearAnswer
    <3>3. answer_.kind = "ok" => Sound(answer_)
      BY <2>2, <2>3, <3>1 DEF RouterInv, AnswersOK
    <3> QED
      BY <2>1, <2>7, <2>8, <3>2, <3>3, ConcludeKeeps
  <2> QED
    BY <1>3, <2>9, <2>10
<1> QED
  BY <1>2, <1>3

LEMMA RouterInvStep == RouterInv /\ [RouterNext]_routerVars => RouterInv'
<1> SUFFICES ASSUME RouterInv, [RouterNext]_routerVars PROVE RouterInv'
  OBVIOUS
<1>1. CASE UNCHANGED routerVars
  BY <1>1 DEF routerVars, RouterInv, RouterTypes, SessionOK, AnswersOK, ProbesOK, HeardOK, TargetOK,
     Sound, Voted
<1>2. CASE RouterStep
  BY <1>2, ProbeKeeps, DiscoverKeeps, SendKeeps, AttemptEnds DEF RouterStep
<1> QED
  BY <1>1, <1>2, ClusterKeeps, RivalKeeps, PostKeeps DEF RouterNext

\* A routed mutation executes at most once, however many leaders get its frame
\* and whenever; and a success the router returned stays true.
THEOREM RoutedExecutesOnce == RouterSpec => []RoutedOnce
BY RouterInvInit, RouterInvStep, RouterInvImplies, PTL DEF RouterSpec

\* Every frame goes to the configured Broker address of the one node that
\* reported write-readiness in the discovery just made, and follows ambiguous
\* outcomes only.
THEOREM FramesAlwaysJustified == RouterSpec => []FramesJustified
BY RouterInvInit, RouterInvStep, RouterInvImplies, PTL DEF RouterSpec

=============================================================================
