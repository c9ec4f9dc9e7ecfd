------------------------- MODULE JournalRepository --------------------------
(***************************************************************************)
(* The standalone broker's durable path: StandaloneConsensusAdapter, which *)
(* applies a command and then commits it, over                             *)
(* JournaledBrokerStateRepository, which appends one record per commit to  *)
(* a journal and now and then replaces the snapshot and empties the        *)
(* journal.                                                                *)
(*                                                                         *)
(* The broker's state is a term, a revision and, for each entity            *)
(* (namespace, task or group), the revision that last wrote it: what the   *)
(* entity holds is abstracted to when it was written.                       *)
(*                                                                         *)
(* A file has the content every process sees and the content a loss of     *)
(* power may leave, which differ until the file, or for names its          *)
(* directory, is synced.  A process may be killed between any two calls.   *)
(***************************************************************************)
EXTENDS Naturals, Sequences

CONSTANTS
  Entities,
  CompactEvery,     \* commits between compactions
  MaxJournal,       \* records that reach max_journal_bytes
  MaxRevision, MaxTerm,
  MaxFailures,      \* bound on failing calls
  MaxKills,         \* bound on processes killed with their files intact
  MaxPowerLosses,
  MixedCrashes      \* whether both may happen to the same files

ASSUME RepositoryAssumption ==
  /\ {CompactEvery, MaxJournal, MaxRevision, MaxTerm} \subseteq Nat \ {0}
  /\ {MaxFailures, MaxKills, MaxPowerLosses} \subseteq Nat
  /\ MixedCrashes \in BOOLEAN

VARIABLES
  machine,            \* the state machine's state
  stage,              \* the call the process is about to make
  compaction_deferred, commits_since_compaction, journal_bytes,
  snapshot,           \* the snapshot every process sees
  snapshot_images,    \* the snapshots a loss of power may leave
  journal,            \* the journal every process sees
  journal_synced,     \* its content as of the last sync of the file
  named,              \* "no", "cached" or "synced": its directory entry
  told,               \* the highest revision a command was answered with
  history,            \* the state the machine had at each revision
  failures, kills, losses

process == <<machine, stage>>
repository == <<compaction_deferred, commits_since_compaction, journal_bytes>>
disk == <<snapshot, snapshot_images, journal, journal_synced, named>>
faults == <<failures, kills, losses>>
vars == <<process, repository, disk, told, history, faults>>

Empty == [term |-> 1, revision |-> 0, entities |-> [e \in Entities |-> 0]]
NoJournal == [records |-> <<>>, torn |-> FALSE]

Init ==
  /\ machine = Empty /\ stage = "idle"
  /\ compaction_deferred = FALSE
  /\ commits_since_compaction = 0 /\ journal_bytes = 0
  /\ snapshot = Empty /\ snapshot_images = {Empty}
  /\ journal = NoJournal /\ journal_synced = NoJournal /\ named = "no"
  /\ told = 0
  /\ history = [r \in {0} |-> Empty]
  /\ failures = 0 /\ kills = 0 /\ losses = 0

-----------------------------------------------------------------------------
(* Applying and replaying a mutation *)

\* The record of a mutation: the term and revision it leads to, the entities
\* it writes and the entities it deletes.
Record(updated, deleted, term, revision) ==
  [term |-> term, revision |-> revision,
   updated |-> updated, deleted |-> deleted]

Applied(state, record) ==
  [term |-> record.term, revision |-> record.revision,
   entities |-> [e \in Entities |->
     CASE e \in record.deleted -> 0
       [] e \in record.updated -> record.revision
       [] OTHER                -> state.entities[e]]]

\* apply_journal_mutation refuses a gap in the revisions, a term that goes
\* back, and an entity older than the one it would replace.
Refuses(state, record) ==
  /\ record.revision > state.revision
  /\ \/ record.revision # state.revision + 1
     \/ record.term < state.term
     \/ \E e \in record.updated : record.revision < state.entities[e]

\* Records the snapshot already has are skipped; Unreadable marks a journal
\* that load refuses.
Unreadable == [term |-> 0, revision |-> 0, entities |-> [e \in Entities |-> 0]]

\* Mutant: a record the snapshot already has is out of order.
ReplayRefusesOld(state, record) ==
  IF state = Unreadable \/ record.revision # state.revision + 1
    THEN Unreadable ELSE Applied(state, record)

Replay(state, record) ==
  CASE state = Unreadable                 -> Unreadable
    [] record.revision <= state.revision  -> state
    [] Refuses(state, record)             -> Unreadable
    [] OTHER                              -> Applied(state, record)

Recovered(from, records) ==
  LET after[n \in 0..Len(records)] ==
        IF n = 0 THEN from ELSE Replay(after[n - 1], records[n])
  IN after[Len(records)]

-----------------------------------------------------------------------------
(* StandaloneConsensusAdapter::propose *)

\* A command that changes nothing is answered without a commit.
ProposeUnchanged ==
  /\ stage = "idle"
  /\ told' = machine.revision
  /\ UNCHANGED <<process, repository, disk, history, faults>>

\* A mutation is applied in memory, then committed: to the journal, or by a
\* compaction when the last one was deferred.
Propose(updated, deleted, advance) ==
  LET next == Applied(machine, Record(updated, deleted,
                IF advance THEN machine.term + 1 ELSE machine.term,
                machine.revision + 1))
  IN /\ stage = "idle" /\ machine.revision < MaxRevision
     /\ updated \cap deleted = {}
     /\ \A e \in deleted : machine.entities[e] # 0
     /\ IF advance THEN updated \cup deleted = {} /\ machine.term < MaxTerm
                   ELSE updated \cup deleted # {}
     /\ machine' = next
     /\ history' = [r \in 0..next.revision |->
                      IF r = next.revision THEN next ELSE history[r]]
     /\ stage' = IF compaction_deferred THEN "write_snapshot" ELSE "append"
     /\ UNCHANGED <<repository, disk, told, faults>>

-----------------------------------------------------------------------------
(* commit and compact, one call at a time *)

\* The record of the mutation the machine has just applied.
Payload ==
  LET before == history[machine.revision - 1]
      differ == {e \in Entities : machine.entities[e] # before.entities[e]}
  IN Record({e \in differ : machine.entities[e] # 0},
            {e \in differ : machine.entities[e] = 0},
            machine.term, machine.revision)

\* commit returns Ok and the adapter answers the client.
Answer == stage' = "idle" /\ told' = machine.revision

\* Mutant: the result is returned although the commit failed.
PoisonAnswers == stage' = "poisoned" /\ told' = machine.revision

\* commit returns an error, and the adapter refuses every later command and
\* directory read.  Health is still answered, with the revision in memory,
\* which may never become durable; told does not count it.
Poison == stage' = "poisoned" /\ UNCHANGED told

AppendRecord ==
  /\ stage = "append"
  /\ journal' = [journal EXCEPT !.records = Append(@, Payload)]
  /\ named' = IF named = "no" THEN "cached" ELSE named
  /\ stage' = IF named = "no" THEN "sync_new_journal" ELSE "sync_journal"
  /\ UNCHANGED <<machine, repository, snapshot, snapshot_images,
                 journal_synced, told, history, faults>>

ShouldCompact(commits, bytes) ==
  commits >= CompactEvery \/ bytes >= MaxJournal

\* append_synced syncs the file, and the directory of a file it created; a
\* commit that makes compaction due goes on to compact.
SyncJournal ==
  /\ stage \in {"sync_journal", "sync_new_journal"}
  /\ journal_synced' = journal
  /\ IF stage = "sync_new_journal"
       THEN named' = "synced" /\ snapshot_images' = {snapshot}
       ELSE UNCHANGED <<named, snapshot_images>>
  /\ commits_since_compaction' = commits_since_compaction + 1
  /\ journal_bytes' = journal_bytes + 1
  /\ IF ShouldCompact(commits_since_compaction', journal_bytes')
       THEN stage' = "write_snapshot" /\ UNCHANGED told
       ELSE Answer
  /\ UNCHANGED <<machine, compaction_deferred, snapshot, journal, history,
                 faults>>

\* write_snapshot_atomic: a complete temporary file takes the name.
WriteSnapshot ==
  /\ stage = "write_snapshot"
  /\ snapshot' = machine
  /\ snapshot_images' = snapshot_images \cup {machine}
  /\ stage' = "sync_snapshot"
  /\ UNCHANGED <<machine, repository, journal, journal_synced, named, told,
                 history, faults>>

\* Mutant: the directory is not synced after the rename.
SyncSnapshotFileOnly ==
  /\ stage = "sync_snapshot"
  /\ stage' = "truncate"
  /\ UNCHANGED <<machine, repository, disk, told, history, faults>>

SyncSnapshot ==
  /\ stage = "sync_snapshot"
  /\ snapshot_images' = {snapshot}
  /\ named' = IF named = "cached" THEN "synced" ELSE named
  /\ stage' = "truncate"
  /\ UNCHANGED <<machine, repository, snapshot, journal, journal_synced, told,
                 history, faults>>

TruncateJournal ==
  /\ stage = "truncate"
  /\ journal' = NoJournal
  /\ named' = IF named = "no" THEN "cached" ELSE named
  /\ stage' = "sync_truncated"
  /\ UNCHANGED <<machine, repository, snapshot, snapshot_images,
                 journal_synced, told, history, faults>>

SyncTruncated ==
  /\ stage = "sync_truncated"
  /\ journal_synced' = journal
  /\ named' = "synced"
  /\ compaction_deferred' = FALSE
  /\ commits_since_compaction' = 0 /\ journal_bytes' = 0
  /\ Answer
  /\ UNCHANGED <<machine, snapshot, snapshot_images, journal, history, faults>>

\* A failed append may have written part of the record.
AppendFails ==
  /\ stage \in {"append", "sync_journal", "sync_new_journal"}
  /\ failures < MaxFailures /\ failures' = failures + 1
  /\ \/ /\ stage = "append"
        /\ journal' = [journal EXCEPT !.torn = TRUE]
        /\ named' = IF named = "no" THEN "cached" ELSE named
     \/ UNCHANGED <<journal, named>>
  /\ Poison
  /\ UNCHANGED <<machine, repository, snapshot, snapshot_images,
                 journal_synced, history, kills, losses>>

\* Compaction after a durable append is put off to the next commit; a put-off
\* compaction that fails again fails the commit it stands for.
CompactionFails ==
  /\ stage \in {"write_snapshot", "sync_snapshot", "truncate",
                "sync_truncated"}
  /\ failures < MaxFailures /\ failures' = failures + 1
  /\ IF compaction_deferred
       THEN Poison /\ UNCHANGED compaction_deferred
       ELSE Answer /\ compaction_deferred' = TRUE
  /\ UNCHANGED <<machine, commits_since_compaction, journal_bytes, disk,
                 history, kills, losses>>

-----------------------------------------------------------------------------
(* Crashes and recovery *)

StartsWith(records, first) ==
  /\ Len(first) <= Len(records)
  /\ \A i \in 1..Len(first) : records[i] = first[i]

\* What a loss of power may leave of the journal's content: what was synced,
\* or that and some of what was written since, cut anywhere.
JournalImages ==
  LET written == journal.records
      kept == IF StartsWith(written, journal_synced.records)
                THEN Len(journal_synced.records) ELSE 0
  IN {journal_synced, journal} \cup
       {[records |-> SubSeq(written, 1, k), torn |-> cut] :
          k \in kept..(Len(written) - 1), cut \in BOOLEAN}

\* The files a loss of power may leave; a journal whose name was never synced
\* may be gone.
Images ==
  [snapshot : snapshot_images,
   journal : IF named = "synced" THEN JournalImages
                                 ELSE JournalImages \cup {NoJournal}]

Kill ==
  /\ stage \notin {"down", "refused"}
  /\ kills < MaxKills /\ kills' = kills + 1
  /\ MixedCrashes \/ losses = 0
  /\ stage' = "down"
  /\ IF stage = "append"
       THEN \/ UNCHANGED <<journal, named>>
            \/ /\ journal' = [journal EXCEPT !.torn = TRUE]
               /\ named' = IF named = "no" THEN "cached" ELSE named
       ELSE UNCHANGED <<journal, named>>
  /\ UNCHANGED <<machine, repository, snapshot, snapshot_images,
                 journal_synced, told, history, failures, losses>>

PowerLoss ==
  /\ stage # "refused"
  /\ losses < MaxPowerLosses /\ losses' = losses + 1
  /\ MixedCrashes \/ kills = 0
  /\ stage' = "down"
  /\ \E image \in Images :
       /\ snapshot' = image.snapshot /\ snapshot_images' = {image.snapshot}
       /\ journal' = image.journal /\ journal_synced' = image.journal
  /\ named' \in IF named = "cached" THEN {"no", "synced"} ELSE {named}
  /\ named' = "no" => journal' = NoJournal
  /\ UNCHANGED <<machine, repository, told, history, failures, kills>>

\* Mutant: a restart forgets the commits in the journal.
CommitsAfterLoadReset(recovered) == 0

CommitsAfterLoad(recovered) == recovered.revision - snapshot.revision

\* load: read the snapshot, replay the journal, cut off a torn tail and sync.
Load ==
  LET recovered == Recovered(snapshot, journal.records)
      whole == [journal EXCEPT !.torn = FALSE]
  IN /\ stage = "down"
     /\ IF recovered = Unreadable
          THEN /\ stage' = "refused"
               /\ UNCHANGED <<machine, repository, journal, journal_synced,
                              history>>
          ELSE /\ stage' = "idle"
               /\ machine' = recovered
               /\ history' = [r \in 0..recovered.revision |-> history[r]]
               /\ journal' = whole
               /\ journal_synced' = IF journal.torn THEN whole
                                                    ELSE journal_synced
               /\ journal_bytes' = Len(journal.records)
               /\ commits_since_compaction' = CommitsAfterLoad(recovered)
               /\ compaction_deferred' = FALSE
     /\ UNCHANGED <<snapshot, snapshot_images, named, told, faults>>

-----------------------------------------------------------------------------
Serve ==
  \/ ProposeUnchanged
  \/ \E updated, deleted \in SUBSET Entities, advance \in BOOLEAN :
       Propose(updated, deleted, advance)

Persist ==
  \/ AppendRecord \/ SyncJournal
  \/ WriteSnapshot \/ SyncSnapshot \/ TruncateJournal \/ SyncTruncated

Next ==
  \/ Serve \/ Persist
  \/ AppendFails \/ CompactionFails
  \/ Kill \/ PowerLoss \/ Load

Spec == Init /\ [][Next]_vars

-----------------------------------------------------------------------------
(* Properties *)

States ==
  [term : 1..MaxTerm, revision : 0..MaxRevision,
   entities : [Entities -> 0..MaxRevision]]

Stages ==
  {"idle", "append", "sync_journal", "sync_new_journal", "write_snapshot",
   "sync_snapshot", "truncate", "sync_truncated", "poisoned", "down",
   "refused"}

Records ==
  [term : 1..MaxTerm, revision : 1..MaxRevision,
   updated : SUBSET Entities, deleted : SUBSET Entities]

IsJournal(content) ==
  /\ \A i \in DOMAIN content.records : content.records[i] \in Records
  /\ content.torn \in BOOLEAN

\* Every file holds a complete snapshot or whole records and at most a torn
\* tail, and the counters of the repository stay within their bounds.
TypeOK ==
  /\ machine \in States /\ stage \in Stages
  /\ compaction_deferred \in BOOLEAN
  /\ {commits_since_compaction, journal_bytes, told} \subseteq 0..MaxRevision
  /\ snapshot \in States /\ snapshot_images \subseteq States
  /\ IsJournal(journal) /\ IsJournal(journal_synced)
  /\ named \in {"no", "cached", "synced"}
  /\ DOMAIN history \subseteq 0..MaxRevision
  /\ \A r \in DOMAIN history : history[r] \in States

\* A recovered state is one the machine was in, and no older than what a
\* client was answered.
Survives(state) ==
  /\ state # Unreadable
  /\ state.revision \in DOMAIN history
  /\ state = history[state.revision]
  /\ told <= state.revision

\* The same of a loss of power, which may take every unsynced write with it,
\* whatever crash came before.
AnyCrashLosesNothing ==
  \A image \in Images : Survives(Recovered(image.snapshot,
                                           image.journal.records))

\* Whenever the process is killed, between whichever two calls of commit and
\* compact, load rebuilds from the files a state the machine was in that has
\* everything any client was answered.  Where no process was killed before, a
\* loss of power takes nothing either: append_synced and compact sync what
\* they must before the client is answered and the journal is emptied.
CrashLosesNothing ==
  /\ Survives(Recovered(snapshot, journal.records))
  /\ kills = 0 => AnyCrashLosesNothing

\* Between commands the repository counts no less than what is in the journal
\* and what the snapshot lacks, also after a failed compaction and a restart,
\* so that compaction falls due in time.
CompactionFallsDue ==
  stage = "idle" =>
    /\ Len(journal.records) <= journal_bytes
    /\ machine.revision - snapshot.revision <= commits_since_compaction

\* The states a client may rely on: those the machine has gone through, or
\* while no process runs those the files lead to.
Log ==
  LET recovered == Recovered(snapshot, journal.records)
  IN IF stage \in {"down", "refused"}
       THEN [r \in 0..recovered.revision |->
               IF r = recovered.revision THEN recovered ELSE history[r]]
       ELSE history

\* The repository implements a log whose crashes drop only states that no
\* client has been told of.
Durable == INSTANCE DurableLog WITH States <- States, log <- Log
ImplementsDurableLog == Durable!Spec

=============================================================================
