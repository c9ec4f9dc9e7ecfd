----------------------- MODULE JournalRepositoryProofs ----------------------
(***************************************************************************)
(* The standalone broker's durable path, for any entities, any compaction  *)
(* policy and any number of failures and crashes.                          *)
(***************************************************************************)
EXTENDS JournalRepository, WellFoundedInduction, TLAPS

\* The prover of a step that names none.
USE ZenonT(30)

-----------------------------------------------------------------------------
(* What files lead to *)

JournalContents == [records : Seq(Records), torn : BOOLEAN]

\* A state the machine was in.
Past(state) ==
  state.revision \in DOMAIN history /\ state = history[state.revision]

\* A record that leads from one state of the history to the next.
Leads(record) ==
  /\ history[record.revision] = Applied(history[record.revision - 1], record)
  /\ ~Refuses(history[record.revision - 1], record)

\* Records in the order of their revisions; each that is newer than the state
\* leads on from the state or from the record before it.
Follows(state, records) ==
  /\ \A i \in 1..Len(records) : records[i].revision <= machine.revision
  /\ \A i, j \in 1..Len(records) :
       i < j => records[i].revision < records[j].revision
  /\ \A i \in 1..Len(records) : records[i].revision > state.revision =>
       /\ Leads(records[i])
       /\ \/ records[i].revision = state.revision + 1
          \/ i > 1 /\ records[i].revision = records[i - 1].revision + 1

\* The revision that a snapshot and the first n records lead to.
ReachOf(state, records, n) ==
  IF n > 0 /\ records[n].revision > state.revision
    THEN records[n].revision ELSE state.revision

Reach(state, records) == ReachOf(state, records, Len(records))

-----------------------------------------------------------------------------
(* The inductive invariant *)

HistoryOK ==
  /\ machine.revision \in 0..MaxRevision
  /\ DOMAIN history = 0..machine.revision
  /\ machine = history[machine.revision]
  /\ \A r \in 0..machine.revision :
       /\ history[r] \in States /\ history[r].revision = r
       /\ \A e \in Entities : history[r].entities[e] <= r
  /\ \A r \in 1..machine.revision :
       /\ history[r - 1].term <= history[r].term
       /\ \A e \in Entities :
            history[r].entities[e] \in {0, r, history[r - 1].entities[e]}

\* The contents a crash may leave: of a kill what every process sees, of a loss
\* of power, as long as no process was killed, also what was not yet replaced.
Snapshots == IF kills = 0 THEN snapshot_images ELSE {snapshot}
Journals ==
  {journal.records} \cup IF kills = 0 THEN {journal_synced.records} ELSE {}

FilesOK ==
  /\ snapshot \in Snapshots
  /\ journal \in JournalContents /\ journal_synced \in JournalContents
  /\ told \in Nat
  /\ \A a \in Snapshots : Past(a)
  /\ \A a \in Snapshots, rs \in Journals :
       Follows(a, rs) /\ told <= Reach(a, rs)

Syncing == {"sync_journal", "sync_new_journal"}
Compacting == {"write_snapshot", "sync_snapshot", "truncate", "sync_truncated"}

AllReach(revision) ==
  \A a \in Snapshots, rs \in Journals : Reach(a, rs) = revision

StageOK ==
  /\ stage \in Stages \ {"refused"} /\ compaction_deferred \in BOOLEAN
  /\ stage = "idle" => AllReach(machine.revision)
  /\ stage = "append" => machine.revision # 0 /\ AllReach(machine.revision - 1)
  /\ stage \in Syncing =>
       /\ Len(journal.records) > 0
       /\ journal.records[Len(journal.records)].revision = machine.revision
  /\ stage \in {"append"} \cup Syncing => ~compaction_deferred
  /\ stage \in {"write_snapshot", "sync_snapshot"} /\ ~compaction_deferred
       => AllReach(machine.revision)
  /\ stage \in {"sync_snapshot", "truncate", "sync_truncated"}
       => snapshot = machine
  /\ stage \in {"truncate", "sync_truncated"}
       => \A a \in Snapshots : a.revision = machine.revision
  /\ stage = "sync_truncated" => journal.records = <<>>

\* What a loss of power relies on.
PowerOK ==
  kills = 0 =>
    /\ \/ StartsWith(journal.records, journal_synced.records)
       \/ /\ journal.records = <<>>
          /\ stage = "sync_truncated" \/ compaction_deferred
    /\ stage = "down" =>
         snapshot_images = {snapshot} /\ journal_synced = journal
    /\ named \in {"no", "cached", "synced"}
    /\ named = "no" => journal.records = <<>> /\ journal_synced.records = <<>>
    /\ named = "cached" => stage \in {"sync_new_journal", "poisoned"}
    /\ named # "synced" => \A a \in snapshot_images : told <= a.revision
    /\ stage \in Compacting \/ compaction_deferred => named = "synced"

\* The counters lag behind only while a commit is under way.
CountersOK ==
  /\ commits_since_compaction \in Nat /\ journal_bytes \in Nat
  /\ stage \notin {"poisoned", "down"} =>
       /\ Len(journal.records)
            <= journal_bytes + IF stage \in Syncing THEN 1 ELSE 0
       /\ machine.revision <= snapshot.revision + commits_since_compaction
            + IF \/ stage \in {"append"} \cup Syncing
                 \/ stage \in Compacting /\ compaction_deferred
                THEN 1 ELSE 0

FaultsOK == failures \in Nat /\ kills \in Nat /\ losses \in Nat

JournalInv ==
  HistoryOK /\ FilesOK /\ StageOK /\ PowerOK /\ CountersOK /\ FaultsOK

-----------------------------------------------------------------------------
(* Induction, as a fact about the set of numbers a statement holds of *)

LEMMA Induction ==
  ASSUME NEW S, 0 \in S, \A n \in Nat : n \in S => n + 1 \in S
  PROVE  Nat \subseteq S
<1> DEFINE T == Nat \ S
<1> DEFINE Before == OpToRel(<, Nat)
<1> SUFFICES ASSUME T # {} PROVE FALSE
  OBVIOUS
<1>1. PICK x \in T : \A y \in T : ~(<<y, x>> \in Before)
  <2>1. T \subseteq Nat
    OBVIOUS
  <2>2. IsWellFoundedOn(Before, Nat)
    BY NatLessThanWellFounded
  <2> HIDE DEF T, Before
  <2> QED BY <2>1, <2>2, WFMin
<1>2. x \in Nat /\ x # 0 /\ x - 1 \in Nat /\ x - 1 < x
  BY SMTT(30)
<1>3. <<x - 1, x>> \in Before
  BY <1>2 DEF OpToRel
<1>4. x - 1 \in T
  BY <1>2, SMTT(30)
<1> QED BY <1>1, <1>3, <1>4

-----------------------------------------------------------------------------
(* Recovery *)

LEMMA Types ==
  ASSUME HistoryOK
  PROVE  /\ machine.revision \in Nat
         /\ \A a : Past(a) => /\ a \in States /\ a.revision \in 0..machine.revision
                              /\ a.revision \in Nat
         /\ \A rs \in Seq(Records) : /\ Len(rs) \in Nat
                                     /\ \A i \in 1..Len(rs) :
                                          rs[i] \in Records /\ rs[i].revision \in Nat
<1>1. MaxRevision \in Nat
  BY RepositoryAssumption, SMTT(30)
<1>2. machine.revision \in Nat
  BY <1>1, SMTT(30) DEF HistoryOK
<1>3. ASSUME NEW a, Past(a)
      PROVE  a \in States /\ a.revision \in 0..machine.revision /\ a.revision \in Nat
  <2>1. a.revision \in 0..machine.revision /\ a = history[a.revision]
    BY <1>3 DEF Past, HistoryOK
  <2>2. a \in States
    BY <2>1 DEF HistoryOK
  <2> QED BY <1>2, <2>1, <2>2, SMTT(30)
<1>4. ASSUME NEW rs \in Seq(Records)
      PROVE  /\ Len(rs) \in Nat
             /\ \A i \in 1..Len(rs) : rs[i] \in Records /\ rs[i].revision \in Nat
  <2>1. Len(rs) \in Nat /\ \A i \in 1..Len(rs) : rs[i] \in Records
    BY SMTT(30)
  <2>2. \A r \in Records : r.revision \in Nat
    BY <1>1, SMTT(30) DEF Records
  <2> QED BY <2>1, <2>2
<1> QED BY <1>2, <1>3, <1>4

\* Where the first n records lead lies between the state and the machine, and
\* more records lead as far or further.
LEMMA ReachBounds ==
  ASSUME HistoryOK, NEW a, Past(a), NEW rs \in Seq(Records), Follows(a, rs)
  PROVE  /\ \A n \in 0..Len(rs) :
              /\ ReachOf(a, rs, n) \in a.revision..machine.revision
              /\ ReachOf(a, rs, n) \in Nat
         /\ \A m, n \in 0..Len(rs) :
              m <= n => ReachOf(a, rs, m) <= ReachOf(a, rs, n)
         /\ \A i \in 1..Len(rs) : rs[i].revision <= Reach(a, rs)
         /\ Reach(a, rs) \in a.revision..machine.revision /\ Reach(a, rs) \in Nat
<1>1. /\ machine.revision \in Nat /\ a.revision \in Nat
      /\ a.revision <= machine.revision /\ Len(rs) \in Nat
      /\ \A i \in 1..Len(rs) : rs[i].revision \in Nat
  BY Types, SMTT(30)
<1>2. /\ \A i \in 1..Len(rs) : rs[i].revision <= machine.revision
      /\ \A i, j \in 1..Len(rs) : i < j => rs[i].revision < rs[j].revision
  BY DEF Follows
<1>3. \A n \in 0..Len(rs) :
        /\ ReachOf(a, rs, n) \in a.revision..machine.revision
        /\ ReachOf(a, rs, n) \in Nat
  BY <1>1, <1>2, SMTT(30) DEF ReachOf
<1>4. \A m, n \in 0..Len(rs) : m <= n => ReachOf(a, rs, m) <= ReachOf(a, rs, n)
  BY <1>1, <1>2, SMTT(30) DEF ReachOf
<1>5. \A i \in 1..Len(rs) : rs[i].revision <= ReachOf(a, rs, Len(rs))
  BY <1>1, <1>2, SMTT(30) DEF ReachOf
<1>6. Len(rs) \in 0..Len(rs)
  BY <1>1, SMTT(30)
<1> QED BY <1>3, <1>4, <1>5, <1>6 DEF Reach

\* One more record either is one the state has, or leads to the next state.
LEMMA ReachStep ==
  ASSUME HistoryOK, NEW a, Past(a), NEW rs \in Seq(Records), Follows(a, rs),
         NEW n \in 1..Len(rs)
  PROVE  \/ /\ rs[n].revision <= ReachOf(a, rs, n - 1)
            /\ ReachOf(a, rs, n) = ReachOf(a, rs, n - 1)
         \/ /\ rs[n].revision = ReachOf(a, rs, n - 1) + 1
            /\ ReachOf(a, rs, n) = rs[n].revision
            /\ Leads(rs[n])
<1>1. /\ machine.revision \in Nat /\ a.revision \in Nat /\ Len(rs) \in Nat
      /\ \A i \in 1..Len(rs) : rs[i].revision \in Nat
  BY Types
<1>2. n - 1 > 0 => n - 1 \in 1..Len(rs) /\ rs[n - 1].revision < rs[n].revision
  BY <1>1, SMTT(30) DEF Follows
<1>3. rs[n].revision > a.revision =>
        /\ Leads(rs[n])
        /\ \/ rs[n].revision = a.revision + 1
           \/ n > 1 /\ rs[n].revision = rs[n - 1].revision + 1
  BY DEF Follows
<1> QED BY <1>1, <1>2, <1>3, SMTT(30) DEF ReachOf

\* load rebuilds the state of the machine that the files lead to.
LEMMA RecoveredIs ==
  ASSUME HistoryOK, NEW a, Past(a), NEW rs \in Seq(Records), Follows(a, rs)
  PROVE  Recovered(a, rs) = history[Reach(a, rs)]
<1> DEFINE g == [n \in 0..Len(rs) |-> history[ReachOf(a, rs, n)]]
           Loop(f) == [n \in 0..Len(rs) |->
                         IF n = 0 THEN a ELSE Replay(f[n - 1], rs[n])]
<1>1. Len(rs) \in Nat /\ 0 \in 0..Len(rs) /\ Len(rs) \in 0..Len(rs)
  <2>1. Len(rs) \in Nat
    BY Types
  <2> QED BY <2>1, SMTT(30)
<1>2. ASSUME NEW n \in 0..Len(rs), n # 0
      PROVE  n \in 1..Len(rs) /\ n - 1 \in 0..Len(rs) /\ n \in Nat /\ n - 1 \in Nat
  BY <1>1, <1>2, SMTT(30)
<1>3. ASSUME NEW n \in 0..Len(rs), n # 0
      PROVE  Replay(g[n - 1], rs[n]) = g[n]
  <2> DEFINE m == ReachOf(a, rs, n - 1)
             c == history[m]
             k == rs[n].revision
  <2>1. n \in 1..Len(rs) /\ n - 1 \in 0..Len(rs)
    BY <1>2, <1>3
  <2>2. g[n - 1] = c /\ g[n] = history[ReachOf(a, rs, n)]
    BY <2>1
  <2>3. m \in Nat /\ m \in 0..machine.revision /\ k \in Nat
    <3>1. m \in a.revision..machine.revision /\ m \in Nat
      BY <2>1, ReachBounds
    <3>2. machine.revision \in Nat /\ a.revision \in Nat /\ k \in Nat
      BY <2>1, Types
    <3> HIDE DEF m, k
    <3> QED BY <3>1, <3>2, SMTT(30)
  <2>4. c \in States /\ c.revision = m
    BY <2>3 DEF HistoryOK
  <2>5. c # Unreadable
    <3>1. c.term \in 1..MaxTerm
      BY <2>4 DEF States
    <3>2. Unreadable.term = 0
      BY DEF Unreadable
    <3>3. 0 \notin 1..MaxTerm
      BY RepositoryAssumption, SMTT(30)
    <3> QED BY <3>1, <3>2, <3>3
  <2>6. CASE k <= m /\ ReachOf(a, rs, n) = m
    <3> HIDE DEF m, c, k, g
    <3>1. Replay(c, rs[n]) = c
      <4>1. ~(k > m)
        BY <2>3, <2>6, SMTT(30)
      <4>2. ~Refuses(c, rs[n])
        BY <2>4, <4>1 DEF Refuses, k
      <4> QED BY <2>4, <2>5, <2>6, <4>2 DEF Replay, k
    <3> QED BY <2>2, <2>6, <3>1 DEF c
  <2>7. CASE k = m + 1 /\ ReachOf(a, rs, n) = k /\ Leads(rs[n])
    <3>1. ~(k <= m) /\ k - 1 = m
      BY <2>3, <2>7, SMTT(30)
    <3>2. history[k] = Applied(c, rs[n]) /\ ~Refuses(c, rs[n])
      <4>1. /\ history[k] = Applied(history[k - 1], rs[n])
            /\ ~Refuses(history[k - 1], rs[n])
        BY <2>7 DEF Leads
      <4> HIDE DEF k, m, g
      <4> QED BY <3>1, <4>1
    <3> HIDE DEF m, c, k, g
    <3>3. Replay(c, rs[n]) = Applied(c, rs[n])
      BY <2>4, <2>5, <3>1, <3>2 DEF Replay, k
    <3> QED BY <2>2, <2>7, <3>2, <3>3
  <2>8. \/ k <= m /\ ReachOf(a, rs, n) = m
        \/ k = m + 1 /\ ReachOf(a, rs, n) = k /\ Leads(rs[n])
    <3> HIDE DEF g
    <3> QED BY <2>1, ReachStep
  <2> QED BY <2>6, <2>7, <2>8
<1>4. g[0] = a
  <2>1. ReachOf(a, rs, 0) = a.revision
    BY SMTT(30) DEF ReachOf
  <2> QED BY <1>1, <2>1 DEF Past
<1>5. g = Loop(g)
  <2> HIDE DEF g
  <2>1. \A n \in 0..Len(rs) : g[n] = Loop(g)[n]
    BY <1>3, <1>4
  <2>2. g = [n \in 0..Len(rs) |-> g[n]]
    BY DEF g
  <2> QED BY <2>1, <2>2
<1>6. ASSUME NEW f, f = Loop(f)
      PROVE  f[Len(rs)] = g[Len(rs)]
  <2> DEFINE S == {n \in Nat : n \in 0..Len(rs) => f[n] = g[n]}
  <2>1. \A n \in 0..Len(rs) : f[n] = IF n = 0 THEN a ELSE Replay(f[n - 1], rs[n])
    <3> HIDE DEF g
    <3>1. \A n \in 0..Len(rs) :
            Loop(f)[n] = IF n = 0 THEN a ELSE Replay(f[n - 1], rs[n])
      OBVIOUS
    <3> HIDE DEF Loop
    <3> QED BY <1>6, <3>1
  <2> HIDE DEF g, Loop
  <2>2. 0 \in S
    <3>1. 0 \in Nat
      BY SMTT(30)
    <3> QED BY <1>1, <1>4, <2>1, <3>1
  <2>3. ASSUME NEW n \in Nat, n \in S PROVE n + 1 \in S
    <3>1. n + 1 \in Nat /\ n + 1 # 0 /\ (n + 1) - 1 = n
      BY SMTT(30)
    <3>2. n + 1 \in 0..Len(rs) => n \in 0..Len(rs)
      BY <1>1, SMTT(30)
    <3>3. n + 1 \in 0..Len(rs) => f[n + 1] = Replay(f[n], rs[n + 1])
      BY <2>1, <3>1
    <3>4. n + 1 \in 0..Len(rs) => g[n + 1] = Replay(g[n], rs[n + 1])
      BY <1>3, <3>1
    <3> QED BY <2>3, <3>1, <3>2, <3>3, <3>4
  <2>4. Nat \subseteq S
    <3> HIDE DEF S
    <3> QED BY <2>2, <2>3, Induction
  <2> QED BY <1>1, <2>4
<1>7. Recovered(a, rs) = g[Len(rs)]
  <2> HIDE DEF g
  <2> DEFINE after == CHOOSE f : f = Loop(f)
  <2>1. after = Loop(after)
    <3> HIDE DEF Loop
    <3> QED BY <1>5
  <2>2. Recovered(a, rs) = after[Len(rs)]
    BY DEF Recovered
  <2> HIDE DEF after, Loop
  <2> QED BY <1>6, <2>1, <2>2
<1> QED BY <1>1, <1>7 DEF Reach

-----------------------------------------------------------------------------
(* What keeps files in order *)

\* Files that lead no further than the machine stay in order while the history
\* up to where they lead stays.
LEMMA FollowsKept ==
  ASSUME HistoryOK, machine'.revision \in Nat,
         DOMAIN history' = 0..machine'.revision,
         \A r \in 0..machine.revision :
           r <= machine'.revision => history'[r] = history[r],
         NEW a, Past(a), NEW rs \in Seq(Records), Follows(a, rs),
         Reach(a, rs) <= machine'.revision
  PROVE  Past(a)' /\ Follows(a, rs)'
<1>1. /\ machine.revision \in Nat /\ a.revision \in Nat /\ Len(rs) \in Nat
      /\ a.revision \in 0..machine.revision
      /\ \A i \in 1..Len(rs) : rs[i].revision \in Nat
  BY Types
<1>2. /\ \A i \in 1..Len(rs) : rs[i].revision <= Reach(a, rs)
      /\ Reach(a, rs) \in a.revision..machine.revision /\ Reach(a, rs) \in Nat
  BY ReachBounds
<1>3. a.revision \in 0..machine'.revision /\ a.revision <= machine'.revision
  BY <1>1, <1>2, SMTT(30)
<1>4. Past(a)'
  BY <1>1, <1>3 DEF Past
<1>5. \A i \in 1..Len(rs) : rs[i].revision <= machine'.revision
  BY <1>1, <1>2, SMTT(30)
<1>6. ASSUME NEW i \in 1..Len(rs), rs[i].revision > a.revision, Leads(rs[i])
      PROVE  Leads(rs[i])'
  <2> DEFINE k == rs[i].revision
  <2>1. /\ k \in 0..machine.revision /\ k <= machine'.revision
        /\ k - 1 \in 0..machine.revision /\ k - 1 <= machine'.revision
    BY <1>1, <1>2, <1>5, <1>6, SMTT(30)
  <2>2. history'[k] = history[k] /\ history'[k - 1] = history[k - 1]
    BY <2>1
  <2> QED BY <1>6, <2>2 DEF Leads
<1>7. Follows(a, rs)'
  BY <1>5, <1>6 DEF Follows
<1> QED BY <1>4, <1>7

\* Fewer of the records are in order too.
LEMMA PrefixFollows ==
  ASSUME HistoryOK, NEW a, Past(a), NEW rs \in Seq(Records), Follows(a, rs),
         NEW first \in Seq(Records), StartsWith(rs, first)
  PROVE  /\ Follows(a, first)
         /\ Reach(a, first) = ReachOf(a, rs, Len(first))
         /\ Len(first) \in 0..Len(rs)
<1>1. Len(rs) \in Nat /\ Len(first) \in Nat /\ Len(first) <= Len(rs)
  BY SMTT(30) DEF StartsWith
<1>2. \A i \in 1..Len(first) : /\ i \in 1..Len(rs) /\ first[i] = rs[i]
                               /\ i > 1 => i - 1 \in 1..Len(first)
  BY <1>1, SMTT(30) DEF StartsWith
<1>3. Follows(a, first)
  <2>1. \A i \in 1..Len(first) : first[i].revision <= machine.revision
    BY <1>2 DEF Follows
  <2>2. \A i, j \in 1..Len(first) : i < j => first[i].revision < first[j].revision
    BY <1>2 DEF Follows
  <2>3. ASSUME NEW i \in 1..Len(first), first[i].revision > a.revision
        PROVE  /\ Leads(first[i])
               /\ \/ first[i].revision = a.revision + 1
                  \/ i > 1 /\ first[i].revision = first[i - 1].revision + 1
    <3>1. /\ Leads(rs[i])
          /\ \/ rs[i].revision = a.revision + 1
             \/ i > 1 /\ rs[i].revision = rs[i - 1].revision + 1
      BY <1>2, <2>3 DEF Follows
    <3> QED BY <1>2, <3>1
  <2> QED BY <2>1, <2>2, <2>3 DEF Follows
<1>4. Reach(a, first) = ReachOf(a, rs, Len(first))
  <2>1. Len(first) > 0 => Len(first) \in 1..Len(first)
    BY <1>1, SMTT(30)
  <2>2. Len(first) > 0 => first[Len(first)] = rs[Len(first)]
    BY <1>2, <2>1
  <2> QED BY <2>2 DEF Reach, ReachOf
<1> QED BY <1>1, <1>3, <1>4, SMTT(30)

LEMMA EmptyFollows ==
  ASSUME NEW a
  PROVE  Follows(a, <<>>) /\ Reach(a, <<>>) = a.revision
<1>1. Len(<<>>) = 0 /\ 1..0 = {} /\ ~(0 > 0)
  BY SMTT(30)
<1> QED BY <1>1 DEF Follows, Reach, ReachOf

\* The record of the machine's last step leads on from files that lead to the
\* step before it.
LEMMA AppendFollows ==
  ASSUME HistoryOK, NEW a, Past(a), NEW rs \in Seq(Records), Follows(a, rs),
         NEW p \in Records, Leads(p), p.revision = machine.revision,
         Reach(a, rs) = machine.revision - 1
  PROVE  /\ Follows(a, Append(rs, p))
         /\ Reach(a, Append(rs, p)) = machine.revision
<1> DEFINE all == Append(rs, p)
           l == Len(rs)
<1>1. /\ machine.revision \in Nat /\ a.revision \in Nat /\ l \in Nat
      /\ a.revision <= machine.revision - 1
      /\ \A i \in 1..l : /\ rs[i].revision \in Nat
                         /\ rs[i].revision <= machine.revision - 1
  <2>1. /\ machine.revision \in Nat /\ a.revision \in Nat /\ l \in Nat
        /\ \A i \in 1..l : rs[i].revision \in Nat
    BY Types
  <2>2. /\ \A i \in 1..l : rs[i].revision <= Reach(a, rs)
        /\ Reach(a, rs) \in a.revision..machine.revision
    BY ReachBounds
  <2> QED BY <2>1, <2>2, SMTT(30)
<1>2. /\ Len(all) = l + 1 /\ all[l + 1] = p
      /\ \A i \in 1..l : all[i] = rs[i]
  BY SMTT(30)
<1>3. \A i \in 1..Len(all) : i = l + 1 \/ i \in 1..l
  BY <1>1, <1>2, SMTT(30)
<1> HIDE DEF all
<1>4. \A i \in 1..Len(all) : all[i].revision <= machine.revision
  BY <1>1, <1>2, <1>3, SMTT(30)
<1>5. \A i, j \in 1..Len(all) : i < j => all[i].revision < all[j].revision
  <2>1. \A i, j \in 1..l : i < j => rs[i].revision < rs[j].revision
    BY DEF Follows
  <2> QED BY <1>1, <1>2, <1>3, <2>1, SMTT(30)
<1>6. ASSUME NEW i \in 1..Len(all), all[i].revision > a.revision
      PROVE  /\ Leads(all[i])
             /\ \/ all[i].revision = a.revision + 1
                \/ i > 1 /\ all[i].revision = all[i - 1].revision + 1
  <2>1. CASE i \in 1..l
    <3>1. /\ Leads(rs[i])
          /\ \/ rs[i].revision = a.revision + 1
             \/ i > 1 /\ rs[i].revision = rs[i - 1].revision + 1
      BY <1>2, <1>6, <2>1 DEF Follows
    <3>2. i > 1 => i - 1 \in 1..l
      BY <1>1, <2>1, SMTT(30)
    <3> QED BY <1>2, <2>1, <3>1, <3>2
  <2>2. CASE i = l + 1
    <3>1. \/ a.revision = machine.revision - 1
          \/ l > 0 /\ rs[l].revision = machine.revision - 1
      BY DEF Reach, ReachOf
    <3>2. (l + 1) - 1 = l /\ (l > 0 => l + 1 > 1 /\ l \in 1..l)
      BY <1>1, SMTT(30)
    <3>3. l > 0 => all[i - 1] = rs[l]
      BY <1>2, <2>2, <3>2
    <3>4. \/ machine.revision = a.revision + 1
          \/ l > 0 /\ machine.revision = rs[l].revision + 1
      BY <1>1, <3>1, <3>2, SMTT(30)
    <3> QED BY <1>2, <2>2, <3>2, <3>3, <3>4
  <2> QED BY <1>3, <2>1, <2>2
<1>7. Follows(a, all)
  BY <1>4, <1>5, <1>6 DEF Follows
<1>8. Reach(a, all) = machine.revision
  BY <1>1, <1>2, SMTT(30) DEF Reach, ReachOf
<1> QED BY <1>7, <1>8 DEF all

\* The record that commit writes leads from the machine's state before its last
\* step to the machine's state.
LEMMA PayloadLeads ==
  ASSUME HistoryOK, machine.revision # 0
  PROVE  Payload \in Records /\ Payload.revision = machine.revision /\ Leads(Payload)
<1> DEFINE R == machine.revision
           before == history[R - 1]
           differ == {e \in Entities : machine.entities[e] # before.entities[e]}
           up == {e \in differ : machine.entities[e] # 0}
           del == {e \in differ : machine.entities[e] = 0}
<1>1. /\ R \in 1..MaxRevision /\ R \in Nat /\ R - 1 \in 0..R /\ R \in 0..R
      /\ (R - 1) + 1 = R /\ R \in 1..R /\ ~(R <= R - 1)
  <2>1. R \in 0..MaxRevision /\ MaxRevision \in Nat
    BY RepositoryAssumption DEF HistoryOK
  <2> QED BY <2>1, SMTT(30)
<1>2. machine \in States /\ machine = history[R] /\ before \in States
      /\ before.revision = R - 1
  BY <1>1 DEF HistoryOK
<1>3. /\ machine.term \in 1..MaxTerm /\ before.term \in 1..MaxTerm
      /\ before.term <= machine.term
      /\ \A e \in Entities : /\ machine.entities[e] \in {0, R, before.entities[e]}
                             /\ before.entities[e] <= R - 1
                             /\ before.entities[e] \in Nat
  <2>1. machine.term \in 1..MaxTerm /\ before.term \in 1..MaxTerm
    BY <1>2 DEF States
  <2>2. \A e \in Entities : before.entities[e] \in 0..MaxRevision
    BY <1>2 DEF States
  <2>3. \A m \in 0..MaxRevision : m \in Nat
    BY SMTT(30)
  <2> QED BY <1>1, <1>2, <2>1, <2>2, <2>3 DEF HistoryOK
<1>4. Payload = Record(up, del, machine.term, R)
  BY DEF Payload
<1> HIDE DEF R, before
<1>5. /\ Payload.term = machine.term /\ Payload.revision = R
      /\ Payload.updated = up /\ Payload.deleted = del
  BY <1>4 DEF Record
<1>6. Payload \in Records
  <2>1. up \in SUBSET Entities /\ del \in SUBSET Entities
    OBVIOUS
  <2> HIDE DEF up, del
  <2> QED BY <1>1, <1>3, <1>4, <2>1 DEF Record, Records
<1>7. Applied(before, Payload) = machine
  <2> DEFINE es == [e \in Entities |->
                      CASE e \in Payload.deleted -> 0
                        [] e \in Payload.updated -> Payload.revision
                        [] OTHER                 -> before.entities[e]]
  <2>1. ASSUME NEW e \in Entities PROVE es[e] = machine.entities[e]
    <3>1. CASE e \in del
      BY <1>5, <3>1
    <3>2. CASE e \in up
      <4>1. e \notin del /\ machine.entities[e] = R
        BY <1>3, <3>2
      <4> HIDE DEF up, del
      <4> QED BY <1>5, <3>2, <4>1
    <3>3. CASE e \notin up /\ e \notin del
      <4>1. machine.entities[e] = before.entities[e]
        BY <3>3
      <4> HIDE DEF up, del
      <4> QED BY <1>5, <3>3, <4>1
    <3> QED BY <3>1, <3>2, <3>3
  <2>2. machine.entities = [e \in Entities |-> machine.entities[e]]
    BY <1>2 DEF States
  <2>3. es = machine.entities
    BY <2>1, <2>2
  <2>4. machine = [term |-> machine.term, revision |-> machine.revision,
                   entities |-> machine.entities]
    BY <1>2 DEF States
  <2>5. Applied(before, Payload) =
          [term |-> Payload.term, revision |-> Payload.revision, entities |-> es]
    BY DEF Applied
  <2> HIDE DEF es
  <2> QED BY <1>5, <2>3, <2>4, <2>5 DEF R
<1>8. ~Refuses(before, Payload)
  <2>1. Payload.revision = before.revision + 1
    BY <1>1, <1>2, <1>5
  <2>2. ~(Payload.term < before.term)
    <3>1. MaxTerm \in Nat
      BY RepositoryAssumption
    <3>2. \A s, t \in 1..MaxTerm : s <= t => ~(t < s)
      BY <3>1, SMTT(30)
    <3> QED BY <1>3, <1>5, <3>2
  <2>3. ASSUME NEW e \in Payload.updated PROVE ~(Payload.revision < before.entities[e])
    <3>1. before.entities[e] <= R - 1 /\ before.entities[e] \in Nat
      BY <1>3, <1>5
    <3>2. \A k \in Nat : k <= R - 1 => ~(R < k)
      BY <1>1, SMTT(30)
    <3> QED BY <1>5, <3>1, <3>2
  <2> QED BY <2>1, <2>2, <2>3 DEF Refuses
<1>9. Leads(Payload)
  BY <1>2, <1>5, <1>7, <1>8 DEF Leads, before
<1> QED BY <1>5, <1>6, <1>9 DEF R

\* Files in order lead load to a state the machine was in.
LEMMA FilesSurvive ==
  ASSUME HistoryOK, told \in Nat, NEW a, Past(a), NEW rs \in Seq(Records),
         Follows(a, rs), told <= Reach(a, rs)
  PROVE  /\ Survives(Recovered(a, rs))
         /\ Recovered(a, rs).revision = Reach(a, rs)
         /\ Recovered(a, rs) \in States
<1> DEFINE k == Reach(a, rs)
<1>1. k \in 0..machine.revision /\ Recovered(a, rs) = history[k]
  <2>1. k \in a.revision..machine.revision
    BY ReachBounds
  <2>2. a.revision \in Nat /\ machine.revision \in Nat
    BY Types
  <2>3. k \in 0..machine.revision
    <3> HIDE DEF k
    <3> QED BY <2>1, <2>2, SMTT(30)
  <2> QED BY <2>3, RecoveredIs
<1>2. history[k] \in States /\ history[k].revision = k /\ k \in DOMAIN history
  BY <1>1 DEF HistoryOK
<1>3. history[k] # Unreadable
  <2>1. history[k].term \in 1..MaxTerm /\ Unreadable.term = 0
    BY <1>2 DEF States, Unreadable
  <2>2. 0 \notin 1..MaxTerm
    BY RepositoryAssumption, SMTT(30)
  <2> QED BY <2>1, <2>2
<1> QED BY <1>1, <1>2, <1>3 DEF Survives

\* What a loss of power leaves, where no process was killed, is in order and
\* leads to what any client was told of.
LEMMA ImageFollows ==
  ASSUME HistoryOK, FilesOK, PowerOK, kills = 0, NEW image \in Images
  PROVE  /\ image.snapshot \in snapshot_images /\ Past(image.snapshot)
         /\ image.journal \in JournalContents
         /\ Follows(image.snapshot, image.journal.records)
         /\ told <= Reach(image.snapshot, image.journal.records)
         /\ image.journal.records = <<>> => told <= image.snapshot.revision
<1> DEFINE a == image.snapshot
           seen == journal.records
           synced == journal_synced.records
<1>1. /\ a \in snapshot_images
      /\ \/ image.journal \in JournalImages
         \/ named # "synced" /\ image.journal = NoJournal
  BY DEF Images
<1>2. /\ seen \in Seq(Records) /\ synced \in Seq(Records)
      /\ journal \in JournalContents /\ journal_synced \in JournalContents
      /\ Past(a)
      /\ Follows(a, seen) /\ told <= Reach(a, seen)
      /\ Follows(a, synced) /\ told <= Reach(a, synced)
  <2>1. Snapshots = snapshot_images /\ seen \in Journals /\ synced \in Journals
    BY DEF Snapshots, Journals
  <2> QED BY <1>1, <2>1 DEF FilesOK, JournalContents
<1>3. told \in Nat /\ Len(seen) \in Nat /\ Len(synced) \in Nat
  BY <1>2, Types DEF FilesOK
<1> HIDE DEF a, seen, synced
<1>4. image.journal \in JournalContents
      /\ Follows(a, image.journal.records) /\ told <= Reach(a, image.journal.records)
  <2>1. CASE image.journal \in {journal, journal_synced}
    BY <1>2, <2>1 DEF seen, synced
  <2>2. CASE named # "synced" /\ image.journal = NoJournal
    <3>1. image.journal.records = <<>> /\ image.journal \in JournalContents
      <4>1. <<>> \in Seq(Records)
        BY SMTT(30)
      <4> QED BY <2>2, <4>1, SMTT(30) DEF NoJournal, JournalContents
    <3>2. told <= a.revision
      BY <1>1, <2>2 DEF PowerOK
    <3> QED BY <3>1, <3>2, EmptyFollows
  <2>3. ASSUME NEW cut \in BOOLEAN,
               NEW k \in (IF StartsWith(seen, synced) THEN Len(synced) ELSE 0)..(Len(seen) - 1),
               image.journal = [records |-> SubSeq(seen, 1, k), torn |-> cut]
        PROVE  image.journal \in JournalContents
               /\ Follows(a, image.journal.records)
               /\ told <= Reach(a, image.journal.records)
    <3> DEFINE first == SubSeq(seen, 1, k)
    <3>1. StartsWith(seen, synced) /\ k \in Len(synced)..(Len(seen) - 1)
      <4>1. \/ StartsWith(seen, synced)
            \/ seen = <<>>
        BY DEF PowerOK, seen, synced
      <4>2. seen # <<>>
        <5>1. Len(<<>>) = 0 /\ \A i \in Nat : ~(i \in 0..(0 - 1))
          BY SMTT(30)
        <5>2. k \in Nat /\ k \in 0..(Len(seen) - 1)
          BY <1>3, <2>3, SMTT(30)
        <5> QED BY <5>1, <5>2
      <4> QED BY <2>3, <4>1, <4>2
    <3>2. k \in 0..Len(seen) /\ Len(synced) <= k /\ k \in Nat /\ Len(synced) \in 0..Len(seen)
      BY <1>3, <3>1, SMTT(30)
    <3>3. /\ first \in Seq(Records) /\ Len(first) = k
          /\ \A i \in 1..k : first[i] = seen[i]
      BY <1>2, <3>2, SMTT(30)
    <3>4. StartsWith(seen, first)
      <4>1. k <= Len(seen)
        BY <1>3, <3>2, SMTT(30)
      <4> HIDE DEF first
      <4> QED BY <3>3, <4>1 DEF StartsWith
    <3> HIDE DEF first
    <3>5. Follows(a, first) /\ Reach(a, first) = ReachOf(a, seen, k)
      BY <1>2, <3>3, <3>4, PrefixFollows
    <3>6. Reach(a, synced) = ReachOf(a, seen, Len(synced))
      BY <1>2, <3>1, PrefixFollows
    <3>7. /\ ReachOf(a, seen, Len(synced)) <= ReachOf(a, seen, k)
          /\ ReachOf(a, seen, Len(synced)) \in Nat /\ ReachOf(a, seen, k) \in Nat
      BY <1>2, <3>2, ReachBounds
    <3>8. told <= Reach(a, first)
      BY <1>2, <1>3, <3>5, <3>6, <3>7, SMTT(30)
    <3> QED BY <2>3, <3>3, <3>5, <3>8, SMTT(30) DEF JournalContents, first
  <2>4. \/ image.journal \in {journal, journal_synced}
        \/ named # "synced" /\ image.journal = NoJournal
        \/ \E k \in (IF StartsWith(seen, synced) THEN Len(synced) ELSE 0)..(Len(seen) - 1),
              cut \in BOOLEAN :
             image.journal = [records |-> SubSeq(seen, 1, k), torn |-> cut]
    BY <1>1, SMTT(30) DEF JournalImages, seen, synced
  <2> QED BY <2>1, <2>2, <2>3, <2>4
<1>5. image.journal.records = <<>> => told <= a.revision
  BY <1>4, EmptyFollows
<1> QED BY <1>1, <1>2, <1>4, <1>5 DEF a

-----------------------------------------------------------------------------
(* Every step keeps the invariant *)

LEMMA FilesFacts ==
  ASSUME HistoryOK, FilesOK
  PROVE  /\ machine.revision \in Nat /\ told \in Nat /\ told <= machine.revision
         /\ Past(machine)
         /\ snapshot \in Snapshots /\ journal.records \in Journals
         /\ journal.records \in Seq(Records) /\ journal_synced.records \in Seq(Records)
         /\ \A rs \in Journals : rs \in Seq(Records)
         /\ \A a \in Snapshots : /\ Past(a) /\ a.revision \in Nat
                                 /\ a.revision <= machine.revision
         /\ \A a \in Snapshots, rs \in Journals :
              /\ Follows(a, rs) /\ told <= Reach(a, rs)
              /\ Reach(a, rs) \in Nat /\ a.revision <= Reach(a, rs)
              /\ Reach(a, rs) <= machine.revision
<1>1. /\ journal.records \in Seq(Records) /\ journal_synced.records \in Seq(Records)
      /\ journal.records \in Journals
      /\ \A rs \in Journals : rs \in Seq(Records)
  BY DEF FilesOK, JournalContents, Journals
<1>2. machine.revision \in Nat /\ \A a : Past(a) => a.revision \in 0..machine.revision
  BY Types
<1>3. \A a \in Snapshots : /\ Past(a) /\ a.revision \in Nat
                           /\ a.revision <= machine.revision
  <2>1. \A k \in 0..machine.revision : k \in Nat /\ k <= machine.revision
    BY <1>2, SMTT(30)
  <2> QED BY <1>2, <2>1 DEF FilesOK
<1>4. ASSUME NEW a \in Snapshots, NEW rs \in Journals
      PROVE  /\ Follows(a, rs) /\ told <= Reach(a, rs)
             /\ Reach(a, rs) \in Nat /\ a.revision <= Reach(a, rs)
             /\ Reach(a, rs) <= machine.revision
  <2>1. Follows(a, rs) /\ told <= Reach(a, rs)
    BY DEF FilesOK
  <2>2. Reach(a, rs) \in a.revision..machine.revision /\ Reach(a, rs) \in Nat
    BY <1>1, <1>3, <2>1, ReachBounds
  <2> QED BY <1>2, <1>3, <2>1, <2>2, SMTT(30)
<1>5. told \in Nat /\ snapshot \in Snapshots
  BY DEF FilesOK
<1>6. told <= machine.revision
  <2> DEFINE k == Reach(snapshot, journal.records)
  <2>1. told <= k /\ k <= machine.revision /\ k \in Nat
    BY <1>1, <1>4, <1>5
  <2> HIDE DEF k
  <2> QED BY <1>2, <1>5, <2>1, SMTT(30)
<1>7. Past(machine)
  <2>1. machine.revision \in 0..machine.revision
    BY <1>2, SMTT(30)
  <2> QED BY <2>1 DEF HistoryOK, Past
<1> QED BY <1>1, <1>2, <1>3, <1>4, <1>5, <1>6, <1>7

LEMMA SameHistory ==
  ASSUME UNCHANGED <<machine, history>>
  PROVE  /\ HistoryOK => HistoryOK'
         /\ \A a : Past(a) => Past(a)'
         /\ \A a, rs : Follows(a, rs) => Follows(a, rs)'
<1>1. machine' = machine /\ history' = history
  OBVIOUS
<1>2. HistoryOK => HistoryOK'
  BY <1>1 DEF HistoryOK
<1>3. \A a : Past(a) => Past(a)'
  BY <1>1 DEF Past
<1>4. \A a, rs : Follows(a, rs) => Follows(a, rs)'
  BY <1>1 DEF Follows, Leads
<1> QED BY <1>2, <1>3, <1>4

\* While the machine stays, files in order before the step stay in order.
LEMMA FilesKept ==
  ASSUME UNCHANGED <<machine, history>>,
         snapshot' \in Snapshots', told' \in Nat,
         journal' \in JournalContents, journal_synced' \in JournalContents,
         \A a \in Snapshots' : Past(a),
         \A a \in Snapshots', rs \in Journals' :
           Follows(a, rs) /\ told' <= Reach(a, rs)
  PROVE  FilesOK'
<1>1. \A a \in Snapshots' : Past(a)'
  BY SameHistory
<1>2. \A a \in Snapshots', rs \in Journals' : Follows(a, rs)'
  BY SameHistory
<1> QED BY <1>1, <1>2 DEF FilesOK

LEMMA JournalUpdates ==
  ASSUME NEW content \in JournalContents
  PROVE  /\ \A t \in BOOLEAN :
              /\ [content EXCEPT !.torn = t] \in JournalContents
              /\ [content EXCEPT !.torn = t].records = content.records
         /\ \A p \in Records :
              /\ [content EXCEPT !.records = Append(@, p)] \in JournalContents
              /\ [content EXCEPT !.records = Append(@, p)].records
                   = Append(content.records, p)
         /\ NoJournal \in JournalContents /\ NoJournal.records = <<>>
BY SMTT(30) DEF JournalContents, NoJournal

LEMMA ProposeUnchangedStep ==
  ASSUME JournalInv, ProposeUnchanged
  PROVE  JournalInv'
<1>1. /\ HistoryOK /\ FilesOK /\ StageOK /\ PowerOK /\ CountersOK /\ FaultsOK
      /\ stage = "idle" /\ told' = machine.revision
      /\ UNCHANGED <<machine, history, stage>> /\ UNCHANGED repository
      /\ UNCHANGED disk /\ UNCHANGED faults
  BY DEF JournalInv, ProposeUnchanged, process
<1>2. Snapshots' = Snapshots /\ Journals' = Journals
  BY <1>1 DEF Snapshots, Journals, disk, faults
<1>3. machine.revision <= machine.revision
  <2>1. machine.revision \in Nat
    BY <1>1, FilesFacts
  <2> QED BY <2>1, SMTT(30)
<1>4. \A a \in Snapshots, rs \in Journals : Reach(a, rs) = machine.revision
  BY <1>1 DEF StageOK, AllReach
<1>5. HistoryOK'
  BY <1>1, SameHistory
<1>6. FilesOK'
  <2>1. \A a \in Snapshots', rs \in Journals' :
          Follows(a, rs) /\ told' <= Reach(a, rs)
    BY <1>1, <1>2, <1>3, <1>4, FilesFacts
  <2>2. /\ \A a \in Snapshots' : Past(a)
        /\ snapshot' \in Snapshots' /\ told' \in Nat
    BY <1>1, <1>2, FilesFacts DEF disk
  <2>3. journal' \in JournalContents /\ journal_synced' \in JournalContents
    BY <1>1 DEF disk, FilesOK
  <2> QED BY <1>1, <2>1, <2>2, <2>3, FilesKept
<1>7. StageOK'
  <2>1. \A k : AllReach(k) => AllReach(k)'
    BY <1>2 DEF AllReach
  <2> QED BY <1>1, <1>2, <2>1 DEF StageOK, AllReach, disk, repository
<1>8. PowerOK'
  <2>1. ASSUME kills = 0, named # "synced", NEW a \in snapshot_images
        PROVE  machine.revision <= a.revision
    <3>1. journal.records = <<>> /\ a \in Snapshots /\ journal.records \in Journals
      BY <1>1, <2>1 DEF PowerOK, Snapshots, Journals
    <3>2. Reach(a, <<>>) = machine.revision
      BY <1>4, <3>1
    <3> QED BY <1>3, <3>2, EmptyFollows
  <2> QED BY <1>1, <2>1 DEF PowerOK, disk, faults, repository, Compacting
<1>9. CountersOK' /\ FaultsOK'
  BY <1>1 DEF CountersOK, FaultsOK, disk, repository, faults
<1> QED BY <1>5, <1>6, <1>7, <1>8, <1>9 DEF JournalInv

\* A mutation leads from the machine's state to a state of the machine.
LEMMA ProposeHistory ==
  ASSUME HistoryOK, NEW updated \in SUBSET Entities,
         NEW deleted \in SUBSET Entities, NEW advance \in BOOLEAN,
         Propose(updated, deleted, advance)
  PROVE  /\ HistoryOK' /\ machine'.revision = machine.revision + 1
         /\ \A r \in 0..machine.revision : history'[r] = history[r]
<1> DEFINE R == machine.revision
           N == R + 1
           t == IF advance THEN machine.term + 1 ELSE machine.term
           record == Record(updated, deleted, t, N)
           next == Applied(machine, record)
<1>1. /\ R < MaxRevision /\ machine' = next
      /\ advance => machine.term < MaxTerm
      /\ history' = [r \in 0..next.revision |->
                       IF r = next.revision THEN next ELSE history[r]]
  BY DEF Propose
<1>2. /\ record.revision = N /\ record.term = t
      /\ record.updated = updated /\ record.deleted = deleted
  BY DEF Record
<1>3. R \in Nat /\ MaxRevision \in Nat /\ MaxTerm \in Nat
  BY Types, RepositoryAssumption
<1>4. machine \in States /\ \A e \in Entities : machine.entities[e] <= R
  <2>1. R \in 0..R
    BY <1>3, SMTT(30)
  <2> QED BY <2>1 DEF HistoryOK
<1>5. /\ machine.term \in 1..MaxTerm
      /\ \A e \in Entities : machine.entities[e] \in 0..MaxRevision
  BY <1>4 DEF States
<1>6. t \in 1..MaxTerm /\ machine.term <= t
  <2>1. \A s \in 1..MaxTerm : /\ s <= s
                              /\ s < MaxTerm => s + 1 \in 1..MaxTerm /\ s <= s + 1
    BY <1>3, SMTT(30)
  <2> QED BY <1>1, <1>5, <2>1
<1>7. N \in Nat /\ N \in 0..MaxRevision /\ N # 0 /\ N - 1 = R /\ 0 <= N /\ N <= N
  BY <1>1, <1>3, SMTT(30)
<1>8. ASSUME NEW e \in Entities
      PROVE  /\ next.entities[e] \in {0, N, machine.entities[e]}
             /\ next.entities[e] <= N /\ next.entities[e] \in 0..MaxRevision
  <2>1. next.entities[e] = CASE e \in deleted -> 0
                             [] e \in updated -> N
                             [] OTHER         -> machine.entities[e]
    <3> HIDE DEF record, N, t
    <3> QED BY <1>2 DEF Applied
  <2>2. next.entities[e] \in {0, N, machine.entities[e]}
    <3> HIDE DEF next, N
    <3>1. CASE e \in deleted /\ e \notin updated
      BY <2>1, <3>1
    <3>2. CASE e \in updated /\ e \notin deleted
      BY <2>1, <3>2
    <3>3. CASE e \notin deleted /\ e \notin updated
      BY <2>1, <3>3
    <3>4. updated \cap deleted = {}
      BY DEF Propose
    <3> QED BY <3>1, <3>2, <3>3, <3>4
  <2>3. machine.entities[e] <= N /\ machine.entities[e] \in 0..MaxRevision
    <3>1. \A k \in 0..MaxRevision : k <= R => k <= N
      BY <1>3, SMTT(30)
    <3> QED BY <1>4, <1>5, <3>1
  <2>4. 0 \in 0..MaxRevision
    BY <1>3, SMTT(30)
  <2> HIDE DEF next, N
  <2> QED BY <1>7, <2>2, <2>3, <2>4
<1>9. next.revision = N /\ next.term = t /\ next \in States
  <2>1. next.revision = N /\ next.term = t
    <3> HIDE DEF record, N, t
    <3> QED BY <1>2 DEF Applied
  <2>2. next.entities = [e \in Entities |-> next.entities[e]]
    <3> HIDE DEF record
    <3> QED BY SMTT(30) DEF Applied
  <2>3. next.entities \in [Entities -> 0..MaxRevision]
    <3> HIDE DEF next
    <3> QED BY <1>8, <2>2
  <2>4. next = [term |-> next.term, revision |-> next.revision,
                entities |-> next.entities]
    <3> HIDE DEF record
    <3> QED BY DEF Applied
  <2> HIDE DEF next, N, t
  <2> QED BY <1>6, <1>7, <2>1, <2>3, <2>4 DEF States
<1> HIDE DEF next, record, t
<1>10. /\ history' = [r \in 0..N |-> IF r = N THEN next ELSE history[r]]
       /\ machine' = next
  BY <1>1, <1>9
<1> HIDE DEF N
<1>11. /\ N \in 0..N /\ history'[N] = next
       /\ \A r \in 0..R : r \in 0..N /\ history'[r] = history[r]
  <2>1. N \in 0..N /\ \A r \in 0..R : r \in 0..N /\ r # N
    BY <1>3, SMTT(30) DEF N
  <2> QED BY <1>10, <2>1
<1>12. \A r \in 0..N : r = N \/ r \in 0..R
  BY <1>3, SMTT(30) DEF N
<1>13. HistoryOK'
  <2>1. /\ machine'.revision \in 0..MaxRevision
        /\ DOMAIN history' = 0..machine'.revision
        /\ machine' = history'[machine'.revision]
    BY <1>7, <1>9, <1>10, <1>11
  <2>2. ASSUME NEW r \in 0..N
        PROVE  /\ history'[r] \in States /\ history'[r].revision = r
               /\ \A e \in Entities : history'[r].entities[e] <= r
    <3>1. CASE r = N
      BY <1>8, <1>9, <1>11, <3>1
    <3>2. CASE r \in 0..R
      <4>1. history'[r] = history[r]
        BY <1>11, <3>2
      <4> QED BY <3>2, <4>1 DEF HistoryOK
    <3> QED BY <1>12, <3>1, <3>2
  <2>3. ASSUME NEW r \in 1..N
        PROVE  /\ history'[r - 1].term <= history'[r].term
               /\ \A e \in Entities :
                    history'[r].entities[e] \in {0, r, history'[r - 1].entities[e]}
    <3>1. CASE r = N
      <4>1. history'[r] = next /\ history'[r - 1] = machine
        <5>1. R \in 0..R
          BY <1>3, SMTT(30)
        <5> QED BY <1>7, <1>11, <3>1, <5>1 DEF HistoryOK
      <4> QED BY <1>6, <1>8, <1>9, <3>1, <4>1
    <3>2. CASE r # N
      <4>1. r \in 1..R /\ r \in 0..R /\ r - 1 \in 0..R
        BY <1>3, <3>2, SMTT(30) DEF N
      <4>2. history'[r] = history[r] /\ history'[r - 1] = history[r - 1]
        BY <1>11, <4>1
      <4> QED BY <4>1, <4>2 DEF HistoryOK
    <3> QED BY <3>1, <3>2
  <2> QED BY <1>9, <1>10, <2>1, <2>2, <2>3 DEF HistoryOK
<1> QED BY <1>9, <1>10, <1>11, <1>13 DEF N

LEMMA ProposeStep ==
  ASSUME JournalInv, NEW updated \in SUBSET Entities,
         NEW deleted \in SUBSET Entities, NEW advance \in BOOLEAN,
         Propose(updated, deleted, advance)
  PROVE  JournalInv'
<1>1. /\ HistoryOK /\ FilesOK /\ StageOK /\ PowerOK /\ CountersOK /\ FaultsOK
      /\ stage = "idle"
      /\ stage' = IF compaction_deferred THEN "write_snapshot" ELSE "append"
      /\ UNCHANGED repository /\ UNCHANGED disk /\ UNCHANGED faults /\ told' = told
  BY DEF JournalInv, Propose
<1>2. /\ HistoryOK' /\ machine'.revision = machine.revision + 1
      /\ \A r \in 0..machine.revision : history'[r] = history[r]
  BY <1>1, ProposeHistory
<1>3. /\ machine.revision \in Nat /\ machine'.revision \in Nat
      /\ machine'.revision # 0 /\ machine'.revision - 1 = machine.revision
      /\ \A k \in Nat : k <= machine.revision => k <= machine'.revision
  <2>1. machine.revision \in Nat
    BY <1>1, FilesFacts
  <2> QED BY <1>2, <2>1, SMTT(30)
<1>4. Snapshots' = Snapshots /\ Journals' = Journals
  BY <1>1 DEF Snapshots, Journals, disk, faults
<1>5. ASSUME NEW a \in Snapshots, NEW rs \in Journals
      PROVE  Past(a)' /\ Follows(a, rs)'
  <2>1. /\ Past(a) /\ Follows(a, rs) /\ rs \in Seq(Records)
        /\ Reach(a, rs) <= machine'.revision
    BY <1>1, <1>3, FilesFacts
  <2>2. DOMAIN history' = 0..machine'.revision
    BY <1>2 DEF HistoryOK
  <2> QED BY <1>1, <1>2, <1>3, <2>1, <2>2, FollowsKept
<1>6. FilesOK'
  <2>1. journal.records \in Journals
    BY DEF Journals
  <2>2. \A a \in Snapshots' : Past(a)'
    BY <1>4, <1>5, <2>1
  <2>3. \A a \in Snapshots', rs \in Journals' :
          Follows(a, rs)' /\ told' <= Reach(a, rs)
    BY <1>1, <1>4, <1>5 DEF FilesOK
  <2> QED BY <1>1, <1>4, <2>2, <2>3 DEF FilesOK, disk
<1>7. StageOK'
  <2>1. \A a \in Snapshots', rs \in Journals' : Reach(a, rs) = machine.revision
    BY <1>1, <1>4 DEF StageOK, AllReach
  <2>2. compaction_deferred' = compaction_deferred /\ compaction_deferred \in BOOLEAN
    BY <1>1 DEF repository, StageOK
  <2>3. AllReach(machine.revision - 1)'
    BY <1>3, <2>1 DEF AllReach
  <2> QED BY <1>1, <1>3, <2>2, <2>3 DEF StageOK, Stages, Syncing
<1>8. PowerOK'
  BY <1>1 DEF PowerOK, disk, faults, repository, Compacting
<1>9. CountersOK'
  <2>1. /\ commits_since_compaction \in Nat /\ journal_bytes \in Nat
        /\ Len(journal.records) <= journal_bytes + 0
        /\ machine.revision <= snapshot.revision + commits_since_compaction + 0
    BY <1>1 DEF CountersOK, Syncing, Compacting
  <2>2. snapshot.revision \in Nat
    BY <1>1, FilesFacts
  <2>3. machine'.revision <= snapshot.revision + commits_since_compaction + 1
    BY <1>2, <1>3, <2>1, <2>2, SMTT(30)
  <2>4. /\ stage' \notin Syncing
        /\ \/ stage' \in {"append"} \cup Syncing
           \/ stage' \in Compacting /\ compaction_deferred
    BY <1>1 DEF Syncing, Compacting, StageOK
  <2> QED BY <1>1, <2>1, <2>3, <2>4 DEF CountersOK, disk, repository
<1>10. FaultsOK'
  BY <1>1 DEF FaultsOK, faults
<1> QED BY <1>2, <1>6, <1>7, <1>8, <1>9, <1>10 DEF JournalInv

LEMMA AppendRecordStep ==
  ASSUME JournalInv, AppendRecord
  PROVE  JournalInv'
<1>1. /\ HistoryOK /\ FilesOK /\ StageOK /\ PowerOK /\ CountersOK /\ FaultsOK
      /\ stage = "append"
      /\ journal' = [journal EXCEPT !.records = Append(@, Payload)]
      /\ named' = IF named = "no" THEN "cached" ELSE named
      /\ stage' = IF named = "no" THEN "sync_new_journal" ELSE "sync_journal"
      /\ UNCHANGED <<machine, history>> /\ UNCHANGED repository
      /\ UNCHANGED <<snapshot, snapshot_images, journal_synced>>
      /\ told' = told /\ UNCHANGED faults
  BY DEF JournalInv, AppendRecord
<1>2. PICK p : p = Payload
  OBVIOUS
<1>3. p \in Records /\ p.revision = machine.revision /\ Leads(p)
  <2>1. machine.revision # 0
    BY <1>1 DEF StageOK
  <2> QED BY <1>1, <1>2, <2>1, PayloadLeads
<1>4. PICK rs : rs = journal.records
  OBVIOUS
<1>5. rs \in Seq(Records) /\ rs \in Journals /\ journal \in JournalContents
  BY <1>1, <1>4, FilesFacts DEF FilesOK
<1>6. journal' \in JournalContents /\ journal'.records = Append(rs, p)
  BY <1>1, <1>2, <1>3, <1>4, <1>5, JournalUpdates
<1>7. /\ Len(rs) \in Nat /\ Len(Append(rs, p)) = Len(rs) + 1
      /\ Append(rs, p)[Len(rs) + 1] = p /\ Len(Append(rs, p)) > 0
      /\ Len(rs) <= Len(rs) + 1
      /\ \A i \in 1..Len(rs) : Append(rs, p)[i] = rs[i]
  BY <1>3, <1>5, SMTT(30)
<1>8. /\ Snapshots' = Snapshots
      /\ \A q \in Journals' : q = Append(rs, p) \/ q \in Journals
  BY <1>1, <1>6 DEF Snapshots, Journals, faults
<1>9. HistoryOK' /\ FaultsOK'
  BY <1>1, SameHistory DEF FaultsOK, faults
<1>10. FilesOK'
  <2>1. ASSUME NEW a \in Snapshots
        PROVE  /\ Past(a) /\ Follows(a, Append(rs, p))
               /\ told <= Reach(a, Append(rs, p))
    <3>1. Past(a) /\ Follows(a, rs) /\ Reach(a, rs) = machine.revision - 1
      BY <1>1, <1>5, FilesFacts DEF StageOK, AllReach
    <3>2. Follows(a, Append(rs, p)) /\ Reach(a, Append(rs, p)) = machine.revision
      BY <1>1, <1>3, <1>5, <3>1, AppendFollows
    <3> QED BY <1>1, <3>1, <3>2, FilesFacts
  <2>2. \A a \in Snapshots', q \in Journals' :
          Follows(a, q) /\ told' <= Reach(a, q)
    BY <1>1, <1>8, <2>1, FilesFacts
  <2>3. /\ snapshot' \in Snapshots' /\ told' \in Nat
        /\ \A a \in Snapshots' : Past(a)
        /\ journal_synced' \in JournalContents
    BY <1>1, <1>8, FilesFacts DEF FilesOK
  <2> QED BY <1>1, <1>6, <2>2, <2>3, FilesKept
<1>11. StageOK'
  <2>1. /\ stage' \in Syncing /\ ~compaction_deferred' /\ compaction_deferred' \in BOOLEAN
        /\ stage' \in Stages \ {"refused"}
    BY <1>1 DEF Syncing, StageOK, Stages, repository
  <2>2. /\ Len(journal'.records) > 0
        /\ journal'.records[Len(journal'.records)].revision = machine'.revision
    BY <1>1, <1>3, <1>6, <1>7
  <2> QED BY <2>1, <2>2 DEF StageOK, Syncing
<1>12. PowerOK'
  <2> SUFFICES ASSUME kills = 0 PROVE PowerOK'
    BY <1>1 DEF PowerOK, faults
  <2>1. StartsWith(journal'.records, journal_synced'.records)
    <3>1. StartsWith(rs, journal_synced.records)
      BY <1>1, <1>4 DEF PowerOK, StageOK
    <3>2. journal_synced.records \in Seq(Records)
      BY <1>1, FilesFacts
    <3>3. PICK q \in Seq(Records) : q = journal_synced.records
      BY <3>2
    <3>4. Len(q) \in Nat /\ Len(q) <= Len(rs)
      BY <3>1, <3>3, SMTT(30) DEF StartsWith
    <3>5. Len(q) <= Len(rs) + 1 /\ \A i \in 1..Len(q) : i \in 1..Len(rs)
      BY <1>7, <3>4, SMTT(30)
    <3> QED BY <1>1, <1>6, <1>7, <3>1, <3>3, <3>5 DEF StartsWith
  <2>2. /\ named \in {"no", "synced"}
        /\ named = "no" => \A a \in snapshot_images : told <= a.revision
    BY <1>1 DEF PowerOK
  <2>3. ~compaction_deferred' /\ stage' \notin Compacting /\ stage' # "down"
    BY <1>1 DEF Compacting, StageOK, repository
  <2> QED BY <1>1, <2>1, <2>2, <2>3 DEF PowerOK
<1>13. CountersOK'
  <2>1. /\ commits_since_compaction \in Nat /\ journal_bytes \in Nat
        /\ Len(rs) <= journal_bytes + 0
        /\ machine.revision <= snapshot.revision + commits_since_compaction + 1
    BY <1>1, <1>4 DEF CountersOK, Syncing
  <2>2. Len(rs) + 1 <= journal_bytes + 1
    BY <1>7, <2>1, SMTT(30)
  <2>3. stage' \in Syncing
    BY <1>1 DEF Syncing
  <2> QED BY <1>1, <1>6, <1>7, <2>1, <2>2, <2>3 DEF CountersOK, repository
<1> QED BY <1>9, <1>10, <1>11, <1>12, <1>13 DEF JournalInv

LEMMA SyncJournalStep ==
  ASSUME JournalInv, SyncJournal
  PROVE  JournalInv'
<1>1. /\ HistoryOK /\ FilesOK /\ StageOK /\ PowerOK /\ CountersOK /\ FaultsOK
      /\ stage \in Syncing /\ journal_synced' = journal /\ journal' = journal
      /\ IF stage = "sync_new_journal"
           THEN named' = "synced" /\ snapshot_images' = {snapshot}
           ELSE named' = named /\ snapshot_images' = snapshot_images
      /\ commits_since_compaction' = commits_since_compaction + 1
      /\ journal_bytes' = journal_bytes + 1
      /\ \/ stage' = "write_snapshot" /\ told' = told
         \/ stage' = "idle" /\ told' = machine.revision
      /\ UNCHANGED <<machine, history, compaction_deferred>>
      /\ snapshot' = snapshot /\ UNCHANGED faults
  BY DEF JournalInv, SyncJournal, Syncing, Answer
<1>2. /\ \A a \in Snapshots' : a \in Snapshots
      /\ snapshot' \in Snapshots'
      /\ \A rs \in Journals' : rs = journal.records
  <2>1. snapshot \in Snapshots
    BY <1>1 DEF FilesOK
  <2> QED BY <1>1, <2>1 DEF Snapshots, Journals, faults
<1>3. PICK rs : rs = journal.records
  OBVIOUS
<1>4. /\ rs \in Seq(Records) /\ Len(rs) > 0
      /\ rs[Len(rs)].revision = machine.revision
      /\ \A a \in Snapshots : /\ a.revision \in Nat /\ a.revision <= machine.revision
                              /\ Past(a) /\ Follows(a, rs) /\ told <= Reach(a, rs)
      /\ machine.revision \in Nat /\ told \in Nat /\ told <= machine.revision
  BY <1>1, <1>3, FilesFacts DEF StageOK
<1>5. \A a \in Snapshots : Reach(a, rs) = machine.revision
  <2>1. \A k \in Nat : k <= machine.revision /\ ~(machine.revision > k) => k = machine.revision
    BY <1>4, SMTT(30)
  <2> QED BY <1>4, <2>1 DEF Reach, ReachOf
<1>6. machine.revision <= machine.revision
  BY <1>4, SMTT(30)
<1>7. HistoryOK' /\ FaultsOK'
  BY <1>1, SameHistory DEF FaultsOK, faults
<1>8. FilesOK'
  <2>1. \A a \in Snapshots', q \in Journals' : Follows(a, q) /\ told' <= Reach(a, q)
    BY <1>1, <1>2, <1>3, <1>4, <1>5, <1>6
  <2>2. told' \in Nat /\ \A a \in Snapshots' : Past(a)
    BY <1>1, <1>2, <1>4
  <2>3. journal' \in JournalContents /\ journal_synced' \in JournalContents
    BY <1>1 DEF FilesOK
  <2> QED BY <1>1, <1>2, <2>1, <2>2, <2>3, FilesKept
<1>9. StageOK'
  <2>1. \A a \in Snapshots', q \in Journals' : Reach(a, q) = machine'.revision
    BY <1>1, <1>2, <1>3, <1>5
  <2>2. AllReach(machine.revision)'
    BY <2>1 DEF AllReach
  <2>3. ~compaction_deferred' /\ compaction_deferred' \in BOOLEAN
    BY <1>1 DEF StageOK
  <2> QED BY <1>1, <2>2, <2>3 DEF StageOK, Stages, Syncing
<1>10. PowerOK'
  <2> SUFFICES ASSUME kills = 0 PROVE PowerOK'
    BY <1>1 DEF PowerOK, faults
  <2>1. named' = "synced"
    <3>1. CASE stage = "sync_new_journal"
      BY <1>1, <3>1
    <3>2. CASE stage = "sync_journal"
      <4>1. rs # <<>>
        BY <1>4, SMTT(30)
      <4>2. named = "synced"
        BY <1>1, <1>3, <3>2, <4>1 DEF PowerOK
      <4> QED BY <1>1, <3>2, <4>2
    <3> QED BY <1>1, <3>1, <3>2 DEF Syncing
  <2>2. StartsWith(rs, rs)
    <3>1. Len(rs) <= Len(rs)
      BY <1>4, SMTT(30)
    <3> QED BY <3>1 DEF StartsWith
  <2>3. stage' # "down"
    BY <1>1
  <2> QED BY <1>1, <1>3, <2>1, <2>2, <2>3 DEF PowerOK
<1>11. CountersOK'
  <2>1. /\ commits_since_compaction \in Nat /\ journal_bytes \in Nat
        /\ Len(rs) <= journal_bytes + 1
        /\ machine.revision <= snapshot.revision + commits_since_compaction + 1
    BY <1>1, <1>3 DEF CountersOK, Syncing
  <2>2. snapshot.revision \in Nat
    BY <1>1, FilesFacts
  <2>3. /\ commits_since_compaction + 1 \in Nat /\ journal_bytes + 1 \in Nat
        /\ Len(rs) <= (journal_bytes + 1) + 0
        /\ machine.revision <= snapshot.revision + (commits_since_compaction + 1) + 0
    BY <1>4, <2>1, <2>2, SMTT(30)
  <2>4. /\ stage' \notin Syncing /\ stage' \notin {"append"} \cup Syncing
        /\ ~(stage' \in Compacting /\ compaction_deferred')
    BY <1>1 DEF Syncing, StageOK
  <2> QED BY <1>1, <1>3, <2>3, <2>4 DEF CountersOK
<1> QED BY <1>7, <1>8, <1>9, <1>10, <1>11 DEF JournalInv

LEMMA WriteSnapshotStep ==
  ASSUME JournalInv, WriteSnapshot
  PROVE  JournalInv'
<1>1. /\ HistoryOK /\ FilesOK /\ StageOK /\ PowerOK /\ CountersOK /\ FaultsOK
      /\ stage = "write_snapshot" /\ stage' = "sync_snapshot"
      /\ snapshot' = machine /\ snapshot_images' = snapshot_images \cup {machine}
      /\ UNCHANGED <<machine, history>> /\ UNCHANGED repository
      /\ UNCHANGED <<journal, journal_synced, named>>
      /\ told' = told /\ UNCHANGED faults
  BY DEF JournalInv, WriteSnapshot
<1>2. /\ \A a \in Snapshots' : a \in Snapshots \/ a = machine
      /\ snapshot' \in Snapshots' /\ Journals' = Journals
  BY <1>1 DEF Snapshots, Journals, faults
<1>3. PICK m : m = machine
  OBVIOUS
<1>4. /\ m.revision \in Nat /\ Past(m)
      /\ told \in Nat /\ told <= m.revision
      /\ \A rs \in Journals : rs \in Seq(Records) /\ Follows(snapshot, rs)
  BY <1>1, <1>3, FilesFacts
<1>5. ASSUME NEW rs \in Journals
      PROVE  Follows(m, rs) /\ Reach(m, rs) = m.revision
  <2>1. /\ \A i \in 1..Len(rs) : rs[i].revision <= machine.revision
        /\ \A i, j \in 1..Len(rs) : i < j => rs[i].revision < rs[j].revision
    BY <1>4 DEF Follows
  <2>2. /\ Len(rs) \in Nat /\ \A i \in 1..Len(rs) : rs[i].revision \in Nat
    BY <1>1, <1>4, Types
  <2>3. \A i \in 1..Len(rs) : ~(rs[i].revision > m.revision)
    BY <1>3, <1>4, <2>1, <2>2, SMTT(30)
  <2>4. Follows(m, rs)
    BY <2>1, <2>3 DEF Follows
  <2>5. Len(rs) > 0 => Len(rs) \in 1..Len(rs)
    BY <2>2, SMTT(30)
  <2> QED BY <2>3, <2>4, <2>5 DEF Reach, ReachOf
<1>6. HistoryOK' /\ FaultsOK'
  BY <1>1, SameHistory DEF FaultsOK, faults
<1>7. FilesOK'
  <2>1. \A a \in Snapshots', q \in Journals' : Follows(a, q) /\ told' <= Reach(a, q)
    BY <1>1, <1>2, <1>3, <1>4, <1>5, FilesFacts
  <2>2. told' \in Nat /\ \A a \in Snapshots' : Past(a)
    BY <1>1, <1>2, <1>3, <1>4, FilesFacts
  <2>3. journal' \in JournalContents /\ journal_synced' \in JournalContents
    BY <1>1 DEF FilesOK
  <2> QED BY <1>1, <1>2, <2>1, <2>2, <2>3, FilesKept
<1>8. StageOK'
  <2>1. compaction_deferred' = compaction_deferred /\ compaction_deferred \in BOOLEAN
    BY <1>1 DEF StageOK, repository
  <2>2. ASSUME ~compaction_deferred PROVE AllReach(machine.revision)'
    <3>1. \A a \in Snapshots, rs \in Journals : Reach(a, rs) = machine.revision
      BY <1>1, <2>2 DEF StageOK, AllReach
    <3>2. \A a \in Snapshots', rs \in Journals' : Reach(a, rs) = machine'.revision
      BY <1>1, <1>2, <1>3, <1>5, <3>1
    <3> QED BY <3>2 DEF AllReach
  <2> QED BY <1>1, <2>1, <2>2 DEF StageOK, Stages, Syncing
<1>9. PowerOK'
  BY <1>1 DEF PowerOK, faults, repository, Compacting
<1>10. CountersOK'
  <2>1. /\ commits_since_compaction \in Nat /\ journal_bytes \in Nat
        /\ Len(journal.records) <= journal_bytes + 0
    BY <1>1 DEF CountersOK, Syncing
  <2>2. \A x \in {0, 1} : m.revision <= m.revision + commits_since_compaction + x
    BY <1>4, <2>1, SMTT(30)
  <2>3. stage' \notin Syncing
    BY <1>1 DEF Syncing
  <2> QED BY <1>1, <1>3, <2>1, <2>2, <2>3 DEF CountersOK, repository
<1> QED BY <1>6, <1>7, <1>8, <1>9, <1>10 DEF JournalInv

LEMMA SyncSnapshotStep ==
  ASSUME JournalInv, SyncSnapshot
  PROVE  JournalInv'
<1>1. /\ HistoryOK /\ FilesOK /\ StageOK /\ PowerOK /\ CountersOK /\ FaultsOK
      /\ stage = "sync_snapshot" /\ stage' = "truncate"
      /\ snapshot_images' = {snapshot} /\ snapshot' = snapshot
      /\ named' = IF named = "cached" THEN "synced" ELSE named
      /\ UNCHANGED <<machine, history>> /\ UNCHANGED repository
      /\ UNCHANGED <<journal, journal_synced>>
      /\ told' = told /\ UNCHANGED faults
  BY DEF JournalInv, SyncSnapshot
<1>2. /\ \A a \in Snapshots' : a = snapshot
      /\ snapshot' \in Snapshots' /\ Journals' = Journals
      /\ snapshot \in Snapshots /\ snapshot = machine
  BY <1>1 DEF Snapshots, Journals, faults, FilesOK, StageOK
<1>3. HistoryOK' /\ FaultsOK'
  BY <1>1, SameHistory DEF FaultsOK, faults
<1>4. FilesOK'
  <2>1. \A a \in Snapshots', q \in Journals' : Follows(a, q) /\ told' <= Reach(a, q)
    BY <1>1, <1>2, FilesFacts
  <2>2. told' \in Nat /\ \A a \in Snapshots' : Past(a)
    BY <1>1, <1>2, FilesFacts
  <2>3. journal' \in JournalContents /\ journal_synced' \in JournalContents
    BY <1>1 DEF FilesOK
  <2> QED BY <1>1, <1>2, <2>1, <2>2, <2>3, FilesKept
<1>5. StageOK'
  <2>1. compaction_deferred' \in BOOLEAN
    BY <1>1 DEF StageOK, repository
  <2>2. snapshot' = machine' /\ \A a \in Snapshots' : a.revision = machine'.revision
    BY <1>1, <1>2
  <2> QED BY <1>1, <2>1, <2>2 DEF StageOK, Stages, Syncing
<1>6. PowerOK'
  BY <1>1 DEF PowerOK, faults, repository, Compacting
<1>7. CountersOK'
  <2>1. /\ stage \notin Syncing /\ stage' \notin Syncing
        /\ stage \in Compacting /\ stage' \in Compacting
    BY <1>1 DEF Syncing, Compacting
  <2> QED BY <1>1, <2>1 DEF CountersOK, repository
<1> QED BY <1>3, <1>4, <1>5, <1>6, <1>7 DEF JournalInv

LEMMA TruncateJournalStep ==
  ASSUME JournalInv, TruncateJournal
  PROVE  JournalInv'
<1>1. /\ HistoryOK /\ FilesOK /\ StageOK /\ PowerOK /\ CountersOK /\ FaultsOK
      /\ stage = "truncate" /\ stage' = "sync_truncated"
      /\ journal' = NoJournal
      /\ named' = IF named = "no" THEN "cached" ELSE named
      /\ UNCHANGED <<machine, history>> /\ UNCHANGED repository
      /\ UNCHANGED <<snapshot, snapshot_images, journal_synced>>
      /\ told' = told /\ UNCHANGED faults
  BY DEF JournalInv, TruncateJournal
<1>2. journal' \in JournalContents /\ journal'.records = <<>>
  <2>1. journal \in JournalContents
    BY <1>1 DEF FilesOK
  <2> QED BY <1>1, <2>1, JournalUpdates
<1>3. /\ Snapshots' = Snapshots
      /\ \A q \in Journals' : q = <<>> \/ q \in Journals
  BY <1>1, <1>2 DEF Snapshots, Journals, faults
<1>4. HistoryOK' /\ FaultsOK'
  BY <1>1, SameHistory DEF FaultsOK, faults
<1>5. FilesOK'
  <2>1. \A a \in Snapshots : Follows(a, <<>>) /\ told <= Reach(a, <<>>)
    <3>1. \A a \in Snapshots : a.revision = machine.revision
      BY <1>1 DEF StageOK
    <3> QED BY <1>1, <3>1, EmptyFollows, FilesFacts
  <2>2. \A a \in Snapshots', q \in Journals' : Follows(a, q) /\ told' <= Reach(a, q)
    BY <1>1, <1>3, <2>1, FilesFacts
  <2>3. /\ told' \in Nat /\ \A a \in Snapshots' : Past(a)
        /\ snapshot' \in Snapshots' /\ journal_synced' \in JournalContents
    BY <1>1, <1>3, FilesFacts DEF FilesOK
  <2> QED BY <1>1, <1>2, <2>2, <2>3, FilesKept
<1>6. StageOK'
  <2>1. compaction_deferred' \in BOOLEAN
    BY <1>1 DEF StageOK, repository
  <2>2. snapshot' = machine' /\ \A a \in Snapshots' : a.revision = machine'.revision
    BY <1>1, <1>3 DEF StageOK
  <2> QED BY <1>1, <1>2, <2>1, <2>2 DEF StageOK, Stages, Syncing
<1>7. PowerOK'
  BY <1>1, <1>2 DEF PowerOK, faults, repository, Compacting
<1>8. CountersOK'
  <2>1. /\ stage' \notin Syncing /\ stage \in Compacting /\ stage' \in Compacting
    BY <1>1 DEF Syncing, Compacting
  <2>2. journal_bytes \in Nat
    BY <1>1 DEF CountersOK
  <2>3. Len(<<>>) <= journal_bytes + 0
    BY <2>2, SMTT(30)
  <2> QED BY <1>1, <1>2, <2>1, <2>3 DEF CountersOK, repository, Syncing
<1> QED BY <1>4, <1>5, <1>6, <1>7, <1>8 DEF JournalInv

LEMMA SyncTruncatedStep ==
  ASSUME JournalInv, SyncTruncated
  PROVE  JournalInv'
<1>1. /\ HistoryOK /\ FilesOK /\ StageOK /\ PowerOK /\ CountersOK /\ FaultsOK
      /\ stage = "sync_truncated" /\ stage' = "idle" /\ told' = machine.revision
      /\ journal_synced' = journal /\ journal' = journal /\ named' = "synced"
      /\ compaction_deferred' = FALSE
      /\ commits_since_compaction' = 0 /\ journal_bytes' = 0
      /\ UNCHANGED <<machine, history>> /\ UNCHANGED faults
      /\ UNCHANGED <<snapshot, snapshot_images>>
  BY DEF JournalInv, SyncTruncated, Answer
<1>2. /\ Snapshots' = Snapshots
      /\ \A q \in Journals' : q = <<>>
      /\ \A a \in Snapshots : a.revision = machine.revision
      /\ journal.records = <<>> /\ snapshot = machine
  BY <1>1 DEF Snapshots, Journals, faults, StageOK
<1>3. machine.revision \in Nat /\ machine.revision <= machine.revision
  <2>1. machine.revision \in Nat
    BY <1>1, FilesFacts
  <2> QED BY <2>1, SMTT(30)
<1>4. HistoryOK' /\ FaultsOK'
  BY <1>1, SameHistory DEF FaultsOK, faults
<1>5. FilesOK'
  <2>1. \A a \in Snapshots', q \in Journals' : Follows(a, q) /\ told' <= Reach(a, q)
    BY <1>1, <1>2, <1>3, EmptyFollows
  <2>2. /\ told' \in Nat /\ \A a \in Snapshots' : Past(a)
        /\ snapshot' \in Snapshots'
    BY <1>1, <1>2, FilesFacts
  <2>3. journal' \in JournalContents /\ journal_synced' \in JournalContents
    BY <1>1 DEF FilesOK
  <2> QED BY <1>1, <2>1, <2>2, <2>3, FilesKept
<1>6. StageOK'
  <2>1. \A a \in Snapshots', q \in Journals' : Reach(a, q) = machine'.revision
    BY <1>1, <1>2, EmptyFollows
  <2>2. AllReach(machine.revision)'
    BY <2>1 DEF AllReach
  <2> QED BY <1>1, <2>2 DEF StageOK, Stages, Syncing
<1>7. PowerOK'
  <2>1. StartsWith(<<>>, <<>>)
    BY SMTT(30) DEF StartsWith
  <2> QED BY <1>1, <1>2, <2>1 DEF PowerOK
<1>8. CountersOK'
  <2>1. /\ stage' \notin Syncing /\ stage' \notin Compacting /\ stage' # "append"
    BY <1>1 DEF Syncing, Compacting
  <2>2. Len(<<>>) <= 0 + 0 /\ machine.revision <= machine.revision + 0 + 0 /\ 0 \in Nat
    BY <1>3, SMTT(30)
  <2> QED BY <1>1, <1>2, <2>1, <2>2 DEF CountersOK
<1> QED BY <1>4, <1>5, <1>6, <1>7, <1>8 DEF JournalInv

LEMMA AppendFailsStep ==
  ASSUME JournalInv, AppendFails
  PROVE  JournalInv'
<1>1. /\ HistoryOK /\ FilesOK /\ StageOK /\ PowerOK /\ CountersOK /\ FaultsOK
      /\ stage \in {"append"} \cup Syncing /\ stage' = "poisoned" /\ told' = told
      /\ failures' = failures + 1 /\ kills' = kills /\ losses' = losses
      /\ \/ /\ stage = "append"
            /\ journal' = [journal EXCEPT !.torn = TRUE]
            /\ named' = IF named = "no" THEN "cached" ELSE named
         \/ UNCHANGED <<journal, named>>
      /\ UNCHANGED <<machine, history>> /\ UNCHANGED repository
      /\ UNCHANGED <<snapshot, snapshot_images, journal_synced>>
  BY DEF JournalInv, AppendFails, Poison, Syncing
<1>2. journal' \in JournalContents /\ journal'.records = journal.records
  <2>1. journal \in JournalContents
    BY <1>1 DEF FilesOK
  <2> QED BY <1>1, <2>1, JournalUpdates
<1>3. Snapshots' = Snapshots /\ Journals' = Journals
  BY <1>1, <1>2 DEF Snapshots, Journals
<1>4. HistoryOK' /\ FaultsOK'
  <2>1. \A k \in Nat : k + 1 \in Nat
    BY SMTT(30)
  <2> QED BY <1>1, <2>1, SameHistory DEF FaultsOK
<1>5. FilesOK'
  <2>1. \A a \in Snapshots', q \in Journals' : Follows(a, q) /\ told' <= Reach(a, q)
    BY <1>1, <1>3, FilesFacts
  <2>2. /\ told' \in Nat /\ \A a \in Snapshots' : Past(a)
        /\ snapshot' \in Snapshots' /\ journal_synced' \in JournalContents
    BY <1>1, <1>3, FilesFacts DEF FilesOK
  <2> QED BY <1>1, <1>2, <2>1, <2>2, FilesKept
<1>6. StageOK'
  BY <1>1 DEF StageOK, Stages, Syncing, repository
<1>7. PowerOK'
  <2>1. ~compaction_deferred' /\ ~compaction_deferred /\ stage # "sync_truncated"
    BY <1>1 DEF StageOK, Syncing, repository
  <2> SUFFICES ASSUME kills = 0 PROVE PowerOK'
    BY <1>1 DEF PowerOK
  <2>2. named' = named \/ (named = "no" /\ named' = "cached")
    BY <1>1
  <2> QED BY <1>1, <1>2, <2>1, <2>2 DEF PowerOK, Compacting
<1>8. CountersOK'
  BY <1>1 DEF CountersOK, repository
<1> QED BY <1>4, <1>5, <1>6, <1>7, <1>8 DEF JournalInv

LEMMA CompactionFailsStep ==
  ASSUME JournalInv, CompactionFails
  PROVE  JournalInv'
<1>1. /\ HistoryOK /\ FilesOK /\ StageOK /\ PowerOK /\ CountersOK /\ FaultsOK
      /\ stage \in Compacting
      /\ failures' = failures + 1 /\ kills' = kills /\ losses' = losses
      /\ \/ compaction_deferred /\ stage' = "poisoned" /\ told' = told
         \/ ~compaction_deferred /\ stage' = "idle" /\ told' = machine.revision
      /\ compaction_deferred' = TRUE
      /\ UNCHANGED <<machine, history>> /\ UNCHANGED disk
      /\ UNCHANGED <<commits_since_compaction, journal_bytes>>
  <2>1. compaction_deferred \in BOOLEAN
    BY DEF JournalInv, StageOK
  <2> QED BY <2>1 DEF JournalInv, CompactionFails, Poison, Answer, Compacting
<1>2. Snapshots' = Snapshots /\ Journals' = Journals
  BY <1>1 DEF Snapshots, Journals, disk
<1>3. machine.revision \in Nat /\ machine.revision <= machine.revision
  <2>1. machine.revision \in Nat
    BY <1>1, FilesFacts
  <2> QED BY <2>1, SMTT(30)
<1>4. ASSUME ~compaction_deferred, NEW a \in Snapshots, NEW rs \in Journals
      PROVE  Reach(a, rs) = machine.revision
  <2>1. CASE stage \in {"write_snapshot", "sync_snapshot"}
    BY <1>1, <1>4, <2>1 DEF StageOK, AllReach
  <2>2. CASE stage \in {"truncate", "sync_truncated"}
    <3>1. /\ a.revision = machine.revision /\ Reach(a, rs) \in Nat
          /\ a.revision <= Reach(a, rs) /\ Reach(a, rs) <= machine.revision
      BY <1>1, <2>2, FilesFacts DEF StageOK
    <3> QED BY <1>3, <3>1, SMTT(30)
  <2> QED BY <1>1, <2>1, <2>2 DEF Compacting
<1>5. HistoryOK' /\ FaultsOK'
  <2>1. \A k \in Nat : k + 1 \in Nat
    BY SMTT(30)
  <2> QED BY <1>1, <2>1, SameHistory DEF FaultsOK
<1>6. FilesOK'
  <2>1. \A a \in Snapshots', q \in Journals' : Follows(a, q) /\ told' <= Reach(a, q)
    BY <1>1, <1>2, <1>3, <1>4, FilesFacts
  <2>2. /\ told' \in Nat /\ \A a \in Snapshots' : Past(a)
        /\ snapshot' \in Snapshots'
    BY <1>1, <1>2, FilesFacts DEF disk
  <2>3. journal' \in JournalContents /\ journal_synced' \in JournalContents
    BY <1>1 DEF FilesOK, disk
  <2> QED BY <1>1, <2>1, <2>2, <2>3, FilesKept
<1>7. StageOK'
  <2>1. ASSUME stage' = "idle" PROVE AllReach(machine.revision)'
    <3>1. ~compaction_deferred
      BY <1>1, <2>1
    <3>2. \A a \in Snapshots', q \in Journals' : Reach(a, q) = machine'.revision
      BY <1>1, <1>2, <1>4, <3>1
    <3> QED BY <3>2 DEF AllReach
  <2> QED BY <1>1, <2>1 DEF StageOK, Stages, Syncing
<1>8. PowerOK'
  BY <1>1 DEF PowerOK, Compacting, disk
<1>9. CountersOK'
  <2>1. CASE stage' = "poisoned"
    BY <1>1, <2>1 DEF CountersOK
  <2>2. CASE ~compaction_deferred /\ stage' = "idle"
    <3>1. /\ stage \notin Syncing /\ stage # "append" /\ stage' \notin Syncing
          /\ stage \notin {"poisoned", "down"} /\ stage' \notin Compacting
      BY <1>1, <2>2 DEF Compacting, Syncing
    <3> QED BY <1>1, <2>2, <3>1 DEF CountersOK, disk
  <2> QED BY <1>1, <2>1, <2>2
<1> QED BY <1>5, <1>6, <1>7, <1>8, <1>9 DEF JournalInv

LEMMA KillStep ==
  ASSUME JournalInv, Kill
  PROVE  JournalInv'
<1>1. /\ HistoryOK /\ FilesOK /\ StageOK /\ CountersOK /\ FaultsOK
      /\ stage' = "down" /\ told' = told
      /\ kills' = kills + 1 /\ failures' = failures /\ losses' = losses
      /\ journal' = journal \/ journal' = [journal EXCEPT !.torn = TRUE]
      /\ UNCHANGED <<machine, history>> /\ UNCHANGED repository
      /\ UNCHANGED <<snapshot, snapshot_images, journal_synced>>
  BY DEF JournalInv, Kill
<1>2. journal' \in JournalContents /\ journal'.records = journal.records
  <2>1. journal \in JournalContents
    BY <1>1 DEF FilesOK
  <2> QED BY <1>1, <2>1, JournalUpdates
<1>3. kills' \in Nat /\ kills' # 0
  <2>1. \A k \in Nat : k + 1 \in Nat /\ k + 1 # 0
    BY SMTT(30)
  <2> QED BY <1>1, <2>1 DEF FaultsOK
<1>4. /\ Snapshots' = {snapshot} /\ snapshot' \in Snapshots'
      /\ Journals' = {journal.records}
  BY <1>1, <1>2, <1>3 DEF Snapshots, Journals
<1>5. HistoryOK' /\ FaultsOK'
  BY <1>1, <1>3, SameHistory DEF FaultsOK
<1>6. FilesOK'
  <2>1. \A a \in Snapshots', q \in Journals' : Follows(a, q) /\ told' <= Reach(a, q)
    BY <1>1, <1>4, FilesFacts
  <2>2. /\ told' \in Nat /\ \A a \in Snapshots' : Past(a)
        /\ journal_synced' \in JournalContents
    BY <1>1, <1>4, FilesFacts DEF FilesOK
  <2> QED BY <1>1, <1>2, <1>4, <2>1, <2>2, FilesKept
<1>7. StageOK'
  BY <1>1 DEF StageOK, Stages, Syncing, repository
<1>8. PowerOK'
  BY <1>3 DEF PowerOK
<1>9. CountersOK'
  BY <1>1 DEF CountersOK, repository
<1> QED BY <1>5, <1>6, <1>7, <1>8, <1>9 DEF JournalInv

LEMMA PowerLossStep ==
  ASSUME ~MixedCrashes, JournalInv, PowerLoss
  PROVE  JournalInv'
<1>1. /\ HistoryOK /\ FilesOK /\ StageOK /\ PowerOK /\ CountersOK /\ FaultsOK
      /\ stage' = "down" /\ told' = told /\ kills = 0
      /\ losses' = losses + 1 /\ failures' = failures /\ kills' = kills
      /\ named' \in IF named = "cached" THEN {"no", "synced"} ELSE {named}
      /\ named' = "no" => journal' = NoJournal
      /\ UNCHANGED <<machine, history>> /\ UNCHANGED repository
  BY DEF JournalInv, PowerLoss
<1>2. PICK image \in Images :
        /\ snapshot' = image.snapshot /\ snapshot_images' = {image.snapshot}
        /\ journal' = image.journal /\ journal_synced' = image.journal
  BY DEF PowerLoss
<1>3. /\ Past(image.snapshot) /\ image.journal \in JournalContents
      /\ Follows(image.snapshot, image.journal.records)
      /\ told <= Reach(image.snapshot, image.journal.records)
      /\ image.journal.records = <<>> => told <= image.snapshot.revision
  BY <1>1, ImageFollows
<1>4. /\ Snapshots' = {image.snapshot} /\ snapshot' \in Snapshots'
      /\ Journals' = {image.journal.records}
  BY <1>1, <1>2 DEF Snapshots, Journals
<1>5. HistoryOK' /\ FaultsOK'
  <2>1. \A k \in Nat : k + 1 \in Nat
    BY SMTT(30)
  <2> QED BY <1>1, <2>1, SameHistory DEF FaultsOK
<1>6. FilesOK'
  <2>1. \A a \in Snapshots', q \in Journals' : Follows(a, q) /\ told' <= Reach(a, q)
    BY <1>1, <1>3, <1>4
  <2>2. told' \in Nat /\ \A a \in Snapshots' : Past(a)
    BY <1>1, <1>3, <1>4 DEF FilesOK
  <2> QED BY <1>1, <1>2, <1>3, <1>4, <2>1, <2>2, FilesKept
<1>7. StageOK'
  BY <1>1 DEF StageOK, Stages, Syncing, repository
<1>8. PowerOK'
  <2>1. StartsWith(journal'.records, journal_synced'.records)
    <3>1. image.journal.records \in Seq(Records)
      BY <1>3 DEF JournalContents
    <3>2. Len(image.journal.records) <= Len(image.journal.records)
      BY <3>1, SMTT(30)
    <3> QED BY <1>2, <3>2 DEF StartsWith
  <2>2. named' \in {"no", "synced"}
    BY <1>1 DEF PowerOK
  <2>3. named' = "no" => /\ image.journal.records = <<>>
                         /\ told <= image.snapshot.revision
    <3>1. NoJournal.records = <<>>
      BY DEF NoJournal
    <3> QED BY <1>1, <1>2, <1>3, <3>1
  <2>4. compaction_deferred' => named' = "synced"
    BY <1>1 DEF PowerOK, repository
  <2>5. stage' \notin Compacting
    BY <1>1 DEF Compacting
  <2> QED BY <1>1, <1>2, <2>1, <2>2, <2>3, <2>4, <2>5 DEF PowerOK
<1>9. CountersOK'
  BY <1>1 DEF CountersOK, repository
<1> QED BY <1>5, <1>6, <1>7, <1>8, <1>9 DEF JournalInv

\* What load rebuilds: the state the files lead to, and never a refusal.
LEMMA LoadRebuilds ==
  ASSUME JournalInv
  PROVE  LET N == Reach(snapshot, journal.records)
         IN /\ Recovered(snapshot, journal.records) = history[N]
            /\ history[N] # Unreadable /\ history[N].revision = N
            /\ N \in Nat /\ N \in 0..machine.revision
            /\ told <= N /\ snapshot.revision <= N
<1> DEFINE N == Reach(snapshot, journal.records)
<1>1. HistoryOK /\ FilesOK
  BY DEF JournalInv
<1>2. PICK a : a = snapshot
  OBVIOUS
<1>3. PICK rs : rs = journal.records
  OBVIOUS
<1>4. /\ rs \in Seq(Records) /\ Past(a) /\ Follows(a, rs)
      /\ told \in Nat /\ told <= Reach(a, rs) /\ a.revision <= Reach(a, rs)
      /\ Reach(a, rs) \in Nat /\ Reach(a, rs) <= machine.revision
      /\ machine.revision \in Nat
  BY <1>1, <1>2, <1>3, FilesFacts
<1>5. Recovered(a, rs) = history[Reach(a, rs)]
  BY <1>1, <1>4, RecoveredIs
<1>6. Survives(Recovered(a, rs)) /\ Recovered(a, rs).revision = Reach(a, rs)
  BY <1>1, <1>4, FilesSurvive
<1>7. Reach(a, rs) \in 0..machine.revision
  BY <1>4, SMTT(30)
<1> QED BY <1>2, <1>3, <1>4, <1>5, <1>6, <1>7 DEF Survives

LEMMA LoadStep ==
  ASSUME JournalInv, Load
  PROVE  JournalInv'
<1>1. /\ HistoryOK /\ FilesOK /\ StageOK /\ PowerOK /\ CountersOK /\ FaultsOK
      /\ stage = "down"
      /\ UNCHANGED <<snapshot, snapshot_images, named, told>> /\ UNCHANGED faults
  BY DEF JournalInv, Load
<1>2. PICK a : a = snapshot
  OBVIOUS
<1>3. PICK rs : rs = journal.records
  OBVIOUS
<1>4. PICK N : N = Reach(a, rs)
  OBVIOUS
<1>5. /\ Recovered(a, rs) = history[N] /\ history[N] # Unreadable
      /\ history[N].revision = N /\ N \in Nat /\ N \in 0..machine.revision
      /\ told <= N /\ a.revision <= N
  BY <1>2, <1>3, <1>4, LoadRebuilds
<1>6. /\ stage' = "idle" /\ machine' = history[N]
      /\ history' = [r \in 0..N |-> history[r]]
      /\ journal' = [journal EXCEPT !.torn = FALSE]
      /\ journal_synced' = IF journal.torn THEN journal' ELSE journal_synced
      /\ journal_bytes' = Len(rs)
      /\ commits_since_compaction' = N - a.revision
      /\ compaction_deferred' = FALSE
  BY <1>2, <1>3, <1>5 DEF Load, CommitsAfterLoad
<1>7. /\ journal' \in JournalContents /\ journal'.records = rs
      /\ journal_synced' \in JournalContents
  <2>1. journal \in JournalContents /\ journal_synced \in JournalContents
    BY <1>1 DEF FilesOK
  <2>2. journal' \in JournalContents /\ journal'.records = rs
    BY <1>3, <1>6, <2>1, JournalUpdates
  <2> QED BY <1>6, <2>1, <2>2
<1>8. kills = 0 => snapshot_images = {a} /\ journal_synced'.records = rs
  BY <1>1, <1>2, <1>3, <1>6, <1>7 DEF PowerOK
<1>9. Snapshots' = {a} /\ Journals' = {rs} /\ snapshot' = a
  BY <1>1, <1>2, <1>7, <1>8 DEF Snapshots, Journals, faults
<1>10. /\ Past(a) /\ rs \in Seq(Records) /\ Follows(a, rs) /\ machine.revision \in Nat
       /\ a.revision \in Nat /\ told \in Nat
  BY <1>1, <1>2, <1>3, FilesFacts
<1>11. /\ machine'.revision = N
       /\ N \in 0..N /\ \A r \in 0..N : r \in 0..machine.revision /\ history'[r] = history[r]
       /\ N <= N /\ Len(rs) \in Nat /\ Len(rs) <= Len(rs)
       /\ \A r \in 0..machine.revision : r <= N => r \in 0..N
  <2>1. /\ N \in 0..N /\ \A r \in 0..N : r \in 0..machine.revision
        /\ N <= N /\ Len(rs) \in Nat /\ Len(rs) <= Len(rs)
        /\ \A r \in 0..machine.revision : r <= N => r \in 0..N
    BY <1>5, <1>10, SMTT(30)
  <2> QED BY <1>5, <1>6, <2>1
<1>12. HistoryOK'
  <2>1. /\ machine'.revision \in 0..MaxRevision
        /\ DOMAIN history' = 0..machine'.revision
        /\ machine' = history'[machine'.revision]
    <3>1. history[N] \in States
      BY <1>1, <1>5 DEF HistoryOK
    <3>2. N \in 0..MaxRevision
      BY <1>5, <3>1 DEF States
    <3> QED BY <1>6, <1>11, <3>2
  <2>2. ASSUME NEW r \in 0..N
        PROVE  /\ history'[r] \in States /\ history'[r].revision = r
               /\ \A e \in Entities : history'[r].entities[e] <= r
    <3>1. r \in 0..machine.revision /\ history'[r] = history[r]
      BY <1>11
    <3> QED BY <1>1, <3>1 DEF HistoryOK
  <2>3. ASSUME NEW r \in 1..N
        PROVE  /\ history'[r - 1].term <= history'[r].term
               /\ \A e \in Entities :
                    history'[r].entities[e] \in {0, r, history'[r - 1].entities[e]}
    <3>1. r \in 0..N /\ r - 1 \in 0..N /\ r \in 1..machine.revision
      BY <1>5, <1>10, SMTT(30)
    <3>2. history'[r] = history[r] /\ history'[r - 1] = history[r - 1]
      BY <1>11, <3>1
    <3> QED BY <1>1, <3>1, <3>2 DEF HistoryOK
  <2> QED BY <1>11, <2>1, <2>2, <2>3 DEF HistoryOK
<1>13. FilesOK'
  <2>1. Past(a)' /\ Follows(a, rs)'
    <3>1. /\ machine'.revision \in Nat /\ DOMAIN history' = 0..machine'.revision
          /\ Reach(a, rs) <= machine'.revision
          /\ \A r \in 0..machine.revision :
               r <= machine'.revision => history'[r] = history[r]
      BY <1>4, <1>5, <1>6, <1>11
    <3> QED BY <1>1, <1>10, <3>1, FollowsKept
  <2> QED BY <1>1, <1>4, <1>5, <1>7, <1>9, <1>10, <2>1 DEF FilesOK
<1>14. StageOK'
  <2>1. AllReach(machine.revision)'
    BY <1>4, <1>9, <1>11 DEF AllReach
  <2> QED BY <1>6, <2>1 DEF StageOK, Stages, Syncing
<1>15. PowerOK'
  <2> SUFFICES ASSUME kills = 0 PROVE PowerOK'
    BY <1>1 DEF PowerOK, faults
  <2>1. StartsWith(rs, rs)
    BY <1>11 DEF StartsWith
  <2>2. stage' # "down" /\ stage' \notin Compacting /\ ~compaction_deferred'
    BY <1>6 DEF Compacting
  <2>3. named \in {"no", "synced"} /\ (named = "no" => rs = <<>>)
    BY <1>1, <1>3 DEF PowerOK
  <2>4. named # "synced" => \A b \in snapshot_images : told <= b.revision
    BY <1>1 DEF PowerOK
  <2> QED BY <1>1, <1>7, <1>8, <2>1, <2>2, <2>3, <2>4 DEF PowerOK
<1>16. CountersOK'
  <2>1. /\ N - a.revision \in Nat /\ N <= a.revision + (N - a.revision) + 0
        /\ Len(rs) <= Len(rs) + 0
    BY <1>5, <1>10, <1>11, SMTT(30)
  <2>2. stage' \notin Syncing /\ stage' \notin Compacting /\ stage' # "append"
    BY <1>6 DEF Syncing, Compacting
  <2> QED BY <1>6, <1>7, <1>9, <1>11, <2>1, <2>2 DEF CountersOK
<1>17. FaultsOK'
  BY <1>1 DEF FaultsOK, faults
<1> QED BY <1>12, <1>13, <1>14, <1>15, <1>16, <1>17 DEF JournalInv

LEMMA JournalInit ==
  ASSUME Init
  PROVE  JournalInv
<1> USE DEF Init
<1>1. /\ 0 \in Nat /\ 1 \in Nat /\ 0..0 = {0} /\ 1..0 = {} /\ 0 <= 0
      /\ 1 \in 1..MaxTerm /\ 0 \in 0..MaxRevision
      /\ <<>> \in Seq(Records) /\ Len(<<>>) = 0 /\ 0 <= 0 + 0 /\ 0 <= 0 + 0 + 0
  BY RepositoryAssumption, SMTT(30)
<1>2. Empty \in States /\ Empty.revision = 0 /\ \A e \in Entities : Empty.entities[e] = 0
  BY <1>1 DEF Empty, States
<1>3. NoJournal \in JournalContents /\ NoJournal.records = <<>>
  BY <1>1, SMTT(30) DEF NoJournal, JournalContents
<1>4. Snapshots = {Empty} /\ Journals = {<<>>} /\ snapshot = Empty
  BY <1>3 DEF Snapshots, Journals
<1>5. HistoryOK
  BY <1>1, <1>2 DEF HistoryOK
<1>6. FilesOK
  <2>1. Past(Empty)
    BY <1>2 DEF Past
  <2>2. Follows(Empty, <<>>) /\ Reach(Empty, <<>>) = 0
    BY <1>2, EmptyFollows
  <2> QED BY <1>1, <1>3, <1>4, <2>1, <2>2 DEF FilesOK
<1>7. StageOK
  <2>1. AllReach(machine.revision)
    BY <1>2, <1>4, EmptyFollows DEF AllReach
  <2> QED BY <2>1 DEF StageOK, Stages, Syncing
<1>8. PowerOK
  <2>1. StartsWith(<<>>, <<>>)
    BY <1>1 DEF StartsWith
  <2> QED BY <1>1, <1>2, <1>3, <2>1 DEF PowerOK, Compacting
<1>9. CountersOK
  BY <1>1, <1>2, <1>3 DEF CountersOK, Syncing, Compacting
<1>10. FaultsOK
  BY <1>1 DEF FaultsOK
<1> QED BY <1>5, <1>6, <1>7, <1>8, <1>9, <1>10 DEF JournalInv

LEMMA JournalStutter ==
  ASSUME JournalInv, UNCHANGED vars
  PROVE  JournalInv'
<1>1. /\ UNCHANGED <<machine, history, stage, told>> /\ UNCHANGED repository
      /\ UNCHANGED disk /\ UNCHANGED faults
  BY DEF vars, process
<1>2. Snapshots' = Snapshots /\ Journals' = Journals
  BY <1>1 DEF Snapshots, Journals, disk, faults
<1>3. HistoryOK'
  BY <1>1, SameHistory DEF JournalInv
<1>4. FilesOK'
  BY <1>1, <1>2, FilesKept DEF JournalInv, FilesOK, disk
<1>5. StageOK'
  BY <1>1, <1>2 DEF JournalInv, StageOK, AllReach, disk, repository
<1>6. PowerOK'
  BY <1>1 DEF JournalInv, PowerOK, disk, repository, faults
<1>7. CountersOK' /\ FaultsOK'
  BY <1>1 DEF JournalInv, CountersOK, FaultsOK, disk, repository, faults
<1> QED BY <1>3, <1>4, <1>5, <1>6, <1>7 DEF JournalInv

LEMMA JournalStep ==
  ASSUME ~MixedCrashes, JournalInv, [Next]_vars
  PROVE  JournalInv'
<1>1. CASE Serve
  BY <1>1, ProposeUnchangedStep, ProposeStep DEF Serve
<1>2. CASE Persist
  BY <1>2, AppendRecordStep, SyncJournalStep, WriteSnapshotStep, SyncSnapshotStep,
     TruncateJournalStep, SyncTruncatedStep DEF Persist
<1>3. CASE AppendFails \/ CompactionFails \/ Kill \/ PowerLoss \/ Load
  BY <1>3, AppendFailsStep, CompactionFailsStep, KillStep, PowerLossStep, LoadStep
<1>4. CASE UNCHANGED vars
  BY <1>4, JournalStutter
<1> QED BY <1>1, <1>2, <1>3, <1>4 DEF Next

LEMMA JournalInvariant ==
  ASSUME ~MixedCrashes
  PROVE  Spec => []JournalInv
<1>1. Init => JournalInv
  BY JournalInit
<1>2. JournalInv /\ [Next]_vars => JournalInv'
  BY JournalStep
<1> QED BY <1>1, <1>2, PTL DEF Spec

-----------------------------------------------------------------------------
(* Theorems *)

\* Between whichever two calls of commit and compact the process is killed, load
\* rebuilds a state the machine was in that has everything any client was
\* answered, and where no process was killed a loss of power takes nothing
\* either, for every policy of compaction and any number of failed calls.
THEOREM AnsweredCommitsSurviveCrashes ==
  ASSUME ~MixedCrashes
  PROVE  Spec => []CrashLosesNothing
<1>1. JournalInv => CrashLosesNothing
  <2> SUFFICES ASSUME JournalInv PROVE CrashLosesNothing
    OBVIOUS
  <2>1. HistoryOK /\ FilesOK /\ PowerOK
    BY DEF JournalInv
  <2>2. Survives(Recovered(snapshot, journal.records))
    BY <2>1, FilesFacts, FilesSurvive
  <2>3. ASSUME kills = 0, NEW image \in Images
        PROVE  Survives(Recovered(image.snapshot, image.journal.records))
    <3>1. /\ Past(image.snapshot) /\ image.journal.records \in Seq(Records)
          /\ Follows(image.snapshot, image.journal.records)
          /\ told <= Reach(image.snapshot, image.journal.records) /\ told \in Nat
      BY <2>1, <2>3, ImageFollows DEF JournalContents, FilesOK
    <3> QED BY <2>1, <3>1, FilesSurvive
  <2> QED BY <2>2, <2>3 DEF CrashLosesNothing, AnyCrashLosesNothing
<1> QED BY <1>1, JournalInvariant, PTL

\* Between commands the repository's counters are no less than what the journal
\* holds and what the snapshot lacks, whatever failed and restarted before, as
\* long as kills and losses of power do not happen to the same files.
THEOREM CompactionAlwaysFallsDue ==
  ASSUME ~MixedCrashes
  PROVE  Spec => []CompactionFallsDue
<1>1. JournalInv => CompactionFallsDue
  <2> SUFFICES ASSUME JournalInv, stage = "idle"
               PROVE  /\ Len(journal.records) <= journal_bytes
                      /\ machine.revision - snapshot.revision
                           <= commits_since_compaction
    BY DEF CompactionFallsDue
  <2>1. /\ commits_since_compaction \in Nat /\ journal_bytes \in Nat
        /\ Len(journal.records) <= journal_bytes + 0
        /\ machine.revision <= snapshot.revision + commits_since_compaction + 0
    BY DEF JournalInv, CountersOK, Syncing, Compacting
  <2>2. machine.revision \in Nat /\ snapshot.revision \in Nat
        /\ journal.records \in Seq(Records)
    BY FilesFacts DEF JournalInv
  <2>3. Len(journal.records) \in Nat
    BY <2>2, SMTT(30)
  <2> QED BY <2>1, <2>2, <2>3, SMTT(30)
<1> QED BY <1>1, JournalInvariant, PTL

-----------------------------------------------------------------------------
(* The repository implements the durable log *)

LEMMA LastIs ==
  ASSUME NEW l, NEW n \in Nat, DOMAIN l = 0..n
  PROVE  Durable!Last(l) = n
<1>1. n \in 0..n /\ \A s \in 0..n : s <= n
  BY SMTT(30)
<1>2. \A r \in 0..n : (\A s \in 0..n : s <= r) => r = n
  BY SMTT(30)
<1> QED BY <1>1, <1>2 DEF Durable!Last

\* The last revision of the log, and what the log is.
LogEnd ==
  IF stage = "down" THEN Reach(snapshot, journal.records) ELSE machine.revision

LogOK ==
  /\ machine.revision \in Nat /\ told <= LogEnd
  /\ LogEnd \in Nat /\ LogEnd \in 0..machine.revision
  /\ DOMAIN Log = 0..LogEnd
  /\ \A r \in 0..LogEnd : Log[r] = history[r]
  /\ stage # "down" => Log = history
  /\ stage = "down" => Log = [r \in 0..LogEnd |-> history[r]]

LEMMA LogIs == JournalInv => LogOK
<1> SUFFICES ASSUME JournalInv PROVE LogOK
  OBVIOUS
<1>1. /\ stage \in Stages \ {"refused"} /\ machine.revision \in Nat
      /\ told <= machine.revision /\ HistoryOK
  BY FilesFacts DEF JournalInv, StageOK
<1>2. CASE stage # "down"
  <2>1. Log = history /\ LogEnd = machine.revision
    BY <1>1, <1>2 DEF Log, LogEnd, Stages
  <2>2. machine.revision \in 0..machine.revision
    BY <1>1, SMTT(30)
  <2> QED BY <1>1, <1>2, <2>1, <2>2 DEF LogOK, HistoryOK
<1>3. CASE stage = "down"
  <2>1. PICK N : N = Reach(snapshot, journal.records)
    OBVIOUS
  <2>2. PICK recovered : recovered = Recovered(snapshot, journal.records)
    OBVIOUS
  <2>3. /\ recovered = history[N] /\ recovered.revision = N
        /\ N \in Nat /\ N \in 0..machine.revision /\ told <= N
    BY <2>1, <2>2, LoadRebuilds
  <2>4. Log = [r \in 0..N |-> IF r = N THEN recovered ELSE history[r]]
    BY <1>3, <2>2, <2>3 DEF Log
  <2>5. \A r \in 0..N : (IF r = N THEN recovered ELSE history[r]) = history[r]
    BY <2>3
  <2>6. Log = [r \in 0..N |-> history[r]] /\ LogEnd = N
    BY <1>3, <2>1, <2>4, <2>5 DEF LogEnd
  <2> QED BY <1>1, <1>3, <2>3, <2>6 DEF LogOK
<1> QED BY <1>2, <1>3

\* A loss of power while no process runs leaves no more than there was.
LEMMA ImageReachesNoFurther ==
  ASSUME JournalInv, kills = 0, stage = "down", NEW image \in Images
  PROVE  Reach(image.snapshot, image.journal.records)
           <= Reach(snapshot, journal.records)
<1>1. HistoryOK /\ FilesOK /\ PowerOK
  BY DEF JournalInv
<1>2. snapshot_images = {snapshot} /\ journal_synced = journal
  BY <1>1 DEF PowerOK
<1>3. PICK a : a = snapshot
  OBVIOUS
<1>4. PICK rs : rs = journal.records
  OBVIOUS
<1>5. /\ rs \in Seq(Records) /\ Past(a) /\ Follows(a, rs)
      /\ Reach(a, rs) \in Nat /\ a.revision \in Nat /\ a.revision <= Reach(a, rs)
  BY <1>1, <1>3, <1>4, FilesFacts
<1>6. Len(rs) \in Nat /\ Reach(a, rs) <= Reach(a, rs)
  BY <1>5, SMTT(30)
<1>7. /\ image.snapshot = a
      /\ \/ image.journal.records \in {rs, <<>>}
         \/ \E k \in (IF StartsWith(rs, rs) THEN Len(rs) ELSE 0)..(Len(rs) - 1) :
              image.journal.records = SubSeq(rs, 1, k)
  <2>1. /\ image.snapshot = a
        /\ image.journal \in JournalImages \/ image.journal = NoJournal
    BY <1>2, <1>3 DEF Images
  <2>2. CASE image.journal = NoJournal
    <3>1. NoJournal.records = <<>>
      BY DEF NoJournal
    <3> QED BY <2>1, <2>2, <3>1
  <2>3. CASE image.journal \in JournalImages
    BY <1>2, <1>4, <2>1, <2>3, SMTT(30) DEF JournalImages
  <2> QED BY <2>1, <2>2, <2>3
<1>8. StartsWith(rs, rs) /\ Len(rs)..(Len(rs) - 1) = {}
  <2>1. Len(rs) <= Len(rs) /\ Len(rs)..(Len(rs) - 1) = {}
    BY <1>6, SMTT(30)
  <2> QED BY <2>1 DEF StartsWith
<1>9. image.journal.records \in {rs, <<>>}
  BY <1>7, <1>8
<1> QED BY <1>3, <1>4, <1>5, <1>6, <1>7, <1>9, EmptyFollows

\* What the log of one step and of the next have to do with one another.
LEMMA DurableStep ==
  ASSUME ~MixedCrashes, JournalInv, JournalInv', [Next]_vars
  PROVE  [Durable!Next]_<<Log, told>>
<1>1. /\ HistoryOK /\ HistoryOK' /\ LogOK
  BY LogIs DEF JournalInv
<1>2. LogOK'
  BY LogIs, PTL
<1>3. Durable!Last(Log) = LogEnd /\ Durable!Last(Log') = LogEnd'
  BY <1>1, <1>2, LastIs DEF LogOK
<1>4. ASSUME stage # "down", stage' # "down", history' = history,
             told' = told \/ told' = machine.revision
      PROVE  [Durable!Next]_<<Log, told>>
  <2>1. Log = history /\ Log' = history /\ LogEnd = machine.revision
    BY <1>1, <1>2, <1>4 DEF LogOK, LogEnd
  <2> QED BY <1>3, <1>4, <2>1 DEF Durable!Next, Durable!Tell
<1>5. CASE ProposeUnchanged
  BY <1>4, <1>5 DEF ProposeUnchanged, process
<1>6. ASSUME NEW updated \in SUBSET Entities, NEW deleted \in SUBSET Entities,
             NEW advance \in BOOLEAN, Propose(updated, deleted, advance)
      PROVE  [Durable!Next]_<<Log, told>>
  <2>1. /\ machine'.revision = machine.revision + 1
        /\ \A r \in 0..machine.revision : history'[r] = history[r]
    BY <1>1, <1>6, ProposeHistory
  <2>2. stage # "down" /\ stage' # "down" /\ told' = told
    BY <1>6 DEF Propose
  <2>3. /\ Log = history /\ Log' = history' /\ DOMAIN history = 0..machine.revision
        /\ LogEnd = machine.revision /\ LogEnd' = machine'.revision
    BY <1>1, <1>2, <2>2 DEF LogOK, LogEnd
  <2>4. history'[machine'.revision] \in States
    <3>1. machine'.revision \in 0..machine'.revision
      BY <1>2, SMTT(30) DEF LogOK
    <3> QED BY <1>1, <3>1 DEF HistoryOK
  <2> QED BY <1>3, <2>1, <2>2, <2>3, <2>4 DEF Durable!Next, Durable!Extend
<1>7. CASE Persist
  <2>1. /\ stage # "down" /\ stage' # "down" /\ history' = history
        /\ told' = told \/ told' = machine.revision
    BY <1>7 DEF Persist, AppendRecord, SyncJournal, WriteSnapshot, SyncSnapshot,
                TruncateJournal, SyncTruncated, Answer
  <2> QED BY <1>4, <2>1
<1>8. CASE AppendFails \/ CompactionFails
  <2>1. /\ stage # "down" /\ stage' # "down" /\ history' = history
        /\ told' = told \/ told' = machine.revision
    BY <1>8 DEF AppendFails, CompactionFails, Answer, Poison
  <2> QED BY <1>4, <2>1
<1>9. CASE Kill \/ PowerLoss
  <2>1. PICK N : N = LogEnd'
    OBVIOUS
  <2>2. PICK B : B = LogEnd
    OBVIOUS
  <2>3. stage' = "down" /\ told' = told /\ machine' = machine /\ history' = history
    BY <1>9 DEF Kill, PowerLoss
  <2>4. /\ N \in Nat /\ N \in 0..machine.revision /\ told <= N /\ B \in Nat
        /\ DOMAIN Log' = 0..N /\ \A r \in 0..N : Log'[r] = history[r]
        /\ \A r \in 0..B : Log[r] = history[r]
    BY <1>1, <1>2, <2>1, <2>2, <2>3 DEF LogOK
  <2>5. N <= B
    <3>1. CASE stage # "down"
      <4>1. B = machine.revision /\ machine.revision \in Nat
        BY <1>1, <2>2, <3>1 DEF LogEnd, LogOK
      <4> QED BY <2>4, <4>1, SMTT(30)
    <3>2. CASE stage = "down"
      <4>1. PowerLoss
        BY <1>9, <3>2 DEF Kill
      <4>2. PICK image \in Images :
              snapshot' = image.snapshot /\ journal' = image.journal
        BY <4>1 DEF PowerLoss
      <4>3. kills = 0
        BY <4>1 DEF PowerLoss
      <4>4. B = Reach(snapshot, journal.records)
            /\ N = Reach(image.snapshot, image.journal.records)
        BY <2>1, <2>2, <2>3, <3>2, <4>2 DEF LogEnd
      <4> QED BY <3>2, <4>3, <4>4, ImageReachesNoFurther
    <3> QED BY <3>1, <3>2
  <2>6. \A r \in 0..N : r \in 0..B
    BY <2>4, <2>5, SMTT(30)
  <2>7. \A r \in DOMAIN Log' : Log'[r] = Log[r]
    BY <2>4, <2>6
  <2>8. Durable!Crash(Log, Log')
    BY <1>3, <2>1, <2>2, <2>3, <2>4, <2>5, <2>7 DEF Durable!Crash
  <2> QED BY <2>8 DEF Durable!Next
<1>10. CASE Load
  <2>1. PICK N : N = Reach(snapshot, journal.records)
    OBVIOUS
  <2>2. /\ Recovered(snapshot, journal.records) = history[N]
        /\ history[N] # Unreadable /\ history[N].revision = N
    BY <2>1, LoadRebuilds
  <2>3. /\ stage = "down" /\ stage' = "idle" /\ told' = told
        /\ history' = [r \in 0..N |-> history[r]]
    BY <1>10, <2>2 DEF Load
  <2>4. Log = [r \in 0..N |-> history[r]] /\ Log' = history'
    BY <1>1, <1>2, <2>1, <2>3 DEF LogOK, LogEnd
  <2> QED BY <2>3, <2>4
<1>11. CASE UNCHANGED vars
  <2>1. Log' = Log /\ told' = told
    BY <1>11 DEF vars, process, disk, Log
  <2> QED BY <2>1
<1> QED BY <1>5, <1>6, <1>7, <1>8, <1>9, <1>10, <1>11 DEF Next, Serve

\* The repository implements a log whose crashes drop only states that no client
\* was told of: propose extends the log, an answer tells of its last state, a
\* kill or a loss of power is a crash, and load and the calls of commit and
\* compact change nothing of it.  Kills and losses of power do not happen to
\* the same files: a record that a killed process never synced may be told of.
THEOREM RepositoryImplementsLog ==
  ASSUME ~MixedCrashes
  PROVE  Spec => ImplementsDurableLog
<1>1. Init => Durable!Init
  <2> SUFFICES ASSUME Init PROVE DOMAIN Log = {0} /\ told = 0
    BY DEF Durable!Init
  <2>1. stage \notin {"down", "refused"} /\ DOMAIN history = {0} /\ told = 0
    BY DEF Init
  <2> QED BY <2>1 DEF Log
<1>2. JournalInv /\ JournalInv' /\ [Next]_vars => [Durable!Next]_<<Log, told>>
  BY DurableStep
<1> QED BY <1>1, <1>2, JournalInvariant, PTL DEF Spec, ImplementsDurableLog, Durable!Spec

=============================================================================
