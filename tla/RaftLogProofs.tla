--------------------------- MODULE RaftLogProofs ----------------------------
(***************************************************************************)
(* The engine's logs, for clusters, logs and terms of any size: what is    *)
(* committed on one node is in the log of every later leader.              *)
(***************************************************************************)
EXTENDS ClusterRaft, FiniteSetTheorems, WellFoundedInduction, TLAPS

\* The prover of a step that names none.
USE ZenonT(30)

Terms == 1..MaxRaftTerm

Blanks == {Blank(t) : t \in Terms}
Commands == {Command(t) : t \in Terms}
Advancements ==
  {AdvanceTerm(t, x, y) : t \in Terms, x \in Terms, y \in Terms}

\* A term advance is written in the term it was read from, or later.
Entries ==
  Blanks \cup Commands \cup {e \in Advancements : e.new <= e.term}

EngineShape ==
  /\ raft_term \in [Nodes -> Terms]
  /\ leads \in [Nodes -> BOOLEAN]
  /\ log \in [Nodes -> Seq(Entries)]
  /\ committed \in [Nodes -> Nat]
  /\ \A n \in Nodes : Len(log[n]) \in 1..MaxLog

TermAt(n, i) == log[n][i].term
Holds(n, i, t) == i \in 1..Len(log[n]) /\ TermAt(n, i) = t

\* Term t is over for a majority, or current: nobody is elected in it again.
Voters(t) == {m \in Nodes : raft_term[m] >= t}
Voted(t) == IsMajority(Voters(t))

\* Terms grow along a log, up to that of its node's vote.
LogsSorted ==
  \A n \in Nodes : \A i, j \in 1..Len(log[n]) :
    i <= j => TermAt(n, i) <= TermAt(n, j)

LogsVoted ==
  \A n \in Nodes : \A i \in 1..Len(log[n]) :
    TermAt(n, i) <= raft_term[n] /\ Voted(TermAt(n, i))

LogsStart == \A n \in Nodes : TermAt(n, 1) = 1

\* A leader is the only one of its term, and holds all that was written in it.
OneLeader ==
  \A l, k \in Nodes :
    leads[l] /\ leads[k] /\ raft_term[l] = raft_term[k] => l = k

LeadersWrote == \A l \in Nodes : leads[l] => LastTerm(l) = raft_term[l]

LeadersHold ==
  \A l, m \in Nodes : \A i \in 1..Len(log[m]) :
    leads[l] /\ TermAt(m, i) = raft_term[l] => Holds(l, i, raft_term[l])

\* A log that reaches as far into a term as another agrees with it so far.
LogsMatch ==
  \A n, m \in Nodes : \A k \in 1..Len(log[n]), i \in 1..Len(log[m]) :
    i <= k /\ TermAt(n, k) = TermAt(m, i) =>
      \A j \in 1..i : log[n][j] = log[m][j]

\* q cannot have chosen what a log without it, that ends with the k-th entry
\* of p, was elected over.
Surpassed(q, p, k) ==
  \/ LastTerm(q) < TermAt(p, k)
  \/ LastTerm(q) = TermAt(p, k) /\ Len(log[q]) <= k

\* Where the term rises in a log, its leader was elected with what is before.
Electors(p, k) ==
  {q \in Nodes : /\ raft_term[q] >= TermAt(p, k + 1)
                 /\ LastTerm(q) >= TermAt(p, k + 1) \/ Surpassed(q, p, k)}

Elected ==
  \A p \in Nodes : \A k \in 1..Len(log[p]) :
    k + 1 <= Len(log[p]) /\ TermAt(p, k) < TermAt(p, k + 1) =>
      IsMajority(Electors(p, k))

LogInv ==
  /\ EngineShape /\ LogsSorted /\ LogsVoted /\ LogsStart
  /\ OneLeader /\ LeadersWrote /\ LeadersHold /\ LogsMatch /\ Elected

\* An entry a majority holds, and every log that goes on to a later term.
Holders(c, t) == {m \in Nodes : Holds(m, c, t)}

Chosen(c, t) ==
  /\ IsMajority(Holders(c, t))
  /\ \A m \in Nodes : \A k \in 1..Len(log[m]) :
       TermAt(m, k) > t => Holds(m, c, t)
  /\ \A l \in Nodes : leads[l] /\ raft_term[l] = t => c <= committed[l]

CommittedChosen ==
  \A n \in Nodes :
    /\ committed[n] \in 1..Len(log[n])
    /\ Chosen(committed[n], TermAt(n, committed[n]))

RaftInv == LogInv /\ CommittedChosen

\* What a step must leave alone: a chosen entry and all that is before it.
KeepsChosen ==
  \A c, t \in Nat :
    Chosen(c, t) =>
      /\ Chosen(c, t)'
      /\ \A m \in Nodes : Holds(m, c, t) =>
           Holds(m, c, t)' /\ \A j \in 1..c : log'[m][j] = log[m][j]

-----------------------------------------------------------------------------
(* Majorities, least and greatest numbers *)

\* Two majorities share a node.
LEMMA Intersect ==
  ASSUME NEW S \in SUBSET Nodes, NEW T \in SUBSET Nodes,
         IsMajority(S), IsMajority(T)
  PROVE  \E n \in Nodes : n \in S /\ n \in T
<1>1. IsFiniteSet(Nodes)
  BY ClusterAssumption
<1>2. /\ Cardinality(S) \in Nat /\ Cardinality(T) \in Nat
      /\ Cardinality(Nodes) \in Nat
  BY <1>1, FS_Subset, FS_CardinalityType
<1>3. Cardinality(S) + Cardinality(T) > Cardinality(Nodes)
  BY <1>2, SMTT(30) DEF IsMajority
<1>4. S \cap T # {}
  BY <1>1, <1>3, FS_MajoritiesIntersect
<1> QED BY <1>4

\* What contains a majority is one.
LEMMA Larger ==
  ASSUME NEW S \in SUBSET Nodes, NEW T \in SUBSET Nodes, S \subseteq T,
         IsMajority(S)
  PROVE  IsMajority(T)
<1>1. IsFiniteSet(Nodes)
  BY ClusterAssumption
<1>2. /\ Cardinality(S) \in Nat /\ Cardinality(T) \in Nat
      /\ Cardinality(Nodes) \in Nat
  BY <1>1, FS_Subset, FS_CardinalityType
<1>3. Cardinality(S) <= Cardinality(T)
  BY <1>1, FS_Subset
<1> QED BY <1>2, <1>3, SMTT(30) DEF IsMajority

\* All the nodes are a majority.
LEMMA AllNodes == IsMajority(Nodes)
<1>1. Cardinality(Nodes) \in Nat /\ Cardinality(Nodes) # 0
  BY ClusterAssumption, FS_CardinalityType, FS_EmptySet
<1> QED BY <1>1, SMTT(30) DEF IsMajority

\* A set of numbers that is not empty has a least one.
LEMMA LeastOf ==
  ASSUME NEW S \in SUBSET Nat, S # {}
  PROVE  \E x \in S : \A y \in S : x <= y
<1> DEFINE R == OpToRel(<, Nat)
<1>1. IsWellFoundedOn(R, Nat)
  BY NatLessThanWellFounded
<1>2. PICK x \in S : \A y \in S : ~(<<y, x>> \in R)
  <2> HIDE DEF R
  <2> QED BY <1>1, WFMin
<1>3. \A a, b \in Nat : a < b => <<a, b>> \in R
  BY DEF OpToRel
<1>4. \A y \in S : ~(y < x)
  BY <1>2, <1>3
<1> QED BY <1>4, SMTT(30)

LEMMA LargerOfTwo ==
  ASSUME NEW a \in Nat, NEW b \in Nat
  PROVE  Max({a, b}) = IF a >= b THEN a ELSE b
<1>1. \E x \in {a, b} : \A y \in {a, b} : x >= y
  BY SMTT(30)
<1>2. /\ Max({a, b}) \in {a, b}
      /\ \A y \in {a, b} : Max({a, b}) >= y
  BY <1>1 DEF Max
<1> QED BY <1>2, SMTT(30)

LEMMA LeastIsMin ==
  ASSUME NEW S \in SUBSET Nat, S # {}
  PROVE  Min(S) \in S /\ \A y \in S : Min(S) <= y
BY LeastOf DEF Min

-----------------------------------------------------------------------------
(* The shape of the logs *)

LEMMA EntryShape ==
  ASSUME NEW e \in Entries
  PROVE  /\ e.term \in Terms
         /\ e.kind = "advance" => e.new \in Terms /\ e.new <= e.term
<1>1. CASE e \in Blanks
  BY <1>1, SMTT(30) DEF Blanks, Blank
<1>2. CASE e \in Commands
  BY <1>2, SMTT(30) DEF Commands, Command
<1>3. CASE e \in Advancements /\ e.new <= e.term
  BY <1>3, SMTT(30) DEF Advancements, AdvanceTerm
<1> QED BY <1>1, <1>2, <1>3 DEF Entries

LEMMA LogShape ==
  ASSUME EngineShape, NEW n \in Nodes
  PROVE  /\ log[n] \in Seq(Entries)
         /\ Len(log[n]) \in Nat \ {0}
         /\ raft_term[n] \in Nat \ {0}
         /\ LastTerm(n) = TermAt(n, Len(log[n]))
         /\ \A i \in 1..Len(log[n]) :
              log[n][i] \in Entries /\ TermAt(n, i) \in Nat \ {0}
<1>1. /\ log[n] \in Seq(Entries) /\ Len(log[n]) \in Nat \ {0}
      /\ raft_term[n] \in Nat \ {0}
  BY ClusterAssumption, SMTT(30) DEF EngineShape, Terms
<1>2. ASSUME NEW i \in 1..Len(log[n])
      PROVE  log[n][i] \in Entries /\ TermAt(n, i) \in Nat \ {0}
  <2>1. log[n][i] \in Entries
    BY <1>1, SMTT(30)
  <2>2. log[n][i].term \in Terms
    BY <2>1, EntryShape
  <2> QED BY <2>1, <2>2, ClusterAssumption, SMTT(30) DEF TermAt, Terms
<1> QED BY <1>1, <1>2 DEF LastTerm, TermAt

-----------------------------------------------------------------------------
(* Steps of the engine *)

\* A node that leads the term of a chosen entry, or a later one, holds it.
LEMMA LeaderHasChosen ==
  ASSUME LogInv, NEW c \in Nat, NEW t \in Nat, Chosen(c, t),
         NEW l \in Nodes, leads[l], raft_term[l] >= t
  PROVE  Holds(l, c, t)
<1>1. PICK m \in Nodes : Holds(m, c, t)
  <2>1. Holders(c, t) \in SUBSET Nodes /\ IsMajority(Holders(c, t))
    BY DEF Chosen, Holders
  <2>2. PICK m \in Nodes : m \in Holders(c, t)
    BY <2>1, Intersect
  <2> QED BY <2>2 DEF Holders
<1>2. EngineShape /\ LeadersWrote /\ LeadersHold
  BY DEF LogInv
<1>3. /\ Len(log[l]) \in 1..Len(log[l]) /\ raft_term[l] \in Nat
      /\ TermAt(l, Len(log[l])) = raft_term[l]
  BY <1>2, LogShape, SMTT(30) DEF LeadersWrote
<1>4. CASE raft_term[l] > t
  BY <1>3, <1>4 DEF Chosen
<1>5. CASE raft_term[l] = t
  BY <1>1, <1>2, <1>5 DEF LeadersHold, Holds
<1> QED BY <1>3, <1>4, <1>5, SMTT(30)

\* Votes that rise and leaders that stand down leave the logs as good as they
\* were.
LEMMA QuietLogs ==
  ASSUME RaftInv, EngineShape', log' = log,
         \A n \in Nodes : committed'[n] >= committed[n],
         \A n \in Nodes : raft_term'[n] >= raft_term[n],
         \A n \in Nodes : leads'[n] => leads[n] /\ raft_term'[n] = raft_term[n]
  PROVE  LogInv' /\ KeepsChosen
<1> USE DEF RaftInv, LogInv
<1>0. /\ \A n \in Nodes : raft_term[n] \in Nat /\ raft_term'[n] \in Nat
      /\ \A n \in Nodes : \A i \in 1..Len(log[n]) : TermAt(n, i) \in Nat
  <2>1. \A n \in Nodes : raft_term'[n] \in Nat
    BY ClusterAssumption, SMTT(30) DEF EngineShape, Terms
  <2> QED BY <2>1, LogShape
<1>1. /\ \A n, i : TermAt(n, i)' = TermAt(n, i)
      /\ \A n, i, t : Holds(n, i, t)' <=> Holds(n, i, t)
      /\ \A n : LastTerm(n)' = LastTerm(n)
      /\ \A q, p, k : Surpassed(q, p, k)' <=> Surpassed(q, p, k)
  BY DEF TermAt, Holds, LastTerm, Surpassed
<1>2. ASSUME NEW t \in Nat, Voted(t) PROVE Voted(t)'
  <2>1. Voters(t) \subseteq Voters(t)' /\ Voters(t)' \in SUBSET Nodes
    BY <1>0, SMTT(30) DEF Voters
  <2> QED BY <2>1, <1>2, Larger DEF Voted
<1>3. LogsSorted'
  BY <1>1 DEF LogsSorted
<1>4. LogsVoted'
  BY <1>0, <1>1, <1>2, SMTT(30) DEF LogsVoted
<1>5. LogsStart'
  BY <1>1 DEF LogsStart
<1>6. OneLeader' /\ LeadersWrote' /\ LeadersHold'
  BY <1>1 DEF OneLeader, LeadersWrote, LeadersHold
<1>7. LogsMatch'
  BY <1>1, SMTT(30) DEF LogsMatch
<1>8. Elected'
  <2> SUFFICES ASSUME NEW p \in Nodes, NEW k \in 1..Len(log[p]),
                      k + 1 <= Len(log[p]), TermAt(p, k) < TermAt(p, k + 1)
               PROVE  IsMajority(Electors(p, k)')
    BY <1>1 DEF Elected
  <2>1. k + 1 \in 1..Len(log[p])
    BY SMTT(30)
  <2>2. Electors(p, k) \subseteq Electors(p, k)'
    BY <1>0, <1>1, <2>1, SMTT(30) DEF Electors
  <2>3. Electors(p, k)' \in SUBSET Nodes /\ Electors(p, k) \in SUBSET Nodes
    BY DEF Electors
  <2>4. IsMajority(Electors(p, k))
    BY DEF Elected
  <2> QED BY <2>2, <2>3, <2>4, Larger
<1>9. ASSUME NEW c \in Nat, NEW t \in Nat, Chosen(c, t) PROVE Chosen(c, t)'
  <2>1. \A n \in Nodes : committed[n] \in Nat /\ committed'[n] \in Nat
    BY DEF EngineShape
  <2>2. \A l \in Nodes : leads'[l] /\ raft_term'[l] = t => c <= committed'[l]
    BY <1>9, <2>1, SMTT(30) DEF Chosen
  <2> QED BY <1>1, <1>9, <2>2 DEF Chosen, Holders
<1>10. KeepsChosen
  BY <1>1, <1>9 DEF KeepsChosen
<1> QED BY <1>3, <1>4, <1>5, <1>6, <1>7, <1>8, <1>10

LEMMA QuietStep ==
  ASSUME RaftInv, EngineShape', log' = log, committed' = committed,
         \A n \in Nodes : raft_term'[n] >= raft_term[n],
         \A n \in Nodes : leads'[n] => leads[n] /\ raft_term'[n] = raft_term[n]
  PROVE  RaftInv' /\ KeepsChosen
<1>1. LogInv' /\ KeepsChosen
  <2>1. \A n \in Nodes : committed'[n] >= committed[n]
    BY SMTT(30) DEF RaftInv, LogInv, EngineShape
  <2> QED BY <2>1, QuietLogs
<1>2. CommittedChosen'
  <2> SUFFICES ASSUME NEW n \in Nodes
               PROVE  /\ committed[n] \in 1..Len(log[n])
                      /\ Chosen(committed[n], TermAt(n, committed[n]))'
    BY DEF CommittedChosen
  <2>1. /\ committed[n] \in 1..Len(log[n])
        /\ Chosen(committed[n], TermAt(n, committed[n]))
    BY DEF RaftInv, CommittedChosen
  <2>2. TermAt(n, committed[n]) \in Nat
    BY <2>1, LogShape DEF RaftInv, LogInv
  <2>3. PICK c \in Nat, t \in Nat : c = committed[n] /\ t = TermAt(n, committed[n])
    BY <2>1, <2>2, SMTT(30)
  <2>4. Chosen(c, t)'
    BY <1>1, <2>1, <2>3 DEF KeepsChosen
  <2> QED BY <2>1, <2>3, <2>4 DEF TermAt
<1> QED BY <1>1, <1>2 DEF RaftInv

\* f takes over the log of l.
LEMMA ReplicateStep ==
  ASSUME RaftInv, NEW l \in Nodes, NEW f \in Nodes, Replicate(l, f)
  PROVE  RaftInv' /\ KeepsChosen
<1> USE DEF RaftInv, LogInv
<1> DEFINE from(n) == IF n = f THEN l ELSE n
<1>0. /\ \A n \in Nodes : raft_term[n] \in Nat /\ committed[n] \in Nat
      /\ \A n \in Nodes : \A i \in 1..Len(log[n]) : TermAt(n, i) \in Nat
  BY LogShape, SMTT(30) DEF CommittedChosen
<1>1. /\ leads[l] /\ raft_term[f] <= raft_term[l]
      /\ raft_term' = [raft_term EXCEPT ![f] = raft_term[l]]
      /\ leads' = [leads EXCEPT ![f] = FALSE]
      /\ log' = [log EXCEPT ![f] = log[l]]
      /\ committed' = [committed EXCEPT ![f] = Max({committed[f], committed[l]})]
  BY DEF Replicate
<1>2. Max({committed[f], committed[l]}) =
        IF committed[f] >= committed[l] THEN committed[f] ELSE committed[l]
  BY <1>0, LargerOfTwo
<1>3. EngineShape'
  BY <1>0, <1>1, <1>2 DEF EngineShape
<1>4. \A n \in Nodes :
        /\ from(n) \in Nodes
        /\ log'[n] = log[from(n)]
        /\ LastTerm(n)' = LastTerm(from(n))
        /\ \A i : TermAt(n, i)' = TermAt(from(n), i)
        /\ \A i, t : Holds(n, i, t)' <=> Holds(from(n), i, t)
  BY <1>1 DEF EngineShape, LastTerm, TermAt, Holds
<1>5. \A n \in Nodes :
        /\ raft_term'[n] >= raft_term[n] /\ raft_term'[n] >= raft_term[from(n)]
        /\ raft_term'[n] \in Nat
        /\ committed'[n] \in Nat /\ committed'[n] >= committed[n]
        /\ leads'[n] => n # f /\ leads[n] /\ raft_term'[n] = raft_term[n]
  <2> TAKE n \in Nodes
  <2>1. CASE n = f
    BY <1>0, <1>1, <1>2, <2>1, SMTT(30) DEF EngineShape
  <2>2. CASE n # f
    BY <1>0, <1>1, <2>2, SMTT(30) DEF EngineShape
  <2> QED BY <2>1, <2>2
<1> HIDE DEF from
<1>6. ASSUME NEW t \in Nat, Voted(t) PROVE Voted(t)'
  <2>1. /\ Voters(t) \subseteq Voters(t)'
        /\ Voters(t) \in SUBSET Nodes /\ Voters(t)' \in SUBSET Nodes
    BY <1>0, <1>5, SMTT(30) DEF Voters
  <2> QED BY <2>1, <1>6, Larger DEF Voted
<1>7. LogsSorted' /\ LogsStart'
  <2>1. ASSUME NEW n \in Nodes, NEW i \in 1..Len(log'[n]),
               NEW j \in 1..Len(log'[n]), i <= j
        PROVE  TermAt(n, i)' <= TermAt(n, j)'
    BY <1>4, <2>1, SMTT(30) DEF LogsSorted
  <2>2. ASSUME NEW n \in Nodes PROVE TermAt(n, 1)' = 1
    BY <1>4 DEF LogsStart
  <2> QED BY <2>1, <2>2 DEF LogsSorted, LogsStart
<1>8. LogsVoted'
  <2> SUFFICES ASSUME NEW n \in Nodes, NEW i \in 1..Len(log'[n])
               PROVE  TermAt(n, i)' <= raft_term'[n] /\ Voted(TermAt(n, i))'
    BY DEF LogsVoted
  <2>1. PICK o \in Nodes, t \in Nat :
          /\ o = from(n) /\ i \in 1..Len(log[o])
          /\ t = TermAt(o, i) /\ t = TermAt(n, i)'
    BY <1>0, <1>4
  <2>2. t <= raft_term[o] /\ Voted(t)
    BY <2>1 DEF LogsVoted
  <2>3. Voted(t)'
    BY <1>6, <2>2
  <2> QED BY <1>0, <1>5, <2>1, <2>2, <2>3, SMTT(30)
<1>9. \A k \in Nodes : k # f => from(k) = k
  BY DEF from
<1>10. OneLeader' /\ LeadersWrote' /\ LeadersHold'
  <2>1. OneLeader' /\ LeadersWrote'
    BY <1>4, <1>5, <1>9 DEF OneLeader, LeadersWrote
  <2>2. ASSUME NEW k \in Nodes, NEW m \in Nodes, NEW i \in 1..Len(log'[m]),
               leads'[k], TermAt(m, i)' = raft_term'[k]
        PROVE  Holds(k, i, raft_term[k])'
    <3>1. PICK u \in Nat : u = raft_term[k] /\ u = raft_term'[k]
      BY <1>5, <2>2
    <3>2. Holds(k, i, u)
      <4>1. PICK o \in Nodes : i \in 1..Len(log[o]) /\ TermAt(o, i) = u
        BY <1>4, <2>2, <3>1, SMTT(30)
      <4> QED BY <1>5, <2>2, <3>1, <4>1 DEF LeadersHold
    <3>3. Holds(k, i, u)'
      BY <1>4, <1>5, <1>9, <2>2, <3>2
    <3> QED BY <3>1, <3>3
  <2> QED BY <2>1, <2>2 DEF LeadersHold
<1>11. LogsMatch'
  <2> SUFFICES ASSUME NEW n \in Nodes, NEW m \in Nodes,
                      NEW k \in 1..Len(log'[n]), NEW i \in 1..Len(log'[m]),
                      i <= k, TermAt(n, k)' = TermAt(m, i)', NEW j \in 1..i
               PROVE  log'[n][j] = log'[m][j]
    BY SMTT(30) DEF LogsMatch
  <2> QED BY <1>4, SMTT(30) DEF LogsMatch
<1>12. Elected'
  <2> SUFFICES ASSUME NEW p \in Nodes, NEW k \in 1..Len(log'[p]),
                      k + 1 <= Len(log'[p]), TermAt(p, k)' < TermAt(p, k + 1)'
               PROVE  IsMajority(Electors(p, k)')
    BY DEF Elected
  <2>1. PICK o \in Nodes : o = from(p)
    BY <1>4
  <2>2. /\ k \in 1..Len(log[o]) /\ k + 1 \in 1..Len(log[o])
        /\ TermAt(p, k)' = TermAt(o, k) /\ TermAt(p, k + 1)' = TermAt(o, k + 1)
    BY <1>4, <2>1, SMTT(30)
  <2>3. IsMajority(Electors(o, k))
    BY <2>2, SMTT(30) DEF Elected
  <2>4. ASSUME NEW q \in Electors(o, k) PROVE q \in Electors(p, k)'
    <3>1. q \in Nodes /\ raft_term'[q] >= TermAt(p, k + 1)'
      BY <1>0, <1>5, <2>2, SMTT(30) DEF Electors
    <3>2. CASE q = f
      <4>1. LastTerm(f)' = raft_term[l] /\ raft_term'[f] = raft_term[l]
        BY <1>1, <1>4 DEF LeadersWrote, EngineShape, from
      <4> QED BY <3>1, <3>2, <4>1 DEF Electors
    <3>3. CASE q # f
      <4>1. log'[q] = log[q] /\ LastTerm(q)' = LastTerm(q)
        BY <1>4, <1>9, <3>1, <3>3
      <4> QED BY <3>1, <4>1, <2>2 DEF Electors, Surpassed
    <3> QED BY <3>2, <3>3
  <2>5. Electors(p, k)' \in SUBSET Nodes /\ Electors(o, k) \in SUBSET Nodes
    BY DEF Electors
  <2> QED BY <2>3, <2>4, <2>5, Larger
<1>13. ASSUME NEW c \in Nat, NEW t \in Nat, Chosen(c, t),
              NEW m \in Nodes, Holds(m, c, t)
       PROVE  Holds(m, c, t)' /\ \A j \in 1..c : log'[m][j] = log[m][j]
  <2>1. CASE m = f
    <3>1. raft_term[l] >= t
      BY <1>0, <1>1, <1>13, <2>1, SMTT(30) DEF LogsVoted, Holds
    <3>2. Holds(l, c, t)
      BY <1>1, <1>13, <3>1, LeaderHasChosen
    <3>3. \A j \in 1..c : log[l][j] = log[f][j]
      BY <1>13, <2>1, <3>2, SMTT(30) DEF LogsMatch, Holds
    <3>4. from(m) = l
      BY <2>1 DEF from
    <3> QED BY <1>4, <2>1, <3>2, <3>3, <3>4
  <2>2. CASE m # f
    BY <1>4, <1>9, <1>13, <2>2
  <2> QED BY <2>1, <2>2
<1>14. ASSUME NEW c \in Nat, NEW t \in Nat, Chosen(c, t) PROVE Chosen(c, t)'
  <2>1. /\ Holders(c, t) \subseteq Holders(c, t)'
        /\ Holders(c, t) \in SUBSET Nodes /\ Holders(c, t)' \in SUBSET Nodes
    BY <1>13, <1>14 DEF Holders
  <2>2. IsMajority(Holders(c, t)')
    BY <1>14, <2>1, Larger DEF Chosen
  <2>3. \A m \in Nodes : \A k \in 1..Len(log'[m]) :
          TermAt(m, k)' > t => Holds(m, c, t)'
    BY <1>4, <1>14 DEF Chosen
  <2>4. \A k \in Nodes : leads'[k] /\ raft_term'[k] = t => c <= committed'[k]
    BY <1>0, <1>5, <1>14, SMTT(30) DEF Chosen
  <2> QED BY <2>2, <2>3, <2>4 DEF Chosen
<1>15. KeepsChosen
  BY <1>13, <1>14 DEF KeepsChosen
<1>16. CommittedChosen'
  <2> SUFFICES ASSUME NEW n \in Nodes
               PROVE  /\ committed'[n] \in 1..Len(log'[n])
                      /\ Chosen(committed[n], TermAt(n, committed[n]))'
    BY DEF CommittedChosen
  <2>1. PICK o \in Nodes, c \in Nat, t \in Nat :
          /\ c = committed[o] /\ t = TermAt(o, c) /\ committed'[n] = c
          /\ o = n \/ o = from(n)
    BY <1>0, <1>1, <1>2, <1>4, SMTT(30) DEF EngineShape, CommittedChosen, from
  <2>2. Chosen(c, t) /\ Holds(o, c, t)
    BY <2>1 DEF CommittedChosen, Holds
  <2>3. Holds(n, c, t)'
    BY <1>4, <1>13, <2>1, <2>2
  <2>4. Chosen(c, t)'
    BY <1>14, <2>2
  <2> QED BY <2>1, <2>3, <2>4 DEF Holds
<1> QED BY <1>3, <1>7, <1>8, <1>10, <1>11, <1>12, <1>15, <1>16

\* An entry of its own term, that a majority has from a leader, is in every
\* log that goes on to a later term: the first leader of a later term in it
\* was elected by one of that majority.
LEMMA MajorityChooses ==
  ASSUME LogInv, NEW l \in Nodes, leads[l], NEW t \in Nat, t = raft_term[l],
         NEW i \in 1..Len(log[l]), TermAt(l, i) = t,
         NEW H \in SUBSET Nodes, IsMajority(H),
         \A m \in H : LastTerm(m) = t /\ i <= Len(log[m])
  PROVE  /\ IsMajority(Holders(i, t))
         /\ \A p \in Nodes : \A k \in 1..Len(log[p]) :
              TermAt(p, k) > t => Holds(p, i, t)
<1> USE DEF LogInv
<1>0. /\ \A n \in Nodes : Len(log[n]) \in Nat \ {0}
      /\ \A n \in Nodes : LastTerm(n) = TermAt(n, Len(log[n]))
      /\ \A n \in Nodes : \A j \in 1..Len(log[n]) : TermAt(n, j) \in Nat \ {0}
  BY LogShape
<1>1. ASSUME NEW m \in H PROVE Holds(m, i, t)
  <2>1. Len(log[m]) \in 1..Len(log[m]) /\ TermAt(m, Len(log[m])) = t
    BY <1>0, SMTT(30)
  <2>2. log[m][i] = log[l][i]
    BY <2>1, SMTT(30) DEF LogsMatch
  <2> QED BY <2>2, <1>0, SMTT(30) DEF Holds, TermAt
<1>2. IsMajority(Holders(i, t))
  <2>1. H \subseteq Holders(i, t) /\ Holders(i, t) \in SUBSET Nodes
    BY <1>1 DEF Holders
  <2> QED BY <2>1, Larger
<1>3. ASSUME NEW p \in Nodes, NEW k \in 1..Len(log[p]), TermAt(p, k) > t
      PROVE  Holds(p, i, t)
  <2> DEFINE later == {j \in 1..Len(log[p]) : TermAt(p, j) > t}
  <2>1. later \in SUBSET Nat /\ later # {}
    BY <1>3, SMTT(30)
  <2>2. PICK e \in later : \A j \in later : e <= j
    <3> HIDE DEF later
    <3> QED BY <2>1, LeastOf
  <2>3. e # 1
    BY <1>0, <2>2, SMTT(30) DEF LogsStart
  <2>4. PICK b \in 1..Len(log[p]) : e = b + 1
    BY <1>0, <2>2, <2>3, SMTT(30)
  <2>5. TermAt(p, b) <= t /\ TermAt(p, b + 1) > t /\ b + 1 <= Len(log[p])
    BY <1>0, <2>2, <2>4, SMTT(30)
  <2>6. IsMajority(Electors(p, b)) /\ Electors(p, b) \in SUBSET Nodes
    <3>1. TermAt(p, b) < TermAt(p, b + 1)
      BY <1>0, <2>2, <2>4, <2>5, SMTT(30)
    <3> QED BY <2>5, <3>1 DEF Elected, Electors
  <2>7. PICK q \in Nodes : q \in H /\ q \in Electors(p, b)
    BY <2>6, Intersect
  <2>8. TermAt(p, b) = t /\ Len(log[q]) <= b
    BY <1>0, <2>2, <2>4, <2>5, <2>7, SMTT(30) DEF Electors, Surpassed
  <2>9. log[p][i] = log[q][i]
    BY <1>0, <1>1, <2>7, <2>8, SMTT(30) DEF LogsMatch, Holds
  <2> QED BY <1>0, <1>1, <2>7, <2>8, <2>9, SMTT(30) DEF Holds, TermAt
<1> QED BY <1>2, <1>3

LEMMA AdvanceCommitStep ==
  ASSUME RaftInv, NEW l \in Nodes, NEW i \in Nat, AdvanceCommit(l, i)
  PROVE  RaftInv' /\ KeepsChosen
<1> DEFINE H == {m \in Nodes : LastTerm(m) = raft_term[l] /\ i <= Len(log[m])}
<1>1. /\ leads[l] /\ i \in (committed[l] + 1)..Len(log[l])
      /\ TermAt(l, i) = raft_term[l] /\ IsMajority(H)
      /\ committed' = [committed EXCEPT ![l] = i]
      /\ raft_term' = raft_term /\ leads' = leads /\ log' = log
  BY DEF AdvanceCommit, TermAt
<1> HIDE DEF H
<1>2. /\ EngineShape /\ EngineShape'
      /\ \A n \in Nodes : raft_term[n] \in Nat /\ Len(log[n]) \in Nat
      /\ \A n \in Nodes : committed[n] \in Nat \ {0}
  <2>1. EngineShape
    BY DEF RaftInv, LogInv
  <2>2. EngineShape'
    BY <1>1, <2>1 DEF EngineShape
  <2>3. \A n \in Nodes : committed[n] \in Nat \ {0}
    BY SMTT(30) DEF RaftInv, CommittedChosen
  <2> QED BY <2>1, <2>2, <2>3, LogShape
<1>3. /\ \A n \in Nodes : committed'[n] >= committed[n]
      /\ \A n \in Nodes : raft_term'[n] >= raft_term[n]
  BY <1>1, <1>2, SMTT(30) DEF EngineShape
<1>4. LogInv' /\ KeepsChosen
  BY <1>1, <1>2, <1>3, QuietLogs
<1>5. CommittedChosen'
  <2> SUFFICES ASSUME NEW n \in Nodes
               PROVE  /\ committed'[n] \in 1..Len(log[n])
                      /\ Chosen(committed[n], TermAt(n, committed[n]))'
    BY <1>1 DEF CommittedChosen
  <2>1. CASE n = l
    <3>1. PICK t \in Nat : t = raft_term[l]
      BY <1>2
    <3>2. /\ IsMajority(Holders(i, t))
          /\ \A p \in Nodes : \A k \in 1..Len(log[p]) :
               TermAt(p, k) > t => Holds(p, i, t)
      <4>1. i \in 1..Len(log[l]) /\ LogInv
        BY <1>1, <1>2, SMTT(30) DEF RaftInv
      <4>2. H \in SUBSET Nodes /\ \A m \in H : LastTerm(m) = t /\ i <= Len(log[m])
        BY <3>1 DEF H
      <4> QED BY <1>1, <3>1, <4>1, <4>2, MajorityChooses
    <3>3. /\ Holders(i, t)' = Holders(i, t)
          /\ \A p, k : TermAt(p, k)' = TermAt(p, k)
          /\ \A p : Holds(p, i, t)' <=> Holds(p, i, t)
      BY <1>1 DEF Holders, Holds, TermAt
    <3>4. \A k \in Nodes : leads'[k] /\ raft_term'[k] = t => i <= committed'[k]
      BY <1>1, <1>2, <3>1, SMTT(30) DEF RaftInv, LogInv, OneLeader, EngineShape
    <3>5. Chosen(i, t)'
      BY <1>1, <3>2, <3>3, <3>4 DEF Chosen
    <3>6. committed'[n] = i /\ TermAt(n, i)' = t
      BY <1>1, <1>2, <2>1, <3>1, <3>3 DEF EngineShape
    <3> QED BY <1>1, <1>2, <2>1, <3>5, <3>6, SMTT(30)
  <2>2. CASE n # l
    <3>1. /\ committed[n] \in 1..Len(log[n])
          /\ Chosen(committed[n], TermAt(n, committed[n]))
      BY DEF RaftInv, CommittedChosen
    <3>2. TermAt(n, committed[n]) \in Nat
      BY <1>2, <3>1, LogShape
    <3>3. PICK c \in Nat, t \in Nat :
            c = committed[n] /\ t = TermAt(n, committed[n])
      BY <3>1, <3>2, SMTT(30)
    <3>4. Chosen(c, t)'
      BY <1>4, <3>1, <3>3 DEF KeepsChosen
    <3>5. committed'[n] = c /\ TermAt(n, c)' = t
      BY <1>1, <2>2, <3>3, SMTT(30) DEF EngineShape, TermAt
    <3> QED BY <3>1, <3>3, <3>4, <3>5
  <2> QED BY <2>1, <2>2
<1> QED BY <1>4, <1>5 DEF RaftInv

\* One log grows by an entry, from w entries.
Grown(n, e, w) ==
  /\ \A m \in Nodes : m # n => log'[m] = log[m] /\ LastTerm(m)' = LastTerm(m)
  /\ Len(log'[n]) = w + 1 /\ log'[n][w + 1] = e
  /\ TermAt(n, w + 1)' = e.term /\ LastTerm(n)' = e.term
  /\ \A m \in Nodes : \A i \in 1..Len(log[m]) :
       /\ i \in 1..Len(log'[m]) /\ log'[m][i] = log[m][i]
       /\ TermAt(m, i)' = TermAt(m, i)
  /\ \A m \in Nodes : \A i \in 1..Len(log'[m]) :
       i \in 1..Len(log[m]) \/ (m = n /\ i = w + 1)
  /\ \A m \in Nodes : \A i, t : Holds(m, i, t) => Holds(m, i, t)'

LEMMA Appended ==
  ASSUME EngineShape, NEW n \in Nodes, NEW e \in Entries,
         log' = [log EXCEPT ![n] = Append(@, e)],
         NEW w \in Nat, w = Len(log[n])
  PROVE  Grown(n, e, w)
<1>1. \A m \in Nodes : log[m] \in Seq(Entries) /\ Len(log[m]) \in Nat
  BY SMTT(30) DEF EngineShape
<1>2. \A m \in Nodes : log'[m] = IF m = n THEN Append(log[n], e) ELSE log[m]
  BY DEF EngineShape
<1>3. /\ Len(log'[n]) = w + 1 /\ log'[n][w + 1] = e
      /\ \A i \in 1..Len(log[n]) : log'[n][i] = log[n][i]
  <2>1. log'[n] = Append(log[n], e)
    BY <1>2
  <2>2. ASSUME NEW s \in Seq(Entries)
        PROVE  /\ Len(Append(s, e)) = Len(s) + 1
               /\ Append(s, e)[Len(s) + 1] = e
               /\ \A i \in 1..Len(s) : Append(s, e)[i] = s[i]
    BY SMTT(30)
  <2> QED BY <1>1, <2>1, <2>2, SMTT(30)
<1>4. \A m \in Nodes : m # n => log'[m] = log[m] /\ LastTerm(m)' = LastTerm(m)
  BY <1>2 DEF LastTerm
<1>5. TermAt(n, w + 1)' = e.term /\ LastTerm(n)' = e.term
  BY <1>3 DEF TermAt, LastTerm
<1>6. \A m \in Nodes : \A i \in 1..Len(log[m]) :
        /\ i \in 1..Len(log'[m]) /\ log'[m][i] = log[m][i]
        /\ TermAt(m, i)' = TermAt(m, i)
  BY <1>1, <1>3, <1>4, SMTT(30) DEF TermAt
<1>7. \A m \in Nodes : \A i \in 1..Len(log'[m]) :
        i \in 1..Len(log[m]) \/ (m = n /\ i = w + 1)
  BY <1>1, <1>3, <1>4, SMTT(30)
<1>8. \A m \in Nodes : \A i, t : Holds(m, i, t) => Holds(m, i, t)'
  BY <1>6 DEF Holds
<1> QED BY <1>3, <1>4, <1>5, <1>6, <1>7, <1>8 DEF Grown

\* n, which leads the term of e or has just won it, adds e to its log.  Nobody
\* else leads that term; n has all that was written in it, and what was chosen
\* in earlier ones.
Appends(n, e, w) ==
  /\ log' = [log EXCEPT ![n] = Append(@, e)] /\ committed' = committed
  /\ w = Len(log[n]) /\ w < MaxLog
  /\ raft_term' \in [Nodes -> Terms] /\ leads' \in [Nodes -> BOOLEAN]
  /\ \A m \in Nodes : raft_term'[m] >= raft_term[m]
  /\ \A m \in Nodes \ {n} :
       leads'[m] => /\ leads[m] /\ raft_term'[m] = raft_term[m]
                    /\ raft_term[m] # e.term
  /\ raft_term'[n] = e.term /\ Voted(e.term)' /\ LastTerm(n) <= e.term
  /\ \A m \in Nodes : \A i \in 1..Len(log[m]) :
       TermAt(m, i) = e.term => Holds(n, i, e.term)
  /\ LastTerm(n) < e.term => IsMajority(Electors(n, w)')
  /\ \A c, t \in Nat : Chosen(c, t) =>
       /\ e.term > t => Holds(n, c, t)
       /\ e.term = t => c <= committed[n]

\* A leader that appends an entry of its term keeps the logs as they should
\* be, whether it has just been elected or serves a client.
LEMMA AppendStep ==
  ASSUME RaftInv, NEW n \in Nodes, NEW e \in Entries, NEW w \in Nat,
         Appends(n, e, w)
  PROVE  RaftInv' /\ KeepsChosen
<1>1. EngineShape /\ LogInv
  BY DEF RaftInv, LogInv
<1>2. /\ \A m \in Nodes : m # n => log'[m] = log[m] /\ LastTerm(m)' = LastTerm(m)
      /\ Len(log'[n]) = w + 1 /\ log'[n][w + 1] = e
      /\ TermAt(n, w + 1)' = e.term /\ LastTerm(n)' = e.term
      /\ \A m \in Nodes : \A i \in 1..Len(log[m]) :
           /\ i \in 1..Len(log'[m]) /\ log'[m][i] = log[m][i]
           /\ TermAt(m, i)' = TermAt(m, i)
      /\ \A m \in Nodes : \A i \in 1..Len(log'[m]) :
           i \in 1..Len(log[m]) \/ (m = n /\ i = w + 1)
      /\ \A m \in Nodes : \A i, t : Holds(m, i, t) => Holds(m, i, t)'
  <2>1. Grown(n, e, w)
    BY <1>1, Appended DEF Appends
  <2> QED BY <2>1 DEF Grown
<1>3. /\ w = Len(log[n]) /\ w < MaxLog /\ e.term \in Nat
      /\ \A m \in Nodes : Len(log[m]) \in Nat \ {0} /\ raft_term[m] \in Nat
      /\ \A m \in Nodes : raft_term'[m] \in Nat /\ raft_term'[m] >= raft_term[m]
      /\ \A m \in Nodes : LastTerm(m) = TermAt(m, Len(log[m]))
      /\ \A m \in Nodes : \A i \in 1..Len(log[m]) : TermAt(m, i) \in Nat
  BY <1>1, LogShape, EntryShape, ClusterAssumption, SMTT(30) DEF Appends, Terms
<1>4. EngineShape'
  <2>1. /\ log' = [log EXCEPT ![n] = Append(@, e)] /\ committed' = committed
        /\ raft_term' \in [Nodes -> Terms] /\ leads' \in [Nodes -> BOOLEAN]
    BY DEF Appends
  <2>2. log' \in [Nodes -> Seq(Entries)]
    <3>1. log \in [Nodes -> Seq(Entries)]
      BY <1>1 DEF EngineShape
    <3>2. Append(log[n], e) \in Seq(Entries)
      BY <3>1, SMTT(30)
    <3> QED BY <2>1, <3>1, <3>2
  <2>3. \A m \in Nodes : Len(log'[m]) \in 1..MaxLog
    <3>1. \A m \in Nodes : Len(log[m]) \in 1..MaxLog
      BY <1>1 DEF EngineShape
    <3>2. \A m \in Nodes : m # n => log'[m] = log[m]
      BY <1>2
    <3>3. w + 1 \in 1..MaxLog /\ Len(log'[n]) = w + 1
      BY <1>2, <1>3, ClusterAssumption, SMTT(30)
    <3> QED BY <3>1, <3>2, <3>3
  <2> QED BY <1>1, <2>1, <2>2, <2>3 DEF EngineShape
<1>5. LogsSorted'
  <2> SUFFICES ASSUME NEW m \in Nodes, NEW i \in 1..Len(log'[m]),
                      NEW j \in 1..Len(log'[m]), i <= j
               PROVE  TermAt(m, i)' <= TermAt(m, j)'
    BY DEF LogsSorted
  <2>0. LogsSorted /\ LastTerm(n) <= e.term
    BY <1>1 DEF LogInv, Appends
  <2>1. CASE j \in 1..Len(log[m])
    <3>1. i \in 1..Len(log[m])
      BY <1>3, <2>1, SMTT(30)
    <3> QED BY <1>2, <2>0, <2>1, <3>1 DEF LogsSorted
  <2>2. CASE m = n /\ j = w + 1
    <3>1. CASE i = w + 1
      BY <1>2, <1>3, <2>2, <3>1, SMTT(30)
    <3>2. CASE i \in 1..Len(log[n])
      <4>1. TermAt(n, i) <= LastTerm(n)
        BY <1>3, <2>0, <3>2, SMTT(30) DEF LogsSorted
      <4> QED BY <1>2, <1>3, <2>0, <2>2, <3>2, <4>1, SMTT(30)
    <3> QED BY <1>2, <2>2, <3>1, <3>2
  <2> QED BY <1>2, <2>1, <2>2
<1>6. LogsVoted'
  <2> SUFFICES ASSUME NEW m \in Nodes, NEW i \in 1..Len(log'[m])
               PROVE  TermAt(m, i)' <= raft_term'[m] /\ Voted(TermAt(m, i))'
    BY DEF LogsVoted
  <2>1. CASE i \in 1..Len(log[m])
    <3>1. PICK t \in Nat : t = TermAt(m, i) /\ t = TermAt(m, i)'
      BY <1>2, <1>3, <2>1
    <3>2. t <= raft_term[m] /\ IsMajority(Voters(t))
      BY <1>1, <2>1, <3>1 DEF LogInv, LogsVoted, Voted
    <3>3. /\ Voters(t) \subseteq Voters(t)'
          /\ Voters(t) \in SUBSET Nodes /\ Voters(t)' \in SUBSET Nodes
      BY <1>3, SMTT(30) DEF Voters
    <3>4. Voted(t)'
      BY <3>2, <3>3, Larger DEF Voted
    <3> QED BY <1>3, <3>1, <3>2, <3>4, SMTT(30)
  <2>2. CASE m = n /\ i = w + 1
    <3>1. raft_term'[n] = e.term /\ Voted(e.term)'
      BY DEF Appends
    <3> QED BY <1>2, <1>3, <2>2, <3>1, SMTT(30)
  <2> QED BY <1>2, <2>1, <2>2
<1>7. LogsStart'
  <2> SUFFICES ASSUME NEW m \in Nodes PROVE TermAt(m, 1)' = 1
    BY DEF LogsStart
  <2>1. LogsStart
    BY <1>1 DEF LogInv
  <2> QED BY <1>2, <1>3, <2>1, SMTT(30) DEF LogsStart
<1>8. /\ raft_term'[n] = e.term /\ committed' = committed
      /\ \A m \in Nodes : m # n /\ leads'[m] =>
           leads[m] /\ raft_term'[m] = raft_term[m] /\ raft_term[m] # e.term
      /\ \A m \in Nodes : \A i \in 1..Len(log[m]) :
           TermAt(m, i) = e.term => Holds(n, i, e.term)
  BY DEF Appends
<1>9. OneLeader' /\ LeadersWrote'
  <2>1. OneLeader /\ LeadersWrote
    BY <1>1 DEF LogInv
  <2> QED BY <1>2, <1>8, <2>1 DEF OneLeader, LeadersWrote
<1>10. LeadersHold'
  <2> SUFFICES ASSUME NEW l \in Nodes, NEW m \in Nodes,
                      NEW i \in 1..Len(log'[m]), leads'[l],
                      NEW t \in Nat, t = raft_term'[l], TermAt(m, i)' = t
               PROVE  Holds(l, i, t)'
    BY <1>3 DEF LeadersHold
  <2>0. LeadersHold
    BY <1>1 DEF LogInv
  <2>1. CASE m = n /\ i = w + 1
    BY <1>2, <1>8, <2>1 DEF Holds
  <2>2. CASE i \in 1..Len(log[m]) /\ l = n
    BY <1>2, <1>8, <2>2, SMTT(30)
  <2>3. CASE i \in 1..Len(log[m]) /\ l # n
    <3>1. Holds(l, i, t)
      BY <1>2, <1>8, <2>0, <2>3, SMTT(30) DEF LeadersHold
    <3> QED BY <1>2, <3>1
  <2> QED BY <1>2, <2>1, <2>2, <2>3
<1>11. LogsMatch'
  <2> SUFFICES ASSUME NEW a \in Nodes, NEW m \in Nodes,
                      NEW k \in 1..Len(log'[a]), NEW i \in 1..Len(log'[m]),
                      i <= k, TermAt(a, k)' = TermAt(m, i)', NEW j \in 1..i
               PROVE  log'[a][j] = log'[m][j]
    BY SMTT(30) DEF LogsMatch
  <2>0. LogsMatch
    BY <1>1 DEF LogInv
  <2>1. CASE k \in 1..Len(log[a]) /\ i \in 1..Len(log[m])
    <3>1. log[a][j] = log[m][j]
      BY <1>2, <2>0, <2>1, SMTT(30) DEF LogsMatch
    <3>2. j \in 1..Len(log[a]) /\ j \in 1..Len(log[m])
      BY <1>3, <2>1, SMTT(30)
    <3> QED BY <1>2, <3>1, <3>2
  <2>2. CASE a = n /\ k = w + 1 /\ i \in 1..Len(log[m])
    <3>1. Holds(n, i, e.term) /\ TermAt(m, i) = e.term
      BY <1>2, <1>8, <2>2
    <3>2. log[a][j] = log[m][j]
      BY <1>3, <2>0, <2>2, <3>1, SMTT(30) DEF LogsMatch, Holds
    <3>3. j \in 1..Len(log[a]) /\ j \in 1..Len(log[m])
      BY <1>3, <2>2, <3>1, SMTT(30) DEF Holds
    <3> QED BY <1>2, <3>2, <3>3
  <2>3. CASE k \in 1..Len(log[a]) /\ m = n /\ i = w + 1
    <3>1. Holds(n, k, e.term)
      BY <1>2, <1>8, <2>3, SMTT(30)
    <3> QED BY <1>3, <2>3, <3>1, SMTT(30) DEF Holds
  <2>4. CASE a = m
    BY <2>4
  <2> QED BY <1>2, <2>1, <2>2, <2>3, <2>4
<1>12. Elected'
  <2> SUFFICES ASSUME NEW p \in Nodes, NEW k \in 1..Len(log'[p]),
                      k + 1 <= Len(log'[p]), TermAt(p, k)' < TermAt(p, k + 1)'
               PROVE  IsMajority(Electors(p, k)')
    BY DEF Elected
  <2>1. CASE k + 1 \in 1..Len(log[p])
    <3>1. /\ k \in 1..Len(log[p])
          /\ TermAt(p, k)' = TermAt(p, k) /\ TermAt(p, k + 1)' = TermAt(p, k + 1)
      BY <1>2, <1>3, <2>1, SMTT(30)
    <3>2. IsMajority(Electors(p, k))
      BY <1>1, <2>1, <3>1, SMTT(30) DEF LogInv, Elected
    <3>3. ASSUME NEW q \in Electors(p, k) PROVE q \in Electors(p, k)'
      <4>1. q \in Nodes /\ raft_term'[q] >= TermAt(p, k + 1)'
        BY <1>3, <2>1, <3>1, SMTT(30) DEF Electors
      <4>2. CASE q = n
        <5>1. LastTerm(q)' >= TermAt(p, k + 1)'
          BY <1>2, <1>8, <4>1, <4>2
        <5> QED BY <4>1, <5>1 DEF Electors
      <4>3. CASE q # n
        BY <1>2, <3>1, <4>1, <4>3 DEF Electors, Surpassed
      <4> QED BY <4>2, <4>3
    <3>4. Electors(p, k)' \in SUBSET Nodes /\ Electors(p, k) \in SUBSET Nodes
      BY DEF Electors
    <3> QED BY <3>2, <3>3, <3>4, Larger
  <2>2. CASE p = n /\ k + 1 = w + 1
    <3>1. k = w /\ TermAt(n, k)' = TermAt(n, k)
      BY <1>2, <1>3, <2>2, SMTT(30)
    <3>2. LastTerm(n) < e.term
      BY <1>2, <1>3, <2>2, <3>1
    <3>3. Electors(n, w)' = Electors(p, k)'
      BY <3>1, <2>2
    <3> QED BY <3>2, <3>3 DEF Appends
  <2>3. k + 1 \in 1..Len(log'[p])
    BY <1>3, <1>4, SMTT(30) DEF EngineShape
  <2> QED BY <1>2, <2>1, <2>2, <2>3
<1>13. ASSUME NEW c \in Nat, NEW t \in Nat, Chosen(c, t) PROVE Chosen(c, t)'
  <2>1. /\ Holders(c, t) \subseteq Holders(c, t)'
        /\ Holders(c, t) \in SUBSET Nodes /\ Holders(c, t)' \in SUBSET Nodes
    BY <1>2 DEF Holders
  <2>2. IsMajority(Holders(c, t)')
    BY <1>13, <2>1, Larger DEF Chosen
  <2>3. (e.term > t => Holds(n, c, t)) /\ (e.term = t => c <= committed[n])
    BY <1>13 DEF Appends
  <2>4. ASSUME NEW m \in Nodes, NEW k \in 1..Len(log'[m]), TermAt(m, k)' > t
        PROVE  Holds(m, c, t)'
    <3>1. CASE k \in 1..Len(log[m])
      <4>1. TermAt(m, k) > t
        BY <1>2, <2>4, <3>1
      <4>2. Holds(m, c, t)
        BY <1>13, <3>1, <4>1 DEF Chosen
      <4> QED BY <1>2, <4>2
    <3>2. CASE m = n /\ k = w + 1
      <4>1. e.term > t
        BY <1>2, <2>4, <3>2
      <4>2. Holds(m, c, t)
        BY <2>3, <3>2, <4>1
      <4> QED BY <1>2, <4>2
    <3> QED BY <1>2, <3>1, <3>2
  <2>5. \A k \in Nodes : leads'[k] /\ raft_term'[k] = t => c <= committed'[k]
    BY <1>8, <1>13, <2>3 DEF Chosen
  <2> QED BY <2>2, <2>4, <2>5 DEF Chosen
<1>14. KeepsChosen
  BY <1>2, <1>3, <1>13, SMTT(30) DEF KeepsChosen, Holds
<1>15. CommittedChosen'
  <2> SUFFICES ASSUME NEW m \in Nodes
               PROVE  /\ committed[m] \in 1..Len(log'[m])
                      /\ Chosen(committed[m], TermAt(m, committed[m]))'
    BY <1>8 DEF CommittedChosen
  <2>1. /\ committed[m] \in 1..Len(log[m])
        /\ Chosen(committed[m], TermAt(m, committed[m]))
    BY DEF RaftInv, CommittedChosen
  <2>2. PICK c \in Nat, t \in Nat : c = committed[m] /\ t = TermAt(m, committed[m])
    BY <1>3, <2>1, SMTT(30)
  <2>3. Chosen(c, t)' /\ TermAt(m, c)' = t /\ committed'[m] = c
    BY <1>2, <1>8, <1>13, <2>1, <2>2
  <2> QED BY <1>2, <2>1, <2>2, <2>3
<1> QED BY <1>4, <1>5, <1>6, <1>7, <1>9, <1>10, <1>11, <1>12, <1>14, <1>15
        DEF RaftInv, LogInv

\* A leader appends what a client writes.
LEMMA WriteStep ==
  ASSUME RaftInv, NEW n \in Nodes, leads[n],
         NEW e \in Entries, e.term = raft_term[n], Len(log[n]) < MaxLog,
         log' = [log EXCEPT ![n] = Append(@, e)],
         raft_term' = raft_term, leads' = leads, committed' = committed
  PROVE  RaftInv' /\ KeepsChosen
<1>1. LogInv /\ EngineShape
  BY DEF RaftInv, LogInv
<1>2. PICK w \in Nat : w = Len(log[n]) /\ w \in 1..w /\ TermAt(n, w) = LastTerm(n)
  BY <1>1, LogShape, SMTT(30)
<1>3. LastTerm(n) = e.term /\ e.term \in Nat
  BY <1>1, LogShape DEF LogInv, LeadersWrote
<1>4. Voted(e.term)'
  <2>1. Voted(e.term)
    BY <1>1, <1>2, <1>3 DEF LogInv, LogsVoted
  <2> QED BY <2>1 DEF Voted, Voters
<1>5. \A m \in Nodes \ {n} : leads[m] => raft_term[m] # e.term
  BY <1>1 DEF LogInv, OneLeader
<1>6. \A m \in Nodes : \A i \in 1..Len(log[m]) :
        TermAt(m, i) = e.term => Holds(n, i, e.term)
  BY <1>1 DEF LogInv, LeadersHold
<1>7. \A c, t \in Nat : Chosen(c, t) =>
        /\ e.term > t => Holds(n, c, t)
        /\ e.term = t => c <= committed[n]
  <2> SUFFICES ASSUME NEW c \in Nat, NEW t \in Nat, Chosen(c, t)
               PROVE  /\ e.term > t => Holds(n, c, t)
                      /\ e.term = t => c <= committed[n]
    OBVIOUS
  <2>1. e.term > t => Holds(n, c, t)
    BY <1>1, <1>3, LeaderHasChosen, SMTT(30)
  <2> QED BY <2>1 DEF Chosen
<1>8. /\ raft_term' \in [Nodes -> Terms] /\ leads' \in [Nodes -> BOOLEAN]
      /\ \A m \in Nodes : raft_term'[m] >= raft_term[m]
  <2>1. \A m \in Nodes : raft_term[m] \in Nat
    BY <1>1, LogShape
  <2> QED BY <1>1, <2>1, SMTT(30) DEF EngineShape
<1>9. /\ \A m \in Nodes \ {n} :
           leads'[m] => /\ leads[m] /\ raft_term'[m] = raft_term[m]
                        /\ raft_term[m] # e.term
      /\ raft_term'[n] = e.term /\ LastTerm(n) <= e.term
      /\ LastTerm(n) < e.term => IsMajority(Electors(n, w)')
  BY <1>3, <1>5, SMTT(30)
<1>10. Appends(n, e, w)
  BY <1>2, <1>4, <1>6, <1>7, <1>8, <1>9 DEF Appends
<1> QED BY <1>10, AppendStep

\* A node that a majority elects appends the first entry of its term.  What
\* was chosen before is in its log, because one of the majority holds it.
LEMMA ElectStep ==
  ASSUME RaftInv, NEW n \in Nodes, NEW Q \in Quorums, NEW t \in Terms,
         Elect(n, Q, t)
  PROVE  RaftInv' /\ KeepsChosen
<1>1. LogInv /\ EngineShape
  BY DEF RaftInv, LogInv
<1>2. /\ n \in Q /\ \A m \in Q : raft_term[m] < t /\ UpToDate(n, m)
      /\ Len(log[n]) < MaxLog
      /\ raft_term' = [m \in Nodes |-> IF m \in Q THEN t ELSE raft_term[m]]
      /\ leads' = [m \in Nodes |-> m = n \/ (leads[m] /\ m \notin Q)]
      /\ log' = [log EXCEPT ![n] = Append(@, Blank(t))]
      /\ committed' = committed
  BY DEF Elect
<1>3. Q \in SUBSET Nodes /\ IsMajority(Q) /\ t \in Nat
  BY ClusterAssumption, SMTT(30) DEF Quorums, Terms
<1>4. PICK e \in Entries : e = Blank(t) /\ e.term = t
  <2>1. Blank(t) \in Entries
    BY DEF Entries, Blanks
  <2>2. Blank(t).term = t
    BY DEF Blank
  <2> QED BY <2>1, <2>2
<1>5. PICK w \in Nat : w = Len(log[n]) /\ w \in 1..w /\ TermAt(n, w) = LastTerm(n)
  BY <1>1, LogShape, SMTT(30)
<1>6. /\ \A m \in Nodes : Len(log[m]) \in Nat \ {0} /\ raft_term[m] \in Nat
      /\ \A m \in Nodes : LastTerm(m) = TermAt(m, Len(log[m]))
      /\ \A m \in Nodes : \A i \in 1..Len(log[m]) : TermAt(m, i) \in Nat
  BY <1>1, LogShape
<1>7. ASSUME NEW m \in Nodes, NEW i \in 1..Len(log[m])
      PROVE  TermAt(m, i) < t
  <2>1. /\ IsMajority(Voters(TermAt(m, i)))
        /\ Voters(TermAt(m, i)) \in SUBSET Nodes
    BY <1>1 DEF LogInv, LogsVoted, Voted, Voters
  <2>2. PICK q \in Nodes : q \in Q /\ q \in Voters(TermAt(m, i))
    BY <1>3, <2>1, Intersect
  <2> QED BY <1>2, <1>3, <1>6, <2>2, SMTT(30) DEF Voters
<1>8. \A m \in Nodes : LastTerm(m) < t
  BY <1>6, <1>7, SMTT(30)
<1>9. /\ raft_term' \in [Nodes -> Terms] /\ leads' \in [Nodes -> BOOLEAN]
      /\ \A m \in Nodes : raft_term'[m] >= raft_term[m]
      /\ raft_term'[n] = e.term
  <2>1. raft_term' \in [Nodes -> Terms] /\ leads' \in [Nodes -> BOOLEAN]
    BY <1>1, <1>2 DEF EngineShape
  <2> QED BY <1>2, <1>3, <1>4, <1>6, <2>1, SMTT(30)
<1>10. \A m \in Nodes \ {n} :
         leads'[m] => /\ leads[m] /\ raft_term'[m] = raft_term[m]
                      /\ raft_term[m] # e.term
  <2> SUFFICES ASSUME NEW m \in Nodes \ {n}, leads'[m]
               PROVE  /\ leads[m] /\ raft_term'[m] = raft_term[m]
                      /\ raft_term[m] # e.term
    OBVIOUS
  <2>1. leads[m] /\ m \notin Q
    BY <1>2
  <2>2. raft_term[m] < t
    BY <1>1, <1>8, <2>1 DEF LogInv, LeadersWrote
  <2> QED BY <1>2, <1>3, <1>4, <1>6, <2>1, <2>2, SMTT(30)
<1>11. Voted(e.term)'
  <2>1. Q \subseteq Voters(t)' /\ Voters(t)' \in SUBSET Nodes
    BY <1>2, <1>3, SMTT(30) DEF Voters
  <2> QED BY <1>3, <1>4, <2>1, Larger DEF Voted
<1>12. LastTerm(n) <= e.term /\ LastTerm(n) < e.term
  BY <1>3, <1>4, <1>6, <1>8, SMTT(30)
<1>13. \A m \in Nodes : \A i \in 1..Len(log[m]) :
         TermAt(m, i) = e.term => Holds(n, i, e.term)
  BY <1>3, <1>4, <1>6, <1>7, SMTT(30)
<1>14. IsMajority(Electors(n, w)')
  <2>1. Grown(n, e, w)
    BY <1>1, <1>2, <1>4, <1>5, Appended
  <2>2. /\ TermAt(n, w + 1)' = t /\ TermAt(n, w)' = LastTerm(n)
        /\ LastTerm(n)' = t
        /\ \A m \in Nodes : m # n => log'[m] = log[m] /\ LastTerm(m)' = LastTerm(m)
    BY <1>4, <1>5, <2>1 DEF Grown
  <2>3. ASSUME NEW q \in Q PROVE q \in Electors(n, w)'
    <3>1. q \in Nodes /\ raft_term'[q] = t
      BY <1>2, <1>3
    <3>2. CASE q = n
      BY <1>3, <2>2, <3>1, <3>2, SMTT(30) DEF Electors
    <3>3. CASE q # n
      <4>1. LastTerm(q) < LastTerm(n)
             \/ (LastTerm(q) = LastTerm(n) /\ Len(log[q]) <= w)
        BY <1>2, <1>5, <1>6, <3>1 DEF UpToDate
      <4>2. Surpassed(q, n, w)'
        BY <2>2, <3>1, <3>3, <4>1 DEF Surpassed
      <4> QED BY <1>3, <2>2, <3>1, <4>2, SMTT(30) DEF Electors
    <3> QED BY <3>2, <3>3
  <2>4. Electors(n, w)' \in SUBSET Nodes
    BY DEF Electors
  <2> QED BY <1>3, <2>3, <2>4, Larger
<1>15. ASSUME NEW c \in Nat, NEW u \in Nat, Chosen(c, u)
       PROVE  (e.term > u => Holds(n, c, u)) /\ (e.term = u => c <= committed[n])
  <2>1. IsMajority(Holders(c, u)) /\ Holders(c, u) \in SUBSET Nodes
    BY <1>15 DEF Chosen, Holders
  <2>2. PICK q \in Nodes : q \in Q /\ Holds(q, c, u)
    <3>1. PICK q \in Nodes : q \in Q /\ q \in Holders(c, u)
      BY <1>3, <2>1, Intersect
    <3> QED BY <3>1 DEF Holders
  <2>3. u < t /\ u <= LastTerm(q) /\ c <= Len(log[q]) /\ c \in 1..Len(log[q])
    BY <1>1, <1>6, <1>7, <2>2, SMTT(30) DEF LogInv, LogsSorted, Holds
  <2>4. UpToDate(n, q)
    BY <1>2, <2>2
  <2>5. LastTerm(n) \in Nat /\ LastTerm(q) \in Nat /\ Len(log[n]) \in 1..Len(log[n])
    BY <1>6, SMTT(30)
  <2>6. CASE LastTerm(n) > u
    <3>1. Holds(n, c, u)
      BY <1>6, <1>15, <2>5, <2>6 DEF Chosen
    <3> QED BY <1>4, <2>3, <3>1, SMTT(30)
  <2>7. CASE LastTerm(n) = u
    <3>1. c <= Len(log[n]) /\ TermAt(q, c) = u
      BY <1>6, <2>2, <2>3, <2>4, <2>5, <2>7, SMTT(30) DEF UpToDate, Holds
    <3>2. log[n][c] = log[q][c]
      BY <1>1, <1>6, <2>3, <2>5, <2>7, <3>1, SMTT(30) DEF LogInv, LogsMatch
    <3>3. Holds(n, c, u)
      BY <1>6, <2>3, <3>1, <3>2, SMTT(30) DEF Holds, TermAt
    <3> QED BY <1>4, <2>3, <3>3, SMTT(30)
  <2> QED BY <2>3, <2>4, <2>5, <2>6, <2>7, SMTT(30) DEF UpToDate
<1>16. log' = [log EXCEPT ![n] = Append(@, e)] /\ w < MaxLog
  BY <1>2, <1>4, <1>5
<1>17. Appends(n, e, w)
  BY <1>2, <1>5, <1>9, <1>10, <1>11, <1>12, <1>13, <1>14, <1>15, <1>16
  DEF Appends
<1> QED BY <1>17, AppendStep

=============================================================================
