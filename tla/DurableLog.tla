----------------------------- MODULE DurableLog -----------------------------
(***************************************************************************)
(* What the standalone broker promises about the states it goes through:  *)
(* they follow one another, clients are told of them, and a crash may drop *)
(* the last ones but never one a client was told of.                       *)
(***************************************************************************)
EXTENDS Naturals

CONSTANTS States

VARIABLES
  log,    \* the state at each revision
  told    \* the highest revision a client was told of

Init == DOMAIN log = {0} /\ told = 0

Last(l) == CHOOSE r \in DOMAIN l : \A s \in DOMAIN l : s <= r

\* One more state follows the ones of the log.
Extend(before, after) ==
  /\ Last(after) = Last(before) + 1
  /\ \A r \in DOMAIN before : after[r] = before[r]
  /\ after[Last(after)] \in States
  /\ UNCHANGED told

Tell(before, after) == after = before /\ told' = Last(before)

\* Only states that no client was told of are dropped.
Crash(before, after) ==
  /\ told <= Last(after) /\ Last(after) <= Last(before)
  /\ \A r \in DOMAIN after : after[r] = before[r]
  /\ UNCHANGED told

Next ==
  \E before \in {log}, after \in {log'} :
    Extend(before, after) \/ Tell(before, after) \/ Crash(before, after)

Spec == Init /\ [][Next]_<<log, told>>

=============================================================================
