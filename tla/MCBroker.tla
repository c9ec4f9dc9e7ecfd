------------------------------ MODULE MCBroker ------------------------------
(* Instances of the broker state machine for TLC. *)
EXTENDS BrokerStateMachine, TLC

\* A revision is only compared with its bound, never reached here, and asked
\* to be positive on recovery, as that of every stored entity is; the last
\* change set is read by no step.
View == <<term, namespaces, tasks, groups, consumers, indexes>>
LeaseIdSymmetry == Permutations(LeaseIds)
NameSymmetry == Permutations(LeaseIds) \cup Permutations(Namespaces)
=============================================================================
