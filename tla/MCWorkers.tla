----------------------------- MODULE MCWorkers ------------------------------
(* Instances of the broker with its workers for TLC. *)
EXTENDS WorkerFencing

\* A revision is only compared with its bound, never reached here, and asked
\* to be positive on recovery, as that of every stored entity is; the last
\* change set is read by no step.
View == <<term, namespaces, tasks, groups, consumers, indexes, workers>>
=============================================================================
