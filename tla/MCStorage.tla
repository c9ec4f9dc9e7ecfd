------------------------------ MODULE MCStorage -----------------------------
(* A broker process keeps its state in the journal repository or, in a      *)
(* cluster, in the Raft storage: agentbrokerd opens one of the two.         *)
EXTENDS JournalRepository, MCRaftStorage, TLC

VARIABLE mode

EntitySymmetry == Permutations(Entities)

\* The store that is not opened stays at one of its initial states.
StorageInit ==
  /\ mode \in {"standalone", "cluster"}
  /\ Init /\ RaftInit
  /\ mode = "standalone" =>
       decided = (CHOOSE l \in Logs : TRUE) /\ snapshot_pair = NoSnapshot

StorageNext ==
  \/ mode = "standalone" /\ Next /\ UNCHANGED <<mode, raftVars>>
  \/ mode = "cluster" /\ RaftNext /\ UNCHANGED <<mode, vars>>

StorageSpec == StorageInit /\ [][StorageNext]_<<mode, vars, raftVars>>

=============================================================================
