------------------------- MODULE MCCommandSessions --------------------------
(* Instances of the command sessions for TLC. *)
EXTENDS CommandSessions, TLC

CommandSymmetry == Permutations(Commands)
=============================================================================
