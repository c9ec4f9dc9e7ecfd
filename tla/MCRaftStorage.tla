---------------------------- MODULE MCRaftStorage ---------------------------
(* Instances of a clustered node's storage for TLC. *)
EXTENDS RaftStorage

CONSTANT s1

\* Logs in which a command is decided twice, before and after another one.
RepeatedCommands ==
  {<<Membership, Command(s1, 1), Command(s1, 1), Blank>>,
   <<Command(s1, 1), Command(s1, 2), Membership, Command(s1, 1)>>}

=============================================================================
