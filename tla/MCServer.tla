------------------------------ MODULE MCServer ------------------------------
(* An instance of the broker process for TLC. *)
EXTENDS BrokerServer
=============================================================================
