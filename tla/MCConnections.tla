-------------------------- MODULE MCConnections --------------------------
(* A small instance of Connections for TLC. *)
EXTENDS Connections
==========================================================================
