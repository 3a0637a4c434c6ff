---------------------------- MODULE MCLineInput ----------------------------
(* Small instances of LineInput for TLC. *)
EXTENDS LineInput, TLC
==========================================================================
