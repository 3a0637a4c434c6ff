--------------------------- MODULE MCSendQueues ---------------------------
(* Small instances of SendQueues for TLC. *)
EXTENDS SendQueues, TLC
CONSTANTS a, b, c
==========================================================================
