-------------------------- MODULE MCChannelNet --------------------------
(* Small instances of ChannelNet for TLC. *)
EXTENDS ChannelNet, TLC
CONSTANTS a, b, c, u, w

\* Three servers in a row, a client at each end.
Row == {{a, b}, {b, c}}
Ends == (u :> a) @@ (w :> c)
========================================================================
