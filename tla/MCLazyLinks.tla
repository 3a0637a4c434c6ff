--------------------------- MODULE MCLazyLinks ---------------------------
(* A small instance of LazyLinks for TLC. *)
EXTENDS LazyLinks

CONSTANTS hubUser, user1, user2, leaf1, leaf2

\* A user of the hub and one of each leaf.
MCHome == [u \in Users |-> CASE u = user1 -> leaf1 [] u = user2 -> leaf2 [] OTHER -> NoLeaf]
==========================================================================
