---------------------------- MODULE FifoLinks ----------------------------
(***************************************************************************)
(* What the output side of the server promises about each of its links,    *)
(* whatever the queues behind it look like: a line enters the stream of a  *)
(* link whole and at its end, the lines of one stream are in the order in  *)
(* which they were made and none is there twice, and the peer gets the     *)
(* bytes of the stream one after the other.  Only a link that is given up  *)
(* loses what was not sent yet.  SendQueues implements this.               *)
(***************************************************************************)
EXTENDS Naturals, Sequences, SequencesExt

CONSTANTS
    Links,      \* the connections
    LineLens    \* the lengths a line may have

VARIABLES
    made,       \* the number of lines made; they are numbered in that order
    open,       \* the links that still take lines
    pending,    \* pending[l]: the bytes of the stream not yet sent
    got         \* got[l]: the bytes the peer has

vars == <<made, open, pending, got>>

\* The bytes of line i, which has n of them.
BytesOf(i, n) == [j \in 1..n |-> <<i, j>>]

Init ==
    /\ made = 0
    /\ open = Links
    /\ pending = [l \in Links |-> <<>>]
    /\ got = [l \in Links |-> <<>>]

Make == made' = made + 1 /\ UNCHANGED <<open, pending, got>>

Put(l, i, n) ==
    /\ l \in open
    /\ \A b \in ToSet(got[l]) \cup ToSet(pending[l]) : b[1] < i
    /\ pending' = [pending EXCEPT ![l] = @ \o BytesOf(i, n)]
    /\ UNCHANGED <<made, open, got>>

Transmit(l, k) ==
    /\ got' = [got EXCEPT ![l] = @ \o SubSeq(pending[l], 1, k)]
    /\ pending' = [pending EXCEPT ![l] = SubSeq(@, k + 1, Len(@))]
    /\ UNCHANGED <<made, open>>

\* The link is given up; it may still flush before it loses the rest.
Shut(l) ==
    /\ open' = open \ {l}
    /\ pending' \in {pending, [pending EXCEPT ![l] = <<>>]}
    /\ UNCHANGED <<made, got>>

Next ==
    \/ Make
    \/ \E l \in Links :
         \/ \E i \in 1..made, n \in LineLens : Put(l, i, n)
         \/ \E k \in 1..Len(pending[l]) : Transmit(l, k)
         \/ Shut(l)

Spec == Init /\ [][Next]_vars
=============================================================================
