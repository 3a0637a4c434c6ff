---------------------------- MODULE ChannelDefs ----------------------------
(***************************************************************************)
(* What the channel code of ircd-hybrid computes, as operators: the member *)
(* lists of a channel, the links a client has on them, the TS rules of     *)
(* SJOIN and the membership change each of the status modes asks for.      *)
(* They are shared by the modules that model the channel handlers.         *)
(***************************************************************************)
EXTENDS Integers, Sequences

---------------------------------------------------------------------------
(* Member lists.                                                           *)

\* The five global member lists of struct Channel (REQUIRE_OANDV is defined);
\* each has a twin that holds the local clients only.
Lists == {"peons", "voiced", "halfops", "chanops", "chanops_voiced"}

\* find_user_link found nothing.
NoList == "none"

\* The number of links a client has on each list of one channel.
Links == [Lists -> Nat]

NoLinks == [l \in Lists |-> 0]

Link(l) == [NoLinks EXCEPT ![l] = 1]

Total(m) == m["peons"] + m["voiced"] + m["halfops"] + m["chanops"]
              + m["chanops_voiced"]

\* Mutant: a chain that forgets a list.
RemoveLocalOrder_NoOps ==
    <<"peons", "peons", "voiced", "halfops", "chanops_voiced">>

\* The chains of find_user_link calls, in the order the code writes them.
RemoveOrder ==
    <<"peons", "chanops", "chanops_voiced", "voiced", "halfops">>
RemoveLocalOrder ==
    <<"peons", "chanops", "voiced", "halfops", "chanops_voiced">>
ChangeOrder ==
    <<"peons", "voiced", "halfops", "chanops", "chanops_voiced">>

\* The first list of the chain on which the client has a link.
FindLink(m, order) ==
    IF \E i \in 1..5 : m[order[i]] > 0
      THEN order[CHOOSE i \in 1..5 : /\ m[order[i]] > 0
                                     /\ \A j \in 1..(i - 1) : m[order[j]] = 0]
      ELSE NoList

Unlink(m, l) == [m EXCEPT ![l] = @ - 1]

\* Mutant: the link is taken off peons without looking for it.
MoveLink_FromPeons(m, to_list) == [Unlink(m, "peons") EXCEPT ![to_list] = @ + 1]

\* change_channel_membership for one of the two sets of lists: the link found
\* first moves to to_list; a client with no link keeps none.
MoveLink(m, to_list) ==
    LET from == FindLink(m, ChangeOrder)
    IN  IF from = NoList THEN m
        ELSE [Unlink(m, from) EXCEPT ![to_list] = @ + 1]

---------------------------------------------------------------------------
(* Status.                                                                 *)

is_chan_op(m) == m["chanops"] > 0 \/ m["chanops_voiced"] > 0
is_half_op(m) == m["halfops"] > 0
is_any_op(m)  == is_chan_op(m) \/ is_half_op(m)
is_voiced(m)  == m["voiced"] > 0 \/ m["chanops_voiced"] > 0

\* add_user_to_channel's switch on the flags: only a single flag has a case,
\* so op and voice together take the default one.
FlagList(fl) ==
    CASE fl = "@" -> "chanops"
      [] fl = "%" -> "halfops"
      [] fl = "+" -> "voiced"
      [] OTHER    -> "peons"

Directions == {"add", "del"}

\* The list a client with links m moves to on MODE +letter or -letter, or
\* NoList when the handler returns early because nothing would change.
chm_op(m, dir) ==
    IF (dir = "add") = is_chan_op(m) THEN NoList
    ELSE IF dir = "add"
      THEN IF is_voiced(m) THEN "chanops_voiced" ELSE "chanops"
      ELSE IF is_voiced(m) THEN "voiced" ELSE "peons"

chm_halfop(m, dir) ==
    LET t_hop == ~is_chan_op(m) /\ is_half_op(m)
    IN  IF dir = "add"
          THEN IF t_hop \/ is_chan_op(m) THEN NoList ELSE "halfops"
          ELSE IF t_hop THEN "peons" ELSE NoList

chm_voice(m, dir) ==
    LET t_hop == ~is_chan_op(m) /\ is_half_op(m)
    IN  IF t_hop \/ (dir = "add") = is_voiced(m) THEN NoList
        ELSE IF dir = "add"
          THEN IF is_chan_op(m) THEN "chanops_voiced" ELSE "voiced"
          ELSE IF is_chan_op(m) THEN "chanops" ELSE "peons"

StatusMode(letter, m, dir) ==
    CASE letter = "o" -> chm_op(m, dir)
      [] letter = "h" -> chm_halfop(m, dir)
      [] letter = "v" -> chm_voice(m, dir)

---------------------------------------------------------------------------
(* The TS rules of ms_sjoin.                                               *)

\* Mutants: the modes are kept but the younger timestamp is taken over; and an
\* SJOIN with our own timestamp takes our modes.
SjoinTS_Younger(isnew, users, nicks, newts, oldts) ==
    [ignore |-> FALSE, our |-> TRUE, new |-> TRUE, ts |-> newts]
SjoinTS_EqualWins(isnew, users, nicks, newts, oldts) ==
    [ignore |-> FALSE, our |-> isnew \/ newts > oldts, new |-> TRUE,
     ts |-> IF isnew \/ newts < oldts THEN newts ELSE oldts]

\* What a server does with a channel of timestamp oldts and users members
\* when an SJOIN with newts arrives: whose modes it keeps, the timestamp the
\* channel has afterwards.  nicks says whether the SJOIN names anybody; the
\* SJOIN is ignored altogether when neither side has users.
SjoinTS(isnew, users, nicks, newts, oldts) ==
    IF isnew
      THEN [ignore |-> FALSE, our |-> TRUE, new |-> TRUE, ts |-> newts]
    ELSE IF users = 0
      THEN [ignore |-> ~nicks, our |-> FALSE, new |-> TRUE, ts |-> newts]
    ELSE IF newts = 0 \/ oldts = 0
      THEN [ignore |-> FALSE, our |-> TRUE, new |-> TRUE, ts |-> 0]
    ELSE IF newts = oldts
      THEN [ignore |-> FALSE, our |-> TRUE, new |-> TRUE, ts |-> oldts]
    ELSE IF newts < oldts
      THEN [ignore |-> FALSE, our |-> FALSE, new |-> TRUE, ts |-> newts]
      ELSE [ignore |-> FALSE, our |-> TRUE, new |-> FALSE, ts |-> oldts]

\* Mutants: the move of the halfops is left out.
DropStatus_NotHalfops(m, lm) ==
    [NoLinks EXCEPT !["peons"] = Total(m) - m["halfops"], !["halfops"] = m["halfops"]]
DropLocalStatus_NotHalfops(lm) ==
    [NoLinks EXCEPT !["peons"] = Total(lm) - lm["halfops"], !["halfops"] = lm["halfops"]]

\* remove_our_modes on the lists of a client with links m on the global and
\* lm on the local lists: every link moves to peons.  The last dlinkMoveList
\* of the function moves locchanops_voiced to the GLOBAL peons.
DropStatus(m, lm) ==
    [NoLinks EXCEPT !["peons"] = Total(m) + lm["chanops_voiced"]]

DropLocalStatus(lm) ==
    [NoLinks EXCEPT !["peons"] = Total(lm) - lm["chanops_voiced"]]
============================================================================
