----------------------------- MODULE ModeLine -----------------------------
(***************************************************************************)
(* One MODE command on a channel: set_channel_mode of src/channel_mode.c   *)
(* handles the letters one by one, each handler changing the channel at    *)
(* once and editing the two lists of pending changes, where a later letter *)
(* may cancel an earlier one.  At the end of the line, what is left of the *)
(* two lists goes to the other servers, the minus list first.              *)
(*                                                                         *)
(* The module follows the channel on the server that handles the line and  *)
(* on a server that receives the result and handles it in the same way, as *)
(* a line from a server.  The receiver supports every capability, and has  *)
(* the same channel when the line starts.                                  *)
(***************************************************************************)
EXTENDS ChannelDefs, FiniteSets, SequencesExt

CONSTANTS
    Nicks,          \* clients, on the channel or not
    Mine,           \* the ones connected to the first server
    Server,         \* another server as the source of a line
    Flags,          \* the letters used that chm_simple handles
    Lines,          \* the lines considered, numbered: their letters and length
    Masks,          \* ban masks
    Covering,       \* the pairs <<a, b>> of masks such that a matches b
    Keys,           \* channel keys
    Limits          \* user limits

\* The letters with a handler of their own.
Special == {"o", "h", "v", "b", "k", "l"}

ASSUME LettersAssumption ==
    /\ Flags \cap Special = {}
    /\ Lines \in Seq([letters : SUBSET (Flags \cup Special), length : Nat])
    /\ Mine \subseteq Nicks /\ Server \notin Nicks

Letters == UNION {Lines[k].letters : k \in DOMAIN Lines}

\* Values a server stores for an unset key or limit, and the argument it
\* sends with -k.
NoKey == ""
NoLimit == "0"
Star == "*"
NoArg == "no argument"

MAXMODEPARAMS == 4

VARIABLES
    chan,       \* the channel on the server that handles the line
    peer,       \* the channel on a server that receives the changes
    plus,       \* mode_changes_plus
    minus,      \* mode_changes_minus
    source,     \* the source of the line, or NoArg between lines
    alev,       \* its access level, read once when the line starts
    limited,    \* mode_limit
    line,       \* its number in Lines and how many letters are left
    lost        \* history: what the receiver is not told of this line

vars == <<chan, peer, plus, minus, source, alev, limited, line, lost>>

\* The access levels of get_channel_access.
Levels == {"peon", "halfop", "chanop"}

Args == Nicks \cup Masks \cup Keys \cup Limits \cup {Star}

\* A channel: the list each client is on, the simple modes, key, limit, and bans,
\* for which a receiver takes whatever parameter comes first.
Channel == [mem  : [Nicks -> Lists \cup {NoList}], flags : SUBSET Flags,
            key  : Keys \cup {NoKey}, limit : Limits \cup {NoLimit},
            bans : SUBSET Args]

\* A pending change; chm_op and chm_halfop add -h and -v of their own.
Change == [letter : Letters \cup {"h", "v"},
           arg : Args \cup {NoArg}]

---------------------------------------------------------------------------
(* The lists of pending changes.  A cancelled change is removed: letter 0  *)
(* makes every reader skip it.                                             *)

Has(s, letters, arg) == \E i \in 1..Len(s) : s[i].letter \in letters /\ s[i].arg = arg

Cancel(s, letters, arg) ==
    SelectSeq(s, LAMBDA e : ~(e.letter \in letters /\ e.arg = arg))

CancelLetter(s, c) == SelectSeq(s, LAMBDA e : e.letter # c)

HasLetter(s, c) == \E i \in 1..Len(s) : s[i].letter = c

AddIf(s, cond, c, x) == IF cond THEN Append(s, [letter |-> c, arg |-> x]) ELSE s

\* What a handler works on: the channel and the two lists.
State(c, p, m) == [chan |-> c, plus |-> p, minus |-> m]

---------------------------------------------------------------------------
(* The handlers, on a target that is on the channel.                       *)

Moved(st, nick, to) == [st.chan EXCEPT !.mem[nick] = to]

\* chm_op.  It cancels +o and +h, and -o; going from half-op to op takes a -h
\* first for servers that allow both.
OpLetter(st, dir, nick) ==
    LET m == Link(st.chan.mem[nick])
        to == chm_op(m, dir)
        plus1  == Cancel(st.plus, {"o", "h"}, nick)
        minus1 == Cancel(st.minus, {"o"}, nick)
        wasnt_opped  == Has(st.plus, {"o"}, nick)
        wasnt_hopped == Has(st.plus, {"h"}, nick)
        was_opped    == Has(st.minus, {"o"}, nick)
        t_hop == ~is_chan_op(m) /\ is_half_op(m)
    IN  IF to = NoList THEN st
        ELSE IF dir = "add"
          THEN State(Moved(st, nick, to), AddIf(plus1, ~was_opped, "o", nick),
                     AddIf(minus1, ~wasnt_hopped /\ t_hop, "h", nick))
          ELSE State(Moved(st, nick, to), plus1,
                     AddIf(minus1, ~wasnt_opped, "o", nick))

\* chm_halfop.  The move to halfops is inside the test of was_hopped.
HalfopLetter(st, dir, nick) ==
    LET m == Link(st.chan.mem[nick])
        to == chm_halfop(m, dir)
        t_voice == ~is_chan_op(m) /\ ~is_half_op(m) /\ is_voiced(m)
        plus1  == Cancel(st.plus, {"o", "h", "v"}, nick)
        minus1 == Cancel(st.minus, {"h", "v"}, nick)
        wasnt_hopped == Has(st.plus, {"h"}, nick)
        wasnt_voiced == Has(st.plus, {"v"}, nick)
        was_hopped   == Has(st.minus, {"h"}, nick)
        minus2 == AddIf(minus1, ~wasnt_voiced /\ t_voice, "v", nick)
    IN  IF to = NoList THEN st
        ELSE IF dir = "add"
          THEN IF was_hopped THEN State(st.chan, plus1, minus2)
               ELSE State(Moved(st, nick, to), AddIf(plus1, TRUE, "h", nick),
                          minus2)
          ELSE State(Moved(st, nick, to), plus1,
                     AddIf(minus1, ~wasnt_hopped, "h", nick))

\* Mutant: +o is cancelled too, as it is when REQUIRE_OANDV is not defined.
VoiceLetter_CancelsOp(st, dir, nick) ==
    LET to == chm_voice(Link(st.chan.mem[nick]), dir)
        plus1 == Cancel(st.plus, {"o", "h", "v"}, nick)
        minus1 == Cancel(st.minus, {"v"}, nick)
    IN  IF to = NoList THEN st
        ELSE IF dir = "add"
          THEN State(Moved(st, nick, to),
                     AddIf(plus1, ~Has(st.minus, {"v"}, nick), "v", nick), minus1)
          ELSE State(Moved(st, nick, to), plus1,
                     AddIf(minus1, ~Has(st.plus, {"v"}, nick), "v", nick))

\* chm_voice.
VoiceLetter(st, dir, nick) ==
    LET m == Link(st.chan.mem[nick])
        to == chm_voice(m, dir)
        plus1  == Cancel(st.plus, {"h", "v"}, nick)
        minus1 == Cancel(st.minus, {"v"}, nick)
        wasnt_voiced == Has(st.plus, {"v"}, nick)
        was_voiced   == Has(st.minus, {"v"}, nick)
    IN  IF to = NoList THEN st
        ELSE IF dir = "add"
          THEN State(Moved(st, nick, to), AddIf(plus1, ~was_voiced, "v", nick),
                     minus1)
          ELSE State(Moved(st, nick, to), plus1,
                     AddIf(minus1, ~wasnt_voiced, "v", nick))

\* chm_simple.
FlagLetter(st, dir, c) ==
    LET set == [st.chan EXCEPT !.flags = @ \cup {c}]
        unset == [st.chan EXCEPT !.flags = @ \ {c}]
    IN  IF (dir = "add") = (c \in st.chan.flags) THEN st
        ELSE IF dir = "add"
          THEN IF HasLetter(st.minus, c)
                 THEN State(set, st.plus, CancelLetter(st.minus, c))
                 ELSE State(set, AddIf(st.plus, TRUE, c, NoArg), st.minus)
          ELSE IF HasLetter(st.plus, c)
                 THEN State(unset, CancelLetter(st.plus, c), st.minus)
                 ELSE State(unset, st.plus, AddIf(st.minus, TRUE, c, NoArg))

\* add_id refuses a mask that a ban on the list already matches.
Matched(bans, mask) == \E b \in bans : b = mask \/ b = Star \/ <<b, mask>> \in Covering

\* chm_ban.
BanLetter(st, dir, mask) ==
    LET set == [st.chan EXCEPT !.bans = @ \cup {mask}]
        unset == [st.chan EXCEPT !.bans = @ \ {mask}]
    IN  IF dir = "add"
          THEN IF Matched(st.chan.bans, mask) THEN st
               ELSE IF Has(st.minus, {"b"}, mask)
                 THEN State(set, st.plus, Cancel(st.minus, {"b"}, mask))
                 ELSE State(set, AddIf(st.plus, TRUE, "b", mask), st.minus)
          ELSE IF mask \notin st.chan.bans THEN st
               ELSE IF Has(st.plus, {"b"}, mask)
                 THEN State(unset, Cancel(st.plus, {"b"}, mask), st.minus)
                 ELSE State(unset, st.plus, AddIf(st.minus, TRUE, "b", mask))

\* chm_limit: an argument that is not a positive number is ignored.
LimitLetter(st, dir, x) ==
    IF dir = "add"
      THEN IF x \notin Limits THEN st
           ELSE State([st.chan EXCEPT !.limit = x],
                      AddIf(CancelLetter(st.plus, "l"), TRUE, "l", x),
                      CancelLetter(st.minus, "l"))
      ELSE IF st.chan.limit = NoLimit THEN st
           ELSE IF HasLetter(st.plus, "l")
             THEN State([st.chan EXCEPT !.limit = NoLimit],
                        CancelLetter(st.plus, "l"), st.minus)
             ELSE State([st.chan EXCEPT !.limit = NoLimit], st.plus,
                        AddIf(st.minus, TRUE, "l", NoArg))

\* Mutant: -k stores the argument it sends.
KeyLetter_StoresStar(st, dir, x) ==
    State([st.chan EXCEPT !.key = IF dir = "add" THEN x ELSE Star],
          st.plus, st.minus)

\* chm_key.
KeyLetter(st, dir, x) ==
    IF dir = "add"
      THEN State([st.chan EXCEPT !.key = x],
                 AddIf(CancelLetter(st.plus, "k"), TRUE, "k", x),
                 CancelLetter(st.minus, "k"))
      ELSE IF st.chan.key = NoKey THEN st
           ELSE State([st.chan EXCEPT !.key = NoKey],
                      CancelLetter(st.plus, "k"),
                      AddIf(st.minus, TRUE, "k", Star))

\* The letters whose handler takes the next parameter of the line.  -k and -l
\* do not.
TakesArg(c, dir) == c \in {"o", "h", "v", "b"} \/ (c \in {"k", "l"} /\ dir = "add")

\* ModeTable: the handler of a letter.  A status letter for a name that is not
\* a client on the channel does nothing.
Handle(st, dir, c, x) ==
    CASE c \in {"o", "h", "v"} ->
           IF x \notin Nicks THEN st
           ELSE IF st.chan.mem[x] = NoList THEN st
           ELSE IF c = "o" THEN OpLetter(st, dir, x)
           ELSE IF c = "h" THEN HalfopLetter(st, dir, x)
           ELSE VoiceLetter(st, dir, x)
      [] c = "b" -> BanLetter(st, dir, x)
      [] c = "l" -> LimitLetter(st, dir, x)
      [] c = "k" -> KeyLetter(st, dir, x)
      [] OTHER   -> FlagLetter(st, dir, c)

---------------------------------------------------------------------------
(* What is sent, and what the receiver makes of it.                        *)

\* send_cap_mode_changes: the minus list, then the plus list.
Outgoing(p, m) ==
    [i \in 1..Len(m) |-> [dir |-> "del", letter |-> m[i].letter, arg |-> m[i].arg]]
    \o
    [i \in 1..Len(p) |-> [dir |-> "add", letter |-> p[i].letter, arg |-> p[i].arg]]

\* The parameters of a line are sent after its letters, in the same order.
Params(changes) ==
    LET with == SelectSeq(changes, LAMBDA e : e.arg # NoArg)
    IN  [i \in 1..Len(with) |-> with[i].arg]

\* The receiver reads one letter e of a line: acc has the state and the
\* parameters not yet consumed.
Receive(acc, e) ==
    IF ~TakesArg(e.letter, e.dir)
      THEN [acc EXCEPT !.st = Handle(@, e.dir, e.letter, NoArg)]
    ELSE IF acc.params = <<>> THEN acc
      ELSE [st |-> Handle(acc.st, e.dir, e.letter, Head(acc.params)),
            params |-> Tail(acc.params)]

\* set_channel_mode on one line from a server.
ReceiveLine(c, changes) ==
    FoldLeft(Receive, [st |-> State(c, <<>>, <<>>), params |-> Params(changes)],
             changes).st.chan

\* send_cap_mode_changes starts a new line before a parameter that would be
\* one too many: the part of the changes that goes into line j (0 is the first).
SentLine(changes, j) ==
    LET params(i) == Len(Params(SubSeq(changes, 1, i)))
        at(i) == IF params(i) = 0 THEN 0 ELSE (params(i) - 1) \div MAXMODEPARAMS
        first == Cardinality({i \in 1..Len(changes) : at(i) < j})
        last == Cardinality({i \in 1..Len(changes) : at(i) <= j})
    IN  SubSeq(changes, first + 1, last)

\* The receiver handles the lines one after the other.
Replay(c, changes) ==
    FoldLeft(ReceiveLine, c,
             [j \in 1..(Len(changes) + 1) |-> SentLine(changes, j - 1)])

---------------------------------------------------------------------------
(* The specification.                                                      *)

Idle == source = NoArg

NoLine == [kind |-> 0, left |-> 0]

TypeOK ==
    /\ chan \in Channel /\ peer \in Channel
    /\ \A i \in 1..Len(plus) : plus[i] \in Change
    /\ \A i \in 1..Len(minus) : minus[i] \in Change
    /\ source \in Nicks \cup {Server, NoArg}
    /\ alev \in Levels
    /\ limited \in Nat /\ line \in [kind : 0..Len(Lines), left : Nat]
    /\ lost \subseteq Nicks \cup Masks \cup {"limit", "parameters"}

\* The members may have any status a channel can give them; both servers agree
\* before the first line.
Init ==
    /\ \E m \in [Nicks -> Lists \cup {NoList}], f \in SUBSET Flags,
          b \in SUBSET Masks, k \in Keys \cup {NoKey},
          l \in Limits \cup {NoLimit} :
          /\ \A x, y \in b : <<x, y>> \notin Covering
          /\ chan = [mem |-> m, flags |-> f, key |-> k, limit |-> l, bans |-> b]
    /\ peer = chan
    /\ plus = <<>> /\ minus = <<>>
    /\ source = NoArg /\ alev = "peon" /\ limited = 0 /\ line = NoLine
    /\ lost = {}

\* get_channel_access.
Access(src) ==
    IF src \notin Mine THEN "chanop"
    ELSE IF chan.mem[src] = NoList THEN "peon"
    ELSE IF is_chan_op(Link(chan.mem[src])) THEN "chanop"
    ELSE IF is_half_op(Link(chan.mem[src])) THEN "halfop"
    ELSE "peon"

\* The line starts: set_channel_mode up to its loop.
Start(src, kind) ==
    /\ Idle /\ line' = [kind |-> kind, left |-> Lines[kind].length]
    /\ source' = src /\ alev' = Access(src)
    /\ plus' = <<>> /\ minus' = <<>> /\ limited' = 0
    /\ peer' = chan /\ lost' = {}
    /\ UNCHANGED chan

\* Mutant: every handler asks for half-op.
Allowed_Halfop(c) == alev # "peon"

\* The level a handler asks for: op for o and p, and for h on a +p channel,
\* half-op for the others.
Allowed(c) ==
    \/ alev = "chanop"
    \/ /\ alev = "halfop" /\ c \notin {"o", "p"}
       /\ c = "h" => "p" \notin chan.flags

\* The handlers that count against the limit of a local source.
Counted(c) == source \in Mine /\ (c \in {"o", "b"} \/ (c = "h" /\ alev # "chanop"))

\* What Handle gives for one letter, and whether the letter counted.
Step(dir, c, x) ==
    LET st == State(chan, plus, minus)
        next == Handle(st, dir, c, x)
        \* chm_op counts after its early returns, chm_halfop and chm_ban before
        counts == Counted(c) /\ (c = "o" => next # st)
    IN  /\ IF counts /\ limited > 4
             THEN UNCHANGED <<chan, plus, minus>>
             ELSE chan' = next.chan /\ plus' = next.plus /\ minus' = next.minus
        /\ limited' = IF counts THEN limited + 1 ELSE limited

\* What a letter does here and the receiver is not told of.  A +h or -h cancels a
\* pending -h or -v of the client and does not bring back what that took; a -l cancels
\* a +l and forgets that there was a limit before the line; a +b cancels a pending -b,
\* so that the receiver, who never took that ban off, refuses those it covers.
Forgotten(dir, c, x) ==
    CASE c = "h" /\ Has(minus, {"h", "v"}, x)
           -> IF chm_halfop(Link(chan.mem[x]), dir) # NoList THEN {x} ELSE {}
      [] c = "l" /\ dir = "del" /\ HasLetter(plus, "l")
           -> IF peer.limit # NoLimit THEN {"limit"} ELSE {}
      [] c = "b" /\ dir = "add" /\ Has(minus, {"b"}, x)
           -> {m \in Masks : Has(plus, {"b"}, m) /\ <<x, m>> \in Covering}
      [] OTHER -> {}

\* The next letter of the line, with the argument it takes.
Letter(dir, c, x) ==
    /\ ~Idle /\ line.left > 0 /\ c \in Lines[line.kind].letters
    /\ Allowed(c)
    /\ Step(dir, c, x)
    /\ line' = [line EXCEPT !.left = @ - 1]
    /\ lost' = lost \cup Forgotten(dir, c, x)
    /\ UNCHANGED <<peer, source, alev>>

StatusLetter == \E dir \in Directions, c \in {"o", "h", "v"}, x \in Nicks :
                   Letter(dir, c, x)
MaskLetter   == \E dir \in Directions, x \in Masks : Letter(dir, "b", x)
KeySet       == \E x \in Keys : Letter("add", "k", x)
LimitSet     == \E x \in Limits : Letter("add", "l", x)
Unset        == \E c \in {"k", "l"} : Letter("del", c, NoArg)
SimpleLetter == \E dir \in Directions, c \in Flags : Letter(dir, c, NoArg)

\* A -k, whose parameter the receiver does not take, before a letter that takes one.
StarFirst(changes) ==
    \E j \in 0..Len(changes) :
      LET sent == SentLine(changes, j)
      IN  \E i, k \in 1..Len(sent) :
            i < k /\ sent[i].arg = Star /\ TakesArg(sent[k].letter, sent[k].dir)

\* The line ends: send_mode_changes, and the receiver handles the result.
Send ==
    /\ ~Idle
    /\ peer' = Replay(peer, Outgoing(plus, minus))
    /\ lost' = IF StarFirst(Outgoing(plus, minus)) THEN lost \cup {"parameters"} ELSE lost
    /\ source' = NoArg /\ alev' = "peon"
    /\ plus' = <<>> /\ minus' = <<>> /\ limited' = 0
    /\ line' = NoLine
    /\ UNCHANGED chan

Next ==
    \/ \E src \in Nicks \cup {Server}, kind \in DOMAIN Lines : Start(src, kind)
    \/ StatusLetter \/ MaskLetter \/ KeySet \/ LimitSet \/ Unset \/ SimpleLetter
    \/ Send

Spec == Init /\ [][Next]_vars

---------------------------------------------------------------------------
(* Properties.                                                             *)

\* A server that had the same channel when a line started has it again when it has
\* handled what send_mode_changes made of the line, however the letters repeated, undid
\* or crossed each other, with four exceptions in which the code leaves it behind: the
\* members, the limit and the bans in lost, and whatever takes a parameter when
\* one went to the "*" of a -k.
PeerAgrees ==
    Idle =>
        /\ peer.flags = chan.flags /\ peer.key = chan.key
        /\ "parameters" \notin lost =>
             /\ \A n \in Nicks \ lost : peer.mem[n] = chan.mem[n]
             /\ "limit" \notin lost => peer.limit = chan.limit
             /\ peer.bans \ lost = chan.bans \ lost

\* A local half-op can take nobody's op and give nobody op, by no combination
\* of the letters he may use.
HalfopsMakeNoOps ==
    [][alev = "halfop" =>
         \A n \in Nicks : (chan'.mem[n] \in {"chanops", "chanops_voiced"})
                            <=> (chan.mem[n] \in {"chanops", "chanops_voiced"})]_vars
============================================================================
