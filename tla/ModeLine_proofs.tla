-------------------------- MODULE ModeLine_proofs --------------------------
(***************************************************************************)
(* Proof about ModeLine, for every set of clients, flags, masks and lines: *)
(* a line from a half-op changes nobody's op.  It needs no more than what  *)
(* the channel is; the lists of pending changes do not matter.             *)
(***************************************************************************)
EXTENDS ModeLine, TLAPS

\* The lists of a channel on which a client is an op.
OpLists == {"chanops", "chanops_voiced"}

\* What an invariant has to say for the proof: the channel is a channel.
IInv == chan \in Channel

\* What no step may do while a half-op's line is handled.
OpsStay ==
    alev = "halfop" =>
      \A n \in Nicks : (chan'.mem[n] \in OpLists) <=> (chan.mem[n] \in OpLists)

---------------------------------------------------------------------------
(* The membership changes of ChannelDefs.                                  *)

\* A client on one list has the status of that list and no other.
LEMMA StatusOfLink ==
    ASSUME NEW l \in Lists
    PROVE  /\ is_chan_op(Link(l)) <=> l \in OpLists
           /\ is_half_op(Link(l)) <=> l = "halfops"
           /\ is_voiced(Link(l)) <=> l \in {"voiced", "chanops_voiced"}
<1>1. \A k \in Lists : Link(l)[k] = IF k = l THEN 1 ELSE 0
  BY DEF Link, NoLinks
<1>2. {"peons", "voiced", "halfops", "chanops", "chanops_voiced"} = Lists
  BY DEF Lists
<1> QED BY <1>1, <1>2 DEF is_chan_op, is_half_op, is_voiced, OpLists

\* Each handler moves a client to a list, or nowhere.
LEMMA MovesToLists ==
    ASSUME NEW l \in Lists, NEW dir
    PROVE  /\ chm_op(Link(l), dir) \in Lists \cup {NoList}
           /\ chm_halfop(Link(l), dir) \in Lists \cup {NoList}
           /\ chm_voice(Link(l), dir) \in Lists \cup {NoList}
BY DEF chm_op, chm_halfop, chm_voice, Lists, NoList

\* +h and -h, +v and -v leave the op of a client alone.
LEMMA OnlyOpMovesOps ==
    ASSUME NEW l \in Lists, NEW dir \in Directions
    PROVE  /\ chm_halfop(Link(l), dir) # NoList =>
                (chm_halfop(Link(l), dir) \in OpLists <=> l \in OpLists)
           /\ chm_voice(Link(l), dir) # NoList =>
                (chm_voice(Link(l), dir) \in OpLists <=> l \in OpLists)
<1>1. /\ is_chan_op(Link(l)) <=> l \in OpLists
      /\ is_half_op(Link(l)) <=> l = "halfops"
      /\ is_voiced(Link(l)) <=> l \in {"voiced", "chanops_voiced"}
  BY StatusOfLink
<1>2. chm_halfop(Link(l), dir) # NoList =>
        (chm_halfop(Link(l), dir) \in OpLists <=> l \in OpLists)
  BY <1>1 DEF chm_halfop, OpLists
<1>3. chm_voice(Link(l), dir) # NoList =>
        (chm_voice(Link(l), dir) \in OpLists <=> l \in OpLists)
  BY <1>1 DEF chm_voice, OpLists
<1> QED BY <1>2, <1>3

---------------------------------------------------------------------------
(* The handlers.                                                           *)

\* The channel of what a handler gives.
LEMMA ChanOf ==
    ASSUME NEW b, NEW e, \E q, r : b = State(e, q, r)
    PROVE  b.chan = e
BY DEF State

\* chm_op leaves the channel alone or moves the client.
LEMMA OpEffect ==
    ASSUME NEW st, NEW dir, NEW x
    PROVE  \/ OpLetter(st, dir, x).chan = st.chan
           \/ /\ chm_op(Link(st.chan.mem[x]), dir) # NoList
              /\ OpLetter(st, dir, x).chan =
                   Moved(st, x, chm_op(Link(st.chan.mem[x]), dir))
<1>1. \/ OpLetter(st, dir, x) = st
      \/ /\ chm_op(Link(st.chan.mem[x]), dir) # NoList
         /\ \E q, r : OpLetter(st, dir, x)
                       = State(Moved(st, x, chm_op(Link(st.chan.mem[x]), dir)), q, r)
  BY Zenon DEF OpLetter
<1> QED BY <1>1, ChanOf, Zenon

\* So does chm_halfop, and keeps the channel when it only cancels a -h.
LEMMA HalfopEffect ==
    ASSUME NEW st, NEW dir, NEW x
    PROVE  \/ HalfopLetter(st, dir, x).chan = st.chan
           \/ /\ chm_halfop(Link(st.chan.mem[x]), dir) # NoList
              /\ HalfopLetter(st, dir, x).chan =
                   Moved(st, x, chm_halfop(Link(st.chan.mem[x]), dir))
<1>1. \/ HalfopLetter(st, dir, x) = st
      \/ \E q, r : HalfopLetter(st, dir, x) = State(st.chan, q, r)
      \/ /\ chm_halfop(Link(st.chan.mem[x]), dir) # NoList
         /\ \E q, r : HalfopLetter(st, dir, x)
                       = State(Moved(st, x, chm_halfop(Link(st.chan.mem[x]), dir)), q, r)
  BY Zenon DEF HalfopLetter
<1> QED BY <1>1, ChanOf, Zenon

\* So does chm_voice.
LEMMA VoiceEffect ==
    ASSUME NEW st, NEW dir, NEW x
    PROVE  \/ VoiceLetter(st, dir, x).chan = st.chan
           \/ /\ chm_voice(Link(st.chan.mem[x]), dir) # NoList
              /\ VoiceLetter(st, dir, x).chan =
                   Moved(st, x, chm_voice(Link(st.chan.mem[x]), dir))
<1>1. \/ VoiceLetter(st, dir, x) = st
      \/ /\ chm_voice(Link(st.chan.mem[x]), dir) # NoList
         /\ \E q, r : VoiceLetter(st, dir, x)
                       = State(Moved(st, x, chm_voice(Link(st.chan.mem[x]), dir)), q, r)
  BY Zenon DEF VoiceLetter
<1> QED BY <1>1, ChanOf, Zenon

\* chm_simple changes the flags and nothing else.
LEMMA FlagEffect ==
    ASSUME NEW st, NEW dir, NEW x
    PROVE  \/ FlagLetter(st, dir, x).chan = st.chan
           \/ FlagLetter(st, dir, x).chan = [st.chan EXCEPT !.flags = @ \cup {x}]
           \/ FlagLetter(st, dir, x).chan = [st.chan EXCEPT !.flags = @ \ {x}]
<1>1. \/ FlagLetter(st, dir, x) = st
      \/ \E q, r : FlagLetter(st, dir, x)
                    = State([st.chan EXCEPT !.flags = @ \cup {x}], q, r)
      \/ \E q, r : FlagLetter(st, dir, x)
                    = State([st.chan EXCEPT !.flags = @ \ {x}], q, r)
  BY Zenon DEF FlagLetter
<1> QED BY <1>1, ChanOf, Zenon

\* chm_ban changes the bans and nothing else.
LEMMA BanEffect ==
    ASSUME NEW st, NEW dir, NEW x
    PROVE  \/ BanLetter(st, dir, x).chan = st.chan
           \/ BanLetter(st, dir, x).chan = [st.chan EXCEPT !.bans = @ \cup {x}]
           \/ BanLetter(st, dir, x).chan = [st.chan EXCEPT !.bans = @ \ {x}]
<1>1. \/ BanLetter(st, dir, x) = st
      \/ \E q, r : BanLetter(st, dir, x)
                    = State([st.chan EXCEPT !.bans = @ \cup {x}], q, r)
      \/ \E q, r : BanLetter(st, dir, x)
                    = State([st.chan EXCEPT !.bans = @ \ {x}], q, r)
  BY Zenon DEF BanLetter
<1> QED BY <1>1, ChanOf, Zenon

\* chm_limit changes the limit and nothing else.
LEMMA LimitEffect ==
    ASSUME NEW st, NEW dir, NEW x
    PROVE  \/ LimitLetter(st, dir, x).chan = st.chan
           \/ x \in Limits /\ LimitLetter(st, dir, x).chan = [st.chan EXCEPT !.limit = x]
           \/ LimitLetter(st, dir, x).chan = [st.chan EXCEPT !.limit = NoLimit]
<1>1. \/ LimitLetter(st, dir, x) = st
      \/ /\ x \in Limits
         /\ \E q, r : LimitLetter(st, dir, x)
                       = State([st.chan EXCEPT !.limit = x], q, r)
      \/ \E q, r : LimitLetter(st, dir, x)
                    = State([st.chan EXCEPT !.limit = NoLimit], q, r)
  BY Zenon DEF LimitLetter
<1> QED BY <1>1, ChanOf, Zenon

\* chm_key changes the key and nothing else.
LEMMA KeyEffect ==
    ASSUME NEW st, NEW dir, NEW x
    PROVE  \/ KeyLetter(st, dir, x).chan = st.chan
           \/ dir = "add" /\ KeyLetter(st, dir, x).chan = [st.chan EXCEPT !.key = x]
           \/ KeyLetter(st, dir, x).chan = [st.chan EXCEPT !.key = NoKey]
<1>1. \/ KeyLetter(st, dir, x) = st
      \/ /\ dir = "add"
         /\ \E q, r : KeyLetter(st, dir, x)
                       = State([st.chan EXCEPT !.key = x], q, r)
      \/ \E q, r : KeyLetter(st, dir, x)
                    = State([st.chan EXCEPT !.key = NoKey], q, r)
  BY Zenon DEF KeyLetter
<1> QED BY <1>1, ChanOf, Zenon

\* A status letter leaves a channel; +h, -h, +v and -v leave the ops alone.
LEMMA StatusLetters ==
    ASSUME NEW c \in Channel, NEW p, NEW m, NEW dir \in Directions,
           NEW nick \in Nicks, c.mem[nick] # NoList
    PROVE  /\ OpLetter(State(c, p, m), dir, nick).chan \in Channel
           /\ HalfopLetter(State(c, p, m), dir, nick).chan \in Channel
           /\ VoiceLetter(State(c, p, m), dir, nick).chan \in Channel
           /\ \A n \in Nicks :
                /\ HalfopLetter(State(c, p, m), dir, nick).chan.mem[n] \in OpLists
                     <=> c.mem[n] \in OpLists
                /\ VoiceLetter(State(c, p, m), dir, nick).chan.mem[n] \in OpLists
                     <=> c.mem[n] \in OpLists
<1> DEFINE st == State(c, p, m)
           l == c.mem[nick]
<1>1. /\ st.chan = c
      /\ \A d, q, r : State(d, q, r).chan = d
  BY DEF State
<1>2. l \in Lists
  BY DEF Channel
<1>3. \A to \in Lists : /\ Moved(st, nick, to) \in Channel
                        /\ \A n \in Nicks : Moved(st, nick, to).mem[n] =
                             IF n = nick THEN to ELSE c.mem[n]
  BY <1>1 DEF Moved, Channel
<1> DEFINE o == chm_op(Link(l), dir)
           h == chm_halfop(Link(l), dir)
           v == chm_voice(Link(l), dir)
<1> HIDE DEF st
<1>4. o \in Lists \cup {NoList} /\ h \in Lists \cup {NoList} /\ v \in Lists \cup {NoList}
  BY <1>2, MovesToLists
<1>5. /\ h # NoList => (h \in OpLists <=> l \in OpLists)
      /\ v # NoList => (v \in OpLists <=> l \in OpLists)
  BY <1>2, OnlyOpMovesOps
<1>6. \/ OpLetter(st, dir, nick).chan = c
      \/ o # NoList /\ OpLetter(st, dir, nick).chan = Moved(st, nick, o)
  BY <1>1, OpEffect
<1>7. \/ HalfopLetter(st, dir, nick).chan = c
      \/ h # NoList /\ HalfopLetter(st, dir, nick).chan = Moved(st, nick, h)
  BY <1>1, HalfopEffect
<1>8. \/ VoiceLetter(st, dir, nick).chan = c
      \/ v # NoList /\ VoiceLetter(st, dir, nick).chan = Moved(st, nick, v)
  BY <1>1, VoiceEffect
<1> HIDE DEF o, h, v
<1>9. /\ OpLetter(st, dir, nick).chan \in Channel
      /\ HalfopLetter(st, dir, nick).chan \in Channel
      /\ VoiceLetter(st, dir, nick).chan \in Channel
  BY <1>3, <1>4, <1>6, <1>7, <1>8
<1>10. ASSUME NEW n \in Nicks
       PROVE  /\ HalfopLetter(st, dir, nick).chan.mem[n] \in OpLists
                   <=> c.mem[n] \in OpLists
              /\ VoiceLetter(st, dir, nick).chan.mem[n] \in OpLists
                   <=> c.mem[n] \in OpLists
  BY <1>3, <1>4, <1>5, <1>7, <1>8
<1> QED BY <1>9, <1>10 DEF st

\* d is channel c but for its modes.
Keeps(c, d) == d \in Channel /\ d.mem = c.mem

\* The other letters leave a channel, with the members as they are.
LEMMA OtherLetters ==
    ASSUME NEW c \in Channel, NEW p, NEW m, NEW dir
    PROVE  /\ \A f \in Flags : Keeps(c, FlagLetter(State(c, p, m), dir, f).chan)
           /\ \A x \in Masks : Keeps(c, BanLetter(State(c, p, m), dir, x).chan)
           /\ \A x : Keeps(c, LimitLetter(State(c, p, m), dir, x).chan)
           /\ \A x \in Keys : dir = "add" =>
                     Keeps(c, KeyLetter(State(c, p, m), dir, x).chan)
           /\ \A x : dir # "add" =>
                     Keeps(c, KeyLetter(State(c, p, m), dir, x).chan)
<1> DEFINE st == State(c, p, m)
           Same(d) == Keeps(c, d)
<1>1. /\ st.chan = c
      /\ \A d, q, r : State(d, q, r).chan = d
  BY DEF State
<1>2. Same(c)
  BY DEF Keeps
<1>3. ASSUME NEW f \in Flags
      PROVE  /\ Same([c EXCEPT !.flags = @ \cup {f}])
             /\ Same([c EXCEPT !.flags = @ \ {f}])
  BY DEF Channel, Keeps
<1>4. ASSUME NEW x \in Masks
      PROVE  /\ Same([c EXCEPT !.bans = @ \cup {x}])
             /\ Same([c EXCEPT !.bans = @ \ {x}])
  <2>1. x \in Args
    BY DEF Args
  <2> QED BY <2>1 DEF Channel, Keeps
<1>5. ASSUME NEW x \in Limits \cup {NoLimit}
      PROVE  Same([c EXCEPT !.limit = x])
  BY DEF Channel, Keeps
<1>6. ASSUME NEW x \in Keys \cup {NoKey}
      PROVE  Same([c EXCEPT !.key = x])
  BY DEF Channel, Keeps
<1>7. ASSUME NEW f \in Flags
      PROVE  Same(FlagLetter(st, dir, f).chan)
  <2>1. \/ FlagLetter(st, dir, f).chan = c
        \/ FlagLetter(st, dir, f).chan = [c EXCEPT !.flags = @ \cup {f}]
        \/ FlagLetter(st, dir, f).chan = [c EXCEPT !.flags = @ \ {f}]
    BY <1>1, FlagEffect
  <2> QED BY <1>2, <1>3, <2>1
<1>8. ASSUME NEW x \in Masks
      PROVE  Same(BanLetter(st, dir, x).chan)
  <2>1. \/ BanLetter(st, dir, x).chan = c
        \/ BanLetter(st, dir, x).chan = [c EXCEPT !.bans = @ \cup {x}]
        \/ BanLetter(st, dir, x).chan = [c EXCEPT !.bans = @ \ {x}]
    BY <1>1, BanEffect
  <2> QED BY <1>2, <1>4, <2>1
<1>9. ASSUME NEW x
      PROVE  Same(LimitLetter(st, dir, x).chan)
  <2>1. \/ LimitLetter(st, dir, x).chan = c
        \/ x \in Limits /\ LimitLetter(st, dir, x).chan = [c EXCEPT !.limit = x]
        \/ LimitLetter(st, dir, x).chan = [c EXCEPT !.limit = NoLimit]
    BY <1>1, LimitEffect
  <2> QED BY <1>2, <1>5, <2>1
<1>10. ASSUME NEW x, dir = "add" => x \in Keys
       PROVE  Same(KeyLetter(st, dir, x).chan)
  <2>1. \/ KeyLetter(st, dir, x).chan = c
        \/ dir = "add" /\ KeyLetter(st, dir, x).chan = [c EXCEPT !.key = x]
        \/ KeyLetter(st, dir, x).chan = [c EXCEPT !.key = NoKey]
    BY <1>1, KeyEffect
  <2> QED BY <1>2, <1>6, <1>10, <2>1
<1> HIDE DEF st
<1> QED BY <1>7, <1>8, <1>9, <1>10 DEF st

---------------------------------------------------------------------------
(* The steps.                                                              *)

\* What the next letter of a line does to the channel, when its handler keeps
\* the channel a channel and, for a half-op, the ops as they are.
LEMMA OneLetter ==
    ASSUME IInv, NEW dir, NEW c, NEW x, Letter(dir, c, x),
           Handle(State(chan, plus, minus), dir, c, x).chan \in Channel,
           alev = "halfop" => \A n \in Nicks :
             Handle(State(chan, plus, minus), dir, c, x).chan.mem[n] \in OpLists
               <=> chan.mem[n] \in OpLists
    PROVE  IInv' /\ OpsStay
<1> DEFINE next == Handle(State(chan, plus, minus), dir, c, x)
<1>1. chan' = chan \/ chan' = next.chan
  <2> HIDE DEF next
  <2> QED BY DEF Letter, Step, next
<1> HIDE DEF next
<1>2. IInv'
  BY <1>1 DEF IInv, next
<1>3. OpsStay
  BY <1>1 DEF OpsStay, next
<1> QED BY <1>2, <1>3

\* The handler of a status letter: +o and -o are not for a half-op.
LEMMA StepStatus ==
    ASSUME IInv, StatusLetter
    PROVE  IInv' /\ OpsStay
<1> PICK dir \in Directions, c \in {"o", "h", "v"}, x \in Nicks : Letter(dir, c, x)
  BY DEF StatusLetter
<1> DEFINE st == State(chan, plus, minus)
           next == Handle(st, dir, c, x)
<1>1. chan \in Channel /\ st.chan = chan
  BY DEF IInv, State
<1>2. alev = "halfop" => c # "o"
  BY DEF Letter, Allowed
<1>3. CASE chan.mem[x] = NoList
  <2>1. next = st
    BY <1>1, <1>3 DEF Handle
  <2> QED BY <1>1, <2>1, OneLetter
<1>4. CASE chan.mem[x] # NoList
  <2>1. /\ c = "o" => next = OpLetter(st, dir, x)
        /\ c = "h" => next = HalfopLetter(st, dir, x)
        /\ c = "v" => next = VoiceLetter(st, dir, x)
    <3> HIDE DEF st
    <3> QED BY <1>1, <1>4 DEF Handle
  <2>2. /\ OpLetter(st, dir, x).chan \in Channel
        /\ HalfopLetter(st, dir, x).chan \in Channel
        /\ VoiceLetter(st, dir, x).chan \in Channel
        /\ \A n \in Nicks :
             /\ HalfopLetter(st, dir, x).chan.mem[n] \in OpLists
                  <=> chan.mem[n] \in OpLists
             /\ VoiceLetter(st, dir, x).chan.mem[n] \in OpLists
                  <=> chan.mem[n] \in OpLists
    BY <1>1, <1>4, StatusLetters
  <2> HIDE DEF next, st
  <2>3. /\ next.chan \in Channel
        /\ alev = "halfop" => \A n \in Nicks :
             next.chan.mem[n] \in OpLists <=> chan.mem[n] \in OpLists
    BY <1>2, <2>1, <2>2
  <2> QED BY <2>3, OneLetter DEF next, st
<1> QED BY <1>3, <1>4

\* The handlers of the other letters.
LEMMA StepOther ==
    ASSUME IInv, MaskLetter \/ KeySet \/ LimitSet \/ Unset \/ SimpleLetter
    PROVE  IInv' /\ OpsStay
<1> DEFINE st == State(chan, plus, minus)
           Kept(d) == Keeps(chan, d)
<1>1. chan \in Channel
  BY DEF IInv
<1>2. ASSUME NEW dir, NEW c, NEW x, Letter(dir, c, x),
             Kept(Handle(st, dir, c, x).chan)
      PROVE  IInv' /\ OpsStay
  BY <1>2, OneLetter DEF Keeps
<1>3. CASE MaskLetter
  <2> PICK dir \in Directions, x \in Masks : Letter(dir, "b", x)
    BY <1>3 DEF MaskLetter
  <2>1. Handle(st, dir, "b", x) = BanLetter(st, dir, x)
    BY DEF Handle
  <2>2. Kept(BanLetter(st, dir, x).chan)
    BY <1>1, OtherLetters
  <2> QED BY <1>2, <2>1, <2>2
<1>4. CASE KeySet
  <2> PICK x \in Keys : Letter("add", "k", x)
    BY <1>4 DEF KeySet
  <2>1. Handle(st, "add", "k", x) = KeyLetter(st, "add", x)
    BY DEF Handle
  <2>2. Kept(KeyLetter(st, "add", x).chan)
    BY <1>1, OtherLetters
  <2> QED BY <1>2, <2>1, <2>2
<1>5. CASE LimitSet
  <2> PICK x \in Limits : Letter("add", "l", x)
    BY <1>5 DEF LimitSet
  <2>1. Handle(st, "add", "l", x) = LimitLetter(st, "add", x)
    BY DEF Handle
  <2>2. Kept(LimitLetter(st, "add", x).chan)
    BY <1>1, OtherLetters
  <2> QED BY <1>2, <2>1, <2>2
<1>6. CASE Unset
  <2> PICK c \in {"k", "l"} : Letter("del", c, NoArg)
    BY <1>6 DEF Unset
  <2>1. /\ c = "k" => Handle(st, "del", c, NoArg) = KeyLetter(st, "del", NoArg)
        /\ c = "l" => Handle(st, "del", c, NoArg) = LimitLetter(st, "del", NoArg)
    BY DEF Handle
  <2>2. /\ Kept(KeyLetter(st, "del", NoArg).chan)
        /\ Kept(LimitLetter(st, "del", NoArg).chan)
    BY <1>1, OtherLetters
  <2> QED BY <1>2, <2>1, <2>2
<1>7. CASE SimpleLetter
  <2> PICK dir \in Directions, c \in Flags : Letter(dir, c, NoArg)
    BY <1>7 DEF SimpleLetter
  <2>1. Handle(st, dir, c, NoArg) = FlagLetter(st, dir, c)
    <3>1. c \notin Special
      BY LettersAssumption
    <3> QED BY <3>1 DEF Handle, Special
  <2>2. Kept(FlagLetter(st, dir, c).chan)
    BY <1>1, OtherLetters
  <2> QED BY <1>2, <2>1, <2>2
<1> QED BY <1>3, <1>4, <1>5, <1>6, <1>7

\* The channel is one at the start, whatever the status of its members.
LEMMA InitIInv == Init => IInv
<1>1. SUBSET Masks \subseteq SUBSET Args
  BY DEF Args
<1> QED BY <1>1 DEF Init, IInv, Channel

\* Every step of a line keeps the channel one and a half-op's line the ops.
LEMMA NextIInv == IInv /\ [Next]_vars => IInv' /\ [OpsStay]_vars
<1> SUFFICES ASSUME IInv, [Next]_vars PROVE IInv' /\ [OpsStay]_vars
  OBVIOUS
<1>1. ASSUME NEW src \in Nicks \cup {Server}, NEW kind \in DOMAIN Lines,
             Start(src, kind)
      PROVE  IInv' /\ OpsStay
  BY <1>1 DEF Start, IInv, OpsStay
<1>2. CASE Send
  BY <1>2 DEF Send, IInv, OpsStay
<1>3. CASE UNCHANGED vars
  BY <1>3 DEF vars, IInv
<1> QED BY <1>1, <1>2, <1>3, StepStatus, StepOther DEF Next

\* HalfopsMakeNoOps for every channel and every line: set_channel_mode gives
\* +o and -o to nobody below op, and chm_halfop and chm_voice move an op only
\* between the two lists of ops.
THEOREM OnlyOpsMakeOps == Spec => HalfopsMakeNoOps
<1>1. Spec => [][OpsStay]_vars
  BY InitIInv, NextIInv, PTL DEF Spec
<1>2. [][OpsStay]_vars => HalfopsMakeNoOps
  BY PTL DEF HalfopsMakeNoOps, OpsStay, OpLists
<1> QED BY <1>1, <1>2
============================================================================
