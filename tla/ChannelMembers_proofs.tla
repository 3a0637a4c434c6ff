----------------------- MODULE ChannelMembers_proofs -----------------------
(***************************************************************************)
(* Proofs about ChannelMembers, for every set of clients and channels:     *)
(* type correctness; the timestamp of an occupied channel; who keeps and   *)
(* who loses status when timestamps are compared; and, on servers where op *)
(* and voice are never combined, the integrity of the member lists, the    *)
(* counters of each channel, and that no list points to what is gone.      *)
(***************************************************************************)
EXTENDS ChannelMembers, FiniteSetTheorems, TLAPS

---------------------------------------------------------------------------
(* Facts about the operators of ChannelDefs.                               *)

\* The chains of find_user_link calls visit every list.
Covers(order) ==
    /\ \A i \in 1..5 : order[i] \in Lists
    /\ \A l \in Lists : \E i \in 1..5 : order[i] = l

\* Each of the three chains the code writes visits all five lists.
LEMMA OrdersCover ==
    Covers(RemoveOrder) /\ Covers(RemoveLocalOrder) /\ Covers(ChangeOrder)
<1>1. Covers(RemoveOrder)
  BY DEF Covers, RemoveOrder, Lists
<1>2. Covers(RemoveLocalOrder)
  BY DEF Covers, RemoveLocalOrder, Lists
<1>3. Covers(ChangeOrder)
  BY DEF Covers, ChangeOrder, Lists
<1> QED BY <1>1, <1>2, <1>3

\* find_user_link returns a list on which the client has a link, or none.
LEMMA FindLinkType ==
    ASSUME NEW m \in Links, NEW order, Covers(order)
    PROVE  \/ FindLink(m, order) = NoList
           \/ FindLink(m, order) \in Lists /\ m[FindLink(m, order)] > 0
<1>1. CASE \E i \in 1..5 : m[order[i]] > 0
  <2> DEFINE P(i) == m[order[i]] > 0 /\ \A j \in 1..(i - 1) : m[order[j]] = 0
             pos == CHOOSE i \in 1..5 : P(i)
  <2>1. \A i \in 1..5 : m[order[i]] \in Nat
    BY DEF Links, Covers
  <2>2. \E i \in 1..5 : P(i)
    BY <1>1, <2>1
  <2>3. pos \in 1..5 /\ P(pos)
    BY <2>2
  <2>4. FindLink(m, order) = order[pos]
    BY <1>1 DEF FindLink
  <2> QED BY <2>3, <2>4 DEF Covers
<1>2. CASE ~\E i \in 1..5 : m[order[i]] > 0
  BY <1>2 DEF FindLink
<1> QED BY <1>1, <1>2

\* The names of the lists differ from NoList.
LEMMA NoListFresh == NoList \notin Lists
BY DEF NoList, Lists

\* Moving a link keeps the links of a client well-typed.
LEMMA MoveLinkType ==
    ASSUME NEW m \in Links, NEW to_list \in Lists
    PROVE  MoveLink(m, to_list) \in Links
<1> DEFINE from == FindLink(m, ChangeOrder)
<1>1. from = NoList \/ (from \in Lists /\ m[from] > 0)
  BY FindLinkType, OrdersCover
<1>2. CASE from = NoList
  BY <1>2 DEF MoveLink
<1>3. CASE from \in Lists /\ m[from] > 0
  <2>1. from # NoList
    BY <1>3, NoListFresh
  <2>2. Unlink(m, from) \in Links
    BY <1>3 DEF Unlink, Links
  <2> HIDE DEF from
  <2>3. [Unlink(m, from) EXCEPT ![to_list] = @ + 1] \in Links
    BY <2>2 DEF Links
  <2> QED BY <2>1, <2>3 DEF MoveLink, from
<1> QED BY <1>1, <1>2, <1>3

\* A status mode moves a client to one of the lists, or nowhere.
LEMMA StatusModeType ==
    ASSUME NEW letter \in {"o", "h", "v"}, NEW m, NEW dir
    PROVE  StatusMode(letter, m, dir) \in Lists \cup {NoList}
BY DEF StatusMode, chm_op, chm_halfop, chm_voice, Lists, NoList

\* The links stay natural numbers under every edit of the member lists.
LEMMA LinksFacts ==
    /\ NoLinks \in Links
    /\ \A m \in Links, l \in Lists : AddLink(m, l) \in Links
    /\ \A m \in Links : Total(m) \in Nat /\ Total(m) - m["chanops_voiced"] \in Nat
    /\ \A m, lm \in Links : Walked(m, lm) \in Nat
    /\ \A m, lm \in Links : DropStatus(m, lm) \in Links
    /\ \A lm \in Links : DropLocalStatus(lm) \in Links
    /\ \A fl : FlagList(fl) \in Lists
<1>1. NoLinks \in Links
  BY DEF NoLinks, Links
<1>2. \A m \in Links, l \in Lists : AddLink(m, l) \in Links
  BY DEF AddLink, Links
<1>3. \A m \in Links :
         Total(m) \in Nat /\ Total(m) - m["chanops_voiced"] \in Nat
  BY DEF Total, Links, Lists
<1>4. \A m, lm \in Links : Walked(m, lm) \in Nat
  BY <1>3 DEF Walked
<1>5. \A m, lm \in Links : DropStatus(m, lm) \in Links
  BY <1>1, <1>3 DEF DropStatus, Links, Lists
<1>6. \A lm \in Links : DropLocalStatus(lm) \in Links
  BY <1>1, <1>3 DEF DropLocalStatus, Links, Lists
<1>7. \A fl : FlagList(fl) \in Lists
  BY DEF FlagList, Lists
<1> QED BY <1>1, <1>2, <1>3, <1>4, <1>5, <1>6, <1>7

---------------------------------------------------------------------------
(* Type correctness.                                                       *)

\* The part of TypeOK that the channel code changes.
ChannelTypeOK ==
    /\ live \subseteq Channels
    /\ mem \in [Channels -> [Clients -> Links]]
    /\ loc \in [Channels -> [Clients -> Links]]
    /\ users \in [Channels -> Nat] /\ locusers \in [Channels -> Nat]
    /\ ts \in [Channels -> Nat]
    /\ inviteonly \in [Channels -> BOOLEAN]
    /\ invites \in [Channels -> SUBSET Clients]
    /\ channel \in [Clients -> SUBSET Channels]
    /\ joined \in [Clients -> Int]
    /\ invited \in [Clients -> SUBSET Channels]

\* destroy_channel leaves every list and counter well-typed.
LEMMA DestroyType ==
    ASSUME TypeOK, NEW c \in Channels,
           NEW m \in [Clients -> Links], NEW lm \in [Clients -> Links],
           NEW chn \in [Clients -> SUBSET Channels],
           NEW jnd \in [Clients -> Int],
           Destroy(c, m, lm, chn, jnd)
    PROVE  ChannelTypeOK'
<1>1. \A u \in Clients : Walked(m[u], lm[u]) \in Nat
  BY LinksFacts
<1>2. [u \in Clients |-> NoLinks] \in [Clients -> Links]
  BY LinksFacts
<1>3. /\ mem' \in [Channels -> [Clients -> Links]]
      /\ loc' \in [Channels -> [Clients -> Links]]
  BY <1>2 DEF Destroy, DestroyInvites, TypeOK
<1>4. /\ live' \subseteq Channels
      /\ users' \in [Channels -> Nat] /\ locusers' \in [Channels -> Nat]
      /\ ts' \in [Channels -> Nat]
      /\ inviteonly' \in [Channels -> BOOLEAN]
      /\ invites' \in [Channels -> SUBSET Clients]
  BY DEF Destroy, DestroyInvites, TypeOK
<1>5. /\ channel' \in [Clients -> SUBSET Channels]
      /\ invited' \in [Clients -> SUBSET Channels]
  BY DEF Destroy, DestroyInvites, TypeOK
<1>6. joined' \in [Clients -> Int]
  BY <1>1 DEF Destroy, DestroyInvites, TypeOK
<1> QED BY <1>3, <1>4, <1>5, <1>6 DEF ChannelTypeOK

\* So does the end of remove_user_from_channel.
LEMMA LeaveType ==
    ASSUME TypeOK, NEW c \in Channels, NEW u \in Clients, NEW perm,
           NEW m \in [Clients -> Links], NEW lm \in [Clients -> Links],
           Leave(c, u, perm, m, lm)
    PROVE  ChannelTypeOK'
<1> DEFINE chn == [channel EXCEPT ![u] = @ \ {c}]
           jnd == [joined EXCEPT ![u] = @ - 1]
<1>1. chn \in [Clients -> SUBSET Channels] /\ jnd \in [Clients -> Int]
  BY DEF TypeOK
<1>2. CASE users[c] <= 1 /\ (perm = 0 \/ StillYoung(c))
  <2>1. Destroy(c, m, lm, chn, jnd)
    BY <1>2 DEF Leave
  <2> HIDE DEF chn, jnd
  <2> QED BY <1>1, <2>1, DestroyType
<1>3. CASE ~(users[c] <= 1 /\ (perm = 0 \/ StillYoung(c)))
  <2>1. /\ mem' = [mem EXCEPT ![c] = m] /\ loc' = [loc EXCEPT ![c] = lm]
        /\ users' = [users EXCEPT ![c] = IF @ <= 1 THEN 0 ELSE @ - 1]
        /\ locusers' = [locusers EXCEPT ![c] =
                          IF u \in Local /\ @ > 0 THEN @ - 1 ELSE @]
        /\ channel' = chn /\ joined' = jnd
        /\ UNCHANGED <<live, ts, inviteonly, invites, invited>>
    BY <1>3 DEF Leave
  <2> HIDE DEF chn, jnd
  <2> QED BY <1>1, <2>1 DEF ChannelTypeOK, TypeOK
<1> QED BY <1>2, <1>3

\* And so does remove_user_from_channel on each of its paths.
LEMMA RemoveType ==
    ASSUME TypeOK, NEW c \in Channels, NEW u \in Clients, NEW perm,
           remove_user_from_channel(c, u, perm)
    PROVE  ChannelTypeOK'
<1> DEFINE g == FindLink(mem[c][u], RemoveOrder)
           l == FindLink(loc[c][u], RemoveLocalOrder)
           m == [mem[c] EXCEPT ![u] = Unlink(@, g)]
           lm == IF u \in Local THEN [loc[c] EXCEPT ![u] = Unlink(@, l)]
                                ELSE loc[c]
<1>1. mem[c][u] \in Links /\ loc[c][u] \in Links
  BY DEF TypeOK
<1>2. g = NoList \/ (g \in Lists /\ mem[c][u][g] > 0)
  BY <1>1, FindLinkType, OrdersCover
<1>3. l = NoList \/ (l \in Lists /\ loc[c][u][l] > 0)
  BY <1>1, FindLinkType, OrdersCover
<1>4. \/ UNCHANGED <<chanvars, channel, joined, invited>>
      \/ /\ g # NoList /\ mem' = [mem EXCEPT ![c] = m]
         /\ UNCHANGED <<live, loc, users, locusers, ts, inviteonly,
                        invites, channel, joined, invited>>
      \/ /\ g # NoList /\ (u \in Local => l # NoList)
         /\ Leave(c, u, perm, m, lm)
  BY Zenon DEF remove_user_from_channel
<1> HIDE DEF g, l
<1>5. CASE UNCHANGED <<chanvars, channel, joined, invited>>
  BY <1>5 DEF ChannelTypeOK, TypeOK, chanvars
<1>6. ASSUME g # NoList PROVE m \in [Clients -> Links]
  <2>1. Unlink(mem[c][u], g) \in Links
    BY <1>1, <1>2, <1>6 DEF Unlink, Links
  <2> QED BY <2>1 DEF TypeOK
<1>7. CASE /\ g # NoList /\ mem' = [mem EXCEPT ![c] = m]
           /\ UNCHANGED <<live, loc, users, locusers, ts, inviteonly,
                          invites, channel, joined, invited>>
  BY <1>6, <1>7 DEF ChannelTypeOK, TypeOK
<1>8. CASE /\ g # NoList /\ (u \in Local => l # NoList)
           /\ Leave(c, u, perm, m, lm)
  <2>1. lm \in [Clients -> Links]
    <3>1. CASE u \in Local
      <4>1. Unlink(loc[c][u], l) \in Links
        BY <1>1, <1>3, <1>8, <3>1 DEF Unlink, Links
      <4> QED BY <3>1, <4>1 DEF TypeOK
    <3>2. CASE u \notin Local
      BY <3>2 DEF TypeOK
    <3> QED BY <3>1, <3>2
  <2> HIDE DEF m, lm
  <2> QED BY <1>6, <1>8, <2>1, LeaveType
<1> QED BY <1>4, <1>5, <1>7, <1>8

\* Type correctness is inductive: every handler and every iteration of a loop
\* preserves it.
LEMMA TypeStep == TypeOK /\ [Next]_vars => TypeOK'
<1> SUFFICES ASSUME TypeOK, [Next]_vars PROVE TypeOK'
  OBVIOUS
<1>1. ASSUME ChannelTypeOK', UNCHANGED <<online, now, op, who>>,
             todo' \subseteq Channels
      PROVE  TypeOK'
  BY <1>1 DEF ChannelTypeOK, TypeOK
<1>2. ASSUME NEW u \in Clients, NEW c \in Channels, ExitChannel(u, c)
      PROVE  TypeOK'
  <2>1. ChannelTypeOK'
    BY <1>2, RemoveType DEF ExitChannel
  <2> QED BY <1>1, <1>2, <2>1 DEF ExitChannel, TypeOK
<1>3. ASSUME NEW u \in Clients, FinishExit(u) PROVE TypeOK'
  BY <1>3 DEF FinishExit, TypeOK
<1>4. ASSUME NEW u \in Clients, NEW c \in Channels, JoinZeroChannel(u, c)
      PROVE  TypeOK'
  <2>1. ChannelTypeOK'
    BY <1>4, RemoveType DEF JoinZeroChannel
  <2> QED BY <1>1, <1>4, <2>1 DEF JoinZeroChannel, TypeOK, loopvars
<1>5. ASSUME NEW u \in Clients, FinishJoinZero(u) PROVE TypeOK'
  BY <1>5 DEF FinishJoinZero, TypeOK, chanvars, uservars
<1>6. ASSUME NEW c \in Channels, CleanupChannel(c) PROVE TypeOK'
  <2>1. CASE users[c] = 0 /\ StillYoung(c)
    <3>1. mem[c] \in [Clients -> Links] /\ loc[c] \in [Clients -> Links]
      BY DEF TypeOK
    <3>2. ChannelTypeOK'
      BY <1>6, <2>1, <3>1, DestroyType DEF CleanupChannel, TypeOK
    <3> QED BY <1>1, <1>6, <3>2 DEF CleanupChannel, TypeOK
  <2>2. CASE ~(users[c] = 0 /\ StillYoung(c))
    BY <1>6, <2>2 DEF CleanupChannel, TypeOK, chanvars
  <2> QED BY <2>1, <2>2
<1>7. ASSUME FinishCleanup PROVE TypeOK'
  BY <1>7 DEF FinishCleanup, TypeOK, chanvars, uservars
<1>8. ASSUME NEW u \in Clients, Connect(u) \/ StartExit(u) \/ StartJoinZero(u)
      PROVE  TypeOK'
  BY <1>8 DEF Connect, StartExit, StartJoinZero, TypeOK, chanvars, uservars,
              loopvars
<1>9. ASSUME NEW u \in Clients, NEW c \in Channels, Join(u, c) PROVE TypeOK'
  <2> DEFINE l == IF users[c] = 0 THEN "chanops" ELSE "peons"
  <2>1. mem[c][u] \in Links /\ loc[c][u] \in Links /\ l \in Lists
    BY DEF TypeOK, Lists
  <2>2. AddLink(mem[c][u], l) \in Links /\ AddLink(loc[c][u], l) \in Links
    BY <2>1, LinksFacts
  <2>3. /\ mem' = [mem EXCEPT ![c][u] = AddLink(@, l)]
        /\ loc' = [loc EXCEPT ![c][u] = AddLink(@, l)]
        /\ ts' = [ts EXCEPT ![c] = IF users[c] = 0 THEN now ELSE @]
    BY <1>9 DEF Join, MayJoin, del_invite
  <2> HIDE DEF l
  <2>4. /\ mem' \in [Channels -> [Clients -> Links]]
        /\ loc' \in [Channels -> [Clients -> Links]]
    BY <2>2, <2>3 DEF TypeOK
  <2>5. ts' \in [Channels -> Nat]
    BY <2>3 DEF TypeOK
  <2>6. /\ live' \subseteq Channels
        /\ users' \in [Channels -> Nat] /\ locusers' \in [Channels -> Nat]
        /\ invites' \in [Channels -> SUBSET Clients]
        /\ channel' \in [Clients -> SUBSET Channels]
        /\ joined' \in [Clients -> Int]
        /\ invited' \in [Clients -> SUBSET Channels]
        /\ UNCHANGED <<inviteonly, online, now, op, who, todo>>
    BY <1>9 DEF Join, MayJoin, del_invite, TypeOK, loopvars
  <2> QED BY <2>4, <2>5, <2>6 DEF TypeOK
<1>10. ASSUME NEW u \in Clients, NEW c \in Channels, Part(u, c) PROVE TypeOK'
  <2>1. ChannelTypeOK'
    BY <1>10, RemoveType DEF Part
  <2> QED BY <1>1, <1>10, <2>1 DEF Part, TypeOK, loopvars
<1>11. ASSUME NEW src \in Clients \cup {Peer}, NEW u \in Clients,
              NEW c \in Channels, Kick(src, u, c)
       PROVE  TypeOK'
  <2>1. ChannelTypeOK'
    BY <1>11, RemoveType DEF Kick
  <2> QED BY <1>1, <1>11, <2>1 DEF Kick, TypeOK, loopvars
<1>12. ASSUME NEW src \in Clients, NEW u \in Clients, NEW c \in Channels,
              Invite(src, u, c)
       PROVE  TypeOK'
  BY <1>12 DEF Invite, TypeOK, loopvars
<1>13. ASSUME NEW src \in Clients \cup {Peer}, NEW u \in Clients,
              NEW c \in Channels, NEW letter \in ModeLetters,
              NEW dir \in Directions, StatusChange(src, c, u, letter, dir)
       PROVE  TypeOK'
  <2> DEFINE to == StatusMode(letter, mem[c][u], dir)
  <2>1. to \in Lists
    BY <1>13, StatusModeType, ModesAssumption DEF StatusChange
  <2>2. mem[c][u] \in Links /\ loc[c][u] \in Links
    BY DEF TypeOK
  <2>3. /\ mem' = [mem EXCEPT ![c][u] = MoveLink(@, to)]
        /\ \/ loc' = loc
           \/ loc' = [loc EXCEPT ![c][u] = MoveLink(@, to)]
        /\ UNCHANGED <<live, users, locusers, ts, inviteonly, invites, online,
                       channel, joined, invited, now, op, who, todo>>
    BY <1>13 DEF StatusChange, uservars, loopvars
  <2> HIDE DEF to
  <2>4. MoveLink(mem[c][u], to) \in Links /\ MoveLink(loc[c][u], to) \in Links
    BY <2>1, <2>2, MoveLinkType
  <2>5. mem' \in [Channels -> [Clients -> Links]]
    BY <2>3, <2>4 DEF TypeOK
  <2>6. [loc EXCEPT ![c][u] = MoveLink(@, to)] \in [Channels -> [Clients -> Links]]
    BY <2>4 DEF TypeOK
  <2>7. loc' \in [Channels -> [Clients -> Links]]
    BY <2>3, <2>6 DEF TypeOK
  <2> QED BY <2>3, <2>5, <2>7 DEF TypeOK
<1>14. ASSUME NEW src \in Clients \cup {Peer}, NEW c \in Channels,
              InviteOnlyChange(src, c)
       PROVE  TypeOK'
  BY <1>14 DEF InviteOnlyChange, TypeOK, uservars, loopvars
<1>15. ASSUME NEW c \in Channels, NEW newts \in OfferedTS,
              NEW newi \in BOOLEAN,
              NEW nicks \in [Clients -> Prefixes \cup {"absent"}],
              Sjoin(c, newts, nicks, newi)
       PROVE  TypeOK'
  <2> DEFINE named == \E u \in Clients : nicks[u] # "absent"
             r == SjoinTS(c \notin live, users[c], named, newts, ts[c])
             J == Joining(c, nicks)
             base(u) == IF r.our THEN mem[c][u]
                                 ELSE DropStatus(mem[c][u], loc[c][u])
             lbase(u) == IF r.our THEN loc[c][u]
                                  ELSE DropLocalStatus(loc[c][u])
             list(u) == IF r.new THEN FlagList(nicks[u]) ELSE "peons"
  <2>1. r.ts \in Nat /\ r.our \in BOOLEAN /\ r.new \in BOOLEAN
    BY NumbersAssumption DEF SjoinTS, TypeOK
  <2>2. J \subseteq Clients /\ Cardinality(J) \in Nat
    <3>1. J \subseteq Clients
      BY DEF Joining, TypeOK
    <3> QED BY <3>1, ClientsAssumption, FS_Subset, FS_CardinalityType
  <2>3. \A u \in Clients : base(u) \in Links /\ lbase(u) \in Links
    <3>1. \A u \in Clients : mem[c][u] \in Links /\ loc[c][u] \in Links
      BY DEF TypeOK
    <3>2. \A u \in Clients : /\ DropStatus(mem[c][u], loc[c][u]) \in Links
                             /\ DropLocalStatus(loc[c][u]) \in Links
      BY <3>1, LinksFacts
    <3> QED BY <3>1, <3>2
  <2>4. \A u \in Clients : list(u) \in Lists
    BY <2>1, LinksFacts DEF Lists
  <2>5. /\ live' = live \cup {c}
        /\ ts' = [ts EXCEPT ![c] = r.ts]
        /\ inviteonly' = [inviteonly EXCEPT ![c] =
                            (r.new /\ newi) \/ (r.our /\ @)]
        /\ mem' = [mem EXCEPT ![c] = [u \in Clients |->
                     IF u \in J THEN AddLink(base(u), list(u)) ELSE base(u)]]
        /\ loc' = [loc EXCEPT ![c] = [u \in Clients |-> lbase(u)]]
        /\ users' = [users EXCEPT ![c] = @ + Cardinality(J)]
        /\ channel' = [u \in Clients |->
                         IF u \in J THEN channel[u] \cup {c} ELSE channel[u]]
        /\ joined' = [u \in Clients |->
                        IF u \in J THEN joined[u] + 1 ELSE joined[u]]
        /\ UNCHANGED <<locusers, invites, online, invited, now, op, who, todo>>
    BY <1>15 DEF Sjoin, loopvars
  <2> HIDE DEF r, J, base, lbase, list
  <2>6. \A u \in Clients : AddLink(base(u), list(u)) \in Links
    BY <2>3, <2>4, LinksFacts
  <2>7. mem' \in [Channels -> [Clients -> Links]]
    BY <2>3, <2>5, <2>6 DEF TypeOK
  <2>8. loc' \in [Channels -> [Clients -> Links]]
    BY <2>3, <2>5 DEF TypeOK
  <2>9. users' \in [Channels -> Nat] /\ ts' \in [Channels -> Nat]
    BY <2>1, <2>2, <2>5 DEF TypeOK
  <2>10. inviteonly' \in [Channels -> BOOLEAN]
    BY <2>5 DEF TypeOK
  <2>11. channel' \in [Clients -> SUBSET Channels] /\ joined' \in [Clients -> Int]
    BY <2>5 DEF TypeOK
  <2> QED BY <2>5, <2>7, <2>8, <2>9, <2>10, <2>11 DEF TypeOK
<1>16. ASSUME Tick \/ StartCleanup PROVE TypeOK'
  BY <1>16, NumbersAssumption
     DEF Tick, StartCleanup, TypeOK, chanvars, uservars, loopvars
<1>17. CASE UNCHANGED vars
  BY <1>17 DEF TypeOK, vars
<1> QED
  BY <1>2, <1>3, <1>4, <1>5, <1>6, <1>7, <1>8, <1>9, <1>10, <1>11, <1>12,
     <1>13, <1>14, <1>15, <1>16, <1>17 DEF Next, Loop

\* The variables always have their types: counters never go negative and no
\* list ever holds a client or a channel the server has no block for.
THEOREM TypeCorrect == Spec => []TypeOK
<1>1. Init => TypeOK
  BY LinksFacts, NumbersAssumption DEF Init, TypeOK
<1>2. TypeOK /\ [Next]_vars => TypeOK'
  BY TypeStep
<1> QED BY <1>1, <1>2, PTL DEF Spec

---------------------------------------------------------------------------
(* The timestamp of an occupied channel.                                   *)

\* A channel that does not exist has no users.
DeadEmpty == \A c \in Channels \ live : users[c] = 0

\* Steps that neither count anybody in nor give a channel another timestamp,
\* unless it is destroyed.
Quiet == \A d \in Channels : users'[d] <= users[d] /\ ts'[d] \in {0, ts[d]}

\* What the removal of a client does to timestamps and counts: nothing but
\* lower them.
LEMMA RemoveTS ==
    ASSUME TypeOK, DeadEmpty, NEW c \in Channels, NEW u \in Clients, NEW perm,
           remove_user_from_channel(c, u, perm)
    PROVE  /\ DeadEmpty' /\ Quiet
           /\ \A d \in Channels : users'[d] > 0 => ts'[d] = ts[d]
<1> DEFINE Shrinks == /\ live' \in {live, live \ {c}}
                      /\ \A d \in Channels \ {c} : users'[d] = users[d] /\ ts'[d] = ts[d]
                      /\ live' # live => users'[c] = 0
                      /\ users'[c] <= users[c] /\ users'[c] \in Nat
                      /\ users'[c] > 0 => ts'[c] = ts[c]
                      /\ ts'[c] \in {0, ts[c]}
<1>1. ASSUME NEW m, NEW lm, Leave(c, u, perm, m, lm) PROVE Shrinks
  <2>1. CASE users[c] <= 1 /\ (perm = 0 \/ StillYoung(c))
    BY <1>1, <2>1 DEF Leave, Destroy, DestroyInvites, TypeOK
  <2>2. CASE ~(users[c] <= 1 /\ (perm = 0 \/ StillYoung(c)))
    <3>1. /\ users' = [users EXCEPT ![c] = IF @ <= 1 THEN 0 ELSE @ - 1]
          /\ live' = live /\ ts' = ts
      BY <1>1, <2>2 DEF Leave
    <3> QED BY <3>1 DEF TypeOK
  <2> QED BY <2>1, <2>2
<1>2. Shrinks
  <2>1. \/ UNCHANGED <<live, users, ts>>
        \/ \E m, lm : Leave(c, u, perm, m, lm)
    <3> DEFINE g == FindLink(mem[c][u], RemoveOrder)
               l == FindLink(loc[c][u], RemoveLocalOrder)
               m == [mem[c] EXCEPT ![u] = Unlink(@, g)]
               lm == IF u \in Local THEN [loc[c] EXCEPT ![u] = Unlink(@, l)]
                                    ELSE loc[c]
    <3>1. CASE g = NoList
      BY <3>1 DEF remove_user_from_channel, chanvars
    <3>2. CASE g # NoList /\ u \in Local /\ l = NoList
      BY <3>2 DEF remove_user_from_channel
    <3>3. CASE g # NoList /\ ~(u \in Local /\ l = NoList)
      <4>1. Leave(c, u, perm, m, lm)
        BY <3>3, Zenon DEF remove_user_from_channel
      <4> QED BY <4>1, Zenon
    <3> QED BY <3>1, <3>2, <3>3
  <2>2. CASE UNCHANGED <<live, users, ts>>
    BY <2>2 DEF TypeOK
  <2> QED BY <1>1, <2>1, <2>2
<1> QED BY <1>2 DEF DeadEmpty, Quiet, TypeOK

\* Every step keeps dead channels empty and lets the timestamp of an occupied
\* channel only fall.
LEMMA TimestampStep ==
    ASSUME TypeOK, DeadEmpty, [Next]_vars
    PROVE  /\ DeadEmpty'
           /\ \A c \in Channels :
                 users[c] > 0 /\ users'[c] > 0 => ts'[c] <= ts[c]
<1> DEFINE Goal == /\ DeadEmpty'
                   /\ \A c \in Channels :
                         users[c] > 0 /\ users'[c] > 0 => ts'[c] <= ts[c]
<1>1. ASSUME UNCHANGED <<live, users, ts>> PROVE Goal
  BY <1>1 DEF DeadEmpty, TypeOK
<1>2. ASSUME NEW c \in Channels, NEW u \in Clients, NEW perm,
             remove_user_from_channel(c, u, perm)
      PROVE  Goal
  BY <1>2, RemoveTS DEF TypeOK
<1>3. ASSUME NEW c \in Channels, CleanupChannel(c) PROVE Goal
  <2>1. CASE users[c] = 0 /\ StillYoung(c)
    <3>1. /\ live' = live \ {c}
          /\ users' = [users EXCEPT ![c] = 0]
          /\ ts' = [ts EXCEPT ![c] = 0]
      BY <1>3, <2>1 DEF CleanupChannel, Destroy, DestroyInvites
    <3> QED BY <3>1 DEF DeadEmpty, TypeOK
  <2>2. CASE ~(users[c] = 0 /\ StillYoung(c))
    BY <1>1, <1>3, <2>2 DEF CleanupChannel, chanvars
  <2> QED BY <2>1, <2>2
<1>4. ASSUME NEW u \in Clients, NEW c \in Channels, Join(u, c) PROVE Goal
  <2>1. /\ live' = live \cup {c}
        /\ users' = [users EXCEPT ![c] = @ + 1]
        /\ ts' = [ts EXCEPT ![c] = IF users[c] = 0 THEN now ELSE @]
    BY <1>4 DEF Join, MayJoin, del_invite
  <2> QED BY <2>1 DEF DeadEmpty, TypeOK
<1>5. ASSUME NEW c \in Channels, NEW newts \in OfferedTS,
             NEW newi \in BOOLEAN,
             NEW nicks \in [Clients -> Prefixes \cup {"absent"}],
             Sjoin(c, newts, nicks, newi)
      PROVE  Goal
  <2> DEFINE named == \E u \in Clients : nicks[u] # "absent"
             r == SjoinTS(c \notin live, users[c], named, newts, ts[c])
  <2>1. /\ live' = live \cup {c}
        /\ ts' = [ts EXCEPT ![c] = r.ts]
        /\ users' = [users EXCEPT ![c] = @ + Cardinality(Joining(c, nicks))]
    BY <1>5 DEF Sjoin
  <2>2. users[c] > 0 => c \in live
    BY DEF DeadEmpty, TypeOK
  <2>3. users[c] > 0 => r.ts <= ts[c]
    BY <2>2, NumbersAssumption DEF SjoinTS, TypeOK
  <2> HIDE DEF r
  <2> QED BY <2>1, <2>3 DEF DeadEmpty, TypeOK
<1>6. ASSUME NEW u \in Clients,
             Connect(u) \/ StartExit(u) \/ StartJoinZero(u) \/ FinishExit(u)
               \/ FinishJoinZero(u)
      PROVE  Goal
  BY <1>1, <1>6 DEF Connect, StartExit, StartJoinZero, FinishExit,
                    FinishJoinZero, chanvars
<1>7. ASSUME NEW src \in Clients \cup {Peer}, NEW u \in Clients,
             NEW c \in Channels, NEW letter \in ModeLetters,
             NEW dir \in Directions, StatusChange(src, c, u, letter, dir)
      PROVE  Goal
  BY <1>1, <1>7 DEF StatusChange
<1>8. ASSUME NEW src \in Clients \cup {Peer}, NEW c \in Channels,
             InviteOnlyChange(src, c)
      PROVE  Goal
  BY <1>1, <1>8 DEF InviteOnlyChange
<1>9. ASSUME NEW src \in Clients, NEW u \in Clients, NEW c \in Channels,
             Invite(src, u, c)
      PROVE  Goal
  BY <1>1, <1>9 DEF Invite
<1>10. ASSUME FinishCleanup \/ Tick \/ StartCleanup PROVE Goal
  BY <1>1, <1>10 DEF FinishCleanup, Tick, StartCleanup, chanvars
<1>11. CASE UNCHANGED vars
  BY <1>1, <1>11 DEF vars
<1>12. ASSUME NEW u \in Clients, NEW c \in Channels,
              ExitChannel(u, c) \/ JoinZeroChannel(u, c) \/ Part(u, c)
       PROVE  Goal
  BY <1>2, <1>12 DEF ExitChannel, JoinZeroChannel, Part
<1>13. ASSUME NEW src \in Clients \cup {Peer}, NEW u \in Clients,
              NEW c \in Channels, Kick(src, u, c)
       PROVE  Goal
  BY <1>2, <1>13 DEF Kick
<1>14. CASE Loop
  BY <1>3, <1>6, <1>10, <1>12, <1>14 DEF Loop
<1>15. CASE Next /\ ~Loop
  BY <1>4, <1>5, <1>6, <1>7, <1>8, <1>9, <1>10, <1>12, <1>13, <1>15 DEF Next
<1> QED BY <1>11, <1>14, <1>15

\* While a channel has members, no handler raises its timestamp: SJOIN either
\* keeps it or lowers it, and JOIN sets it only on an empty channel.
THEOREM TimestampMonotone == Spec => TimestampNeverGrows
<1>1. Init => DeadEmpty
  BY DEF Init, DeadEmpty
<1>2. TypeOK /\ DeadEmpty /\ [Next]_vars => DeadEmpty'
  BY TimestampStep
<1>3. TypeOK /\ DeadEmpty /\ [Next]_vars =>
        [\A c \in Channels :
            users[c] > 0 /\ users'[c] > 0 => ts'[c] <= ts[c]]_vars
  BY TimestampStep
<1> QED BY <1>1, <1>2, <1>3, TypeCorrect, PTL DEF Spec, TimestampNeverGrows

---------------------------------------------------------------------------
(* Who keeps status in a TS comparison.                                    *)

\* Only a join counts anybody in, and only a join or an SJOIN gives a channel
\* another timestamp while it exists.
LEMMA QuietStep ==
    ASSUME TypeOK, DeadEmpty, [Next]_vars
    PROVE  \/ Quiet
           \/ \E u \in Clients, c \in Channels : Join(u, c)
           \/ \E c \in Channels, newts \in OfferedTS, newi \in BOOLEAN,
                 nicks \in [Clients -> Prefixes \cup {"absent"}] :
                 Sjoin(c, newts, nicks, newi)
<1>1. ASSUME UNCHANGED <<users, ts>> PROVE Quiet
  BY <1>1 DEF Quiet, TypeOK
<1>2. ASSUME NEW u \in Clients, NEW c \in Channels,
             ExitChannel(u, c) \/ JoinZeroChannel(u, c) \/ Part(u, c)
      PROVE  Quiet
  BY <1>2, RemoveTS DEF ExitChannel, JoinZeroChannel, Part
<1>3. ASSUME NEW src \in Clients \cup {Peer}, NEW u \in Clients,
             NEW c \in Channels, Kick(src, u, c)
      PROVE  Quiet
  BY <1>3, RemoveTS DEF Kick
<1>4. ASSUME NEW c \in Channels, CleanupChannel(c) PROVE Quiet
  <2>1. CASE users[c] = 0 /\ StillYoung(c)
    <3>1. users' = [users EXCEPT ![c] = 0] /\ ts' = [ts EXCEPT ![c] = 0]
      BY <1>4, <2>1 DEF CleanupChannel, Destroy, DestroyInvites
    <3> QED BY <3>1 DEF Quiet, TypeOK
  <2>2. CASE ~(users[c] = 0 /\ StillYoung(c))
    BY <1>1, <1>4, <2>2 DEF CleanupChannel, chanvars
  <2> QED BY <2>1, <2>2
<1>5. ASSUME NEW u \in Clients,
             Connect(u) \/ StartExit(u) \/ StartJoinZero(u) \/ FinishExit(u)
               \/ FinishJoinZero(u)
      PROVE  Quiet
  BY <1>1, <1>5 DEF Connect, StartExit, StartJoinZero, FinishExit,
                    FinishJoinZero, chanvars
<1>6. ASSUME NEW src \in Clients \cup {Peer}, NEW u \in Clients,
             NEW c \in Channels, NEW letter \in ModeLetters,
             NEW dir \in Directions, StatusChange(src, c, u, letter, dir)
      PROVE  Quiet
  BY <1>1, <1>6 DEF StatusChange
<1>7. ASSUME NEW src \in Clients \cup {Peer}, NEW c \in Channels,
             InviteOnlyChange(src, c)
      PROVE  Quiet
  BY <1>1, <1>7 DEF InviteOnlyChange
<1>8. ASSUME NEW src \in Clients, NEW u \in Clients, NEW c \in Channels,
             Invite(src, u, c)
      PROVE  Quiet
  BY <1>1, <1>8 DEF Invite
<1>9. ASSUME FinishCleanup \/ Tick \/ StartCleanup PROVE Quiet
  BY <1>1, <1>9 DEF FinishCleanup, Tick, StartCleanup, chanvars
<1>10. CASE UNCHANGED vars
  BY <1>1, <1>10 DEF vars
<1>11. CASE Loop
  BY <1>2, <1>4, <1>5, <1>9, <1>11 DEF Loop
<1>12. CASE Next /\ ~Loop
  BY <1>2, <1>3, <1>5, <1>6, <1>7, <1>8, <1>9, <1>12 DEF Next
<1> QED BY <1>10, <1>11, <1>12

\* A join leaves the timestamp and the members of an occupied channel alone.
LEMMA JoinLeavesMembers ==
    ASSUME TypeOK, NEW u \in Clients, NEW c \in Channels, Join(u, c),
           NEW d \in Channels, users[d] > 0, NEW v \in Clients, IsMember(v, d)
    PROVE  ts'[d] = ts[d] /\ mem'[d][v] = mem[d][v] /\ loc'[d][v] = loc[d][v]
<1> DEFINE l == IF users[c] = 0 THEN "chanops" ELSE "peons"
<1>1. /\ ~IsMember(u, c)
      /\ mem' = [mem EXCEPT ![c][u] = AddLink(@, l)]
      /\ loc' = [loc EXCEPT ![c][u] = AddLink(@, l)]
      /\ ts' = [ts EXCEPT ![c] = IF users[c] = 0 THEN now ELSE @]
  BY DEF Join, MayJoin, del_invite
<1> HIDE DEF l
<1>2. ~(d = c /\ v = u)
  BY <1>1
<1> QED BY <1>1, <1>2 DEF TypeOK

\* An SJOIN with an older timestamp takes the status of every member; any other
\* SJOIN leaves the members as they are.
LEMMA SjoinStatus ==
    ASSUME TypeOK, DeadEmpty, NEW c \in Channels, NEW newts \in OfferedTS,
           NEW newi \in BOOLEAN,
           NEW nicks \in [Clients -> Prefixes \cup {"absent"}],
           Sjoin(c, newts, nicks, newi),
           NEW d \in Channels, users[d] > 0, NEW v \in Clients, IsMember(v, d)
    PROVE  IF 0 < ts'[d] /\ ts'[d] < ts[d]
             THEN \A l \in Lists \ {"peons"} :
                     mem'[d][v][l] = 0 /\ loc'[d][v][l] = 0
             ELSE mem'[d][v] = mem[d][v] /\ loc'[d][v] = loc[d][v]
<1> DEFINE named == \E u \in Clients : nicks[u] # "absent"
           r == SjoinTS(c \notin live, users[c], named, newts, ts[c])
           J == Joining(c, nicks)
           base(u) == IF r.our THEN mem[c][u]
                               ELSE DropStatus(mem[c][u], loc[c][u])
           lbase(u) == IF r.our THEN loc[c][u] ELSE DropLocalStatus(loc[c][u])
           list(u) == IF r.new THEN FlagList(nicks[u]) ELSE "peons"
           m == [u \in Clients |->
                   IF u \in J THEN AddLink(base(u), list(u)) ELSE base(u)]
           lm == [u \in Clients |-> lbase(u)]
<1>1. /\ mem' = [mem EXCEPT ![c] = m] /\ loc' = [loc EXCEPT ![c] = lm]
      /\ ts' = [ts EXCEPT ![c] = r.ts]
  BY DEF Sjoin
<1>2. CASE d # c
  BY <1>1, <1>2 DEF TypeOK
<1>3. CASE d = c
  <2>1. c \in live /\ users[c] > 0 /\ ts[c] \in Nat /\ newts \in Nat
    BY <1>3, NumbersAssumption DEF DeadEmpty, TypeOK
  <2>2. r.our <=> ~(0 < r.ts /\ r.ts < ts[c])
    BY <2>1 DEF SjoinTS
  <2>3. v \notin J
    BY <1>3 DEF Joining
  <2> HIDE DEF r, J
  <2>4. /\ mem'[d][v] = base(v) /\ loc'[d][v] = lbase(v)
        /\ ts'[d] = r.ts
    BY <1>1, <1>3, <2>3 DEF TypeOK
  <2>5. \A l \in Lists \ {"peons"} :
           /\ DropStatus(mem[c][v], loc[c][v])[l] = 0
           /\ DropLocalStatus(loc[c][v])[l] = 0
    BY DEF DropStatus, DropLocalStatus, NoLinks
  <2> QED BY <1>3, <2>2, <2>4, <2>5
<1> QED BY <1>2, <1>3

\* Whoever loses a TS comparison loses it for all its members: no way of
\* lowering the timestamp of an occupied channel leaves anybody with status.
THEOREM LosersDropped == Spec => LoserLosesStatus
<1>1. Init => DeadEmpty
  BY DEF Init, DeadEmpty
<1>2. TypeOK /\ DeadEmpty /\ [Next]_vars => DeadEmpty'
  BY TimestampStep
<1>3. TypeOK /\ DeadEmpty /\ [Next]_vars =>
        [\A c \in Channels, u \in Clients :
           (/\ users[c] > 0 /\ 0 < ts'[c] /\ ts'[c] < ts[c]
            /\ IsMember(u, c)) =>
              /\ \A l \in Lists \ {"peons"} : mem'[c][u][l] = 0
              /\ \A l \in Lists \ {"peons"} : loc'[c][u][l] = 0]_vars
  <2> SUFFICES ASSUME TypeOK, DeadEmpty, [Next]_vars,
                      NEW c \in Channels, NEW u \in Clients,
                      users[c] > 0, 0 < ts'[c], ts'[c] < ts[c], IsMember(u, c)
               PROVE  \A l \in Lists \ {"peons"} :
                         mem'[c][u][l] = 0 /\ loc'[c][u][l] = 0
    OBVIOUS
  <2>1. ~Quiet
    BY SMTT(30) DEF Quiet, TypeOK
  <2>2. ~\E v \in Clients, d \in Channels : Join(v, d)
    BY JoinLeavesMembers DEF TypeOK
  <2> QED BY <2>1, <2>2, QuietStep, SjoinStatus
<1> QED BY <1>1, <1>2, <1>3, TypeCorrect, PTL DEF Spec, LoserLosesStatus

\* Whoever wins or draws one keeps what its members had: an SJOIN that adds
\* members to an occupied channel without lowering its timestamp moves nobody.
THEOREM WinnersKept == Spec => WinnerKeepsStatus
<1>1. Init => DeadEmpty
  BY DEF Init, DeadEmpty
<1>2. TypeOK /\ DeadEmpty /\ [Next]_vars => DeadEmpty'
  BY TimestampStep
<1>3. TypeOK /\ DeadEmpty /\ [Next]_vars =>
        [\A c \in Channels, u \in Clients :
           (/\ users'[c] > users[c] /\ users[c] > 0
            /\ ts'[c] \in {0, ts[c]} /\ IsMember(u, c)) =>
              mem'[c][u] = mem[c][u] /\ loc'[c][u] = loc[c][u]]_vars
  <2> SUFFICES ASSUME TypeOK, DeadEmpty, [Next]_vars,
                      NEW c \in Channels, NEW u \in Clients,
                      users'[c] > users[c], users[c] > 0,
                      ts'[c] \in {0, ts[c]}, IsMember(u, c)
               PROVE  mem'[c][u] = mem[c][u] /\ loc'[c][u] = loc[c][u]
    OBVIOUS
  <2>1. ~Quiet
    BY TypeStep DEF Quiet, TypeOK
  <2>2. ~(0 < ts'[c] /\ ts'[c] < ts[c])
    BY DEF TypeOK
  <2>3. ASSUME NEW v \in Clients, NEW d \in Channels, Join(v, d)
        PROVE  mem'[c][u] = mem[c][u] /\ loc'[c][u] = loc[c][u]
    BY <2>3, JoinLeavesMembers
  <2> QED BY <2>1, <2>2, <2>3, QuietStep, SjoinStatus
<1> QED BY <1>1, <1>2, <1>3, TypeCorrect, PTL DEF Spec, WinnerKeepsStatus

---------------------------------------------------------------------------
(* Integrity of the member lists.                                          *)

\* No client is ever voiced here: no MODE +v, and no + before a nick in SJOIN.
\* Only then are the two chanops_voiced lists, which remove_our_modes and
\* destroy_channel mistreat, empty.
NoVoice == "v" \notin ModeLetters /\ "+" \notin Prefixes

NobodyVoiced ==
    \A c \in Channels, u \in Clients :
        mem[c][u]["voiced"] = 0 /\ mem[c][u]["chanops_voiced"] = 0

\* The loop of exit_one_client visits exactly the channels the client is on.
ExitVisitsAll == op = "exit" => \A u \in who : channel[u] = todo

\* What single links look like after each edit.
LEMMA LinkFacts ==
    /\ \A l \in Lists : Link(l) \in Links /\ Link(l) # NoLinks
    /\ \A l \in Lists, k \in Lists : Link(l)[k] = IF k = l THEN 1 ELSE 0
    /\ \A k \in Lists : NoLinks[k] = 0
    /\ \A l \in Lists : Unlink(Link(l), l) = NoLinks /\ AddLink(NoLinks, l) = Link(l)
    /\ \A l \in Lists : Total(Link(l)) = 1
    /\ Total(NoLinks) = 0
<1>1. \A l \in Lists, k \in Lists : Link(l)[k] = IF k = l THEN 1 ELSE 0
  BY DEF Link, NoLinks
<1>2. \A k \in Lists : NoLinks[k] = 0
  BY DEF NoLinks
<1>3. \A l \in Lists : Link(l) \in Links
  BY DEF Link, NoLinks, Links
<1>4. \A l \in Lists : Link(l) # NoLinks
  <2> TAKE l \in Lists
  <2>1. Link(l)[l] = 1 /\ NoLinks[l] = 0
    BY <1>1, <1>2
  <2> QED BY <2>1
<1>5. \A l \in Lists : Unlink(Link(l), l) = NoLinks
  <2> TAKE l \in Lists
  <2>1. Unlink(Link(l), l) = [k \in Lists |-> IF k = l THEN 0 ELSE Link(l)[k]]
    BY <1>1, <1>3 DEF Unlink, Links
  <2> QED BY <1>1, <2>1 DEF NoLinks
<1>6. \A l \in Lists : AddLink(NoLinks, l) = Link(l)
  BY DEF AddLink, Link, NoLinks
<1>7. \A l \in Lists : Total(Link(l)) = 1
  BY <1>1 DEF Total, Lists
<1>8. Total(NoLinks) = 0
  BY <1>2 DEF Total, Lists
<1> QED BY <1>1, <1>2, <1>3, <1>4, <1>5, <1>6, <1>7, <1>8

\* find_user_link finds the only link there is.
LEMMA FindOnlyLink ==
    ASSUME NEW l \in Lists, NEW order, Covers(order)
    PROVE  FindLink(Link(l), order) = l
<1>1. Link(l) \in Links
  BY LinkFacts
<1>2. \/ FindLink(Link(l), order) = NoList
      \/ /\ FindLink(Link(l), order) \in Lists
         /\ Link(l)[FindLink(Link(l), order)] > 0
  BY <1>1, FindLinkType
<1>3. FindLink(Link(l), order) # NoList
  <2>1. PICK i \in 1..5 : order[i] = l
    BY DEF Covers
  <2>2. Link(l)[order[i]] > 0
    BY <2>1, LinkFacts
  <2> DEFINE P(j) == /\ Link(l)[order[j]] > 0
                     /\ \A k \in 1..(j - 1) : Link(l)[order[k]] = 0
             pos == CHOOSE j \in 1..5 : P(j)
  <2>3. FindLink(Link(l), order) = order[pos]
    BY <2>2 DEF FindLink
  <2>4. \A j \in 1..5 : Link(l)[order[j]] \in Nat
    BY <1>1 DEF Links, Covers
  <2>5. \E j \in 1..5 : P(j)
    BY <2>2, <2>4
  <2>6. pos \in 1..5
    BY <2>5
  <2> QED BY <2>3, <2>6, NoListFresh DEF Covers
<1> QED BY <1>2, <1>3, LinkFacts

\* change_channel_membership moves the only link to the list asked for, and
\* remove_our_modes moves it to peons.
LEMMA MoveOnlyLink ==
    ASSUME NEW l \in Lists
    PROVE  /\ \A to_list \in Lists : MoveLink(Link(l), to_list) = Link(to_list)
           /\ l # "chanops_voiced" =>
                /\ DropStatus(Link(l), NoLinks) = Link("peons")
                /\ DropStatus(Link(l), Link(l)) = Link("peons")
                /\ DropLocalStatus(Link(l)) = Link("peons")
           /\ DropStatus(NoLinks, NoLinks) = NoLinks
           /\ DropLocalStatus(NoLinks) = NoLinks
           /\ l # "chanops_voiced" => Walked(Link(l), NoLinks) > 0
                                       /\ Walked(Link(l), Link(l)) > 0
           /\ Walked(NoLinks, NoLinks) = 0
<1>1. ASSUME NEW to_list \in Lists
      PROVE  MoveLink(Link(l), to_list) = Link(to_list)
  <2>1. FindLink(Link(l), ChangeOrder) = l
    BY FindOnlyLink, OrdersCover
  <2>2. MoveLink(Link(l), to_list) = [NoLinks EXCEPT ![to_list] = @ + 1]
    BY <2>1, NoListFresh, LinkFacts DEF MoveLink
  <2> QED BY <2>2 DEF Link, NoLinks
<1>2. "chanops_voiced" \in Lists /\ "peons" \in Lists
  BY DEF Lists
<1>3. /\ NoLinks["chanops_voiced"] = 0
      /\ Total(Link(l)) = 1 /\ Total(NoLinks) = 0
      /\ l # "chanops_voiced" => Link(l)["chanops_voiced"] = 0
  BY <1>2, LinkFacts
<1>4. [NoLinks EXCEPT !["peons"] = 0] = NoLinks
  BY <1>2 DEF NoLinks
<1>5. /\ DropStatus(NoLinks, NoLinks) = NoLinks
      /\ DropLocalStatus(NoLinks) = NoLinks
  BY <1>3, <1>4 DEF DropStatus, DropLocalStatus
<1>6. l # "chanops_voiced" =>
         /\ DropStatus(Link(l), NoLinks) = Link("peons")
         /\ DropStatus(Link(l), Link(l)) = Link("peons")
         /\ DropLocalStatus(Link(l)) = Link("peons")
  <2>1. [NoLinks EXCEPT !["peons"] = 1] = Link("peons")
    BY DEF Link
  <2> QED BY <1>3, <2>1 DEF DropStatus, DropLocalStatus
<1>7. /\ l # "chanops_voiced" => Walked(Link(l), NoLinks) > 0
                                 /\ Walked(Link(l), Link(l)) > 0
      /\ Walked(NoLinks, NoLinks) = 0
  BY <1>3 DEF Walked
<1> QED BY <1>1, <1>5, <1>6, <1>7

\* Integrity and NobodyVoiced for one client and one channel, in the form the
\* steps use: a member has one link, on one of the three plain lists.
PlainLists == {"peons", "halfops", "chanops"}

Well(member, u, m, lm) ==
    /\ IF member THEN \E l \in PlainLists : m = Link(l) ELSE m = NoLinks
    /\ IF u \in Local THEN lm = m ELSE lm = NoLinks

AllWell ==
    \A c \in Channels, u \in Clients :
        Well(c \in channel[u], u, mem[c][u], loc[c][u])

\* The inductive invariant.  Integrity alone is not inductive: the TS rules
\* break it when somebody has op and voice, and the end of an exit frees the
\* client, which is safe only once its loop has left every channel.
MemberInv == AllWell /\ ExitVisitsAll

\* AllWell says what Integrity and NobodyVoiced say.
LEMMA WellMeans == AllWell <=> (Integrity /\ NobodyVoiced)
<1>1. PlainLists \subseteq Lists /\ Lists \ PlainLists = {"voiced", "chanops_voiced"}
  BY DEF PlainLists, Lists
<1>2. \A l \in Lists :
         (Link(l)["voiced"] = 0 /\ Link(l)["chanops_voiced"] = 0)
           <=> l \in PlainLists
  <2> TAKE l \in Lists
  <2>1. "voiced" \in Lists /\ "chanops_voiced" \in Lists
    BY DEF Lists
  <2>2. /\ Link(l)["voiced"] = IF l = "voiced" THEN 1 ELSE 0
        /\ Link(l)["chanops_voiced"] = IF l = "chanops_voiced" THEN 1 ELSE 0
    BY <2>1, LinkFacts
  <2> QED BY <1>1, <2>2 DEF PlainLists, Lists
<1>3. NoLinks["voiced"] = 0 /\ NoLinks["chanops_voiced"] = 0
  BY DEF NoLinks, Lists
<1>4. ASSUME NEW c \in Channels, NEW u \in Clients
      PROVE  Well(c \in channel[u], u, mem[c][u], loc[c][u]) <=>
               /\ IF IsMember(u, c) THEN \E l \in Lists : mem[c][u] = Link(l)
                                    ELSE mem[c][u] = NoLinks
               /\ IF u \in Local THEN loc[c][u] = mem[c][u]
                                 ELSE loc[c][u] = NoLinks
               /\ mem[c][u]["voiced"] = 0 /\ mem[c][u]["chanops_voiced"] = 0
  <2>1. CASE c \in channel[u]
    <3>1. (\E l \in PlainLists : mem[c][u] = Link(l)) <=>
            /\ \E l \in Lists : mem[c][u] = Link(l)
            /\ mem[c][u]["voiced"] = 0 /\ mem[c][u]["chanops_voiced"] = 0
      BY <1>1, <1>2
    <3> QED BY <2>1, <3>1 DEF Well, IsMember
  <2>2. CASE c \notin channel[u]
    BY <1>3, <2>2 DEF Well, IsMember
  <2> QED BY <2>1, <2>2
<1> QED BY <1>4 DEF AllWell, Integrity, NobodyVoiced

\* destroy_channel takes the channel off the list of everybody still on it.
LEMMA DestroyWell ==
    ASSUME TypeOK, AllWell, NEW c \in Channels,
           NEW m \in [Clients -> Links], NEW lm \in [Clients -> Links],
           NEW chn \in [Clients -> SUBSET Channels], NEW jnd,
           \A u \in Clients : Well(c \in chn[u], u, m[u], lm[u]),
           \A u \in Clients : chn[u] \ {c} = channel[u] \ {c},
           Destroy(c, m, lm, chn, jnd)
    PROVE  AllWell' /\ \A u \in Clients : channel'[u] = chn[u] \ {c}
<1>1. /\ mem' = [mem EXCEPT ![c] = [u \in Clients |-> NoLinks]]
      /\ loc' = [loc EXCEPT ![c] = [u \in Clients |-> NoLinks]]
      /\ channel' = [u \in Clients |->
                       IF Walked(m[u], lm[u]) > 0 THEN chn[u] \ {c}
                                                  ELSE chn[u]]
  BY DEF Destroy, DestroyInvites
<1>2. ASSUME NEW u \in Clients PROVE channel'[u] = chn[u] \ {c}
  <2>1. CASE c \in chn[u]
    <3>1. PICK l \in PlainLists : m[u] = Link(l)
      BY <2>1 DEF Well
    <3>2. lm[u] = NoLinks \/ lm[u] = Link(l)
      BY <3>1 DEF Well
    <3>3. Walked(m[u], lm[u]) > 0
      BY <3>1, <3>2, MoveOnlyLink DEF PlainLists, Lists
    <3> QED BY <1>1, <3>3
  <2>2. CASE c \notin chn[u]
    BY <1>1, <2>2
  <2> QED BY <2>1, <2>2
<1>3. ASSUME NEW d \in Channels, NEW u \in Clients
      PROVE  Well(d \in channel'[u], u, mem'[d][u], loc'[d][u])
  <2>1. CASE d = c
    <3>1. mem'[d][u] = NoLinks /\ loc'[d][u] = NoLinks
      BY <1>1, <2>1 DEF TypeOK
    <3>2. d \notin channel'[u]
      BY <1>2, <2>1
    <3> QED BY <3>1, <3>2 DEF Well
  <2>2. CASE d # c
    <3>1. mem'[d][u] = mem[d][u] /\ loc'[d][u] = loc[d][u]
      BY <1>1, <2>2 DEF TypeOK
    <3>2. (d \in channel'[u]) <=> (d \in channel[u])
      BY <1>2, <2>2
    <3>3. Well(d \in channel[u], u, mem[d][u], loc[d][u])
      BY DEF AllWell
    <3> QED BY <3>1, <3>2, <3>3 DEF Well
  <2> QED BY <2>1, <2>2
<1> QED BY <1>2, <1>3 DEF AllWell

\* A step that rewrites the lists of one channel c only, and the membership of
\* c only, needs checking at c only.
LEMMA WellElsewhere ==
    ASSUME TypeOK, AllWell, NEW c \in Channels,
           NEW m \in [Clients -> Links], NEW lm \in [Clients -> Links],
           mem' = [mem EXCEPT ![c] = m], loc' = [loc EXCEPT ![c] = lm],
           \A u \in Clients : channel'[u] \ {c} = channel[u] \ {c},
           \A u \in Clients : Well(c \in channel'[u], u, m[u], lm[u])
    PROVE  AllWell'
<1>1. ASSUME NEW d \in Channels, NEW u \in Clients
      PROVE  Well(d \in channel'[u], u, mem'[d][u], loc'[d][u])
  <2>1. CASE d = c
    <3>1. mem'[d][u] = m[u] /\ loc'[d][u] = lm[u]
      BY <2>1 DEF TypeOK
    <3> QED BY <2>1, <3>1
  <2>2. CASE d # c
    <3>1. mem'[d][u] = mem[d][u] /\ loc'[d][u] = loc[d][u]
      BY <2>2 DEF TypeOK
    <3>2. (d \in channel'[u]) <=> (d \in channel[u])
      BY <2>2
    <3>3. Well(d \in channel[u], u, mem[d][u], loc[d][u])
      BY DEF AllWell
    <3> QED BY <3>1, <3>2, <3>3 DEF Well
  <2> QED BY <2>1, <2>2
<1> QED BY <1>1 DEF AllWell

\* The lists of one channel once u has been taken off them.
Without(lists, u) == [v \in Clients |-> IF v = u THEN NoLinks ELSE lists[v]]

\* remove_user_from_channel finds a member on both sets of lists and goes all
\* the way.
LEMMA RemoveLeaves ==
    ASSUME TypeOK, AllWell, NEW c \in Channels, NEW u \in Clients, NEW perm,
           c \in channel[u], remove_user_from_channel(c, u, perm)
    PROVE  Leave(c, u, perm, Without(mem[c], u), Without(loc[c], u))
<1> DEFINE g == FindLink(mem[c][u], RemoveOrder)
           k == FindLink(loc[c][u], RemoveLocalOrder)
           m == [mem[c] EXCEPT ![u] = Unlink(@, g)]
           lm == IF u \in Local THEN [loc[c] EXCEPT ![u] = Unlink(@, k)]
                                ELSE loc[c]
<1>1. \A v \in Clients : Well(c \in channel[v], v, mem[c][v], loc[c][v])
  BY DEF AllWell
<1>2. PICK l \in PlainLists : mem[c][u] = Link(l)
  BY <1>1 DEF Well
<1>3. l \in Lists
  BY DEF PlainLists, Lists
<1>4. g = l
  BY <1>2, <1>3, FindOnlyLink, OrdersCover
<1>5. u \in Local => loc[c][u] = Link(l) /\ k = l
  BY <1>1, <1>2, <1>3, FindOnlyLink, OrdersCover DEF Well
<1>6. l # NoList
  BY <1>3, NoListFresh
<1>7. Leave(c, u, perm, m, lm)
  <2>1. g # NoList /\ ~(u \in Local /\ k = NoList)
    BY <1>4, <1>5, <1>6
  <2> QED BY <2>1, Zenon DEF remove_user_from_channel
<1>8. m = Without(mem[c], u)
  <2>1. Unlink(mem[c][u], g) = NoLinks
    BY <1>2, <1>3, <1>4, LinkFacts
  <2> QED BY <2>1 DEF TypeOK, Without
<1>9. lm = Without(loc[c], u)
  <2>1. CASE u \in Local
    <3>1. Unlink(loc[c][u], k) = NoLinks
      BY <1>3, <1>5, <2>1, LinkFacts
    <3> QED BY <2>1, <3>1 DEF TypeOK, Without
  <2>2. CASE u \notin Local
    <3>1. loc[c][u] = NoLinks
      BY <1>1, <2>2 DEF Well
    <3> QED BY <2>2, <3>1 DEF TypeOK, Without
  <2> QED BY <2>1, <2>2
<1> HIDE DEF m, lm
<1> QED BY <1>7, <1>8, <1>9

\* Without u the lists of c are as they should be for its other members.
LEMMA WithoutWell ==
    ASSUME TypeOK, AllWell, NEW c \in Channels, NEW u \in Clients,
           NEW chn, chn = [channel EXCEPT ![u] = @ \ {c}]
    PROVE  /\ Without(mem[c], u) \in [Clients -> Links]
           /\ Without(loc[c], u) \in [Clients -> Links]
           /\ chn \in [Clients -> SUBSET Channels]
           /\ \A v \in Clients :
                 /\ chn[v] = IF v = u THEN channel[v] \ {c} ELSE channel[v]
                 /\ Well(c \in chn[v], v, Without(mem[c], u)[v],
                         Without(loc[c], u)[v])
<1> DEFINE m == Without(mem[c], u)
           lm == Without(loc[c], u)
<1>1. \A v \in Clients : Well(c \in channel[v], v, mem[c][v], loc[c][v])
  BY DEF AllWell
<1>2. m \in [Clients -> Links] /\ lm \in [Clients -> Links]
  BY LinksFacts DEF TypeOK, Without
<1>3. /\ chn \in [Clients -> SUBSET Channels]
      /\ \A v \in Clients : chn[v] = IF v = u THEN channel[v] \ {c} ELSE channel[v]
  BY DEF TypeOK
<1>4. ASSUME NEW v \in Clients PROVE Well(c \in chn[v], v, m[v], lm[v])
  <2>1. CASE v = u
    <3>1. m[v] = NoLinks /\ lm[v] = NoLinks /\ c \notin chn[v]
      BY <1>3, <2>1 DEF Without
    <3> QED BY <3>1 DEF Well
  <2>2. CASE v # u
    <3>1. m[v] = mem[c][v] /\ lm[v] = loc[c][v] /\ chn[v] = channel[v]
      BY <1>3, <2>2 DEF Without
    <3> QED BY <1>1, <3>1
  <2> QED BY <2>1, <2>2
<1> QED BY <1>2, <1>3, <1>4

\* remove_user_from_channel takes a member off the channel, off its own list
\* and off both member lists, whether or not the channel survives.
LEMMA RemoveWell ==
    ASSUME TypeOK, AllWell, NEW c \in Channels, NEW u \in Clients, NEW perm,
           c \in channel[u], remove_user_from_channel(c, u, perm)
    PROVE  /\ AllWell'
           /\ channel'[u] = channel[u] \ {c}
<1> DEFINE m == Without(mem[c], u)
           lm == Without(loc[c], u)
           chn == [channel EXCEPT ![u] = @ \ {c}]
           jnd == [joined EXCEPT ![u] = @ - 1]
<1>1. Leave(c, u, perm, m, lm)
  BY RemoveLeaves
<1>2. /\ m \in [Clients -> Links] /\ lm \in [Clients -> Links]
      /\ chn \in [Clients -> SUBSET Channels]
      /\ \A v \in Clients :
            /\ chn[v] = IF v = u THEN channel[v] \ {c} ELSE channel[v]
            /\ Well(c \in chn[v], v, m[v], lm[v])
  BY WithoutWell
<1> HIDE DEF m, lm
<1>3. CASE users[c] <= 1 /\ (perm = 0 \/ StillYoung(c))
  <2>1. Destroy(c, m, lm, chn, jnd)
    BY <1>1, <1>3 DEF Leave
  <2> HIDE DEF chn, jnd
  <2>2. AllWell' /\ \A v \in Clients : channel'[v] = chn[v] \ {c}
    BY <1>2, <2>1, DestroyWell
  <2> QED BY <1>2, <2>2
<1>4. CASE ~(users[c] <= 1 /\ (perm = 0 \/ StillYoung(c)))
  <2>1. /\ mem' = [mem EXCEPT ![c] = m] /\ loc' = [loc EXCEPT ![c] = lm]
        /\ channel' = chn
    BY <1>1, <1>4 DEF Leave
  <2> HIDE DEF chn
  <2>2. AllWell'
    BY <1>2, <2>1, WellElsewhere
  <2> QED BY <1>2, <2>1, <2>2
<1> QED BY <1>3, <1>4

\* The steps that add a member or change the status of one keep AllWell.
LEMMA JoinWell ==
    ASSUME TypeOK, AllWell, NEW u \in Clients, NEW c \in Channels, Join(u, c)
    PROVE  AllWell'
<1> DEFINE l == IF users[c] = 0 THEN "chanops" ELSE "peons"
           m == [mem[c] EXCEPT ![u] = AddLink(@, l)]
           lm == [loc[c] EXCEPT ![u] = AddLink(@, l)]
<1>1. l \in PlainLists /\ l \in Lists
  BY DEF PlainLists, Lists
<1>2. /\ c \notin channel[u] /\ u \in Local
      /\ mem' = [mem EXCEPT ![c][u] = AddLink(@, l)]
      /\ loc' = [loc EXCEPT ![c][u] = AddLink(@, l)]
      /\ channel' = [channel EXCEPT ![u] = @ \cup {c}]
  BY DEF Join, MayJoin, del_invite, IsMember
<1>3. \A v \in Clients : Well(c \in channel[v], v, mem[c][v], loc[c][v])
  BY DEF AllWell
<1>4. mem[c][u] = NoLinks /\ loc[c][u] = NoLinks
  BY <1>2, <1>3 DEF Well
<1> HIDE DEF l
<1>5. AddLink(NoLinks, l) = Link(l) /\ Link(l) \in Links
  BY <1>1, LinkFacts
<1>6. /\ mem' = [mem EXCEPT ![c] = m] /\ loc' = [loc EXCEPT ![c] = lm]
      /\ m = [v \in Clients |-> IF v = u THEN Link(l) ELSE mem[c][v]]
      /\ lm = [v \in Clients |-> IF v = u THEN Link(l) ELSE loc[c][v]]
  BY <1>2, <1>4, <1>5 DEF TypeOK
<1> HIDE DEF m, lm
<1>7. m \in [Clients -> Links] /\ lm \in [Clients -> Links]
  BY <1>5, <1>6 DEF TypeOK
<1>8. \A v \in Clients : channel'[v] = IF v = u THEN channel[v] \cup {c}
                                               ELSE channel[v]
  BY <1>2 DEF TypeOK
<1>9. ASSUME NEW v \in Clients PROVE Well(c \in channel'[v], v, m[v], lm[v])
  <2>1. CASE v = u
    BY <1>1, <1>2, <1>6, <1>8, <2>1 DEF Well
  <2>2. CASE v # u
    BY <1>3, <1>6, <1>8, <2>2 DEF Well
  <2> QED BY <2>1, <2>2
<1>10. \A v \in Clients : channel'[v] \ {c} = channel[v] \ {c}
  BY <1>8
<1> QED BY <1>6, <1>7, <1>9, <1>10, WellElsewhere

\* A status mode moves the link of a member on both sets of lists.
LEMMA StatusWell ==
    ASSUME TypeOK, AllWell, NoVoice, NEW src, NEW u \in Clients,
           NEW c \in Channels, NEW letter \in ModeLetters,
           NEW dir \in Directions, StatusChange(src, c, u, letter, dir)
    PROVE  AllWell'
<1> DEFINE to == StatusMode(letter, mem[c][u], dir)
           m == [v \in Clients |-> IF v = u THEN Link(to) ELSE mem[c][v]]
           lm == [v \in Clients |-> IF v = u /\ u \in Local THEN Link(to)
                                                            ELSE loc[c][v]]
<1>1. /\ c \in channel[u] /\ to # NoList
      /\ mem' = [mem EXCEPT ![c][u] = MoveLink(@, to)]
      /\ loc' = IF u \in Local THEN [loc EXCEPT ![c][u] = MoveLink(@, to)]
                               ELSE loc
      /\ channel' = channel
  BY DEF StatusChange, IsMember, uservars
<1>2. \A v \in Clients : Well(c \in channel[v], v, mem[c][v], loc[c][v])
  BY DEF AllWell
<1>3. PICK l \in PlainLists : mem[c][u] = Link(l)
  BY <1>1, <1>2 DEF Well
<1>4. l \in Lists /\ (u \in Local => loc[c][u] = Link(l))
  BY <1>2, <1>3 DEF Well, PlainLists, Lists
<1>5. to \in PlainLists
  <2>1. letter = "o" \/ letter = "h"
    BY ModesAssumption DEF NoVoice
  <2>2. mem[c][u]["voiced"] = 0 /\ mem[c][u]["chanops_voiced"] = 0
    BY <1>3, <1>4, LinkFacts DEF PlainLists, Lists
  <2>3. ~is_voiced(mem[c][u])
    BY <2>2 DEF is_voiced
  <2>4. CASE letter = "o"
    BY <1>1, <2>3, <2>4 DEF StatusMode, chm_op, NoList, PlainLists
  <2>5. CASE letter = "h"
    BY <1>1, <2>5 DEF StatusMode, chm_halfop, NoList, PlainLists
  <2> QED BY <2>1, <2>4, <2>5
<1>6. to \in Lists
  BY <1>5 DEF PlainLists, Lists
<1> HIDE DEF to
<1>7. MoveLink(Link(l), to) = Link(to) /\ Link(to) \in Links
  BY <1>4, <1>6, MoveOnlyLink, LinkFacts
<1>8. mem' = [mem EXCEPT ![c] = m]
  BY <1>1, <1>3, <1>7 DEF TypeOK
<1>9. loc' = [loc EXCEPT ![c] = lm]
  <2>1. CASE u \in Local
    <3>1. loc' = [loc EXCEPT ![c][u] = MoveLink(@, to)]
      BY <1>1, <2>1
    <3> QED BY <1>4, <1>7, <2>1, <3>1 DEF TypeOK
  <2>2. CASE u \notin Local
    BY <1>1, <2>2 DEF TypeOK
  <2> QED BY <2>1, <2>2
<1>10. m \in [Clients -> Links] /\ lm \in [Clients -> Links]
  BY <1>7 DEF TypeOK
<1>11. ASSUME NEW v \in Clients PROVE Well(c \in channel'[v], v, m[v], lm[v])
  <2>1. CASE v = u
    <3>1. u \notin Local => loc[c][u] = NoLinks
      BY <1>2 DEF Well
    <3> QED BY <1>1, <1>5, <2>1, <3>1 DEF Well
  <2>2. CASE v # u
    BY <1>1, <1>2, <2>2 DEF Well
  <2> QED BY <2>1, <2>2
<1> HIDE DEF m, lm
<1> QED BY <1>1, <1>8, <1>9, <1>10, <1>11, WellElsewhere

\* SJOIN: the members present keep their link or all fall to peons, and each
\* newcomer gets one link.
LEMMA SjoinWell ==
    ASSUME TypeOK, AllWell, NoVoice, NEW c \in Channels,
           NEW newts \in OfferedTS, NEW newi \in BOOLEAN,
           NEW nicks \in [Clients -> Prefixes \cup {"absent"}],
           Sjoin(c, newts, nicks, newi)
    PROVE  AllWell'
<1> DEFINE named == \E u \in Clients : nicks[u] # "absent"
           r == SjoinTS(c \notin live, users[c], named, newts, ts[c])
           J == Joining(c, nicks)
           base(u) == IF r.our THEN mem[c][u]
                               ELSE DropStatus(mem[c][u], loc[c][u])
           lbase(u) == IF r.our THEN loc[c][u] ELSE DropLocalStatus(loc[c][u])
           list(u) == IF r.new THEN FlagList(nicks[u]) ELSE "peons"
           m == [u \in Clients |->
                   IF u \in J THEN AddLink(base(u), list(u)) ELSE base(u)]
           lm == [u \in Clients |-> lbase(u)]
<1>1. /\ mem' = [mem EXCEPT ![c] = m] /\ loc' = [loc EXCEPT ![c] = lm]
      /\ channel' = [u \in Clients |->
                       IF u \in J THEN channel[u] \cup {c} ELSE channel[u]]
  BY DEF Sjoin
<1>2. \A u \in Clients : Well(c \in channel[u], u, mem[c][u], loc[c][u])
  BY DEF AllWell
<1>3. ASSUME NEW u \in Clients
      PROVE  Well(c \in channel[u], u, base(u), lbase(u))
  <2>1. CASE r.our
    BY <1>2, <2>1
  <2>2. CASE ~r.our /\ c \in channel[u]
    <3>1. PICK l \in PlainLists : mem[c][u] = Link(l)
      BY <1>2, <2>2 DEF Well
    <3>2. IF u \in Local THEN loc[c][u] = Link(l) ELSE loc[c][u] = NoLinks
      BY <1>2, <3>1 DEF Well
    <3>3. l \in Lists /\ l # "chanops_voiced"
      BY DEF PlainLists, Lists
    <3>4. /\ DropStatus(mem[c][u], loc[c][u]) = Link("peons")
          /\ IF u \in Local THEN DropLocalStatus(loc[c][u]) = Link("peons")
                            ELSE DropLocalStatus(loc[c][u]) = NoLinks
      BY <3>1, <3>2, <3>3, MoveOnlyLink
    <3> QED BY <2>2, <3>4 DEF Well, PlainLists
  <2>3. CASE ~r.our /\ c \notin channel[u]
    <3>1. mem[c][u] = NoLinks /\ loc[c][u] = NoLinks
      BY <1>2, <2>3 DEF Well
    <3>2. /\ DropStatus(mem[c][u], loc[c][u]) = NoLinks
          /\ DropLocalStatus(loc[c][u]) = NoLinks
      BY <3>1, MoveOnlyLink DEF Lists
    <3> QED BY <2>3, <3>2 DEF Well
  <2> QED BY <2>1, <2>2, <2>3
<1>4. ASSUME NEW u \in Clients PROVE list(u) \in PlainLists
  <2>1. nicks[u] # "+"
    BY DEF NoVoice
  <2> QED BY <2>1 DEF FlagList, PlainLists
<1>5. \A u \in J : u \in Clients /\ u \notin Local /\ c \notin channel[u]
  BY DEF Joining, IsMember, TypeOK
<1> HIDE DEF J, base, lbase, list
<1>6. ASSUME NEW u \in Clients
      PROVE  /\ Well(c \in channel'[u], u, m[u], lm[u])
             /\ m[u] \in Links /\ lm[u] \in Links
             /\ channel'[u] \ {c} = channel[u] \ {c}
  <2>1. CASE u \in J
    <3>1. base(u) = NoLinks /\ lbase(u) = NoLinks
      BY <1>3, <1>5, <2>1 DEF Well
    <3>2. list(u) \in Lists
      BY <1>4 DEF PlainLists, Lists
    <3>3. m[u] = Link(list(u)) /\ lm[u] = NoLinks /\ m[u] \in Links
      BY <2>1, <3>1, <3>2, LinkFacts
    <3> QED BY <1>1, <1>4, <1>5, <2>1, <3>3, LinksFacts DEF Well
  <2>2. CASE u \notin J
    <3>1. m[u] = base(u) /\ lm[u] = lbase(u) /\ channel'[u] = channel[u]
      BY <1>1, <2>2
    <3>2. base(u) \in Links /\ lbase(u) \in Links
      BY <1>3, LinkFacts, LinksFacts DEF Well, PlainLists, Lists
    <3> QED BY <1>3, <3>1, <3>2
  <2> QED BY <2>1, <2>2
<1>7. m \in [Clients -> Links] /\ lm \in [Clients -> Links]
  BY <1>6
<1> HIDE DEF m, lm
<1> QED BY <1>1, <1>6, <1>7, WellElsewhere

\* MemberInv is preserved by every step.
LEMMA MemberStep ==
    ASSUME NoVoice, TypeOK, AllWell, ExitVisitsAll, [Next]_vars
    PROVE  AllWell' /\ ExitVisitsAll'
<1>1. ASSUME UNCHANGED <<mem, loc, channel>> PROVE AllWell'
  BY <1>1 DEF AllWell
<1>2. ASSUME op' # "exit" PROVE ExitVisitsAll'
  BY <1>2 DEF ExitVisitsAll
<1>3. ASSUME NEW u \in Clients, NEW c \in Channels, ExitChannel(u, c)
      PROVE  AllWell' /\ ExitVisitsAll'
  <2>1. channel[u] = todo /\ c \in channel[u]
    BY <1>3 DEF ExitChannel, ExitVisitsAll
  <2>2. AllWell' /\ channel'[u] = channel[u] \ {c}
    BY <1>3, <2>1, RemoveWell DEF ExitChannel
  <2> QED BY <1>3, <2>1, <2>2 DEF ExitChannel, ExitVisitsAll
<1>4. ASSUME NEW u \in Clients, FinishExit(u) PROVE AllWell' /\ ExitVisitsAll'
  <2>1. channel[u] = {}
    BY <1>4 DEF FinishExit, ExitVisitsAll
  <2>2. channel' = channel
    BY <1>4, <2>1 DEF FinishExit, TypeOK
  <2> QED BY <1>1, <1>2, <1>4, <2>2 DEF FinishExit
<1>5. ASSUME NEW u \in Clients, NEW c \in Channels, JoinZeroChannel(u, c)
      PROVE  AllWell' /\ ExitVisitsAll'
  BY <1>2, <1>5, RemoveWell DEF JoinZeroChannel, loopvars
<1>6. ASSUME NEW u \in Clients, FinishJoinZero(u)
      PROVE  AllWell' /\ ExitVisitsAll'
  BY <1>1, <1>2, <1>6 DEF FinishJoinZero, chanvars, uservars
<1>7. ASSUME NEW c \in Channels, CleanupChannel(c)
      PROVE  AllWell' /\ ExitVisitsAll'
  <2>1. CASE users[c] = 0 /\ StillYoung(c)
    <3>1. Destroy(c, mem[c], loc[c], channel, joined)
      BY <1>7, <2>1 DEF CleanupChannel
    <3>2. /\ mem[c] \in [Clients -> Links] /\ loc[c] \in [Clients -> Links]
          /\ channel \in [Clients -> SUBSET Channels]
      BY DEF TypeOK
    <3>3. \A u \in Clients : Well(c \in channel[u], u, mem[c][u], loc[c][u])
      BY DEF AllWell
    <3>4. AllWell'
      BY <3>1, <3>2, <3>3, DestroyWell
    <3> QED BY <1>2, <1>7, <3>4 DEF CleanupChannel
  <2>2. CASE ~(users[c] = 0 /\ StillYoung(c))
    BY <1>1, <1>2, <1>7, <2>2 DEF CleanupChannel, chanvars
  <2> QED BY <2>1, <2>2
<1>8. ASSUME FinishCleanup \/ Tick \/ StartCleanup
      PROVE  AllWell' /\ ExitVisitsAll'
  BY <1>1, <1>2, <1>8
     DEF FinishCleanup, Tick, StartCleanup, Idle, chanvars, uservars, loopvars
<1>9. ASSUME NEW u \in Clients, Connect(u) \/ StartJoinZero(u)
      PROVE  AllWell' /\ ExitVisitsAll'
  BY <1>1, <1>2, <1>9
     DEF Connect, StartJoinZero, Idle, chanvars, uservars, loopvars
<1>10. ASSUME NEW u \in Clients, StartExit(u)
       PROVE  AllWell' /\ ExitVisitsAll'
  BY <1>1, <1>10 DEF StartExit, ExitVisitsAll, chanvars, uservars
<1>11. ASSUME NEW u \in Clients, NEW c \in Channels, Join(u, c)
       PROVE  AllWell' /\ ExitVisitsAll'
  BY <1>2, <1>11, JoinWell DEF Join, MayJoin, del_invite, Idle, loopvars
<1>12. ASSUME NEW u \in Clients, NEW c \in Channels, Part(u, c)
       PROVE  AllWell' /\ ExitVisitsAll'
  BY <1>2, <1>12, RemoveWell DEF Part, IsMember, Idle, loopvars
<1>13. ASSUME NEW src \in Clients \cup {Peer}, NEW u \in Clients,
              NEW c \in Channels, Kick(src, u, c)
       PROVE  AllWell' /\ ExitVisitsAll'
  BY <1>2, <1>13, RemoveWell DEF Kick, IsMember, Idle, loopvars
<1>14. ASSUME NEW src \in Clients, NEW u \in Clients, NEW c \in Channels,
              Invite(src, u, c)
       PROVE  AllWell' /\ ExitVisitsAll'
  BY <1>1, <1>2, <1>14 DEF Invite, Idle, loopvars
<1>15. ASSUME NEW src \in Clients \cup {Peer}, NEW u \in Clients,
              NEW c \in Channels, NEW letter \in ModeLetters,
              NEW dir \in Directions, StatusChange(src, c, u, letter, dir)
       PROVE  AllWell' /\ ExitVisitsAll'
  BY <1>2, <1>15, StatusWell DEF StatusChange, Idle, loopvars
<1>16. ASSUME NEW src \in Clients \cup {Peer}, NEW c \in Channels,
              InviteOnlyChange(src, c)
       PROVE  AllWell' /\ ExitVisitsAll'
  BY <1>1, <1>2, <1>16 DEF InviteOnlyChange, Idle, uservars, loopvars
<1>17. ASSUME NEW c \in Channels, NEW newts \in OfferedTS,
              NEW newi \in BOOLEAN,
              NEW nicks \in [Clients -> Prefixes \cup {"absent"}],
              Sjoin(c, newts, nicks, newi)
       PROVE  AllWell' /\ ExitVisitsAll'
  BY <1>2, <1>17, SjoinWell DEF Sjoin, Idle, loopvars
<1>18. CASE UNCHANGED vars
  BY <1>1, <1>18 DEF vars, ExitVisitsAll
<1>19. CASE Loop
  BY <1>3, <1>4, <1>5, <1>6, <1>7, <1>8, <1>19 DEF Loop
<1>20. CASE Next /\ ~Loop
  BY <1>8, <1>9, <1>10, <1>11, <1>12, <1>13, <1>14, <1>15, <1>16, <1>17,
     <1>20 DEF Next
<1> QED BY <1>18, <1>19, <1>20

\* do_channel_integrity_check never fails on a server where nobody is voiced:
\* however joins, parts, kicks, mode changes, SJOINs, quits and destructions
\* follow each other, every membership has exactly one link on each side.
THEOREM MembershipIntegrity == NoVoice => (Spec => []Integrity)
<1> SUFFICES ASSUME NoVoice PROVE Spec => []Integrity
  OBVIOUS
<1>1. Init => MemberInv
  BY DEF Init, MemberInv, AllWell, ExitVisitsAll, Well
<1>2. TypeOK /\ MemberInv /\ [Next]_vars => MemberInv'
  BY MemberStep DEF MemberInv
<1>3. MemberInv => Integrity
  BY WellMeans DEF MemberInv
<1> QED BY <1>1, <1>2, <1>3, TypeCorrect, PTL DEF Spec

---------------------------------------------------------------------------
(* The counters, and pointers to what exists.                              *)

MembersOf(c) == {u \in Clients : IsMember(u, c)}
LocalMembersOf(c) == {u \in Local : IsMember(u, c)}

\* Every set the counters count is finite.
LEMMA CountedFinite ==
    ASSUME TypeOK
    PROVE  /\ \A c \in Channels : /\ IsFiniteSet(MembersOf(c))
                                  /\ IsFiniteSet(LocalMembersOf(c))
           /\ \A u \in Clients : IsFiniteSet(channel[u])
<1>1. IsFiniteSet(Clients) /\ IsFiniteSet(Channels) /\ Local \subseteq Clients
  BY ClientsAssumption
<1>2. ASSUME NEW c \in Channels
      PROVE  IsFiniteSet(MembersOf(c)) /\ IsFiniteSet(LocalMembersOf(c))
  <2>1. MembersOf(c) \in SUBSET Clients /\ LocalMembersOf(c) \in SUBSET Clients
    BY <1>1 DEF MembersOf, LocalMembersOf
  <2> QED BY <1>1, <2>1, FS_Subset
<1>3. ASSUME NEW u \in Clients PROVE IsFiniteSet(channel[u])
  <2>1. channel[u] \in SUBSET Channels
    BY DEF TypeOK
  <2> QED BY <1>1, <2>1, FS_Subset
<1> QED BY <1>2, <1>3

\* CountersMatch in terms of these sets.
LEMMA CountersMeans ==
    CountersMatch <=>
      /\ \A c \in Channels : /\ users[c] = Cardinality(MembersOf(c))
                             /\ locusers[c] = Cardinality(LocalMembersOf(c))
      /\ \A u \in Clients : joined[u] = Cardinality(channel[u])
BY DEF CountersMatch, MembersOf, LocalMembersOf

\* A step that changes no membership and no count of one.
LEMMA SameCounts ==
    ASSUME CountersMatch, UNCHANGED <<users, locusers, channel, joined>>
    PROVE  CountersMatch'
BY DEF CountersMatch, IsMember

\* One client leaves one channel, and each counter falls by one.
LEMMA LeaveCounts ==
    ASSUME TypeOK, CountersMatch, NEW c \in Channels, NEW u \in Clients,
           c \in channel[u],
           channel' = [channel EXCEPT ![u] = @ \ {c}],
           users' = [users EXCEPT ![c] = @ - 1],
           locusers' = [locusers EXCEPT ![c] = IF u \in Local THEN @ - 1 ELSE @],
           joined' = [joined EXCEPT ![u] = @ - 1]
    PROVE  CountersMatch'
<1>1. \A v \in Clients : channel'[v] = IF v = u THEN channel[v] \ {c} ELSE channel[v]
  BY DEF TypeOK
<1>2. Local \subseteq Clients
  BY ClientsAssumption
<1>3. ASSUME NEW d \in Channels
      PROVE  /\ users'[d] = Cardinality(MembersOf(d)')
             /\ locusers'[d] = Cardinality(LocalMembersOf(d)')
  <2>1. CASE d = c
    <3>1. /\ MembersOf(d)' = MembersOf(d) \ {u}
          /\ LocalMembersOf(d)' = LocalMembersOf(d) \ {u}
      BY <1>1, <1>2, <2>1 DEF MembersOf, LocalMembersOf, IsMember
    <3>2. u \in MembersOf(d) /\ (u \in LocalMembersOf(d) <=> u \in Local)
      BY <2>1 DEF MembersOf, LocalMembersOf, IsMember
    <3>3. /\ Cardinality(MembersOf(d) \ {u}) = Cardinality(MembersOf(d)) - 1
          /\ Cardinality(LocalMembersOf(d) \ {u}) =
               IF u \in Local THEN Cardinality(LocalMembersOf(d)) - 1
                              ELSE Cardinality(LocalMembersOf(d))
      BY <3>2, CountedFinite, FS_RemoveElement
    <3>4. /\ users'[d] = users[d] - 1
          /\ locusers'[d] = IF u \in Local THEN locusers[d] - 1 ELSE locusers[d]
      BY <2>1 DEF TypeOK
    <3> QED BY <3>1, <3>3, <3>4, CountersMeans
  <2>2. CASE d # c
    <3>1. /\ MembersOf(d)' = MembersOf(d)
          /\ LocalMembersOf(d)' = LocalMembersOf(d)
      BY <1>1, <1>2, <2>2 DEF MembersOf, LocalMembersOf, IsMember
    <3>2. users'[d] = users[d] /\ locusers'[d] = locusers[d]
      BY <2>2 DEF TypeOK
    <3> QED BY <3>1, <3>2, CountersMeans
  <2> QED BY <2>1, <2>2
<1>4. ASSUME NEW v \in Clients PROVE joined'[v] = Cardinality(channel'[v])
  <2>1. CASE v = u
    <3>1. Cardinality(channel[u] \ {c}) = Cardinality(channel[u]) - 1
      BY CountedFinite, FS_RemoveElement
    <3> QED BY <1>1, <2>1, <3>1, CountersMeans DEF TypeOK
  <2>2. CASE v # u
    BY <1>1, <2>2, CountersMeans DEF TypeOK
  <2> QED BY <2>1, <2>2
<1> QED BY <1>3, <1>4 DEF CountersMatch, MembersOf, LocalMembersOf

\* A set of clients that were not on a channel enter it together.
LEMMA EnterCounts ==
    ASSUME TypeOK, CountersMatch, NEW c \in Channels, NEW J \in SUBSET Clients,
           \A u \in J : c \notin channel[u],
           \A u \in Clients : channel'[u] = IF u \in J THEN channel[u] \cup {c}
                                                       ELSE channel[u],
           users' = [users EXCEPT ![c] = @ + Cardinality(J)],
           locusers' = [locusers EXCEPT ![c] = @ + Cardinality(J \cap Local)],
           \A u \in Clients : joined'[u] = IF u \in J THEN joined[u] + 1
                                                      ELSE joined[u]
    PROVE  CountersMatch'
<1>1. Local \subseteq Clients /\ IsFiniteSet(J) /\ IsFiniteSet(J \cap Local)
  BY ClientsAssumption, FS_Subset
<1>2. ASSUME NEW S, NEW T, IsFiniteSet(S), IsFiniteSet(T), S \cap T = {}
      PROVE  Cardinality(S \cup T) = Cardinality(S) + Cardinality(T)
  <2>1. Cardinality(S \cup T) =
          Cardinality(S) + Cardinality(T) - Cardinality({})
    BY <1>2, FS_Union
  <2>2. Cardinality(S) \in Nat /\ Cardinality(T) \in Nat
    BY <1>2, FS_CardinalityType
  <2> QED BY <2>1, <2>2, FS_EmptySet
<1>3. ASSUME NEW d \in Channels
      PROVE  /\ users'[d] = Cardinality(MembersOf(d)')
             /\ locusers'[d] = Cardinality(LocalMembersOf(d)')
  <2>1. CASE d = c
    <3>1. /\ MembersOf(d)' = MembersOf(d) \cup J
          /\ LocalMembersOf(d)' = LocalMembersOf(d) \cup (J \cap Local)
      BY <1>1, <2>1 DEF MembersOf, LocalMembersOf, IsMember
    <3>2. MembersOf(d) \cap J = {} /\ LocalMembersOf(d) \cap (J \cap Local) = {}
      BY <2>1 DEF MembersOf, LocalMembersOf, IsMember
    <3>3. /\ Cardinality(MembersOf(d) \cup J) =
               Cardinality(MembersOf(d)) + Cardinality(J)
          /\ Cardinality(LocalMembersOf(d) \cup (J \cap Local)) =
               Cardinality(LocalMembersOf(d)) + Cardinality(J \cap Local)
      BY <1>1, <1>2, <3>2, CountedFinite
    <3>4. /\ users'[d] = users[d] + Cardinality(J)
          /\ locusers'[d] = locusers[d] + Cardinality(J \cap Local)
      BY <2>1 DEF TypeOK
    <3> QED BY <3>1, <3>3, <3>4, CountersMeans
  <2>2. CASE d # c
    <3>1. /\ MembersOf(d)' = MembersOf(d)
          /\ LocalMembersOf(d)' = LocalMembersOf(d)
      BY <1>1, <2>2 DEF MembersOf, LocalMembersOf, IsMember
    <3>2. users'[d] = users[d] /\ locusers'[d] = locusers[d]
      BY <2>2 DEF TypeOK
    <3> QED BY <3>1, <3>2, CountersMeans
  <2> QED BY <2>1, <2>2
<1>4. ASSUME NEW u \in Clients PROVE joined'[u] = Cardinality(channel'[u])
  <2>1. CASE u \in J
    <3>1. Cardinality(channel[u] \cup {c}) = Cardinality(channel[u]) + 1
      BY <2>1, CountedFinite, FS_AddElement
    <3> QED BY <2>1, <3>1, CountersMeans
  <2>2. CASE u \notin J
    BY <2>2, CountersMeans
  <2> QED BY <2>1, <2>2
<1> QED BY <1>3, <1>4 DEF CountersMatch, MembersOf, LocalMembersOf

\* A channel whose count is zero has no members; one whose count is one has no
\* member but the one known.
LEMMA CountsMean ==
    ASSUME TypeOK, CountersMatch, NEW c \in Channels
    PROVE  /\ users[c] = 0 => \A v \in Clients : c \notin channel[v]
           /\ \A u \in Clients : users[c] <= 1 /\ c \in channel[u] =>
                 /\ users[c] = 1
                 /\ locusers[c] = IF u \in Local THEN 1 ELSE 0
                 /\ \A v \in Clients \ {u} : c \notin channel[v]
           /\ \A u \in Local : c \in channel[u] => locusers[c] > 0
<1>1. /\ IsFiniteSet(MembersOf(c)) /\ IsFiniteSet(LocalMembersOf(c))
      /\ users[c] = Cardinality(MembersOf(c))
      /\ locusers[c] = Cardinality(LocalMembersOf(c))
      /\ users[c] \in Nat /\ locusers[c] \in Nat /\ Local \subseteq Clients
  BY CountedFinite, CountersMeans, ClientsAssumption DEF TypeOK
<1>2. users[c] = 0 => MembersOf(c) = {}
  BY <1>1, FS_EmptySet
<1>3. ASSUME NEW u \in Clients, users[c] <= 1, c \in channel[u]
      PROVE  /\ users[c] = 1 /\ MembersOf(c) = {u}
             /\ locusers[c] = IF u \in Local THEN 1 ELSE 0
  <2>1. u \in MembersOf(c)
    BY <1>3 DEF MembersOf, IsMember
  <2>2. users[c] # 0
    BY <1>2, <2>1
  <2>3. users[c] = 1
    BY <1>1, <1>3, <2>2
  <2>4. MembersOf(c) = {u}
    <3>1. PICK x : MembersOf(c) = {x}
      BY <1>1, <2>3, FS_Singleton
    <3> QED BY <2>1, <3>1
  <2>5. LocalMembersOf(c) = IF u \in Local THEN {u} ELSE {}
    BY <1>1, <2>4 DEF MembersOf, LocalMembersOf
  <2> QED BY <1>1, <2>3, <2>4, <2>5, FS_Singleton, FS_EmptySet
<1>4. ASSUME NEW u \in Local, c \in channel[u] PROVE locusers[c] > 0
  <2>1. LocalMembersOf(c) # {}
    BY <1>4 DEF LocalMembersOf, IsMember
  <2>2. locusers[c] # 0
    BY <1>1, <2>1, FS_EmptySet
  <2> QED BY <1>1, <2>2
<1> QED BY <1>2, <1>3, <1>4 DEF MembersOf, IsMember

\* destroy_channel when nobody is on the channel any more: its walk over the
\* lists finds nobody.
LEMMA DestroyEmpty ==
    ASSUME NEW c \in Channels,
           NEW m \in [Clients -> Links], NEW lm \in [Clients -> Links],
           NEW chn \in [Clients -> SUBSET Channels],
           NEW jnd \in [Clients -> Int],
           \A u \in Clients : c \notin chn[u] /\ Well(FALSE, u, m[u], lm[u]),
           Destroy(c, m, lm, chn, jnd)
    PROVE  /\ channel' = chn /\ joined' = jnd
           /\ users' = [users EXCEPT ![c] = 0]
           /\ locusers' = [locusers EXCEPT ![c] = 0]
           /\ live' = live \ {c} /\ DestroyInvites(c)
<1>1. \A u \in Clients : Walked(m[u], lm[u]) = 0
  <2> TAKE u \in Clients
  <2>1. m[u] = NoLinks /\ lm[u] = NoLinks
    BY DEF Well
  <2> QED BY <2>1, MoveOnlyLink DEF Lists
<1>2. /\ channel' = [u \in Clients |->
                       IF Walked(m[u], lm[u]) > 0 THEN chn[u] \ {c} ELSE chn[u]]
      /\ joined' = [u \in Clients |-> jnd[u] - Walked(m[u], lm[u])]
      /\ users' = [users EXCEPT ![c] = 0]
      /\ locusers' = [locusers EXCEPT ![c] = 0]
      /\ live' = live \ {c} /\ DestroyInvites(c)
  BY DEF Destroy
<1>3. channel' = chn /\ joined' = jnd
  BY <1>1, <1>2
<1> QED BY <1>2, <1>3

\* Everything remove_user_from_channel does to a member's counters and
\* invitations, the destruction of a channel that is left empty included.
LEMMA RemoveEffect ==
    ASSUME TypeOK, AllWell, CountersMatch, NEW c \in Channels,
           NEW u \in Clients, NEW perm,
           c \in channel[u], remove_user_from_channel(c, u, perm)
    PROVE  /\ channel' = [channel EXCEPT ![u] = @ \ {c}]
           /\ users' = [users EXCEPT ![c] = @ - 1]
           /\ locusers' = [locusers EXCEPT ![c] =
                             IF u \in Local THEN @ - 1 ELSE @]
           /\ joined' = [joined EXCEPT ![u] = @ - 1]
           /\ \/ UNCHANGED <<live, invites, invited>>
              \/ /\ live' = live \ {c} /\ DestroyInvites(c)
                 /\ \A v \in Clients : c \notin channel'[v]
<1> DEFINE m == Without(mem[c], u)
           lm == Without(loc[c], u)
           chn == [channel EXCEPT ![u] = @ \ {c}]
           jnd == [joined EXCEPT ![u] = @ - 1]
<1>1. Leave(c, u, perm, m, lm)
  BY RemoveLeaves
<1>2. /\ m \in [Clients -> Links] /\ lm \in [Clients -> Links]
      /\ chn \in [Clients -> SUBSET Channels]
      /\ \A v \in Clients :
            /\ chn[v] = IF v = u THEN channel[v] \ {c} ELSE channel[v]
            /\ Well(c \in chn[v], v, m[v], lm[v])
  BY WithoutWell
<1>3. jnd \in [Clients -> Int] /\ users[c] \in Nat /\ locusers[c] \in Nat
  BY DEF TypeOK
<1> HIDE DEF m, lm
<1>4. CASE users[c] <= 1 /\ (perm = 0 \/ StillYoung(c))
  <2>1. Destroy(c, m, lm, chn, jnd)
    BY <1>1, <1>4 DEF Leave
  <2>2. /\ users[c] = 1 /\ locusers[c] = IF u \in Local THEN 1 ELSE 0
        /\ \A v \in Clients \ {u} : c \notin channel[v]
    BY <1>4, CountsMean
  <2>3. \A v \in Clients : c \notin chn[v]
    BY <1>2, <2>2
  <2> HIDE DEF chn, jnd
  <2>4. \A v \in Clients : c \notin chn[v] /\ Well(FALSE, v, m[v], lm[v])
    BY <1>2, <2>3 DEF Well
  <2>5. /\ channel' = chn /\ joined' = jnd
        /\ users' = [users EXCEPT ![c] = 0]
        /\ locusers' = [locusers EXCEPT ![c] = 0]
        /\ live' = live \ {c} /\ DestroyInvites(c)
    BY <1>2, <1>3, <2>1, <2>4, DestroyEmpty
  <2>6. /\ users' = [users EXCEPT ![c] = @ - 1]
        /\ locusers' = [locusers EXCEPT ![c] = IF u \in Local THEN @ - 1 ELSE @]
    BY <2>2, <2>5
  <2> QED BY <2>3, <2>5, <2>6 DEF chn, jnd
<1>5. CASE ~(users[c] <= 1 /\ (perm = 0 \/ StillYoung(c)))
  <2>1. /\ users' = [users EXCEPT ![c] = IF @ <= 1 THEN 0 ELSE @ - 1]
        /\ locusers' = [locusers EXCEPT ![c] =
                          IF u \in Local /\ @ > 0 THEN @ - 1 ELSE @]
        /\ channel' = chn /\ joined' = jnd
        /\ UNCHANGED <<live, invites, invited>>
    BY <1>1, <1>5 DEF Leave
  <2>2. users[c] <= 1 => users[c] = 1
    BY CountsMean
  <2>3. u \in Local => locusers[c] > 0
    BY CountsMean
  <2>4. /\ users' = [users EXCEPT ![c] = @ - 1]
        /\ locusers' = [locusers EXCEPT ![c] = IF u \in Local THEN @ - 1 ELSE @]
    <3>1. (IF users[c] <= 1 THEN 0 ELSE users[c] - 1) = users[c] - 1
      BY <2>2, <1>3
    <3>2. (IF u \in Local /\ locusers[c] > 0 THEN locusers[c] - 1 ELSE locusers[c]) =
            IF u \in Local THEN locusers[c] - 1 ELSE locusers[c]
      BY <2>3
    <3> QED BY <2>1, <3>1, <3>2
  <2> QED BY <2>1, <2>4
<1> QED BY <1>4, <1>5

\* The cleanup event destroys only channels with nobody on them.
LEMMA CleanupEffect ==
    ASSUME TypeOK, AllWell, CountersMatch, NEW c \in Channels, CleanupChannel(c)
    PROVE  /\ UNCHANGED <<users, locusers, channel, joined>>
           /\ \/ UNCHANGED <<live, invites, invited>>
              \/ /\ live' = live \ {c} /\ DestroyInvites(c)
                 /\ \A v \in Clients : c \notin channel'[v]
<1>1. CASE users[c] = 0 /\ StillYoung(c)
  <2>1. Destroy(c, mem[c], loc[c], channel, joined)
    BY <1>1 DEF CleanupChannel
  <2>2. \A v \in Clients : c \notin channel[v]
    BY <1>1, CountsMean
  <2>3. \A v \in Clients : Well(FALSE, v, mem[c][v], loc[c][v])
    BY <2>2 DEF AllWell, Well
  <2>4. locusers[c] = 0
    <3>1. LocalMembersOf(c) = {}
      BY <2>2, ClientsAssumption DEF LocalMembersOf, IsMember
    <3> QED BY <3>1, CountersMeans, FS_EmptySet
  <2>5. /\ mem[c] \in [Clients -> Links] /\ loc[c] \in [Clients -> Links]
        /\ channel \in [Clients -> SUBSET Channels]
        /\ joined \in [Clients -> Int]
    BY DEF TypeOK
  <2>6. /\ channel' = channel /\ joined' = joined
        /\ users' = [users EXCEPT ![c] = 0]
        /\ locusers' = [locusers EXCEPT ![c] = 0]
        /\ live' = live \ {c} /\ DestroyInvites(c)
    BY <2>1, <2>2, <2>3, <2>5, DestroyEmpty
  <2>7. users' = users /\ locusers' = locusers
    BY <1>1, <2>4, <2>6 DEF TypeOK
  <2> QED BY <2>2, <2>6, <2>7
<1>2. CASE ~(users[c] = 0 /\ StillYoung(c))
  BY <1>2 DEF CleanupChannel, chanvars
<1> QED BY <1>1, <1>2

\* CountersMatch is preserved by every step of a server where MemberInv holds.
LEMMA CountersStep ==
    ASSUME NoVoice, TypeOK, AllWell, ExitVisitsAll, CountersMatch, [Next]_vars
    PROVE  CountersMatch'
<1>1. ASSUME NEW u \in Clients, NEW c \in Channels, NEW perm,
             c \in channel[u], remove_user_from_channel(c, u, perm)
      PROVE  CountersMatch'
  BY <1>1, RemoveEffect, LeaveCounts
<1>2. ASSUME NEW u \in Clients, NEW c \in Channels, ExitChannel(u, c)
      PROVE  CountersMatch'
  <2>1. c \in channel[u]
    BY <1>2 DEF ExitChannel, ExitVisitsAll
  <2> QED BY <1>1, <1>2, <2>1 DEF ExitChannel
<1>3. ASSUME NEW u \in Clients, FinishExit(u) PROVE CountersMatch'
  <2>1. channel[u] = {}
    BY <1>3 DEF FinishExit, ExitVisitsAll
  <2>2. joined[u] = 0
    BY <2>1, FS_EmptySet DEF CountersMatch
  <2>3. channel' = channel /\ joined' = joined
    BY <1>3, <2>1, <2>2 DEF FinishExit, TypeOK
  <2> QED BY <1>3, <2>3, SameCounts DEF FinishExit
<1>4. ASSUME NEW u \in Clients, NEW c \in Channels,
             JoinZeroChannel(u, c) \/ Part(u, c)
      PROVE  CountersMatch'
  BY <1>1, <1>4 DEF JoinZeroChannel, Part, IsMember
<1>5. ASSUME NEW src \in Clients \cup {Peer}, NEW u \in Clients,
             NEW c \in Channels, Kick(src, u, c)
      PROVE  CountersMatch'
  BY <1>1, <1>5 DEF Kick, IsMember
<1>6. ASSUME NEW c \in Channels, CleanupChannel(c) PROVE CountersMatch'
  BY <1>6, CleanupEffect, SameCounts
<1>7. ASSUME NEW u \in Clients, NEW c \in Channels, Join(u, c)
      PROVE  CountersMatch'
  <2>1. /\ c \notin channel[u] /\ u \in Local
        /\ users' = [users EXCEPT ![c] = @ + 1]
        /\ locusers' = [locusers EXCEPT ![c] = @ + 1]
        /\ channel' = [channel EXCEPT ![u] = @ \cup {c}]
        /\ joined' = [joined EXCEPT ![u] = @ + 1]
    BY <1>7 DEF Join, MayJoin, del_invite, IsMember
  <2>2. Cardinality({u}) = 1 /\ {u} \cap Local = {u}
    BY <2>1, FS_Singleton
  <2>3. /\ \A v \in Clients : channel'[v] = IF v \in {u} THEN channel[v] \cup {c}
                                                      ELSE channel[v]
        /\ \A v \in Clients : joined'[v] = IF v \in {u} THEN joined[v] + 1
                                                     ELSE joined[v]
    BY <2>1 DEF TypeOK
  <2>4. /\ users' = [users EXCEPT ![c] = @ + Cardinality({u})]
        /\ locusers' = [locusers EXCEPT ![c] = @ + Cardinality({u} \cap Local)]
    BY <2>1, <2>2
  <2>5. {u} \in SUBSET Clients /\ \A v \in {u} : c \notin channel[v]
    BY <2>1
  <2> QED BY <2>3, <2>4, <2>5, EnterCounts
<1>8. ASSUME NEW c \in Channels, NEW newts \in OfferedTS,
             NEW newi \in BOOLEAN,
             NEW nicks \in [Clients -> Prefixes \cup {"absent"}],
             Sjoin(c, newts, nicks, newi)
      PROVE  CountersMatch'
  <2> DEFINE J == Joining(c, nicks)
  <2>1. /\ users' = [users EXCEPT ![c] = @ + Cardinality(J)]
        /\ locusers' = locusers
        /\ channel' = [u \in Clients |->
                         IF u \in J THEN channel[u] \cup {c} ELSE channel[u]]
        /\ joined' = [u \in Clients |->
                        IF u \in J THEN joined[u] + 1 ELSE joined[u]]
    BY <1>8 DEF Sjoin
  <2>2. /\ J \in SUBSET Clients /\ J \cap Local = {}
        /\ \A u \in J : c \notin channel[u]
    BY DEF Joining, IsMember, TypeOK
  <2> HIDE DEF J
  <2>3. locusers' = [locusers EXCEPT ![c] = @ + Cardinality(J \cap Local)]
    <3>1. Cardinality(J \cap Local) = 0
      BY <2>2, FS_EmptySet, Zenon
    <3>2. locusers[c] + Cardinality(J \cap Local) = locusers[c]
      BY <3>1 DEF TypeOK
    <3> QED BY <2>1, <3>2 DEF TypeOK
  <2> QED BY <2>1, <2>2, <2>3, EnterCounts
<1>9. ASSUME NEW u \in Clients,
             Connect(u) \/ StartExit(u) \/ StartJoinZero(u) \/ FinishJoinZero(u)
      PROVE  CountersMatch'
  BY <1>9, SameCounts DEF Connect, StartExit, StartJoinZero, FinishJoinZero,
                          chanvars, uservars
<1>10. ASSUME NEW src \in Clients \cup {Peer}, NEW u \in Clients,
              NEW c \in Channels, NEW letter \in ModeLetters,
              NEW dir \in Directions, StatusChange(src, c, u, letter, dir)
       PROVE  CountersMatch'
  BY <1>10, SameCounts DEF StatusChange, uservars
<1>11. ASSUME NEW src \in Clients \cup {Peer}, NEW c \in Channels,
              InviteOnlyChange(src, c)
       PROVE  CountersMatch'
  BY <1>11, SameCounts DEF InviteOnlyChange, uservars
<1>12. ASSUME NEW src \in Clients, NEW u \in Clients, NEW c \in Channels,
              Invite(src, u, c)
       PROVE  CountersMatch'
  BY <1>12, SameCounts DEF Invite
<1>13. ASSUME FinishCleanup \/ Tick \/ StartCleanup PROVE CountersMatch'
  BY <1>13, SameCounts DEF FinishCleanup, Tick, StartCleanup, chanvars, uservars
<1>14. CASE UNCHANGED vars
  BY <1>14, SameCounts DEF vars
<1>15. CASE Loop
  BY <1>2, <1>3, <1>4, <1>6, <1>9, <1>13, <1>15 DEF Loop
<1>16. CASE Next /\ ~Loop
  BY <1>4, <1>5, <1>7, <1>8, <1>9, <1>10, <1>11, <1>12, <1>13, <1>16 DEF Next
<1> QED BY <1>14, <1>15, <1>16

\* users, locusers and joined are the numbers of memberships they stand for, in
\* every order of joins, departures, SJOINs and destructions, on a server where
\* nobody is voiced: the counts decide when a channel is destroyed, so that the
\* lists and the counts are right only together.
THEOREM CountersCorrect == NoVoice => (Spec => []CountersMatch)
<1> SUFFICES ASSUME NoVoice PROVE Spec => []CountersMatch
  OBVIOUS
<1>1. Init => MemberInv /\ CountersMatch
  <2> SUFFICES ASSUME Init PROVE MemberInv /\ CountersMatch
    OBVIOUS
  <2>1. MemberInv
    BY DEF Init, MemberInv, AllWell, ExitVisitsAll, Well
  <2>2. /\ \A c \in Channels : /\ MembersOf(c) = {} /\ LocalMembersOf(c) = {}
                              /\ users[c] = 0 /\ locusers[c] = 0
        /\ \A u \in Clients : channel[u] = {} /\ joined[u] = 0
    BY ClientsAssumption DEF Init, MembersOf, LocalMembersOf, IsMember
  <2> QED BY <2>1, <2>2, CountersMeans, FS_EmptySet
<1>2. TypeOK /\ MemberInv /\ CountersMatch /\ [Next]_vars =>
        MemberInv' /\ CountersMatch'
  BY MemberStep, CountersStep DEF MemberInv
<1> QED BY <1>1, <1>2, TypeCorrect, PTL DEF Spec

\* A step after which clients are on no more channels than before, and in which
\* no channel goes but one that nobody is on, leaves nothing dangling.
LEMMA ShrinkDangling ==
    ASSUME TypeOK, NoDangling, NEW c \in Channels, UNCHANGED online,
           \A u \in Clients : channel'[u] \subseteq channel[u],
           \/ UNCHANGED <<live, invites, invited>>
           \/ /\ live' = live \ {c} /\ DestroyInvites(c)
              /\ \A v \in Clients : c \notin channel'[v]
    PROVE  NoDangling'
<1>1. CASE UNCHANGED <<live, invites, invited>>
  BY <1>1 DEF NoDangling, InvitesMatch, IsMember
<1>2. CASE /\ live' = live \ {c} /\ DestroyInvites(c)
           /\ \A v \in Clients : c \notin channel'[v]
  <2>1. \A u \in Clients : invited'[u] = invited[u] \ {c}
    BY <1>2 DEF DestroyInvites, NoDangling, InvitesMatch
  <2>2. \A d \in Channels : invites'[d] = IF d = c THEN {} ELSE invites[d]
    BY <1>2 DEF DestroyInvites, TypeOK
  <2>3. InvitesMatch'
    BY <2>1, <2>2 DEF NoDangling, InvitesMatch, IsMember
  <2>4. \A u \in Clients : channel'[u] \cup invited'[u] \subseteq live'
    BY <1>2, <2>1 DEF NoDangling
  <2>5. \A u \in Clients \ online' : channel'[u] = {} /\ invited'[u] = {}
    BY <2>1 DEF NoDangling
  <2>6. \A d \in Channels : invites'[d] \subseteq online' \cap Local
    BY <2>2 DEF NoDangling
  <2> QED BY <2>3, <2>4, <2>5, <2>6 DEF NoDangling
<1> QED BY <1>1, <1>2

\* NoDangling is preserved by every step of a server where MemberInv and
\* CountersMatch hold.
LEMMA DanglingStep ==
    ASSUME NoVoice, TypeOK, AllWell, ExitVisitsAll, CountersMatch, NoDangling,
           [Next]_vars
    PROVE  NoDangling'
<1>1. ASSUME UNCHANGED <<live, invites, invited, channel, online>>
      PROVE  NoDangling'
  BY <1>1 DEF NoDangling, InvitesMatch, IsMember
<1>2. ASSUME NEW u \in Clients, NEW c \in Channels, NEW perm,
             c \in channel[u], remove_user_from_channel(c, u, perm),
             UNCHANGED online
      PROVE  NoDangling'
  <2>1. channel' = [channel EXCEPT ![u] = @ \ {c}]
    BY <1>2, RemoveEffect
  <2>2. \A v \in Clients : channel'[v] \subseteq channel[v]
    BY <2>1 DEF TypeOK
  <2> QED BY <1>2, <2>2, RemoveEffect, ShrinkDangling
<1>3. ASSUME NEW u \in Clients, NEW c \in Channels, ExitChannel(u, c)
      PROVE  NoDangling'
  <2>1. c \in channel[u]
    BY <1>3 DEF ExitChannel, ExitVisitsAll
  <2> QED BY <1>2, <1>3, <2>1 DEF ExitChannel
<1>4. ASSUME NEW u \in Clients, FinishExit(u) PROVE NoDangling'
  <2>1. channel[u] = {}
    BY <1>4 DEF FinishExit, ExitVisitsAll
  <2>2. /\ channel' = channel /\ live' = live /\ online' = online \ {u}
        /\ \A v \in Clients : invited'[v] = IF v = u THEN {} ELSE invited[v]
    BY <1>4, <2>1 DEF FinishExit, TypeOK
  <2>3. \A c \in Channels : invites'[c] = invites[c] \ {u}
    BY <1>4 DEF FinishExit, NoDangling, InvitesMatch
  <2>4. InvitesMatch'
    BY <2>2, <2>3 DEF NoDangling, InvitesMatch, IsMember
  <2> QED BY <2>1, <2>2, <2>3, <2>4 DEF NoDangling
<1>5. ASSUME NEW u \in Clients, NEW c \in Channels,
             JoinZeroChannel(u, c) \/ Part(u, c)
      PROVE  NoDangling'
  BY <1>2, <1>5 DEF JoinZeroChannel, Part, IsMember
<1>6. ASSUME NEW src \in Clients \cup {Peer}, NEW u \in Clients,
             NEW c \in Channels, Kick(src, u, c)
      PROVE  NoDangling'
  BY <1>2, <1>6 DEF Kick, IsMember
<1>7. ASSUME NEW c \in Channels, CleanupChannel(c) PROVE NoDangling'
  <2>1. online' = online
    BY <1>7 DEF CleanupChannel
  <2>2. \A u \in Clients : channel'[u] \subseteq channel[u]
    BY <1>7, CleanupEffect
  <2> QED BY <1>7, <2>1, <2>2, CleanupEffect, ShrinkDangling
<1>8. ASSUME NEW u \in Clients, NEW c \in Channels, Join(u, c)
      PROVE  NoDangling'
  <2>1. /\ u \in online /\ live' = live \cup {c} /\ online' = online
        /\ \A v \in Clients :
              /\ channel'[v] = IF v = u THEN channel[v] \cup {c} ELSE channel[v]
              /\ invited'[v] = IF v = u THEN invited[v] \ {c} ELSE invited[v]
        /\ \A d \in Channels :
              invites'[d] = IF d = c THEN invites[d] \ {u} ELSE invites[d]
    BY <1>8 DEF Join, MayJoin, del_invite, TypeOK
  <2>2. InvitesMatch'
    <3> SUFFICES ASSUME NEW d \in Channels, NEW v \in Clients
                 PROVE  /\ v \in invites'[d] <=> d \in invited'[v]
                        /\ v \in invites'[d] => d \notin channel'[v]
      BY DEF InvitesMatch, IsMember
    <3>1. /\ v \in invites[d] <=> d \in invited[v]
          /\ v \in invites[d] => d \notin channel[v]
      BY DEF NoDangling, InvitesMatch, IsMember
    <3>2. CASE d = c /\ v = u
      BY <2>1, <3>1, <3>2 DEF IsMember
    <3>3. CASE d # c /\ v = u
      BY <2>1, <3>1, <3>3
    <3>4. CASE v # u
      BY <2>1, <3>1, <3>4
    <3> QED BY <3>2, <3>3, <3>4
  <2> QED BY <2>1, <2>2 DEF NoDangling
<1>9. ASSUME NEW c \in Channels, NEW newts \in OfferedTS,
             NEW newi \in BOOLEAN,
             NEW nicks \in [Clients -> Prefixes \cup {"absent"}],
             Sjoin(c, newts, nicks, newi)
      PROVE  NoDangling'
  <2> DEFINE J == Joining(c, nicks)
  <2>1. /\ live' = live \cup {c}
        /\ channel' = [u \in Clients |->
                         IF u \in J THEN channel[u] \cup {c} ELSE channel[u]]
        /\ UNCHANGED <<invites, online, invited>>
    BY <1>9 DEF Sjoin
  <2>2. J \subseteq online \ Local
    BY DEF Joining
  <2> HIDE DEF J
  <2>3. InvitesMatch'
    BY <2>1, <2>2 DEF NoDangling, InvitesMatch, IsMember
  <2> QED BY <2>1, <2>2, <2>3 DEF NoDangling
<1>10. ASSUME NEW src \in Clients, NEW u \in Clients, NEW c \in Channels,
              Invite(src, u, c)
       PROVE  NoDangling'
  <2>1. /\ u \in online \cap Local /\ c \in live /\ ~IsMember(u, c)
        /\ UNCHANGED <<live, online, channel>>
        /\ \A v \in Clients :
              invited'[v] = IF v = u THEN invited[v] \cup {c} ELSE invited[v]
        /\ \A d \in Channels :
              invites'[d] = IF d = c THEN invites[d] \cup {u} ELSE invites[d]
    BY <1>10 DEF Invite, TypeOK
  <2>2. InvitesMatch'
    <3> SUFFICES ASSUME NEW d \in Channels, NEW v \in Clients
                 PROVE  /\ v \in invites'[d] <=> d \in invited'[v]
                        /\ v \in invites'[d] => d \notin channel'[v]
      BY DEF InvitesMatch, IsMember
    <3>1. /\ v \in invites[d] <=> d \in invited[v]
          /\ v \in invites[d] => d \notin channel[v]
      BY DEF NoDangling, InvitesMatch, IsMember
    <3>2. CASE d = c /\ v = u
      BY <2>1, <3>1, <3>2 DEF IsMember
    <3>3. CASE d # c /\ v = u
      BY <2>1, <3>1, <3>3
    <3>4. CASE v # u
      BY <2>1, <3>1, <3>4
    <3> QED BY <3>2, <3>3, <3>4
  <2>3. \A v \in Clients : channel'[v] \cup invited'[v] \subseteq live'
    <3> SUFFICES ASSUME NEW v \in Clients PROVE channel'[v] \cup invited'[v] \subseteq live'
      OBVIOUS
    <3>1. channel[v] \cup invited[v] \subseteq live
      BY DEF NoDangling
    <3> QED BY <2>1, <3>1
  <2>4. \A v \in Clients \ online' : channel'[v] = {} /\ invited'[v] = {}
    BY <2>1 DEF NoDangling
  <2>5. \A d \in Channels : invites'[d] \subseteq online' \cap Local
    BY <2>1 DEF NoDangling
  <2> QED BY <2>2, <2>3, <2>4, <2>5 DEF NoDangling
<1>11. ASSUME NEW u \in Clients, Connect(u) PROVE NoDangling'
  <2>1. /\ UNCHANGED <<live, invites, invited, channel>>
        /\ online' = online \cup {u}
    BY <1>11 DEF Connect, chanvars
  <2> QED BY <2>1 DEF NoDangling, InvitesMatch, IsMember
<1>12. ASSUME NEW u \in Clients,
              StartExit(u) \/ StartJoinZero(u) \/ FinishJoinZero(u)
       PROVE  NoDangling'
  BY <1>1, <1>12 DEF StartExit, StartJoinZero, FinishJoinZero, chanvars,
                     uservars
<1>13. ASSUME NEW src \in Clients \cup {Peer}, NEW u \in Clients,
              NEW c \in Channels, NEW letter \in ModeLetters,
              NEW dir \in Directions, StatusChange(src, c, u, letter, dir)
       PROVE  NoDangling'
  BY <1>1, <1>13 DEF StatusChange, uservars
<1>14. ASSUME NEW src \in Clients \cup {Peer}, NEW c \in Channels,
              InviteOnlyChange(src, c)
       PROVE  NoDangling'
  BY <1>1, <1>14 DEF InviteOnlyChange, uservars
<1>15. ASSUME FinishCleanup \/ Tick \/ StartCleanup PROVE NoDangling'
  BY <1>1, <1>15 DEF FinishCleanup, Tick, StartCleanup, chanvars, uservars
<1>16. CASE UNCHANGED vars
  BY <1>1, <1>16 DEF vars
<1>17. CASE Loop
  BY <1>3, <1>4, <1>5, <1>7, <1>12, <1>15, <1>17 DEF Loop
<1>18. CASE Next /\ ~Loop
  BY <1>5, <1>6, <1>8, <1>9, <1>10, <1>11, <1>12, <1>13, <1>14, <1>15, <1>18
     DEF Next
<1> QED BY <1>16, <1>17, <1>18

\* No pointer outlives what it points to on a server where nobody is voiced:
\* destroy_channel frees a channel only when nobody's list names it, and the
\* end of an exit frees a client only when no channel does.
THEOREM NothingDangles == NoVoice => (Spec => []NoDangling)
<1> SUFFICES ASSUME NoVoice PROVE Spec => []NoDangling
  OBVIOUS
<1>1. Init => MemberInv /\ NoDangling
  BY DEF Init, MemberInv, AllWell, ExitVisitsAll, Well, NoDangling,
         InvitesMatch
<1>2. TypeOK /\ MemberInv /\ CountersMatch /\ NoDangling /\ [Next]_vars =>
        MemberInv' /\ NoDangling'
  BY MemberStep, DanglingStep DEF MemberInv
<1> QED BY <1>1, <1>2, TypeCorrect, CountersCorrect, PTL DEF Spec
============================================================================
