-------------------------- MODULE ChannelMembers --------------------------
(***************************************************************************)
(* Channel membership on one server: src/channel.c and the handlers that   *)
(* drive it (JOIN, JOIN 0, SJOIN, PART, KICK, MODE, INVITE, QUIT and the   *)
(* cleanup_channels event).                                                *)
(*                                                                         *)
(* A membership is stored several times: a link on one of the channel's    *)
(* member lists, a second link on the matching list of local members, a    *)
(* link on the client's own channel list, and the counters users, locusers *)
(* and joined.  Each handler edits all of them by hand.  The properties    *)
(* say that they never drift apart.                                        *)
(*                                                                         *)
(* The server is single-threaded: a handler is one step, except the loops  *)
(* over a client's or the server's channels (JOIN 0, QUIT, the cleanup     *)
(* event), which take one step per iteration with op set so that nothing   *)
(* else runs meanwhile.  The server has no LazyLink uplink.                *)
(***************************************************************************)
EXTENDS ChannelDefs, FiniteSets

CONSTANTS
    Clients,        \* clients the server knows or will know
    Local,          \* the ones connected to this server (MyClient)
    Channels,       \* channel names
    Peer,           \* a linked server acting as the source of a command
    ModeLetters,    \* the status modes used: a subset of {"o", "h", "v"}
    OfferedTS,      \* the timestamps other servers send with SJOIN
    Prefixes,       \* the prefixes other servers put before a nick in SJOIN
    PersistTime,    \* ConfigChannel.persist_time
    MaxChans,       \* ConfigChannel.max_chans_per_user
    MaxTime         \* bound on CurrentTime

ASSUME ClientsAssumption ==
    /\ IsFiniteSet(Clients) /\ Local \subseteq Clients
    /\ IsFiniteSet(Channels) /\ Peer \notin Clients

ASSUME ModesAssumption ==
    ModeLetters \subseteq {"o", "h", "v"} /\ "absent" \notin Prefixes

ASSUME NumbersAssumption ==
    /\ OfferedTS \subseteq Nat /\ PersistTime \in Nat
    /\ MaxChans \in Nat /\ MaxTime \in Nat

VARIABLES
    live,       \* the channels on GlobalChannelList
    mem,        \* mem[c][u]: the links of u on the member lists of c
    loc,        \* loc[c][u]: the links of u on the local member lists of c
    users,      \* chptr->users
    locusers,   \* chptr->locusers
    ts,         \* chptr->channelts
    inviteonly, \* chptr->mode.mode & MODE_INVITEONLY
    invites,    \* chptr->invites
    online,     \* the clients that exist on this server
    channel,    \* user->channel
    joined,     \* user->joined
    invited,    \* user->invited
    now,        \* CurrentTime
    op,         \* the loop the server is in: "idle", "join0", "exit", "cleanup"
    who,        \* the client whose channels the loop visits (none in cleanup)
    todo        \* the channels the loop has still to visit

chanvars == <<live, mem, loc, users, locusers, ts, inviteonly, invites>>
uservars == <<online, channel, joined, invited>>
loopvars == <<op, who, todo>>
vars == <<live, mem, loc, users, locusers, ts, inviteonly, invites, online,
          channel, joined, invited, now, op, who, todo>>

TypeOK ==
    /\ live \subseteq Channels
    /\ mem \in [Channels -> [Clients -> Links]]
    /\ loc \in [Channels -> [Clients -> Links]]
    /\ users \in [Channels -> Nat] /\ locusers \in [Channels -> Nat]
    /\ ts \in [Channels -> Nat]
    /\ inviteonly \in [Channels -> BOOLEAN]
    /\ invites \in [Channels -> SUBSET Clients]
    /\ online \subseteq Clients
    /\ channel \in [Clients -> SUBSET Channels]
    /\ joined \in [Clients -> Int]
    /\ invited \in [Clients -> SUBSET Channels]
    /\ now \in 1..(MaxTime + 1)
    /\ op \in {"idle", "join0", "exit", "cleanup"}
    /\ who \subseteq Clients /\ todo \subseteq Channels

Init ==
    /\ live = {}
    /\ mem = [c \in Channels |-> [u \in Clients |-> NoLinks]]
    /\ loc = [c \in Channels |-> [u \in Clients |-> NoLinks]]
    /\ users = [c \in Channels |-> 0] /\ locusers = [c \in Channels |-> 0]
    /\ ts = [c \in Channels |-> 0]
    /\ inviteonly = [c \in Channels |-> FALSE]
    /\ invites = [c \in Channels |-> {}]
    /\ online = {}
    /\ channel = [u \in Clients |-> {}]
    /\ joined = [u \in Clients |-> 0]
    /\ invited = [u \in Clients |-> {}]
    /\ now = 1
    /\ op = "idle" /\ who = {} /\ todo = {}

Idle == op = "idle"

IsMember(u, c) == c \in channel[u]

---------------------------------------------------------------------------
(* channel.c.                                                              *)

\* del_invite: both ends of the invitation of u to c.
del_invite(c, u) ==
    /\ invites' = [invites EXCEPT ![c] = @ \ {u}]
    /\ invited' = [invited EXCEPT ![u] = @ \ {c}]

\* Mutation: the invitations stay on the clients' lists.
DestroyInvites_OneEnd(c) ==
    /\ invites' = [invites EXCEPT ![c] = {}]
    /\ UNCHANGED invited

\* destroy_channel's loop of del_invite over the invitations to c.
DestroyInvites(c) ==
    /\ invites' = [invites EXCEPT ![c] = {}]
    /\ invited' = [u \in Clients |->
                     IF u \in invites[c] THEN invited[u] \ {c} ELSE invited[u]]

\* The links delete_members walks when a channel is destroyed.  The two
\* chanops_voiced lists are not among the eight it is called with.
Walked(m, lm) ==
    (Total(m) - m["chanops_voiced"]) + (Total(lm) - lm["chanops_voiced"])

\* destroy_channel, for a channel whose lists are m and lm by now, the
\* clients' lists and counts being chn and jnd.  The block is freed: a
\* channel created under the name later starts from zero.
Destroy(c, m, lm, chn, jnd) ==
    /\ live' = live \ {c}
    /\ mem' = [mem EXCEPT ![c] = [u \in Clients |-> NoLinks]]
    /\ loc' = [loc EXCEPT ![c] = [u \in Clients |-> NoLinks]]
    /\ users' = [users EXCEPT ![c] = 0]
    /\ locusers' = [locusers EXCEPT ![c] = 0]
    /\ ts' = [ts EXCEPT ![c] = 0]
    /\ inviteonly' = [inviteonly EXCEPT ![c] = FALSE]
    /\ channel' = [u \in Clients |->
                     IF Walked(m[u], lm[u]) > 0 THEN chn[u] \ {c} ELSE chn[u]]
    /\ joined' = [u \in Clients |-> jnd[u] - Walked(m[u], lm[u])]
    /\ DestroyInvites(c)

\* The persistence test of sub1_from_channel and cleanup_channels.
StillYoung(c) == ts[c] + PersistTime > now

\* Mutant: neither locusers nor joined is counted down.
Leave_NoCount(c, u, perm, m, lm) ==
    /\ users' = [users EXCEPT ![c] = @ - 1]
    /\ mem' = [mem EXCEPT ![c] = m] /\ loc' = [loc EXCEPT ![c] = lm]
    /\ channel' = [channel EXCEPT ![u] = @ \ {c}]
    /\ UNCHANGED <<live, locusers, ts, inviteonly, invites, joined, invited>>

\* remove_user_from_channel once u's links are off both sets of lists (m, lm):
\* the client's own link, the counters, and sub1_from_channel.
Leave(c, u, perm, m, lm) ==
    LET chn == [channel EXCEPT ![u] = @ \ {c}]
        jnd == [joined EXCEPT ![u] = @ - 1]
    IN  IF users[c] <= 1 /\ (perm = 0 \/ StillYoung(c))
          THEN Destroy(c, m, lm, chn, jnd)
          ELSE /\ mem' = [mem EXCEPT ![c] = m]
               /\ loc' = [loc EXCEPT ![c] = lm]
               /\ users' = [users EXCEPT ![c] = IF @ <= 1 THEN 0 ELSE @ - 1]
               /\ locusers' = [locusers EXCEPT ![c] =
                                 IF u \in Local /\ @ > 0 THEN @ - 1 ELSE @]
               /\ channel' = chn /\ joined' = jnd
               /\ UNCHANGED <<live, ts, inviteonly, invites, invited>>

\* remove_user_from_channel.  It gives up when u is on no list, and gives up
\* half way when a local u is on no local list.
remove_user_from_channel(c, u, perm) ==
    LET g == FindLink(mem[c][u], RemoveOrder)
        l == FindLink(loc[c][u], RemoveLocalOrder)
        m == [mem[c] EXCEPT ![u] = Unlink(@, g)]
        lm == IF u \in Local THEN [loc[c] EXCEPT ![u] = Unlink(@, l)]
                             ELSE loc[c]
    IN  IF g = NoList
          THEN UNCHANGED <<chanvars, channel, joined, invited>>
        ELSE IF u \in Local /\ l = NoList
          THEN /\ mem' = [mem EXCEPT ![c] = m]
               /\ UNCHANGED <<live, loc, users, locusers, ts, inviteonly,
                              invites, channel, joined, invited>>
          ELSE Leave(c, u, perm, m, lm)

\* add_user_to_channel: one more link on the list and on its local twin.
AddLink(m, l) == [m EXCEPT ![l] = @ + 1]

---------------------------------------------------------------------------
(* Clients come and go.                                                    *)

\* A client registers here, or is introduced by NICK from another server.
Connect(u) ==
    /\ Idle /\ u \notin online
    /\ online' = online \cup {u}
    /\ UNCHANGED <<chanvars, channel, joined, invited, now, loopvars>>

\* exit_one_client, for QUIT, KILL, SQUIT or a lost connection.
StartExit(u) ==
    /\ Idle /\ u \in online
    /\ op' = "exit" /\ who' = {u} /\ todo' = channel[u]
    /\ UNCHANGED <<chanvars, uservars, now>>

\* ... the loop over the client's channels ...
ExitChannel(u, c) ==
    /\ op = "exit" /\ who = {u} /\ c \in todo
    /\ remove_user_from_channel(c, u, 1)
    /\ todo' = todo \ {c}
    /\ UNCHANGED <<online, now, op, who>>

\* ... and del_invite for each invitation, before the client is taken off the
\* lists and its user block freed.
FinishExit(u) ==
    /\ op = "exit" /\ who = {u} /\ todo = {}
    /\ invites' = [c \in Channels |->
                     IF c \in invited[u] THEN invites[c] \ {u} ELSE invites[c]]
    /\ invited' = [invited EXCEPT ![u] = {}]
    /\ channel' = [channel EXCEPT ![u] = {}]
    /\ joined' = [joined EXCEPT ![u] = 0]
    /\ online' = online \ {u}
    /\ op' = "idle" /\ who' = {}
    /\ UNCHANGED <<live, mem, loc, users, locusers, ts, inviteonly, now, todo>>

---------------------------------------------------------------------------
(* JOIN, PART, KICK, INVITE.                                               *)

\* The checks of m_join and can_join for a client that is no oper (an oper's
\* limit is three times as large).  Bans, keys and limits only add refusals;
\* an invite-only channel asks for an invitation.
MayJoin(u, c) ==
    joined[u] < MaxChans /\ ~IsMember(u, c) /\ (inviteonly[c] => c \in invited[u])

\* m_join for one channel.
Join(u, c) ==
    /\ Idle /\ u \in online \cap Local
    /\ MayJoin(u, c)
    /\ LET founder == users[c] = 0
           l == IF founder THEN "chanops" ELSE "peons"
       IN  /\ mem' = [mem EXCEPT ![c][u] = AddLink(@, l)]
           /\ loc' = [loc EXCEPT ![c][u] = AddLink(@, l)]
           /\ ts' = [ts EXCEPT ![c] = IF founder THEN now ELSE @]
    /\ live' = live \cup {c}
    /\ users' = [users EXCEPT ![c] = @ + 1]
    /\ locusers' = [locusers EXCEPT ![c] = @ + 1]
    /\ channel' = [channel EXCEPT ![u] = @ \cup {c}]
    /\ joined' = [joined EXCEPT ![u] = @ + 1]
    /\ del_invite(c, u)
    /\ UNCHANGED <<inviteonly, online, now, loopvars>>

\* do_join_0: while the client's channel list is not empty, part from its
\* head.  Any channel of the list may be the head.
StartJoinZero(u) ==
    /\ Idle /\ u \in online /\ channel[u] # {}
    /\ op' = "join0" /\ who' = {u}
    /\ UNCHANGED <<chanvars, uservars, now, todo>>

JoinZeroChannel(u, c) ==
    /\ op = "join0" /\ who = {u} /\ c \in channel[u]
    /\ remove_user_from_channel(c, u, 0)
    /\ UNCHANGED <<online, now, loopvars>>

FinishJoinZero(u) ==
    /\ op = "join0" /\ who = {u} /\ channel[u] = {}
    /\ op' = "idle" /\ who' = {}
    /\ UNCHANGED <<chanvars, uservars, now, todo>>

\* part_one_client.
Part(u, c) ==
    /\ Idle /\ u \in online /\ c \in live /\ IsMember(u, c)
    /\ remove_user_from_channel(c, u, 0)
    /\ UNCHANGED <<online, now, loopvars>>

\* m_kick.  A remote kicker that is not an op here is believed unless the
\* channel has no timestamp; a half-op may not kick an op or a half-op.
MayKick(src, c, u) ==
    \/ src = Peer
    \/ /\ src # Peer
       /\ is_any_op(mem[c][src]) \/ (src \notin Local /\ ts[c] # 0)
       /\ ~(is_half_op(mem[c][src]) /\ is_any_op(mem[c][u]))

Kick(src, u, c) ==
    /\ Idle /\ src \in online \cup {Peer} /\ u \in online
    /\ c \in live /\ IsMember(u, c)
    /\ MayKick(src, c, u)
    /\ remove_user_from_channel(c, u, 0)
    /\ UNCHANGED <<online, now, loopvars>>

\* m_invite: an invitation is recorded for a local target when the channel is
\* invite-only and the source is an op of it.  add_invite deletes the entry
\* for this very channel first, so it never removes another one.
Invite(src, u, c) ==
    /\ Idle /\ src \in online /\ u \in online \cap Local
    /\ c \in live /\ ~IsMember(u, c)
    /\ src \in Local => IsMember(src, c)
    /\ inviteonly[c] /\ is_chan_op(mem[c][src])
    /\ invites' = [invites EXCEPT ![c] = @ \cup {u}]
    /\ invited' = [invited EXCEPT ![u] = @ \cup {c}]
    /\ UNCHANGED <<live, mem, loc, users, locusers, ts, inviteonly, online,
                   channel, joined, now, loopvars>>

---------------------------------------------------------------------------
(* MODE.                                                                   *)

\* get_channel_access, and the level each mode asks for: servers and remote
\* clients are believed, op for o, op or half-op for h, v and i.
MayChange(src, c, letter) ==
    src \in Local =>
        is_chan_op(mem[c][src]) \/ (letter # "o" /\ is_half_op(mem[c][src]))

\* set_channel_mode with one status letter.
StatusChange(src, c, u, letter, dir) ==
    LET to == StatusMode(letter, mem[c][u], dir)
    IN  /\ Idle /\ src \in online \cup {Peer} /\ c \in live
        /\ MayChange(src, c, letter)
        /\ u \in online /\ IsMember(u, c)
        /\ to # NoList
        /\ mem' = [mem EXCEPT ![c][u] = MoveLink(@, to)]
        /\ loc' = IF u \in Local
                    THEN [loc EXCEPT ![c][u] = MoveLink(@, to)] ELSE loc
        /\ UNCHANGED <<live, users, locusers, ts, inviteonly, invites,
                       uservars, now, loopvars>>

\* set_channel_mode with +i or -i (chm_simple).
InviteOnlyChange(src, c) ==
    /\ Idle /\ src \in online \cup {Peer} /\ c \in live
    /\ MayChange(src, c, "i")
    /\ inviteonly' = [inviteonly EXCEPT ![c] = ~@]
    /\ UNCHANGED <<live, mem, loc, users, locusers, ts, invites, uservars,
                   now, loopvars>>

---------------------------------------------------------------------------
(* SJOIN.                                                                  *)

\* The nicks ms_sjoin adds: it skips the ones that do not exist any more, the
\* ones that are not behind the link the SJOIN came from, and the members.
Joining(c, nicks) ==
    {u \in online \ Local : nicks[u] # "absent" /\ ~IsMember(u, c)}

\* ms_sjoin: nicks gives each client named its prefix, newi is the +i of the
\* mode string.
Sjoin(c, newts, nicks, newi) ==
    LET named == \E u \in Clients : nicks[u] # "absent"
        r == SjoinTS(c \notin live, users[c], named, newts, ts[c])
        J == Joining(c, nicks)
        base(u)  == IF r.our THEN mem[c][u]
                             ELSE DropStatus(mem[c][u], loc[c][u])
        lbase(u) == IF r.our THEN loc[c][u] ELSE DropLocalStatus(loc[c][u])
        list(u)  == IF r.new THEN FlagList(nicks[u]) ELSE "peons"
    IN  /\ Idle /\ ~r.ignore
        /\ live' = live \cup {c}
        /\ ts' = [ts EXCEPT ![c] = r.ts]
        /\ inviteonly' = [inviteonly EXCEPT ![c] =
                            (r.new /\ newi) \/ (r.our /\ @)]
        /\ mem' = [mem EXCEPT ![c] = [u \in Clients |->
                     IF u \in J THEN AddLink(base(u), list(u)) ELSE base(u)]]
        /\ loc' = [loc EXCEPT ![c] = [u \in Clients |-> lbase(u)]]
        /\ users' = [users EXCEPT ![c] = @ + Cardinality(J)]
        /\ channel' = [u \in Clients |->
                         IF u \in J THEN channel[u] \cup {c} ELSE channel[u]]
        /\ joined' = [u \in Clients |->
                        IF u \in J THEN joined[u] + 1 ELSE joined[u]]
        /\ UNCHANGED <<locusers, invites, online, invited, now, loopvars>>

---------------------------------------------------------------------------
(* Time and the cleanup_channels event.                                    *)

Tick ==
    /\ Idle /\ now <= MaxTime
    /\ now' = now + 1
    /\ UNCHANGED <<chanvars, uservars, loopvars>>

StartCleanup ==
    /\ Idle /\ live # {}
    /\ op' = "cleanup" /\ todo' = live
    /\ UNCHANGED <<chanvars, uservars, now, who>>

\* One iteration: an empty channel goes when StillYoung says so.
CleanupChannel(c) ==
    /\ op = "cleanup" /\ c \in todo
    /\ IF users[c] = 0 /\ StillYoung(c)
         THEN Destroy(c, mem[c], loc[c], channel, joined)
         ELSE UNCHANGED <<chanvars, channel, joined, invited>>
    /\ todo' = todo \ {c}
    /\ UNCHANGED <<online, now, op, who>>

FinishCleanup ==
    /\ op = "cleanup" /\ todo = {}
    /\ op' = "idle"
    /\ UNCHANGED <<chanvars, uservars, now, who, todo>>

---------------------------------------------------------------------------
(* The specification.                                                      *)

\* The loops: once entered, each runs to its end before anything else.
Loop ==
    \/ \E u \in Clients, c \in Channels : ExitChannel(u, c)
    \/ \E u \in Clients : FinishExit(u)
    \/ \E u \in Clients, c \in Channels : JoinZeroChannel(u, c)
    \/ \E u \in Clients : FinishJoinZero(u)
    \/ \E c \in Channels : CleanupChannel(c)
    \/ FinishCleanup

Next ==
    \/ Loop
    \/ \E u \in Clients : Connect(u) \/ StartExit(u) \/ StartJoinZero(u)
    \/ \E u \in Clients, c \in Channels : Join(u, c) \/ Part(u, c)
    \/ \E src \in Clients \cup {Peer}, u \in Clients, c \in Channels :
          Kick(src, u, c)
    \/ \E src \in Clients, u \in Clients, c \in Channels : Invite(src, u, c)
    \/ \E src \in Clients \cup {Peer}, u \in Clients, c \in Channels,
          letter \in ModeLetters, dir \in Directions :
          StatusChange(src, c, u, letter, dir)
    \/ \E src \in Clients \cup {Peer}, c \in Channels :
          InviteOnlyChange(src, c)
    \/ \E c \in Channels, newts \in OfferedTS, newi \in BOOLEAN,
          nicks \in [Clients -> Prefixes \cup {"absent"}] :
          Sjoin(c, newts, nicks, newi)
    \/ Tick
    \/ StartCleanup

\* The server's main loop does not stop in the middle of a handler.
Spec == Init /\ [][Next]_vars /\ WF_vars(Loop)

---------------------------------------------------------------------------
(* Properties.                                                             *)

\* do_channel_integrity_check: every channel on a client's list has the client
\* on exactly one of its member lists, once, and a local client on exactly one
\* of its local lists, once; and nobody else is on any list.
Integrity ==
    \A c \in Channels, u \in Clients :
        /\ IF IsMember(u, c) THEN \E l \in Lists : mem[c][u] = Link(l)
                             ELSE mem[c][u] = NoLinks
        /\ IF u \in Local THEN loc[c][u] = mem[c][u] ELSE loc[c][u] = NoLinks

\* The counters are the numbers of members they stand for: users and locusers
\* per channel, joined per client, whatever order joins, parts, kicks, quits,
\* SJOINs and channel destructions came in.
CountersMatch ==
    /\ \A c \in Channels :
         /\ users[c] = Cardinality({u \in Clients : IsMember(u, c)})
         /\ locusers[c] = Cardinality({u \in Local : IsMember(u, c)})
    /\ \A u \in Clients : joined[u] = Cardinality(channel[u])

\* The two ends of an invitation agree, and an invitation is used up by the
\* join it allows.
InvitesMatch ==
    \A c \in Channels, u \in Clients :
        /\ u \in invites[c] <=> c \in invited[u]
        /\ u \in invites[c] => ~IsMember(u, c)

\* No pointer outlives what it points to: a client's channels and invitations
\* are channels that exist, channels list only clients that exist, and of an
\* invitation both ends go together.
NoDangling ==
    /\ InvitesMatch
    /\ \A u \in Clients : channel[u] \cup invited[u] \subseteq live
    /\ \A u \in Clients \ online : channel[u] = {} /\ invited[u] = {}
    /\ \A c \in Channels : invites[c] \subseteq online \cap Local

\* While a channel has members its timestamp never grows, or an operator could
\* lose a TS comparison that the rest of the network lets him win.
TimestampNeverGrows ==
    [][\A c \in Channels : users[c] > 0 /\ users'[c] > 0 => ts'[c] <= ts[c]]_vars

\* When a channel loses a TS comparison, nobody who was on it keeps status.
LoserLosesStatus ==
    [][\A c \in Channels, u \in Clients :
         (/\ users[c] > 0 /\ 0 < ts'[c] /\ ts'[c] < ts[c]
          /\ IsMember(u, c)) =>
            /\ \A l \in Lists \ {"peons"} : mem'[c][u][l] = 0
            /\ \A l \in Lists \ {"peons"} : loc'[c][u][l] = 0]_vars

\* When a channel wins or draws a TS comparison, an SJOIN takes no status from
\* anybody; nobody on the channel gains any from an SJOIN either.
WinnerKeepsStatus ==
    [][\A c \in Channels, u \in Clients :
         (/\ users'[c] > users[c] /\ users[c] > 0
          /\ ts'[c] \in {0, ts[c]} /\ IsMember(u, c)) =>
            mem'[c][u] = mem[c][u] /\ loc'[c][u] = loc[c][u]]_vars

\* The server always gets out of its loops: JOIN 0 in particular repeats until
\* the client is on no channel, which no failed removal may prevent.
LoopsEnd == (op # "idle") ~> (op = "idle")
============================================================================
