---------------------------- MODULE LazyLinks ----------------------------
(***************************************************************************)
(* LazyLinks: a hub tells its lazy leaves of a client or a channel only    *)
(* when a leaf has use for it.  Every lazy leaf has a mask, one bit of a   *)
(* word; the masks of the leaves that know a client or a channel are kept  *)
(* in its lazyLinkClientExists or lazyLinkChannelExists.                   *)
(*                                                                         *)
(* One hub, its leaves, one channel.  The hub's state is one record, so    *)
(* that a function that calls others is their composition; a leaf's holds  *)
(* what it knows.  Links are FIFO, and a broken link loses what is on it.  *)
(* Every user connects once.                                               *)
(***************************************************************************)
EXTENDS Integers, Sequences, FiniteSets, FiniteSetsExt, SequencesExt

CONSTANTS
    Leaves, Users,
    Home,           \* the leaf of each user, or NoLeaf for a user of the hub
    NoLeaf,
    Masks,          \* bits of freeMask
    NoMask,         \* serverMask 0: not lazy
    Keeps,          \* whether an empty channel is kept, by its age: a set of BOOLEAN
    MaxLink,        \* bound on the messages on the links when something new is done
    MaxNodes        \* bound on the nodes of the channel in lazylink_channels then

ASSUME LazyAssumption ==
    /\ Home \in [Users -> Leaves \cup {NoLeaf}]
    /\ NoLeaf \notin Leaves /\ NoMask \notin Masks
    /\ Keeps \subseteq BOOLEAN /\ MaxLink \in Nat /\ MaxNodes \in Nat

VARIABLES
    life,       \* of each user: new, asking (llname is set), on or gone
    hub,        \* see Hub
    leaf,       \* see LeafState
    toHub,      \* [Leaves -> Seq(messages)]
    up          \* the hub runs

vars == <<life, hub, leaf, toHub, up>>

Of(l) == {u \in Users : Home[u] = l}

Msg(type, u) == [type |-> type, u |-> u]
Sjoin(us) == [type |-> "SJOIN", users |-> us]
Mode(u, many) == [type |-> "MODE", u |-> u, many |-> many]
Nburst(u, wanted) == [type |-> "NBURST", u |-> u, wanted |-> wanted]
Llnick(u, exists) == [type |-> "LLNICK", u |-> u, exists |-> exists]
ForChan(type) == [type |-> type]
Squit(l) == [type |-> "SQUIT", server |-> l]

Messages ==
    {Msg(t, u) : t \in {"NICK", "PART", "QUIT", "KILL", "MSG", "LLJOIN", "CBURST"}, u \in Users}
    \cup {Sjoin(us) : us \in SUBSET Users}
    \cup {Mode(u, many) : u \in Users, many \in BOOLEAN}
    \cup {Nburst(u, wanted) : u \in Users, wanted \in BOOLEAN}
    \cup {Llnick(u, exists) : u \in Users, exists \in BOOLEAN}
    \cup {ForChan("CBURST"), ForChan("DROP")} \cup {Squit(l) : l \in Leaves}

\* free is freeMask, bits and chanBits the masks of users and channel; nodes counts
\* the nodes of the channel in lazylink_channels, stale is there when one of a
\* channel that is no more is left; out is what the hub has sent and a leaf has not read.
Hub == [linked : SUBSET Leaves, mask : [Leaves -> Masks \cup {NoMask}], free : SUBSET Masks,
        known : SUBSET Users, bits : [Users -> SUBSET Masks],
        chan : BOOLEAN, members : SUBSET Users, chanBits : SUBSET Masks,
        nodes : Nat, stale : BOOLEAN, out : [Leaves -> Seq(Messages)]]

LeafState == [known : SUBSET Users, chan : BOOLEAN, members : SUBSET Users]

---------------------------------------------------------------------------
(* What the hub sends (send.c, s_serv.c).  h is the hub's record, with the *)
(* messages to each leaf in out.                                           *)

Push(h, l, ms) == [h EXCEPT !.out[l] = @ \o ms]
IsLazy(h, l) == h.mask[l] # NoMask
IsKnown(h, l, u) == h.mask[l] \in h.bits[u]
IsChanKnown(h, l) == h.mask[l] \in h.chanBits

\* add_lazylinkclient
add_lazylinkclient(h, l, u) == [h EXCEPT !.bits[u] = @ \cup {h.mask[l]}]

\* Mutant: the client is sent and not marked.
client_burst_if_needed_NoMark(h, l, u) ==
    IF ~IsLazy(h, l) \/ IsKnown(h, l, u) THEN h ELSE Push(h, l, <<Msg("NICK", u)>>)

\* client_burst_if_needed
client_burst_if_needed(h, l, u) ==
    IF ~IsLazy(h, l) \/ IsKnown(h, l, u) THEN h
    ELSE add_lazylinkclient(Push(h, l, <<Msg("NICK", u)>>), l, u)

\* ts_burst_channel: the members, whether the leaf knows them or not.
ts_burst_channel(h, l) ==
    IF h.members = {} THEN h ELSE Push(h, l, <<Sjoin(h.members)>>)

\* burst_ll_members introduces every member twice, by burst_client and by
\* sendnick_TS.
burst_ll_members(h, l) ==
    FoldSet(LAMBDA u, acc : add_lazylinkclient(Push(acc, l, <<Msg("NICK", u), Msg("NICK", u)>>), l, u),
            h, {u \in h.members : ~IsKnown(h, l, u) /\ Home[u] # l})

\* ll_burst_channel and add_lazylinkchannel.  A channel gets a new node each time.
ll_burst_channel(h, l) ==
    LET b == ts_burst_channel(burst_ll_members(h, l), l)
    IN  [b EXCEPT !.chanBits = @ \cup {b.mask[l]}, !.nodes = @ + 1]

\* One turn of sendto_server's loop: msg about the users src (at most one) and,
\* where onChan, about the channel.
SendTo(h, l, src, onChan, flags, msg) ==
    LET Unknown(x) == \E u \in src : ~IsKnown(x, l, u)
        SendClient(x) ==
            IF ~Unknown(x) THEN Push(x, l, <<msg>>)
            ELSE IF "ICLIENT" \in flags
            THEN Push(FoldSet(LAMBDA u, acc : client_burst_if_needed(acc, l, u), x, src), l, <<msg>>)
            ELSE x
    IN  IF ~IsLazy(h, l) THEN Push(h, l, <<msg>>)
        ELSE IF ~onChan \/ IsChanKnown(h, l) THEN SendClient(h)
        ELSE IF (Unknown(h) /\ "ICLIENT" \notin flags) \/ "ICHAN" \notin flags THEN h
        ELSE SendClient(ll_burst_channel(h, l))

\* sendto_server, to all leaves but one.
sendto_server(h, one, src, onChan, flags, msg) ==
    FoldSet(LAMBDA l, acc : SendTo(acc, l, src, onChan, flags, msg), h, h.linked \ one)

\* introduce_client_globally and the relay of NICK: to leaves that are not lazy.
Introduce(h, one, u) ==
    FoldSet(LAMBDA l, acc : Push(acc, l, <<Msg("NICK", u)>>), h,
            {l \in h.linked \ one : ~IsLazy(h, l)})

\* destroy_channel takes one of its nodes off lazylink_channels.
destroy_channel(h) ==
    [h EXCEPT !.chan = FALSE, !.members = {}, !.chanBits = {}, !.nodes = 0,
              !.stale = @ \/ h.nodes > 1]

\* remove_user_from_channel; an empty channel may be kept or not, by its age.
remove_user(h, u, keep) ==
    LET r == [h EXCEPT !.members = @ \ {u}]
    IN  IF u \in h.members /\ r.members = {} /\ ~keep THEN destroy_channel(r) ELSE r

\* exit_one_client of a user.
exit_user(h, u, keep) ==
    [remove_user(h, u, keep) EXCEPT !.known = @ \ {u}, !.bits[u] = {}]

\* The QUIT of a user: to the leaves that know it.
Quit(h, one, u, keep) ==
    exit_user(sendto_server(h, one, {u}, FALSE, {}, Msg("QUIT", u)), u, keep)

\* relay_kill and exit_client, for a KILL by a server (src = {}) or by a user.
Kill(h, one, src, u, keep) ==
    LET To(acc, l) ==
          LET a == IF src # {} /\ Home[u] # l THEN client_burst_if_needed(acc, l, u) ELSE acc
              b == FoldSet(LAMBDA s, x : client_burst_if_needed(x, l, s), a, src)
          IN  IF src = {} /\ IsLazy(acc, l) /\ ~IsKnown(acc, l, u) THEN acc
              ELSE Push(b, l, <<Msg("KILL", u)>>)
    IN  exit_user(FoldSet(LAMBDA l, acc : To(acc, l), h, h.linked \ one), u, keep)
---------------------------------------------------------------------------
TypeOK ==
    /\ life \in [Users -> {"new", "asking", "on", "gone"}]
    /\ hub \in Hub
    /\ leaf \in [Leaves -> LeafState]
    /\ toHub \in [Leaves -> Seq(Messages)]
    /\ up \in BOOLEAN

Init ==
    /\ life = [u \in Users |-> "new"]
    /\ hub = [linked |-> {}, mask |-> [l \in Leaves |-> NoMask], free |-> Masks,
              known |-> {}, bits |-> [u \in Users |-> {}], chan |-> FALSE, members |-> {},
              chanBits |-> {}, nodes |-> 0, stale |-> FALSE, out |-> [l \in Leaves |-> <<>>]]
    /\ leaf = [l \in Leaves |-> [known |-> {}, chan |-> FALSE, members |-> {}]]
    /\ toHub = [l \in Leaves |-> <<>>]
    /\ up = TRUE

\* The bounds: users and links act only while little is on the links.
Quiet ==
    /\ FoldSet(LAMBDA l, n : n + Len(hub.out[l]) + Len(toHub[l]), 0, Leaves) <= MaxLink
    /\ hub.nodes < MaxNodes

HubDoes(h) == hub' = h /\ UNCHANGED <<leaf, toHub, up>>

---------------------------------------------------------------------------
(* Linking (m_server.c, s_serv.c, client.c).                               *)

\* What a leaf sends first: its users, its channel and a request for the rest of it.
LeafBurst(l) ==
    SetToSeq({Msg("NICK", u) : u \in leaf[l].known})
    \o (IF leaf[l].members # {} THEN <<Sjoin(leaf[l].members)>> ELSE <<>>)
    \o (IF leaf[l].chan THEN <<ForChan("CBURST")>> ELSE <<>>)

\* nextFreeMask: the lowest free bit.
nextFreeMask(free) == IF free = {} THEN NoMask ELSE Min(free)

\* mr_server, server_estab and server_burst.  A leaf that gets no mask is linked as
\* one that is not lazy: the hub sends it all it has.
Link(l) ==
    /\ up /\ l \notin hub.linked
    /\ LET m == nextFreeMask(hub.free)
           h == [hub EXCEPT !.linked = @ \cup {l}, !.mask[l] = m, !.free = @ \ {m}]
       IN  hub' = IF m # NoMask THEN h
                  ELSE ts_burst_channel(Push(h, l, SetToSeq({Msg("NICK", u) : u \in h.known})), l)
    /\ toHub' = [toHub EXCEPT ![l] = LeafBurst(l)]
    /\ UNCHANGED <<life, leaf, up>>

\* server_estab exits a connection that is no server yet, as where its connect
\* block has gone: exit_client frees the masks of servers only.
LinkFails(l) ==
    /\ up /\ l \notin hub.linked /\ hub.free # {}
    /\ hub' = [hub EXCEPT !.free = @ \ {nextFreeMask(@)}]
    /\ UNCHANGED <<life, leaf, toHub, up>>

\* Mutant: what the leaf knew stays marked.
remove_lazylink_flags_MaskOnly(h, m) == [h EXCEPT !.free = @ \cup ({m} \ {NoMask})]

\* Mutant: the mask of a leaf that is not lazy is freed too.
remove_lazylink_flags_Always(h, m) ==
    [h EXCEPT !.free = @ \cup {m}, !.bits = [u \in Users |-> @[u] \ {m}],
              !.chanBits = @ \ {m}, !.nodes = IF h.chanBits \ {m} = {} THEN 0 ELSE @]

\* remove_lazylink_flags
remove_lazylink_flags(h, m) ==
    IF m = NoMask THEN h
    ELSE [h EXCEPT !.free = @ \cup {m}, !.bits = [u \in Users |-> @[u] \ {m}],
                   !.chanBits = @ \ {m}, !.nodes = IF h.chanBits \ {m} = {} THEN 0 ELSE @]

\* exit_client of a server: its users go and the other leaves are told.  A node of
\* a channel that is no more is read on the way: the hub need not survive it.
Unlink(l, keep) ==
    /\ up /\ l \in hub.linked
    /\ LET h1 == [remove_lazylink_flags(hub, hub.mask[l])
                    EXCEPT !.linked = @ \ {l}, !.mask[l] = NoMask, !.out[l] = <<>>]
           h2 == FoldSet(LAMBDA k, acc : Push(acc, k, <<Squit(l)>>), h1, h1.linked)
       IN  hub' = FoldSet(LAMBDA u, acc : exit_user(acc, u, keep), h2, Of(l) \cap hub.known)
    /\ toHub' = [toHub EXCEPT ![l] = <<>>]
    /\ LET mine == leaf[l].members \cap Of(l)
       IN  leaf' = [leaf EXCEPT ![l] =
                      [known |-> @.known \cap Of(l), members |-> mine,
                       chan |-> @.chan /\ (mine # {} \/ keep \/ leaf[l].members = {})]]
    /\ up' = (~hub.stale \/ hub.mask[l] = NoMask)
    /\ UNCHANGED life

---------------------------------------------------------------------------
(* Users of the hub.                                                       *)

OnHub(u) == up /\ life[u] = "on" /\ Home[u] = NoLeaf

HubConnect(u) ==
    /\ up /\ life[u] = "new" /\ Home[u] = NoLeaf
    /\ life' = [life EXCEPT ![u] = "on"]
    /\ HubDoes(Introduce([hub EXCEPT !.known = @ \cup {u}], {}, u))

\* m_join
HubJoin(u) ==
    /\ OnHub(u) /\ u \notin hub.members
    /\ HubDoes(sendto_server([hub EXCEPT !.chan = TRUE, !.members = @ \cup {u}],
                             {}, {u}, TRUE, {"ICLIENT"}, Sjoin({u})))
    /\ UNCHANGED life

\* Part: part_one_client, for u of the leaves in one, or of the hub.
Part(h, one, u, keep) ==
    remove_user(sendto_server(h, one, {}, TRUE, {}, Msg("PART", u)), u, keep)

HubPart(u, keep) ==
    /\ OnHub(u) /\ u \in hub.members
    /\ HubDoes(Part(hub, {}, u, keep))
    /\ UNCHANGED life

HubQuit(u, keep) ==
    /\ OnHub(u)
    /\ life' = [life EXCEPT ![u] = "gone"]
    /\ HubDoes(Quit(hub, {}, u, keep))

\* send_cap_mode_changes: the lines before the last one of the modes that are taken
\* away have LL_ICHAN; the last one has not.
SendModes(h, one, u, many) ==
    LET m == Mode(u, many)
        first == IF many THEN sendto_server(h, one, {u}, TRUE, {"ICHAN", "ICLIENT"}, m) ELSE h
    IN  sendto_server(first, one, {u}, TRUE, {"ICLIENT"}, m)

HubMode(u, many) ==
    /\ OnHub(u) /\ u \in hub.members
    /\ HubDoes(SendModes(hub, {}, u, many))
    /\ UNCHANGED life

\* A private message to a user of l: send_linebuf_remote.
HubTells(u, l) ==
    /\ OnHub(u) /\ Of(l) \cap hub.known # {}
    /\ HubDoes(Push(client_burst_if_needed(hub, l, u), l, <<Msg("MSG", u)>>))
    /\ UNCHANGED life

\* WALLOPS, OPERWALL, KLINE, GLINE
HubWallops(u) ==
    /\ OnHub(u)
    /\ HubDoes(sendto_server(hub, {}, {u}, FALSE, {"ICLIENT"}, Msg("MSG", u)))
    /\ UNCHANGED life

\* mo_kill of a user of a leaf.
HubKill(u, target, keep) ==
    /\ OnHub(u) /\ Home[target] # NoLeaf /\ target \in hub.known
    /\ HubDoes(Kill(hub, {}, {u}, target, keep))
    /\ UNCHANGED life

\* cleanup_channels
HubCleans ==
    /\ up /\ hub.chan /\ hub.members = {}
    /\ HubDoes(destroy_channel(hub))
    /\ UNCHANGED life

---------------------------------------------------------------------------
(* What the hub reads from a leaf.                                         *)

Reads(q, type) == q # <<>> /\ Head(q).type = type

\* The hub reads m from l, and is h then.
HubReads(l, h) ==
    /\ hub' = h
    /\ toHub' = [toHub EXCEPT ![l] = Tail(@)]
    /\ life' = [u \in Users |-> IF Home[u] = NoLeaf /\ life[u] = "on" /\ u \notin h.known
                                THEN "gone" ELSE life[u]]
    /\ UNCHANGED <<leaf, up>>

\* remove_unknown: a prefix the hub does not know is killed.
HubReadsUnknown(l) ==
    /\ \E t \in {"PART", "QUIT", "MODE"} : Reads(toHub[l], t)
    /\ Head(toHub[l]).u \notin hub.known
    /\ HubReads(l, Push(hub, l, <<Msg("KILL", Head(toHub[l]).u)>>))

\* nick_from_server: the leaf knows its own.
HubReadsNick(l) ==
    /\ Reads(toHub[l], "NICK")
    /\ LET u == Head(toHub[l]).u
           h == [hub EXCEPT !.known = @ \cup {u}]
       IN  HubReads(l, Introduce(IF IsLazy(h, l) THEN add_lazylinkclient(h, l, u) ELSE h, {l}, u))

\* ms_sjoin introduces the members to the leaves that know the channel ...
IntroduceMembers(h, l, us) ==
    FoldSet(LAMBDA p, acc : client_burst_if_needed(acc, p[1], p[2]), h,
            {k \in h.linked \ {l} : IsLazy(h, k) /\ IsChanKnown(h, k)} \X us)

\* ... and then relays it.
HubReadsSjoin(l) ==
    /\ Reads(toHub[l], "SJOIN")
    /\ LET us == Head(toHub[l]).users \cap hub.known
           h1 == IntroduceMembers([hub EXCEPT !.chan = TRUE], l, us)
           h2 == [h1 EXCEPT !.members = @ \cup us]
       IN  HubReads(l, IF us = {} THEN h2 ELSE sendto_server(h2, {l}, {}, TRUE, {}, Sjoin(us)))

\* ms_cburst, for a user who waits to join or for a burst.
HubReadsCburst(l) ==
    /\ Reads(toHub[l], "CBURST")
    /\ LET m == Head(toHub[l])
           h == [hub EXCEPT !.chan = TRUE]
           b == ts_burst_channel(h, l)
       IN  HubReads(l, IF ~IsLazy(h, l) THEN h
                       ELSE IF "u" \in DOMAIN m THEN Push(b, l, <<Msg("LLJOIN", m.u)>>)
                       ELSE b)

HubReadsPart(l, keep) ==
    /\ Reads(toHub[l], "PART") /\ Head(toHub[l]).u \in hub.known
    /\ LET u == Head(toHub[l]).u
       IN  HubReads(l, IF u \in hub.members THEN Part(hub, {l}, u, keep) ELSE hub)

HubReadsQuit(l, keep) ==
    /\ Reads(toHub[l], "QUIT") /\ Head(toHub[l]).u \in hub.known
    /\ HubReads(l, Quit(hub, {l}, Head(toHub[l]).u, keep))

HubReadsMode(l) ==
    /\ Reads(toHub[l], "MODE") /\ Head(toHub[l]).u \in hub.known
    /\ LET m == Head(toHub[l])
       IN  HubReads(l, IF hub.chan THEN SendModes(hub, {l}, m.u, m.many) ELSE hub)

\* ms_kill by a leaf.
HubReadsKill(l, keep) ==
    /\ Reads(toHub[l], "KILL")
    /\ LET u == Head(toHub[l]).u
       IN  HubReads(l, IF u \in hub.known THEN Kill(hub, {l}, {}, u, keep) ELSE hub)

\* ms_nburst: who has the nick is introduced, and who wants it gets an answer.
HubReadsNburst(l) ==
    /\ Reads(toHub[l], "NBURST")
    /\ LET m == Head(toHub[l])
           exists == m.u \in hub.known
           h == IF exists THEN client_burst_if_needed(hub, l, m.u) ELSE hub
       IN  HubReads(l, IF m.wanted THEN Push(h, l, <<Llnick(m.u, exists)>>) ELSE h)

\* ms_drop
HubReadsDrop(l) ==
    /\ Reads(toHub[l], "DROP")
    /\ HubReads(l, IF hub.chan THEN [hub EXCEPT !.chanBits = @ \ {hub.mask[l]}] ELSE hub)
---------------------------------------------------------------------------
(* Users of the leaves.                                                    *)

OnLeaf(u) == Home[u] # NoLeaf /\ life[u] = "on"

\* The leaf of u is s then and sends ms to its uplink, if it has one.
LeafDoes(l, s, ms) ==
    /\ leaf' = [leaf EXCEPT ![l] = s]
    /\ toHub' = IF l \in hub.linked THEN [toHub EXCEPT ![l] = @ \o ms] ELSE toHub
    /\ UNCHANGED <<hub, up>>

\* A leaf's state without user u.
Without(s, u, keep) ==
    LET rest == s.members \ {u}
    IN  [known |-> s.known, members |-> rest,
         chan |-> s.chan /\ (u \notin s.members \/ rest # {} \/ keep)]

Forgets(s, u, keep) == [Without(s, u, keep) EXCEPT !.known = @ \ {u}]

Joined(s, u) == [s EXCEPT !.chan = TRUE, !.members = @ \cup {u}]

\* mr_nick: with an uplink the nick is asked for first; a client that waits for the
\* answer already is refused.  Without one the client registers with it at once.
LeafConnect(u) ==
    /\ Home[u] # NoLeaf
    /\ LET l == Home[u]
       IN  IF l \in hub.linked
           THEN /\ life[u] = "new"
                /\ life' = [life EXCEPT ![u] = "asking"]
                /\ LeafDoes(l, leaf[l], <<Nburst(u, TRUE)>>)
           ELSE /\ life[u] \in {"new", "asking"}
                /\ life' = [life EXCEPT ![u] = "on"]
                /\ LeafDoes(l, [leaf[l] EXCEPT !.known = @ \cup {u}], <<>>)

\* A client that waits for the answer leaves: it was not registered.
LeafGivesUp(u) ==
    /\ life[u] = "asking"
    /\ life' = [life EXCEPT ![u] = "gone"]
    /\ UNCHANGED <<hub, leaf, toHub, up>>

\* m_join: the hub is asked for a channel the leaf does not have.
LeafJoin(u) ==
    /\ OnLeaf(u) /\ u \notin leaf[Home[u]].members
    /\ LET l == Home[u]
       IN  IF leaf[l].chan \/ l \notin hub.linked
           THEN LeafDoes(l, Joined(leaf[l], u), <<Sjoin({u})>>)
           ELSE LeafDoes(l, leaf[l], <<Msg("CBURST", u)>>)
    /\ UNCHANGED life

LeafPart(u, keep) ==
    /\ OnLeaf(u) /\ u \in leaf[Home[u]].members
    /\ LET l == Home[u] IN LeafDoes(l, Without(leaf[l], u, keep), <<Msg("PART", u)>>)
    /\ UNCHANGED life

LeafQuit(u, keep) ==
    /\ OnLeaf(u)
    /\ life' = [life EXCEPT ![u] = "gone"]
    /\ LET l == Home[u] IN LeafDoes(l, Forgets(leaf[l], u, keep), <<Msg("QUIT", u)>>)

LeafMode(u, many) ==
    /\ OnLeaf(u) /\ u \in leaf[Home[u]].members
    /\ LeafDoes(Home[u], leaf[Home[u]], <<Mode(u, many)>>)
    /\ UNCHANGED life

\* Somebody asks for a nick the leaf does not know: m_ison, or m_nick and mr_nick for
\* a client that wants another one's nick.
LeafAsks(l, u, wanted) ==
    /\ l \in hub.linked /\ u \notin leaf[l].known /\ Of(l) \cap leaf[l].known # {}
    /\ wanted => Home[u] # l
    /\ LeafDoes(l, leaf[l], <<Nburst(u, wanted)>>)
    /\ UNCHANGED life

\* cleanup_channels: a channel without local users is given up.
LeafDrops(l) ==
    /\ l \in hub.linked /\ leaf[l].chan /\ leaf[l].members \cap Of(l) = {}
    /\ LeafDoes(l, [leaf[l] EXCEPT !.chan = FALSE, !.members = {}], <<ForChan("DROP")>>)
    /\ UNCHANGED life

---------------------------------------------------------------------------
(* What a leaf reads from its hub.                                         *)

\* The leaf reads a message, is s then and answers ms.
LeafReads(l, s, ms) ==
    /\ hub' = [hub EXCEPT !.out[l] = Tail(@)]
    /\ leaf' = [leaf EXCEPT ![l] = s]
    /\ toHub' = [toHub EXCEPT ![l] = @ \o ms]
    /\ life' = [u \in Users |-> IF Home[u] = l /\ life[u] = "on" /\ u \notin s.known
                                THEN "gone" ELSE life[u]]
    /\ UNCHANGED up

LeafReadsUnknown(l) ==
    /\ \E t \in {"PART", "QUIT", "MODE", "MSG"} : Reads(hub.out[l], t)
    /\ LET u == Head(hub.out[l]).u
       IN  u \notin leaf[l].known /\ LeafReads(l, leaf[l], <<Msg("KILL", u)>>)

\* ms_nick: a nick that is there already collides, and both are killed.
LeafReadsNick(l, keep) ==
    /\ Reads(hub.out[l], "NICK")
    /\ LET u == Head(hub.out[l]).u
       IN  IF u \in leaf[l].known
           THEN LeafReads(l, Forgets(leaf[l], u, keep), <<Msg("KILL", u)>>)
           ELSE LeafReads(l, [leaf[l] EXCEPT !.known = @ \cup {u}], <<>>)

\* ms_llnick: a client that still waits for the nick takes it and registers, unless
\* it exists.  Who wanted another one's nick is refused, or has gone meanwhile.
LeafReadsLlnick(l) ==
    /\ Reads(hub.out[l], "LLNICK")
    /\ LET u == Head(hub.out[l]).u
           waits == Home[u] = l /\ life[u] = "asking"
           free == ~Head(hub.out[l]).exists /\ u \notin leaf[l].known
       IN  /\ hub' = [hub EXCEPT !.out[l] = Tail(@)]
           /\ life' = IF waits THEN [life EXCEPT ![u] = IF free THEN "on" ELSE "new"] ELSE life
           /\ IF waits /\ free
              THEN /\ leaf' = [leaf EXCEPT ![l].known = @ \cup {u}]
                   /\ toHub' = [toHub EXCEPT ![l] = Append(@, Msg("NICK", u))]
              ELSE UNCHANGED <<leaf, toHub>>
    /\ UNCHANGED up

\* ms_sjoin: nicks the leaf does not know, and its own, are left out.
LeafReadsSjoin(l) ==
    /\ Reads(hub.out[l], "SJOIN")
    /\ LET us == (Head(hub.out[l]).users \cap leaf[l].known) \ Of(l)
       IN  LeafReads(l, [leaf[l] EXCEPT !.chan = TRUE, !.members = @ \cup us], <<>>)

\* ms_lljoin
LeafReadsLljoin(l) ==
    /\ Reads(hub.out[l], "LLJOIN")
    /\ LET u == Head(hub.out[l]).u
       IN  IF u \notin leaf[l].known \/ u \in leaf[l].members THEN LeafReads(l, leaf[l], <<>>)
           ELSE LeafReads(l, Joined(leaf[l], u), <<Sjoin({u})>>)

LeafReadsPart(l, keep) ==
    /\ Reads(hub.out[l], "PART") /\ Head(hub.out[l]).u \in leaf[l].known
    /\ LeafReads(l, Without(leaf[l], Head(hub.out[l]).u, keep), <<>>)

LeafReadsQuit(l, keep) ==
    /\ Reads(hub.out[l], "QUIT") /\ Head(hub.out[l]).u \in leaf[l].known
    /\ LeafReads(l, Forgets(leaf[l], Head(hub.out[l]).u, keep), <<>>)

LeafReadsKill(l, keep) ==
    /\ Reads(hub.out[l], "KILL")
    /\ LeafReads(l, Forgets(leaf[l], Head(hub.out[l]).u, keep), <<>>)

\* MODE, PRIVMSG and WALLOPS change nothing here.
LeafReadsOther(l) ==
    /\ \E t \in {"MODE", "MSG"} : Reads(hub.out[l], t)
    /\ Head(hub.out[l]).u \in leaf[l].known
    /\ LeafReads(l, leaf[l], <<>>)

LeafReadsSquit(l, keep) ==
    /\ Reads(hub.out[l], "SQUIT")
    /\ LeafReads(l, FoldSet(LAMBDA u, s : Forgets(s, u, keep), leaf[l], Of(Head(hub.out[l]).server)), <<>>)

---------------------------------------------------------------------------
\* Reading goes on whatever is on the links.
HubReadsNext(l) ==
    \/ HubReadsUnknown(l) \/ HubReadsNick(l) \/ HubReadsSjoin(l) \/ HubReadsCburst(l)
    \/ HubReadsMode(l) \/ HubReadsNburst(l) \/ HubReadsDrop(l)
    \/ \E keep \in Keeps :
         HubReadsPart(l, keep) \/ HubReadsQuit(l, keep) \/ HubReadsKill(l, keep)

LeafReadsNext(l) ==
    \/ LeafReadsUnknown(l) \/ LeafReadsSjoin(l) \/ LeafReadsLljoin(l) \/ LeafReadsOther(l)
    \/ LeafReadsLlnick(l)
    \/ \E keep \in Keeps :
         \/ LeafReadsNick(l, keep) \/ LeafReadsPart(l, keep) \/ LeafReadsQuit(l, keep)
         \/ LeafReadsKill(l, keep) \/ LeafReadsSquit(l, keep)

LinkNext(l) == Link(l) \/ LinkFails(l) \/ \E keep \in Keeps : Unlink(l, keep)

HubNext(u) ==
    \/ HubConnect(u) \/ HubJoin(u) \/ HubWallops(u)
    \/ \E keep \in Keeps : HubPart(u, keep) \/ HubQuit(u, keep)
    \/ \E many \in BOOLEAN : HubMode(u, many)
    \/ \E l \in Leaves : HubTells(u, l)
    \/ \E t \in Users, keep \in Keeps : HubKill(u, t, keep)

LeafNext(u) ==
    \/ LeafConnect(u) \/ LeafGivesUp(u) \/ LeafJoin(u)
    \/ \E keep \in Keeps : LeafPart(u, keep) \/ LeafQuit(u, keep)
    \/ \E many \in BOOLEAN : LeafMode(u, many)

Next ==
    \/ \E l \in Leaves : HubReadsNext(l) \/ LeafReadsNext(l)
    \/ /\ Quiet
       /\ \/ HubCleans
          \/ \E l \in Leaves : LinkNext(l) \/ LeafDrops(l)
          \/ \E l \in Leaves, u \in Users, wanted \in BOOLEAN : LeafAsks(l, u, wanted)
          \/ \E u \in Users : HubNext(u) \/ LeafNext(u)

Spec == Init /\ [][Next]_vars
---------------------------------------------------------------------------
(* Properties.                                                             *)

LazyLeaves == {l \in hub.linked : IsLazy(hub, l)}

\* Every lazy leaf has a mask of its own, no user or channel is marked with a mask
\* that no leaf has (a new leaf would be taken to know them), and a leaf that is
\* told what happens on the channel knows all its members.
MasksMatch ==
    LET used == {hub.mask[l] : l \in LazyLeaves}
    IN  /\ Cardinality(used) = Cardinality(LazyLeaves) /\ used \cap hub.free = {}
        /\ \A l \in Leaves \ hub.linked : hub.mask[l] = NoMask
        /\ \A u \in Users : hub.bits[u] \subseteq (IF u \in hub.known THEN used ELSE {})
        /\ hub.chanBits \subseteq used
        /\ \A l \in LazyLeaves : IsChanKnown(hub, l) => \A u \in hub.members : IsKnown(hub, l, u)

IsOn(q, type, u) == \E i \in DOMAIN q : q[i].type = type /\ q[i].u = u

\* Whether the leaf will know u when it has read all that is on its way.
WillKnow(l, u) ==
    LET After(m, knows) ==
          CASE m.type = "NICK" /\ m.u = u -> ~knows
            [] m.type \in {"QUIT", "KILL"} /\ m.u = u -> FALSE
            [] m.type = "SQUIT" /\ Home[u] = m.server -> FALSE
            [] OTHER -> knows
    IN  FoldLeft(LAMBDA knows, m : After(m, knows), u \in leaf[l].known, hub.out[l])

\* The hub takes a leaf to know a user exactly if it does, or will from what is on
\* its way, or has had the user killed.
IntroducedIffMarked ==
    \A l \in LazyLeaves, u \in hub.known :
        Home[u] # l =>
            IF IsKnown(hub, l, u)
            THEN u \in leaf[l].known \/ IsOn(hub.out[l], "NICK", u) \/ IsOn(toHub[l], "KILL", u)
            ELSE ~WillKnow(l, u)
==========================================================================
