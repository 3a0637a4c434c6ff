---------------------------- MODULE ChannelNet ----------------------------
(***************************************************************************)
(* One channel on a network of servers: the burst two servers exchange     *)
(* when they link, the SJOIN that announces a join, PART, and the loss of  *)
(* a link.  Links are FIFO; a server relays what it accepts to its other   *)
(* links.  SjoinTS (module ChannelDefs) decides whose status survives.     *)
(*                                                                         *)
(* Simple modes, MODE and KICK carry no timestamp and are left out: this   *)
(* module is about what the TS rules are for, membership and status after  *)
(* a merge.  A nick stands for one client (no collisions).                 *)
(***************************************************************************)
EXTENDS ChannelDefs, Forest

CONSTANTS
    Servers, Clients,
    Edges,          \* the links the configuration allows: a forest
    Home,           \* the server each client is connected to
    StartLists,     \* the status clients may have before any server links
    MaxTime,        \* bound on CurrentTime
    MaxActs,        \* bound on joins and parts
    MaxSplits,      \* bound on the links lost
    Nobody          \* the from of an unknown client

ASSUME NetAssumption ==
    /\ IsFiniteSet(Servers) /\ IsFiniteSet(Clients) /\ Nobody \notin Servers
    /\ Home \in [Clients -> Servers]
    /\ IsForest(Servers, Edges)
    /\ StartLists \subseteq Lists
    /\ MaxTime \in Nat \ {0} /\ MaxActs \in Nat /\ MaxSplits \in Nat

VARIABLES
    conn,       \* the links with a connection
    serv_list,  \* serv_list[s]: the servers s has established a link with
    wire,       \* wire[x, y]: the messages from x to y
    from,       \* from[s][u]: the link u is behind, s for its own clients
    exists,     \* whether the channel is on the server's hash
    mem,        \* mem[s][u]: the list u is on
    ts,         \* chptr->channelts
    now,        \* CurrentTime, the same on all servers
    splits,     \* links lost so far
    acts,       \* joins and parts so far
    emptied     \* history: some server has seen the last member go

vars == <<conn, serv_list, wire, from, exists, mem, ts, now, splits, acts, emptied>>
chanvars == <<exists, mem, ts>>

Message ==
    [type : {"nick", "quit", "part"}, clients : SUBSET Clients]
      \cup [type : {"sjoin"}, ts : Nat, nicks : UNION {[S -> Lists] : S \in SUBSET Clients}]

TypeOK ==
    /\ conn \subseteq Edges
    /\ serv_list \in [Servers -> SUBSET Servers]
    /\ \A x, y \in Servers : \A i \in 1..Len(wire[x, y]) : wire[x, y][i] \in Message
    /\ from \in [Servers -> [Clients -> Servers \cup {Nobody}]]
    /\ exists \in [Servers -> BOOLEAN]
    /\ mem \in [Servers -> [Clients -> Lists \cup {NoList}]]
    /\ ts \in [Servers -> Nat]
    /\ now \in 1..(MaxTime + 1) /\ splits \in 0..MaxSplits
    /\ acts \in 0..MaxActs /\ emptied \in BOOLEAN

---------------------------------------------------------------------------
(* Helpers.                                                                *)

Known(s) == {u \in Clients : from[s][u] # Nobody}
MembersIn(m) == {u \in Clients : m[u] # NoList}
Members(s) == MembersIn(mem[s])

Nick(cs) == [type |-> "nick", clients |-> cs]
Quit(cs) == [type |-> "quit", clients |-> cs]
Parts(u) == [type |-> "part", clients |-> {u}]
SJOIN(t, nicks) == [type |-> "sjoin", ts |-> t, nicks |-> nicks]

\* sendto_server: the message goes to every link of s but one.
sendto_server(w, s, one, msgs) ==
    [p \in Servers \X Servers |->
       IF p[1] = s /\ p[2] \in serv_list[s] \ {one} THEN w[p] \o msgs ELSE w[p]]

\* ts_burst_channel: one SJOIN per list that has members.
ts_burst_channel(s) ==
    LET on(l) == {u \in Members(s) : mem[s][u] = l}
        burst(l) == IF on(l) = {} THEN <<>> ELSE <<SJOIN(ts[s], [u \in on(l) |-> l])>>
    IN  burst("chanops") \o burst("chanops_voiced") \o burst("halfops")
          \o burst("voiced") \o burst("peons")

\* Mutant: the prefix is kept for a list.
AsReceived_Prefix(l) == IF l = "chanops" THEN "@" ELSE l

\* The prefix a list is sent with, read back: add_user_to_channel's switch has
\* no case for two flags.
AsReceived(l) ==
    FlagList(CASE l = "chanops" -> "@"  [] l = "chanops_voiced" -> "@+"
               [] l = "halfops" -> "%"  [] l = "voiced" -> "+" [] OTHER -> "")

\* The history variable follows mem.
History ==
    emptied' = (emptied \/ \E s \in Servers : Members(s) # {} /\ MembersIn(mem'[s]) = {})

---------------------------------------------------------------------------
(* Links.                                                                  *)

Connect(e) ==
    /\ e \in Edges \ conn
    /\ conn' = conn \cup {e}
    /\ UNCHANGED <<serv_list, wire, from, chanvars, now, splits, acts, emptied>>

\* server_estab and server_burst: x has accepted y, and sends it everything.
Burst(x, y) ==
    /\ {x, y} \in conn /\ y \notin serv_list[x]
    /\ serv_list' = [serv_list EXCEPT ![x] = @ \cup {y}]
    /\ wire' = [wire EXCEPT ![<<x, y>>] =
                  @ \o (IF Known(x) = {} THEN <<>> ELSE <<Nick(Known(x))>>)
                    \o ts_burst_channel(x)]
    /\ UNCHANGED <<conn, from, chanvars, now, splits, acts, emptied>>

\* Mutant: the client exits and stays on the channel.
Gone_Stays(s, cs, stays) == UNCHANGED <<mem, exists>>

\* remove_user_from_channel for a set of clients.  When the last one parts, the
\* channel goes; when he exits, it may stay (sub1_from_channel).
Gone(s, cs, stays) ==
    /\ mem' = [mem EXCEPT ![s] = [u \in Clients |-> IF u \in cs THEN NoList ELSE @[u]]]
    /\ exists' = [exists EXCEPT ![s] =
                    @ /\ (Members(s) \cap cs # {} => Members(s) \ cs # {} \/ stays)]

\* The connection breaks: both ends exit the clients behind it and tell their
\* other links (exit_client on a server, remove_dependents).
Split(x, y) ==
    LET lost(s, t) == {u \in Clients : from[s][u] = t}
        without(s, t) == [u \in Clients |-> IF from[s][u] = t THEN Nobody ELSE from[s][u]]
        told(w, s, t) == IF lost(s, t) = {} THEN w
                         ELSE sendto_server(w, s, t, <<Quit(lost(s, t))>>)
    IN  /\ {x, y} \in conn /\ splits < MaxSplits
        /\ splits' = splits + 1
        /\ conn' = conn \ {{x, y}}
        /\ serv_list' = [serv_list EXCEPT ![x] = @ \ {y}, ![y] = @ \ {x}]
        /\ wire' = [told(told(wire, x, y), y, x)
                      EXCEPT ![<<x, y>>] = <<>>, ![<<y, x>>] = <<>>]
        /\ from' = [from EXCEPT ![x] = without(x, y), ![y] = without(y, x)]
        /\ mem' = [mem EXCEPT
                     ![x] = [u \in Clients |-> IF u \in lost(x, y) THEN NoList ELSE @[u]],
                     ![y] = [u \in Clients |-> IF u \in lost(y, x) THEN NoList ELSE @[u]]]
        /\ \E stay \in SUBSET {x, y} :
             exists' = [s \in Servers |->
                          IF s \notin {x, y} \/ MembersIn(mem'[s]) # {} \/ Members(s) = {}
                            THEN exists[s] ELSE exists[s] /\ s \in stay]
        /\ History
        /\ UNCHANGED <<ts, now, acts>>

---------------------------------------------------------------------------
(* Users.                                                                  *)

Acts == acts < MaxActs /\ acts' = acts + 1

\* m_join.
Join(u) ==
    LET s == Home[u]
        founder == Members(s) = {}
        l == IF founder THEN "chanops" ELSE "peons"
        newts == IF founder THEN now ELSE ts[s]
    IN  /\ mem[s][u] = NoList /\ Acts
        /\ mem' = [mem EXCEPT ![s][u] = l]
        /\ exists' = [exists EXCEPT ![s] = TRUE]
        /\ ts' = [ts EXCEPT ![s] = newts]
        /\ wire' = sendto_server(wire, s, s, <<SJOIN(newts, [c \in {u} |-> l])>>)
        /\ History
        /\ UNCHANGED <<conn, serv_list, from, now, splits>>

\* m_part.
Part(u) ==
    LET s == Home[u]
    IN  /\ mem[s][u] # NoList /\ Acts
        /\ Gone(s, {u}, FALSE)
        /\ wire' = sendto_server(wire, s, s, <<Parts(u)>>)
        /\ History
        /\ UNCHANGED <<conn, serv_list, from, ts, now, splits>>

Tick ==
    /\ now <= MaxTime /\ now' = now + 1
    /\ UNCHANGED <<conn, serv_list, wire, from, chanvars, splits, acts, emptied>>

\* cleanup_channels.
Cleanup(s) ==
    /\ exists[s] /\ Members(s) = {}
    /\ exists' = [exists EXCEPT ![s] = FALSE]
    /\ UNCHANGED <<conn, serv_list, wire, from, mem, ts, now, splits, acts, emptied>>

---------------------------------------------------------------------------
(* Messages.                                                               *)

\* The next message from t to s has this type; s has established the link.
Reads(s, t, type) ==
    t \in serv_list[s] /\ wire[t, s] # <<>> /\ Head(wire[t, s]).type = type

Read(s, t) == [wire EXCEPT ![<<t, s>>] = Tail(@)]

\* NICK introduces clients.
ReadNick(s, t) ==
    /\ Reads(s, t, "nick")
    /\ LET m == Head(wire[t, s])
       IN  /\ from' = [from EXCEPT ![s] = [u \in Clients |->
                         IF u \in m.clients /\ @[u] = Nobody THEN t ELSE @[u]]]
           /\ wire' = sendto_server(Read(s, t), s, t, <<m>>)
    /\ UNCHANGED <<conn, serv_list, chanvars, now, splits, acts, emptied>>

\* QUIT, or SQUIT with the clients behind the lost server.
ReadQuit(s, t) ==
    /\ Reads(s, t, "quit")
    /\ LET lost == {u \in Head(wire[t, s]).clients : from[s][u] = t}
       IN  /\ from' = [from EXCEPT ![s] = [u \in Clients |->
                         IF u \in lost THEN Nobody ELSE @[u]]]
           /\ \E stays \in BOOLEAN : Gone(s, lost, stays)
           /\ wire' = IF lost = {} THEN Read(s, t)
                      ELSE sendto_server(Read(s, t), s, t, <<Quit(lost)>>)
    /\ History
    /\ UNCHANGED <<conn, serv_list, ts, now, splits, acts>>

\* part_one_client: ignored, and not relayed, unless the client is a member.
ReadPart(s, t) ==
    /\ Reads(s, t, "part")
    /\ LET m == Head(wire[t, s])
           gone == m.clients \cap Members(s)
       IN  /\ Gone(s, gone, FALSE)
           /\ wire' = IF gone = {} THEN Read(s, t)
                      ELSE sendto_server(Read(s, t), s, t, <<m>>)
    /\ History
    /\ UNCHANGED <<conn, serv_list, from, ts, now, splits, acts>>

\* ms_sjoin: relayed, with the status that was kept and the timestamp that won,
\* when it named somebody behind the link it came from.
ReadSjoin(s, t) ==
    /\ Reads(s, t, "sjoin")
    /\ LET m == Head(wire[t, s])
           r == SjoinTS(~exists[s], Cardinality(Members(s)), DOMAIN m.nicks # {},
                        m.ts, ts[s])
           people == {u \in DOMAIN m.nicks : from[s][u] = t}
           given(u) == IF r.new THEN AsReceived(m.nicks[u]) ELSE "peons"
           kept(u) == IF r.our \/ mem[s][u] = NoList THEN mem[s][u] ELSE "peons"
           relayed == SJOIN(r.ts, [u \in DOMAIN m.nicks \cap Known(s) |->
                                     IF r.new THEN m.nicks[u] ELSE "peons"])
       IN  /\ ~r.ignore
           /\ exists' = [exists EXCEPT ![s] = TRUE]
           /\ ts' = [ts EXCEPT ![s] = r.ts]
           /\ mem' = [mem EXCEPT ![s] = [u \in Clients |->
                        IF u \in people /\ @[u] = NoList THEN given(u) ELSE kept(u)]]
           /\ wire' = IF people = {} THEN Read(s, t)
                      ELSE sendto_server(Read(s, t), s, t, <<relayed>>)
    /\ History
    /\ UNCHANGED <<conn, serv_list, from, now, splits, acts>>

---------------------------------------------------------------------------
(* The specification.                                                      *)

\* Servers start apart, each with its own clients on the channel.
Init ==
    /\ conn = {} /\ serv_list = [s \in Servers |-> {}]
    /\ wire = [p \in Servers \X Servers |-> <<>>]
    /\ from = [s \in Servers |-> [u \in Clients |-> IF Home[u] = s THEN s ELSE Nobody]]
    /\ \E m \in [Clients -> StartLists \cup {NoList}], t \in [Servers -> {1, 2}] :
         /\ mem = [s \in Servers |-> [u \in Clients |-> IF Home[u] = s THEN m[u] ELSE NoList]]
         /\ ts = [s \in Servers |-> IF MembersIn(mem[s]) = {} THEN 1 ELSE t[s]]
    /\ exists = [s \in Servers |-> Members(s) # {}]
    /\ now = 2 /\ splits = 0 /\ acts = 0 /\ emptied = FALSE

Next ==
    \/ \E e \in Edges : Connect(e)
    \/ \E x, y \in Servers : Burst(x, y) \/ Split(x, y)
    \/ \E u \in Clients : Join(u) \/ Part(u)
    \/ Tick
    \/ \E s \in Servers : Cleanup(s)
    \/ \E s, t \in Servers :
         ReadNick(s, t) \/ ReadQuit(s, t) \/ ReadPart(s, t) \/ ReadSjoin(s, t)

Spec == Init /\ [][Next]_vars

---------------------------------------------------------------------------
(* Properties.                                                             *)

\* No message is under way and every connection is established at both ends.
Quiet ==
    /\ \A x, y \in Servers : wire[x, y] = <<>>
    /\ \A e \in conn : \A x, y \in e : x # y => y \in serv_list[x]

\* README.TSora: the final state is independent of the order in which channel
\* descriptions arrive, and the same on all servers.  When the network is
\* quiet, linked servers agree on who is on the channel, whatever order bursts,
\* joins, parts and losses of links crossed in; and on everybody's status and
\* the timestamp as long as the channel has always had a member on every server
\* that once had it, although each server merges channels in an order of its own.
Converged ==
    Quiet => \A e \in conn : \A x, y \in e :
        /\ Members(x) = Members(y)
        /\ emptied \/ (mem[x] = mem[y] /\ (Members(x) # {} => ts[x] = ts[y]))

\* No ghosts: a member is a client the server knows, and a quiet server knows
\* exactly the clients it can reach, however many links were lost meanwhile.
NoGhosts ==
    /\ \A s \in Servers : Members(s) \subseteq Known(s)
    /\ Quiet => \A e \in conn : \A x, y \in e : Known(x) = Known(y)
    /\ Quiet => \A s \in Servers, u \in Clients :
                  from[s][u] \in serv_list[s] \cup {s, Nobody}
============================================================================
