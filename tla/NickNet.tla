------------------------------ MODULE NickNet ------------------------------
(***************************************************************************)
(* Nicknames on a network of servers: NICK introductions, the timestamp    *)
(* rules of nick collisions, KILL, QUIT, SQUIT and user modes.  Links are  *)
(* FIFO, form a forest and have the default capabilities, UID among them:  *)
(* a client is introduced with an id (CLIENT), a KILL names the id, and a  *)
(* prefix names the nick.                                                  *)
(*                                                                         *)
(* A client takes a nick when it registers and keeps it: a nick change on  *)
(* a linked server calls a protocol handler that p_ts5 leaves NULL.        *)
(***************************************************************************)
EXTENDS Naturals, FiniteSets, SequencesExt, Forest

CONSTANTS
    Servers, Clients, Nicks,
    Edges,          \* the links the configuration allows: a forest
    Home,           \* the server each client connects to
    UserHosts,      \* user@host pairs
    Opers,          \* the users with an operator block
    Logins,         \* the nick, the user and the time each client may register with
    MaxTime,        \* bound on CurrentTime, which each server sets for itself
    MaxActs,        \* bound on QUIT and KILL commands
    MaxSplits,      \* bound on the links lost
    NoNick,         \* the nick and user of a server or an unregistered client
    Unset           \* ubuf before its first use: the empty string

ASSUME NetAssumption ==
    /\ IsFiniteSet(Servers) /\ IsFiniteSet(Clients) /\ Servers \cap Clients = {}
    /\ NoNick \notin Nicks
    /\ Clients \subseteq DOMAIN Home /\ \A u \in Clients : Home[u] \in Servers
    /\ IsForest(Servers, Edges)
    /\ Opers \subseteq UserHosts
    /\ Clients \subseteq DOMAIN Logins
    /\ \A u \in Clients :
          Logins[u] \subseteq [nick : Nicks, user : UserHosts, ts : 1..MaxTime]
    /\ MaxTime \in Nat /\ MaxActs \in Nat /\ MaxSplits \in Nat

VARIABLES
    conn,       \* the links with a connection
    serv_list,  \* serv_list[s]: the servers s has established, newest first
    wire,       \* wire[x, y]: the messages from x to y
    list,       \* list[s]: GlobalClientList, newest first, s itself last
    ubuf,       \* ubuf[s]: the static buffer of ts_burst_client
    splits, acts,
    born,       \* history: the nick, timestamp and user each client registered with
    killed,     \* history: clients a server has killed, at home
    raced       \* history: nicks given up while an introduction was crossing,
                \* refused, killed by name or by an operator

vars == <<conn, serv_list, wire, list, ubuf, splits, acts, born, killed, raced>>
netvars == <<conn, serv_list, splits>>

UModes == {"i", "o"}

Entry == [id : Clients \cup Servers, nick : Nicks \cup {NoNick}, ts : Nat,
          user : UserHosts \cup {NoNick}, modes : SUBSET UModes, from : Servers]

Message ==
    [type : {"server", "squit"}, id : Servers]
      \cup [type : {"nick"}, id : Clients, nick : Nicks, ts : Nat, user : UserHosts,
            modes : (SUBSET UModes) \cup {Unset}]
      \cup [type : {"mode"}, by : Nicks, modes : SUBSET UModes]
      \cup [type : {"quit"}, by : Nicks]
      \cup [type : {"kill"}, by : Nicks \cup {NoNick}, id : Clients]
      \cup [type : {"killnick"}, nick : Nicks]

TypeOK ==
    /\ conn \subseteq Edges
    /\ \A s \in Servers : ToSet(serv_list[s]) \subseteq Servers /\ IsInjective(serv_list[s])
    /\ \A x, y \in Servers : ToSet(wire[x, y]) \subseteq Message
    /\ \A s \in Servers : ToSet(list[s]) \subseteq Entry
    /\ ubuf \in [Servers -> (SUBSET UModes) \cup {Unset}]
    /\ splits \in 0..MaxSplits /\ acts \in 0..MaxActs
    /\ born \in [Clients -> [nick : Nicks \cup {NoNick}, ts : 0..MaxTime,
                               user : UserHosts \cup {NoNick}]]
    /\ killed \subseteq Clients /\ raced \subseteq Nicks

---------------------------------------------------------------------------
(* The tables.                                                             *)

IsClientEntry(e) == e.id \in Clients
ServerEntry(y, t) == 
    [id |-> y, nick |-> NoNick, ts |-> 0, user |-> NoNick, modes |-> {}, from |-> t]

\* The server an id belongs to.
ServerOf(i) == IF i \in Clients THEN Home[i] ELSE i

\* find_client: by nick, and find_id.
Named(l, n) == {e \in ToSet(l) : IsClientEntry(e) /\ e.nick = n}
WithId(l, i) == {e \in ToSet(l) : e.id = i}

\* Mutant: the client is marked dead and stays in the tables.
Without_StillThere(l, es) == l

\* exit_one_client on every entry of es: what is left of the list l.
Without(l, es) ==
    LET left[i \in 0..Len(l)] ==
            IF i = 0 THEN <<>>
            ELSE IF l[i] \in es THEN left[i - 1] ELSE Append(left[i - 1], l[i])
    IN  left[Len(l)]

\* The umodes of e grow.
AddModes(l, e, modes) ==
    [i \in DOMAIN l |-> IF l[i] = e THEN [e EXCEPT !.modes = @ \cup modes] ELSE l[i]]

\* The servers that are behind y, seen from s: what y has behind the link over which
\* s reaches it.
Dependents(s, y) ==
    UNION {Behind(Servers, Edges, y, z) :
             z \in {z \in Servers : {y, z} \in Edges /\ s \in Behind(Servers, Edges, z, y)}}

---------------------------------------------------------------------------
(* Sending.                                                                *)

Links(s) == ToSet(serv_list[s])

Send(w, s, ts, msg) ==
    [p \in Servers \X Servers |-> IF p[1] = s /\ p[2] \in ts THEN Append(w[p], msg) ELSE w[p]]

\* sendto_server: to every link but one.
sendto_server(w, s, one, msg) == Send(w, s, Links(s) \ {one}, msg)

\* kill_client_ll_serv_butone and relay_kill: KILL by id.
Kill(by, i) == [type |-> "kill", by |-> by, id |-> i]

\* ts_burst_client for the entries of l in turn: the line carries the modes ubuf has
\* from the call before, and then ubuf is filled in.  A server's name is no nickname:
\* the line is refused and has no effect.
NickLine(l, buf, i) ==
    [type |-> "nick", id |-> l[i].id, nick |-> l[i].nick, ts |-> l[i].ts, user |-> l[i].user,
     modes |-> IF i = 1 THEN buf ELSE l[i - 1].modes]

\* Mutant: servers are introduced like clients.
ts_burst_client_Servers(l, buf) == [i \in DOMAIN l |-> NickLine(l, buf, i)]

ts_burst_client(l, buf) ==
    Without([i \in DOMAIN l |-> NickLine(l, buf, i)],
            {NickLine(l, buf, i) : i \in {j \in DOMAIN l : ~IsClientEntry(l[j])}})

\* send_umode_out, as ts_burst_client calls it: what the other links are sent.
send_umode_out(l) ==
    LET line(i) == [type |-> "mode", by |-> l[i].nick, modes |-> l[i].modes]
    IN  Without([i \in DOMAIN l |-> line(i)], {line(i) : i \in {j \in DOMAIN l : l[j].modes = {}}})

Times(n, e) == [i \in 1..n |-> e]

\* introduce_client_globally: ts_burst_client on every link but the one it came from,
\* to which all of them are others.
introduce_client_globally(w, s, one, e) ==
    LET told == Without(serv_list[s], {one})
        line(j) == ts_burst_client(<<e>>, IF j = 1 THEN ubuf[s] ELSE e.modes)
        sent(t) ==
            IF t \in ToSet(told)
            THEN LET j == CHOOSE j \in DOMAIN told : told[j] = t
                 IN  send_umode_out(Times(j - 1, e)) \o line(j)
                       \o send_umode_out(Times(Len(told) - j, e))
            ELSE send_umode_out(Times(Len(told), e))
    IN  [wire |-> [p \in Servers \X Servers |->
                     IF p[1] = s /\ p[2] \in Links(s) THEN w[p] \o sent(p[2]) ELSE w[p]],
         ubuf |-> IF told = <<>> THEN ubuf[s] ELSE e.modes]

\* Take an introduction: a new entry for e at s, passed on.
Introduce(l, w, s, one, e) ==
    LET sent == introduce_client_globally(w, s, one, e)
    IN  /\ list' = [list EXCEPT ![s] = <<e>> \o l]
        /\ wire' = sent.wire
        /\ ubuf' = [ubuf EXCEPT ![s] = sent.ubuf]

---------------------------------------------------------------------------
(* The history of races: a nick is given up, or passed on to the same user,*)
(* where an introduction of it has been sent or is arriving; a malformed   *)
(* introduction of it is refused; a KILL names it instead of the client; or*)
(* an operator kills the client while a server introduces it again.        *)

Crossing(w, s, n) ==
    \E y \in Servers : \E m \in ToSet(w[s, y]) \cup ToSet(w[y, s]) :
        m.type = "nick" /\ m.nick = n

GivenUp(s, n) ==
    \E e \in Named(list[s], n) : \A d \in Named(list'[s], n) : d # e /\ d.user = e.user

Races == {n \in Nicks : \E s \in Servers : GivenUp(s, n) /\ Crossing(wire', s, n)}
History == raced' = raced \cup Races

---------------------------------------------------------------------------
(* Links.                                                                  *)

\* accept_connection at one end, serv_connect at the other.
Connect(x, y) ==
    /\ {x, y} \in Edges \ conn
    /\ conn' = conn \cup {{x, y}}
    /\ list' = [list EXCEPT ![x] = <<ServerEntry(y, y)>> \o @,
                            ![y] = <<ServerEntry(x, x)>> \o @]
    /\ UNCHANGED <<serv_list, wire, ubuf, splits, acts, born, killed, raced>>

\* The connections of x that have not become a server.
HalfOpen(x) == {y \in Servers : {x, y} \in conn} \ Links(x)

\* server_estab and burst_all: y is told of every server and every client, the others
\* of y (and of the clients' modes).
Burst(x, y) ==
    LET l == list[x]
        server(e) == [type |-> "server", id |-> e.id]
        servers == Without(Reverse(l), {e \in ToSet(l) : IsClientEntry(e) \/ e.from \in {x, y}})
        sent(t) ==
            CASE t = y -> [i \in DOMAIN servers |-> server(servers[i])] \o ts_burst_client(l, ubuf[x])
              [] t \in Links(x) -> <<server(ServerEntry(y, y))>> \o send_umode_out(l)
              [] OTHER -> <<>>
    IN  /\ {x, y} \in conn /\ y \notin Links(x)
        /\ HalfOpen(x) = {y}
        /\ serv_list' = [serv_list EXCEPT ![x] = <<y>> \o @]
        /\ wire' = [p \in Servers \X Servers |-> IF p[1] = x THEN wire[p] \o sent(p[2]) ELSE wire[p]]
        /\ ubuf' = [ubuf EXCEPT ![x] = l[Len(l)].modes]
        /\ UNCHANGED <<conn, list, splits, acts, born, killed, raced>>

\* exit_client on a server for the servers of lost[s]: what is behind the link
\* goes, and the other links are sent SQUIT (remove_dependents).
LoseLinks(lost) ==
    LET left(s) == Without(serv_list[s], lost[s])
        gone(s) == Without(serv_list[s], Links(s) \ lost[s])
        squits(s) == [i \in DOMAIN gone(s) |-> [type |-> "squit", id |-> gone(s)[i]]]
    IN  /\ conn' = {e \in conn : \A x, y \in e : x # y => y \notin lost[x]}
        /\ serv_list' = [s \in Servers |-> left(s)]
        /\ wire' = [p \in Servers \X Servers |->
                      IF p[2] \in lost[p[1]] \/ p[1] \in lost[p[2]] THEN <<>>
                      ELSE IF p[2] \in ToSet(left(p[1])) THEN wire[p] \o squits(p[1])
                      ELSE wire[p]]

Split(x, y) ==
    /\ {x, y} \in conn /\ splits < MaxSplits
    /\ splits' = splits + 1
    /\ LET lost == [s \in Servers |-> IF s = x THEN {y} ELSE IF s = y THEN {x} ELSE {}]
       IN  /\ LoseLinks(lost)
           /\ list' = [s \in Servers |-> Without(list[s], {e \in ToSet(list[s]) : e.from \in lost[s]})]
    /\ History
    /\ UNCHANGED <<ubuf, acts, born, killed>>

\* The process of x ends and starts again without clients.
Restart(x) ==
    LET peers == {y \in Servers : {x, y} \in conn}
        lost == [s \in Servers |-> IF s = x THEN peers ELSE IF s \in peers THEN {x} ELSE {}]
    IN  /\ LoseLinks(lost)
        /\ list' = [s \in Servers |->
                      IF s = x THEN <<ServerEntry(x, x)>>
                      ELSE Without(list[s], {e \in ToSet(list[s]) : e.from \in lost[s]})]
        /\ ubuf' = [ubuf EXCEPT ![x] = Unset]
        /\ History
        /\ UNCHANGED <<acts, born, killed>>

\* With another connection half open, burst_all reads through its NULL servptr.
BurstDies(x, y) ==
    /\ y \in HalfOpen(x) /\ HalfOpen(x) # {y}
    /\ Restart(x)
    /\ UNCHANGED splits

---------------------------------------------------------------------------
(* Users.                                                                  *)

\* mr_nick, set_initial_nick, register_local_user: the nick must be free here.
Register(u, login) ==
    LET s == Home[u]
        e == [id |-> u, nick |-> login.nick, ts |-> login.ts, user |-> login.user,
              modes |-> {"i"}, from |-> s]
    IN  /\ born[u].nick = NoNick /\ Named(list[s], login.nick) = {}
        /\ born' = [born EXCEPT ![u] = login]
        /\ Introduce(list[s], wire, s, s, e)
        /\ UNCHANGED <<netvars, acts, killed, raced>>

Acts == acts < MaxActs /\ acts' = acts + 1

\* m_quit, or any other exit of a local client.
Quit(u) ==
    LET s == Home[u]
    IN  \E e \in WithId(list[s], u) :
          /\ Acts
          /\ list' = [list EXCEPT ![s] = Without(@, {e})]
          /\ wire' = sendto_server(wire, s, s, [type |-> "quit", by |-> e.nick])
          /\ History
          /\ UNCHANGED <<netvars, ubuf, born, killed>>

\* m_oper: the client gets +o, and the servers are told.
Oper(u) ==
    LET s == Home[u]
    IN  \E e \in WithId(list[s], u) :
          /\ e.user \in Opers /\ "o" \notin e.modes
          /\ list' = [list EXCEPT ![s] = AddModes(@, e, {"o"})]
          /\ wire' = sendto_server(wire, s, s, [type |-> "mode", by |-> e.nick, modes |-> {"o"}])
          /\ UNCHANGED <<netvars, ubuf, acts, born, killed, raced>>

\* mo_kill on a client of another server (a local one just exits: Quit).
OperKill(u, n) ==
    LET s == Home[u]
    IN  \E e \in WithId(list[s], u), d \in Named(list[s], n) :
          /\ "o" \in e.modes /\ d.from # s /\ Acts
          /\ list' = [list EXCEPT ![s] = Without(@, {d})]
          /\ wire' = sendto_server(wire, s, s, Kill(e.nick, d.id))
          /\ raced' = raced \cup {n}
          /\ UNCHANGED <<netvars, ubuf, born, killed>>

---------------------------------------------------------------------------
(* Messages.                                                               *)

Arrives(s, t) == wire[t, s] # <<>> /\ t \in Links(s)
Msg(s, t) == Head(wire[t, s])
Read(s, t) == [wire EXCEPT ![<<t, s>>] = Tail(@)]
Reads(s, t, types) == Arrives(s, t) /\ Msg(s, t).type \in types

\* The client a message is from: the prefix of mode, quit and of an oper's kill.
HasPrefix(m) == m.type \in {"mode", "quit"} \/ (m.type = "kill" /\ m.by # NoNick)
Prefix(s, t) == {e \in Named(list[s], Msg(s, t).by) : e.from = t}

\* parse: the prefix is unknown (remove_unknown answers with a KILL) or comes
\* from the wrong direction (cancel_clients ignores the message).
ReadFakePrefix(s, t) ==
    /\ Arrives(s, t) /\ HasPrefix(Msg(s, t)) /\ Prefix(s, t) = {}
    /\ LET n == Msg(s, t).by
       IN  wire' = IF Named(list[s], n) # {} THEN Read(s, t)
                   ELSE Send(Read(s, t), s, {t}, [type |-> "killnick", nick |-> n])
    /\ UNCHANGED <<netvars, list, ubuf, acts, born, killed, raced>>

\* ms_server.
ReadServer(s, t) ==
    /\ Reads(s, t, {"server"})
    /\ list' = [list EXCEPT ![s] = <<ServerEntry(Msg(s, t).id, t)>> \o @]
    /\ wire' = sendto_server(Read(s, t), s, t, Msg(s, t))
    /\ UNCHANGED <<netvars, ubuf, acts, born, killed, raced>>

\* ms_squit: the server and everything behind it.
ReadSquit(s, t) ==
    /\ Reads(s, t, {"squit"})
    /\ LET gone == Dependents(s, Msg(s, t).id)
       IN  list' = [list EXCEPT ![s] = Without(@, {e \in ToSet(@) : ServerOf(e.id) \in gone})]
    /\ wire' = sendto_server(Read(s, t), s, t, Msg(s, t))
    /\ History
    /\ UNCHANGED <<netvars, ubuf, acts, born, killed>>

\* Mutants: with equal timestamps the first stays; the comparison is reversed.
Verdict_TieStays(newts, ts, sameuser) ==
    IF newts = ts \/ (IF sameuser THEN newts < ts ELSE newts > ts) THEN "ignore" ELSE "replace"

Verdict_Swapped(newts, ts, sameuser) ==
    CASE newts = ts -> "both"
      [] newts # ts /\ (IF sameuser THEN newts > ts ELSE newts < ts) -> "ignore"
      [] OTHER -> "replace"

\* What perform_nick_collides does with the client that has the nick and with
\* the one that is introduced.
Verdict(newts, ts, sameuser) ==
    CASE newts = ts -> "both"
      [] newts # ts /\ (IF sameuser THEN newts < ts ELSE newts > ts) -> "ignore"
      [] OTHER -> "replace"

\* tsm_client, client_from_server, perform_nick_collides.
ReadNick(s, t) ==
    /\ Reads(s, t, {"nick"}) /\ Msg(s, t).modes # Unset
    /\ LET m == Msg(s, t)
           new == [id |-> m.id, nick |-> m.nick, ts |-> m.ts, user |-> m.user,
                   modes |-> m.modes, from |-> t]
           dies(e) == IF e.from = s THEN {e.id} ELSE {}
       IN  \/ /\ Named(list[s], m.nick) = {}
              /\ Introduce(list[s], Read(s, t), s, t, new)
              /\ UNCHANGED killed
           \/ \E e \in Named(list[s], m.nick) :
                LET verdict == Verdict(m.ts, e.ts, m.user = e.user)
                IN  \/ /\ verdict = "both"
                       /\ list' = [list EXCEPT ![s] = Without(@, {e})]
                       /\ wire' = sendto_server(Read(s, t), s, s, Kill(NoNick, e.id))
                       /\ killed' = killed \cup dies(e)
                       /\ UNCHANGED ubuf
                    \/ /\ verdict = "ignore"
                       /\ wire' = Read(s, t)
                       /\ UNCHANGED <<list, ubuf, killed>>
                    \/ /\ verdict = "replace"
                       /\ Introduce(Without(list[s], {e}),
                                    sendto_server(Read(s, t), s, t, Kill(NoNick, e.id)),
                                    s, t, new)
                       /\ killed' = killed \cup dies(e)
    /\ History
    /\ UNCHANGED <<netvars, acts, born>>

\* A line without its umode parameter has the host where the user name is.  A
\* host of at most USERLEN characters passes check_clean_user, and tsm_client
\* takes the length of parv[9], which is NULL;
ReadShortNick(s, t) ==
    /\ Reads(s, t, {"nick"}) /\ Msg(s, t).modes = Unset
    /\ Restart(s)
    /\ UNCHANGED splits

\* a longer one is refused, with a KILL of the nick.
ReadBadUser(s, t) ==
    LET n == Msg(s, t).nick
    IN  /\ Reads(s, t, {"nick"}) /\ Msg(s, t).modes = Unset
        /\ wire' = Send(Read(s, t), s, {t}, [type |-> "killnick", nick |-> n])
        /\ raced' = raced \cup {n}
        /\ UNCHANGED <<netvars, list, ubuf, acts, born, killed>>

\* user_mode for a client of another server: what changes is passed on.
ReadMode(s, t) ==
    /\ Reads(s, t, {"mode"})
    /\ \E e \in Prefix(s, t) :
         LET added == Msg(s, t).modes \ e.modes
         IN  /\ list' = [list EXCEPT ![s] = AddModes(@, e, added)]
             /\ wire' = IF added = {} THEN Read(s, t)
                        ELSE sendto_server(Read(s, t), s, t,
                               [type |-> "mode", by |-> e.nick, modes |-> added])
    /\ UNCHANGED <<netvars, ubuf, acts, born, killed, raced>>

\* ms_quit.
ReadQuit(s, t) ==
    /\ Reads(s, t, {"quit"})
    /\ \E e \in Prefix(s, t) : list' = [list EXCEPT ![s] = Without(@, {e})]
    /\ wire' = sendto_server(Read(s, t), s, t, Msg(s, t))
    /\ History
    /\ UNCHANGED <<netvars, ubuf, acts, born, killed>>

\* ms_kill: the victim exits without a QUIT; KILL is relayed if it was known.
Killed(s, t, by, victims) ==
    /\ list' = [list EXCEPT ![s] = Without(@, victims)]
    /\ wire' = IF victims = {} THEN Read(s, t)
               ELSE sendto_server(Read(s, t), s, t, Kill(by, (CHOOSE e \in victims : TRUE).id))
    /\ killed' = killed \cup {e.id : e \in {v \in victims : v.from = s /\ by = NoNick}}

ReadKill(s, t) ==
    /\ Reads(s, t, {"kill"}) /\ (HasPrefix(Msg(s, t)) => Prefix(s, t) # {})
    /\ Killed(s, t, Msg(s, t).by, WithId(list[s], Msg(s, t).id))
    /\ History
    /\ UNCHANGED <<netvars, ubuf, acts, born>>

\* The KILL of remove_unknown and check_clean_user names a nick, whoever has it by now.
ReadKillNick(s, t) ==
    /\ Reads(s, t, {"killnick"})
    /\ LET n == Msg(s, t).nick
           victims == Named(list[s], n)
       IN  /\ Killed(s, t, NoNick, victims)
           /\ raced' = raced \cup Races \cup (IF victims = {} THEN {} ELSE {n})
    /\ UNCHANGED <<netvars, ubuf, acts, born>>

---------------------------------------------------------------------------
(* The specification.                                                      *)

Init ==
    /\ conn = {} /\ serv_list = [s \in Servers |-> <<>>]
    /\ wire = [p \in Servers \X Servers |-> <<>>]
    /\ list = [s \in Servers |-> <<ServerEntry(s, s)>>]
    /\ ubuf = [s \in Servers |-> Unset]
    /\ splits = 0 /\ acts = 0
    /\ born = [u \in Clients |-> [nick |-> NoNick, ts |-> 0, user |-> NoNick]]
    /\ killed = {} /\ raced = {}

Next ==
    \/ \E x, y \in Servers : Connect(x, y) \/ Burst(x, y) \/ BurstDies(x, y) \/ Split(x, y)
    \/ \E u \in Clients : \/ Quit(u) \/ Oper(u)
                           \/ \E n \in Nicks : OperKill(u, n)
                           \/ \E login \in Logins[u] : Register(u, login)
    \/ \E s \in Servers : \E t \in Links(s) :
         \/ ReadFakePrefix(s, t) \/ ReadServer(s, t) \/ ReadSquit(s, t)
         \/ ReadNick(s, t) \/ ReadShortNick(s, t) \/ ReadBadUser(s, t) \/ ReadMode(s, t)
         \/ ReadQuit(s, t) \/ ReadKill(s, t) \/ ReadKillNick(s, t)

Spec == Init /\ [][Next]_vars

---------------------------------------------------------------------------
(* Properties.                                                             *)

\* No message is under way and every connection is established at both ends.
Quiet ==
    /\ \A x, y \in Servers : wire[x, y] = <<>>
    /\ \A e \in conn : \A x, y \in e : x # y => y \in Links(x)

\* find_client finds the client: no two clients a server knows have the same
\* nick, and no client is on the list twice.
NicksUnique ==
    \A s \in Servers : \A i, j \in DOMAIN list[s] :
        /\ list[s][i].id = list[s][j].id => i = j
        /\ list[s][i].nick = list[s][j].nick /\ IsClientEntry(list[s][i]) => i = j

\* When the network is quiet, linked servers agree who has a nick and since
\* when, in whatever order introductions, kills, quits and lost links crossed;
\* unless somebody gave the nick up while an introduction of it was crossing,
\* a malformed introduction of it was refused, a KILL named the nick, or an
\* operator killed who had it (a KILL may cross an introduction after a split).
NicksAgree ==
    Quiet => \A e \in conn : \A x, y \in e : \A n \in Nicks \ raced :
        {<<c.id, c.ts>> : c \in Named(list[x], n)} = {<<c.id, c.ts>> : c \in Named(list[y], n)}

\* A server kills a client only over its nick: somebody else took the same
\* nick and, by the rules of README.TSora, must not lose it to the client: he
\* is older or, being the same user, younger, or as old.  (KILL by nick, and a
\* nick given up while it was crossing, are the exceptions.)
KilledForCause ==
    \A u \in killed : born[u].nick \in raced \/ \E w \in Clients \ {u} :
        /\ born[w].nick = born[u].nick
        /\ IF born[w].user = born[u].user THEN born[w].ts >= born[u].ts
                                           ELSE born[w].ts <= born[u].ts

\* remove_unknown kills because "there is a ghost user on the other server":
\* no server ever kills a client whose nick nobody else has taken.
KilledOverNick ==
    \A u \in killed : \E w \in Clients \ {u} : born[w].nick = born[u].nick
============================================================================
