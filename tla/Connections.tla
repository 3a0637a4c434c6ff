--------------------------- MODULE Connections ---------------------------
(***************************************************************************)
(* The life of a local connection: accepted on a port, looked up in the    *)
(* DNS and asked for its ident (s_auth.c, adns.c) while a timeout runs,    *)
(* released to the reader, registered against the configuration            *)
(* (s_user.c, s_conf.c), made an operator and undone, detached to persist  *)
(* without a socket (client.c), exited, and freed by an event 4 seconds    *)
(* later.  The configuration is reread at any time.                        *)
(*                                                                         *)
(* The server is one thread: between two callbacks of its event loop       *)
(* nothing interferes, but a callback calls functions that may exit the    *)
(* client it is about.  calls is the stack of the calls still to be made,  *)
(* its head the next one.  A request for authentication is named by its    *)
(* client; all clients have one IP address.                                *)
(*                                                                         *)
(* Four paths end the process: in Unlink, VerifyBanned, Reclaims and Exit. *)
(* They are modelled as up becoming FALSE.                                 *)
(***************************************************************************)
EXTENDS ConfItems, Sequences

CONSTANTS
    Conns,          \* addresses of struct Client
    number_per_ip,  \* of the class block
    MinCount        \* bound on how far below 0 TOO_FAST takes the count of an IP

\* The heap is finite, and has room for what the server starts with.
ASSUME ConnAssumption ==
    /\ IsFiniteSet(Conns)
    /\ HasRoom(EmptyConf)
    /\ number_per_ip \in Nat /\ MinCount \in Int

VARIABLES
    cf,                 \* the configuration, see ConfItems
    client,             \* free, unknown, person or dead
    listening,          \* clients whose localClient->listener is set
    confs,              \* localClient->confs
    iphash,             \* FLAGS_IPHASH
    persisting,         \* FLAGS2_PERSISTING
    unknown_list, lclient_list, oper_list, GlobalClientList, dead_list,
    auth_poll_list,     \* clients whose request is linked
    dns_pending,        \* AM_DNS_PENDING of the request
    queries,            \* clients whose query adns knows
    ident,              \* clients with an open ident socket, connecting or pending
    ip_count,           \* count of the IP_ENTRY; 0 when there is none
    calls,              \* calls still to be made, the next one first
    up                  \* the process runs

clientVars == <<client, listening, confs, iphash, persisting>>
listVars == <<unknown_list, lclient_list, oper_list, GlobalClientList, dead_list>>
authVars == <<auth_poll_list, dns_pending, queries, ident>>
vars == <<cf, clientVars, listVars, authVars, ip_count, calls, up>>

Ops == {"release", "read", "verify_user", "verify_deop", "verify_client", "exit", "unlink"}

TypeOK ==
    /\ cf \in Conf
    /\ client \in [Conns -> {"free", "unknown", "person", "dead"}]
    /\ listening \subseteq Conns /\ iphash \subseteq Conns /\ persisting \subseteq Conns
    /\ confs \in [Conns -> SUBSET Items]
    /\ unknown_list \subseteq Conns /\ lclient_list \subseteq Conns
    /\ oper_list \subseteq Conns /\ GlobalClientList \subseteq Conns /\ dead_list \subseteq Conns
    /\ auth_poll_list \subseteq Conns /\ dns_pending \subseteq Conns /\ queries \subseteq Conns
    /\ ident \subseteq Conns
    /\ ip_count \in Int
    /\ calls \in Seq(Ops \X Conns) /\ Len(calls) <= 2
    /\ up \in BOOLEAN

Init ==
    /\ \E v \in Versions : cf = read_conf(EmptyConf, v, TRUE)
    /\ client = [c \in Conns |-> "free"] /\ confs = [c \in Conns |-> {}]
    /\ listening = {} /\ iphash = {} /\ persisting = {}
    /\ unknown_list = {} /\ lclient_list = {} /\ oper_list = {}
    /\ GlobalClientList = {} /\ dead_list = {}
    /\ auth_poll_list = {} /\ dns_pending = {} /\ queries = {} /\ ident = {}
    /\ ip_count = 0 /\ calls = <<>> /\ up = TRUE

Idle == up /\ calls = <<>>
Calling(op, c) == up /\ calls # <<>> /\ Head(calls) = <<op, c>>

\* IsDead: an exited client whose memory is still there.
IsDead(c) == client[c] = "dead"
IsOper(c) == c \in oper_list

---------------------------------------------------------------------------
(* Accepting (listener.c, s_bsd.c, s_auth.c).                              *)

\* make_client: a struct Client on the unknown_list.
make_client(c) ==
    /\ client[c] = "free"
    /\ client' = [client EXCEPT ![c] = "unknown"]
    /\ unknown_list' = unknown_list \cup {c}
    /\ UNCHANGED <<confs, iphash, persisting, lclient_list, oper_list, GlobalClientList, dead_list>>

\* accept_connection and add_connection with start_auth.  The DNS query may be
\* refused by adns, which nobody looks at; the ident socket may not be had.
AcceptConnection(c, submitted, socket) ==
    /\ Idle /\ cf.listener.active
    /\ make_client(c)
    /\ listening' = listening \cup {c}
    /\ cf' = [cf EXCEPT !.listener.ref_count = @ + 1]
    /\ auth_poll_list' = auth_poll_list \cup {c}
    /\ dns_pending' = dns_pending \cup {c}
    /\ queries' = IF submitted THEN queries \cup {c} ELSE queries
    /\ ident' = IF socket THEN ident \cup {c} ELSE ident
    /\ UNCHANGED <<ip_count, calls, up>>

\* add_connection where getpeername fails: the client is left on the
\* unknown_list with fd 0 and no listener.
AcceptGone(c) ==
    /\ Idle /\ cf.listener.active
    /\ make_client(c)
    /\ UNCHANGED <<cf, listening, authVars, ip_count, calls, up>>

\* conf_connect_allowed refuses a connection that comes too soon after the last.
TooFast ==
    /\ Idle /\ cf.listener.active
    /\ ip_count > MinCount
    /\ ip_count' = ip_count - 1
    /\ UNCHANGED <<cf, clientVars, listVars, authVars, calls, up>>

---------------------------------------------------------------------------
(* Authentication (s_auth.c).                                              *)

\* The request of c has got one of its answers; with the other one it is
\* unlinked, its client released, and it is freed.
Answered(c) ==
    IF c \in dns_pending' \/ c \in ident'
    THEN UNCHANGED <<auth_poll_list, calls>>
    ELSE auth_poll_list' = auth_poll_list \ {c} /\ calls' = <<<<"release", c>>>>

\* auth_dns_callback, called by dns_do_callbacks for an answer or a failure.
AuthDns(c) ==
    /\ Idle /\ c \in queries
    /\ queries' = queries \ {c}
    /\ dns_pending' = dns_pending \ {c}
    /\ UNCHANGED ident
    /\ Answered(c)
    /\ UNCHANGED <<cf, clientVars, listVars, ip_count, up>>

\* The last of auth_connect_callback and read_auth_reply: an ident or none.  (The
\* connected socket waits for the reply without a change here.)
AuthIdent(c) ==
    /\ Idle /\ c \in ident
    /\ ident' = ident \ {c}
    /\ UNCHANGED <<dns_pending, queries>>
    /\ Answered(c)
    /\ UNCHANGED <<cf, clientVars, listVars, ip_count, up>>

\* Mutant: the query is left to the resolver.
AuthTimeout_KeepsQuery(c) ==
    /\ Idle /\ c \in auth_poll_list
    /\ ident' = ident \ {c}
    /\ calls' = <<<<"release", c>>, <<"unlink", c>>>>
    /\ UNCHANGED <<cf, clientVars, listVars, auth_poll_list, dns_pending, queries, ip_count, up>>

\* timeout_auth_queries_event, for a request whose 30 seconds are over: the
\* client is released first, the request unlinked and freed after that.
AuthTimeout(c) ==
    /\ Idle /\ c \in auth_poll_list
    /\ ident' = ident \ {c}
    /\ queries' = queries \ {c}
    /\ calls' = <<<<"release", c>>, <<"unlink", c>>>>
    /\ UNCHANGED <<cf, clientVars, listVars, auth_poll_list, dns_pending, ip_count, up>>

\* The rest of it.  Where the release exited the client, delete_identd_queries
\* has freed node and request, and they are freed again.
Unlink(c) ==
    /\ Calling("unlink", c)
    /\ calls' = Tail(calls)
    /\ IF c \in auth_poll_list
       THEN auth_poll_list' = auth_poll_list \ {c} /\ dns_pending' = dns_pending \ {c} /\ up' = TRUE
       ELSE up' = FALSE /\ UNCHANGED <<auth_poll_list, dns_pending>>
    /\ UNCHANGED <<cf, clientVars, listVars, queries, ident, ip_count>>

\* release_auth_client: the client is put on the global list and read.
Release(c) ==
    /\ Calling("release", c)
    /\ GlobalClientList' = GlobalClientList \cup {c}
    /\ calls' = <<<<"read", c>>>> \o Tail(calls)
    /\ UNCHANGED <<cf, clientVars, unknown_list, lclient_list, oper_list, dead_list, authVars,
                   ip_count, up>>

---------------------------------------------------------------------------
(* Reading (packet.c): what a client sends, inside a release or later.     *)

\* c is read now: it has been released, has a socket and its turn has come.
Reads(c) ==
    \/ Calling("read", c)
    \/ Idle /\ c \in GlobalClientList /\ client[c] \in {"unknown", "person"} /\ c \notin persisting

\* What follows, in place of the read.
Next_(c, op) == calls' = <<<<op, c>>>> \o (IF calls = <<>> THEN <<>> ELSE Tail(calls))
Done == calls' = IF calls = <<>> THEN <<>> ELSE Tail(calls)

\* Nothing to read, or lines that change nothing here.
ReadNothing(c) ==
    /\ Calling("read", c) /\ Done
    /\ UNCHANGED <<cf, clientVars, listVars, authVars, ip_count, up>>

\* NICK and USER: register_local_user.
ReadUser(c) ==
    /\ Reads(c) /\ client[c] = "unknown"
    /\ Next_(c, "verify_user")
    /\ UNCHANGED <<cf, clientVars, listVars, authVars, ip_count, up>>

\* CLIENT with the ID and key of a registered client: m_client.
ReadClient(c) ==
    /\ Reads(c) /\ client[c] = "unknown"
    /\ \E t \in Conns : client[t] = "person"
    /\ Next_(c, "verify_client")
    /\ UNCHANGED <<cf, clientVars, listVars, authVars, ip_count, up>>

\* OPER with the right password: m_oper and oper_up.  find_conf_exact passes over
\* a block that has as many clients as its class allows.
ReadOper(c) ==
    /\ Idle /\ Reads(c) /\ client[c] = "person" /\ ~IsOper(c)
    /\ \E o \in Applying(cf, "operator") :
         /\ cf.item[o].clients < cf.class[cf.item[o].class].max
         /\ cf' = attach_conf(det_confs(cf, confs[c]), o)
         /\ confs' = [confs EXCEPT ![c] = {o}]
    /\ oper_list' = oper_list \cup {c}
    /\ UNCHANGED <<client, listening, iphash, persisting, unknown_list, lclient_list,
                   GlobalClientList, dead_list, authVars, ip_count, calls, up>>

\* remove_one_ip
remove_one_ip == IF ip_count # 0 THEN ip_count - 1 ELSE ip_count

\* MODE -o: user_mode gives up the operator block and looks for an auth block.
ReadDeop(c) ==
    /\ Idle /\ Reads(c) /\ IsOper(c)
    /\ cf' = det_confs(cf, confs[c])
    /\ confs' = [confs EXCEPT ![c] = {}]
    /\ oper_list' = oper_list \ {c}
    /\ ip_count' = remove_one_ip
    /\ calls' = <<<<"verify_deop", c>>>>
    /\ UNCHANGED <<client, listening, iphash, persisting, unknown_list, lclient_list,
                   GlobalClientList, dead_list, authVars, up>>

\* QUIT, an excess flood, or a CLIENT line with a wrong key.
ReadQuit(c) ==
    /\ Reads(c)
    /\ Next_(c, "exit")
    /\ UNCHANGED <<cf, clientVars, listVars, authVars, ip_count, up>>

\* error_exit_client: a client with umode +p is detached by detach_client.
ReadEof(c, persistant) ==
    /\ Reads(c)
    /\ IF persistant /\ client[c] = "person"
       THEN persisting' = persisting \cup {c} /\ Done
       ELSE Next_(c, "exit") /\ UNCHANGED persisting
    /\ UNCHANGED <<cf, client, listening, confs, iphash, listVars, authVars, ip_count, up>>

---------------------------------------------------------------------------
(* Access (check_client, verify_access, attach_iline in s_conf.c).         *)

\* attach_iline counts the client before it looks at the limit.
CountIp(c) == iphash' = iphash \cup {c} /\ ip_count' = ip_count + 1

\* The limit of the class is passed.
IsTooMany(i) ==
    /\ cf.item[i].class # Class0 /\ number_per_ip > 0
    /\ ip_count + 1 > number_per_ip

\* No auth block applies: NOT_AUTHORIZED.
VerifyRefused(c) ==
    /\ \E op \in {"verify_user", "verify_deop", "verify_client"} : Calling(op, c)
    /\ Applying(cf, "auth") = {}
    /\ Next_(c, "exit")
    /\ UNCHANGED <<cf, clientVars, listVars, authVars, ip_count, up>>

\* BANNED_CLIENT.  After -o it is not the client that exit_client gets, but me: its
\* fd is 0, which is not open, and fd_close asserts that it is.
VerifyBanned(c) ==
    /\ \/ \E op \in {"verify_user", "verify_client"} : Calling(op, c) /\ Next_(c, "exit") /\ UNCHANGED up
       \/ Calling("verify_deop", c) /\ Done /\ up' = FALSE
    /\ UNCHANGED <<cf, clientVars, listVars, authVars, ip_count>>

\* TOO_MANY, I_LINE_FULL.
VerifyFull(c) ==
    /\ \E op \in {"verify_user", "verify_deop", "verify_client"} : Calling(op, c)
    /\ \E i \in Applying(cf, "auth") : IsTooMany(i) \/ AttachAnswer(cf, i) # "attached"
    /\ CountIp(c)
    /\ Next_(c, "exit")
    /\ UNCHANGED <<cf, client, listening, confs, persisting, listVars, authVars, up>>

\* The block i is found and attached.
Attaches(c) ==
    /\ \E i \in Applying(cf, "auth") :
         /\ ~IsTooMany(i) /\ AttachAnswer(cf, i) = "attached"
         /\ cf' = attach_conf(cf, i)
         /\ confs' = [confs EXCEPT ![c] = @ \cup {i}]
    /\ CountIp(c)

\* register_local_user: bad password, full server, bad username and the like.
RegisterRejected(c) ==
    /\ Calling("verify_user", c)
    /\ Attaches(c)
    /\ Next_(c, "exit")
    /\ UNCHANGED <<client, listening, persisting, listVars, authVars, up>>

\* register_local_user, to its end.
Registered(c) ==
    /\ Calling("verify_user", c)
    /\ Attaches(c)
    /\ client' = [client EXCEPT ![c] = "person"]
    /\ unknown_list' = unknown_list \ {c}
    /\ lclient_list' = lclient_list \cup {c}
    /\ Done
    /\ UNCHANGED <<listening, persisting, oper_list, GlobalClientList, dead_list, authVars, up>>

\* user_mode: the client is an ordinary one again.
Deopped(c) ==
    /\ Calling("verify_deop", c)
    /\ Attaches(c) /\ Done
    /\ UNCHANGED <<client, listening, persisting, listVars, authVars, up>>

\* m_client to its end.  The old client is given the new one's localClient, the
\* two being the same from then on; then the new one's fd is set to -1, and
\* fd_table[-1] is written and comm_setselect called with it.
Reclaims(c) ==
    /\ Calling("verify_client", c)
    /\ Attaches(c) /\ Done
    /\ up' = FALSE
    /\ UNCHANGED <<client, listening, persisting, listVars, authVars>>

---------------------------------------------------------------------------
(* Leaving (client.c, s_bsd.c).                                            *)

\* close_connection: listener and configuration are let go of.
close_connection(c) ==
    /\ cf' = det_confs(IF c \in listening THEN listener_unref(cf) ELSE cf, confs[c])
    /\ confs' = [confs EXCEPT ![c] = {}]
    /\ listening' = listening \ {c}

\* delete_adns_queries and delete_identd_queries
delete_queries(c) ==
    /\ queries' = queries \ {c}
    /\ dns_pending' = dns_pending \ {c}
    /\ ident' = ident \ {c}
    /\ auth_poll_list' = auth_poll_list \ {c}

\* exit_client and exit_one_client.  A client that AcceptGone left closes fd 0,
\* which is not open, and fd_close asserts that it is.
Exit(c) ==
    /\ Calling("exit", c) /\ ~IsDead(c)
    /\ client' = [client EXCEPT ![c] = "dead"]
    /\ ip_count' = IF c \in iphash THEN remove_one_ip ELSE ip_count
    /\ delete_queries(c)
    /\ close_connection(c)
    /\ unknown_list' = unknown_list \ {c} /\ lclient_list' = lclient_list \ {c}
    /\ oper_list' = oper_list \ {c} /\ GlobalClientList' = GlobalClientList \ {c}
    /\ dead_list' = dead_list \cup {c}
    /\ iphash' = iphash \ {c} /\ persisting' = persisting \ {c}
    /\ calls' = Tail(calls)
    /\ up' = (c \in listening)

\* A client is exited by somebody else: check_unknowns_list after 30 seconds,
\* check_klines for a D-line, KILL, an overridden nick.
ExitedBy(c) ==
    /\ Idle /\ client[c] \in {"unknown", "person"}
    /\ calls' = <<<<"exit", c>>>>
    /\ UNCHANGED <<cf, clientVars, listVars, authVars, ip_count, up>>

\* check_unknowns_list
CheckUnknowns(c) == c \in unknown_list /\ ExitedBy(c)

\* check_pings_list: no answer, or a client that has persisted long enough.
CheckPings(c, persistant) ==
    /\ Idle /\ c \in lclient_list
    /\ IF persistant /\ c \notin persisting
       THEN persisting' = persisting \cup {c} /\ UNCHANGED calls
       ELSE calls' = <<<<"exit", c>>>> /\ UNCHANGED persisting
    /\ UNCHANGED <<cf, client, listening, confs, iphash, listVars, authVars, ip_count, up>>

\* Mutant: the newest of them only.
FreeExited_One ==
    /\ Idle /\ Cardinality(dead_list) = 1
    /\ client' = [c \in Conns |-> IF c \in dead_list THEN "free" ELSE client[c]]
    /\ dead_list' = {}
    /\ UNCHANGED <<cf, listening, confs, iphash, persisting, unknown_list, lclient_list,
                   oper_list, GlobalClientList, authVars, ip_count, calls, up>>

\* free_exited_clients
FreeExited ==
    /\ Idle /\ dead_list # {}
    /\ client' = [c \in Conns |-> IF c \in dead_list THEN "free" ELSE client[c]]
    /\ dead_list' = {}
    /\ UNCHANGED <<cf, listening, confs, iphash, persisting, unknown_list, lclient_list,
                   oper_list, GlobalClientList, authVars, ip_count, calls, up>>

\* REHASH, or SIGHUP.
Rehash(v, binds) ==
    /\ Idle /\ HasRoom(cf)
    /\ cf' = rehash(cf, v, binds)
    /\ UNCHANGED <<clientVars, listVars, authVars, ip_count, calls, up>>

---------------------------------------------------------------------------

Next ==
    \/ TooFast
    \/ FreeExited
    \/ \E v \in Versions, binds \in BOOLEAN : Rehash(v, binds)
    \/ \E c \in Conns :
         \/ \E submitted, socket \in BOOLEAN : AcceptConnection(c, submitted, socket)
         \/ AcceptGone(c)
         \/ AuthDns(c) \/ AuthIdent(c) \/ AuthTimeout(c)
         \/ Unlink(c) \/ Release(c)
         \/ ReadNothing(c) \/ ReadUser(c) \/ ReadClient(c) \/ ReadOper(c) \/ ReadDeop(c)
         \/ ReadQuit(c)
         \/ \E persistant \in BOOLEAN : ReadEof(c, persistant) \/ CheckPings(c, persistant)
         \/ VerifyRefused(c) \/ VerifyBanned(c) \/ VerifyFull(c)
         \/ RegisterRejected(c) \/ Registered(c) \/ Deopped(c) \/ Reclaims(c)
         \/ Exit(c) \/ ExitedBy(c)

\* The calls of a callback are made, whatever else waits.
Calls(c) ==
    \/ Unlink(c) \/ Release(c) \/ Exit(c)
    \/ Calling("read", c) /\ (ReadNothing(c) \/ ReadUser(c) \/ ReadQuit(c))
    \/ VerifyRefused(c) \/ VerifyBanned(c) \/ VerifyFull(c)
    \/ RegisterRejected(c) \/ Registered(c) \/ Deopped(c) \/ Reclaims(c)

\* The event loop runs its events, however many connections come.
Fairness ==
    /\ SF_vars(FreeExited)
    /\ \A c \in Conns :
         /\ WF_vars(Calls(c))
         /\ SF_vars(AuthTimeout(c)) /\ SF_vars(CheckUnknowns(c))

Spec == Init /\ [][Next]_vars /\ Fairness
---------------------------------------------------------------------------
(* Properties.                                                             *)

\* Every list holds the clients whose state says so.
ListsMatch ==
    LET In(s) == {c \in Conns : client[c] = s}
    IN  /\ unknown_list = In("unknown") /\ lclient_list = In("person") /\ dead_list = In("dead")
        /\ oper_list \subseteq In("person") /\ In("person") \subseteq GlobalClientList
        /\ GlobalClientList \subseteq In("unknown") \cup In("person")
        /\ \A c \in In("free") \cup In("dead") :
             c \notin listening /\ c \notin iphash /\ confs[c] = {}

\* Between two callbacks a connection that has not registered is either being
\* looked up, and then waits for an answer that can still come, or can be read.
AuthMatches ==
    Idle =>
        /\ \A c \in Conns \ unknown_list : c \notin auth_poll_list
        /\ \A c \in unknown_list \cap listening :
             (c \in auth_poll_list) # (c \in GlobalClientList)
        /\ \A c \in auth_poll_list : c \in dns_pending \cup ident

\* No answer comes for a request that has been freed: a query adns knows and an
\* open ident socket belong to a request that is linked.
AnswersFindRequests ==
    queries \cup ident \subseteq auth_poll_list

\* At every step of every callback, lists, requests and clients agree (a client
\* is freed 4 seconds after it has gone, and a request before or after).
NoDangling == up => ListsMatch /\ AuthMatches /\ AnswersFindRequests

Attached(i) == {c \in Conns : i \in confs[c]}

\* Classes and items: the counts are those of the clients attached, so nothing a
\* client refers to has been freed, and nothing is kept that nobody refers to.
ConfMatches ==
    /\ \A i \in Items :
         /\ cf.item[i].clients = Cardinality(Attached(i))
         /\ IsAllocated(cf, i) = (cf.item[i].listed \/ Attached(i) # {})
         /\ IsAllocated(cf, i) => cf.item[i].class # NoClass /\ cf.class[cf.item[i].class].used
    /\ \A k \in ClassSlots :
         /\ cf.class[k].links =
              Cardinality({c \in Conns : \E i \in confs[c] : cf.item[i].class = k})
         /\ cf.class[k].used = (cf.class[k].listed \/ cf.class[k].links > 0)

\* The listener lives as long as it is open or a client came by it.
ListenerMatches ==
    /\ cf.listener.ref_count = Cardinality(listening)
    /\ cf.listener.used = (cf.listener.active \/ cf.listener.ref_count > 0)

\* The count of an IP is never above the clients counted for it, or clients would
\* be refused because of connections that have gone.  (It may be below: TOO_FAST
\* and a refused -o take off too much.)
IpNeverOvercounts == ip_count <= Cardinality(iphash)

\* The reference counts of the configuration, across any rehash.
RefcountsMatch == up => ConfMatches /\ ListenerMatches /\ IpNeverOvercounts

\* No connection is left half-way: one that has not registered does or goes, and
\* one that has gone is freed.
Settles ==
    \A c \in Conns :
        /\ client[c] = "unknown" ~> client[c] # "unknown" \/ ~up
        /\ client[c] = "dead" ~> client[c] = "free" \/ ~up
==========================================================================
