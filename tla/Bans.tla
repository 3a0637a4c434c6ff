------------------------------- MODULE Bans -------------------------------
(***************************************************************************)
(* K-lines, temporary K-lines and G-lines on one server, its split mode,   *)
(* and the events of the main loop that drive them: m_kline.c, m_unkline.c,*)
(* m_gline.c, s_gline.c, hostmask.c, kdparse.c, check_klines,              *)
(* quote_splitmode and io_loop.                                            *)
(*                                                                         *)
(* A mask stands for a user@host and for the clients it matches.  The      *)
(* state of the server is one record, so that a handler that calls others  *)
(* is their composition.  D-lines go the way of K-lines and are left out;  *)
(* non_redundant_klines and no_join_on_split are set.                      *)
(***************************************************************************)
EXTENDS Events, FiniteSets

CONSTANTS
    Clients,        \* local clients
    Masks,
    Matched,        \* the clients each mask matches
    Exempt,         \* the clients whose auth block has kline_exempt
    Opers,          \* operators of the network who use GLINE
    ServerOf,       \* the server of each; their users and hosts differ as well
    Me,             \* this server; the others are behind the peer
    NoOne,
    Holds,          \* the times of temporary K-lines
    PendingExpire,  \* GLINE_PENDING_EXPIRE
    SplitUsers,     \* split_users; split_servers asks for the peer
    MaxBack         \* how often the clock goes back

ASSUME BansAssumption ==
    /\ Names = {"cleanup_glines", "cleanup_tklines", "check_splitmode"}
    /\ Matched \in [Masks -> SUBSET Clients] /\ Exempt \subseteq Clients
    /\ NoOne \notin Opers
    /\ Holds \subseteq Nat \ {0} /\ PendingExpire \in Nat /\ SplitUsers \in Nat
    /\ MaxBack \in Nat

VARIABLES
    ircd,           \* the state of the server
    backs           \* how often the clock went back

vars == <<ircd, backs>>

\* A CONF_KILL record of atable: temporary, permanent, or set by a G-line.
Line(kind, m) == [kind |-> kind, mask |-> m]
Lines == [kind : {"T", "K", "G"}, mask : Masks]

\* A struct gline_pending: its operators and the ages of their requests.
Pending == [oper1 : Opers, age1 : Int, oper2 : Opers \cup {NoOne}, age2 : Int]

\* temp is the list temporary_klines with the time each line has left; file is what
\* kline.conf holds that parse_k_file reads as it was meant.
Init ==
    /\ ircd = [events |-> Started({"cleanup_glines", "cleanup_tklines"}),
               online |-> {}, lines |-> {}, temp |-> [m \in Masks |-> Never],
               file |-> {}, pending |-> [m \in Masks |-> Never],
               peer |-> TRUE, splitmode |-> FALSE, splitchecking |-> TRUE]
    /\ backs = 0

Banned(s) == UNION {Matched[l.mask] : l \in s.lines} \ Exempt

---------------------------------------------------------------------------
(* Split mode, exits and check_klines. *)

IsSplit(s) == ~s.peer /\ Cardinality(s.online) < SplitUsers

check_splitmode(s) ==
    IF ~s.splitchecking \/ s.splitmode = IsSplit(s) THEN s
    ELSE [s EXCEPT !.splitmode = IsSplit(s),
                   !.events = IF IsSplit(s) THEN eventAdd(@, "check_splitmode")
                              ELSE eventDelete(@, "check_splitmode")]

update_client_exit_stats(s) ==
    IF s.splitchecking /\ ~s.splitmode THEN check_splitmode(s) ELSE s

\* The exits of several clients: the last one counts the fewest.
Exit(s, cs) ==
    IF cs = {} THEN s ELSE update_client_exit_stats([s EXCEPT !.online = @ \ cs])

check_klines(s) == Exit(s, s.online \cap Banned(s))

---------------------------------------------------------------------------
(* K-lines, temporary K-lines and the file. *)

already_placed_kline(s, m) == \E l \in s.lines : l.mask = m

\* write_ban's line has the format of a D-line, which parse_k_file and mo_unkline take
\* for another mask: the file holds nothing for m.
apply_kline(s, m) == check_klines([s EXCEPT !.lines = @ \cup {Line("K", m)}])

add_temp_kline(s, m, hold) ==
    [s EXCEPT !.temp[m] = hold, !.lines = @ \cup {Line("T", m)}]

apply_tkline(s, m, hold) == check_klines(add_temp_kline(s, m, hold))

\* Off the list and, by delete_one_address_conf, off the table.
DropTemp(s, ms) ==
    [s EXCEPT !.temp = [m \in Masks |-> IF m \in ms THEN Never ELSE @[m]],
              !.lines = @ \ {Line("T", m) : m \in ms}]

clear_out_address_conf(s) == [s EXCEPT !.lines = {l \in @ : l.kind = "T"}]

parse_k_file(s) == [s EXCEPT !.lines = @ \cup {Line("K", m) : m \in s.file}]

\* Mutation: those who are on already are not looked at.
rehash_NoCheck(s) == parse_k_file(clear_out_address_conf(s))

rehash(s) == check_klines(parse_k_file(clear_out_address_conf(s)))

mo_unkline(s, m) ==
    IF s.temp[m] # Never THEN DropTemp(s, {m}) ELSE rehash([s EXCEPT !.file = @ \ {m}])

---------------------------------------------------------------------------
(* G-lines.  The list glines stays empty, so find_is_glined finds nothing. *)

LastAge(p) == IF p.oper2 = NoOne THEN p.age1 ELSE p.age2

\* Mutation: a request that has been seconded stays.
expire_pending_glines_Seconded(s) ==
    [s EXCEPT !.pending = [m \in Masks |->
        IF @[m] # Never /\ @[m].oper2 = NoOne /\ @[m].age1 >= PendingExpire THEN Never ELSE @[m]]]

expire_pending_glines(s) ==
    [s EXCEPT !.pending = [m \in Masks |->
        IF @[m] # Never /\ LastAge(@[m]) >= PendingExpire THEN Never ELSE @[m]]]

cleanup_glines(s) == expire_pending_glines(s)

set_local_gline(s, m) == check_klines([s EXCEPT !.lines = @ \cup {Line("G", m)}])

SameServer(o, p) == ServerOf[o] = ServerOf[p]

\* Mutation: the third operator is not compared with the second.
check_majority_gline_Twice(s, o, m) ==
    LET p == s.pending[m] IN
    IF p = Never THEN
        [s EXCEPT !.pending[m] = [oper1 |-> o, age1 |-> 0, oper2 |-> NoOne, age2 |-> 0]]
    ELSE IF SameServer(o, p.oper1) THEN s
    ELSE IF p.oper2 = NoOne THEN
        [s EXCEPT !.pending[m] = [p EXCEPT !.oper2 = o, !.age2 = 0]]
    ELSE cleanup_glines(set_local_gline(s, m))

\* majority_gline; a request that completes three leaves the entry where it is.
check_majority_gline(s, o, m) ==
    LET p == s.pending[m] IN
    IF p = Never THEN
        [s EXCEPT !.pending[m] = [oper1 |-> o, age1 |-> 0, oper2 |-> NoOne, age2 |-> 0]]
    ELSE IF SameServer(o, p.oper1) THEN s
    ELSE IF p.oper2 = NoOne THEN
        [s EXCEPT !.pending[m] = [p EXCEPT !.oper2 = o, !.age2 = 0]]
    ELSE IF SameServer(o, p.oper2) THEN s
    ELSE cleanup_glines(set_local_gline(s, m))

---------------------------------------------------------------------------
(* The loop. *)

expire_tklines(s) == DropTemp(s, {m \in Masks : s.temp[m] # Never /\ s.temp[m] <= 0})

Handled(s, e) ==
    CASE e = "cleanup_glines" -> cleanup_glines(s)
      [] e = "cleanup_tklines" -> expire_tklines(s)
      [] e = "check_splitmode" -> check_splitmode(s)

\* eventRun goes through the slots; a handler may add or delete an event.
RunSlot(s, e) ==
    IF IsDue(s.events, e) THEN [Handled(s, e) EXCEPT !.events = Ran(@, e)] ELSE s

eventRun(s) ==
    LET run[k \in 0..Len(Order)] == IF k = 0 THEN s ELSE RunSlot(run[k - 1], Order[k])
    IN  run[Len(Order)]

LoopTop(s) ==
    LET n == [s EXCEPT !.events = eventNextTime(@)] IN
    IF n.events.min <= 0 THEN eventRun(n) ELSE n

Aged(p, d) == IF p = Never THEN Never ELSE [p EXCEPT !.age1 = @ + d, !.age2 = @ + d]

\* What set_time does to everything that is kept as an absolute time.
TimePasses(s, d) ==
    [s EXCEPT !.events = Passed(@, d),
              !.temp = [m \in Masks |-> Later(@[m], d)],
              !.pending = [m \in Masks |-> Aged(@[m], d)]]

ClockBack(s) == [TimePasses(s, -1) EXCEPT !.events = SetBack(s.events, 1)]

---------------------------------------------------------------------------
(* Actions: a turn of io_loop up to set_time in comm_select, and the       *)
(* handlers that comm_select calls.                                        *)

Turn(d) == ircd' = TimePasses(LoopTop(ircd), d) /\ UNCHANGED backs

TurnBack == backs < MaxBack /\ ircd' = ClockBack(LoopTop(ircd)) /\ backs' = backs + 1

\* verify_access lets in who is not banned.
Connect(c) ==
    /\ c \notin ircd.online \cup Banned(ircd)
    /\ ircd' = [ircd EXCEPT !.online = @ \cup {c}]
    /\ UNCHANGED backs

Leave(c) == c \in ircd.online /\ ircd' = Exit(ircd, {c}) /\ UNCHANGED backs

Kline(m) ==
    /\ ~already_placed_kline(ircd, m)
    /\ ircd' = apply_kline(ircd, m)
    /\ UNCHANGED backs

Tkline(m, hold) ==
    /\ ~already_placed_kline(ircd, m)
    /\ ircd' = apply_tkline(ircd, m, hold)
    /\ UNCHANGED backs

Unkline(m) == ircd' = mo_unkline(ircd, m) /\ UNCHANGED backs

\* The administrator puts a line in kline.conf.
EditFile(m) == ircd' = [ircd EXCEPT !.file = @ \cup {m}] /\ UNCHANGED backs

Rehash == ircd' = rehash(ircd) /\ UNCHANGED backs

\* An operator of this server asks for a G-line (mo_gline), or one behind the peer (ms_gline).
Gline(o, m) ==
    /\ ServerOf[o] = Me
    /\ ircd' = check_majority_gline(ircd, o, m)
    /\ UNCHANGED backs

RemoteGline(o, m) ==
    /\ ServerOf[o] # Me /\ ircd.peer
    /\ ircd' = check_majority_gline(ircd, o, m)
    /\ UNCHANGED backs

Vote(o, m) == Gline(o, m) \/ RemoteGline(o, m)

Link == ~ircd.peer /\ ircd' = [ircd EXCEPT !.peer = TRUE] /\ UNCHANGED backs

Split ==
    /\ ircd.peer
    /\ ircd' = update_client_exit_stats([ircd EXCEPT !.peer = FALSE])
    /\ UNCHANGED backs

\* quote_splitmode.
SplitmodeOff ==
    /\ ircd' = [ircd EXCEPT !.splitmode = FALSE, !.splitchecking = FALSE,
                            !.events = eventDelete(@, "check_splitmode")]
    /\ UNCHANGED backs

SplitmodeOn ==
    /\ ircd' = [ircd EXCEPT !.splitmode = TRUE, !.splitchecking = FALSE]
    /\ UNCHANGED backs

SplitmodeAuto ==
    /\ ircd' = check_splitmode([ircd EXCEPT !.splitchecking = TRUE])
    /\ UNCHANGED backs

Next ==
    \/ Rehash
    \/ \E d \in 0..1 : Turn(d)
    \/ TurnBack
    \/ \E c \in Clients : Connect(c) \/ Leave(c)
    \/ \E m \in Masks : \/ Kline(m) \/ Unkline(m) \/ EditFile(m)
                        \/ \E hold \in Holds : Tkline(m, hold)
                        \/ \E o \in Opers : Vote(o, m)
    \/ Link \/ Split
    \/ SplitmodeOff \/ SplitmodeOn \/ SplitmodeAuto

Spec == Init /\ [][Next]_vars

---------------------------------------------------------------------------
(* Properties. *)

\* How late an event may be: an eventAdd between two turns, while the minimum is not
\* known, makes the loop wait for the new event, and the minimum is not set back.
MaxLate == Max({Period[e] : e \in Names}) + MaxBack
\* A request waits for PendingExpire and for the next cleanup_glines.
MaxWait == PendingExpire + Period["cleanup_glines"] + MaxLate

\* The records have their types, no event is later than the longest frequency, and no
\* request for a G-line is older than two waits.
TypeOK ==
    /\ ircd.events.when \in [Names -> (-MaxLate..MaxLate) \cup {Never}]
    /\ ircd.events.min \in (-MaxLate..MaxLate) \cup {Never}
    /\ ircd.online \subseteq Clients /\ ircd.lines \subseteq Lines
    /\ ircd.temp \in [Masks -> Int \cup {Never}] /\ ircd.file \subseteq Masks
    /\ \A m \in Masks : ircd.pending[m] # Never =>
        /\ ircd.pending[m] \in Pending
        /\ ircd.pending[m].age1 <= 2 * MaxWait
    /\ ircd.peer \in BOOLEAN /\ ircd.splitmode \in BOOLEAN /\ ircd.splitchecking \in BOOLEAN
    /\ backs \in 0..MaxBack

\* Nobody whom a line in force matches is on the server unless exempt, however the line
\* got there, and the temporary lines in force are those on the list that expires them.
BansInForce ==
    /\ ircd.online \cap Banned(ircd) = {}
    /\ \A m \in Masks : Line("T", m) \in ircd.lines <=> ircd.temp[m] # Never

\* A G-line is set when operators of three servers have asked for it, one after the
\* other within the time a request waits.
VotesTogether ==
    [][\A m \in Masks : Line("G", m) \in ircd'.lines \ ircd.lines =>
        LET p == ircd.pending[m] IN
        /\ p # Never /\ p.oper2 # NoOne
        /\ p.age1 - p.age2 <= MaxWait /\ p.age2 <= MaxWait
        /\ \E o \in Opers : Vote(o, m) /\ Cardinality({ServerOf[x] : x \in {o, p.oper1, p.oper2}}) = 3]_vars

\* A temporary K-line ends at the latest with the cleanup_tklines after its time, whatever
\* is done meanwhile to the events, the clock, the file and the configuration.
TempBansEnd ==
    \A m \in Masks : ircd.temp[m] # Never =>
        ircd.temp[m] > - Period["cleanup_tklines"] - MaxLate

\* A REHASH reads the files again and keeps the K-lines: whatever KLINE has set is in
\* klines.conf.
KlinesStay ==
    [][Rehash => \A m \in Masks :
        Line("K", m) \in ircd.lines => Line("K", m) \in ircd'.lines]_vars
===========================================================================
