---------------------------- MODULE ConfItems ----------------------------
(***************************************************************************)
(* The configuration that clients hold on to: classes (class.c), auth and  *)
(* operator blocks (struct ConfItem, s_conf.c and hostmask.c) and one port *)
(* (listener.c).  A rehash replaces all of it while clients are attached   *)
(* to the old items; reference counts decide who frees what, and when.     *)
(*                                                                         *)
(* The three tables are one value, so that a function that calls others is *)
(* their composition.  Heap addresses are the elements of Items and of     *)
(* ClassSlots; a freed one may be allocated again.                         *)
(***************************************************************************)
EXTENDS Integers, FiniteSets, FiniteSetsExt

CONSTANTS
    Items,          \* addresses of struct ConfItem
    ClassSlots,     \* addresses of struct Class
    Class0,         \* the default class, which is never freed
    NoClass,        \* a NULL ClassPtr
    Versions,       \* what ircd.conf may say: the blocks it has
    MaxLinks        \* max_number of the class block

ASSUME ConfAssumption ==
    /\ IsFiniteSet(Items)
    /\ Class0 \in ClassSlots /\ NoClass \notin ClassSlots
    /\ Versions \subseteq SUBSET {"class", "auth", "operator", "listen"}
    /\ MaxLinks \in Nat \ {0}

FreeItem == [kind |-> "free", class |-> NoClass, clients |-> 0,
             illegal |-> FALSE, listed |-> FALSE]
FreeClass == [used |-> FALSE, links |-> 0, max |-> 0, listed |-> FALSE]
FreeListener == [used |-> FALSE, active |-> FALSE, ref_count |-> 0]

Conf ==
    [item : [Items -> [kind : {"free", "auth", "operator"}, class : ClassSlots \cup {NoClass},
                       clients : Nat, illegal : BOOLEAN, listed : BOOLEAN]],
     class : [ClassSlots -> [used : BOOLEAN, links : Nat, max : Int, listed : BOOLEAN]],
     listener : [used : BOOLEAN, active : BOOLEAN, ref_count : Nat]]

\* Nothing but the default class, whose limit no instance reaches.
EmptyConf ==
    [item |-> [i \in Items |-> FreeItem],
     class |-> [k \in ClassSlots |->
                  IF k = Class0 THEN [used |-> TRUE, links |-> 0, max |-> 1000, listed |-> TRUE]
                  ELSE FreeClass],
     listener |-> FreeListener]

IsAllocated(cf, i) == cf.item[i].kind # "free"

---------------------------------------------------------------------------
(* Attaching and detaching (s_conf.c).                                     *)

\* detach_conf: the last client of a class that has been taken out of the
\* configuration frees the class, and the last one of such an item the item.
detach_conf(cf, i) ==
    LET k == cf.item[i].class
        links == IF cf.class[k].links > 0 THEN cf.class[k].links - 1 ELSE 0
        frees == cf.class[k].max = -1 /\ links = 0
        n == cf.item[i].clients - 1
        class1 == IF k = NoClass THEN cf.class
                  ELSE [cf.class EXCEPT ![k] = IF frees THEN FreeClass
                                               ELSE [@ EXCEPT !.links = links]]
        k1 == IF k # NoClass /\ frees THEN NoClass ELSE k
    IN  [cf EXCEPT !.class = class1,
                   !.item[i] = IF n = 0 /\ @.illegal THEN FreeItem
                               ELSE [@ EXCEPT !.clients = n, !.class = k1]]

\* det_confs_butmask(client_p, 0)
det_confs(cf, confs) == FoldSet(LAMBDA i, acc : detach_conf(acc, i), cf, confs)

\* attach_conf: what it answers to a client that is not attached to i yet.
AttachAnswer(cf, i) ==
    LET k == cf.item[i].class
    IN  IF cf.item[i].illegal THEN "NOT_AUTHORIZED"
        ELSE IF /\ cf.item[i].kind = "auth" /\ cf.class[k].max > 0
                /\ cf.class[k].links >= cf.class[k].max
        THEN "I_LINE_FULL"
        ELSE "attached"

attach_conf(cf, i) ==
    [cf EXCEPT !.item[i].clients = @ + 1, !.class[cf.item[i].class].links = @ + 1]

\* find_address_conf and find_conf_exact: the auth or operator block that
\* applies, if the configuration has one.
Applying(cf, kind) == {i \in Items : cf.item[i].kind = kind /\ cf.item[i].listed}

---------------------------------------------------------------------------
(* Reading the configuration again.                                        *)

\* Mutant: what clients use is freed as well.
clear_out_old_conf_FreesUsed(cf) ==
    [item |-> [i \in Items |-> IF cf.item[i].listed THEN FreeItem ELSE cf.item[i]],
     class |-> [k \in ClassSlots |->
                  IF k # Class0 /\ cf.class[k].listed THEN [cf.class[k] EXCEPT !.max = -1]
                  ELSE cf.class[k]],
     listener |-> IF cf.listener.ref_count > 0 THEN [cf.listener EXCEPT !.active = FALSE]
                  ELSE FreeListener]

\* clear_out_old_conf, with clear_out_address_conf and close_listeners: what
\* clients use stays until they go.
clear_out_old_conf(cf) ==
    [item |-> [i \in Items |->
                 IF ~cf.item[i].listed THEN cf.item[i]
                 ELSE IF cf.item[i].clients > 0
                 THEN [cf.item[i] EXCEPT !.illegal = TRUE, !.listed = FALSE]
                 ELSE FreeItem],
     class |-> [k \in ClassSlots |->
                  IF k # Class0 /\ cf.class[k].listed THEN [cf.class[k] EXCEPT !.max = -1]
                  ELSE cf.class[k]],
     listener |-> IF cf.listener.ref_count > 0 THEN [cf.listener EXCEPT !.active = FALSE]
                  ELSE FreeListener]

\* find_class, for the one name there is.
NamedClass(cf) == {k \in ClassSlots \ {Class0} : cf.class[k].listed}

\* Mutant: a class that is in the list is started anew.
add_class_ResetsLinks(cf) ==
    IF NamedClass(cf) # {}
    THEN [cf EXCEPT !.class[CHOOSE k \in NamedClass(cf) : TRUE] =
                       [used |-> TRUE, links |-> 0, max |-> MaxLinks, listed |-> TRUE]]
    ELSE [cf EXCEPT !.class[CHOOSE k \in ClassSlots : ~cf.class[k].used] =
                       [used |-> TRUE, links |-> 0, max |-> MaxLinks, listed |-> TRUE]]

\* add_class: a class of that name is brought up to date and keeps its links.
add_class(cf) ==
    IF NamedClass(cf) # {}
    THEN [cf EXCEPT !.class[CHOOSE k \in NamedClass(cf) : TRUE].max = MaxLinks]
    ELSE [cf EXCEPT !.class[CHOOSE k \in ClassSlots : ~cf.class[k].used] =
                       [used |-> TRUE, links |-> 0, max |-> MaxLinks, listed |-> TRUE]]

\* conf_add_class_to_conf: a class that is missing, or about to go, is replaced
\* by the default class.
ClassFor(cf) ==
    LET live == {k \in NamedClass(cf) : cf.class[k].max >= 0}
    IN  IF live = {} THEN Class0 ELSE CHOOSE k \in live : TRUE

\* An auth or an operator block is read: make_conf and its listing.
AddItem(cf, kind) ==
    [cf EXCEPT !.item[CHOOSE i \in Items : ~IsAllocated(cf, i)] =
                  [kind |-> kind, class |-> ClassFor(cf), clients |-> 0,
                   illegal |-> FALSE, listed |-> TRUE]]

\* add_listener: a listener that was closed and is still held is opened again.
\* Where the port cannot be bound, close_listener.
add_listener(cf, binds) ==
    [cf EXCEPT !.listener =
        IF binds THEN [used |-> TRUE, active |-> TRUE, ref_count |-> @.ref_count]
        ELSE IF @.ref_count > 0 THEN [@ EXCEPT !.active = FALSE] ELSE FreeListener]

\* check_class: classes that were not read again leave the list, and are freed
\* unless a link is left.
check_class(cf) ==
    [cf EXCEPT !.class = [k \in ClassSlots |->
        IF ~(cf.class[k].listed /\ cf.class[k].max < 0) THEN cf.class[k]
        ELSE IF cf.class[k].links <= 0 THEN FreeClass
        ELSE [cf.class[k] EXCEPT !.listed = FALSE]]]

\* read_conf: the blocks of version v in the order the example has them.
read_conf(cf, v, binds) ==
    LET cf1 == IF "class" \in v THEN add_class(cf) ELSE cf
        cf2 == IF "listen" \in v THEN add_listener(cf1, binds) ELSE cf1
        cf3 == IF "auth" \in v THEN AddItem(cf2, "auth") ELSE cf2
        cf4 == IF "operator" \in v THEN AddItem(cf3, "operator") ELSE cf3
    IN  check_class(cf4)

\* rehash, with read_conf_files.
rehash(cf, v, binds) == read_conf(clear_out_old_conf(cf), v, binds)

\* There is memory for what a rehash may allocate: the bound on the heap.
HasRoom(cf) ==
    /\ Cardinality({i \in Items : ~IsAllocated(clear_out_old_conf(cf), i)}) >= 2
    /\ \E k \in ClassSlots : ~cf.class[k].used

\* close_connection's part: a listener that is closed goes with its last client.
listener_unref(cf) ==
    [cf EXCEPT !.listener = IF @.ref_count = 1 /\ ~@.active THEN FreeListener
                            ELSE [@ EXCEPT !.ref_count = cf.listener.ref_count - 1]]
===========================================================================
