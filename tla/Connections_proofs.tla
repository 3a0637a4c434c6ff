------------------------ MODULE Connections_proofs ------------------------
(***************************************************************************)
(* The theorems about Connections: its types, the agreement of lists,      *)
(* authentication requests and clients at every step of every callback,    *)
(* and the reference counts of the configuration across any rehash.        *)
(***************************************************************************)
EXTENDS Connections, FiniteSetTheorems, SequenceTheorems, TLAPS

---------------------------------------------------------------------------
(* The inductive invariant: the configuration.  It is stated of any        *)
(* configuration f and any attachment a of clients to items, so that it    *)
(* can be followed from one function of ConfItems to the next.             *)

AttachedIn(a, i) == {c \in Conns : i \in a[c]}

UsersIn(f, a, k) == {c \in Conns : \E i \in a[c] : f.item[i].class = k}

\* A client holds one item at most.
Single(a) == \A c \in Conns : \A i, j \in a[c] : i = j

ItemsCounted(f, a) ==
    \A i \in Items :
        /\ f.item[i].clients = Cardinality(AttachedIn(a, i))
        /\ IsAllocated(f, i) <=> f.item[i].listed \/ AttachedIn(a, i) # {}
        /\ f.item[i].illegal <=> IsAllocated(f, i) /\ ~f.item[i].listed
        /\ ~IsAllocated(f, i) => f.item[i] = FreeItem

\* The class of an item is there, and the class of a listed one is in the
\* configuration.
ItemsClassed(f) ==
    \A i \in Items :
        /\ IsAllocated(f, i) => f.item[i].class \in ClassSlots /\ f.class[f.item[i].class].used
        /\ f.item[i].listed =>
             f.class[f.item[i].class].listed /\ f.class[f.item[i].class].max >= 0

\* A class that has left the list is marked, so that its last client frees it.
ClassesCounted(f, a) ==
    \A k \in ClassSlots :
        /\ f.class[k].links = Cardinality(UsersIn(f, a, k))
        /\ f.class[k].used <=> f.class[k].listed \/ f.class[k].links > 0
        /\ f.class[k].used /\ ~f.class[k].listed => f.class[k].max = -1
        /\ f.class[k].max >= -1

DefaultThere(f) == f.class[Class0].listed /\ f.class[Class0].max >= 0

\* What holds all through a rehash.
Kept(f, a) ==
    /\ f \in Conf /\ a \in [Conns -> SUBSET Items] /\ Single(a)
    /\ ItemsCounted(f, a) /\ ItemsClassed(f) /\ ClassesCounted(f, a) /\ DefaultThere(f)

\* Outside of it no listed class is marked.
NoneMarked(f) == \A k \in ClassSlots : f.class[k].listed => f.class[k].max >= 0

ListenerCounted(f, s) ==
    /\ f.listener.ref_count = Cardinality(s)
    /\ f.listener.used <=> f.listener.active \/ f.listener.ref_count > 0

---------------------------------------------------------------------------
(* The inductive invariant: the calls, and what each finds.                *)

\* The next call of a stack, and the request a stack has still to unlink.
NextIs(s, op, c) == s # <<>> /\ Head(s) = <<op, c>>
Unlinks(s, c) == \E j \in 1..Len(s) : s[j] = <<"unlink", c>>

Now(op, c) == NextIs(calls, op, c)

Verifying(c) == Now("verify_user", c) \/ Now("verify_deop", c) \/ Now("verify_client", c)

\* One call, or a call and the rest of a timeout.
Stack(s) ==
    \/ s = <<>>
    \/ \E op \in Ops, c \in Conns : s = <<<<op, c>>>>
    \/ \E op \in Ops \ {"verify_deop", "unlink"}, c \in Conns :
         s = <<<<op, c>>, <<"unlink", c>>>>

CallsMeet ==
    /\ Stack(calls)
    /\ \A c \in Conns :
         /\ Now("release", c) => client[c] = "unknown"
         /\ Now("read", c) \/ Now("verify_user", c) \/ Now("verify_client", c) =>
              client[c] = "unknown" /\ c \in GlobalClientList
         /\ Now("verify_deop", c) => client[c] = "person"
         /\ Verifying(c) => confs[c] = {}
         /\ Now("exit", c) => client[c] \in {"unknown", "person"}

\* Every client is on the lists its state says.
Listed ==
    \A c \in Conns :
        /\ c \in unknown_list <=> client[c] = "unknown"
        /\ c \in lclient_list <=> client[c] = "person"
        /\ c \in dead_list <=> client[c] = "dead"
        /\ c \in oper_list => client[c] = "person"
        /\ client[c] = "person" => c \in GlobalClientList
        /\ c \in GlobalClientList => client[c] \in {"unknown", "person"}
        /\ client[c] \in {"free", "dead"} =>
             c \notin listening /\ c \notin iphash /\ confs[c] = {}

\* Who has not registered holds nothing yet, who has is counted.
ClientsMatch ==
    \A c \in Conns :
        /\ client[c] = "unknown" => Now("exit", c) \/ (confs[c] = {} /\ c \notin iphash)
        /\ client[c] = "person" => c \in iphash

\* A request that is not being unlinked waits for an answer, its client not yet
\* released; a client without one has been, or is about to be.
RequestsMatch ==
    /\ queries \subseteq dns_pending
    /\ \A c \in auth_poll_list :
         \/ Unlinks(calls, c)
         \/ /\ client[c] = "unknown" /\ c \in listening /\ c \notin GlobalClientList
            /\ c \in dns_pending \cup ident /\ ~Now("release", c)
    /\ \A c \in listening :
         client[c] = "unknown" =>
            \/ c \in GlobalClientList \/ Now("release", c)
            \/ c \in auth_poll_list /\ ~Unlinks(calls, c)
    /\ \A c \in Conns : Unlinks(calls, c) => c \notin queries \cup ident

\* After -o the client has been taken off the count of its address already.
IpCounted ==
    /\ ip_count <= Cardinality(iphash)
    /\ \A c \in Conns : Now("verify_deop", c) => ip_count <= Cardinality(iphash) - 1

Running ==
    /\ Kept(cf, confs) /\ NoneMarked(cf) /\ ListenerCounted(cf, listening)
    /\ Listed /\ CallsMeet /\ ClientsMatch
    /\ AnswersFindRequests /\ RequestsMatch /\ IpCounted

IInv == TypeOK /\ (up => Running)

---------------------------------------------------------------------------
(* The functions of ConfItems.                                             *)

ItemType == [kind : {"free", "auth", "operator"}, class : ClassSlots \cup {NoClass},
             clients : Nat, illegal : BOOLEAN, listed : BOOLEAN]
ClassType == [used : BOOLEAN, links : Nat, max : Int, listed : BOOLEAN]
ListenerType == [used : BOOLEAN, active : BOOLEAN, ref_count : Nat]

\* A slot of the tables of f is either free or typed.
LEMMA Slots ==
    ASSUME NEW f \in Conf
    PROVE  /\ \A i \in Items : f.item[i] \in ItemType
           /\ \A k \in ClassSlots : f.class[k] \in ClassType
           /\ f.listener \in ListenerType
<1> QED BY DEF Conf, ItemType, ClassType, ListenerType

\* A configuration is its three tables.
LEMMA IsConf ==
    ASSUME NEW f, f = [item |-> f.item, class |-> f.class, listener |-> f.listener],
           f.item \in [Items -> ItemType], f.class \in [ClassSlots -> ClassType],
           f.listener \in ListenerType
    PROVE  f \in Conf
<1> QED BY DEF Conf, ItemType, ClassType, ListenerType

\* A configuration has three tables.
LEMMA Parts ==
    Conf = [item : [Items -> ItemType], class : [ClassSlots -> ClassType], listener : ListenerType]
<1> QED BY DEF Conf, ItemType, ClassType, ListenerType

\* One slot is changed.
LEMMA SetItem ==
    ASSUME NEW f \in Conf, NEW i \in Items, NEW x \in ItemType
    PROVE  LET g == [f EXCEPT !.item[i] = x]
           IN  /\ g \in Conf /\ g.class = f.class /\ g.listener = f.listener
               /\ \A j \in Items : g.item[j] = IF j = i THEN x ELSE f.item[j]
<1> QED BY Parts

\* Writing one class.
LEMMA SetClass ==
    ASSUME NEW f \in Conf, NEW k \in ClassSlots, NEW x \in ClassType
    PROVE  LET g == [f EXCEPT !.class[k] = x]
           IN  /\ g \in Conf /\ g.item = f.item /\ g.listener = f.listener
               /\ \A m \in ClassSlots : g.class[m] = IF m = k THEN x ELSE f.class[m]
<1> QED BY Parts

\* Writing the listener.
LEMMA SetListener ==
    ASSUME NEW f \in Conf, NEW x \in ListenerType
    PROVE  LET g == [f EXCEPT !.listener = x]
           IN  g \in Conf /\ g.item = f.item /\ g.class = f.class /\ g.listener = x
<1> QED BY Parts

\* The clients attached, and the users of a class, are finitely many.
LEMMA Finite ==
    ASSUME NEW f, NEW a
    PROVE  /\ \A i : /\ IsFiniteSet(AttachedIn(a, i)) /\ Cardinality(AttachedIn(a, i)) \in Nat
                     /\ Cardinality(AttachedIn(a, i)) = 0 <=> AttachedIn(a, i) = {}
           /\ \A k : /\ IsFiniteSet(UsersIn(f, a, k)) /\ Cardinality(UsersIn(f, a, k)) \in Nat
                     /\ Cardinality(UsersIn(f, a, k)) = 0 <=> UsersIn(f, a, k) = {}
<1>1. ASSUME NEW S, S \subseteq Conns
      PROVE  IsFiniteSet(S) /\ Cardinality(S) \in Nat /\ (Cardinality(S) = 0 <=> S = {})
  <2>1. IsFiniteSet(S)
    BY <1>1, ConnAssumption, FS_Subset
  <2> QED
    BY <2>1, FS_CardinalityType, FS_EmptySet
<1>2. ASSUME NEW i PROVE AttachedIn(a, i) \subseteq Conns
  BY DEF AttachedIn
<1>3. ASSUME NEW k PROVE UsersIn(f, a, k) \subseteq Conns
  BY DEF UsersIn
<1> QED
  BY <1>1, <1>2, <1>3

\* What counts decide: an item is attached when it has clients, and then its
\* class has links.
LEMMA Counts ==
    ASSUME NEW f, NEW a, Kept(f, a)
    PROVE  /\ \A i \in Items : AttachedIn(a, i) # {} <=> f.item[i].clients > 0
           /\ \A i \in Items : AttachedIn(a, i) # {} => f.class[f.item[i].class].links > 0
           /\ \A k \in ClassSlots : UsersIn(f, a, k) # {} <=> f.class[k].links > 0
<1>1. f \in Conf /\ ItemsCounted(f, a) /\ ItemsClassed(f) /\ ClassesCounted(f, a)
  BY DEF Kept
<1>2. \A i \in Items : AttachedIn(a, i) # {} <=> f.item[i].clients > 0
  BY <1>1, Finite, Slots DEF ItemType, ClassType, ItemsCounted
<1>3. \A k \in ClassSlots : UsersIn(f, a, k) # {} <=> f.class[k].links > 0
  BY <1>1, Finite, Slots DEF ItemType, ClassType, ClassesCounted
<1>4. ASSUME NEW i \in Items, AttachedIn(a, i) # {}
      PROVE  f.class[f.item[i].class].links > 0
  <2>1. IsAllocated(f, i) /\ f.item[i].class \in ClassSlots
    BY <1>1, <1>4 DEF ItemsCounted, ItemsClassed
  <2>2. UsersIn(f, a, f.item[i].class) # {}
    BY <1>4 DEF UsersIn, AttachedIn
  <2> QED
    BY <2>1, <2>2, <1>3
<1> QED
  BY <1>2, <1>3, <1>4

\* Where the attached items keep their classes, the classes keep their users.
LEMMA SameUsers ==
    ASSUME NEW f, NEW g, NEW a \in [Conns -> SUBSET Items],
           \A i \in Items : AttachedIn(a, i) # {} => g.item[i].class = f.item[i].class
    PROVE  \A k : UsersIn(g, a, k) = UsersIn(f, a, k)
<1>1. \A c \in Conns : \A i \in a[c] : i \in Items /\ c \in AttachedIn(a, i)
  BY DEF AttachedIn
<1> QED
  BY <1>1 DEF UsersIn

\* What a free slot holds.
LEMMA FreeFields ==
    /\ FreeItem.kind = "free" /\ FreeItem.clients = 0 /\ FreeItem.class = NoClass
    /\ FreeItem.illegal = FALSE /\ FreeItem.listed = FALSE
    /\ FreeClass.used = FALSE /\ FreeClass.links = 0 /\ FreeClass.max = 0 /\ FreeClass.listed = FALSE
<1> QED BY DEF FreeItem, FreeClass

\* The old configuration is cleared: what is attached stays, marked.
LEMMA ClearKeeps ==
    ASSUME NEW f, NEW a, Kept(f, a)
    PROVE  Kept(clear_out_old_conf(f), a)
<1> DEFINE g == clear_out_old_conf(f)
<1>1. /\ f \in Conf /\ a \in [Conns -> SUBSET Items] /\ Single(a)
      /\ ItemsCounted(f, a) /\ ItemsClassed(f) /\ ClassesCounted(f, a) /\ DefaultThere(f)
  BY DEF Kept
<1>2. ASSUME NEW i \in Items
      PROVE  /\ ~f.item[i].listed => g.item[i] = f.item[i]
             /\ f.item[i].listed /\ f.item[i].clients > 0 =>
                  /\ g.item[i].kind = f.item[i].kind /\ g.item[i].class = f.item[i].class
                  /\ g.item[i].clients = f.item[i].clients
                  /\ g.item[i].illegal = TRUE /\ g.item[i].listed = FALSE
             /\ f.item[i].listed /\ ~(f.item[i].clients > 0) => g.item[i] = FreeItem
  <2>1. g.item[i] = IF ~f.item[i].listed THEN f.item[i]
                    ELSE IF f.item[i].clients > 0
                    THEN [f.item[i] EXCEPT !.illegal = TRUE, !.listed = FALSE]
                    ELSE FreeItem
    BY DEF clear_out_old_conf
  <2> HIDE DEF g
  <2> QED
    BY <1>1, <2>1, Slots DEF ItemType, ClassType
<1>3. ASSUME NEW k \in ClassSlots
      PROVE  /\ g.class[k].used = f.class[k].used /\ g.class[k].links = f.class[k].links
             /\ g.class[k].listed = f.class[k].listed
             /\ IF k # Class0 /\ f.class[k].listed THEN g.class[k].max = -1
                ELSE g.class[k].max = f.class[k].max
  <2>1. g.class[k] = IF k # Class0 /\ f.class[k].listed
                     THEN [f.class[k] EXCEPT !.max = -1] ELSE f.class[k]
    BY DEF clear_out_old_conf
  <2> HIDE DEF g
  <2> QED
    BY <1>1, <2>1, Slots DEF ItemType, ClassType
<1>4. g \in Conf
  <2>1. g = [item |-> g.item, class |-> g.class, listener |-> g.listener]
    BY DEF clear_out_old_conf
  <2>2. g.item \in [Items -> ItemType]
    <3>1. ASSUME NEW x \in ItemType
          PROVE  [x EXCEPT !.illegal = TRUE, !.listed = FALSE] \in ItemType
      BY DEF ItemType
    <3>2. FreeItem \in ItemType
      BY DEF FreeItem, ItemType
    <3> QED
      BY <1>1, <3>1, <3>2, Slots DEF clear_out_old_conf
  <2>3. g.class \in [ClassSlots -> ClassType]
    <3>1. ASSUME NEW x \in ClassType PROVE [x EXCEPT !.max = -1] \in ClassType
      BY DEF ClassType
    <3> QED
      BY <1>1, <3>1, Slots DEF clear_out_old_conf
  <2>4. g.listener \in ListenerType
    BY <1>1, Slots DEF clear_out_old_conf, FreeListener, ListenerType
  <2> HIDE DEF g
  <2> QED
    BY <2>1, <2>2, <2>3, <2>4, IsConf
<1> HIDE DEF g
<1>5. \A i \in Items : ~g.item[i].listed
  BY <1>1, <1>2, FreeFields
<1>6. ASSUME NEW i \in Items, AttachedIn(a, i) # {}
      PROVE  /\ IsAllocated(f, i) /\ IsAllocated(g, i)
             /\ g.item[i].class = f.item[i].class /\ g.item[i].illegal
             /\ g.item[i].clients = f.item[i].clients
  <2>1. f.item[i].clients > 0 /\ IsAllocated(f, i) /\ (f.item[i].illegal <=> ~f.item[i].listed)
    BY <1>1, <1>6, Counts DEF ItemsCounted
  <2>2. CASE f.item[i].listed
    BY <1>2, <2>1, <2>2 DEF IsAllocated
  <2>3. CASE ~f.item[i].listed
    BY <1>2, <2>1, <2>3 DEF IsAllocated
  <2> QED
    BY <2>2, <2>3
<1>7. ASSUME NEW i \in Items, AttachedIn(a, i) = {}
      PROVE  g.item[i] = FreeItem /\ ~IsAllocated(g, i)
  <2>1. ~(f.item[i].clients > 0) /\ (f.item[i].listed \/ f.item[i] = FreeItem)
    BY <1>1, <1>7, Counts DEF ItemsCounted
  <2> QED
    BY <1>2, <2>1, FreeFields DEF IsAllocated
<1>8. ItemsCounted(g, a)
  <2> SUFFICES ASSUME NEW i \in Items
               PROVE  /\ g.item[i].clients = Cardinality(AttachedIn(a, i))
                      /\ IsAllocated(g, i) <=> g.item[i].listed \/ AttachedIn(a, i) # {}
                      /\ g.item[i].illegal <=> IsAllocated(g, i) /\ ~g.item[i].listed
                      /\ ~IsAllocated(g, i) => g.item[i] = FreeItem
    BY DEF ItemsCounted
  <2>1. CASE AttachedIn(a, i) = {}
    <3>1. Cardinality(AttachedIn(a, i)) = 0
      BY <2>1, FS_EmptySet
    <3> QED
      BY <1>7, <2>1, <3>1, FreeFields
  <2>2. CASE AttachedIn(a, i) # {}
    BY <1>1, <1>5, <1>6, <2>2 DEF ItemsCounted
  <2> QED
    BY <2>1, <2>2
<1>9. ItemsClassed(g)
  <2> SUFFICES ASSUME NEW i \in Items, IsAllocated(g, i)
               PROVE  g.item[i].class \in ClassSlots /\ g.class[g.item[i].class].used
    BY <1>5 DEF ItemsClassed
  <2>1. AttachedIn(a, i) # {} /\ IsAllocated(f, i) /\ g.item[i].class = f.item[i].class
    BY <1>6, <1>7
  <2>2. f.item[i].class \in ClassSlots /\ f.class[f.item[i].class].used
    BY <1>1, <2>1 DEF ItemsClassed
  <2> QED
    BY <1>3, <2>1, <2>2
<1>10. ClassesCounted(g, a)
  <2>1. \A k : UsersIn(g, a, k) = UsersIn(f, a, k)
    BY <1>1, <1>6, SameUsers
  <2> QED
    BY <2>1, <1>1, <1>3 DEF ClassesCounted
<1>11. DefaultThere(g)
  BY <1>1, <1>3, ConfAssumption DEF DefaultThere
<1> QED
  BY <1>1, <1>4, <1>8, <1>9, <1>10, <1>11 DEF Kept, g

\* The class block is read.
LEMMA AddClassKeeps ==
    ASSUME NEW f, NEW a, Kept(f, a), \E k \in ClassSlots : ~f.class[k].used
    PROVE  Kept(add_class(f), a) /\ add_class(f).item = f.item
<1>1. /\ f \in Conf /\ a \in [Conns -> SUBSET Items] /\ Single(a)
      /\ ItemsCounted(f, a) /\ ItemsClassed(f) /\ ClassesCounted(f, a) /\ DefaultThere(f)
  BY DEF Kept
<1>2. MaxLinks \in Nat /\ MaxLinks > 0 /\ Class0 \in ClassSlots
  BY ConfAssumption
<1>3. \E k \in ClassSlots, x \in ClassType :
         /\ k # Class0
         /\ x.used = TRUE /\ x.listed = TRUE /\ x.max = MaxLinks /\ x.links = f.class[k].links
         /\ add_class(f) = [f EXCEPT !.class[k] = x]
  <2>1. CASE NamedClass(f) # {}
    <3>1. PICK k : k = CHOOSE n \in NamedClass(f) : TRUE
      OBVIOUS
    <3>2. k \in ClassSlots /\ k # Class0 /\ f.class[k].listed
      BY <2>1, <3>1 DEF NamedClass
    <3>3. PICK x : x = [f.class[k] EXCEPT !.max = MaxLinks]
      OBVIOUS
    <3>4. /\ x \in ClassType /\ x.used = f.class[k].used /\ x.listed = f.class[k].listed
          /\ x.max = MaxLinks /\ x.links = f.class[k].links
      <4>1. PICK y \in ClassType : y = f.class[k]
        BY <1>1, <3>2, Slots
      <4>2. x = [y EXCEPT !.max = MaxLinks]
        BY <3>3, <4>1
      <4> QED
        BY <1>2, <4>1, <4>2 DEF ClassType
    <3>5. f.class[k].used = TRUE /\ f.class[k].listed = TRUE
      BY <1>1, <3>2, Slots DEF ClassesCounted, ClassType
    <3>6. add_class(f) = [f EXCEPT !.class[k] = x]
      <4>1. add_class(f) = [f EXCEPT !.class[k].max = MaxLinks]
        BY <2>1, <3>1 DEF add_class
      <4>2. [f EXCEPT !.class[k].max = MaxLinks] = [f EXCEPT !.class[k] = x]
        BY <1>1, <3>2, <3>3, Parts
      <4> QED
        BY <4>1, <4>2
    <3> QED
      BY <3>2, <3>4, <3>5, <3>6
  <2>2. CASE NamedClass(f) = {}
    <3>1. PICK k : k = CHOOSE n \in ClassSlots : ~f.class[n].used
      OBVIOUS
    <3>2. k \in ClassSlots /\ ~f.class[k].used
      BY <3>1
    <3>3. k # Class0 /\ f.class[k].links = 0
      BY <1>1, <3>2, Slots DEF ClassesCounted, DefaultThere, ClassType
    <3>4. PICK x : x = [used |-> TRUE, links |-> 0, max |-> MaxLinks, listed |-> TRUE]
      OBVIOUS
    <3>5. x \in ClassType /\ x.used = TRUE /\ x.listed = TRUE /\ x.max = MaxLinks /\ x.links = 0
      BY <1>2, <3>4 DEF ClassType
    <3>6. add_class(f) = [f EXCEPT !.class[k] = x]
      BY <2>2, <3>1, <3>4 DEF add_class
    <3> QED
      BY <3>2, <3>3, <3>5, <3>6
  <2> QED
    BY <2>1, <2>2
<1>4. PICK k \in ClassSlots, x \in ClassType :
         /\ k # Class0
         /\ x.used = TRUE /\ x.listed = TRUE /\ x.max = MaxLinks /\ x.links = f.class[k].links
         /\ add_class(f) = [f EXCEPT !.class[k] = x]
  BY <1>3
<1> DEFINE g == add_class(f)
<1>5. /\ g \in Conf /\ g.item = f.item
      /\ \A m \in ClassSlots : g.class[m] = IF m = k THEN x ELSE f.class[m]
  BY <1>1, <1>4, SetClass
<1> HIDE DEF g
<1>6. ItemsCounted(g, a)
  BY <1>1, <1>5 DEF ItemsCounted, IsAllocated
<1>7. ItemsClassed(g)
  <2> SUFFICES ASSUME NEW i \in Items
               PROVE  /\ IsAllocated(g, i) =>
                           g.item[i].class \in ClassSlots /\ g.class[g.item[i].class].used
                      /\ g.item[i].listed =>
                           /\ g.class[g.item[i].class].listed
                           /\ g.class[g.item[i].class].max >= 0
    BY DEF ItemsClassed
  <2>1. IsAllocated(g, i) <=> IsAllocated(f, i)
    BY <1>5 DEF IsAllocated
  <2>2. IsAllocated(f, i) =>
           f.item[i].class \in ClassSlots /\ f.class[f.item[i].class].used
    BY <1>1 DEF ItemsClassed
  <2>3. f.item[i].listed =>
           /\ IsAllocated(f, i)
           /\ f.class[f.item[i].class].listed /\ f.class[f.item[i].class].max >= 0
    BY <1>1 DEF ItemsClassed, ItemsCounted
  <2> QED
    BY <1>2, <1>4, <1>5, <2>1, <2>2, <2>3
<1>8. ClassesCounted(g, a)
  <2>1. \A m : UsersIn(g, a, m) = UsersIn(f, a, m)
    BY <1>1, <1>5, SameUsers
  <2>2. ASSUME NEW m \in ClassSlots
        PROVE  /\ g.class[m].links = Cardinality(UsersIn(g, a, m))
               /\ g.class[m].used <=> g.class[m].listed \/ g.class[m].links > 0
               /\ g.class[m].used /\ ~g.class[m].listed => g.class[m].max = -1
               /\ g.class[m].max >= -1
    BY <1>1, <1>2, <1>4, <1>5, <2>1 DEF ClassesCounted
  <2> QED
    BY <2>2 DEF ClassesCounted
<1>9. DefaultThere(g)
  BY <1>1, <1>2, <1>4, <1>5 DEF DefaultThere
<1> QED
  BY <1>1, <1>5, <1>6, <1>7, <1>8, <1>9 DEF Kept, g

\* The class of a new item is in the configuration.
LEMMA ClassForLive ==
    ASSUME NEW f, NEW a, Kept(f, a)
    PROVE  /\ ClassFor(f) \in ClassSlots /\ f.class[ClassFor(f)].used
           /\ f.class[ClassFor(f)].listed /\ f.class[ClassFor(f)].max >= 0
<1>1. ClassesCounted(f, a) /\ DefaultThere(f) /\ Class0 \in ClassSlots
  BY ConfAssumption DEF Kept
<1> DEFINE live == {k \in NamedClass(f) : f.class[k].max >= 0}
<1>2. CASE live = {}
  BY <1>1, <1>2 DEF ClassFor, DefaultThere, ClassesCounted
<1>3. CASE live # {}
  <2>1. ClassFor(f) = CHOOSE k \in live : TRUE
    BY <1>3 DEF ClassFor
  <2>2. ClassFor(f) \in live
    BY <1>3, <2>1
  <2>3. ClassFor(f) \in ClassSlots /\ f.class[ClassFor(f)].listed /\ f.class[ClassFor(f)].max >= 0
    BY <2>2 DEF NamedClass
  <2> QED
    BY <1>1, <2>3 DEF ClassesCounted
<1> QED
  BY <1>2, <1>3

\* An auth or operator block is read: a free item is taken.
LEMMA AddItemKeeps ==
    ASSUME NEW f, NEW a, NEW kind \in {"auth", "operator"}, Kept(f, a),
           \E i \in Items : ~IsAllocated(f, i)
    PROVE  /\ Kept(AddItem(f, kind), a)
           /\ \E i \in Items : \A j \in Items :
                j # i /\ ~IsAllocated(f, j) => ~IsAllocated(AddItem(f, kind), j)
<1>1. /\ f \in Conf /\ a \in [Conns -> SUBSET Items] /\ Single(a)
      /\ ItemsCounted(f, a) /\ ItemsClassed(f) /\ ClassesCounted(f, a) /\ DefaultThere(f)
  BY DEF Kept
<1>2. PICK i : i = CHOOSE j \in Items : ~IsAllocated(f, j)
  OBVIOUS
<1>3. i \in Items /\ ~IsAllocated(f, i)
  BY <1>2
<1>4. PICK x : x = [kind |-> kind, class |-> ClassFor(f), clients |-> 0,
                    illegal |-> FALSE, listed |-> TRUE]
  OBVIOUS
<1>5. /\ x \in ItemType /\ x.kind # "free" /\ x.class = ClassFor(f) /\ x.clients = 0
      /\ x.illegal = FALSE /\ x.listed = TRUE
  BY <1>4, ClassForLive DEF ItemType
<1> DEFINE g == AddItem(f, kind)
<1>6. g = [f EXCEPT !.item[i] = x]
  BY <1>2, <1>4 DEF AddItem
<1>7. /\ g \in Conf /\ g.class = f.class
      /\ \A j \in Items : g.item[j] = IF j = i THEN x ELSE f.item[j]
  BY <1>1, <1>3, <1>5, <1>6, SetItem
<1> HIDE DEF g
<1>8. AttachedIn(a, i) = {}
  BY <1>1, <1>3 DEF ItemsCounted
<1>9. ItemsCounted(g, a)
  <2> SUFFICES ASSUME NEW j \in Items
               PROVE  /\ g.item[j].clients = Cardinality(AttachedIn(a, j))
                      /\ IsAllocated(g, j) <=> g.item[j].listed \/ AttachedIn(a, j) # {}
                      /\ g.item[j].illegal <=> IsAllocated(g, j) /\ ~g.item[j].listed
                      /\ ~IsAllocated(g, j) => g.item[j] = FreeItem
    BY DEF ItemsCounted
  <2>1. CASE j = i
    <3>1. Cardinality(AttachedIn(a, i)) = 0
      BY <1>8, FS_EmptySet
    <3> QED
      BY <1>5, <1>7, <2>1, <3>1 DEF IsAllocated
  <2>2. CASE j # i
    BY <1>1, <1>7, <2>2 DEF IsAllocated, ItemsCounted
  <2> QED
    BY <2>1, <2>2
<1>10. ItemsClassed(g)
  BY <1>1, <1>5, <1>7, ClassForLive DEF ItemsClassed, IsAllocated
<1>11. ClassesCounted(g, a)
  <2>1. \A m : UsersIn(g, a, m) = UsersIn(f, a, m)
    BY <1>1, <1>7, <1>8, SameUsers
  <2> QED
    BY <1>1, <1>7, <2>1 DEF ClassesCounted
<1>12. DefaultThere(g)
  BY <1>1, <1>7 DEF DefaultThere
<1>13. \A j \in Items : j # i /\ ~IsAllocated(f, j) => ~IsAllocated(g, j)
  BY <1>7 DEF IsAllocated
<1> QED
  BY <1>1, <1>3, <1>7, <1>9, <1>10, <1>11, <1>12, <1>13 DEF Kept, g

\* The classes that were not read again leave the list; none that is used goes.
LEMMA CheckClassKeeps ==
    ASSUME NEW f, NEW a, Kept(f, a)
    PROVE  Kept(check_class(f), a) /\ NoneMarked(check_class(f))
<1>1. /\ f \in Conf /\ a \in [Conns -> SUBSET Items] /\ Single(a)
      /\ ItemsCounted(f, a) /\ ItemsClassed(f) /\ ClassesCounted(f, a) /\ DefaultThere(f)
  BY DEF Kept
<1> DEFINE g == check_class(f)
<1>2. /\ g = [item |-> g.item, class |-> g.class, listener |-> g.listener]
      /\ g.item = f.item /\ g.listener = f.listener
      /\ g.class = [k \in ClassSlots |->
                      IF ~(f.class[k].listed /\ f.class[k].max < 0) THEN f.class[k]
                      ELSE IF f.class[k].links <= 0 THEN FreeClass
                      ELSE [f.class[k] EXCEPT !.listed = FALSE]]
  <2>1. PICK t : t = [k \in ClassSlots |->
                      IF ~(f.class[k].listed /\ f.class[k].max < 0) THEN f.class[k]
                      ELSE IF f.class[k].links <= 0 THEN FreeClass
                      ELSE [f.class[k] EXCEPT !.listed = FALSE]]
    OBVIOUS
  <2>2. g = [f EXCEPT !.class = t]
    BY <2>1 DEF check_class
  <2> HIDE DEF g
  <2>3. g = [item |-> f.item, class |-> t, listener |-> f.listener]
    BY <1>1, <2>2, Parts
  <2> QED
    BY <2>1, <2>3
<1> HIDE DEF g
<1>3. ASSUME NEW k \in ClassSlots
      PROVE  /\ g.class[k] \in ClassType
             /\ ~(f.class[k].listed /\ f.class[k].max < 0) => g.class[k] = f.class[k]
             /\ f.class[k].listed /\ f.class[k].max < 0 /\ f.class[k].links = 0 =>
                  g.class[k] = FreeClass
             /\ f.class[k].listed /\ f.class[k].max < 0 /\ f.class[k].links > 0 =>
                  /\ g.class[k].used = f.class[k].used /\ g.class[k].listed = FALSE
                  /\ g.class[k].max = f.class[k].max /\ g.class[k].links = f.class[k].links
  <2>1. PICK x \in ClassType : x = f.class[k]
    BY <1>1, Slots
  <2>2. g.class[k] = IF ~(x.listed /\ x.max < 0) THEN x
                     ELSE IF x.links <= 0 THEN FreeClass ELSE [x EXCEPT !.listed = FALSE]
    BY <1>2, <2>1
  <2>3. FreeClass \in ClassType
    BY DEF FreeClass, ClassType
  <2>4. g.class[k] \in ClassType
    BY <2>2, <2>3 DEF ClassType
  <2>5. x.listed /\ x.max < 0 /\ x.links > 0 =>
           /\ g.class[k].used = x.used /\ g.class[k].listed = FALSE
           /\ g.class[k].max = x.max /\ g.class[k].links = x.links
    BY <2>2 DEF ClassType
  <2>6. x.listed /\ x.max < 0 /\ x.links = 0 => g.class[k] = FreeClass
    BY <2>2
  <2>7. ~(x.listed /\ x.max < 0) => g.class[k] = x
    BY <2>2
  <2> QED
    BY <2>1, <2>4, <2>5, <2>6, <2>7
<1>4. g \in Conf
  <2>1. g.class \in [ClassSlots -> ClassType]
    BY <1>2, <1>3
  <2>2. g.item \in [Items -> ItemType] /\ g.listener \in ListenerType
    BY <1>1, <1>2 DEF Conf, ItemType, ListenerType
  <2> QED
    BY <1>2, <2>1, <2>2, IsConf
<1>5. ItemsCounted(g, a)
  BY <1>1, <1>2 DEF ItemsCounted, IsAllocated
<1>6. ItemsClassed(g)
  <2> SUFFICES ASSUME NEW i \in Items, IsAllocated(g, i)
               PROVE  /\ g.item[i].class \in ClassSlots /\ g.class[g.item[i].class].used
                      /\ g.item[i].listed =>
                           /\ g.class[g.item[i].class].listed
                           /\ g.class[g.item[i].class].max >= 0
    <3>1. ASSUME NEW i \in Items, g.item[i].listed PROVE IsAllocated(g, i)
      BY <1>5, <3>1 DEF ItemsCounted
    <3> QED
      BY <3>1 DEF ItemsClassed
  <2>1. PICK k : k = f.item[i].class
    OBVIOUS
  <2>2. /\ k \in ClassSlots /\ f.class[k].used
        /\ f.item[i].listed => f.class[k].listed /\ f.class[k].max >= 0
    BY <1>1, <1>2, <2>1 DEF ItemsClassed, IsAllocated
  <2>3. CASE f.item[i].listed
    <3>1. f.class[k].listed /\ f.class[k].max >= 0 /\ f.class[k].max \in Int
      BY <1>1, <2>2, <2>3, Slots DEF ClassType
    <3>3. ~(f.class[k].listed /\ f.class[k].max < 0)
      BY <3>1
    <3>2. g.class[k] = f.class[k]
      BY <1>3, <2>2, <3>3
    <3> QED
      BY <1>2, <2>1, <2>2, <3>1, <3>2
  <2>4. CASE ~f.item[i].listed
    <3>1. AttachedIn(a, i) # {}
      BY <1>5, <1>2, <2>4 DEF ItemsCounted
    <3>2. f.class[k].links > 0
      BY <2>1, <3>1, Counts
    <3> QED
      BY <1>2, <1>3, <2>1, <2>2, <2>4, <3>2
  <2> QED
    BY <2>3, <2>4
<1>7. ClassesCounted(g, a)
  <2>1. \A m : UsersIn(g, a, m) = UsersIn(f, a, m)
    BY <1>1, <1>2, SameUsers
  <2> SUFFICES ASSUME NEW k \in ClassSlots
               PROVE  /\ g.class[k].links = Cardinality(UsersIn(g, a, k))
                      /\ g.class[k].used <=> g.class[k].listed \/ g.class[k].links > 0
                      /\ g.class[k].used /\ ~g.class[k].listed => g.class[k].max = -1
                      /\ g.class[k].max >= -1
    BY DEF ClassesCounted
  <2>2. /\ f.class[k].links = Cardinality(UsersIn(g, a, k)) /\ f.class[k].links \in Nat
        /\ f.class[k].used <=> f.class[k].listed \/ f.class[k].links > 0
        /\ f.class[k].used /\ ~f.class[k].listed => f.class[k].max = -1
        /\ f.class[k].max >= -1 /\ f.class[k].max \in Int
    BY <1>1, <2>1, Slots DEF ClassesCounted, ClassType
  <2>3. CASE ~(f.class[k].listed /\ f.class[k].max < 0)
    BY <1>3, <2>2, <2>3
  <2>4. CASE f.class[k].listed /\ f.class[k].max < 0 /\ f.class[k].links = 0
    <3>1. g.class[k] = FreeClass
      BY <1>3, <2>4
    <3> QED
      BY <2>2, <2>4, <3>1, FreeFields
  <2>5. CASE f.class[k].listed /\ f.class[k].max < 0 /\ f.class[k].links > 0
    <3>1. g.class[k].used = f.class[k].used
      BY <1>3, <2>5
    <3>2. g.class[k].listed = FALSE
      BY <1>3, <2>5
    <3>3. g.class[k].max = f.class[k].max /\ g.class[k].links = f.class[k].links
      BY <1>3, <2>5
    <3> QED
      BY <3>1, <3>2, <3>3, <2>2, <2>5
  <2> QED
    BY <2>2, <2>3, <2>4, <2>5
<1>8. DefaultThere(g)
  <2>1. Class0 \in ClassSlots /\ f.class[Class0].listed /\ f.class[Class0].max >= 0
    BY <1>1, ConfAssumption DEF DefaultThere
  <2>2. f.class[Class0].max \in Int
    BY <1>1, <2>1, Slots DEF ClassType
  <2>3. ~(f.class[Class0].listed /\ f.class[Class0].max < 0)
    BY <2>1, <2>2
  <2>4. g.class[Class0] = f.class[Class0]
    BY <1>3, <2>1, <2>3
  <2> QED
    BY <2>1, <2>4 DEF DefaultThere
<1>9. NoneMarked(g)
  <2> SUFFICES ASSUME NEW k \in ClassSlots, g.class[k].listed
               PROVE  g.class[k].max >= 0
    BY DEF NoneMarked
  <2>1. f.class[k].links \in Nat /\ f.class[k].max \in Int
    BY <1>1, Slots DEF ClassType
  <2>2. CASE ~(f.class[k].listed /\ f.class[k].max < 0)
    <3>1. g.class[k] = f.class[k]
      BY <1>3, <2>2
    <3> QED
      BY <2>1, <2>2, <3>1
  <2>3. CASE f.class[k].listed /\ f.class[k].max < 0 /\ f.class[k].links = 0
    <3>1. g.class[k] = FreeClass
      BY <1>3, <2>3
    <3> QED
      BY <3>1, FreeFields
  <2>4. CASE f.class[k].listed /\ f.class[k].max < 0 /\ f.class[k].links > 0
    <3>1. g.class[k].listed = FALSE
      BY <1>3, <2>4
    <3> QED
      BY <3>1
  <2> QED
    BY <2>1, <2>2, <2>3, <2>4
<1> QED
  BY <1>1, <1>4, <1>5, <1>6, <1>7, <1>8, <1>9 DEF Kept, g

---------------------------------------------------------------------------
(* The listener.                                                           *)

\* What is said of items and classes does not depend on the listener.
LEMMA ListenerApart ==
    ASSUME NEW f, NEW g, NEW a, g \in Conf, g.item = f.item, g.class = f.class
    PROVE  (Kept(f, a) => Kept(g, a)) /\ (NoneMarked(f) => NoneMarked(g))
<1>1. \A k : UsersIn(g, a, k) = UsersIn(f, a, k)
  BY DEF UsersIn
<1>2. Kept(f, a) => ItemsCounted(g, a) /\ ItemsClassed(g) /\ DefaultThere(g)
  BY DEF Kept, ItemsCounted, ItemsClassed, DefaultThere, IsAllocated
<1>3. Kept(f, a) => ClassesCounted(g, a)
  BY <1>1 DEF Kept, ClassesCounted
<1>4. NoneMarked(f) => NoneMarked(g)
  BY DEF NoneMarked
<1> QED
  BY <1>2, <1>3, <1>4 DEF Kept

\* The port is opened again, or closed.
LEMMA AddListener ==
    ASSUME NEW f \in Conf, NEW binds \in BOOLEAN
    PROVE  LET g == add_listener(f, binds)
           IN  /\ g \in Conf /\ g.item = f.item /\ g.class = f.class
               /\ \A s : ListenerCounted(f, s) => ListenerCounted(g, s)
<1>1. PICK l \in ListenerType : l = f.listener
  BY Slots
<1>2. PICK x : x = IF binds THEN [used |-> TRUE, active |-> TRUE, ref_count |-> l.ref_count]
                   ELSE IF l.ref_count > 0 THEN [l EXCEPT !.active = FALSE] ELSE FreeListener
  OBVIOUS
<1>3. add_listener(f, binds) = [f EXCEPT !.listener = x]
  BY <1>1, <1>2 DEF add_listener
<1>4. x \in ListenerType
  BY <1>2 DEF ListenerType, FreeListener
<1>5. /\ x.ref_count = l.ref_count
      /\ (l.used <=> l.active \/ l.ref_count > 0) => (x.used <=> x.active \/ x.ref_count > 0)
  BY <1>2 DEF ListenerType, FreeListener
<1> DEFINE g == add_listener(f, binds)
<1>6. g \in Conf /\ g.item = f.item /\ g.class = f.class /\ g.listener = x
  BY <1>3, <1>4, SetListener
<1> HIDE DEF g
<1>7. \A s : ListenerCounted(f, s) => ListenerCounted(g, s)
  BY <1>1, <1>5, <1>6 DEF ListenerCounted
<1> QED
  BY <1>6, <1>7 DEF g

\* A listener that is closed stays while a client holds it.
LEMMA ClearListener ==
    ASSUME NEW f \in Conf, NEW s, ListenerCounted(f, s)
    PROVE  ListenerCounted(clear_out_old_conf(f), s)
<1>1. PICK l \in ListenerType : l = f.listener
  BY Slots
<1>2. clear_out_old_conf(f).listener =
         IF l.ref_count > 0 THEN [l EXCEPT !.active = FALSE] ELSE FreeListener
  BY <1>1 DEF clear_out_old_conf
<1> QED
  BY <1>1, <1>2 DEF ListenerCounted, ListenerType, FreeListener

\* A client lets go of it.
LEMMA UnrefListener ==
    ASSUME NEW f \in Conf, NEW s, IsFiniteSet(s), NEW c \in s, ListenerCounted(f, s)
    PROVE  LET g == listener_unref(f)
           IN  /\ g \in Conf /\ g.item = f.item /\ g.class = f.class
               /\ ListenerCounted(g, s \ {c})
<1>1. PICK l \in ListenerType : l = f.listener
  BY Slots
<1>2. Cardinality(s \ {c}) = Cardinality(s) - 1 /\ Cardinality(s) \in Nat
  BY FS_RemoveElement, FS_CardinalityType
<1>3. l.ref_count = Cardinality(s) /\ l.ref_count # 0
  <2>1. s # {}
    OBVIOUS
  <2>2. Cardinality(s) # 0
    BY <2>1, FS_EmptySet
  <2> QED
    BY <1>1, <2>2 DEF ListenerCounted
<1>4. PICK x : x = IF l.ref_count = 1 /\ ~l.active THEN FreeListener
                   ELSE [l EXCEPT !.ref_count = l.ref_count - 1]
  OBVIOUS
<1>5. listener_unref(f) = [f EXCEPT !.listener = x]
  BY <1>1, <1>4 DEF listener_unref
<1>6. x \in ListenerType /\ x.ref_count = l.ref_count - 1
  BY <1>2, <1>3, <1>4 DEF ListenerType, FreeListener
<1>7. x.used <=> x.active \/ x.ref_count > 0
  <2>1. l.used <=> l.active \/ l.ref_count > 0
    BY <1>1 DEF ListenerCounted
  <2> QED
    BY <1>2, <1>3, <1>4, <2>1 DEF ListenerType, FreeListener
<1> DEFINE g == listener_unref(f)
<1>8. g \in Conf /\ g.item = f.item /\ g.class = f.class /\ g.listener = x
  BY <1>5, <1>6, SetListener
<1> HIDE DEF g
<1>9. ListenerCounted(g, s \ {c})
  BY <1>2, <1>3, <1>6, <1>7, <1>8 DEF ListenerCounted
<1> QED
  BY <1>8, <1>9 DEF g

\* A connection comes by it.
LEMMA RefListener ==
    ASSUME NEW f \in Conf, NEW s, IsFiniteSet(s), NEW c, c \notin s, ListenerCounted(f, s),
           f.listener.active
    PROVE  LET g == [f EXCEPT !.listener.ref_count = @ + 1]
           IN  /\ g \in Conf /\ g.item = f.item /\ g.class = f.class
               /\ ListenerCounted(g, s \cup {c})
<1>1. PICK l \in ListenerType : l = f.listener
  BY Slots
<1>2. Cardinality(s \cup {c}) = Cardinality(s) + 1 /\ Cardinality(s) \in Nat
  BY FS_AddElement, FS_CardinalityType
<1>3. PICK x : x = [l EXCEPT !.ref_count = l.ref_count + 1]
  OBVIOUS
<1>4. x \in ListenerType /\ x.ref_count = l.ref_count + 1 /\ x.active = l.active /\ x.used = l.used
  BY <1>3 DEF ListenerType
<1> DEFINE g == [f EXCEPT !.listener.ref_count = @ + 1]
<1>5. g = [f EXCEPT !.listener = x]
  BY <1>1, <1>3, Parts
<1>6. g \in Conf /\ g.item = f.item /\ g.class = f.class /\ g.listener = x
  BY <1>4, <1>5, SetListener
<1> HIDE DEF g
<1>7. ListenerCounted(g, s \cup {c})
  BY <1>1, <1>2, <1>4, <1>6 DEF ListenerCounted, ListenerType
<1> QED
  BY <1>6, <1>7 DEF g

---------------------------------------------------------------------------
(* A rehash.                                                               *)

\* Two of the free items, and a free class.
Room(f) ==
    /\ \E i, j \in Items : i # j /\ ~IsAllocated(f, i) /\ ~IsAllocated(f, j)
    /\ \E k \in ClassSlots : ~f.class[k].used

\* After the old blocks have been cleared there is room for the new ones.
LEMMA RoomForTwo ==
    ASSUME NEW f \in Conf, HasRoom(f)
    PROVE  Room(clear_out_old_conf(f))
<1> DEFINE g == clear_out_old_conf(f)
           S == {i \in Items : ~IsAllocated(g, i)}
<1>1. Cardinality(S) >= 2 /\ IsFiniteSet(S)
  <2>1. IsFiniteSet(S)
    BY ConfAssumption, FS_Subset
  <2> QED
    BY <2>1 DEF HasRoom
<1>2. \E i, j \in S : i # j
  <2>1. SUFFICES ASSUME \A i, j \in S : i = j PROVE FALSE
    OBVIOUS
  <2>2. CASE S = {}
    <3>1. Cardinality(S) = 0
      BY <2>2, FS_EmptySet
    <3> HIDE DEF S
    <3> QED
      BY <1>1, <3>1
  <2>3. CASE S # {}
    <3>1. PICK i : S = {i}
      <4> HIDE DEF S
      <4> QED
        BY <2>1, <2>3
    <3>2. Cardinality(S) = 1
      BY <3>1, FS_Singleton
    <3> HIDE DEF S
    <3> QED
      BY <1>1, <3>2
  <2> QED
    BY <2>2, <2>3
<1>3. PICK k \in ClassSlots : ~f.class[k].used
  BY DEF HasRoom
<1>4. ~g.class[k].used
  <2>1. PICK x \in ClassType : x = f.class[k]
    BY Slots
  <2>2. g.class[k] = IF k # Class0 /\ x.listed THEN [x EXCEPT !.max = -1] ELSE x
    BY <2>1 DEF clear_out_old_conf
  <2> HIDE DEF g
  <2> QED
    BY <1>3, <2>1, <2>2 DEF ClassType
<1> QED
  BY <1>2, <1>3, <1>4 DEF Room

\* Nothing but clearing and the port touches the listener.
LEMMA ListenerStays ==
    ASSUME NEW f \in Conf
    PROVE  /\ add_class(f).listener = f.listener /\ check_class(f).listener = f.listener
           /\ \A kind : AddItem(f, kind).listener = f.listener
<1>1. f = [item |-> f.item, class |-> f.class, listener |-> f.listener]
  BY Parts
<1> QED
  BY <1>1 DEF add_class, check_class, AddItem

\* read_conf keeps the counts, and lists no class that is marked.
LEMMA ReadKeeps ==
    ASSUME NEW f, NEW a, NEW v, NEW binds \in BOOLEAN, Kept(f, a), Room(f)
    PROVE  LET g == read_conf(f, v, binds)
           IN  /\ Kept(g, a) /\ NoneMarked(g)
               /\ \A s : ListenerCounted(f, s) => ListenerCounted(g, s)
<1>1. PICK f1 : f1 = IF "class" \in v THEN add_class(f) ELSE f
  OBVIOUS
<1>2. PICK f2 : f2 = IF "listen" \in v THEN add_listener(f1, binds) ELSE f1
  OBVIOUS
<1>3. PICK f3 : f3 = IF "auth" \in v THEN AddItem(f2, "auth") ELSE f2
  OBVIOUS
<1>4. PICK f4 : f4 = IF "operator" \in v THEN AddItem(f3, "operator") ELSE f3
  OBVIOUS
<1>5. read_conf(f, v, binds) = check_class(f4)
  BY <1>1, <1>2, <1>3, <1>4 DEF read_conf
<1>6. Kept(f1, a) /\ f1.item = f.item /\ f1.listener = f.listener
  BY <1>1, AddClassKeeps, ListenerStays DEF Room, Kept
<1>7. /\ Kept(f2, a) /\ f2.item = f.item
      /\ \A s : ListenerCounted(f, s) => ListenerCounted(f2, s)
  <2>1. f1 \in Conf /\ \A s : ListenerCounted(f, s) => ListenerCounted(f1, s)
    BY <1>6 DEF Kept, ListenerCounted
  <2>2. CASE "listen" \in v
    <3>1. f2 = add_listener(f1, binds)
      BY <1>2, <2>2
    <3>2. /\ f2 \in Conf /\ f2.item = f1.item /\ f2.class = f1.class
          /\ \A s : ListenerCounted(f1, s) => ListenerCounted(f2, s)
      BY <2>1, <3>1, AddListener
    <3> QED
      BY <1>6, <2>1, <3>2, ListenerApart
  <2>3. CASE "listen" \notin v
    BY <1>2, <1>6, <2>1, <2>3
  <2> QED
    BY <2>2, <2>3
<1>8. /\ Kept(f3, a) /\ f3.listener = f2.listener
      /\ \E i \in Items : ~IsAllocated(f3, i)
  <2>1. PICK i \in Items, j \in Items : i # j /\ ~IsAllocated(f2, i) /\ ~IsAllocated(f2, j)
    BY <1>7 DEF Room, IsAllocated
  <2>2. CASE "auth" \in v
    <3>1. f3 = AddItem(f2, "auth")
      BY <1>3, <2>2
    <3>2. /\ Kept(f3, a)
          /\ \E m \in Items : \A n \in Items : n # m /\ ~IsAllocated(f2, n) => ~IsAllocated(f3, n)
      BY <1>7, <2>1, <3>1, AddItemKeeps
    <3> QED
      BY <1>7, <2>1, <3>1, <3>2, ListenerStays DEF Kept
  <2>3. CASE "auth" \notin v
    BY <1>3, <1>7, <2>1, <2>3
  <2> QED
    BY <2>2, <2>3
<1>9. Kept(f4, a) /\ f4.listener = f3.listener
  BY <1>4, <1>8, AddItemKeeps, ListenerStays DEF Kept
<1>10. Kept(check_class(f4), a) /\ NoneMarked(check_class(f4))
  BY <1>9, CheckClassKeeps
<1>11. check_class(f4).listener = f2.listener
  BY <1>8, <1>9, ListenerStays DEF Kept
<1> QED
  BY <1>5, <1>7, <1>10, <1>11 DEF ListenerCounted

\* Whatever version of the configuration is read, and whoever is attached.
LEMMA RehashKeeps ==
    ASSUME NEW f, NEW a, NEW s, NEW v, NEW binds \in BOOLEAN,
           Kept(f, a), HasRoom(f), ListenerCounted(f, s)
    PROVE  LET g == rehash(f, v, binds)
           IN  Kept(g, a) /\ NoneMarked(g) /\ ListenerCounted(g, s)
<1>1. Kept(clear_out_old_conf(f), a)
  BY ClearKeeps
<1>2. Room(clear_out_old_conf(f)) /\ ListenerCounted(clear_out_old_conf(f), s)
  BY RoomForTwo, ClearListener DEF Kept
<1> QED
  BY <1>1, <1>2, ReadKeeps DEF rehash

---------------------------------------------------------------------------
(* Attaching and detaching.                                                *)

\* A client that holds nothing is attached to an item of the configuration.
LEMMA AttachKeeps ==
    ASSUME NEW f, NEW a, NEW c \in Conns, NEW i \in Items,
           Kept(f, a), a[c] = {}, f.item[i].listed
    PROVE  /\ Kept(attach_conf(f, i), [a EXCEPT ![c] = {i}])
           /\ NoneMarked(f) => NoneMarked(attach_conf(f, i))
           /\ attach_conf(f, i).listener = f.listener
<1>1. /\ f \in Conf /\ a \in [Conns -> SUBSET Items] /\ Single(a)
      /\ ItemsCounted(f, a) /\ ItemsClassed(f) /\ ClassesCounted(f, a) /\ DefaultThere(f)
  BY DEF Kept
<1> DEFINE g == attach_conf(f, i)
           b == [a EXCEPT ![c] = {i}]
<1>2. PICK k : k = f.item[i].class
  OBVIOUS
<1>3. IsAllocated(f, i) /\ k \in ClassSlots /\ f.class[k].used /\ f.class[k].listed
  BY <1>1, <1>2 DEF ItemsClassed, ItemsCounted
<1>4. PICK x : x = [f.item[i] EXCEPT !.clients = f.item[i].clients + 1]
  OBVIOUS
<1>5. PICK y : y = [f.class[k] EXCEPT !.links = f.class[k].links + 1]
  OBVIOUS
<1>6. /\ x \in ItemType /\ x.clients = f.item[i].clients + 1 /\ x.kind = f.item[i].kind
      /\ x.class = k /\ x.illegal = f.item[i].illegal /\ x.listed = f.item[i].listed
  <2>1. PICK z \in ItemType : z = f.item[i]
    BY <1>1, Slots
  <2>2. x = [z EXCEPT !.clients = z.clients + 1]
    BY <1>4, <2>1
  <2>3. /\ x \in ItemType /\ x.clients = z.clients + 1 /\ x.kind = z.kind
        /\ x.class = z.class /\ x.illegal = z.illegal /\ x.listed = z.listed
    BY <2>2 DEF ItemType
  <2> QED
    BY <1>2, <2>1, <2>3
<1>7. /\ y \in ClassType /\ y.links = f.class[k].links + 1 /\ y.used = f.class[k].used
      /\ y.max = f.class[k].max /\ y.listed = f.class[k].listed
  <2>1. PICK z \in ClassType : z = f.class[k]
    BY <1>1, <1>3, Slots
  <2>2. y = [z EXCEPT !.links = z.links + 1]
    BY <1>5, <2>1
  <2> QED
    BY <2>1, <2>2 DEF ClassType
<1>8. /\ g \in Conf /\ g.listener = f.listener
      /\ \A j \in Items : g.item[j] = IF j = i THEN x ELSE f.item[j]
      /\ \A m \in ClassSlots : g.class[m] = IF m = k THEN y ELSE f.class[m]
  <2>1. PICK h : h = [f EXCEPT !.item[i] = x]
    OBVIOUS
  <2>2. /\ h \in Conf /\ h.class = f.class /\ h.listener = f.listener
        /\ \A j \in Items : h.item[j] = IF j = i THEN x ELSE f.item[j]
    BY <1>1, <1>6, <2>1, SetItem
  <2>3. g = [h EXCEPT !.class[k] = y]
    <3>1. g = [f EXCEPT !.item[i] = x, !.class[k] = y]
      BY <1>1, <1>2, <1>3, <1>4, <1>5, Parts DEF attach_conf
    <3> QED
      BY <2>1, <3>1
  <2> HIDE DEF g
  <2> QED
    BY <1>3, <1>7, <2>2, <2>3, SetClass
<1>9. b \in [Conns -> SUBSET Items] /\ \A d \in Conns : b[d] = IF d = c THEN {i} ELSE a[d]
  BY <1>1
<1> HIDE DEF g, b
<1>10. AttachedIn(b, i) = AttachedIn(a, i) \cup {c} /\ c \notin AttachedIn(a, i)
  BY <1>1, <1>9 DEF AttachedIn
<1>11. \A j \in Items : j # i => AttachedIn(b, j) = AttachedIn(a, j)
  BY <1>1, <1>9 DEF AttachedIn
<1>12. \A j \in Items : g.item[j].class = f.item[j].class
  BY <1>2, <1>6, <1>8
<1>13. UsersIn(g, b, k) = UsersIn(f, a, k) \cup {c} /\ c \notin UsersIn(f, a, k)
  BY <1>1, <1>2, <1>9, <1>12 DEF UsersIn
<1>14. \A m \in ClassSlots : m # k => UsersIn(g, b, m) = UsersIn(f, a, m)
  BY <1>1, <1>2, <1>9, <1>12 DEF UsersIn
<1>15. Single(b)
  BY <1>1, <1>9 DEF Single
<1>16. ItemsCounted(g, b)
  <2> SUFFICES ASSUME NEW j \in Items
               PROVE  /\ g.item[j].clients = Cardinality(AttachedIn(b, j))
                      /\ IsAllocated(g, j) <=> g.item[j].listed \/ AttachedIn(b, j) # {}
                      /\ g.item[j].illegal <=> IsAllocated(g, j) /\ ~g.item[j].listed
                      /\ ~IsAllocated(g, j) => g.item[j] = FreeItem
    BY DEF ItemsCounted
  <2>1. CASE j # i
    BY <1>1, <1>8, <1>11, <2>1 DEF ItemsCounted, IsAllocated
  <2>2. CASE j = i
    <3>1. Cardinality(AttachedIn(b, i)) = Cardinality(AttachedIn(a, i)) + 1
      BY <1>10, Finite, FS_AddElement
    <3>2. g.item[i] = x /\ IsAllocated(g, i)
      BY <1>3, <1>6, <1>8 DEF IsAllocated
    <3>3. f.item[i].clients = Cardinality(AttachedIn(a, i)) /\ (f.item[i].illegal <=> ~f.item[i].listed)
      BY <1>1, <1>3 DEF ItemsCounted
    <3> QED
      BY <1>6, <2>2, <3>1, <3>2, <3>3
  <2> QED
    BY <2>1, <2>2
<1>17. ItemsClassed(g)
  <2> SUFFICES ASSUME NEW j \in Items
               PROVE  /\ IsAllocated(g, j) =>
                           g.item[j].class \in ClassSlots /\ g.class[g.item[j].class].used
                      /\ g.item[j].listed =>
                           /\ g.class[g.item[j].class].listed
                           /\ g.class[g.item[j].class].max >= 0
    BY DEF ItemsClassed
  <2>1. (IsAllocated(g, j) <=> IsAllocated(f, j)) /\ g.item[j].listed = f.item[j].listed
    BY <1>6, <1>8 DEF IsAllocated
  <2>2. IsAllocated(f, j) =>
           f.item[j].class \in ClassSlots /\ f.class[f.item[j].class].used
    BY <1>1 DEF ItemsClassed
  <2>3. f.item[j].listed =>
           /\ IsAllocated(f, j)
           /\ f.class[f.item[j].class].listed /\ f.class[f.item[j].class].max >= 0
    BY <1>1 DEF ItemsClassed, ItemsCounted
  <2>4. \A m \in ClassSlots : /\ g.class[m].used = f.class[m].used
                              /\ g.class[m].listed = f.class[m].listed
                              /\ g.class[m].max = f.class[m].max
    BY <1>7, <1>8
  <2> QED
    BY <1>12, <2>1, <2>2, <2>3, <2>4
<1>18. ClassesCounted(g, b)
  <2> SUFFICES ASSUME NEW m \in ClassSlots
               PROVE  /\ g.class[m].links = Cardinality(UsersIn(g, b, m))
                      /\ g.class[m].used <=> g.class[m].listed \/ g.class[m].links > 0
                      /\ g.class[m].used /\ ~g.class[m].listed => g.class[m].max = -1
                      /\ g.class[m].max >= -1
    BY DEF ClassesCounted
  <2>1. CASE m # k
    BY <1>1, <1>8, <1>14, <2>1 DEF ClassesCounted
  <2>2. CASE m = k
    <3>1. Cardinality(UsersIn(g, b, k)) = Cardinality(UsersIn(f, a, k)) + 1
      BY <1>13, Finite, FS_AddElement
    <3>2. g.class[k] = y
      BY <1>3, <1>8
    <3>3. f.class[k].links = Cardinality(UsersIn(f, a, k)) /\ f.class[k].max >= -1
      BY <1>1, <1>3 DEF ClassesCounted
    <3> QED
      BY <1>3, <1>7, <2>2, <3>1, <3>2, <3>3
  <2> QED
    BY <2>1, <2>2
<1>19. DefaultThere(g)
  BY <1>1, <1>7, <1>8, ConfAssumption DEF DefaultThere
<1>20. NoneMarked(f) => NoneMarked(g)
  BY <1>7, <1>8 DEF NoneMarked
<1> QED
  BY <1>8, <1>9, <1>15, <1>16, <1>17, <1>18, <1>19, <1>20 DEF Kept, g, b

\* A client gives up its item: the last client of a marked class frees it, and
\* the last one of an illegal item frees that.
LEMMA DetachKeeps ==
    ASSUME NEW f, NEW a, NEW c \in Conns, NEW i \in a[c], Kept(f, a)
    PROVE  /\ Kept(detach_conf(f, i), [a EXCEPT ![c] = {}])
           /\ NoneMarked(f) => NoneMarked(detach_conf(f, i))
           /\ detach_conf(f, i).listener = f.listener
           /\ \A j \in Items : f.item[j].listed => detach_conf(f, i).item[j].listed
<1>1. /\ f \in Conf /\ a \in [Conns -> SUBSET Items] /\ Single(a)
      /\ ItemsCounted(f, a) /\ ItemsClassed(f) /\ ClassesCounted(f, a) /\ DefaultThere(f)
  BY DEF Kept
<1> DEFINE g == detach_conf(f, i)
           b == [a EXCEPT ![c] = {}]
<1>2. i \in Items /\ a[c] = {i} /\ c \in AttachedIn(a, i)
  BY <1>1 DEF Single, AttachedIn
<1>3. PICK k : k = f.item[i].class
  OBVIOUS
<1>4. PICK p \in ItemType : p = f.item[i]
  BY <1>1, <1>2, Slots
<1>5. /\ p.kind # "free" /\ p.class = k /\ (p.illegal <=> ~p.listed)
      /\ p.clients = Cardinality(AttachedIn(a, i)) /\ p.clients > 0
  <2>1. IsAllocated(f, i) /\ (f.item[i].illegal <=> ~f.item[i].listed) /\ f.item[i].clients > 0
    BY <1>1, <1>2, Counts DEF ItemsCounted
  <2>2. f.item[i].clients = Cardinality(AttachedIn(a, i))
    BY <1>1, <1>2 DEF ItemsCounted
  <2> QED
    BY <1>3, <1>4, <2>1, <2>2 DEF IsAllocated
<1>6. /\ k \in ClassSlots /\ k # NoClass
      /\ p.listed => f.class[k].listed /\ f.class[k].max >= 0
  BY <1>1, <1>2, <1>3, <1>4, <1>5, ConfAssumption DEF ItemsClassed, IsAllocated
<1>7. PICK q \in ClassType : q = f.class[k]
  BY <1>1, <1>6, Slots
<1>8. /\ q.links = Cardinality(UsersIn(f, a, k)) /\ q.links > 0
      /\ q.used /\ (~q.listed => q.max = -1) /\ q.max >= -1
  <2>1. q.links > 0
    BY <1>2, <1>3, <1>7, Counts
  <2> QED
    BY <1>1, <1>6, <1>7, <2>1 DEF ClassesCounted
<1> DEFINE frees == q.max = -1 /\ q.links - 1 = 0
<1>9. PICK y : y = IF frees THEN FreeClass ELSE [q EXCEPT !.links = q.links - 1]
  OBVIOUS
<1>10. PICK x : x = IF p.clients - 1 = 0 /\ p.illegal THEN FreeItem
                    ELSE [p EXCEPT !.clients = p.clients - 1]
  OBVIOUS
\* The users of the class when it goes: the client alone.
<1>11. frees => UsersIn(f, a, k) = {c}
  <2> SUFFICES ASSUME frees PROVE UsersIn(f, a, k) = {c}
    OBVIOUS
  <2>1. Cardinality(UsersIn(f, a, k)) = 1
    BY <1>8, <1>7 DEF ClassType
  <2>2. PICK d : UsersIn(f, a, k) = {d}
    BY <2>1, Finite, FS_Singleton
  <2>3. c \in UsersIn(f, a, k)
    BY <1>3 DEF UsersIn
  <2> QED
    BY <2>2, <2>3
<1>12. frees => p.clients - 1 = 0 /\ p.illegal
  <2> SUFFICES ASSUME frees PROVE p.clients - 1 = 0 /\ p.illegal
    OBVIOUS
  <2>1. AttachedIn(a, i) = {c}
    BY <1>2, <1>3, <1>11 DEF UsersIn, AttachedIn
  <2>2. p.clients = 1
    BY <1>5, <2>1, FS_Singleton
  <2>3. ~p.listed
    BY <1>6, <1>7
  <2> QED
    BY <1>5, <2>2, <2>3
<1>13. g = [[f EXCEPT !.class = [f.class EXCEPT ![k] = y]] EXCEPT !.item[i] = x]
  <2>1. (IF q.links > 0 THEN q.links - 1 ELSE 0) = q.links - 1
    BY <1>8
  <2>2. g = [f EXCEPT !.class = [f.class EXCEPT ![k] = y],
                      !.item[i] = IF p.clients - 1 = 0 /\ p.illegal THEN FreeItem
                                  ELSE [p EXCEPT !.clients = p.clients - 1,
                                                 !.class = IF frees THEN NoClass ELSE k]]
    BY <1>3, <1>4, <1>6, <1>7, <1>9, <2>1 DEF detach_conf
  <2>3. ~(p.clients - 1 = 0 /\ p.illegal) =>
           [p EXCEPT !.clients = p.clients - 1, !.class = IF frees THEN NoClass ELSE k]
             = [p EXCEPT !.clients = p.clients - 1]
    BY <1>5, <1>12 DEF ItemType
  <2>4. g = [f EXCEPT !.class = [f.class EXCEPT ![k] = y], !.item[i] = x]
    BY <1>10, <2>2, <2>3
  <2> QED
    BY <2>4
<1>14. y \in ClassType
  BY <1>8, <1>9 DEF ClassType, FreeClass
<1>15. x \in ItemType
  BY <1>5, <1>10 DEF ItemType, FreeItem
<1>16. /\ g \in Conf /\ g.listener = f.listener
       /\ \A j \in Items : g.item[j] = IF j = i THEN x ELSE f.item[j]
       /\ \A m \in ClassSlots : g.class[m] = IF m = k THEN y ELSE f.class[m]
  <2>1. PICK h : h = [f EXCEPT !.class = [f.class EXCEPT ![k] = y]]
    OBVIOUS
  <2>2. h = [f EXCEPT !.class[k] = y]
    BY <1>1, <2>1, Parts
  <2>3. /\ h \in Conf /\ h.item = f.item /\ h.listener = f.listener
        /\ \A m \in ClassSlots : h.class[m] = IF m = k THEN y ELSE f.class[m]
    BY <1>1, <1>6, <1>14, <2>2, SetClass
  <2>4. g = [h EXCEPT !.item[i] = x]
    BY <1>13, <2>1
  <2> HIDE DEF g
  <2> QED
    BY <1>2, <1>15, <2>3, <2>4, SetItem
<1>17. b \in [Conns -> SUBSET Items] /\ \A d \in Conns : b[d] = IF d = c THEN {} ELSE a[d]
  BY <1>1
<1> HIDE DEF g, b
<1>18. AttachedIn(b, i) = AttachedIn(a, i) \ {c}
  BY <1>17 DEF AttachedIn
<1>18a. Cardinality(AttachedIn(b, i)) = p.clients - 1
  <2>1. Cardinality(AttachedIn(a, i) \ {c}) = Cardinality(AttachedIn(a, i)) - 1
    BY <1>2, Finite, FS_RemoveElement
  <2> QED
    BY <1>5, <1>18, <2>1
<1>19. \A j \in Items : j # i => AttachedIn(b, j) = AttachedIn(a, j)
  BY <1>2, <1>17 DEF AttachedIn
\* What is still attached keeps its class.
<1>20. \A j \in Items : AttachedIn(b, j) # {} => g.item[j].class = f.item[j].class
  <2>1. AttachedIn(b, i) # {} => p.clients # 1
    <3> SUFFICES ASSUME p.clients = 1 PROVE AttachedIn(b, i) = {}
      OBVIOUS
    <3>1. PICK d : AttachedIn(a, i) = {d}
      BY <1>5, Finite, FS_Singleton
    <3> QED
      BY <1>2, <1>18, <3>1
  <2>2. p.clients # 1 => x.class = p.class
    BY <1>10 DEF ItemType
  <2> QED
    BY <1>4, <1>16, <2>1, <2>2
<1>21. UsersIn(g, b, k) = UsersIn(f, a, k) \ {c} /\ c \in UsersIn(f, a, k)
  <2>1. \A d \in Conns, j \in Items : j \in b[d] => g.item[j].class = f.item[j].class
    BY <1>20 DEF AttachedIn
  <2> QED
    BY <1>1, <1>3, <1>17, <2>1 DEF UsersIn
<1>22. \A m \in ClassSlots : m # k => UsersIn(g, b, m) = UsersIn(f, a, m)
  <2>1. \A d \in Conns, j \in Items : j \in b[d] => g.item[j].class = f.item[j].class
    BY <1>20 DEF AttachedIn
  <2> QED
    BY <1>1, <1>2, <1>3, <1>17, <2>1 DEF UsersIn
<1>23. Single(b)
  BY <1>1, <1>17 DEF Single
<1>24. \/ x = FreeItem
       \/ /\ x.clients = p.clients - 1 /\ x.kind = p.kind /\ x.class = p.class
          /\ x.illegal = p.illegal /\ x.listed = p.listed
  BY <1>10 DEF ItemType
<1>25. x = FreeItem <=> (p.clients = 1 /\ p.illegal)
  <2>1. p.clients \in Nat /\ p.kind # "free"
    BY <1>5 DEF ItemType
  <2>2. [p EXCEPT !.clients = p.clients - 1].kind = p.kind
    BY DEF ItemType
  <2>3. CASE p.clients = 1 /\ p.illegal
    BY <1>10, <2>3
  <2>4. CASE ~(p.clients = 1 /\ p.illegal)
    <3>1. x.kind # "free"
      BY <1>10, <2>1, <2>2, <2>4
    <3> QED
      BY <2>4, <3>1, FreeFields
  <2> QED
    BY <2>3, <2>4
<1>26. AttachedIn(b, i) = {} <=> p.clients = 1
  <2>1. Cardinality(AttachedIn(b, i)) = p.clients - 1
    BY <1>18a
  <2>2. Cardinality(AttachedIn(b, i)) = 0 <=> AttachedIn(b, i) = {}
    BY Finite
  <2> QED
    BY <1>4, <2>1, <2>2 DEF ItemType
<1>27. ItemsCounted(g, b)
  <2> SUFFICES ASSUME NEW j \in Items
               PROVE  /\ g.item[j].clients = Cardinality(AttachedIn(b, j))
                      /\ IsAllocated(g, j) <=> g.item[j].listed \/ AttachedIn(b, j) # {}
                      /\ g.item[j].illegal <=> IsAllocated(g, j) /\ ~g.item[j].listed
                      /\ ~IsAllocated(g, j) => g.item[j] = FreeItem
    BY DEF ItemsCounted
  <2>1. CASE j # i
    BY <1>1, <1>16, <1>19, <2>1 DEF ItemsCounted, IsAllocated
  <2>2. CASE j = i
    <3>1. Cardinality(AttachedIn(b, i)) = p.clients - 1
      BY <1>18a
    <3>2. g.item[i] = x
      BY <1>2, <1>16
    <3>3. CASE x = FreeItem
      <4>1. Cardinality(AttachedIn(b, i)) = 0 /\ AttachedIn(b, i) = {}
        BY <1>25, <1>26, <3>1, <3>3
      <4> QED
        BY <2>2, <3>2, <3>3, <4>1, FreeFields DEF IsAllocated
    <3>4. CASE x # FreeItem
      <4>1. /\ x.clients = p.clients - 1 /\ x.kind # "free"
            /\ x.illegal = p.illegal /\ x.listed = p.listed
        BY <1>5, <1>24, <3>4
      <4>2. p.listed \/ AttachedIn(b, i) # {}
        BY <1>5, <1>25, <1>26, <3>4
      <4> QED
        BY <1>5, <2>2, <3>1, <3>2, <3>4, <4>1, <4>2 DEF IsAllocated
    <3> QED
      BY <3>3, <3>4
  <2> QED
    BY <2>1, <2>2
<1>28. \/ y.used /\ y.max = q.max /\ y.listed = q.listed /\ y.links = q.links - 1
       \/ frees /\ y = FreeClass
  BY <1>8, <1>9 DEF ClassType
<1>29. ItemsClassed(g)
  <2>1. ASSUME NEW j \in Items, g.item[j].listed PROVE IsAllocated(g, j)
    BY <1>27, <2>1 DEF ItemsCounted
  <2> SUFFICES ASSUME NEW j \in Items, IsAllocated(g, j)
               PROVE  /\ g.item[j].class \in ClassSlots /\ g.class[g.item[j].class].used
                      /\ g.item[j].listed =>
                           /\ g.class[g.item[j].class].listed
                           /\ g.class[g.item[j].class].max >= 0
    BY <2>1 DEF ItemsClassed
  <2>2. /\ IsAllocated(f, j) /\ g.item[j].class = f.item[j].class
        /\ g.item[j].listed = f.item[j].listed
    <3>1. CASE j # i
      BY <1>16, <3>1 DEF IsAllocated
    <3>2. CASE j = i
      <4>1. g.item[i] = x /\ x # FreeItem
        BY <1>2, <1>16, <3>2, FreeFields DEF IsAllocated
      <4> QED
        BY <1>4, <1>5, <1>24, <3>2, <4>1 DEF IsAllocated
    <3> QED
      BY <3>1, <3>2
  <2>3. PICK m : m = f.item[j].class
    OBVIOUS
  <2>4. /\ m \in ClassSlots /\ f.class[m].used
        /\ f.item[j].listed => f.class[m].listed /\ f.class[m].max >= 0
    BY <1>1, <2>2, <2>3 DEF ItemsClassed
  <2>5. CASE m # k
    BY <1>16, <2>2, <2>3, <2>4, <2>5
  <2>6. CASE m = k
    <3>1. g.class[m] = y
      BY <1>16, <2>4, <2>6
    <3>2. CASE frees
      \* Nobody else is attached to j, and it is not in the configuration.
      <4>1. ~f.item[j].listed
        BY <1>7, <2>4, <2>6, <3>2
      <4>2. PICK d : d \in AttachedIn(b, j)
        BY <1>27, <2>2, <4>1 DEF ItemsCounted
      <4>3. d \in UsersIn(g, b, k)
        BY <2>2, <2>3, <2>6, <4>2 DEF UsersIn, AttachedIn
      <4> QED
        BY <1>11, <1>21, <3>2, <4>3
    <3>3. CASE ~frees
      <4>1. y.used /\ y.max = q.max /\ y.listed = q.listed
        BY <1>28, <3>3
      <4> QED
        BY <1>7, <2>2, <2>3, <2>4, <2>6, <3>1, <4>1
    <3> QED
      BY <3>2, <3>3
  <2> QED
    BY <2>5, <2>6
<1>30. ClassesCounted(g, b)
  <2> SUFFICES ASSUME NEW m \in ClassSlots
               PROVE  /\ g.class[m].links = Cardinality(UsersIn(g, b, m))
                      /\ g.class[m].used <=> g.class[m].listed \/ g.class[m].links > 0
                      /\ g.class[m].used /\ ~g.class[m].listed => g.class[m].max = -1
                      /\ g.class[m].max >= -1
    BY DEF ClassesCounted
  <2>1. CASE m # k
    BY <1>1, <1>16, <1>22, <2>1 DEF ClassesCounted
  <2>2. CASE m = k
    <3>1. Cardinality(UsersIn(g, b, k)) = q.links - 1
      <4>1. Cardinality(UsersIn(f, a, k) \ {c}) = Cardinality(UsersIn(f, a, k)) - 1
        BY <1>21, Finite, FS_RemoveElement
      <4> QED
        BY <1>8, <1>21, <4>1
    <3>2. g.class[k] = y
      BY <1>6, <1>16
    <3>3. q.links \in Nat
      BY DEF ClassType
    <3>4. CASE frees
      <4>1. y = FreeClass
        BY <1>9, <3>4
      <4> QED
        BY <2>2, <3>1, <3>2, <3>4, <4>1, FreeFields
    <3>5. CASE ~frees
      <4>1. y.used /\ y.max = q.max /\ y.listed = q.listed /\ y.links = q.links - 1
        BY <1>28, <3>5
      <4>2. q.listed \/ q.links - 1 > 0
        BY <1>8, <3>3, <3>5
      <4> QED
        BY <1>8, <2>2, <3>1, <3>2, <4>1, <4>2
    <3> QED
      BY <3>4, <3>5
  <2> QED
    BY <2>1, <2>2
<1>31. DefaultThere(g)
  <2>1. Class0 = k => ~frees
    BY <1>1, <1>7 DEF DefaultThere
  <2> QED
    BY <1>1, <1>7, <1>16, <1>28, <2>1, ConfAssumption DEF DefaultThere
<1>32. NoneMarked(f) => NoneMarked(g)
  BY <1>6, <1>7, <1>16, <1>28, FreeFields DEF NoneMarked
<1>33. \A j \in Items : f.item[j].listed => g.item[j].listed
  BY <1>4, <1>5, <1>16, <1>24, <1>25
<1> QED
  BY <1>16, <1>17, <1>23, <1>27, <1>29, <1>30, <1>31, <1>32, <1>33 DEF Kept, g, b

\* The fold of detach_conf over what a client holds: nothing, or one item.
LEMMA DetNone ==
    ASSUME NEW f
    PROVE  det_confs(f, {}) = f
<1> DEFINE g == [s \in SUBSET {} |-> f]
<1>1. \E h : h = [s \in SUBSET {} |->
                    IF s = {} THEN f
                    ELSE detach_conf(h[s \ {CHOOSE x \in s : TRUE}], CHOOSE x \in s : TRUE)]
  <2>1. \A s \in SUBSET {} : s = {}
    OBVIOUS
  <2>2. g = [s \in SUBSET {} |->
               IF s = {} THEN f
               ELSE detach_conf(g[s \ {CHOOSE x \in s : TRUE}], CHOOSE x \in s : TRUE)]
    BY <2>1
  <2> QED
    BY <2>2
<1> QED
  BY <1>1 DEF det_confs, FoldSet, MapThenFoldSet

\* det_confs on one item is detach_conf: the fold takes one turn.
LEMMA DetOne ==
    ASSUME NEW f, NEW i
    PROVE  det_confs(f, {i}) = detach_conf(f, i)
<1> DEFINE g == [s \in SUBSET {i} |-> IF s = {} THEN f ELSE detach_conf(f, i)]
           Iterates(h) == h = [s \in SUBSET {i} |->
                                 IF s = {} THEN f
                                 ELSE detach_conf(h[s \ {CHOOSE x \in s : TRUE}],
                                                  CHOOSE x \in s : TRUE)]
<1>1. (CHOOSE x \in {i} : TRUE) = i /\ {i} \ {i} = {} /\ {i} # {}
      /\ {} \in SUBSET {i} /\ {i} \in SUBSET {i}
  OBVIOUS
<1>2. Iterates(g)
  <2>1. \A s \in SUBSET {i} : s = {} \/ s = {i}
    OBVIOUS
  <2>2. g[{}] = f
    BY <1>1
  <2>3. g[{i}] = detach_conf(g[{i} \ {CHOOSE x \in {i} : TRUE}], CHOOSE x \in {i} : TRUE)
    BY <1>1, <2>2
  <2>4. \A s \in SUBSET {i} :
           g[s] = IF s = {} THEN f
                  ELSE detach_conf(g[s \ {CHOOSE x \in s : TRUE}], CHOOSE x \in s : TRUE)
    <3> HIDE DEF g
    <3> QED
      BY <2>1, <2>2, <2>3
  <2> QED
    BY <2>4
<1>3. PICK h : h = CHOOSE h2 : Iterates(h2)
  OBVIOUS
<1>4. Iterates(h)
  BY <1>2, <1>3
<1>5. det_confs(f, {i}) = h[{i}]
  BY <1>3 DEF det_confs, FoldSet, MapThenFoldSet
<1>6. h[{}] = f
  BY <1>1, <1>4
<1>7. h[{i}] = detach_conf(h[{i} \ {CHOOSE x \in {i} : TRUE}], CHOOSE x \in {i} : TRUE)
  BY <1>1, <1>4
<1> QED
  BY <1>1, <1>5, <1>6, <1>7

\* det_confs_butmask, for a client that holds what it holds.
LEMMA DetConfsKeeps ==
    ASSUME NEW f, NEW a, NEW c \in Conns, Kept(f, a)
    PROVE  LET g == det_confs(f, a[c])
           IN  /\ Kept(g, [a EXCEPT ![c] = {}])
               /\ NoneMarked(f) => NoneMarked(g)
               /\ g.listener = f.listener
               /\ \A j \in Items : f.item[j].listed => g.item[j].listed
<1>1. CASE a[c] = {}
  <2>1. det_confs(f, a[c]) = f
    BY <1>1, DetNone
  <2>2. [a EXCEPT ![c] = {}] = a
    BY <1>1 DEF Kept
  <2> QED
    BY <2>1, <2>2
<1>2. CASE a[c] # {}
  <2>1. PICK i \in a[c] : a[c] = {i}
    BY <1>2 DEF Kept, Single
  <2>2. det_confs(f, a[c]) = detach_conf(f, i)
    BY <2>1, DetOne
  <2> QED
    BY <2>2, DetachKeeps
<1> QED
  BY <1>1, <1>2

\* The first configuration.
LEMMA EmptyKept ==
    LET a == [c \in Conns |-> {}]
    IN  Kept(EmptyConf, a) /\ Room(EmptyConf) /\ ListenerCounted(EmptyConf, {})
<1> DEFINE a == [c \in Conns |-> {}]
<1>1. EmptyConf \in Conf
  BY ConfAssumption DEF EmptyConf, Conf, FreeItem, FreeClass, FreeListener
<1>2. /\ \A i \in Items : EmptyConf.item[i] = FreeItem /\ ~IsAllocated(EmptyConf, i)
      /\ \A k \in ClassSlots : EmptyConf.class[k] =
           IF k = Class0 THEN [used |-> TRUE, links |-> 0, max |-> 1000, listed |-> TRUE]
           ELSE FreeClass
      /\ EmptyConf.listener = FreeListener
  BY FreeFields DEF EmptyConf, IsAllocated
<1>3. /\ \A i : AttachedIn(a, i) = {} /\ Cardinality(AttachedIn(a, i)) = 0
      /\ \A k : UsersIn(EmptyConf, a, k) = {} /\ Cardinality(UsersIn(EmptyConf, a, k)) = 0
  <2>1. \A i : AttachedIn(a, i) = {}
    BY DEF AttachedIn
  <2>2. \A k : UsersIn(EmptyConf, a, k) = {}
    BY DEF UsersIn
  <2> QED
    BY <2>1, <2>2, Finite
<1>4. ItemsCounted(EmptyConf, a)
  <2> HIDE DEF a
  <2> SUFFICES ASSUME NEW i \in Items
               PROVE  LET z == EmptyConf.item[i]
                      IN  /\ z.clients = 0 /\ ~IsAllocated(EmptyConf, i) /\ ~z.listed
                          /\ ~z.illegal /\ z = FreeItem
    BY <1>3 DEF ItemsCounted
  <2> QED
    BY <1>2, FreeFields
<1>5. ItemsClassed(EmptyConf)
  BY <1>2, FreeFields DEF ItemsClassed
<1>6. ClassesCounted(EmptyConf, a)
  <2> SUFFICES ASSUME NEW k \in ClassSlots
               PROVE  LET z == EmptyConf.class[k]
                      IN  /\ z.links = 0 /\ (z.used <=> z.listed)
                          /\ (z.used /\ ~z.listed => z.max = -1) /\ z.max >= -1
    <3> HIDE DEF a
    <3>1. \A k \in ClassSlots : Cardinality(UsersIn(EmptyConf, a, k)) = 0
      BY <1>3
    <3> QED
      BY <3>1 DEF ClassesCounted
  <2>1. CASE k = Class0
    BY <1>2, <2>1
  <2>2. CASE k # Class0
    BY <1>2, <2>2, FreeFields
  <2> QED
    BY <2>1, <2>2
<1>7. DefaultThere(EmptyConf)
  BY <1>2, ConfAssumption DEF DefaultThere
<1>8. Room(EmptyConf)
  <2>1. Room(clear_out_old_conf(EmptyConf))
    BY <1>1, ConnAssumption, RoomForTwo
  <2> QED
    BY <1>2, <2>1, ConnAssumption DEF Room, HasRoom
<1>9. ListenerCounted(EmptyConf, {})
  BY <1>2, FS_EmptySet DEF ListenerCounted, FreeListener
<1>10. a \in [Conns -> SUBSET Items] /\ Single(a)
  BY DEF Single
<1> QED
  BY <1>1, <1>4, <1>5, <1>6, <1>7, <1>8, <1>9, <1>10 DEF Kept

---------------------------------------------------------------------------
(* The stack of calls.                                                     *)

\* What is next, and what is still to be unlinked, on each stack there is.
LEMMA NoCall ==
    /\ \A o, d : ~NextIs(<<>>, o, d)
    /\ \A d : ~Unlinks(<<>>, d)
<1> QED
  BY DEF NextIs, Unlinks

\* What a stack of one call says.
LEMMA OneCall ==
    ASSUME NEW s, NEW op, NEW c, s = <<<<op, c>>>>
    PROVE  /\ \A o, d : NextIs(s, o, d) <=> o = op /\ d = c
           /\ \A d : Unlinks(s, d) <=> op = "unlink" /\ d = c
<1>1. Len(s) = 1 /\ s[1] = <<op, c>> /\ s # <<>> /\ Head(s) = <<op, c>>
  OBVIOUS
<1>2. \A j : j \in 1..1 <=> j = 1
  OBVIOUS
<1>3. \A o, d : NextIs(s, o, d) <=> o = op /\ d = c
  BY <1>1 DEF NextIs
<1>4. \A d : Unlinks(s, d) <=> op = "unlink" /\ d = c
  BY <1>1, <1>2 DEF Unlinks
<1> QED
  BY <1>3, <1>4

\* What a stack of a call and an unlinking says.
LEMMA TwoCalls ==
    ASSUME NEW s, NEW op, NEW c, s = <<<<op, c>>, <<"unlink", c>>>>
    PROVE  /\ \A o, d : NextIs(s, o, d) <=> o = op /\ d = c
           /\ \A d : Unlinks(s, d) <=> d = c
<1>1. Len(s) = 2 /\ s[1] = <<op, c>> /\ s[2] = <<"unlink", c>> /\ s # <<>> /\ Head(s) = <<op, c>>
  OBVIOUS
<1>2. \A j : j \in 1..2 <=> j = 1 \/ j = 2
  OBVIOUS
<1>3. \A o, d : NextIs(s, o, d) <=> o = op /\ d = c
  BY <1>1 DEF NextIs
<1>4. \A d : Unlinks(s, d) <=> d = c
  BY <1>1, <1>2 DEF Unlinks
<1> QED
  BY <1>3, <1>4

\* Such stacks are short and typed.
LEMMA StackTypes ==
    ASSUME NEW s, Stack(s)
    PROVE  s \in Seq(Ops \X Conns) /\ Len(s) <= 2
<1>1. CASE s = <<>>
  BY <1>1
<1>2. ASSUME NEW op \in Ops, NEW c \in Conns, s = <<<<op, c>>>>
      PROVE  s \in Seq(Ops \X Conns) /\ Len(s) <= 2
  <2>1. <<op, c>> \in Ops \X Conns
    OBVIOUS
  <2> QED
    BY <1>2, <2>1
<1>3. ASSUME NEW op \in Ops, NEW c \in Conns, s = <<<<op, c>>, <<"unlink", c>>>>
      PROVE  s \in Seq(Ops \X Conns) /\ Len(s) <= 2
  <2>1. <<op, c>> \in Ops \X Conns /\ <<"unlink", c>> \in Ops \X Conns
    BY DEF Ops
  <2> QED
    BY <1>3, <2>1
<1> QED
  BY <1>1, <1>2, <1>3 DEF Stack

\* While a call is made of c, the stack is about c alone.
LEMMA CallingStack ==
    ASSUME NEW op, NEW c, Stack(calls), Calling(op, c)
    PROVE  /\ op \in Ops /\ c \in Conns
           /\ \/ calls = <<<<op, c>>>>
              \/ /\ calls = <<<<op, c>>, <<"unlink", c>>>>
                 /\ op \notin {"verify_deop", "unlink"}
           /\ \A o, d : Now(o, d) <=> o = op /\ d = c
           /\ \A d : Unlinks(calls, d) => d = c
<1>1. \/ calls = <<<<op, c>>>>
      \/ /\ calls = <<<<op, c>>, <<"unlink", c>>>>
         /\ op \notin {"verify_deop", "unlink"}
  BY DEF Stack, Calling
<1>2. op \in Ops /\ c \in Conns
  BY DEF Stack, Calling
<1>3. \A o, d : Now(o, d) <=> o = op /\ d = c
  BY <1>1, OneCall, TwoCalls DEF Now
<1>4. \A d : Unlinks(calls, d) => d = c
  BY <1>1, OneCall, TwoCalls
<1> QED
  BY <1>1, <1>2, <1>3, <1>4

\* Two calls on a stack.
LEMMA Joined ==
    ASSUME NEW t, NEW w
    PROVE  <<t>> \o <<w>> = <<t, w>>
<1> DEFINE S == {t, w}
<1>1. <<t>> \in Seq(S) /\ <<w>> \in Seq(S) /\ <<t, w>> \in Seq(S)
  OBVIOUS
<1>2. PICK p : p = <<t>>
  OBVIOUS
<1>3. PICK q : q = <<w>>
  OBVIOUS
<1>4. PICK r : r = <<t, w>>
  OBVIOUS
<1>5. /\ Len(p) = 1 /\ Len(q) = 1 /\ Len(r) = 2 /\ p[1] = t /\ q[1] = w
      /\ r[1] = t /\ r[2] = w /\ p \in Seq(S) /\ q \in Seq(S) /\ r \in Seq(S)
  BY <1>1, <1>2, <1>3, <1>4
<1> HIDE DEF S
<1>6. /\ p \o q \in Seq(S) /\ Len(p \o q) = Len(p) + Len(q)
      /\ \A i \in 1..Len(p) + Len(q) :
           (p \o q)[i] = IF i <= Len(p) THEN p[i] ELSE q[i - Len(p)]
  BY <1>5, ConcatProperties
<1>7. Len(p \o q) = Len(r) /\ \A i \in 1..Len(r) : (p \o q)[i] = r[i]
  <2>1. \A i \in 1..2 : i = 1 \/ i = 2
    OBVIOUS
  <2> QED
    BY <1>5, <1>6, <2>1
<1>8. p \o q = r
  BY <1>5, <1>6, <1>7, SeqEqual
<1> QED
  BY <1>2, <1>3, <1>4, <1>8

\* What is called in place of the call being made.
LEMMA CallNext ==
    ASSUME NEW o, NEW c \in Conns, NEW op \in Ops \ {"verify_deop", "unlink"}, Stack(calls),
           calls = <<>> \/ Calling(o, c), o # "unlink", Next_(c, op)
    PROVE  /\ Stack(calls')
           /\ \A p, d : NextIs(calls', p, d) <=> p = op /\ d = c
           /\ \A d : Unlinks(calls', d) <=> Unlinks(calls, d)
<1>1. CASE calls = <<>>
  <2>1. calls' = <<<<op, c>>>>
    BY <1>1 DEF Next_
  <2>2. Stack(calls')
    BY <2>1 DEF Stack
  <2>3. \A p, d : NextIs(calls', p, d) <=> p = op /\ d = c
    BY <2>1, OneCall
  <2>4. \A d : Unlinks(calls', d) <=> Unlinks(calls, d)
    BY <1>1, <2>1, OneCall, NoCall
  <2> QED
    BY <2>2, <2>3, <2>4
<1>2. CASE calls # <<>>
  <2>1. CASE calls = <<<<o, c>>>>
    <3>1. calls' = <<<<op, c>>>>
      BY <2>1 DEF Next_
    <3>2. Stack(calls')
      BY <3>1 DEF Stack
    <3>3. \A p, d : NextIs(calls', p, d) <=> p = op /\ d = c
      BY <3>1, OneCall
    <3>4. \A d : Unlinks(calls', d) <=> Unlinks(calls, d)
      BY <2>1, <3>1, OneCall
    <3> QED
      BY <3>2, <3>3, <3>4
  <2>2. CASE calls = <<<<o, c>>, <<"unlink", c>>>>
    <3>1. calls' = <<<<op, c>>, <<"unlink", c>>>>
      <4>1. calls' = <<<<op, c>>>> \o Tail(calls)
        BY <1>2 DEF Next_
      <4>2. Tail(calls) = <<<<"unlink", c>>>>
        BY <2>2
      <4> QED
        BY <4>1, <4>2, Joined
    <3>2. Stack(calls')
      BY <3>1 DEF Stack
    <3>3. \A p, d : NextIs(calls', p, d) <=> p = op /\ d = c
      BY <3>1, TwoCalls
    <3>4. \A d : Unlinks(calls', d) <=> Unlinks(calls, d)
      BY <2>2, <3>1, TwoCalls
    <3> QED
      BY <3>2, <3>3, <3>4
  <2> QED
    BY <1>2, <2>1, <2>2, CallingStack
<1> QED
  BY <1>1, <1>2

\* The call being made returns.
LEMMA CallDone ==
    ASSUME NEW o, NEW c, Stack(calls), Calling(o, c), calls' = Tail(calls)
    PROVE  /\ Stack(calls')
           /\ \A p, d : NextIs(calls', p, d) => p = "unlink" /\ d = c
           /\ o # "unlink" => \A d : Unlinks(calls', d) <=> Unlinks(calls, d)
           /\ o = "unlink" => calls' = <<>>
<1>1. CASE calls = <<<<o, c>>>>
  <2>1. calls' = <<>>
    BY <1>1
  <2>2. Stack(calls')
    BY <2>1 DEF Stack
  <2>3. \A d : ~Unlinks(calls', d)
    BY <2>1, NoCall
  <2>4. o # "unlink" => \A d : ~Unlinks(calls, d)
    BY <1>1, OneCall
  <2>5. \A p, d : ~NextIs(calls', p, d)
    BY <2>1, NoCall
  <2> QED
    BY <2>1, <2>2, <2>3, <2>4, <2>5
<1>2. CASE calls = <<<<o, c>>, <<"unlink", c>>>> /\ o # "unlink"
  <2>1. calls' = <<<<"unlink", c>>>>
    BY <1>2
  <2>2. c \in Conns /\ "unlink" \in Ops
    BY CallingStack DEF Ops
  <2>3. Stack(calls')
    BY <2>1, <2>2 DEF Stack
  <2>4. \A d : Unlinks(calls', d) <=> d = c
    BY <2>1, OneCall
  <2>5. \A d : Unlinks(calls, d) <=> d = c
    BY <1>2, TwoCalls
  <2>6. \A p, d : NextIs(calls', p, d) <=> p = "unlink" /\ d = c
    BY <2>1, OneCall
  <2> QED
    BY <1>2, <2>3, <2>4, <2>5, <2>6
<1> QED
  BY <1>1, <1>2, CallingStack

\* Between callbacks nothing is called.
LEMMA IdleStack ==
    ASSUME calls = <<>>
    PROVE  /\ \A o, d : ~Now(o, d)
           /\ \A d : ~Unlinks(calls, d)
<1> QED
  BY NoCall DEF Now

---------------------------------------------------------------------------
(* The actions.                                                            *)

\* An action that changes no more than what is called next.
LEMMA OnlyCalls ==
    ASSUME IInv, up, persisting' \subseteq Conns, Stack(calls'),
           UNCHANGED <<cf, client, listening, confs, iphash, listVars, authVars, ip_count, up>>,
           \A d : Unlinks(calls', d) <=> Unlinks(calls, d),
           \A d : ~Now("release", d) /\ ~Now("exit", d),
           \A d : ~NextIs(calls', "release", d) /\ ~NextIs(calls', "verify_deop", d),
           \A d : \/ NextIs(calls', "read", d)
                  \/ NextIs(calls', "verify_user", d)
                  \/ NextIs(calls', "verify_client", d)
                  => client[d] = "unknown" /\ d \in GlobalClientList,
           \A d : NextIs(calls', "exit", d) => client[d] \in {"unknown", "person"}
    PROVE  IInv'
<1>1. TypeOK /\ Running
  BY DEF IInv
<1>2. /\ cf' = cf /\ client' = client /\ listening' = listening /\ confs' = confs /\ iphash' = iphash
      /\ unknown_list' = unknown_list /\ lclient_list' = lclient_list /\ oper_list' = oper_list
      /\ GlobalClientList' = GlobalClientList /\ dead_list' = dead_list
      /\ auth_poll_list' = auth_poll_list /\ dns_pending' = dns_pending /\ queries' = queries
      /\ ident' = ident /\ ip_count' = ip_count /\ up' = up
  BY DEF listVars, authVars
<1>3. TypeOK'
  BY <1>1, <1>2, StackTypes DEF TypeOK
<1>4. Kept(cf, confs)' /\ NoneMarked(cf)' /\ ListenerCounted(cf, listening)'
  BY <1>1, <1>2 DEF Running, Kept, NoneMarked, ListenerCounted
<1>5. Listed' /\ AnswersFindRequests'
  BY <1>1, <1>2 DEF Running, Listed, AnswersFindRequests
<1>6. ClientsMatch'
  BY <1>1, <1>2 DEF Running, ClientsMatch, Now
<1>7. CallsMeet'
  <2>1. \A d \in Conns : client[d] = "unknown" => confs[d] = {}
    BY <1>1 DEF Running, ClientsMatch
  <2> QED
    BY <1>1, <1>2, <2>1 DEF Running, CallsMeet, Now, Verifying
<1>8. RequestsMatch'
  BY <1>1, <1>2 DEF Running, RequestsMatch, Now
<1>9. IpCounted'
  BY <1>1, <1>2 DEF Running, IpCounted, Now
<1> QED
  BY <1>3, <1>4, <1>5, <1>6, <1>7, <1>8, <1>9 DEF IInv, Running

\* Whoever is read has been released, and no release or exit is waiting.
LEMMA ReadsOf ==
    ASSUME IInv, NEW c \in Conns, Reads(c)
    PROVE  /\ up /\ (calls = <<>> \/ Calling("read", c))
           /\ c \in GlobalClientList /\ client[c] \in {"unknown", "person"}
           /\ \A d : ~Now("release", d) /\ ~Now("exit", d)
           /\ calls # <<>> => client[c] = "unknown"
<1>1. up /\ Running
  BY DEF IInv, Reads, Calling, Idle
<1>2. CASE Calling("read", c)
  <2>1. Now("read", c) /\ \A o, d : Now(o, d) <=> o = "read" /\ d = c
    BY <1>1, <1>2, CallingStack DEF Running, CallsMeet
  <2>2. client[c] = "unknown" /\ c \in GlobalClientList
    BY <1>1, <2>1 DEF Running, CallsMeet
  <2> QED
    BY <1>1, <1>2, <2>1, <2>2
<1>3. CASE Idle /\ c \in GlobalClientList /\ client[c] \in {"unknown", "person"}
  BY <1>1, <1>3, IdleStack DEF Idle
<1> QED
  BY <1>2, <1>3 DEF Reads

\* A read is followed by another call of the same client.
LEMMA ReadGoesOn ==
    ASSUME IInv, NEW c \in Conns, Reads(c), persisting' \subseteq Conns,
           NEW op \in {"verify_user", "verify_client", "exit"}, Next_(c, op),
           op \in {"verify_user", "verify_client"} => client[c] = "unknown",
           UNCHANGED <<cf, client, listening, confs, iphash, listVars, authVars, ip_count, up>>
    PROVE  IInv'
<1>1. /\ up /\ (calls = <<>> \/ Calling("read", c))
      /\ c \in GlobalClientList /\ client[c] \in {"unknown", "person"}
      /\ \A d : ~Now("release", d) /\ ~Now("exit", d)
  BY ReadsOf
<1>2. Stack(calls) /\ op \in Ops \ {"verify_deop", "unlink"}
  BY <1>1 DEF IInv, Running, CallsMeet, Ops
<1>3. /\ Stack(calls')
      /\ \A p, d : NextIs(calls', p, d) <=> p = op /\ d = c
      /\ \A d : Unlinks(calls', d) <=> Unlinks(calls, d)
  BY <1>1, <1>2, CallNext
<1> QED
  BY <1>1, <1>3, OnlyCalls

\* It may also be over.
LEMMA ReadIsDone ==
    ASSUME IInv, NEW c \in Conns, Reads(c), persisting' \subseteq Conns, Done,
           UNCHANGED <<cf, client, listening, confs, iphash, listVars, authVars, ip_count, up>>
    PROVE  IInv'
<1>1. /\ up /\ (calls = <<>> \/ Calling("read", c))
      /\ \A d : ~Now("release", d) /\ ~Now("exit", d)
  BY ReadsOf
<1>2. Stack(calls)
  BY <1>1 DEF IInv, Running, CallsMeet
<1>3. /\ Stack(calls')
      /\ \A p, d : NextIs(calls', p, d) => p = "unlink"
      /\ \A d : Unlinks(calls', d) <=> Unlinks(calls, d)
  <2>1. CASE calls = <<>>
    <3>1. calls' = <<>>
      BY <2>1 DEF Done
    <3> QED
      BY <2>1, <3>1, <1>2, NoCall
  <2>2. CASE calls # <<>>
    <3>1. calls' = Tail(calls)
      BY <2>2 DEF Done
    <3> QED
      BY <1>1, <1>2, <2>2, <3>1, CallDone
  <2> QED
    BY <2>1, <2>2
<1> QED
  BY <1>1, <1>3, OnlyCalls

\* Somebody exits a client, when nothing else is called.
LEMMA ExitComes ==
    ASSUME IInv, NEW c \in Conns, Idle, client[c] \in {"unknown", "person"},
           calls' = <<<<"exit", c>>>>, persisting' \subseteq Conns,
           UNCHANGED <<cf, client, listening, confs, iphash, listVars, authVars, ip_count, up>>
    PROVE  IInv'
<1>1. up /\ calls = <<>> /\ "exit" \in Ops
  BY DEF Idle, Ops
<1>2. Stack(calls')
  BY <1>1 DEF Stack
<1>3. /\ \A p, d : NextIs(calls', p, d) <=> p = "exit" /\ d = c
      /\ \A d : ~Unlinks(calls', d)
  BY OneCall
<1>4. (\A o, d : ~Now(o, d)) /\ (\A d : ~Unlinks(calls, d))
  BY <1>1, IdleStack
<1> QED
  BY <1>1, <1>2, <1>3, <1>4, OnlyCalls

\* A read that finds nothing.
LEMMA ReadNothingKeeps ==
    ASSUME IInv, NEW c \in Conns, ReadNothing(c)
    PROVE  IInv'
<1>1. persisting' \subseteq Conns
  BY DEF IInv, TypeOK, ReadNothing, clientVars
<1> QED
  BY <1>1, ReadIsDone DEF ReadNothing, Reads, clientVars

\* A read that finds the client's registration.
LEMMA ReadUserKeeps ==
    ASSUME IInv, NEW c \in Conns, ReadUser(c)
    PROVE  IInv'
<1>1. persisting' \subseteq Conns
  BY DEF IInv, TypeOK, ReadUser, clientVars
<1> QED
  BY <1>1, ReadGoesOn DEF ReadUser, clientVars

\* A read that finds a CLIENT.
LEMMA ReadClientKeeps ==
    ASSUME IInv, NEW c \in Conns, ReadClient(c)
    PROVE  IInv'
<1>1. persisting' \subseteq Conns
  BY DEF IInv, TypeOK, ReadClient, clientVars
<1> QED
  BY <1>1, ReadGoesOn DEF ReadClient, clientVars

\* A read that finds a QUIT.
LEMMA ReadQuitKeeps ==
    ASSUME IInv, NEW c \in Conns, ReadQuit(c)
    PROVE  IInv'
<1>1. persisting' \subseteq Conns
  BY DEF IInv, TypeOK, ReadQuit, clientVars
<1> QED
  BY <1>1, ReadGoesOn DEF ReadQuit, clientVars

\* A read that finds the end of the file.
LEMMA ReadEofKeeps ==
    ASSUME IInv, NEW c \in Conns, NEW persistant \in BOOLEAN, ReadEof(c, persistant)
    PROVE  IInv'
<1>1. persisting' \subseteq Conns
  BY DEF IInv, TypeOK, ReadEof
<1>2. CASE persistant /\ client[c] = "person"
  BY <1>1, <1>2, ReadIsDone DEF ReadEof
<1>3. CASE ~(persistant /\ client[c] = "person")
  BY <1>1, <1>3, ReadGoesOn DEF ReadEof
<1> QED
  BY <1>2, <1>3

\* check_pings gives up a client.
LEMMA CheckPingsKeeps ==
    ASSUME IInv, NEW c \in Conns, NEW persistant \in BOOLEAN, CheckPings(c, persistant)
    PROVE  IInv'
<1>1. persisting' \subseteq Conns
  BY DEF IInv, TypeOK, CheckPings
<1>2. Idle /\ client[c] = "person"
  BY DEF IInv, Running, Listed, CheckPings, Idle
<1>3. CASE persistant /\ c \notin persisting
  <2>1. calls' = calls /\ calls = <<>> /\ up
    BY <1>2, <1>3 DEF CheckPings, Idle
  <2>2. Stack(calls')
    BY <2>1 DEF Stack
  <2>3. (\A o, d : ~NextIs(calls, o, d)) /\ (\A d : ~Unlinks(calls, d))
    BY <2>1, NoCall
  <2> QED
    BY <1>1, <2>1, <2>2, <2>3, OnlyCalls DEF CheckPings, Now
<1>4. CASE ~(persistant /\ c \notin persisting)
  BY <1>1, <1>2, <1>4, ExitComes DEF CheckPings
<1> QED
  BY <1>3, <1>4

\* Somebody else makes a client exit.
LEMMA ExitedByKeeps ==
    ASSUME IInv, NEW c \in Conns, ExitedBy(c)
    PROVE  IInv'
<1>1. persisting' \subseteq Conns
  BY DEF IInv, TypeOK, ExitedBy, clientVars
<1> QED
  BY <1>1, ExitComes DEF ExitedBy, clientVars

---------------------------------------------------------------------------
(* Access.                                                                 *)

\* A client that is verified holds no item; it is a new one, or has just lost
\* its operator block.
LEMMA VerifyingOf ==
    ASSUME IInv, NEW c \in Conns, NEW op \in {"verify_user", "verify_deop", "verify_client"},
           Calling(op, c)
    PROVE  /\ up /\ TypeOK /\ Running /\ Stack(calls) /\ Now(op, c)
           /\ \A o, d : Now(o, d) <=> o = op /\ d = c
           /\ confs[c] = {} /\ c \in GlobalClientList
           /\ op = "verify_deop" => client[c] = "person" /\ calls = <<<<op, c>>>>
           /\ op # "verify_deop" => client[c] = "unknown"
<1>1. up /\ TypeOK /\ Running /\ Stack(calls)
  BY DEF IInv, Running, CallsMeet, Calling
<1>2. /\ \A o, d : Now(o, d) <=> o = op /\ d = c
      /\ op = "verify_deop" => calls = <<<<op, c>>>>
  BY <1>1, CallingStack
<1>3. Verifying(c)
  BY <1>2 DEF Verifying
<1>4. /\ confs[c] = {}
      /\ op = "verify_deop" => client[c] = "person"
      /\ op # "verify_deop" => client[c] = "unknown" /\ c \in GlobalClientList
  BY <1>1, <1>2, <1>3 DEF Running, CallsMeet
<1>5. client[c] = "person" => c \in GlobalClientList
  BY <1>1 DEF Running, Listed
<1> QED
  BY <1>1, <1>2, <1>4, <1>5

\* verify_access finds no auth block for the client.
LEMMA VerifyRefusedKeeps ==
    ASSUME IInv, NEW c \in Conns, VerifyRefused(c)
    PROVE  IInv'
<1>1. PICK op \in {"verify_user", "verify_deop", "verify_client"} : Calling(op, c)
  BY DEF VerifyRefused
<1>2. /\ up /\ Stack(calls) /\ client[c] \in {"unknown", "person"}
      /\ \A o, d : Now(o, d) <=> o = op /\ d = c
  BY <1>1, VerifyingOf
<1>3. Next_(c, "exit") /\ persisting' \subseteq Conns
  BY DEF VerifyRefused, IInv, TypeOK, clientVars
<1>4. /\ Stack(calls')
      /\ \A p, d : NextIs(calls', p, d) <=> p = "exit" /\ d = c
      /\ \A d : Unlinks(calls', d) <=> Unlinks(calls, d)
  BY <1>1, <1>2, <1>3, CallNext DEF Ops
<1> QED
  BY <1>1, <1>2, <1>3, <1>4, OnlyCalls DEF VerifyRefused, clientVars

\* verify_access finds a ban: the client goes, or after -o the process.
LEMMA VerifyBannedKeeps ==
    ASSUME IInv, NEW c \in Conns, VerifyBanned(c)
    PROVE  IInv'
<1>1. TypeOK /\ persisting' \subseteq Conns
  BY DEF VerifyBanned, IInv, TypeOK, clientVars
<1>2. CASE up' # FALSE
  <2>1. PICK op \in {"verify_user", "verify_client"} :
           Calling(op, c) /\ Next_(c, "exit") /\ UNCHANGED up
    BY <1>2 DEF VerifyBanned
  <2>2. /\ up /\ Stack(calls) /\ client[c] \in {"unknown", "person"}
        /\ \A o, d : Now(o, d) <=> o = op /\ d = c
    BY <2>1, VerifyingOf
  <2>3. /\ Stack(calls')
        /\ \A p, d : NextIs(calls', p, d) <=> p = "exit" /\ d = c
        /\ \A d : Unlinks(calls', d) <=> Unlinks(calls, d)
    BY <2>1, <2>2, CallNext DEF Ops
  <2> QED
    BY <1>1, <2>1, <2>2, <2>3, OnlyCalls DEF VerifyBanned, clientVars
<1>3. CASE up' = FALSE
  <2>1. Calling("verify_deop", c) /\ Done
    <3>1. ASSUME NEW op \in {"verify_user", "verify_client"}, Calling(op, c), UNCHANGED up
          PROVE  FALSE
      BY <1>3, <3>1, VerifyingOf
    <3> QED BY <3>1 DEF VerifyBanned
  <2>2. /\ Stack(calls) /\ calls = <<<<"verify_deop", c>>>>
        /\ \A o, d : Now(o, d) <=> o = "verify_deop" /\ d = c
        /\ calls' = Tail(calls)
    BY <2>1, VerifyingOf DEF Done
  <2>3. Stack(calls')
    BY <2>1, <2>2, CallDone
  <2>4. TypeOK'
    BY <1>1, <1>3, <2>3, StackTypes DEF TypeOK, VerifyBanned, clientVars, listVars, authVars
  <2> QED
    BY <1>3, <2>4 DEF IInv
<1> QED
  BY <1>2, <1>3

\* The client is counted for its address: a new one is one more, after -o the
\* one that was taken off.
LEMMA CountIpOf ==
    ASSUME IInv, NEW c \in Conns, NEW op \in {"verify_user", "verify_deop", "verify_client"},
           Calling(op, c), CountIp(c)
    PROVE  /\ iphash' \subseteq Conns /\ ip_count' \in Int
           /\ \A d \in Conns : d \in iphash' <=> d \in iphash \/ d = c
           /\ ip_count' <= Cardinality(iphash')
<1>1. /\ up /\ TypeOK /\ Running
      /\ \A o, d : Now(o, d) <=> o = op /\ d = c
      /\ op = "verify_deop" => client[c] = "person"
      /\ op # "verify_deop" => client[c] = "unknown"
  BY VerifyingOf
<1>2. /\ iphash' = iphash \cup {c} /\ ip_count' = ip_count + 1
      /\ ip_count \in Int /\ iphash \subseteq Conns
  BY <1>1 DEF CountIp, TypeOK
<1>3. IsFiniteSet(iphash) /\ Cardinality(iphash) \in Nat
  BY <1>2, ConnAssumption, FS_Subset, FS_CardinalityType
<1>4. CASE op = "verify_deop"
  <2>1. c \in iphash /\ ip_count <= Cardinality(iphash) - 1
    BY <1>1, <1>4 DEF Running, ClientsMatch, IpCounted
  <2>2. iphash' = iphash
    BY <1>2, <2>1
  <2> QED
    BY <1>2, <1>3, <2>1, <2>2
<1>5. CASE op # "verify_deop"
  <2>1. c \notin iphash /\ ip_count <= Cardinality(iphash)
    BY <1>1, <1>5 DEF Running, ClientsMatch, IpCounted
  <2>2. Cardinality(iphash \cup {c}) = Cardinality(iphash) + 1
    BY <1>3, <2>1, FS_AddElement
  <2> QED
    BY <1>2, <1>3, <2>1, <2>2
<1> QED
  BY <1>4, <1>5

\* TOO_MANY and I_LINE_FULL leave the client counted, and exit it.
LEMMA VerifyFullKeeps ==
    ASSUME IInv, NEW c \in Conns, VerifyFull(c)
    PROVE  IInv'
<1>1. PICK op \in {"verify_user", "verify_deop", "verify_client"} : Calling(op, c)
  BY DEF VerifyFull
<1>2. /\ up /\ TypeOK /\ Running /\ Stack(calls) /\ client[c] \in {"unknown", "person"}
      /\ \A o, d : Now(o, d) <=> o = op /\ d = c
  BY <1>1, VerifyingOf
<1>3. /\ iphash' \subseteq Conns /\ ip_count' \in Int
      /\ \A d \in Conns : d \in iphash' <=> d \in iphash \/ d = c
      /\ ip_count' <= Cardinality(iphash')
  BY <1>1, CountIpOf DEF VerifyFull
<1>4. /\ Stack(calls')
      /\ \A p, d : NextIs(calls', p, d) <=> p = "exit" /\ d = c
      /\ \A d : Unlinks(calls', d) <=> Unlinks(calls, d)
  BY <1>1, <1>2, CallNext DEF Ops, VerifyFull
<1>5. /\ cf' = cf /\ client' = client /\ listening' = listening /\ confs' = confs
      /\ persisting' = persisting
      /\ unknown_list' = unknown_list /\ lclient_list' = lclient_list /\ oper_list' = oper_list
      /\ GlobalClientList' = GlobalClientList /\ dead_list' = dead_list
      /\ auth_poll_list' = auth_poll_list /\ dns_pending' = dns_pending /\ queries' = queries
      /\ ident' = ident /\ up' = up
  BY DEF VerifyFull, listVars, authVars
<1>6. TypeOK'
  BY <1>2, <1>3, <1>4, <1>5, StackTypes DEF TypeOK
<1>7. Kept(cf, confs)' /\ NoneMarked(cf)' /\ ListenerCounted(cf, listening)'
  BY <1>2, <1>5 DEF Running, Kept, NoneMarked, ListenerCounted
<1>8. Listed' /\ AnswersFindRequests'
  BY <1>2, <1>3, <1>5 DEF Running, Listed, AnswersFindRequests
<1>9. ClientsMatch'
  BY <1>1, <1>2, <1>3, <1>4, <1>5 DEF Running, ClientsMatch, Now
<1>10. CallsMeet'
  BY <1>2, <1>4, <1>5 DEF CallsMeet, Now, Verifying
<1>11. RequestsMatch'
  BY <1>1, <1>2, <1>4, <1>5 DEF Running, RequestsMatch, Now
<1>12. IpCounted'
  BY <1>3, <1>4 DEF IpCounted, Now
<1> QED
  BY <1>6, <1>7, <1>8, <1>9, <1>10, <1>11, <1>12 DEF IInv, Running

\* A block of the configuration is attached to a client that holds none.
LEMMA AttachesOf ==
    ASSUME IInv, NEW c \in Conns, NEW op \in {"verify_user", "verify_deop", "verify_client"},
           Calling(op, c), Attaches(c)
    PROVE  /\ Kept(cf', confs') /\ NoneMarked(cf') /\ ListenerCounted(cf', listening)
           /\ \A d \in Conns : d # c => confs'[d] = confs[d]
           /\ iphash' \subseteq Conns /\ ip_count' \in Int
           /\ \A d \in Conns : d \in iphash' <=> d \in iphash \/ d = c
           /\ ip_count' <= Cardinality(iphash')
<1>1. up /\ TypeOK /\ Running /\ confs[c] = {}
  BY VerifyingOf
<1>2. Kept(cf, confs) /\ NoneMarked(cf) /\ ListenerCounted(cf, listening)
  BY <1>1 DEF Running
<1>3. PICK i \in Items : /\ cf.item[i].listed /\ cf' = attach_conf(cf, i)
                         /\ confs' = [confs EXCEPT ![c] = @ \cup {i}]
  BY DEF Attaches, Applying
<1>4. confs' = [confs EXCEPT ![c] = {i}]
  BY <1>1, <1>3
<1>5. Kept(cf', confs') /\ NoneMarked(cf') /\ cf'.listener = cf.listener
  <2>1. /\ Kept(attach_conf(cf, i), [confs EXCEPT ![c] = {i}])
        /\ NoneMarked(attach_conf(cf, i)) /\ attach_conf(cf, i).listener = cf.listener
    BY <1>1, <1>2, <1>3, AttachKeeps
  <2> QED
    BY <1>3, <1>4, <2>1
<1>6. ListenerCounted(cf', listening)
  BY <1>2, <1>5 DEF ListenerCounted
<1>7. \A d \in Conns : d # c => confs'[d] = confs[d]
  BY <1>1, <1>4 DEF TypeOK
<1>8. CountIp(c)
  BY DEF Attaches
<1> QED
  BY <1>5, <1>6, <1>7, <1>8, CountIpOf

\* register_local_user refuses the client.
LEMMA RegisterRejectedKeeps ==
    ASSUME IInv, NEW c \in Conns, RegisterRejected(c)
    PROVE  IInv'
<1>1. Calling("verify_user", c) /\ Attaches(c) /\ Next_(c, "exit")
  BY DEF RegisterRejected
<1>2. /\ up /\ TypeOK /\ Running /\ Stack(calls) /\ client[c] = "unknown"
      /\ \A o, d : Now(o, d) <=> o = "verify_user" /\ d = c
  BY <1>1, VerifyingOf
<1>3. /\ Kept(cf', confs') /\ NoneMarked(cf') /\ ListenerCounted(cf', listening)
      /\ \A d \in Conns : d # c => confs'[d] = confs[d]
      /\ iphash' \subseteq Conns /\ ip_count' \in Int
      /\ \A d \in Conns : d \in iphash' <=> d \in iphash \/ d = c
      /\ ip_count' <= Cardinality(iphash')
  BY <1>1, AttachesOf
<1>4. /\ Stack(calls')
      /\ \A p, d : NextIs(calls', p, d) <=> p = "exit" /\ d = c
      /\ \A d : Unlinks(calls', d) <=> Unlinks(calls, d)
  BY <1>1, <1>2, CallNext DEF Ops
<1>5. /\ client' = client /\ listening' = listening /\ persisting' = persisting
      /\ unknown_list' = unknown_list /\ lclient_list' = lclient_list /\ oper_list' = oper_list
      /\ GlobalClientList' = GlobalClientList /\ dead_list' = dead_list
      /\ auth_poll_list' = auth_poll_list /\ dns_pending' = dns_pending /\ queries' = queries
      /\ ident' = ident /\ up' = up
  BY DEF RegisterRejected, listVars, authVars
<1>6. TypeOK'
  BY <1>2, <1>3, <1>4, <1>5, StackTypes DEF TypeOK, Kept
<1>7. ListenerCounted(cf', listening')
  BY <1>3, <1>5
<1>8. Listed' /\ AnswersFindRequests'
  BY <1>2, <1>3, <1>5 DEF Running, Listed, AnswersFindRequests
<1>9. ClientsMatch'
  BY <1>2, <1>3, <1>4, <1>5 DEF Running, ClientsMatch, Now
<1>10. CallsMeet'
  BY <1>2, <1>4, <1>5 DEF CallsMeet, Now, Verifying
<1>11. RequestsMatch'
  BY <1>2, <1>4, <1>5 DEF Running, RequestsMatch, Now
<1>12. IpCounted'
  BY <1>3, <1>4 DEF IpCounted, Now
<1> QED
  BY <1>3, <1>6, <1>7, <1>8, <1>9, <1>10, <1>11, <1>12 DEF IInv, Running

\* What registration and a refused or taken -o leave: nothing but the request to
\* unlink.
LEMMA VerifyDone ==
    ASSUME IInv, NEW c \in Conns, NEW op \in {"verify_user", "verify_deop", "verify_client"},
           Calling(op, c), Done
    PROVE  /\ Stack(calls')
           /\ \A p, d : NextIs(calls', p, d) => p = "unlink" /\ d = c
           /\ \A d : Unlinks(calls', d) <=> Unlinks(calls, d)
<1>1. Stack(calls)
  BY VerifyingOf
<1>2. calls' = Tail(calls)
  BY DEF Done, Calling
<1> QED
  BY <1>1, <1>2, CallDone

\* The client registers.
LEMMA RegisteredKeeps ==
    ASSUME IInv, NEW c \in Conns, Registered(c)
    PROVE  IInv'
<1>1. Calling("verify_user", c) /\ Attaches(c) /\ Done
  BY DEF Registered
<1>2. /\ up /\ TypeOK /\ Running /\ Stack(calls) /\ client[c] = "unknown"
      /\ c \in GlobalClientList
      /\ \A o, d : Now(o, d) <=> o = "verify_user" /\ d = c
  BY <1>1, VerifyingOf
<1>3. /\ Kept(cf', confs') /\ NoneMarked(cf') /\ ListenerCounted(cf', listening)
      /\ \A d \in Conns : d # c => confs'[d] = confs[d]
      /\ iphash' \subseteq Conns /\ ip_count' \in Int
      /\ \A d \in Conns : d \in iphash' <=> d \in iphash \/ d = c
      /\ ip_count' <= Cardinality(iphash')
  BY <1>1, AttachesOf
<1>4. /\ Stack(calls')
      /\ \A p, d : NextIs(calls', p, d) => p = "unlink" /\ d = c
      /\ \A d : Unlinks(calls', d) <=> Unlinks(calls, d)
  BY <1>1, VerifyDone
<1>5. /\ listening' = listening /\ persisting' = persisting
      /\ unknown_list' = unknown_list \ {c} /\ lclient_list' = lclient_list \cup {c}
      /\ oper_list' = oper_list
      /\ GlobalClientList' = GlobalClientList /\ dead_list' = dead_list
      /\ auth_poll_list' = auth_poll_list /\ dns_pending' = dns_pending /\ queries' = queries
      /\ ident' = ident /\ up' = up
  BY DEF Registered, authVars
<1>6. /\ client' \in [Conns -> {"free", "unknown", "person", "dead"}]
      /\ \A d \in Conns : client'[d] = IF d = c THEN "person" ELSE client[d]
  BY <1>2 DEF Registered, TypeOK
<1>7. TypeOK'
  BY <1>2, <1>3, <1>4, <1>5, <1>6, StackTypes DEF TypeOK, Kept
<1>8. ListenerCounted(cf', listening')
  BY <1>3, <1>5
<1>9. Listed' /\ AnswersFindRequests'
  BY <1>2, <1>3, <1>5, <1>6 DEF Running, Listed, AnswersFindRequests
<1>10. ClientsMatch'
  BY <1>2, <1>3, <1>6 DEF Running, ClientsMatch
<1>11. CallsMeet'
  BY <1>4 DEF CallsMeet, Now, Verifying
<1>12. RequestsMatch'
  <2>1. c \in auth_poll_list => Unlinks(calls, c)
    BY <1>2 DEF Running, RequestsMatch
  <2> QED
    BY <1>2, <1>4, <1>5, <1>6, <2>1 DEF Running, RequestsMatch, Now, TypeOK
<1>13. IpCounted'
  BY <1>3, <1>4 DEF IpCounted, Now
<1> QED
  BY <1>3, <1>7, <1>8, <1>9, <1>10, <1>11, <1>12, <1>13 DEF IInv, Running

\* An operator has become a client again.
LEMMA DeoppedKeeps ==
    ASSUME IInv, NEW c \in Conns, Deopped(c)
    PROVE  IInv'
<1>1. Calling("verify_deop", c) /\ Attaches(c) /\ Done
  BY DEF Deopped
<1>2. /\ up /\ TypeOK /\ Running /\ Stack(calls) /\ client[c] = "person"
      /\ \A o, d : Now(o, d) <=> o = "verify_deop" /\ d = c
  BY <1>1, VerifyingOf
<1>3. /\ Kept(cf', confs') /\ NoneMarked(cf') /\ ListenerCounted(cf', listening)
      /\ \A d \in Conns : d # c => confs'[d] = confs[d]
      /\ iphash' \subseteq Conns /\ ip_count' \in Int
      /\ \A d \in Conns : d \in iphash' <=> d \in iphash \/ d = c
      /\ ip_count' <= Cardinality(iphash')
  BY <1>1, AttachesOf
<1>4. /\ Stack(calls')
      /\ \A p, d : NextIs(calls', p, d) => p = "unlink" /\ d = c
      /\ \A d : Unlinks(calls', d) <=> Unlinks(calls, d)
  BY <1>1, VerifyDone
<1>5. /\ client' = client /\ listening' = listening /\ persisting' = persisting
      /\ unknown_list' = unknown_list /\ lclient_list' = lclient_list /\ oper_list' = oper_list
      /\ GlobalClientList' = GlobalClientList /\ dead_list' = dead_list
      /\ auth_poll_list' = auth_poll_list /\ dns_pending' = dns_pending /\ queries' = queries
      /\ ident' = ident /\ up' = up
  BY DEF Deopped, listVars, authVars
<1>6. TypeOK'
  BY <1>2, <1>3, <1>4, <1>5, StackTypes DEF TypeOK, Kept
<1>7. ListenerCounted(cf', listening')
  BY <1>3, <1>5
<1>8. Listed' /\ AnswersFindRequests'
  BY <1>2, <1>3, <1>5 DEF Running, Listed, AnswersFindRequests
<1>9. ClientsMatch'
  BY <1>2, <1>3, <1>5 DEF Running, ClientsMatch
<1>10. CallsMeet'
  BY <1>4 DEF CallsMeet, Now, Verifying
<1>11. RequestsMatch'
  BY <1>2, <1>4, <1>5 DEF Running, RequestsMatch, Now
<1>12. IpCounted'
  BY <1>3, <1>4 DEF IpCounted, Now
<1> QED
  BY <1>3, <1>6, <1>7, <1>8, <1>9, <1>10, <1>11, <1>12 DEF IInv, Running

\* m_client's end is the end of the process.
LEMMA ReclaimsKeeps ==
    ASSUME IInv, NEW c \in Conns, Reclaims(c)
    PROVE  IInv'
<1>1. Calling("verify_client", c) /\ Attaches(c) /\ Done
  BY DEF Reclaims
<1>2. TypeOK
  BY DEF IInv
<1>3. /\ Kept(cf', confs') /\ iphash' \subseteq Conns /\ ip_count' \in Int
  BY <1>1, AttachesOf
<1>4. Stack(calls')
  BY <1>1, VerifyDone
<1>5. TypeOK' /\ up' = FALSE
  BY <1>2, <1>3, <1>4, StackTypes DEF TypeOK, Kept, Reclaims, listVars, authVars
<1> QED
  BY <1>5 DEF IInv

---------------------------------------------------------------------------
(* Accepting and authentication.                                           *)

\* Between two callbacks.
LEMMA IdleOf ==
    ASSUME IInv, Idle
    PROVE  /\ up /\ TypeOK /\ Running /\ calls = <<>>
           /\ \A o, d : ~Now(o, d)
           /\ \A d : ~Unlinks(calls, d)
<1> QED
  BY IdleStack DEF IInv, Idle

\* A connection that comes too soon is closed.
LEMMA TooFastKeeps ==
    ASSUME IInv, TooFast
    PROVE  IInv'
<1>1. up /\ TypeOK /\ Running /\ (\A o, d : ~Now(o, d))
  BY IdleOf DEF TooFast
<1>2. /\ cf' = cf /\ client' = client /\ listening' = listening /\ confs' = confs
      /\ iphash' = iphash /\ persisting' = persisting
      /\ unknown_list' = unknown_list /\ lclient_list' = lclient_list /\ oper_list' = oper_list
      /\ GlobalClientList' = GlobalClientList /\ dead_list' = dead_list
      /\ auth_poll_list' = auth_poll_list /\ dns_pending' = dns_pending /\ queries' = queries
      /\ ident' = ident /\ calls' = calls /\ up' = up /\ ip_count' = ip_count - 1
  BY DEF TooFast, clientVars, listVars, authVars
<1>3. TypeOK'
  BY <1>1, <1>2 DEF TypeOK
<1>4. Kept(cf, confs)' /\ NoneMarked(cf)' /\ ListenerCounted(cf, listening)'
  BY <1>1, <1>2 DEF Running, Kept, NoneMarked, ListenerCounted
<1>5. Listed' /\ AnswersFindRequests'
  BY <1>1, <1>2 DEF Running, Listed, AnswersFindRequests
<1>6. ClientsMatch' /\ CallsMeet' /\ RequestsMatch'
  BY <1>1, <1>2 DEF Running, ClientsMatch, CallsMeet, RequestsMatch, Now, Verifying
<1>7. IpCounted'
  <2>1. ip_count <= Cardinality(iphash) /\ ip_count \in Int /\ Cardinality(iphash) \in Nat
    BY <1>1, ConnAssumption, FS_Subset, FS_CardinalityType DEF Running, IpCounted, TypeOK
  <2>2. \A d : ~NextIs(calls', "verify_deop", d)
    BY <1>1, <1>2 DEF Now
  <2> QED
    BY <1>2, <2>1, <2>2 DEF IpCounted, Now
<1> QED
  BY <1>3, <1>4, <1>5, <1>6, <1>7 DEF IInv, Running

\* A client of the unknown_list that came by no listener is asked for nothing.
LEMMA AcceptGoneKeeps ==
    ASSUME IInv, NEW c \in Conns, AcceptGone(c)
    PROVE  IInv'
<1>1. up /\ TypeOK /\ Running /\ (\A o, d : ~Now(o, d)) /\ (\A d : ~Unlinks(calls, d))
  BY IdleOf DEF AcceptGone
<1>2. /\ cf' = cf /\ listening' = listening /\ confs' = confs
      /\ iphash' = iphash /\ persisting' = persisting
      /\ unknown_list' = unknown_list \cup {c} /\ lclient_list' = lclient_list
      /\ oper_list' = oper_list
      /\ GlobalClientList' = GlobalClientList /\ dead_list' = dead_list
      /\ auth_poll_list' = auth_poll_list /\ dns_pending' = dns_pending /\ queries' = queries
      /\ ident' = ident /\ calls' = calls /\ up' = up /\ ip_count' = ip_count
  BY DEF AcceptGone, make_client, authVars
<1>3. /\ client' \in [Conns -> {"free", "unknown", "person", "dead"}] /\ client[c] = "free"
      /\ \A d \in Conns : client'[d] = IF d = c THEN "unknown" ELSE client[d]
  BY <1>1 DEF AcceptGone, make_client, TypeOK
<1>4. c \notin listening /\ c \notin iphash /\ confs[c] = {} /\ c \notin GlobalClientList
  BY <1>1, <1>3 DEF Running, Listed
<1>5. TypeOK'
  BY <1>1, <1>2, <1>3 DEF TypeOK
<1>6. Kept(cf, confs)' /\ NoneMarked(cf)' /\ ListenerCounted(cf, listening)'
  BY <1>1, <1>2 DEF Running, Kept, NoneMarked, ListenerCounted
<1>7. Listed' /\ AnswersFindRequests'
  BY <1>1, <1>2, <1>3, <1>4 DEF Running, Listed, AnswersFindRequests
<1>8. ClientsMatch' /\ CallsMeet'
  BY <1>1, <1>2, <1>3, <1>4 DEF Running, ClientsMatch, CallsMeet, Now, Verifying
<1>9. RequestsMatch'
  <2>1. c \notin auth_poll_list
    BY <1>1, <1>4 DEF Running, RequestsMatch
  <2> QED
    BY <1>1, <1>2, <1>3, <1>4, <2>1 DEF Running, RequestsMatch, Now, TypeOK
<1>10. IpCounted'
  BY <1>1, <1>2 DEF Running, IpCounted, Now
<1> QED
  BY <1>5, <1>6, <1>7, <1>8, <1>9, <1>10 DEF IInv, Running

\* The client holds the listener; its request waits for the DNS at least.
LEMMA AcceptConnectionKeeps ==
    ASSUME IInv, NEW c \in Conns, NEW submitted \in BOOLEAN, NEW socket \in BOOLEAN,
           AcceptConnection(c, submitted, socket)
    PROVE  IInv'
<1>1. up /\ TypeOK /\ Running /\ (\A o, d : ~Now(o, d)) /\ (\A d : ~Unlinks(calls, d))
  BY IdleOf DEF AcceptConnection
<1>2. /\ listening' = listening \cup {c} /\ confs' = confs
      /\ iphash' = iphash /\ persisting' = persisting
      /\ unknown_list' = unknown_list \cup {c} /\ lclient_list' = lclient_list
      /\ oper_list' = oper_list
      /\ GlobalClientList' = GlobalClientList /\ dead_list' = dead_list
      /\ auth_poll_list' = auth_poll_list \cup {c} /\ dns_pending' = dns_pending \cup {c}
      /\ queries' \in {queries, queries \cup {c}} /\ ident' \in {ident, ident \cup {c}}
      /\ calls' = calls /\ up' = up /\ ip_count' = ip_count
  BY DEF AcceptConnection, make_client
<1>3. /\ client' \in [Conns -> {"free", "unknown", "person", "dead"}] /\ client[c] = "free"
      /\ \A d \in Conns : client'[d] = IF d = c THEN "unknown" ELSE client[d]
  BY <1>1 DEF AcceptConnection, make_client, TypeOK
<1>4. c \notin listening /\ c \notin iphash /\ confs[c] = {} /\ c \notin GlobalClientList
  BY <1>1, <1>3 DEF Running, Listed
<1>5. Kept(cf, confs) /\ NoneMarked(cf) /\ ListenerCounted(cf, listening)
  BY <1>1 DEF Running
<1>6. /\ cf' \in Conf /\ cf'.item = cf.item /\ cf'.class = cf.class
      /\ ListenerCounted(cf', listening \cup {c})
  <2>1. cf \in Conf /\ IsFiniteSet(listening) /\ cf.listener.active
    BY <1>1, ConnAssumption, FS_Subset DEF TypeOK, AcceptConnection
  <2>2. cf' = [cf EXCEPT !.listener.ref_count = @ + 1]
    BY DEF AcceptConnection
  <2> QED
    BY <1>4, <1>5, <2>1, <2>2, RefListener
<1>7. Kept(cf', confs') /\ NoneMarked(cf')
  BY <1>2, <1>5, <1>6, ListenerApart
<1>8. ListenerCounted(cf', listening')
  BY <1>2, <1>6
<1>9. TypeOK'
  BY <1>1, <1>2, <1>3, <1>6 DEF TypeOK
<1>10. Listed' /\ AnswersFindRequests'
  BY <1>1, <1>2, <1>3, <1>4 DEF Running, Listed, AnswersFindRequests
<1>11. ClientsMatch' /\ CallsMeet'
  BY <1>1, <1>2, <1>3, <1>4 DEF Running, ClientsMatch, CallsMeet, Now, Verifying
<1>12. RequestsMatch'
  BY <1>1, <1>2, <1>3, <1>4 DEF Running, RequestsMatch, Now, TypeOK
<1>13. IpCounted'
  BY <1>1, <1>2 DEF Running, IpCounted, Now
<1> QED
  BY <1>7, <1>8, <1>9, <1>10, <1>11, <1>12, <1>13 DEF IInv, Running

\* An answer: the request waits for the other one, or its client is released.
LEMMA AnsweredKeeps ==
    ASSUME IInv, NEW c \in Conns, Idle, c \in auth_poll_list, Answered(c),
           queries' \subseteq queries, ident' \subseteq ident, dns_pending' \subseteq dns_pending,
           queries' \subseteq dns_pending',
           \A d \in Conns \ {c} : /\ d \in dns_pending' <=> d \in dns_pending
                                  /\ d \in ident' <=> d \in ident,
           UNCHANGED <<cf, clientVars, listVars, ip_count, up>>
    PROVE  IInv'
<1>1. /\ up /\ TypeOK /\ Running /\ calls = <<>>
      /\ (\A o, d : ~Now(o, d)) /\ (\A d : ~Unlinks(calls, d))
  BY IdleOf
<1>2. /\ cf' = cf /\ client' = client /\ listening' = listening /\ confs' = confs
      /\ iphash' = iphash /\ persisting' = persisting
      /\ unknown_list' = unknown_list /\ lclient_list' = lclient_list /\ oper_list' = oper_list
      /\ GlobalClientList' = GlobalClientList /\ dead_list' = dead_list
      /\ up' = up /\ ip_count' = ip_count
  BY DEF clientVars, listVars
<1>3. client[c] = "unknown" /\ c \in listening /\ c \notin GlobalClientList
  BY <1>1 DEF Running, RequestsMatch
<1>4. /\ Stack(calls') /\ (\A d : ~Unlinks(calls', d))
      /\ \A o, d : NextIs(calls', o, d) => o = "release" /\ d = c
      /\ \/ /\ c \in dns_pending' \cup ident' /\ auth_poll_list' = auth_poll_list
            /\ \A o, d : ~NextIs(calls', o, d)
         \/ /\ c \notin dns_pending' \cup ident' /\ auth_poll_list' = auth_poll_list \ {c}
            /\ NextIs(calls', "release", c)
  <2>1. CASE c \in dns_pending' \/ c \in ident'
    BY <1>1, <2>1, NoCall DEF Answered, Stack
  <2>2. CASE ~(c \in dns_pending' \/ c \in ident')
    <3>1. auth_poll_list' = auth_poll_list \ {c} /\ calls' = <<<<"release", c>>>>
      BY <2>2 DEF Answered
    <3>2. /\ \A o, d : NextIs(calls', o, d) <=> o = "release" /\ d = c
          /\ \A d : ~Unlinks(calls', d)
      BY <3>1, OneCall
    <3>3. Stack(calls')
      BY <3>1 DEF Stack, Ops
    <3> QED
      BY <2>2, <3>1, <3>2, <3>3
  <2> QED
    BY <2>1, <2>2
<1>5. TypeOK'
  BY <1>1, <1>2, <1>4, StackTypes DEF TypeOK
<1>6. Kept(cf, confs)' /\ NoneMarked(cf)' /\ ListenerCounted(cf, listening)'
  BY <1>1, <1>2 DEF Running, Kept, NoneMarked, ListenerCounted
<1>7. Listed'
  BY <1>1, <1>2 DEF Running, Listed
<1>8. AnswersFindRequests'
  BY <1>1, <1>4 DEF Running, AnswersFindRequests
<1>9. ClientsMatch' /\ CallsMeet'
  BY <1>1, <1>2, <1>3, <1>4 DEF Running, ClientsMatch, CallsMeet, Now, Verifying
<1>10. RequestsMatch'
  BY <1>1, <1>2, <1>3, <1>4 DEF Running, RequestsMatch, Now, TypeOK
<1>11. IpCounted'
  BY <1>1, <1>2, <1>4 DEF Running, IpCounted, Now
<1> QED
  BY <1>5, <1>6, <1>7, <1>8, <1>9, <1>10, <1>11 DEF IInv, Running

\* The answer to a DNS query.
LEMMA AuthDnsKeeps ==
    ASSUME IInv, NEW c \in Conns, AuthDns(c)
    PROVE  IInv'
<1>1. Idle /\ up /\ Running
  BY IdleOf DEF AuthDns
<1>2. c \in auth_poll_list /\ queries \subseteq dns_pending
  BY <1>1 DEF AuthDns, Running, AnswersFindRequests, RequestsMatch
<1> QED
  BY <1>1, <1>2, AnsweredKeeps DEF AuthDns

\* The answer to an ident query.
LEMMA AuthIdentKeeps ==
    ASSUME IInv, NEW c \in Conns, AuthIdent(c)
    PROVE  IInv'
<1>1. Idle /\ up /\ Running
  BY IdleOf DEF AuthIdent
<1>2. c \in auth_poll_list /\ queries \subseteq dns_pending
  BY <1>1 DEF AuthIdent, Running, AnswersFindRequests, RequestsMatch
<1> QED
  BY <1>1, <1>2, AnsweredKeeps DEF AuthIdent

\* The timeout takes back what was asked before it releases the client.
LEMMA AuthTimeoutKeeps ==
    ASSUME IInv, NEW c \in Conns, AuthTimeout(c)
    PROVE  IInv'
<1>1. /\ up /\ TypeOK /\ Running /\ calls = <<>>
      /\ (\A o, d : ~Now(o, d)) /\ (\A d : ~Unlinks(calls, d))
  BY IdleOf DEF AuthTimeout
<1>2. /\ cf' = cf /\ client' = client /\ listening' = listening /\ confs' = confs
      /\ iphash' = iphash /\ persisting' = persisting
      /\ unknown_list' = unknown_list /\ lclient_list' = lclient_list /\ oper_list' = oper_list
      /\ GlobalClientList' = GlobalClientList /\ dead_list' = dead_list
      /\ auth_poll_list' = auth_poll_list /\ dns_pending' = dns_pending
      /\ queries' = queries \ {c} /\ ident' = ident \ {c}
      /\ up' = up /\ ip_count' = ip_count
      /\ c \in auth_poll_list /\ calls' = <<<<"release", c>>, <<"unlink", c>>>>
  BY DEF AuthTimeout, clientVars, listVars
<1>3. client[c] = "unknown" /\ c \in listening /\ c \notin GlobalClientList
  BY <1>1, <1>2 DEF Running, RequestsMatch
<1>4. /\ \A o, d : NextIs(calls', o, d) <=> o = "release" /\ d = c
      /\ \A d : Unlinks(calls', d) <=> d = c
  BY <1>2, TwoCalls
<1>5. Stack(calls')
  BY <1>2 DEF Stack, Ops
<1>6. TypeOK'
  BY <1>1, <1>2, <1>5, StackTypes DEF TypeOK
<1>7. Kept(cf, confs)' /\ NoneMarked(cf)' /\ ListenerCounted(cf, listening)'
  BY <1>1, <1>2 DEF Running, Kept, NoneMarked, ListenerCounted
<1>8. Listed' /\ AnswersFindRequests'
  BY <1>1, <1>2 DEF Running, Listed, AnswersFindRequests
<1>9. ClientsMatch' /\ CallsMeet'
  BY <1>1, <1>2, <1>3, <1>4, <1>5 DEF Running, ClientsMatch, CallsMeet, Now, Verifying
<1>10. RequestsMatch'
  BY <1>1, <1>2, <1>3, <1>4 DEF Running, RequestsMatch, Now, TypeOK
<1>11. IpCounted'
  BY <1>1, <1>2, <1>4 DEF Running, IpCounted, Now
<1> QED
  BY <1>6, <1>7, <1>8, <1>9, <1>10, <1>11 DEF IInv, Running

\* The request goes, if the client it was about has not taken it along.
LEMMA UnlinkKeeps ==
    ASSUME IInv, NEW c \in Conns, Unlink(c)
    PROVE  IInv'
<1>1. /\ up /\ TypeOK /\ Running /\ Stack(calls) /\ Calling("unlink", c)
  BY DEF IInv, Running, CallsMeet, Unlink, Calling
<1>2. /\ cf' = cf /\ client' = client /\ listening' = listening /\ confs' = confs
      /\ iphash' = iphash /\ persisting' = persisting
      /\ unknown_list' = unknown_list /\ lclient_list' = lclient_list /\ oper_list' = oper_list
      /\ GlobalClientList' = GlobalClientList /\ dead_list' = dead_list
      /\ queries' = queries /\ ident' = ident /\ ip_count' = ip_count
      /\ calls' = Tail(calls)
  BY DEF Unlink, clientVars, listVars
<1>3. /\ \A o, d : Now(o, d) <=> o = "unlink" /\ d = c
      /\ \A d : Unlinks(calls, d) <=> d = c
  <2>1. calls = <<<<"unlink", c>>>>
    BY <1>1, CallingStack
  <2> QED
    BY <2>1, OneCall DEF Now
<1>4. calls' = <<>> /\ Stack(calls')
  BY <1>1, <1>2, CallDone
<1>5. (\A o, d : ~NextIs(calls', o, d)) /\ (\A d : ~Unlinks(calls', d))
  BY <1>4, NoCall
<1>6. /\ auth_poll_list' \subseteq Conns /\ dns_pending' \subseteq Conns /\ up' \in BOOLEAN
      /\ up' => auth_poll_list' = auth_poll_list \ {c} /\ dns_pending' = dns_pending \ {c}
  BY <1>1 DEF Unlink, TypeOK
<1>7. TypeOK'
  BY <1>1, <1>2, <1>4, <1>6, StackTypes DEF TypeOK
<1>8. ASSUME up' PROVE Running'
  <2>1. Kept(cf, confs)' /\ NoneMarked(cf)' /\ ListenerCounted(cf, listening)'
    BY <1>1, <1>2 DEF Running, Kept, NoneMarked, ListenerCounted
  <2>2. c \notin queries \cup ident
    BY <1>1, <1>3 DEF Running, RequestsMatch
  <2>3. Listed' /\ AnswersFindRequests'
    BY <1>1, <1>2, <1>6, <1>8, <2>2 DEF Running, Listed, AnswersFindRequests
  <2>4. ClientsMatch' /\ CallsMeet'
    BY <1>1, <1>2, <1>3, <1>4, <1>5 DEF Running, ClientsMatch, CallsMeet, Now, Verifying
  <2>5. RequestsMatch'
    BY <1>1, <1>2, <1>3, <1>5, <1>6, <1>8, <2>2 DEF Running, RequestsMatch, Now, TypeOK
  <2>6. IpCounted'
    BY <1>1, <1>2, <1>5 DEF Running, IpCounted, Now
  <2> QED
    BY <2>1, <2>3, <2>4, <2>5, <2>6 DEF Running
<1> QED
  BY <1>7, <1>8 DEF IInv

\* The client can be read; its request, if any, waits for nothing but its end.
LEMMA ReleaseKeeps ==
    ASSUME IInv, NEW c \in Conns, Release(c)
    PROVE  IInv'
<1>1. /\ up /\ TypeOK /\ Running /\ Stack(calls) /\ Calling("release", c) /\ calls # <<>>
  BY DEF IInv, Running, CallsMeet, Release, Calling
<1>2. /\ cf' = cf /\ client' = client /\ listening' = listening /\ confs' = confs
      /\ iphash' = iphash /\ persisting' = persisting
      /\ unknown_list' = unknown_list /\ lclient_list' = lclient_list /\ oper_list' = oper_list
      /\ GlobalClientList' = GlobalClientList \cup {c} /\ dead_list' = dead_list
      /\ auth_poll_list' = auth_poll_list /\ dns_pending' = dns_pending /\ queries' = queries
      /\ ident' = ident /\ up' = up /\ ip_count' = ip_count
  BY DEF Release, clientVars, authVars
<1>3. \A o, d : Now(o, d) <=> o = "release" /\ d = c
  BY <1>1, CallingStack
<1>4. client[c] = "unknown"
  BY <1>1, <1>3 DEF Running, CallsMeet
<1>5. Next_(c, "read")
  BY <1>1 DEF Release, Next_
<1>6. /\ Stack(calls')
      /\ \A p, d : NextIs(calls', p, d) <=> p = "read" /\ d = c
      /\ \A d : Unlinks(calls', d) <=> Unlinks(calls, d)
  BY <1>1, <1>5, CallNext DEF Ops
<1>7. TypeOK'
  BY <1>1, <1>2, <1>6, StackTypes DEF TypeOK
<1>8. Kept(cf, confs)' /\ NoneMarked(cf)' /\ ListenerCounted(cf, listening)'
  BY <1>1, <1>2 DEF Running, Kept, NoneMarked, ListenerCounted
<1>9. Listed' /\ AnswersFindRequests'
  BY <1>1, <1>2, <1>4 DEF Running, Listed, AnswersFindRequests
<1>10. ClientsMatch' /\ CallsMeet'
  BY <1>1, <1>2, <1>3, <1>4, <1>6 DEF Running, ClientsMatch, CallsMeet, Now, Verifying
<1>11. RequestsMatch'
  BY <1>1, <1>2, <1>3, <1>4, <1>6 DEF Running, RequestsMatch, Now, TypeOK
<1>12. IpCounted'
  BY <1>1, <1>2, <1>6 DEF Running, IpCounted, Now
<1> QED
  BY <1>7, <1>8, <1>9, <1>10, <1>11, <1>12 DEF IInv, Running

---------------------------------------------------------------------------
(* Operators, leaving, and a rehash between two callbacks.                 *)

\* OPER: one item is given up and another taken.
LEMMA ReadOperKeeps ==
    ASSUME IInv, NEW c \in Conns, ReadOper(c)
    PROVE  IInv'
<1>1. /\ up /\ TypeOK /\ Running /\ calls = <<>>
      /\ (\A o, d : ~Now(o, d)) /\ (\A d : ~Unlinks(calls, d))
  BY IdleOf DEF ReadOper
<1>2. /\ client' = client /\ listening' = listening
      /\ iphash' = iphash /\ persisting' = persisting
      /\ unknown_list' = unknown_list /\ lclient_list' = lclient_list
      /\ oper_list' = oper_list \cup {c}
      /\ GlobalClientList' = GlobalClientList /\ dead_list' = dead_list
      /\ auth_poll_list' = auth_poll_list /\ dns_pending' = dns_pending /\ queries' = queries
      /\ ident' = ident /\ calls' = calls /\ up' = up /\ ip_count' = ip_count
      /\ client[c] = "person"
  BY DEF ReadOper, authVars
<1>3. PICK o \in Items : /\ cf.item[o].listed
                         /\ cf' = attach_conf(det_confs(cf, confs[c]), o)
                         /\ confs' = [confs EXCEPT ![c] = {o}]
  BY DEF ReadOper, Applying
<1>4. Kept(cf, confs) /\ NoneMarked(cf) /\ ListenerCounted(cf, listening)
  BY <1>1 DEF Running
<1>5. PICK g : g = det_confs(cf, confs[c])
  OBVIOUS
<1>6. PICK a : a = [confs EXCEPT ![c] = {}]
  OBVIOUS
<1>7. /\ Kept(g, a) /\ NoneMarked(g) /\ g.listener = cf.listener /\ g.item[o].listed
  BY <1>3, <1>4, <1>5, <1>6, DetConfsKeeps
<1>8. a[c] = {} /\ [a EXCEPT ![c] = {o}] = [confs EXCEPT ![c] = {o}]
  BY <1>1, <1>6 DEF TypeOK
<1>9. Kept(cf', confs') /\ NoneMarked(cf') /\ cf'.listener = cf.listener
  <2>1. /\ Kept(attach_conf(g, o), [a EXCEPT ![c] = {o}])
        /\ NoneMarked(attach_conf(g, o)) /\ attach_conf(g, o).listener = g.listener
    BY <1>7, <1>8, AttachKeeps
  <2> QED
    BY <1>3, <1>5, <1>7, <1>8, <2>1
<1>10. ListenerCounted(cf', listening')
  BY <1>2, <1>4, <1>9 DEF ListenerCounted
<1>11. \A d \in Conns : d # c => confs'[d] = confs[d]
  BY <1>1, <1>3 DEF TypeOK
<1>12. TypeOK'
  BY <1>1, <1>2, <1>9 DEF TypeOK, Kept
<1>13. Listed' /\ AnswersFindRequests'
  BY <1>1, <1>2, <1>11 DEF Running, Listed, AnswersFindRequests
<1>14. ClientsMatch' /\ CallsMeet' /\ RequestsMatch'
  BY <1>1, <1>2, <1>11 DEF Running, ClientsMatch, CallsMeet, RequestsMatch, Now, Verifying
<1>15. IpCounted'
  BY <1>1, <1>2 DEF Running, IpCounted, Now
<1> QED
  BY <1>9, <1>10, <1>12, <1>13, <1>14, <1>15 DEF IInv, Running

\* MODE -o: the item is given up and the address counted down; an auth block is
\* looked for next.
LEMMA ReadDeopKeeps ==
    ASSUME IInv, NEW c \in Conns, ReadDeop(c)
    PROVE  IInv'
<1>1. /\ up /\ TypeOK /\ Running /\ calls = <<>>
      /\ (\A o, d : ~Now(o, d)) /\ (\A d : ~Unlinks(calls, d))
  BY IdleOf DEF ReadDeop
<1>2. /\ client' = client /\ listening' = listening
      /\ iphash' = iphash /\ persisting' = persisting
      /\ unknown_list' = unknown_list /\ lclient_list' = lclient_list
      /\ oper_list' = oper_list \ {c}
      /\ GlobalClientList' = GlobalClientList /\ dead_list' = dead_list
      /\ auth_poll_list' = auth_poll_list /\ dns_pending' = dns_pending /\ queries' = queries
      /\ ident' = ident /\ calls' = <<<<"verify_deop", c>>>> /\ up' = up
      /\ cf' = det_confs(cf, confs[c]) /\ confs' = [confs EXCEPT ![c] = {}]
  BY DEF ReadDeop, authVars
<1>3. client[c] = "person" /\ c \in iphash
  BY <1>1 DEF Running, Listed, ClientsMatch, ReadDeop, IsOper
<1>4. Kept(cf, confs) /\ NoneMarked(cf) /\ ListenerCounted(cf, listening)
  BY <1>1 DEF Running
<1>5. Kept(cf', confs') /\ NoneMarked(cf') /\ cf'.listener = cf.listener
  <2>1. LET g == det_confs(cf, confs[c])
        IN  Kept(g, [confs EXCEPT ![c] = {}]) /\ NoneMarked(g) /\ g.listener = cf.listener
    BY <1>4, DetConfsKeeps
  <2> QED
    BY <1>2, <2>1
<1>6. ListenerCounted(cf', listening')
  BY <1>2, <1>4, <1>5 DEF ListenerCounted
<1>7. confs'[c] = {} /\ \A d \in Conns : d # c => confs'[d] = confs[d]
  BY <1>1, <1>2 DEF TypeOK
<1>8. /\ \A o, d : NextIs(calls', o, d) <=> o = "verify_deop" /\ d = c
      /\ \A d : ~Unlinks(calls', d)
  BY <1>2, OneCall
<1>9. Stack(calls')
  BY <1>2 DEF Stack, Ops
<1>10. ip_count' \in Int /\ ip_count' <= Cardinality(iphash) - 1
  <2>1. ip_count <= Cardinality(iphash) /\ ip_count \in Int
    BY <1>1 DEF Running, IpCounted, TypeOK
  <2>2. Cardinality(iphash) \in Nat /\ Cardinality(iphash) # 0
    <3>1. IsFiniteSet(iphash)
      BY <1>1, ConnAssumption, FS_Subset DEF TypeOK
    <3> QED
      BY <1>3, <3>1, FS_CardinalityType, FS_EmptySet
  <2>3. ip_count' = IF ip_count # 0 THEN ip_count - 1 ELSE ip_count
    BY DEF ReadDeop, remove_one_ip
  <2> QED
    BY <2>1, <2>2, <2>3
<1>11. TypeOK'
  BY <1>1, <1>2, <1>5, <1>9, <1>10, StackTypes DEF TypeOK, Kept
<1>12. Listed' /\ AnswersFindRequests'
  BY <1>1, <1>2, <1>7 DEF Running, Listed, AnswersFindRequests
<1>13. ClientsMatch' /\ CallsMeet'
  BY <1>1, <1>2, <1>3, <1>7, <1>8, <1>9 DEF Running, ClientsMatch, CallsMeet, Now, Verifying
<1>14. RequestsMatch'
  BY <1>1, <1>2, <1>8 DEF Running, RequestsMatch, Now
<1>15. IpCounted'
  <2>1. Cardinality(iphash) \in Nat
    BY <1>1, ConnAssumption, FS_Subset, FS_CardinalityType DEF TypeOK
  <2> QED
    BY <1>2, <1>10, <2>1 DEF IpCounted
<1> QED
  BY <1>5, <1>6, <1>11, <1>12, <1>13, <1>14, <1>15 DEF IInv, Running

\* Listener and item are let go of.
LEMMA CloseKeeps ==
    ASSUME IInv, up, NEW c \in Conns, close_connection(c)
    PROVE  /\ Kept(cf', confs') /\ NoneMarked(cf') /\ ListenerCounted(cf', listening')
           /\ listening' = listening \ {c} /\ confs'[c] = {}
           /\ \A d \in Conns : d # c => confs'[d] = confs[d]
<1>1. Kept(cf, confs) /\ NoneMarked(cf) /\ ListenerCounted(cf, listening) /\ TypeOK
  BY DEF IInv, Running
<1>2. PICK f : f = IF c \in listening THEN listener_unref(cf) ELSE cf
  OBVIOUS
<1>3. cf' = det_confs(f, confs[c]) /\ confs' = [confs EXCEPT ![c] = {}]
      /\ listening' = listening \ {c}
  BY <1>2 DEF close_connection
<1>4. Kept(f, confs) /\ NoneMarked(f) /\ ListenerCounted(f, listening \ {c})
  <2>1. CASE c \in listening
    <3>1. cf \in Conf /\ IsFiniteSet(listening)
      BY <1>1, ConnAssumption, FS_Subset DEF TypeOK
    <3>2. /\ f \in Conf /\ f.item = cf.item /\ f.class = cf.class
          /\ ListenerCounted(f, listening \ {c})
      BY <1>1, <1>2, <2>1, <3>1, UnrefListener
    <3> QED
      BY <1>1, <3>2, ListenerApart
  <2>2. CASE c \notin listening
    <3>1. listening \ {c} = listening
      BY <2>2
    <3> QED
      BY <1>1, <1>2, <2>2, <3>1
  <2> QED
    BY <2>1, <2>2
<1>5. Kept(cf', confs') /\ NoneMarked(cf') /\ cf'.listener = f.listener
  <2>1. LET g == det_confs(f, confs[c])
        IN  Kept(g, [confs EXCEPT ![c] = {}]) /\ NoneMarked(g) /\ g.listener = f.listener
    BY <1>4, DetConfsKeeps
  <2> QED
    BY <1>3, <2>1
<1>6. ListenerCounted(cf', listening')
  BY <1>3, <1>4, <1>5 DEF ListenerCounted
<1>7. confs'[c] = {} /\ \A d \in Conns : d # c => confs'[d] = confs[d]
  BY <1>1, <1>3 DEF TypeOK
<1> QED
  BY <1>3, <1>5, <1>6, <1>7

\* A client is exited: from all lists but one, with its request and its count.
LEMMA ExitKeeps ==
    ASSUME IInv, NEW c \in Conns, Exit(c)
    PROVE  IInv'
<1>1. /\ up /\ TypeOK /\ Running /\ Stack(calls) /\ Calling("exit", c)
  BY DEF IInv, Running, CallsMeet, Exit, Calling
<1>2. /\ iphash' = iphash \ {c} /\ persisting' = persisting \ {c}
      /\ unknown_list' = unknown_list \ {c} /\ lclient_list' = lclient_list \ {c}
      /\ oper_list' = oper_list \ {c}
      /\ GlobalClientList' = GlobalClientList \ {c} /\ dead_list' = dead_list \cup {c}
      /\ auth_poll_list' = auth_poll_list \ {c} /\ dns_pending' = dns_pending \ {c}
      /\ queries' = queries \ {c} /\ ident' = ident \ {c} /\ calls' = Tail(calls)
      /\ up' \in BOOLEAN
  BY DEF Exit, delete_queries
<1>3. \A o, d : Now(o, d) <=> o = "exit" /\ d = c
  BY <1>1, CallingStack
<1>4. /\ Stack(calls')
      /\ \A p, d : NextIs(calls', p, d) => p = "unlink" /\ d = c
      /\ \A d : Unlinks(calls', d) <=> Unlinks(calls, d)
  BY <1>1, <1>2, CallDone
<1>4a. \A d : Unlinks(calls, d) => d = c
  BY <1>1, CallingStack
<1>5. /\ Kept(cf', confs') /\ NoneMarked(cf') /\ ListenerCounted(cf', listening')
      /\ listening' = listening \ {c} /\ confs'[c] = {}
      /\ \A d \in Conns : d # c => confs'[d] = confs[d]
  BY <1>1, CloseKeeps DEF Exit
<1>6. /\ client' \in [Conns -> {"free", "unknown", "person", "dead"}]
      /\ \A d \in Conns : client'[d] = IF d = c THEN "dead" ELSE client[d]
  BY <1>1 DEF Exit, TypeOK
<1>7. ip_count' \in Int /\ ip_count' <= Cardinality(iphash')
  <2>1. ip_count <= Cardinality(iphash) /\ ip_count \in Int /\ iphash \subseteq Conns
    BY <1>1 DEF Running, IpCounted, TypeOK
  <2>2. IsFiniteSet(iphash) /\ Cardinality(iphash) \in Nat
    BY <2>1, ConnAssumption, FS_Subset, FS_CardinalityType
  <2>3. CASE c \in iphash
    <3>1. Cardinality(iphash \ {c}) = Cardinality(iphash) - 1 /\ Cardinality(iphash) # 0
      BY <2>2, <2>3, FS_RemoveElement, FS_EmptySet
    <3>2. ip_count' = IF ip_count # 0 THEN ip_count - 1 ELSE ip_count
      BY <2>3 DEF Exit, remove_one_ip
    <3> QED
      BY <1>2, <2>1, <2>2, <3>1, <3>2
  <2>4. CASE c \notin iphash
    <3>1. ip_count' = ip_count /\ iphash' = iphash
      BY <1>2, <2>4 DEF Exit
    <3> QED
      BY <2>1, <3>1
  <2> QED
    BY <2>3, <2>4
<1>8. TypeOK'
  BY <1>1, <1>2, <1>4, <1>5, <1>6, <1>7, StackTypes DEF TypeOK, Kept
<1>9. Listed' /\ AnswersFindRequests'
  BY <1>1, <1>2, <1>5, <1>6 DEF Running, Listed, AnswersFindRequests
<1>10. ClientsMatch'
  BY <1>1, <1>2, <1>3, <1>5, <1>6 DEF Running, ClientsMatch
<1>11. CallsMeet'
  BY <1>4 DEF CallsMeet, Now, Verifying
<1>12. RequestsMatch'
  BY <1>1, <1>2, <1>3, <1>4, <1>4a, <1>5, <1>6 DEF Running, RequestsMatch, Now, TypeOK
<1>13. IpCounted'
  BY <1>4, <1>7 DEF IpCounted, Now
<1> QED
  BY <1>5, <1>8, <1>9, <1>10, <1>11, <1>12, <1>13 DEF IInv, Running

\* The memory of a client that has gone is given back.
LEMMA FreeExitedKeeps ==
    ASSUME IInv, FreeExited
    PROVE  IInv'
<1>1. /\ up /\ TypeOK /\ Running /\ calls = <<>>
      /\ (\A o, d : ~Now(o, d)) /\ (\A d : ~Unlinks(calls, d))
  BY IdleOf DEF FreeExited
<1>2. /\ cf' = cf /\ listening' = listening /\ confs' = confs
      /\ iphash' = iphash /\ persisting' = persisting
      /\ unknown_list' = unknown_list /\ lclient_list' = lclient_list
      /\ oper_list' = oper_list /\ GlobalClientList' = GlobalClientList /\ dead_list' = {}
      /\ auth_poll_list' = auth_poll_list /\ dns_pending' = dns_pending /\ queries' = queries
      /\ ident' = ident /\ calls' = calls /\ up' = up /\ ip_count' = ip_count
  BY DEF FreeExited, authVars
<1>3. /\ client' \in [Conns -> {"free", "unknown", "person", "dead"}]
      /\ \A d \in Conns : client'[d] = IF client[d] = "dead" THEN "free" ELSE client[d]
  BY <1>1 DEF FreeExited, Running, Listed, TypeOK
<1>4. TypeOK'
  BY <1>1, <1>2, <1>3 DEF TypeOK
<1>5. Kept(cf, confs)' /\ NoneMarked(cf)' /\ ListenerCounted(cf, listening)'
  BY <1>1, <1>2 DEF Running, Kept, NoneMarked, ListenerCounted
<1>6. Listed' /\ AnswersFindRequests'
  BY <1>1, <1>2, <1>3 DEF Running, Listed, AnswersFindRequests
<1>7. ClientsMatch' /\ CallsMeet'
  BY <1>1, <1>2, <1>3 DEF Running, ClientsMatch, CallsMeet, Now, Verifying
<1>8. RequestsMatch'
  BY <1>1, <1>2, <1>3 DEF Running, RequestsMatch, Now, TypeOK
<1>9. IpCounted'
  BY <1>1, <1>2 DEF Running, IpCounted, Now
<1> QED
  BY <1>4, <1>5, <1>6, <1>7, <1>8, <1>9 DEF IInv, Running

\* A rehash.
LEMMA RehashActionKeeps ==
    ASSUME IInv, NEW v \in Versions, NEW binds \in BOOLEAN, Rehash(v, binds)
    PROVE  IInv'
<1>1. up /\ TypeOK /\ Running
  BY IdleOf DEF Rehash
<1>2. /\ cf' = rehash(cf, v, binds) /\ HasRoom(cf)
      /\ client' = client /\ listening' = listening /\ confs' = confs
      /\ iphash' = iphash /\ persisting' = persisting
      /\ unknown_list' = unknown_list /\ lclient_list' = lclient_list /\ oper_list' = oper_list
      /\ GlobalClientList' = GlobalClientList /\ dead_list' = dead_list
      /\ auth_poll_list' = auth_poll_list /\ dns_pending' = dns_pending /\ queries' = queries
      /\ ident' = ident /\ calls' = calls /\ up' = up /\ ip_count' = ip_count
  BY DEF Rehash, clientVars, listVars, authVars
<1>3. Kept(cf', confs') /\ NoneMarked(cf') /\ ListenerCounted(cf', listening')
  <2>1. Kept(cf, confs) /\ ListenerCounted(cf, listening)
    BY <1>1 DEF Running
  <2>2. LET g == rehash(cf, v, binds)
        IN  Kept(g, confs) /\ NoneMarked(g) /\ ListenerCounted(g, listening)
    BY <1>2, <2>1, RehashKeeps
  <2> QED
    BY <1>2, <2>2
<1>4. TypeOK'
  BY <1>1, <1>2, <1>3 DEF TypeOK, Kept
<1>5. Listed' /\ AnswersFindRequests'
  BY <1>1, <1>2 DEF Running, Listed, AnswersFindRequests
<1>6. ClientsMatch' /\ CallsMeet' /\ RequestsMatch' /\ IpCounted'
  BY <1>1, <1>2
  DEF Running, ClientsMatch, CallsMeet, RequestsMatch, IpCounted, Now, Verifying
<1> QED
  BY <1>3, <1>4, <1>5, <1>6 DEF IInv, Running

---------------------------------------------------------------------------
(* The theorems.                                                           *)

\* The server starts with a configuration and no client.
LEMMA InitInv == Init => IInv
<1> SUFFICES ASSUME Init PROVE IInv
  OBVIOUS
<1>1. PICK v \in Versions : cf = read_conf(EmptyConf, v, TRUE)
  BY DEF Init
<1>2. /\ client = [c \in Conns |-> "free"] /\ confs = [c \in Conns |-> {}]
      /\ listening = {} /\ iphash = {} /\ persisting = {}
      /\ unknown_list = {} /\ lclient_list = {} /\ oper_list = {}
      /\ GlobalClientList = {} /\ dead_list = {}
      /\ auth_poll_list = {} /\ dns_pending = {} /\ queries = {} /\ ident = {}
      /\ ip_count = 0 /\ calls = <<>> /\ up = TRUE
  BY DEF Init
<1>3. Kept(cf, confs) /\ NoneMarked(cf) /\ ListenerCounted(cf, listening)
  <2>1. Kept(EmptyConf, confs) /\ Room(EmptyConf) /\ ListenerCounted(EmptyConf, {})
    BY <1>2, EmptyKept
  <2> QED
    BY <1>1, <1>2, <2>1, ReadKeeps
<1>4. (\A o, d : ~Now(o, d)) /\ (\A d : ~Unlinks(calls, d))
  BY <1>2, IdleStack
<1>5. Stack(calls)
  BY <1>2 DEF Stack
<1>6. TypeOK
  BY <1>2, <1>3, <1>5, StackTypes DEF TypeOK, Kept
<1>7. Listed /\ AnswersFindRequests /\ ClientsMatch /\ RequestsMatch
  BY <1>2, <1>4 DEF Listed, AnswersFindRequests, ClientsMatch, RequestsMatch
<1>8. CallsMeet
  BY <1>4, <1>5 DEF CallsMeet, Verifying
<1>9. IpCounted
  BY <1>2, <1>4, FS_EmptySet DEF IpCounted
<1> QED
  BY <1>3, <1>6, <1>7, <1>8, <1>9 DEF IInv, Running

\* Nothing happens.
LEMMA StutterKeeps ==
    ASSUME IInv, UNCHANGED vars
    PROVE  IInv'
<1>1. /\ cf' = cf /\ client' = client /\ listening' = listening /\ confs' = confs
      /\ iphash' = iphash /\ persisting' = persisting
      /\ unknown_list' = unknown_list /\ lclient_list' = lclient_list /\ oper_list' = oper_list
      /\ GlobalClientList' = GlobalClientList /\ dead_list' = dead_list
      /\ auth_poll_list' = auth_poll_list /\ dns_pending' = dns_pending /\ queries' = queries
      /\ ident' = ident /\ calls' = calls /\ up' = up /\ ip_count' = ip_count
  BY DEF vars, clientVars, listVars, authVars
<1> QED
  BY <1>1
  DEF IInv, TypeOK, Running, Kept, NoneMarked, ListenerCounted, Listed, CallsMeet, ClientsMatch,
      AnswersFindRequests, RequestsMatch, IpCounted, Now, Verifying

\* Every step keeps the invariant.
LEMMA StepKeeps == IInv /\ [Next]_vars => IInv'
<1> SUFFICES ASSUME IInv, [Next]_vars PROVE IInv'
  OBVIOUS
<1>1. CASE TooFast
  BY <1>1, TooFastKeeps
<1>2. CASE FreeExited
  BY <1>2, FreeExitedKeeps
<1>3. CASE \E v \in Versions, binds \in BOOLEAN : Rehash(v, binds)
  BY <1>3, RehashActionKeeps
<1>4. ASSUME NEW c \in Conns, \E submitted, socket \in BOOLEAN : AcceptConnection(c, submitted, socket)
      PROVE  IInv'
  BY <1>4, AcceptConnectionKeeps
<1>5. ASSUME NEW c \in Conns,
             AcceptGone(c) \/ AuthDns(c) \/ AuthIdent(c) \/ AuthTimeout(c) \/ Unlink(c) \/ Release(c)
      PROVE  IInv'
  BY <1>5, AcceptGoneKeeps, AuthDnsKeeps, AuthIdentKeeps, AuthTimeoutKeeps, UnlinkKeeps,
     ReleaseKeeps
<1>6. ASSUME NEW c \in Conns,
             \/ ReadNothing(c) \/ ReadUser(c) \/ ReadClient(c) \/ ReadOper(c) \/ ReadDeop(c)
             \/ ReadQuit(c)
      PROVE  IInv'
  BY <1>6, ReadNothingKeeps, ReadUserKeeps, ReadClientKeeps, ReadOperKeeps, ReadDeopKeeps,
     ReadQuitKeeps
<1>7. ASSUME NEW c \in Conns,
             \E persistant \in BOOLEAN : ReadEof(c, persistant) \/ CheckPings(c, persistant)
      PROVE  IInv'
  BY <1>7, ReadEofKeeps, CheckPingsKeeps
<1>8. ASSUME NEW c \in Conns,
             \/ VerifyRefused(c) \/ VerifyBanned(c) \/ VerifyFull(c)
             \/ RegisterRejected(c) \/ Registered(c) \/ Deopped(c) \/ Reclaims(c)
      PROVE  IInv'
  BY <1>8, VerifyRefusedKeeps, VerifyBannedKeeps, VerifyFullKeeps, RegisterRejectedKeeps,
     RegisteredKeeps, DeoppedKeeps, ReclaimsKeeps
<1>9. ASSUME NEW c \in Conns, Exit(c) \/ ExitedBy(c)
      PROVE  IInv'
  BY <1>9, ExitKeeps, ExitedByKeeps
<1>10. CASE UNCHANGED vars
  BY <1>10, StutterKeeps
<1> QED
  BY <1>1, <1>2, <1>3, <1>4, <1>5, <1>6, <1>7, <1>8, <1>9, <1>10 DEF Next

\* At every step of every callback: whatever is accepted, looked up, read,
\* registered, exited and reread.
THEOREM Invariance == Spec => []IInv
<1> QED
  BY InitInv, StepKeeps, PTL DEF Spec

\* Types: the counts of items, classes and the listener never go below 0
\* (detach_conf, close_connection), and calls nest no deeper than a timeout's
\* release and unlinking (timeout_auth_queries_event).
THEOREM TypeCorrect == Spec => []TypeOK
<1>1. IInv => TypeOK
  BY DEF IInv
<1> QED
  BY <1>1, Invariance, PTL

\* exit_one_client and its callers: every client is on the lists its state says,
\* a client that waits for an answer can still get one, and no answer finds its
\* request freed.
THEOREM ListsAgree == Spec => []NoDangling
<1>1. IInv => NoDangling
  <2> SUFFICES ASSUME IInv, up PROVE ListsMatch /\ AuthMatches /\ AnswersFindRequests
    BY DEF NoDangling
  <2>1. Running /\ TypeOK
    BY DEF IInv
  <2>2. ListsMatch
    BY <2>1 DEF Running, Listed, ListsMatch, TypeOK
  <2>3. AuthMatches
    <3> SUFFICES ASSUME Idle
                 PROVE  /\ \A c \in Conns \ unknown_list : c \notin auth_poll_list
                        /\ \A c \in unknown_list \cap listening :
                             (c \in auth_poll_list) # (c \in GlobalClientList)
                        /\ \A c \in auth_poll_list : c \in dns_pending \cup ident
      BY DEF AuthMatches
    <3>1. (\A o, d : ~Now(o, d)) /\ (\A d : ~Unlinks(calls, d))
      BY IdleOf
    <3>2. \A c \in auth_poll_list :
             /\ c \in Conns /\ c \in unknown_list /\ c \notin GlobalClientList
             /\ c \in dns_pending \cup ident
      BY <2>1, <3>1 DEF Running, RequestsMatch, Listed, TypeOK
    <3>3. \A c \in unknown_list \cap listening : c \in GlobalClientList \/ c \in auth_poll_list
      BY <2>1, <3>1 DEF Running, RequestsMatch, Listed, TypeOK
    <3> QED
      BY <3>2, <3>3
  <2> QED
    BY <2>1, <2>2, <2>3 DEF Running
<1> QED
  BY <1>1, Invariance, PTL

\* detach_conf, check_class, clear_out_old_conf and close_listeners: nothing a
\* client refers to has been freed, across any number of rehashes, nothing is
\* kept that nobody refers to, and no address is counted for more than its
\* clients.
THEOREM ReferencesCounted == Spec => []RefcountsMatch
<1>1. IInv => RefcountsMatch
  <2> SUFFICES ASSUME IInv, up PROVE ConfMatches /\ ListenerMatches /\ IpNeverOvercounts
    BY DEF RefcountsMatch
  <2>1. Running
    BY DEF IInv
  <2>2. /\ cf \in Conf /\ ItemsCounted(cf, confs) /\ ItemsClassed(cf)
        /\ ClassesCounted(cf, confs) /\ ListenerCounted(cf, listening)
    BY <2>1 DEF Running, Kept
  <2>3. ASSUME NEW i \in Items
        PROVE  /\ cf.item[i].clients = Cardinality(Attached(i))
               /\ IsAllocated(cf, i) = (cf.item[i].listed \/ Attached(i) # {})
               /\ IsAllocated(cf, i) => cf.item[i].class # NoClass /\ cf.class[cf.item[i].class].used
    <3>1. Attached(i) = AttachedIn(confs, i)
      BY DEF Attached, AttachedIn
    <3>2. cf.item[i].listed \in BOOLEAN
      BY <2>2, Slots DEF ItemType
    <3>3. IsAllocated(cf, i) \in BOOLEAN
      BY DEF IsAllocated
    <3>4. /\ cf.item[i].clients = Cardinality(Attached(i))
          /\ IsAllocated(cf, i) <=> cf.item[i].listed \/ Attached(i) # {}
      BY <2>2, <3>1 DEF ItemsCounted
    <3>5. IsAllocated(cf, i) => cf.item[i].class # NoClass /\ cf.class[cf.item[i].class].used
      BY <2>2, ConfAssumption DEF ItemsClassed
    <3> QED
      BY <3>2, <3>3, <3>4, <3>5
  <2>4. ASSUME NEW k \in ClassSlots
        PROVE  /\ cf.class[k].links =
                    Cardinality({c \in Conns : \E i \in confs[c] : cf.item[i].class = k})
               /\ cf.class[k].used = (cf.class[k].listed \/ cf.class[k].links > 0)
    <3>1. cf.class[k].used \in BOOLEAN /\ cf.class[k].listed \in BOOLEAN
      BY <2>2, Slots DEF ClassType
    <3>2. /\ cf.class[k].links = Cardinality(UsersIn(cf, confs, k))
          /\ cf.class[k].used <=> cf.class[k].listed \/ cf.class[k].links > 0
      BY <2>2 DEF ClassesCounted
    <3>3. cf.class[k].used = (cf.class[k].listed \/ cf.class[k].links > 0)
      BY <3>1, <3>2
    <3> QED
      BY <3>2, <3>3 DEF UsersIn
  <2>5. ListenerMatches
    <3>1. cf.listener.used \in BOOLEAN /\ cf.listener.active \in BOOLEAN
      BY <2>2, Slots DEF ListenerType
    <3> QED
      BY <2>2, <3>1 DEF ListenerCounted, ListenerMatches
  <2>6. IpNeverOvercounts
    BY <2>1 DEF Running, IpCounted, IpNeverOvercounts
  <2> QED
    BY <2>3, <2>4, <2>5, <2>6 DEF ConfMatches
<1> QED
  BY <1>1, Invariance, PTL
============================================================================
