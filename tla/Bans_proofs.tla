---------------------------- MODULE Bans_proofs ----------------------------
(***************************************************************************)
(* Proofs about Bans, for all clients, masks, operators and servers, all   *)
(* frequencies of the events and all bounds: type correctness, that a ban  *)
(* in force has nobody on the server, that a temporary one ends in time,   *)
(* and that a G-line takes three votes that stood together.                *)
(***************************************************************************)
EXTENDS Bans, FiniteSetTheorems, WellFoundedInduction, TLAPS

---------------------------------------------------------------------------
(* The inductive invariant, of the server s when the clock went back b     *)
(* times.                                                                  *)

Server ==
    [events : Tables, online : SUBSET Clients, lines : SUBSET Lines,
     temp : [Masks -> Int \cup {Never}], file : SUBSET Masks,
     pending : [Masks -> Pending \cup {Never}],
     peer : BOOLEAN, splitmode : BOOLEAN, splitchecking : BOOLEAN]

MaxPeriod == Max({Period[e] : e \in Names})

\* Where the events are: none is later than its frequency says, and the minimum,
\* although it may be wrong, is never so far off that an event waits for longer than
\* MaxPeriod and the seconds the clock went back.  An unknown minimum is computed
\* before anything is late.
Slot(t, b, e) ==
    t.when[e] # Never =>
        /\ t.when[e] <= Period[e] /\ t.when[e] >= - MaxPeriod - b
        /\ t.min # Never => t.min <= t.when[e] + MaxPeriod + b
        /\ t.min = Never => t.when[e] >= 0

Minimum(t, b) ==
    t.min # Never =>
        /\ t.min <= MaxPeriod + b /\ t.min >= - MaxPeriod
        /\ t.min >= t.when["cleanup_tklines"] - MaxPeriod

Timing(t, b) ==
    /\ \A e \in Names : Slot(t, b, e)
    /\ Minimum(t, b)
    /\ t.when["cleanup_glines"] # Never /\ t.when["cleanup_tklines"] # Never

\* The temporary lines in force are those of the list.
Listed(s) == \A m \in Masks : Line("T", m) \in s.lines <=> s.temp[m] # Never

\* A temporary line that is still there has run out, if at all, since cleanup_tklines
\* ran last.
Lasting(s) ==
    \A m \in Masks : s.temp[m] # Never =>
        s.temp[m] > s.events.when["cleanup_tklines"] - Period["cleanup_tklines"]

\* A request that is still there has run out, if at all, since cleanup_glines ran last;
\* the one it seconds had not, and is from another server.
Votes(s) ==
    \A m \in Masks : s.pending[m] # Never =>
        LET p == s.pending[m] IN
        /\ LastAge(p) <= PendingExpire + Period["cleanup_glines"]
                           - s.events.when["cleanup_glines"]
        /\ p.oper2 # NoOne => /\ p.age1 - p.age2 <= MaxWait
                              /\ ServerOf[p.oper1] # ServerOf[p.oper2]

Core(s, b) == s \in Server /\ Timing(s.events, b) /\ Listed(s) /\ Lasting(s) /\ Votes(s)

\* Nobody is on the server whom a line matches.
Clean(s) == s.online \cap Banned(s) = {}

Inv == backs \in 0..MaxBack /\ Core(ircd, backs) /\ Clean(ircd)

---------------------------------------------------------------------------
(* The frequencies and the bounds.                                         *)

\* The frequencies are positive and none is above the longest.
LEMMA Periods ==
    /\ Names = {"cleanup_glines", "cleanup_tklines", "check_splitmode"}
    /\ \A e \in Names : Period[e] \in Nat \ {0} /\ Period[e] <= MaxPeriod
    /\ MaxPeriod \in Nat \ {0}
<1> DEFINE P == {Period[e] : e \in Names}
<1>1. Names = {"cleanup_glines", "cleanup_tklines", "check_splitmode"}
  BY BansAssumption
<1>2. \A e \in Names : Period[e] \in Nat \ {0}
  BY EventsAssumption DEF Names
<1>3. PICK x, y, z : /\ x = Period["cleanup_glines"] /\ y = Period["cleanup_tklines"]
                     /\ z = Period["check_splitmode"]
  OBVIOUS
<1>4. P = {x, y, z} /\ x \in Nat \ {0} /\ y \in Nat \ {0} /\ z \in Nat \ {0}
  BY <1>1, <1>2, <1>3
<1> HIDE DEF P
<1>5. \E m \in P : \A p \in P : m >= p
  <2>1. CASE x >= y /\ x >= z
    BY <1>4, <2>1
  <2>2. CASE y >= x /\ y >= z
    BY <1>4, <2>2
  <2>3. CASE z >= x /\ z >= y
    BY <1>4, <2>3
  <2> QED BY <1>4, <2>1, <2>2, <2>3
<1>6. Max(P) \in P /\ \A p \in P : Max(P) >= p
  BY <1>5 DEF Max
<1>7. MaxPeriod = Max(P)
  BY DEF MaxPeriod, P
<1>8. \A e \in Names : Period[e] \in P
  BY DEF P
<1>9. MaxPeriod \in Nat \ {0}
  BY <1>4, <1>6, <1>7
<1> QED BY <1>1, <1>2, <1>6, <1>7, <1>8, <1>9

\* The bounds of the properties, from the constants.
LEMMA Waits ==
    /\ MaxLate = MaxPeriod + MaxBack /\ MaxLate \in Nat /\ MaxBack \in Nat
    /\ MaxWait = PendingExpire + Period["cleanup_glines"] + MaxLate
    /\ MaxWait \in Nat /\ PendingExpire \in Nat
<1>1. MaxLate = MaxPeriod + MaxBack
  BY DEF MaxLate, MaxPeriod
<1>2. MaxBack \in Nat /\ PendingExpire \in Nat
  BY BansAssumption
<1>3. Period["cleanup_glines"] \in Nat
  BY Periods
<1> QED BY <1>1, <1>2, <1>3, Periods DEF MaxWait

\* The earlier of two times.
LEMMA Earlier ==
    ASSUME NEW x \in Int, NEW y \in Int
    PROVE  Min({x, y}) = IF x <= y THEN x ELSE y
<1>1. CASE x <= y
  <2>1. x \in {x, y} /\ \A z \in {x, y} : x <= z
    BY <1>1
  <2>2. \A w \in {x, y} : (\A z \in {x, y} : w <= z) => w = x
    BY <1>1
  <2> QED BY <1>1, <2>1, <2>2 DEF Min
<1>2. CASE ~(x <= y)
  <2>1. y \in {x, y} /\ \A z \in {x, y} : y <= z
    BY <1>2
  <2>2. \A w \in {x, y} : (\A z \in {x, y} : w <= z) => w = y
    BY <1>2
  <2> QED BY <1>2, <2>1, <2>2 DEF Min
<1> QED BY <1>1, <1>2

\* The earliest of the times of some events.
LEMMA Earliest ==
    ASSUME NEW t \in Tables, Active(t) # {}
    PROVE  LET x == Min({t.when[e] : e \in Active(t)})
           IN  /\ \E e \in Active(t) : x = t.when[e]
               /\ \A e \in Active(t) : x <= t.when[e]
<1> DEFINE T == {t.when[e] : e \in Active(t)}
<1>1. \A e \in Active(t) : t.when[e] \in Int
  BY DEF Active, Tables
<1>2. \E x \in T : \A y \in T : x <= y
  <2>1. Active(t) \subseteq {"cleanup_glines", "cleanup_tklines", "check_splitmode"}
    BY Periods DEF Active
  <2>2. \E e \in Active(t) : \A f \in Active(t) : t.when[e] <= t.when[f]
    <3>1. ASSUME NEW x, NEW y, NEW z, Active(t) \subseteq {x, y, z}
          PROVE  \E e \in Active(t) : \A f \in Active(t) : t.when[e] <= t.when[f]
      <4>1. CASE x \in Active(t) /\ \A f \in Active(t) : t.when[x] <= t.when[f]
        BY <4>1
      <4>2. CASE y \in Active(t) /\ \A f \in Active(t) : t.when[y] <= t.when[f]
        BY <4>2
      <4>3. CASE z \in Active(t) /\ \A f \in Active(t) : t.when[z] <= t.when[f]
        BY <4>3
      <4> QED BY <1>1, <3>1, <4>1, <4>2, <4>3
    <3> QED BY <2>1, <3>1
  <2> QED BY <2>2
<1>3. Min(T) \in T /\ \A y \in T : Min(T) <= y
  BY <1>2 DEF Min
<1> QED BY <1>3

---------------------------------------------------------------------------
(* The table of events.                                                    *)

\* The two events that always run keep their times.
SameCleanups(t, u) ==
    /\ u.when["cleanup_glines"] = t.when["cleanup_glines"]
    /\ u.when["cleanup_tklines"] = t.when["cleanup_tklines"]

\* The three names, and which of them an entry is about.
LEMMA Three ==
    /\ {"cleanup_glines", "cleanup_tklines", "check_splitmode"} \subseteq Names
    /\ "cleanup_glines" # "check_splitmode" /\ "cleanup_tklines" # "check_splitmode"
    /\ "cleanup_glines" # "cleanup_tklines"
BY Periods

\* What a table of events holds, in numbers.
LEMMA TableFacts ==
    ASSUME NEW t \in Tables
    PROVE  /\ \A e \in Names : t.when[e] # Never => t.when[e] \in Int
           /\ t.min # Never => t.min \in Int
           /\ t.when \in [Names -> Int \cup {Never}]
BY DEF Tables

\* eventAdd leaves the table in time, and the two cleanups where they were.
LEMMA EventAdded ==
    ASSUME NEW t \in Tables, NEW b \in Nat, Timing(t, b)
    PROVE  LET u == eventAdd(t, "check_splitmode")
           IN  u \in Tables /\ Timing(u, b) /\ SameCleanups(t, u)
<1> DEFINE u == eventAdd(t, "check_splitmode")  P == Period["check_splitmode"]
<1>1. /\ P \in Nat \ {0} /\ P <= MaxPeriod /\ MaxPeriod \in Nat
      /\ \A e \in Names : Period[e] <= MaxPeriod /\ Period[e] \in Nat
  BY Periods, Three
<1>2. u.when = [t.when EXCEPT !["check_splitmode"] = P]
  BY DEF eventAdd
<1>3. u.min \in Int /\ u.min <= P /\ u.min = IF t.min = Never THEN P
                                             ELSE IF t.min <= P THEN t.min ELSE P
  <2>1. t.min # Never => Min({t.min, P}) = IF t.min <= P THEN t.min ELSE P
    BY <1>1, TableFacts, Earlier
  <2>2. u.min = IF t.min = Never THEN P ELSE Min({t.min, P})
    BY DEF eventAdd
  <2> HIDE DEF u, P
  <2> QED BY <1>1, <2>1, <2>2, TableFacts
<1>4. u \in Tables
  <2>1. u = [when |-> u.when, min |-> u.min]
    BY DEF eventAdd
  <2>2. u.when \in [Names -> Int \cup {Never}]
    BY <1>1, <1>2, TableFacts
  <2> HIDE DEF u, P
  <2> QED BY <1>3, <2>1, <2>2 DEF Tables
<1>5. u.min # Never
  BY <1>3, EventsAssumption
<1>6. /\ u.when["check_splitmode"] = P
      /\ \A e \in Names : e # "check_splitmode" => u.when[e] = t.when[e]
  BY <1>2, Three, TableFacts
<1> HIDE DEF u, P
<1>7. ASSUME NEW e \in Names PROVE Slot(u, b, e)
  <2>1. CASE e = "check_splitmode"
    BY <1>1, <1>3, <1>5, <1>6, <2>1 DEF Slot, P
  <2>2. CASE e # "check_splitmode" /\ t.when[e] # Never
    <3>1. Slot(t, b, e) /\ u.when[e] = t.when[e] /\ t.when[e] \in Int
      BY <1>6, <2>2, TableFacts DEF Timing
    <3>2. CASE t.min = Never
      BY <1>1, <1>3, <1>5, <2>2, <3>1, <3>2 DEF Slot
    <3>3. CASE t.min # Never
      BY <1>1, <1>3, <1>5, <2>2, <3>1, <3>3, TableFacts DEF Slot
    <3> QED BY <3>2, <3>3
  <2>3. CASE e # "check_splitmode" /\ t.when[e] = Never
    BY <1>6, <2>3 DEF Slot
  <2> QED BY <2>1, <2>2, <2>3
<1>8. SameCleanups(t, u)
  BY <1>6, Three DEF SameCleanups
<1>9. Minimum(u, b)
  <2> DEFINE w == t.when["cleanup_tklines"]
  <2>1. w \in Int /\ w <= MaxPeriod /\ u.when["cleanup_tklines"] = w
    <3>1. w # Never /\ Slot(t, b, "cleanup_tklines") /\ "cleanup_tklines" \in Names
      BY Three DEF Timing
    <3>2. w \in Int /\ w <= Period["cleanup_tklines"]
      BY <3>1, TableFacts DEF Slot
    <3> QED BY <1>1, <1>8, <3>1, <3>2 DEF SameCleanups
  <2>2. CASE t.min = Never
    BY <1>1, <1>3, <1>5, <2>1, <2>2 DEF Minimum
  <2>3. CASE t.min # Never
    <3>1. Minimum(t, b) /\ t.min \in Int
      BY <2>3, TableFacts DEF Timing
    <3> QED BY <1>1, <1>3, <1>5, <2>1, <2>3, <3>1 DEF Minimum
  <2> QED BY <2>2, <2>3
<1>10. u \in Tables /\ Timing(u, b) /\ SameCleanups(t, u)
  BY <1>4, <1>7, <1>8, <1>9, Three DEF Timing, SameCleanups
<1> QED BY <1>10 DEF u

\* So does eventDelete.
LEMMA EventDeleted ==
    ASSUME NEW t \in Tables, NEW b \in Nat, Timing(t, b)
    PROVE  LET u == eventDelete(t, "check_splitmode")
           IN  u \in Tables /\ Timing(u, b) /\ SameCleanups(t, u)
<1> DEFINE u == eventDelete(t, "check_splitmode")
<1>1. u \in Tables /\ u.min = t.min
      /\ u.when = [t.when EXCEPT !["check_splitmode"] = Never]
  BY DEF Tables, eventDelete
<1>2. /\ u.when["check_splitmode"] = Never
      /\ \A e \in Names : e # "check_splitmode" => u.when[e] = t.when[e]
  BY <1>1, Three, TableFacts
<1> HIDE DEF u
<1>3. SameCleanups(t, u)
  BY <1>2, Three DEF SameCleanups
<1>4. ASSUME NEW e \in Names PROVE Slot(u, b, e)
  <2>1. Slot(t, b, e)
    BY DEF Timing
  <2> QED BY <1>1, <1>2, <2>1 DEF Slot
<1>5. Minimum(u, b)
  BY <1>1, <1>3 DEF Timing, Minimum, SameCleanups
<1>6. u \in Tables /\ Timing(u, b) /\ SameCleanups(t, u)
  BY <1>1, <1>3, <1>4, <1>5, Three DEF Timing, SameCleanups
<1> QED BY <1>6 DEF u

\* The minimum is known after eventNextTime.
LEMMA NextTimeKnown ==
    ASSUME NEW t \in Tables, NEW b \in Nat, Timing(t, b)
    PROVE  LET u == eventNextTime(t)
           IN  /\ u \in Tables /\ Timing(u, b) /\ SameCleanups(t, u)
               /\ u.min \in Int /\ u.when = t.when
<1> DEFINE u == eventNextTime(t)  x == Min({t.when[e] : e \in Active(t)})
<1>1. CASE t.min # Never
  BY <1>1, TableFacts DEF eventNextTime, SameCleanups
<1>2. CASE t.min = Never
  <2>1. "cleanup_tklines" \in Active(t)
    BY Three DEF Timing, Active
  <2>2. /\ \E e \in Active(t) : x = t.when[e]
        /\ \A e \in Active(t) : x <= t.when[e]
    BY <2>1, Earliest
  <2> HIDE DEF x
  <2>3. PICK f \in Active(t) : x = t.when[f]
    BY <2>2
  <2>4. /\ f \in Names /\ t.when[f] # Never /\ x \in Int /\ x >= 0
        /\ \A e \in Names : t.when[e] # Never => /\ x <= t.when[e] /\ t.when[e] \in Int
                                                /\ e \in Active(t)
    BY <1>2, <2>2, <2>3, TableFacts DEF Active, Timing, Slot
  <2>5. u = [t EXCEPT !.min = x]
    BY <1>2 DEF eventNextTime, x
  <2>6. u \in Tables /\ u.min = x /\ u.when = t.when
    BY <2>4, <2>5 DEF Tables
  <2> HIDE DEF u
  <2>7. /\ MaxPeriod \in Nat /\ x # Never
        /\ \A e \in Names : Period[e] <= MaxPeriod /\ Period[e] \in Nat
    BY <2>4, Periods, EventsAssumption
  <2>8. ASSUME NEW e \in Names PROVE Slot(u, b, e)
    <3>1. Slot(t, b, e)
      BY DEF Timing
    <3>2. CASE t.when[e] = Never
      BY <2>6, <3>2 DEF Slot
    <3>3. CASE t.when[e] # Never
      <4>1. x <= t.when[e] /\ t.when[e] \in Int
        BY <2>4, <3>3
      <4> QED BY <2>4, <2>6, <2>7, <3>1, <3>3, <4>1 DEF Slot
    <3> QED BY <3>2, <3>3
  <2>9. Minimum(u, b)
    <3> DEFINE w == t.when["cleanup_tklines"]
    <3>1. w # Never /\ w \in Int /\ x <= w /\ w <= MaxPeriod
      <4>1. w # Never /\ Slot(t, b, "cleanup_tklines") /\ "cleanup_tklines" \in Names
        BY Three DEF Timing
      <4>2. w \in Int /\ x <= w /\ w <= Period["cleanup_tklines"]
        BY <2>4, <4>1 DEF Slot
      <4> QED BY <2>7, <4>1, <4>2
    <3> HIDE DEF w
    <3>2. u.when["cleanup_tklines"] = w
      BY <2>6 DEF w
    <3> QED BY <2>4, <2>6, <2>7, <3>1, <3>2 DEF Minimum
  <2>10. u \in Tables /\ Timing(u, b) /\ SameCleanups(t, u) /\ u.min \in Int /\ u.when = t.when
    BY <2>4, <2>6, <2>8, <2>9 DEF Timing, SameCleanups
  <2> QED BY <2>10 DEF u
<1> QED BY <1>1, <1>2

\* What is true when the loop has looked at the events: none is due, or the minimum
\* lies ahead.
Topped(t) ==
    \/ t.min # Never /\ t.min > 0
    \/ \A e \in Names : t.when[e] # Never => t.when[e] > 0

\* A time d seconds later; what never happens stays so.
LEMMA LaterIs ==
    ASSUME NEW x \in Int \cup {Never}, NEW d \in Int
    PROVE  /\ Later(x, d) \in Int \cup {Never} /\ Later(x, d) = Never <=> x = Never
           /\ x # Never => x \in Int /\ Later(x, d) = x - d
<1>1. CASE x = Never
  BY <1>1 DEF Later
<1>2. CASE x # Never
  <2>1. x \in Int /\ Later(x, d) = x - d /\ x - d \in Int
    BY <1>2 DEF Later
  <2> QED BY <1>2, <2>1, EventsAssumption
<1> QED BY <1>1, <1>2

\* Seconds that pass once the due events have run leave the table in time.
LEMMA TimePassed ==
    ASSUME NEW t \in Tables, NEW b \in Nat, Timing(t, b), Topped(t), NEW d \in 0..1
    PROVE  LET u == Passed(t, d)
           IN  /\ u \in Tables /\ Timing(u, b)
               /\ \A e \in Names : u.when[e] = Later(t.when[e], d)
<1> DEFINE u == Passed(t, d)
<1>1. /\ u.when = [e \in Names |-> Later(t.when[e], d)] /\ u.min = Later(t.min, d)
      /\ u = [when |-> u.when, min |-> u.min]
  BY DEF Passed
<1>2. /\ \A e \in Names : t.when[e] \in Int \cup {Never}
      /\ t.min \in Int \cup {Never} /\ d \in Int
  BY DEF Tables
<1> HIDE DEF u
<1>3. /\ u.min \in Int \cup {Never} /\ u.min = Never <=> t.min = Never
      /\ t.min # Never => t.min \in Int /\ u.min = t.min - d
  BY <1>1, <1>2, LaterIs
<1>4. ASSUME NEW e \in Names
      PROVE  /\ u.when[e] = Later(t.when[e], d)
             /\ u.when[e] \in Int \cup {Never} /\ u.when[e] = Never <=> t.when[e] = Never
             /\ t.when[e] # Never => t.when[e] \in Int /\ u.when[e] = t.when[e] - d
  <2>1. u.when[e] = Later(t.when[e], d)
    BY <1>1
  <2> QED BY <1>2, <2>1, LaterIs
<1>5. u \in Tables
  <2>1. u.when \in [Names -> Int \cup {Never}]
    BY <1>1, <1>4
  <2> QED BY <1>1, <1>3, <2>1 DEF Tables
<1>6. /\ MaxPeriod \in Nat \ {0}
      /\ \A e \in Names : Period[e] <= MaxPeriod /\ Period[e] \in Nat
  BY Periods
<1>7. ASSUME NEW e \in Names PROVE Slot(u, b, e)
  <2>1. CASE t.when[e] = Never
    BY <1>4, <2>1 DEF Slot
  <2>2. CASE t.when[e] # Never
    <3>1. Slot(t, b, e) /\ t.when[e] \in Int /\ u.when[e] = t.when[e] - d
      BY <1>4, <2>2 DEF Timing
    <3>2. CASE t.min = Never
      <4>1. t.when[e] > 0
        BY <2>2, <3>2 DEF Topped
      <4> QED BY <1>3, <1>6, <2>2, <3>1, <3>2, <4>1 DEF Slot
    <3>3. CASE t.min # Never
      <4>1. t.when[e] > 0 \/ t.min > 0
        BY <2>2 DEF Topped
      <4> QED BY <1>3, <1>6, <2>2, <3>1, <3>3, <4>1 DEF Slot
    <3> QED BY <3>2, <3>3
  <2> QED BY <2>1, <2>2
<1>8. Minimum(u, b)
  <2> DEFINE w == t.when["cleanup_tklines"]
  <2>1. /\ w # Never /\ w \in Int /\ u.when["cleanup_tklines"] = w - d
        /\ "cleanup_tklines" \in Names
    BY <1>4, Three DEF Timing
  <2>2. CASE t.min = Never
    BY <1>3, <2>2 DEF Minimum
  <2>3. CASE t.min # Never
    <3>1. Minimum(t, b) /\ t.min \in Int /\ u.min = t.min - d
      BY <1>3, <2>3 DEF Timing
    <3>2. t.min > 0 \/ w > 0
      BY <2>1 DEF Topped
    <3> HIDE DEF w
    <3>3. t.min >= w - MaxPeriod /\ t.min <= MaxPeriod + b /\ t.min >= - MaxPeriod
      BY <2>3, <3>1 DEF Minimum, w
    <3>4. u.min <= MaxPeriod + b /\ u.min >= - MaxPeriod /\ u.min >= (w - d) - MaxPeriod
      BY <1>6, <2>1, <3>1, <3>2, <3>3
    <3> QED BY <2>1, <3>4 DEF Minimum
  <2> QED BY <2>2, <2>3
<1>9. /\ u.when["cleanup_glines"] # Never /\ u.when["cleanup_tklines"] # Never
      /\ \A e \in Names : u.when[e] = Later(t.when[e], d)
  BY <1>4, Three DEF Timing
<1>10. /\ u \in Tables /\ Timing(u, b)
       /\ \A e \in Names : u.when[e] = Later(t.when[e], d)
  BY <1>5, <1>7, <1>8, <1>9 DEF Timing
<1> QED BY <1>10 DEF u

\* set_back_events leaves the table in time, by the measure of one more second back.
LEMMA ClockSetBack ==
    ASSUME NEW t \in Tables, NEW b \in Nat, Timing(t, b)
    PROVE  LET u == SetBack(t, 1)
           IN  u \in Tables /\ Timing(u, b + 1) /\ u.when = t.when
<1> DEFINE u == SetBack(t, 1)
<1>1. u.when = t.when /\ u.min = Later(t.min, -1) /\ u = [when |-> u.when, min |-> u.min]
  BY DEF SetBack, Tables
<1>2. t.min \in Int \cup {Never}
  BY DEF Tables
<1> HIDE DEF u
<1>3. /\ u.min \in Int \cup {Never} /\ u.min = Never <=> t.min = Never
      /\ t.min # Never => t.min \in Int /\ u.min = t.min - (-1)
  BY <1>1, <1>2, LaterIs
<1>4. u \in Tables
  BY <1>1, <1>3, TableFacts DEF Tables
<1>5. /\ MaxPeriod \in Nat \ {0}
      /\ \A e \in Names : Period[e] <= MaxPeriod /\ Period[e] \in Nat
  BY Periods
<1>6. ASSUME NEW e \in Names PROVE Slot(u, b + 1, e)
  <2>1. Slot(t, b, e) /\ u.when[e] = t.when[e] /\ (t.when[e] # Never => t.when[e] \in Int)
    BY <1>1, TableFacts DEF Timing
  <2> QED BY <1>3, <1>5, <2>1 DEF Slot
<1>7. Minimum(u, b + 1)
  <2>1. Minimum(t, b) /\ u.when["cleanup_tklines"] = t.when["cleanup_tklines"]
    BY <1>1 DEF Timing
  <2>2. t.when["cleanup_tklines"] \in Int
    BY Three, TableFacts DEF Timing
  <2> QED BY <1>3, <1>5, <2>1, <2>2 DEF Minimum
<1>8. u \in Tables /\ Timing(u, b + 1) /\ u.when = t.when
  BY <1>1, <1>4, <1>6, <1>7 DEF Timing
<1> QED BY <1>8 DEF u

\* An event that has run waits for its frequency, and the minimum is not known.
LEMMA RanIs ==
    ASSUME NEW t \in Tables, NEW e \in Names
    PROVE  LET u == Ran(t, e)
           IN  /\ u \in Tables /\ u.min = Never
               /\ u.when[e] = IF t.when[e] = Never THEN Never ELSE Period[e]
               /\ \A f \in Names : f # e => u.when[f] = t.when[f]
<1> DEFINE u == Ran(t, e)
<1>1. PICK x : x = IF t.when[e] = Never THEN Never ELSE Period[e]
  OBVIOUS
<1>2. u = [when |-> [t.when EXCEPT ![e] = x], min |-> Never]
  BY <1>1 DEF Ran
<1>3. x \in Int \cup {Never}
  BY <1>1, Periods
<1> HIDE DEF u
<1>4. u.when = [t.when EXCEPT ![e] = x] /\ u.min = Never
  BY <1>2
<1>5. u \in Tables
  BY <1>2, <1>3, TableFacts DEF Tables
<1>6. u.when[e] = x /\ \A f \in Names : f # e => u.when[f] = t.when[f]
  BY <1>4, TableFacts
<1> QED BY <1>1, <1>4, <1>5, <1>6 DEF u

---------------------------------------------------------------------------
(* Split mode, exits and check_klines: only who is on the server changes,  *)
(* the split mode, and its event.                                          *)

\* What these handlers leave as it is.
SameBans(s, u) ==
    /\ u.lines = s.lines /\ u.temp = s.temp /\ u.file = s.file
    /\ u.pending = s.pending /\ u.peer = s.peer
    /\ SameCleanups(s.events, u.events)

\* The fields of the server have their types.
LEMMA ServerFields ==
    ASSUME NEW s \in Server
    PROVE  /\ s.events \in Tables /\ s.online \subseteq Clients /\ s.lines \subseteq Lines
           /\ s.temp \in [Masks -> Int \cup {Never}] /\ s.file \subseteq Masks
           /\ s.pending \in [Masks -> Pending \cup {Never}]
           /\ s.peer \in BOOLEAN /\ s.splitmode \in BOOLEAN /\ s.splitchecking \in BOOLEAN
BY DEF Server

\* What is true of the bans stays true while nothing about them changes.
LEMMA SameBansCore ==
    ASSUME NEW s, NEW u, NEW b \in Nat, Core(s, b),
           u \in Server, Timing(u.events, b), SameBans(s, u)
    PROVE  Core(u, b)
<1>1. Listed(u)
  BY DEF Core, Listed, SameBans
<1>2. Lasting(u)
  BY DEF Core, Lasting, SameBans, SameCleanups
<1>3. Votes(u)
  BY DEF Core, Votes, SameBans, SameCleanups
<1> QED BY <1>1, <1>2, <1>3 DEF Core

\* check_splitmode touches the table of events and the split mode, no ban.
LEMMA SplitChecked ==
    ASSUME NEW s, NEW b \in Nat, Core(s, b)
    PROVE  LET u == check_splitmode(s)
           IN  Core(u, b) /\ SameBans(s, u) /\ u.online = s.online
<1> DEFINE u == check_splitmode(s)
<1>1. s \in Server /\ s.events \in Tables /\ Timing(s.events, b)
  BY ServerFields DEF Core
<1>2. CASE ~s.splitchecking \/ s.splitmode = IsSplit(s)
  BY <1>2 DEF check_splitmode, SameBans, SameCleanups
<1>3. CASE ~(~s.splitchecking \/ s.splitmode = IsSplit(s))
  <2>1. PICK x \in BOOLEAN : x = IsSplit(s)
    BY DEF IsSplit
  <2>2. PICK t : t = IF IsSplit(s) THEN eventAdd(s.events, "check_splitmode")
                     ELSE eventDelete(s.events, "check_splitmode")
    OBVIOUS
  <2>3. t \in Tables /\ Timing(t, b) /\ SameCleanups(s.events, t)
    BY <1>1, <2>2, EventAdded, EventDeleted
  <2>4. u = [s EXCEPT !.splitmode = x, !.events = t]
    BY <1>3, <2>1, <2>2 DEF check_splitmode
  <2> HIDE DEF u
  <2>5. /\ u \in Server /\ u.events = t /\ u.online = s.online /\ u.lines = s.lines
        /\ u.temp = s.temp /\ u.file = s.file /\ u.pending = s.pending /\ u.peer = s.peer
    <3> HIDE <2>1, <2>2
    <3> QED BY <1>1, <2>3, <2>4 DEF Server
  <2>6. SameBans(s, u)
    BY <2>3, <2>5 DEF SameBans
  <2>7. Core(u, b) /\ SameBans(s, u) /\ u.online = s.online
    BY <2>3, <2>5, <2>6, SameBansCore
  <2> QED BY <2>7 DEF u
<1> QED BY <1>2, <1>3

\* Nor does the check that the exit of a server makes.
LEMMA StatsUpdated ==
    ASSUME NEW s, NEW b \in Nat, Core(s, b)
    PROVE  LET u == update_client_exit_stats(s)
           IN  Core(u, b) /\ SameBans(s, u) /\ u.online = s.online
<1>1. CASE s.splitchecking /\ ~s.splitmode
  BY <1>1, SplitChecked DEF update_client_exit_stats
<1>2. CASE ~(s.splitchecking /\ ~s.splitmode)
  BY <1>2 DEF update_client_exit_stats, SameBans, SameCleanups
<1> QED BY <1>1, <1>2

\* What a transaction on one field leaves of the rest: the fields that other lemmas
\* speak about.
LEMMA OnlineSet ==
    ASSUME NEW s, NEW b \in Nat, Core(s, b), NEW X \in SUBSET Clients
    PROVE  LET u == [s EXCEPT !.online = X]
           IN  Core(u, b) /\ SameBans(s, u) /\ u.online = X
<1> DEFINE u == [s EXCEPT !.online = X]
<1>1. /\ u \in Server /\ u.events = s.events /\ u.online = X /\ u.lines = s.lines
      /\ u.temp = s.temp /\ u.file = s.file /\ u.pending = s.pending /\ u.peer = s.peer
  BY DEF Core, Server
<1> HIDE DEF u
<1>2. SameBans(s, u)
  BY <1>1 DEF SameBans, SameCleanups
<1>3. Core(u, b) /\ SameBans(s, u) /\ u.online = X
  BY <1>1, <1>2, SameBansCore DEF Core
<1> QED BY <1>3 DEF u

\* Leaving the bans alone twice is leaving them alone.
LEMMA SameBansTrans ==
    ASSUME NEW s, NEW u, NEW v, SameBans(s, u), SameBans(u, v)
    PROVE  SameBans(s, v)
BY DEF SameBans, SameCleanups

\* Clients who exit are off the server, and nothing else has changed.
LEMMA Exits ==
    ASSUME NEW s, NEW b \in Nat, Core(s, b), NEW cs
    PROVE  LET u == Exit(s, cs)
           IN  Core(u, b) /\ SameBans(s, u) /\ u.online = s.online \ cs
<1>1. CASE cs = {}
  BY <1>1 DEF Exit, SameBans, SameCleanups
<1>2. CASE cs # {}
  <2>1. PICK X \in SUBSET Clients : X = s.online \ cs
    BY ServerFields DEF Core
  <2>2. PICK v : v = [s EXCEPT !.online = X]
    OBVIOUS
  <2>3. v = [s EXCEPT !.online = @ \ cs]
    BY <2>1, <2>2
  <2>4. Core(v, b) /\ SameBans(s, v) /\ v.online = X
    BY <2>2, OnlineSet
  <2>5. Exit(s, cs) = update_client_exit_stats(v)
    BY <1>2, <2>3 DEF Exit
  <2>6. PICK u : u = update_client_exit_stats(v)
    OBVIOUS
  <2>7. Core(u, b) /\ SameBans(v, u) /\ u.online = v.online
    BY <2>4, <2>6, StatsUpdated
  <2>8. SameBans(s, u)
    BY <2>4, <2>7, SameBansTrans
  <2> QED BY <2>1, <2>4, <2>5, <2>6, <2>7, <2>8
<1> QED BY <1>1, <1>2

\* After check_klines nobody is on whom a line matches.
LEMMA KlinesChecked ==
    ASSUME NEW s, NEW b \in Nat, Core(s, b)
    PROVE  LET u == check_klines(s)
           IN  Core(u, b) /\ SameBans(s, u) /\ Clean(u) /\ u.online \subseteq s.online
<1> DEFINE cs == s.online \cap Banned(s)
<1>1. PICK u : u = Exit(s, cs)
  OBVIOUS
<1>2. Core(u, b) /\ SameBans(s, u) /\ u.online = s.online \ cs
  BY <1>1, Exits
<1>3. Banned(u) = Banned(s)
  BY <1>2 DEF Banned, SameBans
<1>4. Clean(u)
  BY <1>2, <1>3 DEF Clean
<1>5. check_klines(s) = u
  BY <1>1 DEF check_klines
<1> QED BY <1>2, <1>4, <1>5

---------------------------------------------------------------------------
(* K-lines, temporary K-lines and the file.                                *)

\* No G-line is in force that was not.
NoNewGline(s, u) == \A m \in Masks : Line("G", m) \in u.lines => Line("G", m) \in s.lines

\* Lines are told apart by kind and mask.
LEMMA LineIs ==
    /\ \A k \in {"T", "K", "G"}, m \in Masks : Line(k, m) \in Lines
    /\ \A j, k, m, n : Line(j, m) = Line(k, n) => j = k /\ m = n
    /\ \A k, m : Line(k, m).kind = k /\ Line(k, m).mask = m
    /\ \A l \in Lines : l.mask \in Masks
BY DEF Line, Lines

\* Other lines, with the same temporary ones, leave the invariant as it is but for
\* those who are on.
LEMMA LinesSet ==
    ASSUME NEW s, NEW b \in Nat, Core(s, b), NEW X \in SUBSET Lines,
           \A m \in Masks : Line("T", m) \in X <=> Line("T", m) \in s.lines
    PROVE  LET u == [s EXCEPT !.lines = X]
           IN  Core(u, b) /\ u.lines = X /\ u.file = s.file /\ u.online = s.online
<1> DEFINE u == [s EXCEPT !.lines = X]
<1>1. /\ u \in Server /\ u.events = s.events /\ u.online = s.online /\ u.lines = X
      /\ u.temp = s.temp /\ u.file = s.file /\ u.pending = s.pending /\ u.peer = s.peer
  BY DEF Core, Server
<1> HIDE DEF u
<1>2. Listed(u)
  BY <1>1 DEF Core, Listed
<1>3. Lasting(u)
  BY <1>1 DEF Core, Lasting
<1>4. Votes(u)
  BY <1>1 DEF Core, Votes
<1>5. Core(u, b)
  BY <1>1, <1>2, <1>3, <1>4 DEF Core
<1> QED BY <1>1, <1>5 DEF u

\* Editing the file changes the file.
LEMMA FileSet ==
    ASSUME NEW s, NEW b \in Nat, Core(s, b), NEW X \in SUBSET Masks
    PROVE  LET u == [s EXCEPT !.file = X]
           IN  /\ Core(u, b) /\ u.lines = s.lines /\ u.online = s.online /\ u.file = X
               /\ u.events = s.events
<1> DEFINE u == [s EXCEPT !.file = X]
<1>1. /\ u \in Server /\ u.events = s.events /\ u.online = s.online /\ u.lines = s.lines
      /\ u.temp = s.temp /\ u.file = X /\ u.pending = s.pending /\ u.peer = s.peer
  BY DEF Core, Server
<1> HIDE DEF u
<1>2. Listed(u)
  BY <1>1 DEF Core, Listed
<1>3. Lasting(u)
  BY <1>1 DEF Core, Lasting
<1>4. Votes(u)
  BY <1>1 DEF Core, Votes
<1>5. Core(u, b)
  BY <1>1, <1>2, <1>3, <1>4 DEF Core
<1> QED BY <1>1, <1>5 DEF u

\* A K-line or a G-line is set.
LEMMA LineSet ==
    ASSUME NEW s, NEW b \in Nat, Core(s, b), NEW k \in {"K", "G"}, NEW m \in Masks
    PROVE  LET u == check_klines([s EXCEPT !.lines = @ \cup {Line(k, m)}])
           IN  Core(u, b) /\ Clean(u) /\ u.lines = s.lines \cup {Line(k, m)}
<1>1. PICK X : X = s.lines \cup {Line(k, m)}
  OBVIOUS
<1>2. X \in SUBSET Lines
  BY <1>1, LineIs, ServerFields DEF Core
<1>3. ASSUME NEW n \in Masks PROVE Line("T", n) \in X <=> Line("T", n) \in s.lines
  BY <1>1, LineIs
<1>4. PICK v : v = [s EXCEPT !.lines = X]
  OBVIOUS
<1>5. Core(v, b) /\ v.lines = X
  BY <1>2, <1>3, <1>4, LinesSet
<1>6. v = [s EXCEPT !.lines = @ \cup {Line(k, m)}]
  BY <1>1, <1>4
<1>7. PICK u : u = check_klines(v)
  OBVIOUS
<1>8. Core(u, b) /\ Clean(u) /\ u.lines = v.lines
  BY <1>5, <1>7, KlinesChecked DEF SameBans
<1> QED BY <1>1, <1>5, <1>6, <1>7, <1>8

\* A temporary line is set, whose time has not begun to run.
LEMMA TempSet ==
    ASSUME NEW s, NEW b \in Nat, Core(s, b), NEW m \in Masks, NEW hold \in Nat \ {0}
    PROVE  LET u == add_temp_kline(s, m, hold)
           IN  Core(u, b) /\ u.lines = s.lines \cup {Line("T", m)}
<1> DEFINE u == add_temp_kline(s, m, hold)
<1>1. PICK X, T : X = s.lines \cup {Line("T", m)} /\ T = [s.temp EXCEPT ![m] = hold]
  OBVIOUS
<1>2. X \in SUBSET Lines /\ T \in [Masks -> Int \cup {Never}]
  BY <1>1, LineIs, ServerFields DEF Core
<1>3. u = [s EXCEPT !.temp = T, !.lines = X]
  BY <1>1 DEF add_temp_kline
<1> HIDE DEF u
<1>4. /\ u \in Server /\ u.events = s.events /\ u.online = s.online /\ u.lines = X
      /\ u.temp = T /\ u.file = s.file /\ u.pending = s.pending /\ u.peer = s.peer
  BY <1>2, <1>3 DEF Core, Server
<1>5. T[m] = hold /\ hold # Never /\ \A n \in Masks : n # m => T[n] = s.temp[n]
  BY <1>1, ServerFields, EventsAssumption DEF Core
<1>6. Listed(u)
  <2> SUFFICES ASSUME NEW n \in Masks PROVE Line("T", n) \in X <=> T[n] # Never
    BY <1>4 DEF Listed
  <2>1. Line("T", n) \in X <=> Line("T", n) \in s.lines \/ n = m
    BY <1>1, LineIs
  <2> QED BY <1>5, <2>1 DEF Core, Listed
<1>7. Lasting(u)
  <2> DEFINE w == s.events.when["cleanup_tklines"]  P == Period["cleanup_tklines"]
  <2>1. w \in Int /\ w <= P /\ P \in Nat
    <3>1. w # Never /\ Slot(s.events, b, "cleanup_tklines") /\ "cleanup_tklines" \in Names
      BY Three DEF Core, Timing
    <3>2. s.events \in Tables
      BY ServerFields DEF Core
    <3> QED BY <3>1, <3>2, TableFacts, Periods DEF Slot
  <2>2. hold > w - P
    BY <2>1
  <2> QED BY <1>4, <1>5, <2>2 DEF Lasting, Core
<1>8. Votes(u)
  BY <1>4 DEF Core, Votes
<1>9. Core(u, b) /\ u.lines = s.lines \cup {Line("T", m)}
  BY <1>1, <1>4, <1>6, <1>7, <1>8 DEF Core
<1> QED BY <1>9 DEF u

\* Temporary lines are taken off, from the list and from the table.
LEMMA TempDropped ==
    ASSUME NEW s, s \in Server, Listed(s), Lasting(s), NEW ms \in SUBSET Masks
    PROVE  LET u == DropTemp(s, ms)
           IN  /\ u \in Server /\ Listed(u) /\ Lasting(u)
               /\ u.lines \subseteq s.lines /\ u.online = s.online
               /\ u.events = s.events /\ u.pending = s.pending
               /\ \A m \in Masks : u.temp[m] # Never => m \notin ms /\ u.temp[m] = s.temp[m]
<1> DEFINE u == DropTemp(s, ms)
<1>1. PICK X, T : /\ X = s.lines \ {Line("T", m) : m \in ms}
                  /\ T = [m \in Masks |-> IF m \in ms THEN Never ELSE s.temp[m]]
  OBVIOUS
<1>2. X \in SUBSET Lines /\ T \in [Masks -> Int \cup {Never}]
  BY <1>1, ServerFields
<1>3. u = [s EXCEPT !.temp = T, !.lines = X]
  BY <1>1 DEF DropTemp
<1> HIDE DEF u
<1>4. /\ u \in Server /\ u.events = s.events /\ u.online = s.online /\ u.lines = X
      /\ u.temp = T /\ u.file = s.file /\ u.pending = s.pending /\ u.peer = s.peer
  BY <1>2, <1>3 DEF Server
<1>5. \A m \in Masks : T[m] = IF m \in ms THEN Never ELSE s.temp[m]
  BY <1>1
<1>6. Listed(u)
  <2> SUFFICES ASSUME NEW n \in Masks PROVE Line("T", n) \in X <=> T[n] # Never
    BY <1>4 DEF Listed
  <2>1. Line("T", n) \in X <=> Line("T", n) \in s.lines /\ n \notin ms
    BY <1>1, LineIs
  <2> QED BY <1>5, <2>1 DEF Listed
<1>7. Lasting(u)
  BY <1>4, <1>5 DEF Lasting
<1>8. \A m \in Masks : u.temp[m] # Never => m \notin ms /\ u.temp[m] = s.temp[m]
  BY <1>4, <1>5
<1>9. u.lines \subseteq s.lines
  BY <1>1, <1>4
<1>10. /\ u \in Server /\ Listed(u) /\ Lasting(u)
       /\ u.lines \subseteq s.lines /\ u.online = s.online
       /\ u.events = s.events /\ u.pending = s.pending
       /\ \A m \in Masks : u.temp[m] # Never => m \notin ms /\ u.temp[m] = s.temp[m]
  BY <1>4, <1>6, <1>7, <1>8, <1>9
<1> QED BY <1>10 DEF u

\* Fewer lines match fewer clients.
LEMMA FewerBanned ==
    ASSUME NEW s, NEW u, Clean(s), u.lines \subseteq s.lines, u.online \subseteq s.online
    PROVE  Clean(u)
<1>1. Banned(u) \subseteq Banned(s)
  BY DEF Banned
<1> QED BY <1>1 DEF Clean

\* The lines are read again from the file; the temporary ones stay.
LEMMA Rehashed ==
    ASSUME NEW s, NEW b \in Nat, Core(s, b)
    PROVE  LET u == rehash(s)
           IN  Core(u, b) /\ Clean(u) /\ NoNewGline(s, u)
<1>1. PICK X, Y : /\ X = {l \in s.lines : l.kind = "T"}
                  /\ Y = X \cup {Line("K", m) : m \in s.file}
  OBVIOUS
<1>2. X \in SUBSET Lines /\ Y \in SUBSET Lines /\ s.file \subseteq Masks
  BY <1>1, LineIs, ServerFields DEF Core
<1>3. ASSUME NEW n \in Masks PROVE Line("T", n) \in X <=> Line("T", n) \in s.lines
  BY <1>1, LineIs
<1>4. PICK v : v = [s EXCEPT !.lines = X]
  OBVIOUS
<1>5. Core(v, b) /\ v.lines = X /\ v.file = s.file
  BY <1>2, <1>3, <1>4, LinesSet
<1>6. PICK w : w = [v EXCEPT !.lines = Y]
  OBVIOUS
<1>7. ASSUME NEW n \in Masks PROVE Line("T", n) \in Y <=> Line("T", n) \in v.lines
  BY <1>1, <1>2, <1>5, LineIs
<1>8. Core(w, b) /\ w.lines = Y
  BY <1>2, <1>5, <1>6, <1>7, LinesSet
<1>9. v = clear_out_address_conf(s)
  BY <1>1, <1>4 DEF clear_out_address_conf
<1>10. w = parse_k_file(v)
  BY <1>1, <1>5, <1>6 DEF parse_k_file
<1>11. PICK u : u = check_klines(w)
  OBVIOUS
<1>12. Core(u, b) /\ Clean(u) /\ u.lines = Y
  BY <1>8, <1>11, KlinesChecked DEF SameBans
<1>13. NoNewGline(s, u)
  <2> SUFFICES ASSUME NEW m \in Masks, Line("G", m) \in Y PROVE Line("G", m) \in s.lines
    BY <1>12 DEF NoNewGline
  <2> QED BY <1>1, LineIs
<1> QED BY <1>9, <1>10, <1>11, <1>12, <1>13 DEF rehash

\* UNKLINE.
LEMMA Unklined ==
    ASSUME NEW s, NEW b \in Nat, Core(s, b), Clean(s), NEW m \in Masks
    PROVE  LET u == mo_unkline(s, m)
           IN  Core(u, b) /\ Clean(u) /\ NoNewGline(s, u)
<1>1. CASE s.temp[m] # Never
  <2>1. PICK u : u = DropTemp(s, {m})
    OBVIOUS
  <2>2. /\ u \in Server /\ Listed(u) /\ Lasting(u)
        /\ u.lines \subseteq s.lines /\ u.online = s.online
        /\ u.events = s.events /\ u.pending = s.pending
    BY <2>1, TempDropped DEF Core
  <2>3. Votes(u)
    BY <2>2 DEF Core, Votes
  <2>4. Core(u, b) /\ Clean(u) /\ NoNewGline(s, u)
    BY <2>2, <2>3, FewerBanned DEF Core, NoNewGline
  <2> QED BY <1>1, <2>1, <2>4 DEF mo_unkline
<1>2. CASE ~(s.temp[m] # Never)
  <2>1. PICK X \in SUBSET Masks : X = s.file \ {m}
    BY ServerFields DEF Core
  <2>2. PICK v : v = [s EXCEPT !.file = X]
    OBVIOUS
  <2>3. Core(v, b) /\ v.lines = s.lines
    BY <2>2, FileSet
  <2>4. v = [s EXCEPT !.file = @ \ {m}]
    BY <2>1, <2>2
  <2>5. PICK u : u = rehash(v)
    OBVIOUS
  <2>6. Core(u, b) /\ Clean(u) /\ NoNewGline(v, u)
    BY <2>3, <2>5, Rehashed
  <2> QED BY <1>2, <2>3, <2>4, <2>5, <2>6 DEF mo_unkline, NoNewGline
<1> QED BY <1>1, <1>2

---------------------------------------------------------------------------
(* G-lines.                                                                *)

\* Everything but the requests is as it was.
SameButPending(s, u) ==
    /\ u.events = s.events /\ u.online = s.online /\ u.lines = s.lines
    /\ u.temp = s.temp /\ u.file = s.file

\* Setting the votes changes the votes.
LEMMA PendingSet ==
    ASSUME NEW s \in Server, NEW Q \in [Masks -> Pending \cup {Never}]
    PROVE  LET u == [s EXCEPT !.pending = Q]
           IN  u \in Server /\ SameButPending(s, u) /\ u.pending = Q
<1> DEFINE u == [s EXCEPT !.pending = Q]
<1>1. /\ u \in Server /\ u.events = s.events /\ u.online = s.online /\ u.lines = s.lines
      /\ u.temp = s.temp /\ u.file = s.file /\ u.pending = Q
  BY DEF Server
<1> QED BY <1>1 DEF SameButPending

\* What does not depend on the votes stays true when only they change.
LEMMA SameButPendingKeeps ==
    ASSUME NEW s, NEW u, SameButPending(s, u)
    PROVE  /\ Listed(s) => Listed(u)
           /\ Lasting(s) => Lasting(u)
           /\ Clean(s) => Clean(u)
           /\ NoNewGline(s, u)
           /\ \A b : Timing(s.events, b) => Timing(u.events, b)
BY DEF SameButPending, Listed, Lasting, Clean, Banned, NoNewGline

\* The requests that have waited long enough go.
LEMMA PendingExpired ==
    ASSUME NEW s \in Server, Votes(s)
    PROVE  LET u == cleanup_glines(s)
           IN  /\ u \in Server /\ SameButPending(s, u) /\ Votes(u)
               /\ \A m \in Masks : u.pending[m] # Never =>
                    /\ u.pending[m] = s.pending[m]
                    /\ LastAge(u.pending[m]) <= PendingExpire
<1>1. PICK Q : Q = [m \in Masks |->
          IF s.pending[m] # Never /\ LastAge(s.pending[m]) >= PendingExpire
          THEN Never ELSE s.pending[m]]
  OBVIOUS
<1>2. \A m \in Masks : s.pending[m] \in Pending \cup {Never}
  BY ServerFields
<1>3. Q \in [Masks -> Pending \cup {Never}]
  BY <1>1, <1>2
<1>4. PICK u : u = [s EXCEPT !.pending = Q]
  OBVIOUS
<1>5. u \in Server /\ SameButPending(s, u) /\ u.pending = Q
  BY <1>3, <1>4, PendingSet
<1>6. cleanup_glines(s) = u
  BY <1>1, <1>4 DEF cleanup_glines, expire_pending_glines
<1>7. \A m \in Masks : Q[m] # Never =>
          Q[m] = s.pending[m] /\ ~(LastAge(s.pending[m]) >= PendingExpire)
  BY <1>1
<1>8. \A p \in Pending : LastAge(p) \in Int
  BY DEF Pending, LastAge
<1>9. ASSUME NEW m \in Masks, Q[m] # Never
      PROVE  Q[m] = s.pending[m] /\ LastAge(Q[m]) <= PendingExpire
  <2>1. Q[m] \in Pending
    BY <1>3, <1>9
  <2> QED BY <1>7, <1>8, <1>9, <2>1, Waits
<1>10. Votes(u)
  BY <1>5, <1>9 DEF Votes, SameButPending
<1> QED BY <1>5, <1>6, <1>9, <1>10

\* A request p for mask m, when the one before is out of the way.
LEMMA Requested ==
    ASSUME NEW s, NEW b \in Nat, Core(s, b), Clean(s), NEW m \in Masks,
           NEW p \in Pending,
           LastAge(p) = 0,
           p.oper2 # NoOne => /\ p.age1 - p.age2 <= MaxWait
                              /\ ServerOf[p.oper1] # ServerOf[p.oper2]
    PROVE  LET u == [s EXCEPT !.pending[m] = p]
           IN  Core(u, b) /\ Clean(u) /\ NoNewGline(s, u)
<1>1. PICK Q : Q = [s.pending EXCEPT ![m] = p]
  OBVIOUS
<1>2. PICK u : u = [s EXCEPT !.pending = Q]
  OBVIOUS
<1>3. [s EXCEPT !.pending[m] = p] = u
  BY <1>1, <1>2
<1>4. Q \in [Masks -> Pending \cup {Never}] /\ Q[m] = p
      /\ \A n \in Masks : n # m => Q[n] = s.pending[n]
  BY <1>1, ServerFields DEF Core
<1>5. u \in Server /\ SameButPending(s, u) /\ u.pending = Q
  BY <1>2, <1>4, PendingSet DEF Core
<1>6. Votes(u)
  <2> SUFFICES ASSUME NEW n \in Masks, Q[n] # Never
               PROVE  /\ LastAge(Q[n]) <= PendingExpire + Period["cleanup_glines"]
                                            - s.events.when["cleanup_glines"]
                      /\ Q[n].oper2 # NoOne =>
                           /\ Q[n].age1 - Q[n].age2 <= MaxWait
                           /\ ServerOf[Q[n].oper1] # ServerOf[Q[n].oper2]
    BY <1>5 DEF Votes, SameButPending
  <2>1. CASE n # m
    BY <1>4, <2>1 DEF Core, Votes
  <2>2. CASE n = m
    <3> DEFINE w == s.events.when["cleanup_glines"]  P == Period["cleanup_glines"]
    <3>1. w \in Int /\ w <= P /\ P \in Nat
      <4>1. w # Never /\ Slot(s.events, b, "cleanup_glines") /\ "cleanup_glines" \in Names
        BY Three DEF Core, Timing
      <4>2. s.events \in Tables
        BY ServerFields DEF Core
      <4> QED BY <4>1, <4>2, TableFacts, Periods DEF Slot
    <3> HIDE DEF w, P
    <3>2. 0 <= PendingExpire + P - w
      BY <3>1, Waits
    <3> QED BY <1>4, <2>2, <3>2 DEF w, P
  <2> QED BY <2>1, <2>2
<1>7. Core(u, b) /\ Clean(u) /\ NoNewGline(s, u)
  BY <1>5, <1>6, SameButPendingKeeps DEF Core
<1> QED BY <1>3, <1>7

\* How old a request can be that waits.
LEMMA Waiting ==
    ASSUME NEW s, NEW b \in 0..MaxBack, Core(s, b), NEW m \in Masks, s.pending[m] # Never
    PROVE  LET p == s.pending[m]
           IN  /\ p \in Pending /\ LastAge(p) <= MaxWait
               /\ p.oper2 # NoOne => /\ p.age1 - p.age2 <= MaxWait
                                     /\ ServerOf[p.oper1] # ServerOf[p.oper2]
               /\ p.age1 <= 2 * MaxWait
<1>1. PICK p : p = s.pending[m]
  OBVIOUS
<1>2. p \in Pending
  BY <1>1, ServerFields DEF Core
<1>3. p.age1 \in Int /\ p.age2 \in Int /\ LastAge(p) = IF p.oper2 = NoOne THEN p.age1 ELSE p.age2
  BY <1>2 DEF Pending, LastAge
<1> DEFINE w == s.events.when["cleanup_glines"]  P == Period["cleanup_glines"]
<1>4. w \in Int /\ w >= - MaxPeriod - b /\ P \in Nat
  <2>1. w # Never /\ Slot(s.events, b, "cleanup_glines") /\ "cleanup_glines" \in Names
    BY Three DEF Core, Timing
  <2>2. s.events \in Tables
    BY ServerFields DEF Core
  <2> QED BY <2>1, <2>2, TableFacts, Periods DEF Slot
<1>5. /\ LastAge(p) <= PendingExpire + P - w
      /\ p.oper2 # NoOne => /\ p.age1 - p.age2 <= MaxWait
                            /\ ServerOf[p.oper1] # ServerOf[p.oper2]
  BY <1>1 DEF Core, Votes
<1>6. /\ MaxWait = PendingExpire + P + MaxPeriod + MaxBack /\ MaxWait \in Nat
      /\ MaxBack \in Nat /\ MaxPeriod \in Nat /\ PendingExpire \in Nat
  BY Waits, Periods
<1> HIDE DEF w, P
<1>7. LastAge(p) <= MaxWait
  <2>1. PendingExpire + P - w <= MaxWait
    BY <1>4, <1>6
  <2>2. LastAge(p) \in Int
    BY <1>3
  <2> QED BY <1>4, <1>5, <1>6, <2>1, <2>2
<1>8. p.age1 <= 2 * MaxWait
  BY <1>3, <1>5, <1>6, <1>7
<1> QED BY <1>1, <1>2, <1>5, <1>7, <1>8

\* Whose request for a G-line sets it: the third, of the third server.
Third(s, o, m) ==
    LET p == s.pending[m] IN
    /\ p # Never /\ p.oper2 # NoOne
    /\ ServerOf[o] # ServerOf[p.oper1] /\ ServerOf[o] # ServerOf[p.oper2]

\* A G-line that is set is enforced at once.
LEMMA GlineSet ==
    ASSUME NEW s, NEW b \in Nat, Core(s, b), NEW m \in Masks
    PROVE  LET u == cleanup_glines(set_local_gline(s, m))
           IN  Core(u, b) /\ Clean(u) /\ u.lines = s.lines \cup {Line("G", m)}
<1>1. PICK v : v = set_local_gline(s, m)
  OBVIOUS
<1>2. Core(v, b) /\ Clean(v) /\ v.lines = s.lines \cup {Line("G", m)}
  BY <1>1, LineSet DEF set_local_gline
<1>3. PICK u : u = cleanup_glines(v)
  OBVIOUS
<1>4. u \in Server /\ SameButPending(v, u) /\ Votes(u)
  BY <1>2, <1>3, PendingExpired DEF Core
<1>5. Core(u, b) /\ Clean(u) /\ u.lines = v.lines
  BY <1>2, <1>4, SameButPendingKeeps DEF Core, SameButPending
<1> QED BY <1>1, <1>2, <1>3, <1>5

\* A vote keeps the invariant, and only a third one sets a line.
LEMMA Voted ==
    ASSUME NEW s, NEW b \in 0..MaxBack, Core(s, b), Clean(s),
           NEW o \in Opers, NEW m \in Masks
    PROVE  LET u == check_majority_gline(s, o, m)
           IN  /\ Core(u, b) /\ Clean(u)
               /\ \/ NoNewGline(s, u)
                  \/ Third(s, o, m) /\ u.lines = s.lines \cup {Line("G", m)}
<1>0. b \in Nat
  BY Waits
<1>1. PICK p, u : p = s.pending[m] /\ u = check_majority_gline(s, o, m)
  OBVIOUS
<1>2. CASE p = Never
  <2>1. PICK q : q = [oper1 |-> o, age1 |-> 0, oper2 |-> NoOne, age2 |-> 0]
    OBVIOUS
  <2>2. q \in Pending /\ q.oper2 = NoOne /\ LastAge(q) = 0
    BY <2>1 DEF Pending, LastAge
  <2>3. u = [s EXCEPT !.pending[m] = q]
    BY <1>1, <1>2, <2>1 DEF check_majority_gline
  <2>4. Core(u, b) /\ Clean(u) /\ NoNewGline(s, u)
    BY <1>0, <2>2, <2>3, Requested
  <2> QED BY <1>1, <2>4
<1>3. CASE p # Never /\ SameServer(o, p.oper1)
  <2>1. u = s
    BY <1>1, <1>3 DEF check_majority_gline
  <2> QED BY <1>1, <2>1 DEF NoNewGline
<1>4. CASE p # Never /\ ~SameServer(o, p.oper1) /\ p.oper2 = NoOne
  <2>1. PICK q : q = [p EXCEPT !.oper2 = o, !.age2 = 0]
    OBVIOUS
  <2>2. p \in Pending /\ LastAge(p) <= MaxWait
    BY <1>1, <1>4, Waiting
  <2>3. /\ q \in Pending /\ q.oper2 = o /\ q.age2 = 0 /\ q.age1 = p.age1
        /\ q.oper1 = p.oper1 /\ p.age1 \in Int
    <3>1. PICK x, y : x = o /\ y = 0
      OBVIOUS
    <3>2. x \in Opers \cup {NoOne} /\ y \in Int /\ q = [p EXCEPT !.oper2 = x, !.age2 = y]
      BY <2>1, <3>1
    <3>3. /\ q \in Pending /\ q.oper2 = x /\ q.age2 = y /\ q.age1 = p.age1
          /\ q.oper1 = p.oper1 /\ p.age1 \in Int
      BY <2>2, <3>2 DEF Pending
    <3> QED BY <3>1, <3>3
  <2>4. LastAge(q) = 0 /\ p.age1 <= MaxWait /\ o # NoOne
    BY <1>4, <2>2, <2>3, BansAssumption DEF LastAge
  <2>5. q.age1 - q.age2 <= MaxWait /\ ServerOf[q.oper1] # ServerOf[q.oper2]
    BY <1>4, <2>3, <2>4 DEF SameServer
  <2>6. u = [s EXCEPT !.pending[m] = q]
    BY <1>1, <1>4, <2>1 DEF check_majority_gline
  <2>7. Core(u, b) /\ Clean(u) /\ NoNewGline(s, u)
    BY <1>0, <2>3, <2>4, <2>5, <2>6, Requested
  <2> QED BY <1>1, <2>7
<1>5. CASE p # Never /\ ~SameServer(o, p.oper1) /\ p.oper2 # NoOne /\ SameServer(o, p.oper2)
  <2>1. u = s
    BY <1>1, <1>5 DEF check_majority_gline
  <2> QED BY <1>1, <2>1 DEF NoNewGline
<1>6. CASE p # Never /\ ~SameServer(o, p.oper1) /\ p.oper2 # NoOne /\ ~SameServer(o, p.oper2)
  <2>1. u = cleanup_glines(set_local_gline(s, m))
    BY <1>1, <1>6 DEF check_majority_gline
  <2>2. Core(u, b) /\ Clean(u) /\ u.lines = s.lines \cup {Line("G", m)}
    BY <1>0, <2>1, GlineSet
  <2>3. Third(s, o, m)
    BY <1>1, <1>6 DEF Third, SameServer
  <2> QED BY <1>1, <2>2, <2>3
<1> QED BY <1>2, <1>3, <1>4, <1>5, <1>6

---------------------------------------------------------------------------
(* The loop.                                                               *)

\* The part of the invariant that holds in the middle of eventRun as well.
Part(s) == s \in Server /\ Listed(s) /\ Lasting(s) /\ Votes(s) /\ Clean(s)

\* Adding and deleting the event of the split mode touches its slot only.
LEMMA SplitEvent ==
    ASSUME NEW t \in Tables,
           NEW u \in {eventAdd(t, "check_splitmode"), eventDelete(t, "check_splitmode")}
    PROVE  /\ u \in Tables /\ SameCleanups(t, u)
           /\ u.when["check_splitmode"] \in {Never, Period["check_splitmode"]}
<1> DEFINE P == Period["check_splitmode"]
<1>1. P \in Nat
  BY Periods, Three
<1>2. CASE u = eventAdd(t, "check_splitmode")
  <2>1. PICK x : x = IF t.min = Never THEN P ELSE Min({t.min, P})
    OBVIOUS
  <2>2. x \in Int
    <3>1. t.min # Never => t.min \in Int /\ Min({t.min, P}) = IF t.min <= P THEN t.min ELSE P
      BY <1>1, TableFacts, Earlier
    <3> HIDE DEF P
    <3> QED BY <1>1, <2>1, <3>1
  <2>3. u = [when |-> [t.when EXCEPT !["check_splitmode"] = P], min |-> x]
    BY <1>2, <2>1 DEF eventAdd
  <2> HIDE DEF P
  <2>4. [t.when EXCEPT !["check_splitmode"] = P] \in [Names -> Int \cup {Never}]
    <3>1. PICK w : w = t.when
      OBVIOUS
    <3>2. w \in [Names -> Int \cup {Never}] /\ P \in Int \cup {Never}
      BY <1>1, <3>1, TableFacts
    <3>3. [w EXCEPT !["check_splitmode"] = P] \in [Names -> Int \cup {Never}]
      BY <3>2
    <3> QED BY <3>1, <3>3
  <2>5. u \in Tables /\ u.when = [t.when EXCEPT !["check_splitmode"] = P]
    BY <2>2, <2>3, <2>4 DEF Tables
  <2> QED BY <2>5, Three, TableFacts DEF SameCleanups, P
<1>3. CASE u = eventDelete(t, "check_splitmode")
  <2>1. u \in Tables /\ u.when = [t.when EXCEPT !["check_splitmode"] = Never]
    BY <1>3 DEF Tables, eventDelete
  <2> QED BY <2>1, Three, TableFacts DEF SameCleanups
<1> QED BY <1>2, <1>3

\* What a handler of an event does to the bans and to the table.
Handles(s, u, e) ==
    /\ Part(u) /\ NoNewGline(s, u)
    /\ SameCleanups(s.events, u.events)
    /\ e # "check_splitmode" => u.events = s.events
    /\ u.events.when["check_splitmode"] \in
         {s.events.when["check_splitmode"], Never, Period["check_splitmode"]}
    /\ e = "cleanup_tklines" => \A m \in Masks : u.temp[m] # Never => u.temp[m] > 0
    /\ e = "cleanup_glines" =>
         \A m \in Masks : u.pending[m] # Never => LastAge(u.pending[m]) <= PendingExpire

\* The event check_splitmode may run in the middle of eventRun.
LEMMA SplitHandled ==
    ASSUME NEW s, Part(s)
    PROVE  Handles(s, check_splitmode(s), "check_splitmode")
<1>1. PICK u : u = check_splitmode(s)
  OBVIOUS
<1>2. s \in Server /\ s.events \in Tables
  BY ServerFields DEF Part
<1>3. CASE ~s.splitchecking \/ s.splitmode = IsSplit(s)
  <2>1. u = s
    BY <1>1, <1>3 DEF check_splitmode
  <2> QED BY <1>1, <2>1, Three DEF Handles, NoNewGline, SameCleanups
<1>4. CASE ~(~s.splitchecking \/ s.splitmode = IsSplit(s))
  <2>1. PICK x \in BOOLEAN : x = IsSplit(s)
    BY DEF IsSplit
  <2>2. PICK t : t = IF IsSplit(s) THEN eventAdd(s.events, "check_splitmode")
                     ELSE eventDelete(s.events, "check_splitmode")
    OBVIOUS
  <2>3. /\ t \in Tables /\ SameCleanups(s.events, t)
        /\ t.when["check_splitmode"] \in {Never, Period["check_splitmode"]}
    BY <1>2, <2>2, SplitEvent
  <2>4. u = [s EXCEPT !.splitmode = x, !.events = t]
    BY <1>1, <1>4, <2>1, <2>2 DEF check_splitmode
  <2>5. /\ u \in Server /\ u.events = t /\ u.online = s.online /\ u.lines = s.lines
        /\ u.temp = s.temp /\ u.file = s.file /\ u.pending = s.pending /\ u.peer = s.peer
    <3> HIDE <1>1, <2>1, <2>2
    <3> QED BY <1>2, <2>3, <2>4 DEF Server
  <2>6. Listed(u)
    BY <2>5 DEF Part, Listed
  <2>7. Lasting(u)
    BY <2>3, <2>5 DEF Part, Lasting, SameCleanups
  <2>8. Votes(u)
    BY <2>3, <2>5 DEF Part, Votes, SameCleanups
  <2>9. Clean(u)
    BY <2>5 DEF Part, Clean, Banned
  <2>10. Part(u) /\ NoNewGline(s, u)
    BY <2>5, <2>6, <2>7, <2>8, <2>9 DEF Part, NoNewGline
  <2> QED BY <1>1, <2>3, <2>5, <2>10, Three DEF Handles
<1> QED BY <1>3, <1>4

\* So may cleanup_tklines.
LEMMA TempsHandled ==
    ASSUME NEW s, Part(s)
    PROVE  Handles(s, expire_tklines(s), "cleanup_tklines")
<1> DEFINE ms == {m \in Masks : s.temp[m] # Never /\ s.temp[m] <= 0}
<1>1. PICK u : u = DropTemp(s, ms)
  OBVIOUS
<1>2. /\ u \in Server /\ Listed(u) /\ Lasting(u)
      /\ u.lines \subseteq s.lines /\ u.online = s.online
      /\ u.events = s.events /\ u.pending = s.pending
      /\ \A m \in Masks : u.temp[m] # Never => m \notin ms /\ u.temp[m] = s.temp[m]
  BY <1>1, TempDropped DEF Part
<1>3. Votes(u)
  BY <1>2 DEF Part, Votes
<1>4. Part(u) /\ NoNewGline(s, u)
  BY <1>2, <1>3, FewerBanned DEF Part, NoNewGline
<1>5. ASSUME NEW m \in Masks, u.temp[m] # Never PROVE u.temp[m] > 0
  <2>1. s.temp[m] # Never /\ ~(s.temp[m] <= 0) /\ u.temp[m] = s.temp[m]
    BY <1>2, <1>5
  <2>2. s.temp[m] \in Int
    BY <2>1, ServerFields DEF Part
  <2> QED BY <2>1, <2>2
<1>6. expire_tklines(s) = u
  BY <1>1 DEF expire_tklines
<1> QED BY <1>2, <1>4, <1>5, <1>6, Three DEF Handles, SameCleanups

\* So may cleanup_glines.
LEMMA GlinesHandled ==
    ASSUME NEW s, Part(s)
    PROVE  Handles(s, cleanup_glines(s), "cleanup_glines")
<1>1. PICK u : u = cleanup_glines(s)
  OBVIOUS
<1>2. /\ u \in Server /\ SameButPending(s, u) /\ Votes(u)
      /\ \A m \in Masks : u.pending[m] # Never => LastAge(u.pending[m]) <= PendingExpire
  BY <1>1, PendingExpired DEF Part
<1>3. Part(u) /\ NoNewGline(s, u)
  BY <1>2, SameButPendingKeeps DEF Part
<1>4. u.events = s.events
  BY <1>2 DEF SameButPending
<1> QED BY <1>1, <1>2, <1>3, <1>4, Three DEF Handles, SameCleanups

\* So each event of the table may.
LEMMA HandledIs ==
    ASSUME NEW s, Part(s), NEW e \in Names
    PROVE  Handles(s, Handled(s, e), e)
<1>1. CASE e = "cleanup_glines"
  BY <1>1, GlinesHandled DEF Handled
<1>2. CASE e = "cleanup_tklines"
  BY <1>2, TempsHandled DEF Handled
<1>3. CASE e = "check_splitmode"
  BY <1>3, SplitHandled DEF Handled
<1> QED BY <1>1, <1>2, <1>3, Periods

\* The table in the middle of eventRun: the first k slots are not due, and the minimum
\* is not known once one of them has run.
Slotted(t, t0, b, k) ==
    /\ \A e \in Names : t.when[e] # Never => /\ t.when[e] <= Period[e]
                                             /\ t.when[e] >= - MaxPeriod - b
    /\ t.when["cleanup_glines"] # Never /\ t.when["cleanup_tklines"] # Never
    /\ \A j \in 1..k : t.when[Order[j]] # Never => t.when[Order[j]] > 0
    /\ t.min = Never \/ t = t0

Middle(s, s0, b, k) ==
    Part(s) /\ NoNewGline(s0, s) /\ Slotted(s.events, s0.events, b, k)

\* Every event has a slot.
LEMMA Slots ==
    /\ Len(Order) \in Nat
    /\ \A j \in 1..Len(Order) : Order[j] \in Names
    /\ \A e \in Names : \E j \in 1..Len(Order) : Order[j] = e
<1>1. Len(Order) \in Nat /\ DOMAIN Order = 1..Len(Order)
  BY EventsAssumption
<1> QED BY <1>1 DEF Names, Range

\* The table changes alone.
LEMMA EventsSet ==
    ASSUME NEW s \in Server, NEW t \in Tables
    PROVE  LET u == [s EXCEPT !.events = t]
           IN  /\ u \in Server /\ u.events = t /\ u.online = s.online /\ u.lines = s.lines
               /\ u.temp = s.temp /\ u.pending = s.pending /\ u.file = s.file
<1> DEFINE u == [s EXCEPT !.events = t]
<1>1. /\ u \in Server /\ u.events = t /\ u.online = s.online /\ u.lines = s.lines
      /\ u.temp = s.temp /\ u.pending = s.pending /\ u.file = s.file
  BY DEF Server
<1> QED BY <1>1

\* One slot of eventRun.
LEMMA SlotRun ==
    ASSUME NEW s, NEW s0, NEW b \in Nat, NEW k \in Nat, k + 1 <= Len(Order),
           Middle(s, s0, b, k)
    PROVE  Middle(RunSlot(s, Order[k + 1]), s0, b, k + 1)
<1>1. PICK e : e = Order[k + 1]
  OBVIOUS
<1>2. e \in Names /\ \A j \in 1..(k + 1) : Order[j] \in Names /\ (j \in 1..k \/ j = k + 1)
  BY <1>1, Slots
<1>3. s \in Server /\ s.events \in Tables /\ Slotted(s.events, s0.events, b, k)
  BY ServerFields DEF Middle, Part
<1>4. CASE ~IsDue(s.events, e)
  <2>1. RunSlot(s, e) = s
    BY <1>4 DEF RunSlot
  <2>2. s.events.when[e] # Never => s.events.when[e] > 0
    BY <1>2, <1>3, <1>4, TableFacts DEF IsDue, Active
  <2>3. Slotted(s.events, s0.events, b, k + 1)
    BY <1>1, <1>2, <1>3, <2>2 DEF Slotted
  <2> QED BY <1>1, <2>1, <2>3 DEF Middle
<1>5. CASE IsDue(s.events, e)
  <2>1. PICK h : h = Handled(s, e)
    OBVIOUS
  <2>2. Handles(s, h, e)
    BY <1>2, <2>1, HandledIs DEF Middle
  <2>3. h \in Server /\ h.events \in Tables
    BY <2>2, ServerFields DEF Handles, Part
  <2>4. PICK t : t = Ran(h.events, e)
    OBVIOUS
  <2>5. /\ t \in Tables /\ t.min = Never
        /\ t.when[e] = IF h.events.when[e] = Never THEN Never ELSE Period[e]
        /\ \A f \in Names : f # e => t.when[f] = h.events.when[f]
    BY <1>2, <2>3, <2>4, RanIs
  <2>6. PICK u : u = [h EXCEPT !.events = t]
    OBVIOUS
  <2>7. /\ u \in Server /\ u.events = t /\ u.online = h.online /\ u.lines = h.lines
        /\ u.temp = h.temp /\ u.pending = h.pending
    BY <2>3, <2>5, <2>6, EventsSet
  <2>8. RunSlot(s, e) = u
    BY <1>5, <2>1, <2>4, <2>6 DEF RunSlot
  <2>9. ASSUME NEW f \in Names
        PROVE  \/ t.when[f] = s.events.when[f] /\ f # e
               \/ t.when[f] = Period[f]
               \/ t.when[f] = Never /\ f = "check_splitmode"
    <3>1. e # "check_splitmode" => h.events.when[f] = s.events.when[f]
      BY <2>2 DEF Handles
    <3>2. e = "check_splitmode" /\ f # e => h.events.when[f] = s.events.when[f]
      BY <2>2, Periods DEF Handles, SameCleanups
    <3>3. CASE f # e
      BY <2>5, <3>1, <3>2, <3>3
    <3>4. CASE f = e
      <4>1. CASE e = "check_splitmode"
        BY <2>5, <3>4, <4>1
      <4>2. CASE e # "check_splitmode"
        <5>1. s.events.when[e] # Never
          BY <1>5 DEF IsDue, Active
        <5> QED BY <2>5, <3>1, <3>4, <4>2, <5>1
      <4> QED BY <4>1, <4>2
    <3> QED BY <3>3, <3>4
  <2>10. \A f \in Names : /\ Period[f] \in Nat \ {0} /\ Period[f] # Never
                          /\ Period[f] <= MaxPeriod /\ MaxPeriod \in Nat
    BY Periods, EventsAssumption
  <2>11. Slotted(t, s0.events, b, k + 1)
    <3>1. ASSUME NEW f \in Names, t.when[f] # Never
          PROVE  t.when[f] <= Period[f] /\ t.when[f] >= - MaxPeriod - b
      BY <1>3, <2>9, <2>10, <3>1 DEF Slotted
    <3>2. t.when["cleanup_glines"] # Never /\ t.when["cleanup_tklines"] # Never
      BY <1>3, <2>9, <2>10, Three DEF Slotted
    <3>3. ASSUME NEW j \in 1..(k + 1), t.when[Order[j]] # Never PROVE t.when[Order[j]] > 0
      <4>1. PICK f \in Names : f = Order[j]
        BY <1>2
      <4>2. CASE t.when[f] = Period[f]
        BY <2>10, <4>1, <4>2
      <4>3. CASE t.when[f] = s.events.when[f] /\ f # e
        <5>1. j \in 1..k
          BY <1>1, <1>2, <4>1, <4>3
        <5>2. s.events.when[Order[j]] # Never
          BY <3>3, <4>1, <4>3
        <5>3. s.events.when[Order[j]] > 0
          BY <1>3, <5>1, <5>2 DEF Slotted
        <5> QED BY <4>1, <4>3, <5>3
      <4> QED BY <2>9, <3>3, <4>1, <4>2, <4>3
    <3> QED BY <2>5, <3>1, <3>2, <3>3 DEF Slotted
  <2>12. Listed(u) /\ Clean(u) /\ NoNewGline(s0, u)
    BY <2>2, <2>7 DEF Handles, Part, Listed, Clean, Banned, NoNewGline, Middle
  <2>13. Lasting(u)
    <3> SUFFICES ASSUME NEW m \in Masks, h.temp[m] # Never
                 PROVE  h.temp[m] > t.when["cleanup_tklines"] - Period["cleanup_tklines"]
      BY <2>7 DEF Lasting
    <3>1. CASE e = "cleanup_tklines"
      <4>1. t.when[e] = Period[e]
        BY <1>2, <2>9, <3>1, Three
      <4>2. h.temp[m] > 0 /\ h.temp[m] \in Int
        <5>1. h.temp[m] > 0
          BY <2>2, <3>1 DEF Handles
        <5>2. h.temp[m] \in Int
          BY <2>3, ServerFields
        <5> QED BY <5>1, <5>2
      <4> QED BY <1>2, <2>10, <3>1, <4>1, <4>2
    <3>2. CASE e # "cleanup_tklines"
      <4>1. t.when["cleanup_tklines"] = h.events.when["cleanup_tklines"]
        BY <2>5, <3>2, Three
      <4> QED BY <2>2, <4>1 DEF Handles, Part, Lasting
    <3> QED BY <3>1, <3>2
  <2>14. Votes(u)
    <3> SUFFICES ASSUME NEW m \in Masks, h.pending[m] # Never
                 PROVE  LastAge(h.pending[m]) <= PendingExpire + Period["cleanup_glines"]
                                                   - t.when["cleanup_glines"]
      BY <2>2, <2>7 DEF Votes, Handles, Part
    <3>1. CASE e = "cleanup_glines"
      <4>1. t.when[e] = Period[e]
        BY <1>2, <2>9, <3>1, Three
      <4>2. LastAge(h.pending[m]) <= PendingExpire
        BY <2>2, <3>1 DEF Handles
      <4>3. PendingExpire + Period[e] - Period[e] = PendingExpire
        BY <1>2, <2>10, Waits
      <4> QED BY <3>1, <4>1, <4>2, <4>3
    <3>2. CASE e # "cleanup_glines"
      <4>1. t.when["cleanup_glines"] = h.events.when["cleanup_glines"]
        BY <2>5, <3>2, Three
      <4> QED BY <2>2, <4>1 DEF Handles, Part, Votes
    <3> QED BY <3>1, <3>2
  <2> QED BY <1>1, <2>7, <2>8, <2>11, <2>12, <2>13, <2>14 DEF Middle, Part
<1> QED BY <1>4, <1>5

\* A set of naturals has a least element.
LEMMA Least ==
    ASSUME NEW T \in SUBSET Nat, T # {}
    PROVE  \E x \in T : \A y \in T : x <= y
<1> DEFINE R == OpToRel(<, Nat)
<1>1. IsWellFoundedOn(R, Nat)
  BY NatLessThanWellFounded
<1>2. \A x, y \in Nat : y < x => <<y, x>> \in R
  BY DEF OpToRel
<1> HIDE DEF R
<1>3. PICK x \in T : \A y \in T : ~(<<y, x>> \in R)
  BY <1>1, WFMin
<1>4. x \in Nat /\ \A y \in T : y \in Nat /\ ~(y < x)
  BY <1>2, <1>3
<1> QED BY <1>3, <1>4

\* Induction for sets: one that has 0, and with a number the next one, has them all.
LEMMA Induction ==
    ASSUME NEW S, 0 \in S, \A n \in Nat : n \in S => n + 1 \in S
    PROVE  Nat \subseteq S
<1> SUFFICES ASSUME NEW k \in Nat \ S PROVE FALSE
  OBVIOUS
<1> DEFINE T == Nat \ S
<1>1. PICK x \in T : \A y \in T : x <= y
  BY Least
<1>2. x # 0 /\ x - 1 \in Nat /\ x - 1 \notin T
  BY <1>1
<1> QED BY <1>1, <1>2

\* What the first n slots of eventRun do, one after the other, from s0 on.
Upto(f, s0, b, n) ==
    /\ f[0] = s0
    /\ \A k \in 1..n : f[k] = RunSlot(f[k - 1], Order[k])
    /\ \A k \in 0..n : Middle(f[k], s0, b, k)

\* The slots that have run can be extended by the next one.
LEMMA UptoStep ==
    ASSUME NEW s0, NEW b \in Nat, NEW n \in Nat, n + 1 <= Len(Order),
           NEW f, Upto(f, s0, b, n)
    PROVE  \E g \in [0..(n + 1) -> Server] : Upto(g, s0, b, n + 1)
<1>1. PICK u : u = RunSlot(f[n], Order[n + 1])
  OBVIOUS
<1>2. Middle(f[n], s0, b, n)
  BY DEF Upto
<1>3. Middle(u, s0, b, n + 1)
  BY <1>1, <1>2, SlotRun
<1> DEFINE g == [k \in 0..(n + 1) |-> IF k = n + 1 THEN u ELSE f[k]]
<1>4. ASSUME NEW k \in 0..(n + 1)
      PROVE  g[k] = IF k = n + 1 THEN u ELSE f[k]
  OBVIOUS
<1>5. ASSUME NEW k \in 0..(n + 1) PROVE Middle(g[k], s0, b, k) /\ g[k] \in Server
  <2>1. CASE k = n + 1
    BY <1>3, <1>4, <2>1 DEF Middle, Part
  <2>2. CASE k # n + 1
    <3>1. k \in 0..n /\ g[k] = f[k]
      BY <1>4, <2>2
    <3> QED BY <3>1 DEF Upto, Middle, Part
  <2> QED BY <2>1, <2>2
<1>6. g \in [0..(n + 1) -> Server]
  <2>1. \A k \in 0..(n + 1) : (IF k = n + 1 THEN u ELSE f[k]) \in Server
    BY <1>4, <1>5
  <2> QED BY <2>1
<1>7. g[0] = s0
  <2>1. 0 \in 0..(n + 1) /\ 0 # n + 1 /\ f[0] = s0
    BY DEF Upto
  <2> QED BY <1>4, <2>1
<1>8. ASSUME NEW k \in 1..(n + 1) PROVE g[k] = RunSlot(g[k - 1], Order[k])
  <2>1. k \in 0..(n + 1) /\ k - 1 \in 0..(n + 1) /\ k - 1 # n + 1
    OBVIOUS
  <2>2. g[k - 1] = f[k - 1]
    BY <1>4, <2>1
  <2>3. CASE k = n + 1
    <3>1. g[k] = u /\ k - 1 = n
      BY <1>4, <2>1, <2>3
    <3> QED BY <1>1, <2>2, <2>3, <3>1
  <2>4. CASE k # n + 1
    <3>1. g[k] = f[k] /\ k \in 1..n
      BY <1>4, <2>1, <2>4
    <3>2. f[k] = RunSlot(f[k - 1], Order[k])
      BY <3>1 DEF Upto
    <3> QED BY <2>2, <3>1, <3>2
  <2> QED BY <2>3, <2>4
<1> HIDE DEF g
<1>9. Upto(g, s0, b, n + 1)
  BY <1>5, <1>7, <1>8 DEF Upto
<1> QED BY <1>6, <1>9

\* The recursion of eventRun has a solution.
LEMMA UptoExists ==
    ASSUME NEW s0, NEW b \in Nat, Middle(s0, s0, b, 0)
    PROVE  \E f \in [0..Len(Order) -> Server] : Upto(f, s0, b, Len(Order))
<1> DEFINE Sol(n) == n <= Len(Order) => \E f \in [0..n -> Server] : Upto(f, s0, b, n)
           S == {n \in Nat : Sol(n)}
<1>1. Sol(0)
  <2> DEFINE g == [k \in 0..0 |-> s0]
  <2>1. s0 \in Server /\ g[0] = s0 /\ \A k \in 0..0 : k = 0
    BY DEF Middle, Part
  <2>2. g \in [0..0 -> Server]
    BY <2>1
  <2> HIDE DEF g
  <2>3. Upto(g, s0, b, 0)
    BY <2>1 DEF Upto
  <2> QED BY <2>2, <2>3
<1>2. ASSUME NEW n \in Nat, Sol(n) PROVE Sol(n + 1)
  <2> SUFFICES ASSUME n + 1 <= Len(Order)
               PROVE  \E f \in [0..(n + 1) -> Server] : Upto(f, s0, b, n + 1)
    OBVIOUS
  <2>1. PICK f : Upto(f, s0, b, n)
    BY <1>2, Slots
  <2> QED BY <2>1, UptoStep
<1> HIDE DEF Sol
<1>3. 0 \in S /\ \A n \in Nat : n \in S => n + 1 \in S
  BY <1>1, <1>2
<1> HIDE DEF S
<1>4. Nat \subseteq S
  BY <1>3, Induction
<1>5. Sol(Len(Order))
  BY <1>4, Slots DEF S
<1> QED BY <1>5, Slots DEF Sol

\* eventRun follows it to the last slot.
LEMMA AllSlotsRun ==
    ASSUME NEW s0, NEW b \in Nat, Middle(s0, s0, b, 0)
    PROVE  Middle(eventRun(s0), s0, b, Len(Order))
<1> DEFINE Def(f) == f = [k \in 0..Len(Order) |->
                              IF k = 0 THEN s0 ELSE RunSlot(f[k - 1], Order[k])]
           run == CHOOSE f : Def(f)
<1>1. Len(Order) \in Nat
  BY Slots
<1>2. PICK g \in [0..Len(Order) -> Server] : Upto(g, s0, b, Len(Order))
  BY UptoExists
<1>3. Def(g)
  <2>1. ASSUME NEW k \in 0..Len(Order)
        PROVE  g[k] = IF k = 0 THEN s0 ELSE RunSlot(g[k - 1], Order[k])
    <3>1. CASE k = 0
      BY <1>2, <3>1 DEF Upto
    <3>2. CASE k # 0
      <4>1. k \in 1..Len(Order)
        BY <1>1, <3>2
      <4>2. g[k] = RunSlot(g[k - 1], Order[k])
        BY <1>2, <4>1 DEF Upto
      <4> QED BY <3>2, <4>2
    <3> QED BY <3>1, <3>2
  <2>2. g = [k \in 0..Len(Order) |-> g[k]]
    OBVIOUS
  <2> QED BY <2>1, <2>2
<1>4. eventRun(s0) = run[Len(Order)]
  BY DEF eventRun
<1>5. Def(run)
  BY <1>3
<1> HIDE DEF run
<1>6. \A k \in 0..Len(Order) : run[k] = IF k = 0 THEN s0 ELSE RunSlot(run[k - 1], Order[k])
  BY <1>5
<1> HIDE DEF Def
<1> DEFINE S == {n \in Nat : n <= Len(Order) => run[n] = g[n]}
<1>7. 0 \in S
  BY <1>1, <1>2, <1>6 DEF Upto
<1>8. ASSUME NEW n \in Nat, n \in S PROVE n + 1 \in S
  <2> SUFFICES ASSUME n + 1 <= Len(Order) PROVE run[n + 1] = g[n + 1]
    OBVIOUS
  <2>1. run[n] = g[n] /\ n + 1 \in 1..Len(Order) /\ (n + 1) - 1 = n /\ n + 1 # 0
    BY <1>1, <1>8
  <2> HIDE DEF S
  <2>2. run[n + 1] = RunSlot(run[(n + 1) - 1], Order[n + 1])
    <3>1. n + 1 \in 0..Len(Order)
      BY <1>1, <2>1
    <3> QED BY <1>6, <2>1, <3>1
  <2>3. g[n + 1] = RunSlot(g[(n + 1) - 1], Order[n + 1])
    BY <1>2, <2>1 DEF Upto
  <2> QED BY <2>1, <2>2, <2>3
<1> HIDE DEF S
<1>9. Len(Order) \in S
  BY <1>1, <1>7, <1>8, Induction
<1>10. eventRun(s0) = g[Len(Order)]
  BY <1>1, <1>4, <1>9 DEF S
<1>11. Middle(g[Len(Order)], s0, b, Len(Order))
  BY <1>1, <1>2 DEF Upto
<1> QED BY <1>10, <1>11

\* The minimum is known and something may be due: eventRun.
LEMMA EventsRun ==
    ASSUME NEW s, NEW b \in Nat, Core(s, b), Clean(s), s.events.min # Never,
           s.events.min <= 0
    PROVE  LET u == eventRun(s)
           IN  Core(u, b) /\ Clean(u) /\ NoNewGline(s, u) /\ Topped(u.events)
<1>1. PICK t : t = s.events
  OBVIOUS
<1>2. t \in Tables /\ Timing(t, b) /\ t.min # Never /\ t.min <= 0
  BY <1>1, ServerFields DEF Core
<1>3. Slotted(t, t, b, 0)
  BY <1>2 DEF Slotted, Timing, Slot
<1>4. Middle(s, s, b, 0)
  BY <1>1, <1>3 DEF Middle, Part, Core, NoNewGline
<1>5. PICK u : u = eventRun(s)
  OBVIOUS
<1>6. Middle(u, s, b, Len(Order))
  BY <1>4, <1>5, AllSlotsRun
<1>7. PICK v : v = u.events
  OBVIOUS
<1>8. v \in Tables /\ Slotted(v, t, b, Len(Order))
  BY <1>1, <1>6, <1>7, ServerFields DEF Middle, Part
<1>9. ASSUME NEW e \in Names, v.when[e] # Never PROVE v.when[e] > 0
  <2>1. PICK j \in 1..Len(Order) : Order[j] = e
    BY Slots
  <2> QED BY <1>8, <1>9, <2>1 DEF Slotted
<1>10. Topped(v)
  BY <1>9 DEF Topped
<1>11. /\ MaxPeriod \in Nat
       /\ \A e \in Names : Period[e] \in Nat /\ Period[e] <= MaxPeriod
  BY Periods
<1>12. ASSUME NEW e \in Names PROVE Slot(v, b, e)
  <2> SUFFICES ASSUME v.when[e] # Never PROVE Slot(v, b, e)
    BY DEF Slot
  <2>1. v.when[e] \in Int /\ v.when[e] > 0 /\ v.when[e] <= Period[e]
    BY <1>8, <1>9, TableFacts DEF Slotted
  <2>2. v.min # Never => v.min \in Int /\ v.min <= 0
    BY <1>2, <1>8, TableFacts DEF Slotted
  <2>3. v.when[e] >= - MaxPeriod - b /\ v.when[e] >= 0
    BY <1>11, <2>1
  <2>4. v.min # Never => v.min <= v.when[e] + MaxPeriod + b
    BY <1>11, <2>1, <2>2
  <2> QED BY <2>1, <2>3, <2>4 DEF Slot
<1>13. Minimum(v, b)
  <2> SUFFICES ASSUME v.min # Never PROVE Minimum(v, b)
    BY DEF Minimum
  <2>1. v.min = t.min /\ v.min \in Int /\ v.min <= 0 /\ v.min >= - MaxPeriod
    BY <1>2, <1>8, TableFacts DEF Slotted, Timing, Minimum
  <2>2. v = t
    BY <1>8 DEF Slotted
  <2> QED BY <1>2, <2>2 DEF Timing
<1>14. Timing(v, b)
  BY <1>8, <1>12, <1>13 DEF Timing, Slotted
<1>15. Core(u, b) /\ Clean(u) /\ NoNewGline(s, u)
  BY <1>6, <1>7, <1>14 DEF Middle, Part, Core
<1> QED BY <1>5, <1>7, <1>10, <1>15

\* A turn of the loop up to comm_select.
LEMMA LoopTopped ==
    ASSUME NEW s, NEW b \in Nat, Core(s, b), Clean(s)
    PROVE  LET u == LoopTop(s)
           IN  Core(u, b) /\ Clean(u) /\ NoNewGline(s, u) /\ Topped(u.events)
<1>1. s \in Server /\ s.events \in Tables /\ Timing(s.events, b)
  BY ServerFields DEF Core
<1>2. PICK t : t = eventNextTime(s.events)
  OBVIOUS
<1>3. t \in Tables /\ Timing(t, b) /\ SameCleanups(s.events, t) /\ t.min \in Int
  BY <1>1, <1>2, NextTimeKnown
<1>4. PICK n : n = [s EXCEPT !.events = t]
  OBVIOUS
<1>5. /\ n \in Server /\ n.events = t /\ n.online = s.online /\ n.lines = s.lines
      /\ n.temp = s.temp /\ n.pending = s.pending
  BY <1>1, <1>3, <1>4, EventsSet
<1>6. Listed(n) /\ Clean(n) /\ NoNewGline(s, n)
  BY <1>5 DEF Core, Listed, Clean, Banned, NoNewGline
<1>7. Lasting(n)
  BY <1>3, <1>5 DEF Core, Lasting, SameCleanups
<1>8. Votes(n)
  BY <1>3, <1>5 DEF Core, Votes, SameCleanups
<1>9. Core(n, b)
  BY <1>3, <1>5, <1>6, <1>7, <1>8 DEF Core
<1>10. t.min # Never
  BY <1>3, EventsAssumption
<1>11. LoopTop(s) = IF t.min <= 0 THEN eventRun(n) ELSE n
  <2>1. n = [s EXCEPT !.events = eventNextTime(@)]
    BY <1>2, <1>4
  <2> QED BY <1>5, <2>1 DEF LoopTop
<1>12. CASE t.min <= 0
  <2>1. PICK u : u = eventRun(n)
    OBVIOUS
  <2>2. Core(u, b) /\ Clean(u) /\ NoNewGline(n, u) /\ Topped(u.events)
    BY <1>5, <1>6, <1>9, <1>10, <1>12, <2>1, EventsRun
  <2>3. NoNewGline(s, u)
    BY <1>6, <2>2 DEF NoNewGline
  <2> QED BY <1>11, <1>12, <2>1, <2>2, <2>3
<1>13. CASE ~(t.min <= 0)
  <2>1. Topped(n.events)
    BY <1>3, <1>5, <1>10, <1>13 DEF Topped
  <2> QED BY <1>6, <1>9, <1>11, <1>13, <2>1
<1> QED BY <1>12, <1>13

\* What set_time does to the lists, with d seconds gone, or one taken back.
LEMMA TimesShifted ==
    ASSUME NEW s \in Server, NEW d \in -1..1
    PROVE  LET u == TimePasses(s, d)
           IN  /\ u.events = Passed(s.events, d) /\ u.online = s.online /\ u.lines = s.lines
               /\ \A m \in Masks : u.temp[m] = Later(s.temp[m], d)
               /\ \A m \in Masks : u.pending[m] # Never =>
                    /\ s.pending[m] # Never /\ s.pending[m] \in Pending
                    /\ u.pending[m].oper1 = s.pending[m].oper1
                    /\ u.pending[m].oper2 = s.pending[m].oper2
                    /\ u.pending[m].age1 = s.pending[m].age1 + d
                    /\ u.pending[m].age2 = s.pending[m].age2 + d
                    /\ LastAge(u.pending[m]) = LastAge(s.pending[m]) + d
               /\ \A t \in Tables : [u EXCEPT !.events = t] \in Server
               /\ Passed(s.events, d) \in Tables => u \in Server
<1>1. PICK v, T, Q : /\ v = Passed(s.events, d)
                     /\ T = [m \in Masks |-> Later(s.temp[m], d)]
                     /\ Q = [m \in Masks |-> Aged(s.pending[m], d)]
  OBVIOUS
<1>2. PICK u : u = TimePasses(s, d)
  OBVIOUS
<1>3. u = [s EXCEPT !.events = v, !.temp = T, !.pending = Q]
  BY <1>1, <1>2 DEF TimePasses
<1>4. ASSUME NEW p \in Pending \cup {Never}
      PROVE  /\ Aged(p, d) \in Pending \cup {Never}
             /\ Aged(p, d) # Never =>
                  /\ p # Never /\ p \in Pending /\ Aged(p, d).oper1 = p.oper1
                  /\ Aged(p, d).oper2 = p.oper2 /\ Aged(p, d).age1 = p.age1 + d
                  /\ Aged(p, d).age2 = p.age2 + d /\ LastAge(Aged(p, d)) = LastAge(p) + d
  <2>1. CASE p = Never
    BY <2>1 DEF Aged
  <2>2. CASE p # Never
    <3>1. PICK x, y : x = p.age1 + d /\ y = p.age2 + d
      OBVIOUS
    <3>2. p \in Pending /\ p.age1 \in Int /\ p.age2 \in Int /\ d \in Int
      BY <2>2 DEF Pending
    <3>3. x \in Int /\ y \in Int /\ Aged(p, d) = [p EXCEPT !.age1 = x, !.age2 = y]
      BY <2>2, <3>1, <3>2 DEF Aged
    <3>4. /\ Aged(p, d) \in Pending /\ Aged(p, d).oper1 = p.oper1
          /\ Aged(p, d).oper2 = p.oper2 /\ Aged(p, d).age1 = x /\ Aged(p, d).age2 = y
      BY <3>2, <3>3 DEF Pending
    <3>5. LastAge(Aged(p, d)) = LastAge(p) + d
      BY <3>1, <3>4 DEF LastAge
    <3> QED BY <2>2, <3>1, <3>2, <3>4, <3>5
  <2> QED BY <2>1, <2>2
<1>5. T \in [Masks -> Int \cup {Never}]
  <2>1. \A m \in Masks : s.temp[m] \in Int \cup {Never}
    BY ServerFields
  <2>2. d \in Int
    OBVIOUS
  <2>3. ASSUME NEW m \in Masks PROVE Later(s.temp[m], d) \in Int \cup {Never}
    <3>1. PICK x \in Int \cup {Never} : x = s.temp[m]
      BY <2>1
    <3>2. Later(x, d) \in Int \cup {Never}
      BY <2>2, LaterIs
    <3> QED BY <3>1, <3>2
  <2> QED BY <1>1, <2>3
<1>6. /\ \A m \in Masks : s.pending[m] \in Pending \cup {Never}
      /\ \A m \in Masks : Q[m] = Aged(s.pending[m], d)
      /\ Q \in [Masks -> Pending \cup {Never}]
  <2>1. \A m \in Masks : s.pending[m] \in Pending \cup {Never}
    BY ServerFields
  <2> QED BY <1>1, <1>4, <2>1
<1>7. /\ u.events = v /\ u.online = s.online /\ u.lines = s.lines
      /\ u.temp = T /\ u.pending = Q
      /\ \A t \in Tables : [u EXCEPT !.events = t] \in Server
      /\ v \in Tables => u \in Server
  BY <1>3, <1>5, <1>6 DEF Server
<1>8. ASSUME NEW m \in Masks, u.pending[m] # Never
      PROVE  /\ s.pending[m] # Never /\ s.pending[m] \in Pending
             /\ u.pending[m].oper1 = s.pending[m].oper1
             /\ u.pending[m].oper2 = s.pending[m].oper2
             /\ u.pending[m].age1 = s.pending[m].age1 + d
             /\ u.pending[m].age2 = s.pending[m].age2 + d
             /\ LastAge(u.pending[m]) = LastAge(s.pending[m]) + d
  <2>1. u.pending[m] = Aged(s.pending[m], d) /\ s.pending[m] \in Pending \cup {Never}
    BY <1>6, <1>7
  <2> QED BY <1>4, <1>8, <2>1
<1>9. \A m \in Masks : u.temp[m] = Later(s.temp[m], d)
  BY <1>1, <1>7
<1> QED BY <1>1, <1>2, <1>7, <1>8, <1>9

\* The clock goes on: what is listed has less time left, and so have the events.
LEMMA ClockGoesOn ==
    ASSUME NEW s, NEW b \in Nat, Core(s, b), Clean(s), Topped(s.events), NEW d \in 0..1
    PROVE  LET u == TimePasses(s, d)
           IN  Core(u, b) /\ Clean(u) /\ NoNewGline(s, u)
<1>1. PICK u, t : u = TimePasses(s, d) /\ t = Passed(s.events, d)
  OBVIOUS
<1>2. s \in Server /\ s.events \in Tables /\ Timing(s.events, b)
  BY ServerFields DEF Core
<1>3. /\ t \in Tables /\ Timing(t, b)
      /\ \A e \in Names : t.when[e] = Later(s.events.when[e], d)
  BY <1>1, <1>2, TimePassed
<1>4. d \in -1..1 /\ d \in Int
  OBVIOUS
<1>5. /\ u \in Server /\ u.events = t /\ u.online = s.online /\ u.lines = s.lines
      /\ \A m \in Masks : u.temp[m] = Later(s.temp[m], d)
      /\ \A m \in Masks : u.pending[m] # Never =>
           /\ s.pending[m] # Never /\ s.pending[m] \in Pending
           /\ u.pending[m].oper1 = s.pending[m].oper1
           /\ u.pending[m].oper2 = s.pending[m].oper2
           /\ u.pending[m].age1 = s.pending[m].age1 + d
           /\ u.pending[m].age2 = s.pending[m].age2 + d
           /\ LastAge(u.pending[m]) = LastAge(s.pending[m]) + d
  BY <1>1, <1>2, <1>3, <1>4, TimesShifted
<1>6. ASSUME NEW m \in Masks
      PROVE  /\ u.temp[m] = Never <=> s.temp[m] = Never
             /\ s.temp[m] # Never => s.temp[m] \in Int /\ u.temp[m] = s.temp[m] - d
  <2>1. s.temp[m] \in Int \cup {Never}
    BY <1>2, ServerFields
  <2>2. u.temp[m] = Later(s.temp[m], d)
    BY <1>5
  <2> QED BY <1>4, <2>1, <2>2, LaterIs
<1>7. ASSUME NEW e \in {"cleanup_glines", "cleanup_tklines"}
      PROVE  /\ s.events.when[e] \in Int /\ t.when[e] = s.events.when[e] - d
             /\ Period[e] \in Nat
  <2>1. e \in Names /\ s.events.when[e] # Never
    BY <1>2, Three DEF Timing
  <2>2. s.events.when[e] \in Int
    BY <1>2, <2>1, TableFacts
  <2> QED BY <1>3, <1>4, <2>1, <2>2, LaterIs, Periods
<1>8. Listed(u)
  BY <1>5, <1>6 DEF Core, Listed
<1>9. Lasting(u)
  <2> SUFFICES ASSUME NEW m \in Masks, u.temp[m] # Never
               PROVE  u.temp[m] > t.when["cleanup_tklines"] - Period["cleanup_tklines"]
    BY <1>5 DEF Lasting
  <2>1. s.temp[m] > s.events.when["cleanup_tklines"] - Period["cleanup_tklines"]
    BY <1>6 DEF Core, Lasting
  <2> QED BY <1>4, <1>6, <1>7, <2>1
<1>10. Votes(u)
  <2> SUFFICES ASSUME NEW m \in Masks, u.pending[m] # Never
               PROVE  /\ LastAge(u.pending[m]) <= PendingExpire + Period["cleanup_glines"]
                                                    - t.when["cleanup_glines"]
                      /\ u.pending[m].oper2 # NoOne =>
                           /\ u.pending[m].age1 - u.pending[m].age2 <= MaxWait
                           /\ ServerOf[u.pending[m].oper1] # ServerOf[u.pending[m].oper2]
    BY <1>5 DEF Votes
  <2>1. PICK p, q : p = s.pending[m] /\ q = u.pending[m]
    OBVIOUS
  <2>2. /\ p \in Pending /\ q.oper1 = p.oper1 /\ q.oper2 = p.oper2
        /\ q.age1 = p.age1 + d /\ q.age2 = p.age2 + d /\ LastAge(q) = LastAge(p) + d
    BY <1>5, <2>1
  <2>3. /\ LastAge(p) <= PendingExpire + Period["cleanup_glines"]
                           - s.events.when["cleanup_glines"]
        /\ p.oper2 # NoOne => /\ p.age1 - p.age2 <= MaxWait
                              /\ ServerOf[p.oper1] # ServerOf[p.oper2]
    BY <1>5, <2>1 DEF Core, Votes
  <2>4. p.age1 \in Int /\ p.age2 \in Int /\ LastAge(p) \in Int
    BY <2>2 DEF Pending, LastAge
  <2>5. LastAge(q) <= PendingExpire + Period["cleanup_glines"] - t.when["cleanup_glines"]
    BY <1>4, <1>7, <2>2, <2>3, <2>4, Waits
  <2>6. q.age1 - q.age2 = p.age1 - p.age2
    BY <1>4, <2>2, <2>4
  <2> QED BY <2>1, <2>2, <2>3, <2>5, <2>6
<1>11. Clean(u) /\ NoNewGline(s, u)
  BY <1>5 DEF Clean, Banned, NoNewGline
<1> QED BY <1>1, <1>3, <1>5, <1>8, <1>9, <1>10, <1>11 DEF Core

\* The clock goes back: what is listed has more time left, while the events go back
\* with the clock, all but the minimum.
LEMMA ClockGoesBack ==
    ASSUME NEW s, NEW b \in Nat, Core(s, b), Clean(s)
    PROVE  LET u == ClockBack(s)
           IN  Core(u, b + 1) /\ Clean(u) /\ NoNewGline(s, u)
<1>1. PICK v, t, u : /\ v = TimePasses(s, -1) /\ t = SetBack(s.events, 1)
                     /\ u = [v EXCEPT !.events = t]
  OBVIOUS
<1>2. s \in Server /\ s.events \in Tables /\ Timing(s.events, b)
  BY ServerFields DEF Core
<1>3. t \in Tables /\ Timing(t, b + 1) /\ t.when = s.events.when
  BY <1>1, <1>2, ClockSetBack
<1>4. PICK d \in -1..1 : d = -1 /\ d \in Int
  OBVIOUS
<1>5. /\ u \in Server /\ v.online = s.online /\ v.lines = s.lines
      /\ \A m \in Masks : v.temp[m] = Later(s.temp[m], d)
      /\ \A m \in Masks : v.pending[m] # Never =>
           /\ s.pending[m] # Never /\ s.pending[m] \in Pending
           /\ v.pending[m].oper1 = s.pending[m].oper1
           /\ v.pending[m].oper2 = s.pending[m].oper2
           /\ v.pending[m].age1 = s.pending[m].age1 + d
           /\ v.pending[m].age2 = s.pending[m].age2 + d
           /\ LastAge(v.pending[m]) = LastAge(s.pending[m]) + d
  <2>1. v = TimePasses(s, d)
    BY <1>1, <1>4
  <2> QED BY <1>1, <1>2, <1>3, <2>1, TimesShifted
<1>6. /\ u.events = t /\ u.online = v.online /\ u.lines = v.lines
      /\ u.temp = v.temp /\ u.pending = v.pending
  BY <1>1, <1>5 DEF TimePasses, Server
<1>7. ClockBack(s) = u
  BY <1>1 DEF ClockBack
<1>8. ASSUME NEW m \in Masks
      PROVE  /\ u.temp[m] = Never <=> s.temp[m] = Never
             /\ s.temp[m] # Never => s.temp[m] \in Int /\ u.temp[m] = s.temp[m] + 1
  <2>1. s.temp[m] \in Int \cup {Never}
    BY <1>2, ServerFields
  <2>2. u.temp[m] = Later(s.temp[m], d)
    BY <1>5, <1>6
  <2>3. /\ u.temp[m] = Never <=> s.temp[m] = Never
        /\ s.temp[m] # Never => s.temp[m] \in Int /\ u.temp[m] = s.temp[m] - d
    BY <1>4, <2>1, <2>2, LaterIs
  <2> QED BY <1>4, <2>3
<1>9. ASSUME NEW e \in {"cleanup_glines", "cleanup_tklines"}
      PROVE  s.events.when[e] \in Int /\ Period[e] \in Nat
  <2>1. e \in Names /\ s.events.when[e] # Never
    BY <1>2, Three DEF Timing
  <2> QED BY <1>2, <2>1, TableFacts, Periods
<1>10. Listed(u)
  BY <1>5, <1>6, <1>8 DEF Core, Listed
<1>11. Lasting(u)
  <2> SUFFICES ASSUME NEW m \in Masks, u.temp[m] # Never
               PROVE  u.temp[m] > t.when["cleanup_tklines"] - Period["cleanup_tklines"]
    BY <1>6 DEF Lasting
  <2>1. s.temp[m] > s.events.when["cleanup_tklines"] - Period["cleanup_tklines"]
    BY <1>8 DEF Core, Lasting
  <2> QED BY <1>3, <1>8, <1>9, <2>1
<1>12. Votes(u)
  <2> SUFFICES ASSUME NEW m \in Masks, u.pending[m] # Never
               PROVE  /\ LastAge(u.pending[m]) <= PendingExpire + Period["cleanup_glines"]
                                                    - t.when["cleanup_glines"]
                      /\ u.pending[m].oper2 # NoOne =>
                           /\ u.pending[m].age1 - u.pending[m].age2 <= MaxWait
                           /\ ServerOf[u.pending[m].oper1] # ServerOf[u.pending[m].oper2]
    BY <1>6 DEF Votes
  <2>1. PICK p, q : p = s.pending[m] /\ q = u.pending[m]
    OBVIOUS
  <2>2. /\ p \in Pending /\ q.oper1 = p.oper1 /\ q.oper2 = p.oper2
        /\ q.age1 = p.age1 + d /\ q.age2 = p.age2 + d /\ LastAge(q) = LastAge(p) + d
    BY <1>5, <1>6, <2>1
  <2>3. /\ LastAge(p) <= PendingExpire + Period["cleanup_glines"]
                           - s.events.when["cleanup_glines"]
        /\ p.oper2 # NoOne => /\ p.age1 - p.age2 <= MaxWait
                              /\ ServerOf[p.oper1] # ServerOf[p.oper2]
    BY <1>5, <1>6, <2>1 DEF Core, Votes
  <2>4. p.age1 \in Int /\ p.age2 \in Int /\ LastAge(p) \in Int
    BY <2>2 DEF Pending, LastAge
  <2>5. LastAge(q) <= PendingExpire + Period["cleanup_glines"] - t.when["cleanup_glines"]
    BY <1>3, <1>4, <1>9, <2>2, <2>3, <2>4, Waits
  <2>6. q.age1 - q.age2 = p.age1 - p.age2
    BY <1>4, <2>2, <2>4
  <2> QED BY <2>1, <2>2, <2>3, <2>5, <2>6
<1>13. Clean(u) /\ NoNewGline(s, u)
  BY <1>5, <1>6 DEF Clean, Banned, NoNewGline
<1> QED BY <1>3, <1>5, <1>6, <1>7, <1>10, <1>11, <1>12, <1>13 DEF Core

---------------------------------------------------------------------------
(* The actions.                                                            *)

\* A server with the same bans, clients and requests, whatever its split mode.
LEMMA SameServerFields ==
    ASSUME NEW s, NEW u \in Server, NEW b \in Nat, Core(s, b), Clean(s),
           u.online = s.online, u.lines = s.lines, u.temp = s.temp, u.pending = s.pending,
           Timing(u.events, b), SameCleanups(s.events, u.events)
    PROVE  Core(u, b) /\ Clean(u) /\ NoNewGline(s, u)
<1>1. Listed(u)
  BY DEF Core, Listed
<1>2. Lasting(u)
  BY DEF Core, Lasting, SameCleanups
<1>3. Votes(u)
  BY DEF Core, Votes, SameCleanups
<1>4. Clean(u) /\ NoNewGline(s, u)
  BY DEF Clean, Banned, NoNewGline
<1> QED BY <1>1, <1>2, <1>3, <1>4 DEF Core

\* What every action but a vote does.
Quiet == Inv' /\ NoNewGline(ircd, ircd')

\* What the invariant says, in the forms the steps need.
LEMMA InvFacts ==
    ASSUME Inv
    PROVE  /\ backs \in 0..MaxBack /\ backs \in Nat /\ Core(ircd, backs) /\ Clean(ircd)
           /\ ircd \in Server /\ ircd.events \in Tables /\ Timing(ircd.events, backs)
<1>1. backs \in Nat
  BY Waits DEF Inv
<1> QED BY <1>1, ServerFields DEF Inv, Core

\* io_loop, as time goes on.
LEMMA TurnKeeps ==
    ASSUME Inv, NEW d \in 0..1, Turn(d)
    PROVE  Quiet
<1>1. PICK s, u : s = LoopTop(ircd) /\ u = TimePasses(s, d)
  OBVIOUS
<1>2. Core(s, backs) /\ Clean(s) /\ NoNewGline(ircd, s) /\ Topped(s.events)
  BY <1>1, InvFacts, LoopTopped
<1>3. Core(u, backs) /\ Clean(u) /\ NoNewGline(s, u)
  BY <1>1, <1>2, InvFacts, ClockGoesOn
<1>4. ircd' = u /\ backs' = backs
  BY <1>1 DEF Turn
<1>5. NoNewGline(ircd, u)
  BY <1>2, <1>3 DEF NoNewGline
<1> QED BY <1>3, <1>4, <1>5 DEF Quiet, Inv

\* io_loop, when the clock goes back.
LEMMA TurnBackKeeps ==
    ASSUME Inv, TurnBack
    PROVE  Quiet
<1>1. PICK s, u : s = LoopTop(ircd) /\ u = ClockBack(s)
  OBVIOUS
<1>2. Core(s, backs) /\ Clean(s) /\ NoNewGline(ircd, s)
  BY <1>1, InvFacts, LoopTopped
<1>3. Core(u, backs + 1) /\ Clean(u) /\ NoNewGline(s, u)
  BY <1>1, <1>2, InvFacts, ClockGoesBack
<1>4. ircd' = u /\ backs' = backs + 1 /\ backs < MaxBack
  BY <1>1 DEF TurnBack
<1>5. backs + 1 \in 0..MaxBack
  BY <1>4, InvFacts, Waits
<1>6. NoNewGline(ircd, u)
  BY <1>2, <1>3 DEF NoNewGline
<1> QED BY <1>3, <1>4, <1>5, <1>6 DEF Quiet, Inv

\* A client whom no line matches comes.
LEMMA ConnectKeeps ==
    ASSUME Inv, NEW c \in Clients, Connect(c)
    PROVE  Quiet
<1>1. PICK X : X = ircd.online \cup {c}
  OBVIOUS
<1>2. X \in SUBSET Clients
  BY <1>1, InvFacts, ServerFields
<1>3. PICK u : u = [ircd EXCEPT !.online = X]
  OBVIOUS
<1>4. Core(u, backs) /\ SameBans(ircd, u) /\ u.online = X
  BY <1>2, <1>3, InvFacts, OnlineSet
<1>5. ircd' = u /\ backs' = backs /\ c \notin Banned(ircd)
  BY <1>1, <1>3 DEF Connect
<1>6. Banned(u) = Banned(ircd)
  BY <1>4 DEF SameBans, Banned
<1>7. Clean(u)
  BY <1>1, <1>4, <1>5, <1>6, InvFacts DEF Clean
<1>8. NoNewGline(ircd, u)
  BY <1>4 DEF SameBans, NoNewGline
<1> QED BY <1>4, <1>5, <1>7, <1>8 DEF Quiet, Inv

\* A client leaves.
LEMMA LeaveKeeps ==
    ASSUME Inv, NEW c \in Clients, Leave(c)
    PROVE  Quiet
<1>1. PICK u : u = Exit(ircd, {c})
  OBVIOUS
<1>2. Core(u, backs) /\ SameBans(ircd, u) /\ u.online = ircd.online \ {c}
  BY <1>1, InvFacts, Exits
<1>3. Clean(u)
  BY <1>2, InvFacts, FewerBanned DEF SameBans
<1>4. NoNewGline(ircd, u)
  BY <1>2 DEF SameBans, NoNewGline
<1>5. ircd' = u /\ backs' = backs
  BY <1>1 DEF Leave
<1> QED BY <1>2, <1>3, <1>4, <1>5 DEF Quiet, Inv

\* KLINE bans at once.
LEMMA KlineKeeps ==
    ASSUME Inv, NEW m \in Masks, Kline(m)
    PROVE  Quiet
<1>1. PICK u : u = apply_kline(ircd, m)
  OBVIOUS
<1>2. Core(u, backs) /\ Clean(u) /\ u.lines = ircd.lines \cup {Line("K", m)}
  BY <1>1, InvFacts, LineSet DEF apply_kline
<1>3. NoNewGline(ircd, u)
  BY <1>2, LineIs DEF NoNewGline
<1>4. ircd' = u /\ backs' = backs
  BY <1>1 DEF Kline
<1> QED BY <1>2, <1>3, <1>4 DEF Quiet, Inv

\* So does a temporary KLINE.
LEMMA TklineKeeps ==
    ASSUME Inv, NEW m \in Masks, NEW hold \in Holds, Tkline(m, hold)
    PROVE  Quiet
<1>0. hold \in Nat \ {0}
  BY BansAssumption
<1>1. PICK s, u : s = add_temp_kline(ircd, m, hold) /\ u = check_klines(s)
  OBVIOUS
<1>2. Core(s, backs) /\ s.lines = ircd.lines \cup {Line("T", m)}
  BY <1>0, <1>1, InvFacts, TempSet
<1>3. Core(u, backs) /\ SameBans(s, u) /\ Clean(u)
  BY <1>1, <1>2, InvFacts, KlinesChecked
<1>4. NoNewGline(ircd, u)
  BY <1>2, <1>3, LineIs DEF NoNewGline, SameBans
<1>5. ircd' = u /\ backs' = backs
  BY <1>1 DEF Tkline, apply_tkline
<1> QED BY <1>3, <1>4, <1>5 DEF Quiet, Inv

\* UNKLINE.
LEMMA UnklineKeeps ==
    ASSUME Inv, NEW m \in Masks, Unkline(m)
    PROVE  Quiet
<1>1. PICK u : u = mo_unkline(ircd, m)
  OBVIOUS
<1>2. Core(u, backs) /\ Clean(u) /\ NoNewGline(ircd, u)
  BY <1>1, InvFacts, Unklined
<1>3. ircd' = u /\ backs' = backs
  BY <1>1 DEF Unkline
<1> QED BY <1>2, <1>3 DEF Quiet, Inv

\* The administrator edits the file.
LEMMA EditFileKeeps ==
    ASSUME Inv, NEW m \in Masks, EditFile(m)
    PROVE  Quiet
<1>1. PICK X : X = ircd.file \cup {m}
  OBVIOUS
<1>2. X \in SUBSET Masks
  BY <1>1, InvFacts, ServerFields
<1>3. PICK u : u = [ircd EXCEPT !.file = X]
  OBVIOUS
<1>4. Core(u, backs) /\ u.lines = ircd.lines /\ u.online = ircd.online
  BY <1>2, <1>3, InvFacts, FileSet
<1>5. Clean(u) /\ NoNewGline(ircd, u)
  BY <1>4, InvFacts, FewerBanned DEF NoNewGline
<1>6. ircd' = u /\ backs' = backs
  BY <1>1, <1>3 DEF EditFile
<1> QED BY <1>4, <1>5, <1>6 DEF Quiet, Inv

\* A rehash reads the file, and enforces what it says.
LEMMA RehashKeeps ==
    ASSUME Inv, Rehash
    PROVE  Quiet
<1>1. PICK u : u = rehash(ircd)
  OBVIOUS
<1>2. Core(u, backs) /\ Clean(u) /\ NoNewGline(ircd, u)
  BY <1>1, InvFacts, Rehashed
<1>3. ircd' = u /\ backs' = backs
  BY <1>1 DEF Rehash
<1> QED BY <1>2, <1>3 DEF Quiet, Inv

\* A request for a G-line, of an operator of this server or of another.
LEMMA VoteKeeps ==
    ASSUME Inv, NEW o \in Opers, NEW m \in Masks, Vote(o, m)
    PROVE  /\ Inv'
           /\ \/ NoNewGline(ircd, ircd')
              \/ Third(ircd, o, m) /\ ircd'.lines = ircd.lines \cup {Line("G", m)}
<1>1. PICK u : u = check_majority_gline(ircd, o, m)
  OBVIOUS
<1>2. /\ Core(u, backs) /\ Clean(u)
      /\ \/ NoNewGline(ircd, u)
         \/ Third(ircd, o, m) /\ u.lines = ircd.lines \cup {Line("G", m)}
  BY <1>1, InvFacts, Voted
<1>3. ircd' = u /\ backs' = backs
  BY <1>1 DEF Vote, Gline, RemoteGline
<1> QED BY <1>2, <1>3, InvFacts DEF Inv

\* A server links.
LEMMA LinkKeeps ==
    ASSUME Inv, Link
    PROVE  Quiet
<1>1. PICK s, u : s = ircd /\ u = [s EXCEPT !.peer = TRUE]
  OBVIOUS
<1>2. s \in Server /\ Core(s, backs) /\ Clean(s)
  BY <1>1, InvFacts
<1>3. /\ u \in Server /\ u.events = s.events /\ u.online = s.online /\ u.lines = s.lines
      /\ u.temp = s.temp /\ u.pending = s.pending
  BY <1>1, <1>2 DEF Server
<1>4. Core(u, backs) /\ Clean(u) /\ NoNewGline(s, u)
  BY <1>1, <1>2, <1>3, InvFacts, SameServerFields DEF SameCleanups
<1>5. ircd' = u /\ backs' = backs
  BY <1>1 DEF Link
<1> QED BY <1>1, <1>4, <1>5, InvFacts DEF Quiet, Inv

\* A server is lost.
LEMMA SplitKeeps ==
    ASSUME Inv, Split
    PROVE  Quiet
<1>1. PICK s, v, u : /\ s = ircd /\ v = [s EXCEPT !.peer = FALSE]
                     /\ u = update_client_exit_stats(v)
  OBVIOUS
<1>2. s \in Server /\ Core(s, backs) /\ Clean(s)
  BY <1>1, InvFacts
<1>3. /\ v \in Server /\ v.events = s.events /\ v.online = s.online /\ v.lines = s.lines
      /\ v.temp = s.temp /\ v.pending = s.pending
  BY <1>1, <1>2 DEF Server
<1>4. Core(v, backs) /\ Clean(v) /\ NoNewGline(s, v)
  BY <1>1, <1>2, <1>3, InvFacts, SameServerFields DEF SameCleanups
<1>5. Core(u, backs) /\ SameBans(v, u) /\ u.online = v.online
  BY <1>1, <1>4, InvFacts, StatsUpdated
<1>6. Clean(u) /\ NoNewGline(s, u)
  BY <1>4, <1>5, FewerBanned DEF SameBans, NoNewGline
<1>7. ircd' = u /\ backs' = backs
  BY <1>1 DEF Split
<1> QED BY <1>1, <1>5, <1>6, <1>7, InvFacts DEF Quiet, Inv

\* quote_splitmode, in its three forms.
LEMMA SplitmodeOffKeeps ==
    ASSUME Inv, SplitmodeOff
    PROVE  Quiet
<1>1. PICK s, t : s = ircd /\ t = eventDelete(s.events, "check_splitmode")
  OBVIOUS
<1>2. s \in Server /\ Core(s, backs) /\ Clean(s)
  BY <1>1, InvFacts
<1>3. t \in Tables /\ Timing(t, backs) /\ SameCleanups(s.events, t)
  BY <1>1, InvFacts, EventDeleted
<1>4. PICK u : u = [s EXCEPT !.splitmode = FALSE, !.splitchecking = FALSE, !.events = t]
  OBVIOUS
<1>5. /\ u \in Server /\ u.events = t /\ u.online = s.online /\ u.lines = s.lines
      /\ u.temp = s.temp /\ u.pending = s.pending
  <2> HIDE <1>1
  <2> QED BY <1>2, <1>3, <1>4 DEF Server
<1>6. Core(u, backs) /\ Clean(u) /\ NoNewGline(s, u)
  BY <1>2, <1>3, <1>5, InvFacts, SameServerFields
<1>7. ircd' = u /\ backs' = backs
  BY <1>1, <1>4 DEF SplitmodeOff
<1> QED BY <1>1, <1>6, <1>7, InvFacts DEF Quiet, Inv

\* SPLITMODE ON.
LEMMA SplitmodeOnKeeps ==
    ASSUME Inv, SplitmodeOn
    PROVE  Quiet
<1>1. PICK s, u : s = ircd /\ u = [s EXCEPT !.splitmode = TRUE, !.splitchecking = FALSE]
  OBVIOUS
<1>2. s \in Server /\ Core(s, backs) /\ Clean(s)
  BY <1>1, InvFacts
<1>3. /\ u \in Server /\ u.events = s.events /\ u.online = s.online /\ u.lines = s.lines
      /\ u.temp = s.temp /\ u.pending = s.pending
  BY <1>1, <1>2 DEF Server
<1>4. Core(u, backs) /\ Clean(u) /\ NoNewGline(s, u)
  BY <1>1, <1>2, <1>3, InvFacts, SameServerFields DEF SameCleanups
<1>5. ircd' = u /\ backs' = backs
  BY <1>1 DEF SplitmodeOn
<1> QED BY <1>1, <1>4, <1>5, InvFacts DEF Quiet, Inv

\* SPLITMODE AUTO.
LEMMA SplitmodeAutoKeeps ==
    ASSUME Inv, SplitmodeAuto
    PROVE  Quiet
<1>1. PICK s, v, u : /\ s = ircd /\ v = [s EXCEPT !.splitchecking = TRUE]
                     /\ u = check_splitmode(v)
  OBVIOUS
<1>2. s \in Server /\ Core(s, backs) /\ Clean(s)
  BY <1>1, InvFacts
<1>3. /\ v \in Server /\ v.events = s.events /\ v.online = s.online /\ v.lines = s.lines
      /\ v.temp = s.temp /\ v.pending = s.pending
  BY <1>1, <1>2 DEF Server
<1>4. Core(v, backs) /\ Clean(v) /\ NoNewGline(s, v)
  BY <1>1, <1>2, <1>3, InvFacts, SameServerFields DEF SameCleanups
<1>5. Core(u, backs) /\ SameBans(v, u) /\ u.online = v.online
  BY <1>1, <1>4, InvFacts, SplitChecked
<1>6. Clean(u) /\ NoNewGline(s, u)
  BY <1>4, <1>5, FewerBanned DEF SameBans, NoNewGline
<1>7. ircd' = u /\ backs' = backs
  BY <1>1 DEF SplitmodeAuto
<1> QED BY <1>1, <1>5, <1>6, <1>7, InvFacts DEF Quiet, Inv

\* The server starts without bans and with two events.
LEMMA InitInv ==
    ASSUME Init
    PROVE  Inv
<1> DEFINE E == {"cleanup_glines", "cleanup_tklines"}
           P == Period["cleanup_glines"]  Q == Period["cleanup_tklines"]
<1>1. PICK t : t = Started(E)
  OBVIOUS
<1>2. /\ P \in Nat \ {0} /\ P <= MaxPeriod /\ Q \in Nat \ {0} /\ Q <= MaxPeriod
      /\ MaxPeriod \in Nat
  BY Periods, Three
<1>3. t.min \in Int /\ t.min = IF P <= Q THEN P ELSE Q
  <2>1. {Period[e] : e \in E} = {P, Q}
    OBVIOUS
  <2>2. t.min = Min({P, Q})
    BY <1>1, <2>1 DEF Started
  <2> HIDE DEF P, Q
  <2> QED BY <1>2, <2>2, Earlier
<1>4. /\ t = [when |-> t.when, min |-> t.min]
      /\ t.when = [e \in Names |-> IF e \in E THEN Period[e] ELSE Never]
  BY <1>1 DEF Started
<1>5. \A e \in Names : /\ t.when[e] = IF e \in E THEN Period[e] ELSE Never
                       /\ Period[e] \in Nat \ {0} /\ Period[e] <= MaxPeriod
                       /\ Period[e] # Never
  BY <1>4, Periods, EventsAssumption
<1>6. t \in Tables
  <2>1. t.when \in [Names -> Int \cup {Never}]
    BY <1>4, <1>5
  <2> HIDE DEF E
  <2> QED BY <1>3, <1>4, <2>1 DEF Tables
<1>7. /\ t.when["cleanup_glines"] = P /\ t.when["cleanup_tklines"] = Q
      /\ P # Never /\ Q # Never /\ t.min # Never
  BY <1>2, <1>3, <1>5, Three, EventsAssumption
<1>8. ASSUME NEW e \in Names, t.when[e] # Never
      PROVE  t.when[e] = Period[e] /\ t.min <= Period[e]
  <2>1. e \in E /\ t.when[e] = Period[e]
    BY <1>5, <1>8
  <2> QED BY <1>2, <1>3, <2>1
<1> HIDE DEF P, Q, E
<1>9. ASSUME NEW e \in Names PROVE Slot(t, 0, e)
  BY <1>2, <1>3, <1>5, <1>7, <1>8 DEF Slot
<1>10. Minimum(t, 0)
  BY <1>2, <1>3, <1>7 DEF Minimum
<1>11. Timing(t, 0)
  BY <1>7, <1>9, <1>10 DEF Timing
<1>12. PICK s : s = ircd
  OBVIOUS
<1>13. s = [events |-> t, online |-> {}, lines |-> {}, temp |-> [m \in Masks |-> Never],
            file |-> {}, pending |-> [m \in Masks |-> Never],
            peer |-> TRUE, splitmode |-> FALSE, splitchecking |-> TRUE]
  BY <1>1, <1>12 DEF Init, E
<1>14. s \in Server
  <2>1. /\ [m \in Masks |-> Never] \in [Masks -> Int \cup {Never}]
        /\ [m \in Masks |-> Never] \in [Masks -> Pending \cup {Never}]
    OBVIOUS
  <2> QED BY <1>6, <1>13, <2>1 DEF Server
<1>15. Listed(s) /\ Lasting(s) /\ Votes(s) /\ Clean(s)
  BY <1>13 DEF Listed, Lasting, Votes, Clean
<1>16. backs = 0 /\ 0 \in 0..MaxBack
  BY Waits DEF Init
<1>17. s.events = t
  BY <1>13
<1> QED BY <1>11, <1>12, <1>14, <1>15, <1>16, <1>17 DEF Inv, Core

\* A step that changes something keeps the invariant, and sets a G-line only when a
\* third operator votes.
LEMMA Steps ==
    ASSUME Inv, Next
    PROVE  /\ Inv'
           /\ \/ NoNewGline(ircd, ircd')
              \/ \E o \in Opers, m \in Masks :
                    /\ Vote(o, m) /\ Third(ircd, o, m)
                    /\ ircd'.lines = ircd.lines \cup {Line("G", m)}
<1>1. CASE \E d \in 0..1 : Turn(d)
  BY <1>1, TurnKeeps DEF Quiet
<1>2. CASE TurnBack
  BY <1>2, TurnBackKeeps DEF Quiet
<1>3. CASE \E c \in Clients : Connect(c) \/ Leave(c)
  BY <1>3, ConnectKeeps, LeaveKeeps DEF Quiet
<1>4. CASE \E m \in Masks : Kline(m) \/ Unkline(m) \/ EditFile(m)
  BY <1>4, KlineKeeps, UnklineKeeps, EditFileKeeps DEF Quiet
<1>5. CASE \E m \in Masks : \E hold \in Holds : Tkline(m, hold)
  BY <1>5, TklineKeeps DEF Quiet
<1>6. CASE \E m \in Masks : \E o \in Opers : Vote(o, m)
  BY <1>6, VoteKeeps
<1>7. CASE Rehash
  BY <1>7, RehashKeeps DEF Quiet
<1>8. CASE Link \/ Split
  BY <1>8, LinkKeeps, SplitKeeps DEF Quiet
<1>9. CASE SplitmodeOff \/ SplitmodeOn \/ SplitmodeAuto
  BY <1>9, SplitmodeOffKeeps, SplitmodeOnKeeps, SplitmodeAutoKeeps DEF Quiet
<1> QED BY <1>1, <1>2, <1>3, <1>4, <1>5, <1>6, <1>7, <1>8, <1>9 DEF Next

---------------------------------------------------------------------------
(* The theorems.                                                           *)

\* The invariant: where the events of the loop can be, what is listed, and how long it
\* has been there, whatever the operators, the peer, the clients and the clock do.
THEOREM Invariance == Spec => []Inv
<1>1. Init => Inv
  BY InitInv
<1>2. Inv /\ [Next]_vars => Inv'
  <2>1. ASSUME Inv, UNCHANGED vars PROVE Inv'
    BY <2>1 DEF Inv, vars
  <2> QED BY <2>1, Steps
<1> QED BY <1>1, <1>2, PTL DEF Spec

\* How late an event can be.
LEMMA EventTimes ==
    ASSUME Inv
    PROVE  /\ ircd.events.when \in [Names -> (-MaxLate..MaxLate) \cup {Never}]
           /\ ircd.events.min \in (-MaxLate..MaxLate) \cup {Never}
<1>1. PICK t : t = ircd.events
  OBVIOUS
<1>2. t \in Tables /\ Timing(t, backs) /\ backs \in 0..MaxBack
  BY <1>1, InvFacts
<1>3. /\ MaxLate = MaxPeriod + MaxBack /\ MaxBack \in Nat /\ MaxPeriod \in Nat
      /\ \A e \in Names : Period[e] <= MaxPeriod /\ Period[e] \in Nat
  BY Waits, Periods
<1>4. ASSUME NEW e \in Names PROVE t.when[e] \in (-MaxLate..MaxLate) \cup {Never}
  <2> SUFFICES ASSUME t.when[e] # Never PROVE t.when[e] \in -MaxLate..MaxLate
    OBVIOUS
  <2>1. t.when[e] \in Int
    BY <1>2, TableFacts
  <2>2. t.when[e] <= Period[e] /\ t.when[e] >= - MaxPeriod - backs
    BY <1>2 DEF Timing, Slot
  <2> QED BY <1>2, <1>3, <2>1, <2>2
<1>5. t.when \in [Names -> (-MaxLate..MaxLate) \cup {Never}]
  BY <1>2, <1>4, TableFacts
<1>6. t.min \in (-MaxLate..MaxLate) \cup {Never}
  <2> SUFFICES ASSUME t.min # Never PROVE t.min \in -MaxLate..MaxLate
    OBVIOUS
  <2>1. t.min \in Int
    BY <1>2, TableFacts
  <2>2. t.min <= MaxPeriod + backs /\ t.min >= - MaxPeriod
    BY <1>2 DEF Timing, Minimum
  <2> QED BY <1>2, <1>3, <2>1, <2>2
<1> QED BY <1>1, <1>5, <1>6

\* The fields have their types; no event is further off, ahead or behind, than the
\* longest frequency and the seconds the clock went back, and no request for a G-line
\* is older than two waits.
THEOREM TypeCorrect == Spec => []TypeOK
<1>1. Inv => TypeOK
  <2> SUFFICES ASSUME Inv PROVE TypeOK
    OBVIOUS
  <2>1. ASSUME NEW m \in Masks, ircd.pending[m] # Never
        PROVE  ircd.pending[m] \in Pending /\ ircd.pending[m].age1 <= 2 * MaxWait
    BY <2>1, InvFacts, Waiting
  <2> QED BY <2>1, EventTimes, InvFacts, ServerFields DEF TypeOK
<1> QED BY <1>1, Invariance, PTL

\* check_klines after every line that is set, and verify_access before every client that
\* comes, keep out whom a line matches; and no path takes a temporary line from the
\* table and leaves it on the list, or the other way round.
THEOREM BansEnforced == Spec => []BansInForce
<1>1. Inv => BansInForce
  BY DEF Inv, Core, Clean, Listed, BansInForce
<1> QED BY <1>1, Invariance, PTL

\* cleanup_tklines comes in time, although eventAdd may put the minimum off and
\* set_back_events leaves it behind.
THEOREM TempBansExpire == Spec => []TempBansEnd
<1>1. Inv => TempBansEnd
  <2> SUFFICES ASSUME Inv, NEW m \in Masks, ircd.temp[m] # Never
               PROVE  ircd.temp[m] > - Period["cleanup_tklines"] - MaxLate
    BY DEF TempBansEnd
  <2> DEFINE w == ircd.events.when["cleanup_tklines"]  P == Period["cleanup_tklines"]
  <2>1. ircd.temp[m] > w - P
    BY InvFacts DEF Core, Lasting
  <2>2. w \in -MaxLate..MaxLate
    <3>1. w \in (-MaxLate..MaxLate) \cup {Never}
      BY EventTimes, Three
    <3>2. w # Never
      BY InvFacts DEF Timing
    <3> QED BY <3>1, <3>2
  <2>3. ircd.temp[m] \in Int
    BY InvFacts, ServerFields
  <2>4. P \in Nat /\ MaxLate \in Nat
    BY Periods, Three, Waits
  <2> HIDE DEF w, P
  <2>5. ircd.temp[m] > - P - MaxLate
    BY <2>1, <2>2, <2>3, <2>4
  <2> QED BY <2>5 DEF P
<1> QED BY <1>1, Invariance, PTL

\* Three that differ are three.
LEMMA ThreeServers ==
    ASSUME NEW x, NEW y, NEW z, x # y, y # z, x # z
    PROVE  Cardinality({x, y, z}) = 3
<1>1. IsFiniteSet({x}) /\ Cardinality({x}) = 1
  BY FS_Singleton
<1>2. IsFiniteSet({x} \cup {y}) /\ Cardinality({x} \cup {y}) = 2
  BY <1>1, FS_AddElement
<1>3. Cardinality(({x} \cup {y}) \cup {z}) = 3
  <2>1. z \notin {x} \cup {y}
    OBVIOUS
  <2>2. Cardinality(({x} \cup {y}) \cup {z}) = Cardinality({x} \cup {y}) + 1
    BY <1>2, <2>1, FS_AddElement
  <2> QED BY <1>2, <2>2
<1>4. ({x} \cup {y}) \cup {z} = {x, y, z}
  OBVIOUS
<1> QED BY <1>3, <1>4

\* The property of a step, named for the proof.
ThreeVotes ==
    \A m \in Masks : Line("G", m) \in ircd'.lines \ ircd.lines =>
        LET p == ircd.pending[m] IN
        /\ p # Never /\ p.oper2 # NoOne
        /\ p.age1 - p.age2 <= MaxWait /\ p.age2 <= MaxWait
        /\ \E o \in Opers : Vote(o, m) /\ Cardinality({ServerOf[x] : x \in {o, p.oper1, p.oper2}}) = 3

\* The vote that sets a line is the third, by someone on a third server.
LEMMA ThirdVote ==
    ASSUME Inv, NEW o \in Opers, NEW n \in Masks, Vote(o, n), Third(ircd, o, n),
           ircd'.lines = ircd.lines \cup {Line("G", n)}
    PROVE  ThreeVotes
<1> SUFFICES ASSUME NEW m \in Masks, Line("G", m) \in ircd'.lines \ ircd.lines
             PROVE  LET p == ircd.pending[m] IN
                    /\ p # Never /\ p.oper2 # NoOne
                    /\ p.age1 - p.age2 <= MaxWait /\ p.age2 <= MaxWait
                    /\ \E x \in Opers : /\ Vote(x, m)
                                        /\ Cardinality({ServerOf[y] : y \in {x, p.oper1, p.oper2}}) = 3
  BY DEF ThreeVotes
<1>1. m = n
  BY LineIs
<1>2. PICK p : p = ircd.pending[m]
  OBVIOUS
<1>3. /\ p # Never /\ p.oper2 # NoOne
      /\ ServerOf[o] # ServerOf[p.oper1] /\ ServerOf[o] # ServerOf[p.oper2]
  BY <1>1, <1>2 DEF Third
<1>4. /\ LastAge(p) <= MaxWait /\ p.age1 - p.age2 <= MaxWait
      /\ ServerOf[p.oper1] # ServerOf[p.oper2]
  BY <1>2, <1>3, InvFacts, Waiting
<1>5. p.age2 <= MaxWait
  BY <1>3, <1>4 DEF LastAge
<1>6. PICK x, y, z : x = ServerOf[o] /\ y = ServerOf[p.oper1] /\ z = ServerOf[p.oper2]
  OBVIOUS
<1>7. Cardinality({ServerOf[w] : w \in {o, p.oper1, p.oper2}}) = 3
  <2>1. Cardinality({x, y, z}) = 3
    BY <1>3, <1>4, <1>6, ThreeServers
  <2>2. {ServerOf[w] : w \in {o, p.oper1, p.oper2}} = {x, y, z}
    BY <1>6
  <2> QED BY <2>1, <2>2
<1>8. Vote(o, m)
  BY <1>1
<1> QED BY <1>2, <1>3, <1>4, <1>5, <1>7, <1>8

\* check_majority_gline sets a G-line only for the third of three servers, and counts no
\* request that has waited for longer than GLINE_PENDING_EXPIRE and the next cleanup.
THEOREM ThreeVotesTogether == Spec => VotesTogether
<1>1. Inv /\ [Next]_vars => [ThreeVotes]_vars
  <2> SUFFICES ASSUME Inv, Next PROVE ThreeVotes
    OBVIOUS
  <2>1. CASE NoNewGline(ircd, ircd')
    BY <2>1 DEF NoNewGline, ThreeVotes
  <2>2. CASE ~NoNewGline(ircd, ircd')
    BY <2>2, Steps, ThirdVote
  <2> QED BY <2>1, <2>2
<1>2. [][ThreeVotes]_vars => VotesTogether
  BY PTL DEF ThreeVotes, VotesTogether
<1> QED BY <1>1, <1>2, Invariance, PTL DEF Spec
============================================================================
