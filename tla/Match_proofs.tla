--------------------------- MODULE Match_proofs ---------------------------
(***************************************************************************)
(* Proofs about Match, for all masks and names over any characters and any *)
(* limit of turns: nothing outside both strings is read, except the byte   *)
(* before an empty mask.                                                   *)
(***************************************************************************)
EXTENDS Match, WellFoundedInduction, TLAPS

---------------------------------------------------------------------------
(* Facts about the operators.                                              *)

\* A set of naturals has a least element.
LEMMA Least ==
    ASSUME NEW T \in SUBSET Nat, T # {}
    PROVE  \E x \in T : \A y \in T : x <= y
<1> DEFINE R == OpToRel(<, Nat)
<1>1. IsWellFoundedOn(R, Nat)
  BY NatLessThanWellFounded
<1>2. \A x, y \in Nat : y < x => <<y, x>> \in R
  BY DEF OpToRel
<1> HIDE DEF R
<1>3. PICK x \in T : \A y \in T : ~(<<y, x>> \in R)
  BY <1>1, WFMin
<1>4. x \in Nat /\ \A y \in T : y \in Nat /\ ~(y < x)
  BY <1>2, <1>3
<1> QED BY <1>3, <1>4

\* A place in a string, and one past a character of it.
LEMMA Places ==
    ASSUME NEW s \in Seq(Chars), NEW i \in 1..Len(s) + 1
    PROVE  /\ Len(s) \in Nat /\ i \in Nat
           /\ At(s, i) # Zero <=> i <= Len(s)
           /\ Advance(s, i) \in 1..Len(s) + 1
           /\ Advance(s, i) = IF i <= Len(s) THEN i + 1 ELSE i
<1>1. Len(s) \in Nat /\ DOMAIN s = 1..Len(s) /\ i \in Nat
  OBVIOUS
<1>2. At(s, i) # Zero <=> i <= Len(s)
  <2>1. CASE i <= Len(s)
    <3>1. s[i] \in Chars /\ At(s, i) = s[i]
      BY <1>1, <2>1 DEF At
    <3> QED BY <2>1, <3>1, MatchAssumption
  <2>2. CASE ~(i <= Len(s))
    BY <1>1, <2>2 DEF At
  <2> QED BY <2>1, <2>2
<1> QED BY <1>1, <1>2 DEF Advance

\* What follows the stars at a place of the mask.
LEMMA AfterStars ==
    ASSUME mask \in Seq(Chars), NEW i \in 1..Len(mask) + 1
    PROVE  PastStars(i) \in i..Len(mask) + 1
<1>1. Len(mask) \in Nat /\ DOMAIN mask = 1..Len(mask) /\ i \in Nat
  OBVIOUS
<1> DEFINE T == {k \in i..Len(mask) + 1 : At(mask, k) # "*"}
<1>2. At(mask, Len(mask) + 1) = Zero
  BY <1>1, Places
<1>3. Len(mask) + 1 \in T
  BY <1>1, <1>2 DEF Zero
<1>4. T \in SUBSET Nat
  BY <1>1
<1>5. PICK k \in T : \A y \in T : k <= y
  BY <1>3, <1>4, Least
<1>6. ASSUME NEW l \in i..k - 1 PROVE mask[l] = "*"
  <2>1. l \in i..Len(mask) + 1 /\ l <= Len(mask) /\ ~(k <= l) /\ l \in 1..Len(mask)
    BY <1>1, <1>5
  <2>2. At(mask, l) = "*"
    BY <1>5, <2>1
  <2> QED BY <1>1, <2>1, <2>2 DEF At
<1>7. \E x \in i..Len(mask) + 1 : At(mask, x) # "*" /\ \A l \in i..x - 1 : mask[l] = "*"
  BY <1>5, <1>6
<1> QED BY <1>7 DEF PastStars

\* The scan back from a place after the first stays in the mask; from the first it reads
\* the place before the mask and no other.
LEMMA BackStays ==
    ASSUME NEW i \in Nat, i >= 1
    PROVE  /\ ScannedBack(i) \subseteq 0..i - 1
           /\ 0 \in ScannedBack(i) => i = 1
<1>1. ScannedBack(i) \subseteq 0..i - 1
  BY DEF ScannedBack
<1>2. ASSUME 0 \in ScannedBack(i) PROVE i = 1
  <2>1. \A l \in 1..i - 1 : l > 1
    BY <1>2 DEF ScannedBack
  <2>2. CASE i > 1
    <3>1. 1 \in 1..i - 1
      BY <2>2
    <3> QED BY <2>1, <3>1
  <2> QED BY <2>2
<1> QED BY <1>1, <1>2

---------------------------------------------------------------------------
(* The inductive invariant.                                                *)

Arguments == mask \in Seq(Chars) /\ name \in Seq(Chars)

\* Both places are in both strings, and the scan is never before the place from
\* which it starts again.
Bounded(s) ==
    /\ s \in Locals
    /\ {s.m, s.ma} \subseteq 1..Len(mask) + 1 /\ s.ma <= s.m
    /\ {s.n, s.na} \subseteq 1..Len(name) + 1 /\ s.na <= s.n

\* When the mask has moved on since the last *, so has the name, except for a
\* backslash just read: a restart after it cannot go past the end.
Scan(s) == Bounded(s) /\ (s.wild /\ s.quote # 1 /\ s.ma < s.m => s.na < s.n)

\* The same once the turn has counted quote.
Counted(s) == Bounded(s) /\ (s.wild /\ s.quote = 0 /\ s.ma < s.m => s.na < s.n)

\* What the scan back of a turn may have read.
InMask(places) ==
    /\ places \subseteq 0..Len(mask)
    /\ 0 \in places => mask = <<>> /\ name # <<>>

\* When match has returned, it is enough that the places it was at are in the strings.
Inv ==
    /\ Arguments /\ Bounded(at) /\ InMask(back)
    /\ result = "none" => Scan(at)

---------------------------------------------------------------------------
(* The parts of a turn.                                                    *)

\* Counting a quote moves nothing.
LEMMA QuoteCounted ==
    ASSUME NEW s, Scan(s)
    PROVE  Counted(CountQuote(s))
<1>1. /\ s \in Locals /\ s.quote \in 0..2 /\ CountQuote(s).quote \in 0..2
      /\ CountQuote(s).quote = 0 => s.quote # 1
  BY DEF Scan, Bounded, Locals, CountQuote
<1>2. \A f \in {"m", "n", "ma", "na", "wild"} : CountQuote(s)[f] = s[f]
  BY <1>1 DEF CountQuote, Locals
<1>3. CountQuote(s) \in Locals
  BY <1>1 DEF CountQuote, Locals
<1> QED BY <1>1, <1>2, <1>3 DEF Scan, Bounded, Counted

\* A row of stars, and a backslash after it.
LEMMA StarCounted ==
    ASSUME Arguments, NEW s, Counted(s), AtStar(s)
    PROVE  Counted(TakeStar(s))
<1> DEFINE k == PastStars(s.m)  t == TakeStar(s)
<1>1. s.m \in 1..Len(mask) + 1 /\ s.n \in 1..Len(name) + 1 /\ Len(mask) \in Nat
  BY DEF Counted, Bounded, Arguments
<1>2. k \in 1..Len(mask) + 1
  <2>1. k \in s.m..Len(mask) + 1
    BY <1>1, AfterStars DEF Arguments
  <2> QED BY <1>1, <2>1
<1>3. At(mask, k) = Escape => k + 1 \in 1..Len(mask) + 1
  <2>1. Escape # Zero
    BY DEF Escape, Zero
  <2>2. At(mask, k) # Zero <=> k <= Len(mask)
    BY <1>2, Places DEF Arguments
  <2> QED BY <1>1, <1>2, <2>1, <2>2
<1> HIDE DEF k
<1>4. PICK x : x = IF At(mask, k) = Escape THEN k + 1 ELSE k
  OBVIOUS
<1>5. PICK q : q = IF At(mask, k) = Escape THEN 2 ELSE 0
  OBVIOUS
<1>6. t = [m |-> x, n |-> s.n, ma |-> x, na |-> s.n, wild |-> TRUE, quote |-> q]
  BY <1>4, <1>5 DEF TakeStar, k
<1>7. x \in 1..Len(mask) + 1 /\ q \in 0..2
  BY <1>2, <1>3, <1>4, <1>5
<1> HIDE DEF t
<1>8. t \in Locals
  BY <1>1, <1>6, <1>7 DEF Locals
<1>9. t.m = x /\ t.ma = x /\ t.n = s.n /\ t.na = s.n
  BY <1>6
<1>10. Counted(t)
  BY <1>1, <1>7, <1>8, <1>9 DEF Counted, Bounded
<1> QED BY <1>10 DEF t

\* Both places move on.
LEMMA ForwardIs ==
    ASSUME Arguments, NEW s, Bounded(s)
    PROVE  /\ Bounded(Forward(s))
           /\ Forward(s).m = Advance(mask, s.m) /\ Forward(s).n = Advance(name, s.n)
           /\ Forward(s).ma = s.ma /\ Forward(s).na = s.na
<1>1. /\ s \in Locals /\ s.m \in 1..Len(mask) + 1 /\ s.n \in 1..Len(name) + 1
      /\ s.ma \in 1..Len(mask) + 1 /\ s.na \in 1..Len(name) + 1
      /\ s.ma <= s.m /\ s.na <= s.n
  BY DEF Bounded
<1>2. /\ Advance(mask, s.m) \in 1..Len(mask) + 1 /\ Advance(mask, s.m) \in {s.m, s.m + 1}
      /\ Advance(name, s.n) \in 1..Len(name) + 1 /\ Advance(name, s.n) \in {s.n, s.n + 1}
      /\ Len(mask) \in Nat /\ Len(name) \in Nat
  <2>1. PICK i, j : i = s.m /\ j = s.n
    OBVIOUS
  <2>2. /\ Advance(mask, i) \in 1..Len(mask) + 1
        /\ Advance(mask, i) = IF i <= Len(mask) THEN i + 1 ELSE i
    BY <1>1, <2>1, Places DEF Arguments
  <2>3. /\ Advance(name, j) \in 1..Len(name) + 1
        /\ Advance(name, j) = IF j <= Len(name) THEN j + 1 ELSE j
    BY <1>1, <2>1, Places DEF Arguments
  <2>4. Len(mask) \in Nat /\ Len(name) \in Nat
    BY DEF Arguments
  <2> QED BY <2>1, <2>2, <2>3, <2>4
<1>4. PICK x, y : x = Advance(mask, s.m) /\ y = Advance(name, s.n)
  OBVIOUS
<1>3. x \in Nat /\ y \in Nat /\ x >= s.m /\ y >= s.n
  BY <1>1, <1>2, <1>4
<1>5. Forward(s) = [s EXCEPT !.m = x, !.n = y]
  BY <1>4 DEF Forward
<1>6. /\ Forward(s) \in Locals /\ Forward(s).m = x /\ Forward(s).n = y
      /\ Forward(s).ma = s.ma /\ Forward(s).na = s.na
  <2> HIDE <1>4
  <2> QED BY <1>1, <1>3, <1>5 DEF Locals
<1>7. s.ma <= x /\ s.na <= y
  BY <1>1, <1>2, <1>3, <1>4
<1> QED BY <1>1, <1>2, <1>3, <1>4, <1>6, <1>7 DEF Bounded

\* The name moves on by one from where the scan last started.
LEMMA RestartIs ==
    ASSUME Arguments, NEW s, Bounded(s), s.na <= Len(name)
    PROVE  /\ Bounded(Restart(s)) /\ Restart(s).m = s.ma /\ Restart(s).ma = s.ma
           /\ Restart(s).n = s.na + 1 /\ Restart(s).na = s.na + 1
           /\ Restart(s).quote = s.quote /\ Restart(s).wild = s.wild
<1>1. /\ s \in Locals /\ s.ma \in 1..Len(mask) + 1 /\ s.na \in 1..Len(name) + 1
      /\ Len(mask) \in Nat /\ Len(name) \in Nat
  BY DEF Bounded, Arguments
<1>2. /\ Restart(s) \in Locals /\ Restart(s).m = s.ma /\ Restart(s).ma = s.ma
      /\ Restart(s).n = s.na + 1 /\ Restart(s).na = s.na + 1
      /\ Restart(s).quote = s.quote /\ Restart(s).wild = s.wild
  <2>1. PICK x, y : x = s.ma /\ y = s.na + 1
    OBVIOUS
  <2>2. x \in Nat /\ y \in Nat
    BY <1>1, <2>1
  <2>3. Restart(s) = [s EXCEPT !.m = x, !.n = y, !.na = y]
    BY <2>1 DEF Restart
  <2>4. /\ Restart(s) \in Locals /\ Restart(s).m = x /\ Restart(s).ma = s.ma
        /\ Restart(s).n = y /\ Restart(s).na = y
        /\ Restart(s).quote = s.quote /\ Restart(s).wild = s.wild
    BY <1>1, <2>2, <2>3 DEF Locals
  <2> QED BY <2>1, <2>4
<1> QED BY <1>1, <1>2 DEF Bounded

\* A comparison from a place in the name that holds a character.
LEMMA CompareScans ==
    ASSUME Arguments, NEW s, Bounded(s), s.n <= Len(name), Compare(s)
    PROVE  Bounded(at') /\ (result' = "none" => Scan(at'))
<1>1. /\ s.n \in 1..Len(name) + 1 /\ s.na \in 1..Len(name) + 1 /\ s.na <= s.n
      /\ Len(name) \in Nat
  BY DEF Bounded, Arguments
<1>2. CASE SameHere(s)
  <2>1. at' = Forward(s)
    BY <1>2 DEF Compare, Go
  <2>2. Advance(name, s.n) = s.n + 1
    BY <1>1, Places DEF Arguments
  <2>3. Forward(s).na < Forward(s).n
    BY <1>1, <2>2, ForwardIs
  <2> QED BY <2>1, <2>3, ForwardIs DEF Scan
<1>4. CASE ~SameHere(s) /\ ~s.wild
  BY <1>4 DEF Compare, Return
<1>3. CASE ~SameHere(s) /\ s.wild
  <2>1. at' = Restart(s)
    BY <1>3 DEF Compare, Go
  <2>2. s.na <= Len(name)
    BY <1>1
  <2>3. Bounded(Restart(s)) /\ ~(Restart(s).ma < Restart(s).m)
    BY <1>1, <2>2, RestartIs DEF Bounded
  <2> QED BY <2>1, <2>3 DEF Scan
<1> QED BY <1>2, <1>3, <1>4

\* A comparison at the end of the mask, where nothing is left but to start again.
LEMMA RetryScans ==
    ASSUME Arguments, NEW s, Counted(s), At(mask, s.m) = Zero, At(name, s.n) # Zero,
           s.quote = 0, s.wild, Compare(Restart(s))
    PROVE  Bounded(at') /\ (result' = "none" => Scan(at'))
<1>1. /\ s.n \in 1..Len(name) + 1 /\ s.na \in 1..Len(name) + 1 /\ s.na <= s.n
      /\ s.m \in 1..Len(mask) + 1 /\ s.ma \in 1..Len(mask) + 1 /\ s.ma <= s.m
      /\ Len(name) \in Nat /\ Bounded(s)
  BY DEF Bounded, Arguments, Counted
<1>2. s.n <= Len(name) /\ s.na <= Len(name)
  BY <1>1, Places DEF Arguments
<1>3. PICK r : r = Restart(s)
  OBVIOUS
<1>4. /\ Bounded(r) /\ r.m = s.ma /\ r.ma = s.ma /\ r.n = s.na + 1 /\ r.na = s.na + 1
  BY <1>1, <1>2, <1>3, RestartIs
<1>5. CASE r.n <= Len(name)
  BY <1>3, <1>4, <1>5, CompareScans
<1>6. CASE ~(r.n <= Len(name))
  <2>1. s.na = s.n /\ r.n \in 1..Len(name) + 1
    BY <1>1, <1>2, <1>4, <1>6
  <2>2. s.ma = s.m
    BY <1>1, <2>1 DEF Counted
  <2>3. At(mask, r.m) = Zero /\ At(name, r.n) = Zero
    BY <1>4, <1>6, <2>1, <2>2, Places DEF Arguments
  <2>4. SameHere(r)
    BY <2>3 DEF SameHere
  <2>5. at' = Forward(r)
    BY <1>3, <2>4 DEF Compare, Go
  <2>6. Advance(mask, r.m) = r.m
    BY <1>1, <1>4, <2>3, Places DEF Arguments
  <2>7. Bounded(Forward(r)) /\ Forward(r).m = r.m /\ Forward(r).ma = r.m
    BY <1>4, <2>6, ForwardIs
  <2>8. ~(Forward(r).ma < Forward(r).m)
    BY <1>1, <1>4, <2>7
  <2> QED BY <2>5, <2>7, <2>8 DEF Scan
<1> QED BY <1>5, <1>6

\* The scan back of the rest of a turn, if there is one.
LEMMA BackRead ==
    ASSUME Arguments, NEW s, Counted(s), Rest(s)
    PROVE  InMask(back')
<1>1. /\ s.n \in 1..Len(name) + 1 /\ s.m \in 1..Len(mask) + 1
      /\ Len(mask) \in Nat /\ Len(name) \in Nat
  BY DEF Counted, Bounded, Arguments
<1>2. back' = IF ScansBack(s) THEN ScannedBack(s.m) ELSE {}
  BY DEF Rest
<1>3. CASE ~ScansBack(s)
  BY <1>2, <1>3 DEF InMask
<1>4. CASE ScansBack(s)
  <2>1. At(mask, s.m) = Zero /\ At(name, s.n) # Zero
    BY <1>4 DEF ScansBack
  <2>2. s.m = Len(mask) + 1 /\ s.n <= Len(name)
    <3>1. At(mask, s.m) # Zero <=> s.m <= Len(mask)
      BY <1>1, Places DEF Arguments
    <3>2. At(name, s.n) # Zero <=> s.n <= Len(name)
      BY <1>1, Places DEF Arguments
    <3> QED BY <1>1, <2>1, <3>1, <3>2
  <2>3. ScannedBack(s.m) \subseteq 0..Len(mask) /\ (0 \in ScannedBack(s.m) => s.m = 1)
    <3>1. PICK i \in Nat : i = s.m /\ i >= 1 /\ i - 1 = Len(mask)
      BY <1>1, <2>2
    <3>2. ScannedBack(i) \subseteq 0..i - 1 /\ (0 \in ScannedBack(i) => i = 1)
      BY <3>1, BackStays
    <3> QED BY <3>1, <3>2
  <2>4. s.m = 1 => mask = <<>>
    <3>1. s.m = 1 => Len(mask) = 0
      BY <1>1, <2>2
    <3> QED BY <3>1 DEF Arguments
  <2>5. name # <<>>
    BY <1>1, <2>2
  <2> QED BY <1>2, <1>4, <2>3, <2>4, <2>5 DEF InMask
<1> QED BY <1>3, <1>4

\* The rest of a turn, which returns at a place in both strings or leaves the scan there.
LEMMA RestScans ==
    ASSUME Arguments, NEW s, Counted(s), Rest(s)
    PROVE  Bounded(at') /\ InMask(back') /\ (result' = "none" => Scan(at'))
<1>1. /\ s.n \in 1..Len(name) + 1 /\ s.m \in 1..Len(mask) + 1 /\ Bounded(s)
      /\ Len(mask) \in Nat /\ Len(name) \in Nat
  BY DEF Counted, Bounded, Arguments
<1>2. CASE ~AtEnd(s)
  <2>1. At(name, s.n) # Zero
    BY <1>2 DEF AtEnd
  <2>2. s.n <= Len(name)
    BY <1>1, <2>1, Places DEF Arguments
  <2> QED BY <1>1, <1>2, <2>2, CompareScans, BackRead DEF Rest, AtEnd
<1>3. CASE AtEnd(s) /\ Verdict(s) = "none"
  <2>1. At(mask, s.m) = Zero /\ At(name, s.n) # Zero /\ s.quote = 0 /\ s.wild
    BY <1>3 DEF Verdict, ScansBack
  <2> QED BY <1>3, <2>1, RetryScans, BackRead DEF Rest
<1>4. CASE AtEnd(s) /\ Verdict(s) # "none"
  <2>1. at' = s /\ result' = Verdict(s)
    BY <1>4 DEF Rest, Return
  <2> QED BY <1>1, <1>4, <2>1, BackRead
<1> QED BY <1>2, <1>3, <1>4

\* A turn of the loop keeps both places in their strings.
LEMMA TurnScans ==
    ASSUME Inv, Turn
    PROVE  Inv'
<1> DEFINE s == CountQuote(at)
<1>1. /\ Arguments /\ Counted(s) /\ Body(s)
      /\ UNCHANGED <<mask, name>>
  BY QuoteCounted DEF Inv, Turn
<1>2. SUFFICES Bounded(at') /\ InMask(back') /\ (result' = "none" => Scan(at'))
  BY <1>1 DEF Inv, Arguments, Scan, Bounded, InMask
<1> HIDE DEF s
<1>3. CASE At(mask, s.m) = Escape /\ s.quote = 0
  <2>1. at' = [s EXCEPT !.m = @ + 1, !.quote = 1]
    BY <1>1, <1>3 DEF Body, Go
  <2>2. s \in Locals /\ s.m \in 1..Len(mask) + 1 /\ s.ma \in 1..Len(mask) + 1 /\ s.ma <= s.m
    BY <1>1 DEF Counted, Bounded
  <2>3. s.m <= Len(mask) /\ Len(mask) \in Nat
    <3>1. Escape # Zero
      BY DEF Escape, Zero
    <3> QED BY <1>1, <1>3, <2>2, <3>1, Places DEF Arguments
  <2>4. /\ at' \in Locals /\ at'.m = s.m + 1 /\ at'.quote = 1
        /\ at'.ma = s.ma /\ at'.n = s.n /\ at'.na = s.na
    <3>1. PICK x, y : x = s.m + 1 /\ y = 1
      OBVIOUS
    <3>2. x \in Nat /\ y \in 0..2
      BY <2>2, <2>3, <3>1
    <3>3. at' = [s EXCEPT !.m = x, !.quote = y]
      BY <2>1, <3>1
    <3>4. /\ at' \in Locals /\ at'.m = x /\ at'.quote = y
          /\ at'.ma = s.ma /\ at'.n = s.n /\ at'.na = s.na
      BY <2>2, <3>2, <3>3 DEF Locals
    <3> QED BY <3>1, <3>4
  <2>5. Bounded(at')
    BY <1>1, <2>2, <2>3, <2>4 DEF Counted, Bounded
  <2>6. back' = {}
    BY <1>1, <1>3 DEF Body
  <2> QED BY <2>4, <2>5, <2>6 DEF Scan, InMask
<1>4. CASE ~(At(mask, s.m) = Escape /\ s.quote = 0) /\ ~AtStar(s)
  <2>1. Rest(s)
    BY <1>1, <1>4 DEF Body
  <2> QED BY <1>1, <2>1, RestScans
<1>5. CASE ~(At(mask, s.m) = Escape /\ s.quote = 0) /\ AtStar(s)
  <2>1. PICK t : t = TakeStar(s)
    OBVIOUS
  <2>2. Counted(t)
    BY <1>1, <1>5, <2>1, StarCounted
  <2>3. CASE BadMask(t)
    <3>1. at' = t /\ result' = "no" /\ back' = {}
      BY <1>1, <1>5, <2>1, <2>3 DEF Body, Return
    <3> QED BY <2>2, <3>1 DEF Counted, InMask
  <2>4. CASE ~BadMask(t)
    <3>1. Rest(t)
      BY <1>1, <1>5, <2>1, <2>4 DEF Body
    <3> QED BY <1>1, <2>2, <3>1, RestScans
  <2> QED BY <2>3, <2>4
<1> QED BY <1>3, <1>4, <1>5

\* Whatever the mask and the name are and however far the restarts of a turn take the
\* name, the places of the scan stay between the first character and the terminating zero,
\* and the scan back reads nothing outside the mask but the byte before an empty one.
THEOREM StaysInBounds == Spec => []InBounds
<1>1. Init => Inv
  <2> SUFFICES ASSUME Init PROVE Inv
    OBVIOUS
  <2>1. Arguments
    BY MatchAssumption DEF Init, Arguments
  <2>2. Len(mask) \in Nat /\ Len(name) \in Nat
    BY <2>1 DEF Arguments
  <2>3. at \in Locals /\ at.m = 1 /\ at.n = 1 /\ at.ma = 1 /\ at.na = 1
    BY DEF Init, Locals
  <2> QED BY <2>1, <2>2, <2>3 DEF Init, Inv, InMask, Scan, Bounded
<1>2. Inv /\ [Next]_vars => Inv'
  <2> SUFFICES ASSUME Inv, [Next]_vars PROVE Inv'
    OBVIOUS
  <2>1. CASE Turn
    BY <2>1, TurnScans
  <2>2. CASE GiveUp \/ UNCHANGED vars
    BY <2>2 DEF GiveUp, vars, Inv, Arguments, Scan, Bounded, InMask
  <2> QED BY <2>1, <2>2 DEF Next
<1>3. Inv => InBounds
  BY DEF Inv, InMask, Bounded, InBounds
<1> QED BY <1>1, <1>2, <1>3, PTL DEF Spec
===========================================================================
