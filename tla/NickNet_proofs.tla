--------------------------- MODULE NickNet_proofs ---------------------------
(***************************************************************************)
(* Proofs about NickNet, for every forest of servers, any clients on them  *)
(* and any logins: type correctness, that no list has two clients with one *)
(* nick or one entry twice, and that a client is only killed for cause.    *)
(*                                                                         *)
(* The invariant follows, for every link, what the receiver will know once *)
(* it has read what is on the wire.  It holds of every server, and of      *)
(* every client nobody has beaten in a collision, whose nick nobody gave   *)
(* up in a race: news of those is neither refused nor overtaken.           *)
(***************************************************************************)
EXTENDS NickNet, Integers, FiniteSetTheorems, SequenceTheorems, WellFoundedInduction,
        TLAPS

---------------------------------------------------------------------------
(* Induction over the natural numbers, for sets.                           *)

\* A set of naturals has a least element.
LEMMA Least ==
    ASSUME NEW T \in SUBSET Nat, T # {}
    PROVE  \E x \in T : \A y \in T : x <= y
<1> DEFINE R == OpToRel(<, Nat)
<1>1. IsWellFoundedOn(R, Nat)
  BY NatLessThanWellFounded
<1>2. \A x, y \in Nat : y < x => <<y, x>> \in R
  BY DEF OpToRel
<1> HIDE DEF R
<1>3. PICK x \in T : \A y \in T : ~(<<y, x>> \in R)
  BY <1>1, WFMin
<1>4. x \in Nat /\ \A y \in T : y \in Nat /\ ~(y < x)
  BY <1>2, <1>3
<1> QED BY <1>3, <1>4

\* A set that has 0, and with a number the next one, has them all.
LEMMA Induction ==
    ASSUME NEW S, 0 \in S, \A n \in Nat : n \in S => n + 1 \in S
    PROVE  Nat \subseteq S
<1> SUFFICES ASSUME NEW k \in Nat \ S PROVE FALSE
  OBVIOUS
<1> DEFINE T == Nat \ S
<1>1. PICK x \in T : \A y \in T : x <= y
  BY Least
<1>2. x # 0 /\ x - 1 \in Nat /\ x - 1 \notin T
  BY <1>1
<1> QED BY <1>1, <1>2


---------------------------------------------------------------------------
(* What is left of a list.                                                 *)

\* The recursion by which Without is defined, up to n.
Upto(l, es, n, f) ==
    /\ f[0] = <<>>
    /\ \A k \in 1..n : f[k] = IF l[k] \in es THEN f[k - 1] ELSE Append(f[k - 1], l[k])

\* The list r is what is left of the first n places of l: as a set, and in the
\* order they had.
Rest(r, l, es, n) ==
    /\ Len(r) <= n
    /\ ToSet(r) = {l[k] : k \in 1..n} \ es
    /\ (\A j, k \in 1..n : l[j] = l[k] => j = k) => IsInjective(r)

\* The recursion can be extended by the next place.
LEMMA UptoStep ==
    ASSUME NEW S, NEW l \in Seq(S), NEW es, NEW n \in Nat, n + 1 <= Len(l),
           NEW f \in [0..n -> Seq(S)], Upto(l, es, n, f)
    PROVE  \E g \in [0..(n + 1) -> Seq(S)] : Upto(l, es, n + 1, g)
<1> DEFINE u == IF l[n + 1] \in es THEN f[n] ELSE Append(f[n], l[n + 1])
           g == [k \in 0..(n + 1) |-> IF k = n + 1 THEN u ELSE f[k]]
<1>1. u \in Seq(S)
  <2>1. l[n + 1] \in S /\ f[n] \in Seq(S)
    OBVIOUS
  <2> QED BY <2>1
<1> HIDE DEF u
<1>2. g \in [0..(n + 1) -> Seq(S)]
  <2>1. \A k \in 0..(n + 1) : k # n + 1 => k \in 0..n
    OBVIOUS
  <2> QED BY <1>1, <2>1
<1>3. g[0] = f[0] /\ g[n + 1] = u /\ \A k \in 1..n : g[k] = f[k] /\ g[k - 1] = f[k - 1]
  OBVIOUS
<1>4. g[(n + 1) - 1] = f[n]
  OBVIOUS
<1> HIDE DEF g
<1>5. ASSUME NEW k \in 1..(n + 1)
      PROVE  g[k] = IF l[k] \in es THEN g[k - 1] ELSE Append(g[k - 1], l[k])
  <2>1. CASE k = n + 1
    BY <1>3, <1>4, <2>1 DEF u
  <2>2. CASE k # n + 1
    <3>1. k \in 1..n
      BY <2>2
    <3> QED BY <1>3, <3>1 DEF Upto
  <2> QED BY <2>1, <2>2
<1>6. Upto(l, es, n + 1, g)
  BY <1>3, <1>5 DEF Upto
<1> QED BY <1>2, <1>6

\* It has a solution.
LEMMA UptoExists ==
    ASSUME NEW S, NEW l \in Seq(S), NEW es
    PROVE  \E f \in [0..Len(l) -> Seq(S)] : Upto(l, es, Len(l), f)
<1> DEFINE Sol(n) == n <= Len(l) => \E f \in [0..n -> Seq(S)] : Upto(l, es, n, f)
           T == {n \in Nat : Sol(n)}
<1>1. Sol(0)
  <2> DEFINE g == [k \in 0..0 |-> <<>>]
  <2>1. g \in [0..0 -> Seq(S)] /\ g[0] = <<>>
    OBVIOUS
  <2> HIDE DEF g
  <2>2. Upto(l, es, 0, g)
    BY <2>1 DEF Upto
  <2> QED BY <2>1, <2>2
<1>2. ASSUME NEW n \in Nat, Sol(n) PROVE Sol(n + 1)
  <2> SUFFICES ASSUME n + 1 <= Len(l)
               PROVE  \E f \in [0..(n + 1) -> Seq(S)] : Upto(l, es, n + 1, f)
    OBVIOUS
  <2>1. PICK f \in [0..n -> Seq(S)] : Upto(l, es, n, f)
    BY <1>2
  <2> QED BY <2>1, UptoStep
<1> HIDE DEF Sol
<1>3. 0 \in T /\ \A n \in Nat : n \in T => n + 1 \in T
  BY <1>1, <1>2
<1> HIDE DEF T
<1>4. Len(l) \in T
  BY <1>3, Induction
<1> QED BY <1>4 DEF T, Sol

\* Without follows it to the end of the list.
LEMMA WithoutUpto ==
    ASSUME NEW S, NEW l \in Seq(S), NEW es
    PROVE  \E f \in [0..Len(l) -> Seq(S)] :
             Upto(l, es, Len(l), f) /\ Without(l, es) = f[Len(l)]
<1> DEFINE Def(f) == f = [i \in 0..Len(l) |->
                            IF i = 0 THEN <<>>
                            ELSE IF l[i] \in es THEN f[i - 1] ELSE Append(f[i - 1], l[i])]
           run == CHOOSE f : Def(f)
<1>1. PICK g \in [0..Len(l) -> Seq(S)] : Upto(l, es, Len(l), g)
  BY UptoExists
<1>2. Def(g)
  <2>1. ASSUME NEW k \in 0..Len(l)
        PROVE  g[k] = IF k = 0 THEN <<>>
                      ELSE IF l[k] \in es THEN g[k - 1] ELSE Append(g[k - 1], l[k])
    <3>1. CASE k = 0
      BY <1>1, <3>1 DEF Upto
    <3>2. CASE k # 0
      <4>1. k \in 1..Len(l)
        BY <3>2
      <4> QED BY <1>1, <3>2, <4>1 DEF Upto
    <3> QED BY <3>1, <3>2
  <2>2. g = [k \in 0..Len(l) |-> g[k]]
    OBVIOUS
  <2> QED BY <2>1, <2>2
<1>3. Without(l, es) = run[Len(l)]
  BY DEF Without
<1>4. Def(run)
  BY <1>2
<1> HIDE DEF run
<1>5. \A k \in 0..Len(l) : run[k] = IF k = 0 THEN <<>>
                                    ELSE IF l[k] \in es THEN run[k - 1]
                                    ELSE Append(run[k - 1], l[k])
  BY <1>4
<1> HIDE DEF Def
<1> DEFINE T == {n \in Nat : n <= Len(l) => run[n] = g[n]}
<1>6. 0 \in T
  BY <1>1, <1>5 DEF Upto
<1>7. ASSUME NEW n \in Nat, n \in T PROVE n + 1 \in T
  <2> SUFFICES ASSUME n + 1 <= Len(l) PROVE run[n + 1] = g[n + 1]
    OBVIOUS
  <2>1. run[n] = g[n] /\ n + 1 \in 1..Len(l) /\ (n + 1) - 1 = n /\ n + 1 # 0
    BY <1>7
  <2> HIDE DEF T
  <2>2. run[n + 1] = IF l[n + 1] \in es THEN run[(n + 1) - 1]
                     ELSE Append(run[(n + 1) - 1], l[n + 1])
    <3>1. n + 1 \in 0..Len(l)
      BY <2>1
    <3> QED BY <1>5, <2>1, <3>1
  <2>3. g[n + 1] = IF l[n + 1] \in es THEN g[(n + 1) - 1]
                   ELSE Append(g[(n + 1) - 1], l[n + 1])
    BY <1>1, <2>1 DEF Upto
  <2> QED BY <2>1, <2>2, <2>3
<1> HIDE DEF T
<1>8. Len(l) \in T
  BY <1>6, <1>7, Induction
<1>9. run[Len(l)] = g[Len(l)]
  BY <1>8 DEF T
<1> QED BY <1>1, <1>3, <1>9

\* One place more is left out, or comes last.
LEMMA RestStep ==
    ASSUME NEW S, NEW l \in Seq(S), NEW es, NEW n \in Nat, n + 1 <= Len(l),
           NEW r \in Seq(S), Rest(r, l, es, n)
    PROVE  Rest(IF l[n + 1] \in es THEN r ELSE Append(r, l[n + 1]), l, es, n + 1)
<1> DEFINE u == IF l[n + 1] \in es THEN r ELSE Append(r, l[n + 1])
           P(m) == {l[k] : k \in 1..m}
<1>1. P(n + 1) = P(n) \cup {l[n + 1]}
  OBVIOUS
<1>2. ToSet(r) = P(n) \ es /\ Len(r) <= n /\ Len(r) \in Nat
  BY DEF Rest
<1>3. CASE l[n + 1] \in es
  <2>1. u = r
    BY <1>3
  <2> QED BY <1>1, <1>2, <1>3, <2>1 DEF Rest
<1>4. CASE l[n + 1] \notin es
  <2>1. u = Append(r, l[n + 1])
    BY <1>4
  <2>2. Len(u) = Len(r) + 1 /\ DOMAIN u = 1..(Len(r) + 1) /\ u[Len(r) + 1] = l[n + 1]
        /\ DOMAIN r = 1..Len(r) /\ \A k \in 1..Len(r) : u[k] = r[k]
    BY <2>1
  <2> HIDE DEF u, P
  <2>3. ToSet(u) = ToSet(r) \cup {l[n + 1]}
    BY <1>2, <2>2 DEF ToSet
  <2>4. ASSUME \A j, k \in 1..(n + 1) : l[j] = l[k] => j = k PROVE IsInjective(u)
    <3>1. IsInjective(r)
      BY <2>4 DEF Rest
    <3>2. l[n + 1] \notin P(n)
      BY <2>4 DEF P
    <3>3. \A k \in 1..Len(r) : r[k] # l[n + 1]
      BY <1>2, <2>2, <3>2 DEF ToSet
    <3> QED BY <1>2, <2>2, <3>1, <3>3 DEF IsInjective
  <2>5. Len(u) <= n + 1
    BY <1>2, <2>2
  <2>6. ToSet(u) = P(n + 1) \ es
    BY <1>1, <1>2, <1>4, <2>3
  <2> QED BY <1>4, <2>1, <2>4, <2>5, <2>6 DEF Rest, P
<1> QED BY <1>3, <1>4

\* What is left of a list are its elements that are not taken off it, each once if
\* the list had each once.
LEMMA WithoutFacts ==
    ASSUME NEW S, NEW l \in Seq(S), NEW es
    PROVE  /\ Without(l, es) \in Seq(S)
           /\ ToSet(Without(l, es)) = ToSet(l) \ es
           /\ IsInjective(l) => IsInjective(Without(l, es))
<1>1. PICK f \in [0..Len(l) -> Seq(S)] :
         Upto(l, es, Len(l), f) /\ Without(l, es) = f[Len(l)]
  BY WithoutUpto
<1> DEFINE T == {n \in Nat : n <= Len(l) => Rest(f[n], l, es, n)}
<1>2. 0 \in T
  <2>1. f[0] = <<>>
    BY <1>1 DEF Upto
  <2> QED BY <2>1 DEF Rest, ToSet, IsInjective
<1>3. ASSUME NEW n \in Nat, n \in T PROVE n + 1 \in T
  <2> SUFFICES ASSUME n + 1 <= Len(l) PROVE Rest(f[n + 1], l, es, n + 1)
    OBVIOUS
  <2>1. Rest(f[n], l, es, n) /\ n + 1 \in 1..Len(l) /\ (n + 1) - 1 = n /\ f[n] \in Seq(S)
    BY <1>3
  <2> HIDE DEF T
  <2>2. f[n + 1] = IF l[n + 1] \in es THEN f[n] ELSE Append(f[n], l[n + 1])
    BY <1>1, <2>1 DEF Upto
  <2>3. Rest(IF l[n + 1] \in es THEN f[n] ELSE Append(f[n], l[n + 1]), l, es, n + 1)
    BY <2>1, RestStep
  <2> QED BY <2>2, <2>3
<1> HIDE DEF T
<1>4. Len(l) \in T
  BY <1>2, <1>3, Induction
<1>5. Rest(f[Len(l)], l, es, Len(l))
  BY <1>4 DEF T
<1>6. ToSet(l) = {l[k] : k \in 1..Len(l)}
  BY DEF ToSet
<1>7. IsInjective(l) => \A j, k \in 1..Len(l) : l[j] = l[k] => j = k
  BY DEF IsInjective
<1> QED BY <1>1, <1>5, <1>6, <1>7 DEF Rest

\* w has the m elements of u and then the n elements of v.
Joins(w, u, v, m, n) ==
    /\ m \in Nat /\ n \in Nat
    /\ DOMAIN u = 1..m /\ DOMAIN v = 1..n /\ DOMAIN w = 1..(m + n)
    /\ \A k \in 1..m : w[k] = u[k]
    /\ \A k \in 1..n : w[m + k] = v[k]

\* The elements of two lists, one after the other.
LEMMA SetOfBoth ==
    ASSUME NEW u, NEW v, NEW w, NEW m, NEW n, Joins(w, u, v, m, n)
    PROVE  ToSet(w) = ToSet(u) \cup ToSet(v)
<1> USE DEF Joins
<1>1. ASSUME NEW k \in 1..m PROVE u[k] \in ToSet(w)
  <2>1. k \in 1..(m + n)
    OBVIOUS
  <2> QED BY <2>1 DEF ToSet
<1>2. ASSUME NEW k \in 1..n PROVE v[k] \in ToSet(w)
  <2>1. m + k \in 1..(m + n) /\ w[m + k] = v[k]
    OBVIOUS
  <2> QED BY <2>1 DEF ToSet
<1>3. ASSUME NEW k \in 1..(m + n) PROVE w[k] \in ToSet(u) \cup ToSet(v)
  <2>1. CASE k \in 1..m
    BY <2>1 DEF ToSet
  <2>2. CASE k \notin 1..m
    <3>1. PICK j : j = k - m
      OBVIOUS
    <3>2. j \in 1..n /\ m + j = k
      BY <2>2, <3>1
    <3>3. w[m + j] = v[j]
      BY <3>2
    <3> QED BY <3>2, <3>3 DEF ToSet
  <2> QED BY <2>1, <2>2
<1>4. ToSet(u) \cup ToSet(v) \subseteq ToSet(w)
  <2>1. (\A k \in 1..m : u[k] \in ToSet(w)) => ToSet(u) \subseteq ToSet(w)
    BY DEF ToSet
  <2>2. (\A k \in 1..n : v[k] \in ToSet(w)) => ToSet(v) \subseteq ToSet(w)
    BY DEF ToSet
  <2> QED BY <1>1, <1>2, <2>1, <2>2
<1>5. ToSet(w) \subseteq ToSet(u) \cup ToSet(v)
  <2> DEFINE both == ToSet(u) \cup ToSet(v)
  <2>1. \A k \in 1..(m + n) : w[k] \in both
    BY <1>3
  <2> HIDE DEF both
  <2>2. ToSet(w) \subseteq both
    BY <2>1 DEF ToSet
  <2> QED BY <2>2 DEF both
<1> QED BY <1>4, <1>5

\* The elements of lists that are put together, and of one whose first is taken off.
LEMMA SetOfList ==
    ASSUME NEW S, NEW u \in Seq(S), NEW v \in Seq(S)
    PROVE  /\ ToSet(u) \subseteq S
           /\ ToSet(u \o v) = ToSet(u) \cup ToSet(v)
           /\ u # <<>> => Head(u) \in ToSet(u) /\ ToSet(Tail(u)) \subseteq ToSet(u)
<1>1. DOMAIN u = 1..Len(u) /\ DOMAIN v = 1..Len(v) /\ Len(u) \in Nat /\ Len(v) \in Nat
  OBVIOUS
<1>2. ToSet(u) \subseteq S
  BY <1>1 DEF ToSet
<1>3. Joins(u \o v, u, v, Len(u), Len(v))
  BY <1>1 DEF Joins
<1>4. ToSet(u \o v) = ToSet(u) \cup ToSet(v)
  BY <1>3, SetOfBoth
<1>5. ASSUME u # <<>> PROVE Head(u) \in ToSet(u) /\ ToSet(Tail(u)) \subseteq ToSet(u)
  <2>1. Head(u) = u[1] /\ 1 \in DOMAIN u /\ DOMAIN Tail(u) = 1..(Len(u) - 1)
        /\ \A k \in 1..(Len(u) - 1) : Tail(u)[k] = u[k + 1] /\ k + 1 \in DOMAIN u
    BY <1>1, <1>5
  <2> QED BY <2>1 DEF ToSet
<1> QED BY <1>2, <1>4, <1>5

\* A list without elements.
LEMMA NoElements == ToSet(<<>>) = {}
BY DEF ToSet

\* Lists put together, and one whose first element is taken off, are lists.
LEMMA ListsFrom ==
    ASSUME NEW S, NEW u \in Seq(S), NEW v \in Seq(S)
    PROVE  u \o v \in Seq(S) /\ (u # <<>> => Tail(u) \in Seq(S))
OBVIOUS

\* A pair.
LEMMA PairIs ==
    ASSUME NEW S, NEW p \in S \X S
    PROVE  \E x \in S, y \in S : p = <<x, y>>
OBVIOUS

---------------------------------------------------------------------------
(* Forests.                                                                *)

\* An edge has two ends.
LEMMA EdgeEnds ==
    ASSUME NEW V, NEW E, IsForest(V, E), NEW x, NEW y, {x, y} \in E
    PROVE  x \in V /\ y \in V /\ x # y
<1>1. {x, y} \subseteq V /\ Cardinality({x, y}) = 2
  BY DEF IsForest
<1>2. ASSUME x = y PROVE FALSE
  <2>1. {x, y} = {x}
    BY <1>2
  <2>2. Cardinality({x}) = 1
    BY FS_Singleton
  <2> QED BY <1>1, <2>1, <2>2
<1> QED BY <1>1, <1>2

\* What is behind a link is the server at its other end and what that reaches
\* without the link, which is not we.
LEMMA BehindBasics ==
    ASSUME NEW V, NEW E, IsForest(V, E), NEW x, NEW y, {x, y} \in E
    PROVE  /\ Behind(V, E, x, y) \subseteq V
           /\ x \in Behind(V, E, x, y)
           /\ y \notin Behind(V, E, x, y)
           /\ Closed(Behind(V, E, x, y), E \ {{x, y}})
<1>1. x \in V /\ y \in V /\ x # y
  BY EdgeEnds
<1>2. y \notin Behind(V, E, x, y)
  BY <1>1 DEF IsForest
<1>3. Closed(Behind(V, E, x, y), E \ {{x, y}})
  <2>1. SUFFICES ASSUME NEW e \in E \ {{x, y}}, NEW a \in e,
                        a \in Behind(V, E, x, y), NEW b \in e
                 PROVE  b \in Behind(V, E, x, y)
    BY DEF Closed
  <2>2. b \in V
    BY DEF IsForest
  <2>3. ASSUME NEW S \in SUBSET V, x \in S, Closed(S, E \ {{x, y}})
        PROVE  b \in S
    <3>1. a \in S
      BY <2>1, <2>3 DEF Behind
    <3> QED BY <2>3, <3>1 DEF Closed
  <2> QED BY <2>2, <2>3 DEF Behind
<1> QED BY <1>1, <1>2, <1>3 DEF Behind

\* It is the least such set.
LEMMA BehindLeast ==
    ASSUME NEW V, NEW E, NEW x, NEW y, NEW S \in SUBSET V, x \in S,
           Closed(S, E \ {{x, y}})
    PROVE  Behind(V, E, x, y) \subseteq S
BY DEF Behind

\* Nothing is at both ends of a link.
LEMMA EndsApart ==
    ASSUME NEW V, NEW E, IsForest(V, E), NEW x, NEW y, {x, y} \in E
    PROVE  Behind(V, E, x, y) \cap Behind(V, E, y, x) = {}
<1> DEFINE A == Behind(V, E, x, y)
<1>1. A \subseteq V /\ y \notin A /\ y \in V /\ Closed(A, E \ {{x, y}})
  BY BehindBasics, EdgeEnds
<1>2. {y, x} = {x, y}
  OBVIOUS
<1> HIDE DEF A
<1>3. PICK S : S = V \ A
  OBVIOUS
<1>4. Closed(S, E \ {{y, x}})
  <2>1. SUFFICES ASSUME NEW e \in E \ {{x, y}} PROVE e \subseteq S \/ e \cap S = {}
    BY <1>2 DEF Closed
  <2>2. e \subseteq A \/ e \cap A = {}
    BY <1>1 DEF Closed
  <2>3. e \subseteq V
    BY DEF IsForest
  <2> QED BY <1>3, <2>2, <2>3
<1>5. Behind(V, E, y, x) \subseteq S
  BY <1>1, <1>3, <1>4, BehindLeast
<1> QED BY <1>3, <1>5 DEF A

\* Nothing is behind two links of a server.
LEMMA BehindApart ==
    ASSUME NEW V, NEW E, IsForest(V, E), NEW x, NEW z, NEW y,
           {x, y} \in E, {z, y} \in E, x # z
    PROVE  Behind(V, E, x, y) \cap Behind(V, E, z, y) = {}
<1> DEFINE A == Behind(V, E, x, y)
           B == Behind(V, E, z, y)
<1>1. A \subseteq V /\ x \in A /\ y \notin A /\ Closed(A, E \ {{x, y}})
  BY BehindBasics
<1>2. B \subseteq V /\ z \in B /\ y \notin B /\ Closed(B, E \ {{z, y}})
  BY BehindBasics
<1>3. x # y /\ z # y
  BY EdgeEnds
<1> HIDE DEF A, B
<1>4. z \notin A
  <2>1. {z, y} \in E \ {{x, y}}
    BY <1>3
  <2> QED BY <1>1, <2>1 DEF Closed
<1>5. PICK S : S = B \ A
  OBVIOUS
<1>6. Closed(S, E \ {{z, y}})
  <2>1. SUFFICES ASSUME NEW e \in E \ {{z, y}} PROVE e \subseteq S \/ e \cap S = {}
    BY DEF Closed
  <2>2. e \subseteq B \/ e \cap B = {}
    BY <1>2 DEF Closed
  <2>3. CASE e = {x, y}
    BY <1>1, <1>2, <1>5, <2>3
  <2>4. CASE e # {x, y}
    <3>1. e \subseteq A \/ e \cap A = {}
      BY <1>1, <2>4 DEF Closed
    <3> QED BY <1>5, <2>2, <3>1
  <2> QED BY <2>3, <2>4
<1>7. B \subseteq S
  <2>1. S \in SUBSET V /\ z \in S
    BY <1>2, <1>4, <1>5
  <2>2. Behind(V, E, z, y) \subseteq S
    BY <1>6, <2>1, BehindLeast
  <2> QED BY <2>2 DEF B
<1> QED BY <1>5, <1>7 DEF A, B

\* What a server has behind one link is, for its other neighbours, behind the
\* link to it.
LEMMA BehindGrows ==
    ASSUME NEW V, NEW E, IsForest(V, E), NEW t, NEW s, NEW p,
           {t, s} \in E, {s, p} \in E, p # t
    PROVE  Behind(V, E, t, s) \subseteq Behind(V, E, s, p)
<1> DEFINE A == Behind(V, E, t, s)
           B == Behind(V, E, s, p)
<1>1. A \subseteq V /\ t \in A /\ s \notin A /\ Closed(A, E \ {{t, s}})
  BY BehindBasics
<1>2. B \subseteq V /\ s \in B /\ p \notin B /\ Closed(B, E \ {{s, p}})
  BY BehindBasics
<1>3. s # t /\ s # p
  BY EdgeEnds
<1> HIDE DEF A, B
<1>4. t \in B
  <2>1. {t, s} \in E \ {{s, p}}
    BY <1>3
  <2> QED BY <1>2, <2>1 DEF Closed
<1>5. PICK S : S = A \cap B
  OBVIOUS
<1>6. Closed(S, E \ {{t, s}})
  <2>1. SUFFICES ASSUME NEW e \in E \ {{t, s}} PROVE e \subseteq S \/ e \cap S = {}
    BY DEF Closed
  <2>2. e \subseteq A \/ e \cap A = {}
    BY <1>1 DEF Closed
  <2>3. CASE e = {s, p}
    BY <1>1, <1>2, <1>5, <2>3
  <2>4. CASE e # {s, p}
    <3>1. e \subseteq B \/ e \cap B = {}
      BY <1>2, <2>4 DEF Closed
    <3> QED BY <1>5, <2>2, <3>1
  <2> QED BY <2>3, <2>4
<1>7. A \subseteq S
  <2>1. S \in SUBSET V /\ t \in S
    BY <1>1, <1>4, <1>5
  <2>2. Behind(V, E, t, s) \subseteq S
    BY <1>6, <2>1, BehindLeast
  <2> QED BY <2>2 DEF A
<1> QED BY <1>5, <1>7 DEF A, B

\* What a neighbour of a server has behind a link of its own is behind the link
\* to the neighbour.
LEMMA BehindDeeper ==
    ASSUME NEW V, NEW E, IsForest(V, E), NEW t, NEW s, NEW z, NEW r,
           {t, s} \in E, {z, r} \in E, z \in Behind(V, E, t, s), z # t,
           s \in Behind(V, E, r, z)
    PROVE  Behind(V, E, z, r) \subseteq Behind(V, E, t, s) \ {t}
<1> DEFINE A == Behind(V, E, t, s)
           B == Behind(V, E, z, r)
<1>1. A \subseteq V /\ t \in A /\ s \notin A /\ Closed(A, E \ {{t, s}})
  BY BehindBasics
<1>2. B \subseteq V /\ z \in B /\ Closed(B, E \ {{z, r}})
  BY BehindBasics
<1>3. s \notin B
  <2>1. {r, z} = {z, r}
    OBVIOUS
  <2> QED BY <2>1, EndsApart
<1>4. z # s /\ {t, s} # {z, r}
  BY <1>1
<1> HIDE DEF A, B
<1>5. t \notin B
  <2>1. {t, s} \in E \ {{z, r}}
    BY <1>4
  <2> QED BY <1>2, <1>3, <2>1 DEF Closed
<1>6. PICK S : S = A \cap B
  OBVIOUS
<1>7. Closed(S, E \ {{z, r}})
  <2>1. SUFFICES ASSUME NEW e \in E \ {{z, r}} PROVE e \subseteq S \/ e \cap S = {}
    BY DEF Closed
  <2>2. e \subseteq B \/ e \cap B = {}
    BY <1>2 DEF Closed
  <2>3. CASE e = {t, s}
    BY <1>3, <1>5, <1>6, <2>3
  <2>4. CASE e # {t, s}
    <3>1. e \subseteq A \/ e \cap A = {}
      BY <1>1, <2>4 DEF Closed
    <3> QED BY <1>6, <2>2, <3>1
  <2> QED BY <2>3, <2>4
<1>8. B \subseteq S
  <2>1. z \in S
    BY <1>2, <1>6 DEF A
  <2> QED BY <1>2, <1>6, <1>7, <2>1, BehindLeast DEF B
<1> QED BY <1>5, <1>6, <1>8 DEF A, B

\* The servers that y has behind its link to x.
Away(x, y) == Behind(Servers, Edges, x, y)

\* What goes when a server z behind t is lost is behind t, and is the same for s
\* and for its other neighbours.
LEMMA DependentsFar ==
    ASSUME NEW t, NEW s, {t, s} \in Edges, NEW z \in Away(t, s), z # t
    PROVE  /\ Dependents(s, z) \subseteq Away(t, s) \ {t}
           /\ \A p : {s, p} \in Edges /\ p # t => Dependents(p, z) = Dependents(s, z)
<1>1. IsForest(Servers, Edges)
  BY NetAssumption
<1>2. ASSUME NEW r \in Servers, {z, r} \in Edges, s \in Behind(Servers, Edges, r, z)
      PROVE  Behind(Servers, Edges, z, r) \subseteq Away(t, s) \ {t}
  BY <1>1, <1>2, BehindDeeper DEF Away
<1>3. Dependents(s, z) \subseteq Away(t, s) \ {t}
  BY <1>2 DEF Dependents
<1>4. ASSUME NEW p, {s, p} \in Edges, p # t PROVE Dependents(p, z) = Dependents(s, z)
  <2>1. z # s
    BY <1>1, BehindBasics DEF Away
  <2>2. z # p
    <3>1. {p, s} = {s, p}
      OBVIOUS
    <3>2. p \in Behind(Servers, Edges, p, s)
      BY <1>1, <1>4, <3>1, BehindBasics
    <3>3. Behind(Servers, Edges, t, s) \cap Behind(Servers, Edges, p, s) = {}
      BY <1>1, <1>4, <3>1, BehindApart
    <3> QED BY <3>2, <3>3 DEF Away
  <2>3. ASSUME NEW r \in Servers, {z, r} \in Edges
        PROVE  s \in Behind(Servers, Edges, r, z) <=> p \in Behind(Servers, Edges, r, z)
    <3>1. {r, z} = {z, r}
      OBVIOUS
    <3>2. Closed(Behind(Servers, Edges, r, z), Edges \ {{r, z}})
      BY <1>1, <2>3, <3>1, BehindBasics
    <3>3. {s, p} \in Edges \ {{r, z}}
      BY <1>4, <2>1, <2>2
    <3> QED BY <3>2, <3>3 DEF Closed
  <2>4. {r \in Servers : {z, r} \in Edges /\ s \in Behind(Servers, Edges, r, z)}
          = {r \in Servers : {z, r} \in Edges /\ p \in Behind(Servers, Edges, r, z)}
    BY <2>3
  <2> QED BY <2>4 DEF Dependents
<1> QED BY <1>3, <1>4

\* What goes when a neighbour f of a loses its link to a, for another neighbour of a.
LEMMA DependentsNear ==
    ASSUME NEW a, NEW f, NEW p, {a, f} \in Edges, {a, p} \in Edges, p # f
    PROVE  Dependents(p, f) = Away(f, a)
<1>1. IsForest(Servers, Edges)
  BY NetAssumption
<1>2. a \in Servers /\ f \in Servers /\ a # f /\ a # p
  BY <1>1, EdgeEnds
<1>3. {f, a} = {a, f}
  OBVIOUS
<1>4. p \in Behind(Servers, Edges, a, f)
  <2>1. {a, p} \in Edges \ {{a, f}}
    BY <1>2
  <2>2. Closed(Behind(Servers, Edges, a, f), Edges \ {{a, f}}) /\ a \in Behind(Servers, Edges, a, f)
    BY <1>1, BehindBasics
  <2> QED BY <2>1, <2>2 DEF Closed
<1>5. ASSUME NEW r \in Servers, {f, r} \in Edges, p \in Behind(Servers, Edges, r, f)
      PROVE  r = a
  <2>1. {r, f} = {f, r}
    OBVIOUS
  <2> QED BY <1>1, <1>4, <1>5, <2>1, BehindApart
<1>6. {r \in Servers : {f, r} \in Edges /\ p \in Behind(Servers, Edges, r, f)} = {a}
  BY <1>2, <1>3, <1>4, <1>5
<1> QED BY <1>6 DEF Dependents, Away
---------------------------------------------------------------------------
(* What the receiver of messages will know of i, a server or a client with *)
(* the nick n, from the link to y: b before it reads them, and c after.    *)

\* The message introduces i.
Brings(m, i) == m.type \in {"server", "nick"} /\ m.id = i

\* The message takes i away.
Removes(m, i, n, y) ==
    \/ m.type = "squit" /\ ServerOf(i) \in Dependents(y, m.id)
    \/ m.type = "quit" /\ m.by = n

\* An introduction finds i unknown.
Follows(m, i, n, y, b, c) ==
    IF Brings(m, i) THEN ~b /\ c
    ELSE IF Removes(m, i, n, y) THEN ~c
    ELSE c = b

Tracks(w, i, n, y, b, c) ==
    \E h \in [0..Len(w) -> BOOLEAN] :
        /\ h[0] = b /\ h[Len(w)] = c
        /\ \A k \in 1..Len(w) : Follows(w[k], i, n, y, h[k - 1], h[k])

\* The messages do not concern i.
Neutral(w, i, n, y) == \A m \in ToSet(w) : ~Brings(m, i) /\ ~Removes(m, i, n, y)

\* One message.
LEMMA TracksOne ==
    ASSUME NEW S, NEW m \in S, NEW i, NEW n, NEW y, NEW b \in BOOLEAN, NEW c \in BOOLEAN,
           Follows(m, i, n, y, b, c)
    PROVE  Tracks(<<m>>, i, n, y, b, c)
<1> DEFINE h == [k \in 0..1 |-> IF k = 0 THEN b ELSE c]
<1>1. h \in [0..1 -> BOOLEAN] /\ h[0] = b /\ h[1] = c
  OBVIOUS
<1>2. Len(<<m>>) = 1 /\ <<m>>[1] = m
  OBVIOUS
<1> HIDE DEF h
<1>3. ASSUME NEW k \in 1..1 PROVE Follows(<<m>>[k], i, n, y, h[k - 1], h[k])
  <2>1. k = 1 /\ k - 1 = 0
    OBVIOUS
  <2>2. Follows(<<m>>[1], i, n, y, h[0], h[1])
    BY <1>1, <1>2
  <2> QED BY <2>1, <2>2
<1> QED BY <1>1, <1>2, <1>3 DEF Tracks

\* Messages and more messages.
LEMMA TracksMore ==
    ASSUME NEW S, NEW u \in Seq(S), NEW v \in Seq(S), NEW i, NEW n, NEW y,
           NEW b, NEW d, NEW c, Tracks(u, i, n, y, b, d), Tracks(v, i, n, y, d, c)
    PROVE  Tracks(u \o v, i, n, y, b, c)
<1> DEFINE w == u \o v
<1>1. PICK f \in [0..Len(u) -> BOOLEAN] :
         /\ f[0] = b /\ f[Len(u)] = d
         /\ \A k \in 1..Len(u) : Follows(u[k], i, n, y, f[k - 1], f[k])
  BY DEF Tracks
<1>2. PICK g \in [0..Len(v) -> BOOLEAN] :
         /\ g[0] = d /\ g[Len(v)] = c
         /\ \A k \in 1..Len(v) : Follows(v[k], i, n, y, g[k - 1], g[k])
  BY DEF Tracks
<1> DEFINE h == [k \in 0..Len(w) |-> IF k <= Len(u) THEN f[k] ELSE g[k - Len(u)]]
<1>3. Len(w) = Len(u) + Len(v) /\ Len(u) \in Nat /\ Len(v) \in Nat /\ Len(w) \in Nat
      /\ \A k \in 1..Len(w) : w[k] = IF k <= Len(u) THEN u[k] ELSE v[k - Len(u)]
  OBVIOUS
<1> HIDE DEF w
<1>4. h \in [0..Len(w) -> BOOLEAN]
  <2>1. ASSUME NEW k \in 0..Len(w) PROVE (IF k <= Len(u) THEN f[k] ELSE g[k - Len(u)]) \in BOOLEAN
    <3>1. CASE k <= Len(u)
      <4>1. k \in 0..Len(u)
        BY <1>3, <3>1
      <4> QED BY <3>1, <4>1
    <3>2. CASE ~(k <= Len(u))
      <4>1. k - Len(u) \in 0..Len(v)
        BY <1>3, <3>2
      <4> QED BY <3>2, <4>1
    <3> QED BY <3>1, <3>2
  <2> QED BY <2>1
<1>5. \A k \in 0..Len(w) : h[k] = IF k <= Len(u) THEN f[k] ELSE g[k - Len(u)]
  OBVIOUS
<1> HIDE DEF h
<1>6. h[0] = b
  BY <1>1, <1>3, <1>5
<1>7. h[Len(w)] = c
  <2>1. CASE Len(v) = 0
    BY <1>1, <1>2, <1>3, <1>5, <2>1
  <2>2. CASE Len(v) # 0
    <3>1. Len(w) \in 0..Len(w) /\ ~(Len(w) <= Len(u)) /\ Len(w) - Len(u) = Len(v)
      BY <1>3, <2>2
    <3>2. h[Len(w)] = g[Len(w) - Len(u)]
      BY <1>5, <3>1
    <3> QED BY <1>2, <3>1, <3>2
  <2> QED BY <2>1, <2>2
<1>8. ASSUME NEW k \in 1..Len(w) PROVE Follows(w[k], i, n, y, h[k - 1], h[k])
  <2>1. CASE k <= Len(u)
    <3>1. k \in 1..Len(u) /\ k \in 0..Len(w) /\ k - 1 \in 0..Len(w) /\ k - 1 <= Len(u)
      BY <1>3, <2>1
    <3>2. h[k] = f[k] /\ h[k - 1] = f[k - 1] /\ w[k] = u[k]
      BY <1>3, <1>5, <2>1, <3>1
    <3> QED BY <1>1, <3>1, <3>2
  <2>2. CASE k = Len(u) + 1
    <3>1. 1 \in 1..Len(v) /\ k - Len(u) = 1 /\ 1 - 1 = 0 /\ k - 1 = Len(u)
      BY <1>3, <2>2
    <3>2. h[k] = g[1] /\ h[k - 1] = f[Len(u)] /\ w[k] = v[1]
      BY <1>3, <1>5, <2>2, <3>1
    <3>3. Follows(v[1], i, n, y, g[1 - 1], g[1])
      BY <1>2, <3>1
    <3> QED BY <1>1, <1>2, <3>1, <3>2, <3>3
  <2>3. CASE k > Len(u) + 1
    <3>1. k - Len(u) \in 1..Len(v) /\ (k - 1) - Len(u) = (k - Len(u)) - 1
          /\ ~(k <= Len(u)) /\ ~(k - 1 <= Len(u)) /\ k - 1 \in 0..Len(w)
      BY <1>3, <2>3
    <3>2. h[k] = g[k - Len(u)] /\ h[k - 1] = g[(k - Len(u)) - 1] /\ w[k] = v[k - Len(u)]
      BY <1>3, <1>5, <3>1
    <3> QED BY <1>2, <3>1, <3>2
  <2>4. k \in Int /\ Len(u) \in Int
    BY <1>3
  <2>5. k <= Len(u) \/ k = Len(u) + 1 \/ k > Len(u) + 1
    BY <2>4
  <2> QED BY <2>1, <2>2, <2>3, <2>5
<1> QED BY <1>4, <1>6, <1>7, <1>8 DEF Tracks, w

\* The first message is read.
LEMMA TracksRead ==
    ASSUME NEW S, NEW w \in Seq(S), w # <<>>, NEW i, NEW n, NEW y, NEW b, NEW c,
           Tracks(w, i, n, y, b, c)
    PROVE  \E d \in BOOLEAN : Follows(Head(w), i, n, y, b, d) /\ Tracks(Tail(w), i, n, y, d, c)
<1>1. PICK h \in [0..Len(w) -> BOOLEAN] :
         /\ h[0] = b /\ h[Len(w)] = c
         /\ \A k \in 1..Len(w) : Follows(w[k], i, n, y, h[k - 1], h[k])
  BY DEF Tracks
<1> DEFINE v == Tail(w)
           g == [k \in 0..Len(v) |-> h[k + 1]]
<1>2. Len(w) \in Nat /\ Len(w) > 0 /\ Head(w) = w[1] /\ Len(v) = Len(w) - 1
      /\ \A k \in 1..Len(v) : v[k] = w[k + 1]
  OBVIOUS
<1> HIDE DEF v
<1>3. g \in [0..Len(v) -> BOOLEAN]
  <2>1. ASSUME NEW k \in 0..Len(v) PROVE h[k + 1] \in BOOLEAN
    <3>1. k + 1 \in 0..Len(w)
      BY <1>2
    <3> QED BY <3>1
  <2> QED BY <2>1
<1>4. \A k \in 0..Len(v) : g[k] = h[k + 1]
  OBVIOUS
<1> HIDE DEF g
<1>5. g[0] = h[1] /\ g[Len(v)] = c
  BY <1>1, <1>2, <1>4
<1>6. ASSUME NEW k \in 1..Len(v) PROVE Follows(v[k], i, n, y, g[k - 1], g[k])
  <2>1. g[k] = h[k + 1] /\ g[k - 1] = h[(k + 1) - 1] /\ v[k] = w[k + 1] /\ k + 1 \in 1..Len(w)
    BY <1>2, <1>4
  <2> QED BY <1>1, <2>1
<1>7. Follows(Head(w), i, n, y, b, h[1])
  <2>1. 1 \in 1..Len(w) /\ 1 - 1 = 0
    BY <1>2
  <2> QED BY <1>1, <1>2, <2>1
<1>8. h[1] \in BOOLEAN
  BY <1>2
<1>9. Tracks(v, i, n, y, h[1], c)
  BY <1>3, <1>5, <1>6 DEF Tracks
<1> QED BY <1>7, <1>8, <1>9 DEF v

\* Messages that do not concern i change nothing.
LEMMA TracksNeutral ==
    ASSUME NEW S, NEW w \in Seq(S), NEW i, NEW n, NEW y, NEW b \in BOOLEAN,
           Neutral(w, i, n, y)
    PROVE  Tracks(w, i, n, y, b, b)
<1> DEFINE h == [k \in 0..Len(w) |-> b]
<1>1. Len(w) \in Nat /\ \A k \in 1..Len(w) : w[k] \in ToSet(w)
  BY DEF ToSet
<1>2. h \in [0..Len(w) -> BOOLEAN] /\ \A k \in 0..Len(w) : h[k] = b
  OBVIOUS
<1> HIDE DEF h
<1>3. ASSUME NEW k \in 1..Len(w) PROVE Follows(w[k], i, n, y, h[k - 1], h[k])
  <2>1. h[k] = b /\ h[k - 1] = b
    BY <1>1, <1>2
  <2> QED BY <1>1, <2>1 DEF Neutral, Follows
<1>4. h[0] = b /\ h[Len(w)] = b
  BY <1>1, <1>2
<1> QED BY <1>2, <1>3, <1>4 DEF Tracks

\* Nor does the absence of an introduction, where i is unknown.
LEMMA TracksUnknown ==
    ASSUME NEW S, NEW w \in Seq(S), NEW i, NEW n, NEW y,
           \A m \in ToSet(w) : ~Brings(m, i)
    PROVE  Tracks(w, i, n, y, FALSE, FALSE)
<1> DEFINE h == [k \in 0..Len(w) |-> FALSE]
<1>1. Len(w) \in Nat /\ \A k \in 1..Len(w) : w[k] \in ToSet(w)
  BY DEF ToSet
<1>2. h \in [0..Len(w) -> BOOLEAN] /\ \A k \in 0..Len(w) : h[k] = FALSE
  OBVIOUS
<1> HIDE DEF h
<1>3. ASSUME NEW k \in 1..Len(w) PROVE Follows(w[k], i, n, y, h[k - 1], h[k])
  <2>1. h[k] = FALSE /\ h[k - 1] = FALSE
    BY <1>1, <1>2
  <2> QED BY <1>1, <2>1 DEF Follows
<1>4. h[0] = FALSE /\ h[Len(w)] = FALSE
  BY <1>1, <1>2
<1> QED BY <1>2, <1>3, <1>4 DEF Tracks

\* After a message that takes i away, and none that introduces it, i is unknown.
LEMMA TracksRemoved ==
    ASSUME NEW S, NEW w \in Seq(S), NEW i, NEW n, NEW y, NEW b \in BOOLEAN,
           \A m \in ToSet(w) : ~Brings(m, i),
           \E m \in ToSet(w) : Removes(m, i, n, y)
    PROVE  Tracks(w, i, n, y, b, FALSE)
<1> DEFINE Still(k) == b /\ \A j \in 1..k : ~Removes(w[j], i, n, y)
           h == [k \in 0..Len(w) |-> Still(k)]
<1>1. Len(w) \in Nat /\ \A k \in 1..Len(w) : w[k] \in ToSet(w)
  BY DEF ToSet
<1>2. PICK r \in 1..Len(w) : Removes(w[r], i, n, y)
  BY DEF ToSet
<1>3. h \in [0..Len(w) -> BOOLEAN] /\ \A k \in 0..Len(w) : h[k] = Still(k)
  <2>1. \A k \in 0..Len(w) : Still(k) \in BOOLEAN
    OBVIOUS
  <2> HIDE DEF Still
  <2> QED BY <2>1
<1> HIDE DEF h
<1>4. ASSUME NEW k \in 1..Len(w) PROVE Follows(w[k], i, n, y, h[k - 1], h[k])
  <2>1. k \in 0..Len(w) /\ k - 1 \in 0..Len(w)
    BY <1>1
  <2>2. h[k] = Still(k) /\ h[k - 1] = Still(k - 1)
    BY <1>3, <2>1
  <2>3. Still(k) <=> Still(k - 1) /\ ~Removes(w[k], i, n, y)
    <3>1. \A j \in 1..k : j = k \/ j \in 1..(k - 1)
      OBVIOUS
    <3>2. k \in 1..k /\ \A j \in 1..(k - 1) : j \in 1..k
      OBVIOUS
    <3> QED BY <3>1, <3>2
  <2>4. ~Brings(w[k], i)
    BY <1>1
  <2>5. h[k] \in BOOLEAN /\ h[k - 1] \in BOOLEAN
    BY <1>3, <2>1
  <2>6. CASE Removes(w[k], i, n, y)
    BY <2>2, <2>3, <2>4, <2>6 DEF Follows
  <2>7. CASE ~Removes(w[k], i, n, y)
    <3>1. h[k] <=> h[k - 1]
      BY <2>2, <2>3, <2>7
    <3>2. h[k] = h[k - 1]
      BY <2>5, <3>1
    <3> QED BY <2>4, <2>7, <3>2 DEF Follows
  <2> QED BY <2>6, <2>7
<1>5. h[0] = b
  <2>1. 0 \in 0..Len(w) /\ 1..0 = {}
    BY <1>1
  <2>2. Still(0) <=> b
    BY <2>1
  <2>3. h[0] \in BOOLEAN /\ h[0] = Still(0)
    BY <1>3, <2>1
  <2> HIDE DEF Still
  <2> QED BY <2>2, <2>3
<1>6. h[Len(w)] = FALSE
  <2>1. Len(w) \in 0..Len(w)
    BY <1>1
  <2>2. ~Still(Len(w))
    BY <1>2
  <2>3. h[Len(w)] \in BOOLEAN /\ h[Len(w)] = Still(Len(w))
    BY <1>3, <2>1
  <2> HIDE DEF Still
  <2> QED BY <2>2, <2>3
<1> QED BY <1>3, <1>4, <1>5, <1>6 DEF Tracks

\* After one introduction of i, i is known.
LEMMA TracksBrought ==
    ASSUME NEW S, NEW w \in Seq(S), IsInjective(w), NEW i, NEW n, NEW y,
           NEW a \in ToSet(w), Brings(a, i),
           \A m \in ToSet(w) : (Brings(m, i) => m = a) /\ ~Removes(m, i, n, y)
    PROVE  Tracks(w, i, n, y, FALSE, TRUE)
<1>1. Len(w) \in Nat /\ \A k \in 1..Len(w) : w[k] \in ToSet(w)
  BY DEF ToSet
<1>2. PICK r \in 1..Len(w) : w[r] = a
  BY DEF ToSet
<1>3. \A k \in 1..Len(w) : Brings(w[k], i) <=> k = r
  BY <1>1, <1>2 DEF IsInjective
<1> DEFINE h == [k \in 0..Len(w) |-> k >= r]
<1>4. h \in [0..Len(w) -> BOOLEAN] /\ \A k \in 0..Len(w) : h[k] = (k >= r)
  OBVIOUS
<1> HIDE DEF h
<1>5. ASSUME NEW k \in 1..Len(w) PROVE Follows(w[k], i, n, y, h[k - 1], h[k])
  <2>1. k \in 0..Len(w) /\ k - 1 \in 0..Len(w) /\ k \in Int
    BY <1>1
  <2>2. h[k] = (k >= r) /\ h[k - 1] = (k - 1 >= r)
    BY <1>4, <2>1
  <2>3. CASE k = r
    <3>0. k >= r /\ ~(k - 1 >= r) /\ h[k] \in BOOLEAN /\ h[k - 1] \in BOOLEAN
      BY <1>4, <2>1, <2>3
    <3>1. h[k] = TRUE /\ h[k - 1] = FALSE
      BY <2>2, <3>0
    <3>2. Brings(w[k], i)
      BY <1>3, <2>3
    <3> QED BY <3>1, <3>2 DEF Follows
  <2>4. CASE k # r
    <3>1. (k >= r) <=> (k - 1 >= r)
      BY <2>1, <2>4
    <3>2. h[k] = h[k - 1]
      BY <1>4, <2>1, <2>2, <3>1
    <3>3. ~Brings(w[k], i) /\ ~Removes(w[k], i, n, y)
      BY <1>1, <1>3, <2>4
    <3> QED BY <3>2, <3>3 DEF Follows
  <2> QED BY <2>3, <2>4
<1>6. h[0] = FALSE /\ h[Len(w)] = TRUE
  <2>1. 0 \in 0..Len(w) /\ Len(w) \in 0..Len(w) /\ ~(0 >= r) /\ Len(w) >= r
    BY <1>1
  <2> QED BY <1>4, <2>1
<1> QED BY <1>4, <1>5, <1>6 DEF Tracks

---------------------------------------------------------------------------
(* The invariant, in which cn, sl, bn and rc stand for conn, serv_list,    *)
(* born and raced.                                                         *)

\* Who has the nick of u and, of the two, is not to lose it.
Beats(bn, w, u) ==
    /\ bn[w].nick = bn[u].nick
    /\ IF bn[w].user = bn[u].user THEN bn[w].ts >= bn[u].ts ELSE bn[w].ts <= bn[u].ts

\* There is a cause for killing u.
Blamed(bn, rc, u) ==
    /\ bn[u].nick # NoNick
    /\ bn[u].nick \in rc \/ \E w \in Clients \ {u} : Beats(bn, w, u)

\* Those of whom all news is taken.
Steady(bn, rc) == Servers \cup {u \in Clients : ~Blamed(bn, rc, u)}

NickOf(bn, i) == IF i \in Clients THEN bn[i].nick ELSE NoNick

\* A list has i from x; a server with the links k has told y of i.
HasIn(l, x, i) == \E e \in ToSet(l) : e.id = i /\ e.from = x
ToldIn(l, k, y, i) == \E e \in ToSet(l) : e.id = i /\ e.from # y /\ e.from \in k

Has(y, x, i) == HasIn(list[y], x, i)
Around(x) == Links(x) \cup {x}
Told(x, y, i) == ToldIn(list[x], Around(x), y, i)

\* The entry is what the client registered with; a server has no nick and no modes.
Registered(bn, e) ==
    IF e.id \in Clients
    THEN /\ e.nick = bn[e.id].nick /\ e.nick # NoNick
         /\ e.ts = bn[e.id].ts /\ e.user = bn[e.id].user
    ELSE e.nick = NoNick /\ e.modes = {}

\* The entry comes over the link behind which its server is; over one that is not
\* established, nobody but the server at its other end is known.
RightWay(cn, sl, s, e) ==
    /\ e.from = s <=> ServerOf(e.id) = s
    /\ e.from # s => {s, e.from} \in cn /\ ServerOf(e.id) \in Away(e.from, s)
    /\ e.from # s /\ (e.from \notin ToSet(sl[s]) \/ s \notin ToSet(sl[e.from])) => e.id = e.from

GoodEntry(cn, sl, bn, s, e) == RightWay(cn, sl, s, e) /\ Registered(bn, e)

\* The entries a server keeps while it has its connections: itself and its neighbours.
Fixed(cn, s) == {ServerEntry(t, t) : t \in {t \in Servers : t = s \/ {s, t} \in cn}}

Distinct(E) ==
    \A d, e \in E : /\ d.id = e.id => d = e
                    /\ d.nick = e.nick /\ IsClientEntry(d) => d = e

GoodList(cn, sl, bn, s, l) ==
    /\ l \in Seq(Entry) /\ IsInjective(l) /\ Distinct(ToSet(l))
    /\ Fixed(cn, s) \subseteq ToSet(l)
    /\ \A e \in ToSet(l) : GoodEntry(cn, sl, bn, s, e)

\* The message says what is so of what is behind x for y, and kills for cause.
MsgOK(bn, rc, m, x, y) ==
    /\ m.type \in {"server", "nick"} => ServerOf(m.id) \in Away(x, y)
    /\ m.type = "nick" =>
         m.nick = bn[m.id].nick /\ m.ts = bn[m.id].ts /\ m.user = bn[m.id].user
    /\ m.type = "squit" => m.id \in Away(x, y) \ {x}
    /\ m.type = "kill" => Blamed(bn, rc, m.id)

WireTypes ==
    /\ conn \subseteq Edges
    /\ serv_list \in [Servers -> Seq(Servers)] /\ \A s \in Servers : IsInjective(serv_list[s])
    /\ wire \in [Servers \X Servers -> Seq(Message)]

OtherTypes ==
    /\ ubuf \in [Servers -> (SUBSET UModes) \cup {Unset}]
    /\ splits \in 0..MaxSplits /\ acts \in 0..MaxActs
    /\ born \in [Clients -> [nick : Nicks \cup {NoNick}, ts : 0..MaxTime,
                               user : UserHosts \cup {NoNick}]]
    /\ \A u \in Clients : born[u].nick # NoNick => born[u].user \in UserHosts
    /\ killed \subseteq Clients /\ raced \subseteq Nicks

Connected ==
    \A x, y \in Servers : IF y \in Links(x) THEN {x, y} \in conn ELSE wire[x, y] = <<>>

Lists ==
    /\ list \in [Servers -> Seq(Entry)]
    /\ \A s \in Servers : GoodList(conn, serv_list, born, s, list[s])

Messages ==
    \A x, y \in Servers : \A m \in ToSet(wire[x, y]) : MsgOK(born, raced, m, x, y)

\* Once it has read what is on the wire, y knows from x whom x has told it of.
WillAgree ==
    \A x, y \in Servers : y \in Links(x) =>
        \A i \in Steady(born, raced) :
            Tracks(wire[x, y], i, NickOf(born, i), y, Has(y, x, i), Told(x, y, i))

ForCause == \A u \in killed : Blamed(born, raced, u)

IInv == WireTypes /\ OtherTypes /\ Connected /\ Lists /\ Messages /\ WillAgree /\ ForCause

---------------------------------------------------------------------------
(* What the definitions say.                                               *)

\* Servers are not clients, and every client has a server.
LEMMA Ids ==
    /\ Servers \cap Clients = {} /\ NoNick \notin Nicks /\ IsForest(Servers, Edges)
    /\ \A u \in Clients : Home[u] \in Servers /\ ServerOf(u) = Home[u] /\ u \notin Servers
    /\ \A x \in Servers : ServerOf(x) = x /\ x \notin Clients
BY NetAssumption DEF ServerOf

\* The fields of the messages of each type.
LEMMA MessageFields ==
    ASSUME NEW m \in Message
    PROVE  /\ m.type \in {"server", "squit", "nick", "mode", "quit", "kill", "killnick"}
           /\ m.type \in {"server", "squit"} => m.id \in Servers
           /\ m.type = "nick" => /\ m.id \in Clients /\ m.nick \in Nicks /\ m.ts \in Nat
                                 /\ m.user \in UserHosts
                                 /\ m.modes \in (SUBSET UModes) \cup {Unset}
           /\ m.type = "mode" => m.by \in Nicks /\ m.modes \in SUBSET UModes
           /\ m.type = "quit" => m.by \in Nicks
           /\ m.type = "kill" => m.by \in Nicks \cup {NoNick} /\ m.id \in Clients
           /\ m.type = "killnick" => m.nick \in Nicks
BY DEF Message

\* The fields of an entry.
LEMMA EntryFields ==
    ASSUME NEW e \in Entry
    PROVE  /\ e.id \in Clients \cup Servers /\ e.nick \in Nicks \cup {NoNick} /\ e.ts \in Nat
           /\ e.user \in UserHosts \cup {NoNick} /\ e.modes \in SUBSET UModes
           /\ e.from \in Servers
           /\ ServerOf(e.id) \in Servers
           /\ \A d \in Entry : d.id = e.id /\ d.nick = e.nick /\ d.ts = e.ts /\ d.user = e.user
                               /\ d.modes = e.modes /\ d.from = e.from => d = e
BY Ids DEF Entry, ServerOf

\* The entry of a server.
LEMMA ServerEntryIs ==
    ASSUME NEW y \in Servers, NEW t \in Servers
    PROVE  LET e == ServerEntry(y, t)
           IN  /\ e \in Entry /\ e.id = y /\ e.nick = NoNick /\ e.modes = {} /\ e.from = t
               /\ ~IsClientEntry(e)
BY Ids DEF ServerEntry, Entry, IsClientEntry

\* Nothing changes what somebody has registered with, or takes blame away.
HistoryGrows ==
    /\ raced \subseteq raced'
    /\ \A u \in Clients : born[u].nick # NoNick => born'[u] = born[u]

\* Blame lasts.
LEMMA BlameLasts ==
    ASSUME OtherTypes, HistoryGrows
    PROVE  /\ \A u \in Clients : Blamed(born, raced, u) => Blamed(born', raced', u)
           /\ Steady(born', raced') \subseteq Steady(born, raced)
<1>1. ASSUME NEW u \in Clients, Blamed(born, raced, u) PROVE Blamed(born', raced', u)
  <2>1. born[u].nick # NoNick /\ born'[u] = born[u]
    BY <1>1 DEF Blamed, HistoryGrows
  <2>2. CASE born[u].nick \in raced
    BY <2>1, <2>2 DEF Blamed, HistoryGrows
  <2>3. CASE \E w \in Clients \ {u} : Beats(born, w, u)
    <3>1. PICK w \in Clients \ {u} : Beats(born, w, u)
      BY <2>3
    <3>2. born'[w] = born[w]
      BY <2>1, <3>1 DEF Beats, HistoryGrows
    <3>3. Beats(born', w, u)
      BY <2>1, <3>1, <3>2 DEF Beats
    <3> QED BY <2>1, <3>3 DEF Blamed
  <2> QED BY <1>1, <2>2, <2>3 DEF Blamed
<1> QED BY <1>1 DEF Steady

\* A message stays true.
LEMMA MessageLasts ==
    ASSUME OtherTypes, HistoryGrows, NEW m \in Message, NEW x, NEW y, MsgOK(born, raced, m, x, y)
    PROVE  MsgOK(born', raced', m, x, y)
<1>1. m.type = "nick" => born'[m.id] = born[m.id]
  <2>1. m.type = "nick" => m.id \in Clients /\ m.nick \in Nicks /\ m.nick = born[m.id].nick
    BY MessageFields DEF MsgOK
  <2> QED BY <2>1, Ids DEF HistoryGrows
<1>2. m.type = "kill" => m.id \in Clients
  BY MessageFields
<1> QED BY <1>1, <1>2, BlameLasts DEF MsgOK

---------------------------------------------------------------------------
(* Lists.                                                                  *)

\* Fewer entries, but for those that stay.
LEMMA ListFewer ==
    ASSUME NEW cn, NEW sl, NEW bn, NEW s, NEW l, GoodList(cn, sl, bn, s, l),
           NEW es, Fixed(cn, s) \cap es = {}
    PROVE  /\ GoodList(cn, sl, bn, s, Without(l, es))
           /\ ToSet(Without(l, es)) = ToSet(l) \ es
<1>1. l \in Seq(Entry) /\ IsInjective(l)
  BY DEF GoodList
<1>2. /\ Without(l, es) \in Seq(Entry) /\ IsInjective(Without(l, es))
      /\ ToSet(Without(l, es)) = ToSet(l) \ es
  BY <1>1, WithoutFacts
<1>3. PICK r : r = Without(l, es)
  OBVIOUS
<1>4. Fixed(cn, s) \subseteq ToSet(r)
  BY <1>2, <1>3 DEF GoodList
<1>5. ToSet(r) \subseteq ToSet(l)
  BY <1>2, <1>3
<1>6. Distinct(ToSet(r)) /\ \A e \in ToSet(r) : GoodEntry(cn, sl, bn, s, e)
  BY <1>5 DEF GoodList, Distinct
<1> QED BY <1>2, <1>3, <1>4, <1>6 DEF GoodList

\* A list with one more element in front.
LEMMA InFront ==
    ASSUME NEW S, NEW l \in Seq(S), NEW e \in S
    PROVE  /\ <<e>> \o l \in Seq(S)
           /\ ToSet(<<e>> \o l) = ToSet(l) \cup {e}
           /\ IsInjective(l) /\ e \notin ToSet(l) => IsInjective(<<e>> \o l)
<1> DEFINE r == <<e>> \o l
<1>1. Len(l) \in Nat
  OBVIOUS
<1>2. r \in Seq(S) /\ Len(r) = Len(l) + 1 /\ r[1] = e
      /\ \A k \in 1..Len(l) : r[k + 1] = l[k]
  BY <1>1
<1> HIDE DEF r
<1>3. \A k \in 1..Len(r) : k = 1 \/ (k - 1 \in 1..Len(l) /\ r[k] = l[k - 1])
  <2>1. ASSUME NEW k \in 1..Len(r), k # 1 PROVE k - 1 \in 1..Len(l) /\ r[k] = l[k - 1]
    <3>1. k - 1 \in 1..Len(l) /\ (k - 1) + 1 = k
      BY <1>1, <1>2, <2>1
    <3> QED BY <1>2, <3>1
  <2> QED BY <2>1
<1>4. DOMAIN r = 1..Len(r) /\ DOMAIN l = 1..Len(l)
  BY <1>1, <1>2
<1>5. ToSet(r) = ToSet(l) \cup {e}
  <2>1. ToSet(r) \subseteq ToSet(l) \cup {e}
    BY <1>2, <1>3, <1>4 DEF ToSet
  <2>2. e \in ToSet(r)
    <3>1. 1 \in DOMAIN r
      BY <1>1, <1>2, <1>4
    <3> QED BY <1>2, <3>1 DEF ToSet
  <2>3. ASSUME NEW k \in 1..Len(l) PROVE l[k] \in ToSet(r)
    <3>1. k + 1 \in DOMAIN r /\ r[k + 1] = l[k]
      BY <1>1, <1>2, <1>4
    <3> QED BY <3>1 DEF ToSet
  <2> QED BY <1>4, <2>1, <2>2, <2>3 DEF ToSet
<1>6. ASSUME IsInjective(l), e \notin ToSet(l) PROVE IsInjective(r)
  <2>1. \A k \in 1..Len(l) : l[k] # e
    BY <1>4, <1>6 DEF ToSet
  <2>2. ASSUME NEW j \in 1..Len(r), NEW k \in 1..Len(r), r[j] = r[k] PROVE j = k
    <3>1. j = 1 <=> k = 1
      BY <1>2, <1>3, <2>1, <2>2
    <3>2. CASE j # 1
      <4>1. l[j - 1] = l[k - 1] /\ j - 1 \in 1..Len(l) /\ k - 1 \in 1..Len(l)
        BY <1>3, <2>2, <3>1, <3>2
      <4>2. j - 1 = k - 1
        BY <1>1, <1>4, <1>6, <4>1 DEF IsInjective
      <4> QED BY <4>2
    <3> QED BY <3>1, <3>2
  <2> QED BY <1>4, <2>2 DEF IsInjective
<1> QED BY <1>2, <1>5, <1>6 DEF r

\* A new entry, of an id and a nick the list does not have.
LEMMA ListMore ==
    ASSUME NEW cn, NEW sl, NEW bn, NEW s, NEW l, GoodList(cn, sl, bn, s, l),
           NEW e \in Entry, GoodEntry(cn, sl, bn, s, e),
           \A d \in ToSet(l) : d.id # e.id /\ (IsClientEntry(e) => d.nick # e.nick)
    PROVE  /\ GoodList(cn, sl, bn, s, <<e>> \o l)
           /\ ToSet(<<e>> \o l) = ToSet(l) \cup {e}
<1>1. l \in Seq(Entry) /\ IsInjective(l) /\ e \notin ToSet(l)
  BY DEF GoodList
<1>2. PICK r : r = <<e>> \o l
  OBVIOUS
<1>3. r \in Seq(Entry) /\ IsInjective(r)
  BY <1>1, <1>2, InFront
<1>5. ToSet(r) = ToSet(l) \cup {e}
  BY <1>1, <1>2, InFront
<1>7. Distinct(ToSet(r))
  <2>1. ASSUME NEW d \in ToSet(l), d.nick = e.nick PROVE ~IsClientEntry(d) /\ ~IsClientEntry(e)
    BY <2>1 DEF GoodList, GoodEntry, Registered, IsClientEntry
  <2> QED BY <1>5, <2>1 DEF GoodList, Distinct
<1>8. Fixed(cn, s) \subseteq ToSet(r) /\ \A d \in ToSet(r) : GoodEntry(cn, sl, bn, s, d)
  BY <1>5 DEF GoodList
<1> QED BY <1>2, <1>3, <1>5, <1>7, <1>8 DEF GoodList

\* More modes for a client.
LEMMA ListModes ==
    ASSUME NEW cn, NEW sl, NEW bn, NEW s, NEW l, GoodList(cn, sl, bn, s, l),
           NEW e \in ToSet(l), IsClientEntry(e), NEW modes \in SUBSET UModes
    PROVE  LET r == AddModes(l, e, modes)
           IN  /\ GoodList(cn, sl, bn, s, r)
               /\ \A x, i : HasIn(r, x, i) <=> HasIn(l, x, i)
               /\ \A k, y, i : ToldIn(r, k, y, i) <=> ToldIn(l, k, y, i)
<1> DEFINE New(d) == IF d = e THEN [e EXCEPT !.modes = @ \cup modes] ELSE d
           r == AddModes(l, e, modes)
<1>1. l \in Seq(Entry) /\ IsInjective(l) /\ ToSet(l) \subseteq Entry
  BY DEF GoodList, ToSet
<1>2. ASSUME NEW d \in ToSet(l)
      PROVE  /\ New(d) \in Entry
             /\ New(d).id = d.id /\ New(d).nick = d.nick /\ New(d).ts = d.ts
             /\ New(d).user = d.user /\ New(d).from = d.from
             /\ ~IsClientEntry(d) => New(d) = d
  <2>1. d \in Entry /\ e \in Entry
    BY <1>1
  <2>2. CASE d = e
    <3>1. New(d) = [e EXCEPT !.modes = @ \cup modes]
      BY <2>2
    <3>2. New(d) = [id |-> e.id, nick |-> e.nick, ts |-> e.ts, user |-> e.user,
                    modes |-> e.modes \cup modes, from |-> e.from]
      BY <2>1, <3>1 DEF Entry
    <3>3. e.modes \cup modes \in SUBSET UModes
      BY <2>1, EntryFields
    <3> HIDE DEF New
    <3>4. New(d) \in Entry
      BY <2>1, <3>2, <3>3, EntryFields DEF Entry
    <3> QED BY <2>2, <3>2, <3>4
  <2>3. CASE d # e
    BY <2>1, <2>3
  <2> QED BY <2>2, <2>3
<1>3. DOMAIN r = DOMAIN l /\ Len(r) = Len(l) /\ r \in Seq(Entry)
      /\ \A k \in DOMAIN l : l[k] \in ToSet(l) /\ r[k] = New(l[k])
  <2>1. \A k \in DOMAIN l : l[k] \in ToSet(l) /\ (IF l[k] = e THEN [e EXCEPT !.modes = @ \cup modes]
                                                  ELSE l[k]) = New(l[k])
    BY DEF ToSet
  <2>2. \A k \in DOMAIN l : New(l[k]) \in Entry
    BY <1>2, <2>1
  <2> HIDE DEF New
  <2>3. r = [k \in DOMAIN l |-> New(l[k])]
    BY <2>1 DEF AddModes
  <2>4. DOMAIN l = 1..Len(l)
    BY <1>1
  <2>5. r \in Seq(Entry) /\ Len(r) = Len(l)
    BY <1>1, <2>2, <2>3, <2>4
  <2> HIDE DEF r
  <2> QED BY <2>1, <2>3, <2>5
<1> HIDE DEF New, r
<1>4. ToSet(r) = {New(d) : d \in ToSet(l)}
  BY <1>3 DEF ToSet
<1>5. IsInjective(r)
  <2>1. ASSUME NEW j \in DOMAIN l, NEW k \in DOMAIN l, r[j] = r[k] PROVE j = k
    <3>1. l[j].id = l[k].id
      BY <1>2, <1>3, <2>1
    <3>2. l[j] = l[k]
      BY <1>3, <3>1 DEF GoodList, Distinct
    <3> QED BY <1>1, <3>2 DEF IsInjective
  <2> QED BY <1>3, <2>1 DEF IsInjective
<1>6. Distinct(ToSet(r))
  <2>1. SUFFICES ASSUME NEW c \in ToSet(l), NEW d \in ToSet(l)
                 PROVE  /\ New(c).id = New(d).id => New(c) = New(d)
                        /\ New(c).nick = New(d).nick /\ IsClientEntry(New(c)) => New(c) = New(d)
    BY <1>4 DEF Distinct
  <2> QED BY <1>2 DEF GoodList, Distinct, IsClientEntry
<1>7. Fixed(cn, s) \subseteq ToSet(r)
  <2>1. ASSUME NEW d \in Fixed(cn, s) PROVE d \in ToSet(l) /\ ~IsClientEntry(d)
    <3>1. PICK t \in Servers : d = ServerEntry(t, t)
      BY <2>1 DEF Fixed
    <3> QED BY <2>1, <3>1, ServerEntryIs DEF GoodList
  <2> QED BY <1>2, <1>4, <2>1
<1>8. ASSUME NEW d \in ToSet(l) PROVE GoodEntry(cn, sl, bn, s, New(d))
  <2>1. GoodEntry(cn, sl, bn, s, d)
    BY DEF GoodList
  <2>2. RightWay(cn, sl, s, New(d))
    BY <1>2, <2>1 DEF GoodEntry, RightWay
  <2>3. Registered(bn, New(d))
    BY <1>2, <2>1 DEF GoodEntry, Registered, IsClientEntry
  <2> QED BY <2>2, <2>3 DEF GoodEntry
<1>9. GoodList(cn, sl, bn, s, r)
  BY <1>3, <1>4, <1>5, <1>6, <1>7, <1>8 DEF GoodList
<1>10. \A x, i : HasIn(r, x, i) <=> HasIn(l, x, i)
  BY <1>2, <1>4 DEF HasIn
<1>11. \A k, y, i : ToldIn(r, k, y, i) <=> ToldIn(l, k, y, i)
  BY <1>2, <1>4 DEF ToldIn
<1> QED BY <1>9, <1>10, <1>11 DEF r

\* A list stays good while the links are the same.
LEMMA ListLasts ==
    ASSUME OtherTypes, HistoryGrows, NEW cn, NEW sl, NEW s, NEW l,
           GoodList(cn, sl, born, s, l)
    PROVE  GoodList(cn, sl, born', s, l)
<1>1. ASSUME NEW e \in ToSet(l) PROVE Registered(born', e)
  <2>1. Registered(born, e)
    BY DEF GoodList, GoodEntry
  <2>2. e.id \in Clients => born'[e.id] = born[e.id]
    BY <2>1 DEF Registered, HistoryGrows
  <2> QED BY <2>1, <2>2 DEF Registered
<1> QED BY <1>1 DEF GoodList, GoodEntry

\* The entry of a client has its nick, and no other entry of a client has it.
LEMMA EntryOf ==
    ASSUME NEW cn, NEW sl, NEW bn, NEW s, NEW l, GoodList(cn, sl, bn, s, l),
           NEW e \in ToSet(l)
    PROVE  /\ e \in Entry /\ e.nick = NickOf(bn, e.id)
           /\ IsClientEntry(e) => /\ e.nick \in Nicks /\ e.nick = bn[e.id].nick
                                  /\ e.ts = bn[e.id].ts /\ e.user = bn[e.id].user
                                  /\ e \notin Fixed(cn, s)
                                  /\ \A d \in ToSet(l) : d.nick = e.nick => d = e
           /\ ~IsClientEntry(e) => e.nick = NoNick /\ e.id \in Servers /\ e.modes = {}
<1>1. e \in Entry /\ Registered(bn, e)
  BY DEF GoodList, GoodEntry, ToSet
<1>2. e.nick = NickOf(bn, e.id)
  BY <1>1 DEF Registered, NickOf
<1>3. ASSUME IsClientEntry(e), e \in Fixed(cn, s) PROVE FALSE
  <2>1. PICK t \in Servers : e = ServerEntry(t, t)
    BY <1>3 DEF Fixed
  <2> QED BY <1>3, <2>1, ServerEntryIs
<1>4. ASSUME IsClientEntry(e), NEW d \in ToSet(l), d.nick = e.nick PROVE d = e
  BY <1>4 DEF GoodList, Distinct
<1> QED BY <1>1, <1>2, <1>3, <1>4, EntryFields DEF Registered, IsClientEntry

---------------------------------------------------------------------------
(* A step of one server: its list changes, it reads messages from the      *)
(* links rd, and sends out[y] over the link to y.                          *)

Moved(s, rd, out) ==
    [p \in Servers \X Servers |->
       IF p[1] = s /\ p[2] \in Links(s) THEN wire[p] \o out[p[2]]
       ELSE IF p[2] = s /\ p[1] \in rd THEN Tail(wire[p])
       ELSE wire[p]]

\* Links are to servers, and to others.
LEMMA LinksIs ==
    ASSUME WireTypes, Connected, NEW s \in Servers
    PROVE  /\ Links(s) \subseteq Servers /\ s \notin Links(s)
           /\ \A y \in Links(s) : {s, y} \in conn /\ {s, y} \in Edges /\ {y, s} \in Edges
<1>1. Links(s) \subseteq Servers
  BY DEF WireTypes, Links, ToSet
<1>2. ASSUME NEW y \in Links(s) PROVE {s, y} \in conn /\ {s, y} \in Edges /\ {y, s} = {s, y}
  BY <1>1 DEF Connected, WireTypes
<1>3. s \notin Links(s)
  <2>1. ASSUME NEW y \in Links(s) PROVE s # y
    <3>1. IsForest(Servers, Edges) /\ {s, y} \in Edges
      BY <1>2, Ids
    <3> QED BY <3>1, EdgeEnds
  <2> QED BY <2>1
<1> QED BY <1>1, <1>2, <1>3

\* There is a message from t, and the link is established at both ends.
CanRead(s, t) == t \in Servers /\ s \in Links(t) /\ t \in Links(s) /\ wire[t, s] # <<>>

\* What is on the wire after it.
AfterMove(v, s, rd, out) ==
    /\ v \in [Servers \X Servers -> Seq(Message)]
    /\ \A y \in Links(s) : v[s, y] = wire[s, y] \o out[y]
    /\ \A t \in rd : v[t, s] = Tail(wire[t, s])
    /\ \A x, y \in Servers :
         ~(x = s /\ y \in Links(s)) /\ ~(y = s /\ x \in rd) => v[x, y] = wire[x, y]

\* Moved is what is on the wire after it.
LEMMA MovedIs ==
    ASSUME WireTypes, Connected, NEW s \in Servers,
           NEW rd, \A t \in rd : CanRead(s, t),
           NEW out \in [Links(s) -> Seq(Message)], NEW v, v = Moved(s, rd, out)
    PROVE  AfterMove(v, s, rd, out)
<1>1. s \notin Links(s) /\ Links(s) \subseteq Servers
  BY LinksIs
<1>2. ASSUME NEW x \in Servers, NEW y \in Servers
      PROVE  v[x, y] = IF x = s /\ y \in Links(s) THEN wire[x, y] \o out[y]
                       ELSE IF y = s /\ x \in rd THEN Tail(wire[x, y]) ELSE wire[x, y]
  BY DEF Moved
<1>3. v = [p \in Servers \X Servers |-> v[p]]
  BY DEF Moved
<1>8. ASSUME NEW x \in Servers, NEW y \in Servers PROVE v[x, y] \in Seq(Message)
  <2>1. PICK a : a = wire[x, y]
    OBVIOUS
  <2>2. a \in Seq(Message)
    BY <2>1 DEF WireTypes
  <2>3. PICK b : y \in Links(s) => b = out[y]
    OBVIOUS
  <2>4. y \in Links(s) => b \in Seq(Message)
    BY <2>3
  <2>5. y = s /\ x \in rd => a # <<>>
    BY <2>1 DEF CanRead
  <2>6. v[x, y] = IF x = s /\ y \in Links(s) THEN a \o b
                  ELSE IF y = s /\ x \in rd THEN Tail(a) ELSE a
    BY <1>2, <2>1, <2>3
  <2>7. PICK c : c = v[x, y]
    OBVIOUS
  <2>8. /\ y \in Links(s) => a \o b \in Seq(Message)
        /\ a # <<>> => Tail(a) \in Seq(Message)
    BY <2>2, <2>4, ListsFrom
  <2> QED BY <2>2, <2>5, <2>6, <2>8
<1>9. ASSUME NEW p \in Servers \X Servers PROVE v[p] \in Seq(Message)
  <2>1. PICK x \in Servers, y \in Servers : p = <<x, y>>
    BY PairIs
  <2>2. v[p] = v[x, y]
    BY <2>1
  <2> QED BY <1>8, <2>2
<1>4. v \in [Servers \X Servers -> Seq(Message)]
  BY <1>3, <1>9
<1>5. \A y \in Links(s) : v[s, y] = wire[s, y] \o out[y]
  BY <1>1, <1>2
<1>6. ASSUME NEW t \in rd PROVE v[t, s] = Tail(wire[t, s])
  <2>1. t \in Servers
    BY DEF CanRead
  <2> QED BY <1>1, <1>2, <2>1
<1>7. \A x, y \in Servers :
         ~(x = s /\ y \in Links(s)) /\ ~(y = s /\ x \in rd) => v[x, y] = wire[x, y]
  BY <1>2
<1> QED BY <1>4, <1>5, <1>6, <1>7 DEF AfterMove

\* The step: s has the list l, has read from the links rd and sent out.
Step(s, l, rd, out) ==
    /\ UNCHANGED <<conn, serv_list>>
    /\ list' = [list EXCEPT ![s] = l]
    /\ \A t \in rd : CanRead(s, t)
    /\ out \in [Links(s) -> Seq(Message)]
    /\ wire' = Moved(s, rd, out)

\* What must be so of the messages and of the list for the invariant to hold: what
\* is read, and what is sent, tells of the difference.
Fits(s, l, rd, out) ==
    /\ \A i \in Steady(born', raced') : \A x, y \in Servers : y \in Links(x) =>
         Tracks(wire[x, y], i, NickOf(born', i), y, Has(y, x, i), Told(x, y, i))
    /\ \A i \in Steady(born', raced') : \A x \in Servers :
         s \in Links(x) /\ x \notin rd => HasIn(l, x, i) = Has(s, x, i)
    /\ \A t \in rd : \A i \in Steady(born', raced') : \A d \in BOOLEAN :
         Follows(Head(wire[t, s]), i, NickOf(born', i), s, Has(s, t, i), d)
           => HasIn(l, t, i) = d
    /\ \A y \in Links(s) : \A i \in Steady(born', raced') :
         Tracks(out[y], i, NickOf(born', i), y, Told(s, y, i), ToldIn(l, Around(s), y, i))

\* Then the links still agree.
LEMMA StepAgrees ==
    ASSUME WireTypes, Connected, NEW s \in Servers, NEW l, NEW rd, NEW out,
           list \in [Servers -> Seq(Entry)],
           Step(s, l, rd, out), Fits(s, l, rd, out)
    PROVE  WillAgree'
<1>1. SUFFICES ASSUME NEW x \in Servers, NEW y \in Servers, y \in Links(x),
                      NEW i \in Steady(born', raced')
               PROVE  Tracks(wire'[x, y], i, NickOf(born', i), y, HasIn(list'[y], x, i),
                             ToldIn(list'[x], Around(x), y, i))
  <2>1. \A x : Links(x)' = Links(x)
    BY DEF Step, Links
  <2> QED BY <2>1 DEF WillAgree, Has, Told, Around
<1>2. \A z \in Servers : list'[z] = IF z = s THEN l ELSE list[z]
  BY DEF Step
<1>3. s \notin Links(s) /\ x # y /\ Links(s) \subseteq Servers
  BY <1>1, LinksIs
<1> PICK v : v = Moved(s, rd, out)
  OBVIOUS
<1>0. /\ wire' = v
      /\ \A t \in rd : wire[t, s] # <<>>
      /\ out \in [Links(s) -> Seq(Message)]
      /\ \A t \in rd : CanRead(s, t)
  BY DEF Step, CanRead
<1>10. AfterMove(v, s, rd, out)
  BY <1>0, MovedIs
<1>11. /\ v \in [Servers \X Servers -> Seq(Message)]
       /\ \A b \in Links(s) : v[s, b] = wire[s, b] \o out[b]
       /\ \A t \in rd : v[t, s] = Tail(wire[t, s])
       /\ \A a, b \in Servers :
            ~(a = s /\ b \in Links(s)) /\ ~(b = s /\ a \in rd) => v[a, b] = wire[a, b]
  BY <1>10 DEF AfterMove
<1>4. wire[x, y] \in Seq(Message)
  BY DEF WireTypes
<1>5. PICK n : n = NickOf(born', i)
  OBVIOUS
<1>6. Tracks(wire[x, y], i, n, y, Has(y, x, i), Told(x, y, i))
  BY <1>1, <1>5 DEF Fits
<1>7. CASE x = s
  <2>1. wire'[x, y] = wire[x, y] \o out[y] /\ out[y] \in Seq(Message)
    BY <1>0, <1>1, <1>7, <1>11
  <2>2. Tracks(out[y], i, n, y, Told(x, y, i), ToldIn(l, Around(x), y, i))
    BY <1>1, <1>5, <1>7 DEF Fits
  <2>3. Tracks(wire[x, y] \o out[y], i, n, y, Has(y, x, i), ToldIn(l, Around(x), y, i))
    BY <1>4, <1>6, <2>1, <2>2, TracksMore
  <2> QED BY <1>2, <1>3, <1>5, <1>7, <2>1, <2>3 DEF Has
<1>8. CASE y = s /\ x \in rd
  <2>1. wire'[x, y] = Tail(wire[x, y]) /\ wire[x, y] # <<>>
    BY <1>0, <1>8, <1>11
  <2>2. PICK d \in BOOLEAN : Follows(Head(wire[x, y]), i, n, y, Has(y, x, i), d)
                             /\ Tracks(Tail(wire[x, y]), i, n, y, d, Told(x, y, i))
    BY <1>4, <1>6, <2>1, TracksRead
  <2>3. HasIn(l, x, i) = d
    BY <1>5, <1>8, <2>2 DEF Fits
  <2> QED BY <1>2, <1>3, <1>5, <1>8, <2>1, <2>2, <2>3 DEF Told
<1>9. CASE x # s /\ ~(y = s /\ x \in rd)
  <2>1. wire'[x, y] = wire[x, y]
    BY <1>0, <1>9, <1>11
  <2>2. HasIn(list'[y], x, i) = Has(y, x, i)
    BY <1>1, <1>2, <1>9 DEF Fits, Has
  <2> QED BY <1>2, <1>5, <1>6, <1>9, <2>1, <2>2 DEF Told
<1> QED BY <1>7, <1>8, <1>9

\* The other parts of the invariant.
LEMMA StepKeeps ==
    ASSUME WireTypes, OtherTypes, Connected, Lists, Messages, NEW s \in Servers,
           NEW l, NEW rd, NEW out, Step(s, l, rd, out), HistoryGrows,
           GoodList(conn, serv_list, born', s, l),
           \A y \in Links(s) : \A m \in ToSet(out[y]) : MsgOK(born', raced', m, s, y)
    PROVE  WireTypes' /\ Connected' /\ Lists' /\ Messages'
<1> PICK v : v = Moved(s, rd, out)
  OBVIOUS
<1>0. /\ wire' = v
      /\ \A t \in rd : wire[t, s] # <<>> /\ s \in Links(t)
      /\ out \in [Links(s) -> Seq(Message)]
      /\ \A t \in rd : CanRead(s, t)
  BY DEF Step, CanRead
<1>11. AfterMove(v, s, rd, out)
  BY <1>0, MovedIs
<1>1. /\ v \in [Servers \X Servers -> Seq(Message)]
      /\ \A b \in Links(s) : v[s, b] = wire[s, b] \o out[b]
      /\ \A t \in rd : v[t, s] = Tail(wire[t, s])
      /\ \A a, b \in Servers :
           ~(a = s /\ b \in Links(s)) /\ ~(b = s /\ a \in rd) => v[a, b] = wire[a, b]
  BY <1>11 DEF AfterMove
<1>2. WireTypes'
  BY <1>0, <1>1 DEF Step, WireTypes
<1>3. \A x : Links(x)' = Links(x)
  BY DEF Step, Links
<1>4. /\ \A y \in Links(s) : v[s, y] = wire[s, y] \o out[y] /\ out[y] \in Seq(Message)
      /\ \A t \in rd : v[t, s] = Tail(wire[t, s]) /\ wire[t, s] # <<>> /\ s \in Links(t)
      /\ \A x, y \in Servers :
           ~(x = s /\ y \in Links(s)) /\ ~(y = s /\ x \in rd) => v[x, y] = wire[x, y]
  BY <1>0, <1>1
<1>5. Connected'
  <2>1. SUFFICES ASSUME NEW x \in Servers, NEW y \in Servers
                 PROVE  IF y \in Links(x) THEN {x, y} \in conn ELSE v[x, y] = <<>>
    BY <1>0, <1>3 DEF Connected, Step
  <2>2. IF y \in Links(x) THEN {x, y} \in conn ELSE wire[x, y] = <<>>
    BY DEF Connected
  <2>3. y \notin Links(x) => v[x, y] = wire[x, y]
    <3>1. \A t \in rd : s \in Links(t)
      BY <1>0
    <3>2. y \notin Links(x) => ~(x = s /\ y \in Links(s)) /\ ~(y = s /\ x \in rd)
      BY <3>1
    <3> QED BY <1>1, <3>2
  <2>4. PICK u, w : u = v[x, y] /\ w = wire[x, y]
    OBVIOUS
  <2> QED BY <2>2, <2>3, <2>4
<1>6. list' \in [Servers -> Seq(Entry)] /\ \A z \in Servers : list'[z] = IF z = s THEN l ELSE list[z]
  BY DEF Step, Lists, GoodList
<1>7. ASSUME NEW z \in Servers PROVE GoodList(conn, serv_list, born', z, list'[z])
  <2>1. CASE z = s
    BY <1>6, <2>1
  <2>2. CASE z # s
    <3>1. GoodList(conn, serv_list, born, z, list[z])
      BY DEF Lists
    <3> QED BY <1>6, <2>2, <3>1, ListLasts
  <2> QED BY <2>1, <2>2
<1>8. Lists'
  BY <1>6, <1>7 DEF Lists, Step
<1>9. ASSUME NEW x \in Servers, NEW y \in Servers, NEW m \in ToSet(v[x, y])
      PROVE  MsgOK(born', raced', m, x, y)
  <2>1. wire[x, y] \in Seq(Message)
    BY DEF WireTypes
  <2>2. ASSUME m \in ToSet(wire[x, y]) PROVE MsgOK(born', raced', m, x, y)
    <3>1. m \in Message /\ MsgOK(born, raced, m, x, y)
      BY <2>1, <2>2, SetOfList DEF Messages
    <3> QED BY <3>1, MessageLasts
  <2>3. CASE x = s /\ y \in Links(s)
    <3>1. v[x, y] = wire[x, y] \o out[y] /\ out[y] \in Seq(Message)
      BY <1>4, <2>3
    <3>2. PICK a \in Seq(Message), b \in Seq(Message) : a = wire[x, y] /\ b = out[y]
      BY <2>1, <3>1
    <3>3. ToSet(a \o b) = ToSet(a) \cup ToSet(b)
      BY SetOfList
    <3> QED BY <2>2, <2>3, <3>1, <3>2, <3>3
  <2>4. CASE y = s /\ x \in rd
    <3>1. v[x, y] = Tail(wire[x, y]) /\ wire[x, y] # <<>>
      BY <1>4, <2>4
    <3>2. m \in ToSet(wire[x, y])
      BY <2>1, <3>1, SetOfList
    <3> QED BY <2>2, <3>2
  <2>5. CASE ~(x = s /\ y \in Links(s)) /\ ~(y = s /\ x \in rd)
    BY <1>4, <2>2, <2>5
  <2> QED BY <2>3, <2>4, <2>5
<1>10. Messages'
  BY <1>0, <1>9 DEF Messages
<1> QED BY <1>2, <1>5, <1>8, <1>10

---------------------------------------------------------------------------
(* A step of one server that sends no more than one message.               *)

\* w is what is on the wire when the messages from the links rd to s are read.
From(w, s, rd) ==
    /\ w = [p \in Servers \X Servers |-> w[p]]
    /\ \A p \in Servers \X Servers :
         w[p] = IF p[2] = s /\ p[1] \in rd THEN Tail(wire[p]) ELSE wire[p]

\* Nothing, or the first message from t.
LEMMA FromIs ==
    ASSUME WireTypes, NEW s \in Servers
    PROVE  /\ From(wire, s, {})
           /\ \A t \in Servers : From(Read(s, t), s, {t})
<1>1. wire = [p \in Servers \X Servers |-> wire[p]]
  BY DEF WireTypes
<1>2. ASSUME NEW t \in Servers PROVE From(Read(s, t), s, {t})
  <2>1. PICK w : w = Read(s, t)
    OBVIOUS
  <2>2. w = [wire EXCEPT ![<<t, s>>] = Tail(@)]
    BY <2>1 DEF Read
  <2>3. ASSUME NEW p \in Servers \X Servers
        PROVE  w[p] = IF p[2] = s /\ p[1] \in {t} THEN Tail(wire[p]) ELSE wire[p]
    <3>1. PICK x \in Servers, y \in Servers : p = <<x, y>>
      BY PairIs
    <3> QED BY <1>1, <2>2, <3>1
  <2>4. w = [p \in Servers \X Servers |-> w[p]]
    BY <1>1, <2>2
  <2> QED BY <2>1, <2>3, <2>4 DEF From
<1>3. From(wire, s, {})
  BY <1>1 DEF From
<1> QED BY <1>2, <1>3

\* The message m to the links ts.
OutTo(s, ts, m) == [y \in Links(s) |-> IF y \in ts THEN <<m>> ELSE <<>>]

\* To send m to the links ts is to send OutTo.
Sends(w, s, rd, ts, m) ==
    /\ Send(w, s, ts, m) = Moved(s, rd, OutTo(s, ts, m))
    /\ OutTo(s, ts, m) \in [Links(s) -> Seq(Message)]
    /\ ts = {} => Send(w, s, ts, m) = w

\* This is so for links and messages.
LEMMA SendIs ==
    ASSUME WireTypes, Connected, NEW s \in Servers, NEW rd, \A t \in rd : CanRead(s, t),
           NEW w, From(w, s, rd), NEW ts \in SUBSET Links(s), NEW m, ts # {} => m \in Message
    PROVE  Sends(w, s, rd, ts, m)
<1>1. s \notin Links(s) /\ Links(s) \subseteq Servers
  BY LinksIs
<1>2. OutTo(s, ts, m) \in [Links(s) -> Seq(Message)]
  BY DEF OutTo
<1>3. PICK u : u = Send(w, s, ts, m)
  OBVIOUS
<1>4. PICK v : v = Moved(s, rd, OutTo(s, ts, m))
  OBVIOUS
<1>5. ASSUME NEW p \in Servers \X Servers PROVE u[p] = v[p] /\ (ts = {} => u[p] = w[p])
  <2>1. PICK x \in Servers, y \in Servers : p = <<x, y>>
    BY PairIs
  <2>2. PICK a : a = wire[p]
    OBVIOUS
  <2>3. a \in Seq(Message)
    BY <2>2 DEF WireTypes
  <2>4. w[p] = IF y = s /\ x \in rd THEN Tail(a) ELSE a
    BY <2>1, <2>2 DEF From
  <2>5. u[p] = IF x = s /\ y \in ts THEN Append(w[p], m) ELSE w[p]
    BY <1>3, <2>1 DEF Send
  <2>6. v[p] = IF x = s /\ y \in Links(s) THEN a \o OutTo(s, ts, m)[y]
               ELSE IF y = s /\ x \in rd THEN Tail(a) ELSE a
    BY <1>4, <2>1, <2>2 DEF Moved
  <2>7. CASE x = s /\ y \in Links(s)
    <3>1. w[p] = a
      BY <1>1, <2>4, <2>7
    <3>2. OutTo(s, ts, m)[y] = IF y \in ts THEN <<m>> ELSE <<>>
      BY <2>7 DEF OutTo
    <3>3. v[p] = IF y \in ts THEN a \o <<m>> ELSE a \o <<>>
      BY <2>6, <2>7, <3>2
    <3>4. u[p] = IF y \in ts THEN Append(a, m) ELSE a
      BY <2>5, <2>7, <3>1
    <3>5. a \o <<>> = a /\ (y \in ts => Append(a, m) = a \o <<m>>)
      <4>1. y \in ts => m \in Message
        OBVIOUS
      <4> QED BY <2>3, <4>1
    <3>6. CASE y \in ts
      BY <3>3, <3>4, <3>5, <3>6
    <3>7. CASE y \notin ts
      BY <3>1, <3>3, <3>4, <3>5, <3>7
    <3> QED BY <3>6, <3>7
  <2>8. CASE ~(x = s /\ y \in Links(s))
    <3>1. ~(x = s /\ y \in ts)
      BY <2>8
    <3> QED BY <2>4, <2>5, <2>6, <2>8, <3>1
  <2> QED BY <2>7, <2>8
<1>6. u = [p \in Servers \X Servers |-> u[p]] /\ v = [p \in Servers \X Servers |-> v[p]]
  BY <1>3, <1>4 DEF Send, Moved
<1>7. u = v
  BY <1>5, <1>6
<1>8. ts = {} => u = w
  <2>1. w = [p \in Servers \X Servers |-> w[p]]
    BY DEF From
  <2> QED BY <1>5, <1>6, <2>1
<1> QED BY <1>2, <1>3, <1>4, <1>7, <1>8 DEF Sends

\* What the receiver knows after it.
LEMMA OutTracks ==
    ASSUME NEW s, NEW ts, NEW m, NEW y \in Links(s), NEW i, NEW n,
           NEW b \in BOOLEAN, NEW c \in BOOLEAN,
           IF y \in ts THEN Follows(m, i, n, y, b, c) ELSE c = b
    PROVE  Tracks(OutTo(s, ts, m)[y], i, n, y, b, c)
<1>1. OutTo(s, ts, m)[y] = IF y \in ts THEN <<m>> ELSE <<>>
  BY DEF OutTo
<1>2. CASE y \in ts
  <2>1. Follows(m, i, n, y, b, c) /\ m \in {m}
    BY <1>2
  <2>2. Tracks(<<m>>, i, n, y, b, c)
    BY <2>1, TracksOne
  <2> QED BY <1>1, <1>2, <2>2
<1>3. CASE y \notin ts
  <2>1. <<>> \in Seq({m}) /\ ToSet(<<>>) = {}
    BY DEF ToSet
  <2>2. Tracks(<<>>, i, n, y, b, b)
    BY <2>1, TracksNeutral DEF Neutral
  <2> QED BY <1>1, <1>3, <2>2
<1> QED BY <1>2, <1>3

\* What must be so of the message m to the links ts, and of what is read.
Tells(s, l, rd, ts, m) ==
    \A i \in Steady(born, raced') :
        /\ \A x \in Servers : s \in Links(x) /\ x \notin rd => HasIn(l, x, i) = Has(s, x, i)
        /\ \A t \in rd : \A d \in BOOLEAN :
             Follows(Head(wire[t, s]), i, NickOf(born, i), s, Has(s, t, i), d)
               => HasIn(l, t, i) = d
        /\ \A y \in Links(s) :
             IF y \in ts
             THEN Follows(m, i, NickOf(born, i), y, Told(s, y, i), ToldIn(l, Around(s), y, i))
             ELSE ToldIn(l, Around(s), y, i) = Told(s, y, i)

\* Then the invariant is kept.
LEMMA OneMessage ==
    ASSUME IInv, NEW s \in Servers, NEW l, NEW rd, \A t \in rd : CanRead(s, t),
           NEW w, From(w, s, rd), NEW ts \in SUBSET Links(s),
           NEW m, ts # {} => m \in Message,
           UNCHANGED <<conn, serv_list, born>>, raced \subseteq raced',
           list' = [list EXCEPT ![s] = l], wire' = Send(w, s, ts, m),
           GoodList(conn, serv_list, born, s, l),
           \A y \in ts : MsgOK(born, raced', m, s, y),
           Tells(s, l, rd, ts, m), OtherTypes', ForCause'
    PROVE  IInv'
<1>1. WireTypes /\ OtherTypes /\ Connected /\ Lists /\ Messages /\ WillAgree
  BY DEF IInv
<1>2. PICK out : out = OutTo(s, ts, m)
  OBVIOUS
<1>3. wire' = Moved(s, rd, out) /\ out \in [Links(s) -> Seq(Message)]
  <2>1. Sends(w, s, rd, ts, m)
    BY <1>1, SendIs
  <2> QED BY <1>2, <2>1 DEF Sends
<1>4. Step(s, l, rd, out)
  BY <1>3 DEF Step
<1>5. HistoryGrows
  BY DEF HistoryGrows
<1>6. \A y \in Links(s) : \A d \in ToSet(out[y]) : MsgOK(born', raced', d, s, y)
  <2>1. ASSUME NEW y \in Links(s), NEW d \in ToSet(out[y]) PROVE y \in ts /\ d = m
    <3>1. out[y] = IF y \in ts THEN <<m>> ELSE <<>>
      BY <1>2 DEF OutTo
    <3>2. ToSet(<<m>>) = {m} /\ ToSet(<<>>) = {}
      BY DEF ToSet
    <3> QED BY <2>1, <3>1, <3>2
  <2> QED BY <2>1
<1>7. WireTypes' /\ Connected' /\ Lists' /\ Messages'
  BY <1>1, <1>4, <1>5, <1>6, StepKeeps
<1>8. Steady(born', raced') \subseteq Steady(born, raced) /\ born' = born
  BY <1>1, <1>5, BlameLasts
<1>9. ASSUME NEW i \in Steady(born', raced'), NEW x \in Servers, NEW y \in Servers, y \in Links(x)
      PROVE  Tracks(wire[x, y], i, NickOf(born', i), y, Has(y, x, i), Told(x, y, i))
  BY <1>1, <1>8, <1>9 DEF WillAgree
<1>10. ASSUME NEW i \in Steady(born', raced'), NEW y \in Links(s)
       PROVE  Tracks(out[y], i, NickOf(born', i), y, Told(s, y, i), ToldIn(l, Around(s), y, i))
  <2>1. i \in Steady(born, raced')
    BY <1>8
  <2>2. PICK n : n = NickOf(born, i)
    OBVIOUS
  <2>3. PICK b \in BOOLEAN : b = Told(s, y, i)
    BY DEF Told, ToldIn
  <2>4. PICK c \in BOOLEAN : c = ToldIn(l, Around(s), y, i)
    BY DEF ToldIn
  <2>5. IF y \in ts THEN Follows(m, i, n, y, b, c) ELSE c = b
    BY <2>1, <2>2, <2>3, <2>4 DEF Tells
  <2>6. Tracks(out[y], i, n, y, b, c)
    BY <1>2, <2>5, OutTracks
  <2> QED BY <1>8, <2>2, <2>3, <2>4, <2>6
<1>11. Fits(s, l, rd, out)
  BY <1>8, <1>9, <1>10 DEF Fits, Tells
<1>12. WillAgree'
  BY <1>1, <1>4, <1>11, StepAgrees DEF Lists
<1> QED BY <1>7, <1>12 DEF IInv

---------------------------------------------------------------------------
(* What a server knows when entries are gone.                              *)

\* The list r is l without e, and says nothing of who has that nick.
WithoutClient(cn, sl, bn, s, l, e, r) ==
    /\ GoodList(cn, sl, bn, s, r) /\ ToSet(r) = ToSet(l) \ {e}
    /\ \A i : NickOf(bn, i) = e.nick =>
         (\A x : ~HasIn(r, x, i)) /\ \A k, y : ~ToldIn(r, k, y, i)
    /\ \A i : NickOf(bn, i) # e.nick =>
         /\ \A x : HasIn(r, x, i) = HasIn(l, x, i)
         /\ \A k, y : ToldIn(r, k, y, i) = ToldIn(l, k, y, i)

\* Of a client that is gone, nothing; of the others, what it knew.
LEMMA ClientGone ==
    ASSUME NEW cn, NEW sl, NEW bn, NEW s, NEW l, GoodList(cn, sl, bn, s, l),
           NEW e \in ToSet(l), IsClientEntry(e), NEW r, r = Without(l, {e})
    PROVE  WithoutClient(cn, sl, bn, s, l, e, r)
<1>2. e \notin Fixed(cn, s)
  BY EntryOf
<1>3. GoodList(cn, sl, bn, s, r) /\ ToSet(r) = ToSet(l) \ {e}
  <2>1. Fixed(cn, s) \cap {e} = {}
    BY <1>2
  <2> QED BY <2>1, ListFewer
<1>4. \A d \in ToSet(l) : d.nick = NickOf(bn, d.id) /\ (d.nick = e.nick => d = e)
  BY EntryOf
<1>5. ASSUME NEW i, NickOf(bn, i) = e.nick
      PROVE  (\A x : ~HasIn(r, x, i)) /\ \A k, y : ~ToldIn(r, k, y, i)
  BY <1>3, <1>4, <1>5 DEF HasIn, ToldIn
<1>6. ASSUME NEW i, NickOf(bn, i) # e.nick
      PROVE  /\ \A x : HasIn(r, x, i) = HasIn(l, x, i)
             /\ \A k, y : ToldIn(r, k, y, i) = ToldIn(l, k, y, i)
  <2>1. e.id # i
    BY <1>4, <1>6
  <2>2. \A x : HasIn(r, x, i) = HasIn(l, x, i)
    BY <1>3, <2>1 DEF HasIn
  <2>3. \A k, y : ToldIn(r, k, y, i) = ToldIn(l, k, y, i)
    BY <1>3, <2>1 DEF ToldIn
  <2> QED BY <2>2, <2>3
<1> QED BY <1>3, <1>5, <1>6 DEF WithoutClient

\* The lists r and l say the same of i.
SameOf(r, l, i) ==
    /\ \A x : HasIn(r, x, i) = HasIn(l, x, i)
    /\ \A k, y : ToldIn(r, k, y, i) = ToldIn(l, k, y, i)

\* The list r is l without es, who are not missed.
NotMissed(cn, sl, bn, rc, s, l, es, r) ==
    /\ GoodList(cn, sl, bn, s, r) /\ ToSet(r) = ToSet(l) \ es
    /\ \A i \in Steady(bn, rc) : SameOf(r, l, i)

\* Of those who are not to blame, it says what it said.
LEMMA BlamedGone ==
    ASSUME NEW cn, NEW sl, NEW bn, NEW rc, NEW s, NEW l, GoodList(cn, sl, bn, s, l),
           NEW es, \A e \in es : e \in ToSet(l) /\ IsClientEntry(e) /\ Blamed(bn, rc, e.id),
           NEW r, r = Without(l, es)
    PROVE  NotMissed(cn, sl, bn, rc, s, l, es, r)
<1>1. GoodList(cn, sl, bn, s, r) /\ ToSet(r) = ToSet(l) \ es
  <2>1. Fixed(cn, s) \cap es = {}
    BY EntryOf
  <2> QED BY <2>1, ListFewer
<1>2. ASSUME NEW i \in Steady(bn, rc) PROVE SameOf(r, l, i)
  <2>1. \A e \in es : e.id # i
    BY Ids DEF Steady, IsClientEntry
  <2>2. \A x : HasIn(r, x, i) = HasIn(l, x, i)
    BY <1>1, <2>1 DEF HasIn
  <2>3. \A k, y : ToldIn(r, k, y, i) = ToldIn(l, k, y, i)
    BY <1>1, <2>1 DEF ToldIn
  <2> QED BY <2>2, <2>3 DEF SameOf
<1> QED BY <1>1, <1>2 DEF NotMissed

\* The clients that have died have died for cause.
LEMMA CauseLasts ==
    ASSUME OtherTypes, HistoryGrows, ForCause, \A u \in killed' : u \in killed \/ Blamed(born', raced', u)
    PROVE  ForCause'
<1>1. \A u \in killed : u \in Clients /\ Blamed(born, raced, u)
  BY DEF OtherTypes, ForCause
<1> QED BY <1>1, BlameLasts DEF ForCause

\* Where history only gains races.
LEMMA RacesGrow ==
    ASSUME OtherTypes, born' = born, raced \subseteq raced'
    PROVE  HistoryGrows
BY DEF HistoryGrows

---------------------------------------------------------------------------
(* The users' commands.                                                    *)

\* The list of a server, and the links over which it may have an entry.
LEMMA ListOf ==
    ASSUME IInv, NEW s \in Servers
    PROVE  /\ GoodList(conn, serv_list, born, s, list[s]) /\ list[s] \in Seq(Entry)
           /\ s \notin Links(s) /\ Links(s) \subseteq Servers
           /\ \A x \in Servers : s \in Links(x) => x # s /\ {x, s} \in conn /\ {x, s} \in Edges
           /\ \A x \in Links(s) : x # s /\ {x, s} \in conn /\ {x, s} \in Edges
           /\ \A e \in ToSet(list[s]) : ServerOf(e.id) = s <=> e.from = s
<1>1. WireTypes /\ Connected /\ Lists
  BY DEF IInv
<1>2. GoodList(conn, serv_list, born, s, list[s])
  BY <1>1 DEF Lists
<1>3. s \notin Links(s) /\ Links(s) \subseteq Servers /\ \A x \in Links(s) : {s, x} \in conn /\ {s, x} \in Edges
  BY <1>1, LinksIs
<1>4. ASSUME NEW x \in Servers, s \in Links(x) PROVE x # s /\ {x, s} \in conn /\ {x, s} \in Edges
  BY <1>1, <1>4, LinksIs
<1>5. \A x \in Links(s) : {x, s} = {s, x}
  OBVIOUS
<1>6. \A e \in ToSet(list[s]) : ServerOf(e.id) = s <=> e.from = s
  BY <1>2 DEF GoodList, GoodEntry, RightWay
<1> QED BY <1>2, <1>3, <1>4, <1>5, <1>6 DEF GoodList

\* What a step leaves alone of what is not on the wire or a list.
LEMMA HistoryKept ==
    ASSUME IInv, UNCHANGED <<netvars, ubuf, born>>, acts' \in 0..MaxActs,
           raced \subseteq raced', raced' \subseteq Nicks,
           killed' \subseteq Clients, \A u \in killed' : u \in killed \/ Blamed(born, raced', u)
    PROVE  /\ OtherTypes' /\ ForCause' /\ UNCHANGED <<conn, serv_list, born>>
           /\ Steady(born, raced') \subseteq Steady(born, raced)
           /\ \A u \in Clients : Blamed(born, raced, u) => Blamed(born, raced', u)
<1>1. OtherTypes /\ ForCause /\ born' = born
  BY DEF IInv
<1>2. OtherTypes'
  BY <1>1 DEF OtherTypes, netvars
<1>3. HistoryGrows
  BY <1>1, RacesGrow
<1>4. /\ Steady(born', raced') \subseteq Steady(born, raced)
      /\ \A u \in Clients : Blamed(born, raced, u) => Blamed(born', raced', u)
  BY <1>1, <1>3, BlameLasts
<1>5. ForCause'
  BY <1>1, <1>3, CauseLasts
<1> QED BY <1>1, <1>2, <1>4, <1>5 DEF netvars

\* The nicks that are races are nicks.
LEMMA RacesAre ==
    ASSUME IInv
    PROVE  raced \subseteq Nicks /\ Races \subseteq Nicks /\ acts \in 0..MaxActs /\ killed \subseteq Clients
BY DEF IInv, OtherTypes, Races

\* The client of a server exits.
LEMMA QuitKeeps == ASSUME IInv, NEW u \in Clients, Quit(u) PROVE IInv'
<1>1. PICK s \in Servers : s = Home[u]
  BY Ids
<1>2. PICK e \in WithId(list[s], u) :
         /\ acts < MaxActs /\ acts' = acts + 1
         /\ list' = [list EXCEPT ![s] = Without(@, {e})]
         /\ wire' = sendto_server(wire, s, s, [type |-> "quit", by |-> e.nick])
         /\ History
         /\ UNCHANGED <<netvars, ubuf, born, killed>>
  BY <1>1 DEF Quit, Acts
<1>3. e \in ToSet(list[s]) /\ e.id = u /\ IsClientEntry(e)
  BY <1>2 DEF WithId, IsClientEntry
<1>4. PICK l : l = Without(list[s], {e})
  OBVIOUS
<1>5. GoodList(conn, serv_list, born, s, list[s]) /\ list \in [Servers -> Seq(Entry)]
  BY ListOf DEF IInv, Lists
<1>6. list' = [list EXCEPT ![s] = l]
  BY <1>2, <1>4
<1>7. e.from = s /\ e.nick \in Nicks
  <2>1. ServerOf(e.id) = s
    BY <1>1, <1>3, Ids
  <2> QED BY <1>3, <1>5, <2>1, ListOf, EntryOf
<1>8. /\ GoodList(conn, serv_list, born, s, l) /\ ToSet(l) = ToSet(list[s]) \ {e}
      /\ \A i : NickOf(born, i) = e.nick =>
           (\A x : ~HasIn(l, x, i)) /\ \A k, y : ~ToldIn(l, k, y, i)
      /\ \A i : NickOf(born, i) # e.nick =>
           /\ \A x : HasIn(l, x, i) = HasIn(list[s], x, i)
           /\ \A k, y : ToldIn(l, k, y, i) = ToldIn(list[s], k, y, i)
  <2>1. WithoutClient(conn, serv_list, born, s, list[s], e, l)
    BY <1>3, <1>4, <1>5, ClientGone
  <2> QED BY <2>1 DEF WithoutClient
<1>9. PICK m : m = [type |-> "quit", by |-> e.nick]
  OBVIOUS
<1>10. m \in Message /\ m.type = "quit" /\ m.by = e.nick
  BY <1>7, <1>9 DEF Message
<1>11. wire' = Send(wire, s, Links(s), m)
  <2>1. Links(s) \ {s} = Links(s)
    BY ListOf
  <2> QED BY <1>2, <1>9, <2>1 DEF sendto_server
<1>12. Tells(s, l, {}, Links(s), m)
  <2>1. SUFFICES ASSUME NEW i \in Steady(born, raced')
                 PROVE  /\ \A x \in Servers : s \in Links(x) => HasIn(l, x, i) = Has(s, x, i)
                        /\ \A y \in Links(s) : Follows(m, i, NickOf(born, i), y, Told(s, y, i),
                                                       ToldIn(l, Around(s), y, i))
    BY DEF Tells
  <2>2. ASSUME NEW x \in Servers, s \in Links(x) PROVE HasIn(l, x, i) = Has(s, x, i)
    <3>1. x # s
      BY <2>2, ListOf
    <3>2. ToSet(l) = ToSet(list[s]) \ {e} /\ e.from # x
      BY <1>7, <1>8, <3>1
    <3> QED BY <3>2 DEF Has, HasIn
  <2>3. ASSUME NEW y \in Links(s)
        PROVE  Follows(m, i, NickOf(born, i), y, Told(s, y, i), ToldIn(l, Around(s), y, i))
    <3>1. ~Brings(m, i) /\ (Removes(m, i, NickOf(born, i), y) <=> NickOf(born, i) = e.nick)
      BY <1>10 DEF Brings, Removes
    <3> QED BY <1>8, <3>1 DEF Follows, Told
  <2> QED BY <2>2, <2>3
<1>13. \A y \in Links(s) : MsgOK(born, raced', m, s, y)
  BY <1>10 DEF MsgOK
<1>14. OtherTypes /\ raced \subseteq raced' /\ raced' \subseteq Nicks
  BY <1>2 DEF IInv, OtherTypes, History, Races
<1>15. OtherTypes' /\ ForCause'
  <2>1. OtherTypes'
    BY <1>2, <1>14, NetAssumption DEF OtherTypes, netvars
  <2>2. HistoryGrows /\ ForCause /\ killed' = killed
    BY <1>2, <1>14, RacesGrow DEF IInv
  <2> QED BY <1>14, <2>1, <2>2, CauseLasts
<1>16. From(wire, s, {}) /\ Links(s) \in SUBSET Links(s)
  BY FromIs DEF IInv
<1>17. UNCHANGED <<conn, serv_list, born>>
  BY <1>2 DEF netvars
<1> QED BY <1>6, <1>8, <1>10, <1>11, <1>12, <1>13, <1>14, <1>15, <1>16, <1>17, OneMessage

\* A client becomes an operator.
LEMMA OperKeeps == ASSUME IInv, NEW u \in Clients, Oper(u) PROVE IInv'
<1>1. PICK s \in Servers : s = Home[u]
  BY Ids
<1>2. PICK e \in WithId(list[s], u) :
         /\ list' = [list EXCEPT ![s] = AddModes(@, e, {"o"})]
         /\ wire' = sendto_server(wire, s, s, [type |-> "mode", by |-> e.nick, modes |-> {"o"}])
         /\ UNCHANGED <<netvars, ubuf, acts, born, killed, raced>>
  BY <1>1 DEF Oper
<1>3. e \in ToSet(list[s]) /\ e.id = u /\ IsClientEntry(e)
  BY <1>2 DEF WithId, IsClientEntry
<1>4. PICK l : l = AddModes(list[s], e, {"o"})
  OBVIOUS
<1>5. GoodList(conn, serv_list, born, s, list[s]) /\ list \in [Servers -> Seq(Entry)]
  BY ListOf DEF IInv, Lists
<1>6. list' = [list EXCEPT ![s] = l]
  BY <1>2, <1>4
<1>7. {"o"} \in SUBSET UModes
  BY DEF UModes
<1>8. /\ GoodList(conn, serv_list, born, s, l)
      /\ \A x, i : HasIn(l, x, i) <=> HasIn(list[s], x, i)
      /\ \A k, y, i : ToldIn(l, k, y, i) <=> ToldIn(list[s], k, y, i)
  BY <1>3, <1>4, <1>5, <1>7, ListModes
<1>9. PICK m : m = [type |-> "mode", by |-> e.nick, modes |-> {"o"}]
  OBVIOUS
<1>10. m \in Message /\ m.type = "mode"
  <2>1. e.nick \in Nicks
    BY <1>3, <1>5, EntryOf
  <2> QED BY <1>7, <1>9, <2>1 DEF Message
<1>11. wire' = Send(wire, s, Links(s), m)
  <2>1. Links(s) \ {s} = Links(s)
    BY ListOf
  <2> QED BY <1>2, <1>9, <2>1 DEF sendto_server
<1>12. Tells(s, l, {}, Links(s), m)
  <2>1. SUFFICES ASSUME NEW i \in Steady(born, raced')
                 PROVE  /\ \A x \in Servers : HasIn(l, x, i) = Has(s, x, i)
                        /\ \A y \in Links(s) : Follows(m, i, NickOf(born, i), y, Told(s, y, i),
                                                       ToldIn(l, Around(s), y, i))
    BY DEF Tells
  <2>2. \A x : HasIn(l, x, i) = Has(s, x, i)
    BY <1>8 DEF Has, HasIn
  <2>3. ASSUME NEW y \in Links(s)
        PROVE  Follows(m, i, NickOf(born, i), y, Told(s, y, i), ToldIn(l, Around(s), y, i))
    <3>1. ~Brings(m, i) /\ ~Removes(m, i, NickOf(born, i), y)
      BY <1>10 DEF Brings, Removes
    <3>2. ToldIn(l, Around(s), y, i) = Told(s, y, i)
      BY <1>8 DEF Told, ToldIn
    <3> QED BY <3>1, <3>2 DEF Follows
  <2> QED BY <2>2, <2>3
<1>13. \A y \in Links(s) : MsgOK(born, raced', m, s, y)
  BY <1>10 DEF MsgOK
<1>14. raced' = raced /\ killed' = killed /\ acts' = acts /\ UNCHANGED <<netvars, ubuf, born>>
  BY <1>2
<1>15. OtherTypes' /\ ForCause' /\ UNCHANGED <<conn, serv_list, born>>
  BY <1>14, HistoryKept, RacesAre
<1>16. From(wire, s, {}) /\ Links(s) \in SUBSET Links(s)
  BY FromIs DEF IInv
<1> QED BY <1>6, <1>8, <1>10, <1>11, <1>12, <1>13, <1>14, <1>15, <1>16, OneMessage

\* An operator kills a client of another server.
LEMMA OperKillKeeps ==
    ASSUME IInv, NEW u \in Clients, NEW n \in Nicks, OperKill(u, n) PROVE IInv'
<1>1. PICK s \in Servers : s = Home[u]
  BY Ids
<1>2. PICK e \in WithId(list[s], u), d \in Named(list[s], n) :
         /\ acts < MaxActs /\ acts' = acts + 1
         /\ list' = [list EXCEPT ![s] = Without(@, {d})]
         /\ wire' = sendto_server(wire, s, s, Kill(e.nick, d.id))
         /\ raced' = raced \cup {n}
         /\ UNCHANGED <<netvars, ubuf, born, killed>>
  BY <1>1 DEF OperKill, Acts
<1>3. e \in ToSet(list[s]) /\ IsClientEntry(e)
      /\ d \in ToSet(list[s]) /\ IsClientEntry(d) /\ d.nick = n
  BY <1>2 DEF WithId, Named, IsClientEntry
<1>4. PICK l : l = Without(list[s], {d})
  OBVIOUS
<1>5. GoodList(conn, serv_list, born, s, list[s]) /\ list \in [Servers -> Seq(Entry)]
  BY ListOf DEF IInv, Lists
<1>6. list' = [list EXCEPT ![s] = l]
  BY <1>2, <1>4
<1>7. d.id \in Clients /\ Blamed(born, raced', d.id) /\ e.nick \in Nicks
  <2>1. d.nick = born[d.id].nick /\ d.nick \in Nicks /\ e.nick \in Nicks
    BY <1>3, <1>5, EntryOf
  <2> QED BY <1>2, <1>3, <2>1, Ids DEF Blamed, IsClientEntry
<1>8. /\ GoodList(conn, serv_list, born, s, l)
      /\ \A i \in Steady(born, raced') : SameOf(l, list[s], i)
  <2>1. PICK es : es = {d}
    OBVIOUS
  <2>2. \A c \in es : c \in ToSet(list[s]) /\ IsClientEntry(c) /\ Blamed(born, raced', c.id)
    BY <1>3, <1>7, <2>1
  <2>3. l = Without(list[s], es)
    BY <1>4, <2>1
  <2>4. NotMissed(conn, serv_list, born, raced', s, list[s], es, l)
    BY <1>5, <2>2, <2>3, BlamedGone
  <2> QED BY <2>4 DEF NotMissed
<1>9. PICK m : m = Kill(e.nick, d.id)
  OBVIOUS
<1>10. m \in Message /\ m.type = "kill" /\ m.id = d.id
  BY <1>7, <1>9 DEF Message, Kill
<1>11. wire' = Send(wire, s, Links(s), m)
  <2>1. Links(s) \ {s} = Links(s)
    BY ListOf
  <2> QED BY <1>2, <1>9, <2>1 DEF sendto_server
<1>12. Tells(s, l, {}, Links(s), m)
  <2>1. SUFFICES ASSUME NEW i \in Steady(born, raced')
                 PROVE  /\ \A x \in Servers : HasIn(l, x, i) = Has(s, x, i)
                        /\ \A y \in Links(s) : Follows(m, i, NickOf(born, i), y, Told(s, y, i),
                                                       ToldIn(l, Around(s), y, i))
    BY DEF Tells
  <2>2. \A y \in Links(s) : ~Brings(m, i) /\ ~Removes(m, i, NickOf(born, i), y)
    BY <1>10 DEF Brings, Removes
  <2> QED BY <1>8, <2>2 DEF Has, Told, Follows, SameOf
<1>13. \A y \in Links(s) : MsgOK(born, raced', m, s, y)
  BY <1>7, <1>10 DEF MsgOK
<1>14. raced \subseteq raced' /\ raced' \subseteq Nicks /\ acts' \in 0..MaxActs
       /\ UNCHANGED <<netvars, ubuf, born, killed>>
  BY <1>2, RacesAre, NetAssumption
<1>15. OtherTypes' /\ ForCause' /\ UNCHANGED <<conn, serv_list, born>>
  BY <1>14, HistoryKept, RacesAre
<1>16. From(wire, s, {}) /\ Links(s) \in SUBSET Links(s)
  BY FromIs DEF IInv
<1> QED BY <1>6, <1>8, <1>10, <1>11, <1>12, <1>13, <1>14, <1>15, <1>16, OneMessage

---------------------------------------------------------------------------
(* Messages that are read and passed on.                                   *)

\* What is known of a message that arrives.
LEMMA Arrival ==
    ASSUME IInv, NEW s \in Servers, NEW t \in Links(s), Arrives(s, t)
    PROVE  /\ CanRead(s, t) /\ t \in Servers /\ t # s
           /\ {t, s} \in Edges /\ {s, t} \in conn /\ {s, t} \in Edges
           /\ Msg(s, t) \in Message /\ MsgOK(born, raced, Msg(s, t), t, s)
           /\ Msg(s, t) = Head(wire[t, s])
           /\ \A i \in Steady(born, raced) : \E d \in BOOLEAN :
                Follows(Msg(s, t), i, NickOf(born, i), s, Has(s, t, i), d)
<1>1. WireTypes /\ Connected /\ Messages /\ WillAgree
  BY DEF IInv
<1>2. t \in Servers /\ t # s /\ {t, s} \in Edges /\ {s, t} \in conn /\ {s, t} \in Edges
  BY <1>1, LinksIs
<1>3. s \in Links(t) /\ wire[t, s] # <<>>
  BY <1>1, <1>2 DEF Connected, Arrives
<1>4. PICK w \in Seq(Message) : w = wire[t, s]
  BY <1>1, <1>2 DEF WireTypes
<1>5. Head(w) \in ToSet(w) /\ ToSet(w) \subseteq Message
  BY <1>3, <1>4, SetOfList
<1>6. Msg(s, t) = Head(w)
  BY <1>4 DEF Msg
<1>7. MsgOK(born, raced, Msg(s, t), t, s)
  BY <1>1, <1>2, <1>4, <1>5, <1>6 DEF Messages
<1>8. ASSUME NEW i \in Steady(born, raced)
      PROVE  \E d \in BOOLEAN : Follows(Msg(s, t), i, NickOf(born, i), s, Has(s, t, i), d)
  <2>1. Tracks(w, i, NickOf(born, i), s, Has(s, t, i), Told(t, s, i))
    BY <1>1, <1>2, <1>3, <1>4 DEF WillAgree
  <2>2. w # <<>>
    BY <1>3, <1>4
  <2> QED BY <1>6, <2>1, <2>2, TracksRead
<1> QED BY <1>2, <1>3, <1>4, <1>5, <1>6, <1>7, <1>8 DEF CanRead, Arrives

\* What the list l must say of i when the first message from t has been read, and m has
\* been sent to the links ts.
Learns(s, t, l, ts, m, i) ==
    /\ \A x \in Servers : s \in Links(x) /\ x # t => HasIn(l, x, i) = Has(s, x, i)
    /\ \A d \in BOOLEAN : Follows(Msg(s, t), i, NickOf(born, i), s, Has(s, t, i), d)
                            => HasIn(l, t, i) = d
    /\ \A y \in Links(s) :
         IF y \in ts
         THEN Follows(m, i, NickOf(born, i), y, Told(s, y, i), ToldIn(l, Around(s), y, i))
         ELSE ToldIn(l, Around(s), y, i) = Told(s, y, i)

\* Then the invariant is kept.
LEMMA OneRead ==
    ASSUME IInv, NEW s \in Servers, NEW t \in Links(s), Arrives(s, t), NEW l,
           NEW ts \in SUBSET Links(s), NEW m, ts # {} => m \in Message,
           list' = [list EXCEPT ![s] = l],
           \/ wire' = Send(Read(s, t), s, ts, m)
           \/ ts = {} /\ wire' = Read(s, t),
           GoodList(conn, serv_list, born, s, l), \A y \in ts : MsgOK(born, raced', m, s, y),
           UNCHANGED <<netvars, ubuf, acts, born>>, raced \subseteq raced', raced' \subseteq Nicks,
           killed' \subseteq Clients, \A u \in killed' : u \in killed \/ Blamed(born, raced', u),
           \A i \in Steady(born, raced') : Learns(s, t, l, ts, m, i)
    PROVE  IInv'
<1>1. WireTypes /\ Connected
  BY DEF IInv
<1>2. CanRead(s, t) /\ t \in Servers /\ Msg(s, t) = Head(wire[t, s])
  BY Arrival
<1>3. PICK rd : rd = {t}
  OBVIOUS
<1>4. \A z \in rd : CanRead(s, z)
  BY <1>2, <1>3
<1>5. PICK w : w = Read(s, t)
  OBVIOUS
<1>6. From(w, s, rd)
  BY <1>1, <1>2, <1>3, <1>5, FromIs
<1>7. wire' = Send(w, s, ts, m)
  <2>1. w = [p \in Servers \X Servers |-> w[p]]
    BY <1>6 DEF From
  <2>2. ts = {} => Send(w, s, ts, m) = w
    <3>1. ASSUME ts = {}
          PROVE  Send(w, s, ts, m) = [p \in Servers \X Servers |-> w[p]]
      BY <3>1 DEF Send
    <3> QED BY <2>1, <3>1
  <2> QED BY <1>5, <2>2
<1>8. acts' \in 0..MaxActs
  BY RacesAre
<1>9. OtherTypes' /\ ForCause' /\ UNCHANGED <<conn, serv_list, born>>
  BY <1>8, HistoryKept
<1>10. Tells(s, l, rd, ts, m)
  <2>1. SUFFICES ASSUME NEW i \in Steady(born, raced')
                 PROVE  /\ \A x \in Servers : s \in Links(x) /\ x \notin rd => HasIn(l, x, i) = Has(s, x, i)
                        /\ \A z \in rd : \A d \in BOOLEAN :
                             Follows(Head(wire[z, s]), i, NickOf(born, i), s, Has(s, z, i), d)
                               => HasIn(l, z, i) = d
                        /\ \A y \in Links(s) :
                             IF y \in ts
                             THEN Follows(m, i, NickOf(born, i), y, Told(s, y, i), ToldIn(l, Around(s), y, i))
                             ELSE ToldIn(l, Around(s), y, i) = Told(s, y, i)
    BY DEF Tells
  <2>2. Learns(s, t, l, ts, m, i)
    OBVIOUS
  <2> QED BY <1>2, <1>3, <2>2 DEF Learns
<1> QED BY <1>4, <1>6, <1>7, <1>9, <1>10, OneMessage

\* sendto_server to every link but t.
LEMMA Relayed ==
    ASSUME IInv, NEW s \in Servers, NEW t, NEW w, NEW m
    PROVE  sendto_server(w, s, t, m) = Send(w, s, Links(s) \ {t}, m)
BY DEF sendto_server

\* A message with a prefix that is not known, or comes the wrong way.
LEMMA ReadFakePrefixKeeps ==
    ASSUME IInv, NEW s \in Servers, NEW t \in Links(s), ReadFakePrefix(s, t) PROVE IInv'
<1>1. /\ Arrives(s, t) /\ HasPrefix(Msg(s, t)) /\ Prefix(s, t) = {}
      /\ UNCHANGED <<netvars, list, ubuf, acts, born, killed, raced>>
  BY DEF ReadFakePrefix
<1>2. PICK m0 : m0 = Msg(s, t)
  OBVIOUS
<1>3. m0 \in Message /\ t \in Servers /\ t # s
  BY <1>1, <1>2, Arrival
<1>4. PICK n : n = m0.by
  OBVIOUS
<1>5. n \in Nicks
  BY <1>1, <1>2, <1>3, <1>4, MessageFields DEF HasPrefix
<1>6. PICK m : m = [type |-> "killnick", nick |-> n]
  OBVIOUS
<1>7. m \in Message /\ m.type = "killnick"
  BY <1>5, <1>6 DEF Message
<1>8. PICK ts \in SUBSET Links(s) :
         wire' = Send(Read(s, t), s, ts, m) \/ (ts = {} /\ wire' = Read(s, t))
  <2>1. wire' = Read(s, t) \/ wire' = Send(Read(s, t), s, {t}, m)
    BY <1>2, <1>4, <1>6 DEF ReadFakePrefix
  <2>2. {t} \in SUBSET Links(s) /\ {} \in SUBSET Links(s)
    OBVIOUS
  <2> QED BY <2>1, <2>2
<1>9. PICK l : l = list[s]
  OBVIOUS
<1>10. GoodList(conn, serv_list, born, s, l) /\ list' = [list EXCEPT ![s] = l]
  BY <1>1, <1>9, ListOf DEF IInv, Lists
<1>11. ASSUME NEW i \in Steady(born, raced') PROVE Learns(s, t, l, ts, m, i)
  <2>1. ASSUME NEW d \in BOOLEAN, Follows(m0, i, NickOf(born, i), s, Has(s, t, i), d)
        PROVE  HasIn(l, t, i) = d
    <3>1. ~Brings(m0, i)
      BY <1>1, <1>2 DEF Brings, HasPrefix
    <3>2. CASE Removes(m0, i, NickOf(born, i), s)
      <4>1. NickOf(born, i) = n
        BY <1>1, <1>2, <1>4, <3>2 DEF Removes, HasPrefix
      <4>2. ASSUME NEW e \in ToSet(l), e.id = i, e.from = t PROVE FALSE
        <5>1. e.nick = n /\ e \in Entry /\ (~IsClientEntry(e) => e.nick = NoNick)
          BY <1>10, <4>1, <4>2, EntryOf
        <5>2. IsClientEntry(e)
          BY <1>5, <5>1, Ids
        <5> QED BY <1>1, <1>2, <1>4, <1>9, <4>2, <5>1, <5>2 DEF Prefix, Named
      <4>3. ~HasIn(l, t, i) /\ ~d
        BY <2>1, <3>1, <3>2, <4>2 DEF HasIn, Follows
      <4> QED BY <4>3 DEF HasIn
    <3>3. CASE ~Removes(m0, i, NickOf(born, i), s)
      BY <1>9, <2>1, <3>1, <3>3 DEF Follows, Has
    <3> QED BY <3>2, <3>3
  <2>2. ASSUME NEW y \in Links(s)
        PROVE  /\ Follows(m, i, NickOf(born, i), y, Told(s, y, i), ToldIn(l, Around(s), y, i))
               /\ ToldIn(l, Around(s), y, i) = Told(s, y, i)
    BY <1>7, <1>9 DEF Follows, Brings, Removes, Told
  <2> QED BY <1>2, <1>9, <2>1, <2>2 DEF Learns, Has
<1>12. \A y \in ts : MsgOK(born, raced', m, s, y)
  BY <1>7 DEF MsgOK
<1>13. UNCHANGED <<netvars, ubuf, acts, born>> /\ raced \subseteq raced' /\ raced' \subseteq Nicks
       /\ killed' \subseteq Clients /\ \A u \in killed' : u \in killed
  BY <1>1, RacesAre
<1> QED BY <1>1, <1>7, <1>8, <1>10, <1>11, <1>12, <1>13, OneRead

\* The message says nothing of i.
Silent(m, i) == \A n, y : ~Brings(m, i) /\ ~Removes(m, i, n, y)

\* Modes and kills do not say who is known, and an introduction speaks of one client.
LEMMA SilentIs ==
    ASSUME NEW m
    PROVE  /\ m.type \in {"mode", "kill", "killnick"} => \A i : Silent(m, i)
           /\ m.type = "nick" => \A i : i # m.id => Silent(m, i)
BY DEF Silent, Brings, Removes

\* Nothing is said of i, and nothing changes.
LEMMA SilentLearns ==
    ASSUME NEW s \in Servers, NEW t \in Links(s), NEW l, NEW ts, NEW m, NEW i,
           SameOf(l, list[s], i), Silent(Msg(s, t), i), ts # {} => Silent(m, i)
    PROVE  Learns(s, t, l, ts, m, i)
<1>1. \A x : HasIn(l, x, i) = Has(s, x, i)
  BY DEF SameOf, Has
<1>2. \A y : ToldIn(l, Around(s), y, i) = Told(s, y, i)
  BY DEF SameOf, Told
<1>3. \A d \in BOOLEAN : Follows(Msg(s, t), i, NickOf(born, i), s, Has(s, t, i), d)
                            => d = Has(s, t, i)
  BY DEF Silent, Follows
<1>4. \A y \in ts : Follows(m, i, NickOf(born, i), y, Told(s, y, i), ToldIn(l, Around(s), y, i))
  BY <1>2 DEF Silent, Follows
<1> QED BY <1>1, <1>2, <1>3, <1>4 DEF Learns

\* Modes.
LEMMA ReadModeKeeps ==
    ASSUME IInv, NEW s \in Servers, NEW t \in Links(s), ReadMode(s, t) PROVE IInv'
<1>1. /\ Arrives(s, t) /\ Msg(s, t).type = "mode"
      /\ UNCHANGED <<netvars, ubuf, acts, born, killed, raced>>
  BY DEF ReadMode, Reads
<1>2. PICK e \in Prefix(s, t), added \in SUBSET UModes :
         /\ list' = [list EXCEPT ![s] = AddModes(@, e, added)]
         /\ \/ wire' = Read(s, t)
            \/ wire' = sendto_server(Read(s, t), s, t,
                         [type |-> "mode", by |-> e.nick, modes |-> added])
  <2>1. Msg(s, t).modes \in SUBSET UModes
    BY <1>1, Arrival, MessageFields
  <2>2. PICK e \in Prefix(s, t) :
          LET added == Msg(s, t).modes \ e.modes
          IN  /\ list' = [list EXCEPT ![s] = AddModes(@, e, added)]
              /\ wire' = IF added = {} THEN Read(s, t)
                         ELSE sendto_server(Read(s, t), s, t,
                                [type |-> "mode", by |-> e.nick, modes |-> added])
    BY DEF ReadMode
  <2>3. PICK added : added = Msg(s, t).modes \ e.modes
    OBVIOUS
  <2>4. added \in SUBSET UModes
    BY <2>1, <2>3
  <2> QED BY <2>2, <2>3, <2>4
<1>3. e \in ToSet(list[s]) /\ IsClientEntry(e)
  BY DEF Prefix, Named
<1>4. PICK l : l = AddModes(list[s], e, added)
  OBVIOUS
<1>5. GoodList(conn, serv_list, born, s, list[s]) /\ list \in [Servers -> Seq(Entry)]
  BY ListOf DEF IInv, Lists
<1>6. /\ GoodList(conn, serv_list, born, s, l)
      /\ \A x, i : HasIn(l, x, i) <=> HasIn(list[s], x, i)
      /\ \A k, y, i : ToldIn(l, k, y, i) <=> ToldIn(list[s], k, y, i)
  BY <1>3, <1>4, <1>5, ListModes
<1>7. ASSUME NEW i PROVE SameOf(l, list[s], i)
  <2>1. \A x : HasIn(l, x, i) = HasIn(list[s], x, i)
    BY <1>6 DEF HasIn
  <2>2. \A k, y : ToldIn(l, k, y, i) = ToldIn(list[s], k, y, i)
    BY <1>6 DEF ToldIn
  <2> QED BY <2>1, <2>2 DEF SameOf
<1>8. list' = [list EXCEPT ![s] = l]
  BY <1>2, <1>4
<1>9. PICK m : m = [type |-> "mode", by |-> e.nick, modes |-> added]
  OBVIOUS
<1>10. m \in Message /\ m.type = "mode"
  <2>1. e.nick \in Nicks
    BY <1>3, <1>5, EntryOf
  <2> QED BY <1>9, <2>1 DEF Message
<1>11. PICK ts \in SUBSET Links(s) :
         wire' = Send(Read(s, t), s, ts, m) \/ (ts = {} /\ wire' = Read(s, t))
  <2>1. wire' = Read(s, t) \/ wire' = Send(Read(s, t), s, Links(s) \ {t}, m)
    BY <1>2, <1>9, Relayed
  <2>2. Links(s) \ {t} \in SUBSET Links(s) /\ {} \in SUBSET Links(s)
    OBVIOUS
  <2> QED BY <2>1, <2>2
<1>12. ASSUME NEW i \in Steady(born, raced') PROVE Learns(s, t, l, ts, m, i)
  BY <1>1, <1>7, <1>10, SilentIs, SilentLearns
<1>13. \A y \in ts : MsgOK(born, raced', m, s, y)
  BY <1>10 DEF MsgOK
<1>14. UNCHANGED <<netvars, ubuf, acts, born>> /\ raced \subseteq raced' /\ raced' \subseteq Nicks
       /\ killed' \subseteq Clients /\ \A u \in killed' : u \in killed
  BY <1>1, RacesAre
<1> QED BY <1>1, <1>6, <1>8, <1>10, <1>11, <1>12, <1>13, <1>14, OneRead

\* A client exits at another server.
LEMMA ReadQuitKeeps ==
    ASSUME IInv, NEW s \in Servers, NEW t \in Links(s), ReadQuit(s, t) PROVE IInv'
<1>1. /\ Arrives(s, t) /\ Msg(s, t).type = "quit"
      /\ History /\ UNCHANGED <<netvars, ubuf, acts, born, killed>>
  BY DEF ReadQuit, Reads
<1>2. PICK m : m = Msg(s, t)
  OBVIOUS
<1>3. m \in Message /\ m.type = "quit" /\ t \in Servers /\ t # s
  BY <1>1, <1>2, Arrival
<1>4. PICK e \in Prefix(s, t) : list' = [list EXCEPT ![s] = Without(@, {e})]
  BY DEF ReadQuit
<1>5. e \in ToSet(list[s]) /\ IsClientEntry(e) /\ e.nick = m.by /\ e.from = t
  BY <1>2 DEF Prefix, Named
<1>6. PICK l : l = Without(list[s], {e})
  OBVIOUS
<1>7. GoodList(conn, serv_list, born, s, list[s]) /\ list \in [Servers -> Seq(Entry)]
  BY ListOf DEF IInv, Lists
<1>8. /\ GoodList(conn, serv_list, born, s, l) /\ ToSet(l) = ToSet(list[s]) \ {e}
      /\ \A i : NickOf(born, i) = e.nick =>
           (\A x : ~HasIn(l, x, i)) /\ \A k, y : ~ToldIn(l, k, y, i)
      /\ \A i : NickOf(born, i) # e.nick =>
           /\ \A x : HasIn(l, x, i) = HasIn(list[s], x, i)
           /\ \A k, y : ToldIn(l, k, y, i) = ToldIn(list[s], k, y, i)
  <2>1. WithoutClient(conn, serv_list, born, s, list[s], e, l)
    BY <1>5, <1>6, <1>7, ClientGone
  <2> QED BY <2>1 DEF WithoutClient
<1>9. list' = [list EXCEPT ![s] = l]
  BY <1>4, <1>6
<1>10. PICK ts \in SUBSET Links(s) : ts = Links(s) \ {t}
  OBVIOUS
<1>11. wire' = Send(Read(s, t), s, ts, m)
  BY <1>2, <1>10, Relayed DEF ReadQuit
<1>12. ASSUME NEW i \in Steady(born, raced') PROVE Learns(s, t, l, ts, m, i)
  <2>1. ASSUME NEW x, x # t PROVE HasIn(l, x, i) = Has(s, x, i)
    BY <1>5, <1>8, <2>1 DEF Has, HasIn
  <2>2. \A y : ~Brings(m, i) /\ (Removes(m, i, NickOf(born, i), y) <=> NickOf(born, i) = e.nick)
    BY <1>3, <1>5 DEF Brings, Removes
  <2>3. ASSUME NEW d \in BOOLEAN, Follows(m, i, NickOf(born, i), s, Has(s, t, i), d)
        PROVE  HasIn(l, t, i) = d
    <3>1. HasIn(l, t, i) \in BOOLEAN
      BY DEF HasIn
    <3>2. CASE NickOf(born, i) = e.nick
      BY <1>8, <2>2, <2>3, <3>1, <3>2 DEF Follows
    <3>3. CASE NickOf(born, i) # e.nick
      BY <1>8, <2>2, <2>3, <3>3 DEF Follows, Has
    <3> QED BY <3>2, <3>3
  <2>4. ASSUME NEW y \in ts
        PROVE  Follows(m, i, NickOf(born, i), y, Told(s, y, i), ToldIn(l, Around(s), y, i))
    BY <1>8, <2>2 DEF Follows, Told
  <2>5. ToldIn(l, Around(s), t, i) = Told(s, t, i)
    BY <1>5, <1>8 DEF ToldIn, Told
  <2> QED BY <1>2, <1>10, <2>1, <2>3, <2>4, <2>5 DEF Learns
<1>13. \A y \in ts : MsgOK(born, raced', m, s, y)
  BY <1>3 DEF MsgOK
<1>14. UNCHANGED <<netvars, ubuf, acts, born>> /\ raced \subseteq raced' /\ raced' \subseteq Nicks
       /\ killed' \subseteq Clients /\ \A u \in killed' : u \in killed
  BY <1>1, RacesAre DEF History
<1> QED BY <1>1, <1>3, <1>8, <1>9, <1>11, <1>12, <1>13, <1>14, OneRead

\* A KILL, of clients there is cause to kill.
LEMMA KilledKeeps ==
    ASSUME IInv, NEW s \in Servers, NEW t \in Links(s), Arrives(s, t),
           Msg(s, t).type \in {"kill", "killnick"}, NEW by \in Nicks \cup {NoNick}, NEW victims,
           \A v \in victims : v \in ToSet(list[s]) /\ IsClientEntry(v) /\ Blamed(born, raced', v.id),
           Killed(s, t, by, victims), UNCHANGED <<netvars, ubuf, acts, born>>,
           raced \subseteq raced', raced' \subseteq Nicks
    PROVE  IInv'
<1>1. GoodList(conn, serv_list, born, s, list[s])
  BY ListOf
<1>2. PICK l : l = Without(list[s], victims)
  OBVIOUS
<1>3. /\ GoodList(conn, serv_list, born, s, l)
      /\ \A i \in Steady(born, raced') : SameOf(l, list[s], i)
  <2>1. NotMissed(conn, serv_list, born, raced', s, list[s], victims, l)
    BY <1>1, <1>2, BlamedGone
  <2> QED BY <2>1 DEF NotMissed
<1>4. list' = [list EXCEPT ![s] = l]
  BY <1>2 DEF Killed
<1>5. PICK m : m = Kill(by, (CHOOSE e \in victims : TRUE).id)
  OBVIOUS
<1>6. victims # {} => m \in Message /\ m.type = "kill" /\ Blamed(born, raced', m.id)
  <2>1. PICK e : e = CHOOSE x \in victims : TRUE
    OBVIOUS
  <2>2. victims # {} => e \in victims
    BY <2>1
  <2>3. victims # {} => e.id \in Clients /\ Blamed(born, raced', e.id)
    BY <2>2 DEF IsClientEntry
  <2>4. m = [type |-> "kill", by |-> by, id |-> e.id]
    BY <1>5, <2>1 DEF Kill
  <2> QED BY <2>3, <2>4 DEF Message
<1>7. PICK ts \in SUBSET Links(s) : /\ ts # {} => victims # {}
                                    /\ wire' = Send(Read(s, t), s, ts, m) \/ (ts = {} /\ wire' = Read(s, t))
  <2>1. CASE victims = {}
    <3>1. {} \in SUBSET Links(s) /\ wire' = Read(s, t)
      BY <2>1 DEF Killed
    <3> QED BY <3>1
  <2>2. CASE victims # {}
    <3>1. Links(s) \ {t} \in SUBSET Links(s) /\ wire' = Send(Read(s, t), s, Links(s) \ {t}, m)
      BY <1>5, <2>2, Relayed DEF Killed
    <3> QED BY <2>2, <3>1
  <2> QED BY <2>1, <2>2
<1>8. ASSUME NEW i \in Steady(born, raced') PROVE Learns(s, t, l, ts, m, i)
  <2>1. SameOf(l, list[s], i)
    BY <1>3
  <2>2. Silent(Msg(s, t), i) /\ (ts # {} => Silent(m, i))
    BY <1>6, <1>7, SilentIs
  <2> QED BY <2>1, <2>2, SilentLearns
<1>9. \A y \in ts : MsgOK(born, raced', m, s, y)
  BY <1>6, <1>7 DEF MsgOK
<1>10. killed' \subseteq Clients /\ \A u \in killed' : u \in killed \/ Blamed(born, raced', u)
  <2>1. \A u \in killed' : u \in killed \/ \E v \in victims : u = v.id
    BY DEF Killed
  <2> QED BY <2>1, RacesAre DEF IsClientEntry
<1> QED BY <1>3, <1>4, <1>6, <1>7, <1>8, <1>9, <1>10, OneRead

\* A KILL of a client.
LEMMA ReadKillKeeps ==
    ASSUME IInv, NEW s \in Servers, NEW t \in Links(s), ReadKill(s, t) PROVE IInv'
<1>1. /\ Arrives(s, t) /\ Msg(s, t).type = "kill"
      /\ History /\ UNCHANGED <<netvars, ubuf, acts, born>>
  BY DEF ReadKill, Reads
<1>2. PICK m : m = Msg(s, t)
  OBVIOUS
<1>3. m \in Message /\ m.type = "kill" /\ m.by \in Nicks \cup {NoNick} /\ m.id \in Clients
      /\ Blamed(born, raced, m.id)
  BY <1>1, <1>2, Arrival, MessageFields DEF MsgOK
<1>4. PICK victims : victims = WithId(list[s], m.id)
  OBVIOUS
<1>5. Killed(s, t, m.by, victims)
  BY <1>2, <1>4 DEF ReadKill
<1>6. raced \subseteq raced' /\ raced' \subseteq Nicks
  BY <1>1, RacesAre DEF History
<1>7. Blamed(born, raced', m.id)
  BY <1>3, <1>6 DEF Blamed
<1>8. \A v \in victims : v \in ToSet(list[s]) /\ IsClientEntry(v) /\ Blamed(born, raced', v.id)
  BY <1>3, <1>4, <1>7 DEF WithId, IsClientEntry
<1> QED BY <1>1, <1>2, <1>3, <1>5, <1>6, <1>8, KilledKeeps

\* A KILL of whoever has a nick.
LEMMA ReadKillNickKeeps ==
    ASSUME IInv, NEW s \in Servers, NEW t \in Links(s), ReadKillNick(s, t) PROVE IInv'
<1>1. Arrives(s, t) /\ Msg(s, t).type = "killnick" /\ UNCHANGED <<netvars, ubuf, acts, born>>
  BY DEF ReadKillNick, Reads
<1>2. PICK n : n = Msg(s, t).nick
  OBVIOUS
<1>3. n \in Nicks
  BY <1>1, <1>2, Arrival, MessageFields
<1>4. PICK victims : victims = Named(list[s], n)
  OBVIOUS
<1>5. /\ Killed(s, t, NoNick, victims)
      /\ raced' = raced \cup Races \cup (IF victims = {} THEN {} ELSE {n})
  BY <1>2, <1>4 DEF ReadKillNick
<1>6. raced \subseteq raced' /\ raced' \subseteq Nicks
  BY <1>3, <1>5, RacesAre
<1>7. ASSUME NEW v \in victims
      PROVE  v \in ToSet(list[s]) /\ IsClientEntry(v) /\ Blamed(born, raced', v.id)
  <2>1. v \in ToSet(list[s]) /\ IsClientEntry(v) /\ v.nick = n /\ n \in raced'
    BY <1>4, <1>5 DEF Named
  <2>2. v.nick = born[v.id].nick
    BY <2>1, ListOf, EntryOf
  <2> QED BY <1>3, <2>1, <2>2, Ids DEF Blamed
<1>8. NoNick \in Nicks \cup {NoNick}
  OBVIOUS
<1> QED BY <1>1, <1>5, <1>6, <1>7, <1>8, KilledKeeps

\* A malformed introduction that is refused.
LEMMA ReadBadUserKeeps ==
    ASSUME IInv, NEW s \in Servers, NEW t \in Links(s), ReadBadUser(s, t) PROVE IInv'
<1>1. /\ Arrives(s, t) /\ Msg(s, t).type = "nick"
      /\ UNCHANGED <<netvars, list, ubuf, acts, born, killed>>
  BY DEF ReadBadUser, Reads
<1>2. PICK m0 : m0 = Msg(s, t)
  OBVIOUS
<1>3. m0 \in Message /\ m0.type = "nick" /\ m0.nick \in Nicks /\ m0.id \in Clients
      /\ m0.nick = born[m0.id].nick
  <2>1. m0 \in Message /\ m0.type = "nick" /\ MsgOK(born, raced, m0, t, s)
    BY <1>1, <1>2, Arrival
  <2> QED BY <2>1, MessageFields DEF MsgOK
<1>4. PICK m : m = [type |-> "killnick", nick |-> m0.nick]
  OBVIOUS
<1>5. m \in Message /\ m.type = "killnick"
  BY <1>3, <1>4 DEF Message
<1>6. PICK ts \in SUBSET Links(s) : ts = {t}
  OBVIOUS
<1>7. wire' = Send(Read(s, t), s, ts, m) /\ raced' = raced \cup {m0.nick}
  BY <1>2, <1>4, <1>6 DEF ReadBadUser
<1>8. PICK l : l = list[s]
  OBVIOUS
<1>9. GoodList(conn, serv_list, born, s, l) /\ list' = [list EXCEPT ![s] = l]
  BY <1>1, <1>8, ListOf DEF IInv, Lists
<1>10. Blamed(born, raced', m0.id)
  BY <1>3, <1>7, Ids DEF Blamed
<1>11. ASSUME NEW i \in Steady(born, raced') PROVE Learns(s, t, l, ts, m, i)
  <2>1. i # m0.id
    BY <1>3, <1>10, Ids DEF Steady
  <2>2. Silent(Msg(s, t), i) /\ Silent(m, i)
    BY <1>2, <1>3, <1>5, <2>1, SilentIs
  <2>3. SameOf(l, list[s], i)
    BY <1>8 DEF SameOf
  <2> QED BY <2>2, <2>3, SilentLearns
<1>12. \A y \in ts : MsgOK(born, raced', m, s, y)
  BY <1>5 DEF MsgOK
<1>13. UNCHANGED <<netvars, ubuf, acts, born>> /\ raced \subseteq raced' /\ raced' \subseteq Nicks
       /\ killed' \subseteq Clients /\ \A u \in killed' : u \in killed
  BY <1>1, <1>3, <1>7, RacesAre
<1> QED BY <1>1, <1>5, <1>7, <1>9, <1>11, <1>12, <1>13, OneRead

---------------------------------------------------------------------------
(* Servers that come and go.                                               *)

\* A server is introduced.
LEMMA ReadServerKeeps ==
    ASSUME IInv, NEW s \in Servers, NEW t \in Links(s), ReadServer(s, t) PROVE IInv'
<1>1. /\ Arrives(s, t) /\ Msg(s, t).type = "server"
      /\ UNCHANGED <<netvars, ubuf, acts, born, killed, raced>>
  BY DEF ReadServer, Reads
<1>2. PICK m : m = Msg(s, t)
  OBVIOUS
<1>3. m \in Message /\ m.type = "server" /\ m.id \in Servers /\ m.id \in Away(t, s)
      /\ CanRead(s, t) /\ t \in Servers /\ t # s /\ {t, s} \in Edges /\ {s, t} \in conn
  <2>1. m \in Message /\ m.type = "server" /\ MsgOK(born, raced, m, t, s)
        /\ CanRead(s, t) /\ t \in Servers /\ t # s /\ {t, s} \in Edges /\ {s, t} \in conn
    BY <1>1, <1>2, Arrival
  <2>2. m.id \in Servers /\ ServerOf(m.id) \in Away(t, s)
    BY <2>1, MessageFields DEF MsgOK
  <2> QED BY <2>1, <2>2, Ids
<1>4. PICK z \in Servers : z = m.id
  BY <1>3
<1>5. PICK e \in Entry : e = ServerEntry(z, t)
  BY <1>3, ServerEntryIs
<1>6. e.id = z /\ e.nick = NoNick /\ e.modes = {} /\ e.from = t /\ ~IsClientEntry(e)
  BY <1>3, <1>5, ServerEntryIs
<1>7. GoodList(conn, serv_list, born, s, list[s]) /\ list \in [Servers -> Seq(Entry)]
  BY ListOf DEF IInv, Lists
<1>8. z # s
  <2>1. s \notin Away(t, s)
    BY <1>3, Ids, BehindBasics DEF Away
  <2> QED BY <1>3, <1>4, <2>1
<1>9. Brings(m, z) /\ ~Has(s, t, z)
  <2>1. Brings(m, z)
    BY <1>3, <1>4 DEF Brings
  <2>2. z \in Steady(born, raced)
    BY DEF Steady
  <2>3. \E d \in BOOLEAN : Follows(m, z, NickOf(born, z), s, Has(s, t, z), d)
    BY <1>1, <1>2, <2>2, Arrival
  <2> QED BY <2>1, <2>3 DEF Follows
<1>10. \A d \in ToSet(list[s]) : d.id # z
  <2>1. SUFFICES ASSUME NEW d \in ToSet(list[s]), d.id = z PROVE FALSE
    OBVIOUS
  <2>2. RightWay(conn, serv_list, s, d) /\ ServerOf(d.id) = z
    BY <1>7, <2>1, Ids DEF GoodList, GoodEntry
  <2>3. d.from # s /\ {s, d.from} \in conn /\ z \in Away(d.from, s)
    BY <1>8, <2>2 DEF RightWay
  <2>4. d.from # t
    BY <1>9, <2>1 DEF Has, HasIn
  <2>5. {d.from, s} \in Edges
    <3>1. {s, d.from} \in Edges /\ {s, d.from} = {d.from, s}
      BY <2>3 DEF IInv, WireTypes
    <3> QED BY <3>1
  <2>6. Away(d.from, s) \cap Away(t, s) = {}
    BY <1>3, <2>4, <2>5, Ids, BehindApart DEF Away
  <2> QED BY <1>3, <1>4, <2>3, <2>6
<1>11. PICK l : l = <<e>> \o list[s]
  OBVIOUS
<1>12. list' = [list EXCEPT ![s] = l]
  BY <1>2, <1>4, <1>5, <1>11 DEF ReadServer
<1>13. GoodList(conn, serv_list, born, s, l) /\ ToSet(l) = ToSet(list[s]) \cup {e}
  <2>1. RightWay(conn, serv_list, s, e)
    <3>1. t \in ToSet(serv_list[s]) /\ s \in ToSet(serv_list[t])
      BY <1>3 DEF CanRead, Links
    <3>2. ServerOf(e.id) = z
      BY <1>6, Ids
    <3> QED BY <1>3, <1>4, <1>6, <1>8, <3>1, <3>2 DEF RightWay
  <2>2. Registered(born, e)
    BY <1>6 DEF Registered, IsClientEntry
  <2>3. GoodEntry(conn, serv_list, born, s, e)
    BY <2>1, <2>2 DEF GoodEntry
  <2>4. PICK l0 : l0 = list[s]
    OBVIOUS
  <2>5. \A d \in ToSet(l0) : d.id # e.id /\ (IsClientEntry(e) => d.nick # e.nick)
    BY <1>6, <1>10, <2>4
  <2>6. GoodList(conn, serv_list, born, s, l0)
    BY <1>7, <2>4
  <2>7. GoodList(conn, serv_list, born, s, <<e>> \o l0) /\ ToSet(<<e>> \o l0) = ToSet(l0) \cup {e}
    BY <2>3, <2>5, <2>6, ListMore
  <2> QED BY <1>11, <2>4, <2>7
<1>14. PICK ts \in SUBSET Links(s) : ts = Links(s) \ {t}
  OBVIOUS
<1>15. wire' = Send(Read(s, t), s, ts, m)
  BY <1>2, <1>14, Relayed DEF ReadServer
<1>16. ASSUME NEW i \in Steady(born, raced') PROVE Learns(s, t, l, ts, m, i)
  <2>1. CASE i # z
    <3>1. Silent(m, i)
      BY <1>3, <1>4, <2>1 DEF Silent, Brings, Removes
    <3>2. \A x : HasIn(l, x, i) = HasIn(list[s], x, i)
      BY <1>6, <1>13, <2>1 DEF HasIn
    <3>3. \A k, y : ToldIn(l, k, y, i) = ToldIn(list[s], k, y, i)
      BY <1>6, <1>13, <2>1 DEF ToldIn
    <3>4. SameOf(l, list[s], i)
      BY <3>2, <3>3 DEF SameOf
    <3> QED BY <1>2, <3>1, <3>4, SilentLearns
  <2>2. CASE i = z
    <3>1. \A x : x # t => ~HasIn(l, x, i) /\ ~Has(s, x, i)
      BY <1>6, <1>10, <1>13, <2>2 DEF HasIn, Has
    <3>2. HasIn(l, t, i)
      BY <1>6, <1>13, <2>2 DEF HasIn
    <3>3. \A y : ~Told(s, y, i)
      BY <1>10, <2>2 DEF Told, ToldIn
    <3>4. t \in Around(s)
      BY DEF Around
    <3>5. \A y : ToldIn(l, Around(s), y, i) <=> y # t
      <4>1. \A d \in ToSet(l) : d.id = i <=> d = e
        BY <1>6, <1>10, <1>13, <2>2
      <4>2. e \in ToSet(l)
        BY <1>13
      <4> QED BY <1>6, <3>4, <4>1, <4>2 DEF ToldIn
    <3>6. ASSUME NEW d \in BOOLEAN, Follows(m, i, NickOf(born, i), s, Has(s, t, i), d)
          PROVE  HasIn(l, t, i) = d
      <4>1. d
        BY <1>9, <2>2, <3>6 DEF Follows
      <4>2. HasIn(l, t, i) \in BOOLEAN
        BY DEF HasIn
      <4> QED BY <3>2, <4>1, <4>2
    <3>7. ASSUME NEW y \in ts
          PROVE  Follows(m, i, NickOf(born, i), y, Told(s, y, i), ToldIn(l, Around(s), y, i))
      <4>1. y # t
        BY <1>14
      <4> QED BY <1>9, <2>2, <3>3, <3>5, <4>1 DEF Follows
    <3>8. ToldIn(l, Around(s), t, i) = Told(s, t, i)
      <4>1. ToldIn(l, Around(s), t, i) \in BOOLEAN /\ Told(s, t, i) \in BOOLEAN
        BY DEF ToldIn, Told
      <4> QED BY <3>3, <3>5, <4>1
    <3>9. ASSUME NEW x, x # t PROVE HasIn(l, x, i) = Has(s, x, i)
      <4>1. HasIn(l, x, i) \in BOOLEAN /\ Has(s, x, i) \in BOOLEAN
        BY DEF HasIn, Has
      <4> QED BY <3>1, <3>9, <4>1
    <3> QED BY <1>2, <1>14, <3>6, <3>7, <3>8, <3>9 DEF Learns
  <2> QED BY <2>1, <2>2
<1>17. \A y \in ts : MsgOK(born, raced', m, s, y)
  <2>1. SUFFICES ASSUME NEW y \in ts PROVE z \in Away(s, y)
    BY <1>3, <1>4, Ids DEF MsgOK
  <2>2. {s, y} \in Edges /\ y # t
    BY <1>14, LinksIs DEF IInv
  <2> QED BY <1>3, <1>4, <2>2, Ids, BehindGrows DEF Away
<1>18. UNCHANGED <<netvars, ubuf, acts, born>> /\ raced \subseteq raced' /\ raced' \subseteq Nicks
       /\ killed' \subseteq Clients /\ \A u \in killed' : u \in killed
  BY <1>1, RacesAre
<1> QED BY <1>1, <1>3, <1>12, <1>13, <1>15, <1>16, <1>17, <1>18, OneRead

\* A server, and what is behind it, is lost at another server.
LEMMA ReadSquitKeeps ==
    ASSUME IInv, NEW s \in Servers, NEW t \in Links(s), ReadSquit(s, t) PROVE IInv'
<1>1. /\ Arrives(s, t) /\ Msg(s, t).type = "squit"
      /\ History /\ UNCHANGED <<netvars, ubuf, acts, born, killed>>
  BY DEF ReadSquit, Reads
<1>2. PICK m : m = Msg(s, t)
  OBVIOUS
<1>3. m \in Message /\ m.type = "squit" /\ m.id \in Away(t, s) /\ m.id # t
      /\ t \in Servers /\ t # s /\ {t, s} \in Edges /\ {s, t} \in Edges
  <2>1. m \in Message /\ m.type = "squit" /\ MsgOK(born, raced, m, t, s)
        /\ t \in Servers /\ t # s /\ {t, s} \in Edges /\ {s, t} \in Edges
    BY <1>1, <1>2, Arrival
  <2> QED BY <2>1 DEF MsgOK
<1>4. PICK gone : gone = Dependents(s, m.id)
  OBVIOUS
<1>5. /\ gone \subseteq Away(t, s) \ {t}
      /\ \A y \in Links(s) \ {t} : Dependents(y, m.id) = gone
  <2>1. \A y \in Links(s) : {s, y} \in Edges
    BY LinksIs DEF IInv
  <2>2. PICK z : z = m.id
    OBVIOUS
  <2>3. /\ Dependents(s, z) \subseteq Away(t, s) \ {t}
        /\ \A p : {s, p} \in Edges /\ p # t => Dependents(p, z) = Dependents(s, z)
    BY <1>3, <2>2, DependentsFar
  <2> QED BY <1>4, <2>1, <2>2, <2>3
<1>6. GoodList(conn, serv_list, born, s, list[s]) /\ list \in [Servers -> Seq(Entry)]
  BY ListOf DEF IInv, Lists
<1>7. PICK es : es = {e \in ToSet(list[s]) : ServerOf(e.id) \in gone}
  OBVIOUS
<1>8. ASSUME NEW e \in es PROVE e \in ToSet(list[s]) /\ ServerOf(e.id) \in gone /\ e.from = t
  <2>1. e \in ToSet(list[s]) /\ ServerOf(e.id) \in gone
    BY <1>7
  <2>2. RightWay(conn, serv_list, s, e)
    BY <1>6, <2>1 DEF GoodList, GoodEntry
  <2>3. s \notin Away(t, s)
    BY <1>3, Ids, BehindBasics DEF Away
  <2>4. e.from # s /\ {s, e.from} \in conn /\ ServerOf(e.id) \in Away(e.from, s)
    BY <1>5, <2>1, <2>2, <2>3 DEF RightWay
  <2>5. {e.from, s} \in Edges
    <3>1. {s, e.from} \in Edges /\ {s, e.from} = {e.from, s}
      BY <2>4 DEF IInv, WireTypes
    <3> QED BY <3>1
  <2>6. ASSUME e.from # t PROVE FALSE
    <3>1. Away(e.from, s) \cap Away(t, s) = {}
      BY <1>3, <2>5, <2>6, Ids, BehindApart DEF Away
    <3> QED BY <1>5, <2>1, <2>4, <3>1
  <2> QED BY <2>1, <2>6
<1>9. Fixed(conn, s) \cap es = {}
  <2>1. SUFFICES ASSUME NEW e \in Fixed(conn, s), e \in es PROVE FALSE
    OBVIOUS
  <2>2. PICK z \in Servers : e = ServerEntry(z, z)
    BY <2>1 DEF Fixed
  <2>3. e.id = z /\ e.from = z
    BY <2>2, ServerEntryIs
  <2>4. z = t /\ z \in gone
    BY <1>8, <2>1, <2>3, Ids
  <2> QED BY <1>5, <2>4
<1>10. PICK l : l = Without(list[s], es)
  OBVIOUS
<1>11. GoodList(conn, serv_list, born, s, l) /\ ToSet(l) = ToSet(list[s]) \ es
  BY <1>6, <1>9, <1>10, ListFewer
<1>12. list' = [list EXCEPT ![s] = l]
  BY <1>2, <1>4, <1>7, <1>10 DEF ReadSquit
<1>13. PICK ts \in SUBSET Links(s) : ts = Links(s) \ {t}
  OBVIOUS
<1>14. wire' = Send(Read(s, t), s, ts, m)
  BY <1>2, <1>13, Relayed DEF ReadSquit
<1>15. ASSUME NEW i \in Steady(born, raced') PROVE Learns(s, t, l, ts, m, i)
  <2>1. \A y : ~Brings(m, i)
    BY <1>3 DEF Brings
  <2>2. \A x : x # t => HasIn(l, x, i) = Has(s, x, i)
    BY <1>8, <1>11 DEF HasIn, Has
  <2>3. ToldIn(l, Around(s), t, i) = Told(s, t, i)
    BY <1>8, <1>11 DEF ToldIn, Told
  <2>4. CASE ServerOf(i) \in gone
    <3>1. \A e \in ToSet(l) : e.id # i
      BY <1>7, <1>11, <2>4
    <3>2. \A x, k, y : ~HasIn(l, x, i) /\ ~ToldIn(l, k, y, i)
      BY <3>1 DEF HasIn, ToldIn
    <3>3. Removes(m, i, NickOf(born, i), s) /\ \A y \in ts : Removes(m, i, NickOf(born, i), y)
      BY <1>3, <1>4, <1>5, <1>13, <2>4 DEF Removes
    <3>4. \A y \in ts : Follows(m, i, NickOf(born, i), y, Told(s, y, i), ToldIn(l, Around(s), y, i))
      BY <2>1, <3>2, <3>3 DEF Follows
    <3>5. ASSUME NEW d \in BOOLEAN, Follows(m, i, NickOf(born, i), s, Has(s, t, i), d)
          PROVE  HasIn(l, t, i) = d
      <4>1. ~d /\ ~HasIn(l, t, i)
        BY <2>1, <3>2, <3>3, <3>5 DEF Follows
      <4>2. HasIn(l, t, i) \in BOOLEAN
        BY DEF HasIn
      <4> QED BY <4>1, <4>2
    <3> QED BY <1>2, <1>13, <2>2, <2>3, <3>4, <3>5 DEF Learns
  <2>5. CASE ServerOf(i) \notin gone
    <3>1. \A e \in ToSet(list[s]) : e.id = i => e \in ToSet(l)
      BY <1>7, <1>11, <2>5
    <3>2. \A x : HasIn(l, x, i) = Has(s, x, i)
      BY <1>11, <3>1 DEF HasIn, Has
    <3>3. \A y : ToldIn(l, Around(s), y, i) = Told(s, y, i)
      BY <1>11, <3>1 DEF ToldIn, Told
    <3>4. ~Removes(m, i, NickOf(born, i), s) /\ \A y \in ts : ~Removes(m, i, NickOf(born, i), y)
      BY <1>3, <1>4, <1>5, <1>13, <2>5 DEF Removes
    <3>5. \A y \in ts : Follows(m, i, NickOf(born, i), y, Told(s, y, i), ToldIn(l, Around(s), y, i))
      BY <2>1, <3>3, <3>4 DEF Follows
    <3>6. \A d \in BOOLEAN : Follows(m, i, NickOf(born, i), s, Has(s, t, i), d)
            => HasIn(l, t, i) = d
      BY <2>1, <3>2, <3>4 DEF Follows
    <3> QED BY <1>2, <2>2, <3>3, <3>5, <3>6 DEF Learns
  <2> QED BY <2>4, <2>5
<1>16. \A y \in ts : MsgOK(born, raced', m, s, y)
  <2>1. SUFFICES ASSUME NEW y \in ts PROVE m.id \in Away(s, y) /\ m.id # s
    BY <1>3 DEF MsgOK
  <2>2. {s, y} \in Edges /\ y # t
    BY <1>13, LinksIs DEF IInv
  <2>3. Away(t, s) \subseteq Away(s, y)
    BY <1>3, <2>2, Ids, BehindGrows DEF Away
  <2>4. s \notin Away(t, s)
    BY <1>3, Ids, BehindBasics DEF Away
  <2> QED BY <1>3, <2>3, <2>4
<1>17. UNCHANGED <<netvars, ubuf, acts, born>> /\ raced \subseteq raced' /\ raced' \subseteq Nicks
       /\ killed' \subseteq Clients /\ \A u \in killed' : u \in killed
  BY <1>1, RacesAre DEF History
<1> QED BY <1>1, <1>3, <1>11, <1>12, <1>14, <1>15, <1>16, <1>17, OneRead

---------------------------------------------------------------------------
(* Introductions.                                                          *)

\* A list of some things is one of others, if they are in it.
LEMMA ListTo ==
    ASSUME NEW S, NEW T, NEW v \in Seq(S), ToSet(v) \subseteq T
    PROVE  v \in Seq(T)
<1>1. \A k \in 1..Len(v) : v[k] \in T
  BY DEF ToSet
<1> QED BY <1>1

\* The lines of send_umode_out.
LEMMA UmodeLines ==
    ASSUME NEW l \in Seq(Entry), \A e \in ToSet(l) : e.modes # {} => e.nick \in Nicks,
           NEW r, r = send_umode_out(l)
    PROVE  r \in Seq(Message) /\ \A m \in ToSet(r) : m.type = "mode"
<1> DEFINE line(k) == [type |-> "mode", by |-> l[k].nick, modes |-> l[k].modes]
<1>1. PICK v : v = [k \in DOMAIN l |-> line(k)]
  OBVIOUS
<1>2. PICK es : es = {line(k) : k \in {j \in DOMAIN l : l[j].modes = {}}}
  OBVIOUS
<1>3. r = Without(v, es)
  BY <1>1, <1>2 DEF send_umode_out
<1>4. PICK S : S = {line(k) : k \in DOMAIN l}
  OBVIOUS
<1>5. v \in Seq(S) /\ ToSet(v) \subseteq S
  <2>1. Len(l) \in Nat /\ DOMAIN l = 1..Len(l)
    OBVIOUS
  <2>2. \A k \in 1..Len(l) : line(k) \in S
    BY <1>4, <2>1
  <2>3. v = [k \in 1..Len(l) |-> line(k)]
    BY <1>1, <2>1
  <2> HIDE DEF line
  <2>4. v \in Seq(S)
    BY <2>1, <2>2, <2>3
  <2> QED BY <2>4, SetOfList
<1>6. r \in Seq(S) /\ ToSet(r) = ToSet(v) \ es
  BY <1>3, <1>5, WithoutFacts
<1>7. ASSUME NEW m \in ToSet(r) PROVE m \in Message /\ m.type = "mode"
  <2>1. m \in S /\ m \notin es
    BY <1>5, <1>6
  <2>2. PICK k \in DOMAIN l : m = line(k)
    BY <1>4, <2>1
  <2>3. l[k].modes # {}
    BY <1>2, <2>1, <2>2
  <2>4. l[k] \in ToSet(l) /\ l[k] \in Entry
    BY DEF ToSet
  <2>5. l[k].nick \in Nicks /\ l[k].modes \in SUBSET UModes
    BY <2>3, <2>4, EntryFields
  <2> QED BY <2>2, <2>5 DEF Message
<1> QED BY <1>6, <1>7, ListTo

\* The line says of the client what the entry says.
LineOf(m, e) == /\ m.type = "nick" /\ m.id = e.id /\ m.nick = e.nick /\ m.ts = e.ts
                /\ m.user = e.user

\* The lines of ts_burst_client: one for each client.
LEMMA NickLines ==
    ASSUME NEW l \in Seq(Entry), NEW buf \in (SUBSET UModes) \cup {Unset},
           \A e \in ToSet(l) : IsClientEntry(e) => e.nick \in Nicks /\ e.user \in UserHosts,
           \A j, k \in DOMAIN l : l[j].id = l[k].id => j = k,
           NEW r, r = ts_burst_client(l, buf)
    PROVE  /\ r \in Seq(Message) /\ IsInjective(r)
           /\ \A m \in ToSet(r) : \E e \in ToSet(l) : IsClientEntry(e) /\ LineOf(m, e)
           /\ \A e \in ToSet(l) : IsClientEntry(e) => \E m \in ToSet(r) : LineOf(m, e)
           /\ \A m, d \in ToSet(r) : m.id = d.id => m = d
<1>1. PICK v : v = [k \in DOMAIN l |-> NickLine(l, buf, k)]
  OBVIOUS
<1>2. PICK es : es = {NickLine(l, buf, k) : k \in {j \in DOMAIN l : ~IsClientEntry(l[j])}}
  OBVIOUS
<1>3. r = Without(v, es)
  BY <1>1, <1>2 DEF ts_burst_client
<1>4. PICK S : S = {NickLine(l, buf, k) : k \in DOMAIN l}
  OBVIOUS
<1>5. Len(l) \in Nat /\ DOMAIN l = 1..Len(l) /\ DOMAIN v = DOMAIN l
      /\ \A k \in DOMAIN l : v[k] = NickLine(l, buf, k) /\ l[k] \in ToSet(l) /\ l[k] \in Entry
  BY <1>1 DEF ToSet
<1>6. v \in Seq(S) /\ ToSet(v) \subseteq S
  <2>2. \A k \in 1..Len(l) : NickLine(l, buf, k) \in S
    BY <1>4, <1>5
  <2>3. v = [k \in 1..Len(l) |-> NickLine(l, buf, k)]
    BY <1>1, <1>5
  <2>4. v \in Seq(S)
    BY <1>5, <2>2, <2>3
  <2> QED BY <2>4, SetOfList
<1>7. \A k \in DOMAIN l : LineOf(NickLine(l, buf, k), l[k])
  BY DEF LineOf, NickLine
<1>8. IsInjective(v)
  BY <1>5, <1>7 DEF IsInjective, LineOf
<1>9. r \in Seq(S) /\ ToSet(r) = ToSet(v) \ es /\ IsInjective(r)
  BY <1>3, <1>6, <1>8, WithoutFacts
<1>10. ASSUME NEW m \in ToSet(r)
       PROVE  \E k \in DOMAIN l : m = NickLine(l, buf, k) /\ IsClientEntry(l[k])
  <2>1. m \in S /\ m \notin es
    BY <1>6, <1>9
  <2> QED BY <1>2, <1>4, <2>1
<1>11. ASSUME NEW m \in ToSet(r) PROVE m \in Message
  <2>1. PICK k \in DOMAIN l : m = NickLine(l, buf, k) /\ IsClientEntry(l[k])
    BY <1>10
  <2>2. PICK modes : modes = IF k = 1 THEN buf ELSE l[k - 1].modes
    OBVIOUS
  <2>3. modes \in (SUBSET UModes) \cup {Unset}
    <3>1. CASE k = 1
      BY <2>2, <3>1
    <3>2. CASE k # 1
      <4>1. k - 1 \in DOMAIN l
        BY <1>5, <3>2
      <4>2. l[k - 1].modes \in SUBSET UModes
        BY <1>5, <4>1, EntryFields
      <4> QED BY <2>2, <3>2, <4>2
    <3> QED BY <3>1, <3>2
  <2>4. l[k].id \in Clients /\ l[k].nick \in Nicks /\ l[k].user \in UserHosts /\ l[k].ts \in Nat
    BY <1>5, <2>1, EntryFields DEF IsClientEntry
  <2>5. m = [type |-> "nick", id |-> l[k].id, nick |-> l[k].nick, ts |-> l[k].ts,
             user |-> l[k].user, modes |-> modes]
    BY <2>1, <2>2 DEF NickLine
  <2> QED BY <2>3, <2>4, <2>5 DEF Message
<1>12. r \in Seq(Message)
  BY <1>9, <1>11, ListTo
<1>13. \A m \in ToSet(r) : \E e \in ToSet(l) : IsClientEntry(e) /\ LineOf(m, e)
  BY <1>5, <1>7, <1>10
<1>14. ASSUME NEW e \in ToSet(l), IsClientEntry(e) PROVE \E m \in ToSet(r) : LineOf(m, e)
  <2>1. PICK k \in DOMAIN l : e = l[k]
    BY DEF ToSet
  <2>2. NickLine(l, buf, k) \in ToSet(v)
    BY <1>5 DEF ToSet
  <2>3. NickLine(l, buf, k) \notin es
    <3>1. SUFFICES ASSUME NEW j \in DOMAIN l, ~IsClientEntry(l[j]),
                          NickLine(l, buf, k) = NickLine(l, buf, j)
                   PROVE  FALSE
      BY <1>2
    <3>2. l[k].id = l[j].id
      BY <1>7, <3>1 DEF LineOf
    <3> QED BY <1>14, <2>1, <3>1, <3>2 DEF IsClientEntry
  <2> QED BY <1>7, <1>9, <2>1, <2>2, <2>3
<1>15. ASSUME NEW m \in ToSet(r), NEW d \in ToSet(r), m.id = d.id PROVE m = d
  <2>1. PICK j \in DOMAIN l : m = NickLine(l, buf, j)
    BY <1>10
  <2>2. PICK k \in DOMAIN l : d = NickLine(l, buf, k)
    BY <1>10
  <2>3. l[j].id = l[k].id
    BY <1>7, <1>15, <2>1, <2>2 DEF LineOf
  <2> QED BY <2>1, <2>2, <2>3
<1> QED BY <1>9, <1>12, <1>13, <1>14, <1>15

\* What a link is sent that is told of the new entry e, or only of its modes.
Announces(v, e, y, new) ==
    /\ v \in Seq(Message)
    /\ \A m \in ToSet(v) : m.type = "mode" \/ (new /\ LineOf(m, e))
    /\ new => \A n : Tracks(v, e.id, n, y, FALSE, TRUE)

\* Lines of modes.
LEMMA UmodesAnnounce ==
    ASSUME NEW e \in Entry, e.nick \in Nicks, NEW k \in Nat, NEW r,
           r = send_umode_out(Times(k, e))
    PROVE  r \in Seq(Message) /\ \A m \in ToSet(r) : m.type = "mode"
<1>1. PICK l : l = Times(k, e)
  OBVIOUS
<1>2. l \in Seq(Entry) /\ \A d \in ToSet(l) : d = e
  BY <1>1 DEF Times, ToSet
<1> QED BY <1>1, <1>2, UmodeLines

\* Modes tell nothing of who is known.
LEMMA ModesNeutral ==
    ASSUME NEW v \in Seq(Message), \A m \in ToSet(v) : m.type = "mode",
           NEW i, NEW n, NEW y, NEW b \in BOOLEAN
    PROVE  Tracks(v, i, n, y, b, b)
<1>1. Neutral(v, i, n, y)
  BY DEF Neutral, Brings, Removes
<1> QED BY <1>1, TracksNeutral

\* The line that introduces a client.
LEMMA LineAnnounces ==
    ASSUME NEW e \in Entry, IsClientEntry(e), e.nick \in Nicks, e.user \in UserHosts,
           NEW buf \in (SUBSET UModes) \cup {Unset}, NEW y, NEW r, r = ts_burst_client(<<e>>, buf)
    PROVE  Announces(r, e, y, TRUE)
<1>1. PICK l : l = <<e>>
  OBVIOUS
<1>2. l \in Seq(Entry) /\ DOMAIN l = {1} /\ l[1] = e
  BY <1>1
<1>3. ToSet(l) = {e}
  BY <1>2 DEF ToSet
<1>8. \A d \in ToSet(l) : IsClientEntry(d) => d.nick \in Nicks /\ d.user \in UserHosts
  BY <1>3
<1>9. \A j, k \in DOMAIN l : l[j].id = l[k].id => j = k
  BY <1>2
<1>10. r = ts_burst_client(l, buf)
  BY <1>1
<1>4. /\ r \in Seq(Message) /\ IsInjective(r)
      /\ \A m \in ToSet(r) : \E d \in ToSet(l) : IsClientEntry(d) /\ LineOf(m, d)
      /\ \A d \in ToSet(l) : IsClientEntry(d) => \E m \in ToSet(r) : LineOf(m, d)
      /\ \A m, d \in ToSet(r) : m.id = d.id => m = d
  BY <1>2, <1>8, <1>9, <1>10, NickLines
<1>5. \A m \in ToSet(r) : LineOf(m, e)
  BY <1>3, <1>4
<1>6. PICK a \in ToSet(r) : LineOf(a, e)
  BY <1>3, <1>4
<1>7. ASSUME NEW n PROVE Tracks(r, e.id, n, y, FALSE, TRUE)
  <2>1. Brings(a, e.id)
    BY <1>6 DEF Brings, LineOf
  <2>2. \A m \in ToSet(r) : (Brings(m, e.id) => m = a) /\ ~Removes(m, e.id, n, y)
    BY <1>4, <1>5, <1>6 DEF LineOf, Removes
  <2> QED BY <1>4, <2>1, <2>2, TracksBrought
<1> QED BY <1>4, <1>5, <1>7 DEF Announces

\* Between lines of modes.
LEMMA BetweenModes ==
    ASSUME NEW e, NEW y, NEW a \in Seq(Message), \A m \in ToSet(a) : m.type = "mode",
           NEW b, Announces(b, e, y, TRUE),
           NEW c \in Seq(Message), \A m \in ToSet(c) : m.type = "mode"
    PROVE  Announces(a \o b \o c, e, y, TRUE)
<1>1. b \in Seq(Message) /\ \A m \in ToSet(b) : m.type = "mode" \/ LineOf(m, e)
  BY DEF Announces
<1>2. PICK ab \in Seq(Message) : ab = a \o b
  BY <1>1, ListsFrom
<1>3. PICK w \in Seq(Message) : w = ab \o c
  BY ListsFrom
<1>4. ToSet(ab) = ToSet(a) \cup ToSet(b) /\ ToSet(w) = ToSet(ab) \cup ToSet(c)
  <2>1. ToSet(ab) = ToSet(a) \cup ToSet(b)
    BY <1>1, <1>2, SetOfList
  <2>2. ToSet(w) = ToSet(ab) \cup ToSet(c)
    BY <1>3, SetOfList
  <2> QED BY <2>1, <2>2
<1>5. ASSUME NEW n PROVE Tracks(w, e.id, n, y, FALSE, TRUE)
  <2>1. Tracks(a, e.id, n, y, FALSE, FALSE)
    BY ModesNeutral
  <2>2. Tracks(b, e.id, n, y, FALSE, TRUE)
    BY DEF Announces
  <2>3. Tracks(c, e.id, n, y, TRUE, TRUE)
    BY ModesNeutral
  <2>4. Tracks(ab, e.id, n, y, FALSE, TRUE)
    BY <1>1, <1>2, <2>1, <2>2, TracksMore
  <2> QED BY <1>3, <2>3, <2>4, TracksMore
<1>6. Announces(w, e, y, TRUE)
  BY <1>1, <1>4, <1>5 DEF Announces
<1> QED BY <1>2, <1>3, <1>6

\* w after s has sent out over its links.
Sent(w, s, out) ==
    [p \in Servers \X Servers |->
       IF p[1] = s /\ p[2] \in Links(s) THEN w[p] \o out[p[2]] ELSE w[p]]

\* introduce_client_globally tells every link but one of the client, and the links of
\* its modes.
LEMMA Announce ==
    ASSUME WireTypes, OtherTypes, NEW s \in Servers, NEW e \in Entry, IsClientEntry(e),
           e.nick \in Nicks, e.user \in UserHosts, NEW one, NEW w, NEW r,
           r = introduce_client_globally(w, s, one, e)
    PROVE  /\ r.ubuf \in (SUBSET UModes) \cup {Unset}
           /\ \E out : /\ \A y \in Links(s) : Announces(out[y], e, y, y # one)
                       /\ r.wire = Sent(w, s, out)
<1> DEFINE told == Without(serv_list[s], {one})
           line(j) == ts_burst_client(<<e>>, IF j = 1 THEN ubuf[s] ELSE e.modes)
           sent(t) ==
             IF t \in ToSet(told)
             THEN LET j == CHOOSE j \in DOMAIN told : told[j] = t
                  IN  send_umode_out(Times(j - 1, e)) \o line(j)
                        \o send_umode_out(Times(Len(told) - j, e))
             ELSE send_umode_out(Times(Len(told), e))
           out == [y \in Links(s) |-> sent(y)]
<1>1. r = [wire |-> [p \in Servers \X Servers |->
                       IF p[1] = s /\ p[2] \in Links(s) THEN w[p] \o sent(p[2]) ELSE w[p]],
           ubuf |-> IF told = <<>> THEN ubuf[s] ELSE e.modes]
  BY DEF introduce_client_globally
<1>2. ubuf[s] \in (SUBSET UModes) \cup {Unset} /\ e.modes \in (SUBSET UModes) \cup {Unset}
  BY EntryFields DEF OtherTypes
<1>3. told \in Seq(Servers) /\ ToSet(told) = Links(s) \ {one}
  <2>1. serv_list[s] \in Seq(Servers)
    BY DEF WireTypes
  <2> QED BY <2>1, WithoutFacts DEF Links
<1>4. \A j : Announces(line(j), e, one, TRUE) /\ \A y : Announces(line(j), e, y, TRUE)
  <2>1. SUFFICES ASSUME NEW j, NEW y PROVE Announces(line(j), e, y, TRUE)
    OBVIOUS
  <2>2. PICK buf : buf = IF j = 1 THEN ubuf[s] ELSE e.modes
    OBVIOUS
  <2>3. buf \in (SUBSET UModes) \cup {Unset}
    BY <1>2, <2>2
  <2>4. line(j) = ts_burst_client(<<e>>, buf)
    BY <2>2
  <2> HIDE DEF line
  <2> QED BY <2>3, <2>4, LineAnnounces
<1>5. ASSUME NEW y \in Links(s) PROVE Announces(sent(y), e, y, y # one)
  <2> HIDE DEF told, line
  <2>1. Len(told) \in Nat
    BY <1>3
  <2>2. CASE y \in ToSet(told)
    <3>1. PICK j : j = CHOOSE k \in DOMAIN told : told[k] = y
      OBVIOUS
    <3>2. j \in 1..Len(told)
      <4>1. \E k \in DOMAIN told : told[k] = y
        BY <2>2 DEF ToSet
      <4>2. j \in DOMAIN told
        BY <3>1, <4>1
      <4> QED BY <1>3, <4>2
    <3>3. j - 1 \in Nat /\ Len(told) - j \in Nat
      BY <2>1, <3>2
    <3>4. PICK a, b, c : a = send_umode_out(Times(j - 1, e)) /\ b = line(j)
                         /\ c = send_umode_out(Times(Len(told) - j, e))
      OBVIOUS
    <3>5. a \in Seq(Message) /\ \A m \in ToSet(a) : m.type = "mode"
      BY <3>3, <3>4, UmodesAnnounce
    <3>6. c \in Seq(Message) /\ \A m \in ToSet(c) : m.type = "mode"
      BY <3>3, <3>4, UmodesAnnounce
    <3>7. Announces(b, e, y, TRUE)
      BY <1>4, <3>4
    <3>8. Announces(a \o b \o c, e, y, TRUE)
      BY <3>5, <3>6, <3>7, BetweenModes
    <3>9. sent(y) = a \o b \o c
      BY <2>2, <3>1, <3>4
    <3>10. (y # one) = TRUE
      BY <1>3, <2>2
    <3> QED BY <3>8, <3>9, <3>10
  <2>3. CASE y \notin ToSet(told)
    <3>1. sent(y) = send_umode_out(Times(Len(told), e))
      BY <2>3
    <3>2. sent(y) \in Seq(Message) /\ \A m \in ToSet(sent(y)) : m.type = "mode"
      BY <2>1, <3>1, UmodesAnnounce
    <3>3. y = one
      BY <1>3, <2>3
    <3> QED BY <3>2, <3>3 DEF Announces
  <2> QED BY <2>2, <2>3
<1>6. r.ubuf \in (SUBSET UModes) \cup {Unset}
  <2> HIDE DEF told, sent
  <2>1. r.ubuf = ubuf[s] \/ r.ubuf = e.modes
    BY <1>1
  <2> QED BY <1>2, <2>1
<1>7. r.wire = Sent(w, s, out)
  <2> HIDE DEF told, sent
  <2>1. r.wire = [p \in Servers \X Servers |->
                    IF p[1] = s /\ p[2] \in Links(s) THEN w[p] \o sent(p[2]) ELSE w[p]]
    BY <1>1
  <2>2. \A y \in Links(s) : out[y] = sent(y)
    OBVIOUS
  <2> HIDE DEF out
  <2> QED BY <2>1, <2>2 DEF Sent
<1>8. \A y \in Links(s) : Announces(out[y], e, y, y # one)
  BY <1>5
<1> QED BY <1>6, <1>7, <1>8

\* Three lists put together.
LEMMA Associates ==
    ASSUME NEW S, NEW a \in Seq(S), NEW b \in Seq(S), NEW c \in Seq(S)
    PROVE  (a \o b) \o c = a \o (b \o c)
OBVIOUS

\* s sends out0, and then out.
LEMMA SentMoves ==
    ASSUME WireTypes, Connected, NEW s \in Servers, NEW rd, NEW out0 \in [Links(s) -> Seq(Message)],
           NEW out, \A y \in Links(s) : out[y] \in Seq(Message)
    PROVE  \E o \in [Links(s) -> Seq(Message)] :
             /\ \A y \in Links(s) : o[y] = out0[y] \o out[y]
             /\ Sent(Moved(s, rd, out0), s, out) = Moved(s, rd, o)
<1>1. PICK o : o = [y \in Links(s) |-> out0[y] \o out[y]]
  OBVIOUS
<1>2. ASSUME NEW y \in Links(s) PROVE out0[y] \o out[y] \in Seq(Message)
  <2>1. PICK b \in Seq(Message), c \in Seq(Message) : b = out0[y] /\ c = out[y]
    OBVIOUS
  <2> QED BY <2>1, ListsFrom
<1>3. o \in [Links(s) -> Seq(Message)] /\ \A y \in Links(s) : o[y] = out0[y] \o out[y]
  BY <1>1, <1>2
<1>4. PICK u, v, w : /\ u = Sent(w, s, out) /\ w = Moved(s, rd, out0)
                     /\ v = Moved(s, rd, o)
  OBVIOUS
<1>5. ASSUME NEW p \in Servers \X Servers PROVE u[p] = v[p]
  <2>1. PICK x \in Servers, y \in Servers : p = <<x, y>>
    BY PairIs
  <2>2. PICK a \in Seq(Message) : a = wire[p]
    BY DEF WireTypes
  <2>3. u[p] = IF x = s /\ y \in Links(s) THEN w[p] \o out[y] ELSE w[p]
    BY <1>4, <2>1 DEF Sent
  <2>4. w[p] = IF x = s /\ y \in Links(s) THEN a \o out0[y]
               ELSE IF y = s /\ x \in rd THEN Tail(a) ELSE a
    BY <1>4, <2>1, <2>2 DEF Moved
  <2>5. v[p] = IF x = s /\ y \in Links(s) THEN a \o o[y]
               ELSE IF y = s /\ x \in rd THEN Tail(a) ELSE a
    BY <1>4, <2>1, <2>2 DEF Moved
  <2>6. CASE x = s /\ y \in Links(s)
    <3>1. PICK b \in Seq(Message), c \in Seq(Message) : b = out0[y] /\ c = out[y]
      BY <2>6
    <3>2. (a \o b) \o c = a \o (b \o c)
      BY Associates
    <3>3. u[p] = (a \o b) \o c
      BY <2>3, <2>4, <2>6, <3>1
    <3>4. v[p] = a \o (b \o c)
      BY <1>3, <2>5, <2>6, <3>1
    <3> QED BY <3>2, <3>3, <3>4
  <2>7. CASE ~(x = s /\ y \in Links(s))
    BY <2>3, <2>4, <2>5, <2>7
  <2> QED BY <2>6, <2>7
<1>6. u = [p \in Servers \X Servers |-> u[p]] /\ v = [p \in Servers \X Servers |-> v[p]]
  BY <1>4 DEF Sent, Moved
<1>7. u = v
  BY <1>5, <1>6
<1> QED BY <1>3, <1>4, <1>7

\* A server adds the entry e to the list l, in which no client that is not to blame is
\* missing, has read an introduction of it or nothing, has sent out0, and introduces it.
Introduces(s, rd, l, e, out0) ==
    /\ out0 \in [Links(s) -> Seq(Message)]
    /\ \A y \in Links(s) : \A m \in ToSet(out0[y]) :
         m.type = "kill" /\ MsgOK(born', raced', m, s, y)
    /\ \A t \in rd : CanRead(s, t) /\ t = e.from /\ LineOf(Head(wire[t, s]), e)
    /\ (e.from \in Links(s) \/ e.from = s) /\ (e.from \in Links(s) => e.from \in rd)
    /\ UNCHANGED <<conn, serv_list>>
    /\ list' = [list EXCEPT ![s] = <<e>> \o l]
    /\ wire' = introduce_client_globally(Moved(s, rd, out0), s, e.from, e).wire
    /\ IsClientEntry(e) /\ e.user \in UserHosts /\ GoodEntry(conn, serv_list, born', s, e)
    /\ GoodList(conn, serv_list, born', s, l)
    /\ \A d \in ToSet(l) : d.id # e.id /\ d.nick # e.nick
    /\ \A i \in Steady(born', raced') : SameOf(l, list[s], i)
    /\ \A i \in Steady(born', raced') : \A x, y \in Servers : y \in Links(x) =>
         Tracks(wire[x, y], i, NickOf(born', i), y, Has(y, x, i), Told(x, y, i))

\* Then the invariant is kept.
LEMMA IntroduceKeeps ==
    ASSUME IInv, NEW s \in Servers, NEW rd, NEW l, NEW e \in Entry, NEW out0,
           Introduces(s, rd, l, e, out0), HistoryGrows, OtherTypes', ForCause'
    PROVE  IInv'
<1>1. WireTypes /\ OtherTypes /\ Connected /\ Lists /\ Messages /\ list \in [Servers -> Seq(Entry)]
  BY DEF IInv, Lists
<1>20. out0 \in [Links(s) -> Seq(Message)]
  BY DEF Introduces
<1>21. IsClientEntry(e) /\ e.user \in UserHosts /\ GoodEntry(conn, serv_list, born', s, e)
       /\ GoodList(conn, serv_list, born', s, l)
  BY DEF Introduces
<1>22. \A d \in ToSet(l) : d.id # e.id /\ d.nick # e.nick
  BY DEF Introduces
<1>23. \A i \in Steady(born', raced') : SameOf(l, list[s], i)
  BY DEF Introduces
<1>24. \A t \in rd : CanRead(s, t) /\ t = e.from /\ LineOf(Head(wire[t, s]), e)
  BY DEF Introduces
<1>25. (e.from \in Links(s) \/ e.from = s) /\ (e.from \in Links(s) => e.from \in rd)
  BY DEF Introduces
<1>2. /\ e.nick \in Nicks /\ e.nick = born'[e.id].nick /\ e.ts = born'[e.id].ts
      /\ e.user = born'[e.id].user /\ RightWay(conn, serv_list, s, e)
      /\ e.id \in Clients /\ ServerOf(e.id) \in Servers /\ e.id \notin Servers
  BY <1>21, EntryFields, Ids DEF GoodEntry, Registered, IsClientEntry
<1>3. PICK r : r = introduce_client_globally(Moved(s, rd, out0), s, e.from, e)
  OBVIOUS
<1>4. PICK out : /\ \A y \in Links(s) : Announces(out[y], e, y, y # e.from)
                 /\ r.wire = Sent(Moved(s, rd, out0), s, out)
  <2>1. PICK w : w = Moved(s, rd, out0)
    OBVIOUS
  <2>2. PICK one : one = e.from
    OBVIOUS
  <2>3. r = introduce_client_globally(w, s, one, e)
    BY <1>3, <2>1, <2>2
  <2>4. \E out : /\ \A y \in Links(s) : Announces(out[y], e, y, y # one)
                 /\ r.wire = Sent(w, s, out)
    BY <1>1, <1>2, <1>21, <2>3, Announce
  <2> QED BY <2>1, <2>2, <2>4
<1>5. \A y \in Links(s) : out[y] \in Seq(Message)
  BY <1>4 DEF Announces
<1>6. PICK o \in [Links(s) -> Seq(Message)] :
         /\ \A y \in Links(s) : o[y] = out0[y] \o out[y]
         /\ r.wire = Moved(s, rd, o)
  <2>1. \E o \in [Links(s) -> Seq(Message)] :
             /\ \A y \in Links(s) : o[y] = out0[y] \o out[y]
             /\ Sent(Moved(s, rd, out0), s, out) = Moved(s, rd, o)
    BY <1>1, <1>5, <1>20, SentMoves
  <2> QED BY <1>4, <2>1
<1>7. PICK l1 : l1 = <<e>> \o l
  OBVIOUS
<1>8. Step(s, l1, rd, o)
  BY <1>3, <1>6, <1>7, <1>24 DEF Step, Introduces
<1>9. GoodList(conn, serv_list, born', s, l1) /\ ToSet(l1) = ToSet(l) \cup {e}
  BY <1>7, <1>21, <1>22, ListMore
<1>10. ASSUME NEW y \in Links(s), NEW m \in ToSet(o[y]) PROVE MsgOK(born', raced', m, s, y)
  <2>1. PICK a \in Seq(Message), b \in Seq(Message) : a = out0[y] /\ b = out[y]
    BY <1>5, <1>20
  <2>2. ToSet(a \o b) = ToSet(a) \cup ToSet(b)
    BY SetOfList
  <2>3. m \in ToSet(out0[y]) \/ m \in ToSet(out[y])
    BY <1>6, <1>10, <2>1, <2>2
  <2>5. ASSUME m \in ToSet(out0[y]) PROVE MsgOK(born', raced', m, s, y)
    BY <2>5 DEF Introduces
  <2>4. ASSUME m \in ToSet(out[y]) PROVE MsgOK(born', raced', m, s, y)
    <3>1. m.type = "mode" \/ (y # e.from /\ LineOf(m, e))
      BY <1>4, <2>4 DEF Announces
    <3>2. ASSUME y # e.from PROVE ServerOf(e.id) \in Away(s, y)
      <4>1. {s, y} \in Edges /\ s \in Away(s, y)
        BY <1>1, LinksIs, Ids, BehindBasics DEF Away
      <4>2. CASE e.from = s
        BY <1>2, <4>1, <4>2 DEF RightWay
      <4>3. CASE e.from # s
        <5>1. {e.from, s} \in Edges
          BY <1>1, <1>25, <4>3, LinksIs
        <5>2. Away(e.from, s) \subseteq Away(s, y)
          BY <3>2, <4>1, <5>1, Ids, BehindGrows DEF Away
        <5> QED BY <1>2, <4>3, <5>2 DEF RightWay
      <4> QED BY <4>2, <4>3
    <3> QED BY <1>2, <3>1, <3>2 DEF MsgOK, LineOf
  <2> QED BY <2>3, <2>4, <2>5
<1>11. WireTypes' /\ Connected' /\ Lists' /\ Messages'
  BY <1>1, <1>8, <1>9, <1>10, StepKeeps
<1>12. s \notin Links(s) /\ Links(s) \subseteq Servers /\ \A x \in Servers : s \in Links(x) => x # s
  BY ListOf
<1>13. ASSUME NEW i \in Steady(born', raced'), i # e.id
       PROVE  /\ \A x : HasIn(l1, x, i) = Has(s, x, i)
              /\ \A y : ToldIn(l1, Around(s), y, i) = Told(s, y, i)
  <2>1. SameOf(l, list[s], i)
    BY <1>23
  <2>2. \A x : HasIn(l1, x, i) = HasIn(l, x, i)
    BY <1>9, <1>13 DEF HasIn
  <2>3. \A k, y : ToldIn(l1, k, y, i) = ToldIn(l, k, y, i)
    BY <1>9, <1>13 DEF ToldIn
  <2> QED BY <2>1, <2>2, <2>3 DEF SameOf, Has, Told
<1>14. ASSUME e.id \in Steady(born', raced')
       PROVE  /\ \A x : ~Has(s, x, e.id) /\ HasIn(l1, x, e.id) = (x = e.from)
              /\ \A y : ~Told(s, y, e.id) /\ ToldIn(l1, Around(s), y, e.id) = (y # e.from)
  <2>1. SameOf(l, list[s], e.id)
    BY <1>14, <1>23
  <2>2. \A x : ~HasIn(l, x, e.id)
    BY <1>22 DEF HasIn
  <2>3. \A k, y : ~ToldIn(l, k, y, e.id)
    BY <1>22 DEF ToldIn
  <2>4. e.from \in Around(s)
    BY <1>25 DEF Around
  <2>5. \A d \in ToSet(l1) : d.id = e.id <=> d = e
    BY <1>9, <1>22
  <2>6. e \in ToSet(l1)
    BY <1>9
  <2>7. \A x : HasIn(l1, x, e.id) <=> x = e.from
    BY <2>5, <2>6 DEF HasIn
  <2>8. \A y : ToldIn(l1, Around(s), y, e.id) <=> y # e.from
    BY <2>4, <2>5, <2>6 DEF ToldIn
  <2>9. \A x : HasIn(l1, x, e.id) = (x = e.from)
    BY <2>7 DEF HasIn
  <2>10. \A y : ToldIn(l1, Around(s), y, e.id) = (y # e.from)
    BY <2>8 DEF ToldIn
  <2> QED BY <2>1, <2>2, <2>3, <2>9, <2>10 DEF SameOf, Has, Told
<1>15. ASSUME NEW i \in Steady(born', raced'), NEW x \in Servers, s \in Links(x), x \notin rd
       PROVE  HasIn(l1, x, i) = Has(s, x, i)
  <2>1. CASE i # e.id
    BY <1>13, <2>1
  <2>2. CASE i = e.id
    <3>1. x # e.from
      <4>1. CASE e.from = s
        BY <1>12, <1>15, <4>1
      <4>2. CASE e.from \in Links(s)
        BY <1>15, <1>25, <4>2
      <4> QED BY <1>25, <4>1, <4>2
    <3>2. ~HasIn(l1, x, i) /\ ~Has(s, x, i)
      BY <1>14, <2>2, <3>1
    <3> QED BY <3>2 DEF HasIn, Has
  <2> QED BY <2>1, <2>2
<1>16. ASSUME NEW t \in rd, NEW i \in Steady(born', raced'), NEW d \in BOOLEAN,
              Follows(Head(wire[t, s]), i, NickOf(born', i), s, Has(s, t, i), d)
       PROVE  HasIn(l1, t, i) = d
  <2>1. LineOf(Head(wire[t, s]), e) /\ t = e.from
    BY <1>24
  <2>2. CASE i # e.id
    <3>1. ~Brings(Head(wire[t, s]), i) /\ \A n, y : ~Removes(Head(wire[t, s]), i, n, y)
      BY <2>1, <2>2 DEF LineOf, Brings, Removes
    <3>2. d = Has(s, t, i)
      BY <1>16, <3>1 DEF Follows
    <3> QED BY <1>13, <2>2, <3>2
  <2>3. CASE i = e.id
    <3>1. Brings(Head(wire[t, s]), i)
      BY <2>1, <2>3 DEF LineOf, Brings
    <3>2. d
      BY <1>16, <3>1 DEF Follows
    <3>3. HasIn(l1, t, i)
      BY <1>14, <2>1, <2>3
    <3> QED BY <3>2, <3>3 DEF HasIn
  <2> QED BY <2>2, <2>3
<1>17. ASSUME NEW y \in Links(s), NEW i \in Steady(born', raced')
       PROVE  Tracks(o[y], i, NickOf(born', i), y, Told(s, y, i), ToldIn(l1, Around(s), y, i))
  <2>1. PICK a \in Seq(Message), b \in Seq(Message) : a = out0[y] /\ b = out[y]
    BY <1>5, <1>20
  <2>2. o[y] = a \o b
    BY <1>6, <2>1
  <2>3. PICK n : n = NickOf(born', i)
    OBVIOUS
  <2>4. PICK c \in BOOLEAN : c = Told(s, y, i)
    BY DEF Told, ToldIn
  <2>5. PICK f \in BOOLEAN : f = ToldIn(l1, Around(s), y, i)
    BY DEF ToldIn
  <2>6. Tracks(a, i, n, y, c, c)
    <3>1. \A m \in ToSet(a) : m.type = "kill"
      BY <2>1 DEF Introduces
    <3>2. Neutral(a, i, n, y)
      BY <3>1 DEF Neutral, Brings, Removes
    <3> QED BY <3>2, TracksNeutral
  <2>7. Announces(b, e, y, y # e.from)
    BY <1>4, <2>1
  <2>8. Tracks(b, i, n, y, c, f)
    <3>1. CASE i = e.id /\ y # e.from
      <4>1. c = FALSE /\ f = TRUE
        BY <1>14, <2>4, <2>5, <3>1
      <4>2. Tracks(b, e.id, n, y, FALSE, TRUE)
        BY <2>7, <3>1 DEF Announces
      <4> QED BY <3>1, <4>1, <4>2
    <3>2. CASE ~(i = e.id /\ y # e.from)
      <4>1. c = f
        <5>1. CASE i # e.id
          BY <1>13, <2>4, <2>5, <5>1
        <5>2. CASE i = e.id
          BY <1>14, <2>4, <2>5, <3>2, <5>2
        <5> QED BY <5>1, <5>2
      <4>2. Neutral(b, i, n, y)
        <5>1. \A m \in ToSet(b) : m.type = "mode" \/ (y # e.from /\ LineOf(m, e))
          BY <2>7 DEF Announces
        <5>2. \A m \in ToSet(b) : m.type = "mode" \/ (m.type = "nick" /\ m.id # i)
          BY <3>2, <5>1 DEF LineOf
        <5> QED BY <5>2 DEF Neutral, Brings, Removes
      <4>3. Tracks(b, i, n, y, c, c)
        BY <4>2, TracksNeutral
      <4> QED BY <4>1, <4>3
    <3> QED BY <3>1, <3>2
  <2>9. Tracks(a \o b, i, n, y, c, f)
    BY <2>6, <2>8, TracksMore
  <2> QED BY <2>2, <2>3, <2>4, <2>5, <2>9
<1>18. Fits(s, l1, rd, o)
  <2>1. \A i \in Steady(born', raced') : \A x, y \in Servers : y \in Links(x) =>
             Tracks(wire[x, y], i, NickOf(born', i), y, Has(y, x, i), Told(x, y, i))
    BY DEF Introduces
  <2> QED BY <1>15, <1>16, <1>17, <2>1 DEF Fits
<1>19. WillAgree'
  BY <1>1, <1>8, <1>18, StepAgrees
<1> QED BY <1>11, <1>19 DEF IInv

\* What OutTo sends.
LEMMA OutToSet ==
    ASSUME NEW s, NEW ts, NEW m, NEW y \in Links(s), NEW d \in ToSet(OutTo(s, ts, m)[y])
    PROVE  y \in ts /\ d = m
<1>1. OutTo(s, ts, m)[y] = IF y \in ts THEN <<m>> ELSE <<>>
  BY DEF OutTo
<1>2. ToSet(<<m>>) = {m} /\ ToSet(<<>>) = {}
  BY DEF ToSet
<1> QED BY <1>1, <1>2

\* What Introduce does.
Introduced(l, w, s, one, e) ==
    /\ list' = [list EXCEPT ![s] = <<e>> \o l]
    /\ wire' = introduce_client_globally(w, s, one, e).wire
    /\ ubuf' \in [Servers -> (SUBSET UModes) \cup {Unset}]

\* It does this when the entry is one of a client with a nick.
LEMMA IntroduceIs ==
    ASSUME NEW l, NEW w, NEW s \in Servers, NEW one, NEW e, Introduce(l, w, s, one, e),
           OtherTypes, WireTypes, e \in Entry, IsClientEntry(e), e.nick \in Nicks,
           e.user \in UserHosts
    PROVE  Introduced(l, w, s, one, e)
<1>1. PICK r : r = introduce_client_globally(w, s, one, e)
  OBVIOUS
<1>2. r.ubuf \in (SUBSET UModes) \cup {Unset}
  BY <1>1, Announce
<1>3. /\ list' = [list EXCEPT ![s] = <<e>> \o l] /\ wire' = r.wire
      /\ ubuf' = [ubuf EXCEPT ![s] = r.ubuf]
  BY <1>1 DEF Introduce
<1>4. ubuf \in [Servers -> (SUBSET UModes) \cup {Unset}]
  BY DEF OtherTypes
<1> QED BY <1>1, <1>2, <1>3, <1>4 DEF Introduced

\* Nobody knows a client that has not registered.
LEMMA Unborn ==
    ASSUME IInv, NEW u \in Clients, born[u].nick = NoNick
    PROVE  /\ u \in Steady(born, raced)
           /\ \A s \in Servers : \A e \in ToSet(list[s]) : e.id # u
           /\ \A x, y \in Servers : \A m \in ToSet(wire[x, y]) : ~Brings(m, u)
<1>1. u \in Steady(born, raced)
  BY DEF Steady, Blamed
<1>2. ASSUME NEW s \in Servers, NEW e \in ToSet(list[s]), e.id = u PROVE FALSE
  <2>1. Registered(born, e)
    BY ListOf DEF GoodList, GoodEntry
  <2> QED BY <1>2, <2>1 DEF Registered
<1>3. ASSUME NEW x \in Servers, NEW y \in Servers, NEW m \in ToSet(wire[x, y]), Brings(m, u)
      PROVE  FALSE
  <2>1. wire[x, y] \in Seq(Message)
    BY DEF IInv, WireTypes
  <2>2. m \in Message /\ MsgOK(born, raced, m, x, y)
    BY <2>1, SetOfList DEF IInv, Messages
  <2>3. m.id = u /\ m.type \in {"server", "nick"}
    BY <1>3 DEF Brings
  <2>4. m.type = "nick" /\ m.nick \in Nicks
    BY <2>2, <2>3, MessageFields, Ids
  <2> QED BY <2>2, <2>3, <2>4, Ids DEF MsgOK
<1> QED BY <1>1, <1>2, <1>3

\* A client registers.
LEMMA RegisterKeeps ==
    ASSUME IInv, NEW u \in Clients, NEW login \in Logins[u], Register(u, login) PROVE IInv'
<1>1. PICK s \in Servers : s = Home[u]
  BY Ids
<1>2. PICK e : e = [id |-> u, nick |-> login.nick, ts |-> login.ts, user |-> login.user,
                    modes |-> {"i"}, from |-> s]
  OBVIOUS
<1>3. /\ born[u].nick = NoNick /\ Named(list[s], login.nick) = {}
      /\ born' = [born EXCEPT ![u] = login]
      /\ Introduce(list[s], wire, s, s, e)
      /\ UNCHANGED <<netvars, acts, killed, raced>>
  BY <1>1, <1>2 DEF Register
<1>4. login.nick \in Nicks /\ login.user \in UserHosts /\ login.ts \in 1..MaxTime
      /\ login \in [nick : Nicks, user : UserHosts, ts : 1..MaxTime]
  BY NetAssumption
<1>5. e \in Entry /\ e.id = u /\ e.nick = login.nick /\ e.ts = login.ts /\ e.user = login.user
      /\ e.from = s /\ IsClientEntry(e)
  <2>1. login.ts \in Nat /\ {"i"} \in SUBSET UModes
    BY <1>4, NetAssumption DEF UModes
  <2> QED BY <1>2, <1>4, <2>1 DEF Entry, IsClientEntry
<1>6. WireTypes /\ OtherTypes /\ Connected /\ ForCause /\ WillAgree
  BY DEF IInv
<1>7. /\ list' = [list EXCEPT ![s] = <<e>> \o list[s]]
      /\ wire' = introduce_client_globally(wire, s, s, e).wire
      /\ ubuf' \in [Servers -> (SUBSET UModes) \cup {Unset}]
  <2>1. PICK l, w, one : l = list[s] /\ w = wire /\ one = s
    OBVIOUS
  <2>2. Introduce(l, w, s, one, e)
    BY <1>3, <2>1
  <2>3. e.nick \in Nicks /\ e.user \in UserHosts
    BY <1>4, <1>5
  <2>4. Introduced(l, w, s, one, e)
    BY <1>5, <1>6, <2>2, <2>3, IntroduceIs
  <2> QED BY <2>1, <2>4 DEF Introduced
<1>8. born'[u] = login /\ \A v \in Clients : v # u => born'[v] = born[v]
  BY <1>3, <1>6 DEF OtherTypes
<1>9. HistoryGrows
  BY <1>3, <1>8 DEF HistoryGrows
<1>10. OtherTypes'
  <2>1. login \in [nick : Nicks \cup {NoNick}, ts : 0..MaxTime, user : UserHosts \cup {NoNick}]
    BY <1>4, NetAssumption
  <2>2. born' \in [Clients -> [nick : Nicks \cup {NoNick}, ts : 0..MaxTime,
                               user : UserHosts \cup {NoNick}]]
    BY <1>3, <1>6, <2>1 DEF OtherTypes
  <2>3. \A v \in Clients : born'[v].nick # NoNick => born'[v].user \in UserHosts
    BY <1>4, <1>6, <1>8 DEF OtherTypes
  <2> QED BY <1>3, <1>6, <1>7, <2>2, <2>3 DEF OtherTypes, netvars
<1>11. ForCause'
  BY <1>3, <1>6, <1>9, CauseLasts
<1>12. GoodList(conn, serv_list, born, s, list[s])
  BY ListOf
<1>13. GoodList(conn, serv_list, born', s, list[s])
  BY <1>6, <1>9, <1>12, ListLasts
<1>14. PICK m, out0 : out0 = OutTo(s, {}, m)
  OBVIOUS
<1>15. out0 \in [Links(s) -> Seq(Message)] /\ wire = Moved(s, {}, out0)
  <2>1. From(wire, s, {})
    BY <1>6, FromIs
  <2>2. PICK rd, ts \in SUBSET Links(s) : rd = {} /\ ts = {}
    OBVIOUS
  <2>3. Sends(wire, s, rd, ts, m)
    BY <1>6, <2>1, <2>2, SendIs
  <2> QED BY <1>14, <2>2, <2>3 DEF Sends
<1>16. \A d \in ToSet(list[s]) : d.id # e.id /\ d.nick # e.nick
  <2> SUFFICES ASSUME NEW d \in ToSet(list[s]) PROVE d.id # u /\ d.nick # login.nick
    BY <1>5
  <2>2. d.id # u
    BY <1>3, Unborn
  <2>3. CASE IsClientEntry(d)
    BY <1>3, <2>2, <2>3 DEF Named
  <2>4. CASE ~IsClientEntry(d)
    <3>1. d.nick = NoNick
      BY <1>12, <2>4, EntryOf
    <3> QED BY <1>4, <2>2, <3>1, Ids
  <2> QED BY <2>3, <2>4
<1>17. GoodEntry(conn, serv_list, born', s, e)
  <2>1. ServerOf(e.id) = s
    BY <1>1, <1>5, Ids
  <2>2. RightWay(conn, serv_list, s, e)
    BY <1>5, <2>1 DEF RightWay
  <2>3. Registered(born', e)
    <3>1. born'[e.id] = login
      BY <1>5, <1>8
    <3> QED BY <1>4, <1>5, <3>1, Ids DEF Registered
  <2> QED BY <2>2, <2>3 DEF GoodEntry
<1>18. Steady(born', raced') \subseteq Steady(born, raced)
  BY <1>6, <1>9, BlameLasts
<1>19. ASSUME NEW i \in Steady(born', raced'), NEW x \in Servers, NEW y \in Servers, y \in Links(x)
       PROVE  Tracks(wire[x, y], i, NickOf(born', i), y, Has(y, x, i), Told(x, y, i))
  <2>1. CASE i # u
    <3>1. NickOf(born', i) = NickOf(born, i)
      BY <1>8, <2>1 DEF NickOf
    <3> QED BY <1>6, <1>18, <1>19, <3>1 DEF WillAgree
  <2>2. CASE i = u
    <3>1. PICK w \in Seq(Message) : w = wire[x, y]
      BY <1>6 DEF WireTypes
    <3>2. \A d \in ToSet(w) : ~Brings(d, i)
      BY <1>3, <2>2, <3>1, Unborn
    <3>3. PICK n : n = NickOf(born', i)
      OBVIOUS
    <3>4. Tracks(w, i, n, y, FALSE, FALSE)
      BY <3>2, TracksUnknown
    <3>5. Has(y, x, i) = FALSE
      BY <1>3, <2>2, Unborn DEF Has, HasIn
    <3>6. Told(x, y, i) = FALSE
      BY <1>3, <2>2, Unborn DEF Told, ToldIn
    <3> QED BY <3>1, <3>3, <3>4, <3>5, <3>6
  <2> QED BY <2>1, <2>2
<1>20. Introduces(s, {}, list[s], e, out0)
  <2>1. \A y \in Links(s) : \A d \in ToSet(out0[y]) :
          d.type = "kill" /\ MsgOK(born', raced', d, s, y)
    BY <1>14, OutToSet
  <2>2. e.from = s /\ s \notin Links(s)
    BY <1>5, ListOf
  <2>3. wire' = introduce_client_globally(Moved(s, {}, out0), s, e.from, e).wire
    BY <1>7, <1>15, <2>2
  <2>4. \A i : SameOf(list[s], list[s], i)
    BY DEF SameOf
  <2>5. UNCHANGED <<conn, serv_list>>
    BY <1>3 DEF netvars
  <2> QED BY <1>4, <1>5, <1>7, <1>13, <1>15, <1>16, <1>17, <1>19, <2>1, <2>2, <2>3, <2>4, <2>5
          DEF Introduces
<1> QED BY <1>5, <1>9, <1>10, <1>11, <1>20, IntroduceKeeps

\* The client that has the nick of an introduction that arrives, unless the verdict is
\* for it, and the introduced one, unless it is for that, are to blame.
LEMMA Collision ==
    ASSUME IInv, NEW s \in Servers, NEW t \in Links(s), Arrives(s, t), Msg(s, t).type = "nick",
           NEW e \in Named(list[s], Msg(s, t).nick), NEW m, m = Msg(s, t),
           NEW v, v = Verdict(m.ts, e.ts, m.user = e.user)
    PROVE  /\ e \in ToSet(list[s]) /\ IsClientEntry(e) /\ e.nick = m.nick
           /\ v \in {"both", "replace"} => Blamed(born, raced, e.id)
           /\ v \in {"both", "ignore"} => Blamed(born, raced, m.id)
<1>1. e \in ToSet(list[s]) /\ IsClientEntry(e) /\ e.nick = m.nick
  BY DEF Named
<1>2. m \in Message /\ MsgOK(born, raced, m, t, s) /\ t \in Servers /\ t # s /\ {t, s} \in Edges
  BY Arrival
<1>3. m.id \in Clients /\ m.nick \in Nicks /\ m.ts \in Nat
  BY <1>2, MessageFields
<1>4. m.nick = born[m.id].nick /\ m.ts = born[m.id].ts /\ m.user = born[m.id].user
      /\ ServerOf(m.id) \in Away(t, s)
  BY <1>2 DEF MsgOK
<1>5. e \in Entry /\ e.nick = born[e.id].nick /\ e.ts = born[e.id].ts /\ e.user = born[e.id].user
      /\ e.id \in Clients /\ e.ts \in Nat /\ e.nick # NoNick
  <2>1. e \in Entry /\ e.nick = born[e.id].nick /\ e.ts = born[e.id].ts /\ e.user = born[e.id].user
        /\ e.nick \in Nicks
    BY <1>1, ListOf, EntryOf
  <2> QED BY <1>1, <2>1, EntryFields, Ids DEF IsClientEntry
<1>6. /\ v = "both" <=> m.ts = e.ts
      /\ v = "ignore" => IF m.user = e.user THEN e.ts >= m.ts ELSE e.ts <= m.ts
      /\ v = "replace" => IF m.user = e.user THEN m.ts >= e.ts ELSE m.ts <= e.ts
  <2>1a. PICK ts \in Nat, ts0 \in Nat : ts = m.ts /\ ts0 = e.ts
    BY <1>3, <1>5
  <2>1b. PICK user, user0 : user = m.user /\ user0 = e.user
    OBVIOUS
  <2>2. v = Verdict(ts, ts0, user = user0)
    BY <2>1a, <2>1b
  <2>3. /\ v = "both" <=> ts = ts0
        /\ v = "ignore" => IF user = user0 THEN ts0 >= ts ELSE ts0 <= ts
        /\ v = "replace" => IF user = user0 THEN ts >= ts0 ELSE ts <= ts0
    BY <2>2 DEF Verdict
  <2> QED BY <2>1a, <2>1b, <2>3
<1>7. CASE m.id # e.id
  <2>1. v \in {"both", "replace"} => Beats(born, m.id, e.id)
    <3>1. v = "both" => m.ts >= e.ts /\ m.ts <= e.ts
      BY <1>3, <1>5, <1>6
    <3> QED BY <1>1, <1>4, <1>5, <1>6, <3>1 DEF Beats
  <2>2. v \in {"both", "ignore"} => Beats(born, e.id, m.id)
    <3>1. v = "both" => e.ts >= m.ts /\ e.ts <= m.ts
      BY <1>3, <1>5, <1>6
    <3> QED BY <1>1, <1>4, <1>5, <1>6, <3>1 DEF Beats
  <2> QED BY <1>1, <1>3, <1>4, <1>5, <1>7, <2>1, <2>2 DEF Blamed
<1>8. CASE m.id = e.id
  <2>1. v = "both"
    BY <1>4, <1>5, <1>6, <1>8
  <2>2. ASSUME m.id \in Steady(born, raced) PROVE FALSE
    <3>1. Brings(m, m.id)
      BY DEF Brings
    <3>2. ~Has(s, t, m.id)
      <4>1. PICK i \in Steady(born, raced) : i = m.id
        BY <2>2
      <4>2. \E d \in BOOLEAN : Follows(m, i, NickOf(born, i), s, Has(s, t, i), d)
        BY Arrival
      <4> QED BY <3>1, <4>1, <4>2 DEF Follows
    <3>3. e.from # t
      BY <1>1, <1>8, <3>2 DEF Has, HasIn
    <3>4. RightWay(conn, serv_list, s, e)
      BY <1>1, ListOf DEF GoodList, GoodEntry
    <3>5. s \notin Away(t, s)
      BY <1>2, Ids, BehindBasics DEF Away
    <3>6. e.from # s /\ {s, e.from} \in conn /\ ServerOf(e.id) \in Away(e.from, s)
      BY <1>4, <1>8, <3>4, <3>5 DEF RightWay
    <3>7. {e.from, s} \in Edges
      <4>1. {s, e.from} \in Edges /\ {s, e.from} = {e.from, s}
        BY <3>6 DEF IInv, WireTypes
      <4> QED BY <4>1
    <3>8. Away(e.from, s) \cap Away(t, s) = {}
      BY <1>2, <3>3, <3>7, Ids, BehindApart DEF Away
    <3> QED BY <1>4, <1>8, <3>6, <3>8
  <2>3. Blamed(born, raced, m.id)
    BY <1>3, <2>2 DEF Steady
  <2> QED BY <1>1, <1>8, <2>1, <2>3
<1> QED BY <1>7, <1>8

\* A step that reads the first message from t and sends m to the links ts.
ReadSends(s, t, ts, m, out) ==
    /\ out = OutTo(s, ts, m) /\ out \in [Links(s) -> Seq(Message)]
    /\ Send(Read(s, t), s, ts, m) = Moved(s, {t}, out)
    /\ ts = {} => Read(s, t) = Moved(s, {t}, out)

\* It is one.
LEMMA ReadSendsIs ==
    ASSUME WireTypes, Connected, NEW s \in Servers, NEW t, CanRead(s, t),
           NEW ts \in SUBSET Links(s), NEW m, ts # {} => m \in Message
    PROVE  \E out : ReadSends(s, t, ts, m, out)
<1>1. PICK w, out : w = Read(s, t) /\ out = OutTo(s, ts, m)
  OBVIOUS
<1>2. PICK rd : rd = {t}
  OBVIOUS
<1>3. From(w, s, rd)
  BY <1>1, <1>2, FromIs DEF CanRead
<1>4. \A z \in rd : CanRead(s, z)
  BY <1>2
<1>5. Sends(w, s, rd, ts, m)
  BY <1>3, <1>4, SendIs
<1> QED BY <1>1, <1>2, <1>5 DEF ReadSends, Sends

\* A client is introduced.
LEMMA ReadNickKeeps ==
    ASSUME IInv, NEW s \in Servers, NEW t \in Links(s), ReadNick(s, t) PROVE IInv'
<1>1. /\ Arrives(s, t) /\ Msg(s, t).type = "nick" /\ Msg(s, t).modes # Unset
      /\ History /\ UNCHANGED <<netvars, acts, born>>
  BY DEF ReadNick, Reads
<1>2. PICK m : m = Msg(s, t)
  OBVIOUS
<1>3. PICK new : new = [id |-> m.id, nick |-> m.nick, ts |-> m.ts, user |-> m.user,
                        modes |-> m.modes, from |-> t]
  OBVIOUS
<1>4. \/ /\ Named(list[s], m.nick) = {}
         /\ Introduce(list[s], Read(s, t), s, t, new)
         /\ UNCHANGED killed
      \/ \E e \in Named(list[s], m.nick) :
           LET v == Verdict(m.ts, e.ts, m.user = e.user)
           IN  \/ /\ v = "both"
                  /\ list' = [list EXCEPT ![s] = Without(@, {e})]
                  /\ wire' = sendto_server(Read(s, t), s, s, Kill(NoNick, e.id))
                  /\ killed' = killed \cup (IF e.from = s THEN {e.id} ELSE {})
                  /\ UNCHANGED ubuf
               \/ /\ v = "ignore"
                  /\ wire' = Read(s, t)
                  /\ UNCHANGED <<list, ubuf, killed>>
               \/ /\ v = "replace"
                  /\ Introduce(Without(list[s], {e}),
                               sendto_server(Read(s, t), s, t, Kill(NoNick, e.id)), s, t, new)
                  /\ killed' = killed \cup (IF e.from = s THEN {e.id} ELSE {})
  BY <1>2, <1>3 DEF ReadNick
<1>5. /\ m \in Message /\ m.type = "nick" /\ MsgOK(born, raced, m, t, s)
      /\ CanRead(s, t) /\ m = Head(wire[t, s]) /\ t \in Servers /\ t # s
      /\ {t, s} \in Edges /\ {s, t} \in conn /\ {s, t} \in Edges
  BY <1>1, <1>2, Arrival
<1>6. m.id \in Clients /\ m.nick \in Nicks /\ m.ts \in Nat /\ m.user \in UserHosts
      /\ m.modes \in (SUBSET UModes) \cup {Unset}
  BY <1>5, MessageFields
<1>7. m.nick = born[m.id].nick /\ m.ts = born[m.id].ts /\ m.user = born[m.id].user
      /\ ServerOf(m.id) \in Away(t, s)
  BY <1>5 DEF MsgOK
<1>8. m.modes \in SUBSET UModes
  BY <1>1, <1>2, <1>6
<1>9. new \in Entry /\ LineOf(m, new) /\ new.from = t /\ IsClientEntry(new)
      /\ new.id = m.id /\ new.nick = m.nick /\ new.ts = m.ts /\ new.user = m.user
  BY <1>3, <1>5, <1>6, <1>8 DEF Entry, LineOf, IsClientEntry
<1>10. GoodEntry(conn, serv_list, born, s, new)
  <2>1. t \in ToSet(serv_list[s]) /\ s \in ToSet(serv_list[t])
    BY <1>5 DEF CanRead, Links
  <2>2. s \notin Away(t, s)
    BY <1>5, Ids, BehindBasics DEF Away
  <2>3. RightWay(conn, serv_list, s, new)
    BY <1>5, <1>7, <1>9, <2>1, <2>2 DEF RightWay
  <2>4. Registered(born, new)
    BY <1>6, <1>7, <1>9, Ids DEF Registered
  <2> QED BY <2>3, <2>4 DEF GoodEntry
<1>11. GoodList(conn, serv_list, born, s, list[s]) /\ list \in [Servers -> Seq(Entry)]
  BY ListOf DEF IInv, Lists
<1>12. raced \subseteq raced' /\ raced' \subseteq Nicks /\ acts' \in 0..MaxActs /\ killed \subseteq Clients
  BY <1>1, RacesAre DEF History
<1>13. \A u : Blamed(born, raced, u) => Blamed(born, raced', u)
  BY <1>12 DEF Blamed
<1>14. WireTypes /\ OtherTypes /\ Connected /\ WillAgree
  BY DEF IInv
<1>15. ASSUME NEW l, GoodList(conn, serv_list, born, s, l), ToSet(l) \subseteq ToSet(list[s]),
              \A d \in ToSet(l) : ~IsClientEntry(d) \/ d.nick # m.nick,
              \A i \in Steady(born, raced') : SameOf(l, list[s], i),
              NEW out0, out0 \in [Links(s) -> Seq(Message)],
              \A y \in Links(s) : \A d \in ToSet(out0[y]) :
                 d.type = "kill" /\ MsgOK(born, raced', d, s, y),
              Introduce(l, Moved(s, {t}, out0), s, t, new),
              killed' \subseteq Clients, \A u \in killed' : u \in killed \/ Blamed(born, raced', u)
       PROVE  IInv'
  <2>1. Introduced(l, Moved(s, {t}, out0), s, t, new)
    BY <1>6, <1>9, <1>14, <1>15, IntroduceIs
  <2>2. UNCHANGED <<conn, serv_list, splits>> /\ born' = born /\ acts' = acts
    BY <1>1 DEF netvars
  <2>3. HistoryGrows
    BY <1>12, <1>14, <2>2, RacesGrow
  <2>4. OtherTypes'
    BY <1>12, <1>14, <1>15, <2>1, <2>2 DEF OtherTypes, Introduced
  <2>5. ForCause'
    BY <1>14, <1>15, <2>2, <2>3, CauseLasts DEF IInv
  <2>6. \A d \in ToSet(l) : d.id # new.id /\ d.nick # new.nick
    <3>1. SUFFICES ASSUME NEW d \in ToSet(l) PROVE d.id # m.id /\ d.nick # m.nick
      BY <1>9
    <3>2. d.nick = NickOf(born, d.id) /\ (~IsClientEntry(d) => d.nick = NoNick /\ d.id \in Servers)
      BY <1>15, EntryOf
    <3>3. d.nick # m.nick
      BY <1>6, <1>15, <3>2, Ids
    <3>4. d.id # m.id
      BY <1>6, <1>7, <3>2, <3>3 DEF NickOf
    <3> QED BY <3>3, <3>4
  <2>7. Steady(born, raced') \subseteq Steady(born, raced)
    BY <2>2, <2>3, <1>14, BlameLasts
  <2>8. \A i \in Steady(born, raced') : \A x, y \in Servers : y \in Links(x) =>
          Tracks(wire[x, y], i, NickOf(born, i), y, Has(y, x, i), Told(x, y, i))
    BY <1>14, <2>7 DEF WillAgree
  <2>9. PICK rd : rd = {t}
    OBVIOUS
  <2>10. Introduces(s, rd, l, new, out0)
    <3>1. \A z \in rd : CanRead(s, z) /\ z = new.from /\ LineOf(Head(wire[z, s]), new)
      BY <1>5, <1>9, <2>9
    <3>2. (new.from \in Links(s) \/ new.from = s) /\ (new.from \in Links(s) => new.from \in rd)
      BY <1>9, <2>9
    <3>3. list' = [list EXCEPT ![s] = <<new>> \o l]
      BY <2>1 DEF Introduced
    <3>4. wire' = introduce_client_globally(Moved(s, rd, out0), s, new.from, new).wire
      BY <1>9, <2>1, <2>9 DEF Introduced
    <3>5. IsClientEntry(new) /\ new.user \in UserHosts /\ GoodEntry(conn, serv_list, born', s, new)
          /\ GoodList(conn, serv_list, born', s, l)
      BY <1>6, <1>9, <1>10, <1>15, <2>2
    <3> QED BY <1>15, <2>2, <2>6, <2>8, <3>1, <3>2, <3>3, <3>4, <3>5 DEF Introduces
  <2> QED BY <1>9, <2>3, <2>4, <2>5, <2>10, IntroduceKeeps
<1>16. CASE /\ Named(list[s], m.nick) = {}
            /\ Introduce(list[s], Read(s, t), s, t, new)
            /\ UNCHANGED killed
  <2>1. PICK l : l = list[s]
    OBVIOUS
  <2>2. GoodList(conn, serv_list, born, s, l) /\ ToSet(l) \subseteq ToSet(list[s])
    BY <1>11, <2>1
  <2>3. \A d \in ToSet(l) : ~IsClientEntry(d) \/ d.nick # m.nick
    BY <1>16, <2>1 DEF Named
  <2>4. \A i \in Steady(born, raced') : SameOf(l, list[s], i)
    BY <2>1 DEF SameOf
  <2>5. PICK d, out0 : ReadSends(s, t, {}, d, out0)
    <3>1. PICK ts \in SUBSET Links(s) : ts = {}
      OBVIOUS
    <3>2. \A d : \E out0 : ReadSends(s, t, ts, d, out0)
      BY <1>5, <1>14, <3>1, ReadSendsIs
    <3> QED BY <3>1, <3>2
  <2>6. /\ out0 \in [Links(s) -> Seq(Message)] /\ Read(s, t) = Moved(s, {t}, out0)
        /\ out0 = OutTo(s, {}, d)
    BY <2>5 DEF ReadSends
  <2>7. \A y \in Links(s) : \A c \in ToSet(out0[y]) :
          c.type = "kill" /\ MsgOK(born, raced', c, s, y)
    BY <2>6, OutToSet
  <2>8. Introduce(l, Moved(s, {t}, out0), s, t, new)
    BY <1>16, <2>1, <2>6
  <2>9. killed' \subseteq Clients /\ \A u \in killed' : u \in killed
    BY <1>12, <1>16
  <2> QED BY <1>15, <2>2, <2>3, <2>4, <2>6, <2>7, <2>8, <2>9
<1>17. ASSUME NEW e \in Named(list[s], m.nick), NEW v, v = Verdict(m.ts, e.ts, m.user = e.user)
       PROVE  /\ e \in ToSet(list[s]) /\ IsClientEntry(e) /\ e.nick = m.nick
              /\ v \in {"both", "replace"} => Blamed(born, raced', e.id)
              /\ v \in {"both", "ignore"} => Blamed(born, raced', m.id)
  <2>1. e \in Named(list[s], Msg(s, t).nick)
    BY <1>2
  <2>2. /\ e \in ToSet(list[s]) /\ IsClientEntry(e) /\ e.nick = m.nick
        /\ v \in {"both", "replace"} => Blamed(born, raced, e.id)
        /\ v \in {"both", "ignore"} => Blamed(born, raced, m.id)
    BY <1>1, <1>2, <1>17, <2>1, Collision
  <2> QED BY <1>13, <2>2
<1>18. ASSUME NEW e \in ToSet(list[s]), IsClientEntry(e), Blamed(born, raced', e.id)
       PROVE  /\ GoodList(conn, serv_list, born, s, Without(list[s], {e}))
              /\ ToSet(Without(list[s], {e})) = ToSet(list[s]) \ {e}
              /\ \A i \in Steady(born, raced') : SameOf(Without(list[s], {e}), list[s], i)
              /\ Kill(NoNick, e.id) \in Message /\ Kill(NoNick, e.id).type = "kill"
              /\ Kill(NoNick, e.id).id = e.id
  <2>1. PICK es : es = {e}
    OBVIOUS
  <2>9. PICK l : l = Without(list[s], {e})
    OBVIOUS
  <2>2. \A d \in es : d \in ToSet(list[s]) /\ IsClientEntry(d) /\ Blamed(born, raced', d.id)
    BY <1>18, <2>1
  <2>3. PICK l0, rc : l0 = list[s] /\ rc = raced'
    OBVIOUS
  <2>6. GoodList(conn, serv_list, born, s, l0)
    BY <1>11, <2>3
  <2>7. l = Without(l0, es) /\ \A d \in es : d \in ToSet(l0) /\ IsClientEntry(d) /\ Blamed(born, rc, d.id)
    BY <1>18, <2>1, <2>2, <2>3, <2>9
  <2>8. NotMissed(conn, serv_list, born, rc, s, l0, es, l)
    BY <2>6, <2>7, BlamedGone
  <2>4. /\ GoodList(conn, serv_list, born, s, l) /\ ToSet(l) = ToSet(list[s]) \ es
        /\ \A i \in Steady(born, raced') : SameOf(l, list[s], i)
    BY <2>3, <2>8 DEF NotMissed
  <2>5. /\ Kill(NoNick, e.id) \in Message /\ Kill(NoNick, e.id).type = "kill"
        /\ Kill(NoNick, e.id).id = e.id
    BY <1>18 DEF Kill, Message, IsClientEntry
  <2> QED BY <2>1, <2>4, <2>5, <2>9
<1>19. ASSUME NEW e \in Named(list[s], m.nick), "both" = Verdict(m.ts, e.ts, m.user = e.user),
              list' = [list EXCEPT ![s] = Without(@, {e})],
              wire' = sendto_server(Read(s, t), s, s, Kill(NoNick, e.id)),
              killed' = killed \cup (IF e.from = s THEN {e.id} ELSE {}), UNCHANGED ubuf
       PROVE  IInv'
  <2>1. /\ e \in ToSet(list[s]) /\ IsClientEntry(e) /\ Blamed(born, raced', e.id)
        /\ Blamed(born, raced', m.id)
    <3>1. PICK v : v = "both"
      OBVIOUS
    <3>2. v = Verdict(m.ts, e.ts, m.user = e.user)
      BY <1>19, <3>1
    <3> QED BY <1>17, <3>1, <3>2
  <2>2. PICK l : l = Without(list[s], {e})
    OBVIOUS
  <2>3. PICK kill : kill = Kill(NoNick, e.id)
    OBVIOUS
  <2>4. /\ GoodList(conn, serv_list, born, s, l)
        /\ \A i \in Steady(born, raced') : SameOf(l, list[s], i)
        /\ kill \in Message /\ kill.type = "kill" /\ kill.id = e.id
    BY <1>18, <2>1, <2>2, <2>3
  <2>5. PICK ts \in SUBSET Links(s) : ts = Links(s) \ {s}
    OBVIOUS
  <2>6. wire' = Send(Read(s, t), s, ts, kill) /\ list' = [list EXCEPT ![s] = l]
    BY <1>19, <2>2, <2>3, <2>5, Relayed
  <2>7. ASSUME NEW i \in Steady(born, raced') PROVE Learns(s, t, l, ts, kill, i)
    <3>1. i # m.id
      BY <1>6, <2>1, Ids DEF Steady
    <3>2. Silent(Msg(s, t), i) /\ Silent(kill, i)
      BY <1>2, <1>5, <2>4, <3>1, SilentIs
    <3>3. SameOf(l, list[s], i)
      BY <2>4
    <3> QED BY <3>2, <3>3, SilentLearns
  <2>8. \A y \in ts : MsgOK(born, raced', kill, s, y)
    BY <2>1, <2>4 DEF MsgOK
  <2>9. killed' \subseteq Clients /\ \A u \in killed' : u \in killed \/ Blamed(born, raced', u)
    BY <1>12, <1>19, <2>1 DEF IsClientEntry
  <2> QED BY <1>1, <1>12, <1>19, <2>4, <2>6, <2>7, <2>8, <2>9, OneRead
<1>20. ASSUME NEW e \in Named(list[s], m.nick), "ignore" = Verdict(m.ts, e.ts, m.user = e.user),
              wire' = Read(s, t), UNCHANGED <<list, ubuf, killed>>
       PROVE  IInv'
  <2>1. Blamed(born, raced', m.id)
    <3>1. PICK v : v = "ignore"
      OBVIOUS
    <3>2. v = Verdict(m.ts, e.ts, m.user = e.user)
      BY <1>20, <3>1
    <3> QED BY <1>17, <3>1, <3>2
  <2>2. PICK l, d : l = list[s]
    OBVIOUS
  <2>3. GoodList(conn, serv_list, born, s, l) /\ list' = [list EXCEPT ![s] = l]
    BY <1>11, <1>20, <2>2
  <2>4. PICK ts \in SUBSET Links(s) : ts = {}
    OBVIOUS
  <2>5. ASSUME NEW i \in Steady(born, raced') PROVE Learns(s, t, l, ts, d, i)
    <3>1. i # m.id
      BY <1>6, <2>1, Ids DEF Steady
    <3>2. Silent(Msg(s, t), i)
      BY <1>2, <1>5, <3>1, SilentIs
    <3>3. SameOf(l, list[s], i)
      BY <2>2 DEF SameOf
    <3> QED BY <2>4, <3>2, <3>3, SilentLearns
  <2>6. killed' \subseteq Clients /\ \A u \in killed' : u \in killed
    BY <1>12, <1>20
  <2> QED BY <1>1, <1>12, <1>20, <2>3, <2>4, <2>5, <2>6, OneRead
<1>21. ASSUME NEW e \in Named(list[s], m.nick), "replace" = Verdict(m.ts, e.ts, m.user = e.user),
              Introduce(Without(list[s], {e}),
                        sendto_server(Read(s, t), s, t, Kill(NoNick, e.id)), s, t, new),
              killed' = killed \cup (IF e.from = s THEN {e.id} ELSE {})
       PROVE  IInv'
  <2>1. e \in ToSet(list[s]) /\ IsClientEntry(e) /\ e.nick = m.nick /\ Blamed(born, raced', e.id)
    <3>1. PICK v : v = "replace"
      OBVIOUS
    <3>2. v = Verdict(m.ts, e.ts, m.user = e.user)
      BY <1>21, <3>1
    <3> QED BY <1>17, <3>1, <3>2
  <2>2. PICK l : l = Without(list[s], {e})
    OBVIOUS
  <2>3. PICK kill : kill = Kill(NoNick, e.id)
    OBVIOUS
  <2>4. /\ GoodList(conn, serv_list, born, s, l) /\ ToSet(l) = ToSet(list[s]) \ {e}
        /\ \A i \in Steady(born, raced') : SameOf(l, list[s], i)
        /\ kill \in Message /\ kill.type = "kill" /\ kill.id = e.id
    BY <1>18, <2>1, <2>2, <2>3
  <2>5. ASSUME NEW d \in ToSet(l), IsClientEntry(d), d.nick = m.nick PROVE FALSE
    <3>1. d \in ToSet(list[s]) /\ d # e /\ d.nick = e.nick
      BY <2>1, <2>4, <2>5
    <3> QED BY <1>11, <2>1, <3>1, EntryOf
  <2>6. PICK ts \in SUBSET Links(s) : ts = Links(s) \ {t}
    OBVIOUS
  <2>7. PICK out0 : ReadSends(s, t, ts, kill, out0)
    <3>1. ts # {} => kill \in Message
      BY <2>4
    <3> QED BY <1>5, <1>14, <3>1, ReadSendsIs
  <2>8. /\ out0 \in [Links(s) -> Seq(Message)] /\ out0 = OutTo(s, ts, kill)
        /\ sendto_server(Read(s, t), s, t, kill) = Moved(s, {t}, out0)
    <3>1. /\ out0 \in [Links(s) -> Seq(Message)] /\ out0 = OutTo(s, ts, kill)
          /\ Send(Read(s, t), s, ts, kill) = Moved(s, {t}, out0)
      BY <2>7 DEF ReadSends
    <3>2. PICK w : w = Read(s, t)
      OBVIOUS
    <3>3. sendto_server(w, s, t, kill) = Send(w, s, ts, kill)
      BY <2>6, Relayed
    <3>4. sendto_server(Read(s, t), s, t, kill) = Send(Read(s, t), s, ts, kill)
      BY <3>2, <3>3
    <3> QED BY <3>1, <3>4
  <2>9. \A y \in Links(s) : \A c \in ToSet(out0[y]) :
          c.type = "kill" /\ MsgOK(born, raced', c, s, y)
    <3>1. ASSUME NEW y \in Links(s), NEW c \in ToSet(out0[y]) PROVE c = kill
      BY <2>8, OutToSet
    <3>2. \A y : MsgOK(born, raced', kill, s, y)
      BY <2>1, <2>4 DEF MsgOK
    <3> QED BY <2>4, <3>1, <3>2
  <2>10. Introduce(l, Moved(s, {t}, out0), s, t, new)
    BY <1>21, <2>2, <2>3, <2>8
  <2>11. killed' \subseteq Clients /\ \A u \in killed' : u \in killed \/ Blamed(born, raced', u)
    BY <1>12, <1>21, <2>1 DEF IsClientEntry
  <2>12. ToSet(l) \subseteq ToSet(list[s])
    BY <2>4
  <2> QED BY <1>15, <2>4, <2>5, <2>8, <2>9, <2>10, <2>11, <2>12
<1> QED BY <1>4, <1>16, <1>19, <1>20, <1>21

---------------------------------------------------------------------------
(* Lost links.                                                             *)

\* The servers lost links, those of lost[s] at s, and the servers fresh have started again.
Loses(lost, fresh) ==
    /\ lost \in [Servers -> SUBSET Servers] /\ fresh \subseteq Servers
    /\ \A a, b \in Servers : b \in lost[a] => a \in lost[b] /\ {a, b} \in conn
    /\ \A s \in fresh : \A b \in Servers : {s, b} \in conn => b \in lost[s]
    /\ LoseLinks(lost)
    /\ list' = [s \in Servers |->
                  IF s \in fresh THEN <<ServerEntry(s, s)>>
                  ELSE Without(list[s], {e \in ToSet(list[s]) : e.from \in lost[s]})]
    /\ UNCHANGED born

\* The lines that tell of the links s has lost.
Squits(s, lost) ==
    LET gone == Without(serv_list[s], Links(s) \ lost[s])
    IN  [i \in DOMAIN gone |-> [type |-> "squit", id |-> gone[i]]]

\* What is lost is a connection between two servers.
LEMMA LostLinks ==
    ASSUME IInv, NEW lost, NEW fresh, Loses(lost, fresh), NEW a \in Servers, NEW b \in Servers
    PROVE  /\ {a, b} \in conn' <=> {a, b} \in conn /\ b \notin lost[a]
           /\ b \in lost[a] <=> a \in lost[b]
           /\ b \in lost[a] => {a, b} \in conn /\ {a, b} \in Edges /\ {b, a} \in Edges /\ a # b
           /\ b \in lost[a] => b \in Servers
<1>1. /\ b \in lost[a] <=> a \in lost[b]
      /\ b \in lost[a] => {a, b} \in conn
  BY DEF Loses
<1>2. {a, b} \in conn => {a, b} \in Edges /\ {b, a} \in Edges /\ a # b
  <2>1. {a, b} = {b, a}
    OBVIOUS
  <2>2. {a, b} \in conn => {a, b} \in Edges
    BY DEF IInv, WireTypes
  <2> QED BY <2>1, <2>2, Ids, EdgeEnds
<1>3. {a, b} \in conn' <=> {a, b} \in conn /\ \A x, y \in {a, b} : x # y => y \notin lost[x]
  <2>1. conn' = {e \in conn : \A x, y \in e : x # y => y \notin lost[x]}
    BY DEF Loses, LoseLinks
  <2> QED BY <2>1
<1> QED BY <1>1, <1>2, <1>3

\* The links that are left.
LEMMA LeftLinks ==
    ASSUME IInv, NEW lost, NEW fresh, Loses(lost, fresh), NEW s \in Servers
    PROVE  /\ serv_list'[s] \in Seq(Servers) /\ IsInjective(serv_list'[s])
           /\ ToSet(serv_list'[s]) = Links(s) \ lost[s]
           /\ Links(s)' = Links(s) \ lost[s]
<1>1. serv_list[s] \in Seq(Servers) /\ IsInjective(serv_list[s]) /\ Links(s) = ToSet(serv_list[s])
  BY DEF IInv, WireTypes, Links
<1>2. serv_list'[s] = Without(serv_list[s], lost[s])
  BY DEF Loses, LoseLinks
<1>3. PICK es : es = lost[s]
  OBVIOUS
<1>4. /\ Without(serv_list[s], es) \in Seq(Servers) /\ IsInjective(Without(serv_list[s], es))
      /\ ToSet(Without(serv_list[s], es)) = ToSet(serv_list[s]) \ es
  BY <1>1, WithoutFacts
<1> QED BY <1>1, <1>2, <1>3, <1>4 DEF Links

\* The lines say which links are lost.
LEMMA SquitsAre ==
    ASSUME IInv, NEW s \in Servers, NEW lost, NEW q, q = Squits(s, lost)
    PROVE  /\ q \in Seq(Message)
           /\ \A m \in ToSet(q) : m.type = "squit" /\ m.id \in Links(s) /\ m.id \in lost[s]
           /\ \A f \in Links(s) : f \in lost[s] => \E m \in ToSet(q) : m.type = "squit" /\ m.id = f
<1>1. serv_list[s] \in Seq(Servers) /\ Links(s) = ToSet(serv_list[s])
  BY DEF IInv, WireTypes, Links
<1>2. PICK es : es = Links(s) \ lost[s]
  OBVIOUS
<1>3. PICK gone : gone = Without(serv_list[s], es)
  OBVIOUS
<1>4. gone \in Seq(Servers) /\ ToSet(gone) = Links(s) \ es
  BY <1>1, <1>3, WithoutFacts
<1>5. q = [i \in DOMAIN gone |-> [type |-> "squit", id |-> gone[i]]]
  BY <1>2, <1>3 DEF Squits
<1>6. Len(gone) \in Nat /\ DOMAIN gone = 1..Len(gone) /\ \A i \in 1..Len(gone) : gone[i] \in Servers
  BY <1>4
<1>7. \A i \in 1..Len(gone) : [type |-> "squit", id |-> gone[i]] \in Message
  BY <1>6 DEF Message
<1>8. q \in Seq(Message)
  BY <1>5, <1>6, <1>7
<1>9. \A f : f \in ToSet(gone) <=> f \in Links(s) /\ f \in lost[s]
  BY <1>2, <1>4
<1>10. DOMAIN q = DOMAIN gone /\ \A i \in DOMAIN gone : q[i].type = "squit" /\ q[i].id = gone[i]
  BY <1>5
<1>11. \A m \in ToSet(q) : m.type = "squit" /\ m.id \in ToSet(gone)
  BY <1>10 DEF ToSet
<1>12. \A f \in ToSet(gone) : \E m \in ToSet(q) : m.type = "squit" /\ m.id = f
  BY <1>10 DEF ToSet
<1> QED BY <1>8, <1>9, <1>11, <1>12

\* What is on the wire then.
LEMMA LostWire ==
    ASSUME IInv, NEW lost, NEW fresh, Loses(lost, fresh), NEW a \in Servers, NEW b \in Servers
    PROVE  /\ wire' = [p \in Servers \X Servers |-> wire'[p]]
           /\ IF b \in Links(a)' THEN wire'[a, b] = wire[a, b] \o Squits(a, lost)
              ELSE wire'[a, b] = <<>>
<1>1. wire' = [p \in Servers \X Servers |->
                 IF p[2] \in lost[p[1]] \/ p[1] \in lost[p[2]] THEN <<>>
                 ELSE IF p[2] \in ToSet(Without(serv_list[p[1]], lost[p[1]]))
                      THEN wire[p] \o Squits(p[1], lost)
                 ELSE wire[p]]
  BY DEF Loses, LoseLinks, Squits
<1>2. serv_list'[a] = Without(serv_list[a], lost[a])
  BY DEF Loses, LoseLinks
<1>3. PICK left : left = ToSet(Without(serv_list[a], lost[a]))
  OBVIOUS
<1>4. left = Links(a) \ lost[a] /\ Links(a)' = left
  BY <1>2, <1>3, LeftLinks
<1>5. wire'[a, b] = IF b \in lost[a] \/ a \in lost[b] THEN <<>>
                    ELSE IF b \in left THEN wire[a, b] \o Squits(a, lost) ELSE wire[a, b]
  BY <1>1, <1>3
<1>6. b \notin Links(a) => wire[a, b] = <<>>
  BY DEF IInv, Connected
<1>7. b \in lost[a] <=> a \in lost[b]
  BY LostLinks
<1>8. PICK w, v : w = wire[a, b] \o Squits(a, lost) /\ v = wire[a, b]
  OBVIOUS
<1>9. IF b \in Links(a)' THEN wire'[a, b] = w ELSE wire'[a, b] = <<>>
  BY <1>4, <1>5, <1>6, <1>7, <1>8
<1> QED BY <1>1, <1>8, <1>9

\* A link that is left joins two servers that have not started again.
LEMMA LossKeepsLink ==
    ASSUME IInv, NEW lost, NEW fresh, Loses(lost, fresh), NEW a \in Servers, NEW b \in Links(a)'
    PROVE  /\ b \in Servers /\ b \in Links(a) /\ a # b /\ b \notin lost[a] /\ a \notin lost[b]
           /\ a \notin fresh /\ b \notin fresh
           /\ {a, b} \in conn /\ {a, b} \in conn' /\ {a, b} \in Edges /\ {b, a} \in Edges
<1>1. b \in Links(a) /\ b \notin lost[a]
  BY LeftLinks
<1>2. b \in Servers /\ a # b /\ {a, b} \in conn /\ {a, b} \in Edges /\ {b, a} \in Edges
  BY <1>1, LinksIs DEF IInv
<1>3. a \notin lost[b] /\ {a, b} \in conn'
  BY <1>1, <1>2, LostLinks
<1>4. {b, a} \in conn
  <2>1. {b, a} = {a, b}
    OBVIOUS
  <2> QED BY <1>2, <2>1
<1>5. a \notin fresh /\ b \notin fresh
  BY <1>1, <1>2, <1>3, <1>4 DEF Loses
<1> QED BY <1>1, <1>2, <1>3, <1>5

\* A server that has started again knows itself.
LEMMA LossFresh ==
    ASSUME IInv, NEW lost, NEW fresh, Loses(lost, fresh), NEW s \in fresh
    PROVE  GoodList(conn', serv_list', born, s, list'[s])
<1>1. s \in Servers /\ list'[s] = <<ServerEntry(s, s)>>
  BY DEF Loses
<1>2. PICK e : e = ServerEntry(s, s)
  OBVIOUS
<1>3. e \in Entry /\ e.id = s /\ e.nick = NoNick /\ e.modes = {} /\ e.from = s
  BY <1>1, <1>2, ServerEntryIs
<1>4. PICK l : l = <<e>>
  OBVIOUS
<1>5. l \in Seq(Entry) /\ IsInjective(l) /\ ToSet(l) = {e}
  BY <1>3, <1>4 DEF IsInjective, ToSet
<1>6. \A t \in Servers : {s, t} \notin conn'
  BY <1>1, LostLinks DEF Loses
<1>7. PICK cn, sl : cn = conn' /\ sl = serv_list'
  OBVIOUS
<1>8. Fixed(cn, s) \subseteq {e}
  BY <1>2, <1>6, <1>7 DEF Fixed
<1>9. GoodEntry(cn, sl, born, s, e)
  BY <1>1, <1>3, Ids DEF GoodEntry, RightWay, Registered
<1>10. Distinct({e})
  BY DEF Distinct
<1>11. GoodList(cn, sl, born, s, l)
  BY <1>5, <1>8, <1>9, <1>10 DEF GoodList
<1> QED BY <1>1, <1>2, <1>4, <1>7, <1>11

\* Another server no longer knows who came over the links it has lost.
LEMMA LossOthers ==
    ASSUME IInv, NEW lost, NEW fresh, Loses(lost, fresh), NEW s \in Servers, s \notin fresh
    PROVE  /\ GoodList(conn', serv_list', born, s, list'[s])
           /\ \A e : e \in ToSet(list'[s]) <=> e \in ToSet(list[s]) /\ e.from \notin lost[s]
<1>1. PICK es : es = {e \in ToSet(list[s]) : e.from \in lost[s]}
  OBVIOUS
<1>2. list'[s] = Without(list[s], es)
  BY <1>1 DEF Loses
<1>3. GoodList(conn, serv_list, born, s, list[s]) /\ list[s] \in Seq(Entry)
  BY ListOf
<1>4. PICK l, r, cn, sl : l = list[s] /\ r = list'[s] /\ cn = conn' /\ sl = serv_list'
  OBVIOUS
<1>5. r \in Seq(Entry) /\ IsInjective(r) /\ ToSet(r) = ToSet(l) \ es
  <2>1. l \in Seq(Entry) /\ IsInjective(l)
    BY <1>3, <1>4 DEF GoodList
  <2> QED BY <1>2, <1>4, <2>1, WithoutFacts
<1>6. \A e : e \in ToSet(r) <=> e \in ToSet(l) /\ e.from \notin lost[s]
  BY <1>1, <1>4, <1>5
<1>7. Distinct(ToSet(r))
  BY <1>3, <1>4, <1>6 DEF GoodList, Distinct
<1>8. Fixed(cn, s) \subseteq ToSet(r)
  <2>1. SUFFICES ASSUME NEW t \in Servers, t = s \/ {s, t} \in cn PROVE ServerEntry(t, t) \in ToSet(r)
    BY DEF Fixed
  <2>2. t \notin lost[s]
    BY <1>4, <2>1, LostLinks
  <2>3. t = s \/ {s, t} \in conn
    BY <1>4, <2>1, LostLinks
  <2>4. ServerEntry(t, t) \in ToSet(l)
    BY <1>3, <1>4, <2>3 DEF GoodList, Fixed
  <2>5. ServerEntry(t, t).from = t
    BY ServerEntryIs
  <2> QED BY <1>6, <2>2, <2>4, <2>5
<1>9. ASSUME NEW e \in ToSet(r) PROVE GoodEntry(cn, sl, born, s, e)
  <2>1. e \in ToSet(l) /\ e.from \notin lost[s]
    BY <1>6
  <2>2. GoodEntry(conn, serv_list, born, s, e) /\ e \in Entry
    BY <1>3, <1>4, <2>1 DEF GoodList, ToSet
  <2>3. e.from \in Servers
    BY <2>2, EntryFields
  <2>4. PICK f : f = e.from
    OBVIOUS
  <2>5. {s, f} \in conn => {s, f} \in cn
    BY <1>4, <2>1, <2>3, <2>4, LostLinks
  <2>6. /\ f \notin ToSet(sl[s]) => f \notin ToSet(serv_list[s])
        /\ s \notin ToSet(sl[f]) => s \notin ToSet(serv_list[f])
    <3>1. s \notin lost[f] /\ f \notin lost[s] /\ f \in Servers
      BY <2>1, <2>3, <2>4, LostLinks
    <3>2. ToSet(serv_list'[s]) = Links(s) \ lost[s] /\ ToSet(serv_list'[f]) = Links(f) \ lost[f]
      BY <3>1, LeftLinks
    <3> QED BY <1>4, <3>1, <3>2 DEF Links
  <2>7. RightWay(conn, serv_list, s, e) /\ Registered(born, e)
    BY <2>2 DEF GoodEntry
  <2>8. RightWay(cn, sl, s, e)
    BY <2>4, <2>5, <2>6, <2>7 DEF RightWay
  <2> QED BY <2>7, <2>8 DEF GoodEntry
<1>10. GoodList(cn, sl, born, s, r)
  BY <1>5, <1>7, <1>8, <1>9 DEF GoodList
<1> QED BY <1>4, <1>6, <1>10

\* The lists stay good.
LEMMA LossLists ==
    ASSUME IInv, NEW lost, NEW fresh, Loses(lost, fresh)
    PROVE  Lists'
<1>1. ASSUME NEW s \in Servers PROVE GoodList(conn', serv_list', born, s, list'[s])
  BY LossFresh, LossOthers
<1>2. list' = [s \in Servers |-> list'[s]] /\ born' = born
  BY DEF Loses
<1>3. PICK v, cn, sl : v = list' /\ cn = conn' /\ sl = serv_list'
  OBVIOUS
<1>4. \A s \in Servers : GoodList(cn, sl, born, s, v[s]) /\ v[s] \in Seq(Entry)
  BY <1>1, <1>3 DEF GoodList
<1>5. v = [s \in Servers |-> v[s]]
  BY <1>2, <1>3
<1>6. v \in [Servers -> Seq(Entry)]
  BY <1>4, <1>5
<1> QED BY <1>2, <1>3, <1>4, <1>6 DEF Lists

\* The wire and the links stay as they must be.
LEMMA LossTypes ==
    ASSUME IInv, NEW lost, NEW fresh, Loses(lost, fresh)
    PROVE  WireTypes' /\ Connected'
<1>1. conn' \subseteq Edges
  <2>1. conn' \subseteq conn
    BY DEF Loses, LoseLinks
  <2> QED BY <2>1 DEF IInv, WireTypes
<1>2. PICK sl, v : sl = serv_list' /\ v = wire'
  OBVIOUS
<1>3. sl \in [Servers -> Seq(Servers)] /\ \A s \in Servers : IsInjective(sl[s])
  <2>1. \A s \in Servers : sl[s] \in Seq(Servers) /\ IsInjective(sl[s])
    BY <1>2, LeftLinks
  <2>2. sl = [s \in Servers |-> sl[s]]
    BY <1>2 DEF Loses, LoseLinks
  <2> QED BY <2>1, <2>2
<1>4. ASSUME NEW a \in Servers, NEW b \in Servers PROVE v[a, b] \in Seq(Message)
  <2>1. PICK q, w : q = Squits(a, lost) /\ w = wire[a, b]
    OBVIOUS
  <2>2. q \in Seq(Message) /\ w \in Seq(Message)
    BY <2>1, SquitsAre DEF IInv, WireTypes
  <2>3. v[a, b] = w \o q \/ v[a, b] = <<>>
    BY <1>2, <2>1, LostWire
  <2>4. w \o q \in Seq(Message) /\ <<>> \in Seq(Message)
    BY <2>2, ListsFrom
  <2> QED BY <2>3, <2>4
<1>5. ASSUME NEW p \in Servers \X Servers PROVE v[p] \in Seq(Message)
  <2>1. PICK a \in Servers, b \in Servers : p = <<a, b>>
    BY PairIs
  <2> QED BY <1>4, <2>1
<1>6. v = [p \in Servers \X Servers |-> v[p]]
  BY <1>2 DEF Loses, LoseLinks
<1>7. v \in [Servers \X Servers -> Seq(Message)]
  BY <1>5, <1>6
<1>8. WireTypes'
  BY <1>1, <1>2, <1>3, <1>7 DEF WireTypes
<1>9. ASSUME NEW a \in Servers, NEW b \in Servers
      PROVE  IF b \in Links(a)' THEN {a, b} \in conn' ELSE v[a, b] = <<>>
  BY <1>2, LostWire, LossKeepsLink
<1>10. Connected'
  BY <1>2, <1>9 DEF Connected
<1> QED BY <1>8, <1>10

\* Seen from b, the part of the network that begins with f is beyond a.
Beyond(a, b, f) ==
    /\ f \in Servers /\ f # b /\ f # a /\ {f, a} \in Edges
    /\ Dependents(b, f) = Away(f, a)
    /\ f \in Away(a, b)

\* A link that is left, and one that is lost.
LEMMA LostBehind ==
    ASSUME IInv, NEW lost, NEW fresh, Loses(lost, fresh), NEW a \in Servers, NEW b \in Links(a)',
           NEW f \in Links(a), f \in lost[a]
    PROVE  Beyond(a, b, f)
<1>1. /\ b \in Servers /\ b \notin lost[a] /\ {a, b} \in Edges /\ a # b
  BY LossKeepsLink
<1>2. f \in Servers /\ {a, f} \in Edges /\ f # a
  BY LinksIs DEF IInv
<1>3. f # b /\ {f, a} = {a, f}
  BY <1>1
<1>4. Dependents(b, f) = Away(f, a)
  BY <1>1, <1>2, <1>3, DependentsNear
<1>5. Away(f, a) \subseteq Away(a, b)
  BY <1>1, <1>2, <1>3, Ids, BehindGrows DEF Away
<1>6. f \in Away(f, a)
  BY <1>2, <1>3, Ids, BehindBasics DEF Away
<1> QED BY <1>2, <1>3, <1>4, <1>5, <1>6 DEF Beyond

\* What is said of them is true.
LEMMA LossMessages ==
    ASSUME IInv, NEW lost, NEW fresh, Loses(lost, fresh), HistoryGrows
    PROVE  Messages'
<1>1. SUFFICES ASSUME NEW a \in Servers, NEW b \in Servers, NEW m \in ToSet(wire'[a, b])
               PROVE  MsgOK(born', raced', m, a, b)
  BY DEF Messages
<1>2. PICK w, q, v : w = wire[a, b] /\ q = Squits(a, lost) /\ v = wire'[a, b]
  OBVIOUS
<1>3. w \in Seq(Message) /\ q \in Seq(Message)
  BY <1>2, SquitsAre DEF IInv, WireTypes
<1>4. IF b \in Links(a)' THEN v = w \o q ELSE v = <<>>
  BY <1>2, LostWire
<1>5. ToSet(w \o q) = ToSet(w) \cup ToSet(q) /\ ToSet(<<>>) = {}
  <2>1. ToSet(w \o q) = ToSet(w) \cup ToSet(q)
    BY <1>3, SetOfList
  <2>2. ToSet(<<>>) = {}
    BY NoElements
  <2> QED BY <2>1, <2>2
<1>6. b \in Links(a)' /\ (m \in ToSet(w) \/ m \in ToSet(q))
  BY <1>1, <1>2, <1>4, <1>5
<1>7. CASE m \in ToSet(w)
  <2>1. m \in Message /\ MsgOK(born, raced, m, a, b)
    BY <1>2, <1>3, <1>7, SetOfList DEF IInv, Messages
  <2>2. OtherTypes
    BY DEF IInv
  <2> QED BY <2>1, <2>2, MessageLasts
<1>8. CASE m \in ToSet(q)
  <2>1. m.type = "squit" /\ m.id \in Links(a) /\ m.id \in lost[a]
    BY <1>2, <1>8, SquitsAre
  <2>2. m.id \in Away(a, b) /\ m.id # a
    BY <1>6, <2>1, LostBehind DEF Beyond
  <2> QED BY <2>1, <2>2 DEF MsgOK
<1> QED BY <1>6, <1>7, <1>8

\* What a server has told over a link that is left: nothing of what is gone, and
\* the same of the others.
LEMMA LossTold ==
    ASSUME IInv, NEW lost, NEW fresh, Loses(lost, fresh), NEW a \in Servers, NEW b \in Links(a)',
           NEW i
    PROVE  /\ HasIn(list'[b], a, i) = HasIn(list[b], a, i)
           /\ (\E f \in Links(a) : f \in lost[a] /\ ServerOf(i) \in Away(f, a))
                => ~ToldIn(list'[a], Around(a)', b, i)
           /\ ~(\E f \in Links(a) : f \in lost[a] /\ ServerOf(i) \in Away(f, a))
                => ToldIn(list'[a], Around(a)', b, i) = ToldIn(list[a], Around(a), b, i)
<1>1. /\ b \in Servers /\ b \in Links(a) /\ a # b /\ a \notin lost[b]
      /\ a \notin fresh /\ b \notin fresh /\ {a, b} \in Edges
  BY LossKeepsLink
<1>2. PICK l, r, k, h : l = list[a] /\ r = list'[a] /\ k = Around(a) /\ h = Around(a)'
  OBVIOUS
<1>3. \A e : e \in ToSet(r) <=> e \in ToSet(l) /\ e.from \notin lost[a]
  BY <1>1, <1>2, LossOthers
<1>4. \A f : (f \in h <=> f = a \/ (f \in Links(a) /\ f \notin lost[a])) /\ (f \in k <=> f = a \/ f \in Links(a))
  BY <1>2, LeftLinks DEF Around
<1>5. a \notin lost[a]
  BY LostLinks
<1>6. \A e \in ToSet(l) : /\ e.from = a <=> ServerOf(e.id) = a
                          /\ e.from # a => ServerOf(e.id) \in Away(e.from, a)
  BY <1>2, ListOf DEF GoodList, GoodEntry, RightWay
<1>7. HasIn(list'[b], a, i) = HasIn(list[b], a, i)
  <2>1. \A e : e \in ToSet(list'[b]) <=> e \in ToSet(list[b]) /\ e.from \notin lost[b]
    BY <1>1, LossOthers
  <2>2. PICK u, v : u = list'[b] /\ v = list[b]
    OBVIOUS
  <2>3. HasIn(u, a, i) = HasIn(v, a, i)
    BY <1>1, <2>1, <2>2 DEF HasIn
  <2> QED BY <2>2, <2>3
<1>8. ASSUME NEW f \in Links(a), f \in lost[a], ServerOf(i) \in Away(f, a)
      PROVE  ~ToldIn(r, h, b, i)
  <2>1. SUFFICES ASSUME NEW e \in ToSet(r), e.id = i, e.from \in h PROVE FALSE
    BY DEF ToldIn
  <2>2. e \in ToSet(l) /\ e.from \notin lost[a] /\ (e.from = a \/ e.from \in Links(a))
    BY <1>3, <1>4, <2>1
  <2>3. {f, a} \in Edges /\ a \notin Away(f, a)
    <3>1. {f, a} \in Edges
      BY <1>8, LostBehind DEF Beyond
    <3> QED BY <3>1, Ids, BehindBasics DEF Away
  <2>4. e.from # a
    BY <1>6, <1>8, <2>1, <2>2, <2>3
  <2>5. PICK z \in Links(a) : z = e.from
    BY <2>2, <2>4
  <2>6. z # f /\ ServerOf(i) \in Away(z, a) /\ {z, a} \in Edges
    <3>1. {z, a} \in Edges
      BY ListOf
    <3> QED BY <1>6, <1>8, <2>1, <2>2, <2>4, <2>5, <3>1
  <2>7. Away(z, a) \cap Away(f, a) = {}
    BY <2>3, <2>6, Ids, BehindApart DEF Away
  <2> QED BY <1>8, <2>6, <2>7
<1>9. ASSUME ~(\E f \in Links(a) : f \in lost[a] /\ ServerOf(i) \in Away(f, a))
      PROVE  ToldIn(r, h, b, i) = ToldIn(l, k, b, i)
  <2>1. ASSUME ToldIn(r, h, b, i) PROVE ToldIn(l, k, b, i)
    BY <1>3, <1>4, <2>1 DEF ToldIn
  <2>2. ASSUME ToldIn(l, k, b, i) PROVE ToldIn(r, h, b, i)
    <3>1. PICK e \in ToSet(l) : e.id = i /\ e.from # b /\ e.from \in k
      BY <2>2 DEF ToldIn
    <3>2. e.from \notin lost[a]
      <4>1. CASE e.from = a
        BY <1>5, <4>1
      <4>2. CASE e.from # a
        BY <1>4, <1>6, <1>9, <3>1, <4>2
      <4> QED BY <4>1, <4>2
    <3>3. e \in ToSet(r) /\ e.from \in h
      BY <1>3, <1>4, <3>1, <3>2
    <3> QED BY <3>1, <3>3 DEF ToldIn
  <2>3. ToldIn(r, h, b, i) \in BOOLEAN /\ ToldIn(l, k, b, i) \in BOOLEAN
    BY DEF ToldIn
  <2> QED BY <2>1, <2>2, <2>3
<1> QED BY <1>2, <1>7, <1>8, <1>9

\* The links that are left still agree.
LEMMA LossAgrees ==
    ASSUME IInv, NEW lost, NEW fresh, Loses(lost, fresh), HistoryGrows
    PROVE  WillAgree'
<1>1. SUFFICES ASSUME NEW a \in Servers, NEW b \in Links(a)', NEW i \in Steady(born, raced')
               PROVE  Tracks(wire'[a, b], i, NickOf(born, i), b, HasIn(list'[b], a, i),
                             ToldIn(list'[a], Around(a)', b, i))
  <2>1. born' = born
    BY DEF Loses
  <2> QED BY <2>1 DEF WillAgree, Has, Told
<1>2. i \in Steady(born, raced)
  <2>1. born' = born
    BY DEF Loses
  <2>2. Steady(born', raced') \subseteq Steady(born, raced)
    BY BlameLasts DEF IInv
  <2> QED BY <2>1, <2>2
<1>3. b \in Servers /\ b \in Links(a)
  BY LossKeepsLink
<1>4. PICK w, q, n, has, told : /\ w = wire[a, b] /\ q = Squits(a, lost) /\ n = NickOf(born, i)
                                /\ has = HasIn(list[b], a, i) /\ told = ToldIn(list[a], Around(a), b, i)
  OBVIOUS
<1>5. Tracks(w, i, n, b, has, told)
  BY <1>2, <1>3, <1>4 DEF IInv, WillAgree, Has, Told
<1>6. w \in Seq(Message) /\ q \in Seq(Message)
  BY <1>3, <1>4, SquitsAre DEF IInv, WireTypes
<1>7. wire'[a, b] = w \o q
  BY <1>1, <1>3, <1>4, LostWire
<1>8. told \in BOOLEAN
  BY <1>4 DEF ToldIn
<1>9. HasIn(list'[b], a, i) = has
  BY <1>1, <1>4, LossTold
<1>10. PICK u : u = ToldIn(list'[a], Around(a)', b, i)
  OBVIOUS
<1>11. u \in BOOLEAN
  BY <1>10 DEF ToldIn
<1>16. q = Squits(a, lost)
  BY <1>4
<1>12. \A m \in ToSet(q) : m.type = "squit" /\ m.id \in Links(a) /\ m.id \in lost[a] /\ ~Brings(m, i)
  <2>1. \A m \in ToSet(q) : m.type = "squit" /\ m.id \in Links(a) /\ m.id \in lost[a]
    BY <1>16, SquitsAre
  <2> QED BY <2>1 DEF Brings
<1>13. ASSUME NEW f \in Links(a), f \in lost[a] PROVE Dependents(b, f) = Away(f, a)
  <2>1. Beyond(a, b, f)
    BY <1>13, LostBehind
  <2> QED BY <2>1 DEF Beyond
<1>14. CASE \E f \in Links(a) : f \in lost[a] /\ ServerOf(i) \in Away(f, a)
  <2>1. u = FALSE
    BY <1>10, <1>11, <1>14, LossTold
  <2>2. PICK f \in Links(a) : f \in lost[a] /\ ServerOf(i) \in Away(f, a)
    BY <1>14
  <2>3. PICK m \in ToSet(q) : m.type = "squit" /\ m.id = f
    BY <1>16, <2>2, SquitsAre
  <2>4. Removes(m, i, n, b)
    BY <1>13, <2>2, <2>3 DEF Removes
  <2>5. \A c \in ToSet(q) : ~Brings(c, i)
    BY <1>12
  <2>6. Tracks(q, i, n, b, told, FALSE)
    BY <1>6, <1>8, <2>4, <2>5, TracksRemoved
  <2> QED BY <1>4, <1>5, <1>6, <1>7, <1>9, <1>10, <2>1, <2>6, TracksMore
<1>15. CASE ~(\E f \in Links(a) : f \in lost[a] /\ ServerOf(i) \in Away(f, a))
  <2>1. u = told
    BY <1>4, <1>10, <1>15, LossTold
  <2>2. \A m \in ToSet(q) : ~Removes(m, i, n, b)
    BY <1>12, <1>13, <1>15 DEF Removes
  <2>3. Neutral(q, i, n, b)
    BY <1>12, <2>2 DEF Neutral
  <2>4. Tracks(q, i, n, b, told, told)
    BY <1>6, <1>8, <2>3, TracksNeutral
  <2> QED BY <1>4, <1>5, <1>6, <1>7, <1>9, <1>10, <2>1, <2>4, TracksMore
<1> QED BY <1>14, <1>15

\* The invariant survives the loss of links.
LEMMA LossKeeps ==
    ASSUME IInv, NEW lost, NEW fresh, Loses(lost, fresh), OtherTypes', raced \subseteq raced',
           killed' = killed
    PROVE  IInv'
<1>1. HistoryGrows
  BY RacesGrow DEF Loses, IInv
<1>2. ForCause'
  BY <1>1, CauseLasts DEF IInv
<1> QED BY <1>1, <1>2, LossTypes, LossLists, LossMessages, LossAgrees DEF IInv

\* A link is lost.
LEMMA SplitKeeps == ASSUME IInv, NEW x \in Servers, NEW y \in Servers, Split(x, y) PROVE IInv'
<1>1. PICK lost : lost = [s \in Servers |-> IF s = x THEN {y} ELSE IF s = y THEN {x} ELSE {}]
  OBVIOUS
<1>2. /\ {x, y} \in conn /\ splits < MaxSplits /\ splits' = splits + 1
      /\ LoseLinks(lost)
      /\ list' = [s \in Servers |-> Without(list[s], {e \in ToSet(list[s]) : e.from \in lost[s]})]
      /\ raced' = raced \cup Races /\ UNCHANGED <<ubuf, acts, born, killed>>
  BY <1>1 DEF Split, History
<1>3. x # y /\ {y, x} = {x, y}
  <2>1. {x, y} \in Edges
    BY <1>2 DEF IInv, WireTypes
  <2> QED BY <2>1, Ids, EdgeEnds
<1>4. lost \in [Servers -> SUBSET Servers]
  BY <1>1
<1>5. \A a, b \in Servers : b \in lost[a] <=> (a = x /\ b = y) \/ (a = y /\ b = x)
  BY <1>1, <1>3
<1>6. \A a, b \in Servers : b \in lost[a] => a \in lost[b] /\ {a, b} \in conn
  BY <1>2, <1>3, <1>5
<1>7. PICK fresh : fresh = {}
  OBVIOUS
<1>8. list' = [s \in Servers |->
                 IF s \in fresh THEN <<ServerEntry(s, s)>>
                 ELSE Without(list[s], {e \in ToSet(list[s]) : e.from \in lost[s]})]
  BY <1>2, <1>7
<1>9. Loses(lost, fresh)
  BY <1>2, <1>4, <1>6, <1>7, <1>8 DEF Loses
<1>10. splits' \in 0..MaxSplits
  BY <1>2, NetAssumption DEF IInv, OtherTypes
<1>11. OtherTypes'
  BY <1>2, <1>10, RacesAre DEF IInv, OtherTypes
<1> QED BY <1>2, <1>9, <1>11, LossKeeps

\* A server dies and starts again.
LEMMA RestartKeeps ==
    ASSUME IInv, NEW x \in Servers, Restart(x), splits' = splits
    PROVE  IInv'
<1>1. PICK peers : peers = {y \in Servers : {x, y} \in conn}
  OBVIOUS
<1>2. PICK lost : lost = [s \in Servers |-> IF s = x THEN peers ELSE IF s \in peers THEN {x} ELSE {}]
  OBVIOUS
<1>3. /\ LoseLinks(lost)
      /\ list' = [s \in Servers |->
                    IF s = x THEN <<ServerEntry(x, x)>>
                    ELSE Without(list[s], {e \in ToSet(list[s]) : e.from \in lost[s]})]
      /\ ubuf' = [ubuf EXCEPT ![x] = Unset]
      /\ raced' = raced \cup Races /\ UNCHANGED <<acts, born, killed>>
  BY <1>1, <1>2 DEF Restart, History
<1>4. \A y \in peers : y \in Servers /\ y # x /\ {x, y} \in conn /\ {y, x} \in conn
  <2>1. ASSUME NEW y \in Servers, {x, y} \in conn PROVE y # x /\ {y, x} \in conn
    <3>1. {x, y} \in Edges /\ {y, x} = {x, y}
      BY <2>1 DEF IInv, WireTypes
    <3> QED BY <2>1, <3>1, Ids, EdgeEnds
  <2> QED BY <1>1, <2>1
<1>5. lost \in [Servers -> SUBSET Servers]
  BY <1>1, <1>2
<1>6. \A a, b \in Servers : b \in lost[a] <=> (a = x /\ b \in peers) \/ (a \in peers /\ b = x)
  BY <1>2, <1>4
<1>7. \A a, b \in Servers : b \in lost[a] => a \in lost[b] /\ {a, b} \in conn
  BY <1>4, <1>6
<1>8. PICK fresh : fresh = {x}
  OBVIOUS
<1>9. list' = [s \in Servers |->
                 IF s \in fresh THEN <<ServerEntry(s, s)>>
                 ELSE Without(list[s], {e \in ToSet(list[s]) : e.from \in lost[s]})]
  <2>1. PICK l : \A s \in Servers : l[s] = Without(list[s], {e \in ToSet(list[s]) : e.from \in lost[s]})
    <3>1. \E l : l = [s \in Servers |-> Without(list[s], {e \in ToSet(list[s]) : e.from \in lost[s]})]
      OBVIOUS
    <3> QED BY <3>1
  <2>2. list' = [s \in Servers |-> IF s = x THEN <<ServerEntry(x, x)>> ELSE l[s]]
    BY <1>3, <2>1
  <2>3. list' = [s \in Servers |-> IF s \in fresh THEN <<ServerEntry(s, s)>> ELSE l[s]]
    BY <1>8, <2>2
  <2> QED BY <2>1, <2>3
<1>10. \A s \in fresh : \A b \in Servers : {s, b} \in conn => b \in lost[s]
  BY <1>1, <1>6, <1>8
<1>11. Loses(lost, fresh)
  BY <1>3, <1>5, <1>7, <1>8, <1>9, <1>10 DEF Loses
<1>12. OtherTypes'
  BY <1>3, RacesAre DEF IInv, OtherTypes
<1> QED BY <1>3, <1>11, <1>12, LossKeeps

\* It may die when it introduces its clients, or on a line that is short.
LEMMA DiesKeeps ==
    ASSUME IInv, NEW x \in Servers, NEW y, BurstDies(x, y) \/ ReadShortNick(x, y)
    PROVE  IInv'
<1>1. Restart(x) /\ splits' = splits
  BY DEF BurstDies, ReadShortNick
<1> QED BY <1>1, RestartKeeps

---------------------------------------------------------------------------
(* New links.                                                              *)

\* The list of a server that makes a connection.
LEMMA ConnectList ==
    ASSUME IInv, NEW s \in Servers, NEW z \in Servers, {s, z} \in Edges, {s, z} \notin conn,
           NEW cn, cn = conn \cup {{s, z}}, NEW r, r = <<ServerEntry(z, z)>> \o list[s]
    PROVE  /\ GoodList(cn, serv_list, born, s, r)
           /\ ToSet(r) = ToSet(list[s]) \cup {ServerEntry(z, z)}
<1>1. PICK l, e : l = list[s] /\ e = ServerEntry(z, z)
  OBVIOUS
<1>2. e \in Entry /\ e.id = z /\ e.nick = NoNick /\ e.modes = {} /\ e.from = z
  BY <1>1, ServerEntryIs
<1>3. GoodList(conn, serv_list, born, s, l) /\ l \in Seq(Entry)
  BY <1>1, ListOf
<1>4. s # z /\ {z, s} \in Edges
  <2>1. {z, s} = {s, z}
    OBVIOUS
  <2> QED BY <2>1, Ids, EdgeEnds
<1>5. z \in Away(z, s)
  BY <1>4, Ids, BehindBasics DEF Away
<1>6. ASSUME NEW d \in ToSet(l), d.id = z PROVE FALSE
  <2>1. RightWay(conn, serv_list, s, d)
    BY <1>3 DEF GoodList, GoodEntry
  <2>2. PICK f : f = d.from
    OBVIOUS
  <2>3. f # s /\ {s, f} \in conn /\ z \in Away(f, s)
    BY <1>4, <1>6, <2>1, <2>2, Ids DEF RightWay
  <2>4. f # z /\ {f, s} \in Edges
    <3>1. {s, f} \in Edges /\ {f, s} = {s, f}
      BY <2>3 DEF IInv, WireTypes
    <3> QED BY <2>3, <3>1
  <2>5. Away(f, s) \cap Away(z, s) = {}
    BY <1>4, <2>4, Ids, BehindApart DEF Away
  <2> QED BY <1>5, <2>3, <2>5
<1>7. l \in Seq(Entry) /\ IsInjective(l) /\ e \notin ToSet(l)
  BY <1>2, <1>3, <1>6 DEF GoodList
<1>8. r \in Seq(Entry) /\ IsInjective(r) /\ ToSet(r) = ToSet(l) \cup {e}
  BY <1>1, <1>2, <1>7, InFront
<1>9. Distinct(ToSet(r))
  <2>1. ASSUME NEW d \in ToSet(l), d.nick = e.nick PROVE ~IsClientEntry(d) /\ ~IsClientEntry(e)
    BY <1>2, <1>3, <2>1, Ids, EntryOf DEF IsClientEntry
  <2> QED BY <1>2, <1>3, <1>6, <1>8, <2>1 DEF GoodList, Distinct
<1>10. Fixed(cn, s) \subseteq ToSet(r)
  <2>1. SUFFICES ASSUME NEW t \in Servers, t = s \/ {s, t} \in cn PROVE ServerEntry(t, t) \in ToSet(r)
    BY DEF Fixed
  <2>2. CASE {s, t} = {s, z}
    <3>1. t = z
      BY <1>4, <2>2
    <3> QED BY <1>1, <1>8, <3>1
  <2>3. CASE {s, t} # {s, z}
    <3>1. t = s \/ {s, t} \in conn
      BY <2>1, <2>3
    <3> QED BY <1>3, <1>8, <3>1 DEF GoodList, Fixed
  <2> QED BY <2>2, <2>3
<1>11. ASSUME NEW d \in ToSet(l) PROVE GoodEntry(cn, serv_list, born, s, d)
  <2>1. GoodEntry(conn, serv_list, born, s, d)
    BY <1>3 DEF GoodList
  <2>2. \A f : {s, f} \in conn => {s, f} \in cn
    OBVIOUS
  <2> QED BY <2>1, <2>2 DEF GoodEntry, RightWay
<1>12. GoodEntry(cn, serv_list, born, s, e)
  BY <1>2, <1>4, <1>5, Ids DEF GoodEntry, RightWay, Registered
<1>13. GoodList(cn, serv_list, born, s, r)
  BY <1>8, <1>9, <1>10, <1>11, <1>12 DEF GoodList
<1> QED BY <1>1, <1>8, <1>13

\* The list of another server.
LEMMA ConnectOther ==
    ASSUME IInv, NEW s \in Servers, NEW x, NEW y, s # x, s # y,
           NEW cn, cn = conn \cup {{x, y}}
    PROVE  GoodList(cn, serv_list, born, s, list[s])
<1>1. PICK l : l = list[s]
  OBVIOUS
<1>2. GoodList(conn, serv_list, born, s, l)
  BY <1>1, ListOf
<1>3. \A f : {s, f} \in conn <=> {s, f} \in cn
  OBVIOUS
<1>4. Fixed(cn, s) = Fixed(conn, s)
  BY <1>3 DEF Fixed
<1>5. \A d : GoodEntry(conn, serv_list, born, s, d) => GoodEntry(cn, serv_list, born, s, d)
  BY <1>3 DEF GoodEntry, RightWay
<1> QED BY <1>1, <1>2, <1>4, <1>5 DEF GoodList

\* Two servers make a connection.
LEMMA ConnectKeeps == ASSUME IInv, NEW x \in Servers, NEW y \in Servers, Connect(x, y) PROVE IInv'
<1>1. /\ {x, y} \in Edges /\ {x, y} \notin conn /\ conn' = conn \cup {{x, y}}
      /\ UNCHANGED <<serv_list, wire, ubuf, splits, acts, born, killed, raced>>
  BY DEF Connect
<1>2. x # y /\ {y, x} = {x, y}
  BY <1>1, Ids, EdgeEnds
<1>3. list \in [Servers -> Seq(Entry)]
  BY DEF IInv, Lists
<1>4. PICK l, a, b : l = list /\ a = <<ServerEntry(y, y)>> \o list[x]
                     /\ b = <<ServerEntry(x, x)>> \o list[y]
  OBVIOUS
<1>5. list' = [list EXCEPT ![x] = a, ![y] = b]
  BY <1>2, <1>4 DEF Connect
<1>6. list' = [s \in Servers |-> IF s = x THEN a ELSE IF s = y THEN b ELSE list[s]]
  BY <1>2, <1>3, <1>5
<1>7. PICK v, cn : v = list' /\ cn = conn'
  OBVIOUS
<1>8. \A s \in Servers : v[s] = IF s = x THEN a ELSE IF s = y THEN b ELSE list[s]
  BY <1>6, <1>7
<1>9. /\ GoodList(cn, serv_list, born, x, a) /\ ToSet(a) = ToSet(list[x]) \cup {ServerEntry(y, y)}
      /\ GoodList(cn, serv_list, born, y, b) /\ ToSet(b) = ToSet(list[y]) \cup {ServerEntry(x, x)}
  <2>1. GoodList(cn, serv_list, born, x, a) /\ ToSet(a) = ToSet(list[x]) \cup {ServerEntry(y, y)}
    BY <1>1, <1>4, <1>7, ConnectList
  <2>2. GoodList(cn, serv_list, born, y, b) /\ ToSet(b) = ToSet(list[y]) \cup {ServerEntry(x, x)}
    BY <1>1, <1>2, <1>4, <1>7, ConnectList
  <2> QED BY <2>1, <2>2
<1>10. ASSUME NEW s \in Servers PROVE GoodList(cn, serv_list, born, s, v[s])
  <2>1. s # x /\ s # y => GoodList(cn, serv_list, born, s, list[s])
    BY <1>1, <1>7, ConnectOther
  <2> QED BY <1>8, <1>9, <2>1
<1>11. Lists'
  <2>1. \A s \in Servers : v[s] \in Seq(Entry)
    BY <1>10 DEF GoodList
  <2>2. v = [s \in Servers |-> v[s]]
    BY <1>6, <1>7
  <2>3. v \in [Servers -> Seq(Entry)]
    BY <2>1, <2>2
  <2> QED BY <1>1, <1>7, <1>10, <2>3 DEF Lists
<1>12. ASSUME NEW s \in Servers, NEW e \in ToSet(v[s]), e \notin ToSet(list[s])
       PROVE  e.from # s /\ e.from \notin Links(s) /\ s \notin Links(e.from)
  <2>1. PICK z \in Servers : e = ServerEntry(z, z) /\ {s, z} = {x, y} /\ s # z
    BY <1>2, <1>8, <1>9, <1>12
  <2>2. e.from = z /\ {s, z} \notin conn /\ {z, s} \notin conn
    <3>1. {z, s} = {s, z}
      OBVIOUS
    <3> QED BY <1>1, <2>1, <3>1, ServerEntryIs
  <2> QED BY <2>1, <2>2 DEF IInv, Connected
<1>13. \A s \in Servers : ToSet(list[s]) \subseteq ToSet(v[s])
  BY <1>8, <1>9
<1>14. ASSUME NEW f \in Servers, NEW t \in Links(f), NEW i
       PROVE  /\ HasIn(v[t], f, i) = Has(t, f, i)
              /\ ToldIn(v[f], Around(f), t, i) = Told(f, t, i)
  <2>1. t \in Servers
    BY ListOf
  <2>2. HasIn(v[t], f, i) <=> HasIn(list[t], f, i)
    BY <1>12, <1>13, <2>1 DEF HasIn
  <2>3. ToldIn(v[f], Around(f), t, i) <=> ToldIn(list[f], Around(f), t, i)
    <3>1. \A e \in ToSet(v[f]) : e.from \in Around(f) => e \in ToSet(list[f])
      BY <1>12 DEF Around
    <3> QED BY <1>13, <3>1 DEF ToldIn
  <2>4. /\ HasIn(v[t], f, i) \in BOOLEAN /\ HasIn(list[t], f, i) \in BOOLEAN
        /\ ToldIn(v[f], Around(f), t, i) \in BOOLEAN /\ ToldIn(list[f], Around(f), t, i) \in BOOLEAN
    BY DEF HasIn, ToldIn
  <2> QED BY <2>2, <2>3, <2>4 DEF Has, Told
<1>15. \A s : Links(s)' = Links(s) /\ Around(s)' = Around(s)
  BY <1>1 DEF Links, Around
<1>16. WillAgree'
  <2>1. SUFFICES ASSUME NEW f \in Servers, NEW t \in Links(f), NEW i \in Steady(born, raced)
                 PROVE  Tracks(wire[f, t], i, NickOf(born, i), t, HasIn(v[t], f, i),
                               ToldIn(v[f], Around(f), t, i))
    BY <1>1, <1>7, <1>15 DEF WillAgree, Has, Told
  <2>2. t \in Servers
    BY ListOf
  <2>3. Tracks(wire[f, t], i, NickOf(born, i), t, Has(t, f, i), Told(f, t, i))
    BY <2>2 DEF IInv, WillAgree
  <2> QED BY <1>14, <2>3
<1>17. WireTypes' /\ Connected'
  BY <1>1, <1>15 DEF IInv, WireTypes, Connected
<1>18. OtherTypes' /\ Messages' /\ ForCause'
  BY <1>1 DEF IInv, OtherTypes, Messages, ForCause
<1> QED BY <1>11, <1>16, <1>17, <1>18 DEF IInv

---------------------------------------------------------------------------
(* The burst.                                                              *)

\* A list backwards.
LEMMA ReverseIs ==
    ASSUME NEW S, NEW l \in Seq(S), NEW r, r = Reverse(l)
    PROVE  /\ r \in Seq(S) /\ ToSet(r) = ToSet(l)
           /\ IsInjective(l) => IsInjective(r)
<1>1. PICK n \in Nat : n = Len(l)
  OBVIOUS
<1>2. DOMAIN l = 1..n /\ r = [k \in 1..n |-> l[(n - k) + 1]]
  BY <1>1 DEF Reverse
<1>3. \A k \in 1..n : (n - k) + 1 \in 1..n /\ l[k] \in S
  BY <1>1
<1>4. r \in Seq(S) /\ DOMAIN r = 1..n /\ \A k \in 1..n : r[k] = l[(n - k) + 1]
  BY <1>1, <1>2, <1>3
<1>5. ToSet(r) \subseteq ToSet(l)
  BY <1>2, <1>3, <1>4 DEF ToSet
<1>6. ASSUME NEW k \in 1..n PROVE l[k] \in ToSet(r)
  <2>1. PICK j : j = (n - k) + 1
    OBVIOUS
  <2>2. j \in 1..n /\ (n - j) + 1 = k
    BY <1>1, <2>1
  <2>3. r[j] = l[k]
    BY <1>4, <2>2
  <2> QED BY <1>4, <2>2, <2>3 DEF ToSet
<1>7. ToSet(l) \subseteq ToSet(r)
  BY <1>2, <1>6 DEF ToSet
<1>8. ASSUME IsInjective(l), NEW j \in 1..n, NEW k \in 1..n, r[j] = r[k] PROVE j = k
  <2>1. l[(n - j) + 1] = l[(n - k) + 1]
    BY <1>4, <1>8
  <2>2. (n - j) + 1 = (n - k) + 1
    BY <1>2, <1>3, <1>8, <2>1 DEF IsInjective
  <2> QED BY <1>1, <2>2
<1> QED BY <1>4, <1>5, <1>7, <1>8 DEF IsInjective

\* The lines introduce, each another one.
Introductions(w) ==
    /\ w \in Seq(Message) /\ IsInjective(w)
    /\ \A m \in ToSet(w) : m.type \in {"server", "nick"}
    /\ \A m, d \in ToSet(w) : m.id = d.id => m = d

\* They tell of whom they name.
LEMMA BringsAll ==
    ASSUME NEW w, Introductions(w), NEW i, NEW n, NEW y, NEW b \in BOOLEAN, NEW c \in BOOLEAN,
           c <=> b \/ \E m \in ToSet(w) : m.id = i,
           b => \A m \in ToSet(w) : m.id # i
    PROVE  Tracks(w, i, n, y, b, c)
<1>1. /\ w \in Seq(Message) /\ IsInjective(w)
      /\ \A m \in ToSet(w) : ~Removes(m, i, n, y) /\ (Brings(m, i) <=> m.id = i)
  BY DEF Introductions, Removes, Brings
<1>2. CASE \E m \in ToSet(w) : m.id = i
  <2>1. PICK a \in ToSet(w) : a.id = i
    BY <1>2
  <2>2. b = FALSE /\ c = TRUE
    BY <2>1
  <2>3. Brings(a, i) /\ \A m \in ToSet(w) : (Brings(m, i) => m = a) /\ ~Removes(m, i, n, y)
    BY <1>1, <2>1 DEF Introductions
  <2>4. Tracks(w, i, n, y, FALSE, TRUE)
    BY <1>1, <2>3, TracksBrought
  <2> QED BY <2>2, <2>4
<1>3. CASE ~\E m \in ToSet(w) : m.id = i
  <2>1. c = b
    BY <1>3
  <2>2. Neutral(w, i, n, y)
    BY <1>1, <1>3 DEF Neutral
  <2>3. Tracks(w, i, n, y, b, b)
    BY <1>1, <2>2, TracksNeutral
  <2> QED BY <2>1, <2>3
<1> QED BY <1>2, <1>3

\* The servers of which the other one is told, and the lines.
ServersTold(l, x, y) ==
    Without(Reverse(l), {e \in ToSet(l) : IsClientEntry(e) \/ e.from \in {x, y}})
LinesOf(v) == [i \in DOMAIN v |-> [type |-> "server", id |-> v[i].id]]

\* The lines that introduce the servers.
LEMMA ServerLines ==
    ASSUME NEW l \in Seq(Entry), IsInjective(l), Distinct(ToSet(l)), NEW x, NEW y,
           NEW v, v = ServersTold(l, x, y), NEW r, r = LinesOf(v)
    PROVE  /\ Introductions(r)
           /\ \A m \in ToSet(r) : m.type = "server" /\ \E e \in ToSet(l) :
                  ~IsClientEntry(e) /\ e.from # x /\ e.from # y /\ m.id = e.id
           /\ \A e \in ToSet(l) : ~IsClientEntry(e) /\ e.from # x /\ e.from # y
                                    => \E m \in ToSet(r) : m.id = e.id
<1>1. PICK u, es : u = Reverse(l) /\ es = {e \in ToSet(l) : IsClientEntry(e) \/ e.from \in {x, y}}
  OBVIOUS
<1>2. u \in Seq(Entry) /\ IsInjective(u) /\ ToSet(u) = ToSet(l)
  BY <1>1, ReverseIs
<1>3. v \in Seq(Entry) /\ IsInjective(v) /\ ToSet(v) = ToSet(l) \ es
  <2>1. v = Without(u, es)
    BY <1>1 DEF ServersTold
  <2> QED BY <1>2, <2>1, WithoutFacts
<1>4. \A e : e \in ToSet(v) <=> e \in ToSet(l) /\ ~IsClientEntry(e) /\ e.from # x /\ e.from # y
  BY <1>1, <1>3
<1>5. PICK n \in Nat : n = Len(v)
  BY <1>3
<1>6. DOMAIN v = 1..n /\ \A k \in 1..n : v[k] \in ToSet(v) /\ v[k] \in Entry
  BY <1>3, <1>5 DEF ToSet
<1>7. \A k \in 1..n : v[k].id \in Servers
  <2>1. ASSUME NEW k \in 1..n PROVE v[k].id \in Servers
    <3>1. v[k] \in Entry /\ ~IsClientEntry(v[k])
      BY <1>4, <1>6
    <3> QED BY <3>1, EntryFields DEF IsClientEntry
  <2> QED BY <2>1
<1>8. r = [k \in 1..n |-> [type |-> "server", id |-> v[k].id]]
  BY <1>6 DEF LinesOf
<1>9. \A k \in 1..n : [type |-> "server", id |-> v[k].id] \in Message
  BY <1>7 DEF Message
<1>10. r \in Seq(Message)
  BY <1>8, <1>9
<1>11. DOMAIN r = 1..n /\ \A k \in 1..n : r[k].type = "server" /\ r[k].id = v[k].id
  BY <1>8
<1>12. \A j, k \in 1..n : v[j].id = v[k].id => j = k
  <2>1. \A j, k \in 1..n : v[j].id = v[k].id => v[j] = v[k]
    BY <1>4, <1>6 DEF Distinct
  <2> QED BY <1>3, <1>6, <2>1 DEF IsInjective
<1>13. IsInjective(r)
  BY <1>11, <1>12 DEF IsInjective
<1>14. \A m, d \in ToSet(r) : m.id = d.id => m = d
  <2>1. SUFFICES ASSUME NEW j \in 1..n, NEW k \in 1..n, r[j].id = r[k].id PROVE r[j] = r[k]
    BY <1>11 DEF ToSet
  <2>2. j = k
    BY <1>11, <1>12, <2>1
  <2> QED BY <2>2
<1>15. ASSUME NEW m \in ToSet(r)
       PROVE  m.type = "server" /\ \E e \in ToSet(l) :
                ~IsClientEntry(e) /\ e.from # x /\ e.from # y /\ m.id = e.id
  <2>1. PICK k \in 1..n : m = r[k]
    BY <1>11 DEF ToSet
  <2>2. v[k] \in ToSet(l) /\ ~IsClientEntry(v[k]) /\ v[k].from # x /\ v[k].from # y
    BY <1>4, <1>6
  <2> QED BY <1>11, <2>1, <2>2
<1>16. ASSUME NEW e \in ToSet(l), ~IsClientEntry(e), e.from # x, e.from # y
       PROVE  \E m \in ToSet(r) : m.id = e.id
  <2>1. e \in ToSet(v)
    BY <1>4, <1>16
  <2>2. PICK k \in 1..n : e = v[k]
    BY <1>6, <2>1 DEF ToSet
  <2>3. r[k] \in ToSet(r)
    BY <1>11 DEF ToSet
  <2> QED BY <1>11, <2>2, <2>3
<1> QED BY <1>10, <1>13, <1>14, <1>15, <1>16 DEF Introductions

\* Where a server introduces its clients to another: everybody it knows is its own,
\* came over an established link, or is the other one.
BurstPlace(x, y, l) ==
    /\ x # y /\ {x, y} \in Edges /\ {y, x} \in Edges /\ wire[x, y] = <<>>
    /\ l \in Seq(Entry) /\ IsInjective(l) /\ Distinct(ToSet(l))
    /\ \A e \in ToSet(l) : /\ e.from \in Around(x) \cup {y}
                           /\ e.from = y <=> e.id = y
                           /\ e.from # x => {e.from, x} \in Edges /\ ServerOf(e.id) \in Away(e.from, x)
                           /\ e.from = x <=> ServerOf(e.id) = x
    /\ \E e \in ToSet(l) : e.id = y
    /\ \E e \in ToSet(l) : e.id = x
    /\ \A i : Has(y, x, i) <=> i = x

\* That is so.
LEMMA BurstPlaceIs ==
    ASSUME IInv, NEW x \in Servers, NEW y \in Servers, {x, y} \in conn, y \notin Links(x),
           HalfOpen(x) = {y}, NEW l, l = list[x]
    PROVE  BurstPlace(x, y, l)
<1>1. {x, y} \in Edges /\ {y, x} = {x, y} /\ x # y /\ wire[x, y] = <<>>
  <2>1. {x, y} \in Edges /\ {y, x} = {x, y} /\ wire[x, y] = <<>>
    BY DEF IInv, WireTypes, Connected
  <2> QED BY <2>1, Ids, EdgeEnds
<1>2. GoodList(conn, serv_list, born, x, l) /\ GoodList(conn, serv_list, born, y, list[y])
  BY ListOf
<1>3. l \in Seq(Entry) /\ IsInjective(l) /\ Distinct(ToSet(l))
  BY <1>2 DEF GoodList
<1>4. \A z \in Servers : {x, z} \in conn => z \in Links(x) \/ z = y
  BY DEF HalfOpen
<1>5. /\ ServerEntry(y, y) \in ToSet(l) /\ ServerEntry(x, x) \in ToSet(l)
      /\ ServerEntry(x, x) \in ToSet(list[y])
  BY <1>1, <1>2 DEF GoodList, Fixed
<1>6. /\ ServerEntry(y, y).id = y /\ ServerEntry(y, y).from = y
      /\ ServerEntry(x, x).id = x /\ ServerEntry(x, x).from = x
  BY ServerEntryIs
<1>7. ASSUME NEW e \in ToSet(l)
      PROVE  /\ e.from \in Around(x) \cup {y}
             /\ e.from = y <=> e.id = y
             /\ e.from # x => {e.from, x} \in Edges /\ ServerOf(e.id) \in Away(e.from, x)
             /\ e.from = x <=> ServerOf(e.id) = x
  <2>1. RightWay(conn, serv_list, x, e)
    BY <1>2 DEF GoodList, GoodEntry
  <2>2. PICK f \in Servers : f = e.from
    <3>1. e \in Entry
      BY <1>3 DEF ToSet
    <3> QED BY <3>1, EntryFields
  <2>3. f = x \/ f \in Links(x) \/ f = y
    BY <1>4, <2>1, <2>2 DEF RightWay
  <2>4. f = y => e.id = y
    BY <1>1, <2>1, <2>2 DEF RightWay, Links
  <2>5. e.id = y => f = y
    BY <1>3, <1>5, <1>6, <2>2 DEF Distinct
  <2>6. f # x => {f, x} \in Edges /\ ServerOf(e.id) \in Away(f, x)
    <3>1. f # x => {x, f} \in conn /\ ServerOf(e.id) \in Away(f, x)
      BY <2>1, <2>2 DEF RightWay
    <3>2. {x, f} = {f, x}
      OBVIOUS
    <3> QED BY <3>1, <3>2 DEF IInv, WireTypes
  <2>7. f = x <=> ServerOf(e.id) = x
    BY <2>1, <2>2 DEF RightWay
  <2> QED BY <2>2, <2>3, <2>4, <2>5, <2>6, <2>7 DEF Around
<1>8. ASSUME NEW i PROVE Has(y, x, i) <=> i = x
  <2>1. ASSUME NEW e \in ToSet(list[y]), e.from = x PROVE e.id = x
    <3>1. RightWay(conn, serv_list, y, e)
      BY <1>2 DEF GoodList, GoodEntry
    <3> QED BY <1>1, <2>1, <3>1 DEF RightWay, Links
  <2> QED BY <1>5, <1>6, <2>1 DEF Has, HasIn
<1>9. (\E e \in ToSet(l) : e.id = y) /\ (\E e \in ToSet(l) : e.id = x)
  BY <1>5, <1>6
<1> QED BY <1>1, <1>3, <1>7, <1>8, <1>9 DEF BurstPlace

\* What a link is sent so that the other server knows what it is told of: lines that
\* are true, and that take it from b to c.
Teaches(v, x, y, i, b, c) ==
    /\ v \in Seq(Message)
    /\ \A m \in ToSet(v) : MsgOK(born, raced, m, x, y)
    /\ Tracks(v, i, NickOf(born, i), y, b, c)

\* What has been told once the other one is a link too.
ToldNow(x, y, z, i) == ToldIn(list[x], Around(x) \cup {y}, z, i)

\* The other server is told of everybody.
LEMMA BurstToNew ==
    ASSUME IInv, NEW x \in Servers, NEW y \in Servers, BurstPlace(x, y, list[x]),
           NEW u, u = LinesOf(ServersTold(list[x], x, y)),
           NEW w, w = ts_burst_client(list[x], ubuf[x]),
           NEW i \in Servers \cup Clients
    PROVE  Teaches(u \o w, x, y, i, Has(y, x, i), ToldNow(x, y, y, i))
<1>1. PICK l : l = list[x]
  OBVIOUS
<1>2. GoodList(conn, serv_list, born, x, l) /\ BurstPlace(x, y, l)
  BY <1>1, ListOf
<1>3. l \in Seq(Entry) /\ IsInjective(l) /\ Distinct(ToSet(l)) /\ x # y
      /\ {x, y} \in Edges
  BY <1>2 DEF BurstPlace
<1>4. /\ Introductions(u)
      /\ \A m \in ToSet(u) : m.type = "server" /\ \E e \in ToSet(l) :
             ~IsClientEntry(e) /\ e.from # x /\ e.from # y /\ m.id = e.id
      /\ \A e \in ToSet(l) : ~IsClientEntry(e) /\ e.from # x /\ e.from # y
                               => \E m \in ToSet(u) : m.id = e.id
  <2>1. PICK v : v = ServersTold(l, x, y)
    OBVIOUS
  <2>2. u = LinesOf(v)
    BY <1>1, <2>1
  <2> QED BY <1>3, <2>1, <2>2, ServerLines
<1>5. \A e \in ToSet(l) : IsClientEntry(e) =>
         /\ e.nick \in Nicks /\ e.user \in UserHosts
         /\ e.nick = born[e.id].nick /\ e.ts = born[e.id].ts /\ e.user = born[e.id].user
  <2>1. SUFFICES ASSUME NEW e \in ToSet(l), IsClientEntry(e)
                 PROVE  /\ e.nick \in Nicks /\ e.user \in UserHosts
                        /\ e.nick = born[e.id].nick /\ e.ts = born[e.id].ts
                        /\ e.user = born[e.id].user
    OBVIOUS
  <2>2. /\ e.nick \in Nicks /\ e.nick = born[e.id].nick /\ e.ts = born[e.id].ts
        /\ e.user = born[e.id].user
    BY <1>2, <2>1, EntryOf
  <2>3. e.id \in Clients /\ born[e.id].nick # NoNick
    BY <2>1, <2>2, Ids DEF IsClientEntry
  <2> QED BY <2>2, <2>3 DEF IInv, OtherTypes
<1>6. /\ w \in Seq(Message) /\ IsInjective(w)
      /\ \A m \in ToSet(w) : \E e \in ToSet(l) : IsClientEntry(e) /\ LineOf(m, e)
      /\ \A e \in ToSet(l) : IsClientEntry(e) => \E m \in ToSet(w) : LineOf(m, e)
      /\ \A m, d \in ToSet(w) : m.id = d.id => m = d
  <2>1. \A j, k \in DOMAIN l : l[j].id = l[k].id => j = k
    <3>1. \A j, k \in DOMAIN l : l[j].id = l[k].id => l[j] = l[k]
      BY <1>3 DEF Distinct, ToSet
    <3> QED BY <1>3, <3>1 DEF IsInjective
  <2>2. \A e \in ToSet(l) : IsClientEntry(e) => e.nick \in Nicks /\ e.user \in UserHosts
    BY <1>5
  <2>3. PICK buf : buf = ubuf[x]
    OBVIOUS
  <2>4. buf \in (SUBSET UModes) \cup {Unset}
    BY <2>3 DEF IInv, OtherTypes
  <2>5. w = ts_burst_client(l, buf)
    BY <1>1, <2>3
  <2> QED BY <1>3, <2>1, <2>2, <2>4, <2>5, NickLines
<1>7. Introductions(w)
  BY <1>6 DEF Introductions, LineOf
<1>8. u \in Seq(Message) /\ u \o w \in Seq(Message) /\ ToSet(u \o w) = ToSet(u) \cup ToSet(w)
  <2>1. u \in Seq(Message)
    BY <1>4 DEF Introductions
  <2> QED BY <1>6, <2>1, SetOfList
<1>9. ASSUME NEW e \in ToSet(l), e.from # y PROVE ServerOf(e.id) \in Away(x, y)
  <2>1. CASE e.from = x
    <3>1. x \in Away(x, y)
      BY <1>3, Ids, BehindBasics DEF Away
    <3> QED BY <1>2, <2>1, <3>1 DEF BurstPlace
  <2>2. CASE e.from # x
    <3>1. PICK f : f = e.from
      OBVIOUS
    <3>2. {f, x} \in Edges /\ ServerOf(e.id) \in Away(f, x) /\ f # y
      BY <1>2, <1>9, <2>2, <3>1 DEF BurstPlace
    <3>3. Away(f, x) \subseteq Away(x, y)
      BY <1>3, <3>2, Ids, BehindGrows DEF Away
    <3> QED BY <3>2, <3>3
  <2> QED BY <2>1, <2>2
<1>10. \A e \in ToSet(l) : IsClientEntry(e) => e.from # y
  BY <1>2, Ids DEF BurstPlace, IsClientEntry
<1>11. ASSUME NEW m \in ToSet(u \o w) PROVE MsgOK(born, raced, m, x, y)
  <2>1. CASE m \in ToSet(u)
    <3>1. PICK e \in ToSet(l) : m.type = "server" /\ e.from # y /\ m.id = e.id
      BY <1>4, <2>1
    <3> QED BY <1>9, <3>1 DEF MsgOK
  <2>2. CASE m \in ToSet(w)
    <3>1. PICK e \in ToSet(l) : IsClientEntry(e) /\ LineOf(m, e)
      BY <1>6, <2>2
    <3>2. ServerOf(m.id) \in Away(x, y)
      BY <1>9, <1>10, <3>1 DEF LineOf
    <3> QED BY <1>5, <3>1, <3>2 DEF MsgOK, LineOf
  <2> QED BY <1>8, <1>11, <2>1, <2>2
<1>12. PICK n, a, b, c : /\ n = NickOf(born, i) /\ a = Has(y, x, i)
                         /\ b = (i = x \/ \E m \in ToSet(u) : m.id = i)
                         /\ c = ToldNow(x, y, y, i)
  OBVIOUS
<1>13. a \in BOOLEAN /\ b \in BOOLEAN /\ c \in BOOLEAN
  BY <1>12 DEF Has, HasIn, ToldNow, ToldIn
<1>14. a <=> i = x
  <2>1. \A j : Has(y, x, j) <=> j = x
    BY <1>2 DEF BurstPlace
  <2>2. a = Has(y, x, i)
    BY <1>12
  <2> QED BY <2>1, <2>2
<1>15. c <=> \E e \in ToSet(l) : e.id = i /\ e.from # y
  <2>1. c <=> \E e \in ToSet(l) : e.id = i /\ e.from # y /\ e.from \in Around(x) \cup {y}
    BY <1>1, <1>12 DEF ToldNow, ToldIn
  <2>2. \A e \in ToSet(l) : e.from \in Around(x) \cup {y}
    BY <1>2 DEF BurstPlace
  <2> QED BY <2>1, <2>2
<1>16. b <=> a \/ \E m \in ToSet(u) : m.id = i
  BY <1>12, <1>14
<1>17. \A m \in ToSet(u) : m.id # x /\ m.id \notin Clients
  <2>1. SUFFICES ASSUME NEW e \in ToSet(l), ~IsClientEntry(e), e.from # x
                 PROVE  e.id # x /\ e.id \notin Clients
    BY <1>4
  <2>2. e.from = x <=> ServerOf(e.id) = x
    BY <1>2 DEF BurstPlace
  <2> QED BY <2>1, <2>2, Ids DEF IsClientEntry
<1>18. \A m \in ToSet(w) : m.id \in Clients
  BY <1>6 DEF LineOf, IsClientEntry
<1>19. Tracks(u, i, n, y, a, b)
  <2>1. a => \A m \in ToSet(u) : m.id # i
    BY <1>14, <1>17
  <2> QED BY <1>4, <1>13, <1>16, <2>1, BringsAll
<1>20. ASSUME NEW m \in ToSet(w), m.id = i PROVE ~b /\ c
  <2>1. i \in Clients /\ i # x
    BY <1>18, <1>20, Ids
  <2>2. ~b
    BY <1>14, <1>16, <1>17, <2>1
  <2>3. PICK e \in ToSet(l) : IsClientEntry(e) /\ LineOf(m, e)
    BY <1>6
  <2> QED BY <1>10, <1>15, <1>20, <2>2, <2>3 DEF LineOf
<1>21. ASSUME b PROVE c
  <2>1. CASE i = x
    BY <1>2, <1>3, <1>15, <2>1 DEF BurstPlace
  <2>2. CASE i # x
    <3>1. PICK m \in ToSet(u) : m.id = i
      BY <1>14, <1>16, <1>21, <2>2
    <3> QED BY <1>4, <1>15, <3>1
  <2> QED BY <2>1, <2>2
<1>22. ASSUME c PROVE b \/ \E m \in ToSet(w) : m.id = i
  <2>1. PICK e \in ToSet(l) : e.id = i /\ e.from # y
    BY <1>15, <1>22
  <2>2. CASE IsClientEntry(e)
    BY <1>6, <2>1, <2>2 DEF LineOf
  <2>3. CASE ~IsClientEntry(e) /\ e.from # x
    BY <1>4, <1>16, <2>1, <2>3
  <2>4. CASE ~IsClientEntry(e) /\ e.from = x
    <3>1. ServerOf(e.id) = x
      BY <1>2, <2>4 DEF BurstPlace
    <3>2. e.id = x
      BY <2>4, <3>1 DEF ServerOf, IsClientEntry
    <3> QED BY <1>14, <1>16, <2>1, <3>2
  <2> QED BY <2>2, <2>3, <2>4
<1>23. Tracks(w, i, n, y, b, c)
  <2>1. b => \A m \in ToSet(w) : m.id # i
    BY <1>20
  <2>2. c <=> b \/ \E m \in ToSet(w) : m.id = i
    BY <1>20, <1>21, <1>22
  <2> QED BY <1>7, <1>13, <2>1, <2>2, BringsAll
<1>24. Tracks(u \o w, i, n, y, a, c)
  BY <1>6, <1>8, <1>19, <1>23, TracksMore
<1> QED BY <1>8, <1>11, <1>12, <1>24 DEF Teaches

\* The others are told of it.
LEMMA BurstToOld ==
    ASSUME IInv, NEW x \in Servers, NEW y \in Servers, BurstPlace(x, y, list[x]), y \notin Links(x),
           NEW z \in Links(x), NEW w, w = send_umode_out(list[x]),
           NEW m, m = [type |-> "server", id |-> y], NEW i \in Servers \cup Clients
    PROVE  Teaches(<<m>> \o w, x, z, i, Told(x, z, i), ToldNow(x, y, z, i))
<1>1. PICK l : l = list[x]
  OBVIOUS
<1>2. GoodList(conn, serv_list, born, x, l) /\ BurstPlace(x, y, l)
  BY <1>1, ListOf
<1>3. /\ l \in Seq(Entry) /\ Distinct(ToSet(l)) /\ x # y /\ {y, x} \in Edges
      /\ \A e \in ToSet(l) : e.from = y <=> e.id = y
      /\ \E e \in ToSet(l) : e.id = y
  BY <1>2 DEF BurstPlace
<1>4. m \in Message /\ m.type = "server" /\ m.id = y
  BY DEF Message
<1>5. z \in Servers /\ z # y /\ {x, z} \in Edges
  BY LinksIs DEF IInv
<1>6. w \in Seq(Message) /\ \A c \in ToSet(w) : c.type = "mode"
  <2>1. \A e \in ToSet(l) : e.modes # {} => e.nick \in Nicks
    BY <1>2, EntryOf
  <2> QED BY <1>1, <1>3, <2>1, UmodeLines
<1>7. PICK v : v = <<m>>
  OBVIOUS
<1>8. v \in Seq(Message) /\ ToSet(v) = {m}
  BY <1>4, <1>7 DEF ToSet
<1>9. v \o w \in Seq(Message) /\ ToSet(v \o w) = {m} \cup ToSet(w)
  BY <1>6, <1>8, SetOfList
<1>10. MsgOK(born, raced, m, x, z)
  <2>1. y \in Away(y, x)
    BY <1>3, Ids, BehindBasics DEF Away
  <2>2. Away(y, x) \subseteq Away(x, z)
    BY <1>3, <1>5, Ids, BehindGrows DEF Away
  <2>3. ServerOf(m.id) \in Away(x, z)
    BY <1>4, <2>1, <2>2, Ids
  <2> QED BY <1>4, <2>3 DEF MsgOK
<1>11. \A c \in ToSet(w) : MsgOK(born, raced, c, x, z)
  BY <1>6 DEF MsgOK
<1>12. PICK n, a, b : n = NickOf(born, i) /\ a = Told(x, z, i) /\ b = ToldNow(x, y, z, i)
  OBVIOUS
<1>13. a \in BOOLEAN /\ b \in BOOLEAN
  BY <1>12 DEF Told, ToldNow, ToldIn
<1>14. /\ a <=> \E e \in ToSet(l) : e.id = i /\ e.from # z /\ e.from \in Around(x)
       /\ b <=> \E e \in ToSet(l) : e.id = i /\ e.from # z /\ e.from \in Around(x) \cup {y}
  BY <1>1, <1>12 DEF Told, ToldNow, ToldIn
<1>15. y \notin Around(x)
  BY <1>3 DEF Around
<1>16. Follows(m, i, n, z, a, b)
  <2>1. CASE i = y
    <3>1. ~a /\ b
      BY <1>3, <1>5, <1>14, <1>15, <2>1
    <3> QED BY <1>4, <2>1, <3>1 DEF Follows, Brings
  <2>2. CASE i # y
    <3>1. \A e \in ToSet(l) : e.id = i => e.from # y
      BY <1>3, <2>2
    <3>2. a <=> b
      BY <1>14, <3>1
    <3>3. a = b
      BY <1>13, <3>2
    <3> QED BY <1>4, <2>2, <3>3 DEF Follows, Brings, Removes
  <2> QED BY <2>1, <2>2
<1>17. Tracks(v, i, n, z, a, b)
  BY <1>4, <1>7, <1>13, <1>16, TracksOne
<1>18. Tracks(w, i, n, z, b, b)
  BY <1>6, <1>13, ModesNeutral
<1>19. Tracks(v \o w, i, n, z, a, b)
  BY <1>6, <1>8, <1>17, <1>18, TracksMore
<1> QED BY <1>7, <1>9, <1>10, <1>11, <1>12, <1>19 DEF Teaches

\* What a burst does.
Bursts(x, y, toy, too) ==
    /\ {x, y} \in conn /\ y \notin Links(x)
    /\ serv_list' = [serv_list EXCEPT ![x] = <<y>> \o @]
    /\ wire' = [p \in Servers \X Servers |->
                  IF p[1] = x THEN wire[p] \o (IF p[2] = y THEN toy
                                               ELSE IF p[2] \in Links(x) THEN too ELSE <<>>)
                  ELSE wire[p]]
    /\ ubuf' = [ubuf EXCEPT ![x] = list[x][Len(list[x])].modes]
    /\ UNCHANGED <<conn, list, splits, acts, born, killed, raced>>

\* The lines that it sends.
LEMMA BurstIs ==
    ASSUME IInv, NEW x \in Servers, NEW y \in Servers, Burst(x, y)
    PROVE  \E toy, too :
             /\ Bursts(x, y, toy, too) /\ BurstPlace(x, y, list[x])
             /\ toy = LinesOf(ServersTold(list[x], x, y)) \o ts_burst_client(list[x], ubuf[x])
             /\ too = <<[type |-> "server", id |-> y]>> \o send_umode_out(list[x])
<1>1. PICK l : l = list[x]
  OBVIOUS
<1>2. PICK toy, too : /\ toy = LinesOf(ServersTold(l, x, y)) \o ts_burst_client(l, ubuf[x])
                      /\ too = <<[type |-> "server", id |-> y]>> \o send_umode_out(l)
  OBVIOUS
<1>3. {x, y} \in conn /\ y \notin Links(x) /\ HalfOpen(x) = {y}
  BY DEF Burst
<1>4. BurstPlace(x, y, list[x])
  BY <1>3, BurstPlaceIs
<1>5. ServerEntry(y, y).id = y
  BY ServerEntryIs
<1>6. wire' = [p \in Servers \X Servers |->
                 IF p[1] = x
                 THEN wire[p] \o (CASE p[2] = y -> toy [] p[2] \in Links(x) -> too [] OTHER -> <<>>)
                 ELSE wire[p]]
  BY <1>1, <1>2, <1>5 DEF Burst, LinesOf, ServersTold
<1>7. \A z : (CASE z = y -> toy [] z \in Links(x) -> too [] OTHER -> <<>>)
              = IF z = y THEN toy ELSE IF z \in Links(x) THEN too ELSE <<>>
  BY <1>3
<1>8. wire' = [p \in Servers \X Servers |->
                 IF p[1] = x THEN wire[p] \o (IF p[2] = y THEN toy
                                              ELSE IF p[2] \in Links(x) THEN too ELSE <<>>)
                 ELSE wire[p]]
  BY <1>6, <1>7
<1>9. /\ serv_list' = [serv_list EXCEPT ![x] = <<y>> \o @]
      /\ ubuf' = [ubuf EXCEPT ![x] = list[x][Len(list[x])].modes]
      /\ UNCHANGED <<conn, list, splits, acts, born, killed, raced>>
  BY DEF Burst
<1>10. Bursts(x, y, toy, too)
  BY <1>3, <1>8, <1>9 DEF Bursts
<1> QED BY <1>1, <1>2, <1>4, <1>10

\* What is on the wire then.
WireAfterBurst(x, y, toy, too) ==
    \A a, b \in Servers : wire'[a, b] = IF a = x /\ b = y THEN toy
                                        ELSE IF a = x /\ b \in Links(x) THEN wire[a, b] \o too
                                        ELSE wire[a, b]

\* The wire and the links after it.
LEMMA BurstWire ==
    ASSUME IInv, NEW x \in Servers, NEW y \in Servers, NEW toy, NEW too, Bursts(x, y, toy, too),
           BurstPlace(x, y, list[x]),
           toy \in Seq(Message), Links(x) # {} => too \in Seq(Message)
    PROVE  /\ WireTypes' /\ WireAfterBurst(x, y, toy, too)
           /\ \A a \in Servers : Links(a)' = IF a = x THEN Links(a) \cup {y} ELSE Links(a)
<1>1. /\ y \notin Links(x) /\ x # y
      /\ serv_list' = [serv_list EXCEPT ![x] = <<y>> \o @]
      /\ conn' = conn /\ wire[x, y] = <<>>
  BY DEF Bursts, BurstPlace
<1>2. PICK w : w = wire'
  OBVIOUS
<1>3. w = [p \in Servers \X Servers |->
             IF p[1] = x THEN wire[p] \o (IF p[2] = y THEN toy
                                          ELSE IF p[2] \in Links(x) THEN too ELSE <<>>)
             ELSE wire[p]]
  BY <1>2 DEF Bursts
<1>4. \A a, b \in Servers : w[a, b] = IF a = x
                                      THEN wire[a, b] \o (IF b = y THEN toy
                                                          ELSE IF b \in Links(x) THEN too ELSE <<>>)
                                      ELSE wire[a, b]
  BY <1>3
<1>5. \A a, b \in Servers : wire[a, b] \in Seq(Message)
  BY DEF IInv, WireTypes
<1>6. \A v \in Seq(Message) : <<>> \o v = v /\ v \o <<>> = v
  OBVIOUS
<1>7. ASSUME NEW a \in Servers, NEW b \in Servers
      PROVE  /\ w[a, b] = IF a = x /\ b = y THEN toy
                          ELSE IF a = x /\ b \in Links(x) THEN wire[a, b] \o too
                          ELSE wire[a, b]
             /\ w[a, b] \in Seq(Message)
  <2>1. PICK v \in Seq(Message) : v = wire[a, b]
    BY <1>5
  <2>2. CASE a = x /\ b = y
    <3>1. w[a, b] = <<>> \o toy
      BY <1>1, <1>4, <2>2
    <3> QED BY <1>6, <2>2, <3>1
  <2>3. CASE a = x /\ b # y /\ b \in Links(x)
    <3>1. w[a, b] = v \o too /\ too \in Seq(Message)
      BY <1>4, <2>1, <2>3
    <3>2. v \o too \in Seq(Message)
      BY <3>1, ListsFrom
    <3> QED BY <2>1, <2>3, <3>1, <3>2
  <2>4. CASE a = x /\ b # y /\ b \notin Links(x)
    <3>1. w[a, b] = v \o <<>>
      BY <1>4, <2>1, <2>4
    <3> QED BY <1>6, <2>1, <2>4, <3>1
  <2>5. CASE a # x
    BY <1>4, <2>1, <2>5
  <2> QED BY <2>2, <2>3, <2>4, <2>5
<1>8. ASSUME NEW p \in Servers \X Servers PROVE w[p] \in Seq(Message)
  <2>1. PICK a \in Servers, b \in Servers : p = <<a, b>>
    BY PairIs
  <2> QED BY <1>7, <2>1
<1>9. w \in [Servers \X Servers -> Seq(Message)]
  <2>1. w = [p \in Servers \X Servers |-> w[p]]
    BY <1>3
  <2> QED BY <1>8, <2>1
<1>10. PICK l, v, sl : l = serv_list[x] /\ v = <<y>> \o l /\ sl = serv_list'
  OBVIOUS
<1>11. l \in Seq(Servers) /\ IsInjective(l) /\ y \notin ToSet(l)
  BY <1>1, <1>10 DEF IInv, WireTypes, Links
<1>12. v \in Seq(Servers) /\ IsInjective(v) /\ ToSet(v) = ToSet(l) \cup {y}
  BY <1>10, <1>11, InFront
<1>13. sl = [serv_list EXCEPT ![x] = v] /\ serv_list \in [Servers -> Seq(Servers)]
       /\ \A s \in Servers : IsInjective(serv_list[s])
  BY <1>1, <1>10 DEF IInv, WireTypes
<1>14. sl \in [Servers -> Seq(Servers)] /\ sl[x] = v /\ \A s \in Servers : s # x => sl[s] = serv_list[s]
  BY <1>12, <1>13
<1>15. \A s \in Servers : IsInjective(sl[s])
  BY <1>12, <1>13, <1>14
<1>16. conn' \subseteq Edges
  BY <1>1 DEF IInv, WireTypes
<1>17. WireTypes'
  BY <1>2, <1>9, <1>10, <1>14, <1>15, <1>16 DEF WireTypes
<1>18. ASSUME NEW a \in Servers PROVE ToSet(sl[a]) = IF a = x THEN Links(a) \cup {y} ELSE Links(a)
  BY <1>10, <1>12, <1>14 DEF Links
<1>19. \A a \in Servers : Links(a)' = IF a = x THEN Links(a) \cup {y} ELSE Links(a)
  BY <1>10, <1>18 DEF Links
<1> QED BY <1>2, <1>7, <1>17, <1>19 DEF WireAfterBurst

\* A server introduces its clients to another.
LEMMA BurstKeeps == ASSUME IInv, NEW x \in Servers, NEW y \in Servers, Burst(x, y) PROVE IInv'
<1>1. PICK toy, too :
        /\ Bursts(x, y, toy, too) /\ BurstPlace(x, y, list[x])
        /\ toy = LinesOf(ServersTold(list[x], x, y)) \o ts_burst_client(list[x], ubuf[x])
        /\ too = <<[type |-> "server", id |-> y]>> \o send_umode_out(list[x])
  BY BurstIs
<1>2. /\ {x, y} \in conn /\ y \notin Links(x)
      /\ conn' = conn /\ list' = list /\ born' = born /\ raced' = raced
      /\ splits' = splits /\ acts' = acts /\ killed' = killed
      /\ ubuf' = [ubuf EXCEPT ![x] = list[x][Len(list[x])].modes]
  BY <1>1 DEF Bursts
<1>3. ASSUME NEW i \in Servers \cup Clients
      PROVE  Teaches(toy, x, y, i, Has(y, x, i), ToldNow(x, y, y, i))
  BY <1>1, <1>3, BurstToNew
<1>4. ASSUME NEW z \in Links(x), NEW i \in Servers \cup Clients
      PROVE  Teaches(too, x, z, i, Told(x, z, i), ToldNow(x, y, z, i))
  BY <1>1, <1>2, <1>4, BurstToOld
<1>5. /\ toy \in Seq(Message) /\ \A m \in ToSet(toy) : MsgOK(born, raced, m, x, y)
  BY <1>3 DEF Teaches
<1>6. \A z \in Links(x) : too \in Seq(Message) /\ \A m \in ToSet(too) : MsgOK(born, raced, m, x, z)
  BY <1>4 DEF Teaches
<1>7. WireTypes'
  BY <1>1, <1>5, <1>6, BurstWire
<1>17. WireAfterBurst(x, y, toy, too)
  BY <1>1, <1>5, <1>6, BurstWire
<1>8. \A a, b \in Servers : wire'[a, b] = IF a = x /\ b = y THEN toy
                                          ELSE IF a = x /\ b \in Links(x) THEN wire[a, b] \o too
                                          ELSE wire[a, b]
  BY <1>17 DEF WireAfterBurst
<1>9. \A a \in Servers : Links(a)' = IF a = x THEN Links(a) \cup {y} ELSE Links(a)
  BY <1>1, <1>5, <1>6, BurstWire
<1>10. \A a \in Servers : /\ Links(a) \subseteq Servers
                          /\ \A b \in Servers : IF b \in Links(a) THEN {a, b} \in conn ELSE wire[a, b] = <<>>
  BY ListOf DEF IInv, Connected
<1>11. Connected'
  <2>1. SUFFICES ASSUME NEW a \in Servers, NEW b \in Servers
                 PROVE  IF b \in Links(a)' THEN {a, b} \in conn ELSE wire'[a, b] = <<>>
    BY <1>2 DEF Connected
  <2>2. CASE a = x
    BY <1>2, <1>8, <1>9, <1>10, <2>2
  <2>3. CASE a # x
    <3>1. wire'[a, b] = wire[a, b] /\ Links(a)' = Links(a)
      BY <1>8, <1>9, <2>3
    <3>2. IF b \in Links(a) THEN {a, b} \in conn ELSE wire[a, b] = <<>>
      BY <1>10
    <3>3. PICK u, w : u = wire'[a, b] /\ w = wire[a, b]
      OBVIOUS
    <3> QED BY <3>1, <3>2, <3>3
  <2> QED BY <2>2, <2>3
<1>12. Messages'
  <2>1. SUFFICES ASSUME NEW a \in Servers, NEW b \in Servers, NEW m \in ToSet(wire'[a, b])
                 PROVE  MsgOK(born, raced, m, a, b)
    BY <1>2 DEF Messages
  <2>2. m \in ToSet(wire[a, b]) => MsgOK(born, raced, m, a, b)
    BY DEF IInv, Messages
  <2>3. CASE a = x /\ b = y
    BY <1>5, <1>8, <2>1, <2>3
  <2>4. CASE a = x /\ b \in Links(x) /\ b # y
    <3>1. PICK v \in Seq(Message) : v = wire[a, b]
      BY DEF IInv, WireTypes
    <3>2. wire'[a, b] = v \o too /\ too \in Seq(Message)
      BY <1>6, <1>8, <2>4, <3>1
    <3>3. ToSet(v \o too) = ToSet(v) \cup ToSet(too)
      BY <3>2, SetOfList
    <3>4. m \in ToSet(v) \/ m \in ToSet(too)
      BY <2>1, <3>2, <3>3
    <3> QED BY <1>6, <2>2, <2>4, <3>1, <3>4
  <2>5. CASE ~(a = x /\ (b = y \/ b \in Links(x)))
    BY <1>8, <2>1, <2>2, <2>5
  <2> QED BY <2>3, <2>4, <2>5
<1>13. Lists'
  <2>1. PICK sl : sl = serv_list'
    OBVIOUS
  <2>2. \A a \in Servers : ToSet(serv_list[a]) \subseteq ToSet(sl[a])
    BY <1>9, <2>1 DEF Links
  <2>3. ASSUME NEW s \in Servers PROVE GoodList(conn, sl, born, s, list[s])
    <3>1. PICK l : l = list[s]
      OBVIOUS
    <3>2. GoodList(conn, serv_list, born, s, l)
      BY <3>1, ListOf
    <3>3. ASSUME NEW e \in ToSet(l) PROVE GoodEntry(conn, sl, born, s, e)
      <4>1. GoodEntry(conn, serv_list, born, s, e) /\ e \in Entry
        BY <3>2 DEF GoodList, ToSet
      <4>2. e.from \in Servers
        BY <4>1, EntryFields
      <4> QED BY <2>2, <4>1, <4>2 DEF GoodEntry, RightWay
    <3> QED BY <3>1, <3>2, <3>3 DEF GoodList
  <2>4. list \in [Servers -> Seq(Entry)]
    BY DEF IInv, Lists
  <2> QED BY <1>2, <2>1, <2>3, <2>4 DEF Lists
<1>14. WillAgree'
  <2>1. \A a \in Servers : Around(a)' = IF a = x THEN Around(a) \cup {y} ELSE Around(a)
    BY <1>9 DEF Around
  <2>2. SUFFICES ASSUME NEW a \in Servers, NEW b \in Servers, b \in Links(a)',
                        NEW i \in Steady(born, raced)
                 PROVE  Tracks(wire'[a, b], i, NickOf(born, i), b, Has(b, a, i),
                               ToldIn(list[a], Around(a)', b, i))
    BY <1>2 DEF WillAgree, Has, Told
  <2>3. i \in Servers \cup Clients
    BY DEF Steady
  <2>4. b \in Links(a) => Tracks(wire[a, b], i, NickOf(born, i), b, Has(b, a, i), Told(a, b, i))
    BY DEF IInv, WillAgree
  <2>5. CASE a = x /\ b = y
    <3>1. Tracks(toy, i, NickOf(born, i), y, Has(y, x, i), ToldNow(x, y, y, i))
      BY <1>3, <2>3 DEF Teaches
    <3>2. ToldIn(list[a], Around(a)', b, i) = ToldNow(x, y, y, i)
      BY <2>1, <2>5 DEF ToldNow
    <3> QED BY <1>8, <2>5, <3>1, <3>2
  <2>6. CASE a = x /\ b # y
    <3>1. b \in Links(x)
      BY <1>9, <2>2, <2>6
    <3>2. Tracks(too, i, NickOf(born, i), b, Told(x, b, i), ToldNow(x, y, b, i))
          /\ too \in Seq(Message)
      BY <1>4, <2>3, <3>1 DEF Teaches
    <3>3. ToldIn(list[a], Around(a)', b, i) = ToldNow(x, y, b, i)
      BY <2>1, <2>6 DEF ToldNow
    <3>4. wire'[a, b] = wire[a, b] \o too
      BY <1>8, <2>6, <3>1
    <3>5. wire[a, b] \in Seq(Message)
      BY DEF IInv, WireTypes
    <3>6. Tracks(wire[a, b] \o too, i, NickOf(born, i), b, Has(b, a, i), ToldNow(x, y, b, i))
      BY <2>4, <2>6, <3>1, <3>2, <3>5, TracksMore
    <3> QED BY <3>3, <3>4, <3>6
  <2>7. CASE a # x
    <3>1. b \in Links(a) /\ Around(a)' = Around(a) /\ wire'[a, b] = wire[a, b]
      BY <1>8, <1>9, <2>1, <2>2, <2>7
    <3> QED BY <2>4, <3>1 DEF Told
  <2> QED BY <2>5, <2>6, <2>7
<1>15. OtherTypes'
  <2>1. PICK l, k : l = list[x] /\ k = Len(l)
    OBVIOUS
  <2>2. l \in Seq(Entry) /\ ToSet(l) # {}
    BY <1>1, <2>1 DEF BurstPlace
  <2>3. k \in Nat /\ k # 0
    <3>1. \E j \in DOMAIN l : TRUE
      BY <2>2 DEF ToSet
    <3> QED BY <2>1, <2>2, <3>1
  <2>4. l[k] \in Entry
    BY <2>1, <2>2, <2>3
  <2>5. l[k].modes \in SUBSET UModes
    BY <2>4, EntryFields
  <2>6. ubuf' = [ubuf EXCEPT ![x] = l[k].modes]
    BY <1>2, <2>1
  <2>7. ubuf' \in [Servers -> (SUBSET UModes) \cup {Unset}]
    BY <2>5, <2>6 DEF IInv, OtherTypes
  <2> QED BY <1>2, <2>7 DEF IInv, OtherTypes
<1>16. ForCause'
  BY <1>2 DEF IInv, ForCause
<1> QED BY <1>7, <1>11, <1>12, <1>13, <1>14, <1>15, <1>16 DEF IInv

---------------------------------------------------------------------------
(* The theorems.                                                           *)

\* A server that is alone knows itself.
LEMMA AloneList ==
    ASSUME NEW sl, NEW bn, NEW s \in Servers, NEW l, l = <<ServerEntry(s, s)>>
    PROVE  GoodList({}, sl, bn, s, l) /\ l \in Seq(Entry)
<1>1. PICK e : e = ServerEntry(s, s)
  OBVIOUS
<1>2. e \in Entry /\ e.id = s /\ e.nick = NoNick /\ e.modes = {} /\ e.from = s
  BY <1>1, ServerEntryIs
<1>3. l = <<e>>
  BY <1>1
<1>4. l \in Seq(Entry) /\ IsInjective(l) /\ ToSet(l) = {e}
  BY <1>2, <1>3 DEF IsInjective, ToSet
<1>5. Fixed({}, s) \subseteq {e}
  BY <1>1 DEF Fixed
<1>6. GoodEntry({}, sl, bn, s, e)
  BY <1>2, Ids DEF GoodEntry, RightWay, Registered
<1>7. Distinct({e})
  BY DEF Distinct
<1> QED BY <1>4, <1>5, <1>6, <1>7 DEF GoodList

\* The invariant holds in the beginning.
LEMMA InitInv == Init => IInv
<1> SUFFICES ASSUME Init PROVE IInv
  OBVIOUS
<1> USE DEF Init
<1>1. \A s \in Servers : serv_list[s] = <<>>
  OBVIOUS
<1>2. \A x, y \in Servers : wire[x, y] = <<>>
  OBVIOUS
<1>3. \A s \in Servers : list[s] = <<ServerEntry(s, s)>>
  OBVIOUS
<1>4. conn = {} /\ killed = {}
  OBVIOUS
<1>5. ToSet(<<>>) = {} /\ IsInjective(<<>>)
  BY NoElements DEF IsInjective
<1>6. WireTypes
  <2>1. serv_list \in [Servers -> Seq(Servers)]
    OBVIOUS
  <2>2. wire \in [Servers \X Servers -> Seq(Message)]
    OBVIOUS
  <2> QED BY <1>1, <1>4, <1>5, <2>1, <2>2 DEF WireTypes
<1>7. OtherTypes
  <2>1. ubuf \in [Servers -> (SUBSET UModes) \cup {Unset}]
    OBVIOUS
  <2>2. splits \in 0..MaxSplits /\ acts \in 0..MaxActs
    BY NetAssumption
  <2>3. born \in [Clients -> [nick : Nicks \cup {NoNick}, ts : 0..MaxTime,
                                user : UserHosts \cup {NoNick}]]
    BY NetAssumption
  <2>4. \A u \in Clients : born[u].nick = NoNick
    OBVIOUS
  <2>5. killed \subseteq Clients /\ raced \subseteq Nicks
    OBVIOUS
  <2> QED BY <2>1, <2>2, <2>3, <2>4, <2>5 DEF OtherTypes
<1>8. \A s \in Servers : Links(s) = {}
  BY <1>1, <1>5 DEF Links
<1>9. Lists
  <2>1. list = [s \in Servers |-> <<ServerEntry(s, s)>>]
    OBVIOUS
  <2>2. \A s \in Servers : GoodList({}, serv_list, born, s, list[s]) /\ list[s] \in Seq(Entry)
    BY <1>3, AloneList
  <2> QED BY <1>4, <2>1, <2>2 DEF Lists
<1>10. Connected /\ Messages /\ WillAgree /\ ForCause
  BY <1>2, <1>4, <1>5, <1>8 DEF Connected, Messages, WillAgree, ForCause
<1> QED BY <1>6, <1>7, <1>9, <1>10 DEF IInv

\* A step that changes nothing keeps it.
LEMMA StutterInv == IInv /\ UNCHANGED vars => IInv'
<1> SUFFICES ASSUME IInv, UNCHANGED vars PROVE IInv'
  OBVIOUS
<1>1. /\ conn' = conn /\ serv_list' = serv_list /\ wire' = wire /\ list' = list /\ ubuf' = ubuf
      /\ splits' = splits /\ acts' = acts /\ born' = born /\ killed' = killed /\ raced' = raced
  BY DEF vars
<1>2. \A s : Links(s)' = Links(s)
  BY <1>1 DEF Links
<1>3. WireTypes' /\ OtherTypes' /\ Lists' /\ Messages' /\ ForCause'
  BY <1>1 DEF IInv, WireTypes, OtherTypes, Lists, Messages, ForCause
<1>4. Connected'
  BY <1>1, <1>2 DEF IInv, Connected
<1>5. WillAgree'
  BY <1>1, <1>2 DEF IInv, WillAgree, Has, Told, Around
<1> QED BY <1>3, <1>4, <1>5 DEF IInv

\* Every step keeps it.
LEMMA NextInv == IInv /\ [Next]_vars => IInv'
<1> SUFFICES ASSUME IInv, [Next]_vars PROVE IInv'
  OBVIOUS
<1>1. ASSUME NEW x \in Servers, NEW y \in Servers, Connect(x, y) PROVE IInv'
  BY <1>1, ConnectKeeps
<1>2. ASSUME NEW x \in Servers, NEW y \in Servers, Burst(x, y) PROVE IInv'
  BY <1>2, BurstKeeps
<1>3. ASSUME NEW x \in Servers, NEW y \in Servers, BurstDies(x, y) PROVE IInv'
  BY <1>3, DiesKeeps
<1>4. ASSUME NEW x \in Servers, NEW y \in Servers, Split(x, y) PROVE IInv'
  BY <1>4, SplitKeeps
<1>5. ASSUME NEW u \in Clients, Quit(u) PROVE IInv'
  BY <1>5, QuitKeeps
<1>6. ASSUME NEW u \in Clients, Oper(u) PROVE IInv'
  BY <1>6, OperKeeps
<1>7. ASSUME NEW u \in Clients, NEW n \in Nicks, OperKill(u, n) PROVE IInv'
  BY <1>7, OperKillKeeps
<1>8. ASSUME NEW u \in Clients, NEW login \in Logins[u], Register(u, login) PROVE IInv'
  BY <1>8, RegisterKeeps
<1>9. ASSUME NEW s \in Servers, NEW t \in Links(s), ReadFakePrefix(s, t) PROVE IInv'
  BY <1>9, ReadFakePrefixKeeps
<1>10. ASSUME NEW s \in Servers, NEW t \in Links(s), ReadServer(s, t) PROVE IInv'
  BY <1>10, ReadServerKeeps
<1>11. ASSUME NEW s \in Servers, NEW t \in Links(s), ReadSquit(s, t) PROVE IInv'
  BY <1>11, ReadSquitKeeps
<1>12. ASSUME NEW s \in Servers, NEW t \in Links(s), ReadNick(s, t) PROVE IInv'
  BY <1>12, ReadNickKeeps
<1>13. ASSUME NEW s \in Servers, NEW t \in Links(s), ReadShortNick(s, t) PROVE IInv'
  BY <1>13, DiesKeeps
<1>14. ASSUME NEW s \in Servers, NEW t \in Links(s), ReadBadUser(s, t) PROVE IInv'
  BY <1>14, ReadBadUserKeeps
<1>15. ASSUME NEW s \in Servers, NEW t \in Links(s), ReadMode(s, t) PROVE IInv'
  BY <1>15, ReadModeKeeps
<1>16. ASSUME NEW s \in Servers, NEW t \in Links(s), ReadQuit(s, t) PROVE IInv'
  BY <1>16, ReadQuitKeeps
<1>17. ASSUME NEW s \in Servers, NEW t \in Links(s), ReadKill(s, t) PROVE IInv'
  BY <1>17, ReadKillKeeps
<1>18. ASSUME NEW s \in Servers, NEW t \in Links(s), ReadKillNick(s, t) PROVE IInv'
  BY <1>18, ReadKillNickKeeps
<1>19. CASE UNCHANGED vars
  BY <1>19, StutterInv
<1> QED BY <1>1, <1>2, <1>3, <1>4, <1>5, <1>6, <1>7, <1>8, <1>9, <1>10, <1>11, <1>12, <1>13, <1>14,
           <1>15, <1>16, <1>17, <1>18, <1>19 DEF Next

\* The inductive invariant: lists, links and messages fit together, and once the
\* messages are read the two ends of a link know the same.
THEOREM Inv == Spec => []IInv
<1> QED BY InitInv, NextInv, PTL DEF Spec

\* The invariant gives the types.
LEMMA InvTypes == IInv => TypeOK
<1> SUFFICES ASSUME IInv PROVE TypeOK
  OBVIOUS
<1>1. \A s \in Servers : ToSet(serv_list[s]) \subseteq Servers /\ IsInjective(serv_list[s])
  <2>1. SUFFICES ASSUME NEW s \in Servers
                 PROVE  ToSet(serv_list[s]) \subseteq Servers /\ IsInjective(serv_list[s])
    OBVIOUS
  <2>2. serv_list[s] \in Seq(Servers) /\ IsInjective(serv_list[s])
    BY DEF IInv, WireTypes
  <2> QED BY <2>2, SetOfList
<1>2. ASSUME NEW x \in Servers, NEW y \in Servers PROVE ToSet(wire[x, y]) \subseteq Message
  <2>1. wire[x, y] \in Seq(Message)
    BY DEF IInv, WireTypes
  <2> QED BY <2>1, SetOfList
<1>3. ASSUME NEW s \in Servers PROVE ToSet(list[s]) \subseteq Entry
  <2>1. list[s] \in Seq(Entry)
    BY DEF IInv, Lists
  <2> QED BY <2>1, SetOfList
<1>4. conn \subseteq Edges /\ OtherTypes
  BY DEF IInv, WireTypes
<1> QED BY <1>1, <1>2, <1>3, <1>4 DEF OtherTypes, TypeOK

\* Every server's tables, links and messages are what they should be.
THEOREM TypeCorrect == Spec => []TypeOK
<1> QED BY Inv, InvTypes, PTL

\* The invariant gives one entry for each nick and each id.
LEMMA InvUnique == IInv => NicksUnique
<1> SUFFICES ASSUME IInv, NEW s \in Servers, NEW i \in DOMAIN list[s], NEW j \in DOMAIN list[s]
             PROVE  /\ list[s][i].id = list[s][j].id => i = j
                    /\ list[s][i].nick = list[s][j].nick /\ IsClientEntry(list[s][i]) => i = j
  BY DEF NicksUnique
<1>1. PICK l : l = list[s]
  OBVIOUS
<1>2. IsInjective(l) /\ Distinct(ToSet(l))
  BY <1>1, ListOf DEF GoodList
<1>3. i \in DOMAIN l /\ j \in DOMAIN l /\ l[i] \in ToSet(l) /\ l[j] \in ToSet(l)
  BY <1>1 DEF ToSet
<1>4. l[i] = l[j] => i = j
  BY <1>2, <1>3 DEF IsInjective
<1>5. /\ l[i].id = l[j].id => l[i] = l[j]
      /\ l[i].nick = l[j].nick /\ IsClientEntry(l[i]) => l[i] = l[j]
  BY <1>2, <1>3 DEF Distinct
<1> QED BY <1>1, <1>4, <1>5

\* find_client finds the client: however introductions, kills and collisions cross,
\* no server ever knows two clients with one nick, or one client twice.
THEOREM NoNickTwice == Spec => []NicksUnique
<1> QED BY Inv, InvUnique, PTL

\* A client that a server has killed was to blame.
LEMMA InvCause == IInv => KilledForCause
<1> SUFFICES ASSUME IInv, NEW u \in killed
             PROVE  born[u].nick \in raced \/ \E w \in Clients \ {u} : Beats(born, w, u)
  BY DEF KilledForCause, Beats
<1>1. Blamed(born, raced, u)
  BY DEF IInv, ForCause
<1> QED BY <1>1 DEF Blamed

\* On any network, a server kills a client only over its nick: because of somebody
\* who must not lose it to the client, or a nick in a race.
THEOREM KillsHaveCause == Spec => []KilledForCause
<1> QED BY Inv, InvCause, PTL

\* Servers that are linked know the same servers and the same clients of those whom
\* nobody may have the nick instead of, once all messages are read.
Known(x, i) == \E e \in ToSet(list[x]) : e.id = i
SteadyKnown ==
    Quiet => \A c \in conn : \A x, y \in c : \A i \in Steady(born, raced) : Known(x, i) <=> Known(y, i)

\* Nothing on the wire changes nothing.
LEMMA TracksNothing ==
    ASSUME NEW i, NEW n, NEW y, NEW b, NEW c, Tracks(<<>>, i, n, y, b, c)
    PROVE  b = c
BY DEF Tracks

\* Over a quiet link, what one server knows the other knows too.
LEMMA QuietLink ==
    ASSUME IInv, Quiet, NEW x \in Servers, NEW y \in Servers, x # y, {x, y} \in conn,
           NEW i \in Steady(born, raced), Known(x, i)
    PROVE  Known(y, i)
<1>1. y \in Links(x) /\ x \in Links(y) /\ wire[x, y] = <<>> /\ wire[y, x] = <<>>
  BY DEF Quiet
<1>2. Has(y, x, i) = Told(x, y, i) /\ Has(x, y, i) = Told(y, x, i)
  <2>1. Tracks(<<>>, i, NickOf(born, i), y, Has(y, x, i), Told(x, y, i))
    BY <1>1 DEF IInv, WillAgree
  <2>2. Tracks(<<>>, i, NickOf(born, i), x, Has(x, y, i), Told(y, x, i))
    BY <1>1 DEF IInv, WillAgree
  <2> QED BY <2>1, <2>2, TracksNothing
<1>3. PICK e \in ToSet(list[x]) : e.id = i
  BY DEF Known
<1>4. CASE e.from = y
  <2>1. Has(x, y, i)
    BY <1>3, <1>4 DEF Has, HasIn
  <2>2. Told(y, x, i)
    BY <1>2, <2>1
  <2> QED BY <2>2 DEF Told, ToldIn, Known
<1>5. CASE e.from # y
  <2>1. e.from \in Around(x)
    <3>0. GoodList(conn, serv_list, born, x, list[x])
      BY ListOf
    <3>1. RightWay(conn, serv_list, x, e) /\ e \in Entry
      <4>1. PICK l : l = list[x]
        OBVIOUS
      <4>2. GoodEntry(conn, serv_list, born, x, e) /\ l \in Seq(Entry) /\ e \in ToSet(l)
        BY <3>0, <4>1 DEF GoodList
      <4>3. e \in Entry
        BY <4>2, SetOfList
      <4> QED BY <4>2, <4>3 DEF GoodEntry
    <3>2. e.from \in Servers
      BY <3>1, EntryFields
    <3>3. \A f \in Servers : {x, f} \in conn /\ f # x => f \in Links(x)
      BY DEF Quiet
    <3> QED BY <3>1, <3>2, <3>3 DEF RightWay, Around
  <2>2. Told(x, y, i)
    BY <1>3, <1>5, <2>1 DEF Told, ToldIn
  <2>3. Has(y, x, i)
    BY <1>2, <2>2
  <2> QED BY <2>3 DEF Has, HasIn, Known
<1> QED BY <1>4, <1>5

\* The invariant gives the agreement.
LEMMA InvAgree == IInv => SteadyKnown
<1> SUFFICES ASSUME IInv, Quiet, NEW c \in conn, NEW x \in c, NEW y \in c,
                    NEW i \in Steady(born, raced), Known(x, i)
             PROVE  Known(y, i)
  BY DEF SteadyKnown
<1>1. c \subseteq Servers /\ Cardinality(c) = 2
  BY Ids DEF IInv, WireTypes, IsForest
<1>2. CASE x # y
  <2>1. c = {x, y}
    <3>1. IsFiniteSet(c)
      BY <1>1, NetAssumption, FS_Subset
    <3>2. {x, y} \subseteq c /\ {x, y} = {x} \cup {y}
      OBVIOUS
    <3>3. Cardinality({x}) = 1 /\ IsFiniteSet({x}) /\ y \notin {x}
      BY <1>2, FS_Singleton
    <3>4. Cardinality({x} \cup {y}) = 2
      <4>1. PICK S : S = {x}
        OBVIOUS
      <4>2. Cardinality(S \cup {y}) = IF y \in S THEN Cardinality(S) ELSE Cardinality(S) + 1
        BY <3>3, <4>1, FS_AddElement
      <4>3. y \notin S /\ Cardinality(S) = 1
        BY <3>3, <4>1
      <4>4. Cardinality(S \cup {y}) = 2
        BY <4>2, <4>3
      <4> QED BY <4>1, <4>4
    <3> QED BY <1>1, <3>1, <3>2, <3>4, FS_Subset
  <2> QED BY <1>1, <1>2, <2>1, QuietLink
<1> QED BY <1>2

\* The network keeps its tables together: when it is quiet, linked servers know the
\* same servers and the same clients, but for those with a nick that was raced for or
\* that somebody else is entitled to.
THEOREM SteadyClientsKnown == Spec => []SteadyKnown
<1> QED BY Inv, InvAgree, PTL

============================================================================
