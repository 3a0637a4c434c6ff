------------------------- MODULE SendQueues_proofs -------------------------
(***************************************************************************)
(* Proofs about SendQueues, for every set of links and every bound: type   *)
(* correctness, the reference counts of the lines the queues share, and    *)
(* that the queues implement the streams of FifoLinks.                     *)
(*                                                                         *)
(* First what each effect an action may have on the lines, the queues and  *)
(* the streams keeps; then that every action has one of these effects.     *)
(***************************************************************************)
EXTENDS SendQueues, FiniteSetTheorems, SequenceTheorems, WellFoundedInduction,
        TLAPS

---------------------------------------------------------------------------
(* Induction over the natural numbers, for sets.                           *)

\* A set of naturals has a least element.
LEMMA Least ==
    ASSUME NEW T \in SUBSET Nat, T # {}
    PROVE  \E x \in T : \A y \in T : x <= y
<1> DEFINE R == OpToRel(<, Nat)
<1>1. IsWellFoundedOn(R, Nat)
  BY NatLessThanWellFounded
<1>2. \A x, y \in Nat : y < x => <<y, x>> \in R
  BY DEF OpToRel
<1> HIDE DEF R
<1>3. PICK x \in T : \A y \in T : ~(<<y, x>> \in R)
  BY <1>1, WFMin
<1>4. x \in Nat /\ \A y \in T : y \in Nat /\ ~(y < x)
  BY <1>2, <1>3
<1> QED BY <1>3, <1>4

\* A set that has 0, and with a number the next one, has them all.
LEMMA Induction ==
    ASSUME NEW S, 0 \in S, \A n \in Nat : n \in S => n + 1 \in S
    PROVE  Nat \subseteq S
<1> SUFFICES ASSUME NEW k \in Nat \ S PROVE FALSE
  OBVIOUS
<1> DEFINE T == Nat \ S
<1>1. PICK x \in T : \A y \in T : x <= y
  BY Least
<1>2. x # 0 /\ x - 1 \in Nat /\ x - 1 \notin T
  BY <1>1
<1> QED BY <1>1, <1>2

---------------------------------------------------------------------------
(* The bytes of a queue.                                                   *)

Byte == Nat \X Nat

\* A queue, of numbers, whose lines have lengths.
Queue(ln, q) == q \in Seq(Nat) /\ \A k \in 1..Len(q) : ln[q[k]].len \in Nat

\* The recursion by which Stream is defined, up to n.
Upto(ln, q, n, f) ==
    /\ \A k \in 0..n : f[k] \in Seq(Byte)
    /\ f[0] = <<>>
    /\ \A k \in 1..n : f[k] = f[k - 1] \o Bytes(ln, q[k])

\* The bytes of a line are as many as it is long.
LEMMA BytesType ==
    ASSUME NEW ln, NEW i \in Nat, ln[i].len \in Nat
    PROVE  /\ Bytes(ln, i) \in Seq(Byte) /\ Len(Bytes(ln, i)) = ln[i].len
           /\ \A j \in 1..ln[i].len : Bytes(ln, i)[j] = <<i, j>>
BY DEF Bytes, Byte

\* One step more.
LEMMA UptoStep ==
    ASSUME NEW ln, NEW q, Queue(ln, q), NEW n \in Nat, n + 1 <= Len(q),
           NEW f, Upto(ln, q, n, f)
    PROVE  \E g \in [0..(n + 1) -> Seq(Byte)] : Upto(ln, q, n + 1, g)
<1> DEFINE b == Bytes(ln, q[n + 1])
           g == [k \in 0..(n + 1) |-> IF k = n + 1 THEN f[n] \o b ELSE f[k]]
<1>1. b \in Seq(Byte)
  <2>1. n + 1 \in 1..Len(q) /\ q[n + 1] \in Nat
    BY DEF Queue
  <2>2. ln[q[n + 1]].len \in Nat
    BY <2>1 DEF Queue
  <2> QED BY <2>1, <2>2, BytesType
<1> HIDE DEF b
<1>2. f[n] \o b \in Seq(Byte) /\ f[n] \in Seq(Byte)
  BY <1>1 DEF Upto
<1>3. g \in [0..(n + 1) -> Seq(Byte)] /\ g[0] = <<>>
  BY <1>2 DEF Upto
<1>4. ASSUME NEW k \in 1..(n + 1) PROVE g[k] = g[k - 1] \o Bytes(ln, q[k])
  <2>1. CASE k = n + 1
    <3>1. g[k] = f[n] \o b /\ k - 1 = n /\ n \in 0..(n + 1) /\ n # n + 1
      BY <2>1
    <3>2. g[k - 1] = f[n]
      BY <3>1
    <3> QED BY <2>1, <3>1, <3>2 DEF b
  <2>2. CASE k # n + 1
    <3>1. k \in 1..n /\ k - 1 \in 0..(n + 1) /\ k \in 0..(n + 1) /\ k - 1 # n + 1
      BY <2>2
    <3>2. g[k] = f[k] /\ g[k - 1] = f[k - 1]
      BY <2>2, <3>1
    <3>3. f[k] = f[k - 1] \o Bytes(ln, q[k])
      BY <3>1 DEF Upto
    <3> QED BY <3>2, <3>3
  <2> QED BY <2>1, <2>2
<1> HIDE DEF g
<1>5. Upto(ln, q, n + 1, g)
  BY <1>3, <1>4 DEF Upto
<1> QED BY <1>3, <1>5

\* The recursion has a solution.
LEMMA UptoExists ==
    ASSUME NEW ln, NEW q, Queue(ln, q)
    PROVE  \E f \in [0..Len(q) -> Seq(Byte)] : Upto(ln, q, Len(q), f)
<1> DEFINE Sol(n) == n <= Len(q) => \E f \in [0..n -> Seq(Byte)] : Upto(ln, q, n, f)
           S == {n \in Nat : Sol(n)}
<1>1. Sol(0)
  <2>1. Upto(ln, q, 0, [k \in 0..0 |-> <<>>])
    BY DEF Upto
  <2>2. [k \in 0..0 |-> <<>>] \in [0..0 -> Seq(Byte)]
    OBVIOUS
  <2> QED BY <2>1, <2>2
<1>2. ASSUME NEW n \in Nat, Sol(n) PROVE Sol(n + 1)
  <2> SUFFICES ASSUME n + 1 <= Len(q)
               PROVE  \E f \in [0..(n + 1) -> Seq(Byte)] : Upto(ln, q, n + 1, f)
    OBVIOUS
  <2>1. Len(q) \in Nat
    BY DEF Queue
  <2>2. PICK f : Upto(ln, q, n, f)
    BY <1>2, <2>1
  <2> QED BY <2>2, UptoStep
<1> HIDE DEF Sol
<1>3. 0 \in S /\ \A n \in Nat : n \in S => n + 1 \in S
  BY <1>1, <1>2
<1> HIDE DEF S
<1>4. Nat \subseteq S
  BY <1>3, Induction
<1>5. Len(q) \in Nat
  BY DEF Queue
<1>6. Sol(Len(q))
  BY <1>4, <1>5 DEF S
<1> QED BY <1>5, <1>6 DEF Sol

\* It depends on the lengths of the lines only, and has one solution.
LEMMA UptoSame ==
    ASSUME NEW ln, NEW q, NEW mn, NEW p, NEW f, NEW g, NEW m \in Nat,
           Upto(ln, q, m, f), Upto(mn, p, m, g),
           \A k \in 1..m : Bytes(ln, q[k]) = Bytes(mn, p[k])
    PROVE  f[m] = g[m]
<1> DEFINE S == {n \in Nat : n <= m => f[n] = g[n]}
<1>1. 0 \in S
  BY DEF Upto
<1>2. ASSUME NEW n \in Nat, n \in S PROVE n + 1 \in S
  <2> SUFFICES ASSUME n + 1 <= m PROVE f[n + 1] = g[n + 1]
    OBVIOUS
  <2>1. f[n] = g[n] /\ n + 1 \in 1..m /\ (n + 1) - 1 = n
    BY <1>2
  <2>2. f[n + 1] = f[n] \o Bytes(ln, q[n + 1])
    BY <2>1 DEF Upto
  <2>3. g[n + 1] = g[n] \o Bytes(mn, p[n + 1])
    BY <2>1 DEF Upto
  <2>4. Bytes(ln, q[n + 1]) = Bytes(mn, p[n + 1])
    BY <2>1
  <2> QED BY <2>1, <2>2, <2>3, <2>4
<1> HIDE DEF S
<1>3. m \in S
  BY <1>1, <1>2, Induction
<1> QED BY <1>3 DEF S

\* Stream follows it.
LEMMA StreamUpto ==
    ASSUME NEW ln, NEW q, Queue(ln, q)
    PROVE  \E f : Upto(ln, q, Len(q), f) /\ Stream(ln, q) = f[Len(q)]
<1> DEFINE Def(f) == f = [k \in 0..Len(q) |-> IF k = 0 THEN <<>>
                                       ELSE f[k - 1] \o Bytes(ln, q[k])]
           upto == CHOOSE f : Def(f)
<1>1. Len(q) \in Nat
  BY DEF Queue
<1>2. PICK g \in [0..Len(q) -> Seq(Byte)] : Upto(ln, q, Len(q), g)
  BY UptoExists
<1>3. Def(g)
  <2>1. \A k \in 0..Len(q) : g[k] = IF k = 0 THEN <<>> ELSE g[k - 1] \o Bytes(ln, q[k])
    <3>1. \A k \in 0..Len(q) : k # 0 => k \in 1..Len(q)
      BY <1>1
    <3> QED BY <1>2, <3>1 DEF Upto
  <2>2. g = [k \in 0..Len(q) |-> g[k]]
    OBVIOUS
  <2> QED BY <2>1, <2>2
<1>4. Stream(ln, q) = upto[Len(q)]
  BY DEF Stream
<1>5. Def(upto)
  BY <1>3
<1> HIDE DEF upto
<1>6. \A k \in 0..Len(q) : upto[k] = IF k = 0 THEN <<>> ELSE upto[k - 1] \o Bytes(ln, q[k])
  BY <1>5
<1> HIDE DEF Def
<1> DEFINE S == {n \in Nat : n <= Len(q) => upto[n] = g[n]}
<1>7. 0 \in S
  BY <1>1, <1>2, <1>6 DEF Upto
<1>8. ASSUME NEW n \in Nat, n \in S PROVE n + 1 \in S
  <2> SUFFICES ASSUME n + 1 <= Len(q) PROVE upto[n + 1] = g[n + 1]
    OBVIOUS
  <2>1. upto[n] = g[n] /\ n + 1 \in 1..Len(q) /\ (n + 1) - 1 = n /\ n + 1 # 0
    BY <1>1, <1>8
  <2> HIDE DEF S
  <2>2. upto[n + 1] = upto[(n + 1) - 1] \o Bytes(ln, q[n + 1])
    <3>1. n + 1 \in 0..Len(q)
      BY <1>1, <2>1
    <3> QED BY <1>6, <2>1, <3>1
  <2>3. g[n + 1] = g[n] \o Bytes(ln, q[n + 1])
    BY <1>2, <2>1 DEF Upto
  <2> QED BY <2>1, <2>2, <2>3
<1> HIDE DEF S
<1>9. Len(q) \in S
  BY <1>1, <1>7, <1>8, Induction
<1>10. Stream(ln, q) = g[Len(q)]
  BY <1>1, <1>4, <1>9 DEF S
<1> QED BY <1>2, <1>10

\* The bytes of a queue are bytes.
LEMMA StreamType ==
    ASSUME NEW ln, NEW q, Queue(ln, q)
    PROVE  Stream(ln, q) \in Seq(Byte) /\ (q = <<>> => Stream(ln, q) = <<>>)
<1>1. PICK f : Upto(ln, q, Len(q), f) /\ Stream(ln, q) = f[Len(q)]
  BY StreamUpto
<1>2. Len(q) \in 0..Len(q) /\ (q = <<>> => Len(q) = 0)
  BY DEF Queue
<1> QED BY <1>1, <1>2 DEF Upto

\* Counts and flags of the lines do not matter to it.
LEMMA StreamSame ==
    ASSUME NEW ln, NEW mn, NEW q, Queue(ln, q),
           \A k \in 1..Len(q) : mn[q[k]].len = ln[q[k]].len
    PROVE  Queue(mn, q) /\ Stream(mn, q) = Stream(ln, q)
<1>1. Queue(mn, q) /\ Len(q) \in Nat
  BY DEF Queue
<1>2. \A k \in 1..Len(q) : Bytes(mn, q[k]) = Bytes(ln, q[k])
  BY DEF Bytes
<1>3. PICK f : Upto(ln, q, Len(q), f) /\ Stream(ln, q) = f[Len(q)]
  BY StreamUpto
<1>4. PICK g : Upto(mn, q, Len(q), g) /\ Stream(mn, q) = g[Len(q)]
  BY <1>1, StreamUpto
<1>5. f[Len(q)] = g[Len(q)]
  BY <1>1, <1>2, <1>3, <1>4, UptoSame
<1> QED BY <1>1, <1>3, <1>4, <1>5

\* A line at the end of the queue, its bytes at the end of the stream.
LEMMA StreamAppend ==
    ASSUME NEW ln, NEW q, Queue(ln, q), NEW i \in Nat, ln[i].len \in Nat
    PROVE  /\ Queue(ln, Append(q, i))
           /\ Stream(ln, Append(q, i)) = Stream(ln, q) \o Bytes(ln, i)
<1> DEFINE p == Append(q, i)
<1>1. /\ q \in Seq(Nat) /\ Len(q) \in Nat /\ p \in Seq(Nat) /\ Len(p) = Len(q) + 1
      /\ p[Len(q) + 1] = i /\ \A k \in 1..Len(q) : p[k] = q[k]
  BY DEF Queue
<1> HIDE DEF p
<1>2. Queue(ln, p)
  <2> SUFFICES ASSUME NEW k \in 1..Len(p) PROVE ln[p[k]].len \in Nat
    BY <1>1 DEF Queue
  <2>1. CASE k = Len(q) + 1
    BY <1>1, <2>1
  <2>2. CASE k # Len(q) + 1
    BY <1>1, <2>2, SMTT(30) DEF Queue
  <2> QED BY <2>1, <2>2
<1>3. PICK f : Upto(ln, q, Len(q), f) /\ Stream(ln, q) = f[Len(q)]
  BY StreamUpto
<1>4. PICK g : Upto(ln, p, Len(p), g) /\ Stream(ln, p) = g[Len(p)]
  BY <1>2, StreamUpto
<1>5. Upto(ln, p, Len(q), g)
  <2>1. 0..Len(q) \subseteq 0..Len(p) /\ 1..Len(q) \subseteq 1..Len(p)
    BY <1>1
  <2> QED BY <1>4, <2>1 DEF Upto
<1>6. f[Len(q)] = g[Len(q)]
  BY <1>1, <1>3, <1>5, UptoSame, SMTT(30)
<1>7. g[Len(p)] = g[Len(q)] \o Bytes(ln, i)
  <2>1. Len(p) \in 1..Len(p) /\ Len(p) - 1 = Len(q)
    BY <1>1
  <2> QED BY <1>1, <1>4, <2>1 DEF Upto
<1> QED BY <1>2, <1>3, <1>4, <1>6, <1>7 DEF p

\* The bytes of the first line come first.
LEMMA StreamTail ==
    ASSUME NEW ln, NEW q, Queue(ln, q), q # <<>>
    PROVE  /\ Queue(ln, Tail(q))
           /\ Stream(ln, q) = Bytes(ln, q[1]) \o Stream(ln, Tail(q))
<1> DEFINE p == Tail(q)  b == Bytes(ln, q[1])
<1>1. /\ q \in Seq(Nat) /\ Len(p) \in Nat /\ p \in Seq(Nat) /\ Len(q) = Len(p) + 1
      /\ \A k \in 1..Len(p) : p[k] = q[k + 1]
  BY DEF Queue
<1>2. b \in Seq(Byte)
  BY <1>1, BytesType DEF Queue
<1> HIDE DEF p, b
<1>3. Queue(ln, p) /\ \A k \in 1..Len(q) : Bytes(ln, q[k]) \in Seq(Byte)
  <2>1. \A k \in 1..Len(q) : q[k] \in Nat /\ ln[q[k]].len \in Nat
    BY <1>1 DEF Queue
  <2>2. \A k \in 1..Len(p) : k + 1 \in 1..Len(q)
    BY <1>1
  <2> QED BY <1>1, <2>1, <2>2, BytesType DEF Queue
<1>4. PICK f : Upto(ln, q, Len(q), f) /\ Stream(ln, q) = f[Len(q)]
  BY StreamUpto
<1>5. PICK g : Upto(ln, p, Len(p), g) /\ Stream(ln, p) = g[Len(p)]
  BY <1>3, StreamUpto
<1> DEFINE S == {n \in Nat : n <= Len(p) => f[n + 1] = b \o g[n]}
<1>6. 0 \in S
  <2>1. f[1] = <<>> \o b
    <3>1. 1 \in 1..Len(q) /\ f[1 - 1] = <<>>
      BY <1>1, <1>4 DEF Upto
    <3> QED BY <1>4, <3>1 DEF Upto, b
  <2>2. f[0 + 1] = b \o <<>>
    BY <1>2, <2>1
  <2> QED BY <1>5, <2>2 DEF Upto
<1>7. ASSUME NEW n \in Nat, n \in S PROVE n + 1 \in S
  <2> SUFFICES ASSUME n + 1 <= Len(p) PROVE f[(n + 1) + 1] = b \o g[n + 1]
    OBVIOUS
  <2>1. f[n + 1] = b \o g[n] /\ n + 1 \in 1..Len(p) /\ (n + 1) - 1 = n /\ n \in 0..Len(p)
    BY <1>1, <1>7
  <2> DEFINE c == Bytes(ln, q[(n + 1) + 1])
  <2> HIDE DEF S
  <2>2. c \in Seq(Byte) /\ g[n] \in Seq(Byte)
    <3>1. (n + 1) + 1 \in 1..Len(q)
      BY <1>1, <2>1
    <3> QED BY <1>3, <1>5, <2>1, <3>1 DEF Upto
  <2>3. f[(n + 1) + 1] = f[n + 1] \o c
    <3>1. (n + 1) + 1 \in 1..Len(q) /\ ((n + 1) + 1) - 1 = n + 1
      BY <1>1, <2>1
    <3> HIDE DEF c
    <3>2. f[(n + 1) + 1] = f[((n + 1) + 1) - 1] \o c
      BY <1>4, <3>1 DEF Upto, c
    <3> QED BY <3>1, <3>2
  <2>4. g[n + 1] = g[n] \o c
    BY <1>1, <1>5, <2>1 DEF Upto
  <2> HIDE DEF c
  <2>5. (b \o g[n]) \o c = b \o (g[n] \o c)
    <3>1. \A u, v, w \in Seq(Byte) : (u \o v) \o w = u \o (v \o w)
      BY ConcatAssociative
    <3> QED BY <1>2, <2>2, <3>1
  <2> QED BY <2>1, <2>3, <2>4, <2>5
<1> HIDE DEF S
<1>8. Len(p) \in S
  BY <1>1, <1>6, <1>7, Induction
<1>9. f[Len(q)] = b \o g[Len(p)]
  BY <1>1, <1>8 DEF S
<1> QED BY <1>3, <1>4, <1>5, <1>9 DEF p, b

\* Every byte of the stream is of a line of the queue.
LEMMA StreamLines ==
    ASSUME NEW ln, NEW q, Queue(ln, q), NEW x \in 1..Len(Stream(ln, q))
    PROVE  \E k \in 1..Len(q) : Stream(ln, q)[x][1] = q[k]
<1>1. Len(q) \in Nat /\ q \in Seq(Nat)
  BY DEF Queue
<1>2. PICK f : Upto(ln, q, Len(q), f) /\ Stream(ln, q) = f[Len(q)]
  BY StreamUpto
<1> DEFINE Of(n, y) == \E k \in 1..Len(q) : f[n][y][1] = q[k]
           All(n) == n <= Len(q) => \A y \in 1..Len(f[n]) : Of(n, y)
           S == {n \in Nat : All(n)}
<1>3. All(0)
  BY <1>2 DEF Upto
<1>4. ASSUME NEW n \in Nat, All(n) PROVE All(n + 1)
  <2> SUFFICES ASSUME n + 1 <= Len(q), NEW y \in 1..Len(f[n + 1]) PROVE Of(n + 1, y)
    OBVIOUS
  <2>1. n + 1 \in 1..Len(q) /\ (n + 1) - 1 = n /\ n \in 0..Len(q) /\ n <= Len(q)
    BY <1>1
  <2> DEFINE b == Bytes(ln, q[n + 1])
  <2>2. /\ b \in Seq(Byte) /\ Len(b) = ln[q[n + 1]].len
        /\ \A j \in 1..Len(b) : b[j] = <<q[n + 1], j>>
    BY <1>1, <2>1, BytesType, SMTT(30) DEF Queue
  <2>3. f[n + 1] = f[n] \o b /\ f[n] \in Seq(Byte)
    BY <1>2, <2>1 DEF Upto
  <2> HIDE DEF b
  <2>4. CASE y <= Len(f[n])
    <3>1. y \in 1..Len(f[n]) /\ f[n + 1][y] = f[n][y]
      BY <2>2, <2>3, <2>4
    <3>2. Of(n, y)
      BY <1>4, <2>1, <3>1
    <3> QED BY <3>1, <3>2
  <2>5. CASE ~(y <= Len(f[n]))
    <3>1. y - Len(f[n]) \in 1..Len(b) /\ f[n + 1][y] = b[y - Len(f[n])]
      BY <2>2, <2>3, <2>5, SMTT(30)
    <3>2. f[n + 1][y][1] = q[n + 1]
      BY <2>2, <3>1, SMTT(30)
    <3> QED BY <2>1, <3>2
  <2> QED BY <2>4, <2>5
<1> HIDE DEF All
<1>5. 0 \in S /\ \A n \in Nat : n \in S => n + 1 \in S
  BY <1>3, <1>4
<1> HIDE DEF S
<1>6. Len(q) \in S
  BY <1>1, <1>5, Induction
<1>7. All(Len(q))
  BY <1>6 DEF S
<1> QED BY <1>1, <1>2, <1>7 DEF All

---------------------------------------------------------------------------
(* The part of the inductive invariant that is about data: the types, in   *)
(* which a count or a length is any integer, and how the queues stand to   *)
(* the lines.                                                              *)

LineRec == [len : Lens, refcount : Int, flushing : BOOLEAN]

DataTypes ==
    /\ line \in Seq(LineRec)
    /\ dead \subseteq Links
    /\ sendq \in [Links -> Seq(1..Len(line))]
    /\ qlen \in [Links -> Int] /\ writeofs \in [Links -> Nat]
    /\ got \in [Links -> Seq((1..Len(line)) \X Nat)]

\* The lines of a queue are in the order in which they were made, each once.
Sorted ==
    \A l \in Links : \A j, k \in 1..Len(sendq[l]) :
        j < k => sendq[l][j] < sendq[l][k]

\* An offset is inside the first line of its queue, and 0 where no byte of that
\* line has been offered to a socket yet: the flag of a shared line tells of
\* other queues only what is true of this one.
Offsets ==
    \A l \in Links :
        IF sendq[l] = <<>> THEN l \notin dead => writeofs[l] = 0
        ELSE /\ writeofs[l] < line[sendq[l][1]].len
             /\ ~line[sendq[l][1]].flushing => writeofs[l] = 0

\* The newest line, which is neither on the queue of l nor in its stream yet.
Fresh(l, i) ==
    /\ i = Len(line)
    /\ \A k \in 1..Len(sendq[l]) : sendq[l][k] # i
    /\ \A k \in 1..Len(got[l]) : got[l][k][1] # i

\* The calls that hold line i.
Holds(f, i) == f.op \in {"walk", "one"} /\ f.line = i
Holders(cs, i) == Cardinality({k \in DOMAIN cs : Holds(cs[k], i)})

---------------------------------------------------------------------------
(* What a step does to the lines, the queues and the streams: one of seven *)
(* things, whatever call it belongs to.                                    *)

Nothing ==
    /\ UNCHANGED <<line, sendq, qlen, writeofs, got>>
    /\ dead' = dead \/ \E l \in Links : dead' = dead \cup {l}

Makes(n) == line' = linebuf_new_line(n) /\ UNCHANGED <<sendq, qlen, writeofs, got, dead>>

LetsGo(i) == line' = Unref(line, i) /\ UNCHANGED <<sendq, qlen, writeofs, got, dead>>

Puts(l, i) ==
    /\ l \notin dead /\ Fresh(l, i)
    /\ linebuf_attach(l, i)
    /\ UNCHANGED <<got, dead>>

Drops(l) ==
    /\ linebuf_donebuf(l)
    /\ dead' = dead \cup {l}
    /\ UNCHANGED <<writeofs, got>>

Takes(l, n) ==
    /\ sendq[l] # <<>>
    /\ n <= line[Head(sendq[l])].len - WriteFrom(l)
    /\ got' = [got EXCEPT ![l] = @ \o [j \in 1..n |-> <<Head(sendq[l]), WriteFrom(l) + j>>]]
    /\ AfterWrite(l, n)
    /\ UNCHANGED dead

Blocks(l) ==
    /\ sendq[l] # <<>>
    /\ line' = [line EXCEPT ![Head(sendq[l])].flushing = TRUE]
    /\ writeofs' = [writeofs EXCEPT ![l] = WriteFrom(l)]
    /\ UNCHANGED <<sendq, qlen, got, dead>>

\* What the calls hold afterwards: the same, a line more, or a line less.
SameHolders == \A i \in 1..Len(line') : Holders(calls', i) = Holders(calls, i)
HolderMore(j) ==
    \A i \in 1..Len(line') : Holders(calls', i) = Holders(calls, i) + IF i = j THEN 1 ELSE 0
HolderLess(j) ==
    \A i \in 1..Len(line') : Holders(calls', i) = Holders(calls, i) - IF i = j THEN 1 ELSE 0

Effect ==
    \/ Nothing /\ SameHolders
    \/ \E n \in Lens : Makes(n) /\ Holders(calls, NewLine) = 0 /\ HolderMore(NewLine)
    \/ \E i \in 1..Len(line) : LetsGo(i) /\ HolderLess(i)
    \/ \E l \in Links, i \in 1..Len(line) : Puts(l, i) /\ SameHolders
    \/ \E l \in Links : Drops(l) /\ SameHolders
    \/ \E l \in Links, n \in Nat \ {0} : Takes(l, n) /\ SameHolders
    \/ \E l \in Links : Blocks(l) /\ SameHolders

\* No line is empty.
LEMMA LensNat == Lens \subseteq Nat \ {0}
BY SendAssumption DEF Lens

\* A queue and its lines.
LEMMA QueueFacts ==
    ASSUME DataTypes, NEW l \in Links
    PROVE  /\ sendq[l] \in Seq(1..Len(line)) /\ Len(sendq[l]) \in Nat /\ Len(line) \in Nat
           /\ DOMAIN sendq[l] = 1..Len(sendq[l])
           /\ \A k \in 1..Len(sendq[l]) : sendq[l][k] \in 1..Len(line)
           /\ \A i \in 1..Len(line) : line[i] \in LineRec /\ line[i].len \in Nat \ {0}
                                      /\ line[i].refcount \in Int /\ line[i].flushing \in BOOLEAN
           /\ Queue(line, sendq[l])
           /\ sendq[l] # <<>> =>
                /\ 1 \in 1..Len(sendq[l]) /\ Head(sendq[l]) = sendq[l][1]
                /\ Head(sendq[l]) \in 1..Len(line)
                /\ WriteFrom(l) \in Nat
<1>1. sendq[l] \in Seq(1..Len(line)) /\ Len(line) \in Nat /\ writeofs[l] \in Nat
  BY DEF DataTypes
<1>2. \A i \in 1..Len(line) : line[i] \in LineRec
  BY DEF DataTypes
<1>3. \A i \in 1..Len(line) : line[i].len \in Nat \ {0} /\ line[i].refcount \in Int
                              /\ line[i].flushing \in BOOLEAN
  BY <1>2, LensNat DEF LineRec
<1>4. /\ Len(sendq[l]) \in Nat /\ DOMAIN sendq[l] = 1..Len(sendq[l])
      /\ \A k \in 1..Len(sendq[l]) : sendq[l][k] \in 1..Len(line)
  BY <1>1
<1>5. Queue(line, sendq[l])
  <2>1. sendq[l] \in Seq(Nat)
    BY <1>1, SeqMonotonic
  <2> QED BY <1>3, <1>4, <2>1 DEF Queue
<1>6. sendq[l] # <<>> => 1 \in 1..Len(sendq[l]) /\ Head(sendq[l]) = sendq[l][1]
  BY <1>1
<1>7. sendq[l] # <<>> => Head(sendq[l]) \in 1..Len(line)
  BY <1>4, <1>6
<1>8. WriteFrom(l) \in Nat
  BY <1>1 DEF WriteFrom
<1> QED BY <1>1, <1>2, <1>3, <1>4, <1>5, <1>6, <1>7, <1>8

\* Making a line.
LEMMA MakesIs ==
    ASSUME DataTypes, NEW n \in Lens, Makes(n)
    PROVE  /\ line' \in Seq(LineRec) /\ Len(line') = Len(line) + 1 /\ Len(line) \in Nat
           /\ \A i \in 1..Len(line) : line'[i] = line[i]
           /\ line'[NewLine].refcount = 1
<1>1. line \in Seq(LineRec) /\ Len(line) \in Nat
  BY DEF DataTypes
<1>2. [len |-> n, refcount |-> 1, flushing |-> FALSE] \in LineRec
  BY DEF LineRec
<1>3. line' = Append(line, [len |-> n, refcount |-> 1, flushing |-> FALSE])
  BY DEF Makes, linebuf_new_line
<1>4. PICK r : r = [len |-> n, refcount |-> 1, flushing |-> FALSE]
  OBVIOUS
<1>5. r \in LineRec /\ line' = Append(line, r) /\ r.refcount = 1
  BY <1>2, <1>3, <1>4
<1>6. /\ line' \in Seq(LineRec) /\ Len(line') = Len(line) + 1
      /\ line'[Len(line) + 1] = r
      /\ \A i \in 1..Len(line) : line'[i] = line[i]
  <2> HIDE <1>2, <1>3, <1>4
  <2> QED BY <1>1, <1>5
<1> QED BY <1>1, <1>5, <1>6 DEF NewLine

\* Letting go of a line once.
LEMMA UnrefIs ==
    ASSUME NEW ln \in Seq(LineRec), NEW i \in 1..Len(ln)
    PROVE  LET m == Unref(ln, i)
           IN  /\ m \in Seq(LineRec) /\ Len(m) = Len(ln)
               /\ \A k \in 1..Len(ln) :
                    /\ m[k].len = ln[k].len /\ m[k].flushing = ln[k].flushing
                    /\ m[k].refcount = ln[k].refcount - IF k = i THEN 1 ELSE 0
<1> DEFINE m == Unref(ln, i)  r == [ln[i] EXCEPT !.refcount = @ - 1]
<1>1. ln[i] \in LineRec /\ \A k \in 1..Len(ln) : ln[k] \in LineRec
  OBVIOUS
<1>2. r \in LineRec /\ r.len = ln[i].len /\ r.flushing = ln[i].flushing
      /\ r.refcount = ln[i].refcount - 1
  <2>1. PICK e \in LineRec : e = ln[i]
    BY <1>1
  <2>2. PICK f : f = [e EXCEPT !.refcount = @ - 1]
    OBVIOUS
  <2>3. e.len \in Lens /\ e.refcount \in Int /\ e.flushing \in BOOLEAN
    BY DEF LineRec
  <2>4. f = [len |-> e.len, refcount |-> e.refcount - 1, flushing |-> e.flushing]
    BY <2>2 DEF LineRec
  <2>5. f \in LineRec
    BY <2>3, <2>4 DEF LineRec
  <2>6. f.len = e.len /\ f.flushing = e.flushing /\ f.refcount = e.refcount - 1
    BY <2>4
  <2> QED BY <2>1, <2>2, <2>5, <2>6
<1>3. m = [ln EXCEPT ![i] = r]
  BY DEF Unref
<1> HIDE DEF r
<1>4. /\ m \in Seq(LineRec) /\ Len(m) = Len(ln)
      /\ \A k \in 1..Len(ln) : m[k] = IF k = i THEN r ELSE ln[k]
  BY <1>2, <1>3, ExceptSeq
<1> HIDE DEF m
<1>5. ASSUME NEW k \in 1..Len(ln)
      PROVE  /\ m[k].len = ln[k].len /\ m[k].flushing = ln[k].flushing
             /\ m[k].refcount = ln[k].refcount - IF k = i THEN 1 ELSE 0
  <2>1. ln[k].refcount \in Int
    BY <1>1 DEF LineRec
  <2> QED BY <1>2, <1>4, <2>1
<1> QED BY <1>4, <1>5 DEF m

\* linebuf_attach puts a line at the end of one queue.
LEMMA PutsIs ==
    ASSUME DataTypes, NEW l \in Links, NEW i \in 1..Len(line), linebuf_attach(l, i)
    PROVE  /\ line' \in Seq(LineRec) /\ Len(line') = Len(line)
           /\ \A k \in 1..Len(line) :
                /\ line'[k].len = line[k].len /\ line'[k].flushing = line[k].flushing
                /\ line'[k].refcount = line[k].refcount + IF k = i THEN 1 ELSE 0
           /\ sendq'[l] = Append(sendq[l], i) /\ qlen'[l] = qlen[l] + line[i].len
           /\ \A m \in Links : m # l => sendq'[m] = sendq[m] /\ qlen'[m] = qlen[m]
           /\ sendq' \in [Links -> Seq(1..Len(line))] /\ qlen' \in [Links -> Int]
<1> DEFINE r == [line[i] EXCEPT !.refcount = @ + 1]
<1>1. line \in Seq(LineRec) /\ line[i] \in LineRec /\ \A k \in 1..Len(line) : line[k] \in LineRec
  BY DEF DataTypes
<1>2. r \in LineRec /\ r.len = line[i].len /\ r.flushing = line[i].flushing
      /\ r.refcount = line[i].refcount + 1
  BY <1>1 DEF LineRec
<1>3. line' = [line EXCEPT ![i] = r]
  BY DEF linebuf_attach
<1> HIDE DEF r
<1>4. /\ line' \in Seq(LineRec) /\ Len(line') = Len(line)
      /\ \A k \in 1..Len(line) : line'[k] = IF k = i THEN r ELSE line[k]
  BY <1>1, <1>2, <1>3, ExceptSeq
<1>5. ASSUME NEW k \in 1..Len(line)
      PROVE  /\ line'[k].len = line[k].len /\ line'[k].flushing = line[k].flushing
             /\ line'[k].refcount = line[k].refcount + IF k = i THEN 1 ELSE 0
  <2>1. line[k].refcount \in Int
    BY <1>1 DEF LineRec
  <2> QED BY <1>2, <1>4, <2>1
<1>6. sendq \in [Links -> Seq(1..Len(line))] /\ qlen \in [Links -> Int] /\ line[i].len \in Int
  BY QueueFacts DEF DataTypes
<1>7. Append(sendq[l], i) \in Seq(1..Len(line))
  BY <1>6
<1>8. sendq' = [sendq EXCEPT ![l] = Append(sendq[l], i)]
      /\ qlen' = [qlen EXCEPT ![l] = qlen[l] + line[i].len]
  BY DEF linebuf_attach
<1> QED BY <1>4, <1>5, <1>6, <1>7, <1>8

\* How often a line is on a queue on which each line is once.
LEMMA OccurrencesIs ==
    ASSUME NEW q \in Seq(Nat), \A j, k \in 1..Len(q) : j < k => q[j] < q[k], NEW i
    PROVE  Occurrences(i, q) = IF i \in ToSet(q) THEN 1 ELSE 0
<1> DEFINE K == {k \in DOMAIN q : q[k] = i}
<1>1. Len(q) \in Nat /\ DOMAIN q = 1..Len(q) /\ \A k \in 1..Len(q) : q[k] \in Nat
  OBVIOUS
<1>2. CASE i \in ToSet(q)
  <2>1. PICK k \in 1..Len(q) : q[k] = i
    BY <1>1, <1>2 DEF ToSet
  <2>2. \A m \in 1..Len(q) : q[m] = i => m = k
    BY <1>1, <2>1
  <2>3. K = {k}
    BY <1>1, <2>1, <2>2
  <2> HIDE DEF K
  <2> QED BY <1>2, <2>3, FS_Singleton DEF Occurrences, K
<1>3. CASE i \notin ToSet(q)
  <2>1. K = {}
    BY <1>3 DEF ToSet
  <2> QED BY <1>3, <2>1, FS_EmptySet DEF Occurrences
<1> QED BY <1>2, <1>3

\* linebuf_donebuf empties one queue and lets go of its lines.
LEMMA DropsIs ==
    ASSUME DataTypes, Sorted, NEW l \in Links, linebuf_donebuf(l)
    PROVE  /\ line' \in Seq(LineRec) /\ Len(line') = Len(line)
           /\ \A k \in 1..Len(line) :
                /\ line'[k].len = line[k].len /\ line'[k].flushing = line[k].flushing
                /\ line'[k].refcount =
                     line[k].refcount - IF k \in ToSet(sendq[l]) THEN 1 ELSE 0
           /\ sendq'[l] = <<>> /\ qlen'[l] = qlen[l] - Len(Stream(line, sendq[l]))
           /\ \A m \in Links : m # l => sendq'[m] = sendq[m] /\ qlen'[m] = qlen[m]
           /\ sendq' \in [Links -> Seq(1..Len(line))] /\ qlen' \in [Links -> Int]
<1> DEFINE c(k) == IF k \in ToSet(sendq[l]) THEN 1 ELSE 0
           r(k) == [line[k] EXCEPT !.refcount = @ - c(k)]
<1>1. /\ line \in Seq(LineRec) /\ Len(line) \in Nat /\ DOMAIN line = 1..Len(line)
      /\ \A k \in 1..Len(line) : line[k] \in LineRec
  BY DEF DataTypes
<1>2. \A k \in 1..Len(line) : Occurrences(k, sendq[l]) = c(k)
  <2>1. sendq[l] \in Seq(Nat)
    BY QueueFacts DEF Queue
  <2>2. \A j, k \in 1..Len(sendq[l]) : j < k => sendq[l][j] < sendq[l][k]
    BY DEF Sorted
  <2> QED BY <2>1, <2>2, OccurrencesIs
<1>3. \A k : c(k) \in Int
  OBVIOUS
<1>4. ASSUME NEW k \in 1..Len(line)
      PROVE  /\ line'[k] = r(k)
  <2>1. line' = [i \in DOMAIN line |-> [line[i] EXCEPT !.refcount = @ - Occurrences(i, sendq[l])]]
    BY DEF linebuf_donebuf
  <2> HIDE DEF c
  <2> QED BY <1>1, <1>2, <2>1
<1> HIDE DEF c
<1>5. ASSUME NEW k \in 1..Len(line)
      PROVE  r(k) \in LineRec /\ r(k).len = line[k].len /\ r(k).flushing = line[k].flushing
             /\ r(k).refcount = line[k].refcount - c(k)
  <2>1. line[k] \in [len : Lens, refcount : Int, flushing : BOOLEAN]
    BY <1>1 DEF LineRec
  <2>2. line[k].refcount - c(k) \in Int
    BY <1>3, <2>1
  <2> QED BY <2>1, <2>2 DEF LineRec
<1> HIDE DEF r
<1>6. line' \in Seq(LineRec) /\ Len(line') = Len(line)
  <2>1. line' = [i \in 1..Len(line) |-> line'[i]]
    BY <1>1 DEF linebuf_donebuf
  <2>2. \A i \in 1..Len(line) : line'[i] \in LineRec
    BY <1>4, <1>5
  <2> QED BY <1>1, <2>1, <2>2
<1>7. Len(Stream(line, sendq[l])) \in Int
  BY QueueFacts, StreamType
<1>8. sendq \in [Links -> Seq(1..Len(line))] /\ qlen \in [Links -> Int]
  BY DEF DataTypes
<1>9. sendq' = [sendq EXCEPT ![l] = <<>>]
      /\ qlen' = [qlen EXCEPT ![l] = qlen[l] - Len(Stream(line, sendq[l]))]
  BY DEF linebuf_donebuf
<1>10. <<>> \in Seq(1..Len(line))
  OBVIOUS
<1>11. /\ sendq'[l] = <<>> /\ qlen'[l] = qlen[l] - Len(Stream(line, sendq[l]))
       /\ \A m \in Links : m # l => sendq'[m] = sendq[m] /\ qlen'[m] = qlen[m]
       /\ sendq' \in [Links -> Seq(1..Len(line))] /\ qlen' \in [Links -> Int]
  BY <1>7, <1>8, <1>9, <1>10
<1> QED BY <1>4, <1>5, <1>6, <1>11 DEF c

\* Marking a line as being flushed.
LEMMA FlagIs ==
    ASSUME NEW ln \in Seq(LineRec), NEW i \in 1..Len(ln)
    PROVE  LET m == [ln EXCEPT ![i].flushing = TRUE]
           IN  /\ m \in Seq(LineRec) /\ Len(m) = Len(ln)
               /\ \A k \in 1..Len(ln) :
                    /\ m[k].len = ln[k].len /\ m[k].refcount = ln[k].refcount
                    /\ (m[k].flushing <=> ln[k].flushing \/ k = i)
<1> DEFINE m == [ln EXCEPT ![i].flushing = TRUE]  r == [ln[i] EXCEPT !.flushing = TRUE]
<1>1. ln[i] \in LineRec /\ \A k \in 1..Len(ln) : ln[k] \in LineRec
  OBVIOUS
<1>2. r \in LineRec /\ r.len = ln[i].len /\ r.flushing = TRUE /\ r.refcount = ln[i].refcount
  BY <1>1 DEF LineRec
<1>3. m = [ln EXCEPT ![i] = r]
  OBVIOUS
<1> HIDE DEF r, m
<1>4. /\ m \in Seq(LineRec) /\ Len(m) = Len(ln)
      /\ \A k \in 1..Len(ln) : m[k] = IF k = i THEN r ELSE ln[k]
  BY <1>2, <1>3, ExceptSeq
<1>5. ASSUME NEW k \in 1..Len(ln)
      PROVE  /\ m[k].len = ln[k].len /\ m[k].refcount = ln[k].refcount
             /\ (m[k].flushing <=> ln[k].flushing \/ k = i)
  <2>1. ln[k].flushing \in BOOLEAN
    BY <1>1 DEF LineRec
  <2>2. CASE k = i
    BY <1>2, <1>4, <2>2
  <2>3. CASE k # i
    BY <1>4, <2>1, <2>3
  <2> QED BY <2>2, <2>3
<1> QED BY <1>4, <1>5 DEF m

\* The offset a flush starts from is the one kept in the queue.
LEMMA WriteFromIs ==
    ASSUME DataTypes, Offsets, NEW l \in Links, sendq[l] # <<>>
    PROVE  /\ WriteFrom(l) = writeofs[l] /\ writeofs[l] \in Nat
           /\ writeofs[l] < line[Head(sendq[l])].len
BY QueueFacts DEF WriteFrom, Offsets, DataTypes

\* A write of n bytes, which may be the last of its line.
LEMMA TakesIs ==
    ASSUME DataTypes, Offsets, NEW l \in Links, NEW n \in Nat \ {0}, Takes(l, n)
    PROVE  LET i == sendq[l][1]
               o == writeofs[l] + n
               done == o = line[i].len
           IN  /\ i \in 1..Len(line) /\ o \in Nat /\ o <= line[i].len
               /\ line' \in Seq(LineRec) /\ Len(line') = Len(line)
               /\ \A k \in 1..Len(line) :
                    /\ line'[k].len = line[k].len
                    /\ (line'[k].flushing <=> line[k].flushing \/ k = i)
                    /\ line'[k].refcount = line[k].refcount - IF done /\ k = i THEN 1 ELSE 0
               /\ sendq'[l] = IF done THEN Tail(sendq[l]) ELSE sendq[l]
               /\ qlen'[l] = qlen[l] - IF done THEN line[i].len ELSE 0
               /\ writeofs'[l] = IF done THEN 0 ELSE o
               /\ got'[l] = got[l] \o [j \in 1..n |-> <<i, writeofs[l] + j>>]
               /\ \A m \in Links : m # l =>
                    /\ sendq'[m] = sendq[m] /\ qlen'[m] = qlen[m]
                    /\ writeofs'[m] = writeofs[m] /\ got'[m] = got[m]
               /\ sendq' \in [Links -> Seq(1..Len(line))] /\ qlen' \in [Links -> Int]
               /\ writeofs' \in [Links -> Nat]
               /\ got' \in [Links -> Seq((1..Len(line)) \X Nat)]
<1> DEFINE i == sendq[l][1]
           w == writeofs[l]
           o == w + n
           done == o = line[i].len
           flushed == [line EXCEPT ![i].flushing = TRUE]
<1>1. /\ i = Head(sendq[l]) /\ i \in 1..Len(line) /\ line \in Seq(LineRec) /\ Len(line) \in Nat
      /\ \A k \in 1..Len(line) : line[k].refcount \in Int /\ line[k].len \in Nat
      /\ sendq[l] # <<>> /\ sendq[l] \in Seq(1..Len(line))
  BY QueueFacts DEF DataTypes, Takes
<1>2. w = WriteFrom(l) /\ w \in Nat
  BY <1>1, WriteFromIs
<1>3. o \in Nat /\ o <= line[i].len
  BY <1>1, <1>2 DEF Takes
<1>4. /\ flushed \in Seq(LineRec) /\ Len(flushed) = Len(line)
      /\ \A k \in 1..Len(line) :
           /\ flushed[k].len = line[k].len /\ flushed[k].refcount = line[k].refcount
           /\ (flushed[k].flushing <=> line[k].flushing \/ k = i)
  BY <1>1, FlagIs
<1>5. /\ sendq \in [Links -> Seq(1..Len(line))] /\ qlen \in [Links -> Int]
      /\ writeofs \in [Links -> Nat] /\ got \in [Links -> Seq((1..Len(line)) \X Nat)]
  BY DEF DataTypes
<1>6. /\ got' = [got EXCEPT ![l] = got[l] \o [j \in 1..n |-> <<i, w + j>>]]
      /\ IF done
         THEN /\ writeofs' = [writeofs EXCEPT ![l] = 0]
              /\ line' = Unref(flushed, i)
              /\ sendq' = [sendq EXCEPT ![l] = Tail(sendq[l])]
              /\ qlen' = [qlen EXCEPT ![l] = qlen[l] - line[i].len]
         ELSE /\ writeofs' = [writeofs EXCEPT ![l] = o]
              /\ line' = flushed
              /\ UNCHANGED <<sendq, qlen>>
  BY <1>1, <1>2 DEF Takes, AfterWrite
<1> HIDE DEF i, w, o, flushed, done
<1>7. /\ got'[l] = got[l] \o [j \in 1..n |-> <<i, w + j>>]
      /\ \A m \in Links : m # l => got'[m] = got[m]
      /\ got' \in [Links -> Seq((1..Len(line)) \X Nat)]
  <2>1. [j \in 1..n |-> <<i, w + j>>] \in Seq((1..Len(line)) \X Nat)
    BY <1>1, <1>2
  <2>2. got[l] \o [j \in 1..n |-> <<i, w + j>>] \in Seq((1..Len(line)) \X Nat)
    BY <1>5, <2>1, ConcatProperties
  <2> QED BY <1>5, <1>6, <2>2
<1>8. CASE done
  <2>1. /\ line' \in Seq(LineRec) /\ Len(line') = Len(line)
        /\ \A k \in 1..Len(line) :
             /\ line'[k].len = line[k].len
             /\ (line'[k].flushing <=> line[k].flushing \/ k = i)
             /\ line'[k].refcount = line[k].refcount - IF k = i THEN 1 ELSE 0
    <3>1. i \in 1..Len(flushed) /\ line' = Unref(flushed, i)
      BY <1>1, <1>4, <1>6, <1>8
    <3> QED BY <1>4, <3>1, UnrefIs
  <2>2. /\ sendq'[l] = Tail(sendq[l]) /\ qlen'[l] = qlen[l] - line[i].len /\ writeofs'[l] = 0
        /\ \A m \in Links : m # l =>
             sendq'[m] = sendq[m] /\ qlen'[m] = qlen[m] /\ writeofs'[m] = writeofs[m]
    BY <1>5, <1>6, <1>8
  <2>3. Tail(sendq[l]) \in Seq(1..Len(line)) /\ qlen[l] - line[i].len \in Int
    BY <1>1, <1>5
  <2>4. sendq' \in [Links -> Seq(1..Len(line))] /\ qlen' \in [Links -> Int]
        /\ writeofs' \in [Links -> Nat]
    <3>1. sendq' = [sendq EXCEPT ![l] = Tail(sendq[l])]
          /\ qlen' = [qlen EXCEPT ![l] = qlen[l] - line[i].len]
          /\ writeofs' = [writeofs EXCEPT ![l] = 0]
      BY <1>6, <1>8
    <3>2. sendq' \in [Links -> Seq(1..Len(line))]
      BY <1>5, <2>3, <3>1
    <3>3. qlen' \in [Links -> Int]
      BY <1>5, <2>3, <3>1
    <3>4. writeofs' \in [Links -> Nat]
      BY <1>5, <3>1
    <3> QED BY <3>2, <3>3, <3>4
  <2>5. \A k \in 1..Len(line) :
             /\ line'[k].len = line[k].len
             /\ (line'[k].flushing <=> line[k].flushing \/ k = i)
             /\ line'[k].refcount = line[k].refcount - IF done /\ k = i THEN 1 ELSE 0
    BY <1>8, <2>1
  <2> QED BY <1>1, <1>2, <1>3, <1>7, <1>8, <2>1, <2>2, <2>4, <2>5 DEF i, w, o, done
<1>9. CASE ~done
  <2>1. \A k \in 1..Len(line) : line[k].refcount - 0 = line[k].refcount
    BY <1>1
  <2>2. /\ sendq'[l] = sendq[l] /\ qlen'[l] = qlen[l] - 0 /\ writeofs'[l] = o
        /\ \A m \in Links : m # l =>
             sendq'[m] = sendq[m] /\ qlen'[m] = qlen[m] /\ writeofs'[m] = writeofs[m]
        /\ sendq' \in [Links -> Seq(1..Len(line))] /\ qlen' \in [Links -> Int]
        /\ writeofs' \in [Links -> Nat]
    <3>1. writeofs' = [writeofs EXCEPT ![l] = o] /\ sendq' = sendq /\ qlen' = qlen
      BY <1>6, <1>9
    <3>2. writeofs' \in [Links -> Nat] /\ writeofs'[l] = o
          /\ \A m \in Links : m # l => writeofs'[m] = writeofs[m]
      BY <1>3, <1>5, <3>1
    <3>3. qlen[l] \in Int
      BY <1>5
    <3> QED BY <1>5, <3>1, <3>2, <3>3
  <2>3. line' = flushed
    BY <1>6, <1>9
  <2>5. \A k \in 1..Len(line) :
             /\ line'[k].len = line[k].len
             /\ (line'[k].flushing <=> line[k].flushing \/ k = i)
             /\ line'[k].refcount = line[k].refcount - IF done /\ k = i THEN 1 ELSE 0
    BY <1>4, <1>9, <2>1, <2>3
  <2>6. line' \in Seq(LineRec) /\ Len(line') = Len(line)
    BY <1>4, <2>3
  <2> QED BY <1>1, <1>2, <1>3, <1>7, <1>9, <2>2, <2>5, <2>6 DEF i, w, o, done
<1> QED BY <1>8, <1>9

\* A write of none.
LEMMA BlocksIs ==
    ASSUME DataTypes, Offsets, NEW l \in Links, Blocks(l)
    PROVE  LET i == sendq[l][1]
           IN  /\ i \in 1..Len(line)
               /\ line' \in Seq(LineRec) /\ Len(line') = Len(line)
               /\ \A k \in 1..Len(line) :
                    /\ line'[k].len = line[k].len /\ line'[k].refcount = line[k].refcount
                    /\ (line'[k].flushing <=> line[k].flushing \/ k = i)
               /\ writeofs' = writeofs
<1>1. /\ sendq[l][1] = Head(sendq[l]) /\ Head(sendq[l]) \in 1..Len(line)
      /\ line \in Seq(LineRec) /\ sendq[l] # <<>>
  BY QueueFacts DEF DataTypes, Blocks
<1>2. writeofs' = [writeofs EXCEPT ![l] = writeofs[l]]
  BY <1>1, WriteFromIs DEF Blocks
<1>3. writeofs' = writeofs
  BY <1>2 DEF DataTypes
<1>4. line' = [line EXCEPT ![sendq[l][1]].flushing = TRUE]
  BY <1>1 DEF Blocks
<1> DEFINE i == sendq[l][1]  flushed == [line EXCEPT ![i].flushing = TRUE]
<1>5. i \in 1..Len(line) /\ line' = flushed
  BY <1>1, <1>4
<1> HIDE DEF i
<1>7. /\ flushed \in Seq(LineRec) /\ Len(flushed) = Len(line)
      /\ \A k \in 1..Len(line) :
           /\ flushed[k].len = line[k].len /\ flushed[k].refcount = line[k].refcount
           /\ (flushed[k].flushing <=> line[k].flushing \/ k = i)
  BY <1>1, <1>5, FlagIs
<1> HIDE DEF flushed
<1>6. /\ line' \in Seq(LineRec) /\ Len(line') = Len(line)
      /\ \A k \in 1..Len(line) :
           /\ line'[k].len = line[k].len /\ line'[k].refcount = line[k].refcount
           /\ (line'[k].flushing <=> line[k].flushing \/ k = i)
  BY <1>5, <1>7
<1> QED BY <1>3, <1>5, <1>6 DEF i

---------------------------------------------------------------------------
(* The types, the order of the queues and the offsets are kept.            *)

\* What every step does to the lines and to the links that are given up.
Grows ==
    /\ line' \in Seq(LineRec) /\ Len(line') \in Nat /\ Len(line) \in Nat
    /\ Len(line') >= Len(line)
    /\ \A k \in 1..Len(line) :
         line'[k].len = line[k].len /\ (line[k].flushing => line'[k].flushing)
    /\ dead' \subseteq Links /\ dead \subseteq dead'

\* Making a line changes no line there is.
LEMMA MakesGrow ==
    ASSUME DataTypes, NEW n \in Lens, Makes(n)
    PROVE  Grows
<1>1. dead \subseteq Links /\ line \in Seq(LineRec) /\ Len(line) \in Nat
  BY DEF DataTypes
<1> QED BY <1>1, MakesIs DEF Makes, Grows

\* No effect changes the length of a line.
LEMMA EffectGrows ==
    ASSUME DataTypes, Sorted, Offsets, Effect
    PROVE  Grows
<1>0. dead \subseteq Links /\ line \in Seq(LineRec) /\ Len(line) \in Nat
  BY DEF DataTypes
<1>1. CASE Nothing
  BY <1>0, <1>1 DEF Nothing, Grows
<1>2. ASSUME NEW n \in Lens, Makes(n) PROVE Grows
  BY <1>2, MakesGrow
<1>3. ASSUME NEW i \in 1..Len(line), LetsGo(i) PROVE Grows
  <2>1. line' = Unref(line, i) /\ dead' = dead
    BY <1>3 DEF LetsGo
  <2> QED BY <1>0, <2>1, UnrefIs DEF Grows
<1>4. ASSUME NEW l \in Links, NEW i \in 1..Len(line), Puts(l, i) PROVE Grows
  BY <1>0, <1>4, PutsIs DEF Puts, Grows
<1>5. ASSUME NEW l \in Links, Drops(l) PROVE Grows
  BY <1>0, <1>5, DropsIs DEF Drops, Grows
<1>6. ASSUME NEW l \in Links, NEW n \in Nat \ {0}, Takes(l, n) PROVE Grows
  <2>1. /\ line' \in Seq(LineRec) /\ Len(line') = Len(line)
        /\ \A k \in 1..Len(line) :
             line'[k].len = line[k].len /\ (line[k].flushing => line'[k].flushing)
    BY <1>6, TakesIs
  <2>2. dead' = dead
    BY <1>6 DEF Takes
  <2> QED BY <1>0, <2>1, <2>2 DEF Grows
<1>7. ASSUME NEW l \in Links, Blocks(l) PROVE Grows
  <2>1. /\ line' \in Seq(LineRec) /\ Len(line') = Len(line)
        /\ \A k \in 1..Len(line) :
             line'[k].len = line[k].len /\ (line[k].flushing => line'[k].flushing)
    BY <1>7, BlocksIs
  <2>2. dead' = dead
    BY <1>7 DEF Blocks
  <2> QED BY <1>0, <2>1, <2>2 DEF Grows
<1> QED BY <1>1, <1>2, <1>3, <1>4, <1>5, <1>6, <1>7 DEF Effect

\* A queue that stays as it is has the same bytes.
LEMMA SameStream ==
    ASSUME DataTypes, Grows, NEW l \in Links
    PROVE  Queue(line', sendq[l]) /\ Stream(line', sendq[l]) = Stream(line, sendq[l])
<1>1. Queue(line, sendq[l]) /\ \A k \in 1..Len(sendq[l]) : sendq[l][k] \in 1..Len(line)
  BY QueueFacts
<1>2. \A k \in 1..Len(sendq[l]) : line'[sendq[l][k]].len = line[sendq[l][k]].len
  BY <1>1 DEF Grows
<1> QED BY <1>1, <1>2, StreamSame, SMTT(30)

\* So has its offset the same meaning.
LEMMA SameOffset ==
    ASSUME DataTypes, Offsets, Grows, NEW l \in Links,
           sendq'[l] = sendq[l], writeofs'[l] = writeofs[l]
    PROVE  IF sendq'[l] = <<>> THEN l \notin dead' => writeofs'[l] = 0
           ELSE /\ writeofs'[l] < line'[sendq'[l][1]].len
                /\ ~line'[sendq'[l][1]].flushing => writeofs'[l] = 0
<1>1. sendq[l] # <<>> => sendq[l][1] \in 1..Len(line)
  BY QueueFacts
<1>2. CASE sendq[l] = <<>>
  BY <1>2 DEF Offsets, Grows
<1>3. CASE sendq[l] # <<>>
  <2>1. line'[sendq[l][1]].len = line[sendq[l][1]].len
        /\ (line[sendq[l][1]].flushing => line'[sendq[l][1]].flushing)
    BY <1>1, <1>3 DEF Grows
  <2>2. writeofs[l] < line[sendq[l][1]].len /\ (~line[sendq[l][1]].flushing => writeofs[l] = 0)
    BY <1>3 DEF Offsets
  <2> QED BY <1>3, <2>1, <2>2
<1> QED BY <1>2, <1>3

\* The steps that leave the queues alone.
LEMMA SteadyStep ==
    ASSUME DataTypes, Sorted, Offsets, Grows, UNCHANGED <<sendq, qlen, writeofs, got>>
    PROVE  DataTypes' /\ Sorted' /\ Offsets'
<1>1. 1..Len(line) \subseteq 1..Len(line')
  BY DEF Grows
<1>2. DataTypes'
  <2>1. Seq(1..Len(line)) \subseteq Seq(1..Len(line'))
    BY <1>1, SeqMonotonic
  <2>2. Seq((1..Len(line)) \X Nat) \subseteq Seq((1..Len(line')) \X Nat)
    <3>1. (1..Len(line)) \X Nat \subseteq (1..Len(line')) \X Nat
      BY <1>1
    <3> QED BY <3>1, SeqMonotonic
  <2>3. sendq' \in [Links -> Seq(1..Len(line'))]
    BY <2>1 DEF DataTypes
  <2>4. got' \in [Links -> Seq((1..Len(line')) \X Nat)]
    BY <2>2 DEF DataTypes
  <2> QED BY <2>3, <2>4 DEF DataTypes, Grows
<1>3. Sorted'
  BY DEF Sorted
<1>4. Offsets'
  BY SameOffset DEF Offsets
<1> QED BY <1>2, <1>3, <1>4

\* Putting a line keeps the queues sorted and the offsets in their lines.
LEMMA PutsStep ==
    ASSUME DataTypes, Sorted, Offsets, Grows,
           NEW l \in Links, NEW i \in 1..Len(line), Puts(l, i)
    PROVE  DataTypes' /\ Sorted' /\ Offsets'
<1> DEFINE q == sendq[l]
<1>1. /\ Len(line') = Len(line) /\ sendq'[l] = Append(q, i)
      /\ \A m \in Links : m # l => sendq'[m] = sendq[m]
      /\ sendq' \in [Links -> Seq(1..Len(line))] /\ qlen' \in [Links -> Int]
      /\ line'[i].len = line[i].len
  BY PutsIs DEF Puts
<1>2. UNCHANGED <<writeofs, got, dead>> /\ l \notin dead /\ i = Len(line)
      /\ \A k \in 1..Len(q) : q[k] # i
  BY DEF Puts, linebuf_attach, Fresh
<1>3. DataTypes'
  BY <1>1, <1>2 DEF DataTypes, Grows
<1>4. /\ q \in Seq(1..Len(line)) /\ Len(q) \in Nat /\ line[i].len \in Nat \ {0}
      /\ \A k \in 1..Len(q) : q[k] \in 1..Len(line)
  BY QueueFacts
<1> HIDE DEF q
<1>5. /\ Len(Append(q, i)) = Len(q) + 1 /\ Append(q, i)[Len(q) + 1] = i
      /\ \A k \in 1..Len(q) : Append(q, i)[k] = q[k]
      /\ Append(q, i) # <<>>
  BY <1>4
<1>6. Sorted'
  <2> SUFFICES ASSUME NEW m \in Links, NEW j \in 1..Len(sendq'[m]),
                      NEW k \in 1..Len(sendq'[m]), j < k
               PROVE  sendq'[m][j] < sendq'[m][k]
    BY DEF Sorted
  <2>1. CASE m # l
    BY <1>1, <2>1 DEF Sorted
  <2>2. CASE m = l /\ k = Len(q) + 1
    <3>1. j \in 1..Len(q) /\ q[j] # i /\ q[j] \in 1..Len(line)
      BY <1>1, <1>2, <1>4, <1>5, <2>2
    <3> QED BY <1>1, <1>2, <1>5, <2>2, <3>1, SMTT(30)
  <2>3. CASE m = l /\ k # Len(q) + 1
    <3>1. j \in 1..Len(q) /\ k \in 1..Len(q)
      BY <1>1, <1>4, <1>5, <2>3, SMTT(30)
    <3>2. q[j] < q[k]
      BY <3>1 DEF Sorted, q
    <3> QED BY <1>1, <1>5, <2>3, <3>1, <3>2
  <2> QED BY <2>1, <2>2, <2>3
<1>7. Offsets'
  <2> SUFFICES ASSUME NEW m \in Links
               PROVE  IF sendq'[m] = <<>> THEN m \notin dead' => writeofs'[m] = 0
                      ELSE /\ writeofs'[m] < line'[sendq'[m][1]].len
                           /\ ~line'[sendq'[m][1]].flushing => writeofs'[m] = 0
    BY DEF Offsets
  <2>1. CASE m # l
    BY <1>1, <1>2, <2>1, SameOffset
  <2>2. CASE m = l /\ q = <<>>
    <3>1. writeofs[l] = 0
      BY <1>2, <2>2 DEF Offsets, q
    <3>2. sendq'[l][1] = i /\ sendq'[l] # <<>>
      BY <1>1, <1>5, <2>2
    <3> QED BY <1>1, <1>2, <1>4, <2>2, <3>1, <3>2
  <2>3. CASE m = l /\ q # <<>>
    <3>1. 1 \in 1..Len(q)
      BY <1>4, <2>3
    <3>2. sendq'[l][1] = q[1] /\ sendq'[l] # <<>> /\ q[1] \in 1..Len(line)
      BY <1>1, <1>4, <1>5, <3>1
    <3>3. line'[q[1]].len = line[q[1]].len /\ (line[q[1]].flushing => line'[q[1]].flushing)
      BY <3>2 DEF Grows
    <3>4. writeofs[l] < line[q[1]].len /\ (~line[q[1]].flushing => writeofs[l] = 0)
      BY <2>3 DEF Offsets, q
    <3> QED BY <1>2, <2>3, <3>2, <3>3, <3>4
  <2> QED BY <2>1, <2>2, <2>3
<1> QED BY <1>3, <1>6, <1>7

\* So does dropping a queue.
LEMMA DropsStep ==
    ASSUME DataTypes, Sorted, Offsets, Grows, NEW l \in Links, Drops(l)
    PROVE  DataTypes' /\ Sorted' /\ Offsets'
<1>1. /\ Len(line') = Len(line) /\ sendq'[l] = <<>>
      /\ \A m \in Links : m # l => sendq'[m] = sendq[m]
      /\ sendq' \in [Links -> Seq(1..Len(line))] /\ qlen' \in [Links -> Int]
      /\ UNCHANGED <<writeofs, got>> /\ l \in dead'
  BY DropsIs DEF Drops
<1>2. DataTypes'
  BY <1>1 DEF DataTypes, Grows
<1>3. Sorted'
  <2> SUFFICES ASSUME NEW m \in Links, NEW j \in 1..Len(sendq'[m]),
                      NEW k \in 1..Len(sendq'[m]), j < k
               PROVE  sendq'[m][j] < sendq'[m][k]
    BY DEF Sorted
  <2>1. m # l
    BY <1>1
  <2> QED BY <1>1, <2>1 DEF Sorted
<1>4. Offsets'
  <2> SUFFICES ASSUME NEW m \in Links
               PROVE  IF sendq'[m] = <<>> THEN m \notin dead' => writeofs'[m] = 0
                      ELSE /\ writeofs'[m] < line'[sendq'[m][1]].len
                           /\ ~line'[sendq'[m][1]].flushing => writeofs'[m] = 0
    BY DEF Offsets
  <2>1. CASE m # l
    BY <1>1, <2>1, SameOffset
  <2>2. CASE m = l
    BY <1>1, <2>2
  <2> QED BY <2>1, <2>2
<1> QED BY <1>2, <1>3, <1>4

\* So does a write.
LEMMA TakesStep ==
    ASSUME DataTypes, Sorted, Offsets, Grows,
           NEW l \in Links, NEW n \in Nat \ {0}, Takes(l, n)
    PROVE  DataTypes' /\ Sorted' /\ Offsets'
<1> DEFINE q == sendq[l]
           i == q[1]
           o == writeofs[l] + n
           done == o = line[i].len
<1>1. /\ Len(line') = Len(line) /\ i \in 1..Len(line) /\ o \in Nat /\ o <= line[i].len
      /\ sendq'[l] = IF done THEN Tail(q) ELSE q
      /\ writeofs'[l] = IF done THEN 0 ELSE o
      /\ line'[i].len = line[i].len /\ line'[i].flushing
      /\ \A m \in Links : m # l => sendq'[m] = sendq[m] /\ writeofs'[m] = writeofs[m]
      /\ sendq' \in [Links -> Seq(1..Len(line))] /\ qlen' \in [Links -> Int]
      /\ writeofs' \in [Links -> Nat]
      /\ got' \in [Links -> Seq((1..Len(line)) \X Nat)]
  BY TakesIs
<1>2. DataTypes'
  BY <1>1 DEF DataTypes, Grows
<1>3. /\ q \in Seq(1..Len(line)) /\ Len(q) \in Nat /\ q # <<>>
      /\ \A k \in 1..Len(q) : q[k] \in 1..Len(line)
      /\ \A k \in 1..Len(line) : line[k].len \in Nat \ {0}
  BY QueueFacts DEF Takes
<1>4. \A j, k \in 1..Len(q) : j < k => q[j] < q[k]
  BY DEF Sorted
<1>0. sendq[l] = q
  OBVIOUS
<1> HIDE DEF q, o
<1>5. /\ Tail(q) \in Seq(1..Len(line)) /\ Len(Tail(q)) = Len(q) - 1
      /\ \A k \in 1..Len(Tail(q)) : Tail(q)[k] = q[k + 1] /\ k + 1 \in 1..Len(q)
  BY <1>3
<1>6. Sorted'
  <2> SUFFICES ASSUME NEW m \in Links, NEW j \in 1..Len(sendq'[m]),
                      NEW k \in 1..Len(sendq'[m]), j < k
               PROVE  sendq'[m][j] < sendq'[m][k]
    BY DEF Sorted
  <2>1. CASE m # l
    BY <1>1, <2>1 DEF Sorted
  <2>2. CASE m = l /\ done
    <3>1. j \in 1..Len(Tail(q)) /\ k \in 1..Len(Tail(q)) /\ sendq'[l] = Tail(q)
      BY <1>1, <2>2
    <3>2. j + 1 < k + 1
      OBVIOUS
    <3> QED BY <1>4, <1>5, <2>2, <3>1, <3>2
  <2>3. CASE m = l /\ ~done
    BY <1>1, <1>4, <2>3
  <2> QED BY <2>1, <2>2, <2>3
<1>7. Offsets'
  <2> SUFFICES ASSUME NEW m \in Links
               PROVE  IF sendq'[m] = <<>> THEN m \notin dead' => writeofs'[m] = 0
                      ELSE /\ writeofs'[m] < line'[sendq'[m][1]].len
                           /\ ~line'[sendq'[m][1]].flushing => writeofs'[m] = 0
    BY DEF Offsets
  <2>1. CASE m # l
    BY <1>1, <2>1, SameOffset
  <2>2. CASE m = l /\ done
    <3>1. sendq'[l] = Tail(q) /\ writeofs'[l] = 0
      BY <1>1, <2>2
    <3>2. CASE Tail(q) # <<>>
      <4>1. 1 \in 1..Len(Tail(q))
        BY <1>5, <3>2
      <4>2. Tail(q)[1] \in 1..Len(line)
        BY <1>3, <1>5, <4>1
      <4>3. line'[Tail(q)[1]].len \in Nat \ {0}
        BY <1>3, <4>2 DEF Grows
      <4> QED BY <2>2, <3>1, <3>2, <4>3
    <3>3. CASE Tail(q) = <<>>
      BY <2>2, <3>1, <3>3
    <3> QED BY <3>2, <3>3
  <2>3. CASE m = l /\ ~done
    <3>1. sendq'[l] = q /\ writeofs'[l] = o
      BY <1>1, <2>3
    <3>2. o < line'[i].len
      BY <1>1, <1>3, <2>3
    <3> QED BY <1>1, <1>3, <2>3, <3>1, <3>2
  <2> QED BY <2>1, <2>2, <2>3
<1> QED BY <1>2, <1>6, <1>7

\* So does each of the effects.
LEMMA DataStep ==
    ASSUME DataTypes, Sorted, Offsets, Effect
    PROVE  DataTypes' /\ Sorted' /\ Offsets'
<1>0. Grows
  BY EffectGrows
<1>1. CASE Nothing
  BY <1>0, <1>1, SteadyStep DEF Nothing
<1>2. ASSUME NEW n \in Lens, Makes(n) PROVE DataTypes' /\ Sorted' /\ Offsets'
  BY <1>0, <1>2, SteadyStep DEF Makes
<1>3. ASSUME NEW i \in 1..Len(line), LetsGo(i) PROVE DataTypes' /\ Sorted' /\ Offsets'
  BY <1>0, <1>3, SteadyStep DEF LetsGo
<1>4. ASSUME NEW l \in Links, Blocks(l) PROVE DataTypes' /\ Sorted' /\ Offsets'
  <2>1. UNCHANGED <<sendq, qlen, writeofs, got>>
    BY <1>4, BlocksIs DEF Blocks
  <2> QED BY <1>0, <2>1, SteadyStep
<1> QED BY <1>0, <1>1, <1>2, <1>3, <1>4, PutsStep, DropsStep, TakesStep DEF Effect

---------------------------------------------------------------------------
(* The reference counts.                                                   *)

\* The links on whose queue line i is.
Held(i) == {l \in Links : i \in ToSet(sendq[l])}

Refs == \A i \in 1..Len(line) : line[i].refcount = Cardinality(Held(i)) + Holders(calls, i)
Lengths == \A l \in Links : qlen[l] = Len(Stream(line, sendq[l]))

\* RefcountsMatch, line by line and queue by queue.
LEMMA RefsMean == DataTypes => (RefcountsMatch <=> Refs /\ Lengths)
<1> SUFFICES ASSUME DataTypes PROVE RefcountsMatch <=> Refs /\ Lengths
  OBVIOUS
<1>1. DOMAIN line = 1..Len(line)
  BY DEF DataTypes
<1> QED BY <1>1 DEF RefcountsMatch, Refs, Lengths, Held, Holders, Holds

\* A line is on finitely many queues.
LEMMA HeldFinite ==
    ASSUME NEW i
    PROVE  IsFiniteSet(Held(i)) /\ Cardinality(Held(i)) \in Nat
<1>1. Held(i) \subseteq Links /\ IsFiniteSet(Links)
  BY SendAssumption DEF Held
<1>2. IsFiniteSet(Held(i))
  BY <1>1, FS_Subset
<1> QED BY <1>2, FS_CardinalityType

\* The queues that stay as they are have the same lengths.
LEMMA SameLengths ==
    ASSUME DataTypes, Grows, Lengths, NEW l \in Links,
           sendq'[l] = sendq[l], qlen'[l] = qlen[l]
    PROVE  qlen'[l] = Len(Stream(line', sendq'[l]))
BY SameStream DEF Lengths

\* Putting a line counts one reference more.
LEMMA PutsCount ==
    ASSUME DataTypes, Sorted, Offsets, Grows, Refs, Lengths,
           NEW l \in Links, NEW i \in 1..Len(line), Puts(l, i), SameHolders,
           \A k \in 1..Len(line) : Holders(calls, k) \in Nat
    PROVE  Refs' /\ Lengths'
<1> DEFINE q == sendq[l]
<1>1. /\ Len(line') = Len(line) /\ sendq'[l] = Append(q, i) /\ qlen'[l] = qlen[l] + line[i].len
      /\ \A m \in Links : m # l => sendq'[m] = sendq[m] /\ qlen'[m] = qlen[m]
      /\ \A k \in 1..Len(line) :
           line'[k].refcount = line[k].refcount + IF k = i THEN 1 ELSE 0
  BY PutsIs DEF Puts
<1>2. \A k \in 1..Len(q) : q[k] # i
  BY DEF Puts, Fresh
<1>3. /\ q \in Seq(1..Len(line)) /\ Len(q) \in Nat /\ line[i].len \in Nat
      /\ DOMAIN q = 1..Len(q) /\ Queue(line, q) /\ i \in Nat
  BY QueueFacts
<1>4. ToSet(Append(q, i)) = ToSet(q) \cup {i} /\ i \notin ToSet(q)
  <2> HIDE DEF q
  <2>1. /\ DOMAIN Append(q, i) = 1..(Len(q) + 1) /\ Append(q, i)[Len(q) + 1] = i
        /\ \A k \in 1..Len(q) : Append(q, i)[k] = q[k]
    BY <1>3
  <2>2. \A x : x \in ToSet(Append(q, i)) <=> x \in ToSet(q) \/ x = i
    <3>1. \A k \in 1..(Len(q) + 1) : k \in 1..Len(q) \/ k = Len(q) + 1
      BY <1>3
    <3>2. Len(q) + 1 \in 1..(Len(q) + 1) /\ 1..Len(q) \subseteq 1..(Len(q) + 1)
      BY <1>3
    <3> QED BY <1>3, <2>1, <3>1, <3>2 DEF ToSet
  <2>3. i \notin ToSet(q)
    BY <1>2, <1>3 DEF ToSet, q
  <2> QED BY <2>2, <2>3
<1>5. Held(i)' = Held(i) \cup {l} /\ l \notin Held(i)
  BY <1>1, <1>4 DEF Held
<1>6. \A k : k # i => Held(k)' = Held(k)
  BY <1>1, <1>4 DEF Held
<1> HIDE DEF q
<1>7. Refs'
  <2> SUFFICES ASSUME NEW k \in 1..Len(line)
               PROVE  line'[k].refcount = Cardinality(Held(k)') + Holders(calls', k)
    BY <1>1 DEF Refs
  <2>1. /\ line[k].refcount = Cardinality(Held(k)) + Holders(calls, k)
        /\ Holders(calls', k) = Holders(calls, k) /\ Holders(calls, k) \in Nat
        /\ Cardinality(Held(k)) \in Nat
    BY <1>1, HeldFinite DEF Refs, SameHolders
  <2>2. CASE k = i
    <3>1. Cardinality(Held(i)') = Cardinality(Held(i)) + 1
      BY <1>5, HeldFinite, FS_AddElement
    <3> QED BY <1>1, <2>1, <2>2, <3>1
  <2>3. CASE k # i
    <3>1. Cardinality(Held(k)') = Cardinality(Held(k))
      BY <1>6, <2>3
    <3>2. line'[k].refcount = line[k].refcount + 0
      BY <1>1, <2>3
    <3> QED BY <2>1, <3>1, <3>2
  <2> QED BY <2>2, <2>3
<1>8. Lengths'
  <2> SUFFICES ASSUME NEW m \in Links PROVE qlen'[m] = Len(Stream(line', sendq'[m]))
    BY DEF Lengths
  <2>1. CASE m # l
    BY <1>1, <2>1, SameLengths
  <2>2. CASE m = l
    <3>1. Queue(line', q) /\ Stream(line', q) = Stream(line, q)
      BY SameStream DEF q
    <3>2. line'[i].len = line[i].len
      BY DEF Grows
    <3>3. Stream(line', Append(q, i)) = Stream(line, q) \o Bytes(line', i)
      BY <1>3, <3>1, <3>2, StreamAppend
    <3>4. Bytes(line', i) \in Seq(Byte) /\ Len(Bytes(line', i)) = line[i].len
      BY <1>3, <3>2, BytesType
    <3>5. Stream(line, q) \in Seq(Byte) /\ qlen[l] = Len(Stream(line, q))
      BY <1>3, StreamType DEF Lengths, q
    <3>6. Len(Stream(line', Append(q, i))) = Len(Stream(line, q)) + line[i].len
      BY <3>3, <3>4, <3>5, SMTT(30)
    <3> QED BY <1>1, <2>2, <3>5, <3>6
  <2> QED BY <2>1, <2>2
<1> QED BY <1>7, <1>8

\* Dropping a queue counts one less for each of its lines.
LEMMA DropsCount ==
    ASSUME DataTypes, Sorted, Offsets, Grows, Refs, Lengths,
           NEW l \in Links, Drops(l), SameHolders,
           \A k \in 1..Len(line) : Holders(calls, k) \in Nat
    PROVE  Refs' /\ Lengths'
<1> DEFINE q == sendq[l]
<1>1. /\ Len(line') = Len(line) /\ sendq'[l] = <<>> /\ qlen'[l] = qlen[l] - Len(Stream(line, q))
      /\ \A m \in Links : m # l => sendq'[m] = sendq[m] /\ qlen'[m] = qlen[m]
      /\ \A k \in 1..Len(line) :
           line'[k].refcount = line[k].refcount - IF k \in ToSet(q) THEN 1 ELSE 0
  BY DropsIs DEF Drops
<1>2. ToSet(<<>>) = {}
  BY DEF ToSet
<1>3. \A k : Held(k)' = Held(k) \ {l} /\ (l \in Held(k) <=> k \in ToSet(q))
  BY <1>1, <1>2 DEF Held
<1>4. Refs'
  <2> SUFFICES ASSUME NEW k \in 1..Len(line)
               PROVE  line'[k].refcount = Cardinality(Held(k)') + Holders(calls', k)
    BY <1>1 DEF Refs
  <2>1. /\ line[k].refcount = Cardinality(Held(k)) + Holders(calls, k)
        /\ Holders(calls', k) = Holders(calls, k) /\ Holders(calls, k) \in Nat
        /\ Cardinality(Held(k)) \in Nat
    BY <1>1, HeldFinite DEF Refs, SameHolders
  <2>2. CASE k \in ToSet(q)
    <3>1. l \in Held(k) /\ Held(k)' = Held(k) \ {l}
      BY <1>3, <2>2
    <3>2. Cardinality(Held(k)') = Cardinality(Held(k)) - 1
      BY <3>1, HeldFinite, FS_RemoveElement
    <3>3. line'[k].refcount = line[k].refcount - 1
      BY <1>1, <2>2
    <3> HIDE DEF q
    <3> QED BY <2>1, <3>2, <3>3
  <2>3. CASE k \notin ToSet(q)
    <3>1. Held(k)' = Held(k)
      BY <1>3, <2>3
    <3>2. line'[k].refcount = line[k].refcount - 0
      BY <1>1, <2>3
    <3> HIDE DEF q
    <3> QED BY <2>1, <3>1, <3>2
  <2> QED BY <2>2, <2>3
<1>5. Lengths'
  <2> SUFFICES ASSUME NEW m \in Links PROVE qlen'[m] = Len(Stream(line', sendq'[m]))
    BY DEF Lengths
  <2>1. CASE m # l
    BY <1>1, <2>1, SameLengths
  <2>2. CASE m = l
    <3>1. Stream(line', <<>>) = <<>>
      <4>1. Queue(line', <<>>)
        BY DEF Queue
      <4> QED BY <4>1, StreamType
    <3>2. qlen[l] = Len(Stream(line, q)) /\ qlen[l] \in Int
      BY DEF Lengths, DataTypes
    <3> QED BY <1>1, <2>2, <3>1, <3>2
  <2> QED BY <2>1, <2>2
<1> QED BY <1>4, <1>5

\* A write counts one less when the line is done.
LEMMA TakesCount ==
    ASSUME DataTypes, Sorted, Offsets, Grows, Refs, Lengths,
           NEW l \in Links, NEW n \in Nat \ {0}, Takes(l, n), SameHolders,
           \A k \in 1..Len(line) : Holders(calls, k) \in Nat
    PROVE  Refs' /\ Lengths'
<1> DEFINE q == sendq[l]
           i == q[1]
           done == writeofs[l] + n = line[i].len
<1>1. /\ Len(line') = Len(line) /\ i \in 1..Len(line)
      /\ sendq'[l] = IF done THEN Tail(q) ELSE q
      /\ qlen'[l] = qlen[l] - IF done THEN line[i].len ELSE 0
      /\ \A m \in Links : m # l => sendq'[m] = sendq[m] /\ qlen'[m] = qlen[m]
      /\ \A k \in 1..Len(line) :
           line'[k].refcount = line[k].refcount - IF done /\ k = i THEN 1 ELSE 0
  BY TakesIs
<1>2. /\ q \in Seq(1..Len(line)) /\ Len(q) \in Nat /\ q # <<>> /\ Queue(line, q)
      /\ \A k \in 1..Len(q) : q[k] \in 1..Len(line)
      /\ line[i].len \in Nat /\ DOMAIN q = 1..Len(q) /\ i \in Nat
  BY <1>1, QueueFacts DEF Takes
<1>3. \A j, k \in 1..Len(q) : j < k => q[j] < q[k]
  BY DEF Sorted
<1>4. /\ Tail(q) \in Seq(1..Len(line)) /\ Len(Tail(q)) = Len(q) - 1
      /\ DOMAIN Tail(q) = 1..(Len(q) - 1)
      /\ \A k \in 1..(Len(q) - 1) : Tail(q)[k] = q[k + 1] /\ k + 1 \in 1..Len(q)
  <2> HIDE DEF q
  <2> QED BY <1>2
<1>5. ToSet(Tail(q)) = ToSet(q) \ {i} /\ i \in ToSet(q)
  <2> HIDE DEF q
  <2>1. ASSUME NEW k \in 1..(Len(q) - 1) PROVE q[k + 1] # i
    <3>1. 1 \in 1..Len(q) /\ k + 1 \in 1..Len(q) /\ 1 < k + 1
      BY <1>2
    <3>2. q[1] < q[k + 1]
      BY <1>3, <3>1
    <3> QED BY <1>2, <3>1, <3>2
  <2>2. ASSUME NEW k \in 1..Len(q), k # 1
        PROVE  k - 1 \in 1..(Len(q) - 1) /\ (k - 1) + 1 = k
    BY <1>2, <2>2
  <2>3. \A x : x \in ToSet(Tail(q)) => x \in ToSet(q) /\ x # i
    BY <1>2, <1>4, <2>1 DEF ToSet
  <2>4. ASSUME NEW x, x \in ToSet(q), x # i PROVE x \in ToSet(Tail(q))
    <3>1. PICK k \in 1..Len(q) : x = q[k]
      BY <1>2, <2>4 DEF ToSet
    <3>2. k # 1
      BY <2>4, <3>1
    <3>3. Tail(q)[k - 1] = x /\ k - 1 \in DOMAIN Tail(q)
      BY <1>4, <2>2, <3>1, <3>2
    <3> QED BY <3>3 DEF ToSet
  <2>5. i \in ToSet(q)
    BY <1>2, SMTT(30) DEF ToSet
  <2> QED BY <2>3, <2>4, <2>5
<1>6. \A k : Held(k)' = IF done /\ k = i THEN Held(k) \ {l} ELSE Held(k)
  <2> SUFFICES ASSUME NEW k PROVE Held(k)' = IF done /\ k = i THEN Held(k) \ {l} ELSE Held(k)
    OBVIOUS
  <2>1. \A m \in Links : m # l => (k \in ToSet(sendq'[m]) <=> k \in ToSet(sendq[m]))
    BY <1>1
  <2>2. k \in ToSet(sendq'[l]) <=> k \in ToSet(q) /\ ~(done /\ k = i)
    BY <1>1, <1>5
  <2> HIDE DEF done, i
  <2> QED BY <2>1, <2>2 DEF Held
<1>7. l \in Held(i)
  BY <1>5 DEF Held
<1>8. Refs'
  <2> SUFFICES ASSUME NEW k \in 1..Len(line)
               PROVE  line'[k].refcount = Cardinality(Held(k)') + Holders(calls', k)
    BY <1>1 DEF Refs
  <2>1. /\ line[k].refcount = Cardinality(Held(k)) + Holders(calls, k)
        /\ Holders(calls', k) = Holders(calls, k) /\ Holders(calls, k) \in Nat
        /\ Cardinality(Held(k)) \in Nat
    BY <1>1, HeldFinite DEF Refs, SameHolders
  <2>2. CASE done /\ k = i
    <3>1. Cardinality(Held(k)') = Cardinality(Held(k)) - 1
      <4>1. Held(k)' = Held(k) \ {l} /\ l \in Held(k)
        BY <1>6, <1>7, <2>2
      <4> QED BY <4>1, HeldFinite, FS_RemoveElement
    <3>2. line'[k].refcount = line[k].refcount - 1
      BY <1>1, <2>2
    <3> HIDE DEF done, q, i
    <3> QED BY <2>1, <3>1, <3>2
  <2>3. CASE ~(done /\ k = i)
    <3>1. Held(k)' = Held(k) /\ line'[k].refcount = line[k].refcount - 0
      BY <1>1, <1>6, <2>3
    <3> HIDE DEF done, q, i
    <3> QED BY <2>1, <3>1
  <2> QED BY <2>2, <2>3
<1>9. Lengths'
  <2> SUFFICES ASSUME NEW m \in Links PROVE qlen'[m] = Len(Stream(line', sendq'[m]))
    BY DEF Lengths
  <2>1. CASE m # l
    BY <1>1, <2>1, SameLengths
  <2>2. CASE m = l
    <3>1. Queue(line', q) /\ Stream(line', q) = Stream(line, q) /\ line'[i].len = line[i].len
      BY <1>1, SameStream DEF Grows
    <3>2. qlen[l] = Len(Stream(line, q)) /\ qlen[l] \in Int
      BY DEF Lengths, DataTypes
    <3>3. Queue(line', Tail(q)) /\ Stream(line', q) = Bytes(line', i) \o Stream(line', Tail(q))
      BY <1>2, <3>1, StreamTail
    <3>4. Len(Bytes(line', i)) = line[i].len /\ Bytes(line', i) \in Seq(Byte)
          /\ Stream(line', Tail(q)) \in Seq(Byte)
      BY <1>2, <3>1, <3>3, BytesType, StreamType
    <3>5. Len(Stream(line', q)) = line[i].len + Len(Stream(line', Tail(q)))
      BY <3>3, <3>4
    <3>6. Len(Stream(line', Tail(q))) \in Int
      BY <3>4
    <3>7. CASE done
      <4>1. qlen'[l] = qlen[l] - line[i].len /\ sendq'[l] = Tail(q)
        BY <1>1, <3>7
      <4> HIDE DEF q, i, done
      <4> QED BY <1>2, <2>2, <3>1, <3>2, <3>5, <3>6, <4>1, SMTT(30)
    <3>8. CASE ~done
      <4>1. qlen'[l] = qlen[l] - 0 /\ sendq'[l] = q
        BY <1>1, <3>8
      <4> HIDE DEF q, i, done
      <4> QED BY <2>2, <3>1, <3>2, <4>1
    <3> QED BY <3>7, <3>8
  <2> QED BY <2>1, <2>2
<1> QED BY <1>8, <1>9

\* A step that leaves the queues alone changes a count by as much as the calls
\* change what they hold.
Shift(d) ==
    \A k \in 1..Len(line') :
        /\ d[k] \in Int
        /\ Holders(calls, k) \in Nat /\ Holders(calls', k) = Holders(calls, k) + d[k]
        /\ IF k \in 1..Len(line) THEN line'[k].refcount = line[k].refcount + d[k]
           ELSE line'[k].refcount = d[k] /\ Holders(calls, k) = 0

\* Calls that take or let go of a line count it.
LEMMA SteadyCount ==
    ASSUME DataTypes, Grows, Refs, Lengths, UNCHANGED <<sendq, qlen>>,
           NEW d, Shift(d)
    PROVE  Refs' /\ Lengths'
<1>1. \A k : Held(k)' = Held(k)
  BY DEF Held
<1>2. ASSUME NEW k \in 1..Len(line')
      PROVE  line'[k].refcount = Cardinality(Held(k)) + Holders(calls', k)
  <2>1. Cardinality(Held(k)) \in Nat /\ d[k] \in Int /\ Holders(calls, k) \in Nat
        /\ Holders(calls', k) = Holders(calls, k) + d[k]
    BY HeldFinite DEF Shift
  <2>2. CASE k \in 1..Len(line)
    <3>1. line[k].refcount = Cardinality(Held(k)) + Holders(calls, k)
      BY <2>2 DEF Refs
    <3>2. line'[k].refcount = line[k].refcount + d[k]
      BY <2>2 DEF Shift
    <3> QED BY <2>1, <3>1, <3>2
  <2>3. CASE k \notin 1..Len(line)
    <3>1. Held(k) = {}
      <4>1. \A l \in Links : DOMAIN sendq[l] = 1..Len(sendq[l])
                             /\ \A j \in 1..Len(sendq[l]) : sendq[l][j] \in 1..Len(line)
        BY QueueFacts
      <4> QED BY <2>3, <4>1 DEF Held, ToSet
    <3>2. Cardinality(Held(k)) = 0
      BY <3>1, FS_EmptySet
    <3>3. Holders(calls, k) = 0 /\ line'[k].refcount = d[k]
      BY <2>3 DEF Shift
    <3> QED BY <2>1, <3>2, <3>3
  <2> QED BY <2>2, <2>3
<1>3. Refs'
  BY <1>1, <1>2 DEF Refs
<1>4. Lengths'
  BY SameLengths DEF Lengths
<1> QED BY <1>3, <1>4

\* The calls in progress can be counted.
Counted == \A k \in Nat : Holders(calls, k) \in Nat

\* Each of the effects keeps the counts.
LEMMA CountStep ==
    ASSUME DataTypes, Sorted, Offsets, Refs, Lengths, Effect, Counted
    PROVE  Refs' /\ Lengths'
<1>0. Grows
  BY EffectGrows
<1>1. Len(line) \in Nat /\ Len(line') \in Nat /\ line \in Seq(LineRec)
  BY <1>0 DEF DataTypes, Grows
<1>2. \A k \in 1..Len(line) : line[k].refcount \in Int
  <2>1. \A k \in 1..Len(line) : line[k] \in LineRec
    BY <1>1
  <2> QED BY <2>1 DEF LineRec
<1>3. \A k \in 1..Len(line') : Holders(calls, k) \in Nat
  BY <1>1 DEF Counted
<1>4. ASSUME \A k \in 1..Len(line) : line'[k].refcount = line[k].refcount,
             Len(line') = Len(line), SameHolders, UNCHANGED <<sendq, qlen>>
      PROVE  Refs' /\ Lengths'
  <2>1. PICK d : \A k \in 1..Len(line') : d[k] = 0
    <3> DEFINE d == [k \in 1..Len(line') |-> 0]
    <3>1. \A k \in 1..Len(line') : d[k] = 0
      OBVIOUS
    <3> QED BY <3>1
  <2>2. ASSUME NEW k \in 1..Len(line')
        PROVE  /\ d[k] = 0 /\ Holders(calls, k) \in Nat /\ k \in 1..Len(line)
               /\ Holders(calls', k) = Holders(calls, k)
               /\ line'[k].refcount = line[k].refcount /\ line[k].refcount \in Int
    BY <1>2, <1>3, <1>4, <2>1 DEF SameHolders
  <2>3. Shift(d)
    BY <2>2 DEF Shift
  <2> QED BY <1>0, <1>4, <2>3, SteadyCount
<1>5. CASE Nothing /\ SameHolders
  BY <1>4, <1>5 DEF Nothing
<1>6. ASSUME NEW n \in Lens, Makes(n), Holders(calls, NewLine) = 0, HolderMore(NewLine)
      PROVE  Refs' /\ Lengths'
  <2>1. /\ Len(line') = Len(line) + 1
        /\ \A i \in 1..Len(line) : line'[i] = line[i]
        /\ line'[NewLine].refcount = 1
    BY <1>6, MakesIs
  <2>2. PICK d : \A k \in 1..Len(line') : d[k] = IF k = NewLine THEN 1 ELSE 0
    <3> DEFINE d == [k \in 1..Len(line') |-> IF k = NewLine THEN 1 ELSE 0]
    <3>1. \A k \in 1..Len(line') : d[k] = IF k = NewLine THEN 1 ELSE 0
      OBVIOUS
    <3> QED BY <3>1
  <2>3. ASSUME NEW k \in 1..Len(line')
        PROVE  /\ d[k] \in Int
               /\ Holders(calls, k) \in Nat /\ Holders(calls', k) = Holders(calls, k) + d[k]
               /\ IF k \in 1..Len(line) THEN line'[k].refcount = line[k].refcount + d[k]
                  ELSE line'[k].refcount = d[k] /\ Holders(calls, k) = 0
    <3>1. Holders(calls, k) \in Nat
      BY <1>3
    <3>2. d[k] \in Int /\ Holders(calls', k) = Holders(calls, k) + d[k]
      BY <1>6, <2>2 DEF HolderMore
    <3>3. CASE k \in 1..Len(line)
      <4>1. k # NewLine
        BY <1>1, <3>3 DEF NewLine
      <4>2. d[k] = 0 /\ line'[k] = line[k] /\ line[k].refcount \in Int
        BY <1>2, <2>1, <2>2, <3>3, <4>1
      <4> QED BY <3>1, <3>2, <3>3, <4>2
    <3>4. CASE k \notin 1..Len(line)
      <4>1. k = NewLine
        BY <1>1, <2>1, <3>4 DEF NewLine
      <4>2. d[k] = 1
        BY <2>2, <4>1
      <4> QED BY <1>6, <2>1, <3>1, <3>2, <3>4, <4>1, <4>2
    <3> QED BY <3>3, <3>4
  <2>4. Shift(d)
    BY <2>3 DEF Shift
  <2>5. UNCHANGED <<sendq, qlen>>
    BY <1>6 DEF Makes
  <2> QED BY <1>0, <2>4, <2>5, SteadyCount
<1>7. ASSUME NEW i \in 1..Len(line), LetsGo(i), HolderLess(i)
      PROVE  Refs' /\ Lengths'
  <2>0. line' = Unref(line, i) /\ UNCHANGED <<sendq, qlen>>
    BY <1>7 DEF LetsGo
  <2>1. /\ Len(line') = Len(line)
        /\ \A k \in 1..Len(line) :
             line'[k].refcount = line[k].refcount - IF k = i THEN 1 ELSE 0
    BY <1>1, <2>0, UnrefIs
  <2>2. PICK d : \A k \in 1..Len(line') : d[k] = IF k = i THEN -1 ELSE 0
    <3> DEFINE d == [k \in 1..Len(line') |-> IF k = i THEN -1 ELSE 0]
    <3>1. \A k \in 1..Len(line') : d[k] = IF k = i THEN -1 ELSE 0
      OBVIOUS
    <3> QED BY <3>1
  <2>3. ASSUME NEW k \in 1..Len(line')
        PROVE  /\ d[k] \in Int /\ k \in 1..Len(line)
               /\ Holders(calls, k) \in Nat /\ Holders(calls', k) = Holders(calls, k) + d[k]
               /\ line'[k].refcount = line[k].refcount + d[k]
    <3>1. Holders(calls, k) \in Nat /\ k \in 1..Len(line) /\ line[k].refcount \in Int
      BY <1>2, <1>3, <2>1
    <3>2. d[k] = IF k = i THEN -1 ELSE 0
      BY <2>2
    <3>3. /\ Holders(calls', k) = Holders(calls, k) - IF k = i THEN 1 ELSE 0
          /\ line'[k].refcount = line[k].refcount - IF k = i THEN 1 ELSE 0
      BY <1>7, <2>1, <3>1 DEF HolderLess
    <3>4. CASE k = i
      BY <3>1, <3>2, <3>3, <3>4
    <3>5. CASE k # i
      BY <3>1, <3>2, <3>3, <3>5
    <3> QED BY <3>4, <3>5
  <2>4. Shift(d)
    BY <2>3 DEF Shift
  <2> QED BY <1>0, <2>0, <2>4, SteadyCount
<1>8. ASSUME NEW l \in Links, Blocks(l), SameHolders PROVE Refs' /\ Lengths'
  <2>1. /\ Len(line') = Len(line)
        /\ \A k \in 1..Len(line) : line'[k].refcount = line[k].refcount
    BY <1>8, BlocksIs
  <2>2. sendq' = sendq /\ qlen' = qlen
    BY <1>8 DEF Blocks
  <2> QED BY <1>4, <1>8, <2>1, <2>2
<1>9. \A k \in 1..Len(line) : Holders(calls, k) \in Nat
  BY <1>1 DEF Counted
<1> QED
  BY <1>0, <1>5, <1>6, <1>7, <1>8, <1>9, PutsCount, DropsCount, TakesCount DEF Effect

---------------------------------------------------------------------------
(* The queues are the streams of FifoLinks.                                *)

\* A sequence from position w on.
Rest(s, w) == SubSeq(s, w + 1, Len(s))

\* What is left of a sequence after its first w.
LEMMA RestIs ==
    ASSUME NEW S, NEW s \in Seq(S), NEW w \in Nat
    PROVE  /\ Rest(s, w) \in Seq(S)
           /\ Len(Rest(s, w)) = IF w <= Len(s) THEN Len(s) - w ELSE 0
           /\ \A j \in 1..(Len(s) - w) : Rest(s, w)[j] = s[w + j]
<1> DEFINE r == Rest(s, w)
<1>0. Len(s) \in Nat
  OBVIOUS
<1>1. \A i \in (w + 1)..Len(s) : s[i] \in S
  OBVIOUS
<1>2. /\ r \in Seq(S)
      /\ Len(r) = IF w + 1 <= Len(s) THEN Len(s) - (w + 1) + 1 ELSE 0
      /\ \A i \in 1..(Len(s) - (w + 1) + 1) : r[i] = s[(w + 1) + i - 1]
  BY <1>0, <1>1, SubSeqProperties DEF Rest
<1> HIDE DEF r
<1>3. Len(r) = IF w <= Len(s) THEN Len(s) - w ELSE 0
  BY <1>0, <1>2
<1>4. ASSUME NEW j \in 1..(Len(s) - w) PROVE r[j] = s[w + j]
  <2>1. j \in 1..(Len(s) - (w + 1) + 1) /\ (w + 1) + j - 1 = w + j
    BY <1>0
  <2>2. r[j] = s[(w + 1) + j - 1]
    BY <1>2, <2>1
  <2> QED BY <2>1, <2>2
<1> QED BY <1>2, <1>3, <1>4 DEF r

\* Adding at the end adds to the rest.
LEMMA RestConcat ==
    ASSUME NEW S, NEW s \in Seq(S), NEW t \in Seq(S), NEW w \in Nat, w <= Len(s)
    PROVE  Rest(s \o t, w) = Rest(s, w) \o t
<1> DEFINE a == Rest(s \o t, w)  b == Rest(s, w)  c == b \o t  u == s \o t
<1>1. /\ u \in Seq(S) /\ Len(u) = Len(s) + Len(t) /\ Len(s) \in Nat /\ Len(t) \in Nat
      /\ \A i \in 1..(Len(s) + Len(t)) : u[i] = IF i <= Len(s) THEN s[i] ELSE t[i - Len(s)]
  BY ConcatProperties
<1> HIDE DEF u
<1>2. /\ b \in Seq(S) /\ Len(b) = Len(s) - w /\ \A j \in 1..(Len(s) - w) : b[j] = s[w + j]
  BY RestIs
<1>3. /\ a \in Seq(S) /\ Len(a) = Len(u) - w /\ \A j \in 1..(Len(u) - w) : a[j] = u[w + j]
  <2>1. a = Rest(u, w)
    BY DEF u
  <2>2. w <= Len(u)
    BY <1>1
  <2> HIDE DEF a
  <2> QED BY <1>1, <2>1, <2>2, RestIs
<1> HIDE DEF a, b
<1>4. /\ c \in Seq(S) /\ Len(c) = Len(b) + Len(t)
      /\ \A i \in 1..(Len(b) + Len(t)) : c[i] = IF i <= Len(b) THEN b[i] ELSE t[i - Len(b)]
  BY <1>2, ConcatProperties
<1> HIDE DEF c
<1>5. ASSUME NEW j \in 1..Len(a) PROVE a[j] = c[j]
  <2>1. a[j] = u[w + j] /\ w + j \in 1..(Len(s) + Len(t))
    BY <1>1, <1>3
  <2>2. CASE j <= Len(s) - w
    <3>1. u[w + j] = s[w + j] /\ c[j] = b[j] /\ b[j] = s[w + j]
      BY <1>1, <1>2, <1>3, <1>4, <2>1, <2>2
    <3> QED BY <2>1, <3>1
  <2>3. CASE ~(j <= Len(s) - w)
    <3>1. u[w + j] = t[(w + j) - Len(s)]
      BY <1>1, <1>3, <2>1, <2>3
    <3>0. j \in 1..(Len(b) + Len(t)) /\ Len(b) = Len(s) - w
      BY <1>1, <1>2, <1>3
    <3>3. c[j] = t[j - (Len(s) - w)]
      BY <1>1, <1>4, <2>3, <3>0
    <3>2. (w + j) - Len(s) = j - (Len(s) - w)
      BY <1>1, <1>3
    <3> QED BY <2>1, <3>1, <3>2, <3>3
  <2> QED BY <2>2, <2>3
<1>6. Len(a) = Len(c)
  BY <1>1, <1>2, <1>3, <1>4
<1>7. a = c
  BY <1>3, <1>4, <1>5, <1>6, SeqEqual
<1> QED BY <1>7 DEF a, b, c

\* Taking twice is taking both at once.
LEMMA RestOfRest ==
    ASSUME NEW S, NEW s \in Seq(S), NEW w \in Nat, NEW n \in Nat, w + n <= Len(s)
    PROVE  Rest(Rest(s, w), n) = Rest(s, w + n)
<1> DEFINE r == Rest(s, w)  a == Rest(r, n)  b == Rest(s, w + n)
<1>1. Len(s) \in Nat /\ w <= Len(s) /\ n <= Len(s) - w
  OBVIOUS
<1>2. /\ r \in Seq(S) /\ Len(r) = Len(s) - w /\ \A j \in 1..(Len(s) - w) : r[j] = s[w + j]
  BY <1>1, RestIs
<1> HIDE DEF r
<1>3. /\ a \in Seq(S) /\ Len(a) = (Len(s) - w) - n
      /\ \A j \in 1..((Len(s) - w) - n) : a[j] = r[n + j]
  <2>1. n <= Len(r) /\ a = Rest(r, n)
    BY <1>1, <1>2
  <2> HIDE DEF a
  <2>2. /\ a \in Seq(S) /\ Len(a) = Len(r) - n
        /\ \A j \in 1..(Len(r) - n) : a[j] = r[n + j]
    BY <1>2, <2>1, RestIs
  <2> QED BY <1>2, <2>2
<1>4. /\ b \in Seq(S) /\ Len(b) = Len(s) - (w + n)
      /\ \A j \in 1..(Len(s) - (w + n)) : b[j] = s[(w + n) + j]
  <2> DEFINE v == w + n
  <2>1. v \in Nat /\ v <= Len(s) /\ b = Rest(s, v)
    OBVIOUS
  <2> HIDE DEF v, b
  <2>2. /\ b \in Seq(S) /\ Len(b) = Len(s) - v
        /\ \A j \in 1..(Len(s) - v) : b[j] = s[v + j]
    BY <1>1, <2>1, RestIs
  <2> QED BY <2>2 DEF v
<1> HIDE DEF a, b
<1>5. ASSUME NEW j \in 1..Len(a) PROVE a[j] = b[j]
  <2>1. j \in 1..((Len(s) - w) - n) /\ j \in 1..(Len(s) - (w + n)) /\ n + j \in 1..(Len(s) - w)
        /\ w + (n + j) = (w + n) + j
    BY <1>1, <1>3
  <2>2. a[j] = r[n + j] /\ r[n + j] = s[w + (n + j)] /\ b[j] = s[(w + n) + j]
    BY <1>2, <1>3, <1>4, <2>1
  <2> QED BY <2>1, <2>2
<1>6. Len(a) = Len(b)
  BY <1>1, <1>3, <1>4
<1> QED BY <1>3, <1>4, <1>5, <1>6, SeqEqual DEF a, b, r

\* Taking nothing, and taking all.
LEMMA RestNone ==
    ASSUME NEW S, NEW s \in Seq(S)
    PROVE  Rest(s, 0) = s /\ Rest(s, Len(s)) = <<>>
<1>1. Rest(s, 0) = s
  <2>1. Rest(s, 0) \in Seq(S) /\ Len(Rest(s, 0)) = Len(s)
        /\ \A j \in 1..Len(s) : Rest(s, 0)[j] = s[j]
    <3>1. Len(s) \in Nat
      OBVIOUS
    <3>2. /\ Rest(s, 0) \in Seq(S) /\ Len(Rest(s, 0)) = IF 0 <= Len(s) THEN Len(s) - 0 ELSE 0
          /\ \A j \in 1..(Len(s) - 0) : Rest(s, 0)[j] = s[0 + j]
      BY RestIs
    <3>3. \A j \in 1..Len(s) : 0 + j = j /\ j \in 1..(Len(s) - 0)
      BY <3>1
    <3> QED BY <3>1, <3>2, <3>3
  <2> QED BY <2>1, SeqEqual
<1>2. Rest(s, Len(s)) = <<>>
  <2>1. Rest(s, Len(s)) \in Seq(S) /\ Len(Rest(s, Len(s))) = 0
    BY RestIs
  <2> QED BY <2>1
<1> QED BY <1>1, <1>2

\* What is pending of a stream is what its queue has from the offset on.
PendingRest == \A l \in Links : Pending(l) = Rest(Stream(line, sendq[l]), writeofs[l])

\* The unsent bytes of a queue are its bytes without those written.
LEMMA PendingIs == DataTypes /\ Offsets => PendingRest
<1> SUFFICES ASSUME DataTypes, Offsets, NEW l \in Links
             PROVE  Pending(l) = Rest(Stream(line, sendq[l]), writeofs[l])
  BY DEF PendingRest
<1>1. writeofs[l] \in Nat
  BY DEF DataTypes
<1>2. CASE sendq[l] = <<>>
  <2>1. Stream(line, sendq[l]) = <<>>
    BY <1>2, QueueFacts, StreamType
  <2>2. <<>> \in Seq(Byte) /\ Len(<<>>) = 0
    OBVIOUS
  <2>3. Rest(<<>>, writeofs[l]) \in Seq(Byte) /\ Len(Rest(<<>>, writeofs[l])) = 0
    <3>1. ASSUME NEW s \in Seq(Byte), s = <<>>
          PROVE  Rest(s, writeofs[l]) \in Seq(Byte) /\ Len(Rest(s, writeofs[l])) = 0
      <4>1. Rest(s, writeofs[l]) \in Seq(Byte)
            /\ Len(Rest(s, writeofs[l])) = IF writeofs[l] <= Len(s) THEN Len(s) - writeofs[l] ELSE 0
        BY <1>1, RestIs
      <4>2. Len(s) = 0
        BY <3>1
      <4> QED BY <1>1, <4>1, <4>2
    <3> QED BY <2>2, <3>1
  <2> QED BY <1>2, <2>1, <2>3 DEF Pending
<1>3. CASE sendq[l] # <<>>
  <2>1. WriteFrom(l) = writeofs[l]
    BY <1>3, WriteFromIs
  <2> QED BY <1>3, <2>1 DEF Pending, Rest
<1> QED BY <1>2, <1>3

\* The stream of a link whose queue stays as it is.
LEMMA SamePending ==
    ASSUME DataTypes, Offsets, DataTypes', Offsets', Grows, NEW l \in Links,
           sendq'[l] = sendq[l], writeofs'[l] = writeofs[l]
    PROVE  Pending(l)' = Pending(l)
<1>1. Pending(l) = Rest(Stream(line, sendq[l]), writeofs[l])
  BY PendingIs DEF PendingRest
<1>2. Pending(l)' = Rest(Stream(line', sendq'[l]), writeofs'[l])
  <2>1. (DataTypes /\ Offsets => PendingRest)'
    BY PendingIs, PTL
  <2> QED BY <2>1 DEF PendingRest, Rest
<1>3. Stream(line', sendq[l]) = Stream(line, sendq[l])
  BY SameStream
<1> QED BY <1>1, <1>2, <1>3

\* The mapping of SendQueues to FifoLinks, as INSTANCE has it.
pending == [l \in Links |-> Pending(l)]

\* linebuf_attach puts the bytes of the line at the end of the stream.
LEMMA PutsPut ==
    ASSUME DataTypes, Sorted, Offsets, DataTypes', Offsets', Grows,
           NEW l \in Links, NEW i \in 1..Len(line), Puts(l, i)
    PROVE  Fifo!Put(l, i, line[i].len)
<1> DEFINE q == sendq[l]  s == Stream(line, q)  w == writeofs[l]  b == Bytes(line, i)
<1>1. /\ Len(line') = Len(line) /\ sendq'[l] = Append(q, i)
      /\ \A m \in Links : m # l => sendq'[m] = sendq[m]
      /\ line'[i].len = line[i].len
  BY PutsIs DEF Puts
<1>2. /\ UNCHANGED <<writeofs, got, dead>> /\ l \notin dead /\ i = Len(line)
      /\ \A k \in 1..Len(q) : q[k] # i
      /\ \A k \in 1..Len(got[l]) : got[l][k][1] # i
  BY DEF Puts, linebuf_attach, Fresh
<1>3. /\ q \in Seq(1..Len(line)) /\ Len(q) \in Nat /\ line[i].len \in Nat /\ i \in Nat
      /\ Queue(line, q) /\ \A k \in 1..Len(q) : q[k] \in 1..Len(line)
      /\ w \in Nat
  BY QueueFacts, SMTT(30) DEF DataTypes
<1>4. s \in Seq(Byte) /\ b \in Seq(Byte) /\ Len(s) \in Nat
  BY <1>3, StreamType, BytesType
<1>5. w <= Len(s)
  <2>1. CASE q = <<>>
    <3>1. w = 0
      BY <1>2, <2>1 DEF Offsets
    <3> HIDE DEF w, s
    <3> QED BY <1>4, <3>1
  <2>2. CASE q # <<>>
    <3>1. w < line[q[1]].len /\ q[1] \in 1..Len(line) /\ line[q[1]].len \in Nat
      BY <2>2, QueueFacts DEF Offsets
    <3>2. s = Bytes(line, q[1]) \o Stream(line, Tail(q)) /\ Queue(line, Tail(q))
      BY <1>3, <2>2, StreamTail
    <3>3. Bytes(line, q[1]) \in Seq(Byte) /\ Len(Bytes(line, q[1])) = line[q[1]].len
          /\ Stream(line, Tail(q)) \in Seq(Byte)
      BY <3>1, <3>2, BytesType, StreamType
    <3> DEFINE c == Bytes(line, q[1])  t == Stream(line, Tail(q))
    <3>4. Len(s) = Len(c) + Len(t) /\ Len(t) \in Nat
      <4>1. s = c \o t /\ c \in Seq(Byte) /\ t \in Seq(Byte)
        BY <3>2, <3>3
      <4> HIDE DEF s, c, t
      <4>2. Len(c \o t) = Len(c) + Len(t) /\ Len(t) \in Nat
        BY <4>1, ConcatProperties
      <4> QED BY <4>1, <4>2
    <3> HIDE DEF s, q, w
    <3> QED BY <1>3, <3>1, <3>3, <3>4
  <2> QED BY <2>1, <2>2
<1>6. Pending(l) = Rest(s, w)
  BY PendingIs DEF PendingRest
<1>7. Pending(l)' = Rest(s \o b, w)
  <2>1. (DataTypes /\ Offsets => PendingRest)'
    BY PendingIs, PTL
  <2>2. Pending(l)' = Rest(Stream(line', Append(q, i)), w)
    BY <1>1, <1>2, <2>1 DEF PendingRest, Rest
  <2>3. Queue(line', q) /\ Stream(line', q) = s
    BY SameStream
  <2>4. Stream(line', Append(q, i)) = Stream(line', q) \o Bytes(line', i)
    BY <1>1, <1>3, <2>3, StreamAppend
  <2>5. Bytes(line', i) = b
    BY <1>1 DEF Bytes
  <2> QED BY <2>2, <2>3, <2>4, <2>5
<1>8. \A m \in Links : m # l => Pending(m)' = Pending(m)
  BY <1>1, <1>2, SamePending
<1>9. Pending(l)' = Pending(l) \o b
  <2> HIDE DEF s, w, b
  <2>1. Rest(s \o b, w) = Rest(s, w) \o b
    BY <1>3, <1>4, <1>5, RestConcat
  <2> QED BY <2>1, <1>6, <1>7
<1>10. \A x \in ToSet(got[l]) \cup ToSet(Pending(l)) : x[1] < i
  <2>1. ASSUME NEW x \in ToSet(got[l]) PROVE x[1] < i
    <3>1. got[l] \in Seq((1..Len(line)) \X Nat)
      BY DEF DataTypes
    <3>2. PICK k \in 1..Len(got[l]) : x = got[l][k]
      <4>1. DOMAIN got[l] = 1..Len(got[l])
        BY <3>1
      <4> QED BY <4>1 DEF ToSet
    <3>3. x[1] \in 1..Len(line) /\ x[1] # i
      BY <1>2, <3>1, <3>2
    <3> QED BY <1>2, <1>3, <3>3
  <2>2. ASSUME NEW x \in ToSet(Pending(l)) PROVE x[1] < i
    <3> HIDE DEF s, w
    <3>1. Rest(s, w) \in Seq(Byte) /\ Len(Rest(s, w)) = Len(s) - w
          /\ \A j \in 1..(Len(s) - w) : Rest(s, w)[j] = s[w + j]
      BY <1>3, <1>4, <1>5, RestIs
    <3>2. PICK j \in 1..(Len(s) - w) : x = s[w + j]
      BY <1>6, <3>1 DEF ToSet
    <3>3. w + j \in 1..Len(s)
      BY <1>3, <1>4
    <3>4. PICK k \in 1..Len(q) : x[1] = q[k]
      BY <1>3, <3>2, <3>3, StreamLines DEF s
    <3>5. x[1] \in 1..Len(line) /\ x[1] # i
      BY <1>2, <1>3, <3>4
    <3> QED BY <1>2, <1>3, <3>5
  <2> QED BY <2>1, <2>2
<1>11. b = Fifo!BytesOf(i, line[i].len)
  BY DEF Bytes, Fifo!BytesOf
<1> DEFINE p == pending
<1>12. p' = [p EXCEPT ![l] = p[l] \o b]
  <2> HIDE DEF b
  <2> QED BY <1>8, <1>9 DEF pending
<1> HIDE DEF b
<1> QED
  BY <1>1, <1>2, <1>10, <1>11, <1>12 DEF Fifo!Put, pending, Fifo!ToSet, ToSet

\* A stream s of the bytes b of line i and of t, the stream of the queue q.
Splits(s, b, t, i, q) ==
    /\ s \in Seq(Byte) /\ b \in Seq(Byte) /\ t \in Seq(Byte) /\ s = b \o t
    /\ Len(b) = line[i].len /\ Len(b) \in Nat /\ Len(t) \in Nat
    /\ Len(s) = Len(b) + Len(t)
    /\ \A j \in 1..Len(b) : s[j] = <<i, j>>
    /\ Queue(line, q)

\* The bytes of a queue that is not empty: those of its first line and the rest.
LEMMA QueueStream ==
    ASSUME DataTypes, Offsets, NEW l \in Links, sendq[l] # <<>>
    PROVE  Splits(Stream(line, sendq[l]), Bytes(line, sendq[l][1]), Stream(line, Tail(sendq[l])),
                  sendq[l][1], Tail(sendq[l]))
<1> DEFINE s == Stream(line, sendq[l])  b == Bytes(line, sendq[l][1])
           t == Stream(line, Tail(sendq[l]))  i == sendq[l][1]
<1>1. /\ Queue(line, sendq[l]) /\ i \in 1..Len(line) /\ i \in Nat /\ line[i].len \in Nat
  BY QueueFacts
<1>2. s = b \o t /\ Queue(line, Tail(sendq[l]))
  BY <1>1, StreamTail
<1>3. s \in Seq(Byte) /\ t \in Seq(Byte)
  BY <1>1, <1>2, StreamType
<1>4. b \in Seq(Byte) /\ Len(b) = line[i].len /\ \A j \in 1..line[i].len : b[j] = <<i, j>>
  BY <1>1, BytesType
<1>5. Len(b) \in Nat /\ Len(t) \in Nat /\ Len(s) = Len(b) + Len(t)
      /\ \A j \in 1..Len(b) : s[j] = b[j]
  BY <1>2, <1>3, <1>4, ConcatProperties
<1>6. \A j \in 1..Len(b) : s[j] = <<i, j>>
  BY <1>4, <1>5
<1> QED BY <1>2, <1>3, <1>4, <1>5, <1>6 DEF Splits

\* A write sends the next bytes of the stream, wherever it stops.
LEMMA TakesTransmit ==
    ASSUME DataTypes, Sorted, Offsets, DataTypes', Offsets', Grows,
           NEW l \in Links, NEW n \in Nat \ {0}, Takes(l, n)
    PROVE  n \in 1..Len(pending[l]) /\ Fifo!Transmit(l, n)
<1>0. sendq[l] # <<>>
  BY DEF Takes
<1>1. PICK i, q, s, b, t, w, p :
        /\ i = sendq[l][1] /\ q = sendq[l] /\ s = Stream(line, sendq[l])
        /\ b = Bytes(line, i) /\ t = Stream(line, Tail(sendq[l]))
        /\ w = writeofs[l] /\ p = Pending(l)
  OBVIOUS
<1>2. /\ s \in Seq(Byte) /\ b \in Seq(Byte) /\ t \in Seq(Byte) /\ s = b \o t
      /\ Len(b) = line[i].len /\ Len(b) \in Nat /\ Len(t) \in Nat
      /\ Len(s) = Len(b) + Len(t)
      /\ Queue(line, Tail(q))
      /\ \A j \in 1..Len(b) : s[j] = <<i, j>>
  <2>1. Splits(Stream(line, sendq[l]), Bytes(line, sendq[l][1]), Stream(line, Tail(sendq[l])),
               sendq[l][1], Tail(sendq[l]))
    BY <1>0, QueueStream
  <2>2. Splits(s, b, t, i, Tail(q))
    BY <1>1, <2>1
  <2> QED BY <2>2 DEF Splits
<1>4. w \in Nat
  BY <1>1 DEF DataTypes
<1>3. /\ w + n \in Nat /\ w + n <= Len(b)
      /\ sendq'[l] = IF w + n = Len(b) THEN Tail(q) ELSE q
      /\ writeofs'[l] = IF w + n = Len(b) THEN 0 ELSE w + n
      /\ \A m \in Links : m # l => sendq'[m] = sendq[m] /\ writeofs'[m] = writeofs[m]
      /\ Len(line') = Len(line)
  <2>1. /\ w + n \in Nat /\ w + n <= line[i].len
        /\ sendq'[l] = IF w + n = line[i].len THEN Tail(q) ELSE q
        /\ writeofs'[l] = IF w + n = line[i].len THEN 0 ELSE w + n
        /\ \A m \in Links : m # l => sendq'[m] = sendq[m] /\ writeofs'[m] = writeofs[m]
        /\ Len(line') = Len(line)
    BY <1>1, TakesIs
  <2>2. Len(b) = line[i].len
    BY <1>2
  <2> QED BY <2>1, <2>2
<1>5. p = Rest(s, w)
  BY <1>1, PendingIs DEF PendingRest
<1>14. /\ Len(s) \in Nat /\ Len(b) \in Nat /\ w <= Len(s) /\ w + n <= Len(s)
       /\ n \in 1..(Len(s) - w) /\ w + n <= Len(b)
  <2>1. Len(b) \in Nat /\ Len(t) \in Nat /\ Len(s) = Len(b) + Len(t)
    BY <1>2
  <2>2. w + n <= Len(b)
    BY <1>3
  <2> QED BY <1>4, <2>1, <2>2
<1>15. s \in Seq(Byte) /\ b \in Seq(Byte) /\ t \in Seq(Byte)
  BY <1>2
<1>6. p \in Seq(Byte) /\ Len(p) = Len(s) - w /\ \A j \in 1..(Len(s) - w) : p[j] = s[w + j]
  BY <1>4, <1>5, <1>14, <1>15, RestIs
<1>7. n \in 1..Len(p)
  BY <1>6, <1>14
<1>8. SubSeq(p, 1, n) = [j \in 1..n |-> <<i, w + j>>]
  <2>1. \A j \in 1..n : p[j] = <<i, w + j>>
    <3> SUFFICES ASSUME NEW j \in 1..n PROVE p[j] = <<i, w + j>>
      OBVIOUS
    <3>1. j \in 1..(Len(s) - w) /\ w + j \in 1..Len(b)
      BY <1>4, <1>14
    <3>2. p[j] = s[w + j]
      BY <1>6, <3>1
    <3>4. s[w + j] = <<i, w + j>>
      BY <1>2, <3>1
    <3> QED BY <3>2, <3>4
  <2>2. \A j \in 1..n : p[j] \in Byte
    BY <1>6, <1>7
  <2>3. /\ SubSeq(p, 1, n) \in Seq(Byte) /\ Len(SubSeq(p, 1, n)) = n
        /\ \A j \in 1..n : SubSeq(p, 1, n)[j] = p[j]
    <3>1. /\ SubSeq(p, 1, n) \in Seq(Byte)
          /\ Len(SubSeq(p, 1, n)) = IF 1 <= n THEN n - 1 + 1 ELSE 0
          /\ \A j \in 1..(n - 1 + 1) : SubSeq(p, 1, n)[j] = p[1 + j - 1]
      BY <1>6, <2>2, SubSeqProperties
    <3>2. \A j \in 1..n : j \in 1..(n - 1 + 1) /\ 1 + j - 1 = j
      OBVIOUS
    <3>3. ASSUME NEW j \in 1..n PROVE SubSeq(p, 1, n)[j] = p[j]
      <4>1. SubSeq(p, 1, n)[j] = p[1 + j - 1] /\ 1 + j - 1 = j
        BY <3>1, <3>2
      <4> QED BY <4>1
    <3> QED BY <3>1, <3>3
  <2> DEFINE r == [j \in 1..n |-> <<i, w + j>>]
  <2>4. r \in Seq(Byte) /\ Len(r) = n /\ \A j \in 1..n : r[j] = <<i, w + j>>
    <3>1. \A j \in 1..n : <<i, w + j>> \in Byte
      BY <2>1, <2>2
    <3> QED BY <3>1
  <2> HIDE DEF r
  <2>5. \A j \in 1..n : SubSeq(p, 1, n)[j] = r[j]
    BY <2>1, <2>3, <2>4
  <2>6. SubSeq(p, 1, n) = r
    BY <2>3, <2>4, <2>5, SeqEqual
  <2> QED BY <2>6 DEF r
<1>9. Pending(l)' = SubSeq(p, n + 1, Len(p))
  <2>1. (DataTypes /\ Offsets => PendingRest)'
    BY PendingIs, PTL
  <2>2. Pending(l)' = Rest(Stream(line', sendq'[l]), writeofs'[l])
    BY <2>1 DEF PendingRest, Rest
  <2>3. Rest(Rest(s, w), n) = Rest(s, w + n)
    BY <1>4, <1>14, <1>15, RestOfRest
  <2>4. CASE w + n = Len(b)
    <3>1. Pending(l)' = Rest(Stream(line', Tail(q)), 0)
      BY <1>3, <2>2, <2>4
    <3>2. Stream(line', Tail(q)) = t
      <4>1. \A k \in 1..Len(Tail(q)) : Tail(q)[k] \in 1..Len(line)
        <5>1. q \in Seq(1..Len(line)) /\ q # <<>>
          BY <1>0, <1>1, QueueFacts
        <5>2. Tail(q) \in Seq(1..Len(line))
          BY <5>1
        <5> QED BY <5>2
      <4>2. \A k \in 1..Len(Tail(q)) : line'[Tail(q)[k]].len = line[Tail(q)[k]].len
        BY <4>1 DEF Grows
      <4>3. Queue(line, Tail(q)) /\ t = Stream(line, Tail(q))
        BY <1>1, <1>2
      <4>4. PICK u : u = Tail(q)
        OBVIOUS
      <4>5. Queue(line, u) /\ \A k \in 1..Len(u) : line'[u[k]].len = line[u[k]].len
        BY <4>2, <4>3, <4>4
      <4>6. Stream(line', u) = Stream(line, u)
        BY <4>5, StreamSame
      <4> QED BY <4>3, <4>4, <4>6
    <3>3. Rest(t, 0) = t
      BY <1>15, RestNone
    <3>4. Rest(b \o t, Len(b)) = Rest(b, Len(b)) \o t
      <4>1. Len(b) <= Len(b)
        BY <1>14
      <4> QED BY <1>14, <1>15, <4>1, RestConcat
    <3>5. Rest(b, Len(b)) = <<>>
      BY <1>15, RestNone
    <3>6. <<>> \o t = t
      BY <1>15
    <3>7. Rest(s, w + n) = t
      <4>1. s = b \o t
        BY <1>2
      <4> QED BY <2>4, <3>4, <3>5, <3>6, <4>1
    <3> QED BY <1>5, <2>3, <3>1, <3>2, <3>3, <3>7 DEF Rest
  <2>5. CASE w + n # Len(b)
    <3>1. Pending(l)' = Rest(Stream(line', q), w + n)
      BY <1>3, <2>2, <2>5
    <3>2. Stream(line', q) = s
      BY <1>1, SameStream
    <3> QED BY <1>5, <2>3, <3>1, <3>2 DEF Rest
  <2> QED BY <2>4, <2>5
<1>10. \A m \in Links : m # l => Pending(m)' = Pending(m)
  BY <1>3, SamePending
<1> DEFINE P == pending
<1>11. P' = [P EXCEPT ![l] = SubSeq(P[l], n + 1, Len(P[l]))] /\ P[l] = p
  <2>1. P[l] = p
    BY <1>1 DEF pending
  <2>2. P' = [P EXCEPT ![l] = SubSeq(p, n + 1, Len(p))]
    BY <1>9, <1>10 DEF pending
  <2> QED BY <2>1, <2>2
<1>12. got' = [got EXCEPT ![l] = @ \o SubSeq(P[l], 1, n)]
  <2>1. got' = [got EXCEPT ![l] = @ \o [j \in 1..n |-> <<Head(sendq[l]), WriteFrom(l) + j>>]]
    BY DEF Takes
  <2>2. Head(sendq[l]) = i /\ WriteFrom(l) = w
    BY <1>0, <1>1, QueueFacts, WriteFromIs
  <2>3. got' = [got EXCEPT ![l] = @ \o [j \in 1..n |-> <<i, w + j>>]]
    BY <2>1, <2>2
  <2> QED BY <1>8, <1>11, <2>3
<1>13. dead' = dead
  BY DEF Takes
<1> QED BY <1>3, <1>7, <1>11, <1>12, <1>13 DEF Fifo!Transmit, pending

\* The steps that leave the queues and their offsets alone leave the streams.
LEMMA SteadyPending ==
    ASSUME DataTypes, Offsets, DataTypes', Offsets', Grows, UNCHANGED <<sendq, writeofs>>
    PROVE  pending' = pending
<1>1. \A m \in Links : Pending(m)' = Pending(m)
  BY SamePending
<1> QED BY <1>1 DEF pending

\* Whatever a step does is a step of the streams, or none.
LEMMA EffectRefines ==
    ASSUME DataTypes, Sorted, Offsets, Effect
    PROVE  [Fifo!Next]_(Fifo!vars)
<1>0. Grows /\ DataTypes' /\ Offsets'
  BY EffectGrows, DataStep
<1> USE <1>0
<1>1. CASE Nothing
  <2>1. UNCHANGED <<line, got>> /\ pending' = pending
    BY <1>1, SteadyPending DEF Nothing
  <2>2. CASE dead' = dead
    BY <2>1, <2>2 DEF Fifo!vars, pending
  <2>3. CASE \E l \in Links : dead' = dead \cup {l}
    <3>1. PICK l \in Links : dead' = dead \cup {l}
      BY <2>3
    <3>2. Fifo!Shut(l)
      BY <2>1, <3>1 DEF Fifo!Shut, pending
    <3> QED BY <3>2 DEF Fifo!Next
  <2> QED BY <1>1, <2>2, <2>3 DEF Nothing
<1>2. ASSUME NEW n \in Lens, Makes(n) PROVE Fifo!Make
  <2>1. Len(line') = Len(line) + 1 /\ UNCHANGED <<dead, got>> /\ pending' = pending
    BY <1>2, MakesIs, SteadyPending DEF Makes
  <2> QED BY <2>1 DEF Fifo!Make, pending
<1>3. ASSUME NEW i \in 1..Len(line), LetsGo(i) PROVE UNCHANGED Fifo!vars
  <2>1. line' = Unref(line, i) /\ UNCHANGED <<dead, got, sendq, writeofs>>
    BY <1>3 DEF LetsGo
  <2>2. Len(line') = Len(line) /\ pending' = pending
    BY <2>1, UnrefIs, SteadyPending DEF DataTypes
  <2> QED BY <2>1, <2>2 DEF Fifo!vars, pending
<1>4. ASSUME NEW l \in Links, NEW i \in 1..Len(line), Puts(l, i) PROVE Fifo!Next
  <2>1. Fifo!Put(l, i, line[i].len)
    BY <1>4, PutsPut
  <2>2. line[i].len \in Lens
    <3>1. line[i] \in LineRec
      BY DEF DataTypes
    <3> QED BY <3>1 DEF LineRec
  <2> QED BY <2>1, <2>2 DEF Fifo!Next
<1>5. ASSUME NEW l \in Links, Drops(l) PROVE Fifo!Shut(l)
  <2>1. /\ Len(line') = Len(line) /\ sendq'[l] = <<>>
        /\ \A m \in Links : m # l => sendq'[m] = sendq[m]
        /\ UNCHANGED <<writeofs, got>> /\ dead' = dead \cup {l}
    BY <1>5, DropsIs DEF Drops
  <2>2. \A m \in Links : m # l => Pending(m)' = Pending(m)
    BY <2>1, SamePending
  <2>3. Pending(l)' = <<>>
    BY <2>1 DEF Pending
  <2>4. pending' = [pending EXCEPT ![l] = <<>>]
    BY <2>2, <2>3 DEF pending
  <2> QED BY <2>1, <2>4 DEF Fifo!Shut, pending
<1>6. ASSUME NEW l \in Links, NEW n \in Nat \ {0}, Takes(l, n) PROVE Fifo!Next
  <2>1. n \in 1..Len(pending[l]) /\ Fifo!Transmit(l, n)
    BY <1>6, TakesTransmit
  <2> QED BY <2>1 DEF Fifo!Next, pending
<1>7. ASSUME NEW l \in Links, Blocks(l) PROVE UNCHANGED Fifo!vars
  <2>1. Len(line') = Len(line) /\ UNCHANGED <<dead, got, sendq, writeofs>>
    BY <1>7, BlocksIs DEF Blocks
  <2>2. pending' = pending
    BY <2>1, SteadyPending
  <2> QED BY <2>1, <2>2 DEF Fifo!vars, pending
<1> QED BY <1>1, <1>2, <1>3, <1>4, <1>5, <1>6, <1>7 DEF Effect, Fifo!Next

---------------------------------------------------------------------------
(* The inductive invariant: the types; what the counts are; how the queues *)
(* stand to the lines; and the stack of calls.                             *)

ConnTypes ==
    /\ serv_list \in Seq(Links) /\ IsInjective(serv_list)
    /\ up \subseteq Links /\ wants \subseteq up
    /\ calls \in Seq(Call)
    /\ asked \in 0..MaxAsked /\ drops \in 0..MaxDrops

\* A link of the list has a descriptor, except where error_exit_client has
\* closed it and exit_client has not begun.
Linked == \A l \in ToSet(serv_list) : l \in up \/ calls = <<Exit(l)>>

\* A call: the line it holds exists; a link that exits is dead, and off the list
\* before its exit sends anything.
FrameOK(f) ==
    /\ f.op \in {"walk", "one"} => f.line \in 1..Len(line)
    /\ f.op = "exit" => f.of \in dead
    /\ f.op = "exit" /\ f.sent => f.of \notin ToSet(serv_list)

\* The links a walk has still to come to have nothing newer than its line.
Ahead(f) ==
    f.op = "walk" =>
        \A i, j \in 1..Len(serv_list) :
            serv_list[i] = f.at /\ i < j => Fresh(serv_list[j], f.line)

\* The innermost call: who is to get its line next has nothing newer, and a
\* flush has a descriptor to write to.
TopOK(f) ==
    /\ f.op = "one" /\ ~f.sent => Fresh(f.to, f.line)
    /\ f.op = "walk" /\ ~f.sent /\ f.at # End =>
         f.at \in ToSet(serv_list) /\ Fresh(f.at, f.line)
    /\ f.op = "flush" => f.to \in up

\* A call that waits has sent what it had to send to its present link; a walk
\* has nowhere to go on to, its link being off the list; a flush never waits.
Waits(f) ==
    /\ f.op # "flush"
    /\ f.sent
    /\ f.op = "walk" => f.at \notin ToSet(serv_list)

\* What may wait for the innermost call t besides: a walk, for the flush or the
\* exit of its present link; and an exit for the flush it begins with.
Awaits(t, f) ==
    \/ /\ f.op = "walk" /\ f.sent
       /\ \/ t.op = "flush" /\ t.to = f.at
          \/ t.op = "exit" /\ ~t.sent /\ t.of = f.at
    \/ f.op = "exit" /\ ~f.sent /\ t.op = "flush" /\ t.to = f.of

Settled(cs) == \A k \in 1..Len(cs) : FrameOK(cs[k]) /\ Waits(cs[k])

Under(t, cs) ==
    \/ Settled(cs)
    \/ /\ cs # <<>>
       /\ FrameOK(Head(cs)) /\ Ahead(Head(cs)) /\ Awaits(t, Head(cs))
       /\ Settled(Tail(cs))

\* A stack of calls: only a walk that is interrupted at a link of the list can
\* still send, and no line is made before it goes on.
Stack(cs) ==
    cs # <<>> =>
        /\ FrameOK(Head(cs)) /\ Ahead(Head(cs)) /\ TopOK(Head(cs))
        /\ Under(Head(cs), Tail(cs))

Inv ==
    /\ DataTypes /\ ConnTypes /\ RefcountsMatch
    /\ Sorted /\ Offsets /\ Linked /\ Stack(calls)

---------------------------------------------------------------------------
(* The list of servers.                                                    *)

\* All the links can be put in a list.
LEMMA SomeOrder ==
    ASSUME NEW S, IsFiniteSet(S)
    PROVE  SetToSeq(S) \in Seq(S) /\ IsInjective(SetToSeq(S))
<1>1. Cardinality(S) \in Nat /\ ExistsBijection(1..Cardinality(S), S)
  BY FS_CardinalityType
<1>2. PICK f \in Bijection(1..Cardinality(S), S) : TRUE
  BY <1>1 DEF ExistsBijection
<1>3. f \in [1..Cardinality(S) -> S] /\ IsInjective(f)
  BY <1>2 DEF Bijection, Injection, Surjection, IsInjective
<1>4. SetToSeq(S) \in [1..Cardinality(S) -> S] /\ IsInjective(SetToSeq(S))
  BY <1>3 DEF SetToSeq
<1> QED BY <1>1, <1>4

\* A list without one of its links has the others in their order.
LEMMA RemoveFirstKeeps ==
    ASSUME NEW S, NEW s \in Seq(S), IsInjective(s), NEW x,
           NEW r, r = RemoveFirst(s, x)
    PROVE  /\ r \in Seq(S) /\ IsInjective(r)
           /\ x \notin ToSet(r) /\ ToSet(r) \subseteq ToSet(s)
           /\ \A i, j \in 1..Len(r) : i < j =>
                \E k, m \in 1..Len(s) : k < m /\ s[k] = r[i] /\ s[m] = r[j]
<1>0. Len(s) \in Nat /\ DOMAIN s = 1..Len(s) /\ \A i, j \in 1..Len(s) : s[i] = s[j] => i = j
  BY DEF IsInjective
<1>1. CASE \A i \in 1..Len(s) : s[i] # x
  <2>1. r = s
    BY <1>1 DEF RemoveFirst
  <2> QED BY <1>0, <1>1, <2>1 DEF ToSet
<1>2. CASE \E i \in 1..Len(s) : s[i] = x
  <2>1. PICK n \in 1..Len(s) : s[n] = x
    BY <1>2
  <2>2. {i \in 1..Len(s) : s[i] = x} = {n}
    BY <1>0, <2>1
  <2>3. r = SubSeq(s, 1, n - 1) \o SubSeq(s, n + 1, Len(s))
    <3>1. Min({n}) = n
      BY <2>1 DEF Min
    <3>2. SelectInSeq(s, LAMBDA v : v = x) = n
      BY <2>2, <3>1 DEF SelectInSeq
    <3> QED BY <1>2, <3>2 DEF RemoveFirst, RemoveAt
  <2> DEFINE u == SubSeq(s, 1, n - 1)  v == SubSeq(s, n + 1, Len(s))
             old(i) == IF i < n THEN i ELSE i + 1
  <2>4. /\ r \in Seq(S) /\ Len(r) = Len(s) - 1
        /\ \A i \in 1..Len(r) : old(i) \in 1..Len(s) /\ old(i) # n /\ r[i] = s[old(i)]
    <3>1. /\ u \in Seq(S) /\ Len(u) = n - 1
          /\ \A i \in 1..(n - 1) : u[i] = s[i]
      BY <1>0
    <3>2. /\ v \in Seq(S) /\ Len(v) = Len(s) - n
          /\ \A i \in 1..(Len(s) - n) : v[i] = s[n + i]
      <4>1. \A i \in (n + 1)..Len(s) : s[i] \in S
        BY <1>0
      <4>2. /\ v \in Seq(S) /\ Len(v) = IF n + 1 <= Len(s) THEN Len(s) - (n + 1) + 1 ELSE 0
            /\ \A i \in 1..(Len(s) - (n + 1) + 1) : v[i] = s[(n + 1) + i - 1]
        BY <1>0, <4>1, SubSeqProperties
      <4> HIDE DEF v
      <4>0. Len(s) \in Nat /\ n \in Nat /\ n <= Len(s)
        BY <1>0
      <4>3. v \in Seq(S) /\ Len(v) = Len(s) - n
        <5>1. CASE n + 1 <= Len(s)
          BY <4>0, <4>2, <5>1
        <5>2. CASE ~(n + 1 <= Len(s))
          BY <4>0, <4>2, <5>2
        <5> QED BY <5>1, <5>2
      <4>4. ASSUME NEW i \in 1..(Len(s) - n) PROVE v[i] = s[n + i]
        <5>1. i \in 1..(Len(s) - (n + 1) + 1) /\ (n + 1) + i - 1 = n + i
          BY <1>0
        <5>2. v[i] = s[(n + 1) + i - 1]
          BY <4>2, <5>1
        <5> QED BY <5>1, <5>2
      <4> QED BY <4>3, <4>4
    <3>0. r = u \o v
      BY <2>3
    <3> HIDE DEF u, v
    <3>4. /\ r \in Seq(S) /\ Len(r) = Len(u) + Len(v)
          /\ \A i \in 1..(Len(u) + Len(v)) : r[i] = IF i <= Len(u) THEN u[i] ELSE v[i - Len(u)]
      <4>1. /\ u \o v \in Seq(S) /\ Len(u \o v) = Len(u) + Len(v)
            /\ \A i \in 1..(Len(u) + Len(v)) :
                  (u \o v)[i] = IF i <= Len(u) THEN u[i] ELSE v[i - Len(u)]
        BY <3>1, <3>2, ConcatProperties
      <4> QED BY <3>0, <4>1
    <3>3. /\ r \in Seq(S) /\ Len(r) = Len(s) - 1
          /\ \A i \in 1..Len(r) : r[i] = IF i <= Len(u) THEN u[i] ELSE v[i - Len(u)]
      <4>1. Len(u) + Len(v) = Len(s) - 1
        BY <1>0, <3>1, <3>2
      <4>2. Len(r) = Len(s) - 1 /\ 1..Len(r) = 1..(Len(u) + Len(v))
        BY <3>4, <4>1
      <4> QED BY <3>4, <4>2
    <3>5. ASSUME NEW i \in 1..Len(r)
          PROVE  old(i) \in 1..Len(s) /\ old(i) # n /\ r[i] = s[old(i)]
      <4>1. CASE i < n
        <5>1. i \in 1..(n - 1)
          BY <4>1
        <5>2. r[i] = u[i]
          BY <3>1, <3>3, <5>1
        <5> QED BY <1>0, <3>1, <4>1, <5>1, <5>2
      <4>2. CASE ~(i < n)
        <5>1. i - (n - 1) \in 1..(Len(s) - n) /\ n + (i - (n - 1)) = i + 1 /\ i + 1 \in 1..Len(s)
          BY <1>0, <3>3, <4>2
        <5>2. r[i] = v[i - (n - 1)]
          BY <3>1, <3>3, <4>2
        <5>3. v[i - (n - 1)] = s[i + 1]
          BY <3>2, <5>1
        <5> QED BY <4>2, <5>1, <5>2, <5>3
      <4> QED BY <4>1, <4>2
    <3> QED BY <3>3, <3>5
  <2>5. \A i, j \in 1..Len(r) : (i < j => old(i) < old(j)) /\ (old(i) = old(j) => i = j)
    BY <2>4
  <2> HIDE DEF old
  <2>6. DOMAIN r = 1..Len(r)
    BY <2>4
  <2>7. IsInjective(r)
    BY <1>0, <2>4, <2>5, <2>6 DEF IsInjective
  <2>8. x \notin ToSet(r) /\ ToSet(r) \subseteq ToSet(s)
    <3>1. \A i \in 1..Len(r) : r[i] # x /\ r[i] \in ToSet(s)
      BY <1>0, <2>1, <2>4 DEF ToSet
    <3> QED BY <2>6, <3>1 DEF ToSet
  <2> QED BY <2>4, <2>5, <2>7, <2>8
<1> QED BY <1>1, <1>2

\* Where a loop over the list begins.
LEMMA FirstIs ==
    ASSUME ConnTypes
    PROVE  /\ First \in Links \cup {End}
           /\ First # End => \E i \in 1..Len(serv_list) : serv_list[i] = First
<1>1. Len(serv_list) \in Nat /\ \A i \in 1..Len(serv_list) : serv_list[i] \in Links
  BY DEF ConnTypes
<1>2. serv_list # <<>> => 1 \in 1..Len(serv_list)
  BY DEF ConnTypes
<1> QED BY <1>1, <1>2 DEF First

\* Where it goes from a link: to the end if the link is not on the list.
LEMMA NextIs ==
    ASSUME ConnTypes, NEW l \in Links
    PROVE  /\ NextNode(l) \in Links \cup {End}
           /\ NextNode(l) # End =>
                \E i \in 1..Len(serv_list) :
                   i + 1 \in 1..Len(serv_list) /\ serv_list[i] = l /\ serv_list[i + 1] = NextNode(l)
<1> DEFINE j == CHOOSE j \in DOMAIN serv_list : serv_list[j] = l
<1>1. /\ Len(serv_list) \in Nat /\ DOMAIN serv_list = 1..Len(serv_list)
      /\ \A i \in 1..Len(serv_list) : serv_list[i] \in Links
  BY DEF ConnTypes
<1>2. CASE l \notin ToSet(serv_list) \/ l = Last(serv_list)
  BY <1>2 DEF NextNode
<1>3. CASE ~(l \notin ToSet(serv_list) \/ l = Last(serv_list))
  <2>1. j \in 1..Len(serv_list) /\ serv_list[j] = l
    BY <1>1, <1>3 DEF ToSet
  <2>2. NextNode(l) = serv_list[j + 1]
    BY <1>3 DEF NextNode
  <2> HIDE DEF j
  <2>3. \A k \in 1..Len(serv_list) : serv_list[k] = l => k + 1 \in 1..Len(serv_list)
    BY <1>1, <1>3 DEF Last
  <2>4. j + 1 \in 1..Len(serv_list)
    BY <2>1, <2>3
  <2> QED BY <1>1, <2>1, <2>2, <2>4
<1> QED BY <1>2, <1>3

---------------------------------------------------------------------------
(* Calls and the stack of calls.                                           *)

\* The call that has sent to its link, and the one that goes on to the next.
Sent(f) == [f EXCEPT !.sent = TRUE]
Moved(f, x) == [f EXCEPT !.at = x, !.sent = FALSE]

\* What each kind of call is made of.
LEMMA CallFields ==
    ASSUME NEW f \in Call
    PROVE  /\ f.op \in {"walk", "quits", "one", "flush", "exit"}
           /\ f.op = "walk" => /\ f.line \in Nat /\ f.at \in Links \cup {End}
                               /\ f.to \subseteq Links /\ f.sent \in BOOLEAN
           /\ f.op = "quits" => f.at \in Links \cup {End} /\ f.sent \in BOOLEAN
           /\ f.op = "one" => f.line \in Nat /\ f.to \in Links /\ f.sent \in BOOLEAN
           /\ f.op = "flush" => f.to \in Links /\ f.ready \in BOOLEAN
           /\ f.op = "exit" => f.of \in Links /\ f.sent \in BOOLEAN
BY DEF Call

\* A call that has sent its line is otherwise the same.
LEMMA SentIs ==
    ASSUME NEW f \in Call, f.op # "flush"
    PROVE  /\ Sent(f) \in Call /\ Sent(f).op = f.op /\ Sent(f).sent
           /\ f.op = "walk" => Sent(f).line = f.line /\ Sent(f).at = f.at
           /\ f.op = "one" => Sent(f).line = f.line
           /\ f.op = "exit" => Sent(f).of = f.of
<1>1. CASE f.op = "walk"
  <2>1. f \in [op : {"walk"}, line : Nat, at : Links \cup {End}, to : SUBSET Links, sent : BOOLEAN]
    BY <1>1 DEF Call
  <2> QED BY <1>1, <2>1 DEF Sent, Call
<1>2. CASE f.op = "quits"
  <2>1. f \in [op : {"quits"}, at : Links \cup {End}, sent : BOOLEAN]
    BY <1>2 DEF Call
  <2> QED BY <1>2, <2>1 DEF Sent, Call
<1>3. CASE f.op = "one"
  <2>1. f \in [op : {"one"}, line : Nat, to : Links, sent : BOOLEAN]
    BY <1>3 DEF Call
  <2> QED BY <1>3, <2>1 DEF Sent, Call
<1>4. CASE f.op = "exit"
  <2>1. f \in [op : {"exit"}, of : Links, sent : BOOLEAN]
    BY <1>4 DEF Call
  <2> QED BY <1>4, <2>1 DEF Sent, Call
<1> QED BY <1>1, <1>2, <1>3, <1>4, CallFields

\* A loop that has moved on is otherwise the same.
LEMMA MovedIs ==
    ASSUME NEW f \in Call, f.op \in {"walk", "quits"}, NEW x \in Links \cup {End}
    PROVE  /\ Moved(f, x) \in Call /\ Moved(f, x).op = f.op /\ ~Moved(f, x).sent
           /\ Moved(f, x).at = x
           /\ f.op = "walk" => Moved(f, x).line = f.line
<1>1. CASE f.op = "walk"
  <2>1. f \in [op : {"walk"}, line : Nat, at : Links \cup {End}, to : SUBSET Links, sent : BOOLEAN]
    BY <1>1 DEF Call
  <2> QED BY <1>1, <2>1 DEF Moved, Call
<1>2. CASE f.op = "quits"
  <2>1. f \in [op : {"quits"}, at : Links \cup {End}, sent : BOOLEAN]
    BY <1>2 DEF Call
  <2> QED BY <1>2, <2>1 DEF Moved, Call
<1> QED BY <1>1, <1>2

\* A stack is its innermost call on the rest.
LEMMA Innermost ==
    ASSUME NEW cs \in Seq(Call), cs # <<>>
    PROVE  /\ Head(cs) \in Call /\ Tail(cs) \in Seq(Call)
           /\ cs = <<Head(cs)>> \o Tail(cs)
<1>1. /\ Head(cs) \in Call /\ Head(cs) = cs[1] /\ Tail(cs) \in Seq(Call)
      /\ Len(Tail(cs)) = Len(cs) - 1 /\ Len(cs) \in Nat
      /\ \A k \in 1..Len(Tail(cs)) : Tail(cs)[k] = cs[k + 1]
  OBVIOUS
<1> DEFINE t == Head(cs)  b == Tail(cs)  ds == <<t>> \o b
<1> HIDE DEF t, b
<1>2. ds \in Seq(Call) /\ Len(ds) = Len(cs)
  BY <1>1 DEF t, b
<1>3. ASSUME NEW k \in 1..Len(cs) PROVE ds[k] = cs[k]
  BY <1>1 DEF t, b
<1> HIDE DEF ds
<1>4. ds = cs
  BY <1>2, <1>3, SeqEqual
<1> QED BY <1>1, <1>4 DEF ds, t, b

\* A call on top of a stack.
LEMMA Push ==
    ASSUME NEW f \in Call, NEW cs \in Seq(Call)
    PROVE  /\ <<f>> \o cs \in Seq(Call) /\ <<f>> \o cs # <<>>
           /\ Head(<<f>> \o cs) = f /\ Tail(<<f>> \o cs) = cs
           /\ Len(<<f>> \o cs) = Len(cs) + 1 /\ (<<f>> \o cs)[1] = f
           /\ \A k \in 1..Len(cs) : (<<f>> \o cs)[k + 1] = cs[k]
<1> DEFINE ds == <<f>> \o cs
<1>1. /\ ds \in Seq(Call) /\ Len(ds) = Len(cs) + 1 /\ ds[1] = f /\ Len(cs) \in Nat
      /\ \A k \in 1..Len(cs) : ds[k + 1] = cs[k]
  OBVIOUS
<1> HIDE DEF ds
<1>2. ds # <<>> /\ Head(ds) = f
  BY <1>1
<1>3. Tail(ds) \in Seq(Call) /\ Len(Tail(ds)) = Len(cs)
      /\ \A k \in 1..Len(cs) : Tail(ds)[k] = cs[k]
  BY <1>1, <1>2
<1>4. Tail(ds) = cs
  BY <1>3, SeqEqual
<1> QED BY <1>1, <1>2, <1>4 DEF ds

\* Two calls on a stack, one after the other.
LEMMA PushTwo ==
    ASSUME NEW f \in Call, NEW g \in Call, NEW cs \in Seq(Call)
    PROVE  <<f, g>> \o cs = <<f>> \o (<<g>> \o cs)
<1>1. <<f, g>> = <<f>> \o <<g>>
  <2>1. <<f>> \in Seq(Call) /\ <<g>> \in Seq(Call) /\ <<f, g>> \in Seq(Call)
    OBVIOUS
  <2>2. <<f>> \o <<g>> \in Seq(Call) /\ Len(<<f>> \o <<g>>) = 2
        /\ (<<f>> \o <<g>>)[1] = f /\ (<<f>> \o <<g>>)[2] = g
    BY <2>1, ConcatProperties
  <2>3. Len(<<f, g>>) = 2 /\ <<f, g>>[1] = f /\ <<f, g>>[2] = g
    OBVIOUS
  <2>4. \A k \in 1..2 : <<f, g>>[k] = (<<f>> \o <<g>>)[k]
    BY <2>2, <2>3
  <2> QED BY <2>1, <2>2, <2>3, <2>4, SeqEqual
<1>2. \A u, v, w \in Seq(Call) : (u \o v) \o w = u \o (v \o w)
  BY ConcatAssociative
<1>3. <<f>> \in Seq(Call) /\ <<g>> \in Seq(Call)
  OBVIOUS
<1> QED BY <1>1, <1>2, <1>3

\* One call more, and what it holds.
LEMMA HoldersPush ==
    ASSUME NEW f \in Call, NEW cs \in Seq(Call), NEW i
    PROVE  /\ Holders(cs, i) \in Nat
           /\ Holders(<<f>> \o cs, i) = Holders(cs, i) + IF Holds(f, i) THEN 1 ELSE 0
<1> DEFINE ds == <<f>> \o cs
           K == {k \in DOMAIN cs : Holds(cs[k], i)}
           M == {k + 1 : k \in K}
           D == {k \in DOMAIN ds : Holds(ds[k], i)}
<1>1. /\ Len(cs) \in Nat /\ DOMAIN cs = 1..Len(cs) /\ DOMAIN ds = 1..(Len(cs) + 1)
      /\ ds[1] = f /\ \A k \in 1..Len(cs) : ds[k + 1] = cs[k]
  BY Push
<1>0. Holders(cs, i) = Cardinality(K) /\ Holders(ds, i) = Cardinality(D)
  BY DEF Holders
<1> HIDE DEF ds
<1>2. K \subseteq 1..Len(cs) /\ IsFiniteSet(K) /\ Cardinality(K) \in Nat
  <2>1. K \subseteq 1..Len(cs) /\ IsFiniteSet(1..Len(cs))
    BY <1>1, FS_Interval
  <2> HIDE DEF K
  <2>2. IsFiniteSet(K)
    BY <2>1, FS_Subset
  <2> QED BY <2>1, <2>2, FS_CardinalityType
<1>3. Cardinality(M) = Cardinality(K) /\ IsFiniteSet(M)
  <2> DEFINE up1 == [k \in K |-> k + 1]
  <2>1. K \subseteq Int
    BY <1>2
  <2>2. up1 \in [K -> M] /\ \A m \in M : \E k \in K : up1[k] = m
    OBVIOUS
  <2>3. \A j, k \in K : up1[j] = up1[k] => j = k
    BY <2>1
  <2>4. DOMAIN up1 = K
    OBVIOUS
  <2> HIDE DEF up1, K, M
  <2>5. up1 \in Bijection(K, M)
    BY <2>2, <2>3, <2>4 DEF Bijection, Injection, Surjection, IsInjective
  <2> QED BY <1>2, <2>5, FS_Bijection DEF ExistsBijection
<1>4. D = IF Holds(f, i) THEN M \cup {1} ELSE M
  <2>1. ASSUME NEW k \in DOMAIN ds, k # 1
        PROVE  k - 1 \in 1..Len(cs) /\ (k - 1) + 1 = k /\ ds[k] = cs[k - 1]
    BY <1>1, <2>1
  <2>2. \A k : k \in D => k = 1 \/ k \in M
    BY <1>1, <2>1
  <2>3. \A k : k \in M => k \in D /\ k # 1
    BY <1>1
  <2>4. 1 \in D <=> Holds(f, i)
    BY <1>1
  <2> QED BY <2>2, <2>3, <2>4
<1>5. 1 \notin M
  BY <1>1
<1>6. Cardinality(M \cup {1}) = Cardinality(M) + 1
  BY <1>3, <1>5, FS_AddElement
<1> HIDE DEF K, M, D
<1> QED BY <1>0, <1>2, <1>3, <1>4, <1>6 DEF ds

\* An empty stack holds no line.
LEMMA HoldersNone ==
    \A i : Holders(<<>>, i) = 0
<1>1. \A i : {k \in DOMAIN <<>> : Holds(<<>>[k], i)} = {}
  OBVIOUS
<1> QED BY <1>1, FS_EmptySet DEF Holders

---------------------------------------------------------------------------
(* The stack of calls is kept.                                             *)

\* A step by which no link's newest line gets onto its queue.
Stays(l) == \A i : Fresh(l, i) => Fresh(l, i)'

\* The lists only get shorter.
Shrinks == ToSet(serv_list') \subseteq ToSet(serv_list)

\* A call stays sound while lines are added and links leave the list.
LEMMA FrameKept ==
    ASSUME Grows, Shrinks, NEW f \in Call, FrameOK(f)
    PROVE  FrameOK(f)'
<1>1. f.op \in {"walk", "one"} => f.line \in 1..Len(line')
  BY DEF FrameOK, Grows
<1>2. f.op = "exit" => f.of \in dead'
  BY DEF FrameOK, Grows
<1>3. f.op = "exit" /\ f.sent => f.of \notin ToSet(serv_list')
  BY DEF FrameOK, Shrinks
<1> QED BY <1>1, <1>2, <1>3 DEF FrameOK

\* So do the calls that wait.
LEMMA SettledKept ==
    ASSUME Grows, Shrinks, NEW cs \in Seq(Call), Settled(cs)
    PROVE  Settled(cs)'
<1> SUFFICES ASSUME NEW k \in 1..Len(cs) PROVE FrameOK(cs[k])' /\ Waits(cs[k])'
  BY DEF Settled
<1>1. FrameOK(cs[k]) /\ Waits(cs[k]) /\ cs[k] \in Call
  BY DEF Settled
<1>2. FrameOK(cs[k])'
  BY <1>1, FrameKept
<1>3. Waits(cs[k])'
  BY <1>1 DEF Waits, Shrinks
<1> QED BY <1>2, <1>3

\* Nothing newer reaches the links a walk has still to come to.
LEMMA AheadKept ==
    ASSUME NEW f \in Call, Ahead(f), UNCHANGED serv_list,
           \A i, j \in 1..Len(serv_list) : serv_list[i] = f.at /\ i < j => Stays(serv_list[j])
    PROVE  Ahead(f)'
<1> SUFFICES ASSUME f.op = "walk", NEW i \in 1..Len(serv_list), NEW j \in 1..Len(serv_list),
                    serv_list[i] = f.at, i < j
             PROVE  Fresh(serv_list[j], f.line)'
  BY DEF Ahead
<1>1. PICK l : l = serv_list[j]
  OBVIOUS
<1>2. Fresh(l, f.line) /\ Stays(l)
  BY <1>1 DEF Ahead
<1>3. Fresh(l, f.line)'
  BY <1>2 DEF Stays
<1>4. l = serv_list'[j]
  BY <1>1
<1> QED BY <1>3, <1>4 DEF Fresh

\* What is under the innermost call stays as it is.
LEMMA UnderKept ==
    ASSUME Grows, ConnTypes, UNCHANGED serv_list, \A l \in Links : Stays(l),
           NEW t, NEW cs \in Seq(Call), Under(t, cs)
    PROVE  Under(t, cs)'
<1>0. Shrinks
  BY DEF Shrinks
<1>1. CASE Settled(cs)
  BY <1>0, <1>1, SettledKept DEF Under
<1>2. CASE ~Settled(cs)
  <2>1. PICK f, r : f = Head(cs) /\ r = Tail(cs)
    OBVIOUS
  <2>2. /\ cs # <<>> /\ FrameOK(f) /\ Ahead(f) /\ Awaits(t, f) /\ Settled(r)
    BY <1>2, <2>1 DEF Under
  <2>3. f \in Call /\ r \in Seq(Call)
    BY <2>1, <2>2, Innermost
  <2>4. FrameOK(f)' /\ Settled(r)'
    BY <1>0, <2>2, <2>3, FrameKept, SettledKept
  <2>5. Ahead(f)'
    <3>1. \A j \in 1..Len(serv_list) : serv_list[j] \in Links
      BY DEF ConnTypes
    <3> QED BY <2>2, <2>3, <3>1, AheadKept
  <2> QED BY <2>1, <2>2, <2>4, <2>5 DEF Under
<1> QED BY <1>1, <1>2

\* When the innermost call returns, the next one goes on.
LEMMA PopStack ==
    ASSUME NEW t, NEW cs \in Seq(Call), Under(t, cs)', calls' = cs
    PROVE  Stack(calls)'
<1> SUFFICES ASSUME cs # <<>> PROVE Stack(cs)'
  BY DEF Stack
<1>1. PICK f, r : f = Head(cs) /\ r = Tail(cs)
  OBVIOUS
<1>2. Len(cs) \in Nat /\ 1 \in 1..Len(cs) /\ f = cs[1] /\ r \in Seq(Call)
      /\ Len(r) = Len(cs) - 1 /\ \A k \in 1..Len(r) : r[k] = cs[k + 1] /\ k + 1 \in 1..Len(cs)
  BY <1>1
<1>3. FrameOK(f)' /\ Ahead(f)' /\ TopOK(f)' /\ Settled(r)'
  <2>1. CASE Settled(cs)'
    <3>1. FrameOK(f)' /\ Waits(f)'
      BY <1>2, <2>1 DEF Settled
    <3>2. TopOK(f)'
      BY <3>1 DEF Waits, TopOK
    <3>3. Ahead(f)'
      <4>1. f.op = "walk" => f.at \notin ToSet(serv_list')
        BY <3>1 DEF Waits
      <4>2. \A i \in 1..Len(serv_list') : serv_list'[i] = f.at => f.op # "walk"
        BY <4>1 DEF ToSet
      <4> QED BY <4>2 DEF Ahead
    <3>4. Settled(r)'
      BY <1>2, <2>1 DEF Settled
    <3> QED BY <3>1, <3>2, <3>3, <3>4
  <2>2. CASE ~Settled(cs)'
    <3>1. FrameOK(f)' /\ Ahead(f)' /\ Awaits(t, f) /\ Settled(r)'
      BY <1>1, <2>2 DEF Under
    <3>2. TopOK(f)'
      BY <3>1 DEF Awaits, TopOK
    <3> QED BY <3>1, <3>2
  <2> QED BY <2>1, <2>2
<1>4. Under(f, r)'
  BY <1>3 DEF Under
<1> QED BY <1>1, <1>3, <1>4 DEF Stack

\* One call more that waits.
LEMMA SettledPush ==
    ASSUME NEW f \in Call, NEW cs \in Seq(Call), FrameOK(f)', Waits(f)', Settled(cs)'
    PROVE  Settled(<<f>> \o cs)'
<1>1. PICK ds : ds = <<f>> \o cs
  OBVIOUS
<1>2. /\ ds \in Seq(Call) /\ Len(ds) = Len(cs) + 1 /\ ds[1] = f /\ Len(cs) \in Nat
      /\ \A k \in 1..Len(cs) : ds[k + 1] = cs[k]
  BY <1>1, Push
<1>3. ASSUME NEW k \in 1..Len(ds) PROVE FrameOK(ds[k])' /\ Waits(ds[k])'
  <2>1. CASE k = 1
    BY <1>2, <2>1
  <2>2. CASE k # 1
    <3>1. k - 1 \in 1..Len(cs) /\ (k - 1) + 1 = k
      BY <1>2, <2>2
    <3>2. ds[k] = cs[k - 1]
      BY <1>2, <3>1
    <3> QED BY <3>1, <3>2 DEF Settled
  <2> QED BY <2>1, <2>2
<1> QED BY <1>1, <1>3 DEF Settled

\* One call more that waits for the innermost one.
LEMMA UnderPush ==
    ASSUME NEW t, NEW f \in Call, NEW cs \in Seq(Call),
           FrameOK(f)', Ahead(f)', Awaits(t, f), Settled(cs)'
    PROVE  Under(t, <<f>> \o cs)'
<1>1. PICK ds : ds = <<f>> \o cs
  OBVIOUS
<1>2. ds # <<>> /\ Head(ds) = f /\ Tail(ds) = cs
  BY <1>1, Push
<1> QED BY <1>1, <1>2 DEF Under

\* A new innermost call.
LEMMA StackPush ==
    ASSUME NEW f \in Call, NEW cs \in Seq(Call), calls' = <<f>> \o cs,
           FrameOK(f)', Ahead(f)', TopOK(f)', Under(f, cs)'
    PROVE  calls' \in Seq(Call) /\ Stack(calls)'
<1>1. calls' \in Seq(Call) /\ Head(calls') = f /\ Tail(calls') = cs
  BY Push
<1> QED BY <1>1 DEF Stack

\* For what does not wait for a flush, or an exit from its start, the calls
\* below have settled.
LEMMA UnderSettled ==
    ASSUME NEW t \in Call, NEW cs, Under(t, cs), t.op # "flush", ~(t.op = "exit" /\ ~t.sent)
    PROVE  Settled(cs)
BY DEF Under, Awaits

---------------------------------------------------------------------------
(* Which steps keep the newest line off a queue.                           *)

\* A link with nothing it had not before has nothing newer.
LEMMA StaysIf ==
    ASSUME NEW l, Len(line') = Len(line),
           \A k \in 1..Len(sendq'[l]) : \E j \in 1..Len(sendq[l]) : sendq'[l][k] = sendq[l][j],
           \A k \in 1..Len(got'[l]) :
              \/ \E j \in 1..Len(got[l]) : got'[l][k][1] = got[l][j][1]
              \/ \E j \in 1..Len(sendq[l]) : got'[l][k][1] = sendq[l][j]
    PROVE  Stays(l)
<1> SUFFICES ASSUME NEW i, Fresh(l, i) PROVE Fresh(l, i)'
  BY DEF Stays
<1>1. \A k \in 1..Len(sendq'[l]) : sendq'[l][k] # i
  BY DEF Fresh
<1>2. \A k \in 1..Len(got'[l]) : got'[l][k][1] # i
  BY DEF Fresh
<1> QED BY <1>1, <1>2 DEF Fresh

\* The same queue and the same bytes at the peer.
LEMMA StaysSame ==
    ASSUME NEW l, Len(line') = Len(line), sendq'[l] = sendq[l], got'[l] = got[l]
    PROVE  Stays(l)
BY DEF Stays, Fresh

\* Doing nothing adds nothing newer.
LEMMA NothingStays ==
    ASSUME Nothing PROVE \A l \in Links : Stays(l)
BY StaysSame DEF Nothing

\* Nor does letting go of a line.
LEMMA LetsGoStays ==
    ASSUME DataTypes, NEW i \in 1..Len(line), LetsGo(i) PROVE \A l \in Links : Stays(l)
<1>1. line' = Unref(line, i) /\ UNCHANGED <<sendq, got>>
  BY DEF LetsGo
<1>2. Len(line') = Len(line)
  BY <1>1, UnrefIs DEF DataTypes
<1> QED BY <1>1, <1>2, StaysSame

\* Putting a line on one queue adds nothing to the others.
LEMMA PutsStays ==
    ASSUME DataTypes, NEW m \in Links, NEW i \in 1..Len(line), Puts(m, i)
    PROVE  \A l \in Links : l # m => Stays(l)
<1>1. Len(line') = Len(line) /\ got' = got /\ \A l \in Links : l # m => sendq'[l] = sendq[l]
  BY PutsIs DEF Puts
<1> QED BY <1>1, StaysSame

\* Dropping a queue adds nothing newer.
LEMMA DropsStays ==
    ASSUME DataTypes, Sorted, NEW m \in Links, Drops(m) PROVE \A l \in Links : Stays(l)
<1> SUFFICES ASSUME NEW l \in Links PROVE Stays(l)
  OBVIOUS
<1>1. /\ Len(line') = Len(line) /\ sendq'[m] = <<>> /\ got' = got
      /\ \A x \in Links : x # m => sendq'[x] = sendq[x]
  BY DropsIs DEF Drops
<1>2. CASE l # m
  BY <1>1, <1>2, StaysSame
<1>3. CASE l = m
  BY <1>1, <1>3 DEF Stays, Fresh
<1> QED BY <1>2, <1>3

\* Nor does a write that would block.
LEMMA BlocksStays ==
    ASSUME DataTypes, Offsets, NEW m \in Links, Blocks(m) PROVE \A l \in Links : Stays(l)
<1>1. Len(line') = Len(line) /\ UNCHANGED <<sendq, got>>
  BY BlocksIs DEF Blocks
<1> QED BY <1>1, StaysSame

\* Nor does a write.
LEMMA TakesStays ==
    ASSUME DataTypes, Offsets, NEW m \in Links, NEW n \in Nat \ {0}, Takes(m, n)
    PROVE  \A l \in Links : Stays(l)
<1> SUFFICES ASSUME NEW l \in Links PROVE Stays(l)
  OBVIOUS
<1>1. PICK q, g, i, w : q = sendq[m] /\ g = got[m] /\ i = sendq[m][1] /\ w = writeofs[m]
  OBVIOUS
<1>2. /\ Len(line') = Len(line)
      /\ sendq'[m] = Tail(q) \/ sendq'[m] = q
      /\ got'[m] = g \o [j \in 1..n |-> <<i, w + j>>]
      /\ \A x \in Links : x # m => sendq'[x] = sendq[x] /\ got'[x] = got[x]
  <2>1. /\ Len(line') = Len(line)
        /\ sendq'[m] = Tail(sendq[m]) \/ sendq'[m] = sendq[m]
        /\ got'[m] = got[m] \o [j \in 1..n |-> <<sendq[m][1], writeofs[m] + j>>]
        /\ \A x \in Links : x # m => sendq'[x] = sendq[x] /\ got'[x] = got[x]
    <3>1. Len(line') = Len(line)
          /\ \A x \in Links : x # m => sendq'[x] = sendq[x] /\ got'[x] = got[x]
      BY TakesIs
    <3>2. sendq'[m] = IF writeofs[m] + n = line[sendq[m][1]].len THEN Tail(sendq[m]) ELSE sendq[m]
      BY TakesIs
    <3>3. got'[m] = got[m] \o [j \in 1..n |-> <<sendq[m][1], writeofs[m] + j>>]
      BY TakesIs
    <3> QED BY <3>1, <3>2, <3>3
  <2> QED BY <1>1, <2>1
<1>3. CASE l # m
  BY <1>2, <1>3, StaysSame
<1>4. CASE l = m
  <2>1. /\ q \in Seq(1..Len(line)) /\ q # <<>> /\ Len(q) \in Nat /\ 1 \in 1..Len(q)
        /\ i \in 1..Len(line) /\ Len(line) \in Nat
    BY <1>1, QueueFacts DEF Takes
  <2>2. g \in Seq((1..Len(line)) \X Nat) /\ w \in Nat
    BY <1>1 DEF DataTypes
  <2>3. \A k \in 1..Len(sendq'[m]) : \E j \in 1..Len(q) : sendq'[m][k] = q[j]
    <3>1. CASE sendq'[m] = q
      BY <3>1
    <3>2. CASE sendq'[m] = Tail(q)
      <4>1. \A k \in 1..Len(Tail(q)) : k + 1 \in 1..Len(q) /\ Tail(q)[k] = q[k + 1]
        BY <2>1
      <4> QED BY <3>2, <4>1
    <3> QED BY <1>2, <3>1, <3>2
  <2> DEFINE h == [j \in 1..n |-> <<i, w + j>>]
  <2>4. h \in Seq((1..Len(line)) \X Nat) /\ Len(h) = n /\ \A j \in 1..n : h[j][1] = i
    BY <2>1, <2>2
  <2>5. got'[m] = g \o h
    BY <1>2
  <2> HIDE DEF h
  <2>6. /\ Len(g) \in Nat /\ Len(g \o h) = Len(g) + n
        /\ \A k \in 1..(Len(g) + n) :
             (g \o h)[k] = IF k <= Len(g) THEN g[k] ELSE h[k - Len(g)]
    <3>1. PICK S : S = (1..Len(line)) \X Nat
      OBVIOUS
    <3>2. g \in Seq(S) /\ h \in Seq(S) /\ Len(h) = n
      BY <2>2, <2>4, <3>1
    <3>3. /\ Len(g \o h) = Len(g) + Len(h)
          /\ \A k \in 1..(Len(g) + Len(h)) :
               (g \o h)[k] = IF k <= Len(g) THEN g[k] ELSE h[k - Len(g)]
      BY <3>2, ConcatProperties
    <3> QED BY <3>2, <3>3
  <2>7. ASSUME NEW k \in 1..Len(got'[m])
        PROVE  \/ \E j \in 1..Len(g) : got'[m][k][1] = g[j][1]
               \/ \E j \in 1..Len(q) : got'[m][k][1] = q[j]
    <3>1. k \in 1..(Len(g) + n)
      BY <2>5, <2>6
    <3>2. CASE k <= Len(g)
      <4>1. got'[m][k] = g[k] /\ k \in 1..Len(g)
        BY <2>5, <2>6, <3>1, <3>2
      <4> QED BY <4>1
    <3>3. CASE ~(k <= Len(g))
      <4>1. got'[m][k] = h[k - Len(g)] /\ k - Len(g) \in 1..n
        BY <2>5, <2>6, <3>1, <3>3
      <4>2. got'[m][k][1] = q[1]
        BY <1>1, <2>4, <4>1
      <4> QED BY <2>1, <4>2
    <3> QED BY <3>2, <3>3
  <2> QED BY <1>1, <1>2, <1>4, <2>3, <2>7, StaysIf
<1> QED BY <1>3, <1>4

\* A line that has just been made is newer than all.
LEMMA NewFresh ==
    ASSUME DataTypes, NEW n \in Lens, Makes(n), NEW i, i = NewLine
    PROVE  \A l \in Links : Fresh(l, i)'
<1> SUFFICES ASSUME NEW l \in Links PROVE Fresh(l, i)'
  OBVIOUS
<1>1. /\ Len(line') = Len(line) + 1 /\ Len(line) \in Nat /\ i = Len(line) + 1
      /\ sendq' = sendq /\ got' = got
  BY MakesIs DEF Makes, NewLine
<1>2. \A k \in 1..Len(sendq[l]) : sendq[l][k] \in 1..Len(line)
  BY QueueFacts
<1>3. \A k \in 1..Len(got[l]) : got[l][k][1] \in 1..Len(line)
  <2>1. got[l] \in Seq((1..Len(line)) \X Nat)
    BY DEF DataTypes
  <2>2. \A k \in 1..Len(got[l]) : got[l][k] \in (1..Len(line)) \X Nat
    BY <2>1
  <2> QED BY <2>2
<1>4. i \notin 1..Len(line)
  BY <1>1
<1> QED BY <1>1, <1>2, <1>3, <1>4 DEF Fresh

---------------------------------------------------------------------------
(* What the calls hold.                                                    *)


\* The innermost call goes on as another that holds as much, or calls another,
\* or returns.
LEMMA HoldersOn ==
    ASSUME NEW t \in Call, NEW g \in Call, NEW b \in Seq(Call),
           calls = <<t>> \o b, calls' = <<g>> \o b, \A i : Holds(g, i) <=> Holds(t, i)
    PROVE  SameHolders
<1> SUFFICES ASSUME NEW i PROVE Holders(calls', i) = Holders(calls, i)
  BY DEF SameHolders
<1>1. Holders(<<t>> \o b, i) = Holders(b, i) + IF Holds(t, i) THEN 1 ELSE 0
  BY HoldersPush
<1>2. Holders(<<g>> \o b, i) = Holders(b, i) + IF Holds(g, i) THEN 1 ELSE 0
  BY HoldersPush
<1> QED BY <1>1, <1>2

\* A call that holds no line does not count.
LEMMA HoldersIn ==
    ASSUME NEW b \in Seq(Call), NEW c \in Seq(Call), NEW f \in Call,
           calls' = <<f>> \o c,
           \A i : ~Holds(f, i), \A i : Holders(c, i) = Holders(calls, i)
    PROVE  SameHolders
<1> SUFFICES ASSUME NEW i PROVE Holders(calls', i) = Holders(calls, i)
  BY DEF SameHolders
<1>1. Holders(<<f>> \o c, i) = Holders(c, i) + 0 /\ Holders(c, i) \in Nat
  BY HoldersPush
<1> QED BY <1>1

---------------------------------------------------------------------------
(* Each action has one of the effects, and keeps the list, the types and   *)
(* the stack.                                                              *)

Ready == DataTypes /\ Sorted /\ Offsets /\ ConnTypes /\ Linked /\ Stack(calls)
Good == Effect /\ ConnTypes' /\ Linked' /\ Stack(calls)'

\* The innermost call and those below it.
Parts(t, b) ==
    /\ t \in Call /\ b \in Seq(Call) /\ calls = <<t>> \o b
    /\ FrameOK(t) /\ Ahead(t) /\ TopOK(t) /\ Under(t, b)

\* The stack has a top, and what is below it.
LEMMA Begin ==
    ASSUME ConnTypes, Stack(calls), calls # <<>>
    PROVE  Parts(Top, Below)
<1>1. calls \in Seq(Call)
  BY DEF ConnTypes
<1>2. Top \in Call /\ Below \in Seq(Call) /\ calls = <<Top>> \o Below
  BY <1>1, Innermost DEF Top, Below
<1> QED BY <1>2 DEF Stack, Top, Below, Parts

\* Where no exit has just begun, every link of the list has a descriptor.
LEMMA LinkedKept ==
    ASSUME Linked, Shrinks, up' = up, calls = <<>> \/ Top.op # "exit" \/ Top.sent
    PROVE  Linked' /\ \A l \in ToSet(serv_list) : l \in up
<1>1. ASSUME NEW l \in ToSet(serv_list) PROVE l \in up
  <2>1. SUFFICES ASSUME calls = <<Exit(l)>> PROVE FALSE
    BY DEF Linked
  <2>2. calls # <<>> /\ Top = Exit(l)
    BY <2>1 DEF Top
  <2> QED BY <2>2 DEF Exit
<1> QED BY <1>1 DEF Linked, Shrinks

\* The links stay as they are.
LEMMA ConnKept ==
    ASSUME ConnTypes, UNCHANGED <<serv_list, up, wants, asked, drops>>, calls' \in Seq(Call)
    PROVE  ConnTypes'
BY DEF ConnTypes

\* The call that has sent to its link.
LEMMA SentKept ==
    ASSUME Grows, UNCHANGED serv_list, NEW t \in Call, t.op \in {"walk", "one"},
           FrameOK(t), Ahead(t),
           t.op = "walk" =>
             \A i, j \in 1..Len(serv_list) : serv_list[i] = t.at /\ i < j => Stays(serv_list[j])
    PROVE  FrameOK(Sent(t))' /\ Ahead(Sent(t))'
<1>1. PICK w : w = Sent(t)
  OBVIOUS
<1>2. /\ w \in Call /\ w.op = t.op /\ w.line = t.line
      /\ t.op = "walk" => w.at = t.at
  BY <1>1, SentIs
<1>3. FrameOK(w)'
  <2>1. FrameOK(w)
    BY <1>2 DEF FrameOK
  <2>2. Shrinks
    BY DEF Shrinks
  <2> QED BY <1>2, <2>1, <2>2, FrameKept
<1>4. Ahead(w)'
  <2>1. CASE t.op = "one"
    BY <1>2, <2>1 DEF Ahead
  <2>2. CASE t.op = "walk"
    <3>1. Ahead(w)
      BY <1>2, <2>2 DEF Ahead
    <3> QED BY <1>2, <2>2, <3>1, AheadKept
  <2> QED BY <2>1, <2>2
<1> QED BY <1>1, <1>3, <1>4 DEF FrameOK, Ahead, Fresh, Sent

\* _send_linebuf, by a walk at link l or by sendto_one.
LEMMA SendStep ==
    ASSUME Ready, NEW t, NEW b, Parts(t, b), NEW l \in Links, NEW i, i = t.line,
           t.op \in {"walk", "one"}, t.op = "walk" => t.at = l,
           Fresh(l, i), Settled(b), NEW w, w = Sent(t),
           _send_linebuf(l, i, <<w>> \o b),
           UNCHANGED <<serv_list, up, wants, got, asked, drops>>
    PROVE  Good
<1>1. PICK c : c = <<w>> \o b
  OBVIOUS
<1>2. /\ t \in Call /\ b \in Seq(Call) /\ calls = <<t>> \o b
      /\ FrameOK(t) /\ Ahead(t) /\ Under(t, b)
      /\ DataTypes /\ Sorted /\ Offsets /\ ConnTypes /\ Linked
  BY DEF Parts, Ready
<1>3. /\ w \in Call /\ w.op = t.op /\ w.line = t.line /\ w.sent
      /\ t.op = "walk" => w.at = t.at
  BY <1>2, SentIs
<1>4. c \in Seq(Call) /\ i \in 1..Len(line)
  BY <1>1, <1>2, <1>3, Push DEF FrameOK
<1>5. \A k : Holders(c, k) = Holders(calls, k)
  <2> SUFFICES ASSUME NEW k PROVE Holders(c, k) = Holders(calls, k)
    OBVIOUS
  <2>1. Holders(<<t>> \o b, k) = Holders(b, k) + IF Holds(t, k) THEN 1 ELSE 0
    BY <1>2, HoldersPush
  <2>2. Holders(<<w>> \o b, k) = Holders(b, k) + IF Holds(w, k) THEN 1 ELSE 0
    BY <1>2, <1>3, HoldersPush
  <2>3. Holds(w, k) <=> Holds(t, k)
    BY <1>3 DEF Holds
  <2> QED BY <1>1, <1>2, <2>1, <2>2, <2>3
<1>6. Shrinks /\ Linked' /\ \A m \in ToSet(serv_list) : m \in up
  <2>1. Top.op = t.op
    BY <1>2, Push DEF Top
  <2>2. Shrinks
    BY DEF Shrinks
  <2> QED BY <1>2, <2>1, <2>2, LinkedKept
<1>7. ASSUME Effect,
             t.op = "walk" =>
               \A x, y \in 1..Len(serv_list) :
                  serv_list[x] = t.at /\ x < y => Stays(serv_list[y])
      PROVE  FrameOK(w)' /\ Ahead(w)' /\ Settled(b)' /\ Grows
  <2>1. Grows
    BY <1>2, <1>7, EffectGrows
  <2>2. \A x : x = Sent(t) => FrameOK(x)' /\ Ahead(x)'
    <3>1. FrameOK(Sent(t))' /\ Ahead(Sent(t))'
      BY <1>2, <1>7, <2>1, SentKept
    <3> QED BY <3>1 DEF Sent
  <2> QED BY <1>2, <1>6, <2>1, <2>2, SettledKept
<1>8. \A y \in 1..Len(serv_list) : serv_list[y] \in Links
  BY <1>2 DEF ConnTypes
<1>9. CASE calls' = c /\ UNCHANGED <<line, queues, dead>>
  <2>1. Nothing
    BY <1>9 DEF Nothing, queues
  <2>2. SameHolders
    BY <1>5, <1>9 DEF SameHolders
  <2>3. Effect
    BY <2>1, <2>2 DEF Effect
  <2>4. FrameOK(w)' /\ Ahead(w)' /\ Settled(b)'
    BY <1>7, <1>8, <2>1, <2>3, NothingStays
  <2>5. TopOK(w)'
    BY <1>3 DEF TopOK
  <2>6. Under(w, b)'
    BY <2>4 DEF Under
  <2>7. calls' \in Seq(Call) /\ Stack(calls)'
    BY <1>1, <1>2, <1>3, <1>9, <2>4, <2>5, <2>6, StackPush
  <2> QED BY <1>2, <1>6, <2>3, <2>7, ConnKept DEF Good
<1>10. CASE l \in up \ dead /\ dead_link(l, c)
  <2>1. PICK f : f = Exit(l)
    OBVIOUS
  <2>2. f \in Call /\ f.op = "exit" /\ f.of = l /\ ~f.sent
    BY <2>1 DEF Exit, Call
  <2>3. Drops(l) /\ calls' = <<f>> \o c /\ l \in dead'
    BY <1>10, <2>1 DEF dead_link, Drops
  <2>4. SameHolders
    BY <1>4, <1>5, <2>2, <2>3, HoldersIn DEF Holds
  <2>5. Effect
    BY <2>3, <2>4 DEF Effect
  <2>6. FrameOK(w)' /\ Ahead(w)' /\ Settled(b)'
    BY <1>2, <1>7, <1>8, <2>3, <2>5, DropsStays
  <2>7. FrameOK(f)' /\ Ahead(f)' /\ TopOK(f)'
    BY <2>2, <2>3 DEF FrameOK, Ahead, TopOK
  <2>8. Under(f, c)'
    <3>1. CASE t.op = "walk"
      <4>1. Awaits(f, w)
        BY <1>3, <2>2, <3>1 DEF Awaits
      <4> QED BY <1>1, <1>2, <1>3, <2>6, <4>1, UnderPush
    <3>2. CASE t.op = "one"
      <4>1. Waits(w)'
        BY <1>3, <3>2 DEF Waits
      <4>2. Settled(c)'
        BY <1>1, <1>2, <1>3, <2>6, <4>1, SettledPush
      <4> QED BY <4>2 DEF Under
    <3> QED BY <3>1, <3>2
  <2>9. calls' \in Seq(Call) /\ Stack(calls)'
    BY <1>4, <2>2, <2>3, <2>7, <2>8, StackPush
  <2> QED BY <1>2, <1>6, <2>5, <2>9, ConnKept DEF Good
<1>11. CASE /\ l \in up \ dead /\ linebuf_attach(l, i) /\ UNCHANGED dead
            /\ calls' = <<Flush(l, FALSE)>> \o c
  <2>1. PICK f : f = Flush(l, FALSE)
    OBVIOUS
  <2>2. f \in Call /\ f.op = "flush" /\ f.to = l
    BY <2>1 DEF Flush, Call
  <2>3. Puts(l, i) /\ calls' = <<f>> \o c
    BY <1>11, <2>1 DEF Puts
  <2>4. SameHolders
    BY <1>4, <1>5, <2>2, <2>3, HoldersIn DEF Holds
  <2>5. Effect
    BY <1>4, <2>3, <2>4 DEF Effect
  <2>6. FrameOK(w)' /\ Ahead(w)' /\ Settled(b)'
    <3>1. ASSUME NEW x \in 1..Len(serv_list), NEW y \in 1..Len(serv_list),
                 t.op = "walk", serv_list[x] = t.at, x < y
          PROVE  Stays(serv_list[y])
      <4>1. serv_list[y] # l
        <5>1. DOMAIN serv_list = 1..Len(serv_list) /\ IsInjective(serv_list)
          BY <1>2 DEF ConnTypes
        <5>2. serv_list[x] = serv_list[y] => x = y
          BY <5>1 DEF IsInjective
        <5> QED BY <3>1, <5>2
      <4> QED BY <1>2, <1>4, <1>8, <2>3, <4>1, PutsStays
    <3> QED BY <1>7, <2>5, <3>1
  <2>7. FrameOK(f)' /\ Ahead(f)' /\ TopOK(f)'
    BY <1>11, <2>2 DEF FrameOK, Ahead, TopOK
  <2>8. Under(f, c)'
    <3>1. CASE t.op = "walk"
      <4>1. Awaits(f, w)
        BY <1>3, <2>2, <3>1 DEF Awaits
      <4> QED BY <1>1, <1>2, <1>3, <2>6, <4>1, UnderPush
    <3>2. CASE t.op = "one"
      <4>1. Waits(w)'
        BY <1>3, <3>2 DEF Waits
      <4>2. Settled(c)'
        BY <1>1, <1>2, <1>3, <2>6, <4>1, SettledPush
      <4> QED BY <4>2 DEF Under
    <3> QED BY <3>1, <3>2
  <2>9. calls' \in Seq(Call) /\ Stack(calls)'
    BY <1>4, <2>2, <2>3, <2>7, <2>8, StackPush
  <2> QED BY <1>2, <1>6, <2>5, <2>9, ConnKept DEF Good
<1> QED BY <1>1, <1>9, <1>10, <1>11 DEF _send_linebuf

\* The innermost call returns.
LEMMA ReturnStep ==
    ASSUME Ready, NEW t, NEW b, Parts(t, b), t.op # "exit", Effect,
           \A l \in Links : Stays(l), UNCHANGED <<serv_list, up>>, calls' = b
    PROVE  Linked' /\ calls' \in Seq(Call) /\ Stack(calls)'
<1>1. /\ t \in Call /\ b \in Seq(Call) /\ calls = <<t>> \o b /\ Under(t, b)
      /\ DataTypes /\ Sorted /\ Offsets /\ ConnTypes /\ Linked
  BY DEF Parts, Ready
<1>2. Linked'
  <2>1. Top.op = t.op
    BY <1>1, Push DEF Top
  <2>2. Shrinks
    BY DEF Shrinks
  <2> QED BY <1>1, <2>1, <2>2, LinkedKept
<1>3. Under(t, b)'
  BY <1>1, EffectGrows, UnderKept
<1> QED BY <1>1, <1>2, <1>3, PopStack

\* A call that returns holds its line no longer.
LEMMA ReturnHolders ==
    ASSUME NEW t, NEW b, Parts(t, b), calls' = b, NEW k
    PROVE  Holders(calls', k) = Holders(calls, k) - IF Holds(t, k) THEN 1 ELSE 0
<1>1. t \in Call /\ b \in Seq(Call) /\ calls = <<t>> \o b
  BY DEF Parts
<1>2. Holders(<<t>> \o b, k) = Holders(b, k) + (IF Holds(t, k) THEN 1 ELSE 0)
      /\ Holders(b, k) \in Nat
  BY <1>1, HoldersPush
<1> QED BY <1>1, <1>2

\* A loop or sendto_one is done with its line.
LEMMA LetGoStep ==
    ASSUME Ready, NEW t, NEW b, Parts(t, b), t.op \in {"walk", "one"},
           line' = Unref(line, t.line), UNCHANGED <<queues, dead>>, calls' = b,
           UNCHANGED <<serv_list, up, wants, got, asked, drops>>
    PROVE  Good
<1>1. FrameOK(t) /\ DataTypes /\ ConnTypes
  BY DEF Parts, Ready
<1>2. PICK i \in 1..Len(line) : i = t.line
  BY <1>1 DEF FrameOK
<1>3. LetsGo(i)
  BY <1>2 DEF LetsGo, queues
<1>4. HolderLess(i)
  <2> SUFFICES ASSUME NEW k \in 1..Len(line')
               PROVE  Holders(calls', k) = Holders(calls, k) - IF k = i THEN 1 ELSE 0
    BY DEF HolderLess
  <2>1. Holds(t, k) <=> k = i
    BY <1>2 DEF Holds
  <2> QED BY <2>1, ReturnHolders
<1>5. Effect
  BY <1>3, <1>4 DEF Effect
<1>6. Linked' /\ calls' \in Seq(Call) /\ Stack(calls)'
  BY <1>1, <1>3, <1>5, LetsGoStays, ReturnStep
<1> QED BY <1>1, <1>5, <1>6, ConnKept DEF Good

\* A call that holds no line returns, and nothing else happens.
LEMMA DoneStep ==
    ASSUME Ready, NEW t, NEW b, Parts(t, b), t.op \in {"quits", "flush"},
           UNCHANGED <<line, queues, dead, got>>, calls' = b,
           UNCHANGED <<serv_list, up, wants, asked, drops>>
    PROVE  Good
<1>1. DataTypes /\ ConnTypes
  BY DEF Ready
<1>2. Nothing
  BY DEF Nothing, queues
<1>3. SameHolders
  <2> SUFFICES ASSUME NEW k \in 1..Len(line') PROVE Holders(calls', k) = Holders(calls, k)
    BY DEF SameHolders
  <2>1. ~Holds(t, k)
    BY DEF Holds
  <2>2. Holders(calls', k) = Holders(calls, k) - 0
    BY <2>1, ReturnHolders
  <2>3. Holders(calls, k) \in Nat
    <3>1. t \in Call /\ b \in Seq(Call) /\ calls = <<t>> \o b
      BY DEF Parts
    <3>2. Holders(<<t>> \o b, k) = Holders(b, k) + 0 /\ Holders(b, k) \in Nat
      BY <2>1, <3>1, HoldersPush
    <3> QED BY <3>1, <3>2
  <2> QED BY <2>2, <2>3
<1>4. Effect
  BY <1>2, <1>3 DEF Effect
<1>5. Linked' /\ calls' \in Seq(Call) /\ Stack(calls)'
  BY <1>2, <1>4, NothingStays, ReturnStep
<1> QED BY <1>1, <1>4, <1>5, ConnKept DEF Good

\* A loop goes on to the next link.
LEMMA MoveStep ==
    ASSUME Ready, NEW t, NEW b, Parts(t, b), t.op \in {"walk", "quits"}, t.at # End,
           calls' = <<Moved(t, NextNode(t.at))>> \o b,
           UNCHANGED <<line, queues, dead, got>>,
           UNCHANGED <<serv_list, up, wants, asked, drops>>
    PROVE  Good
<1>1. /\ t \in Call /\ b \in Seq(Call) /\ calls = <<t>> \o b
      /\ FrameOK(t) /\ Ahead(t) /\ Under(t, b)
      /\ DataTypes /\ Sorted /\ Offsets /\ ConnTypes /\ Linked
  BY DEF Parts, Ready
<1>2. PICK a, x : a = t.at /\ x = NextNode(t.at)
  OBVIOUS
<1>3. PICK w : w = Moved(t, x)
  OBVIOUS
<1>4. a \in Links
  BY <1>1, <1>2, CallFields
<1>5. /\ x \in Links \cup {End}
      /\ x # End => \E k \in 1..Len(serv_list) :
                       k + 1 \in 1..Len(serv_list) /\ serv_list[k] = a /\ serv_list[k + 1] = x
  BY <1>1, <1>2, <1>4, NextIs
<1>6. /\ w \in Call /\ w.op = t.op /\ ~w.sent /\ w.at = x
      /\ t.op = "walk" => w.line = t.line
  BY <1>1, <1>3, <1>5, MovedIs
<1>7. calls' = <<w>> \o b
  BY <1>2, <1>3
<1>8. Nothing
  BY DEF Nothing, queues
<1>9. SameHolders
  <2>1. \A k : Holds(w, k) <=> Holds(t, k)
    BY <1>6 DEF Holds
  <2> QED BY <1>1, <1>6, <1>7, <2>1, HoldersOn
<1>10. Effect
  BY <1>8, <1>9 DEF Effect
<1>11. Grows /\ Shrinks /\ Settled(b)
  BY <1>1, <1>10, EffectGrows, UnderSettled DEF Shrinks
<1>12. Settled(b)'
  BY <1>1, <1>11, SettledKept
<1>13. FrameOK(w)'
  <2>1. FrameOK(w)
    BY <1>1, <1>6 DEF FrameOK
  <2> QED BY <1>6, <1>11, <2>1, FrameKept
<1>14. /\ IsInjective(serv_list) /\ DOMAIN serv_list = 1..Len(serv_list)
       /\ Len(serv_list) \in Nat /\ End \notin Links
       /\ \A y \in 1..Len(serv_list) : serv_list[y] \in Links
  BY <1>1, SendAssumption DEF ConnTypes
<1>15. ASSUME t.op = "walk", x # End
       PROVE  /\ x \in ToSet(serv_list) /\ Fresh(x, w.line)
              /\ \A i, j \in 1..Len(serv_list) : serv_list[i] = x /\ i < j => Fresh(serv_list[j], w.line)
  <2>1. PICK k \in 1..Len(serv_list) :
           k + 1 \in 1..Len(serv_list) /\ serv_list[k] = a /\ serv_list[k + 1] = x
    BY <1>5, <1>15
  <2>2. \A j \in 1..Len(serv_list) : k < j => Fresh(serv_list[j], w.line)
    BY <1>1, <1>2, <1>6, <1>15, <2>1 DEF Ahead
  <2>3. x \in ToSet(serv_list)
    BY <1>14, <2>1 DEF ToSet
  <2>4. Fresh(x, w.line)
    <3>1. k < k + 1
      OBVIOUS
    <3> QED BY <2>1, <2>2, <3>1
  <2>5. ASSUME NEW i \in 1..Len(serv_list), NEW j \in 1..Len(serv_list), serv_list[i] = x, i < j
        PROVE  Fresh(serv_list[j], w.line)
    <3>1. i = k + 1
      BY <1>14, <2>1, <2>5 DEF IsInjective
    <3>2. k < j
      BY <2>5, <3>1
    <3> QED BY <2>2, <3>2
  <2> QED BY <2>3, <2>4, <2>5
<1>16. Ahead(w)
  <2>1. CASE t.op # "walk"
    BY <1>6, <2>1 DEF Ahead
  <2>2. CASE x = End
    BY <1>6, <1>14, <2>2 DEF Ahead
  <2>3. CASE t.op = "walk" /\ x # End
    BY <1>6, <1>15, <2>3 DEF Ahead
  <2> QED BY <2>1, <2>2, <2>3
<1>17. \A l \in Links : Stays(l)
  BY <1>8, NothingStays
<1>18. Ahead(w)'
  BY <1>6, <1>14, <1>16, <1>17, AheadKept
<1>19. TopOK(w)'
  <2>1. CASE t.op = "walk" /\ x # End
    <3>1. Fresh(x, w.line)'
      BY <1>5, <1>15, <1>17, <2>1 DEF Stays
    <3> QED BY <1>6, <1>15, <2>1, <3>1 DEF TopOK
  <2>2. CASE ~(t.op = "walk" /\ x # End)
    BY <1>6, <2>2 DEF TopOK
  <2> QED BY <2>1, <2>2
<1>20. Under(w, b)'
  BY <1>12 DEF Under
<1>21. calls' \in Seq(Call) /\ Stack(calls)'
  BY <1>1, <1>6, <1>7, <1>13, <1>18, <1>19, <1>20, StackPush
<1>22. Linked'
  <2>1. Top.op = t.op
    BY <1>1, Push DEF Top
  <2> QED BY <1>1, <1>11, <2>1, LinkedKept
<1> QED BY <1>1, <1>10, <1>21, <1>22, ConnKept DEF Good

\* No call holds a line that is not there yet.
LEMMA HoldersZero ==
    ASSUME DataTypes, NEW cs \in Seq(Call), \A k \in 1..Len(cs) : FrameOK(cs[k]),
           NEW i, i = NewLine
    PROVE  Holders(cs, i) = 0
<1>1. Len(line) \in Nat /\ i \notin 1..Len(line)
  BY DEF DataTypes, NewLine
<1>2. \A k \in DOMAIN cs : ~Holds(cs[k], i)
  BY <1>1 DEF FrameOK, Holds
<1>3. {k \in DOMAIN cs : Holds(cs[k], i)} = {}
  BY <1>2
<1> QED BY <1>3, FS_EmptySet DEF Holders

\* A line is made and sent by a new innermost call.
LEMMA MakeStep ==
    ASSUME DataTypes, Sorted, Offsets, ConnTypes, NEW n \in Lens, line' = linebuf_new_line(n),
           UNCHANGED <<queues, dead, got>>,
           NEW i, i = NewLine, NEW f \in Call, f.op \in {"walk", "one"}, f.line = i, ~f.sent,
           NEW c \in Seq(Call), calls' = <<f>> \o c,
           \A k : Holders(c, k) = Holders(calls, k), Holders(calls, i) = 0,
           Settled(c)', Shrinks, serv_list' \in Seq(Links),
           f.op = "walk" /\ f.at # End => f.at \in ToSet(serv_list')
    PROVE  Effect /\ calls' \in Seq(Call) /\ Stack(calls)'
<1>1. Makes(n)
  BY DEF Makes, queues
<1>2. HolderMore(i)
  <2> SUFFICES ASSUME NEW k \in 1..Len(line')
               PROVE  Holders(calls', k) = Holders(calls, k) + IF k = i THEN 1 ELSE 0
    BY DEF HolderMore
  <2>1. Holders(<<f>> \o c, k) = Holders(c, k) + IF Holds(f, k) THEN 1 ELSE 0
    BY HoldersPush
  <2>2. Holds(f, k) <=> k = i
    BY DEF Holds
  <2> QED BY <2>1, <2>2
<1>3. Effect
  BY <1>1, <1>2 DEF Effect
<1>4. \A l \in Links : Fresh(l, i)'
  BY <1>1, NewFresh
<1>5. FrameOK(f)'
  <2>1. Len(line') = Len(line) + 1 /\ Len(line) \in Nat /\ i = Len(line) + 1
    BY <1>1, MakesIs DEF NewLine
  <2> QED BY <2>1 DEF FrameOK
<1>6. \A j \in 1..Len(serv_list') : serv_list'[j] \in Links
  OBVIOUS
<1>7. Ahead(f)'
  <2> SUFFICES ASSUME NEW j \in 1..Len(serv_list') PROVE Fresh(serv_list[j], i)'
    BY DEF Ahead
  <2>1. PICK l : l = serv_list'[j]
    OBVIOUS
  <2>2. Fresh(l, i)'
    BY <1>4, <1>6, <2>1
  <2> QED BY <2>1, <2>2 DEF Fresh
<1>8. TopOK(f)'
  <2>1. CASE f.op = "one"
    <3>1. f.to \in Links
      BY <2>1, CallFields
    <3> QED BY <1>4, <2>1, <3>1 DEF TopOK
  <2>2. CASE f.op = "walk" /\ f.at # End
    <3>1. f.at \in ToSet(serv_list') /\ f.at \in Links
      <4>1. f.at \in Links \cup {End}
        BY <2>2, CallFields
      <4> QED BY <2>2, <4>1
    <3> QED BY <1>4, <2>2, <3>1 DEF TopOK
  <2>3. CASE f.op = "walk" /\ f.at = End
    BY <2>3 DEF TopOK
  <2> QED BY <2>1, <2>2, <2>3
<1>9. Under(f, c)'
  BY DEF Under
<1> QED BY <1>3, <1>5, <1>7, <1>8, <1>9, StackPush

\* What a command sends: the stack is empty.
LEMMA CommandStep ==
    ASSUME Ready, calls = <<>>, NEW n \in LineLens, line' = linebuf_new_line(n),
           UNCHANGED <<queues, conns, got, drops>>, asked < MaxAsked, asked' = asked + 1,
           NEW f \in Call, calls' = <<f>>, f.op \in {"walk", "one"}, f.line = NewLine, ~f.sent,
           f.op = "walk" /\ f.at # End => f.at \in ToSet(serv_list)
    PROVE  Good
<1>1. /\ DataTypes /\ Sorted /\ Offsets /\ ConnTypes /\ Linked
      /\ UNCHANGED <<serv_list, up, dead, wants>>
  BY DEF Ready, conns
<1>2. PICK c \in Seq(Call) : c = <<>>
  <2>1. <<>> \in Seq(Call)
    OBVIOUS
  <2> QED BY <2>1
<1>3. calls' = <<f>> \o c
  BY <1>2
<1>4. Holders(calls, NewLine) = 0 /\ n \in Lens /\ Settled(c)' /\ Shrinks
      /\ serv_list' \in Seq(Links)
  BY <1>1, <1>2, HoldersNone DEF Lens, Settled, Shrinks, ConnTypes
<1>5. \A k : Holders(c, k) = Holders(calls, k)
  BY <1>2
<1>6. Effect /\ calls' \in Seq(Call) /\ Stack(calls)'
  <2>1. PICK i : i = NewLine
    OBVIOUS
  <2>2. f.line = i /\ Holders(calls, i) = 0
    BY <1>4, <2>1
  <2> QED BY <1>1, <1>3, <1>4, <1>5, <2>1, <2>2, MakeStep
<1>7. ConnTypes'
  <2>1. asked' \in 0..MaxAsked
    BY <1>1, SendAssumption DEF ConnTypes
  <2> QED BY <1>1, <1>6, <2>1 DEF ConnTypes
<1>8. Linked'
  BY <1>1, <1>4, LinkedKept
<1> QED BY <1>6, <1>7, <1>8 DEF Good

\* sendto_one makes a line for one link.
LEMMA sendto_oneStep ==
    ASSUME Ready, NEW l \in Links, NEW n \in LineLens, sendto_one(l, n)
    PROVE  Good
<1>1. Len(line) \in Nat
  BY DEF Ready, DataTypes
<1>2. PICK f : f = One(NewLine, l)
  OBVIOUS
<1>3. f \in Call /\ f.op = "one" /\ f.line = NewLine /\ ~f.sent
  BY <1>1, <1>2 DEF One, Call, NewLine
<1> QED BY <1>2, <1>3, CommandStep DEF sendto_one

\* sendto_server makes a line for some links.
LEMMA sendto_serverStep ==
    ASSUME Ready, NEW S \in SUBSET Links, NEW n \in LineLens, sendto_server(S, n)
    PROVE  Good
<1>1. Len(line) \in Nat /\ ConnTypes
  BY DEF Ready, DataTypes
<1>2. PICK x : x = First
  OBVIOUS
<1>3. x \in Links \cup {End} /\ (x # End => x \in ToSet(serv_list))
  BY <1>1, <1>2, FirstIs DEF ToSet, ConnTypes
<1>4. PICK f : f = [op |-> "walk", line |-> NewLine, at |-> x, to |-> S, sent |-> FALSE]
  OBVIOUS
<1>5. f \in Call /\ f.op = "walk" /\ f.line = NewLine /\ f.at = x /\ ~f.sent
  BY <1>1, <1>3, <1>4 DEF Call, NewLine
<1> QED BY <1>2, <1>3, <1>4, <1>5, CommandStep DEF sendto_server

\* The loop of sendto_server goes on.
LEMMA WalkStep ==
    ASSUME Ready, Walk
    PROVE  Good
<1>1. PICK t, b : t = Top /\ b = Below
  OBVIOUS
<1>2. calls # <<>> /\ t.op = "walk" /\ UNCHANGED <<serv_list, up, wants, got, asked, drops>>
  BY <1>1 DEF Walk, Running
<1>3. Parts(t, b)
  <2>1. Parts(Top, Below)
    BY <1>2, Begin DEF Ready
  <2> QED BY <1>1, <2>1
<1>4. t \in Call /\ TopOK(t) /\ Settled(b)
  BY <1>2, <1>3, UnderSettled DEF Parts
<1>5. CASE /\ ~t.sent /\ t.at \in t.to
           /\ _send_linebuf(t.at, t.line, <<Sent(t)>> \o b)
  <2>1. t.at \in Links /\ t.at # End
    <3>1. t.to \subseteq Links
      BY <1>2, <1>4, CallFields
    <3> QED BY <1>5, <3>1, SendAssumption
  <2>2. Fresh(t.at, t.line)
    BY <1>2, <1>4, <1>5, <2>1 DEF TopOK
  <2>3. PICK l, i, w : l \in Links /\ l = t.at /\ i = t.line /\ w = Sent(t)
    BY <2>1
  <2>4. Fresh(l, i) /\ _send_linebuf(l, i, <<w>> \o b)
    BY <1>5, <2>2, <2>3
  <2> QED BY <1>2, <1>3, <1>4, <1>5, <2>3, <2>4, SendStep
<1>6. CASE /\ t.at # End /\ calls' = <<Moved(t, NextNode(t.at))>> \o b
           /\ UNCHANGED <<line, queues, dead>>
  BY <1>2, <1>3, <1>6, MoveStep
<1>7. CASE /\ line' = Unref(line, t.line) /\ calls' = b /\ UNCHANGED <<queues, dead>>
  BY <1>2, <1>3, <1>7, LetGoStep
<1> QED BY <1>1, <1>5, <1>6, <1>7 DEF Walk, Sent, Moved

\* sendto_one's line is put on its queue.
LEMMA SendOneStep ==
    ASSUME Ready, SendOne
    PROVE  Good
<1>1. PICK t, b : t = Top /\ b = Below
  OBVIOUS
<1>2. calls # <<>> /\ t.op = "one" /\ UNCHANGED <<serv_list, up, wants, got, asked, drops>>
  BY <1>1 DEF SendOne, Running
<1>3. Parts(t, b)
  <2>1. Parts(Top, Below)
    BY <1>2, Begin DEF Ready
  <2> QED BY <1>1, <2>1
<1>4. t \in Call /\ TopOK(t) /\ Settled(b)
  BY <1>2, <1>3, UnderSettled DEF Parts
<1>5. CASE ~t.sent /\ _send_linebuf(t.to, t.line, <<Sent(t)>> \o b)
  <2>1. t.to \in Links /\ Fresh(t.to, t.line)
    BY <1>2, <1>4, <1>5, CallFields DEF TopOK
  <2>2. PICK l, i, w : l \in Links /\ l = t.to /\ i = t.line /\ w = Sent(t)
    BY <2>1
  <2>3. Fresh(l, i) /\ _send_linebuf(l, i, <<w>> \o b)
    BY <1>5, <2>1, <2>2
  <2> QED BY <1>2, <1>3, <1>4, <1>5, <2>2, <2>3, SendStep
<1>6. CASE /\ line' = Unref(line, t.line) /\ calls' = b /\ UNCHANGED <<queues, dead>>
  BY <1>2, <1>3, <1>6, LetGoStep
<1> QED BY <1>1, <1>5, <1>6 DEF SendOne, Sent

\* remove_dependents goes on to the next link it tells of.
LEMMA QuitsStep ==
    ASSUME Ready, Quits
    PROVE  Good
<1>1. PICK t, b : t = Top /\ b = Below
  OBVIOUS
<1>2. calls # <<>> /\ t.op = "quits" /\ UNCHANGED <<queues, conns, got, asked, drops>>
  BY <1>1 DEF Quits, Running
<1>3. Parts(t, b)
  <2>1. Parts(Top, Below)
    BY <1>2, Begin DEF Ready
  <2> QED BY <1>1, <2>1
<1>4. /\ t \in Call /\ b \in Seq(Call) /\ calls = <<t>> \o b /\ Settled(b)
      /\ DataTypes /\ Sorted /\ Offsets /\ ConnTypes /\ Linked
      /\ UNCHANGED <<serv_list, up, dead, wants>>
  BY <1>2, <1>3, UnderSettled DEF Parts, Ready, conns
<1>5. CASE /\ t.at # End /\ line' = linebuf_new_line(NoteLen)
           /\ calls' = <<One(NewLine, t.at), Sent(t)>> \o b
  <2>1. PICK i, w, f : i = NewLine /\ w = Sent(t) /\ f = One(i, t.at)
    OBVIOUS
  <2>2. w \in Call /\ w.op = "quits" /\ w.sent
    BY <1>2, <1>4, <2>1, SentIs
  <2>3. t.at \in Links /\ i \in Nat
    BY <1>2, <1>4, <1>5, <2>1, CallFields DEF NewLine, DataTypes
  <2>4. f \in Call /\ f.op = "one" /\ f.line = i /\ ~f.sent
    BY <2>1, <2>3 DEF One, Call
  <2>5. PICK c : c = <<w>> \o b
    OBVIOUS
  <2>6. c \in Seq(Call) /\ calls' = <<f>> \o c
    <3>1. c \in Seq(Call)
      BY <1>4, <2>2, <2>5, Push
    <3>2. calls' = <<f, w>> \o b
      BY <1>5, <2>1
    <3>3. <<f, w>> \o b = <<f>> \o (<<w>> \o b)
      BY <1>4, <2>2, <2>4, PushTwo
    <3> QED BY <2>5, <3>1, <3>2, <3>3
  <2>7. \A k : Holders(c, k) = Holders(calls, k) /\ Holders(calls, k) = Holders(b, k)
    <3> TAKE k
    <3>1. Holders(<<t>> \o b, k) = Holders(b, k) + 0 /\ Holders(b, k) \in Nat
      BY <1>2, <1>4, HoldersPush DEF Holds
    <3>2. Holders(<<w>> \o b, k) = Holders(b, k) + 0
      BY <1>4, <2>2, HoldersPush DEF Holds
    <3> QED BY <1>4, <2>5, <3>1, <3>2
  <2>8. Holders(calls, i) = 0
    BY <1>4, <2>1, <2>7, HoldersZero DEF Settled
  <2>9. Grows /\ Shrinks
    <3>1. Makes(NoteLen) /\ NoteLen \in Lens
      BY <1>2, <1>4, <1>5 DEF Makes, queues, Lens
    <3> QED BY <1>4, <3>1, MakesGrow DEF Shrinks
  <2>10. Settled(c)'
    <3>1. Settled(b)'
      BY <1>4, <2>9, SettledKept
    <3>2. FrameOK(w)' /\ Waits(w)'
      BY <2>2 DEF FrameOK, Waits
    <3> QED BY <1>4, <2>2, <2>5, <3>1, <3>2, SettledPush
  <2>11. Effect /\ calls' \in Seq(Call) /\ Stack(calls)'
    <3>1. NoteLen \in Lens /\ serv_list' \in Seq(Links) /\ \A k : Holders(c, k) = Holders(calls, k)
      BY <1>4, <2>7 DEF Lens, ConnTypes
    <3> QED BY <1>2, <1>4, <1>5, <2>1, <2>4, <2>6, <2>8, <2>9, <2>10, <3>1, MakeStep
  <2>12. Linked'
    <3>1. Top.op = "quits"
      BY <1>1, <1>2
    <3> QED BY <1>4, <2>9, <3>1, LinkedKept
  <2> QED BY <1>2, <1>4, <2>11, <2>12, ConnKept DEF Good
<1>6. CASE t.at # End /\ calls' = <<Moved(t, NextNode(t.at))>> \o b /\ UNCHANGED line
  BY <1>2, <1>3, <1>4, <1>6, MoveStep
<1>7. CASE calls' = b /\ UNCHANGED line
  BY <1>2, <1>3, <1>4, <1>7, DoneStep
<1> QED BY <1>1, <1>5, <1>6, <1>7 DEF Quits, Sent, Moved

\* A flush, and the link it writes to.
LEMMA FlushParts ==
    ASSUME Ready, Running("flush"), NEW t, NEW b, NEW l, t = Top, b = Below, l = t.to
    PROVE  /\ Parts(t, b) /\ t.op = "flush" /\ l \in Links /\ l \in up
           /\ t \in Call /\ b \in Seq(Call) /\ calls = <<t>> \o b /\ Under(t, b)
           /\ DataTypes /\ Sorted /\ Offsets /\ ConnTypes /\ Linked
           /\ \A i : ~Holds(t, i)
<1>1. Parts(t, b)
  <2>1. Parts(Top, Below)
    BY Begin DEF Ready, Running
  <2> QED BY <2>1
<1>2. t.op = "flush" /\ t \in Call
  BY <1>1 DEF Running, Parts
<1>3. l \in Links /\ l \in up
  BY <1>1, <1>2, CallFields DEF Parts, TopOK
<1> QED BY <1>1, <1>2, <1>3 DEF Parts, Ready, Holds

\* The socket takes some bytes.
LEMMA WriteStep ==
    ASSUME Ready, NEW n \in Nat \ {0}, Write(n)
    PROVE  Good
<1>1. PICK t, b, l : t = Top /\ b = Below /\ l = t.to
  OBVIOUS
<1>2. Running("flush")
  BY DEF Write
<1>3. /\ Parts(t, b) /\ t.op = "flush" /\ l \in Links /\ l \in up
      /\ t \in Call /\ b \in Seq(Call) /\ calls = <<t>> \o b /\ Under(t, b)
      /\ DataTypes /\ Sorted /\ Offsets /\ ConnTypes /\ Linked
      /\ \A i : ~Holds(t, i)
  BY <1>1, <1>2, FlushParts
<1>4. UNCHANGED <<serv_list, up, dead, wants, asked, drops>>
  BY DEF Write, conns
<1>5. Takes(l, n)
  BY <1>1, <1>4 DEF Write, Takes
<1>6. PICK g : g = Flush(l, FALSE)
  OBVIOUS
<1>7. g \in Call /\ g.op = "flush" /\ g.to = l /\ calls' = <<g>> \o b
  BY <1>1, <1>3, <1>6 DEF Flush, Call, Write
<1>8. SameHolders
  <2>1. \A i : Holds(g, i) <=> Holds(t, i)
    BY <1>3, <1>7 DEF Holds
  <2> QED BY <1>3, <1>7, <2>1, HoldersOn
<1>9. Effect
  BY <1>3, <1>5, <1>8 DEF Effect
<1>10. Grows /\ Shrinks /\ Under(t, b)'
  BY <1>3, <1>4, <1>5, <1>9, EffectGrows, TakesStays, UnderKept DEF Shrinks
<1>11. Under(g, b)'
  <2>1. \A f : Awaits(t, f) => Awaits(g, f)
    BY <1>1, <1>3, <1>7 DEF Awaits
  <2> QED BY <1>10, <2>1 DEF Under
<1>12. FrameOK(g)' /\ Ahead(g)' /\ TopOK(g)'
  BY <1>3, <1>4, <1>7 DEF FrameOK, Ahead, TopOK
<1>13. calls' \in Seq(Call) /\ Stack(calls)'
  BY <1>3, <1>7, <1>11, <1>12, StackPush
<1>14. Linked'
  <2>1. Top.op = "flush"
    BY <1>1, <1>3
  <2> QED BY <1>3, <1>4, <1>10, <2>1, LinkedKept
<1> QED BY <1>3, <1>4, <1>9, <1>13, <1>14, ConnKept DEF Good

\* A flush has nothing more to write.
LEMMA WrittenStep ==
    ASSUME Ready, Written
    PROVE  Good
<1>1. PICK t, b, l : t = Top /\ b = Below /\ l = t.to
  OBVIOUS
<1>2. Parts(t, b) /\ t.op = "flush"
  BY <1>1, FlushParts DEF Written
<1> QED BY <1>1, <1>2, DoneStep DEF Written, conns

\* The socket takes nothing.
LEMMA WouldBlockStep ==
    ASSUME Ready, WouldBlock
    PROVE  Good
<1>1. PICK t, b, l : t = Top /\ b = Below /\ l = t.to
  OBVIOUS
<1>2. Running("flush")
  BY DEF WouldBlock
<1>3. /\ Parts(t, b) /\ t.op = "flush" /\ l \in Links /\ l \in up
      /\ t \in Call /\ b \in Seq(Call) /\ calls = <<t>> \o b /\ Under(t, b)
      /\ DataTypes /\ Sorted /\ Offsets /\ ConnTypes /\ Linked
      /\ \A i : ~Holds(t, i)
  BY <1>1, <1>2, FlushParts
<1>4. Blocks(l)
  BY <1>1 DEF WouldBlock, Blocks
<1>5. UNCHANGED <<serv_list, up, asked, drops>> /\ calls' = b /\ wants' \subseteq wants \cup {l}
  BY <1>1 DEF WouldBlock
<1>6. SameHolders
  <2> SUFFICES ASSUME NEW k \in 1..Len(line') PROVE Holders(calls', k) = Holders(calls, k)
    BY DEF SameHolders
  <2>1. Holders(<<t>> \o b, k) = Holders(b, k) + 0 /\ Holders(b, k) \in Nat
    BY <1>3, HoldersPush
  <2> QED BY <1>3, <1>5, <2>1
<1>7. Effect
  BY <1>3, <1>4, <1>6 DEF Effect
<1>8. Linked' /\ calls' \in Seq(Call) /\ Stack(calls)'
  BY <1>3, <1>4, <1>5, <1>7, BlocksStays, ReturnStep
<1>9. ConnTypes'
  BY <1>3, <1>5, <1>8 DEF ConnTypes
<1> QED BY <1>7, <1>8, <1>9 DEF Good

\* The socket fails.
LEMMA WriteErrorStep ==
    ASSUME Ready, WriteError
    PROVE  Good
<1>1. PICK t, b, l : t = Top /\ b = Below /\ l = t.to
  OBVIOUS
<1>2. Running("flush")
  BY DEF WriteError
<1>3. /\ Parts(t, b) /\ t.op = "flush" /\ l \in Links /\ l \in up
      /\ t \in Call /\ b \in Seq(Call) /\ calls = <<t>> \o b /\ Under(t, b)
      /\ DataTypes /\ Sorted /\ Offsets /\ ConnTypes /\ Linked
      /\ \A i : ~Holds(t, i)
  BY <1>1, <1>2, FlushParts
<1>4. dead_link(l, b) /\ UNCHANGED <<serv_list, up, wants, got, asked, drops>>
  BY <1>1 DEF WriteError
<1>5. CASE l \in dead
  <2>1. calls' = b /\ UNCHANGED <<line, queues, dead>>
    BY <1>4, <1>5 DEF dead_link
  <2> QED BY <1>3, <1>4, <2>1, DoneStep
<1>6. CASE l \notin dead
  <2>1. PICK f : f = Exit(l)
    OBVIOUS
  <2>2. f \in Call /\ f.op = "exit" /\ f.of = l /\ ~f.sent
    BY <1>3, <2>1 DEF Exit, Call
  <2>3. Drops(l) /\ calls' = <<f>> \o b /\ l \in dead'
    BY <1>4, <1>6, <2>1 DEF dead_link, Drops
  <2>4. SameHolders
    <3>1. \A i : Holds(f, i) <=> Holds(t, i)
      BY <1>3, <2>2 DEF Holds
    <3> QED BY <1>3, <2>2, <2>3, <3>1, HoldersOn
  <2>5. Effect
    BY <1>3, <2>3, <2>4 DEF Effect
  <2>6. Under(f, b)
    <3>1. CASE Settled(b)
      BY <3>1 DEF Under
    <3>2. CASE ~Settled(b)
      <4>1. /\ b # <<>> /\ FrameOK(Head(b)) /\ Ahead(Head(b)) /\ Awaits(t, Head(b))
            /\ Settled(Tail(b))
        BY <1>3, <3>2 DEF Under
      <4>2. Awaits(f, Head(b))
        BY <1>1, <1>3, <1>6, <2>2, <4>1 DEF Awaits, FrameOK
      <4> QED BY <4>1, <4>2 DEF Under
    <3> QED BY <3>1, <3>2
  <2>7. Grows /\ Shrinks /\ Under(f, b)'
    BY <1>3, <1>4, <2>3, <2>5, <2>6, EffectGrows, DropsStays, UnderKept DEF Shrinks
  <2>8. FrameOK(f)' /\ Ahead(f)' /\ TopOK(f)'
    BY <2>2, <2>3 DEF FrameOK, Ahead, TopOK
  <2>9. calls' \in Seq(Call) /\ Stack(calls)'
    BY <1>3, <2>2, <2>3, <2>7, <2>8, StackPush
  <2>10. Linked'
    <3>1. Top.op = "flush"
      BY <1>1, <1>3
    <3> QED BY <1>3, <1>4, <2>7, <3>1, LinkedKept
  <2> QED BY <1>3, <1>4, <2>5, <2>9, <2>10, ConnKept DEF Good
<1> QED BY <1>5, <1>6

\* What comes from outside finds the stack empty, and leaves the lines and the
\* queues as they are.
LEMMA OutsideStep ==
    ASSUME Ready, calls = <<>>, Nothing, UNCHANGED serv_list,
           NEW f \in Call, f.op \in {"flush", "exit"},
           NEW c \in Seq(Call), calls' = <<f>> \o c, \A i : Holders(c, i) = 0,
           FrameOK(f)', TopOK(f)', Under(f, c)'
    PROVE  Effect /\ calls' \in Seq(Call) /\ Stack(calls)'
<1>1. SameHolders
  <2>1. \A i : Holders(c, i) = Holders(calls, i)
    BY HoldersNone
  <2>2. \A i : ~Holds(f, i)
    BY DEF Holds
  <2> QED BY <2>1, <2>2, HoldersIn
<1>2. Effect
  BY <1>1 DEF Effect
<1>3. Ahead(f)'
  BY DEF Ahead
<1> QED BY <1>2, <1>3, StackPush

\* The socket can be written to.
LEMMA WriteReadyStep ==
    ASSUME Ready, NEW l \in Links, WriteReady(l)
    PROVE  Good
<1>1. /\ DataTypes /\ Sorted /\ Offsets /\ ConnTypes /\ Linked
      /\ UNCHANGED <<serv_list, up, asked, drops>> /\ wants' = wants \ {l}
      /\ calls = <<>> /\ l \in up
  BY DEF Ready, WriteReady, ConnTypes
<1>2. PICK f, c : f = Flush(l, TRUE) /\ c = <<>>
  OBVIOUS
<1>3. /\ f \in Call /\ f.op = "flush" /\ f.to = l /\ c \in Seq(Call) /\ calls' = <<f>> \o c
      /\ \A i : Holders(c, i) = 0
  BY <1>2, HoldersNone DEF Flush, Call, WriteReady
<1>4. Nothing
  BY DEF Nothing, WriteReady, queues
<1>5. FrameOK(f)' /\ TopOK(f)' /\ Under(f, c)'
  <2>1. Len(c) = 0
    BY <1>2
  <2> QED BY <1>1, <1>3, <2>1 DEF FrameOK, TopOK, Under, Settled
<1>6. Effect /\ calls' \in Seq(Call) /\ Stack(calls)'
  BY <1>1, <1>3, <1>4, <1>5, OutsideStep
<1>7. Linked'
  BY <1>1, LinkedKept DEF Shrinks
<1>8. ConnTypes'
  BY <1>1, <1>6 DEF ConnTypes
<1> QED BY <1>6, <1>7, <1>8 DEF Good

\* SQUIT gives up a link.
LEMMA SquitStep ==
    ASSUME Ready, NEW l \in Links, Squit(l)
    PROVE  Good
<1>1. /\ DataTypes /\ Sorted /\ Offsets /\ ConnTypes /\ Linked
      /\ UNCHANGED <<serv_list, up, wants, asked>> /\ dead' = dead \cup {l}
      /\ calls = <<>> /\ l \in ToSet(serv_list)
      /\ drops < MaxDrops /\ drops' = drops + 1
  BY DEF Ready, Squit
<1>2. Linked' /\ l \in up
  BY <1>1, LinkedKept DEF Shrinks
<1>3. PICK f, g, c : f = Flush(l, FALSE) /\ g = Exit(l) /\ c = <<g>>
  OBVIOUS
<1>4. /\ f \in Call /\ f.op = "flush" /\ f.to = l
      /\ g \in Call /\ g.op = "exit" /\ g.of = l /\ ~g.sent
      /\ c \in Seq(Call) /\ c # <<>> /\ Head(c) = g /\ Tail(c) = <<>>
  BY <1>3 DEF Flush, Exit, Call
<1>5. calls' = <<f>> \o c
  <2>1. calls' = <<f, g>>
    BY <1>3 DEF Squit
  <2>2. \A e \in Seq(Call) : e = <<>> => <<f, g>> \o e = <<f>> \o (<<g>> \o e)
    BY <1>4, PushTwo
  <2>3. <<>> \in Seq(Call) /\ <<f, g>> \o <<>> = <<f, g>> /\ <<g>> \o <<>> = <<g>>
    BY <1>4
  <2> QED BY <1>3, <2>1, <2>2, <2>3
<1>6. \A i : Holders(c, i) = 0
  <2> TAKE i
  <2>1. <<>> \in Seq(Call) /\ c = <<g>> \o <<>>
    BY <1>3
  <2>2. Holders(<<g>> \o <<>>, i) = Holders(<<>>, i) + 0
    BY <1>4, <2>1, HoldersPush DEF Holds
  <2> QED BY <2>1, <2>2, HoldersNone
<1>7. Nothing
  BY DEF Nothing, Squit, queues
<1>8. FrameOK(f)' /\ TopOK(f)'
  BY <1>1, <1>2, <1>4 DEF FrameOK, TopOK
<1>9. Under(f, c)'
  <2>1. FrameOK(g)' /\ Ahead(g)' /\ Awaits(f, g)
    BY <1>1, <1>4 DEF FrameOK, Ahead, Awaits
  <2>2. \A e : e = <<>> => Settled(e)'
    <3>1. \A e : e = <<>> => Len(e) = 0
      OBVIOUS
    <3> QED BY <3>1 DEF Settled
  <2> QED BY <1>4, <2>1, <2>2 DEF Under
<1>10. Effect /\ calls' \in Seq(Call) /\ Stack(calls)'
  BY <1>1, <1>4, <1>5, <1>6, <1>7, <1>8, <1>9, OutsideStep
<1>11. ConnTypes'
  <2>1. drops' \in 0..MaxDrops
    BY <1>1, SendAssumption DEF ConnTypes
  <2> QED BY <1>1, <1>10, <2>1 DEF ConnTypes
<1> QED BY <1>2, <1>10, <1>11 DEF Good

\* The peer closes a link.
LEMMA PeerClosedStep ==
    ASSUME Ready, NEW l \in Links, PeerClosed(l)
    PROVE  Good
<1>1. /\ DataTypes /\ Sorted /\ Offsets /\ ConnTypes /\ Linked
      /\ UNCHANGED <<serv_list, asked>> /\ dead' = dead \cup {l}
      /\ up' = up \ {l} /\ wants' = wants \ {l}
      /\ calls = <<>> /\ calls' = <<Exit(l)>> /\ drops < MaxDrops /\ drops' = drops + 1
  BY DEF Ready, PeerClosed
<1>2. PICK f, c : f = Exit(l) /\ c = <<>>
  OBVIOUS
<1>3. /\ f \in Call /\ f.op = "exit" /\ f.of = l /\ ~f.sent
      /\ c \in Seq(Call) /\ calls' = <<f>> \o c /\ \A i : Holders(c, i) = 0
  BY <1>1, <1>2, HoldersNone DEF Exit, Call
<1>4. Nothing
  BY DEF Nothing, PeerClosed, queues
<1>5. FrameOK(f)' /\ TopOK(f)' /\ Under(f, c)'
  <2>1. Len(c) = 0
    BY <1>2
  <2> QED BY <1>1, <1>3, <2>1 DEF FrameOK, TopOK, Under, Settled
<1>6. Effect /\ calls' \in Seq(Call) /\ Stack(calls)'
  BY <1>1, <1>3, <1>4, <1>5, OutsideStep
<1>7. Linked'
  <2> SUFFICES ASSUME NEW m \in ToSet(serv_list), m # l PROVE m \in up'
    BY <1>1 DEF Linked, Exit
  <2>1. calls # <<Exit(m)>>
    BY <1>1
  <2> QED BY <1>1, <2>1 DEF Linked
<1>8. ConnTypes'
  <2>1. drops' \in 0..MaxDrops
    BY <1>1, SendAssumption DEF ConnTypes
  <2> QED BY <1>1, <1>6, <2>1 DEF ConnTypes
<1> QED BY <1>6, <1>7, <1>8 DEF Good

\* Whatever waits for a call is a call that may wait.
LEMMA UnderFrames ==
    ASSUME NEW t, NEW cs \in Seq(Call), Under(t, cs)
    PROVE  \A k \in 1..Len(cs) : FrameOK(cs[k])
<1>1. CASE Settled(cs)
  BY <1>1 DEF Settled
<1>2. CASE cs # <<>> /\ FrameOK(Head(cs)) /\ Settled(Tail(cs))
  <2> SUFFICES ASSUME NEW k \in 1..Len(cs) PROVE FrameOK(cs[k])
    OBVIOUS
  <2>1. CASE k = 1
    <3>1. Head(cs) = cs[1]
      BY <1>2
    <3> QED BY <1>2, <2>1, <3>1
  <2>2. CASE k # 1
    <3>1. k - 1 \in 1..Len(Tail(cs)) /\ Tail(cs)[k - 1] = cs[k]
      <4>1. Len(cs) \in Nat /\ Len(Tail(cs)) = Len(cs) - 1
            /\ \A j \in 1..Len(Tail(cs)) : Tail(cs)[j] = cs[j + 1]
        BY <1>2
      <4>2. k - 1 \in 1..Len(Tail(cs)) /\ (k - 1) + 1 = k
        BY <2>2, <4>1
      <4>3. Tail(cs)[k - 1] = cs[(k - 1) + 1]
        BY <4>1, <4>2
      <4> QED BY <4>2, <4>3
    <3> QED BY <1>2, <3>1 DEF Settled
  <2> QED BY <2>1, <2>2
<1> QED BY <1>1, <1>2 DEF Under

\* exit_client takes its link off the list and sends the last line.
LEMMA ClosingLinkStep ==
    ASSUME Ready, ClosingLink
    PROVE  Good
<1>1. PICK t, b, l : t = Top /\ b = Below /\ l = t.of
  OBVIOUS
<1>2. calls # <<>> /\ t.op = "exit" /\ ~t.sent
  BY <1>1 DEF ClosingLink, Running
<1>3. Parts(t, b)
  <2>1. Parts(Top, Below)
    BY <1>2, Begin DEF Ready
  <2> QED BY <1>1, <2>1
<1>4. /\ t \in Call /\ b \in Seq(Call) /\ calls = <<t>> \o b /\ Under(t, b) /\ FrameOK(t)
      /\ DataTypes /\ Sorted /\ Offsets /\ ConnTypes /\ Linked
      /\ UNCHANGED <<sendq, qlen, writeofs, up, dead, wants, got, asked, drops>>
      /\ serv_list' = RemoveFirst(serv_list, l)
  BY <1>1, <1>3 DEF Parts, Ready, ClosingLink, queues
<1>5. l \in Links /\ l \in dead
  BY <1>1, <1>2, <1>4, CallFields DEF FrameOK
<1>6. /\ serv_list' \in Seq(Links) /\ IsInjective(serv_list')
      /\ l \notin ToSet(serv_list') /\ Shrinks
  <2>1. serv_list \in Seq(Links) /\ IsInjective(serv_list)
    BY <1>4 DEF ConnTypes
  <2> QED BY <1>4, <2>1, RemoveFirstKeeps DEF Shrinks
<1>7. Linked'
  <2> SUFFICES ASSUME NEW m \in ToSet(serv_list') PROVE m \in up
    BY <1>4 DEF Linked
  <2>1. m \in ToSet(serv_list) /\ m # l
    BY <1>6 DEF Shrinks
  <2>2. calls # <<Exit(m)>>
    <3> SUFFICES ASSUME calls = <<Exit(m)>> PROVE FALSE
      OBVIOUS
    <3>1. t = Exit(m)
      BY <1>1 DEF Top
    <3> QED BY <1>1, <2>1, <3>1 DEF Exit
  <2> QED BY <1>4, <2>1, <2>2 DEF Linked
<1>8. PICK w, c : w = Sent(t) /\ c = <<w>> \o b
  OBVIOUS
<1>9. w \in Call /\ w.op = "exit" /\ w.sent /\ w.of = l /\ c \in Seq(Call)
  BY <1>1, <1>2, <1>4, <1>8, SentIs, Push
<1>10. FrameOK(w)' /\ Waits(w)' /\ Ahead(w)' /\ TopOK(w)'
  BY <1>4, <1>5, <1>6, <1>9 DEF FrameOK, Waits, Ahead, TopOK
<1>11. ASSUME Grows PROVE Settled(b)' /\ Settled(c)'
  <2>1. Settled(b)'
    <3>1. CASE Settled(b)
      BY <1>4, <1>6, <1>11, <3>1, SettledKept
    <3>2. CASE ~Settled(b)
      <4>1. PICK f, r : f = Head(b) /\ r = Tail(b)
        OBVIOUS
      <4>2. b # <<>> /\ FrameOK(f) /\ Awaits(t, f) /\ Settled(r)
        BY <1>4, <3>2, <4>1 DEF Under
      <4>3. f \in Call /\ r \in Seq(Call) /\ b = <<f>> \o r
        BY <1>4, <4>1, <4>2, Innermost
      <4>4. f.op = "walk" /\ f.sent /\ f.at = l
        BY <1>1, <1>2, <4>2 DEF Awaits
      <4>5. FrameOK(f)' /\ Settled(r)'
        BY <1>6, <1>11, <4>2, <4>3, FrameKept, SettledKept
      <4>6. Waits(f)'
        BY <1>6, <4>4 DEF Waits
      <4> QED BY <4>3, <4>5, <4>6, SettledPush
    <3> QED BY <3>1, <3>2
  <2> QED BY <1>4, <1>8, <1>9, <1>10, <2>1, SettledPush
<1>12. CASE l \notin up
  <2>1. calls' = c /\ UNCHANGED line
    BY <1>1, <1>8, <1>12 DEF ClosingLink, Sent
  <2>2. Nothing
    BY <1>4, <2>1 DEF Nothing
  <2>3. SameHolders
    <3>1. \A i : Holds(w, i) <=> Holds(t, i)
      BY <1>2, <1>9 DEF Holds
    <3> QED BY <1>4, <1>8, <1>9, <2>1, <3>1, HoldersOn
  <2>4. Effect
    BY <2>2, <2>3 DEF Effect
  <2>5. Settled(b)'
    BY <1>4, <1>11, <2>4, EffectGrows
  <2>6. Under(w, b)'
    BY <2>5 DEF Under
  <2>7. calls' \in Seq(Call) /\ Stack(calls)'
    BY <1>4, <1>8, <1>9, <1>10, <2>1, <2>6, StackPush
  <2>8. ConnTypes'
    BY <1>4, <1>6, <2>7 DEF ConnTypes
  <2> QED BY <1>7, <2>4, <2>7, <2>8 DEF Good
<1>13. CASE l \in up
  <2>1. PICK i, f : i = NewLine /\ f = One(i, l)
    OBVIOUS
  <2>2. i \in Nat
    BY <1>4, <2>1 DEF NewLine, DataTypes
  <2>3. f \in Call /\ f.op = "one" /\ f.line = i /\ ~f.sent
    BY <1>5, <2>1, <2>2 DEF One, Call
  <2>4. line' = linebuf_new_line(NoteLen) /\ calls' = <<f>> \o c
    BY <1>1, <1>8, <1>13, <2>1 DEF ClosingLink, Sent
  <2>5. Makes(NoteLen) /\ NoteLen \in Lens
    BY <1>4, <2>4 DEF Makes, Lens
  <2>6. Settled(c)'
    BY <1>4, <1>11, <2>5, MakesGrow
  <2>7. \A k : Holders(c, k) = Holders(calls, k) /\ Holders(calls, k) = Holders(b, k)
    <3> TAKE k
    <3>1. Holders(<<t>> \o b, k) = Holders(b, k) + 0 /\ Holders(b, k) \in Nat
      BY <1>2, <1>4, HoldersPush DEF Holds
    <3>2. Holders(<<w>> \o b, k) = Holders(b, k) + 0
      BY <1>4, <1>9, HoldersPush DEF Holds
    <3> QED BY <1>4, <1>8, <3>1, <3>2
  <2>8. Holders(calls, i) = 0
    BY <1>4, <2>1, <2>7, UnderFrames, HoldersZero
  <2>9. Effect /\ calls' \in Seq(Call) /\ Stack(calls)'
    <3>1. UNCHANGED <<queues, dead, got>> /\ \A k : Holders(c, k) = Holders(calls, k)
      BY <1>4, <2>7 DEF queues
    <3> QED BY <1>4, <1>6, <1>9, <2>1, <2>3, <2>4, <2>5, <2>6, <2>8, <3>1, MakeStep
  <2>10. ConnTypes'
    BY <1>4, <1>6, <2>9 DEF ConnTypes
  <2> QED BY <1>7, <2>9, <2>10 DEF Good
<1> QED BY <1>12, <1>13

\* exit_client closes its link.
LEMMA CloseStep ==
    ASSUME Ready, Close
    PROVE  Good
<1>1. PICK t, b, l : t = Top /\ b = Below /\ l = t.of
  OBVIOUS
<1>2. calls # <<>> /\ t.op = "exit" /\ t.sent
  BY <1>1 DEF Close, Running
<1>3. Parts(t, b)
  <2>1. Parts(Top, Below)
    BY <1>2, Begin DEF Ready
  <2> QED BY <1>1, <2>1
<1>4. /\ t \in Call /\ b \in Seq(Call) /\ calls = <<t>> \o b /\ Under(t, b) /\ FrameOK(t)
      /\ DataTypes /\ Sorted /\ Offsets /\ ConnTypes /\ Linked
      /\ UNCHANGED <<serv_list, dead, writeofs, got, asked, drops>>
      /\ linebuf_donebuf(l) /\ up' = up \ {l} /\ wants' = wants \ {l}
      /\ calls' = <<[op |-> "quits", at |-> First, sent |-> FALSE]>> \o b
  BY <1>1, <1>3 DEF Parts, Ready, Close
<1>5. l \in Links /\ l \in dead /\ l \notin ToSet(serv_list)
  BY <1>1, <1>2, <1>4, CallFields DEF FrameOK
<1>6. PICK w : w = [op |-> "quits", at |-> First, sent |-> FALSE]
  OBVIOUS
<1>7. w \in Call /\ w.op = "quits"
  BY <1>4, <1>6, FirstIs DEF Call
<1>8. Drops(l)
  BY <1>4, <1>5 DEF Drops
<1>9. SameHolders
  <2>1. \A i : Holds(w, i) <=> Holds(t, i)
    BY <1>2, <1>7 DEF Holds
  <2> QED BY <1>4, <1>6, <1>7, <2>1, HoldersOn
<1>10. Effect
  BY <1>5, <1>8, <1>9 DEF Effect
<1>11. Settled(b) /\ Grows /\ Shrinks
  BY <1>2, <1>4, <1>10, UnderSettled, EffectGrows DEF Shrinks
<1>12. Under(w, b)'
  <2>1. Settled(b)'
    BY <1>4, <1>11, SettledKept
  <2> QED BY <2>1 DEF Under
<1>13. FrameOK(w)' /\ Ahead(w)' /\ TopOK(w)'
  BY <1>7 DEF FrameOK, Ahead, TopOK
<1>14. calls' \in Seq(Call) /\ Stack(calls)'
  BY <1>4, <1>6, <1>7, <1>12, <1>13, StackPush
<1>15. Linked'
  <2> SUFFICES ASSUME NEW m \in ToSet(serv_list) PROVE m \in up /\ m # l
    BY <1>4 DEF Linked
  <2>1. calls # <<Exit(m)>>
    <3> SUFFICES ASSUME calls = <<Exit(m)>> PROVE FALSE
      OBVIOUS
    <3>1. t = Exit(m)
      BY <1>1 DEF Top
    <3> QED BY <1>2, <3>1 DEF Exit
  <2> QED BY <1>4, <1>5, <2>1 DEF Linked
<1>16. ConnTypes'
  BY <1>4, <1>14 DEF ConnTypes
<1> QED BY <1>10, <1>14, <1>15, <1>16 DEF Good

---------------------------------------------------------------------------
(* The invariant is inductive.                                             *)

\* Every action has one of the effects, and leaves a sound stack.
LEMMA NextGood ==
    ASSUME Ready, Next
    PROVE  Good
<1>1. CASE Inside
  <2>1. ASSUME NEW k \in Lens, NEW n \in 1..k, Write(n) PROVE Good
    <3>1. n \in Nat \ {0}
      BY LensNat
    <3> QED BY <2>1, <3>1, WriteStep
  <2>2. CASE \E n \in UNION {1..k : k \in Lens} : Write(n)
    BY <2>1, <2>2
  <2> QED
    BY <1>1, <2>2, WalkStep, SendOneStep, QuitsStep, WrittenStep, WouldBlockStep,
       WriteErrorStep, ClosingLinkStep, CloseStep DEF Inside
<1>2. CASE \E l \in Links : WriteReady(l) \/ Squit(l) \/ PeerClosed(l)
  BY <1>2, WriteReadyStep, SquitStep, PeerClosedStep
<1>3. CASE \E l \in Links, n \in LineLens : sendto_one(l, n)
  BY <1>3, sendto_oneStep
<1>4. CASE \E S \in SUBSET Links, n \in LineLens : sendto_server(S, n)
  BY <1>4, sendto_serverStep
<1> QED BY <1>1, <1>2, <1>3, <1>4 DEF Next

\* The calls that hold a line are finitely many.
LEMMA CallsCounted ==
    ASSUME ConnTypes
    PROVE  Counted
<1> SUFFICES ASSUME NEW i PROVE Holders(calls, i) \in Nat
  BY DEF Counted
<1> DEFINE K == {k \in DOMAIN calls : Holds(calls[k], i)}
<1>1. DOMAIN calls = 1..Len(calls) /\ Len(calls) \in Nat
  BY DEF ConnTypes
<1>2. K \subseteq 1..Len(calls) /\ IsFiniteSet(1..Len(calls))
  BY <1>1, FS_Interval
<1> HIDE DEF K
<1>3. Cardinality(K) \in Nat
  BY <1>2, FS_Subset, FS_CardinalityType
<1> QED BY <1>3 DEF Holders, K

\* The server starts with its links, empty queues and no call.
LEMMA InitInv == Init => Inv
<1> SUFFICES ASSUME Init PROVE Inv
  OBVIOUS
<1>1. /\ line = <<>> /\ serv_list = SetToSeq(Links) /\ up = Links /\ dead = {}
      /\ sendq = [l \in Links |-> <<>>] /\ got = [l \in Links |-> <<>>]
      /\ qlen = [l \in Links |-> 0] /\ writeofs = [l \in Links |-> 0]
      /\ wants = {} /\ calls = <<>> /\ asked = 0 /\ drops = 0
  BY DEF Init
<1>2. DataTypes
  <2>1. line \in Seq(LineRec) /\ Len(line) = 0
    BY <1>1
  <2>2. sendq \in [Links -> Seq(1..Len(line))]
    BY <1>1
  <2>3. got \in [Links -> Seq((1..Len(line)) \X Nat)]
    BY <1>1
  <2>4. qlen \in [Links -> Int] /\ writeofs \in [Links -> Nat] /\ dead \subseteq Links
    BY <1>1
  <2> QED BY <2>1, <2>2, <2>3, <2>4 DEF DataTypes
<1>3. ConnTypes
  <2>1. serv_list \in Seq(Links) /\ IsInjective(serv_list)
    BY <1>1, SendAssumption, SomeOrder
  <2>2. calls \in Seq(Call)
    BY <1>1
  <2> QED BY <1>1, <2>1, <2>2, SendAssumption DEF ConnTypes
<1>4. RefcountsMatch
  <2>1. Len(line) = 0
    BY <1>1
  <2>2. Refs
    BY <2>1 DEF Refs
  <2>3. Lengths
    <3> SUFFICES ASSUME NEW l \in Links PROVE qlen[l] = Len(Stream(line, sendq[l]))
      BY DEF Lengths
    <3>1. sendq[l] = <<>> /\ qlen[l] = 0
      BY <1>1
    <3>2. Stream(line, sendq[l]) = <<>>
      BY <1>2, <3>1, QueueFacts, StreamType
    <3> QED BY <3>1, <3>2
  <2> QED BY <1>2, <2>2, <2>3, RefsMean
<1>5. Sorted /\ Offsets
  BY <1>1 DEF Sorted, Offsets
<1>6. Linked
  <2>1. \A i \in DOMAIN serv_list : serv_list[i] \in Links
    BY <1>3 DEF ConnTypes
  <2> QED BY <1>1, <2>1 DEF Linked, ToSet
<1>7. Stack(calls)
  BY <1>1 DEF Stack
<1> QED BY <1>2, <1>3, <1>4, <1>5, <1>6, <1>7 DEF Inv

\* Every step keeps the invariant.
LEMMA NextInv == Inv /\ [Next]_vars => Inv'
<1> SUFFICES ASSUME Inv, [Next]_vars PROVE Inv'
  OBVIOUS
<1>1. CASE Next
  <2>1. Ready
    BY DEF Inv, Ready
  <2>2. Good
    BY <1>1, <2>1, NextGood
  <2>3. DataTypes' /\ Sorted' /\ Offsets'
    BY <2>1, <2>2, DataStep DEF Ready, Good
  <2>4. Refs' /\ Lengths'
    <3>1. Refs /\ Lengths
      BY RefsMean DEF Inv
    <3> QED BY <2>1, <2>2, <3>1, CallsCounted, CountStep DEF Ready, Good
  <2>5. RefcountsMatch'
    <3>1. (DataTypes => (RefcountsMatch <=> Refs /\ Lengths))'
      BY RefsMean, PTL
    <3> QED BY <2>3, <2>4, <3>1
  <2> QED BY <2>2, <2>3, <2>5 DEF Good, Inv
<1>2. CASE UNCHANGED vars
  <2>1. UNCHANGED <<line, serv_list, up, dead, sendq, qlen, writeofs, wants, got, calls, asked, drops>>
    BY <1>2 DEF vars
  <2>2. DataTypes' /\ ConnTypes'
    BY <2>1 DEF Inv, DataTypes, ConnTypes
  <2>3. RefcountsMatch'
    BY <2>1 DEF Inv, RefcountsMatch
  <2>4. Sorted' /\ Offsets' /\ Linked'
    BY <2>1 DEF Inv, Sorted, Offsets, Linked
  <2>5. \A l, i : Fresh(l, i) => Fresh(l, i)'
    BY <2>1 DEF Fresh
  <2>6. Stack(calls)'
    <3>1. PICK cs : cs = calls
      OBVIOUS
    <3>2. /\ \A f : FrameOK(f) => FrameOK(f)'
          /\ \A f : Waits(f) => Waits(f)'
          /\ \A f : TopOK(f) => TopOK(f)'
      BY <2>1 DEF FrameOK, Waits, TopOK, Fresh
    <3>3. \A f : Ahead(f) => Ahead(f)'
      BY <2>1 DEF Ahead, Fresh
    <3>4. \A x : Settled(x) => Settled(x)'
      BY <3>2 DEF Settled
    <3>5. Stack(cs) => Stack(cs)'
      BY <3>2, <3>3, <3>4 DEF Stack, Under
    <3> QED BY <2>1, <3>1, <3>5 DEF Inv, Stack
  <2> QED BY <2>2, <2>3, <2>4, <2>6 DEF Inv
<1> QED BY <1>1, <1>2

\* Whatever is written, dropped or broadcast, and wherever a broadcast is cut
\* short by the exit of a link, the invariant holds.
THEOREM Invariance == Spec => []Inv
<1> QED BY InitInv, NextInv, PTL DEF Spec

---------------------------------------------------------------------------
(* What follows from it.                                                   *)

\* A count and a length are never below zero.
LEMMA InvTypes == Inv => TypeOK
<1> SUFFICES ASSUME Inv PROVE TypeOK
  OBVIOUS
<1>1. DataTypes /\ ConnTypes /\ Refs /\ Lengths
  BY RefsMean DEF Inv
<1>2. \A i \in 1..Len(line) : line[i].refcount \in Nat
  <2> SUFFICES ASSUME NEW i \in 1..Len(line) PROVE line[i].refcount \in Nat
    OBVIOUS
  <2>1. Cardinality(Held(i)) \in Nat /\ Holders(calls, i) \in Nat
    <3>1. Len(line) \in Nat
      BY <1>1 DEF DataTypes
    <3> QED BY <1>1, <3>1, HeldFinite, CallsCounted DEF Counted
  <2> QED BY <1>1, <2>1 DEF Refs
<1>3. line \in Seq([len : Lens, refcount : Nat, flushing : BOOLEAN])
  <2>1. line \in Seq(LineRec) /\ Len(line) \in Nat
    BY <1>1 DEF DataTypes
  <2>2. \A i \in 1..Len(line) : line[i] \in LineRec
    BY <2>1
  <2> DEFINE R == [len : Lens, refcount : Nat, flushing : BOOLEAN]
  <2>3. ASSUME NEW i \in 1..Len(line)
        PROVE  line[i] \in R
    <3>1. line[i] \in [len : Lens, refcount : Int, flushing : BOOLEAN] /\ line[i].refcount \in Nat
      BY <1>2, <2>2 DEF LineRec
    <3> QED BY <3>1
  <2>4. line = [i \in 1..Len(line) |-> line[i]]
    BY <2>1
  <2> HIDE DEF R
  <2>5. line \in Seq(R)
    BY <2>1, <2>3, <2>4
  <2> QED BY <2>5 DEF R
<1>4. qlen \in [Links -> Nat]
  <2>1. \A l \in Links : qlen[l] \in Nat
    <3> SUFFICES ASSUME NEW l \in Links PROVE qlen[l] \in Nat
      OBVIOUS
    <3>1. Stream(line, sendq[l]) \in Seq(Byte)
      BY <1>1, QueueFacts, StreamType
    <3> QED BY <1>1, <3>1 DEF Lengths
  <2> QED BY <1>1, <2>1 DEF DataTypes
<1> QED BY <1>1, <1>3, <1>4 DEF TypeOK, DataTypes, ConnTypes

\* Every variable keeps its type: in particular no line is let go more often
\* than it was taken (linebuf.c asserts refcount > 0), and no length of a queue
\* goes below zero.
THEOREM QueueTypes == Spec => []TypeOK
<1> QED BY Invariance, InvTypes, PTL

\* A line has as many references as there are queues and calls that hold it, so
\* that it is freed when the last of them lets go and never before, and the
\* length of a queue is that of its lines.
THEOREM ReferencesCounted == Spec => []RefcountsMatch
<1>1. Inv => RefcountsMatch
  BY DEF Inv
<1> QED BY <1>1, Invariance, PTL

\* The queues implement the streams of FifoLinks: no byte is repeated, skipped
\* or out of order on any link, although the flag that says that a line has
\* been begun is shared by all the queues and writes stop anywhere.
THEOREM StreamsRefine == Spec => StreamsAreFifo
<1>1. Init => Fifo!Init
  <2> SUFFICES ASSUME Init PROVE Fifo!Init
    OBVIOUS
  <2>1. /\ line = <<>> /\ dead = {} /\ sendq = [l \in Links |-> <<>>]
        /\ got = [l \in Links |-> <<>>]
    BY DEF Init
  <2>2. \A l \in Links : Pending(l) = <<>>
    BY <2>1 DEF Pending
  <2> QED BY <2>1, <2>2 DEF Fifo!Init
<1>2. Inv /\ [Next]_vars => [Fifo!Next]_(Fifo!vars)
  <2> SUFFICES ASSUME Inv, [Next]_vars PROVE [Fifo!Next]_(Fifo!vars)
    OBVIOUS
  <2>1. CASE Next
    <3>1. Ready
      BY DEF Inv, Ready
    <3> QED BY <2>1, <3>1, NextGood, EffectRefines DEF Ready, Good
  <2>2. CASE UNCHANGED vars
    BY <2>2 DEF vars, Fifo!vars, Pending, WriteFrom
  <2> QED BY <2>1, <2>2
<1> QED BY <1>1, <1>2, Invariance, PTL DEF Spec, StreamsAreFifo, Fifo!Spec
============================================================================
