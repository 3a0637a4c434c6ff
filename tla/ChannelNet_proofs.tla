------------------------- MODULE ChannelNet_proofs -------------------------
(***************************************************************************)
(* Proofs about ChannelNet, for every forest of servers, any clients on    *)
(* them and any number of joins, parts and losses of links: type           *)
(* correctness, and that no server keeps a ghost.                          *)
(*                                                                         *)
(* The second needs to know where a client is, and what is still on its    *)
(* way: a message about a client only travels away from the client's       *)
(* server, and what a server will believe once it has read all that is on  *)
(* the wire is what the sender believes now.                               *)
(***************************************************************************)
EXTENDS ChannelNet, SequenceTheorems, FiniteSetTheorems, TLAPS

---------------------------------------------------------------------------
(* Forests.                                                                *)

\* An edge has two ends.
LEMMA EdgeEnds ==
    ASSUME NEW V, NEW E, IsForest(V, E), NEW x, NEW y, {x, y} \in E
    PROVE  x \in V /\ y \in V /\ x # y
<1>1. {x, y} \subseteq V /\ Cardinality({x, y}) = 2
  BY DEF IsForest
<1>2. ASSUME x = y PROVE FALSE
  <2>1. {x, y} = {x}
    BY <1>2
  <2>2. Cardinality({x}) = 1
    BY FS_Singleton
  <2> QED BY <1>1, <2>1, <2>2
<1> QED BY <1>1, <1>2

\* What is behind a link contains the server at its other end, not our own,
\* and no other link leaves it.
LEMMA BehindBasics ==
    ASSUME NEW V, NEW E, IsForest(V, E), NEW x, NEW y, {x, y} \in E
    PROVE  /\ Behind(V, E, x, y) \subseteq V
           /\ x \in Behind(V, E, x, y)
           /\ y \notin Behind(V, E, x, y)
           /\ Closed(Behind(V, E, x, y), E \ {{x, y}})
<1>1. x \in V /\ y \in V /\ x # y
  BY EdgeEnds
<1>2. y \notin Behind(V, E, x, y)
  BY <1>1 DEF IsForest
<1>3. Closed(Behind(V, E, x, y), E \ {{x, y}})
  <2>1. SUFFICES ASSUME NEW e \in E \ {{x, y}}, NEW a \in e,
                        a \in Behind(V, E, x, y), NEW b \in e
                 PROVE  b \in Behind(V, E, x, y)
    BY DEF Closed
  <2>2. b \in V
    BY DEF IsForest
  <2>3. ASSUME NEW S \in SUBSET V, x \in S, Closed(S, E \ {{x, y}})
        PROVE  b \in S
    <3>1. a \in S
      BY <2>1, <2>3 DEF Behind
    <3> QED BY <2>3, <3>1 DEF Closed
  <2> QED BY <2>2, <2>3 DEF Behind
<1> QED BY <1>1, <1>2, <1>3 DEF Behind

\* Nothing smaller would do.
LEMMA BehindLeast ==
    ASSUME NEW V, NEW E, NEW x, NEW y, NEW S \in SUBSET V, x \in S,
           Closed(S, E \ {{x, y}})
    PROVE  Behind(V, E, x, y) \subseteq S
BY DEF Behind

\* What a server has behind one link it passes on over another lies, for the
\* receiver, behind the link to that server.
LEMMA BehindGrows ==
    ASSUME NEW V, NEW E, IsForest(V, E), NEW t, NEW s, NEW p,
           {t, s} \in E, {s, p} \in E, p # t
    PROVE  Behind(V, E, t, s) \subseteq Behind(V, E, s, p)
<1> DEFINE A == Behind(V, E, t, s)
           B == Behind(V, E, s, p)
<1>1. A \subseteq V /\ t \in A /\ s \notin A /\ Closed(A, E \ {{t, s}})
  BY BehindBasics
<1>2. B \subseteq V /\ s \in B /\ p \notin B /\ Closed(B, E \ {{s, p}})
  BY BehindBasics
<1>3. s # t /\ s # p
  BY EdgeEnds
<1> HIDE DEF A, B
<1>4. t \in B
  <2>1. {t, s} \in E \ {{s, p}}
    BY <1>3
  <2> QED BY <1>2, <2>1 DEF Closed
<1>5. Closed(A \cap B, E \ {{t, s}})
  <2>1. SUFFICES ASSUME NEW e \in E \ {{t, s}}
                 PROVE  e \subseteq A \cap B \/ e \cap (A \cap B) = {}
    BY DEF Closed
  <2>2. e \subseteq A \/ e \cap A = {}
    BY <1>1 DEF Closed
  <2>3. CASE e = {s, p}
    BY <1>1, <1>2, <2>3
  <2>4. CASE e # {s, p}
    <3>1. e \subseteq B \/ e \cap B = {}
      BY <1>2, <2>4 DEF Closed
    <3> QED BY <2>2, <3>1
  <2> QED BY <2>3, <2>4
<1>6. A \subseteq A \cap B
  <2>1. PICK S : S = A \cap B
    OBVIOUS
  <2>2. S \in SUBSET V /\ t \in S /\ Closed(S, E \ {{t, s}})
    BY <1>1, <1>4, <1>5, <2>1
  <2>3. Behind(V, E, t, s) \subseteq S
    BY <2>2, BehindLeast
  <2> QED BY <2>1, <2>3 DEF A
<1> QED BY <1>6 DEF A, B

\* Nothing is behind two links of a server.
LEMMA BehindApart ==
    ASSUME NEW V, NEW E, IsForest(V, E), NEW x, NEW z, NEW y,
           {x, y} \in E, {z, y} \in E, x # z
    PROVE  Behind(V, E, x, y) \cap Behind(V, E, z, y) = {}
<1> DEFINE A == Behind(V, E, x, y)
           B == Behind(V, E, z, y)
<1>1. A \subseteq V /\ x \in A /\ y \notin A /\ Closed(A, E \ {{x, y}})
  BY BehindBasics
<1>2. B \subseteq V /\ z \in B /\ y \notin B /\ Closed(B, E \ {{z, y}})
  BY BehindBasics
<1>3. x # y /\ z # y
  BY EdgeEnds
<1> HIDE DEF A, B
<1>4. z \notin A
  <2>1. {z, y} \in E \ {{x, y}}
    BY <1>3
  <2> QED BY <1>1, <2>1 DEF Closed
<1>5. Closed(B \ A, E \ {{z, y}})
  <2>1. SUFFICES ASSUME NEW e \in E \ {{z, y}}
                 PROVE  e \subseteq B \ A \/ e \cap (B \ A) = {}
    BY DEF Closed
  <2>2. e \subseteq B \/ e \cap B = {}
    BY <1>2 DEF Closed
  <2>3. CASE e = {x, y}
    BY <1>1, <1>2, <2>3
  <2>4. CASE e # {x, y}
    <3>1. e \subseteq A \/ e \cap A = {}
      BY <1>1, <2>4 DEF Closed
    <3> QED BY <2>2, <3>1
  <2> QED BY <2>3, <2>4
<1>6. B \subseteq B \ A
  <2>1. PICK S : S = B \ A
    OBVIOUS
  <2>2. S \in SUBSET V /\ z \in S /\ Closed(S, E \ {{z, y}})
    BY <1>2, <1>4, <1>5, <2>1
  <2>3. Behind(V, E, z, y) \subseteq S
    BY <2>2, BehindLeast
  <2> QED BY <2>1, <2>3 DEF B
<1> QED BY <1>6 DEF A, B

---------------------------------------------------------------------------
(* What a stream of messages says of a client.                             *)

\* The message introduces the client, or says he is gone.
Says(m, type, u) == m.type = type /\ u \in m.clients

\* Somewhere in w a client is introduced, and not taken back later.
Brings(w, u) == \E i \in 1..Len(w) :
                  /\ Says(w[i], "nick", u)
                  /\ \A j \in (i + 1)..Len(w) : ~Says(w[j], "quit", u)

\* Somewhere in w he is taken back.
Removes(w, u) == \E i \in 1..Len(w) : Says(w[i], "quit", u)

\* The clients introduced or taken back in w.
Named(w) == {u \in Clients : \E i \in 1..Len(w) :
                               Says(w[i], "nick", u) \/ Says(w[i], "quit", u)}

\* w2 says the same of everybody as w1.
SaysSame(w2, w1) == \A u \in Clients :
    /\ Brings(w2, u) <=> Brings(w1, u)
    /\ Removes(w2, u) <=> Removes(w1, u)
    /\ u \in Named(w2) <=> u \in Named(w1)

\* An empty stream says nothing.
LEMMA EmptySays ==
    \A u \in Clients : ~Brings(<<>>, u) /\ ~Removes(<<>>, u) /\ u \notin Named(<<>>)
BY DEF Brings, Removes, Named

\* A stream with one more message.
Longer(w, m) == w \o <<m>>

\* What one more message adds to a stream.
LEMMA OneMore ==
    ASSUME NEW w \in Seq(Message), NEW m \in Message, NEW u \in Clients
    PROVE  /\ Longer(w, m) \in Seq(Message)
           /\ Says(m, "nick", u) => Brings(Longer(w, m), u)
           /\ Says(m, "quit", u) => Removes(Longer(w, m), u) /\ ~Brings(Longer(w, m), u)
           /\ ~Says(m, "nick", u) /\ ~Says(m, "quit", u) =>
                /\ Brings(Longer(w, m), u) <=> Brings(w, u)
                /\ Removes(Longer(w, m), u) <=> Removes(w, u)
           /\ u \in Named(Longer(w, m)) <=>
                u \in Named(w) \/ Says(m, "nick", u) \/ Says(m, "quit", u)
<1> DEFINE n == Len(w)
           v == w \o <<m>>
<1>0. Longer(w, m) = v
  BY DEF Longer
<1>1. /\ v \in Seq(Message) /\ Len(v) = n + 1 /\ n \in Nat
      /\ \A i \in 1..n : v[i] = w[i]
      /\ v[n + 1] = m
  OBVIOUS
<1> HIDE DEF n, v
<1>2. ~(Says(m, "nick", u) /\ Says(m, "quit", u))
  BY DEF Says
<1>3. /\ Len(w) = n
      /\ \A i \in 1..(n + 1) : i \in 1..n \/ i = n + 1
      /\ \A i \in 1..n : i \in 1..(n + 1)
      /\ n + 1 \in 1..(n + 1)
  BY <1>1 DEF n
<1>4. Says(m, "nick", u) => Brings(v, u)
  BY <1>1, <1>3 DEF Brings
<1>5. Says(m, "quit", u) => Removes(v, u)
  BY <1>1, <1>3 DEF Removes
<1>6. Says(m, "quit", u) => ~Brings(v, u)
  <2>1. SUFFICES ASSUME Says(m, "quit", u), NEW i \in 1..(n + 1),
                        Says(v[i], "nick", u),
                        \A j \in (i + 1)..(n + 1) : ~Says(v[j], "quit", u)
                 PROVE  FALSE
    BY <1>1 DEF Brings
  <2>2. i # n + 1
    BY <1>1, <1>2, <2>1
  <2>3. n + 1 \in (i + 1)..(n + 1)
    BY <1>1, <2>2
  <2> QED BY <1>1, <2>1, <2>3
<1>7. ASSUME ~Says(m, "nick", u), ~Says(m, "quit", u)
      PROVE  /\ Brings(v, u) <=> Brings(w, u)
             /\ Removes(v, u) <=> Removes(w, u)
  <2>1. Brings(v, u) => Brings(w, u)
    <3>1. SUFFICES ASSUME NEW i \in 1..(n + 1), Says(v[i], "nick", u),
                          \A j \in (i + 1)..(n + 1) : ~Says(v[j], "quit", u)
                   PROVE  Brings(w, u)
      BY <1>1 DEF Brings
    <3>2. i \in 1..n /\ Says(w[i], "nick", u)
      BY <1>1, <1>3, <1>7, <3>1
    <3>3. \A j \in (i + 1)..n : ~Says(w[j], "quit", u)
      <4>1. \A j \in (i + 1)..n : j \in (i + 1)..(n + 1) /\ j \in 1..n
        BY <1>1, <3>2
      <4> QED BY <1>1, <3>1, <4>1
    <3> QED BY <1>3, <3>2, <3>3 DEF Brings
  <2>2. Brings(w, u) => Brings(v, u)
    <3>1. SUFFICES ASSUME NEW i \in 1..n, Says(w[i], "nick", u),
                          \A j \in (i + 1)..n : ~Says(w[j], "quit", u)
                   PROVE  Brings(v, u)
      BY <1>3 DEF Brings
    <3>2. i \in 1..(n + 1) /\ Says(v[i], "nick", u)
      BY <1>1, <1>3, <3>1
    <3>3. ASSUME NEW j \in (i + 1)..(n + 1) PROVE ~Says(v[j], "quit", u)
      <4>1. CASE j = n + 1
        BY <1>1, <1>7, <4>1
      <4>2. CASE j # n + 1
        <5>1. j \in (i + 1)..n /\ j \in 1..n
          BY <1>1, <4>2
        <5> QED BY <1>1, <3>1, <5>1
      <4> QED BY <4>1, <4>2
    <3> QED BY <1>1, <3>2, <3>3 DEF Brings
  <2>3. Removes(v, u) <=> Removes(w, u)
    BY <1>1, <1>3, <1>7 DEF Removes
  <2> QED BY <2>1, <2>2, <2>3
<1>8. u \in Named(v) <=> u \in Named(w) \/ Says(m, "nick", u) \/ Says(m, "quit", u)
  BY <1>1, <1>3 DEF Named
<1> QED BY <1>0, <1>1, <1>4, <1>5, <1>6, <1>7, <1>8

\* What the first message of a stream adds to the rest.
LEMMA OneLess ==
    ASSUME NEW w \in Seq(Message), w # <<>>, NEW u \in Clients
    PROVE  /\ Head(w) \in Message /\ Tail(w) \in Seq(Message)
           /\ Says(Head(w), "nick", u) =>
                /\ Brings(w, u) <=> Brings(Tail(w), u) \/ ~Removes(Tail(w), u)
                /\ Removes(w, u) <=> Removes(Tail(w), u)
           /\ Says(Head(w), "quit", u) =>
                /\ Brings(w, u) <=> Brings(Tail(w), u)
                /\ Removes(w, u)
           /\ ~Says(Head(w), "nick", u) /\ ~Says(Head(w), "quit", u) =>
                /\ Brings(w, u) <=> Brings(Tail(w), u)
                /\ Removes(w, u) <=> Removes(Tail(w), u)
           /\ u \in Named(w) <=> \/ u \in Named(Tail(w))
                                 \/ Says(Head(w), "nick", u)
                                 \/ Says(Head(w), "quit", u)
<1> DEFINE v == Tail(w)
           m == Head(w)
           n == Len(v)
<1>1. /\ m \in Message /\ v \in Seq(Message) /\ Len(w) = n + 1 /\ n \in Nat
      /\ m = w[1]
      /\ \A i \in 1..n : v[i] = w[i + 1]
  OBVIOUS
<1> HIDE DEF n, v, m
<1>2. ~(Says(m, "nick", u) /\ Says(m, "quit", u))
  BY DEF Says
<1>3. /\ Len(v) = n
      /\ \A i \in 1..n : i + 1 \in 1..(n + 1)
      /\ \A i \in 1..(n + 1) : i = 1 \/ (i - 1 \in 1..n /\ (i - 1) + 1 = i)
      /\ 1 \in 1..(n + 1)
  BY <1>1 DEF n
<1>4. Removes(w, u) <=> Removes(v, u) \/ Says(m, "quit", u)
  <2>1. Removes(v, u) => Removes(w, u)
    <3>1. SUFFICES ASSUME NEW i \in 1..n, Says(v[i], "quit", u) PROVE Removes(w, u)
      BY <1>3 DEF Removes
    <3> QED BY <1>1, <1>3, <3>1 DEF Removes
  <2>2. Says(m, "quit", u) => Removes(w, u)
    BY <1>1, <1>3 DEF Removes
  <2>3. Removes(w, u) => Removes(v, u) \/ Says(m, "quit", u)
    <3>1. SUFFICES ASSUME NEW i \in 1..(n + 1), Says(w[i], "quit", u), i # 1
                   PROVE  Removes(v, u)
      BY <1>1 DEF Removes
    <3> QED BY <1>1, <1>3, <3>1 DEF Removes
  <2> QED BY <2>1, <2>2, <2>3
<1>5. Brings(v, u) => Brings(w, u)
  <2>1. SUFFICES ASSUME NEW i \in 1..n, Says(v[i], "nick", u),
                        \A j \in (i + 1)..n : ~Says(v[j], "quit", u)
                 PROVE  Brings(w, u)
    BY <1>3 DEF Brings
  <2>2. i + 1 \in 1..(n + 1) /\ Says(w[i + 1], "nick", u)
    BY <1>1, <1>3, <2>1
  <2>3. ASSUME NEW j \in ((i + 1) + 1)..(n + 1) PROVE ~Says(w[j], "quit", u)
    <3>1. j - 1 \in (i + 1)..n /\ j - 1 \in 1..n /\ (j - 1) + 1 = j
      BY <1>1
    <3> QED BY <1>1, <2>1, <3>1
  <2> QED BY <1>1, <2>2, <2>3 DEF Brings
<1>6. Says(m, "nick", u) /\ ~Removes(v, u) => Brings(w, u)
  <2>1. SUFFICES ASSUME Says(m, "nick", u), ~Removes(v, u) PROVE Brings(w, u)
    OBVIOUS
  <2>2. ASSUME NEW j \in (1 + 1)..(n + 1) PROVE ~Says(w[j], "quit", u)
    <3>1. j - 1 \in 1..n /\ (j - 1) + 1 = j
      BY <1>1
    <3> QED BY <1>1, <1>3, <2>1, <3>1 DEF Removes
  <2> QED BY <1>1, <1>3, <2>1, <2>2 DEF Brings
<1>7. Brings(w, u) => Brings(v, u) \/ (Says(m, "nick", u) /\ ~Removes(v, u))
  <2>1. SUFFICES ASSUME NEW i \in 1..(n + 1), Says(w[i], "nick", u),
                        \A j \in (i + 1)..(n + 1) : ~Says(w[j], "quit", u)
                 PROVE  Brings(v, u) \/ (Says(m, "nick", u) /\ ~Removes(v, u))
    BY <1>1 DEF Brings
  <2>2. CASE i = 1
    <3>1. ASSUME NEW j \in 1..n PROVE ~Says(v[j], "quit", u)
      <4>1. j + 1 \in (i + 1)..(n + 1)
        BY <1>1, <2>2
      <4> QED BY <1>1, <2>1, <4>1
    <3> QED BY <1>1, <1>3, <2>1, <2>2, <3>1 DEF Removes
  <2>3. CASE i # 1
    <3>1. i - 1 \in 1..n /\ Says(v[i - 1], "nick", u)
      BY <1>1, <1>3, <2>1, <2>3
    <3>2. ASSUME NEW j \in ((i - 1) + 1)..n PROVE ~Says(v[j], "quit", u)
      <4>1. j + 1 \in (i + 1)..(n + 1) /\ j \in 1..n
        BY <1>1, <2>3
      <4> QED BY <1>1, <2>1, <4>1
    <3> QED BY <1>3, <3>1, <3>2 DEF Brings
  <2> QED BY <2>2, <2>3
<1>8. u \in Named(w) <=> u \in Named(v) \/ Says(m, "nick", u) \/ Says(m, "quit", u)
  <2>1. u \in Named(v) => u \in Named(w)
    <3>1. SUFFICES ASSUME NEW i \in 1..n, Says(v[i], "nick", u) \/ Says(v[i], "quit", u)
                   PROVE  u \in Named(w)
      BY <1>3 DEF Named
    <3> QED BY <1>1, <1>3, <3>1 DEF Named
  <2>2. Says(m, "nick", u) \/ Says(m, "quit", u) => u \in Named(w)
    BY <1>1, <1>3 DEF Named
  <2>3. u \in Named(w) => u \in Named(v) \/ Says(m, "nick", u) \/ Says(m, "quit", u)
    <3>1. SUFFICES ASSUME NEW i \in 1..(n + 1), i # 1,
                          Says(w[i], "nick", u) \/ Says(w[i], "quit", u)
                   PROVE  u \in Named(v)
      BY <1>1 DEF Named
    <3> QED BY <1>1, <1>3, <3>1 DEF Named
  <2> QED BY <2>1, <2>2, <2>3
<1> QED BY <1>1, <1>2, <1>4, <1>5, <1>6, <1>7, <1>8 DEF v, m

\* Messages about the channel say nothing of who is on the network.
LEMMA SjoinsSayNothing ==
    ASSUME NEW w \in Seq(Message), NEW v \in Seq(Message),
           \A i \in 1..Len(v) : v[i].type \notin {"nick", "quit"}
    PROVE  w \o v \in Seq(Message) /\ SaysSame(w \o v, w)
<1> DEFINE n == Len(w)
           k == Len(v)
           c == w \o v
<1>1. /\ c \in Seq(Message) /\ Len(c) = n + k /\ n \in Nat /\ k \in Nat
      /\ \A i \in 1..n : c[i] = w[i]
      /\ \A i \in 1..(n + k) : i \notin 1..n => i - n \in 1..k /\ c[i] = v[i - n]
  OBVIOUS
<1>2. Len(w) = n /\ Len(v) = k
  OBVIOUS
<1> HIDE DEF n, k, c
<1>3. \A i \in 1..n : i \in 1..(n + k)
  BY <1>1
<1>4. \A u : \A i \in 1..(n + k) : i \notin 1..n =>
        ~Says(c[i], "nick", u) /\ ~Says(c[i], "quit", u)
  BY <1>1, <1>2 DEF Says
<1>5. ASSUME NEW u \in Clients, Brings(c, u) PROVE Brings(w, u)
  <2>1. PICK i \in 1..(n + k) : /\ Says(c[i], "nick", u)
                                /\ \A j \in (i + 1)..(n + k) : ~Says(c[j], "quit", u)
    BY <1>1, <1>5 DEF Brings
  <2>2. i \in 1..n /\ Says(w[i], "nick", u)
    BY <1>1, <1>4, <2>1
  <2>3. \A j \in (i + 1)..n : j \in (i + 1)..(n + k) /\ j \in 1..n
    BY <1>1, <2>2
  <2> QED BY <1>1, <1>2, <2>1, <2>2, <2>3 DEF Brings
<1>6. ASSUME NEW u \in Clients, Brings(w, u) PROVE Brings(c, u)
  <2>1. PICK i \in 1..n : /\ Says(w[i], "nick", u)
                          /\ \A j \in (i + 1)..n : ~Says(w[j], "quit", u)
    BY <1>2, <1>6 DEF Brings
  <2>2. i \in 1..(n + k) /\ Says(c[i], "nick", u)
    BY <1>1, <1>3, <2>1
  <2>3. ASSUME NEW j \in (i + 1)..(n + k) PROVE ~Says(c[j], "quit", u)
    <3>1. j \in 1..(n + k)
      BY <1>1
    <3>2. CASE j \in 1..n
      <4>1. j \in (i + 1)..n
        BY <1>1, <3>2
      <4> QED BY <1>1, <2>1, <3>2, <4>1
    <3> QED BY <1>4, <3>1, <3>2
  <2> QED BY <1>1, <2>2, <2>3 DEF Brings
<1>7. ASSUME NEW u \in Clients PROVE Removes(c, u) <=> Removes(w, u)
  BY <1>1, <1>2, <1>3, <1>4 DEF Removes
<1>8. ASSUME NEW u \in Clients PROVE u \in Named(c) <=> u \in Named(w)
  BY <1>1, <1>2, <1>3, <1>4 DEF Named
<1> QED BY <1>1, <1>5, <1>6, <1>7, <1>8 DEF SaysSame, c

---------------------------------------------------------------------------
(* Messages and wires.                                                     *)

\* The messages the handlers make are messages.
LEMMA MessagesMade ==
    /\ \A cs \in SUBSET Clients :
         /\ Nick(cs) \in Message /\ Nick(cs).type = "nick" /\ Nick(cs).clients = cs
         /\ Quit(cs) \in Message /\ Quit(cs).type = "quit" /\ Quit(cs).clients = cs
    /\ \A u \in Clients : Parts(u) \in Message /\ Parts(u).type = "part"
    /\ \A t \in Nat, S \in SUBSET Clients : \A f \in [S -> Lists] :
         SJOIN(t, f) \in Message /\ SJOIN(t, f).type = "sjoin"
<1>1. \A cs \in SUBSET Clients :
         /\ Nick(cs) \in Message /\ Nick(cs).type = "nick" /\ Nick(cs).clients = cs
         /\ Quit(cs) \in Message /\ Quit(cs).type = "quit" /\ Quit(cs).clients = cs
  BY DEF Nick, Quit, Message
<1>2. \A u \in Clients : Parts(u) \in Message /\ Parts(u).type = "part"
  BY DEF Parts, Message
<1>3. ASSUME NEW t \in Nat, NEW S \in SUBSET Clients, NEW f \in [S -> Lists]
      PROVE  SJOIN(t, f) \in Message /\ SJOIN(t, f).type = "sjoin"
  <2>1. f \in UNION {[D -> Lists] : D \in SUBSET Clients}
    OBVIOUS
  <2> QED BY <2>1 DEF SJOIN, Message
<1> QED BY <1>1, <1>2, <1>3

\* What a message holds, by its type.
LEMMA MessageFields ==
    ASSUME NEW m \in Message
    PROVE  /\ m.type \in {"nick", "quit", "part", "sjoin"}
           /\ m.type # "sjoin" => m.clients \in SUBSET Clients
           /\ m.type = "sjoin" => /\ m.ts \in Nat
                                  /\ DOMAIN m.nicks \subseteq Clients
                                  /\ m.nicks \in [DOMAIN m.nicks -> Lists]
<1>1. CASE m \in [type : {"nick", "quit", "part"}, clients : SUBSET Clients]
  BY <1>1
<1>2. CASE m \in [type : {"sjoin"}, ts : Nat,
                  nicks : UNION {[S -> Lists] : S \in SUBSET Clients}]
  BY <1>2
<1> QED BY <1>1, <1>2 DEF Message

\* A wire from each server to each.
Wires == [Servers \X Servers -> Seq(Message)]

\* A stream that is not empty has a first message, and the rest.
LEMMA FirstAndRest ==
    ASSUME NEW w \in Seq(Message), w # <<>>
    PROVE  Head(w) \in Message /\ Tail(w) \in Seq(Message)
OBVIOUS

\* What the wires w carry from x to y.
On(w, x, y) == w[x, y]

\* v is what sendto_server makes of the wires w for the one message m.
Sends(v, w, s, one, m) == v = sendto_server(w, s, one, <<m>>)

\* One message m is added to the wires w to all links of s but one.
OneSent(v, w, s, one, m) ==
    /\ v \in Wires
    /\ \A x, y \in Servers :
         On(v, x, y) = IF x = s /\ y \in serv_list[s] /\ y # one
                         THEN Longer(On(w, x, y), m) ELSE On(w, x, y)

\* That is what sendto_server does.
LEMMA SendOne ==
    ASSUME NEW w \in Wires, NEW s \in Servers, NEW one, NEW m \in Message,
           NEW v, Sends(v, w, s, one, m)
    PROVE  OneSent(v, w, s, one, m)
<1>1. \A p \in Servers \X Servers : w[p] \in Seq(Message) /\ w[p] \o <<m>> \in Seq(Message)
  BY DEF Wires
<1>2. v \in Wires
  BY <1>1 DEF sendto_server, Wires, Sends
<1>3. ASSUME NEW x \in Servers, NEW y \in Servers
      PROVE  On(v, x, y) = IF x = s /\ y \in serv_list[s] /\ y # one
                         THEN Longer(On(w, x, y), m) ELSE On(w, x, y)
  BY DEF sendto_server, Sends, Longer, On
<1> QED BY <1>2, <1>3 DEF OneSent

\* The first message from t to s is taken off the wires.
OneRead(v, s, t) ==
    /\ v \in Wires
    /\ \A x, y \in Servers :
         On(v, x, y) = IF x = t /\ y = s THEN Tail(wire[t, s]) ELSE wire[x, y]

\* That is what reading does.
LEMMA ReadOne ==
    ASSUME wire \in Wires, NEW s \in Servers, NEW t \in Servers, wire[t, s] # <<>>
    PROVE  OneRead(Read(s, t), s, t)
<1> PICK w : w = wire[t, s]
  OBVIOUS
<1>0. w \in Seq(Message)
  BY DEF Wires
<1>1. wire[t, s] \in Seq(Message) /\ Tail(wire[t, s]) \in Seq(Message)
  BY <1>0, FirstAndRest
<1>2. Read(s, t) \in Wires
  BY <1>1 DEF Read, Wires
<1>3. ASSUME NEW x \in Servers, NEW y \in Servers
      PROVE  On(Read(s, t), x, y) = IF x = t /\ y = s THEN Tail(wire[t, s])
                                ELSE wire[x, y]
  BY DEF Read, Wires, On
<1> QED BY <1>2, <1>3 DEF OneRead

\* A message is read and m is passed on to the other links of the reader.
LEMMA ReadAndSent ==
    ASSUME wire \in Wires, NEW s \in Servers, NEW t \in Servers, s # t,
           wire[t, s] # <<>>, NEW m \in Message, Sends(wire', Read(s, t), s, t, m)
    PROVE  /\ wire' \in Wires
           /\ wire'[t, s] = Tail(wire[t, s])
           /\ \A y \in Servers : y \in serv_list[s] /\ y # t =>
                wire'[s, y] = Longer(wire[s, y], m)
           /\ \A x, y \in Servers :
                ~(x = t /\ y = s) /\ ~(x = s /\ y \in serv_list[s] /\ y # t) =>
                  wire'[x, y] = wire[x, y]
<1> PICK z : z = Read(s, t)
  OBVIOUS
<1>1. OneRead(z, s, t)
  BY ReadOne
<1>2. z \in Wires
  BY <1>1 DEF OneRead
<1>3. OneSent(wire', z, s, t, m)
  BY <1>2, SendOne
<1> DEFINE to(x, y) == x = s /\ y \in serv_list[s] /\ y # t
<1>4. \A x, y \in Servers :
        /\ x = t /\ y = s => On(z, x, y) = Tail(wire[t, s])
        /\ ~(x = t /\ y = s) => On(z, x, y) = wire[x, y]
  BY <1>1 DEF OneRead
<1>5. \A x, y \in Servers :
        /\ to(x, y) => On(wire', x, y) = Longer(On(z, x, y), m)
        /\ ~to(x, y) => On(wire', x, y) = On(z, x, y)
  BY <1>3 DEF OneSent
<1>6. \A x, y \in Servers : On(wire', x, y) = wire'[x, y]
  BY DEF On
<1>7. ~to(t, s) /\ \A y \in Servers : to(s, y) => ~(s = t /\ y = s)
  OBVIOUS
<1> HIDE DEF to
<1>8. wire'[t, s] = Tail(wire[t, s])
  <2>1. On(wire', t, s) = On(z, t, s)
    BY <1>5, <1>7
  <2>2. On(z, t, s) = Tail(wire[t, s])
    BY <1>4
  <2> QED BY <2>1, <2>2 DEF On
<1>9. ASSUME NEW y \in Servers, to(s, y)
      PROVE  wire'[s, y] = Longer(wire[s, y], m)
  <2>1. On(wire', s, y) = Longer(On(z, s, y), m)
    BY <1>5, <1>9
  <2>2. On(z, s, y) = wire[s, y]
    BY <1>4, <1>7, <1>9
  <2> QED BY <2>1, <2>2 DEF On
<1>10. ASSUME NEW x \in Servers, NEW y \in Servers, ~(x = t /\ y = s), ~to(x, y)
       PROVE  wire'[x, y] = wire[x, y]
  <2>1. On(wire', x, y) = On(z, x, y)
    BY <1>5, <1>10
  <2>2. On(z, x, y) = wire[x, y]
    BY <1>4, <1>10
  <2> QED BY <2>1, <2>2 DEF On
<1>11. wire' \in Wires
  BY <1>3 DEF OneSent
<1> QED BY <1>8, <1>9, <1>10, <1>11 DEF to

\* ts_burst_channel sends SJOINs and nothing else.
LEMMA BurstIsSjoins ==
    ASSUME mem \in [Servers -> [Clients -> Lists \cup {NoList}]],
           ts \in [Servers -> Nat], NEW s \in Servers
    PROVE  /\ ts_burst_channel(s) \in Seq(Message)
           /\ \A i \in 1..Len(ts_burst_channel(s)) : ts_burst_channel(s)[i].type = "sjoin"
<1> DEFINE on(l) == {u \in Members(s) : mem[s][u] = l}
           burst(l) == IF on(l) = {} THEN <<>> ELSE <<SJOIN(ts[s], [u \in on(l) |-> l])>>
           Sjoins(q) == q \in Seq(Message) /\ \A i \in 1..Len(q) : q[i].type = "sjoin"
<1>1. ASSUME NEW l \in Lists PROVE Sjoins(burst(l))
  <2>1. on(l) \in SUBSET Clients /\ [u \in on(l) |-> l] \in [on(l) -> Lists]
    BY DEF Members, MembersIn
  <2>2. PICK m : m = SJOIN(ts[s], [u \in on(l) |-> l])
    OBVIOUS
  <2>3. m \in Message /\ m.type = "sjoin"
    BY <2>1, <2>2, MessagesMade
  <2>4. Sjoins(<<>>) /\ Sjoins(<<m>>)
    BY <2>3
  <2> QED BY <2>2, <2>4
<1>2. ASSUME NEW q, Sjoins(q), NEW r, Sjoins(r) PROVE Sjoins(q \o r)
  <2>1. q \o r \in Seq(Message) /\ Len(q \o r) = Len(q) + Len(r)
    BY <1>2
  <2>2. ASSUME NEW i \in 1..Len(q \o r) PROVE (q \o r)[i].type = "sjoin"
    <3>1. CASE i \in 1..Len(q)
      BY <1>2, <3>1
    <3>2. CASE i \notin 1..Len(q)
      <4>1. i - Len(q) \in 1..Len(r) /\ (q \o r)[i] = r[i - Len(q)]
        BY <1>2, <2>1, <3>2
      <4> QED BY <1>2, <4>1
    <3> QED BY <3>1, <3>2
  <2> QED BY <2>1, <2>2
<1>3. /\ Sjoins(burst("chanops")) /\ Sjoins(burst("chanops_voiced"))
      /\ Sjoins(burst("halfops")) /\ Sjoins(burst("voiced")) /\ Sjoins(burst("peons"))
  BY <1>1 DEF Lists
<1>4. ts_burst_channel(s) = burst("chanops") \o burst("chanops_voiced")
        \o burst("halfops") \o burst("voiced") \o burst("peons")
  BY DEF ts_burst_channel
<1> HIDE DEF burst, Sjoins
<1>5. Sjoins(ts_burst_channel(s))
  BY <1>2, <1>3, <1>4
<1> QED BY <1>5 DEF Sjoins

---------------------------------------------------------------------------
(* The invariant.                                                          *)

\* The servers that y has behind its link to x.
Away(x, y) == Behind(Servers, Edges, x, y)

\* A link is only used over its connection.
OverConnections ==
    \A x, y \in Servers : y \in serv_list[x] => {x, y} \in conn

\* What is not established carries nothing, and nobody is behind it.
NothingElse ==
    \A x, y \in Servers : y \notin serv_list[x] =>
      /\ wire[x, y] = <<>>
      /\ \A u \in Clients : x # y => from[y][u] # x

\* A server's own clients are its own, the others behind one of its links.
OwnClients ==
    \A s \in Servers, u \in Clients :
      /\ from[s][u] = s <=> Home[u] = s
      /\ from[s][u] \in serv_list[s] \cup {s, Nobody}

\* A client a server has behind a link is connected there.
RightWay ==
    \A s, t \in Servers, u \in Clients :
      s # t /\ from[s][u] = t => Home[u] \in Away(t, s)

\* News of a client travels away from him.
Outward ==
    \A x, y \in Servers, u \in Clients :
      u \in Named(wire[x, y]) => Home[u] \in Away(x, y)

\* Whether y will have u behind x once it has read what is on the wire.
Will(x, y, u) ==
    \/ Brings(wire[x, y], u)
    \/ from[y][u] = x /\ ~Removes(wire[x, y], u)

\* It will exactly when x knows u, and not from y.
WillAgree ==
    \A x, y \in Servers, u \in Clients :
      y \in serv_list[x] => (Will(x, y, u) <=> from[x][u] \notin {Nobody, y})

\* A member is a client the server knows.
MembersKnown == \A s \in Servers : Members(s) \subseteq Known(s)

Types == TypeOK /\ wire \in Wires

NetInv == OverConnections /\ NothingElse /\ OwnClients /\ RightWay /\ Outward /\ WillAgree

IInv == Types /\ NetInv /\ MembersKnown

---------------------------------------------------------------------------
(* Type correctness.                                                       *)

\* The conjuncts of TypeOK that say nothing of messages.
Shapes ==
    /\ conn \subseteq Edges
    /\ serv_list \in [Servers -> SUBSET Servers]
    /\ from \in [Servers -> [Clients -> Servers \cup {Nobody}]]
    /\ exists \in [Servers -> BOOLEAN]
    /\ mem \in [Servers -> [Clients -> Lists \cup {NoList}]]
    /\ ts \in [Servers -> Nat]
    /\ now \in 1..(MaxTime + 1) /\ splits \in 0..MaxSplits
    /\ acts \in 0..MaxActs /\ emptied \in BOOLEAN

\* The messages of TypeOK are those of well-typed wires.
LEMMA TypesAre == Types <=> Shapes /\ wire \in Wires
<1>1. ASSUME wire \in Wires
      PROVE  \A x, y \in Servers : \A i \in 1..Len(wire[x, y]) : wire[x, y][i] \in Message
  <2>1. \A x, y \in Servers : wire[x, y] \in Seq(Message)
    BY <1>1 DEF Wires
  <2>2. \A w \in Seq(Message) : \A i \in 1..Len(w) : w[i] \in Message
    OBVIOUS
  <2> QED BY <2>1, <2>2
<1> QED BY <1>1 DEF Types, TypeOK, Shapes

\* remove_user_from_channel keeps the types.
LEMMA GoneType ==
    ASSUME Shapes, NEW s, NEW cs, NEW stays \in BOOLEAN, Gone(s, cs, stays)
    PROVE  /\ mem' \in [Servers -> [Clients -> Lists \cup {NoList}]]
           /\ exists' \in [Servers -> BOOLEAN]
<1>1. mem' \in [Servers -> [Clients -> Lists \cup {NoList}]]
  BY DEF Gone, Shapes
<1>2. exists' \in [Servers -> BOOLEAN]
  <2>1. PICK b \in BOOLEAN : b <=> (exists[s] /\ (Members(s) \cap cs # {} =>
                                                  Members(s) \ cs # {} \/ stays))
    OBVIOUS
  <2>2. exists' = [exists EXCEPT ![s] = exists[s] /\ (Members(s) \cap cs # {} =>
                                                       Members(s) \ cs # {} \/ stays)]
    BY DEF Gone
  <2>3. (exists[s] /\ (Members(s) \cap cs # {} => Members(s) \ cs # {} \/ stays)) \in BOOLEAN
    OBVIOUS
  <2> QED BY <2>2, <2>3 DEF Shapes
<1> QED BY <1>1, <1>2

\* The history variable is a truth value.
LEMMA HistoryType == ASSUME History PROVE emptied' \in BOOLEAN
BY DEF History

\* Reading puts a type of message before its reader.
LEMMA ReadsWhat ==
    ASSUME Types, NothingElse, OverConnections,
           NEW s \in Servers, NEW t \in Servers, NEW type, Reads(s, t, type)
    PROVE  /\ t \in serv_list[s] /\ s \in serv_list[t] /\ {t, s} \in Edges
           /\ wire[t, s] \in Seq(Message) /\ wire[t, s] # <<>>
           /\ Head(wire[t, s]) \in Message /\ Head(wire[t, s]).type = type
           /\ s # t
<1>1. t \in serv_list[s] /\ wire[t, s] # <<>> /\ Head(wire[t, s]).type = type
  BY DEF Reads
<1>2. s \in serv_list[t]
  BY <1>1 DEF NothingElse
<1>3. {t, s} \in Edges
  BY <1>2 DEF OverConnections, Types, TypeOK
<1>4. s # t
  BY <1>3, EdgeEnds, NetAssumption
<1>5. wire[t, s] \in Seq(Message)
  BY DEF Types, Wires
<1> PICK w : w = wire[t, s]
  OBVIOUS
<1>6. Head(w) \in Message
  BY <1>1, <1>5, FirstAndRest
<1> QED BY <1>1, <1>2, <1>3, <1>4, <1>5, <1>6

\* add_user_to_channel puts a client on one of the lists.
LEMMA AsReceivedType == \A l : AsReceived(l) \in Lists
BY DEF AsReceived, FlagList, Lists

\* SjoinTS gives a timestamp.
LEMMA SjoinTSType ==
    ASSUME NEW isnew \in BOOLEAN, NEW users \in Nat, NEW nicks \in BOOLEAN,
           NEW newts \in Nat, NEW oldts \in Nat
    PROVE  SjoinTS(isnew, users, nicks, newts, oldts).ts \in Nat
BY DEF SjoinTS

\* The servers start with channels of their own.
LEMMA InitTypes == Init => Types
<1> SUFFICES ASSUME Init PROVE Shapes /\ wire \in Wires
  BY TypesAre
<1>1. wire \in Wires
  BY DEF Init, Wires
<1>2. mem \in [Servers -> [Clients -> Lists \cup {NoList}]]
  BY NetAssumption DEF Init
<1>3. ts \in [Servers -> Nat]
  <2>1. PICK m \in [Clients -> StartLists \cup {NoList}], t \in [Servers -> {1, 2}] :
          ts = [s \in Servers |-> IF MembersIn(mem[s]) = {} THEN 1 ELSE t[s]]
    BY DEF Init
  <2>2. \A s \in Servers : t[s] \in Nat
    OBVIOUS
  <2> QED BY <2>1, <2>2
<1>4. from \in [Servers -> [Clients -> Servers \cup {Nobody}]]
  BY DEF Init
<1>5. exists \in [Servers -> BOOLEAN]
  BY DEF Init
<1>6. /\ conn \subseteq Edges
      /\ serv_list \in [Servers -> SUBSET Servers]
      /\ emptied \in BOOLEAN
  BY DEF Init
<1>7. /\ now \in 1..(MaxTime + 1) /\ splits \in 0..MaxSplits
      /\ acts \in 0..MaxActs
  <2>1. now = 2 /\ splits = 0 /\ acts = 0
    BY DEF Init
  <2>2. MaxTime \in Nat \ {0} /\ MaxActs \in Nat /\ MaxSplits \in Nat
    BY NetAssumption
  <2> QED BY <2>1, <2>2
<1> QED BY <1>1, <1>2, <1>3, <1>4, <1>5, <1>6, <1>7 DEF Shapes

---------------------------------------------------------------------------
(* Steps that say nothing of who is on the network.                        *)

\* The wires v say the same of everybody as the wires w.
KeepsSaying(v, w) ==
    /\ v \in Wires
    /\ \A x, y \in Servers :
         /\ SaysSame(On(v, x, y), On(w, x, y))
         /\ y \notin serv_list[x] => On(v, x, y) = On(w, x, y)

\* What a step must leave alone to keep what the servers know of each other.
Unsaid ==
    /\ conn \subseteq conn' /\ UNCHANGED <<serv_list, from>>
    /\ KeepsSaying(wire', wire)

\* The same messages say the same.
LEMMA SameSays == \A w : SaysSame(w, w)
BY DEF SaysSame

\* The message names nobody.
Neutral(m) == m.type \notin {"nick", "quit"}

\* A message that names nobody, at the end of a stream or taken off its front.
LEMMA NeutralMessage ==
    ASSUME NEW m \in Message, Neutral(m)
    PROVE  /\ \A w \in Seq(Message) : SaysSame(Longer(w, m), w)
           /\ \A w \in Seq(Message) : w # <<>> /\ Head(w) = m => SaysSame(Tail(w), w)
<1>1. \A u : ~Says(m, "nick", u) /\ ~Says(m, "quit", u)
  BY DEF Says, Neutral
<1>2. ASSUME NEW w \in Seq(Message) PROVE SaysSame(Longer(w, m), w)
  BY <1>1, OneMore DEF SaysSame
<1>3. ASSUME NEW w \in Seq(Message), w # <<>>, Head(w) = m PROVE SaysSame(Tail(w), w)
  BY <1>1, <1>3, OneLess DEF SaysSame
<1> QED BY <1>2, <1>3

\* A step that says nothing keeps what the servers know of each other.
LEMMA UnsaidKeeps == ASSUME NetInv, Unsaid PROVE NetInv'
<1>0. \A x, y \in Servers :
        /\ SaysSame(wire'[x, y], wire[x, y])
        /\ y \notin serv_list[x] => wire'[x, y] = wire[x, y]
  BY DEF Unsaid, KeepsSaying, On
<1>1. OverConnections'
  BY DEF NetInv, Unsaid, OverConnections
<1>2. NothingElse'
  <2>1. SUFFICES ASSUME NEW x \in Servers, NEW y \in Servers, y \notin serv_list[x]
                 PROVE  /\ wire'[x, y] = <<>>
                        /\ \A u \in Clients : x # y => from[y][u] # x
    BY DEF NothingElse, Unsaid
  <2>2. wire[x, y] = <<>> /\ \A u \in Clients : x # y => from[y][u] # x
    BY <2>1 DEF NetInv, NothingElse
  <2>3. wire'[x, y] = wire[x, y]
    BY <1>0, <2>1
  <2> QED BY <2>2, <2>3
<1>3. OwnClients'
  BY DEF NetInv, Unsaid, OwnClients
<1>4. RightWay'
  BY DEF NetInv, Unsaid, RightWay, Away
<1>5. Outward'
  BY <1>0 DEF NetInv, Outward, Away, SaysSame
<1>6. WillAgree'
  <2>1. SUFFICES ASSUME NEW x \in Servers, NEW y \in Servers, NEW u \in Clients,
                        y \in serv_list[x]
                 PROVE  Will(x, y, u)' <=> from[x][u] \notin {Nobody, y}
    BY DEF WillAgree, Unsaid
  <2>2. Will(x, y, u)' <=> Will(x, y, u)
    BY <1>0 DEF Unsaid, Will, SaysSame
  <2> QED BY <2>1, <2>2 DEF NetInv, WillAgree
<1> QED BY <1>1, <1>2, <1>3, <1>4, <1>5, <1>6 DEF NetInv

\* Sending a message that names nobody, on wires that say what they said.
LEMMA SendNeutral ==
    ASSUME NEW w \in Wires, NEW s \in Servers, NEW one,
           NEW m \in Message, NEW v,
           Neutral(m), Sends(v, w, s, one, m)
    PROVE  KeepsSaying(v, w)
<1>1. /\ v \in Wires
      /\ \A x, y \in Servers : On(v, x, y) = IF x = s /\ y \in serv_list[s] /\ y # one
                                           THEN Longer(On(w, x, y), m) ELSE On(w, x, y)
  BY SendOne DEF OneSent
<1>2. \A x, y \in Servers : On(w, x, y) \in Seq(Message)
  BY DEF Wires, On
<1>3. ASSUME NEW x \in Servers, NEW y \in Servers
      PROVE  /\ SaysSame(On(v, x, y), On(w, x, y))
             /\ y \notin serv_list[x] => On(v, x, y) = On(w, x, y)
  BY <1>1, <1>2, NeutralMessage, SameSays
<1> QED BY <1>1, <1>3 DEF KeepsSaying

\* Reading a message that names nobody.
LEMMA ReadNeutral ==
    ASSUME Types, NetInv, NEW s \in Servers, NEW t \in Servers,
           NEW type \in {"part", "sjoin"}, Reads(s, t, type)
    PROVE  KeepsSaying(Read(s, t), wire)
<1>1. /\ s \in serv_list[t]
      /\ wire[t, s] \in Seq(Message) /\ wire[t, s] # <<>>
      /\ Head(wire[t, s]) \in Message /\ Head(wire[t, s]).type = type
  BY ReadsWhat DEF NetInv
<1>2. /\ Read(s, t) \in Wires
      /\ \A x, y \in Servers :
           On(Read(s, t), x, y) = IF x = t /\ y = s THEN Tail(wire[t, s]) ELSE wire[x, y]
  BY <1>1, ReadOne DEF Types, OneRead
<1>3. PICK w, m : w = wire[t, s] /\ m = Head(w)
  OBVIOUS
<1>4. SaysSame(Tail(w), w)
  <2>1. w \in Seq(Message) /\ w # <<>> /\ m \in Message /\ Neutral(m) /\ Head(w) = m
    BY <1>1, <1>3 DEF Neutral
  <2> QED BY <2>1, NeutralMessage
<1> QED BY <1>1, <1>2, <1>3, <1>4, SameSays DEF KeepsSaying, On

\* Saying the same is transitive.
LEMMA KeepsSayingOver ==
    ASSUME NEW a, NEW b, NEW c, KeepsSaying(a, b), KeepsSaying(b, c)
    PROVE  KeepsSaying(a, c)
BY DEF KeepsSaying, SaysSame

\* Connecting, the clock and cleanup_channels.
LEMMA QuietStep ==
    ASSUME IInv, (\E e \in Edges : Connect(e)) \/ Tick \/ (\E s \in Servers : Cleanup(s))
    PROVE  IInv'
<1>1. Shapes /\ wire \in Wires /\ NetInv /\ MembersKnown
  BY TypesAre DEF IInv
<1>2. UNCHANGED <<wire, mem, from, serv_list>> /\ conn \subseteq conn'
  BY DEF Connect, Tick, Cleanup, chanvars
<1>3. Shapes'
  <2>1. ASSUME NEW e \in Edges, Connect(e) PROVE Shapes'
    BY <1>1, <2>1 DEF Shapes, Connect, chanvars
  <2>2. CASE Tick
    BY <1>1, <2>2, NetAssumption DEF Shapes, Tick, chanvars
  <2>3. ASSUME NEW s \in Servers, Cleanup(s) PROVE Shapes'
    BY <1>1, <2>3 DEF Shapes, Cleanup
  <2> QED BY <2>1, <2>2, <2>3
<1>4. Types'
  <2>1. (Shapes /\ wire \in Wires)' => Types'
    BY TypesAre, PTL
  <2> QED BY <1>1, <1>2, <1>3, <2>1 DEF Wires
<1>5. Unsaid
  BY <1>1, <1>2, SameSays DEF Unsaid, KeepsSaying
<1>6. MembersKnown'
  BY <1>1, <1>2 DEF MembersKnown, Members, MembersIn, Known
<1> QED BY <1>1, <1>4, <1>5, <1>6, UnsaidKeeps DEF IInv

\* m_join, and the SJOIN it sends.
LEMMA JoinStep == ASSUME IInv, NEW u \in Clients, Join(u) PROVE IInv'
<1>1. Shapes /\ wire \in Wires /\ NetInv /\ MembersKnown
  BY TypesAre DEF IInv
<1> DEFINE s == Home[u]
<1>2. PICK founder \in BOOLEAN : founder <=> Members(s) = {}
  OBVIOUS
<1>3. PICK l \in Lists : l = IF founder THEN "chanops" ELSE "peons"
  BY DEF Lists
<1>4. PICK newts : newts = IF founder THEN now ELSE ts[s]
  OBVIOUS
<1>5. s \in Servers
  BY NetAssumption
<1>6. /\ mem' = [mem EXCEPT ![s][u] = l]
      /\ exists' = [exists EXCEPT ![s] = TRUE]
      /\ ts' = [ts EXCEPT ![s] = newts]
      /\ wire' = sendto_server(wire, s, s, <<SJOIN(newts, [c \in {u} |-> l])>>)
      /\ acts < MaxActs /\ acts' = acts + 1 /\ History
      /\ UNCHANGED <<conn, serv_list, from, now, splits>>
  BY <1>2, <1>3, <1>4 DEF Join, Acts
<1> HIDE DEF s
<1>7. newts \in Nat
  BY <1>1, <1>4, <1>5, NetAssumption DEF Shapes
<1>8. PICK m : m = SJOIN(newts, [c \in {u} |-> l])
  OBVIOUS
<1>9. m \in Message /\ Neutral(m)
  <2>1. [c \in {u} |-> l] \in [{u} -> Lists] /\ {u} \in SUBSET Clients
    OBVIOUS
  <2> QED BY <1>7, <1>8, <2>1, MessagesMade DEF Neutral
<1>10. Unsaid
  <2>1. Sends(wire', wire, s, s, m)
    BY <1>6, <1>8 DEF Sends
  <2> QED BY <1>1, <1>5, <1>6, <1>9, <2>1, SendNeutral DEF Unsaid
<1>11. Shapes'
  <2>1. acts' \in 0..MaxActs
    BY <1>1, <1>6, NetAssumption DEF Shapes
  <2>2. emptied' \in BOOLEAN
    BY <1>6, HistoryType
  <2>3. /\ mem' \in [Servers -> [Clients -> Lists \cup {NoList}]]
        /\ exists' \in [Servers -> BOOLEAN]
        /\ ts' \in [Servers -> Nat]
    BY <1>1, <1>5, <1>6, <1>7 DEF Shapes
  <2> QED BY <1>1, <1>6, <2>1, <2>2, <2>3 DEF Shapes
<1>12. Types'
  <2>1. (Shapes /\ wire \in Wires)' => Types'
    BY TypesAre, PTL
  <2> QED BY <1>10, <1>11, <2>1 DEF Wires, Unsaid, KeepsSaying
<1>13. MembersKnown'
  <2>1. SUFFICES ASSUME NEW r \in Servers, NEW v \in Clients, mem'[r][v] # NoList
                 PROVE  from'[r][v] # Nobody
    BY DEF MembersKnown, Members, MembersIn, Known
  <2>2. CASE r = s /\ v = u
    BY <1>1, <1>5, <1>6, <2>2, NetAssumption DEF NetInv, OwnClients, s
  <2>3. CASE ~(r = s /\ v = u)
    <3>1. mem'[r][v] = mem[r][v]
      BY <1>1, <1>5, <1>6, <2>3 DEF Shapes
    <3> QED BY <1>1, <1>6, <2>1, <3>1 DEF MembersKnown, Members, MembersIn, Known
  <2> QED BY <2>2, <2>3
<1> QED BY <1>1, <1>10, <1>12, <1>13, UnsaidKeeps DEF IInv

\* Whoever leaves a channel was known before, and is as well known afterwards.
LEMMA GoneKnown ==
    ASSUME Shapes, MembersKnown, NEW s \in Servers, NEW cs, NEW stays,
           Gone(s, cs, stays),
           \A r \in Servers, v \in Clients :
             from'[r][v] = Nobody => from[r][v] = Nobody \/ (r = s /\ v \in cs)
    PROVE  MembersKnown'
<1>1. SUFFICES ASSUME NEW r \in Servers, NEW v \in Clients, mem'[r][v] # NoList
               PROVE  from'[r][v] # Nobody
  BY DEF MembersKnown, Members, MembersIn, Known
<1>2. mem'[r][v] = IF r = s /\ v \in cs THEN NoList ELSE mem[r][v]
  BY DEF Gone, Shapes
<1> QED BY <1>1, <1>2 DEF MembersKnown, Members, MembersIn, Known

\* m_part, and the PART it sends.
LEMMA PartStep == ASSUME IInv, NEW u \in Clients, Part(u) PROVE IInv'
<1>1. Shapes /\ wire \in Wires /\ NetInv /\ MembersKnown
  BY TypesAre DEF IInv
<1> DEFINE s == Home[u]
<1>2. s \in Servers
  BY NetAssumption
<1>3. /\ Gone(s, {u}, FALSE) /\ History
      /\ wire' = sendto_server(wire, s, s, <<Parts(u)>>)
      /\ acts < MaxActs /\ acts' = acts + 1
      /\ UNCHANGED <<conn, serv_list, from, ts, now, splits>>
  BY DEF Part, Acts
<1> HIDE DEF s
<1>4. Unsaid
  <2>1. PICK m : m = Parts(u)
    OBVIOUS
  <2>2. m \in Message /\ Neutral(m)
    BY <2>1, MessagesMade DEF Neutral
  <2>3. Sends(wire', wire, s, s, m)
    BY <1>3, <2>1 DEF Sends
  <2> QED BY <1>1, <1>2, <1>3, <2>2, <2>3, SendNeutral DEF Unsaid
<1>5. Shapes'
  <2>1. acts' \in 0..MaxActs
    BY <1>1, <1>3, NetAssumption DEF Shapes
  <2>2. emptied' \in BOOLEAN
    BY <1>3, HistoryType
  <2>3. /\ mem' \in [Servers -> [Clients -> Lists \cup {NoList}]]
        /\ exists' \in [Servers -> BOOLEAN]
    BY <1>1, <1>3, GoneType
  <2> QED BY <1>1, <1>3, <2>1, <2>2, <2>3 DEF Shapes
<1>6. Types'
  <2>1. (Shapes /\ wire \in Wires)' => Types'
    BY TypesAre, PTL
  <2> QED BY <1>4, <1>5, <2>1 DEF Wires, Unsaid, KeepsSaying
<1>7. MembersKnown'
  BY <1>1, <1>2, <1>3, GoneKnown
<1> QED BY <1>1, <1>4, <1>6, <1>7, UnsaidKeeps DEF IInv

\* part_one_client on a PART from a link.
LEMMA ReadPartStep ==
    ASSUME IInv, NEW s \in Servers, NEW t \in Servers, ReadPart(s, t)
    PROVE  IInv'
<1>1. Types /\ Shapes /\ wire \in Wires /\ NetInv /\ MembersKnown
  BY TypesAre DEF IInv
<1>2. PICK m : m = Head(wire[t, s])
  OBVIOUS
<1>3. PICK gone : gone = m.clients \cap Members(s)
  OBVIOUS
<1>4. /\ Reads(s, t, "part")
      /\ Gone(s, gone, FALSE) /\ History
      /\ wire' = IF gone = {} THEN Read(s, t) ELSE sendto_server(Read(s, t), s, t, <<m>>)
      /\ UNCHANGED <<conn, serv_list, from, ts, now, splits, acts>>
  BY <1>2, <1>3 DEF ReadPart
<1>5. m \in Message /\ Neutral(m)
  <2>1. m \in Message /\ m.type = "part"
    BY <1>1, <1>2, <1>4, ReadsWhat DEF NetInv
  <2> QED BY <2>1 DEF Neutral
<1>6. KeepsSaying(Read(s, t), wire)
  BY <1>1, <1>4, ReadNeutral
<1> PICK w : w = Read(s, t)
  OBVIOUS
<1> PICK v : v = sendto_server(w, s, t, <<m>>)
  OBVIOUS
<1>7. Sends(v, w, s, t, m) /\ w \in Wires
  BY <1>6 DEF Sends, KeepsSaying
<1>8. KeepsSaying(v, w)
  BY <1>5, <1>7, SendNeutral
<1>9. Unsaid
  <2>1. wire' = w \/ wire' = v
    BY <1>4
  <2> QED BY <1>4, <1>6, <1>8, <2>1, KeepsSayingOver DEF Unsaid
<1>10. Shapes'
  <2>1. emptied' \in BOOLEAN
    BY <1>4, HistoryType
  <2>2. /\ mem' \in [Servers -> [Clients -> Lists \cup {NoList}]]
        /\ exists' \in [Servers -> BOOLEAN]
    BY <1>1, <1>4, GoneType
  <2> QED BY <1>1, <1>4, <2>1, <2>2 DEF Shapes
<1>11. Types'
  <2>1. (Shapes /\ wire \in Wires)' => Types'
    BY TypesAre, PTL
  <2> QED BY <1>9, <1>10, <2>1 DEF Wires, Unsaid, KeepsSaying
<1>12. MembersKnown'
  BY <1>1, <1>4, GoneKnown
<1> QED BY <1>1, <1>9, <1>11, <1>12, UnsaidKeeps DEF IInv

\* ms_sjoin.
LEMMA ReadSjoinStep ==
    ASSUME IInv, NEW s \in Servers, NEW t \in Servers, ReadSjoin(s, t)
    PROVE  IInv'
<1>1. Types /\ Shapes /\ wire \in Wires /\ NetInv /\ MembersKnown
  BY TypesAre DEF IInv
<1>2. PICK m : m = Head(wire[t, s])
  OBVIOUS
<1>3. Reads(s, t, "sjoin")
  BY DEF ReadSjoin
<1>4. m \in Message /\ m.type = "sjoin" /\ t \in Servers
  BY <1>1, <1>2, <1>3, ReadsWhat DEF NetInv
<1>5. /\ m.ts \in Nat /\ DOMAIN m.nicks \subseteq Clients
      /\ m.nicks \in [DOMAIN m.nicks -> Lists]
  BY <1>4, MessageFields
<1> DEFINE r == SjoinTS(~exists[s], Cardinality(Members(s)), DOMAIN m.nicks # {},
                        m.ts, ts[s])
           people == {u \in DOMAIN m.nicks : from[s][u] = t}
           given(u) == IF r.new THEN AsReceived(m.nicks[u]) ELSE "peons"
           kept(u) == IF r.our \/ mem[s][u] = NoList THEN mem[s][u] ELSE "peons"
           named == [u \in DOMAIN m.nicks \cap Known(s) |->
                       IF r.new THEN m.nicks[u] ELSE "peons"]
<1>6. /\ exists' = [exists EXCEPT ![s] = TRUE]
      /\ ts' = [ts EXCEPT ![s] = r.ts]
      /\ mem' = [mem EXCEPT ![s] = [u \in Clients |->
                   IF u \in people /\ @[u] = NoList THEN given(u) ELSE kept(u)]]
      /\ wire' = IF people = {} THEN Read(s, t)
                 ELSE sendto_server(Read(s, t), s, t, <<SJOIN(r.ts, named)>>)
      /\ History
      /\ UNCHANGED <<conn, serv_list, from, now, splits, acts>>
  BY <1>2 DEF ReadSjoin
<1>7. r.ts \in Nat
  <2>1. IsFiniteSet(Members(s))
    <3>1. Members(s) \subseteq Clients
      BY DEF Members, MembersIn
    <3> QED BY <3>1, FS_Subset, NetAssumption
  <2>2. Cardinality(Members(s)) \in Nat
    BY <2>1, FS_CardinalityType
  <2>3. ts[s] \in Nat /\ (~exists[s]) \in BOOLEAN /\ (DOMAIN m.nicks # {}) \in BOOLEAN
    BY <1>1 DEF Shapes
  <2> QED BY <1>5, <2>2, <2>3, SjoinTSType
<1>8. \A u \in DOMAIN m.nicks : m.nicks[u] \in Lists
  BY <1>5
<1>9. "peons" \in Lists
  BY DEF Lists
<1>10. named \in [DOMAIN m.nicks \cap Known(s) -> Lists]
  <2> HIDE DEF r
  <2> QED BY <1>8, <1>9
<1>11. \A u \in Clients : /\ u \in people => given(u) \in Lists
                          /\ kept(u) = mem[s][u] \/ (mem[s][u] # NoList /\ kept(u) = "peons")
  BY <1>9, AsReceivedType
<1> HIDE DEF r, given, kept, named
<1> PICK j : j = SJOIN(r.ts, named)
  OBVIOUS
<1>12. j \in Message /\ Neutral(j)
  <2>1. DOMAIN m.nicks \cap Known(s) \in SUBSET Clients
    BY <1>5
  <2> QED BY <1>7, <1>10, <2>1, MessagesMade DEF Neutral
<1>13. KeepsSaying(Read(s, t), wire)
  BY <1>1, <1>3, ReadNeutral
<1> PICK w : w = Read(s, t)
  OBVIOUS
<1> PICK v : v = sendto_server(w, s, t, <<j>>)
  OBVIOUS
<1>14. Sends(v, w, s, t, j) /\ w \in Wires
  BY <1>13 DEF Sends, KeepsSaying
<1>15. KeepsSaying(v, w)
  BY <1>12, <1>14, SendNeutral
<1>16. Unsaid
  <2>1. wire' = w \/ wire' = v
    BY <1>6
  <2> QED BY <1>6, <1>13, <1>15, <2>1, KeepsSayingOver DEF Unsaid
<1>17. /\ mem' \in [Servers -> [Clients -> Lists \cup {NoList}]]
       /\ \A x \in Servers, u \in Clients :
            mem'[x][u] # NoList => mem[x][u] # NoList \/ (x = s /\ u \in people)
  <2> HIDE DEF people
  <2>1. PICK row : row = [u \in Clients |-> IF u \in people /\ mem[s][u] = NoList
                                              THEN given(u) ELSE kept(u)]
    OBVIOUS
  <2>2. mem' = [mem EXCEPT ![s] = row]
    BY <1>6, <2>1
  <2>3. /\ row \in [Clients -> Lists \cup {NoList}]
        /\ \A u \in Clients : row[u] # NoList => mem[s][u] # NoList \/ u \in people
    BY <1>1, <1>9, <1>11, <2>1 DEF Shapes
  <2> QED BY <1>1, <2>2, <2>3 DEF Shapes
<1>18. Shapes'
  <2>1. emptied' \in BOOLEAN
    BY <1>6, HistoryType
  <2>2. exists' \in [Servers -> BOOLEAN] /\ ts' \in [Servers -> Nat]
    BY <1>1, <1>6, <1>7 DEF Shapes
  <2> QED BY <1>1, <1>6, <1>17, <2>1, <2>2 DEF Shapes
<1>19. Types'
  <2>1. (Shapes /\ wire \in Wires)' => Types'
    BY TypesAre, PTL
  <2> QED BY <1>16, <1>18, <2>1 DEF Wires, Unsaid, KeepsSaying
<1>20. MembersKnown'
  <2>1. SUFFICES ASSUME NEW x \in Servers, NEW u \in Clients, mem'[x][u] # NoList
                 PROVE  from'[x][u] # Nobody
    BY DEF MembersKnown, Members, MembersIn, Known
  <2>2. CASE mem[x][u] # NoList
    BY <1>1, <1>6, <2>2 DEF MembersKnown, Members, MembersIn, Known
  <2>3. CASE x = s /\ u \in people
    BY <1>4, <1>6, <2>3, NetAssumption
  <2> QED BY <1>17, <2>1, <2>2, <2>3
<1> QED BY <1>1, <1>16, <1>19, <1>20, UnsaidKeeps DEF IInv

---------------------------------------------------------------------------
(* Steps that change who is on the network.                                *)

\* What a server has behind one link goes to its other links.
LEMMA PassedOn ==
    ASSUME OverConnections, OwnClients, Shapes, NEW s \in Servers, NEW p \in Servers,
           {s, p} \in Edges, NEW t \in Servers, t \in serv_list[s], t # p
    PROVE  Away(t, s) \subseteq Away(s, p)
<1>1. {s, t} \in Edges
  BY DEF OverConnections, Shapes
<1>2. {t, s} = {s, t}
  OBVIOUS
<1>3. {t, s} \in Edges
  BY <1>1, <1>2
<1> QED BY <1>3, BehindGrows, NetAssumption DEF Away

\* A client a server knows, and not over the link to p, is away from p.
LEMMA KnownAway ==
    ASSUME Shapes, OverConnections, OwnClients, RightWay,
           NEW s \in Servers, NEW p \in Servers, {s, p} \in Edges,
           NEW u \in Clients, from[s][u] \notin {Nobody, p}
    PROVE  Home[u] \in Away(s, p)
<1>1. CASE from[s][u] = s
  <2>1. Home[u] = s
    BY <1>1 DEF OwnClients
  <2> QED BY <2>1, BehindBasics, NetAssumption DEF Away
<1>2. CASE from[s][u] # s
  <2>1. PICK t \in Servers : t = from[s][u] /\ t \in serv_list[s] /\ t # p /\ t # s
    BY <1>2 DEF OwnClients, Shapes
  <2>2. Home[u] \in Away(t, s)
    BY <2>1 DEF RightWay
  <2> QED BY <2>1, <2>2, PassedOn
<1> QED BY <1>1, <1>2

\* Who is away behind one link is not behind another, and not here.
LEMMA OneWay ==
    ASSUME Shapes, OverConnections, OwnClients, RightWay,
           NEW s \in Servers, NEW t \in Servers, {t, s} \in Edges,
           NEW u \in Clients, Home[u] \in Away(t, s)
    PROVE  from[s][u] \in {Nobody, t}
<1>1. from[s][u] # s
  <2>1. s \notin Away(t, s)
    BY BehindBasics, NetAssumption DEF Away
  <2> QED BY <2>1 DEF OwnClients
<1>2. ASSUME from[s][u] # Nobody PROVE from[s][u] = t
  <2>1. PICK z \in Servers : z = from[s][u] /\ z \in serv_list[s] /\ z # s
    BY <1>1, <1>2 DEF OwnClients, Shapes
  <2>2. Home[u] \in Away(z, s)
    BY <2>1 DEF RightWay
  <2>3. {s, z} \in Edges /\ {z, s} = {s, z}
    BY <2>1 DEF OverConnections, Shapes
  <2>4. {z, s} \in Edges
    BY <2>3
  <2>5. z # t => Away(z, s) \cap Away(t, s) = {}
    BY <2>4, BehindApart, NetAssumption DEF Away
  <2> QED BY <2>1, <2>2, <2>5
<1> QED BY <1>2

\* server_burst.
LEMMA BurstStep ==
    ASSUME IInv, NEW x \in Servers, NEW y \in Servers, Burst(x, y)
    PROVE  IInv'
<1>1. Types /\ Shapes /\ wire \in Wires /\ NetInv /\ MembersKnown
  BY TypesAre DEF IInv
<1>2. OverConnections /\ NothingElse /\ OwnClients /\ RightWay /\ Outward /\ WillAgree
  BY <1>1 DEF NetInv
<1>3. {x, y} \in conn /\ {x, y} \in Edges /\ y \notin serv_list[x]
  BY <1>1 DEF Burst, Shapes
<1>4. x # y
  BY <1>3, EdgeEnds, NetAssumption
<1> DEFINE first == IF Known(x) = {} THEN <<>> ELSE <<Nick(Known(x))>>
           all == first \o ts_burst_channel(x)
<1>5. /\ serv_list' = [serv_list EXCEPT ![x] = @ \cup {y}]
      /\ wire' = [wire EXCEPT ![<<x, y>>] = (@ \o first) \o ts_burst_channel(x)]
      /\ UNCHANGED <<conn, from, exists, mem, ts, now, splits, acts, emptied>>
  BY DEF Burst, chanvars
<1>6. wire[x, y] = <<>>
  BY <1>2, <1>3 DEF NothingElse
<1>7. first \in Seq(Message)
  <2>1. PICK m : m = Nick(Known(x))
    OBVIOUS
  <2>2. Known(x) \in SUBSET Clients
    BY DEF Known
  <2>3. m \in Message
    BY <2>1, <2>2, MessagesMade
  <2>4. <<m>> \in Seq(Message)
    BY <2>3
  <2> QED BY <2>1, <2>4
<1>8. /\ ts_burst_channel(x) \in Seq(Message)
      /\ \A i \in 1..Len(ts_burst_channel(x)) : ts_burst_channel(x)[i].type = "sjoin"
  BY <1>1, BurstIsSjoins DEF Shapes
<1>9. all \in Seq(Message) /\ SaysSame(all, first)
  <2> HIDE DEF first
  <2>1. PICK b : b = ts_burst_channel(x)
    OBVIOUS
  <2>2. b \in Seq(Message) /\ \A i \in 1..Len(b) : b[i].type \notin {"nick", "quit"}
    BY <1>8, <2>1
  <2>3. first \o b \in Seq(Message) /\ SaysSame(first \o b, first)
    BY <1>7, <2>2, SjoinsSayNothing
  <2> QED BY <2>1, <2>3
<1>10. \A u \in Clients : /\ Brings(first, u) <=> u \in Known(x)
                          /\ u \in Named(first) <=> u \in Known(x)
                          /\ ~Removes(first, u)
  <2>1. CASE Known(x) = {}
    BY <2>1, EmptySays
  <2>2. CASE Known(x) # {}
    <3>1. PICK m : m = Nick(Known(x))
      OBVIOUS
    <3>2. Known(x) \in SUBSET Clients
      BY DEF Known
    <3>3. m.type = "nick" /\ m.clients = Known(x)
      BY <3>1, <3>2, MessagesMade
    <3>4. first = <<m>> /\ Len(<<m>>) = 1 /\ <<m>>[1] = m
      BY <2>2, <3>1
    <3>5. \A u \in Clients : Says(m, "nick", u) <=> u \in Known(x)
      BY <3>3 DEF Says
    <3>6. \A u \in Clients : ~Says(m, "quit", u)
      BY <3>3 DEF Says
    <3> HIDE DEF first
    <3> QED BY <3>4, <3>5, <3>6 DEF Brings, Named, Removes
  <2> QED BY <2>1, <2>2
<1> HIDE DEF all, first
<1>11. /\ wire' \in Wires
       /\ \A p, q \in Servers : wire'[p, q] = IF p = x /\ q = y THEN all ELSE wire[p, q]
  <2>1. (<<>> \o first) \o ts_burst_channel(x) = all
    <3>1. <<>> \o first = first
      BY <1>7
    <3> QED BY <3>1 DEF all
  <2>2. wire' = [wire EXCEPT ![<<x, y>>] = all]
    BY <1>5, <1>6, <2>1
  <2> QED BY <1>1, <1>9, <2>2 DEF Wires
<1>12. Shapes'
  BY <1>1, <1>5 DEF Shapes
<1>13. Types'
  <2>1. (Shapes /\ wire \in Wires)' => Types'
    BY TypesAre, PTL
  <2> QED BY <1>11, <1>12, <2>1 DEF Wires
<1>14. \A p, q \in Servers : q \in serv_list'[p] <=> q \in serv_list[p] \/ (p = x /\ q = y)
  BY <1>1, <1>5 DEF Shapes
<1>15. OverConnections'
  BY <1>2, <1>3, <1>5, <1>14 DEF OverConnections
<1>16. NothingElse'
  <2>1. SUFFICES ASSUME NEW p \in Servers, NEW q \in Servers, q \notin serv_list'[p]
                 PROVE  wire'[p, q] = <<>> /\ \A u \in Clients : p # q => from'[q][u] # p
    BY DEF NothingElse
  <2>2. q \notin serv_list[p] /\ ~(p = x /\ q = y)
    BY <1>14, <2>1
  <2>3. wire'[p, q] = wire[p, q] /\ from' = from
    BY <1>5, <1>11, <2>2
  <2> QED BY <1>2, <2>2, <2>3 DEF NothingElse
<1>17. OwnClients'
  BY <1>1, <1>2, <1>5, <1>14 DEF OwnClients, Shapes
<1>18. RightWay'
  BY <1>2, <1>5 DEF RightWay, Away
<1>19. \A u \in Clients : u \in Known(x) => from[x][u] \notin {Nobody, y}
  BY <1>2, <1>3, <1>4 DEF Known, OwnClients
<1>20. Outward'
  <2>1. SUFFICES ASSUME NEW p \in Servers, NEW q \in Servers, NEW u \in Clients,
                        u \in Named(wire'[p, q])
                 PROVE  Home[u] \in Away(p, q)
    BY DEF Outward, Away
  <2>2. CASE p = x /\ q = y
    <3>1. u \in Known(x)
      BY <1>9, <1>10, <1>11, <2>1, <2>2 DEF SaysSame
    <3> QED BY <1>1, <1>2, <1>3, <1>19, <2>2, <3>1, KnownAway
  <2>3. CASE ~(p = x /\ q = y)
    BY <1>2, <1>11, <2>1, <2>3 DEF Outward
  <2> QED BY <2>2, <2>3
<1>21. WillAgree'
  <2>1. SUFFICES ASSUME NEW p \in Servers, NEW q \in Servers, NEW u \in Clients,
                        q \in serv_list'[p]
                 PROVE  Will(p, q, u)' <=> from[p][u] \notin {Nobody, q}
    BY <1>5 DEF WillAgree
  <2>2. CASE p = x /\ q = y
    <3>1. Will(x, y, u)' <=> Brings(all, u) \/ (from[y][u] = x /\ ~Removes(all, u))
      BY <1>5, <1>11 DEF Will
    <3>2. Brings(all, u) <=> u \in Known(x)
      BY <1>9, <1>10 DEF SaysSame
    <3>3. from[y][u] # x
      BY <1>2, <1>3, <1>4 DEF NothingElse
    <3> QED BY <1>19, <2>2, <3>1, <3>2, <3>3 DEF Known
  <2>3. CASE ~(p = x /\ q = y)
    <3>1. Will(p, q, u)' <=> Will(p, q, u)
      BY <1>5, <1>11, <2>3 DEF Will
    <3> QED BY <1>2, <1>14, <2>1, <2>3, <3>1 DEF WillAgree
  <2> QED BY <2>2, <2>3
<1>22. MembersKnown'
  BY <1>1, <1>5 DEF MembersKnown, Members, MembersIn, Known
<1> QED BY <1>13, <1>15, <1>16, <1>17, <1>18, <1>20, <1>21, <1>22 DEF IInv, NetInv

\* A NICK from a link: its clients are behind that link, or are now.
LEMMA ReadNickStep ==
    ASSUME IInv, NEW s \in Servers, NEW t \in Servers, ReadNick(s, t)
    PROVE  IInv'
<1>1. Types /\ Shapes /\ wire \in Wires /\ NetInv /\ MembersKnown
  BY TypesAre DEF IInv
<1>2. OverConnections /\ NothingElse /\ OwnClients /\ RightWay /\ Outward /\ WillAgree
  BY <1>1 DEF NetInv
<1>3. Reads(s, t, "nick")
  BY DEF ReadNick
<1> DEFINE w == wire[t, s]
           m == Head(w)
<1>4. /\ t \in serv_list[s] /\ s \in serv_list[t] /\ {t, s} \in Edges
      /\ w \in Seq(Message) /\ w # <<>>
      /\ m \in Message /\ m.type = "nick"
      /\ s # t
  BY <1>1, <1>2, <1>3, ReadsWhat
<1>5. /\ from' = [from EXCEPT ![s] = [u \in Clients |->
                    IF u \in m.clients /\ @[u] = Nobody THEN t ELSE @[u]]]
      /\ wire' = sendto_server(Read(s, t), s, t, <<m>>)
      /\ UNCHANGED <<conn, serv_list, exists, mem, ts, now, splits, acts, emptied>>
  BY DEF ReadNick, chanvars
<1> HIDE DEF m, w
<1>6. m.clients \subseteq Clients
  BY <1>4, MessageFields
<1>7. \A u \in Clients : /\ Says(m, "nick", u) <=> u \in m.clients
                         /\ ~Says(m, "quit", u)
  BY <1>4 DEF Says
<1>8. \A u \in Clients :
        /\ u \in m.clients =>
             /\ Brings(w, u) <=> Brings(Tail(w), u) \/ ~Removes(Tail(w), u)
             /\ Removes(w, u) <=> Removes(Tail(w), u)
        /\ u \notin m.clients =>
             /\ Brings(w, u) <=> Brings(Tail(w), u)
             /\ Removes(w, u) <=> Removes(Tail(w), u)
        /\ u \in Named(w) <=> u \in Named(Tail(w)) \/ u \in m.clients
  BY <1>4, <1>7, OneLess DEF m
<1>9. \A u \in m.clients : /\ Home[u] \in Away(t, s)
                           /\ from[s][u] \in {Nobody, t}
  <2>1. SUFFICES ASSUME NEW u \in m.clients
                 PROVE  Home[u] \in Away(t, s) /\ from[s][u] \in {Nobody, t}
    OBVIOUS
  <2>2. u \in Clients /\ u \in Named(w)
    BY <1>6, <1>8
  <2>3. Home[u] \in Away(t, s)
    BY <1>2, <2>2 DEF Outward, w
  <2> QED BY <1>1, <1>2, <1>4, <2>2, <2>3, OneWay
<1>10. /\ from' \in [Servers -> [Clients -> Servers \cup {Nobody}]]
       /\ \A r \in Servers, u \in Clients :
            from'[r][u] = IF r = s /\ u \in m.clients THEN t ELSE from[r][u]
  <2>1. PICK row : row = [u \in Clients |-> IF u \in m.clients /\ from[s][u] = Nobody
                                              THEN t ELSE from[s][u]]
    OBVIOUS
  <2>2. from' = [from EXCEPT ![s] = row]
    BY <1>5, <2>1
  <2>3. /\ row \in [Clients -> Servers \cup {Nobody}]
        /\ \A u \in Clients : row[u] = IF u \in m.clients THEN t ELSE from[s][u]
    BY <1>1, <1>9, <2>1 DEF Shapes
  <2> QED BY <1>1, <2>2, <2>3 DEF Shapes
<1>12. Sends(wire', Read(s, t), s, t, m)
  BY <1>5 DEF Sends
<1>13. /\ wire' \in Wires
       /\ wire'[t, s] = Tail(w)
       /\ \A y \in Servers : y \in serv_list[s] /\ y # t =>
            wire'[s, y] = Longer(wire[s, y], m)
       /\ \A x, y \in Servers :
            ~(x = t /\ y = s) /\ ~(x = s /\ y \in serv_list[s] /\ y # t) =>
              wire'[x, y] = wire[x, y]
  <2>1. wire[t, s] # <<>> /\ wire \in Wires
    BY <1>1, <1>4 DEF w
  <2> QED BY <1>4, <1>12, <2>1, ReadAndSent DEF w
<1>14. \A x, y \in Servers :
         /\ x = t /\ y = s => wire'[x, y] = Tail(w)
         /\ x = s /\ y \in serv_list[s] /\ y # t => wire'[x, y] = Longer(wire[x, y], m)
         /\ ~(x = t /\ y = s) /\ ~(x = s /\ y \in serv_list[s] /\ y # t) =>
              wire'[x, y] = wire[x, y]
  BY <1>13
<1>15. \A x, y \in Servers : wire[x, y] \in Seq(Message)
  BY <1>1 DEF Wires
<1>16. \A q \in Seq(Message), u \in Clients :
         /\ u \in m.clients => Brings(Longer(q, m), u)
         /\ u \notin m.clients => /\ Brings(Longer(q, m), u) <=> Brings(q, u)
                                  /\ Removes(Longer(q, m), u) <=> Removes(q, u)
         /\ u \in Named(Longer(q, m)) <=> u \in Named(q) \/ u \in m.clients
  BY <1>4, <1>7, OneMore
<1>17. Types'
  <2>1. (Shapes /\ wire \in Wires)' => Types'
    BY TypesAre, PTL
  <2>2. Shapes'
    BY <1>1, <1>5, <1>10 DEF Shapes
  <2> QED BY <1>13, <2>1, <2>2 DEF Wires
<1>18. OverConnections'
  BY <1>2, <1>5 DEF OverConnections
<1>19. NothingElse'
  <2>1. SUFFICES ASSUME NEW x \in Servers, NEW y \in Servers, y \notin serv_list[x]
                 PROVE  /\ wire'[x, y] = <<>>
                        /\ \A u \in Clients : x # y => from'[y][u] # x
    BY <1>5 DEF NothingElse
  <2>0. /\ wire[x, y] = <<>>
        /\ \A u \in Clients : x # y => from[y][u] # x
        /\ ~(x = t /\ y = s)
    BY <1>2, <1>4, <2>1 DEF NothingElse
  <2>2. wire'[x, y] = <<>>
    BY <1>14, <2>0, <2>1
  <2>3. \A u \in Clients : x # y => from'[y][u] # x
    BY <1>10, <2>0
  <2> QED BY <2>2, <2>3
<1>20. OwnClients'
  <2>1. SUFFICES ASSUME NEW r \in Servers, NEW u \in Clients
                 PROVE  /\ from'[r][u] = r <=> Home[u] = r
                        /\ from'[r][u] \in serv_list[r] \cup {r, Nobody}
    BY <1>5 DEF OwnClients
  <2>2. CASE r = s /\ u \in m.clients
    <3>1. from[s][u] # s
      BY <1>4, <1>9, <2>2, NetAssumption
    <3> QED BY <1>2, <1>4, <1>10, <2>2, <3>1 DEF OwnClients
  <2>3. CASE ~(r = s /\ u \in m.clients)
    BY <1>2, <1>10, <2>3 DEF OwnClients
  <2> QED BY <2>2, <2>3
<1>21. RightWay'
  <2>1. SUFFICES ASSUME NEW r \in Servers, NEW p \in Servers, NEW u \in Clients,
                        r # p, from'[r][u] = p
                 PROVE  Home[u] \in Away(p, r)
    BY DEF RightWay, Away
  <2> QED BY <1>2, <1>9, <1>10, <2>1 DEF RightWay
<1>22. Outward'
  <2>1. SUFFICES ASSUME NEW x \in Servers, NEW y \in Servers, NEW u \in Clients,
                        u \in Named(wire'[x, y])
                 PROVE  Home[u] \in Away(x, y)
    BY DEF Outward, Away
  <2>2. CASE u \in Named(wire[x, y])
    BY <1>2, <2>2 DEF Outward
  <2>3. CASE u \notin Named(wire[x, y])
    <3>1. x = s /\ y \in serv_list[s] /\ y # t /\ u \in m.clients
      BY <1>8, <1>14, <1>15, <1>16, <2>1, <2>3 DEF w
    <3>2. {s, y} \in Edges
      BY <1>1, <1>2, <3>1 DEF OverConnections, Shapes
    <3> QED BY <1>1, <1>2, <1>4, <1>9, <3>1, <3>2, PassedOn
  <2> QED BY <2>2, <2>3
<1>23. WillAgree'
  <2>1. SUFFICES ASSUME NEW x \in Servers, NEW y \in Servers, NEW u \in Clients,
                        y \in serv_list[x]
                 PROVE  Will(x, y, u)' <=> from'[x][u] \notin {Nobody, y}
    BY <1>5 DEF WillAgree
  <2>2. Will(x, y, u) <=> from[x][u] \notin {Nobody, y}
    BY <1>2, <2>1 DEF WillAgree
  <2>3. CASE x = t /\ y = s
    <3>1. from'[x][u] = from[x][u]
      BY <1>4, <1>10, <2>3
    <3>2. Will(x, y, u)' <=> Brings(Tail(w), u)
                               \/ (from'[s][u] = t /\ ~Removes(Tail(w), u))
      BY <1>14, <2>3 DEF Will
    <3>3. Will(x, y, u) <=> Brings(w, u) \/ (from[s][u] = t /\ ~Removes(w, u))
      BY <2>3 DEF Will, w
    <3> QED BY <1>8, <1>10, <2>2, <3>1, <3>2, <3>3
  <2>4. CASE x = s /\ y # t
    <3>1. wire'[x, y] = Longer(wire[x, y], m)
      BY <1>14, <2>1, <2>4
    <3>2. s # y
      <4>1. {s, y} \in Edges
        BY <1>1, <1>2, <2>1, <2>4 DEF OverConnections, Shapes
      <4> QED BY <4>1, EdgeEnds, NetAssumption
    <3>3. from'[y][u] = from[y][u]
      BY <1>10, <3>2
    <3>4. CASE u \in m.clients
      <4>1. Will(x, y, u)'
        <5>1. PICK q \in Seq(Message) : q = wire[x, y]
          BY <1>15
        <5>2. Brings(Longer(q, m), u)
          BY <1>16, <3>4
        <5>3. Brings(wire'[x, y], u)
          BY <3>1, <5>1, <5>2
        <5> QED BY <5>3 DEF Will
      <4>2. from'[x][u] = t
        BY <1>10, <2>4, <3>4
      <4> QED BY <2>4, <4>1, <4>2, NetAssumption
    <3>5. CASE u \notin m.clients
      <4>0. /\ Brings(wire'[x, y], u) <=> Brings(wire[x, y], u)
            /\ Removes(wire'[x, y], u) <=> Removes(wire[x, y], u)
        <5>1. PICK q \in Seq(Message) : q = wire[x, y]
          BY <1>15
        <5>2. PICK r : r = wire'[x, y]
          OBVIOUS
        <5>3. r = Longer(q, m)
          BY <3>1, <5>1, <5>2
        <5>4. Brings(r, u) <=> Brings(q, u)
          BY <1>16, <3>5, <5>3
        <5>5. Removes(r, u) <=> Removes(q, u)
          BY <1>16, <3>5, <5>3
        <5> QED BY <5>1, <5>2, <5>4, <5>5
      <4>1. Will(x, y, u)' <=> Will(x, y, u)
        BY <3>3, <4>0 DEF Will
      <4> QED BY <1>10, <2>2, <3>5, <4>1
    <3> QED BY <3>4, <3>5
  <2>5. CASE x = s /\ y = t
    <3>1. wire'[x, y] = wire[x, y] /\ from'[y][u] = from[y][u]
      BY <1>4, <1>10, <1>14, <2>5
    <3>2. Will(x, y, u)' <=> Will(x, y, u)
      BY <3>1 DEF Will
    <3> QED BY <1>9, <1>10, <2>2, <2>5, <3>2
  <2>6. CASE x # s /\ ~(x = t /\ y = s)
    <3>1. wire'[x, y] = wire[x, y] /\ from'[x][u] = from[x][u]
      BY <1>10, <1>14, <2>6
    <3>2. from'[y][u] = x <=> from[y][u] = x
      <4>1. CASE y = s /\ u \in m.clients
        BY <1>9, <1>10, <2>6, <4>1, NetAssumption
      <4>2. CASE ~(y = s /\ u \in m.clients)
        BY <1>10, <4>2
      <4> QED BY <4>1, <4>2
    <3>3. Will(x, y, u)' <=> Will(x, y, u)
      BY <3>1, <3>2 DEF Will
    <3> QED BY <2>2, <3>1, <3>3
  <2> QED BY <2>3, <2>4, <2>5, <2>6
<1>24. MembersKnown'
  <2>1. \A r \in Servers, u \in Clients : from'[r][u] = Nobody => from[r][u] = Nobody
    BY <1>10, NetAssumption
  <2> QED BY <1>1, <1>5, <2>1 DEF MembersKnown, Members, MembersIn, Known
<1> QED BY <1>17, <1>18, <1>19, <1>20, <1>21, <1>22, <1>23, <1>24 DEF IInv, NetInv

\* A QUIT from a link, or the loss of a server behind it: its clients are not
\* there any more, and the other links hear of those who were.
LEMMA ReadQuitStep ==
    ASSUME IInv, NEW s \in Servers, NEW t \in Servers, ReadQuit(s, t)
    PROVE  IInv'
<1>1. Types /\ Shapes /\ wire \in Wires /\ NetInv /\ MembersKnown
  BY TypesAre DEF IInv
<1>2. OverConnections /\ NothingElse /\ OwnClients /\ RightWay /\ Outward /\ WillAgree
  BY <1>1 DEF NetInv
<1>3. Reads(s, t, "quit")
  BY DEF ReadQuit
<1> DEFINE w == wire[t, s]
           m == Head(w)
           lost == {u \in m.clients : from[s][u] = t}
<1>4. /\ t \in serv_list[s] /\ s \in serv_list[t] /\ {t, s} \in Edges
      /\ w \in Seq(Message) /\ w # <<>>
      /\ m \in Message /\ m.type = "quit"
      /\ s # t
  BY <1>1, <1>2, <1>3, ReadsWhat
<1>5. PICK stays \in BOOLEAN : Gone(s, lost, stays)
  BY DEF ReadQuit
<1>6. /\ from' = [from EXCEPT ![s] = [u \in Clients |-> IF u \in lost THEN Nobody ELSE @[u]]]
      /\ wire' = IF lost = {} THEN Read(s, t)
                 ELSE sendto_server(Read(s, t), s, t, <<Quit(lost)>>)
      /\ History
      /\ UNCHANGED <<conn, serv_list, ts, now, splits, acts>>
  BY DEF ReadQuit
<1>7. m.clients \subseteq Clients /\ lost \in SUBSET Clients
  BY <1>4, MessageFields
<1>8. \A u \in Clients : u \in lost <=> u \in m.clients /\ from[s][u] = t
  OBVIOUS
<1> HIDE DEF m, w, lost
<1>9. \A u \in Clients : /\ Says(m, "quit", u) <=> u \in m.clients
                         /\ ~Says(m, "nick", u)
  BY <1>4 DEF Says
<1>10. \A u \in Clients :
        /\ Brings(w, u) <=> Brings(Tail(w), u)
        /\ u \in m.clients => Removes(w, u)
        /\ u \notin m.clients => (Removes(w, u) <=> Removes(Tail(w), u))
        /\ u \in Named(Tail(w)) => u \in Named(w)
  BY <1>4, <1>9, OneLess DEF m
<1>11. /\ from' \in [Servers -> [Clients -> Servers \cup {Nobody}]]
       /\ \A r \in Servers, u \in Clients :
            from'[r][u] = IF r = s /\ u \in lost THEN Nobody ELSE from[r][u]
  <2>1. PICK row : row = [u \in Clients |-> IF u \in lost THEN Nobody ELSE from[s][u]]
    OBVIOUS
  <2>2. from' = [from EXCEPT ![s] = row]
    BY <1>6, <2>1
  <2>3. /\ row \in [Clients -> Servers \cup {Nobody}]
        /\ \A u \in Clients : row[u] = IF u \in lost THEN Nobody ELSE from[s][u]
    BY <1>1, <2>1 DEF Shapes
  <2> QED BY <1>1, <2>2, <2>3 DEF Shapes
<1>12. PICK q : q = Quit(lost)
  OBVIOUS
<1>13. q \in Message /\ q.type = "quit" /\ q.clients = lost
  BY <1>7, <1>12, MessagesMade
<1> DEFINE passed(x, y) == lost # {} /\ x = s /\ y \in serv_list[s] /\ y # t
<1>14. /\ wire' \in Wires
       /\ wire'[t, s] = Tail(w)
       /\ \A y \in Servers : passed(s, y) => wire'[s, y] = Longer(wire[s, y], q)
       /\ \A x, y \in Servers :
            ~(x = t /\ y = s) /\ ~passed(x, y) => wire'[x, y] = wire[x, y]
  <2>1. wire[t, s] # <<>> /\ wire \in Wires
    BY <1>1, <1>4 DEF w
  <2>2. CASE lost = {}
    <3>1. OneRead(wire', s, t)
      BY <1>6, <2>1, <2>2, ReadOne
    <3>2. /\ wire' \in Wires
          /\ \A x, y \in Servers :
               /\ x = t /\ y = s => On(wire', x, y) = Tail(w)
               /\ ~(x = t /\ y = s) => On(wire', x, y) = wire[x, y]
      BY <3>1 DEF OneRead, w
    <3> QED BY <2>2, <3>2 DEF On
  <2>3. CASE lost # {}
    <3>1. Sends(wire', Read(s, t), s, t, q)
      BY <1>6, <1>12, <2>3 DEF Sends
    <3>2. /\ wire' \in Wires
          /\ wire'[t, s] = Tail(w)
          /\ \A y \in Servers : y \in serv_list[s] /\ y # t =>
               wire'[s, y] = Longer(wire[s, y], q)
          /\ \A x, y \in Servers :
               ~(x = t /\ y = s) /\ ~(x = s /\ y \in serv_list[s] /\ y # t) =>
                 wire'[x, y] = wire[x, y]
      BY <1>4, <1>13, <2>1, <3>1, ReadAndSent DEF w
    <3>3. ASSUME NEW x \in Servers, NEW y \in Servers, ~(x = t /\ y = s), ~passed(x, y)
          PROVE  wire'[x, y] = wire[x, y]
      BY <2>3, <3>2, <3>3
    <3>4. ASSUME NEW y \in Servers, passed(s, y)
          PROVE  wire'[s, y] = Longer(wire[s, y], q)
      BY <3>2, <3>4
    <3> QED BY <3>2, <3>3, <3>4
  <2> QED BY <2>2, <2>3
<1>15. \A x, y \in Servers :
         /\ x = t /\ y = s => wire'[x, y] = Tail(w)
         /\ passed(x, y) => wire'[x, y] = Longer(wire[x, y], q)
         /\ ~(x = t /\ y = s) /\ ~passed(x, y) => wire'[x, y] = wire[x, y]
  BY <1>14
<1>16. \A x, y \in Servers : wire[x, y] \in Seq(Message)
  BY <1>1 DEF Wires
<1>17. \A u \in Clients : /\ Says(q, "quit", u) <=> u \in lost
                          /\ ~Says(q, "nick", u)
  BY <1>13 DEF Says
<1>18. \A v \in Seq(Message), u \in Clients :
         /\ u \in lost => Removes(Longer(v, q), u) /\ ~Brings(Longer(v, q), u)
         /\ u \notin lost => /\ Brings(Longer(v, q), u) <=> Brings(v, u)
                             /\ Removes(Longer(v, q), u) <=> Removes(v, u)
         /\ u \in Named(Longer(v, q)) <=> u \in Named(v) \/ u \in lost
  BY <1>13, <1>17, OneMore
<1>19. \A x, y \in Servers, u \in Clients : passed(x, y) =>
         /\ u \in lost => Removes(wire'[x, y], u) /\ ~Brings(wire'[x, y], u)
         /\ u \notin lost => /\ Brings(wire'[x, y], u) <=> Brings(wire[x, y], u)
                             /\ Removes(wire'[x, y], u) <=> Removes(wire[x, y], u)
         /\ u \in Named(wire'[x, y]) <=> u \in Named(wire[x, y]) \/ u \in lost
  <2>1. SUFFICES ASSUME NEW x \in Servers, NEW y \in Servers, NEW u \in Clients, passed(x, y)
        PROVE
         /\ u \in lost => Removes(wire'[x, y], u) /\ ~Brings(wire'[x, y], u)
         /\ u \notin lost => /\ Brings(wire'[x, y], u) <=> Brings(wire[x, y], u)
                             /\ Removes(wire'[x, y], u) <=> Removes(wire[x, y], u)
         /\ u \in Named(wire'[x, y]) <=> u \in Named(wire[x, y]) \/ u \in lost
    OBVIOUS
  <2>2. PICK v \in Seq(Message) : v = wire[x, y]
    BY <1>16
  <2>3. PICK r : r = wire'[x, y]
    OBVIOUS
  <2>4. r = Longer(v, q)
    BY <1>15, <2>1, <2>2, <2>3
  <2>5. /\ u \in lost => Removes(r, u) /\ ~Brings(r, u)
        /\ u \notin lost => /\ Brings(r, u) <=> Brings(v, u)
                            /\ Removes(r, u) <=> Removes(v, u)
        /\ u \in Named(r) <=> u \in Named(v) \/ u \in lost
    BY <1>18, <2>4
  <2> QED BY <2>2, <2>3, <2>5
<1>20. Types'
  <2>1. (Shapes /\ wire \in Wires)' => Types'
    BY TypesAre, PTL
  <2>2. emptied' \in BOOLEAN
    BY <1>6, HistoryType
  <2>3. /\ mem' \in [Servers -> [Clients -> Lists \cup {NoList}]]
        /\ exists' \in [Servers -> BOOLEAN]
    BY <1>1, <1>5, GoneType
  <2>4. Shapes'
    BY <1>1, <1>6, <1>11, <2>2, <2>3 DEF Shapes
  <2> QED BY <1>14, <2>1, <2>4 DEF Wires
<1>21. OverConnections'
  BY <1>2, <1>6 DEF OverConnections
<1>22. NothingElse'
  <2>1. SUFFICES ASSUME NEW x \in Servers, NEW y \in Servers, y \notin serv_list[x]
                 PROVE  /\ wire'[x, y] = <<>>
                        /\ \A u \in Clients : x # y => from'[y][u] # x
    BY <1>6 DEF NothingElse
  <2>2. /\ wire[x, y] = <<>>
        /\ \A u \in Clients : x # y => from[y][u] # x
        /\ ~(x = t /\ y = s)
    BY <1>2, <1>4, <2>1 DEF NothingElse
  <2>3. wire'[x, y] = <<>>
    BY <1>15, <2>1, <2>2
  <2>4. \A u \in Clients : x # y => from'[y][u] # x
    BY <1>11, <2>2, NetAssumption
  <2> QED BY <2>3, <2>4
<1>23. OwnClients'
  <2>1. SUFFICES ASSUME NEW r \in Servers, NEW u \in Clients
                 PROVE  /\ from'[r][u] = r <=> Home[u] = r
                        /\ from'[r][u] \in serv_list[r] \cup {r, Nobody}
    BY <1>6 DEF OwnClients
  <2>2. CASE r = s /\ u \in lost
    <3>1. from[r][u] = t /\ from'[r][u] = Nobody
      BY <1>8, <1>11, <2>2
    <3> QED BY <1>2, <1>4, <2>2, <3>1, NetAssumption DEF OwnClients
  <2>3. CASE ~(r = s /\ u \in lost)
    BY <1>2, <1>11, <2>3 DEF OwnClients
  <2> QED BY <2>2, <2>3
<1>24. RightWay'
  <2>1. SUFFICES ASSUME NEW r \in Servers, NEW p \in Servers, NEW u \in Clients,
                        r # p, from'[r][u] = p
                 PROVE  Home[u] \in Away(p, r)
    BY DEF RightWay, Away
  <2> QED BY <1>2, <1>11, <2>1, NetAssumption DEF RightWay
<1>25. Outward'
  <2>1. SUFFICES ASSUME NEW x \in Servers, NEW y \in Servers, NEW u \in Clients,
                        u \in Named(wire'[x, y])
                 PROVE  Home[u] \in Away(x, y)
    BY DEF Outward, Away
  <2>2. CASE u \in Named(wire[x, y])
    BY <1>2, <2>2 DEF Outward
  <2>3. CASE u \notin Named(wire[x, y])
    <3>1. ~(x = t /\ y = s)
      BY <1>10, <1>15, <2>1, <2>3 DEF w
    <3>2. passed(x, y)
      BY <1>15, <2>1, <2>3, <3>1
    <3>3. u \in lost
      BY <1>19, <2>1, <2>3, <3>2
    <3>4. Home[u] \in Away(t, s)
      BY <1>2, <1>4, <1>8, <3>3 DEF RightWay
    <3>5. {s, y} \in Edges
      BY <1>1, <1>2, <3>2 DEF OverConnections, Shapes
    <3> QED BY <1>1, <1>2, <1>4, <3>2, <3>4, <3>5, PassedOn
  <2> QED BY <2>2, <2>3
<1>26. WillAgree'
  <2>1. SUFFICES ASSUME NEW x \in Servers, NEW y \in Servers, NEW u \in Clients,
                        y \in serv_list[x]
                 PROVE  Will(x, y, u)' <=> from'[x][u] \notin {Nobody, y}
    BY <1>6 DEF WillAgree
  <2>2. Will(x, y, u) <=> from[x][u] \notin {Nobody, y}
    BY <1>2, <2>1 DEF WillAgree
  <2>3. CASE x = t /\ y = s
    <3>1. from'[x][u] = from[x][u]
      BY <1>4, <1>11, <2>3
    <3>2. Will(x, y, u)' <=> Brings(Tail(w), u)
                               \/ (from'[s][u] = t /\ ~Removes(Tail(w), u))
      BY <1>15, <2>3 DEF Will
    <3>3. Will(x, y, u) <=> Brings(w, u) \/ (from[s][u] = t /\ ~Removes(w, u))
      BY <2>3 DEF Will, w
    <3>4. from'[s][u] = t <=> from[s][u] = t /\ u \notin m.clients
      BY <1>8, <1>11, NetAssumption
    <3> QED BY <1>10, <2>2, <3>1, <3>2, <3>3, <3>4
  <2>4. CASE x = s /\ y # t
    <3>1. s # y
      <4>1. {s, y} \in Edges
        BY <1>1, <1>2, <2>1, <2>4 DEF OverConnections, Shapes
      <4> QED BY <4>1, EdgeEnds, NetAssumption
    <3>2. from'[y][u] = from[y][u]
      BY <1>11, <3>1
    <3>3. CASE u \in lost
      <4>1. passed(x, y)
        BY <2>1, <2>4, <3>3
      <4>2. Removes(wire'[x, y], u) /\ ~Brings(wire'[x, y], u)
        BY <1>19, <3>3, <4>1
      <4>3. from'[x][u] = Nobody
        BY <1>11, <2>4, <3>3
      <4> QED BY <4>2, <4>3 DEF Will
    <3>4. CASE u \notin lost
      <4>1. /\ Brings(wire'[x, y], u) <=> Brings(wire[x, y], u)
            /\ Removes(wire'[x, y], u) <=> Removes(wire[x, y], u)
        <5>1. CASE passed(x, y)
          BY <1>19, <3>4, <5>1
        <5>2. CASE ~passed(x, y)
          BY <1>4, <1>15, <2>4, <5>2
        <5> QED BY <5>1, <5>2
      <4>2. Will(x, y, u)' <=> Will(x, y, u)
        BY <3>2, <4>1 DEF Will
      <4> QED BY <1>11, <2>2, <3>4, <4>2
    <3> QED BY <3>3, <3>4
  <2>5. CASE x = s /\ y = t
    <3>1. wire'[x, y] = wire[x, y] /\ from'[y][u] = from[y][u]
      BY <1>4, <1>11, <1>15, <2>5
    <3>2. Will(x, y, u)' <=> Will(x, y, u)
      BY <3>1 DEF Will
    <3> QED BY <1>8, <1>11, <2>2, <2>5, <3>2
  <2>6. CASE x # s /\ ~(x = t /\ y = s)
    <3>1. wire'[x, y] = wire[x, y] /\ from'[x][u] = from[x][u]
      BY <1>11, <1>15, <2>6
    <3>2. from'[y][u] = x <=> from[y][u] = x
      <4>1. CASE y = s /\ u \in lost
        BY <1>8, <1>11, <2>6, <4>1, NetAssumption
      <4>2. CASE ~(y = s /\ u \in lost)
        BY <1>11, <4>2
      <4> QED BY <4>1, <4>2
    <3>3. Will(x, y, u)' <=> Will(x, y, u)
      BY <3>1, <3>2 DEF Will
    <3> QED BY <2>2, <3>1, <3>3
  <2> QED BY <2>3, <2>4, <2>5, <2>6
<1>27. MembersKnown'
  BY <1>1, <1>5, <1>11, GoneKnown
<1> QED BY <1>20, <1>21, <1>22, <1>23, <1>24, <1>25, <1>26, <1>27 DEF IInv, NetInv

\* The other links of s than one hear on the wires v that cs have quit, and the
\* wires w said nothing else.
Told(v, w, s, one, cs) ==
    /\ v \in Wires
    /\ \A a, b \in Servers :
         /\ b \notin serv_list[a] => On(v, a, b) = On(w, a, b)
         /\ \A u \in Clients :
              IF a = s /\ b \in serv_list[s] /\ b # one /\ u \in cs
                THEN Removes(On(v, a, b), u) /\ ~Brings(On(v, a, b), u)
                ELSE /\ Removes(On(v, a, b), u) <=> Removes(On(w, a, b), u)
                     /\ Brings(On(v, a, b), u) <=> Brings(On(w, a, b), u)
                     /\ u \in Named(On(v, a, b)) => u \in Named(On(w, a, b))

\* What a message on one of these wires says of one client.
LEMMA ToldAt ==
    ASSUME NEW v, NEW w, NEW s, NEW one, NEW cs, Told(v, w, s, one, cs),
           NEW a \in Servers, NEW b \in Servers, NEW u \in Clients
    PROVE  /\ a = s /\ b \in serv_list[s] /\ b # one /\ u \in cs =>
                Removes(On(v, a, b), u) /\ ~Brings(On(v, a, b), u)
           /\ ~(a = s /\ b \in serv_list[s] /\ b # one /\ u \in cs) =>
                /\ Removes(On(v, a, b), u) <=> Removes(On(w, a, b), u)
                /\ Brings(On(v, a, b), u) <=> Brings(On(w, a, b), u)
                /\ u \in Named(On(v, a, b)) => u \in Named(On(w, a, b))
<1> PICK p, q : p = On(v, a, b) /\ q = On(w, a, b)
  OBVIOUS
<1>1. IF a = s /\ b \in serv_list[s] /\ b # one /\ u \in cs
        THEN Removes(p, u) /\ ~Brings(p, u)
        ELSE /\ Removes(p, u) <=> Removes(q, u)
             /\ Brings(p, u) <=> Brings(q, u)
             /\ u \in Named(p) => u \in Named(q)
  BY DEF Told
<1> QED BY <1>1

\* That is what an end of a broken link sends.
LEMMA QuitTold ==
    ASSUME NEW w \in Wires, NEW s \in Servers, NEW one, NEW cs \in SUBSET Clients, NEW v,
           v = IF cs = {} THEN w ELSE sendto_server(w, s, one, <<Quit(cs)>>)
    PROVE  Told(v, w, s, one, cs)
<1>1. CASE cs = {}
  BY <1>1 DEF Told
<1>2. CASE cs # {}
  <2>1. PICK q : q = Quit(cs)
    OBVIOUS
  <2>2. q \in Message /\ q.type = "quit" /\ q.clients = cs
    BY <2>1, MessagesMade
  <2>3. Sends(v, w, s, one, q)
    BY <1>2, <2>1 DEF Sends
  <2>4. OneSent(v, w, s, one, q)
    BY <2>2, <2>3, SendOne
  <2>5. \A u \in Clients : /\ Says(q, "quit", u) <=> u \in cs
                           /\ ~Says(q, "nick", u)
    BY <2>2 DEF Says
  <2>6. \A r \in Seq(Message), u \in Clients :
          /\ u \in cs => Removes(Longer(r, q), u) /\ ~Brings(Longer(r, q), u)
          /\ u \notin cs => /\ Brings(Longer(r, q), u) <=> Brings(r, u)
                            /\ Removes(Longer(r, q), u) <=> Removes(r, u)
          /\ u \in Named(Longer(r, q)) <=> u \in Named(r) \/ u \in cs
    BY <2>2, <2>5, OneMore
  <2>7. ASSUME NEW a \in Servers, NEW b \in Servers
        PROVE  /\ b \notin serv_list[a] => On(v, a, b) = On(w, a, b)
               /\ \A u \in Clients :
                    IF a = s /\ b \in serv_list[s] /\ b # one /\ u \in cs
                      THEN Removes(On(v, a, b), u) /\ ~Brings(On(v, a, b), u)
                      ELSE /\ Removes(On(v, a, b), u) <=> Removes(On(w, a, b), u)
                           /\ Brings(On(v, a, b), u) <=> Brings(On(w, a, b), u)
                           /\ u \in Named(On(v, a, b)) => u \in Named(On(w, a, b))
    <3>1. PICK r \in Seq(Message) : r = On(w, a, b)
      BY DEF Wires, On
    <3>2. CASE a = s /\ b \in serv_list[s] /\ b # one
      <4>1. On(v, a, b) = Longer(r, q)
        BY <2>4, <3>1, <3>2 DEF OneSent
      <4> QED BY <2>6, <3>1, <3>2, <4>1
    <3>3. CASE ~(a = s /\ b \in serv_list[s] /\ b # one)
      <4>1. On(v, a, b) = On(w, a, b)
        BY <2>4, <3>3 DEF OneSent
      <4> QED BY <3>3, <4>1
    <3> QED BY <3>2, <3>3
  <2> QED BY <2>4, <2>7 DEF Told, OneSent
<1> QED BY <1>1, <1>2

\* A connection breaks: both ends forget who was behind it, and say so.
LEMMA SplitStep ==
    ASSUME IInv, NEW x \in Servers, NEW y \in Servers, Split(x, y)
    PROVE  IInv'
<1>1. Types /\ Shapes /\ wire \in Wires /\ NetInv /\ MembersKnown
  BY TypesAre DEF IInv
<1>2. OverConnections /\ NothingElse /\ OwnClients /\ RightWay /\ Outward /\ WillAgree
  BY <1>1 DEF NetInv
<1>3. {x, y} \in conn /\ {x, y} \in Edges
  BY <1>1 DEF Split, Shapes
<1>4. x # y
  BY <1>3, EdgeEnds, NetAssumption
<1> DEFINE lost(s, t) == {u \in Clients : from[s][u] = t}
           without(s, t) == [u \in Clients |-> IF from[s][u] = t THEN Nobody ELSE from[s][u]]
           told(w, s, t) == IF lost(s, t) = {} THEN w
                            ELSE sendto_server(w, s, t, <<Quit(lost(s, t))>>)
           pair(a, b) == (a = x /\ b = y) \/ (a = y /\ b = x)
           cut(r, u) == (r = x /\ from[x][u] = y) \/ (r = y /\ from[y][u] = x)
<1>5. /\ splits < MaxSplits /\ splits' = splits + 1
      /\ conn' = conn \ {{x, y}}
      /\ serv_list' = [serv_list EXCEPT ![x] = @ \ {y}, ![y] = @ \ {x}]
      /\ wire' = [told(told(wire, x, y), y, x)
                    EXCEPT ![<<x, y>>] = <<>>, ![<<y, x>>] = <<>>]
      /\ from' = [from EXCEPT ![x] = without(x, y), ![y] = without(y, x)]
      /\ mem' = [mem EXCEPT
                   ![x] = [u \in Clients |-> IF u \in lost(x, y) THEN NoList ELSE @[u]],
                   ![y] = [u \in Clients |-> IF u \in lost(y, x) THEN NoList ELSE @[u]]]
      /\ \E stay \in SUBSET {x, y} :
           exists' = [s \in Servers |->
                        IF s \notin {x, y} \/ MembersIn(mem'[s]) # {} \/ Members(s) = {}
                          THEN exists[s] ELSE exists[s] /\ s \in stay]
      /\ History
      /\ UNCHANGED <<ts, now, acts>>
  BY DEF Split
<1>6. PICK v : v = told(wire, x, y)
  OBVIOUS
<1>7. PICK z : z = told(v, y, x)
  OBVIOUS
<1>8. Told(v, wire, x, y, lost(x, y)) /\ Told(z, v, y, x, lost(y, x))
  <2>1. Told(v, wire, x, y, lost(x, y))
    BY <1>1, <1>6, QuitTold
  <2>2. v \in Wires
    BY <2>1 DEF Told
  <2> QED BY <1>7, <2>1, <2>2, QuitTold
<1>9. wire' = [z EXCEPT ![<<x, y>>] = <<>>, ![<<y, x>>] = <<>>]
  BY <1>5, <1>6, <1>7
<1> HIDE DEF told
<1>10. /\ wire' \in Wires
       /\ \A a, b \in Servers : /\ pair(a, b) => wire'[a, b] = <<>>
                                /\ ~pair(a, b) => wire'[a, b] = On(z, a, b)
  <2>1. z \in Wires
    BY <1>8 DEF Told
  <2>2. wire' \in Wires
    <3>0. <<>> \in Seq(Message)
      OBVIOUS
    <3>1. PICK e \in Seq(Message) : e = <<>>
      BY <3>0
    <3>2. wire' = [z EXCEPT ![<<x, y>>] = e, ![<<y, x>>] = e]
      BY <1>9, <3>1
    <3> QED BY <2>1, <3>2 DEF Wires
  <2>3. ASSUME NEW a \in Servers, NEW b \in Servers, pair(a, b)
        PROVE  wire'[a, b] = <<>>
    BY <1>9, <2>1, <2>3 DEF Wires
  <2>4. ASSUME NEW a \in Servers, NEW b \in Servers, ~pair(a, b)
        PROVE  wire'[a, b] = On(z, a, b)
    BY <1>9, <2>1, <2>4 DEF Wires, On
  <2> QED BY <2>2, <2>3, <2>4
<1>11. \A r \in Servers, u \in Clients : cut(r, u) <=>
         (r = x /\ u \in lost(x, y)) \/ (r = y /\ u \in lost(y, x))
  OBVIOUS
<1>12. /\ from' \in [Servers -> [Clients -> Servers \cup {Nobody}]]
       /\ \A r \in Servers, u \in Clients :
            from'[r][u] = IF cut(r, u) THEN Nobody ELSE from[r][u]
  <2>1. PICK a, b : a = without(x, y) /\ b = without(y, x)
    OBVIOUS
  <2>2. from' = [from EXCEPT ![x] = a, ![y] = b]
    BY <1>5, <2>1
  <2>3. /\ a \in [Clients -> Servers \cup {Nobody}] /\ b \in [Clients -> Servers \cup {Nobody}]
        /\ \A u \in Clients : /\ a[u] = IF from[x][u] = y THEN Nobody ELSE from[x][u]
                              /\ b[u] = IF from[y][u] = x THEN Nobody ELSE from[y][u]
    BY <1>1, <2>1 DEF Shapes
  <2> HIDE DEF without
  <2> QED BY <1>1, <1>4, <2>2, <2>3 DEF Shapes
<1>13. /\ mem' \in [Servers -> [Clients -> Lists \cup {NoList}]]
       /\ \A r \in Servers, u \in Clients :
            mem'[r][u] = IF cut(r, u) THEN NoList ELSE mem[r][u]
  <2>1. PICK a, b :
          /\ a = [u \in Clients |-> IF u \in lost(x, y) THEN NoList ELSE mem[x][u]]
          /\ b = [u \in Clients |-> IF u \in lost(y, x) THEN NoList ELSE mem[y][u]]
    OBVIOUS
  <2>2. mem' = [mem EXCEPT ![x] = a, ![y] = b]
    BY <1>4, <1>5, <2>1
  <2>3. /\ a \in [Clients -> Lists \cup {NoList}] /\ b \in [Clients -> Lists \cup {NoList}]
        /\ \A u \in Clients : /\ a[u] = IF from[x][u] = y THEN NoList ELSE mem[x][u]
                              /\ b[u] = IF from[y][u] = x THEN NoList ELSE mem[y][u]
    BY <1>1, <2>1 DEF Shapes
  <2> QED BY <1>1, <1>4, <2>2, <2>3 DEF Shapes
<1>14. \A a, b \in Servers : b \in serv_list'[a] <=> b \in serv_list[a] /\ ~pair(a, b)
  BY <1>1, <1>4, <1>5 DEF Shapes
<1>15. serv_list' \in [Servers -> SUBSET Servers]
  BY <1>1, <1>5 DEF Shapes
<1>16. ASSUME NEW a \in Servers, NEW b \in Servers, ~pair(a, b), b \in serv_list[a],
              NEW u \in Clients
       PROVE  IF cut(a, u)
                THEN Removes(wire'[a, b], u) /\ ~Brings(wire'[a, b], u)
                ELSE /\ Removes(wire'[a, b], u) <=> Removes(wire[a, b], u)
                     /\ Brings(wire'[a, b], u) <=> Brings(wire[a, b], u)
                     /\ u \in Named(wire'[a, b]) => u \in Named(wire[a, b])
  <2>1. PICK p, q, r : p = wire'[a, b] /\ q = On(v, a, b) /\ r = On(wire, a, b)
    OBVIOUS
  <2>2. p = On(z, a, b) /\ r = wire[a, b]
    BY <1>10, <1>16, <2>1 DEF On
  <2>3. IF a = x /\ u \in lost(x, y)
          THEN Removes(q, u) /\ ~Brings(q, u)
          ELSE /\ Removes(q, u) <=> Removes(r, u)
               /\ Brings(q, u) <=> Brings(r, u)
               /\ u \in Named(q) => u \in Named(r)
    BY <1>8, <1>16, <2>1 DEF Told
  <2>4. IF a = y /\ u \in lost(y, x)
          THEN Removes(p, u) /\ ~Brings(p, u)
          ELSE /\ Removes(p, u) <=> Removes(q, u)
               /\ Brings(p, u) <=> Brings(q, u)
               /\ u \in Named(p) => u \in Named(q)
    <3>1. PICK L : L = lost(y, x)
      OBVIOUS
    <3>2. Told(z, v, y, x, L)
      BY <1>8, <3>1
    <3>3. a = y /\ u \in L => b \in serv_list[y] /\ b # x
      BY <1>16
    <3>4. /\ a = y /\ b \in serv_list[y] /\ b # x /\ u \in L => Removes(p, u) /\ ~Brings(p, u)
          /\ ~(a = y /\ b \in serv_list[y] /\ b # x /\ u \in L) =>
               /\ Removes(p, u) <=> Removes(q, u)
               /\ Brings(p, u) <=> Brings(q, u)
               /\ u \in Named(p) => u \in Named(q)
      <4>1. /\ a = y /\ b \in serv_list[y] /\ b # x /\ u \in L =>
                 Removes(On(z, a, b), u) /\ ~Brings(On(z, a, b), u)
            /\ ~(a = y /\ b \in serv_list[y] /\ b # x /\ u \in L) =>
                 /\ Removes(On(z, a, b), u) <=> Removes(On(v, a, b), u)
                 /\ Brings(On(z, a, b), u) <=> Brings(On(v, a, b), u)
                 /\ u \in Named(On(z, a, b)) => u \in Named(On(v, a, b))
        BY <3>2, ToldAt
      <4> QED BY <2>1, <2>2, <4>1
    <3> QED BY <3>1, <3>3, <3>4
  <2> HIDE DEF lost, cut
  <2> QED BY <1>4, <1>11, <2>1, <2>2, <2>3, <2>4
<1>17. ASSUME NEW a \in Servers, NEW b \in Servers, ~pair(a, b), b \notin serv_list[a]
       PROVE  wire'[a, b] = wire[a, b]
  <2>1. On(z, a, b) = On(v, a, b) /\ On(v, a, b) = On(wire, a, b)
    BY <1>8, <1>17 DEF Told
  <2> QED BY <1>10, <1>17, <2>1 DEF On
<1> HIDE DEF lost, without
<1>18. Types'
  <2>1. (Shapes /\ wire \in Wires)' => Types'
    BY TypesAre, PTL
  <2>2. emptied' \in BOOLEAN
    BY <1>5, HistoryType
  <2>3. exists' \in [Servers -> BOOLEAN]
    <3>1. PICK stay : exists' = [s \in Servers |->
            IF s \notin {x, y} \/ MembersIn(mem'[s]) # {} \/ Members(s) = {}
              THEN exists[s] ELSE exists[s] /\ s \in stay]
      BY <1>5
    <3> QED BY <1>1, <3>1 DEF Shapes
  <2>4. splits' \in 0..MaxSplits
    BY <1>1, <1>5, NetAssumption DEF Shapes
  <2>5. conn' \subseteq Edges /\ UNCHANGED <<ts, now, acts>>
    BY <1>1, <1>5 DEF Shapes
  <2>6. Shapes'
    BY <1>1, <1>12, <1>13, <1>15, <2>2, <2>3, <2>4, <2>5 DEF Shapes
  <2> QED BY <1>10, <2>1, <2>6 DEF Wires
<1>19. OverConnections'
  <2>1. SUFFICES ASSUME NEW a \in Servers, NEW b \in Servers, b \in serv_list'[a]
                 PROVE  {a, b} \in conn'
    BY DEF OverConnections
  <2>2. b \in serv_list[a] /\ ~pair(a, b)
    BY <1>14, <2>1
  <2>3. {a, b} # {x, y}
    BY <2>2
  <2> QED BY <1>2, <1>5, <2>2, <2>3 DEF OverConnections
<1>20. NothingElse'
  <2>1. SUFFICES ASSUME NEW a \in Servers, NEW b \in Servers, b \notin serv_list'[a]
                 PROVE  /\ wire'[a, b] = <<>>
                        /\ \A u \in Clients : a # b => from'[b][u] # a
    BY DEF NothingElse
  <2>2. CASE pair(a, b)
    <3>1. wire'[a, b] = <<>>
      BY <1>10, <2>2
    <3>2. ASSUME NEW u \in Clients, from'[b][u] = a PROVE FALSE
      <4>1. from[b][u] = a
        BY <1>12, <3>2, NetAssumption
      <4>2. cut(b, u)
        BY <2>2, <4>1
      <4> QED BY <1>12, <3>2, <4>2, NetAssumption
    <3> QED BY <3>1, <3>2
  <2>3. CASE ~pair(a, b)
    <3>1. b \notin serv_list[a]
      BY <1>14, <2>1, <2>3
    <3>2. \A u \in Clients : a # b => from[b][u] # a
      BY <1>2, <3>1 DEF NothingElse
    <3>3. wire'[a, b] = <<>>
      <4>1. wire[a, b] = <<>>
        BY <1>2, <3>1 DEF NothingElse
      <4> QED BY <1>17, <2>3, <3>1, <4>1
    <3>4. ASSUME NEW u \in Clients, a # b PROVE from'[b][u] # a
      <4>1. from[b][u] # a
        BY <3>2, <3>4
      <4> QED BY <1>12, <4>1, NetAssumption
    <3> QED BY <3>3, <3>4
  <2> QED BY <2>2, <2>3
<1>21. OwnClients'
  <2>1. SUFFICES ASSUME NEW r \in Servers, NEW u \in Clients
                 PROVE  /\ from'[r][u] = r <=> Home[u] = r
                        /\ from'[r][u] \in serv_list'[r] \cup {r, Nobody}
    BY DEF OwnClients
  <2>2. /\ from[r][u] = r <=> Home[u] = r
        /\ from[r][u] \in serv_list[r] \cup {r, Nobody}
    BY <1>2 DEF OwnClients
  <2>3. CASE cut(r, u)
    BY <1>4, <1>12, <2>2, <2>3, NetAssumption
  <2>4. CASE ~cut(r, u)
    <3>1. from'[r][u] = from[r][u]
      BY <1>12, <2>4
    <3>2. from[r][u] \in serv_list[r] => from[r][u] \in serv_list'[r]
      <4>1. SUFFICES ASSUME NEW p, p = from[r][u], p \in serv_list[r] PROVE p \in serv_list'[r]
        OBVIOUS
      <4>2. ~pair(r, p) /\ p \in Servers
        BY <1>1, <2>4, <4>1 DEF Shapes
      <4> QED BY <1>14, <4>1, <4>2
    <3> QED BY <2>2, <3>1, <3>2
  <2> QED BY <2>3, <2>4
<1>22. RightWay'
  <2>1. SUFFICES ASSUME NEW r \in Servers, NEW p \in Servers, NEW u \in Clients,
                        r # p, from'[r][u] = p
                 PROVE  Home[u] \in Away(p, r)
    BY DEF RightWay, Away
  <2>2. from[r][u] = p
    BY <1>12, <2>1, NetAssumption
  <2> QED BY <1>2, <2>1, <2>2 DEF RightWay
<1>23. Outward'
  <2>1. SUFFICES ASSUME NEW a \in Servers, NEW b \in Servers, NEW u \in Clients,
                        u \in Named(wire'[a, b])
                 PROVE  Home[u] \in Away(a, b)
    BY DEF Outward, Away
  <2>2. ~pair(a, b)
    BY <1>10, <2>1, EmptySays
  <2>3. CASE u \in Named(wire[a, b])
    BY <1>2, <2>3 DEF Outward
  <2>4. CASE u \notin Named(wire[a, b])
    <3>1. b \in serv_list[a]
      BY <1>17, <2>1, <2>2, <2>4
    <3>2. cut(a, u)
      BY <1>16, <2>1, <2>2, <2>4, <3>1
    <3>3. from[a][u] \notin {Nobody, b}
      BY <2>2, <3>2, NetAssumption
    <3>4. {a, b} \in Edges
      BY <1>1, <1>2, <3>1 DEF OverConnections, Shapes
    <3> QED BY <1>1, <1>2, <3>3, <3>4, KnownAway
  <2> QED BY <2>3, <2>4
<1>24. WillAgree'
  <2>1. SUFFICES ASSUME NEW a \in Servers, NEW b \in Servers, NEW u \in Clients,
                        b \in serv_list'[a]
                 PROVE  Will(a, b, u)' <=> from'[a][u] \notin {Nobody, b}
    BY DEF WillAgree
  <2>2. b \in serv_list[a] /\ ~pair(a, b)
    BY <1>14, <2>1
  <2>3. Will(a, b, u) <=> from[a][u] \notin {Nobody, b}
    BY <1>2, <2>2 DEF WillAgree
  <2>4. CASE cut(a, u)
    <3>1. Removes(wire'[a, b], u) /\ ~Brings(wire'[a, b], u)
      BY <1>16, <2>2, <2>4
    <3>2. from'[a][u] = Nobody
      BY <1>12, <2>4
    <3> QED BY <3>1, <3>2 DEF Will
  <2>5. CASE ~cut(a, u)
    <3>1. /\ Removes(wire'[a, b], u) <=> Removes(wire[a, b], u)
          /\ Brings(wire'[a, b], u) <=> Brings(wire[a, b], u)
      BY <1>16, <2>2, <2>5
    <3>2. from'[b][u] = a <=> from[b][u] = a
      BY <1>12, <2>2, NetAssumption
    <3>3. Will(a, b, u)' <=> Will(a, b, u)
      BY <3>1, <3>2 DEF Will
    <3> QED BY <1>12, <2>3, <2>5, <3>3
  <2> QED BY <2>4, <2>5
<1>25. MembersKnown'
  <2>1. SUFFICES ASSUME NEW r \in Servers, NEW u \in Clients, mem'[r][u] # NoList
                 PROVE  from'[r][u] # Nobody
    BY DEF MembersKnown, Members, MembersIn, Known
  <2> QED BY <1>1, <1>12, <1>13, <2>1 DEF MembersKnown, Members, MembersIn, Known
<1> QED BY <1>18, <1>19, <1>20, <1>21, <1>22, <1>23, <1>24, <1>25 DEF IInv, NetInv

---------------------------------------------------------------------------
(* The invariant holds.                                                    *)

\* Servers that have not met know their own clients, and have said nothing.
LEMMA InitIInv == Init => IInv
<1> SUFFICES ASSUME Init PROVE IInv
  OBVIOUS
<1>1. Types
  BY InitTypes
<1>2. /\ conn = {} /\ \A s \in Servers : serv_list[s] = {}
      /\ \A s \in Servers, u \in Clients :
           from[s][u] = IF Home[u] = s THEN s ELSE Nobody
  BY DEF Init
<1>10. ASSUME NEW x \in Servers, NEW y \in Servers PROVE wire[x, y] = <<>>
  BY DEF Init
<1>3. OverConnections
  BY <1>2 DEF OverConnections
<1>4. NothingElse
  <2>1. SUFFICES ASSUME NEW x \in Servers, NEW y \in Servers, NEW u \in Clients, x # y
                 PROVE  from[y][u] # x
    BY <1>10 DEF NothingElse
  <2> QED BY <1>2, <2>1, NetAssumption
<1>5. OwnClients
  BY <1>2, NetAssumption DEF OwnClients
<1>6. RightWay
  BY <1>2, NetAssumption DEF RightWay
<1>7. Outward
  BY <1>10, EmptySays DEF Outward
<1>8. WillAgree
  BY <1>2 DEF WillAgree
<1>9. MembersKnown
  <2>1. SUFFICES ASSUME NEW s \in Servers, NEW u \in Clients, mem[s][u] # NoList
                 PROVE  from[s][u] # Nobody
    BY DEF MembersKnown, Members, MembersIn, Known
  <2>2. Home[u] = s
    BY <2>1 DEF Init
  <2> QED BY <1>2, <2>2, NetAssumption
<1> QED BY <1>1, <1>3, <1>4, <1>5, <1>6, <1>7, <1>8, <1>9 DEF IInv, NetInv

\* Every step keeps it.
LEMMA NextIInv == IInv /\ [Next]_vars => IInv'
<1> SUFFICES ASSUME IInv, [Next]_vars PROVE IInv'
  OBVIOUS
<1>1. ASSUME NEW e \in Edges, Connect(e) PROVE IInv'
  BY <1>1, QuietStep
<1>2. ASSUME NEW x \in Servers, NEW y \in Servers, Burst(x, y) PROVE IInv'
  BY <1>2, BurstStep
<1>3. ASSUME NEW x \in Servers, NEW y \in Servers, Split(x, y) PROVE IInv'
  BY <1>3, SplitStep
<1>4. ASSUME NEW u \in Clients, Join(u) PROVE IInv'
  BY <1>4, JoinStep
<1>5. ASSUME NEW u \in Clients, Part(u) PROVE IInv'
  BY <1>5, PartStep
<1>6. CASE Tick
  BY <1>6, QuietStep
<1>7. ASSUME NEW s \in Servers, Cleanup(s) PROVE IInv'
  BY <1>7, QuietStep
<1>8. ASSUME NEW s \in Servers, NEW t \in Servers, ReadNick(s, t) PROVE IInv'
  BY <1>8, ReadNickStep
<1>9. ASSUME NEW s \in Servers, NEW t \in Servers, ReadQuit(s, t) PROVE IInv'
  BY <1>9, ReadQuitStep
<1>10. ASSUME NEW s \in Servers, NEW t \in Servers, ReadPart(s, t) PROVE IInv'
  BY <1>10, ReadPartStep
<1>11. ASSUME NEW s \in Servers, NEW t \in Servers, ReadSjoin(s, t) PROVE IInv'
  BY <1>11, ReadSjoinStep
<1>12. CASE UNCHANGED vars
  <2>1. UNCHANGED <<conn, serv_list, wire, from, exists, mem, ts, now, splits, acts, emptied>>
    BY <1>12 DEF vars
  <2>2. Types' /\ MembersKnown'
    BY <2>1 DEF IInv, Types, TypeOK, Wires, MembersKnown, Members, MembersIn, Known
  <2>3. Unsaid
    <3>1. wire \in Wires
      BY DEF IInv, Types
    <3> QED BY <2>1, <3>1, SameSays DEF Unsaid, KeepsSaying
  <2> QED BY <2>2, <2>3, UnsaidKeeps DEF IInv
<1> QED BY <1>1, <1>2, <1>3, <1>4, <1>5, <1>6, <1>7, <1>8, <1>9, <1>10, <1>11, <1>12
        DEF Next

\* TypeOK (ChannelNet): every server's lists of links, clients and members, and
\* every message on a wire, have their types, whatever is joined, left and lost.
THEOREM TypeCorrect == Spec => []TypeOK
<1>1. IInv => TypeOK
  BY DEF IInv, Types
<1> QED BY <1>1, InitIInv, NextIInv, PTL DEF Spec

\* Two ends of a link that have read all there was know the same clients.
LEMMA EndsAgree ==
    ASSUME IInv, NEW x \in Servers, NEW y \in Servers, NEW u \in Clients, x # y,
           y \in serv_list[x], x \in serv_list[y],
           wire[x, y] = <<>>, wire[y, x] = <<>>
    PROVE  from[x][u] = Nobody <=> from[y][u] = Nobody
<1>1. from[y][u] = x <=> from[x][u] \notin {Nobody, y}
  <2>1. Will(x, y, u) <=> from[x][u] \notin {Nobody, y}
    BY DEF IInv, NetInv, WillAgree
  <2>2. Will(x, y, u) <=> from[y][u] = x
    BY EmptySays DEF Will
  <2> QED BY <2>1, <2>2
<1>2. from[x][u] = y <=> from[y][u] \notin {Nobody, x}
  <2>1. Will(y, x, u) <=> from[y][u] \notin {Nobody, x}
    BY DEF IInv, NetInv, WillAgree
  <2>2. Will(y, x, u) <=> from[x][u] = y
    BY EmptySays DEF Will
  <2> QED BY <2>1, <2>2
<1> QED BY <1>1, <1>2, NetAssumption

\* NoGhosts (ChannelNet): no channel has a member its server does not know, and
\* when nothing is under way each server knows exactly the clients it can reach,
\* over any forest of links, however bursts, joins, parts and losses crossed.
THEOREM GhostsGone == Spec => []NoGhosts
<1>1. IInv => NoGhosts
  <2> SUFFICES ASSUME IInv PROVE NoGhosts
    OBVIOUS
  <2>1. ASSUME Quiet, NEW e \in conn, NEW x \in e, NEW y \in e
        PROVE  Known(x) = Known(y)
    <3>1. CASE x = y
      BY <3>1
    <3>2. CASE x # y
      <4>1. e \in Edges
        BY DEF IInv, Types, TypeOK
      <4>2. x \in Servers /\ y \in Servers
        BY <4>1, NetAssumption DEF IsForest
      <4>3. /\ y \in serv_list[x] /\ x \in serv_list[y]
            /\ wire[x, y] = <<>> /\ wire[y, x] = <<>>
        BY <2>1, <3>2, <4>2 DEF Quiet
      <4>4. \A u \in Clients : from[x][u] = Nobody <=> from[y][u] = Nobody
        BY <3>2, <4>2, <4>3, EndsAgree
      <4> QED BY <4>4 DEF Known
    <3> QED BY <3>1, <3>2
  <2>2. OwnClients /\ MembersKnown
    BY DEF IInv, NetInv
  <2> QED BY <2>1, <2>2 DEF NoGhosts, MembersKnown, OwnClients
<1> QED BY <1>1, InitIInv, NextIInv, PTL DEF Spec
============================================================================
