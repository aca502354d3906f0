---------------------------- MODULE TxOrderProofs ----------------------------
(***************************************************************************)
(* The transmit path implements TxQueue: frames of one kind leave towards  *)
(* the chip in the order they were handed over, for every number of        *)
(* senders, buffers, tries and calls.                                      *)
(***************************************************************************)
EXTENDS TxPathProofs

-----------------------------------------------------------------------------
(* Flattening a sequence of sequences, one element after the other.        *)

LEMMA Induction ==
    ASSUME NEW I \in SUBSET Nat, 0 \in I, \A n \in I : n + 1 \in I
    PROVE  I = Nat
<1> SUFFICES ASSUME Nat \ I # {} PROVE FALSE
  OBVIOUS
<1>1. PICK n \in Nat \ I : \A m \in Nat \ I : n <= m
  <2>1. FirstOf(Nat \ I) \in Nat \ I /\ \A m \in Nat \ I : FirstOf(Nat \ I) <= m
    BY FirstIsFirst
  <2> QED
    BY <2>1
<1>2. n # 0 /\ n - 1 \in Nat /\ n - 1 \notin Nat \ I
  BY <1>1
<1>3. (n - 1) + 1 \in I
  BY <1>2
<1> QED
  BY <1>1, <1>3

\* Sequences of sequences over S, and a sequence over S for each of B.
Lists(S) == Seq(Seq(S))
Weights(B, S) == [B -> Seq(S)]

\* F[i] is what the first i elements of s come to.
Sums(s, S) == {F \in [0..Len(s) -> Seq(S)] :
                /\ F[0] = <<>>
                /\ \A i \in 1..Len(s) : F[i] = F[i - 1] \o s[i]}

LEMMA SumsOfPrefix ==
    ASSUME NEW S, NEW s \in Lists(S), NEW u \in Lists(S),
           NEW F \in Sums(s, S), NEW H \in Sums(u, S),
           Len(s) <= Len(u), \A i \in 1..Len(s) : u[i] = s[i]
    PROVE  \A i \in 0..Len(s) : H[i] = F[i]
<1> DEFINE P(i) == i <= Len(s) => H[i] = F[i]
<1>1. Len(s) \in Nat /\ Len(u) \in Nat
  BY DEF Lists
<1>2. P(0)
  BY DEF Sums
<1>3. ASSUME NEW i \in Nat, P(i) PROVE P(i + 1)
  <2> SUFFICES ASSUME i + 1 <= Len(s) PROVE H[i + 1] = F[i + 1]
    OBVIOUS
  <2>1. /\ i + 1 \in 1..Len(s) /\ i + 1 \in 1..Len(u) /\ (i + 1) - 1 = i
        /\ i <= Len(s)
    BY <1>1
  <2>2. F[i + 1] = F[i] \o s[i + 1] /\ H[i + 1] = H[i] \o u[i + 1]
    BY <2>1 DEF Sums
  <2> QED
    BY <1>3, <2>1, <2>2
<1>4. \A i \in Nat : P(i)
  <2> DEFINE I == {i \in Nat : P(i)}
  <2> HIDE DEF P
  <2>1. I \in SUBSET Nat /\ 0 \in I /\ \A i \in I : i + 1 \in I
    BY <1>2, <1>3
  <2> HIDE DEF I
  <2>2. I = Nat
    BY <2>1, Induction
  <2> QED
    BY <2>2 DEF I
<1> QED
  BY <1>1, <1>4

LEMMA SumsExist == ASSUME NEW S, NEW s \in Lists(S) PROVE Sums(s, S) # {}
<1> DEFINE Upto(n) == {F \in [0..n -> Seq(S)] :
                        F[0] = <<>> /\ \A i \in 1..n : F[i] = F[i - 1] \o s[i]}
           I == {n \in Nat : n <= Len(s) => Upto(n) # {}}
<1>1. 0 \in I
  <2> DEFINE F == [i \in 0..0 |-> <<>>]
  <2>1. F \in [0..0 -> Seq(S)] /\ F[0] = <<>> /\ 1..0 = {}
    OBVIOUS
  <2> HIDE DEF F
  <2>2. F \in Upto(0)
    BY <2>1
  <2> QED
    BY <2>2
<1> HIDE DEF Upto
<1>2. ASSUME NEW n \in I PROVE n + 1 \in I
  <2> SUFFICES ASSUME n + 1 <= Len(s) PROVE Upto(n + 1) # {}
    OBVIOUS
  <2>1. n \in Nat /\ n <= Len(s) /\ Upto(n) # {}
    OBVIOUS
  <2>2. PICK F \in Upto(n) : TRUE
    BY <2>1
  <2> DEFINE G == [i \in 0..(n + 1) |-> IF i = n + 1 THEN F[n] \o s[n + 1] ELSE F[i]]
  <2>3. /\ F \in [0..n -> Seq(S)] /\ F[0] = <<>>
        /\ \A i \in 1..n : F[i] = F[i - 1] \o s[i]
    BY <2>2 DEF Upto
  <2> HIDE DEF I
  <2>4. n \in 0..n /\ n + 1 \in 1..Len(s)
    BY <2>1
  <2>5. F[n] \in Seq(S) /\ s[n + 1] \in Seq(S)
    BY <2>3, <2>4 DEF Lists
  <2>6. F[n] \o s[n + 1] \in Seq(S)
    BY <2>5, ConcatProperties
  <2>7. G \in [0..(n + 1) -> Seq(S)]
    <3>1. ASSUME NEW i \in 0..(n + 1), i # n + 1 PROVE i \in 0..n
      BY <2>1, <3>1
    <3> QED
      BY <2>3, <2>6, <3>1
  <2>8. /\ 0 \in 0..(n + 1) /\ n + 1 \in 0..(n + 1) /\ 0 # n + 1
        /\ \A i \in 1..n : i \in 0..(n + 1) /\ i # n + 1
        /\ \A i \in 1..(n + 1) : i - 1 \in 0..(n + 1) /\ i - 1 # n + 1
        /\ (n + 1) - 1 = n /\ \A i \in 1..(n + 1) : i = n + 1 \/ i \in 1..n
    BY <2>1
  <2>9. G[0] = <<>> /\ G[n + 1] = G[n] \o s[n + 1]
        /\ \A i \in 1..n : G[i] = F[i] /\ G[i - 1] = F[i - 1]
    <3>1. \A i \in 0..n : i \in 0..(n + 1) /\ i # n + 1
      BY <2>1
    <3>2. \A i \in 0..n : G[i] = F[i]
      BY <3>1
    <3>3. 0 \in 0..n /\ \A i \in 1..n : i \in 0..n /\ i - 1 \in 0..n
      BY <2>1
    <3>4. G[n + 1] = F[n] \o s[n + 1]
      BY <2>8
    <3> HIDE DEF G
    <3> QED
      BY <2>3, <2>4, <3>2, <3>3, <3>4
  <2> HIDE DEF G
  <2>10. \A i \in 1..(n + 1) : G[i] = G[i - 1] \o s[i]
    BY <2>3, <2>8, <2>9
  <2>11. G \in Upto(n + 1)
    BY <2>7, <2>9, <2>10 DEF Upto
  <2> QED
    BY <2>11
<1>3. I = Nat
  <2>1. I \in SUBSET Nat
    OBVIOUS
  <2> HIDE DEF I
  <2> QED
    BY <1>1, <1>2, <2>1, Induction
<1>4. Len(s) \in Nat
  OBVIOUS
<1>5. Upto(Len(s)) # {}
  BY <1>3, <1>4
<1> QED
  BY <1>5 DEF Sums, Upto

\* FlattenSeq adds up its argument from the left.
LEMMA FlattenIsSum ==
    ASSUME NEW S, NEW s \in Lists(S), NEW F \in Sums(s, S)
    PROVE  FlattenSeq(s) = F[Len(s)] /\ FlattenSeq(s) \in Seq(S)
<1>0. Len(s) \in Nat
  BY DEF Lists
<1>1. /\ F \in [0..Len(s) -> Seq(S)] /\ F[0] = <<>> /\ Len(s) \in Nat
      /\ \A i \in 1..Len(s) : F[i] = F[i - 1] \o s[i]
  BY <1>0 DEF Sums
<1>4. \A i \in 1..Len(s) : s[i] \in Seq(S)
  BY DEF Lists
<1>2. CASE Len(s) = 0
  BY <1>1, <1>2, EmptySeq DEF FlattenSeq
<1>3. CASE Len(s) # 0
  <2> DEFINE Step(f) == [i \in 1..Len(s) |-> IF i = 1 THEN s[i] ELSE f[i - 1] \o s[i]]
             f == CHOOSE g : g = Step(g)
             G == [i \in 1..Len(s) |-> F[i]]
  <2>1. G = Step(G)
    <3>1. F[1] = s[1]
      <4>1. 1 \in 1..Len(s) /\ 1 - 1 = 0
        BY <1>1, <1>3
      <4>2. s[1] \in Seq(S)
        BY <1>4, <4>1
      <4>3. <<>> \o s[1] = s[1]
        BY <4>2, ConcatEmptySeq
      <4> QED
        BY <1>1, <4>1, <4>3
    <3>2. ASSUME NEW i \in 1..Len(s), i # 1 PROVE F[i] = G[i - 1] \o s[i]
      <4>1. i - 1 \in 1..Len(s)
        BY <1>1, <3>2
      <4> QED
        BY <1>1, <4>1
    <3> QED
      BY <3>1, <3>2
  <2> HIDE DEF Step
  <2>2. f = Step(f)
    BY <2>1
  <2>3. FlattenSeq(s) = f[Len(s)]
    BY <1>3 DEF FlattenSeq, Step
  <2> HIDE DEF f
  <2>4. \A i \in 1..Len(s) : f[i] = IF i = 1 THEN s[i] ELSE f[i - 1] \o s[i]
    BY <2>2 DEF Step
  <2> DEFINE I == {i \in Nat : i + 1 <= Len(s) => f[i + 1] = F[i + 1]}
  <2>5. 0 \in I
    <3>1. 1 \in 1..Len(s) /\ 0 + 1 = 1
      BY <1>1, <1>3
    <3>2. f[1] = s[1]
      BY <2>4, <3>1
    <3>3. F[1] = s[1]
      <4>1. s[1] \in Seq(S)
        BY <1>4, <3>1
      <4>2. <<>> \o s[1] = s[1] /\ 1 - 1 = 0
        BY <4>1, ConcatEmptySeq
      <4> QED
        BY <1>1, <3>1, <4>2
    <3> QED
      BY <3>1, <3>2, <3>3
  <2>6. ASSUME NEW i \in I PROVE i + 1 \in I
    <3> SUFFICES ASSUME (i + 1) + 1 <= Len(s) PROVE f[(i + 1) + 1] = F[(i + 1) + 1]
      OBVIOUS
    <3>1. /\ (i + 1) + 1 \in 1..Len(s) /\ ((i + 1) + 1) - 1 = i + 1
          /\ (i + 1) + 1 # 1 /\ f[i + 1] = F[i + 1]
      BY <1>1
    <3>2. f[(i + 1) + 1] = f[i + 1] \o s[(i + 1) + 1]
      BY <2>4, <3>1
    <3>3. F[(i + 1) + 1] = F[i + 1] \o s[(i + 1) + 1]
      BY <1>1, <3>1
    <3> QED
      BY <3>1, <3>2, <3>3
  <2>7. I = Nat
    <3>1. I \in SUBSET Nat
      OBVIOUS
    <3> HIDE DEF I
    <3> QED
      BY <2>5, <2>6, <3>1, Induction
  <2>8. Len(s) - 1 \in Nat /\ (Len(s) - 1) + 1 = Len(s) /\ Len(s) \in 0..Len(s)
    BY <1>1, <1>3
  <2>9. f[Len(s)] = F[Len(s)]
    <3>1. Len(s) - 1 \in I
      BY <2>7, <2>8
    <3>2. f[(Len(s) - 1) + 1] = F[(Len(s) - 1) + 1]
      BY <2>8, <3>1
    <3> QED
      BY <2>8, <3>2
  <2> QED
    BY <1>1, <2>3, <2>8, <2>9
<1> QED
  BY <1>2, <1>3

LEMMA FlattenType == ASSUME NEW S, NEW s \in Lists(S) PROVE FlattenSeq(s) \in Seq(S)
BY SumsExist, FlattenIsSum

\* u is s followed by t.
LEMMA FlattenConcat ==
    ASSUME NEW S, NEW s \in Lists(S), NEW t \in Lists(S), NEW u \in Lists(S),
           Len(u) = Len(s) + Len(t),
           \A i \in 1..Len(s) : u[i] = s[i],
           \A i \in 1..Len(t) : u[Len(s) + i] = t[i]
    PROVE  FlattenSeq(u) = FlattenSeq(s) \o FlattenSeq(t)
<1> DEFINE n == Len(s)
<1>1. /\ Len(u) = n + Len(t) /\ n \in Nat /\ Len(t) \in Nat
      /\ \A i \in 1..Len(t) : t[i] \in Seq(S)
  BY DEF Lists
<1>2. PICK F \in Sums(s, S) : TRUE
  BY SumsExist
<1>3. PICK G \in Sums(t, S) : TRUE
  BY SumsExist
<1>4. PICK H \in Sums(u, S) : TRUE
  BY <1>1, SumsExist
<1>5. F \in Sums(s, S) /\ H \in Sums(u, S) /\ Len(s) <= Len(u)
  BY <1>1, <1>2, <1>4
<1>6. \A i \in 0..Len(s) : H[i] = F[i]
  BY <1>5, SumsOfPrefix
<1> DEFINE a == F[n]
<1>7. a \in Seq(S) /\ H[n] = a
  <2>1. n \in 0..n
    BY <1>1
  <2> QED
    BY <1>6, <2>1 DEF Sums
<1>8. /\ \A i \in 0..Len(t) : G[i] \in Seq(S)
      /\ G[0] = <<>>
      /\ \A i \in 1..Len(t) : G[i] = G[i - 1] \o t[i]
  BY DEF Sums
<1>9. \A i \in 1..(n + Len(t)) : H[i] = H[i - 1] \o u[i]
  BY <1>1 DEF Sums
<1>10. FlattenSeq(s) = a /\ FlattenSeq(t) = G[Len(t)] /\ FlattenSeq(u) = H[n + Len(t)]
  <2>1. FlattenSeq(s) = F[Len(s)] /\ FlattenSeq(t) = G[Len(t)]
    BY FlattenIsSum
  <2>2. FlattenSeq(u) = H[Len(u)]
    BY FlattenIsSum
  <2> QED
    BY <1>1, <2>1, <2>2
<1> HIDE DEF n, a
<1> DEFINE P(i) == i <= Len(t) => H[n + i] = a \o G[i]
<1>11. P(0)
  <2>1. n + 0 = n /\ a \o <<>> = a
    BY <1>1, <1>7, ConcatEmptySeq
  <2> QED
    BY <1>7, <1>8, <2>1
<1>12. ASSUME NEW i \in Nat, P(i) PROVE P(i + 1)
  <2> SUFFICES ASSUME i + 1 <= Len(t) PROVE H[n + (i + 1)] = a \o G[i + 1]
    OBVIOUS
  <2>0. i <= Len(t) /\ i + 1 \in 1..Len(t) /\ (i + 1) - 1 = i /\ i \in 0..Len(t)
    BY <1>1
  <2>1. n + (i + 1) \in 1..(n + Len(t)) /\ (n + (i + 1)) - 1 = n + i
    BY <1>1
  <2>2. H[n + i] = a \o G[i]
    BY <1>12, <2>0
  <2>3. H[n + (i + 1)] = H[n + i] \o u[n + (i + 1)]
    BY <1>9, <2>1
  <2>4. u[n + (i + 1)] = t[i + 1] /\ t[i + 1] \in Seq(S)
    BY <1>1, <2>0 DEF n
  <2>5. G[i + 1] = G[i] \o t[i + 1] /\ G[i] \in Seq(S)
    BY <1>8, <2>0
  <2>6. (a \o G[i]) \o t[i + 1] = a \o (G[i] \o t[i + 1])
    <3> DEFINE x == G[i]
               y == t[i + 1]
    <3>1. x \in Seq(S) /\ y \in Seq(S)
      BY <2>4, <2>5
    <3> HIDE DEF x, y
    <3>2. (a \o x) \o y = a \o (x \o y)
      BY <1>7, <3>1, ConcatAssociative
    <3> QED
      BY <3>2 DEF x, y
  <2> QED
    BY <2>2, <2>3, <2>4, <2>5, <2>6
<1>13. \A i \in Nat : P(i)
  <2> DEFINE I == {i \in Nat : P(i)}
  <2> HIDE DEF P
  <2>1. I \in SUBSET Nat /\ 0 \in I /\ \A i \in I : i + 1 \in I
    BY <1>11, <1>12
  <2> HIDE DEF I
  <2>2. I = Nat
    BY <2>1, Induction
  <2> QED
    BY <2>2 DEF I
<1>14. H[n + Len(t)] = a \o G[Len(t)]
  BY <1>1, <1>13
<1> QED
  BY <1>10, <1>14

\* Empty elements come to nothing.
LEMMA FlattenNothing ==
    ASSUME NEW S, NEW s \in Lists(S), \A i \in 1..Len(s) : s[i] = <<>>
    PROVE  FlattenSeq(s) = <<>>
<1> DEFINE F == [i \in 0..Len(s) |-> <<>>]
<1>1. <<>> \in Seq(S) /\ <<>> \o <<>> = <<>> /\ Len(s) \in Nat /\ Len(s) \in 0..Len(s)
  BY ConcatEmptySeq
<1>2. F \in [0..Len(s) -> Seq(S)] /\ \A i \in 0..Len(s) : F[i] = <<>>
  BY <1>1
<1>3. 0 \in 0..Len(s) /\ \A i \in 1..Len(s) : i \in 0..Len(s) /\ i - 1 \in 0..Len(s)
  BY <1>1
<1> HIDE DEF F
<1>4. F \in Sums(s, S)
  BY <1>1, <1>2, <1>3 DEF Sums
<1> QED
  BY <1>1, <1>2, <1>4, FlattenIsSum

LEMMA FlattenOne == ASSUME NEW S, NEW e \in Seq(S) PROVE FlattenSeq(<<e>>) = e
<1> DEFINE s == <<e>>
           F == [i \in 0..1 |-> IF i = 0 THEN <<>> ELSE e]
<1>1. s \in Lists(S) /\ Len(s) = 1 /\ s[1] = e
  BY DEF Lists
<1>2. <<>> \in Seq(S) /\ <<>> \o e = e
  BY ConcatEmptySeq
<1>3. F \in [0..1 -> Seq(S)] /\ F[0] = <<>> /\ F[1] = e
  BY <1>2
<1> HIDE DEF s, F
<1>4. F \in Sums(s, S)
  <2>1. \A i \in 1..1 : i = 1 /\ i - 1 = 0
    OBVIOUS
  <2> QED
    BY <1>1, <1>2, <1>3, <2>1 DEF Sums
<1>5. FlattenSeq(s) = F[1]
  BY <1>1, <1>4, FlattenIsSum
<1> QED
  BY <1>3, <1>5 DEF s

-----------------------------------------------------------------------------
(* What a list of buffers comes to, where buffer b counts for g[b].        *)

Parts(g, q) == [i \in DOMAIN q |-> g[q[i]]]
Gather(g, q) == FlattenSeq(Parts(g, q))

LEMMA FunctionIsSeq ==
    ASSUME NEW S, NEW n \in Nat, NEW f \in [1..n -> S]
    PROVE  f \in Seq(S) /\ Len(f) = n
OBVIOUS

LEMMA PartsAre ==
    ASSUME NEW S, NEW B, NEW g \in Weights(B, S), NEW q \in Seq(B)
    PROVE  /\ Parts(g, q) \in Lists(S) /\ Len(Parts(g, q)) = Len(q)
           /\ \A i \in 1..Len(q) : Parts(g, q)[i] = g[q[i]]
<1>1. DOMAIN q = 1..Len(q) /\ Len(q) \in Nat /\ \A i \in 1..Len(q) : q[i] \in B
  BY LenProperties, ElementOfSeq
<1>2. Parts(g, q) \in [1..Len(q) -> Seq(S)]
  BY <1>1 DEF Parts, Weights
<1>3. \A i \in 1..Len(q) : Parts(g, q)[i] = g[q[i]]
  BY <1>1 DEF Parts
<1>4. Parts(g, q) \in Lists(S) /\ Len(Parts(g, q)) = Len(q)
  BY <1>1, <1>2, FunctionIsSeq DEF Lists
<1> QED
  BY <1>3, <1>4

LEMMA GatherType ==
    ASSUME NEW S, NEW B, NEW g \in Weights(B, S), NEW q \in Seq(B)
    PROVE  Gather(g, q) \in Seq(S)
BY PartsAre, FlattenType DEF Gather

LEMMA GatherConcat ==
    ASSUME NEW S, NEW B, NEW g \in Weights(B, S), NEW q \in Seq(B), NEW r \in Seq(B)
    PROVE  Gather(g, q \o r) = Gather(g, q) \o Gather(g, r)
<1>1. /\ q \o r \in Seq(B) /\ Len(q \o r) = Len(q) + Len(r)
      /\ Len(q) \in Nat /\ Len(r) \in Nat
      /\ \A i \in 1..Len(q) : (q \o r)[i] = q[i]
      /\ \A i \in 1..Len(r) : (q \o r)[Len(q) + i] = r[i]
  OBVIOUS
<1>2. /\ Parts(g, q) \in Lists(S) /\ Len(Parts(g, q)) = Len(q)
      /\ \A i \in 1..Len(q) : Parts(g, q)[i] = g[q[i]]
  BY PartsAre
<1>3. /\ Parts(g, r) \in Lists(S) /\ Len(Parts(g, r)) = Len(r)
      /\ \A i \in 1..Len(r) : Parts(g, r)[i] = g[r[i]]
  BY PartsAre
<1>4. /\ Parts(g, q \o r) \in Lists(S) /\ Len(Parts(g, q \o r)) = Len(q \o r)
      /\ \A i \in 1..Len(q \o r) : Parts(g, q \o r)[i] = g[(q \o r)[i]]
  <2> DEFINE c == q \o r
  <2>1. c \in Seq(B)
    BY <1>1
  <2> HIDE DEF c
  <2>2. /\ Parts(g, c) \in Lists(S) /\ Len(Parts(g, c)) = Len(c)
        /\ \A i \in 1..Len(c) : Parts(g, c)[i] = g[c[i]]
    BY <2>1, PartsAre
  <2> QED
    BY <2>2 DEF c
<1>5. ASSUME NEW i \in 1..Len(q) PROVE Parts(g, q \o r)[i] = Parts(g, q)[i]
  <2>1. i \in 1..Len(q \o r)
    BY <1>1
  <2> QED
    BY <1>1, <1>2, <1>4, <2>1
<1>6. ASSUME NEW i \in 1..Len(r) PROVE Parts(g, q \o r)[Len(q) + i] = Parts(g, r)[i]
  <2>1. Len(q) + i \in 1..Len(q \o r)
    BY <1>1
  <2> QED
    BY <1>1, <1>3, <1>4, <2>1
<1> DEFINE u == Parts(g, q)
           v == Parts(g, r)
           w == Parts(g, q \o r)
<1>7. /\ u \in Lists(S) /\ v \in Lists(S) /\ w \in Lists(S)
      /\ Len(w) = Len(u) + Len(v)
      /\ \A i \in 1..Len(u) : w[i] = u[i]
      /\ \A i \in 1..Len(v) : w[Len(u) + i] = v[i]
  BY <1>1, <1>2, <1>3, <1>4, <1>5, <1>6
<1> HIDE DEF u, v, w
<1>8. FlattenSeq(w) = FlattenSeq(u) \o FlattenSeq(v)
  BY <1>7, FlattenConcat
<1> QED
  BY <1>8 DEF Gather, u, v, w

LEMMA GatherOne ==
    ASSUME NEW S, NEW B, NEW g \in Weights(B, S), NEW b \in B
    PROVE  Gather(g, <<b>>) = g[b]
<1>1. <<b>> \in Seq(B) /\ DOMAIN <<b>> = {1} /\ <<b>>[1] = b
  OBVIOUS
<1>2. Parts(g, <<b>>) = <<g[b]>>
  BY <1>1 DEF Parts
<1> QED
  BY <1>2, FlattenOne DEF Gather, Weights

LEMMA GatherNothing ==
    ASSUME NEW S, NEW B, NEW g \in Weights(B, S), NEW q \in Seq(B),
           \A i \in 1..Len(q) : g[q[i]] = <<>>
    PROVE  Gather(g, q) = <<>>
<1>1. /\ Parts(g, q) \in Lists(S) /\ Len(Parts(g, q)) = Len(q)
      /\ \A i \in 1..Len(q) : Parts(g, q)[i] = <<>>
  BY PartsAre
<1> QED
  BY <1>1, FlattenNothing DEF Gather

LEMMA GatherSame ==
    ASSUME NEW g, NEW h, NEW q, \A i \in DOMAIN q : g[q[i]] = h[q[i]]
    PROVE  Gather(g, q) = Gather(h, q)
<1>1. Parts(g, q) = Parts(h, q)
  BY DEF Parts
<1> QED
  BY <1>1 DEF Gather

-----------------------------------------------------------------------------
(* Types: tries stay within try_cnt, frames stay frames.                    *)

Tries ==
    /\ calls \in 0..MaxCalls /\ try \in [Senders -> 0..TryCnt]
    /\ \A s \in Senders : spc[s] # "idle" => try[s] # 0

Flags ==
    /\ ack_tx \in BOOLEAN /\ done \in BOOLEAN /\ survey \in BOOLEAN /\ kick \in BOOLEAN
    /\ stopped \in BOOLEAN

Rest ==
    /\ status \in {"submitted", "success", "pkt_fail", "drv_stop"}
    /\ stp \in StopPlaces

Loads == load \in [Bufs -> Seq(Frames)] /\ acq \in Seq(Frames)

InDriver ==
    /\ credit \in [Senders -> Frames \cup {Nothing}]
    /\ chip \subseteq Frames /\ reports \subseteq Frames /\ acked \subseteq Frames

USE DEF bufVars, xmitVars, fillVars, sendVars, ackVars, chipVars, surveyVars, stopVars,
        Goto, Called
USE SendersAssumption, BuffersAssumption, LimitsAssumption

LEMMA TypesInit == Init => Tries /\ Flags /\ Rest /\ Loads /\ InDriver
<1>1. Init => Tries /\ Rest
  BY DEF Init, Tries, Rest, StopPlaces
<1>2. Init => Flags
  BY DEF Init, Flags
<1>3. Init => Loads /\ InDriver
  BY Empty DEF Init, Loads, InDriver
<1> QED
  BY <1>1, <1>2, <1>3

\* A call gives up after its last try.
LEMMA ReturnTries ==
    ASSUME Tries, spc \in [Senders -> SenderPlaces],
           NEW s \in Senders, spc[s] # "idle", NEW ret, Return(s, ret)
    PROVE  /\ try' \in [Senders -> 0..TryCnt]
           /\ \A r \in Senders : spc'[r] # "idle" => try'[r] # 0
<1>1. CASE Goto(s, "alloc") /\ try' = [try EXCEPT ![s] = @ + 1] /\ try[s] < TryCnt
  <2>1. try[s] \in 0..TryCnt /\ try[s] + 1 \in 0..TryCnt /\ try[s] + 1 # 0
    BY <1>1 DEF Tries
  <2> QED
    BY <1>1, <2>1 DEF Tries
<1>2. CASE Goto(s, "idle") /\ UNCHANGED try
  BY <1>2 DEF Tries
<1> QED
  BY <1>1, <1>2 DEF Return

LEMMA TriesStep == ASSUME IInv, Tries, [Next]_vars PROVE Tries'
<1>0. spc \in [Senders -> SenderPlaces]
  BY DEF IInv, Places
<1>1. CASE \E s \in Senders : AllocMgt(s)
  <2>1. PICK s \in Senders : AllocMgt(s)
    BY <1>1
  <2>2. CASE free \cap ExtBufs = {}
    BY <1>0, <2>1, <2>2, ReturnTries DEF Tries, AllocMgt
  <2>3. CASE free \cap ExtBufs # {}
    BY <1>0, <2>1, <2>3 DEF Tries, AllocMgt
  <2> QED
    BY <2>2, <2>3
<1>2. CASE \E s \in Senders : Dump(s)
  <2>1. PICK s \in Senders : Dump(s)
    BY <1>2
  <2>2. CASE stopped
    BY <1>0, <2>1, <2>2, ReturnTries DEF Tries, Dump
  <2>3. CASE ~stopped
    BY <1>0, <2>1, <2>3 DEF Tries, Dump
  <2> QED
    BY <2>2, <2>3
<1>3. CASE \E s \in Senders : UpMgnt(s)
  <2>1. PICK s \in Senders : UpMgnt(s)
    BY <1>3
  <2>2. CASE s \in Waits
    BY <1>0, <2>1, <2>2 DEF Tries, UpMgnt
  <2>3. CASE s \notin Waits
    BY <1>0, <2>1, <2>3, ReturnTries DEF Tries, UpMgnt
  <2> QED
    BY <2>2, <2>3
<1>4. CASE \E s \in Senders : WaitOver(s)
  BY <1>4, <1>0, ReturnTries DEF Tries, WaitOver, Release
<1>5. CASE \E s \in Senders : WaitTimeout(s)
  BY <1>5, <1>0, ReturnTries DEF Tries, WaitTimeout, Release
<1>6. CASE UNCHANGED vars \/ (\E s \in Senders : Issue(s)) \/ (\E s \in Senders :
           LockAck(s)) \/ (\E s \in Senders : InitSctx(s))
  BY <1>6, <1>0 DEF Tries, vars, Issue, LockAck, InitSctx
<1>7. CASE (\E s \in Senders : PutMgnt(s)) \/ NetXmit \/ FillDown \/ FillNext
  BY <1>7, <1>0 DEF Tries, PutMgnt, Enqueue, NetXmit, FillDown, FillNext
<1>8. CASE FillBusy \/ Fill \/ FillPut \/ FillUp
  BY <1>8, <1>0 DEF Tries, FillBusy, Retry, Fill, Pack, FillPut, Enqueue, FillUp
<1>9. CASE XmitDown \/ XmitCheck \/ XmitSelect \/ XmitTake
  BY <1>9, <1>0 DEF Tries, XmitDown, XmitCheck, XmitSelect, XmitTake, Take
<1>10. CASE XmitWrite \/ XmitDrop \/ XmitPutBack \/ XmitFree
  BY <1>10, <1>0 DEF Tries, XmitWrite, XmitDrop, XmitPutBack, EnqueueToHead,
     XmitFree, FreeBuf
<1>11. CASE (\E f \in chip : ChipSends(f)) \/ (\E f \in reports : Report(f)) \/
           SurveyHolds \/ SurveyLetsGo
  BY <1>11, <1>0 DEF Tries, ChipSends, Report, AckTxDone, SurveyHolds, SurveyLetsGo
<1>12. CASE Schedule \/ SetStopped \/ StopAck \/ JoinCmd
  BY <1>12, <1>0 DEF Tries, Schedule, SetStopped, StopAck, AckTxDone, JoinCmd
<1>13. CASE JoinXmit \/ JoinFill
  BY <1>13, <1>0 DEF Tries, JoinXmit, JoinFill
<1> QED
  BY <1>1, <1>2, <1>3, <1>4, <1>5, <1>6, <1>7, <1>8, <1>9, <1>10, <1>11, <1>12,
     <1>13 DEF Next, Call, FillThread, XmitThread, Others, Begin, Stop

LEMMA FlagsStep == ASSUME Flags, [Next]_vars PROVE Flags'
<1>1. CASE UNCHANGED vars \/ (\E s \in Senders : Issue(s)) \/ (\E s \in Senders :
           AllocMgt(s)) \/ (\E s \in Senders : Dump(s))
  BY <1>1, Zenon DEF Flags, vars, Issue, AllocMgt, Return, Dump, FreeBuf
<1>2. CASE (\E s \in Senders : LockAck(s)) \/ (\E s \in Senders : InitSctx(s)) \/
           (\E s \in Senders : PutMgnt(s)) \/ (\E s \in Senders : UpMgnt(s))
  BY <1>2, Zenon DEF Flags, LockAck, InitSctx, PutMgnt, Enqueue, UpMgnt, Return
<1>3. CASE (\E s \in Senders : WaitOver(s)) \/ (\E s \in Senders : WaitTimeout(s))
           \/ NetXmit \/ FillDown
  BY <1>3, Zenon DEF Flags, WaitOver, Release, Return, WaitTimeout, NetXmit,
     FillDown
<1>4. CASE FillNext \/ FillBusy \/ Fill \/ FillPut
  BY <1>4, Zenon DEF Flags, FillNext, FillBusy, Retry, Fill, Pack, FillPut, Enqueue
<1>5. CASE FillUp \/ XmitDown \/ XmitCheck \/ XmitSelect
  BY <1>5, Zenon DEF Flags, FillUp, XmitDown, XmitCheck, XmitSelect
<1>6. CASE XmitTake \/ XmitWrite \/ XmitDrop \/ XmitPutBack
  BY <1>6, Zenon DEF Flags, XmitTake, Take, XmitWrite, XmitDrop, XmitPutBack,
     EnqueueToHead
<1>7. CASE XmitFree \/ (\E f \in chip : ChipSends(f)) \/ (\E f \in reports :
           Report(f)) \/ SurveyHolds
  BY <1>7, Zenon DEF Flags, XmitFree, FreeBuf, ChipSends, Report, AckTxDone,
     SurveyHolds
<1>8. CASE SurveyLetsGo \/ Schedule \/ SetStopped \/ StopAck
  BY <1>8, Zenon DEF Flags, SurveyLetsGo, Schedule, SetStopped, StopAck, AckTxDone
<1>9. CASE JoinCmd \/ JoinXmit \/ JoinFill
  BY <1>9, Zenon DEF Flags, JoinCmd, JoinXmit, JoinFill
<1> QED
  BY <1>1, <1>2, <1>3, <1>4, <1>5, <1>6, <1>7, <1>8, <1>9 DEF Next, Call,
     FillThread, XmitThread, Others, Begin, Stop

LEMMA RestStep == ASSUME Rest, [Next]_vars PROVE Rest'
<1>1. CASE UNCHANGED vars \/ (\E s \in Senders : Issue(s)) \/ (\E s \in Senders :
           AllocMgt(s)) \/ (\E s \in Senders : Dump(s)) \/ (\E s \in Senders :
           LockAck(s)) \/ (\E s \in Senders : InitSctx(s))
  BY <1>1 DEF Rest, StopPlaces, vars, Issue, AllocMgt, Return, Dump, FreeBuf,
     LockAck, InitSctx
<1>2. CASE (\E s \in Senders : PutMgnt(s)) \/ (\E s \in Senders : UpMgnt(s)) \/ (\E
           s \in Senders : WaitOver(s)) \/ (\E s \in Senders : WaitTimeout(s)) \/
           NetXmit \/ FillDown
  BY <1>2 DEF Rest, StopPlaces, PutMgnt, Enqueue, UpMgnt, Return, WaitOver, Release,
     WaitTimeout, NetXmit, FillDown
<1>3. CASE FillNext \/ FillBusy \/ Fill \/ FillPut \/ FillUp \/ XmitDown
  BY <1>3 DEF Rest, StopPlaces, FillNext, FillBusy, Retry, Fill, Pack, FillPut,
     Enqueue, FillUp, XmitDown
<1>4. CASE XmitCheck \/ XmitSelect \/ XmitTake \/ XmitWrite \/ XmitDrop \/
           XmitPutBack
  BY <1>4 DEF Rest, StopPlaces, XmitCheck, XmitSelect, XmitTake, Take, XmitWrite,
     XmitDrop, XmitPutBack, EnqueueToHead
<1>5. CASE XmitFree \/ (\E f \in chip : ChipSends(f)) \/ (\E f \in reports :
           Report(f)) \/ SurveyHolds \/ SurveyLetsGo \/ Schedule
  BY <1>5 DEF Rest, StopPlaces, XmitFree, FreeBuf, ChipSends, Report, AckTxDone,
     SurveyHolds, SurveyLetsGo, Schedule
<1>6. CASE SetStopped \/ StopAck \/ JoinCmd \/ JoinXmit \/ JoinFill
  BY <1>6 DEF Rest, StopPlaces, SetStopped, StopAck, AckTxDone, JoinCmd, JoinXmit,
     JoinFill
<1> QED
  BY <1>1, <1>2, <1>3, <1>4, <1>5, <1>6 DEF Next, Call, FillThread, XmitThread,
     Others, Begin, Stop

LEMMA FramesAre ==
    /\ \A s \in Senders, n \in 1..TryCnt : <<s, n>> \in Frames
    /\ \A c \in 1..MaxCalls : <<Net, c>> \in Frames
BY DEF Frames

\* A sequence is its first n elements and the rest.
LEMMA Halves ==
    ASSUME NEW S, NEW a \in Seq(S), NEW n \in Nat, n <= Len(a)
    PROVE  /\ SubSeq(a, 1, n) \in Seq(S) /\ Len(SubSeq(a, 1, n)) = n
           /\ SubSeq(a, n + 1, Len(a)) \in Seq(S)
           /\ Len(SubSeq(a, n + 1, Len(a))) = Len(a) - n
           /\ SubSeq(a, 1, n) \o SubSeq(a, n + 1, Len(a)) = a
<1> DEFINE q == SubSeq(a, 1, n)
           r == SubSeq(a, n + 1, Len(a))
<1>1. Len(a) \in Nat /\ \A i \in 1..Len(a) : a[i] \in S
  BY LenProperties, ElementOfSeq
<1>2. q \in Seq(S) /\ Len(q) = n /\ \A i \in 1..n : q[i] = a[i]
  <2>1. \A i \in 1..n : a[i] \in S
    BY <1>1
  <2> QED
    BY <1>1, <2>1, SubSeqProperties
<1>3. r \in Seq(S) /\ Len(r) = Len(a) - n /\ \A i \in 1..(Len(a) - n) : r[i] = a[n + i]
  <2>1. \A i \in (n + 1)..Len(a) : a[i] \in S
    BY <1>1
  <2> QED
    BY <1>1, <2>1, SubSeqProperties
<1> HIDE DEF q, r
<1>4. /\ q \o r \in Seq(S) /\ Len(q \o r) = Len(a)
      /\ \A i \in 1..Len(a) : (q \o r)[i] = IF i <= n THEN q[i] ELSE r[i - n]
  <2>1. /\ q \o r \in Seq(S) /\ Len(q \o r) = Len(q) + Len(r)
        /\ \A i \in 1..(Len(q) + Len(r)) :
               (q \o r)[i] = IF i <= Len(q) THEN q[i] ELSE r[i - Len(q)]
    BY <1>2, <1>3, ConcatProperties
  <2>2. Len(q) = n /\ Len(q) + Len(r) = Len(a)
    BY <1>1, <1>2, <1>3
  <2> QED
    BY <2>1, <2>2
<1>5. ASSUME NEW i \in 1..Len(a) PROVE (q \o r)[i] = a[i]
  <2>1. CASE i <= n
    BY <1>1, <1>2, <1>4, <2>1
  <2>2. CASE ~(i <= n)
    <3>1. i - n \in 1..(Len(a) - n) /\ n + (i - n) = i
      BY <1>1, <2>2
    <3> QED
      BY <1>3, <1>4, <2>2, <3>1
  <2> QED
    BY <2>1, <2>2
<1>6. q \o r = a
  BY <1>4, <1>5, SeqEqual
<1> QED
  BY <1>2, <1>3, <1>6 DEF q, r

\* What Fill does to the frames: nothing, or the first ones go into a free buffer.
LEMMA FillMoves ==
    ASSUME Loads, Fill, acq # <<>>
    PROVE  \/ UNCHANGED <<free, load, acq, dbuf>> /\ dpc' = "next"
           \/ \E b \in free \cap DataBufs, q \in Seq(Frames) :
                /\ free' = free \ {b} /\ load' = [load EXCEPT ![b] = q] /\ dbuf' = b
                /\ q # <<>> /\ acq' \in Seq(Frames) /\ q \o acq' = acq
                /\ dpc' \in {"full", "put"} /\ (dpc' = "full" => acq' # <<>>)
<1>1. CASE free \cap DataBufs # {} /\ Pack(Alloc(DataBufs))
  <2> DEFINE n == IF Len(acq) < MaxAgg THEN Len(acq) ELSE MaxAgg
             b == Alloc(DataBufs)
             q == SubSeq(acq, 1, n)
             r == SubSeq(acq, n + 1, Len(acq))
  <2>1. b \in free \cap DataBufs
    BY <1>1, AllocFree
  <2>2. acq \in Seq(Frames) /\ Len(acq) \in Nat /\ Len(acq) # 0
    BY EmptySeq DEF Loads
  <2>3. n \in Nat /\ n <= Len(acq) /\ n # 0
    BY <2>2
  <2>4. /\ free' = free \ {b} /\ load' = [load EXCEPT ![b] = q] /\ dbuf' = b
        /\ acq' = r /\ dpc' = IF n < Len(acq) THEN "full" ELSE "put"
    BY <1>1 DEF Pack
  <2> HIDE DEF n, b
  <2>5. /\ q \in Seq(Frames) /\ Len(q) = n /\ r \in Seq(Frames)
        /\ Len(r) = Len(acq) - n /\ q \o r = acq
    BY <2>2, <2>3, Halves
  <2>6. q # <<>> /\ (n < Len(acq) => r # <<>>)
    <3>1. Len(<<>>) = 0
      OBVIOUS
    <3>2. Len(q) # 0 /\ (n < Len(acq) => Len(r) # 0)
      BY <2>2, <2>3, <2>5
    <3> QED
      BY <3>1, <3>2
  <2> HIDE DEF q, r
  <2> QED
    BY <2>1, <2>4, <2>5, <2>6
<1>2. CASE Retry /\ UNCHANGED <<free, load, acq, dbuf>>
  BY <1>2 DEF Retry
<1> QED
  BY <1>1, <1>2 DEF Fill

\* A buffer that is not free is loaded: a management buffer with one frame of a
\* sender, a data buffer with frames of the network stack.  A full buffer leaves
\* frames behind.
Loaded ==
    /\ \A b \in ExtBufs \ free : \E s \in Senders, n \in 1..TryCnt : load[b] = <<<<s, n>>>>
    /\ \A b \in DataBufs \ free : load[b] # <<>> /\ load[b][1][1] = Net
    /\ dpc \in {"fill", "full", "fullup"} => acq # <<>>

LEMMA LoadedInit == Init => Loaded
BY DEF Init, Loaded, Bufs

\* One buffer is given back, the others stay as they are.
LEMMA GivenBack ==
    ASSUME Loads, Loaded, NEW b \in Bufs, FreeBuf(b), UNCHANGED <<acq, dpc>>
    PROVE  Loads' /\ Loaded'
<1>1. load' = [load EXCEPT ![b] = <<>>] /\ free' = free \cup {b}
  BY DEF FreeBuf
<1>2. Loads'
  BY <1>1, Empty DEF Loads
<1>3. \A c \in Bufs : c # b => load'[c] = load[c]
  BY <1>1 DEF Loads
<1> QED
  BY <1>1, <1>2, <1>3 DEF Loaded, Bufs

LEMMA LoadsStep ==
    ASSUME IInv, Tries, Loads, Loaded, [Next]_vars
    PROVE  Loads' /\ Loaded'
<1>1. CASE \E s \in Senders : AllocMgt(s)
  <2>1. PICK s \in Senders : AllocMgt(s)
    BY <1>1
  <2>2. CASE free \cap ExtBufs = {}
    BY <2>1, <2>2 DEF AllocMgt, Loads, Loaded
  <2>3. CASE free \cap ExtBufs # {}
    <3> DEFINE b == Alloc(ExtBufs)
               f == <<s, try[s]>>
    <3>1. b \in free /\ b \in ExtBufs /\ b \in Bufs /\ b \notin DataBufs
      BY <2>3, AllocFree DEF Bufs
    <3>2. free' = free \ {b} /\ load' = [load EXCEPT ![b] = <<f>>] /\ UNCHANGED <<acq, dpc>>
      BY <2>1, <2>3 DEF AllocMgt
    <3>3. try[s] \in 1..TryCnt
      BY <2>1 DEF AllocMgt, Tries
    <3>4. f \in Frames
      BY <3>3, FramesAre
    <3> HIDE DEF b
    <3>5. <<f>> \in Seq(Frames)
      BY <3>4, Single
    <3>6. Loads' /\ load'[b] = <<f>> /\ \A c \in Bufs : c # b => load'[c] = load[c]
      BY <3>1, <3>2, <3>5 DEF Loads
    <3> QED
      BY <3>1, <3>2, <3>3, <3>6 DEF Loaded, Bufs
  <2> QED
    BY <2>2, <2>3
<1>2. CASE \E s \in Senders : Dump(s)
  <2>1. PICK s \in Senders : Dump(s)
    BY <1>2
  <2>2. CASE stopped
    <3>1. sbuf[s] \in Bufs
      BY <2>1 DEF IInv, InHand, Dump, Bufs
    <3> QED
      BY <2>1, <2>2, <3>1, GivenBack DEF Dump
  <2>3. CASE ~stopped
    BY <2>1, <2>3 DEF Dump, Loads, Loaded
  <2> QED
    BY <2>2, <2>3
<1>3. CASE NetXmit
  <2>1. calls' \in 1..MaxCalls /\ UNCHANGED <<free, load, dpc>>
        /\ acq' = Append(acq, <<Net, calls'>>)
    BY <1>3 DEF NetXmit, Tries
  <2>2. <<Net, calls'>> \in Frames
    BY <2>1, FramesAre
  <2>3. acq' \in Seq(Frames) /\ acq' # <<>>
    BY <2>1, <2>2, AppendProperties DEF Loads
  <2> QED
    BY <2>1, <2>3 DEF Loads, Loaded
<1>4. CASE Fill
  <2>1. acq # <<>>
    BY <1>4 DEF Loaded, Fill
  <2>2. CASE UNCHANGED <<free, load, acq, dbuf>> /\ dpc' = "next"
    BY <2>2 DEF Loads, Loaded
  <2>3. ASSUME NEW b \in free \cap DataBufs, NEW q \in Seq(Frames),
               free' = free \ {b}, load' = [load EXCEPT ![b] = q], q # <<>>,
               acq' \in Seq(Frames), q \o acq' = acq,
               dpc' \in {"full", "put"}, dpc' = "full" => acq' # <<>>
        PROVE  Loads' /\ Loaded'
    <3>1. b \in Bufs /\ b \notin ExtBufs
      BY <2>3 DEF Bufs
    <3>2. Loads' /\ load'[b] = q /\ \A c \in Bufs : c # b => load'[c] = load[c]
      BY <2>3, <3>1 DEF Loads
    <3>3. q[1][1] = Net
      <4>1. Len(q) \in Nat /\ Len(q) # 0 /\ Len(acq') \in Nat
        BY <2>3, EmptySeq
      <4>2. acq[1] = q[1] /\ 1 \in DOMAIN acq
        BY <2>3, <4>1
      <4> QED
        BY <4>2 DEF IInv, Contents
    <3>4. ASSUME NEW c \in ExtBufs \ free'
          PROVE  \E s \in Senders, n \in 1..TryCnt : load'[c] = <<<<s, n>>>>
      <4>1. c \in ExtBufs \ free /\ c # b /\ c \in Bufs
        BY <2>3, <3>1 DEF Bufs
      <4>2. load'[c] = load[c]
        BY <3>2, <4>1
      <4> QED
        BY <4>1, <4>2 DEF Loaded
    <3>5. ASSUME NEW c \in DataBufs \ free'
          PROVE  load'[c] # <<>> /\ load'[c][1][1] = Net
      <4>1. CASE c = b
        BY <2>3, <3>2, <3>3, <4>1
      <4>2. CASE c # b
        BY <2>3, <3>2, <4>2 DEF Loaded, Bufs
      <4> QED
        BY <4>1, <4>2
    <3> QED
      BY <2>3, <3>2, <3>4, <3>5 DEF Loaded
  <2> QED
    BY <1>4, <2>1, <2>2, <2>3, FillMoves
<1>5. CASE XmitFree
  <2>1. xbuf \in Bufs
    BY <1>5 DEF IInv, InHand, XmitFree
  <2> QED
    BY <1>5, <2>1, GivenBack DEF XmitFree
<1>6. CASE UNCHANGED vars \/ (\E s \in Senders : Issue(s)) \/ (\E s \in Senders :
           LockAck(s)) \/ (\E s \in Senders : InitSctx(s))
  BY <1>6 DEF Loads, Loaded, vars, Issue, LockAck, InitSctx
<1>7. CASE (\E s \in Senders : PutMgnt(s)) \/ (\E s \in Senders : UpMgnt(s)) \/ (\E
           s \in Senders : WaitOver(s)) \/ (\E s \in Senders : WaitTimeout(s))
  BY <1>7 DEF Loads, Loaded, PutMgnt, Enqueue, UpMgnt, Return, WaitOver, Release,
     WaitTimeout
<1>8. CASE FillDown \/ FillNext \/ FillBusy \/ FillPut
  BY <1>8 DEF Loads, Loaded, FillDown, FillNext, FillBusy, Retry, FillPut, Enqueue
<1>9. CASE FillUp \/ XmitDown \/ XmitCheck \/ XmitSelect
  BY <1>9 DEF Loads, Loaded, FillUp, XmitDown, XmitCheck, XmitSelect
<1>10. CASE XmitTake \/ XmitWrite \/ XmitDrop \/ XmitPutBack
  BY <1>10 DEF Loads, Loaded, XmitTake, Take, XmitWrite, XmitDrop, XmitPutBack,
     EnqueueToHead
<1>11. CASE (\E f \in chip : ChipSends(f)) \/ (\E f \in reports : Report(f)) \/
           SurveyHolds \/ SurveyLetsGo
  BY <1>11 DEF Loads, Loaded, ChipSends, Report, AckTxDone, SurveyHolds,
     SurveyLetsGo
<1>12. CASE Schedule \/ SetStopped \/ StopAck \/ JoinCmd
  BY <1>12 DEF Loads, Loaded, Schedule, SetStopped, StopAck, AckTxDone, JoinCmd
<1>13. CASE JoinXmit \/ JoinFill
  BY <1>13 DEF Loads, Loaded, JoinXmit, JoinFill
<1> QED
  BY <1>1, <1>2, <1>3, <1>4, <1>5, <1>6, <1>7, <1>8, <1>9, <1>10, <1>11, <1>12,
     <1>13 DEF Next, Call, FillThread, XmitThread, Others, Begin, Stop

LEMMA InDriverStep ==
    ASSUME IInv, Loads, InDriver, [Next]_vars
    PROVE  InDriver'
<1>1. CASE XmitWrite
  <2>1. xbuf \in Bufs
    BY <1>1 DEF IInv, InHand, XmitWrite
  <2>2. ToSet(load[xbuf]) \subseteq Frames
    BY <2>1 DEF Loads, ToSet
  <2> QED
    BY <1>1, <2>2 DEF InDriver, XmitWrite
<1>2. CASE \E f \in reports : Report(f)
  <2>1. PICK f \in reports : Report(f)
    BY <1>2
  <2>2. f \in Frames
    BY <2>1 DEF InDriver
  <2> QED
    BY <2>1, <2>2 DEF InDriver, Report
<1>3. CASE UNCHANGED vars \/ (\E s \in Senders : Issue(s)) \/ (\E s \in Senders :
           AllocMgt(s)) \/ (\E s \in Senders : Dump(s))
  BY <1>3 DEF InDriver, vars, Issue, AllocMgt, Return, Dump, FreeBuf
<1>4. CASE (\E s \in Senders : LockAck(s)) \/ (\E s \in Senders : InitSctx(s)) \/
           (\E s \in Senders : PutMgnt(s)) \/ (\E s \in Senders : UpMgnt(s))
  BY <1>4 DEF InDriver, LockAck, InitSctx, PutMgnt, Enqueue, UpMgnt, Return
<1>5. CASE (\E s \in Senders : WaitOver(s)) \/ (\E s \in Senders : WaitTimeout(s))
           \/ NetXmit \/ FillDown
  BY <1>5 DEF InDriver, WaitOver, Release, Return, WaitTimeout, NetXmit, FillDown
<1>6. CASE FillNext \/ FillBusy \/ Fill \/ FillPut
  BY <1>6 DEF InDriver, FillNext, FillBusy, Retry, Fill, Pack, FillPut, Enqueue
<1>7. CASE FillUp \/ XmitDown \/ XmitCheck \/ XmitSelect
  BY <1>7 DEF InDriver, FillUp, XmitDown, XmitCheck, XmitSelect
<1>8. CASE XmitTake \/ XmitDrop \/ XmitPutBack \/ XmitFree
  BY <1>8 DEF InDriver, XmitTake, Take, XmitDrop, XmitPutBack, EnqueueToHead,
     XmitFree, FreeBuf
<1>9. CASE (\E f \in chip : ChipSends(f)) \/ SurveyHolds \/ SurveyLetsGo \/ Schedule
  BY <1>9 DEF InDriver, ChipSends, SurveyHolds, SurveyLetsGo, Schedule
<1>10. CASE SetStopped \/ StopAck \/ JoinCmd \/ JoinXmit
  BY <1>10 DEF InDriver, SetStopped, StopAck, AckTxDone, JoinCmd, JoinXmit
<1>11. CASE JoinFill
  BY <1>11 DEF InDriver, JoinFill
<1> QED
  BY <1>1, <1>2, <1>3, <1>4, <1>5, <1>6, <1>7, <1>8, <1>9, <1>10, <1>11 DEF Next,
     Call, FillThread, XmitThread, Others, Begin, Stop

Typed == Tries /\ Flags /\ Rest /\ Loads /\ Loaded /\ InDriver

LEMMA TypedInvariance == Spec => [](IInv /\ Typed)
<1>1. Init => Typed
  BY TypesInit, LoadedInit DEF Typed
<1>2. ASSUME IInv, Typed, [Next]_vars PROVE Typed'
  BY <1>2, TriesStep, FlagsStep, RestStep, LoadsStep, InDriverStep DEF Typed
<1> QED
  BY <1>1, <1>2, Invariance, PTL DEF Spec

\* Every variable has its type: in particular no call of issue_xxx_ex goes on after
\* its try_cnt tries, and whatever is in a buffer, the chip or a report is a frame
\* that was handed over.
THEOREM TransmitTypes == Spec => []TypeOK
<1>1. IInv /\ Typed => TypeOK
  <2> SUFFICES ASSUME IInv, Typed PROVE TypeOK
    OBVIOUS
  <2>1. /\ free \subseteq Bufs /\ pending \in Seq(Bufs) /\ xbuf \in Bufs \cup {Nothing}
        /\ dbuf \in DataBufs \cup {Nothing}
        /\ sbuf \in [Senders -> ExtBufs \cup {Nothing}]
    BY DEF IInv, InHand
  <2>2. /\ sema \in 0..SemaMax /\ sdio_sema \in 0..SemaMax
        /\ xpc \in XmitPlaces /\ dpc \in FillPlaces /\ spc \in [Senders -> SenderPlaces]
        /\ told \in [Senders -> {"none", "success", "fail"}]
        /\ mutex \in Senders \cup {Nothing}
    BY DEF IInv, Places, Progress, Locking
  <2> QED
    BY <2>1, <2>2, Zenon DEF TypeOK, Typed, Tries, Flags, Rest, Loads, InDriver
<1> QED
  BY <1>1, TypedInvariance, PTL

-----------------------------------------------------------------------------
(* What is on its way to the chip, and what a step does to it.              *)

\* Only free buffers are filled, only senders and XmitFree empty them.
LEMMA CarriedKept ==
    ASSUME IInv, Loads, Loaded, [Next]_vars, NEW b \in Bufs, b \notin free,
           \A s \in Senders : sbuf[s] # b, b = xbuf => xpc = "poll"
    PROVE  load'[b] = load[b]
<1>1. CASE \E s \in Senders : AllocMgt(s)
  <2>1. PICK s \in Senders : AllocMgt(s)
    BY <1>1
  <2>2. CASE free \cap ExtBufs = {}
    BY <2>1, <2>2 DEF AllocMgt
  <2>3. CASE free \cap ExtBufs # {}
    <3> DEFINE a == Alloc(ExtBufs)
    <3>1. a \in free
      BY <2>3, AllocFree
    <3>2. load' = [load EXCEPT ![a] = <<<<s, try[s]>>>>]
      BY <2>1, <2>3 DEF AllocMgt
    <3> HIDE DEF a
    <3> QED
      BY <3>1, <3>2 DEF Loads
  <2> QED
    BY <2>2, <2>3
<1>2. CASE \E s \in Senders : Dump(s)
  BY <1>2 DEF Dump, FreeBuf, Loads
<1>3. CASE Fill
  <2>1. acq # <<>>
    BY <1>3 DEF Loaded, Fill
  <2>2. ASSUME NEW c \in free \cap DataBufs, NEW q, load' = [load EXCEPT ![c] = q]
        PROVE  load'[b] = load[b]
    BY <2>2 DEF Loads
  <2> QED
    BY <1>3, <2>1, <2>2, FillMoves
<1>4. CASE XmitFree
  BY <1>4 DEF XmitFree, FreeBuf, Loads
<1>5. CASE UNCHANGED vars \/ (\E s \in Senders : Issue(s)) \/ (\E s \in Senders :
           LockAck(s)) \/ (\E s \in Senders : InitSctx(s))
  BY <1>5 DEF Loads, vars, Issue, LockAck, InitSctx
<1>6. CASE (\E s \in Senders : PutMgnt(s)) \/ (\E s \in Senders : UpMgnt(s)) \/ (\E
           s \in Senders : WaitOver(s)) \/ (\E s \in Senders : WaitTimeout(s))
  BY <1>6 DEF Loads, PutMgnt, Enqueue, UpMgnt, Return, WaitOver, Release,
     WaitTimeout
<1>7. CASE NetXmit \/ FillDown \/ FillNext \/ FillBusy
  BY <1>7 DEF Loads, NetXmit, FillDown, FillNext, FillBusy, Retry
<1>8. CASE FillPut \/ FillUp \/ XmitDown \/ XmitCheck
  BY <1>8 DEF Loads, FillPut, Enqueue, FillUp, XmitDown, XmitCheck
<1>9. CASE XmitSelect \/ XmitTake \/ XmitWrite \/ XmitDrop
  BY <1>9 DEF Loads, XmitSelect, XmitTake, Take, XmitWrite, XmitDrop
<1>10. CASE XmitPutBack \/ (\E f \in chip : ChipSends(f)) \/ (\E f \in reports :
           Report(f)) \/ SurveyHolds
  BY <1>10 DEF Loads, XmitPutBack, EnqueueToHead, ChipSends, Report, AckTxDone,
     SurveyHolds
<1>11. CASE SurveyLetsGo \/ Schedule \/ SetStopped \/ StopAck
  BY <1>11 DEF Loads, SurveyLetsGo, Schedule, SetStopped, StopAck, AckTxDone
<1>12. CASE JoinCmd \/ JoinXmit \/ JoinFill
  BY <1>12 DEF Loads, JoinCmd, JoinXmit, JoinFill
<1> QED
  BY <1>1, <1>2, <1>3, <1>4, <1>5, <1>6, <1>7, <1>8, <1>9, <1>10, <1>11, <1>12 DEF
     Next, Call, FillThread, XmitThread, Others, Begin, Stop

\* The part of each buffer that is of kind k, where ld is what is in the buffers;
\* and what comes after the buffers: data frames not in the pending queue yet.
Weight(k, ld) == [b \in Bufs |-> IF KindOf(ld[b][1]) = k THEN ld[b] ELSE <<>>]
Behind(k) == IF k = "data" THEN Packed \o acq ELSE <<>>

WellFormed(k) ==
    /\ InFlight \in Seq(Bufs) /\ Weight(k, load) \in Weights(Bufs, Frames)
    /\ Behind(k) \in Seq(Frames)
    /\ FramesOf(k) = Gather(Weight(k, load), InFlight) \o Behind(k)

LEMMA FramesOfAre == ASSUME IInv, Loads, NEW k PROVE WellFormed(k)
<1>1. InFlight \in Seq(Bufs)
  <2>1. CASE xpc = "poll"
    <3>1. xbuf \in Bufs /\ pending \in Seq(Bufs)
      BY <2>1 DEF IInv, InHand
    <3>2. <<xbuf>> \in Seq(Bufs)
      BY <3>1, Single
    <3> QED
      BY <2>1, <3>1, <3>2, ConcatProperties DEF InFlight
  <2>2. CASE xpc # "poll"
    <3>1. pending \in Seq(Bufs)
      BY DEF IInv, InHand
    <3>2. <<>> \o pending = pending
      BY <3>1, ConcatEmptySeq
    <3> QED
      BY <2>2, <3>1, <3>2 DEF InFlight
  <2> QED
    BY <2>1, <2>2
<1>2. Weight(k, load) \in Weights(Bufs, Frames)
  BY Empty DEF Weight, Weights, Loads
<1>3. Behind(k) \in Seq(Frames)
  <2>1. Packed \in Seq(Frames) /\ acq \in Seq(Frames) /\ <<>> \in Seq(Frames)
    BY Empty DEF IInv, InHand, Packed, Loads, Bufs
  <2> QED
    BY <2>1, ConcatProperties DEF Behind
<1>4. FramesOf(k) = Gather(Weight(k, load), InFlight) \o Behind(k)
  <2>1. \A i \in DOMAIN InFlight : InFlight[i] \in Bufs
    <3> DEFINE q == InFlight
    <3>1. q \in Seq(Bufs)
      BY <1>1
    <3> HIDE DEF q
    <3>2. \A i \in DOMAIN q : q[i] \in Bufs
      BY <3>1
    <3> QED
      BY <3>2 DEF q
  <2>2. [i \in DOMAIN InFlight |-> PartOf(k, InFlight[i])]
            = Parts(Weight(k, load), InFlight)
    BY <2>1 DEF Parts, PartOf, Weight
  <2> QED
    BY <2>2 DEF FramesOf, Gather, Behind
<1> QED
  BY <1>1, <1>2, <1>3, <1>4 DEF WellFormed

LEMMA AlwaysWellFormed == \A j : IInv /\ Loads => WellFormed(j)
BY FramesOfAre

\* The same about the next state.
LEMMA FramesOfNext ==
    ASSUME IInv, Typed, [Next]_vars, NEW k
    PROVE  /\ InFlight' \in Seq(Bufs) /\ Weight(k, load') \in Weights(Bufs, Frames)
           /\ Behind(k)' \in Seq(Frames)
           /\ FramesOf(k)' = Gather(Weight(k, load'), InFlight') \o Behind(k)'
<1>1. IInv' /\ Loads'
  BY InvStep, LoadsStep DEF Typed
<1>2. (\A j : IInv /\ Loads => WellFormed(j))'
  BY AlwaysWellFormed, PTL
<1>3. WellFormed(k)'
  BY <1>1, <1>2
<1> QED
  BY <1>3 DEF WellFormed

\* A buffer in flight is not free, not empty, in nobody's hand.
LEMMA Flying ==
    ASSUME IInv, NEW i \in DOMAIN InFlight
    PROVE  /\ InFlight[i] \in Bufs /\ InFlight[i] \notin free /\ InFlight[i] # dbuf
           /\ \A s \in Senders : sbuf[s] # InFlight[i]
           /\ InFlight[i] = xbuf => xpc = "poll"
<1>0. pending \in Seq(Bufs) /\ \A j \in DOMAIN pending : pending[j] \in ToSet(pending)
  BY DEF IInv, InHand, ToSet
<1>1. CASE xpc = "poll"
  <2>1. xbuf # Nothing /\ xbuf \in Bufs
    BY <1>1, Tags DEF IInv, InHand
  <2>2. xbuf \notin free /\ xbuf # dbuf /\ \A s \in Senders : sbuf[s] # xbuf
    BY <2>1 DEF IInv, OneOwner, NothingShared
  <2>3. InFlight[i] = xbuf \/ \E j \in DOMAIN pending : InFlight[i] = pending[j]
    <3> DEFINE q == <<xbuf>> \o pending
    <3>1. q = InFlight
      BY <1>1 DEF InFlight
    <3>2. /\ <<xbuf>> \in Seq(Bufs) /\ Len(<<xbuf>>) = 1 /\ <<xbuf>>[1] = xbuf
          /\ Len(pending) \in Nat
      BY <1>0, <2>1
    <3>3. DOMAIN q = 1..(1 + Len(pending))
          /\ q[1] = xbuf /\ \A j \in 1..Len(pending) : q[1 + j] = pending[j]
      BY <1>0, <2>1
    <3> HIDE DEF q
    <3>4. i \in 1..(1 + Len(pending))
      BY <3>1, <3>3
    <3>5. i = 1 \/ (i - 1 \in 1..Len(pending) /\ 1 + (i - 1) = i)
      BY <3>2, <3>4
    <3> QED
      BY <1>0, <3>1, <3>3, <3>5
  <2>4. ASSUME NEW j \in DOMAIN pending
        PROVE  /\ pending[j] \in Bufs /\ pending[j] \notin free /\ pending[j] # dbuf
               /\ \A s \in Senders : sbuf[s] # pending[j]
    BY <1>0, Listed DEF IInv, OneOwner, NothingShared
  <2> QED
    BY <1>1, <2>1, <2>2, <2>3, <2>4
<1>2. CASE xpc # "poll"
  <2>1. InFlight = pending
    BY <1>0, <1>2, ConcatEmptySeq DEF InFlight
  <2> QED
    BY <1>0, <2>1, Listed DEF IInv, OneOwner, NothingShared
<1> QED
  BY <1>1, <1>2

\* Buffers in flight keep their frames, and count for what they did.
LEMMA SameWeight ==
    ASSUME IInv, Typed, [Next]_vars, NEW k
    PROVE  Gather(Weight(k, load'), InFlight) = Gather(Weight(k, load), InFlight)
<1>1. ASSUME NEW i \in DOMAIN InFlight PROVE load'[InFlight[i]] = load[InFlight[i]]
  BY Flying, CarriedKept DEF Typed
<1>2. ASSUME NEW i \in DOMAIN InFlight
      PROVE  Weight(k, load')[InFlight[i]] = Weight(k, load)[InFlight[i]]
  <2>1. InFlight[i] \in Bufs
    BY Flying
  <2> QED
    BY <1>1, <2>1 DEF Weight
<1> QED
  BY <1>2, GatherSame

\* So do the frames in the hands of RTWHALXT.
LEMMA SamePacked ==
    ASSUME IInv, Typed, [Next]_vars, UNCHANGED dbuf
    PROVE  UNCHANGED Packed
<1>1. CASE dbuf = Nothing
  BY <1>1 DEF Packed
<1>2. CASE dbuf # Nothing
  <2>1. dbuf \in Bufs
    BY <1>2 DEF IInv, InHand, Bufs
  <2>2. dbuf \notin free /\ dbuf # xbuf /\ \A s \in Senders : sbuf[s] # dbuf
    <3>1. \A s \in Senders : sbuf[s] = Nothing \/ sbuf[s] \in ExtBufs
      BY DEF IInv, InHand
    <3>2. dbuf \in DataBufs
      BY <1>2 DEF IInv, InHand
    <3>3. \A s \in Senders : sbuf[s] # dbuf
      BY <1>2, <3>1, <3>2, Tags
    <3> QED
      BY <1>2, <2>1, <3>3 DEF IInv, OneOwner, NothingShared
  <2>3. load'[dbuf] = load[dbuf]
    BY <2>1, <2>2, CarriedKept DEF Typed
  <2> QED
    BY <1>2, <2>3 DEF Packed
<1> QED
  BY <1>1, <1>2

\* A step that leaves the buffers in flight and the frames behind them alone.
LEMMA Quiet ==
    ASSUME IInv, Typed, [Next]_vars, NEW k, UNCHANGED <<InFlight, dbuf, acq>>
    PROVE  UNCHANGED FramesOf(k)
<1>1. UNCHANGED Behind(k)
  BY SamePacked DEF Behind
<1>2. FramesOf(k)' = Gather(Weight(k, load'), InFlight) \o Behind(k)
  BY <1>1, FramesOfNext
<1>3. FramesOf(k) = Gather(Weight(k, load), InFlight) \o Behind(k)
  BY FramesOfAre DEF Typed, WellFormed
<1> QED
  BY <1>2, <1>3, SameWeight

LEMMA QuietHands ==
    ASSUME IInv, Typed, [Next]_vars, NEW k, UNCHANGED <<pending, dbuf, acq>>,
           \/ xpc = "poll" /\ xpc' = "poll" /\ xbuf' = xbuf
           \/ xpc # "poll" /\ xpc' # "poll"
    PROVE  UNCHANGED FramesOf(k)
<1>1. UNCHANGED InFlight
  BY DEF InFlight
<1> QED
  BY <1>1, Quiet

-----------------------------------------------------------------------------
(* Each step accepts a frame, lets a buffer leave, or does neither.         *)

Accepts(k) == \E f \in Frames : FramesOf(k)' = Append(FramesOf(k), f)
Leaves(k) == \E n \in 1..Len(FramesOf(k)) :
                 FramesOf(k)' = SubSeq(FramesOf(k), n + 1, Len(FramesOf(k)))
InOrder(k) == UNCHANGED FramesOf(k) \/ Accepts(k) \/ Leaves(k)

\* A sequence of one.
One(e) == <<e>>

\* What a buffer in use counts for.
LEMMA Cargo ==
    ASSUME Typed, NEW b \in Bufs, b \notin free, NEW k
    PROVE  LET w == Weight(k, load)[b]
           IN  /\ w \in Seq(Frames)
               /\ b \in DataBufs => w = IF k = "data" THEN load[b] ELSE <<>>
               /\ b \in ExtBufs => w = <<>> \/ (k # "data" /\ \E f \in Frames : w = One(f))
<1>1. load[b] \in Seq(Frames) /\ <<>> \in Seq(Frames)
  BY Empty DEF Typed, Loads
<1>2. Weight(k, load)[b] = IF KindOf(load[b][1]) = k THEN load[b] ELSE <<>>
  BY DEF Weight
<1>3. CASE b \in DataBufs
  <2>1. KindOf(load[b][1]) = "data"
    BY <1>3 DEF Typed, Loaded, KindOf
  <2> QED
    BY <1>1, <1>2, <1>3, <2>1, Tags
<1>4. CASE b \in ExtBufs
  <2>1. PICK s \in Senders, n \in 1..TryCnt : load[b] = <<<<s, n>>>>
    BY <1>4 DEF Typed, Loaded
  <2> DEFINE f == <<s, n>>
  <2>2. f \in Frames /\ f[1] = s /\ s # Net
    BY <2>1, FramesAre
  <2> HIDE DEF f
  <2>3. load[b] = <<f>> /\ load[b][1] = f
    BY <2>1 DEF f
  <2>4. KindOf(f) # "data"
    BY <2>2 DEF KindOf
  <2> QED
    BY <1>1, <1>2, <1>4, <2>2, <2>3, <2>4, Tags DEF One
<1> QED
  BY <1>3, <1>4 DEF Bufs

\* Appending at the end of a concatenation, and dropping its first part.
LEMMA AppendBehind ==
    ASSUME NEW S, NEW q \in Seq(S), NEW r \in Seq(S), NEW f \in S
    PROVE  q \o Append(r, f) = Append(q \o r, f)
<1>1. Append(r, f) = r \o <<f>> /\ <<f>> \in Seq(S)
  OBVIOUS
<1>2. q \o r \in Seq(S)
  BY ConcatProperties
<1>3. (q \o r) \o <<f>> = Append(q \o r, f)
  BY <1>2
<1>4. (q \o r) \o <<f>> = q \o (r \o <<f>>)
  BY <1>1, ConcatAssociative
<1> QED
  BY <1>1, <1>3, <1>4

LEMMA DropFront ==
    ASSUME NEW S, NEW q \in Seq(S), NEW r \in Seq(S)
    PROVE  SubSeq(q \o r, Len(q) + 1, Len(q \o r)) = r
<1> DEFINE a == q \o r
           u == SubSeq(a, Len(q) + 1, Len(a))
<1>1. /\ a \in Seq(S) /\ Len(a) = Len(q) + Len(r) /\ Len(q) \in Nat /\ Len(r) \in Nat
      /\ \A i \in 1..Len(r) : a[Len(q) + i] = r[i]
  OBVIOUS
<1> HIDE DEF a
<1>2. \A i \in 1..Len(a) : a[i] \in S
  BY <1>1
<1>3. Len(a) - (Len(q) + 1) + 1 = Len(r)
  BY <1>1
<1>4. \A i \in (Len(q) + 1)..Len(a) : a[i] \in S
  BY <1>1, <1>2
<1>5. u \in Seq(S) /\ Len(u) = Len(r) /\ \A i \in 1..Len(r) : u[i] = a[Len(q) + i]
  BY <1>1, <1>3, <1>4, SubSeqProperties
<1> HIDE DEF u
<1>6. \A i \in 1..Len(u) : u[i] = r[i]
  BY <1>1, <1>5
<1>7. u = r
  BY <1>5, <1>6, SeqEqual
<1> QED
  BY <1>7 DEF u, a

\* A buffer put at the end, and what it adds.
LEMMA PutAtEnd ==
    ASSUME IInv, NEW b \in Bufs, Enqueue(b), UNCHANGED <<xpc, xbuf>>
    PROVE  InFlight' = InFlight \o One(b)
<1>1. pending' = Append(pending, b) /\ pending \in Seq(Bufs)
  BY DEF Enqueue, IInv, InHand
<1>2. /\ <<b>> \in Seq(Bufs) /\ Append(pending, b) = pending \o <<b>>
      /\ Append(pending, b) \in Seq(Bufs)
  BY <1>1
<1>3. CASE xpc = "poll"
  <2>1. <<xbuf>> \in Seq(Bufs)
    BY <1>3, Single DEF IInv, InHand
  <2>2. (<<xbuf>> \o pending) \o <<b>> = <<xbuf>> \o (pending \o <<b>>)
    BY <1>1, <1>2, <2>1, ConcatAssociative
  <2> QED
    BY <1>1, <1>2, <1>3, <2>2 DEF InFlight, One
<1>4. CASE xpc # "poll"
  <2>1. <<>> \o pending = pending /\ <<>> \o Append(pending, b) = Append(pending, b)
    BY <1>1, <1>2, ConcatEmptySeq
  <2> QED
    BY <1>1, <1>2, <1>4, <2>1 DEF InFlight, One
<1> QED
  BY <1>3, <1>4

LEMMA OneIs == ASSUME NEW B, NEW b \in B PROVE One(b) \in Seq(B)
BY Single DEF One

LEMMA GatherLast ==
    ASSUME NEW S, NEW B, NEW g \in Weights(B, S), NEW q \in Seq(B), NEW b \in B
    PROVE  Gather(g, q \o One(b)) = Gather(g, q) \o g[b]
<1>1. Gather(g, One(b)) = g[b]
  BY GatherOne DEF One
<1>2. Gather(g, q \o One(b)) = Gather(g, q) \o Gather(g, One(b))
  BY OneIs, GatherConcat
<1> QED
  BY <1>1, <1>2

LEMMA GatherFirst ==
    ASSUME NEW S, NEW B, NEW g \in Weights(B, S), NEW q \in Seq(B), NEW b \in B
    PROVE  Gather(g, One(b) \o q) = g[b] \o Gather(g, q)
<1>1. Gather(g, One(b)) = g[b]
  BY GatherOne DEF One
<1>2. Gather(g, One(b) \o q) = Gather(g, One(b)) \o Gather(g, q)
  BY OneIs, GatherConcat
<1> QED
  BY <1>1, <1>2

\* PutMgnt: a management frame is accepted by its kind, and unseen by the others.
LEMMA PutInOrder ==
    ASSUME IInv, Typed, [Next]_vars, NEW k, NEW s \in Senders, PutMgnt(s)
    PROVE  InOrder(k)
<1> DEFINE b == sbuf[s]
           g == Weight(k, load)
           q == InFlight
           G == Gather(g, q)
           w == g[b]
<1>1. b \in ExtBufs /\ b \in Bufs
  BY DEF IInv, InHand, PutMgnt, Bufs
<1>2. b \notin free
  BY <1>1, Tags DEF IInv, OneOwner, NothingShared
<1>3. Enqueue(b) /\ UNCHANGED <<load, acq, dbuf, xpc, xbuf>>
  BY DEF PutMgnt
<1>4. UNCHANGED Behind(k)
  BY <1>3, SamePacked DEF Behind
<1>5. q \in Seq(Bufs) /\ g \in Weights(Bufs, Frames)
      /\ Behind(k) \in Seq(Frames) /\ FramesOf(k) = G \o Behind(k)
  BY FramesOfAre DEF Typed, WellFormed
<1> HIDE DEF b
<1>6. w \in Seq(Frames) /\ (w = <<>> \/ (k # "data" /\ \E f \in Frames : w = One(f)))
  <2>1. w \in Seq(Frames)
    BY <1>1, <1>2, Cargo
  <2>2. w = <<>> \/ (k # "data" /\ \E f \in Frames : w = One(f))
    BY <1>1, <1>2, Cargo
  <2> QED
    BY <2>1, <2>2
<1>7. InFlight' = q \o One(b)
  BY <1>1, <1>3, PutAtEnd
<1>8. FramesOf(k)' = Gather(g, q \o One(b)) \o Behind(k)
  BY <1>3, <1>4, <1>7, FramesOfNext
<1> HIDE DEF g, q
<1>9. G \in Seq(Frames) /\ Gather(g, q \o One(b)) = G \o w
  <2>1. G \in Seq(Frames)
    BY <1>5, GatherType
  <2>2. Gather(g, q \o One(b)) = Gather(g, q) \o g[b]
    BY <1>1, <1>5, GatherLast
  <2> QED
    BY <2>1, <2>2
<1> HIDE DEF G, w
<1>11. CASE w = <<>>
  BY <1>5, <1>8, <1>9, <1>11, ConcatEmptySeq DEF InOrder
<1>12. CASE k # "data" /\ \E f \in Frames : w = One(f)
  <2>1. PICK f \in Frames : w = One(f)
    BY <1>12
  <2>2. Behind(k) = <<>>
    BY <1>12 DEF Behind
  <2>3. G \o One(f) = Append(G, f) /\ Append(G, f) \in Seq(Frames)
    BY <1>9 DEF One
  <2>4. FramesOf(k) = G /\ FramesOf(k)' = Append(G, f)
    BY <1>5, <1>8, <1>9, <2>1, <2>2, <2>3, ConcatEmptySeq
  <2> QED
    BY <2>4 DEF InOrder, Accepts
<1> QED
  BY <1>6, <1>11, <1>12

\* FillPut: the frames packed go on with the buffer, the place they had.
LEMMA FillPutInOrder ==
    ASSUME IInv, Typed, [Next]_vars, NEW k, FillPut
    PROVE  InOrder(k)
<1> DEFINE b == dbuf
           g == Weight(k, load)
           q == InFlight
           G == Gather(g, q)
           w == g[b]
<1>1. b \in DataBufs /\ b \in Bufs /\ b # Nothing
  BY Tags DEF IInv, InHand, FillPut, Bufs
<1>2. b \notin free
  BY <1>1 DEF IInv, OneOwner, NothingShared
<1>3. Enqueue(b) /\ UNCHANGED <<load, acq, xpc, xbuf>> /\ dbuf' = Nothing
  BY DEF FillPut
<1>4. q \in Seq(Bufs) /\ g \in Weights(Bufs, Frames)
      /\ Behind(k) \in Seq(Frames) /\ FramesOf(k) = G \o Behind(k)
  BY FramesOfAre DEF Typed, WellFormed
<1>5. w \in Seq(Frames) /\ w = IF k = "data" THEN load[dbuf] ELSE <<>>
  BY <1>1, <1>2, Cargo
<1>6. Behind(k) = w \o Behind(k)' /\ Behind(k)' \in Seq(Frames)
  <2>1. acq \in Seq(Frames) /\ <<>> \in Seq(Frames)
    BY Empty DEF Typed, Loads
  <2>2. <<>> \o acq = acq /\ <<>> \o <<>> = <<>>
    BY <2>1, ConcatEmptySeq
  <2>3. CASE k = "data"
    BY <1>1, <1>3, <1>5, <2>1, <2>2, <2>3 DEF Behind, Packed
  <2>4. CASE k # "data"
    BY <1>5, <2>1, <2>2, <2>4 DEF Behind
  <2> QED
    BY <2>3, <2>4
<1> HIDE DEF b
<1>7. InFlight' = q \o One(b)
  BY <1>1, <1>3, PutAtEnd
<1>8. FramesOf(k)' = Gather(g, q \o One(b)) \o Behind(k)'
  BY <1>3, <1>7, FramesOfNext
<1> HIDE DEF g, q
<1>9. G \in Seq(Frames) /\ Gather(g, q \o One(b)) = G \o w
  <2>1. G \in Seq(Frames)
    BY <1>4, GatherType
  <2>2. Gather(g, q \o One(b)) = Gather(g, q) \o g[b]
    BY <1>1, <1>4, GatherLast
  <2> QED
    BY <2>1, <2>2
<1> DEFINE r == Behind(k)'
<1> HIDE DEF G, w, r
<1>10. (G \o w) \o r = G \o (w \o r)
  <2>1. r \in Seq(Frames) /\ G \in Seq(Frames) /\ w \in Seq(Frames)
    BY <1>5, <1>6, <1>9 DEF r
  <2> QED
    BY <2>1, ConcatAssociative
<1> QED
  BY <1>4, <1>6, <1>8, <1>9, <1>10 DEF InOrder, r

\* NetXmit: a data frame is accepted, the other kinds see nothing.
LEMMA NetInOrder ==
    ASSUME IInv, Typed, [Next]_vars, NEW k, NetXmit
    PROVE  InOrder(k)
<1> DEFINE f == <<Net, calls'>>
           G == Gather(Weight(k, load), InFlight)
<1>1. calls' \in 1..MaxCalls /\ acq' = Append(acq, f)
      /\ UNCHANGED <<load, pending, xpc, xbuf, dbuf>>
  BY DEF NetXmit, Typed, Tries
<1>2. f \in Frames
  BY <1>1, FramesAre
<1> HIDE DEF f
<1>3. Packed' = Packed /\ InFlight' = InFlight
  BY <1>1, SamePacked DEF InFlight
<1>4. FramesOf(k) = G \o Behind(k) /\ FramesOf(k)' = G \o Behind(k)'
      /\ G \in Seq(Frames) /\ Behind(k) \in Seq(Frames)
  <2>1. WellFormed(k)
    BY FramesOfAre DEF Typed
  <2>2. G \in Seq(Frames)
    BY <2>1, GatherType DEF WellFormed
  <2> QED
    BY <1>1, <1>3, <2>1, <2>2, FramesOfNext DEF WellFormed
<1> HIDE DEF G
<1>5. CASE k # "data"
  <2>1. Behind(k)' = Behind(k)
    BY <1>5 DEF Behind
  <2> QED
    BY <1>4, <2>1 DEF InOrder
<1>6. CASE k = "data"
  <2>1. Packed \in Seq(Frames) /\ acq \in Seq(Frames)
    BY Empty DEF IInv, InHand, Packed, Typed, Loads, Bufs
  <2>2. Packed \o Append(acq, f) = Append(Packed \o acq, f)
    <3> DEFINE p == Packed
    <3>1. p \in Seq(Frames)
      BY <2>1
    <3> HIDE DEF p
    <3>2. p \o Append(acq, f) = Append(p \o acq, f)
      BY <1>2, <2>1, <3>1, AppendBehind
    <3> QED
      BY <3>2 DEF p
  <2>3. Behind(k)' = Append(Behind(k), f)
    BY <1>1, <1>3, <1>6, <2>2 DEF Behind
  <2>4. G \o Append(Behind(k), f) = Append(G \o Behind(k), f)
    <3> DEFINE p == Behind(k)
    <3>1. p \in Seq(Frames)
      BY <1>4
    <3> HIDE DEF p
    <3>2. G \o Append(p, f) = Append(G \o p, f)
      BY <1>2, <1>4, <3>1, AppendBehind
    <3> QED
      BY <3>2 DEF p
  <2> QED
    BY <1>2, <1>4, <2>3, <2>4 DEF InOrder, Accepts
<1> QED
  BY <1>5, <1>6

\* Fill: frames move from the queue of the station into the buffer in hand.
LEMMA FillInOrder ==
    ASSUME IInv, Typed, [Next]_vars, NEW k, Fill
    PROVE  InOrder(k)
<1>1. acq # <<>> /\ UNCHANGED <<pending, xpc, xbuf>> /\ dbuf = Nothing
  BY DEF Typed, Loaded, Fill, IInv, InHand
<1>2. CASE UNCHANGED <<free, load, acq, dbuf>>
  <2>1. UNCHANGED <<InFlight, dbuf, acq>>
    BY <1>1, <1>2 DEF InFlight
  <2> QED
    BY <2>1, Quiet DEF InOrder
<1>3. ASSUME NEW b \in free \cap DataBufs, NEW q \in Seq(Frames),
             load' = [load EXCEPT ![b] = q], dbuf' = b, q \o acq' = acq
      PROVE  InOrder(k)
  <2>1. Packed' = q
    <3>1. b # Nothing /\ b \in Bufs
      BY Tags DEF Bufs
    <3> QED
      BY <1>3, <3>1 DEF Packed, Typed, Loads
  <2>2. acq \in Seq(Frames) /\ <<>> \o acq = acq
    BY ConcatEmptySeq DEF Typed, Loads
  <2>3. UNCHANGED Behind(k)
    BY <1>1, <1>3, <2>1, <2>2 DEF Behind, Packed
  <2>4. UNCHANGED InFlight
    BY <1>1 DEF InFlight
  <2>5. FramesOf(k)' = Gather(Weight(k, load'), InFlight) \o Behind(k)
    BY <2>3, <2>4, FramesOfNext
  <2>6. FramesOf(k) = Gather(Weight(k, load), InFlight) \o Behind(k)
    BY FramesOfAre DEF Typed, WellFormed
  <2> QED
    BY <2>5, <2>6, SameWeight DEF InOrder
<1> QED
  BY <1>1, <1>2, <1>3, FillMoves DEF Typed

\* Element i of a sequence, what is before it and what is behind.
IsSplit(a, i, u, v) ==
    /\ a = u \o (One(a[i]) \o v) /\ RemoveAt(a, i) = u \o v
    /\ Len(u) = i - 1 /\ \A j \in 1..Len(u) : u[j] = a[j]

LEMMA Split ==
    ASSUME NEW S, NEW a \in Seq(S), NEW i \in 1..Len(a)
    PROVE  \E u, v \in Seq(S) : IsSplit(a, i, u, v)
<1> DEFINE u == SubSeq(a, 1, i - 1)
           v == SubSeq(a, i + 1, Len(a))
           r == SubSeq(a, (i - 1) + 1, Len(a))
<1>1. /\ Len(a) \in Nat /\ \A j \in 1..Len(a) : a[j] \in S
      /\ i - 1 \in Nat /\ i - 1 <= Len(a) /\ i \in Nat /\ i <= Len(a) /\ (i - 1) + 1 = i
  BY LenProperties, ElementOfSeq
<1>2. u \in Seq(S) /\ Len(u) = i - 1 /\ r \in Seq(S) /\ Len(r) = Len(a) - (i - 1)
      /\ u \o r = a
  BY <1>1, Halves
<1>3. v \in Seq(S) /\ Len(v) = Len(a) - i
  BY <1>1, Halves
<1>4. \A j \in 1..(i - 1) : u[j] = a[j]
  <2>1. \A j \in 1..(i - 1) : a[j] \in S
    BY <1>1
  <2> QED
    BY <1>1, <2>1, SubSeqProperties
<1>5. r = One(a[i]) \o v
  <2>1. <<a[i]>> \in Seq(S) /\ Len(<<a[i]>>) = 1 /\ <<a[i]>>[1] = a[i]
    BY <1>1, Single
  <2>2. \A j \in 1..(Len(a) - i + 1) : r[j] = a[(i - 1) + j]
    <3>1. \A j \in i..Len(a) : a[j] \in S
      BY <1>1
    <3> QED
      BY <1>1, <3>1, SubSeqProperties
  <2>3. \A j \in 1..(Len(a) - i) : v[j] = a[i + j]
    <3>1. \A j \in (i + 1)..Len(a) : a[j] \in S
      BY <1>1
    <3> QED
      BY <1>1, <3>1, SubSeqProperties
  <2> DEFINE e == <<a[i]>>
  <2> HIDE DEF v, r, e
  <2>4. /\ e \o v \in Seq(S) /\ Len(e \o v) = 1 + Len(v)
        /\ \A j \in 1..(1 + Len(v)) : (e \o v)[j] = IF j <= 1 THEN e[j] ELSE v[j - 1]
    BY <1>3, <2>1, ConcatProperties DEF e
  <2>5. ASSUME NEW j \in 1..Len(r) PROVE r[j] = (e \o v)[j]
    <3>1. j \in 1..(1 + Len(v)) /\ j \in 1..(Len(a) - i + 1)
      BY <1>1, <1>2, <1>3
    <3>2. CASE j = 1
      BY <1>1, <2>1, <2>2, <2>4, <3>1, <3>2 DEF e
    <3>3. CASE j # 1
      <4>1. j - 1 \in 1..(Len(a) - i) /\ i + (j - 1) = (i - 1) + j /\ ~(j <= 1)
        BY <1>1, <3>1, <3>3
      <4> QED
        BY <2>2, <2>3, <2>4, <3>1, <4>1
    <3> QED
      BY <3>2, <3>3
  <2>6. Len(r) = Len(e \o v)
    BY <1>1, <1>2, <1>3, <2>4
  <2>7. r = e \o v
    BY <1>2, <2>4, <2>5, <2>6, SeqEqual
  <2> QED
    BY <2>7 DEF e, One
<1>6. RemoveAt(a, i) = u \o v
  BY DEF RemoveAt
<1>7. IsSplit(a, i, u, v)
  BY <1>2, <1>4, <1>5, <1>6 DEF IsSplit
<1> HIDE DEF u, v, r
<1> QED
  BY <1>2, <1>3, <1>7

\* An element taken to the front changes nothing if it counts for nothing, or if
\* what it overtakes does.
LEMMA MoveToFront ==
    ASSUME NEW S, NEW B, NEW g \in Weights(B, S), NEW q \in Seq(B), NEW i \in 1..Len(q),
           g[q[i]] = <<>> \/ \A j \in 1..(i - 1) : g[q[j]] = <<>>
    PROVE  Gather(g, One(q[i]) \o RemoveAt(q, i)) = Gather(g, q)
<1> DEFINE e == q[i]
<1>1. e \in B
  BY ElementOfSeq
<1>0. PICK u \in Seq(B), v \in Seq(B) : IsSplit(q, i, u, v)
  BY Split
<1>2. /\ q = u \o (One(e) \o v) /\ RemoveAt(q, i) = u \o v
      /\ Len(u) = i - 1 /\ \A j \in 1..Len(u) : u[j] = q[j]
  BY <1>0 DEF IsSplit
<1>3. g[e] = <<>> \/ \A j \in 1..Len(u) : g[u[j]] = <<>>
  BY <1>2
<1> HIDE DEF e
<1> DEFINE w == g[e]
           U == Gather(g, u)
           V == Gather(g, v)
<1>4. w \in Seq(S) /\ U \in Seq(S) /\ V \in Seq(S)
  <2>1. w \in Seq(S)
    BY <1>1 DEF Weights
  <2> QED
    BY <2>1, GatherType
<1>5. u \o v \in Seq(B) /\ One(e) \in Seq(B) /\ One(e) \o v \in Seq(B)
  BY <1>1, OneIs, ConcatProperties
<1>6. Gather(g, One(e) \o v) = w \o V
  BY <1>1, GatherFirst
<1>7. Gather(g, q) = U \o (w \o V)
  <2> DEFINE ev == One(e) \o v
  <2>1. ev \in Seq(B)
    BY <1>5
  <2> HIDE DEF ev
  <2>2. Gather(g, u \o ev) = Gather(g, u) \o Gather(g, ev)
    BY <2>1, GatherConcat
  <2> QED
    BY <1>2, <1>6, <2>2 DEF ev
<1>8. Gather(g, One(e) \o RemoveAt(q, i)) = w \o (U \o V)
  <2> DEFINE uv == u \o v
  <2>1. uv \in Seq(B)
    BY <1>5
  <2>2. Gather(g, uv) = U \o V
    BY GatherConcat
  <2> HIDE DEF uv
  <2>3. Gather(g, One(e) \o uv) = w \o Gather(g, uv)
    BY <1>1, <2>1, GatherFirst
  <2> QED
    BY <1>2, <2>2, <2>3 DEF uv
<1>9. w = <<>> \/ U = <<>>
  <2>1. CASE g[e] = <<>>
    BY <2>1
  <2>2. CASE \A j \in 1..Len(u) : g[u[j]] = <<>>
    BY <2>2, GatherNothing
  <2> QED
    BY <1>3, <2>1, <2>2
<1> HIDE DEF w, U, V
<1>10. U \o (w \o V) = w \o (U \o V)
  <2>1. <<>> \o V = V /\ U \o V \in Seq(S) /\ w \o V \in Seq(S)
    BY <1>4, ConcatEmptySeq, ConcatProperties
  <2>2. <<>> \o (U \o V) = U \o V /\ <<>> \o (w \o V) = w \o V
    BY <2>1, ConcatEmptySeq
  <2> QED
    BY <1>9, <2>1, <2>2
<1> QED
  BY <1>7, <1>8, <1>10 DEF e

\* The first buffer that may leave overtakes only frames of other kinds.
LEMMA TakeInOrder ==
    ASSUME IInv, Typed, [Next]_vars, NEW k, XmitTake
    PROVE  InOrder(k)
<1> DEFINE I == IF xpc = "probe" THEN Passing ELSE Sendable
           g == Weight(k, load)
<1>1. /\ Take(I) /\ xpc \in {"probe", "any"} /\ UNCHANGED <<load, acq, dbuf>>
  BY DEF XmitTake
<1>2. pending \in Seq(Bufs)
  BY DEF IInv, InHand
<1>3. I \subseteq 1..Len(pending)
  BY <1>2, LenProperties DEF Passing, Sendable, Management
<1>4. CASE I = {}
  <2>1. xpc # "poll" /\ xpc' # "poll" /\ UNCHANGED <<pending, dbuf, acq>>
    BY <1>1, <1>4 DEF Take
  <2> QED
    BY <2>1, QuietHands DEF InOrder
<1>5. CASE I # {}
  <2> DEFINE i == FirstOf(I)
  <2>1. i \in I /\ \A j \in I : i <= j
    <3> HIDE DEF I
    <3>1. I \subseteq Nat
      BY <1>3
    <3> QED
      BY <1>5, <3>1, FirstIsFirst
  <2>2. xbuf' = pending[i] /\ pending' = RemoveAt(pending, i) /\ xpc' = "poll"
    BY <1>1, <1>5 DEF Take
  <2> HIDE DEF i
  <2>3. i \in 1..Len(pending) /\ Len(pending) \in Nat
    BY <1>2, <1>3, <2>1
  <2>4. ASSUME NEW j \in 1..Len(pending)
        PROVE  pending[j] \in Bufs /\ pending[j] \notin free
    <3>1. pending[j] \in ToSet(pending)
      BY <1>2 DEF ToSet
    <3> QED
      BY <1>2, <3>1, ElementOfSeq DEF IInv, OneOwner, NothingShared
  <2>5. ASSUME NEW j \in 1..(i - 1) PROVE j \in 1..Len(pending) /\ j \notin I
    BY <2>1, <2>3
  <2>6. g[pending[i]] = <<>> \/ \A j \in 1..(i - 1) : g[pending[j]] = <<>>
    <3>1. CASE xpc = "probe"
      <4>0. I = Passing /\ DOMAIN pending = 1..Len(pending)
        BY <1>2, <3>1
      <4>1. CASE k = "probe"
        <5>1. ASSUME NEW j \in 1..(i - 1) PROVE g[pending[j]] = <<>>
          <6>1. j \in DOMAIN pending /\ j \notin Passing /\ pending[j] \in Bufs
            BY <2>4, <2>5, <4>0
          <6>2. KindOf(load[pending[j]][1]) # "probe"
            BY <6>1 DEF Passing
          <6> QED
            BY <4>1, <6>1, <6>2 DEF Weight
        <5> QED
          BY <5>1
      <4>2. CASE k # "probe"
        <5>1. KindOf(load[pending[i]][1]) = "probe" /\ pending[i] \in Bufs
          BY <2>1, <2>3, <2>4, <4>0 DEF Passing
        <5> QED
          BY <4>2, <5>1 DEF Weight
      <4> QED
        BY <4>1, <4>2
    <3>2. CASE xpc = "any" /\ Management # {}
      <4>0. I = Management /\ DOMAIN pending = 1..Len(pending)
        BY <1>2, <3>2 DEF Sendable
      <4>1. CASE k = "data"
        <5>1. pending[i] \in ExtBufs /\ pending[i] \in Bufs /\ pending[i] \notin free
          BY <2>1, <2>3, <2>4, <4>0 DEF Management
        <5> QED
          BY <4>1, <5>1, Cargo
      <4>2. CASE k # "data"
        <5>1. ASSUME NEW j \in 1..(i - 1) PROVE g[pending[j]] = <<>>
          <6>1. j \in DOMAIN pending /\ j \notin Management /\ pending[j] \in Bufs
                /\ pending[j] \notin free
            BY <2>4, <2>5, <4>0
          <6>2. pending[j] \in DataBufs
            BY <6>1 DEF Management, Bufs
          <6> QED
            BY <4>2, <6>1, <6>2, Cargo
        <5> QED
          BY <5>1
      <4> QED
        BY <4>1, <4>2
    <3>3. CASE xpc = "any" /\ Management = {}
      <4>1. I = DOMAIN pending /\ DOMAIN pending = 1..Len(pending)
        BY <1>2, <3>3 DEF Sendable
      <4>2. 1 \in I
        BY <2>3, <4>1
      <4>3. i = 1
        BY <2>1, <2>3, <4>2
      <4> QED
        BY <4>3
    <3> QED
      BY <1>1, <3>1, <3>2, <3>3
  <2>7. InFlight = pending /\ InFlight' = One(pending[i]) \o RemoveAt(pending, i)
    BY <1>1, <1>2, <2>2, ConcatEmptySeq DEF InFlight, One
  <2>8. g \in Weights(Bufs, Frames) /\ FramesOf(k) = Gather(g, pending) \o Behind(k)
    BY <2>7, FramesOfAre DEF Typed, WellFormed
  <2>9. UNCHANGED Behind(k)
    BY <1>1, SamePacked DEF Behind
  <2>10. FramesOf(k)' = Gather(g, One(pending[i]) \o RemoveAt(pending, i)) \o Behind(k)
    BY <1>1, <2>7, <2>9, FramesOfNext
  <2> HIDE DEF g
  <2>11. Gather(g, One(pending[i]) \o RemoveAt(pending, i)) = Gather(g, pending)
    BY <1>2, <2>3, <2>6, <2>8, MoveToFront
  <2> QED
    BY <2>8, <2>10, <2>11 DEF InOrder
<1> QED
  BY <1>4, <1>5

\* The buffer in hand is written or dropped: its frames are the first to leave.
LEMMA LeaveInOrder ==
    ASSUME IInv, Typed, [Next]_vars, NEW k, XmitWrite \/ XmitDrop
    PROVE  InOrder(k)
<1> DEFINE g == Weight(k, load)
           w == g[xbuf]
           G == Gather(g, pending)
           p == Behind(k)
<1>1. xpc = "poll" /\ xpc' = "free" /\ UNCHANGED <<load, pending, acq, dbuf>>
  BY DEF XmitWrite, XmitDrop
<1>2. xbuf \in Bufs /\ xbuf \notin free /\ pending \in Seq(Bufs)
  <2>1. xbuf \in Bufs /\ xbuf # Nothing /\ pending \in Seq(Bufs)
    BY <1>1, Tags DEF IInv, InHand
  <2> QED
    BY <2>1 DEF IInv, OneOwner, NothingShared
<1>3. InFlight = One(xbuf) \o pending /\ InFlight' = pending
  BY <1>1, <1>2, ConcatEmptySeq DEF InFlight, One
<1>4. p \in Seq(Frames) /\ p' = p
  BY <1>1, FramesOfAre, SamePacked DEF Typed, WellFormed, Behind
<1>5. g \in Weights(Bufs, Frames) /\ FramesOf(k) = Gather(g, One(xbuf) \o pending) \o p
  BY <1>3, FramesOfAre DEF Typed, WellFormed
<1>6. FramesOf(k)' = G \o p
  BY <1>1, <1>3, <1>4, FramesOfNext
<1>7. w \in Seq(Frames)
  BY <1>2, Cargo
<1> HIDE DEF g, p
<1>8. G \in Seq(Frames) /\ Gather(g, One(xbuf) \o pending) = w \o G
  BY <1>2, <1>5, GatherType, GatherFirst
<1> HIDE DEF w, G
<1>9. FramesOf(k) = w \o (G \o p) /\ G \o p \in Seq(Frames)
  <2>1. G \in Seq(Frames) /\ p \in Seq(Frames) /\ w \in Seq(Frames)
    BY <1>4, <1>7, <1>8
  <2>2. (w \o G) \o p = w \o (G \o p) /\ G \o p \in Seq(Frames)
    BY <2>1, ConcatAssociative, ConcatProperties
  <2> QED
    BY <1>5, <1>8, <2>2
<1>10. CASE w = <<>>
  BY <1>6, <1>9, <1>10, ConcatEmptySeq DEF InOrder
<1>11. CASE w # <<>>
  <2>1. Len(w) \in Nat /\ Len(w) # 0 /\ Len(G \o p) \in Nat
    BY <1>7, <1>9, <1>11, EmptySeq, LenProperties
  <2> DEFINE r == G \o p
  <2>2. r \in Seq(Frames) /\ Len(r) \in Nat
    BY <1>9, <2>1
  <2>3. FramesOf(k) = w \o r /\ FramesOf(k)' = r
    BY <1>6, <1>9
  <2> HIDE DEF r
  <2>4. Len(w \o r) = Len(w) + Len(r)
    BY <1>7, <2>2, ConcatProperties
  <2>5. Len(w) \in 1..Len(w \o r)
    BY <2>1, <2>2, <2>4
  <2>6. SubSeq(w \o r, Len(w) + 1, Len(w \o r)) = r
    BY <1>7, <2>2, DropFront
  <2> QED
    BY <2>3, <2>5, <2>6 DEF InOrder, Leaves
<1> QED
  BY <1>10, <1>11

\* XmitPutBack: the buffer goes from the hand to the head, the same place.
LEMMA PutBackInOrder ==
    ASSUME IInv, Typed, [Next]_vars, NEW k, XmitPutBack
    PROVE  InOrder(k)
<1>1. /\ xpc = "poll" /\ xpc' = "select" /\ UNCHANGED <<acq, dbuf>>
      /\ pending' = <<xbuf>> \o pending
  BY DEF XmitPutBack, EnqueueToHead
<1>2. <<xbuf>> \o pending \in Seq(Bufs)
  <2>1. <<xbuf>> \in Seq(Bufs) /\ pending \in Seq(Bufs)
    BY <1>1, Single DEF IInv, InHand
  <2> QED
    BY <2>1, ConcatProperties
<1>3. <<>> \o (<<xbuf>> \o pending) = <<xbuf>> \o pending
  BY <1>2, ConcatEmptySeq
<1>4. UNCHANGED InFlight
  BY <1>1, <1>3 DEF InFlight
<1> QED
  BY <1>1, <1>4, Quiet DEF InOrder

\* Nothing moves between the queues and the hands.
Still ==
    /\ UNCHANGED <<pending, dbuf, acq>>
    /\ \/ xpc = "poll" /\ xpc' = "poll" /\ xbuf' = xbuf
       \/ xpc # "poll" /\ xpc' # "poll"

LEMMA OrderStep ==
    ASSUME IInv, Typed, [Next]_vars, NEW k
    PROVE  InOrder(k)
<1>0. Still => InOrder(k)
  BY QuietHands DEF Still, InOrder
<1>1. CASE \E s \in Senders : PutMgnt(s)
  BY <1>1, PutInOrder
<1>2. CASE NetXmit
  BY <1>2, NetInOrder
<1>3. CASE Fill
  BY <1>3, FillInOrder
<1>4. CASE FillPut
  BY <1>4, FillPutInOrder
<1>5. CASE XmitTake
  BY <1>5, TakeInOrder
<1>6. CASE XmitWrite
  BY <1>6, LeaveInOrder
<1>7. CASE XmitDrop
  BY <1>7, LeaveInOrder
<1>8. CASE XmitPutBack
  BY <1>8, PutBackInOrder
<1>9. CASE UNCHANGED vars \/ (\E s \in Senders : Issue(s)) \/ (\E s \in Senders :
           AllocMgt(s)) \/ (\E s \in Senders : Dump(s))
  BY <1>9, <1>0 DEF Still, vars, Issue, AllocMgt, Return, Dump, FreeBuf
<1>10. CASE (\E s \in Senders : LockAck(s)) \/ (\E s \in Senders : InitSctx(s)) \/
           (\E s \in Senders : UpMgnt(s)) \/ (\E s \in Senders : WaitOver(s))
  BY <1>10, <1>0 DEF Still, LockAck, InitSctx, UpMgnt, Return, WaitOver, Release
<1>11. CASE (\E s \in Senders : WaitTimeout(s)) \/ FillDown \/ FillNext \/ FillBusy
  BY <1>11, <1>0 DEF Still, WaitTimeout, Release, Return, FillDown, FillNext,
     FillBusy, Retry
<1>12. CASE FillUp \/ XmitDown \/ XmitCheck \/ XmitSelect
  BY <1>12, <1>0 DEF Still, FillUp, XmitDown, XmitCheck, XmitSelect
<1>13. CASE XmitFree \/ (\E f \in chip : ChipSends(f)) \/ (\E f \in reports :
           Report(f)) \/ SurveyHolds
  BY <1>13, <1>0 DEF Still, XmitFree, FreeBuf, ChipSends, Report, AckTxDone,
     SurveyHolds
<1>14. CASE SurveyLetsGo \/ Schedule \/ SetStopped \/ StopAck
  BY <1>14, <1>0 DEF Still, SurveyLetsGo, Schedule, SetStopped, StopAck, AckTxDone
<1>15. CASE JoinCmd \/ JoinXmit \/ JoinFill
  BY <1>15, <1>0 DEF Still, JoinCmd, JoinXmit, JoinFill
<1> QED
  BY <1>1, <1>2, <1>3, <1>4, <1>5, <1>6, <1>7, <1>8, <1>9, <1>10, <1>11, <1>12,
     <1>13, <1>14, <1>15 DEF Next, Call, FillThread, XmitThread, Others, Begin, Stop

LEMMA OrderInit == ASSUME Init, NEW k PROVE FramesOf(k) = <<>>
<1>1. <<>> \o <<>> = <<>>
  BY Empty, ConcatEmptySeq
<1>2. InFlight = <<>>
  BY <1>1 DEF Init, InFlight
<1>3. [i \in DOMAIN InFlight |-> PartOf(k, InFlight[i])] = <<>>
  BY <1>2
<1>4. FlattenSeq(<<>>) = <<>>
  <2> DEFINE s == <<>>
  <2>1. s \in Lists(Frames) /\ Len(s) = 0
    BY Empty DEF Lists
  <2> HIDE DEF s
  <2>2. FlattenSeq(s) = <<>>
    BY <2>1, FlattenNothing
  <2> QED
    BY <2>2 DEF s
<1>5. Packed \o acq = <<>>
  BY <1>1 DEF Init, Packed
<1> QED
  BY <1>1, <1>3, <1>4, <1>5 DEF FramesOf

\* Frames of one kind leave towards the chip in the order they were handed over,
\* whatever the interleaving of senders, network stack, RTWHALXT, RTW_XMIT_THREAD,
\* surveys and stop: the queue of each kind implements TxQueue.
THEOREM TxOrder == Spec => ImplementsTxQueue
<1>1. ASSUME Init PROVE ProbeQueue!Init /\ OtherQueue!Init /\ DataQueue!Init
  BY <1>1, OrderInit DEF ProbeQueue!Init, OtherQueue!Init, DataQueue!Init
<1>2. ASSUME IInv, Typed, IInv', Typed', [Next]_vars, NEW k
      PROVE  \/ UNCHANGED FramesOf(k)
             \/ /\ Len(FramesOf(k)') = Len(FramesOf(k)) + 1
                /\ \E f \in Frames : FramesOf(k)' = Append(FramesOf(k), f)
             \/ \E n \in 1..Len(FramesOf(k)) :
                   FramesOf(k)' = SubSeq(FramesOf(k), n + 1, Len(FramesOf(k)))
  <2>1. FramesOf(k) \in Seq(Frames)
    <3>1. WellFormed(k)
      BY <1>2, FramesOfAre DEF Typed
    <3>2. Gather(Weight(k, load), InFlight) \in Seq(Frames)
      BY <3>1, GatherType DEF WellFormed
    <3> QED
      BY <3>1, <3>2, ConcatProperties DEF WellFormed
  <2> DEFINE a == FramesOf(k)
  <2>2. a \in Seq(Frames)
    BY <2>1
  <2>3. InOrder(k)
    BY <1>2, OrderStep
  <2> HIDE DEF a
  <2>4. \A f \in Frames : Len(Append(a, f)) = Len(a) + 1
    BY <2>2, AppendProperties
  <2>5. \A f \in Frames : Len(Append(FramesOf(k), f)) = Len(FramesOf(k)) + 1
    BY <2>4 DEF a
  <2> QED
    BY <2>3, <2>5 DEF InOrder, Accepts, Leaves
<1>3. ASSUME IInv, Typed, IInv', Typed', [Next]_vars
      PROVE  /\ [ProbeQueue!Accept \/ ProbeQueue!Leave]_(FramesOf("probe"))
             /\ [OtherQueue!Accept \/ OtherQueue!Leave]_(FramesOf("other"))
             /\ [DataQueue!Accept \/ DataQueue!Leave]_(FramesOf("data"))
  BY <1>2, <1>3 DEF ProbeQueue!Accept, ProbeQueue!Leave, OtherQueue!Accept,
     OtherQueue!Leave, DataQueue!Accept, DataQueue!Leave
<1> QED
  BY <1>1, <1>3, TypedInvariance, PTL
     DEF Spec, ImplementsTxQueue, ProbeQueue!Spec, OtherQueue!Spec, DataQueue!Spec
=============================================================================
