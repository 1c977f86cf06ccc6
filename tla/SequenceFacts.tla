---------------------------- MODULE SequenceFacts ---------------------------
(***************************************************************************)
(* What flattening and filtering do to sequences, by induction.  The       *)
(* induction principles are stated about sets of numbers and of sequences, *)
(* which the provers can instantiate.                                      *)
(***************************************************************************)
EXTENDS Subsequences, FiniteSets, TLAPS, WellFoundedInduction, FiniteSetTheorems, SequenceTheorems

-----------------------------------------------------------------------------
(* Induction.                                                              *)

\* A non-empty set of natural numbers has a least element.
LEMMA LeastNat ==
  ASSUME NEW T \in SUBSET Nat, T # {}
  PROVE  \E x \in T : \A y \in T : x <= y
<1> DEFINE R == {ss \in Nat \X Nat : ss[1] < ss[2]}
<1>1. IsWellFoundedOn(R, Nat)
  BY NatLessThanWellFounded DEF OpToRel
<1> HIDE DEF R
<1>2. PICK x \in T : \A y \in T : ~(<<y, x>> \in R)
  BY <1>1, WFMin
<1>3. \A y \in T : ~(y < x)
  BY <1>2 DEF R
<1> QED
  BY <1>3

\* A set that has 0, and with each number below n the next one, has all up to n.
LEMMA UpTo ==
  ASSUME NEW n \in Nat, NEW T \in SUBSET Nat, 0 \in T, \A i \in T : i < n => i + 1 \in T
  PROVE  0 .. n \subseteq T
<1> DEFINE B == (0 .. n) \ T
<1> SUFFICES ASSUME B # {} PROVE FALSE
  OBVIOUS
<1>1. B \in SUBSET Nat
  OBVIOUS
<1>2. PICK x \in B : \A y \in B : x <= y
  BY <1>1, LeastNat
<1>3. x - 1 \in 0 .. n /\ x - 1 \notin B
  BY <1>2
<1> QED
  BY <1>2, <1>3

\* Sequences are reached from the empty one by appending.
LEMMA SeqInduction ==
  ASSUME NEW S, NEW T, <<>> \in T, \A s \in Seq(S) : s \in T => \A e \in S : Append(s, e) \in T
  PROVE  Seq(S) \subseteq T
<1> SUFFICES ASSUME NEW s \in Seq(S) PROVE s \in T
  OBVIOUS
<1> DEFINE L == Len(s)
           P(n) == SubSeq(s, 1, n) \in T
           N == {n \in 0 .. L : P(n)}
<1>0. L \in Nat
  OBVIOUS
<1>1. P(0)
  <2>1. SubSeq(s, 1, 0) = <<>>
    OBVIOUS
  <2> QED
    BY <2>1
<1>2. ASSUME NEW n \in N, n < L PROVE P(n + 1)
  <2>1. SubSeq(s, 1, n) \in Seq(S) /\ s[n + 1] \in S /\ SubSeq(s, 1, n) \in T
    BY <1>2
  <2>2. SubSeq(s, 1, n + 1) = Append(SubSeq(s, 1, n), s[n + 1])
    BY <1>2
  <2> QED
    BY <2>1, <2>2
<1>3. P(L)
  <2> HIDE DEF P, L
  <2>1. N \in SUBSET Nat /\ 0 \in N /\ \A n \in N : n < L => n + 1 \in N
    BY <1>0, <1>1, <1>2
  <2> HIDE DEF N
  <2>2. 0 .. L \subseteq N
    BY <1>0, <2>1, UpTo
  <2> QED
    BY <1>0, <2>2 DEF N
<1>4. SubSeq(s, 1, L) = s
  OBVIOUS
<1> QED
  BY <1>3, <1>4

-----------------------------------------------------------------------------
(* Elements of sequences.                                                  *)

\* The elements of a concatenation.
LEMMA ConcatRange ==
  ASSUME NEW S, NEW s \in Seq(S), NEW t \in Seq(S), NEW x
  PROVE  x \in ToSet(s \o t) <=> x \in ToSet(s) \/ x \in ToSet(t)
<1>1. Len(s) \in Nat /\ Len(t) \in Nat /\ DOMAIN s = 1 .. Len(s) /\ DOMAIN t = 1 .. Len(t)
  OBVIOUS
<1>2. DOMAIN (s \o t) = 1 .. Len(s) + Len(t)
  OBVIOUS
<1>3. \A i \in 1 .. Len(s) : (s \o t)[i] = s[i] /\ i \in 1 .. Len(s) + Len(t)
  OBVIOUS
<1>4. \A i \in 1 .. Len(t) : (s \o t)[Len(s) + i] = t[i] /\ Len(s) + i \in 1 .. Len(s) + Len(t)
  OBVIOUS
<1>5. \A i \in 1 .. Len(s) + Len(t) : i \in 1 .. Len(s) \/ i - Len(s) \in 1 .. Len(t)
  BY <1>1
<1>6. \A i \in 1 .. Len(s) + Len(t) : Len(s) + (i - Len(s)) = i
  BY <1>1
<1>7. ASSUME x \in ToSet(s \o t) PROVE x \in ToSet(s) \/ x \in ToSet(t)
  <2>1. PICK i \in 1 .. Len(s) + Len(t) : x = (s \o t)[i]
    BY <1>2, <1>7 DEF ToSet
  <2>2. CASE i \in 1 .. Len(s)
    BY <1>1, <1>3, <2>1, <2>2 DEF ToSet
  <2>3. CASE i - Len(s) \in 1 .. Len(t)
    <3>1. (s \o t)[i] = t[i - Len(s)]
      BY <1>4, <1>6, <2>3
    <3> QED
      BY <1>1, <2>1, <2>3, <3>1 DEF ToSet
  <2> QED
    BY <1>5, <2>2, <2>3
<1>8. ASSUME x \in ToSet(s) PROVE x \in ToSet(s \o t)
  BY <1>1, <1>2, <1>3, <1>8 DEF ToSet
<1>9. ASSUME x \in ToSet(t) PROVE x \in ToSet(s \o t)
  BY <1>1, <1>2, <1>4, <1>9 DEF ToSet
<1> QED
  BY <1>7, <1>8, <1>9

-----------------------------------------------------------------------------
(* FlattenSeq: the recursive function it is the last value of, and how it  *)
(* grows.                                                                  *)

\* g is the function that FlattenSeq(ss) defines.
Chain(g, ss) == g = [i \in 1 .. Len(ss) |-> IF i = 1 THEN ss[i] ELSE g[i - 1] \o ss[i]]

\* The recursive definition has a solution.
LEMMA ChainExists ==
  ASSUME NEW S, NEW ss \in Seq(Seq(S))
  PROVE  \E g : Chain(g, ss)
<1> DEFINE L == Len(ss)
           Good(n, g) == \A i \in 1 .. n : g[i] = IF i = 1 THEN ss[i] ELSE g[i - 1] \o ss[i]
           P(n) == n <= L => \E g \in [1 .. n -> Seq(S)] : Good(n, g)
           T == {n \in Nat : P(n)}
<1>0. L \in Nat /\ \A i \in 1 .. L : ss[i] \in Seq(S)
  OBVIOUS
<1> HIDE DEF L
<1>1. P(0)
  <2>1. [i \in 1 .. 0 |-> <<>>] \in [1 .. 0 -> Seq(S)] /\ Good(0, [i \in 1 .. 0 |-> <<>>])
    OBVIOUS
  <2> HIDE DEF Good
  <2> QED
    BY <2>1, Zenon
<1>2. ASSUME NEW n \in Nat, P(n), n < L PROVE P(n + 1)
  <2>0. n <= L
    BY <1>0, <1>2
  <2>1. PICK g \in [1 .. n -> Seq(S)] : Good(n, g)
    BY <1>2, <2>0, Zenon
  <2> DEFINE h == [i \in 1 .. n + 1 |-> IF i <= n THEN g[i] ELSE IF i = 1 THEN ss[i] ELSE g[n] \o ss[i]]
  <2>2. h \in [1 .. n + 1 -> Seq(S)]
    <3>1. ASSUME NEW i \in 1 .. n + 1 PROVE h[i] \in Seq(S)
      BY <1>0, <1>2, <3>1
    <3> QED
      BY <3>1
  <2>3. ASSUME NEW i \in 1 .. n + 1 PROVE h[i] = IF i = 1 THEN ss[i] ELSE h[i - 1] \o ss[i]
    <3>1. CASE i <= n
      <4>1. h[i] = g[i] /\ (i # 1 => h[i - 1] = g[i - 1])
        BY <3>1
      <4>2. i \in 1 .. n
        BY <3>1
      <4>3. g[i] = IF i = 1 THEN ss[i] ELSE g[i - 1] \o ss[i]
        BY <2>1, <4>2, Zenon
      <4> QED
        BY <4>1, <4>3
    <3>2. CASE i = n + 1
      <4>1. i # 1 => h[i - 1] = g[n]
        BY <3>2
      <4> QED
        BY <3>2, <4>1
    <3> QED
      BY <3>1, <3>2
  <2>4. Good(n + 1, h)
    BY <2>3
  <2> HIDE DEF h, Good
  <2> QED
    BY <2>2, <2>4, Zenon
<1>3. P(L)
  <2> HIDE DEF P
  <2>1. T \in SUBSET Nat /\ 0 \in T /\ \A n \in T : n < L => n + 1 \in T
    BY <1>1, <1>2
  <2> HIDE DEF T
  <2>2. 0 .. L \subseteq T
    BY <1>0, <2>1, UpTo
  <2> QED
    BY <1>0, <2>2 DEF T
<1>4. L <= L
  BY <1>0
<1>5. PICK g \in [1 .. L -> Seq(S)] : Good(L, g)
  BY <1>3, <1>4, Zenon
<1>6. Chain(g, ss)
  BY <1>5 DEF Chain, L
<1> QED
  BY <1>6

\* Flattening takes the last value of that function.
LEMMA FlattenIs ==
  ASSUME NEW S, NEW ss \in Seq(Seq(S)), Len(ss) # 0
  PROVE  \E g : Chain(g, ss) /\ FlattenSeq(ss) = g[Len(ss)]
<1> DEFINE fl == CHOOSE g : g = [i \in 1 .. Len(ss) |-> IF i = 1 THEN ss[i] ELSE g[i - 1] \o ss[i]]
<1>1. Chain(fl, ss)
  BY ChainExists, Zenon DEF Chain
<1>2. FlattenSeq(ss) = fl[Len(ss)]
  BY Zenon DEF FlattenSeq
<1> QED
  BY <1>1, <1>2

\* Nothing is made of nothing.
LEMMA FlattenEmpty == FlattenSeq(<<>>) = <<>>
  BY DEF FlattenSeq

\* One more sequence is added at the end.
LEMMA FlattenAppend ==
  ASSUME NEW S, NEW ss \in Seq(Seq(S)), NEW s \in Seq(S)
  PROVE  FlattenSeq(Append(ss, s)) = FlattenSeq(ss) \o s
<1> DEFINE tt == Append(ss, s)
           L == Len(ss)
<1>0. L \in Nat /\ tt \in Seq(Seq(S)) /\ Len(tt) = L + 1 /\ tt[L + 1] = s /\ \A i \in 1 .. L : tt[i] = ss[i]
  OBVIOUS
<1>1. PICK g : Chain(g, tt) /\ FlattenSeq(tt) = g[L + 1]
  <2> HIDE DEF tt, L
  <2>1. Len(tt) # 0
    BY <1>0
  <2>2. \E g : Chain(g, tt) /\ FlattenSeq(tt) = g[Len(tt)]
    BY <1>0, <2>1, FlattenIs, Zenon
  <2> QED
    BY <1>0, <2>2, Zenon
<1>2. \A i \in 1 .. L + 1 : g[i] = IF i = 1 THEN tt[i] ELSE g[i - 1] \o tt[i]
  <2> HIDE DEF tt, L
  <2>1. g = [i \in 1 .. L + 1 |-> IF i = 1 THEN tt[i] ELSE g[i - 1] \o tt[i]]
    BY <1>0, <1>1 DEF Chain
  <2> QED
    BY <2>1
<1>3. CASE L = 0
  <2>1. ss = <<>>
    BY <1>3
  <2>2. g[L + 1] = s
    BY <1>0, <1>2, <1>3
  <2>3. <<>> \o s = s
    OBVIOUS
  <2> QED
    BY <1>1, <2>1, <2>2, <2>3, FlattenEmpty
<1>4. CASE L # 0
  <2>1. PICK h : Chain(h, ss) /\ FlattenSeq(ss) = h[L]
    BY <1>4, FlattenIs
  <2>2. \A i \in 1 .. L : h[i] = IF i = 1 THEN ss[i] ELSE h[i - 1] \o ss[i]
    <3>1. h = [i \in 1 .. L |-> IF i = 1 THEN ss[i] ELSE h[i - 1] \o ss[i]]
      BY <2>1 DEF Chain
    <3> HIDE DEF L
    <3> QED
      BY <3>1
  <2> DEFINE T == {i \in 0 .. L : i # 0 => g[i] = h[i]}
  <2>3. ASSUME NEW i \in T, i < L PROVE i + 1 \in T
    <3> HIDE DEF L, tt
    <3>0. i + 1 \in 1 .. L /\ i + 1 \in 1 .. L + 1
      BY <1>0, <2>3
    <3>1. g[i + 1] = IF i + 1 = 1 THEN ss[i + 1] ELSE g[i] \o ss[i + 1]
      <4>1. g[i + 1] = IF i + 1 = 1 THEN tt[i + 1] ELSE g[(i + 1) - 1] \o tt[i + 1]
        BY <1>2, <3>0
      <4>2. (i + 1) - 1 = i
        BY <1>0
      <4>3. tt[i + 1] = ss[i + 1]
        BY <1>0, <3>0
      <4> QED
        BY <4>1, <4>2, <4>3
    <3>2. h[i + 1] = IF i + 1 = 1 THEN ss[i + 1] ELSE h[i] \o ss[i + 1]
      <4>1. h[i + 1] = IF i + 1 = 1 THEN ss[i + 1] ELSE h[(i + 1) - 1] \o ss[i + 1]
        BY <2>2, <3>0
      <4>2. (i + 1) - 1 = i
        BY <1>0
      <4> QED
        BY <4>1, <4>2
    <3>3. i + 1 # 1 => g[i] = h[i]
      BY <1>0
    <3>4. g[i + 1] = h[i + 1]
      BY <3>1, <3>2, <3>3
    <3> QED
      BY <3>0, <3>4
  <2>4. L \in T
    <3> HIDE DEF L
    <3>0. T \in SUBSET Nat /\ 0 \in T
      BY <1>0
    <3> HIDE DEF T
    <3>1. \A i \in T : i < L => i + 1 \in T
      BY <2>3
    <3>2. 0 .. L \subseteq T
      BY <1>0, <3>0, <3>1, UpTo
    <3> QED
      BY <1>0, <3>2
  <2>5. g[L + 1] = g[L] \o s
    <3> HIDE DEF L, tt
    <3>1. L + 1 \in 1 .. L + 1 /\ L + 1 # 1 /\ (L + 1) - 1 = L
      BY <1>0, <1>4
    <3>2. g[L + 1] = g[(L + 1) - 1] \o tt[L + 1]
      BY <1>2, <3>1
    <3> QED
      BY <1>0, <3>1, <3>2
  <2>6. g[L] = h[L]
    BY <1>4, <2>4
  <2> QED
    BY <1>1, <2>1, <2>5, <2>6
<1> QED
  BY <1>3, <1>4
\* The result is a sequence of the elements.
LEMMA FlattenType ==
  ASSUME NEW S, NEW ss \in Seq(Seq(S))
  PROVE  FlattenSeq(ss) \in Seq(S)
<1> DEFINE P(tt) == FlattenSeq(tt) \in Seq(S)
           T == {tt \in Seq(Seq(S)) : P(tt)}
<1>1. P(<<>>)
  <2>1. <<>> \in Seq(S)
    OBVIOUS
  <2> QED
    BY <2>1, FlattenEmpty, Zenon
<1>2. ASSUME NEW tt \in Seq(Seq(S)), P(tt), NEW s \in Seq(S) PROVE P(Append(tt, s))
  <2>1. FlattenSeq(Append(tt, s)) = FlattenSeq(tt) \o s
    BY FlattenAppend
  <2> QED
    BY <1>2, <2>1
<1> HIDE DEF P
<1>3. <<>> \in T
  BY <1>1
<1>4. \A tt \in Seq(Seq(S)) : tt \in T => \A s \in Seq(S) : Append(tt, s) \in T
  BY <1>2
<1> HIDE DEF T
<1>5. Seq(Seq(S)) \subseteq T
  BY <1>3, <1>4, SeqInduction
<1>6. ss \in T
  BY <1>5
<1> QED
  BY <1>6 DEF T, P

\* Its elements are those of the sequences.
LEMMA FlattenRange ==
  ASSUME NEW S, NEW ss \in Seq(Seq(S)), NEW x
  PROVE  x \in ToSet(FlattenSeq(ss)) <=> \E i \in DOMAIN ss : x \in ToSet(ss[i])
<1> DEFINE P(tt) == x \in ToSet(FlattenSeq(tt)) <=> \E i \in DOMAIN tt : x \in ToSet(tt[i])
           T == {tt \in Seq(Seq(S)) : P(tt)}
<1>1. P(<<>>)
  BY FlattenEmpty DEF ToSet
<1>2. ASSUME NEW tt \in Seq(Seq(S)), P(tt), NEW s \in Seq(S) PROVE P(Append(tt, s))
  <2>1. FlattenSeq(Append(tt, s)) = FlattenSeq(tt) \o s /\ FlattenSeq(tt) \in Seq(S)
    BY FlattenAppend, FlattenType
  <2>2. x \in ToSet(FlattenSeq(tt) \o s) <=> x \in ToSet(FlattenSeq(tt)) \/ x \in ToSet(s)
    BY <2>1, ConcatRange
  <2>3. (\E i \in DOMAIN Append(tt, s) : x \in ToSet(Append(tt, s)[i])) <=>
          (\E i \in DOMAIN tt : x \in ToSet(tt[i])) \/ x \in ToSet(s)
    <3>1. DOMAIN Append(tt, s) = 1 .. Len(tt) + 1 /\ DOMAIN tt = 1 .. Len(tt) /\ Len(tt) \in Nat
      OBVIOUS
    <3>2. Append(tt, s)[Len(tt) + 1] = s /\ \A i \in 1 .. Len(tt) : Append(tt, s)[i] = tt[i]
      OBVIOUS
    <3>3. \A i \in 1 .. Len(tt) + 1 : i \in 1 .. Len(tt) \/ i = Len(tt) + 1
      BY <3>1
    <3>4. Len(tt) + 1 \in 1 .. Len(tt) + 1 /\ \A i \in 1 .. Len(tt) : i \in 1 .. Len(tt) + 1
      BY <3>1
    <3> QED
      BY <3>1, <3>2, <3>3, <3>4, Zenon
  <2> QED
    BY <1>2, <2>1, <2>2, <2>3
<1> HIDE DEF P
<1>3. <<>> \in T
  BY <1>1
<1>4. \A tt \in Seq(Seq(S)) : tt \in T => \A s \in Seq(S) : Append(tt, s) \in T
  BY <1>2
<1> HIDE DEF T
<1>5. Seq(Seq(S)) \subseteq T
  BY <1>3, <1>4, SeqInduction
<1>6. ss \in T
  BY <1>5
<1> QED
  BY <1>6 DEF T, P

\* Flattening respects concatenation.
LEMMA FlattenConcat ==
  ASSUME NEW S, NEW ss \in Seq(Seq(S)), NEW tt \in Seq(Seq(S))
  PROVE  FlattenSeq(ss \o tt) = FlattenSeq(ss) \o FlattenSeq(tt)
<1> DEFINE P(uu) == FlattenSeq(ss \o uu) = FlattenSeq(ss) \o FlattenSeq(uu)
           T == {uu \in Seq(Seq(S)) : P(uu)}
<1>0. FlattenSeq(ss) \in Seq(S)
  BY FlattenType
<1>1. P(<<>>)
  <2>1. ss \o <<>> = ss /\ FlattenSeq(ss) \o <<>> = FlattenSeq(ss)
    BY <1>0
  <2> QED
    BY <2>1, FlattenEmpty
<1>2. ASSUME NEW uu \in Seq(Seq(S)), P(uu), NEW s \in Seq(S) PROVE P(Append(uu, s))
  <2>1. FlattenSeq(uu) \in Seq(S) /\ ss \o uu \in Seq(Seq(S))
    BY FlattenType
  <2>2. ss \o Append(uu, s) = Append(ss \o uu, s)
    BY SMTT(30)
  <2>3. FlattenSeq(Append(ss \o uu, s)) = FlattenSeq(ss \o uu) \o s
    BY <2>1, FlattenAppend
  <2>4. FlattenSeq(Append(uu, s)) = FlattenSeq(uu) \o s
    BY FlattenAppend
  <2>5. (FlattenSeq(ss) \o FlattenSeq(uu)) \o s = FlattenSeq(ss) \o (FlattenSeq(uu) \o s)
    BY <1>0, <2>1, SMTT(30)
  <2> QED
    BY <1>2, <2>2, <2>3, <2>4, <2>5
<1> HIDE DEF P
<1>3. <<>> \in T
  BY <1>1
<1>4. \A uu \in Seq(Seq(S)) : uu \in T => \A s \in Seq(S) : Append(uu, s) \in T
  BY <1>2
<1> HIDE DEF T
<1>5. Seq(Seq(S)) \subseteq T
  BY <1>3, <1>4, SeqInduction
<1>6. tt \in T
  BY <1>5
<1> QED
  BY <1>6 DEF T, P

-----------------------------------------------------------------------------
(* Sequences without a pair of places that clash.                          *)

\* No two places hold elements that C relates.
Unclashing(s, C) == \A i, j \in DOMAIN s : <<s[i], s[j]>> \in C => i = j

\* Neither has a clash and no element of one clashes with one of the other.
LEMMA ConcatUnclashing ==
  ASSUME NEW S, NEW C, NEW s \in Seq(S), NEW t \in Seq(S), Unclashing(s, C), Unclashing(t, C),
         \A x \in ToSet(s), y \in ToSet(t) : <<x, y>> \notin C /\ <<y, x>> \notin C
  PROVE  Unclashing(s \o t, C)
<1> DEFINE L == Len(s)
           K == Len(t)
           u == s \o t
<1>1. L \in Nat /\ K \in Nat /\ DOMAIN s = 1 .. L /\ DOMAIN t = 1 .. K /\ DOMAIN u = 1 .. L + K
  OBVIOUS
<1>2. \A i \in 1 .. L : u[i] = s[i]
  OBVIOUS
<1>3. \A i \in 1 .. L + K : i > L => u[i] = t[i - L] /\ i - L \in 1 .. K
  OBVIOUS
<1>4. \A i \in 1 .. L + K : i \in 1 .. L \/ i > L
  BY <1>1
<1> SUFFICES ASSUME NEW i \in 1 .. L + K, NEW j \in 1 .. L + K, <<u[i], u[j]>> \in C PROVE i = j
  BY <1>1 DEF Unclashing
<1> HIDE DEF L, K, u
<1>5. CASE i \in 1 .. L /\ j \in 1 .. L
  BY <1>1, <1>2, <1>5 DEF Unclashing
<1>6. CASE i > L /\ j > L
  <2>1. <<t[i - L], t[j - L]>> \in C /\ i - L \in DOMAIN t /\ j - L \in DOMAIN t
    BY <1>1, <1>3, <1>6
  <2>2. i - L = j - L
    BY <2>1, Zenon DEF Unclashing
  <2> QED
    BY <1>1, <2>2
<1>7. CASE i \in 1 .. L /\ j > L
  <2>1. u[i] \in ToSet(s) /\ u[j] \in ToSet(t)
    BY <1>1, <1>2, <1>3, <1>7 DEF ToSet
  <2> QED
    BY <2>1
<1>8. CASE j \in 1 .. L /\ i > L
  <2>1. u[j] \in ToSet(s) /\ u[i] \in ToSet(t)
    BY <1>1, <1>2, <1>3, <1>8 DEF ToSet
  <2> QED
    BY <2>1
<1> QED
  BY <1>4, <1>5, <1>6, <1>7, <1>8

\* The sequences of ss have no clash, alone or with each other.
Apart(ss, C) ==
  /\ \A i \in DOMAIN ss : Unclashing(ss[i], C)
  /\ \A i, j \in DOMAIN ss : i # j => \A x \in ToSet(ss[i]), y \in ToSet(ss[j]) : <<x, y>> \notin C

\* Then they have none when they are put together.
LEMMA FlattenUnclashing ==
  ASSUME NEW S, NEW C, NEW ss \in Seq(Seq(S)), Apart(ss, C)
  PROVE  Unclashing(FlattenSeq(ss), C)
<1> DEFINE P(tt) == Apart(tt, C) => Unclashing(FlattenSeq(tt), C)
           T == {tt \in Seq(Seq(S)) : P(tt)}
<1>1. P(<<>>)
  BY FlattenEmpty DEF Unclashing
<1>2. ASSUME NEW tt \in Seq(Seq(S)), P(tt), NEW s \in Seq(S) PROVE P(Append(tt, s))
  <2> SUFFICES ASSUME Apart(Append(tt, s), C) PROVE Unclashing(FlattenSeq(Append(tt, s)), C)
    OBVIOUS
  <2> DEFINE n == Len(tt) + 1
             uu == Append(tt, s)
  <2>1. n \in DOMAIN uu /\ uu[n] = s /\ \A i \in DOMAIN tt : i \in DOMAIN uu /\ uu[i] = tt[i] /\ i # n
    OBVIOUS
  <2>2. Apart(uu, C)
    OBVIOUS
  <2>3. FlattenSeq(uu) = FlattenSeq(tt) \o s /\ FlattenSeq(tt) \in Seq(S)
    BY FlattenAppend, FlattenType
  <2>8. \A x : x \in ToSet(FlattenSeq(tt)) <=> \E i \in DOMAIN tt : x \in ToSet(tt[i])
    BY FlattenRange
  <2> HIDE DEF n, uu
  <2>4. Apart(tt, C)
    BY <2>1, <2>2 DEF Apart
  <2>5. Unclashing(s, C)
    BY <2>1, <2>2 DEF Apart
  <2>6. \A x \in ToSet(FlattenSeq(tt)), y \in ToSet(s) : <<x, y>> \notin C /\ <<y, x>> \notin C
    BY <2>1, <2>2, <2>8 DEF Apart
  <2>7. Unclashing(FlattenSeq(tt) \o s, C)
    BY <1>2, <2>3, <2>4, <2>5, <2>6, ConcatUnclashing
  <2> QED
    BY <2>3, <2>7 DEF uu
<1> HIDE DEF P
<1>3. <<>> \in T
  BY <1>1
<1>4. \A tt \in Seq(Seq(S)) : tt \in T => \A s \in Seq(S) : Append(tt, s) \in T
  BY <1>2
<1> HIDE DEF T
<1>5. Seq(Seq(S)) \subseteq T
  BY <1>3, <1>4, SeqInduction
<1>6. ss \in T
  BY <1>5
<1> QED
  BY <1>6 DEF T, P

-----------------------------------------------------------------------------
(* Keep.                                                                   *)

\* What Keep flattens: each element that is kept, by itself.
Singles(s, A) == [j \in DOMAIN s |-> IF s[j] \in A THEN <<s[j]>> ELSE <<>>]

\* It is a sequence of sequences.
LEMMA SinglesType ==
  ASSUME NEW S, NEW A, NEW s \in Seq(S)
  PROVE  Singles(s, A) \in Seq(Seq(S)) /\ Keep(s, A) = FlattenSeq(Singles(s, A))
<1>1. ASSUME NEW j \in DOMAIN s PROVE (IF s[j] \in A THEN <<s[j]>> ELSE <<>>) \in Seq(S)
  BY <1>1
<1>2. DOMAIN s = 1 .. Len(s) /\ Len(s) \in Nat
  OBVIOUS
<1> QED
  BY <1>1, <1>2 DEF Singles, Keep

\* The result is a sequence.
LEMMA KeepType ==
  ASSUME NEW S, NEW A, NEW s \in Seq(S)
  PROVE  Keep(s, A) \in Seq(S)
  BY SinglesType, FlattenType

\* It has the elements of s that lie in A.
LEMMA KeepRange ==
  ASSUME NEW S, NEW A, NEW s \in Seq(S), NEW x
  PROVE  x \in ToSet(Keep(s, A)) <=> x \in ToSet(s) /\ x \in A
<1>1. x \in ToSet(Keep(s, A)) <=> \E i \in DOMAIN Singles(s, A) : x \in ToSet(Singles(s, A)[i])
  BY SinglesType, FlattenRange
<1>2. DOMAIN Singles(s, A) = DOMAIN s
  BY DEF Singles
<1>3. ASSUME NEW i \in DOMAIN s PROVE x \in ToSet(Singles(s, A)[i]) <=> x = s[i] /\ x \in A
  BY <1>3 DEF Singles, ToSet
<1>4. x \in ToSet(s) <=> \E i \in DOMAIN s : x = s[i]
  BY DEF ToSet
<1> QED
  BY <1>1, <1>2, <1>3, <1>4

\* Elements that do not clash within A are kept without a clash.
LEMMA KeepUnclashing ==
  ASSUME NEW S, NEW A, NEW C, NEW s \in Seq(S),
         \A i, j \in DOMAIN s : s[i] \in A /\ s[j] \in A /\ <<s[i], s[j]>> \in C => i = j
  PROVE  Unclashing(Keep(s, A), C)
<1>1. ASSUME NEW i \in DOMAIN s, NEW x \in ToSet(Singles(s, A)[i]) PROVE x = s[i] /\ x \in A
  BY <1>1 DEF Singles, ToSet
<1>2. ASSUME NEW i \in DOMAIN s PROVE Unclashing(Singles(s, A)[i], C)
  BY <1>2 DEF Singles, Unclashing
<1>3. DOMAIN Singles(s, A) = DOMAIN s
  BY DEF Singles
<1>4. Apart(Singles(s, A), C)
  BY <1>1, <1>2, <1>3 DEF Apart
<1> QED
  BY <1>4, SinglesType, FlattenUnclashing

\* Nothing is kept of nothing.
LEMMA KeepEmpty == ASSUME NEW A PROVE Keep(<<>>, A) = <<>>
<1>1. [j \in DOMAIN <<>> |-> IF <<>>[j] \in A THEN <<<<>>[j]>> ELSE <<>>] = <<>>
  OBVIOUS
<1> QED
  BY <1>1, FlattenEmpty DEF Keep

\* Keep respects concatenation.
LEMMA KeepConcat ==
  ASSUME NEW S, NEW A, NEW s \in Seq(S), NEW t \in Seq(S)
  PROVE  Keep(s \o t, A) = Keep(s, A) \o Keep(t, A)
<1> DEFINE L == Len(s)
           K == Len(t)
<1>1. L \in Nat /\ K \in Nat /\ DOMAIN s = 1 .. L /\ DOMAIN t = 1 .. K /\ DOMAIN (s \o t) = 1 .. L + K
  OBVIOUS
<1>2. \A i \in 1 .. L + K : (s \o t)[i] = IF i <= L THEN s[i] ELSE t[i - L]
  OBVIOUS
<1>3. s \o t \in Seq(S)
  OBVIOUS
<1>4. Singles(s, A) \in Seq(Seq(S)) /\ Singles(t, A) \in Seq(Seq(S)) /\ Singles(s \o t, A) \in Seq(Seq(S))
  BY <1>3, SinglesType
<1>5. Len(Singles(s, A)) = L /\ Len(Singles(t, A)) = K /\ Len(Singles(s \o t, A)) = L + K
  BY <1>1, <1>4 DEF Singles
<1> HIDE DEF L, K
<1>6. ASSUME NEW i \in 1 .. L + K PROVE Singles(s \o t, A)[i] = (Singles(s, A) \o Singles(t, A))[i]
  <2>1. (Singles(s, A) \o Singles(t, A))[i] = IF i <= L THEN Singles(s, A)[i] ELSE Singles(t, A)[i - L]
    BY <1>4, <1>5, ConcatProperties
  <2>2. CASE i <= L
    BY <1>1, <1>2, <2>1, <2>2 DEF Singles
  <2>3. CASE i > L
    <3>1. i - L \in 1 .. K /\ ~(i <= L)
      BY <1>1, <2>3
    <3> QED
      BY <1>1, <1>2, <2>1, <3>1 DEF Singles
  <2>4. i <= L \/ i > L
    BY <1>1
  <2> QED
    BY <2>2, <2>3, <2>4, Zenon
<1>7. Singles(s \o t, A) = Singles(s, A) \o Singles(t, A)
  <2> DEFINE u == Singles(s \o t, A)
             v == Singles(s, A) \o Singles(t, A)
  <2>1. u \in Seq(Seq(S)) /\ v \in Seq(Seq(S)) /\ Len(u) = L + K /\ Len(v) = L + K
    <3> DEFINE a == Singles(s, A)
               b == Singles(t, A)
    <3>1. a \in Seq(Seq(S)) /\ b \in Seq(Seq(S)) /\ Len(a) = L /\ Len(b) = K
      BY <1>4, <1>5
    <3> HIDE DEF a, b
    <3>2. a \o b \in Seq(Seq(S)) /\ Len(a \o b) = L + K
      BY <3>1, ConcatProperties
    <3> QED
      BY <1>4, <1>5, <3>2 DEF a, b
  <2>2. \A i \in 1 .. L + K : u[i] = v[i]
    BY <1>6
  <2> HIDE DEF u, v
  <2>3. u = v
    BY <2>1, <2>2
  <2> QED
    BY <2>3 DEF u, v
<1>8. FlattenSeq(Singles(s, A) \o Singles(t, A)) = FlattenSeq(Singles(s, A)) \o FlattenSeq(Singles(t, A))
  BY <1>4, FlattenConcat
<1> QED
  BY <1>3, <1>7, <1>8, SinglesType
\* Everything is kept of a sequence over A, and nothing of one without an element of A.
LEMMA KeepAllOrNone ==
  ASSUME NEW S, NEW A, NEW s \in Seq(S)
  PROVE  /\ ToSet(s) \subseteq A => Keep(s, A) = s
         /\ ToSet(s) \cap A = {} => Keep(s, A) = <<>>
<1> DEFINE P(t) == /\ ToSet(t) \subseteq A => Keep(t, A) = t
                   /\ ToSet(t) \cap A = {} => Keep(t, A) = <<>>
           T == {t \in Seq(S) : P(t)}
<1>1. P(<<>>)
  BY KeepEmpty
<1>2. ASSUME NEW t \in Seq(S), P(t), NEW e \in S PROVE P(Append(t, e))
  <2>1. Append(t, e) = t \o <<e>> /\ <<e>> \in Seq(S)
    OBVIOUS
  <2>2. Keep(Append(t, e), A) = Keep(t, A) \o Keep(<<e>>, A)
    BY <2>1, KeepConcat
  <2>3. Keep(<<e>>, A) = IF e \in A THEN <<e>> ELSE <<>>
    <3> DEFINE x == IF e \in A THEN <<e>> ELSE <<>>
    <3>0. x \in Seq(S)
      OBVIOUS
    <3>1. Singles(<<e>>, A) = <<x>>
      BY DEF Singles
    <3> HIDE DEF x
    <3>2. <<x>> = Append(<<>>, x) /\ <<>> \in Seq(Seq(S))
      OBVIOUS
    <3>3. FlattenSeq(Append(<<>>, x)) = FlattenSeq(<<>>) \o x
      BY <3>0, <3>2, FlattenAppend
    <3>4. <<>> \o x = x
      BY <3>0
    <3>5. Keep(<<e>>, A) = FlattenSeq(Singles(<<e>>, A))
      BY <2>1, SinglesType
    <3> QED
      BY <3>1, <3>2, <3>3, <3>4, <3>5, FlattenEmpty, Zenon DEF x
  <2>4. \A x : x \in ToSet(Append(t, e)) <=> x \in ToSet(t) \/ x = e
    <3>1. \A x : x \in ToSet(t \o <<e>>) <=> x \in ToSet(t) \/ x \in ToSet(<<e>>)
      BY <2>1, ConcatRange
    <3>2. ToSet(<<e>>) = {e}
      BY DEF ToSet
    <3> QED
      BY <2>1, <3>1, <3>2
  <2>5. ASSUME ToSet(Append(t, e)) \subseteq A PROVE Keep(Append(t, e), A) = Append(t, e)
    BY <1>2, <2>1, <2>2, <2>3, <2>4, <2>5
  <2>6. ASSUME ToSet(Append(t, e)) \cap A = {} PROVE Keep(Append(t, e), A) = <<>>
    BY <1>2, <2>1, <2>2, <2>3, <2>4, <2>6
  <2> QED
    BY <2>5, <2>6
<1> HIDE DEF P
<1>3. <<>> \in T
  BY <1>1
<1>4. \A t \in Seq(S) : t \in T => \A e \in S : Append(t, e) \in T
  BY <1>2
<1> HIDE DEF T
<1>5. Seq(S) \subseteq T
  BY <1>3, <1>4, SeqInduction
<1>6. s \in T
  BY <1>5
<1> QED
  BY <1>6 DEF T, P

\* What is kept of each of a sequence of sequences.
KeepEach(ss, A) == [i \in DOMAIN ss |-> Keep(ss[i], A)]

\* It is a sequence of sequences, and grows with ss.
LEMMA KeepEachType ==
  ASSUME NEW S, NEW A, NEW ss \in Seq(Seq(S))
  PROVE  /\ KeepEach(ss, A) \in Seq(Seq(S))
         /\ \A s \in Seq(S) : KeepEach(Append(ss, s), A) = Append(KeepEach(ss, A), Keep(s, A))
<1>0. DOMAIN ss = 1 .. Len(ss) /\ Len(ss) \in Nat /\ \A i \in DOMAIN ss : ss[i] \in Seq(S)
  OBVIOUS
<1>1. \A i \in DOMAIN ss : Keep(ss[i], A) \in Seq(S)
  BY <1>0, KeepType
<1>2. KeepEach(ss, A) \in Seq(Seq(S)) /\ Len(KeepEach(ss, A)) = Len(ss)
  BY <1>0, <1>1 DEF KeepEach
<1>3. ASSUME NEW s \in Seq(S) PROVE KeepEach(Append(ss, s), A) = Append(KeepEach(ss, A), Keep(s, A))
  <2> DEFINE u == KeepEach(Append(ss, s), A)
             v == Append(KeepEach(ss, A), Keep(s, A))
             n == Len(ss) + 1
  <2>1. Len(Append(ss, s)) = n /\ Append(ss, s)[n] = s /\ \A i \in 1 .. Len(ss) : Append(ss, s)[i] = ss[i]
    OBVIOUS
  <2>2. DOMAIN u = 1 .. n /\ u[n] = Keep(s, A) /\ \A i \in 1 .. Len(ss) : u[i] = Keep(ss[i], A)
    BY <2>1 DEF KeepEach
  <2>3. Keep(s, A) \in Seq(S)
    BY KeepType
  <2>4. DOMAIN v = 1 .. n /\ v[n] = Keep(s, A) /\ \A i \in 1 .. Len(ss) : v[i] = KeepEach(ss, A)[i]
    BY <1>2, <2>3, AppendProperties
  <2>5. \A i \in 1 .. Len(ss) : KeepEach(ss, A)[i] = Keep(ss[i], A)
    BY <1>0 DEF KeepEach
  <2>6. \A i \in 1 .. n : u[i] = v[i]
    BY <1>0, <2>2, <2>4, <2>5
  <2>7. u = [i \in 1 .. n |-> u[i]] /\ v = [i \in 1 .. n |-> v[i]]
    <3>1. u \in [1 .. n -> Seq(S)]
      BY <1>1, <1>0, <2>2, <2>3 DEF KeepEach
    <3>2. v \in Seq(Seq(S)) /\ Len(v) = n
      BY <1>2, <2>3, AppendProperties
    <3> HIDE DEF u, v, n
    <3> QED
      BY <3>1, <3>2
  <2> HIDE DEF u, v, n
  <2>8. u = v
    BY <2>6, <2>7
  <2> QED
    BY <2>8 DEF u, v
<1> QED
  BY <1>2, <1>3

\* Keep and FlattenSeq commute.
LEMMA KeepFlatten ==
  ASSUME NEW S, NEW A, NEW ss \in Seq(Seq(S))
  PROVE  Keep(FlattenSeq(ss), A) = FlattenSeq(KeepEach(ss, A))
<1> DEFINE P(tt) == Keep(FlattenSeq(tt), A) = FlattenSeq(KeepEach(tt, A))
           T == {tt \in Seq(Seq(S)) : P(tt)}
<1>1. P(<<>>)
  <2>1. KeepEach(<<>>, A) = <<>>
    BY DEF KeepEach
  <2> QED
    BY <2>1, FlattenEmpty, KeepEmpty
<1>2. ASSUME NEW tt \in Seq(Seq(S)), P(tt), NEW s \in Seq(S) PROVE P(Append(tt, s))
  <2>1. FlattenSeq(Append(tt, s)) = FlattenSeq(tt) \o s /\ FlattenSeq(tt) \in Seq(S)
    BY FlattenAppend, FlattenType
  <2>2. Keep(FlattenSeq(tt) \o s, A) = Keep(FlattenSeq(tt), A) \o Keep(s, A)
    BY <2>1, KeepConcat
  <2>3. KeepEach(Append(tt, s), A) = Append(KeepEach(tt, A), Keep(s, A)) /\ KeepEach(tt, A) \in Seq(Seq(S))
    BY KeepEachType
  <2>4. Keep(s, A) \in Seq(S)
    BY KeepType
  <2>5. FlattenSeq(Append(KeepEach(tt, A), Keep(s, A))) = FlattenSeq(KeepEach(tt, A)) \o Keep(s, A)
    BY <2>3, <2>4, FlattenAppend
  <2> QED
    BY <1>2, <2>1, <2>2, <2>3, <2>5
<1> HIDE DEF P
<1>3. <<>> \in T
  BY <1>1
<1>4. \A tt \in Seq(Seq(S)) : tt \in T => \A s \in Seq(S) : Append(tt, s) \in T
  BY <1>2
<1> HIDE DEF T
<1>5. Seq(Seq(S)) \subseteq T
  BY <1>3, <1>4, SeqInduction
<1>6. ss \in T
  BY <1>5
<1> QED
  BY <1>6 DEF T, P

-----------------------------------------------------------------------------
(* Mapping a function over a sequence.                                     *)

\* F on every element of s.
Mapped(s, F) == [j \in DOMAIN s |-> F[s[j]]]
\* F on every element of every sequence of ss.
MapEach(ss, F) == [i \in DOMAIN ss |-> Mapped(ss[i], F)]

\* The result is a sequence of the same length.
LEMMA MappedType ==
  ASSUME NEW S, NEW R, NEW F \in [S -> R], NEW s \in Seq(S)
  PROVE  Mapped(s, F) \in Seq(R)
<1>1. DOMAIN s = 1 .. Len(s) /\ Len(s) \in Nat /\ \A i \in DOMAIN s : s[i] \in S
  OBVIOUS
<1> QED
  BY <1>1 DEF Mapped

\* The elements are the images.
LEMMA MappedRange ==
  ASSUME NEW s, NEW F, NEW y
  PROVE  y \in ToSet(Mapped(s, F)) <=> \E x \in ToSet(s) : y = F[x]
  BY DEF Mapped, ToSet

\* Mapping respects concatenation.
LEMMA MappedConcat ==
  ASSUME NEW S, NEW R, NEW F \in [S -> R], NEW s \in Seq(S), NEW t \in Seq(S)
  PROVE  Mapped(s \o t, F) = Mapped(s, F) \o Mapped(t, F)
<1> DEFINE L == Len(s)
           K == Len(t)
           u == Mapped(s \o t, F)
           v == Mapped(s, F) \o Mapped(t, F)
<1>1. L \in Nat /\ K \in Nat /\ DOMAIN s = 1 .. L /\ DOMAIN t = 1 .. K /\ DOMAIN (s \o t) = 1 .. L + K
  OBVIOUS
<1>2. \A i \in 1 .. L + K : (s \o t)[i] = IF i <= L THEN s[i] ELSE t[i - L]
  OBVIOUS
<1>3. s \o t \in Seq(S) /\ Len(s \o t) = L + K
  OBVIOUS
<1>4. Mapped(s, F) \in Seq(R) /\ Mapped(t, F) \in Seq(R) /\ Len(Mapped(s, F)) = L /\ Len(Mapped(t, F)) = K
  <2>1. Mapped(s, F) \in Seq(R) /\ Mapped(t, F) \in Seq(R)
    BY MappedType
  <2>2. DOMAIN Mapped(s, F) = 1 .. L /\ DOMAIN Mapped(t, F) = 1 .. K
    BY <1>1 DEF Mapped
  <2> QED
    BY <1>1, <2>1, <2>2
<1> HIDE DEF L, K
<1>5. u \in Seq(R) /\ Len(u) = L + K
  <2>1. Mapped(s \o t, F) \in Seq(R)
    BY <1>3, MappedType, Zenon
  <2>2. DOMAIN u = 1 .. L + K
    BY <1>1 DEF Mapped
  <2> HIDE DEF u
  <2> QED
    BY <1>1, <2>1, <2>2 DEF u
<1>6. v \in Seq(R) /\ Len(v) = L + K
  BY <1>4, ConcatProperties
<1>7. ASSUME NEW i \in 1 .. L + K PROVE u[i] = v[i]
  <2>1. v[i] = IF i <= L THEN Mapped(s, F)[i] ELSE Mapped(t, F)[i - L]
    BY <1>4, ConcatProperties
  <2>2. u[i] = F[(s \o t)[i]]
    BY <1>1 DEF Mapped
  <2>3. CASE i <= L
    BY <1>1, <1>2, <2>1, <2>2, <2>3 DEF Mapped
  <2>4. CASE i > L
    <3>1. i - L \in 1 .. K /\ ~(i <= L)
      BY <1>1, <2>4
    <3> QED
      BY <1>1, <1>2, <2>1, <2>2, <3>1 DEF Mapped
  <2>5. i <= L \/ i > L
    BY <1>1
  <2> QED
    BY <2>3, <2>4, <2>5, Zenon
<1> HIDE DEF u, v
<1>8. u = v
  BY <1>1, <1>5, <1>6, <1>7, SeqEqual
<1> QED
  BY <1>8 DEF u, v

\* Mapping each of a sequence of sequences gives a sequence of sequences.
LEMMA MapEachType ==
  ASSUME NEW S, NEW R, NEW F \in [S -> R], NEW ss \in Seq(Seq(S))
  PROVE  MapEach(ss, F) \in Seq(Seq(R))
<1>0. DOMAIN ss = 1 .. Len(ss) /\ Len(ss) \in Nat /\ \A i \in DOMAIN ss : ss[i] \in Seq(S)
  OBVIOUS
<1>1. \A i \in DOMAIN ss : Mapped(ss[i], F) \in Seq(R)
  BY <1>0, MappedType
<1> QED
  BY <1>0, <1>1 DEF MapEach

\* One more sequence is one more that is mapped.
LEMMA MapEachAppend ==
  ASSUME NEW S, NEW R, NEW F \in [S -> R], NEW ss \in Seq(Seq(S)), NEW s \in Seq(S)
  PROVE  MapEach(Append(ss, s), F) = Append(MapEach(ss, F), Mapped(s, F))
<1>0. DOMAIN ss = 1 .. Len(ss) /\ Len(ss) \in Nat /\ \A i \in DOMAIN ss : ss[i] \in Seq(S)
  OBVIOUS
<1>1. \A i \in DOMAIN ss : Mapped(ss[i], F) \in Seq(R)
  BY <1>0, MappedType
<1>2. MapEach(ss, F) \in Seq(Seq(R)) /\ Len(MapEach(ss, F)) = Len(ss)
  BY <1>0, <1>1 DEF MapEach
<1> DEFINE u == MapEach(Append(ss, s), F)
           v == Append(MapEach(ss, F), Mapped(s, F))
           n == Len(ss) + 1
<1>3. Len(Append(ss, s)) = n /\ Append(ss, s)[n] = s /\ \A i \in 1 .. Len(ss) : Append(ss, s)[i] = ss[i]
  OBVIOUS
<1>4. DOMAIN u = 1 .. n /\ u[n] = Mapped(s, F) /\ \A i \in 1 .. Len(ss) : u[i] = Mapped(ss[i], F)
  BY <1>3 DEF MapEach
<1>5. Mapped(s, F) \in Seq(R)
  BY MappedType
<1>6. DOMAIN v = 1 .. n /\ v[n] = Mapped(s, F) /\ \A i \in 1 .. Len(ss) : v[i] = MapEach(ss, F)[i]
  BY <1>2, <1>5, AppendProperties
<1>7. \A i \in 1 .. Len(ss) : MapEach(ss, F)[i] = Mapped(ss[i], F)
  BY <1>0 DEF MapEach
<1>8. \A i \in 1 .. n : u[i] = v[i]
  BY <1>0, <1>4, <1>6, <1>7
<1>9. u = [i \in 1 .. n |-> u[i]] /\ v = [i \in 1 .. n |-> v[i]]
  <2>1. u \in [1 .. n -> Seq(R)]
    BY <1>1, <1>0, <1>4, <1>5 DEF MapEach
  <2>2. v \in Seq(Seq(R)) /\ Len(v) = n
    BY <1>2, <1>5, AppendProperties
  <2> HIDE DEF u, v, n
  <2> QED
    BY <2>1, <2>2
<1> HIDE DEF u, v, n
<1>10. u = v
  BY <1>8, <1>9
<1> QED
  BY <1>10 DEF u, v

\* Mapping and FlattenSeq commute.
LEMMA MapFlatten ==
  ASSUME NEW S, NEW R, NEW F \in [S -> R], NEW ss \in Seq(Seq(S))
  PROVE  Mapped(FlattenSeq(ss), F) = FlattenSeq(MapEach(ss, F))
<1> DEFINE P(tt) == Mapped(FlattenSeq(tt), F) = FlattenSeq(MapEach(tt, F))
           T == {tt \in Seq(Seq(S)) : P(tt)}
<1>1. P(<<>>)
  <2>1. MapEach(<<>>, F) = <<>> /\ Mapped(<<>>, F) = <<>>
    BY DEF MapEach, Mapped
  <2> QED
    BY <2>1, FlattenEmpty
<1>2. ASSUME NEW tt \in Seq(Seq(S)), P(tt), NEW s \in Seq(S) PROVE P(Append(tt, s))
  <2>1. FlattenSeq(Append(tt, s)) = FlattenSeq(tt) \o s /\ FlattenSeq(tt) \in Seq(S)
    BY FlattenAppend, FlattenType
  <2>2. Mapped(FlattenSeq(tt) \o s, F) = Mapped(FlattenSeq(tt), F) \o Mapped(s, F)
    BY <2>1, MappedConcat, ZenonT(60)
  <2>3. MapEach(Append(tt, s), F) = Append(MapEach(tt, F), Mapped(s, F)) /\ MapEach(tt, F) \in Seq(Seq(R))
    BY MapEachAppend, MapEachType
  <2>4. Mapped(s, F) \in Seq(R)
    BY MappedType
  <2>5. FlattenSeq(Append(MapEach(tt, F), Mapped(s, F))) = FlattenSeq(MapEach(tt, F)) \o Mapped(s, F)
    BY <2>3, <2>4, FlattenAppend
  <2> QED
    BY <1>2, <2>1, <2>2, <2>3, <2>5
<1> HIDE DEF P
<1>3. <<>> \in T
  BY <1>1
<1>4. \A tt \in Seq(Seq(S)) : tt \in T => \A s \in Seq(S) : Append(tt, s) \in T
  BY <1>2
<1> HIDE DEF T
<1>5. Seq(Seq(S)) \subseteq T
  BY <1>3, <1>4, SeqInduction
<1>6. ss \in T
  BY <1>5
<1> QED
  BY <1>6 DEF T, P

\* A sequence without repetition is as long as it has elements.
LEMMA DistinctCount ==
  ASSUME NEW S, NEW s \in Seq(S), \A i, j \in DOMAIN s : s[i] = s[j] => i = j
  PROVE  IsFiniteSet(ToSet(s)) /\ Cardinality(ToSet(s)) = Len(s)
<1>1. Len(s) \in Nat /\ DOMAIN s = 1 .. Len(s) /\ s = [i \in 1 .. Len(s) |-> s[i]]
  OBVIOUS
<1>2. IsFiniteSet(1 .. Len(s)) /\ Cardinality(1 .. Len(s)) = Len(s)
  <2>1. \A a, b \in Int : IsFiniteSet(a .. b) /\ Cardinality(a .. b) = IF a > b THEN 0 ELSE b - a + 1
    BY FS_Interval
  <2>0. 1 \in Int /\ Len(s) \in Int
    BY <1>1
  <2>2. IsFiniteSet(1 .. Len(s)) /\ Cardinality(1 .. Len(s)) = IF 1 > Len(s) THEN 0 ELSE Len(s) - 1 + 1
    BY <2>0, <2>1, Zenon
  <2> QED
    BY <1>1, <2>2
<1>3. s \in Bijection(1 .. Len(s), ToSet(s))
  <2>1. s \in [1 .. Len(s) -> ToSet(s)]
    BY <1>1 DEF ToSet
  <2>2. \A y \in ToSet(s) : \E i \in 1 .. Len(s) : s[i] = y
    BY <1>1 DEF ToSet
  <2>3. IsInjective(s)
    BY DEF IsInjective
  <2> QED
    BY <2>1, <2>2, <2>3 DEF Bijection, Injection, Surjection
<1>4. ExistsBijection(1 .. Len(s), ToSet(s))
  BY <1>3 DEF ExistsBijection
<1> QED
  BY <1>2, <1>4, FS_Bijection
\* Each of a sequence of sequences of sequences, flattened.
FlattenEach(sss) == [i \in DOMAIN sss |-> FlattenSeq(sss[i])]

\* It is a sequence of sequences, and grows with sss.
LEMMA FlattenEachType ==
  ASSUME NEW S, NEW sss \in Seq(Seq(Seq(S)))
  PROVE  /\ FlattenEach(sss) \in Seq(Seq(S))
         /\ \A ss \in Seq(Seq(S)) : FlattenEach(Append(sss, ss)) = Append(FlattenEach(sss), FlattenSeq(ss))
<1> DEFINE Q == Seq(Seq(S))
           F == [ss \in Q |-> FlattenSeq(ss)]
<1>1. \A ss \in Q : FlattenSeq(ss) \in Seq(S)
  BY FlattenType
<1>2. F \in [Q -> Seq(S)] /\ \A ss \in Q : F[ss] = FlattenSeq(ss)
  BY <1>1
<1>3. ASSUME NEW tt \in Seq(Q) PROVE FlattenEach(tt) = Mapped(tt, F)
  <2>1. \A i \in DOMAIN tt : tt[i] \in Q
    OBVIOUS
  <2> HIDE DEF F, Q
  <2> QED
    BY <1>2, <2>1 DEF FlattenEach, Mapped
<1>0. sss \in Seq(Q)
  OBVIOUS
<1> HIDE DEF F
<1>4. \A tt \in Seq(Q) : Mapped(tt, F) \in Seq(Seq(S))
  BY <1>2, MappedType
<1>5. FlattenEach(sss) \in Seq(Seq(S))
  BY <1>0, <1>3, <1>4
<1>6. ASSUME NEW ss \in Q PROVE FlattenEach(Append(sss, ss)) = Append(FlattenEach(sss), FlattenSeq(ss))
  <2> HIDE DEF Q
  <2>1. Append(sss, ss) = sss \o <<ss>> /\ <<ss>> \in Seq(Q) /\ Append(sss, ss) \in Seq(Q)
    BY <1>0
  <2>2. Mapped(sss \o <<ss>>, F) = Mapped(sss, F) \o Mapped(<<ss>>, F)
    BY <1>0, <1>2, <2>1, MappedConcat, ZenonT(60)
  <2>3. Mapped(<<ss>>, F) = <<F[ss]>>
    BY DEF Mapped
  <2>4. FlattenSeq(ss) \in Seq(S)
    BY <1>1
  <2>5. FlattenEach(sss) \o <<FlattenSeq(ss)>> = Append(FlattenEach(sss), FlattenSeq(ss))
    BY <1>5, <2>4, AppendIsConcat
  <2>6. FlattenEach(Append(sss, ss)) = Mapped(sss \o <<ss>>, F) /\ FlattenEach(sss) = Mapped(sss, F)
    BY <1>0, <1>3, <2>1
  <2> QED
    BY <1>2, <2>2, <2>3, <2>5, <2>6
<1> QED
  BY <1>5, <1>6

\* Flattening twice from the outside or from the inside is the same.
LEMMA FlattenFlatten ==
  ASSUME NEW S, NEW sss \in Seq(Seq(Seq(S)))
  PROVE  FlattenSeq(FlattenSeq(sss)) = FlattenSeq(FlattenEach(sss))
<1> DEFINE Q == Seq(Seq(S))
           P(uu) == FlattenSeq(FlattenSeq(uu)) = FlattenSeq(FlattenEach(uu))
           T == {uu \in Seq(Q) : P(uu)}
<1>1. P(<<>>)
  <2>1. FlattenEach(<<>>) = <<>>
    BY DEF FlattenEach
  <2> QED
    BY <2>1, FlattenEmpty
<1>2. ASSUME NEW uu \in Seq(Q), P(uu), NEW ss \in Q PROVE P(Append(uu, ss))
  <2>1. FlattenSeq(Append(uu, ss)) = FlattenSeq(uu) \o ss /\ FlattenSeq(uu) \in Q
    BY FlattenAppend, FlattenType
  <2>2. FlattenSeq(FlattenSeq(uu) \o ss) = FlattenSeq(FlattenSeq(uu)) \o FlattenSeq(ss)
    BY <2>1, FlattenConcat
  <2>3. FlattenEach(Append(uu, ss)) = Append(FlattenEach(uu), FlattenSeq(ss)) /\ FlattenEach(uu) \in Q
    BY FlattenEachType
  <2>4. FlattenSeq(ss) \in Seq(S)
    BY FlattenType
  <2>5. FlattenSeq(Append(FlattenEach(uu), FlattenSeq(ss))) = FlattenSeq(FlattenEach(uu)) \o FlattenSeq(ss)
    BY <2>3, <2>4, FlattenAppend
  <2> QED
    BY <1>2, <2>1, <2>2, <2>3, <2>5
<1> HIDE DEF P
<1>3. <<>> \in T
  BY <1>1
<1>4. \A uu \in Seq(Q) : uu \in T => \A ss \in Q : Append(uu, ss) \in T
  BY <1>2
<1>5. Seq(Q) \subseteq T
  <2> HIDE DEF T, Q
  <2> QED
    BY <1>3, <1>4, SeqInduction
<1>6. sss \in T
  BY <1>5
<1> QED
  BY <1>6 DEF T, P
\* Single elements are put together to the sequence they come from.
LEMMA FlattenSingles ==
  ASSUME NEW S, NEW s \in Seq(S), NEW ss, ss = [j \in DOMAIN s |-> <<s[j]>>]
  PROVE  FlattenSeq(ss) = s
<1>1. ss = Singles(s, S)
  BY DEF Singles
<1>2. ToSet(s) \subseteq S
  BY DEF ToSet
<1> QED
  BY <1>1, <1>2, SinglesType, KeepAllOrNone

\* Mapping first or keeping first is the same when F stays in A and out of it.
LEMMA KeepMapped ==
  ASSUME NEW S, NEW s \in Seq(S), NEW F, NEW A, \A x \in ToSet(s) : F[x] \in A <=> x \in A
  PROVE  Keep(Mapped(s, F), A) = Mapped(Keep(s, A), F)
<1> DEFINE Q == ToSet(s)
           R == {F[x] : x \in Q}
           G == [x \in Q |-> F[x]]
           m == Mapped(s, F)
<1>1. DOMAIN s = 1 .. Len(s) /\ Len(s) \in Nat /\ \A j \in DOMAIN s : s[j] \in Q
  BY DEF ToSet
<1>2. s \in Seq(Q)
  <2> HIDE DEF Q
  <2>1. s = [j \in 1 .. Len(s) |-> s[j]]
    BY <1>1
  <2> QED
    BY <1>1, <2>1
<1>3. G \in [Q -> R] /\ \A x \in Q : G[x] = F[x]
  OBVIOUS
<1>4. \A x \in Q : G[x] \in A <=> x \in A
  BY <1>3
<1> HIDE DEF Q, R, G
<1>5. m = Mapped(s, G)
  BY <1>1, <1>3 DEF Mapped
<1>6. m \in Seq(R) /\ DOMAIN m = DOMAIN s /\ \A j \in DOMAIN s : m[j] = G[s[j]]
  <2>1. \A t \in Seq(Q) : Mapped(t, G) \in Seq(R)
    BY <1>3, MappedType
  <2> QED
    BY <1>2, <1>5, <2>1 DEF Mapped
<1> HIDE DEF m
<1>7. Singles(s, A) \in Seq(Seq(Q)) /\ Keep(s, A) = FlattenSeq(Singles(s, A)) /\ Keep(m, A) = FlattenSeq(Singles(m, A))
  BY <1>2, <1>6, SinglesType
<1>8. Singles(m, A) = MapEach(Singles(s, A), G)
  <2>1. ASSUME NEW j \in DOMAIN s PROVE Singles(m, A)[j] = Mapped(Singles(s, A)[j], G)
    <3>1. CASE s[j] \in A
      <4>1. Singles(m, A)[j] = <<m[j]>> /\ Singles(s, A)[j] = <<s[j]>>
        BY <1>1, <1>4, <1>6, <3>1 DEF Singles
      <4> QED
        BY <1>6, <4>1 DEF Mapped
    <3>2. CASE s[j] \notin A
      <4>1. Singles(m, A)[j] = <<>> /\ Singles(s, A)[j] = <<>>
        BY <1>1, <1>4, <1>6, <3>2 DEF Singles
      <4> QED
        BY <4>1 DEF Mapped
    <3> QED
      BY <3>1, <3>2
  <2>2. DOMAIN Singles(m, A) = DOMAIN s /\ DOMAIN Singles(s, A) = DOMAIN s
    BY <1>6 DEF Singles
  <2>3. Singles(m, A) = [j \in DOMAIN s |-> Singles(m, A)[j]]
    BY <1>6 DEF Singles
  <2>4. MapEach(Singles(s, A), G) = [j \in DOMAIN s |-> Mapped(Singles(s, A)[j], G)]
    BY <2>2 DEF MapEach
  <2> QED
    BY <2>1, <2>3, <2>4
<1>9. Mapped(Keep(s, A), G) = Keep(m, A)
  <2>1. \A ss \in Seq(Seq(Q)) : Mapped(FlattenSeq(ss), G) = FlattenSeq(MapEach(ss, G))
    BY <1>3, MapFlatten
  <2> QED
    BY <1>7, <1>8, <2>1
<1>10. Mapped(Keep(s, A), G) = Mapped(Keep(s, A), F)
  <2>1. Keep(s, A) \in Seq(Q)
    BY <1>2, KeepType
  <2>2. \A j \in DOMAIN Keep(s, A) : Keep(s, A)[j] \in Q
    BY <2>1
  <2> QED
    BY <1>3, <2>2 DEF Mapped
<1> QED
  BY <1>9, <1>10 DEF m
=============================================================================
