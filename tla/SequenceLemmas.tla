--------------------------- MODULE SequenceLemmas ---------------------------
(***************************************************************************)
(* Numbers, recursive functions and sequences, as the proofs need them.    *)
(* A fact about what a recursive function computes is proved by taking the *)
(* set of numbers it holds for and citing Induction.                       *)
(***************************************************************************)
EXTENDS Naturals, Sequences, SequencesExt, SequenceTheorems, WellFoundedInduction, TLAPS

(* A set of numbers that is not empty has a least one.                      *)
LEMMA LeastNumber ==
  ASSUME NEW T \in SUBSET Nat, T # {}
  PROVE  \E x \in T : \A y \in T : x <= y
<1>1. PICK x \in T : \A y \in T : ~(<<y, x>> \in OpToRel(<, Nat))
  BY NatLessThanWellFounded, WFMin
<1>2. \A y \in T : ~(y < x)
  BY <1>1 DEF OpToRel
<1>3. \A y \in T : x <= y
  BY <1>2
<1> QED BY <1>3

(* A set that has 0 and with a number the next one has every number.        *)
LEMMA Induction ==
  ASSUME NEW T \in SUBSET Nat, 0 \in T, \A n \in T : n + 1 \in T
  PROVE  T = Nat
<1>1. SUFFICES ASSUME Nat \ T # {} PROVE FALSE
  OBVIOUS
<1>2. PICK x \in Nat \ T : \A y \in Nat \ T : x <= y
  BY LeastNumber, <1>1
<1>3. x # 0
  BY <1>2
<1>4. x - 1 \in Nat /\ x - 1 \notin Nat \ T
  BY <1>2, <1>3
<1> QED BY <1>4, <1>2

(* A set of bounded numbers that is not empty has a greatest one.           *)
LEMMA GreatestNumber ==
  ASSUME NEW n \in Nat, NEW I \in SUBSET (0 .. n), I # {}
  PROVE  \E x \in I : \A y \in I : y <= x
<1> DEFINE T == {k \in Nat : n - k \in I}
<1>1. T # {}
  <2>1. PICK i \in I : TRUE
    OBVIOUS
  <2>2. n - i \in Nat /\ n - (n - i) = i
    BY <2>1
  <2> QED BY <2>2
<1>2. PICK k \in T : \A l \in T : k <= l
  BY <1>1, LeastNumber
<1>3. \A y \in I : n - y \in T
  <2>1. \A y \in I : y \in 0 .. n
    OBVIOUS
  <2>2. \A y \in I : n - y \in Nat /\ n - (n - y) = y
    BY <2>1
  <2> QED BY <2>2
<1>4. \A y \in I : k <= n - y
  BY <1>2, <1>3
<1>5. \A y \in I : y <= n - k
  BY <1>4
<1> QED BY <1>2, <1>5

(* f starts with a, and g makes its value at n of the one before and n.     *)
Recurs(f, a, N, g) == f[0] = a /\ \A n \in 1 .. N : f[n] = g[<<f[n - 1], n>>]

(* Such a function exists.                                                 *)
LEMMA Recursion ==
  ASSUME NEW S, NEW a \in S, NEW N \in Nat, NEW g \in [S \X (1 .. N) -> S]
  PROVE  \E f \in [0 .. N -> S] : Recurs(f, a, N, g)
<1> DEFINE Upto(n, f) == f[0] = a /\ \A k \in 1 .. n : f[k] = g[<<f[k - 1], k>>]
           T == {n \in Nat : n <= N => \E f \in [0 .. n -> S] : Upto(n, f)}
<1>1. 0 \in T
  <2>1. [k \in 0 .. 0 |-> a] \in [0 .. 0 -> S]
    OBVIOUS
  <2>2. Upto(0, [k \in 0 .. 0 |-> a])
    OBVIOUS
  <2> QED BY <2>1, <2>2
<1>2. ASSUME NEW n \in T PROVE n + 1 \in T
  <2>1. SUFFICES ASSUME n + 1 <= N PROVE \E f \in [0 .. n + 1 -> S] : Upto(n + 1, f)
    OBVIOUS
  <2>2. PICK f \in [0 .. n -> S] : Upto(n, f)
    BY <2>1
  <2>3. <<f[n], n + 1>> \in S \X (1 .. N)
    BY <2>1, <2>2
  <2> DEFINE h == [k \in 0 .. n + 1 |-> IF k = n + 1 THEN g[<<f[n], n + 1>>] ELSE f[k]]
  <2>4. h \in [0 .. n + 1 -> S]
    BY <2>3, <2>2
  <2>5. h[0] = a
    BY <2>2
  <2>6. \A k \in 1 .. n + 1 : h[k] = g[<<h[k - 1], k>>]
    <3>1. \A k \in 0 .. n : h[k] = f[k]
      OBVIOUS
    <3>2. \A k \in 1 .. n : h[k] = g[<<h[k - 1], k>>]
      <4>1. \A k \in 1 .. n : k \in 0 .. n /\ k - 1 \in 0 .. n
        OBVIOUS
      <4> QED BY <3>1, <2>2, <4>1
    <3>3. h[n + 1] = g[<<h[(n + 1) - 1], n + 1>>]
      <4>1. (n + 1) - 1 = n /\ n \in 0 .. n /\ n + 1 \in 0 .. n + 1
        OBVIOUS
      <4>2. h[n + 1] = g[<<f[n], n + 1>>]
        BY <4>1
      <4> QED BY <4>1, <4>2, <3>1
    <3>4. \A k \in 1 .. n + 1 : k \in 1 .. n \/ k = n + 1
      OBVIOUS
    <3> HIDE DEF h
    <3> QED BY <3>2, <3>3, <3>4
  <2> HIDE DEF h
  <2> QED BY <2>4, <2>5, <2>6
<1>3. T = Nat
  <2> HIDE DEF T
  <2>1. T \in SUBSET Nat
    BY DEF T
  <2> QED BY <1>1, <1>2, <2>1, Induction
<1>4. N \in T
  <2> HIDE DEF T
  <2> QED BY <1>3
<1>5. N <= N => \E f \in [0 .. N -> S] : Upto(N, f)
  <2> HIDE DEF Upto
  <2> QED BY <1>4
<1>6. PICK f \in [0 .. N -> S] : Upto(N, f)
  BY <1>5
<1> QED BY <1>6 DEF Recurs

(* Head and Tail, by their elements.                                        *)
LEMMA TailOf ==
  ASSUME NEW S, NEW s \in Seq(S), s # <<>>
  PROVE  /\ Head(s) \in S /\ 1 \in DOMAIN s /\ Head(s) = s[1]
         /\ Tail(s) \in Seq(S) /\ DOMAIN Tail(s) = 1 .. Len(s) - 1
         /\ \A i \in DOMAIN Tail(s) : i + 1 \in DOMAIN s /\ Tail(s)[i] = s[i + 1]
OBVIOUS

(* Append, by its elements.                                                *)
LEMMA AppendTo ==
  ASSUME NEW S, NEW s \in Seq(S), NEW e \in S
  PROVE  /\ Append(s, e) \in Seq(S) /\ DOMAIN Append(s, e) = 1 .. Len(s) + 1
         /\ Append(s, e)[Len(s) + 1] = e
         /\ \A i \in DOMAIN s : i \in DOMAIN Append(s, e) /\ i < Len(s) + 1 /\ Append(s, e)[i] = s[i]
         /\ \A i \in DOMAIN Append(s, e) : i \in DOMAIN s \/ i = Len(s) + 1
OBVIOUS

(* A prefix, by its elements.                                              *)
LEMMA PrefixOf ==
  ASSUME NEW S, NEW s \in Seq(S), NEW n \in 0 .. Len(s)
  PROVE  /\ SubSeq(s, 1, n) \in Seq(S) /\ DOMAIN SubSeq(s, 1, n) = 1 .. n
         /\ \A i \in 1 .. n : i \in DOMAIN s /\ SubSeq(s, 1, n)[i] = s[i]
OBVIOUS

(* A suffix, by its elements.                                              *)
LEMMA SuffixOf ==
  ASSUME NEW S, NEW s \in Seq(S), NEW n \in 0 .. Len(s)
  PROVE  /\ SubSeq(s, n + 1, Len(s)) \in Seq(S)
         /\ DOMAIN SubSeq(s, n + 1, Len(s)) = 1 .. Len(s) - n
         /\ \A i \in 1 .. Len(s) - n : i + n \in DOMAIN s /\ SubSeq(s, n + 1, Len(s))[i] = s[i + n]
OBVIOUS

(* A part of a sequence, by its elements.                                   *)
LEMMA PartOf ==
  ASSUME NEW S, NEW s \in Seq(S), NEW a \in Nat, NEW b \in 0 .. Len(s), a <= b
  PROVE  /\ SubSeq(s, a + 1, b) \in Seq(S) /\ Len(SubSeq(s, a + 1, b)) = b - a
         /\ \A i \in 1 .. b - a : a + i \in 1 .. Len(s) /\ SubSeq(s, a + 1, b)[i] = s[a + i]
OBVIOUS

(* A part of a part.                                                        *)
LEMMA PartOfPart ==
  ASSUME NEW S, NEW s \in Seq(S), NEW a \in Nat, NEW b \in 0 .. Len(s), a <= b,
         NEW x \in Nat, NEW y \in 0 .. b - a, x <= y
  PROVE  SubSeq(SubSeq(s, a + 1, b), x + 1, y) = SubSeq(s, (a + x) + 1, a + y)
<1>1. PICK t : t = SubSeq(s, a + 1, b)
  OBVIOUS
<1>2. /\ t \in Seq(S) /\ Len(t) = b - a
      /\ \A i \in 1 .. b - a : t[i] = s[a + i]
  BY <1>1, PartOf
<1>3. PICK u : u = SubSeq(t, x + 1, y)
  OBVIOUS
<1>4. /\ u \in Seq(S) /\ Len(u) = y - x
      /\ \A i \in 1 .. y - x : x + i \in 1 .. b - a /\ u[i] = t[x + i]
  BY <1>2, <1>3, PartOf
<1>5. PICK v : v = SubSeq(s, (a + x) + 1, a + y)
  OBVIOUS
<1>6. a + x \in Nat /\ a + y \in 0 .. Len(s) /\ a + x <= a + y /\ (a + y) - (a + x) = y - x
  OBVIOUS
<1>7. /\ v \in Seq(S) /\ Len(v) = y - x
      /\ \A i \in 1 .. y - x : v[i] = s[(a + x) + i]
  BY <1>5, <1>6, PartOf
<1>8. ASSUME NEW i \in 1 .. y - x PROVE u[i] = v[i]
  <2>1. a + (x + i) = (a + x) + i
    OBVIOUS
  <2> QED BY <1>2, <1>4, <1>7, <2>1
<1>9. u = v
  BY <1>4, <1>7, <1>8, SeqEqual
<1> QED BY <1>1, <1>3, <1>5, <1>9

(* Sequences of sequences. *)

(* What FlattenSeq computes, by its recursion.                              *)
LEMMA FlattenSteps ==
  ASSUME NEW S, NEW ss \in Seq(Seq(S))
  PROVE  \E f \in [0 .. Len(ss) -> Seq(S)] :
           /\ f[0] = <<>> /\ \A k \in 1 .. Len(ss) : f[k] = f[k - 1] \o ss[k]
           /\ FlattenSeq(ss) = f[Len(ss)]
<1>1. PICK last \in Nat : last = Len(ss)
  OBVIOUS
<1>2. PICK a : a = <<>>
  OBVIOUS
<1>3. a \in Seq(S) /\ \A t \in Seq(S) : a \o t = t
  BY <1>2
<1>4. \A k \in 1 .. last : ss[k] \in Seq(S)
  BY <1>1
<1> DEFINE g == [p \in Seq(S) \X (1 .. last) |-> p[1] \o ss[p[2]]]
<1>5. g \in [Seq(S) \X (1 .. last) -> Seq(S)]
  <2>1. ASSUME NEW p \in Seq(S) \X (1 .. last) PROVE p[1] \o ss[p[2]] \in Seq(S)
    <3>1. p[1] \in Seq(S) /\ ss[p[2]] \in Seq(S)
      BY <1>4
    <3> QED BY <3>1
  <2> QED BY <2>1
<1>6. PICK f \in [0 .. last -> Seq(S)] : Recurs(f, a, last, g)
  <2> HIDE DEF g
  <2> QED BY <1>3, <1>5, Recursion
<1>7. f[0] = a /\ \A k \in 1 .. last : f[k] = f[k - 1] \o ss[k]
  <2>1. \A k \in 1 .. last : <<f[k - 1], k>> \in Seq(S) \X (1 .. last)
    <3>1. \A k \in 1 .. last : k - 1 \in 0 .. last
      OBVIOUS
    <3> QED BY <3>1
  <2>2. \A p \in Seq(S) \X (1 .. last) : g[p] = p[1] \o ss[p[2]]
    OBVIOUS
  <2>3. f[0] = a /\ \A k \in 1 .. last : f[k] = g[<<f[k - 1], k>>]
    BY <1>6 DEF Recurs
  <2> HIDE DEF g
  <2> QED BY <2>1, <2>2, <2>3
<1>8. ASSUME last = 0 PROVE FlattenSeq(ss) = f[last]
  <2>1. FlattenSeq(ss) = ss
    BY <1>1, <1>8 DEF FlattenSeq
  <2>2. PICK R : R = Seq(S)
    OBVIOUS
  <2>3. ss \in Seq(R) /\ Len(ss) = 0
    BY <1>1, <1>8, <2>2
  <2>4. ss = <<>>
    BY <2>3
  <2> QED BY <1>2, <1>7, <1>8, <2>1, <2>4
<1>9. ASSUME last # 0 PROVE FlattenSeq(ss) = f[last]
  <2> DEFINE IsFlat(u) == u = [i \in 1 .. last |-> IF i = 1 THEN ss[i] ELSE u[i - 1] \o ss[i]]
  <2>1. PICK v : v = [i \in 1 .. last |-> f[i]]
    OBVIOUS
  <2>2. IsFlat(v)
    <3>1. ASSUME NEW i \in 1 .. last PROVE v[i] = IF i = 1 THEN ss[i] ELSE v[i - 1] \o ss[i]
      <4>1. CASE i = 1
        <5>1. f[1] = f[0] \o ss[1] /\ ss[1] \in Seq(S) /\ v[1] = f[1]
          <6>1. 1 - 1 = 0 /\ 1 \in 1 .. last
            BY <4>1
          <6> QED BY <1>4, <1>7, <2>1, <6>1
        <5> QED BY <1>3, <1>7, <4>1, <5>1
      <4>2. CASE i # 1
        <5>1. i - 1 \in 1 .. last
          BY <4>2
        <5> QED BY <1>7, <2>1, <4>2, <5>1
      <4> QED BY <4>1, <4>2
    <3>2. v = [i \in 1 .. last |-> v[i]]
      BY <2>1
    <3> QED BY <3>1, <3>2
  <2>3. PICK u : u = CHOOSE h : IsFlat(h)
    OBVIOUS
  <2>4. IsFlat(u)
    <3> HIDE DEF IsFlat
    <3> QED BY <2>2, <2>3
  <2>5. FlattenSeq(ss) = u[last]
    BY <1>1, <1>9, <2>3 DEF FlattenSeq
  <2> DEFINE T == {k \in Nat : k + 1 <= last => u[k + 1] = f[k + 1]}
  <2>6. T = Nat
    <3>1. 0 \in T
      <4>1. 1 \in 1 .. last /\ 0 + 1 = 1 /\ 1 - 1 = 0
        BY <1>9
      <4>2. u[1] = ss[1]
        BY <2>4, <4>1
      <4>3. f[1] = ss[1]
        BY <1>3, <1>4, <1>7, <4>1
      <4> QED BY <4>1, <4>2, <4>3
    <3>2. ASSUME NEW k \in T PROVE k + 1 \in T
      <4>1. SUFFICES ASSUME (k + 1) + 1 <= last PROVE u[(k + 1) + 1] = f[(k + 1) + 1]
        OBVIOUS
      <4>2. PICK i \in 1 .. last : i = (k + 1) + 1
        BY <4>1
      <4>3. i # 1 /\ i - 1 = k + 1 /\ k + 1 <= last
        BY <4>1, <4>2
      <4>4. u[i - 1] = f[i - 1]
        BY <4>3
      <4>5. u[i] = u[i - 1] \o ss[i]
        BY <2>4, <4>3
      <4>6. f[i] = f[i - 1] \o ss[i]
        BY <1>7
      <4> HIDE DEF T
      <4> QED BY <4>2, <4>4, <4>5, <4>6
    <3>3. T \in SUBSET Nat
      OBVIOUS
    <3> HIDE DEF T
    <3> QED BY <3>1, <3>2, <3>3, Induction
  <2>7. last - 1 \in Nat /\ (last - 1) + 1 = last
    BY <1>9
  <2>8. \A k \in T : k + 1 <= last => u[k + 1] = f[k + 1]
    OBVIOUS
  <2>9. u[last] = f[last]
    <3>1. PICK k \in Nat : k + 1 = last
      BY <2>7
    <3>2. k \in T /\ k + 1 <= last
      <4> HIDE DEF T
      <4> QED BY <2>6, <3>1
    <3> HIDE DEF T
    <3> QED BY <2>8, <3>1, <3>2
  <2> QED BY <2>5, <2>9
<1> QED BY <1>1, <1>2, <1>7, <1>8, <1>9

LEMMA FlattenIn ==
  ASSUME NEW S, NEW ss \in Seq(Seq(S)) PROVE FlattenSeq(ss) \in Seq(S)
<1>1. PICK f \in [0 .. Len(ss) -> Seq(S)] : FlattenSeq(ss) = f[Len(ss)]
  BY FlattenSteps
<1>2. Len(ss) \in 0 .. Len(ss)
  OBVIOUS
<1> QED BY <1>1, <1>2
=============================================================================
