---------------------------- MODULE ImportProofs ----------------------------
(***************************************************************************)
(* Proofs about imports: any histories of any agents, any number of        *)
(* importers that race, fail and are started again, and any queue.         *)
(***************************************************************************)
EXTENDS Import, FiniteSetTheorems, NaturalsInduction, WellFoundedInduction, TLAPS

-----------------------------------------------------------------------------
(* Sequences, and induction by the least counterexample: the induction     *)
(* theorems of the library take an operator, a set of naturals is a value. *)

(* A sequence and one element more.                                        *)
LEMMA Appending ==
    ASSUME NEW S, NEW s \in Seq(S), NEW x \in S
    PROVE  /\ Append(s, x) \in Seq(S)
           /\ Append(s, x) # <<>>
           /\ DOMAIN s = 1..Len(s) /\ Len(s) \in Nat
           /\ DOMAIN Append(s, x) = 1..(Len(s) + 1)
           /\ \A i \in 1..Len(s) : Append(s, x)[i] = s[i]
           /\ Append(s, x)[Len(s) + 1] = x
OBVIOUS

(* A sequence, given by its length and its elements.                       *)
LEMMA MadeSeq ==
    ASSUME NEW S, NEW n \in Nat, NEW s, DOMAIN s = 1..n, s = [i \in DOMAIN s |-> s[i]],
           \A i \in DOMAIN s : s[i] \in S
    PROVE  s \in Seq(S)
<1>1. s \in [1..n -> S]
    OBVIOUS
<1> QED  BY <1>1

(* A sequence over a set is one over any larger set.                       *)
LEMMA WiderSeq ==
    ASSUME NEW S, NEW T, S \subseteq T, NEW s \in Seq(S)
    PROVE  s \in Seq(T)
<1>1. PICK n \in Nat : DOMAIN s = 1..n
    OBVIOUS
<1>2. s = [i \in DOMAIN s |-> s[i]]
    OBVIOUS
<1>3. \A i \in DOMAIN s : s[i] \in S
    OBVIOUS
<1>4. \A i \in DOMAIN s : s[i] \in T
    BY <1>3
<1> QED  BY <1>1, <1>2, <1>4, MadeSeq

(* A set of naturals has a least element: the order is well founded.       *)
LEMMA Smallest ==
    ASSUME NEW S \in SUBSET Nat, S # {}
    PROVE  \E x \in S : \A y \in S : x <= y
<1>1. PICK x \in S : \A y \in S : <<y, x>> \notin OpToRel(<, Nat)
    BY NatLessThanWellFounded, WFMin
<1>2. ASSUME NEW y \in S, y < x
      PROVE  FALSE
    <2>1. <<y, x>> \in Nat \X Nat /\ <<y, x>>[1] < <<y, x>>[2]
        BY <1>2
    <2>2. <<y, x>> \in OpToRel(<, Nat)
        BY <2>1 DEF OpToRel
    <2> QED  BY <1>1, <2>2
<1>3. \A y \in S : x <= y
    BY <1>2
<1> QED  BY <1>3

(* Induction over the natural numbers, for a set of them.                  *)
LEMMA Counting ==
    ASSUME NEW S \in SUBSET Nat, 0 \in S, \A n \in S : n + 1 \in S
    PROVE  S = Nat
<1>1. SUFFICES ASSUME Nat \ S # {} PROVE FALSE
    OBVIOUS
<1>2. PICK x \in Nat \ S : \A y \in Nat \ S : x <= y
    BY <1>1, Smallest
<1>3. x # 0 /\ x - 1 \in Nat /\ ~(x <= x - 1)
    BY <1>2
<1>4. x - 1 \in S
    BY <1>2, <1>3
<1>5. (x - 1) + 1 = x
    BY <1>2
<1> QED  BY <1>2, <1>4, <1>5

(* A sequence of values, each computed from the one before.                *)
Steps(D) == [Nat -> [D -> D]]

Follows(f, D, b, g) ==
    f \in [Nat -> D] /\ f[0] = b /\ \A n \in Nat : f[n + 1] = g[n][f[n]]

LEMMA Recursion ==
    ASSUME NEW D, NEW b \in D, NEW g \in Steps(D)
    PROVE  \E f : Follows(f, D, b, g)
<1>1. g \in [Nat -> [D -> D]]
    BY DEF Steps
<1> DEFINE Begins(f, m) == f[0] = b /\ \A n \in 0..(m - 1) : f[n + 1] = g[n][f[n]]
           S == { m \in Nat : \E f \in [0..m -> D] : Begins(f, m) }
<1>2. 0 \in S
    <2>1. [i \in 0..0 |-> b] \in [0..0 -> D] /\ Begins([i \in 0..0 |-> b], 0)
        OBVIOUS
    <2> QED  BY <2>1
<1>3. ASSUME NEW m \in S PROVE m + 1 \in S
    <2>1. m \in Nat
        OBVIOUS
    <2>2. PICK f \in [0..m -> D] : Begins(f, m)
        OBVIOUS
    <2> DEFINE h == [i \in 0..(m + 1) |-> IF i = m + 1 THEN g[m][f[m]] ELSE f[i]]
    <2>3. g[m][f[m]] \in D
        BY <1>1, <2>1
    <2>4. h \in [0..(m + 1) -> D]
        BY <2>1, <2>3
    <2>5. h[0] = b
        BY <2>1, <2>2
    <2>6. ASSUME NEW n \in 0..m PROVE h[n + 1] = g[n][h[n]]
        <3>1. h[n] = f[n]
            BY <2>1
        <3>2. CASE n = m
            BY <2>1, <3>1, <3>2
        <3>3. CASE n # m
            <4>1. n \in 0..(m - 1)
                BY <2>1, <3>3
            <4>2. h[n + 1] = f[n + 1]
                BY <2>1, <4>1
            <4> QED  BY <2>2, <3>1, <4>1, <4>2
        <3> QED  BY <3>2, <3>3
    <2>7. (m + 1) - 1 = m
        BY <2>1
    <2> HIDE DEF h
    <2>8. Begins(h, m + 1)
        BY <2>5, <2>6, <2>7
    <2> HIDE DEF Begins
    <2>9. \E k \in [0..(m + 1) -> D] : Begins(k, m + 1)
        BY <2>4, <2>8
    <2>10. m + 1 \in Nat
        BY <2>1
    <2> QED  BY <2>9, <2>10
<1>4. S = Nat
    <2> HIDE DEF S
    <2>1. S \subseteq Nat
        BY DEF S
    <2> QED  BY <1>2, <1>3, <2>1, Counting
<1> DEFINE Some(m) == CHOOSE f \in [0..m -> D] : Begins(f, m)
<1>5. \A m \in Nat : Some(m) \in [0..m -> D] /\ Begins(Some(m), m)
    <2> SUFFICES ASSUME NEW m \in Nat PROVE Some(m) \in [0..m -> D] /\ Begins(Some(m), m)
        OBVIOUS
    <2>1. \E f \in [0..m -> D] : Begins(f, m)
        BY <1>4
    <2> QED  BY <2>1
<1> HIDE DEF Some, S
<1>6. ASSUME NEW m \in Nat PROVE Some(m + 1)[m] = Some(m)[m]
    <2> DEFINE T == { i \in Nat : i <= m => Some(m + 1)[i] = Some(m)[i] }
    <2>1. 0 \in T
        <3>1. Some(m + 1)[0] = b /\ Some(m)[0] = b
            BY <1>5
        <3> QED  BY <3>1
    <2>2. ASSUME NEW i \in T PROVE i + 1 \in T
        <3>1. SUFFICES ASSUME i + 1 <= m PROVE Some(m + 1)[i + 1] = Some(m)[i + 1]
            OBVIOUS
        <3>2. i \in 0..(m - 1) /\ i \in 0..((m + 1) - 1)
            BY <3>1
        <3>3. Some(m + 1)[i] = Some(m)[i]
            BY <3>1
        <3>4. Some(m)[i + 1] = g[i][Some(m)[i]]
            BY <1>5, <3>2
        <3>5. Some(m + 1)[i + 1] = g[i][Some(m + 1)[i]]
            BY <1>5, <3>2
        <3> QED  BY <3>3, <3>4, <3>5
    <2>3. T = Nat
        <3> HIDE DEF T
        <3>1. T \subseteq Nat
            BY DEF T
        <3> QED  BY <2>1, <2>2, <3>1, Counting
    <2> QED  BY <2>3
<1> DEFINE F == [m \in Nat |-> Some(m)[m]]
<1>7. F \in [Nat -> D]
    <2>1. \A m \in Nat : Some(m)[m] \in D
        BY <1>5
    <2> QED  BY <2>1
<1>8. F[0] = b
    BY <1>5
<1>9. ASSUME NEW n \in Nat PROVE F[n + 1] = g[n][F[n]]
    <2>1. n \in 0..((n + 1) - 1)
        OBVIOUS
    <2>2. Some(n + 1)[n + 1] = g[n][Some(n + 1)[n]]
        BY <1>5, <2>1
    <2> QED  BY <1>6, <2>2
<1> QED  BY <1>7, <1>8, <1>9 DEF Follows

(* The largest element of a nonempty part of an interval.                  *)
LEMMA LargestIn ==
    ASSUME NEW n \in Nat, NEW S, S \subseteq 1..n, S # {}
    PROVE  Max(S) \in S /\ \A y \in S : Max(S) >= y
<1> DEFINE R == { k \in Nat : \E y \in S : y = n - k }
<1>1. \A y \in S : y \in Int /\ n - y \in Nat /\ y = n - (n - y)
    OBVIOUS
<1>2. \A y \in S : n - y \in R
    BY <1>1
<1>3. R # {} /\ R \subseteq Nat
    BY <1>2
<1>4. \A k \in R : n - k \in S
    OBVIOUS
<1> HIDE DEF R
<1>5. PICK k \in R : \A j \in R : k <= j
    BY <1>3, Smallest
<1>6. \A y \in S : n - k >= y
    <2> SUFFICES ASSUME NEW y \in S PROVE n - k >= y
        OBVIOUS
    <2>1. k <= n - y /\ y \in Int /\ k \in Nat
        BY <1>1, <1>2, <1>3, <1>5
    <2> QED  BY <2>1
<1>7. \E x \in S : \A y \in S : x >= y
    BY <1>4, <1>5, <1>6
<1> QED  BY <1>7 DEF Max

(* A sequence and its beginnings.                                          *)
Starts(s, t) == Len(s) <= Len(t) /\ \A i \in 1..Len(s) : t[i] = s[i]

LEMMA StartsItself ==
    ASSUME NEW S, NEW s \in Seq(S)
    PROVE  Starts(s, s)
<1>1. Len(s) \in Nat
    OBVIOUS
<1> QED  BY <1>1 DEF Starts

LEMMA StartsOn ==
    ASSUME NEW S, NEW r \in Seq(S), NEW s \in Seq(S), NEW t \in Seq(S),
           Starts(r, s), Starts(s, t)
    PROVE  Starts(r, t)
<1>1. Len(r) \in Nat /\ Len(s) \in Nat /\ Len(t) \in Nat
    OBVIOUS
<1> QED  BY <1>1 DEF Starts

(* Two sequences, one after the other.                                     *)
LEMMA Concatenated ==
    ASSUME NEW S, NEW s \in Seq(S), NEW t \in Seq(S)
    PROVE  /\ s \o t \in Seq(S)
           /\ Len(s) \in Nat /\ Len(t) \in Nat
           /\ Len(s \o t) = Len(s) + Len(t)
           /\ \A i \in 1..Len(s) : (s \o t)[i] = s[i]
           /\ \A i \in 1..Len(t) : (s \o t)[Len(s) + i] = t[i]
           /\ Starts(s, s \o t)
<1>1. s \o t \in Seq(S) /\ Len(s) \in Nat /\ Len(t) \in Nat /\ Len(s \o t) = Len(s) + Len(t)
    OBVIOUS
<1>2. \A i \in 1..Len(s) : (s \o t)[i] = s[i]
    OBVIOUS
<1>3. \A i \in 1..Len(t) : (s \o t)[Len(s) + i] = t[i]
    OBVIOUS
<1>4. Starts(s, s \o t)
    BY <1>1, <1>2 DEF Starts
<1> QED  BY <1>1, <1>2, <1>3, <1>4

(* The same, with the parts of the result told by their places.            *)
Joins(s, t, st) ==
    /\ DOMAIN s = 1..Len(s) /\ DOMAIN t = 1..Len(t)
    /\ Len(s) \in Nat /\ Len(t) \in Nat
    /\ DOMAIN st = 1..(Len(s) + Len(t))
    /\ \A i \in 1..Len(s) : st[i] = s[i]
    /\ \A i \in 1..Len(t) : st[Len(s) + i] = t[i]

LEMMA ConcatenatedParts ==
    ASSUME NEW S, NEW s \in Seq(S), NEW t \in Seq(S), NEW st, st = s \o t
    PROVE  Joins(s, t, st)
<1>1. /\ DOMAIN s = 1..Len(s) /\ DOMAIN t = 1..Len(t)
      /\ DOMAIN st = 1..Len(st) /\ Len(st) = Len(s) + Len(t)
    OBVIOUS
<1> QED  BY <1>1, Concatenated DEF Joins

(* The partial results of FlattenSeq.                                      *)
LEMMA Flattening ==
    ASSUME NEW S, NEW s \in Seq(Seq(S))
    PROVE  \E F \in [Nat -> Seq(S)] :
              /\ F[0] = <<>>
              /\ \A n \in Nat : n + 1 \in DOMAIN s => F[n + 1] = F[n] \o s[n + 1]
              /\ FlattenSeq(s) = F[Len(s)]
<1> DEFINE g == [n \in Nat |-> [x \in Seq(S) |->
                    IF n + 1 \in DOMAIN s THEN x \o s[n + 1] ELSE x]]
<1>1. Len(s) \in Nat /\ DOMAIN s = 1..Len(s) /\ \A i \in DOMAIN s : s[i] \in Seq(S)
    OBVIOUS
<1>2. g \in [Nat -> [Seq(S) -> Seq(S)]]
    <2> SUFFICES ASSUME NEW n \in Nat, NEW x \in Seq(S)
                 PROVE  (IF n + 1 \in DOMAIN s THEN x \o s[n + 1] ELSE x) \in Seq(S)
        OBVIOUS
    <2> QED  BY <1>1, Concatenated
<1>3. <<>> \in Seq(S)
    OBVIOUS
<1> HIDE DEF g
<1> DEFINE D == Seq(S)
           b == <<>>
<1> HIDE DEF D, b
<1>4. b \in D /\ g \in Steps(D)
    BY <1>2, <1>3 DEF D, b, Steps
<1>5. \E f : Follows(f, D, b, g)
    BY <1>4, Recursion
<1>6. PICK F \in [Nat -> Seq(S)] : F[0] = <<>> /\ \A n \in Nat : F[n + 1] = g[n][F[n]]
    BY <1>5 DEF D, b, Follows
<1>7. \A n \in Nat : n + 1 \in DOMAIN s => F[n + 1] = F[n] \o s[n + 1]
    BY <1>6 DEF g
<1>8. CASE Len(s) = 0
    <2>1. s = <<>>
        BY <1>8
    <2>2. FlattenSeq(s) = s
        BY <1>8 DEF FlattenSeq
    <2> QED  BY <1>6, <1>7, <1>8, <2>1, <2>2
<1>9. CASE Len(s) # 0
    <2> DEFINE Flattens(f) == f = [i \in 1..Len(s) |-> IF i = 1 THEN s[i] ELSE f[i - 1] \o s[i]]
               f0 == CHOOSE f : Flattens(f)
               T == { n \in Nat : n + 1 \in DOMAIN s => f0[n + 1] = F[n + 1] }
    <2>1. FlattenSeq(s) = f0[Len(s)]
        BY <1>9 DEF FlattenSeq
    <2>2. Flattens([i \in 1..Len(s) |-> F[i]])
        <3> SUFFICES ASSUME NEW i \in 1..Len(s)
                     PROVE  F[i] = IF i = 1 THEN s[i] ELSE [j \in 1..Len(s) |-> F[j]][i - 1] \o s[i]
            OBVIOUS
        <3>1. i - 1 \in Nat /\ (i - 1) + 1 = i
            BY <1>1
        <3>2. F[i] = F[i - 1] \o s[i]
            BY <1>1, <1>7, <3>1
        <3>3. CASE i = 1
            <4>1. F[i - 1] = <<>> /\ s[i] \in Seq(S)
                BY <1>1, <1>6, <3>3
            <4>2. <<>> \o s[i] = s[i]
                BY <4>1
            <4> QED  BY <3>2, <3>3, <4>1, <4>2
        <3>4. CASE i # 1
            <4>1. i - 1 \in 1..Len(s)
                BY <1>1, <3>4
            <4> QED  BY <3>2, <3>4, <4>1
        <3> QED  BY <3>3, <3>4
    <2>3. Flattens(f0)
        BY <2>2
    <2> HIDE DEF f0
    <2>4. 0 \in T
        <3>1. 0 + 1 = 1 /\ 1 \in DOMAIN s
            BY <1>1, <1>9
        <3>2. f0[1] = s[1]
            BY <1>1, <2>3, <3>1
        <3>3. F[1] = <<>> \o s[1] /\ s[1] \in Seq(S)
            BY <1>1, <1>6, <1>7, <3>1
        <3>4. <<>> \o s[1] = s[1]
            BY <3>3
        <3> QED  BY <3>1, <3>2, <3>3, <3>4
    <2>5. ASSUME NEW n \in T PROVE n + 1 \in T
        <3>1. SUFFICES ASSUME (n + 1) + 1 \in DOMAIN s PROVE f0[(n + 1) + 1] = F[(n + 1) + 1]
            OBVIOUS
        <3>2. n + 1 \in DOMAIN s /\ n + 1 \in Nat /\ (n + 1) + 1 # 1 /\ ((n + 1) + 1) - 1 = n + 1
            BY <1>1, <3>1
        <3>3. f0[n + 1] = F[n + 1]
            BY <3>2
        <3>4. F[(n + 1) + 1] = F[n + 1] \o s[(n + 1) + 1]
            BY <1>7, <3>1, <3>2
        <3>5. f0[(n + 1) + 1] = f0[n + 1] \o s[(n + 1) + 1]
            BY <1>1, <2>3, <3>1, <3>2
        <3> QED  BY <3>3, <3>4, <3>5
    <2>6. T = Nat
        <3> HIDE DEF T
        <3>1. T \subseteq Nat
            BY DEF T
        <3> QED  BY <2>4, <2>5, <3>1, Counting
    <2>7. Len(s) - 1 \in Nat /\ (Len(s) - 1) + 1 = Len(s) /\ Len(s) \in DOMAIN s
        BY <1>1, <1>9
    <2>8. Len(s) - 1 \in T
        BY <2>6, <2>7
    <2>9. f0[Len(s)] = F[Len(s)]
        BY <2>7, <2>8
    <2> QED  BY <1>6, <1>7, <2>1, <2>9
<1> QED  BY <1>8, <1>9

(* What FlattenSeq returns, and that it keeps beginnings.                  *)
LEMMA FlattenType ==
    ASSUME NEW S, NEW s \in Seq(Seq(S))
    PROVE  FlattenSeq(s) \in Seq(S)
<1>1. PICK F \in [Nat -> Seq(S)] : FlattenSeq(s) = F[Len(s)]
    BY Flattening
<1> QED  BY <1>1

(* What is flattened was there before, and not earlier in its place.       *)
LEMMA FlattenOrigin ==
    ASSUME NEW S, NEW s \in Seq(Seq(S)), NEW p \in DOMAIN FlattenSeq(s)
    PROVE  \E i \in DOMAIN s : \E k \in DOMAIN s[i] : k <= p /\ FlattenSeq(s)[p] = s[i][k]
<1>1. Len(s) \in Nat /\ DOMAIN s = 1..Len(s) /\ \A i \in DOMAIN s : s[i] \in Seq(S)
    OBVIOUS
<1>2. PICK F \in [Nat -> Seq(S)] :
              /\ F[0] = <<>>
              /\ \A n \in Nat : n + 1 \in DOMAIN s => F[n + 1] = F[n] \o s[n + 1]
              /\ FlattenSeq(s) = F[Len(s)]
    BY Flattening
<1> DEFINE Comes(x, q) == \E i \in DOMAIN s : \E k \in DOMAIN s[i] : k <= q /\ x = s[i][k]
           T == { n \in Nat : n <= Len(s) => \A q \in DOMAIN F[n] : Comes(F[n][q], q) }
<1>3. 0 \in T
    <2>1. DOMAIN F[0] = {}
        BY <1>2
    <2> QED  BY <2>1
<1>4. ASSUME NEW n \in T PROVE n + 1 \in T
    <2>1. SUFFICES ASSUME n + 1 <= Len(s), NEW q \in DOMAIN F[n + 1]
                   PROVE  Comes(F[n + 1][q], q)
        BY <1>1
    <2>2. n \in Nat /\ n + 1 \in DOMAIN s /\ n <= Len(s)
        BY <1>1, <2>1
    <2>3. F[n] \in Seq(S) /\ s[n + 1] \in Seq(S) /\ F[n + 1] = F[n] \o s[n + 1]
        BY <1>1, <1>2, <2>2
    <2>4. Joins(F[n], s[n + 1], F[n + 1])
        BY <2>3, ConcatenatedParts
    <2>5. /\ DOMAIN F[n] = 1..Len(F[n]) /\ DOMAIN s[n + 1] = 1..Len(s[n + 1])
          /\ Len(F[n]) \in Nat /\ Len(s[n + 1]) \in Nat
          /\ DOMAIN F[n + 1] = 1..(Len(F[n]) + Len(s[n + 1]))
          /\ \A i \in 1..Len(F[n]) : F[n + 1][i] = F[n][i]
          /\ \A i \in 1..Len(s[n + 1]) : F[n + 1][Len(F[n]) + i] = s[n + 1][i]
        BY <2>4 DEF Joins
    <2>6. CASE q \in 1..Len(F[n])
        <3>1. Comes(F[n][q], q)
            BY <2>2, <2>5, <2>6
        <3>2. F[n + 1][q] = F[n][q]
            BY <2>5, <2>6
        <3> QED  BY <3>1, <3>2
    <2>7. CASE ~(q \in 1..Len(F[n]))
        <3>1. PICK k \in 1..Len(s[n + 1]) : k <= q /\ q = Len(F[n]) + k
            <4>1. PICK a, b : a = Len(F[n]) /\ b = Len(s[n + 1])
                OBVIOUS
            <4>2. a \in Nat /\ b \in Nat /\ q \in 1..(a + b) /\ ~(q \in 1..a)
                BY <2>1, <2>5, <2>7, <4>1
            <4>3. q - a \in 1..b /\ q - a <= q /\ q = a + (q - a)
                BY <4>2
            <4>4. q - Len(F[n]) \in 1..Len(s[n + 1]) /\ q - Len(F[n]) <= q
                    /\ q = Len(F[n]) + (q - Len(F[n]))
                BY <4>3, <4>1
            <4> QED  BY <4>4
        <3>2. F[n + 1][q] = s[n + 1][k]
            BY <2>5, <3>1
        <3>3. k \in DOMAIN s[n + 1]
            BY <2>5
        <3> QED  BY <2>2, <3>1, <3>2, <3>3
    <2> QED  BY <2>6, <2>7
<1>5. T = Nat
    <2> HIDE DEF T
    <2>1. T \subseteq Nat
        BY DEF T
    <2> QED  BY <1>3, <1>4, <2>1, Counting
<1>6. Len(s) \in T
    BY <1>1, <1>5
<1>7. \A q \in DOMAIN F[Len(s)] : Comes(F[Len(s)][q], q)
    BY <1>1, <1>6
<1> QED  BY <1>2, <1>7

LEMMA FlattenStarts ==
    ASSUME NEW S, NEW s \in Seq(Seq(S)), NEW t \in Seq(Seq(S)), Starts(s, t)
    PROVE  Starts(FlattenSeq(s), FlattenSeq(t))
<1>1. PICK ls, lt : ls = Len(s) /\ lt = Len(t)
    OBVIOUS
<1>2. /\ ls \in Nat /\ DOMAIN s = 1..ls
      /\ lt \in Nat /\ DOMAIN t = 1..lt
    BY <1>1
<1>3. \A i \in DOMAIN t : t[i] \in Seq(S)
    OBVIOUS
<1>4. ls <= lt /\ \A i \in 1..ls : t[i] = s[i]
    BY <1>1 DEF Starts
<1>5. /\ ls \in Nat /\ DOMAIN s = 1..ls
      /\ lt \in Nat /\ DOMAIN t = 1..lt
      /\ ls <= lt /\ \A i \in DOMAIN s : t[i] = s[i]
    BY <1>2, <1>4
<1>6. PICK F \in [Nat -> Seq(S)] :
              /\ F[0] = <<>>
              /\ \A n \in Nat : n + 1 \in DOMAIN s => F[n + 1] = F[n] \o s[n + 1]
              /\ FlattenSeq(s) = F[ls]
    BY <1>1, Flattening
<1>7. PICK G \in [Nat -> Seq(S)] :
              /\ G[0] = <<>>
              /\ \A n \in Nat : n + 1 \in DOMAIN t => G[n + 1] = G[n] \o t[n + 1]
              /\ FlattenSeq(t) = G[lt]
    BY <1>1, Flattening
<1> DEFINE T == { n \in Nat : n <= ls => G[n] = F[n] }
           U == { n \in Nat : ls + n <= lt => Starts(F[ls], G[ls + n]) }
<1>8. 0 \in T
    BY <1>6, <1>7
<1>9. ASSUME NEW n \in T PROVE n + 1 \in T
    <2>1. SUFFICES ASSUME n + 1 <= ls PROVE G[n + 1] = F[n + 1]
        OBVIOUS
    <2>2. n \in Nat /\ n <= ls /\ n + 1 \in DOMAIN s /\ n + 1 \in DOMAIN t
        BY <1>5, <2>1
    <2>3. F[n + 1] = F[n] \o s[n + 1] /\ G[n + 1] = G[n] \o t[n + 1]
        BY <1>6, <1>7, <2>2
    <2>4. t[n + 1] = s[n + 1] /\ G[n] = F[n]
        BY <1>5, <2>2
    <2> QED  BY <2>3, <2>4
<1>10. T = Nat
    <2> HIDE DEF T
    <2>1. T \subseteq Nat
        BY DEF T
    <2> QED  BY <1>8, <1>9, <2>1, Counting
<1>11. ls \in Nat /\ ls <= ls
    BY <1>5
<1>12. ls \in T
    <2> HIDE DEF T
    <2> QED  BY <1>10, <1>11
<1>13. G[ls] = F[ls]
    BY <1>11, <1>12
<1>14. 0 \in U
    <2>1. ls + 0 = ls /\ F[ls] \in Seq(S)
        BY <1>5
    <2>2. Starts(F[ls], F[ls])
        BY <2>1, StartsItself
    <2> QED  BY <1>13, <2>1, <2>2
<1>15. ASSUME NEW n \in U PROVE n + 1 \in U
    <2> DEFINE m == ls + n
    <2>1. n \in Nat /\ m \in Nat /\ ls + (n + 1) = m + 1
        BY <1>5
    <2>2. SUFFICES ASSUME m + 1 <= lt PROVE Starts(F[ls], G[m + 1])
        BY <2>1
    <2>3. m <= lt /\ m + 1 \in DOMAIN t
        BY <1>5, <2>1, <2>2
    <2>4. Starts(F[ls], G[m])
        BY <2>3
    <2> HIDE DEF m
    <2>5. PICK gm, gn, tn : gm = G[m] /\ gn = G[m + 1] /\ tn = t[m + 1]
        OBVIOUS
    <2>6. /\ F[ls] \in Seq(S) /\ G[m] \in Seq(S) /\ t[m + 1] \in Seq(S)
          /\ G[m + 1] = G[m] \o t[m + 1]
        BY <1>5, <1>3, <1>7, <2>1, <2>3
    <2>7. gm \in Seq(S) /\ tn \in Seq(S) /\ gn = gm \o tn
        BY <2>6, <2>5
    <2>8. Starts(gm, gn) /\ gn \in Seq(S)
        BY <2>7, Concatenated
    <2>9. Starts(F[ls], gm)
        BY <2>4, <2>5
    <2>10. Starts(F[ls], gn)
        BY <2>6, <2>7, <2>8, <2>9, StartsOn
    <2> QED  BY <2>10, <2>5
<1>16. U = Nat
    <2> HIDE DEF U
    <2>1. U \subseteq Nat
        BY DEF U
    <2> QED  BY <1>14, <1>15, <2>1, Counting
<1>17. lt - ls \in Nat /\ ls + (lt - ls) = lt
    BY <1>5
<1>18. lt - ls \in U
    BY <1>16, <1>17
<1>19. ls + (lt - ls) <= lt
    BY <1>5
<1>20. Starts(F[ls], G[ls + (lt - ls)])
    BY <1>18, <1>19
<1>21. Starts(F[ls], G[lt])
    BY <1>17, <1>20
<1> QED  BY <1>6, <1>7, <1>21

-----------------------------------------------------------------------------
(* Instants: the days since 1970 as the code computes them are the days of *)
(* the calendar.                                                           *)

(* The leap years before the end of a year, counted from year 0.           *)
Leaps(n) == n \div 4 - n \div 100 + n \div 400

LEMMA LeapsStep ==
    ASSUME NEW n \in Int
    PROVE  Leaps(n) = Leaps(n - 1) + IF Leap(n) THEN 1 ELSE 0
<1>1. n \div 4 = (n - 1) \div 4 + IF n % 4 = 0 THEN 1 ELSE 0
    OBVIOUS
<1>2. n \div 100 = (n - 1) \div 100 + IF n % 100 = 0 THEN 1 ELSE 0
    OBVIOUS
<1>3. n \div 400 = (n - 1) \div 400 + IF n % 400 = 0 THEN 1 ELSE 0
    OBVIOUS
<1>4. (n % 100 = 0 => n % 4 = 0) /\ (n % 400 = 0 => n % 100 = 0)
    OBVIOUS
<1> QED  BY <1>1, <1>2, <1>3, <1>4 DEF Leaps, Leap

(* LeapYears counts by the closed form: year by year, both ways.           *)
LEMMA LeapCount ==
    ASSUME NEW a \in Int, NEW b \in Int, a - 1 <= b
    PROVE  LeapYears(a, b) = Leaps(b) - Leaps(a - 1)
<1> DEFINE Y(n) == { y \in a..(a + n - 1) : Leap(y) }
           Adds(n) == IsFiniteSet(Y(n)) /\ Cardinality(Y(n)) = Leaps(a + n - 1) - Leaps(a - 1)
           T == { n \in Nat : Adds(n) }
<1>1. \A n \in Int : Leaps(n) \in Int
    BY DEF Leaps
<1>2. 0 \in T
    <2>1. Y(0) = {}
        OBVIOUS
    <2>2. IsFiniteSet({}) /\ Cardinality({}) = 0
        BY FS_EmptySet
    <2>3. a + 0 - 1 = a - 1 /\ Leaps(a - 1) \in Int
        BY <1>1
    <2>4. Leaps(a + 0 - 1) - Leaps(a - 1) = 0
        <3>1. Leaps(a + 0 - 1) = Leaps(a - 1)
            BY <2>3
        <3> QED  BY <2>3, <3>1
    <2> HIDE DEF Y
    <2>5. Adds(0)
        BY <2>1, <2>2, <2>4
    <2> HIDE DEF Adds
    <2> QED  BY <2>5
<1>3. ASSUME NEW n \in T PROVE n + 1 \in T
    <2> DEFINE z == a + n
               S == Y(n)
    <2>1. n \in Nat /\ z \in Int /\ a + (n + 1) - 1 = z /\ a + n - 1 = z - 1
        OBVIOUS
    <2>2. IsFiniteSet(S) /\ Cardinality(S) = Leaps(z - 1) - Leaps(a - 1)
        BY <2>1
    <2>3. Y(n + 1) = IF Leap(z) THEN S \cup {z} ELSE S
        <3>1. \A y : y \in a..z <=> y \in a..(z - 1) \/ y = z
            BY <2>1
        <3>2. Y(n + 1) = { y \in a..z : Leap(y) } /\ S = { y \in a..(z - 1) : Leap(y) }
            BY <2>1
        <3> HIDE DEF Y, S, z
        <3> QED  BY <3>1, <3>2
    <2>4. z \notin S
        BY <2>1
    <2>5. Leaps(z) = Leaps(z - 1) + IF Leap(z) THEN 1 ELSE 0
        BY <2>1, LeapsStep
    <2>6. Leaps(z) \in Int /\ Leaps(z - 1) \in Int /\ Leaps(a - 1) \in Int
        BY <1>1, <2>1
    <2> HIDE DEF S, z, Y
    <2>7. IsFiniteSet(S \cup {z}) /\ Cardinality(S \cup {z}) = Cardinality(S) + 1
        BY <2>2, <2>4, FS_AddElement
    <2>8. IsFiniteSet(Y(n + 1)) /\ Cardinality(Y(n + 1)) = Leaps(z) - Leaps(a - 1)
        BY <2>2, <2>3, <2>5, <2>6, <2>7
    <2> QED  BY <2>1, <2>8
<1>4. T = Nat
    <2> HIDE DEF T
    <2>1. T \subseteq Nat
        BY DEF T
    <2> QED  BY <1>2, <1>3, <2>1, Counting
<1>5. b - a + 1 \in Nat /\ a + (b - a + 1) - 1 = b
    OBVIOUS
<1>6. Adds(b - a + 1)
    BY <1>4, <1>5
<1>7. Y(b - a + 1) = { y \in a..b : Leap(y) }
    BY <1>5
<1> HIDE DEF Y
<1> QED  BY <1>5, <1>6, <1>7 DEF LeapYears

LEMMA NoLeapYears ==
    ASSUME NEW a \in Int, NEW b \in Int, b < a
    PROVE  LeapYears(a, b) = 0
<1>1. { y \in a..b : Leap(y) } = {}
    OBVIOUS
<1> QED  BY <1>1, FS_EmptySet DEF LeapYears

LEMMA LeapYearsFrom1970 ==
    ASSUME NEW year \in Int
    PROVE  LeapYears(1970, year - 1) - LeapYears(year, 1969) = Leaps(year - 1) - 477
<1>1. Leaps(1969) = 477 /\ Leaps(year - 1) \in Int
    BY DEF Leaps
<1>2. CASE year >= 1970
    <2>1. LeapYears(1970, year - 1) = Leaps(year - 1) - Leaps(1969)
        BY SMT, <1>2, LeapCount
    <2>2. LeapYears(year, 1969) = 0
        BY <1>2, NoLeapYears
    <2> QED  BY <1>1, <2>1, <2>2
<1>3. CASE year < 1970
    <2>1. LeapYears(year, 1969) = Leaps(1969) - Leaps(year - 1)
        BY SMT, <1>3, LeapCount
    <2>2. LeapYears(1970, year - 1) = 0
        BY <1>3, NoLeapYears
    <2> QED  BY <1>1, <2>1, <2>2
<1> QED  BY <1>2, <1>3

(* The days of a date by the code are those by the months of the calendar. *)
LEMMA DaysAgree ==
    ASSUME NEW year \in Int, NEW month \in 1..12, NEW day \in Int
    PROVE  DaysFromCivil(year, month, day) = CalendarDays(year, month, day)
<1> DEFINE shifted == IF month <= 2 THEN year - 1 ELSE year
           ofMonth == (153 * ((month + 9) % 12) + 2) \div 5
<1>1. shifted \in Int
    BY SMT
<1>2. DaysFromCivil(year, month, day) = 365 * shifted + Leaps(shifted) + ofMonth + day - 719469
    <2> DEFINE s == shifted
    <2>1. PICK e, y : e = s \div 400 /\ y = s % 400
        BY SMT
    <2>2. ofMonth \in Int
        BY SMT
    <2> HIDE DEF s
    <2>3. s \in Int /\ e \in Int /\ y \in 0..399 /\ s = 400 * e + y
        BY SMT, <1>1, <2>1 DEF s
    <2>4. s \div 4 = 100 * e + y \div 4
        BY SMT, <2>3
    <2>5. s \div 100 = 4 * e + y \div 100
        BY SMT, <2>3
    <2>6. DaysFromCivil(year, month, day)
            = e * 146097 + y * 365 + y \div 4 - y \div 100 + (ofMonth + day - 1) - 719468
        BY SMT, <2>1 DEF DaysFromCivil, s
    <2> HIDE DEF ofMonth
    <2>7. Leaps(s) = s \div 4 - s \div 100 + e
        BY SMT, <2>1 DEF Leaps
    <2>8. e * 146097 + y * 365 + y \div 4 - y \div 100 + (ofMonth + day - 1) - 719468
            = 365 * s + Leaps(s) + ofMonth + day - 719469
        BY SMT, <2>2, <2>3, <2>4, <2>5, <2>7
    <2> QED  BY SMT, <2>6, <2>8 DEF s
<1>3. CalendarDays(year, month, day)
        = 365 * (year - 1970) + (Leaps(year - 1) - 477) + DaysBefore(year, month) + day - 1
    <2>1. LeapYears(1970, year - 1) \in Int /\ LeapYears(year, 1969) \in Int
        <3>1. \A a, b \in Int : LeapYears(a, b) \in Nat
            <4> SUFFICES ASSUME NEW a \in Int, NEW b \in Int PROVE LeapYears(a, b) \in Nat
                BY SMT
            <4>1. IsFiniteSet(a..b)
                BY SMT, FS_Interval
            <4>2. IsFiniteSet({ y \in a..b : Leap(y) })
                BY SMT, <4>1, FS_Subset
            <4> QED  BY SMT, <4>2, FS_CardinalityType DEF LeapYears
        <3> QED  BY SMT, <3>1
    <2>2. DaysBefore(year, month) \in Int
        BY SMT DEF DaysBefore
    <2> QED  BY SMT, <2>1, <2>2, LeapYearsFrom1970 DEF CalendarDays
<1>4. 365 * shifted + Leaps(shifted) + ofMonth - 719468
        = 365 * (year - 1970) + (Leaps(year - 1) - 477) + DaysBefore(year, month)
    <2>1. Leaps(year) = Leaps(year - 1) + IF Leap(year) THEN 1 ELSE 0
        BY SMT, LeapsStep
    <2>2. Leaps(year - 1) \in Int
        BY SMT DEF Leaps
    <2>3. CASE month = 1
        BY SMT, <2>2, <2>3 DEF DaysBefore
    <2>4. CASE month = 2
        BY SMT, <2>2, <2>4 DEF DaysBefore
    <2>5. CASE month = 3
        BY SMT, <2>1, <2>2, <2>5 DEF DaysBefore
    <2>6. CASE month = 4
        BY SMT, <2>1, <2>2, <2>6 DEF DaysBefore
    <2>7. CASE month = 5
        BY SMT, <2>1, <2>2, <2>7 DEF DaysBefore
    <2>8. CASE month = 6
        BY SMT, <2>1, <2>2, <2>8 DEF DaysBefore
    <2>9. CASE month = 7
        BY SMT, <2>1, <2>2, <2>9 DEF DaysBefore
    <2>10. CASE month = 8
        BY SMT, <2>1, <2>2, <2>10 DEF DaysBefore
    <2>11. CASE month = 9
        BY SMT, <2>1, <2>2, <2>11 DEF DaysBefore
    <2>12. CASE month = 10
        BY SMT, <2>1, <2>2, <2>12 DEF DaysBefore
    <2>13. CASE month = 11
        BY SMT, <2>1, <2>2, <2>13 DEF DaysBefore
    <2>14. CASE month = 12
        BY SMT, <2>1, <2>2, <2>14 DEF DaysBefore
    <2> QED  BY SMT, <2>3, <2>4, <2>5, <2>6, <2>7, <2>8, <2>9, <2>10, <2>11, <2>12, <2>13, <2>14
<1>5. Leaps(shifted) \in Int /\ Leaps(year - 1) \in Int /\ ofMonth \in Int /\ DaysBefore(year, month) \in Int
    BY SMT, <1>1 DEF Leaps, DaysBefore
<1> HIDE DEF shifted, ofMonth
<1> QED  BY SMT, <1>1, <1>2, <1>3, <1>4, <1>5

(* The fields of a written date.                                           *)
LEMMA FieldsOf ==
    ASSUME NEW at \in Seq(Int)
    PROVE  /\ Len(at) = 5 => /\ at[1] \in Int /\ at[2] \in Int /\ at[3] \in Int
                             /\ at[4] \in Int /\ at[5] \in Int
           /\ Len(at) = 1 => at[1] \in Int
OBVIOUS

Fields(at, y, m, d, s, o) ==
    at[1] = y /\ at[2] = m /\ at[3] = d /\ at[4] = s /\ at[5] = o /\ Len(at) = 5

(* A date of the calendar has a month.                                     *)
LEMMA CalendarMonth ==
    ASSUME NEW at, InCalendar(at)
    PROVE  at[2] \in 1..12
BY DEF InCalendar

LEMMA WrittenAgree ==
    ASSUME NEW agent \in {"claude", "codex"},
           NEW at, NEW y \in Int, NEW m \in Int, NEW d \in Int, NEW s \in Int, NEW o \in Int,
           Fields(at, y, m, d, s, o)
    PROVE  \/ DateOf(at) = <<InstantOf(agent, at)>>
           \/ DateOf(at) = <<>> /\ InstantOf(agent, at) = Now
<1> DEFINE InRange == m \in 1..12 /\ d \in 1..31 /\ 0 <= s /\ s < 86400
           Written == <<DaysFromCivil(y, m, d) * 86400 + s - o * 60>>
<1>1. at[1] = y /\ at[2] = m /\ at[3] = d /\ at[4] = s /\ at[5] = o /\ Len(at) = 5
    BY DEF Fields
<1>2. DateOf(at) = IF InRange THEN Written ELSE <<>>
    BY SMT, <1>1 DEF DateOf, WrittenTime
<1>3. InstantOf(agent, at) = IF InCalendar(at) THEN DateInstant(at) ELSE Now
    BY SMT, <1>1 DEF InstantOf
<1>4. InCalendar(at) <=> InRange
    BY SMT, <1>1 DEF InCalendar
<1> HIDE DEF InRange
<1>5. CASE InRange
    <2>1. m \in 1..12
        BY <1>1, <1>4, <1>5, CalendarMonth
    <2>2. m \in 1..12 /\ InstantOf(agent, at) = DateInstant(at)
        BY <1>3, <1>4, <1>5, <2>1
    <2>3. DaysFromCivil(y, m, d) = CalendarDays(y, m, d)
        BY <2>2, DaysAgree
    <2>4. Written = <<DateInstant(at)>>
        BY SMT, <1>1, <2>3 DEF DateInstant
    <2>5. DateOf(at) = Written
        BY <1>2, <1>5
    <2> HIDE DEF Written
    <2> QED  BY <2>2, <2>4, <2>5
<1>6. CASE ~InRange
    BY <1>2, <1>3, <1>4, <1>6
<1> QED  BY <1>5, <1>6

LEMMA NumberAgree ==
    ASSUME NEW agent \in {"opencode", "hermes"}, NEW at, NEW kilo \in Int,
           at[1] = kilo, Len(at) = 1
    PROVE  \/ NumberOf(at) = <<InstantOf(agent, at)>>
           \/ NumberOf(at) = <<>> /\ InstantOf(agent, at) = Now
<1>1. CASE kilo > 0
    <2>1. InstantOf(agent, at) = NumberInstant(kilo)
        BY SMT, <1>1 DEF InstantOf
    <2>2. NumberTime(kilo) = <<NumberInstant(kilo)>>
        BY SMT, <1>1 DEF NumberTime, NumberInstant
    <2>3. NumberOf(at) = NumberTime(kilo)
        BY DEF NumberOf
    <2> QED  BY <2>1, <2>2, <2>3
<1>2. CASE ~(kilo > 0)
    <2>1. InstantOf(agent, at) = Now
        BY SMT, <1>2 DEF InstantOf
    <2>2. NumberOf(at) = <<>>
        BY SMT, <1>2 DEF NumberOf, NumberTime
    <2> QED  BY <2>1, <2>2
<1> QED  BY <1>1, <1>2

(* When an event is dated is when its record says, told by the calendar.   *)
LEMMA Dated ==
    ASSUME NEW agent \in TranscriptAgents, NEW line, line.at \in Seq(Int)
    PROVE  (IF TimeOf(agent, line) = <<>> THEN <<Now>> ELSE TimeOf(agent, line))
                = <<InstantOf(agent, line.at)>>
<1>1. PICK at \in Seq(Int) : at = line.at
    OBVIOUS
<1>2. \A x : <<x>> # <<>>
    OBVIOUS
<1>3. CASE agent \in {"claude", "codex"}
    <2>1. TimeOf(agent, line) = DateOf(at)
        BY <1>1, <1>3 DEF TimeOf
    <2>2. \/ DateOf(at) = <<InstantOf(agent, at)>>
          \/ DateOf(at) = <<>> /\ InstantOf(agent, at) = Now
        <3>1. CASE Len(at) = 5
            <4>1. /\ at[1] \in Int /\ at[2] \in Int /\ at[3] \in Int
                  /\ at[4] \in Int /\ at[5] \in Int
                BY <3>1, FieldsOf
            <4>2. Fields(at, at[1], at[2], at[3], at[4], at[5])
                BY <3>1 DEF Fields
            <4> QED  BY <1>3, <4>1, <4>2, WrittenAgree
        <3>2. CASE Len(at) # 5
            BY SMT, <1>3, <3>2 DEF DateOf, InstantOf
        <3> QED  BY <3>1, <3>2
    <2> QED  BY <1>1, <1>2, <2>1, <2>2
<1>4. CASE agent \in {"opencode", "hermes"}
    <2>1. TimeOf(agent, line) = NumberOf(at)
        BY <1>1, <1>4 DEF TimeOf
    <2>2. \/ NumberOf(at) = <<InstantOf(agent, at)>>
          \/ NumberOf(at) = <<>> /\ InstantOf(agent, at) = Now
        <3>1. CASE Len(at) = 1
            <4>1. at[1] \in Int
                BY <3>1, FieldsOf
            <4> QED  BY <1>4, <3>1, <4>1, NumberAgree
        <3>2. CASE Len(at) # 1
            BY SMT, <1>4, <3>2 DEF NumberOf, InstantOf
        <3> QED  BY <3>1, <3>2
    <2> QED  BY <1>1, <1>2, <2>1, <2>2
<1>5. CASE agent = "jsonl"
    <2>1. TimeOf(agent, line) = MillisOf(at)
        BY <1>1, <1>5 DEF TimeOf
    <2>2. \/ MillisOf(at) = <<InstantOf(agent, at)>>
          \/ MillisOf(at) = <<>> /\ InstantOf(agent, at) = Now
        BY SMT, <1>5 DEF MillisOf, InstantOf
    <2> QED  BY <1>1, <1>2, <2>1, <2>2
<1> QED  BY <1>3, <1>4, <1>5 DEF TranscriptAgents

-----------------------------------------------------------------------------
(* Lines, texts and units.                                                 *)

(* The pieces a text to import may hold.                                   *)
Word == STRING \cup {"..."}

LEMMA WordSeqs == \A s \in Seq(STRING) : s \in Seq(Word)
BY WiderSeq DEF Word

(* The shape of a unit.                                                    *)
Roles == {None, "user", "assistant", "tool", "import"}

UnitSet == [role : Roles, text : Seq(Word), session : STRING \cup {None},
            time : Seq(Int)]

(* The fields of a line, and the types of what is computed from them.      *)
LEMMA LineFields ==
    ASSUME NEW line \in Line
    PROVE  /\ line.type \in STRING /\ line.role \in STRING \cup {None}
           /\ line.session \in STRING \cup {None} /\ line.message \in Nat \ {0}
           /\ line.aside \in BOOLEAN /\ line.blocks \in Seq(Block) /\ line.at \in Seq(Int)
           /\ \A i \in DOMAIN line.blocks : /\ line.blocks[i].type \in STRING
                                            /\ line.blocks[i].text \in Seq(STRING)
<1>1. /\ line.type \in STRING /\ line.role \in STRING \cup {None}
      /\ line.session \in STRING \cup {None} /\ line.message \in Nat \ {0}
      /\ line.aside \in BOOLEAN /\ line.blocks \in Seq(Block) /\ line.at \in Seq(Int)
    BY DEF Line
<1>2. ASSUME NEW i \in DOMAIN line.blocks
      PROVE  line.blocks[i].type \in STRING /\ line.blocks[i].text \in Seq(STRING)
    <2>1. line.blocks[i] \in Block
        BY <1>1
    <2> QED  BY <2>1 DEF Block
<1> QED  BY <1>1, <1>2

LEMMA DaysType ==
    ASSUME NEW y \in Int, NEW m \in Int, NEW d \in Int
    PROVE  DaysFromCivil(y, m, d) \in Int
BY SMT DEF DaysFromCivil

LEMMA TimeType ==
    ASSUME NEW line \in Line, NEW agent
    PROVE  TimeOf(agent, line) \in Seq(Int)
<1>1. line.at \in Seq(Int)
    BY LineFields
<1>2. \A x \in Int : <<x>> \in Seq(Int)
    OBVIOUS
<1>3. <<>> \in Seq(Int)
    OBVIOUS
<1>4. DateOf(line.at) \in Seq(Int)
    <2>1. CASE Len(line.at) = 5
        <3>1. /\ line.at[1] \in Int /\ line.at[2] \in Int /\ line.at[3] \in Int
              /\ line.at[4] \in Int /\ line.at[5] \in Int
            BY <1>1, <2>1, FieldsOf
        <3>2. PICK d : d = DaysFromCivil(line.at[1], line.at[2], line.at[3])
            OBVIOUS
        <3>3. d \in Int
            BY <3>1, <3>2, DaysType
        <3>4. d * 86400 + line.at[4] - line.at[5] * 60 \in Int
            BY SMT, <3>1, <3>3
        <3>5. <<d * 86400 + line.at[4] - line.at[5] * 60>> \in Seq(Int)
            BY SMT, <1>2, <3>4
        <3> DEFINE InRange == /\ line.at[2] \in 1..12 /\ line.at[3] \in 1..31
                             /\ 0 <= line.at[4] /\ line.at[4] < 86400
                   written == <<d * 86400 + line.at[4] - line.at[5] * 60>>
        <3>6. WrittenTime(line.at) = IF InRange THEN written ELSE <<>>
            BY SMT, <3>2 DEF WrittenTime
        <3> HIDE DEF InRange, written
        <3>7. WrittenTime(line.at) \in Seq(Int)
            BY <1>3, <3>5, <3>6 DEF written
        <3> QED  BY <2>1, <3>7 DEF DateOf
    <2>2. CASE Len(line.at) # 5
        BY <1>3, <2>2 DEF DateOf
    <2> QED  BY <2>1, <2>2
<1>5. NumberOf(line.at) \in Seq(Int)
    <2>1. CASE Len(line.at) = 1
        <3>1. line.at[1] \in Int
            BY <1>1, <2>1, FieldsOf
        <3>2. \A n \in Int : NumberTime(n) \in Seq(Int)
            BY SMT DEF NumberTime
        <3>3. NumberTime(line.at[1]) \in Seq(Int)
            BY SMT, <3>1, <3>2
        <3> QED  BY <2>1, <3>3 DEF NumberOf
    <2>2. CASE Len(line.at) # 1
        BY <1>3, <2>2 DEF NumberOf
    <2> QED  BY <2>1, <2>2
<1>6. MillisOf(line.at) \in Seq(Int)
    <2>1. CASE Len(line.at) = 1
        <3>1. line.at[1] \in Int
            BY <1>1, <2>1, FieldsOf
        <3>2. <<line.at[1]>> \in Seq(Int)
            BY <1>2, <3>1
        <3> QED  BY <2>1, <3>2 DEF MillisOf
    <2>2. CASE Len(line.at) # 1
        BY <1>3, <2>2 DEF MillisOf
    <2> QED  BY <2>1, <2>2
<1> QED  BY <1>4, <1>5, <1>6 DEF TimeOf

(* What joins blocks, and where each piece of it comes from.               *)
LEMMA JoinedSeqs ==
    ASSUME NEW blocks, NEW types, blocks \in Seq(Block)
    PROVE  [i \in DOMAIN blocks |-> IF blocks[i].type \in types THEN blocks[i].text ELSE <<>>]
                \in Seq(Seq(STRING))
<1>1. PICK n \in Nat : DOMAIN blocks = 1..n
    BY SMT
<1>2. \A i \in DOMAIN blocks : blocks[i] \in Block
    BY SMT
<1>3. \A i \in DOMAIN blocks :
        (IF blocks[i].type \in types THEN blocks[i].text ELSE <<>>) \in Seq(STRING)
    <2> SUFFICES ASSUME NEW i \in DOMAIN blocks
                 PROVE  (IF blocks[i].type \in types THEN blocks[i].text ELSE <<>>) \in Seq(STRING)
        OBVIOUS
    <2>1. blocks[i].text \in Seq(STRING)
        BY <1>2 DEF Block
    <2>2. <<>> \in Seq(STRING)
        OBVIOUS
    <2> QED  BY <2>1, <2>2
<1> QED  BY <1>1, <1>3, MadeSeq

LEMMA JoinedType ==
    ASSUME NEW blocks, NEW types, blocks \in Seq(Block)
    PROVE  Joined(blocks, types) \in Seq(STRING)
BY JoinedSeqs, FlattenType DEF Joined

LEMMA JoinedOrigin ==
    ASSUME NEW blocks, NEW types, blocks \in Seq(Block), NEW p \in DOMAIN Joined(blocks, types)
    PROVE  \E i \in DOMAIN blocks : \E k \in DOMAIN blocks[i].text :
              blocks[i].type \in types /\ k <= p /\ Joined(blocks, types)[p] = blocks[i].text[k]
<1> DEFINE s == [i \in DOMAIN blocks |-> IF blocks[i].type \in types THEN blocks[i].text ELSE <<>>]
<1>1. s \in Seq(Seq(STRING))
    BY JoinedSeqs
<1>2. Joined(blocks, types) = FlattenSeq(s)
    BY DEF Joined
<1>3. DOMAIN s = DOMAIN blocks
    OBVIOUS
<1>4. \A i \in DOMAIN blocks : s[i] = IF blocks[i].type \in types THEN blocks[i].text ELSE <<>>
    OBVIOUS
<1> HIDE DEF s
<1>5. PICK i \in DOMAIN s : \E k \in DOMAIN s[i] : k <= p /\ FlattenSeq(s)[p] = s[i][k]
    BY <1>1, <1>2, FlattenOrigin
<1>6. blocks[i].type \in types
    <2>1. SUFFICES ASSUME blocks[i].type \notin types PROVE FALSE
        OBVIOUS
    <2>2. s[i] = <<>>
        BY <1>3, <1>4, <2>1
    <2>3. DOMAIN s[i] = {}
        BY <2>2
    <2> QED  BY <1>5, <2>3
<1>7. s[i] = blocks[i].text
    BY <1>3, <1>4, <1>6
<1> QED  BY <1>2, <1>3, <1>5, <1>6, <1>7

(* A text cut short keeps its pieces in their places.                      *)
LEMMA TruncatedType ==
    ASSUME NEW text \in Seq(STRING)
    PROVE  Truncated(text) \in Seq(Word)
<1>1. TextCap \in Nat
    BY TextCapAssumption
<1>2. CASE Len(text) > TextCap
    <2>1. SubSeq(text, 1, TextCap) \in Seq(STRING)
        BY <1>1, <1>2
    <2>2. "..." \in Word /\ SubSeq(text, 1, TextCap) \in Seq(Word)
        BY <2>1, WordSeqs DEF Word
    <2>3. Append(SubSeq(text, 1, TextCap), "...") \in Seq(Word)
        BY <2>2, Appending
    <2> QED  BY <1>2, <2>3 DEF Truncated
<1>3. CASE ~(Len(text) > TextCap)
    BY <1>3, WordSeqs DEF Truncated
<1> QED  BY <1>2, <1>3

LEMMA TruncatedOrigin ==
    ASSUME NEW text \in Seq(STRING), NEW k \in DOMAIN Truncated(text)
    PROVE  \/ Truncated(text)[k] = "..."
           \/ k <= TextCap /\ k \in DOMAIN text /\ Truncated(text)[k] = text[k]
<1>1. TextCap \in Nat /\ Len(text) \in Nat /\ DOMAIN text = 1..Len(text)
    BY TextCapAssumption
<1>2. CASE Len(text) > TextCap
    <2>1. SubSeq(text, 1, TextCap) \in Seq(STRING) /\ Len(SubSeq(text, 1, TextCap)) = TextCap
        BY <1>1, <1>2
    <2>2. \A i \in 1..TextCap : SubSeq(text, 1, TextCap)[i] = text[i]
        BY <1>1, <1>2
    <2> DEFINE s == SubSeq(text, 1, TextCap)
    <2>3. Truncated(text) = Append(s, "...")
        BY <1>2 DEF Truncated
    <2> HIDE DEF s
    <2>4. s \in Seq(Word) /\ Len(s) = TextCap /\ \A i \in 1..TextCap : s[i] = text[i]
        BY <2>1, <2>2, WordSeqs DEF s
    <2>5. /\ DOMAIN Append(s, "...") = 1..(TextCap + 1)
          /\ \A i \in 1..TextCap : Append(s, "...")[i] = s[i]
          /\ Append(s, "...")[TextCap + 1] = "..."
        BY <2>4, Appending DEF Word
    <2>6. k \in 1..TextCap \/ k = TextCap + 1
        BY <1>1, <2>3, <2>5
    <2>7. CASE k \in 1..TextCap
        <3>1. k <= TextCap /\ k \in DOMAIN text
            BY <1>1, <1>2, <2>7
        <3>2. Truncated(text)[k] = text[k]
            BY <2>3, <2>4, <2>5, <2>7
        <3> QED  BY <3>1, <3>2
    <2> QED  BY <2>3, <2>5, <2>6, <2>7
<1>3. CASE ~(Len(text) > TextCap)
    <2>1. Truncated(text) = text
        BY <1>3 DEF Truncated
    <2>2. k \in 1..Len(text)
        BY <1>1, <2>1
    <2>3. k <= TextCap
        BY <1>1, <1>3, <2>2
    <2> QED  BY <1>1, <2>1, <2>2, <2>3
<1> QED  BY <1>2, <1>3

(* A piece told in the turn of a line, no later than p in its block.       *)
Heard(agent, lines, i, role, x, p) ==
    \E j \in DOMAIN lines : \E c \in DOMAIN lines[j].blocks :
        \E q \in DOMAIN lines[j].blocks[c].text :
            /\ i = j \/ (agent = "opencode" /\ lines[i].message = lines[j].message)
            /\ Speaker(agent, lines[j], lines[j].blocks[c]) = role
            /\ q <= p
            /\ x = lines[j].blocks[c].text[q]

(* A text of which all is told in the turn of a line by one speaker.       *)
Tells(agent, lines, i, role, text) ==
    \A k \in DOMAIN text : Heard(agent, lines, i, role, text[k], k)

(* A unit drawn from the lines: its session, its time, and all its text    *)
(* were told at one line.                                                  *)
Drawn(agent, lines, u) ==
    \E i \in DOMAIN lines :
        /\ u.session = SessionAt(agent, lines, i)
        /\ u.time = TimeOf(agent, lines[i])
        /\ \A k \in DOMAIN u.text :
              \/ u.text[k] = "..."
              \/ /\ agent = "jsonl" \/ k <= TextCap
                 /\ Heard(agent, lines, i, u.role, u.text[k], k)

DrawnUnits(agent, lines) == { u \in UnitSet : Drawn(agent, lines, u) }

(* Sequences of units: none, and one.                                      *)
LEMMA NoUnits ==
    ASSUME NEW S
    PROVE  <<>> \in Seq(S)
OBVIOUS

LEMMA OneUnit ==
    ASSUME NEW S, NEW x \in S
    PROVE  <<x>> \in Seq(S)
OBVIOUS

(* The unit of a text that a turn tells.                                   *)
LEMMA UnitDrawn ==
    ASSUME NEW agent, NEW lines, NEW i \in DOMAIN lines, lines[i] \in Line,
           NEW role \in Roles, NEW text \in Seq(STRING), NEW session, NEW time,
           session \in STRING \cup {None}, session = SessionAt(agent, lines, i),
           time = TimeOf(agent, lines[i]), Tells(agent, lines, i, role, text)
    PROVE  UnitOf(role, text, session, time) \in Seq(DrawnUnits(agent, lines))
<1>1. CASE text = <<>>
    BY <1>1, NoUnits DEF UnitOf
<1>2. CASE text # <<>>
    <2> DEFINE u == [role |-> role, text |-> Truncated(text), session |-> session, time |-> time]
    <2>1. UnitOf(role, text, session, time) = <<u>>
        BY <1>2 DEF UnitOf
    <2>2. u.role = role /\ u.text = Truncated(text) /\ u.session = session /\ u.time = time
        OBVIOUS
    <2>3. u \in UnitSet
        BY TruncatedType, TimeType DEF UnitSet
    <2> HIDE DEF u
    <2>4. ASSUME NEW k \in DOMAIN u.text
          PROVE  \/ u.text[k] = "..."
                 \/ /\ agent = "jsonl" \/ k <= TextCap
                    /\ Heard(agent, lines, i, u.role, u.text[k], k)
        <3>1. \/ u.text[k] = "..."
              \/ k <= TextCap /\ k \in DOMAIN text /\ u.text[k] = text[k]
            BY <2>2, TruncatedOrigin
        <3>2. CASE k <= TextCap /\ k \in DOMAIN text /\ u.text[k] = text[k]
            <4>1. Heard(agent, lines, i, role, text[k], k)
                BY <3>2 DEF Tells
            <4> QED  BY <2>2, <3>2, <4>1
        <3> QED  BY <3>1, <3>2
    <2>5. Drawn(agent, lines, u)
        BY <2>2, <2>4 DEF Drawn
    <2>6. u \in DrawnUnits(agent, lines)
        BY <2>3, <2>5 DEF DrawnUnits
    <2> QED  BY <2>1, <2>6, OneUnit
<1> QED  BY <1>1, <1>2

(* The joined blocks of a line.                                            *)
LEMMA JoinedTells ==
    ASSUME NEW agent, NEW lines, NEW i \in DOMAIN lines, NEW j \in DOMAIN lines,
           lines[j].blocks \in Seq(Block), NEW role, NEW types,
           i = j \/ (agent = "opencode" /\ lines[i].message = lines[j].message),
           \A c \in DOMAIN lines[j].blocks : lines[j].blocks[c].type \in types =>
                Speaker(agent, lines[j], lines[j].blocks[c]) = role
    PROVE  Tells(agent, lines, i, role, Joined(lines[j].blocks, types))
<1> DEFINE blocks == lines[j].blocks
           text == Joined(blocks, types)
<1>1. SUFFICES ASSUME NEW p \in DOMAIN text
               PROVE  Heard(agent, lines, i, role, text[p], p)
    BY DEF Tells
<1>2. PICK c \in DOMAIN blocks : \E k \in DOMAIN blocks[c].text :
              blocks[c].type \in types /\ k <= p /\ text[p] = blocks[c].text[k]
    BY JoinedOrigin
<1>3. PICK k \in DOMAIN blocks[c].text :
              blocks[c].type \in types /\ k <= p /\ text[p] = blocks[c].text[k]
    BY <1>2
<1>4. Speaker(agent, lines[j], blocks[c]) = role
    BY <1>3
<1> HIDE DEF text
<1> QED  BY <1>3, <1>4 DEF Heard

(* Units read line by line.                                                *)
LEMMA FlattenMade ==
    ASSUME NEW S, NEW n \in Nat, NEW s, DOMAIN s = 1..n, s = [i \in DOMAIN s |-> s[i]],
           \A i \in DOMAIN s : s[i] \in Seq(S)
    PROVE  s \in Seq(Seq(S)) /\ FlattenSeq(s) \in Seq(S)
<1>1. s \in Seq(Seq(S))
    <2> DEFINE Q == Seq(S)
    <2> HIDE DEF Q
    <2>1. \A i \in DOMAIN s : s[i] \in Q
        BY DEF Q
    <2>2. s \in Seq(Q)
        BY <2>1, MadeSeq
    <2> QED  BY <2>2 DEF Q
<1> QED  BY <1>1, FlattenType

(* The lines of a file.                                                    *)
LEMMA LinesOf ==
    ASSUME NEW lines \in Seq(Line)
    PROVE  /\ DOMAIN lines = 1..Len(lines) /\ Len(lines) \in Nat
           /\ \A i \in DOMAIN lines : lines[i] \in Line
OBVIOUS

-----------------------------------------------------------------------------
(* The readers that go line by line: each unit was told in its line.       *)

(* Claude: each unit was told in its line.                                 *)
LEMMA ClaudeDrawn ==
    ASSUME NEW lines \in Seq(Line)
    PROVE  ParseClaude(lines) \in Seq(DrawnUnits("claude", lines))
<1> DEFINE S == DrawnUnits("claude", lines)
           s == [i \in DOMAIN lines |-> ClaudeUnits(lines[i])]
<1>1. /\ DOMAIN lines = 1..Len(lines) /\ Len(lines) \in Nat
      /\ \A i \in DOMAIN lines : lines[i] \in Line
    BY LinesOf
<1> HIDE DEF S
<1>2. ASSUME NEW i \in DOMAIN lines PROVE ClaudeUnits(lines[i]) \in Seq(S)
    <2> DEFINE line == lines[i]
               UnitFor(role, text) == UnitOf(role, text, line.session, TimeOf("claude", line))
    <2>1. line \in Line
        BY <1>1
    <2>2. /\ line.session \in STRING \cup {None} /\ line.blocks \in Seq(Block)
          /\ \A c \in DOMAIN line.blocks : line.blocks[c].text \in Seq(STRING)
        BY <2>1, LineFields
    <2>3. line.session = SessionAt("claude", lines, i)
        BY DEF SessionAt
    <2>4. ASSUME NEW role \in Roles, NEW text \in Seq(STRING),
                 Tells("claude", lines, i, role, text)
          PROVE  UnitFor(role, text) \in Seq(S)
        BY <2>1, <2>2, <2>3, <2>4, UnitDrawn DEF S
    <2>5. CASE line.aside
        BY <2>5, NoUnits DEF ClaudeUnits
    <2>6. CASE ~line.aside /\ line.type = "user"
        <3> DEFINE results == [c \in DOMAIN line.blocks |->
                        IF line.blocks[c].type = "tool_result"
                        THEN UnitFor("tool", line.blocks[c].text) ELSE <<>>]
                   said == UnitFor("user", Joined(line.blocks, {"text", "plain"}))
        <3>1. ClaudeUnits(line) = said \o FlattenSeq(results)
            BY <2>6 DEF ClaudeUnits
        <3>2. said \in Seq(S)
            <4>1. \A c \in DOMAIN line.blocks : line.blocks[c].type \in {"text", "plain"} =>
                        Speaker("claude", line, line.blocks[c]) = "user"
                BY <2>6 DEF Speaker
            <4>2. Tells("claude", lines, i, "user", Joined(line.blocks, {"text", "plain"}))
                BY <2>2, <4>1, JoinedTells
            <4>3. Joined(line.blocks, {"text", "plain"}) \in Seq(STRING)
                BY <2>2, JoinedType
            <4>4. "user" \in Roles
                BY DEF Roles
            <4> QED  BY <2>4, <4>2, <4>3, <4>4
        <3>3. ASSUME NEW c \in DOMAIN line.blocks PROVE results[c] \in Seq(S)
            <4>1. CASE line.blocks[c].type = "tool_result"
                <5>1. Speaker("claude", line, line.blocks[c]) = "tool"
                    BY <2>6, <4>1 DEF Speaker
                <5>2. \A k \in DOMAIN line.blocks[c].text : k <= k
                    BY <2>2
                <5>3. Tells("claude", lines, i, "tool", line.blocks[c].text)
                    BY <5>1, <5>2 DEF Tells, Heard
                <5>4. UnitFor("tool", line.blocks[c].text) \in Seq(S)
                    <6>1. "tool" \in Roles
                        BY DEF Roles
                    <6> HIDE DEF UnitFor
                    <6> QED  BY <2>2, <2>4, <5>3, <6>1
                <5> QED  BY <4>1, <5>4
            <4>2. CASE line.blocks[c].type # "tool_result"
                BY <4>2, NoUnits
            <4> QED  BY <4>1, <4>2
        <3>4. DOMAIN results = DOMAIN line.blocks /\ results = [c \in DOMAIN results |-> results[c]]
            OBVIOUS
        <3>5. PICK n \in Nat : DOMAIN line.blocks = 1..n
            BY <2>2
        <3> HIDE DEF results, said
        <3>6. FlattenSeq(results) \in Seq(S)
            BY <3>3, <3>4, <3>5, FlattenMade
        <3> QED  BY <3>1, <3>2, <3>6, Concatenated
    <2>7. CASE ~line.aside /\ line.type = "assistant"
        <3>1. ClaudeUnits(line) = UnitFor("assistant", Joined(line.blocks, {"text"}))
            BY <2>7 DEF ClaudeUnits
        <3>2. \A c \in DOMAIN line.blocks : line.blocks[c].type \in {"text"} =>
                    Speaker("claude", line, line.blocks[c]) = "assistant"
            BY <2>7 DEF Speaker
        <3>3. Tells("claude", lines, i, "assistant", Joined(line.blocks, {"text"}))
            BY <2>2, <3>2, JoinedTells
        <3>4. Joined(line.blocks, {"text"}) \in Seq(STRING)
            BY <2>2, JoinedType
        <3>5. "assistant" \in Roles
            BY DEF Roles
        <3> QED  BY <2>4, <3>1, <3>3, <3>4, <3>5
    <2>8. CASE ~line.aside /\ line.type \notin {"user", "assistant"}
        <3>1. ClaudeUnits(line) = <<>>
            BY <2>8 DEF ClaudeUnits
        <3> QED  BY <3>1, NoUnits
    <2> QED  BY <2>5, <2>6, <2>7, <2>8
<1>3. DOMAIN s = DOMAIN lines /\ s = [i \in DOMAIN s |-> s[i]]
    OBVIOUS
<1>4. \A i \in DOMAIN s : s[i] \in Seq(S)
    BY <1>2
<1>5. ParseClaude(lines) = FlattenSeq(s)
    BY DEF ParseClaude
<1> HIDE DEF s
<1>6. FlattenSeq(s) \in Seq(S)
    BY <1>1, <1>3, <1>4, FlattenMade
<1> QED  BY <1>5, <1>6 DEF S

(* The session of a line of Codex, line by line.                           *)
LEMMA CodexSessionStep ==
    ASSUME NEW lines
    PROVE  /\ CodexSession(lines, 0) = None
           /\ \A n \in Nat : CodexSession(lines, n + 1) =
                    IF NamesSession(lines[n + 1]) THEN lines[n + 1].session
                                                  ELSE CodexSession(lines, n)
<1> DEFINE D == {None} \cup { lines[n + 1].session : n \in Nat }
           g == [n \in Nat |-> [x \in D |->
                    IF NamesSession(lines[n + 1]) THEN lines[n + 1].session ELSE x]]
<1>1. g \in Steps(D) /\ None \in D
    BY DEF Steps
<1>2. \A n \in Nat, x \in D : g[n][x] = IF NamesSession(lines[n + 1]) THEN lines[n + 1].session ELSE x
    OBVIOUS
<1> HIDE DEF g, D
<1>3. PICK F : Follows(F, D, None, g)
    BY <1>1, Recursion
<1>4. /\ F \in [Nat -> D] /\ F[0] = None
      /\ \A n \in Nat : F[n + 1] = IF NamesSession(lines[n + 1]) THEN lines[n + 1].session ELSE F[n]
    BY <1>2, <1>3 DEF Follows
<1> DEFINE Sessions(f) == f = [j \in Nat |-> IF j = 0 THEN None
                                  ELSE IF NamesSession(lines[j]) THEN lines[j].session
                                  ELSE f[j - 1]]
<1>5. Sessions(F)
    <2>1. ASSUME NEW j \in Nat
          PROVE  F[j] = IF j = 0 THEN None
                        ELSE IF NamesSession(lines[j]) THEN lines[j].session ELSE F[j - 1]
        <3>1. CASE j = 0
            BY <1>4, <3>1
        <3>2. CASE j # 0
            <4>1. j - 1 \in Nat /\ (j - 1) + 1 = j
                BY <3>2
            <4> QED  BY <1>4, <3>2, <4>1
        <3> QED  BY <3>1, <3>2
    <2>2. F = [j \in Nat |-> F[j]]
        BY <1>4
    <2> QED  BY <2>1, <2>2
<1> DEFINE f0 == CHOOSE f : Sessions(f)
<1>6. Sessions(f0)
    BY <1>5
<1>7. \A i : CodexSession(lines, i) = f0[i]
    BY DEF CodexSession
<1> HIDE DEF f0
<1>8. f0[0] = None
    BY <1>6
<1>9. ASSUME NEW n \in Nat
      PROVE  f0[n + 1] = IF NamesSession(lines[n + 1]) THEN lines[n + 1].session ELSE f0[n]
    <2>1. n + 1 \in Nat /\ n + 1 # 0 /\ (n + 1) - 1 = n
        OBVIOUS
    <2> QED  BY <1>6, <2>1
<1> QED  BY <1>7, <1>8, <1>9

(* The same, told by the last line so far that names a session.            *)
LEMMA CodexSessionTold ==
    ASSUME NEW lines, NEW i \in Nat
    PROVE  CodexSession(lines, i) = SessionAt("codex", lines, i)
<1> DEFINE metas(n) == { j \in 1..n : lines[j].type = "session_meta" /\ lines[j].session # None }
           T == { n \in Nat : CodexSession(lines, n) = SessionAt("codex", lines, n) }
<1>1. \A n : SessionAt("codex", lines, n) = IF metas(n) = {} THEN None ELSE lines[Max(metas(n))].session
    BY DEF SessionAt
<1>2. 0 \in T
    <2>1. metas(0) = {}
        OBVIOUS
    <2> HIDE DEF metas
    <2> QED  BY <1>1, <2>1, CodexSessionStep
<1>3. ASSUME NEW n \in T PROVE n + 1 \in T
    <2>1. n \in Nat /\ CodexSession(lines, n) = SessionAt("codex", lines, n)
        OBVIOUS
    <2>2. CASE NamesSession(lines[n + 1])
        <3>1. CodexSession(lines, n + 1) = lines[n + 1].session
            BY <2>1, <2>2, CodexSessionStep
        <3>2. n + 1 \in metas(n + 1) /\ \A j \in metas(n + 1) : j \in Int /\ n + 1 >= j
            BY <2>1, <2>2 DEF NamesSession
        <3> DEFINE M == metas(n + 1)
        <3> HIDE DEF metas
        <3>3. M # {} /\ n + 1 \in M /\ \A j \in M : j \in Int /\ n + 1 >= j
            BY <3>2
        <3> HIDE DEF M
        <3>4. Max(M) = n + 1
            <4>1. \A x \in M : (\A y \in M : x >= y) => x = n + 1
                BY <2>1, <3>3
            <4>2. n + 1 \in M /\ \A y \in M : n + 1 >= y
                BY <3>3
            <4> QED  BY <4>1, <4>2 DEF Max
        <3>5. SessionAt("codex", lines, n + 1) = lines[n + 1].session
            BY <1>1, <3>3, <3>4 DEF M
        <3> QED  BY <2>1, <3>1, <3>5
    <2>3. CASE ~NamesSession(lines[n + 1])
        <3>1. CodexSession(lines, n + 1) = CodexSession(lines, n)
            BY <2>1, <2>3, CodexSessionStep
        <3>2. metas(n + 1) = metas(n)
            <4>1. \A j : j \in 1..(n + 1) <=> j \in 1..n \/ j = n + 1
                BY <2>1
            <4>2. ~(lines[n + 1].type = "session_meta" /\ lines[n + 1].session # None)
                BY <2>3 DEF NamesSession
            <4> QED  BY <4>1, <4>2
        <3> HIDE DEF metas
        <3>3. SessionAt("codex", lines, n + 1) = SessionAt("codex", lines, n)
            BY <1>1, <3>2
        <3> QED  BY <2>1, <3>1, <3>3
    <2> QED  BY <2>2, <2>3
<1>4. T = Nat
    <2> HIDE DEF T
    <2>1. T \subseteq Nat
        BY DEF T
    <2> QED  BY <1>2, <1>3, <2>1, Counting
<1> QED  BY <1>4

(* What is told up to a line does not depend on the lines after it.        *)
LEMMA SessionAtStart ==
    ASSUME NEW agent, NEW s, NEW t, NEW n \in Nat, NEW i \in 1..n, \A j \in 1..n : t[j] = s[j]
    PROVE  SessionAt(agent, s, i) = SessionAt(agent, t, i)
<1>1. t[i] = s[i] /\ \A j \in 1..i : t[j] = s[j]
    OBVIOUS
<1>2. CASE agent # "codex"
    BY <1>1, <1>2 DEF SessionAt
<1>3. CASE agent = "codex"
    <2> DEFINE metas(l) == { j \in 1..i : l[j].type = "session_meta" /\ l[j].session # None }
    <2>1. metas(s) = metas(t)
        BY <1>1
    <2>2. SessionAt(agent, s, i) = IF metas(s) = {} THEN None ELSE s[Max(metas(s))].session
        BY <1>3 DEF SessionAt
    <2>3. SessionAt(agent, t, i) = IF metas(t) = {} THEN None ELSE t[Max(metas(t))].session
        BY <1>3 DEF SessionAt
    <2>4. metas(s) # {} => Max(metas(s)) \in 1..i
        <3>1. metas(s) \subseteq 1..i
            OBVIOUS
        <3> DEFINE M == metas(s)
        <3> HIDE DEF metas
        <3>2. M \subseteq 1..i /\ i \in Nat
            BY <3>1
        <3> HIDE DEF M
        <3>3. M # {} => Max(M) \in M
            BY <3>2, LargestIn
        <3> QED  BY <3>2, <3>3 DEF M
    <2> HIDE DEF metas
    <2>5. metas(s) # {} => t[Max(metas(s))] = s[Max(metas(s))]
        BY <1>1, <2>4
    <2> QED  BY <2>1, <2>2, <2>3, <2>5
<1> QED  BY <1>2, <1>3

(* A session is a name, or none.                                           *)
LEMMA SessionType ==
    ASSUME NEW agent, NEW lines \in Seq(Line), NEW i \in DOMAIN lines
    PROVE  SessionAt(agent, lines, i) \in STRING \cup {None}
<1>1. /\ DOMAIN lines = 1..Len(lines) /\ Len(lines) \in Nat
      /\ \A j \in DOMAIN lines : lines[j] \in Line
    BY LinesOf
<1>2. \A j \in DOMAIN lines : lines[j].session \in STRING \cup {None}
    BY <1>1, LineFields
<1> DEFINE M == { j \in 1..i : lines[j].type = "session_meta" /\ lines[j].session # None }
<1>3. i \in Nat /\ M \subseteq 1..i /\ 1..i \subseteq DOMAIN lines
    BY <1>1
<1> HIDE DEF M
<1>4. M # {} => Max(M) \in M
    BY <1>3, LargestIn
<1>5. SessionAt(agent, lines, i) = IF agent # "codex" THEN lines[i].session
                                   ELSE IF M = {} THEN None ELSE lines[Max(M)].session
    BY DEF SessionAt, M
<1> QED  BY <1>2, <1>3, <1>4, <1>5

(* Codex: each unit was told in its line, in the session named before it.  *)
LEMMA CodexDrawn ==
    ASSUME NEW lines \in Seq(Line)
    PROVE  ParseCodex(lines) \in Seq(DrawnUnits("codex", lines))
<1> DEFINE S == DrawnUnits("codex", lines)
           s == [i \in DOMAIN lines |-> CodexUnits(lines[i], CodexSession(lines, i))]
<1>1. /\ DOMAIN lines = 1..Len(lines) /\ Len(lines) \in Nat
      /\ \A i \in DOMAIN lines : lines[i] \in Line
    BY LinesOf
<1> HIDE DEF S
<1>2. ASSUME NEW i \in DOMAIN lines PROVE CodexUnits(lines[i], CodexSession(lines, i)) \in Seq(S)
    <2> DEFINE line == lines[i]
               session == CodexSession(lines, i)
               text == Joined(line.blocks, {"text"})
    <2>1. line \in Line /\ i \in Nat
        BY <1>1
    <2>2. line.blocks \in Seq(Block)
        BY <2>1, LineFields
    <2>3. session = SessionAt("codex", lines, i)
        BY <2>1, CodexSessionTold
    <2>4. session \in STRING \cup {None}
        BY <2>3, SessionType
    <2> HIDE DEF session
    <2>5. ASSUME NEW role \in Roles,
                 \A c \in DOMAIN line.blocks : Speaker("codex", line, line.blocks[c]) = role
          PROVE  UnitOf(role, text, session, TimeOf("codex", line)) \in Seq(S)
        <3>1. Tells("codex", lines, i, role, text)
            BY <2>2, <2>5, JoinedTells
        <3>2. text \in Seq(STRING)
            BY <2>2, JoinedType
        <3> HIDE DEF text
        <3> QED  BY <2>1, <2>3, <2>4, <3>1, <3>2, UnitDrawn DEF S
    <2> HIDE DEF text
    <2>6. CASE line.type = "message" /\ line.role \in {"user", "assistant"}
        <3>1. CodexUnits(line, session) = UnitOf(line.role, text, session, TimeOf("codex", line))
            BY <2>6 DEF CodexUnits, text
        <3>2. \A c \in DOMAIN line.blocks : Speaker("codex", line, line.blocks[c]) = line.role
            BY <2>6 DEF Speaker
        <3>3. line.role \in Roles
            BY <2>6 DEF Roles
        <3> QED  BY <2>5, <3>1, <3>2, <3>3 DEF session
    <2>7. CASE line.type = "function_call_output"
        <3>1. CodexUnits(line, session) = UnitOf("tool", text, session, TimeOf("codex", line))
            BY <2>7 DEF CodexUnits, text
        <3>2. \A c \in DOMAIN line.blocks : Speaker("codex", line, line.blocks[c]) = "tool"
            BY <2>7 DEF Speaker
        <3>3. "tool" \in Roles
            BY DEF Roles
        <3> QED  BY <2>5, <3>1, <3>2, <3>3 DEF session
    <2>8. CASE /\ ~(line.type = "message" /\ line.role \in {"user", "assistant"})
               /\ line.type # "function_call_output"
        <3>1. CodexUnits(line, session) = <<>>
            BY <2>8 DEF CodexUnits
        <3> QED  BY <3>1, NoUnits DEF session
    <2> QED  BY <2>6, <2>7, <2>8
<1>3. DOMAIN s = DOMAIN lines /\ s = [i \in DOMAIN s |-> s[i]]
    OBVIOUS
<1>4. \A i \in DOMAIN s : s[i] \in Seq(S)
    BY <1>2
<1>5. ParseCodex(lines) = FlattenSeq(s)
    BY DEF ParseCodex
<1> HIDE DEF s
<1>6. FlattenSeq(s) \in Seq(S)
    BY <1>1, <1>3, <1>4, FlattenMade
<1> QED  BY <1>5, <1>6 DEF S

(* Hermes and the generic export: each unit was told in its row.           *)
LEMMA HermesDrawn ==
    ASSUME NEW rows \in Seq(Line)
    PROVE  ParseHermes(rows) \in Seq(DrawnUnits("hermes", rows))
<1> DEFINE S == DrawnUnits("hermes", rows)
           s == [i \in DOMAIN rows |-> HermesUnits(rows[i])]
<1>1. /\ DOMAIN rows = 1..Len(rows) /\ Len(rows) \in Nat
      /\ \A i \in DOMAIN rows : rows[i] \in Line
    BY LinesOf
<1> HIDE DEF S
<1>2. ASSUME NEW i \in DOMAIN rows PROVE HermesUnits(rows[i]) \in Seq(S)
    <2> DEFINE row == rows[i]
               text == Joined(row.blocks, {"text"})
    <2>1. row \in Line
        BY <1>1
    <2>2. row.blocks \in Seq(Block) /\ row.session \in STRING \cup {None}
        BY <2>1, LineFields
    <2>3. row.session = SessionAt("hermes", rows, i)
        BY DEF SessionAt
    <2>4. CASE row.role \in {"user", "assistant", "tool"} /\ row.session # None
        <3>1. HermesUnits(row) = UnitOf(row.role, text, row.session, TimeOf("hermes", row))
            BY <2>4 DEF HermesUnits
        <3>2. \A c \in DOMAIN row.blocks : Speaker("hermes", row, row.blocks[c]) = row.role
            BY <2>4 DEF Speaker
        <3>3. row.role \in Roles
            BY <2>4 DEF Roles
        <3>4. Tells("hermes", rows, i, row.role, text)
            BY <2>2, <3>2, JoinedTells
        <3>5. text \in Seq(STRING)
            BY <2>2, JoinedType
        <3> HIDE DEF text
        <3> QED  BY <2>1, <2>2, <2>3, <3>1, <3>3, <3>4, <3>5, UnitDrawn DEF S
    <2>5. CASE ~(row.role \in {"user", "assistant", "tool"} /\ row.session # None)
        BY <2>5, NoUnits DEF HermesUnits
    <2> QED  BY <2>4, <2>5
<1>3. DOMAIN s = DOMAIN rows /\ s = [i \in DOMAIN s |-> s[i]]
    OBVIOUS
<1>4. \A i \in DOMAIN s : s[i] \in Seq(S)
    BY <1>2
<1>5. ParseHermes(rows) = FlattenSeq(s)
    BY DEF ParseHermes
<1> HIDE DEF s
<1>6. FlattenSeq(s) \in Seq(S)
    BY <1>1, <1>3, <1>4, FlattenMade
<1> QED  BY <1>5, <1>6 DEF S

LEMMA JsonlDrawn ==
    ASSUME NEW lines \in Seq(Line)
    PROVE  ParseJsonl(lines) \in Seq(DrawnUnits("jsonl", lines))
<1> DEFINE S == DrawnUnits("jsonl", lines)
           s == ParseJsonl(lines)
<1>1. /\ DOMAIN lines = 1..Len(lines) /\ Len(lines) \in Nat
      /\ \A i \in DOMAIN lines : lines[i] \in Line
    BY LinesOf
<1> HIDE DEF S
<1>2. ASSUME NEW i \in DOMAIN lines PROVE s[i] \in S
    <2> DEFINE line == lines[i]
               text == Joined(line.blocks, {"text"})
               u == s[i]
    <2>1. line \in Line
        BY <1>1
    <2>2. line.blocks \in Seq(Block) /\ line.session \in STRING \cup {None}
        BY <2>1, LineFields
    <2>3. u = [role |-> "import", text |-> text, session |-> line.session, time |-> TimeOf("jsonl", line)]
        BY DEF ParseJsonl
    <2>4. \A c \in DOMAIN line.blocks : Speaker("jsonl", line, line.blocks[c]) = "import"
        BY DEF Speaker
    <2>5. Tells("jsonl", lines, i, "import", text)
        BY <2>2, <2>4, JoinedTells
    <2>6. text \in Seq(STRING)
        BY <2>2, JoinedType
    <2>7. line.session = SessionAt("jsonl", lines, i)
        BY DEF SessionAt
    <2>8. text \in Seq(Word) /\ TimeOf("jsonl", line) \in Seq(Int) /\ "import" \in Roles
        BY <2>1, <2>6, WordSeqs, TimeType DEF Roles
    <2>9. u \in UnitSet
        BY <2>2, <2>3, <2>8 DEF UnitSet
    <2>10. u.session = SessionAt("jsonl", lines, i) /\ u.time = TimeOf("jsonl", line)
              /\ u.text = text /\ u.role = "import"
        BY <2>3, <2>7
    <2> HIDE DEF u, text
    <2>11. \A k \in DOMAIN u.text : Heard("jsonl", lines, i, u.role, u.text[k], k)
        BY <2>5, <2>10 DEF Tells
    <2>12. Drawn("jsonl", lines, u)
        BY <2>10, <2>11 DEF Drawn
    <2>13. u \in S
        BY <2>9, <2>12 DEF S, DrawnUnits
    <2> QED  BY <2>13 DEF u
<1>3. DOMAIN s = DOMAIN lines /\ s = [i \in DOMAIN s |-> s[i]]
    BY DEF ParseJsonl
<1> HIDE DEF s
<1>4. s \in Seq(S)
    BY <1>1, <1>2, <1>3, MadeSeq
<1> QED  BY <1>4 DEF S, s

-----------------------------------------------------------------------------
(* A transcript that grows keeps the units it had.                         *)

(* A transcript that grows keeps the units it had.                         *)
LEMMA MadeStarts ==
    ASSUME NEW S, NEW m \in Nat, NEW n \in Nat, m <= n, NEW r, NEW s,
           DOMAIN r = 1..m, r = [i \in DOMAIN r |-> r[i]], \A i \in DOMAIN r : r[i] \in Seq(S),
           DOMAIN s = 1..n, s = [i \in DOMAIN s |-> s[i]], \A i \in DOMAIN s : s[i] \in Seq(S),
           \A i \in 1..m : s[i] = r[i]
    PROVE  Starts(FlattenSeq(r), FlattenSeq(s))
<1>1. r \in Seq(Seq(S)) /\ s \in Seq(Seq(S))
    BY FlattenMade
<1>2. Len(r) = m /\ Len(s) = n
    BY <1>1
<1>3. Starts(r, s)
    BY <1>2 DEF Starts
<1> QED  BY <1>1, <1>3, FlattenStarts

(* The units of each line are units, whatever the line.                    *)
LEMMA UnitOfType ==
    ASSUME NEW role \in Roles, NEW text \in Seq(STRING), NEW session \in STRING \cup {None},
           NEW time \in Seq(Int)
    PROVE  UnitOf(role, text, session, time) \in Seq(UnitSet)
<1>1. CASE text = <<>>
    BY <1>1, NoUnits DEF UnitOf
<1>2. CASE text # <<>>
    <2> DEFINE u == [role |-> role, text |-> Truncated(text), session |-> session, time |-> time]
    <2>1. UnitOf(role, text, session, time) = <<u>>
        BY <1>2 DEF UnitOf
    <2>2. u \in UnitSet
        BY TruncatedType DEF UnitSet
    <2> HIDE DEF u
    <2> QED  BY <2>1, <2>2, OneUnit
<1> QED  BY <1>1, <1>2

LEMMA ClaudeUnitsType ==
    ASSUME NEW line \in Line
    PROVE  ClaudeUnits(line) \in Seq(UnitSet)
<1>1. /\ line.session \in STRING \cup {None} /\ line.blocks \in Seq(Block)
      /\ \A c \in DOMAIN line.blocks : line.blocks[c].text \in Seq(STRING)
    BY LineFields
<1>2. TimeOf("claude", line) \in Seq(Int) /\ \A types : Joined(line.blocks, types) \in Seq(STRING)
    BY <1>1, TimeType, JoinedType
<1>3. "user" \in Roles /\ "assistant" \in Roles /\ "tool" \in Roles
    BY DEF Roles
<1> DEFINE UnitFor(role, text) == UnitOf(role, text, line.session, TimeOf("claude", line))
<1>4. \A role \in Roles, text \in Seq(STRING) : UnitFor(role, text) \in Seq(UnitSet)
    BY <1>1, <1>2, UnitOfType
<1>5. CASE line.aside
    BY <1>5, NoUnits DEF ClaudeUnits
<1>6. CASE ~line.aside /\ line.type = "user"
    <2> DEFINE results == [c \in DOMAIN line.blocks |->
                    IF line.blocks[c].type = "tool_result"
                    THEN UnitFor("tool", line.blocks[c].text) ELSE <<>>]
               said == UnitFor("user", Joined(line.blocks, {"text", "plain"}))
    <2>1. ClaudeUnits(line) = said \o FlattenSeq(results)
        BY <1>6 DEF ClaudeUnits
    <2>2. said \in Seq(UnitSet)
        BY <1>2, <1>3, <1>4
    <2>3. ASSUME NEW c \in DOMAIN line.blocks PROVE results[c] \in Seq(UnitSet)
        <3>1. UnitFor("tool", line.blocks[c].text) \in Seq(UnitSet)
            BY <1>1, <1>3, <1>4
        <3> HIDE DEF UnitFor
        <3> QED  BY <3>1, NoUnits
    <2>4. DOMAIN results = DOMAIN line.blocks /\ results = [c \in DOMAIN results |-> results[c]]
        OBVIOUS
    <2>5. PICK n \in Nat : DOMAIN line.blocks = 1..n
        BY <1>1
    <2> HIDE DEF results, said
    <2>6. FlattenSeq(results) \in Seq(UnitSet)
        BY <2>3, <2>4, <2>5, FlattenMade
    <2> QED  BY <2>1, <2>2, <2>6, Concatenated
<1>7. CASE ~line.aside /\ line.type = "assistant"
    <2>1. ClaudeUnits(line) = UnitFor("assistant", Joined(line.blocks, {"text"}))
        BY <1>7 DEF ClaudeUnits
    <2> HIDE DEF UnitFor
    <2> QED  BY <1>2, <1>3, <1>4, <2>1
<1>8. CASE ~line.aside /\ line.type \notin {"user", "assistant"}
    <2>1. ClaudeUnits(line) = <<>>
        BY <1>8 DEF ClaudeUnits
    <2> QED  BY <2>1, NoUnits
<1> QED  BY <1>5, <1>6, <1>7, <1>8

LEMMA CodexUnitsType ==
    ASSUME NEW line \in Line, NEW session \in STRING \cup {None}
    PROVE  CodexUnits(line, session) \in Seq(UnitSet)
<1> DEFINE text == Joined(line.blocks, {"text"})
<1>1. line.blocks \in Seq(Block) /\ TimeOf("codex", line) \in Seq(Int)
    BY LineFields, TimeType
<1>2. text \in Seq(STRING)
    BY <1>1, JoinedType
<1> HIDE DEF text
<1>3. \A role \in Roles : UnitOf(role, text, session, TimeOf("codex", line)) \in Seq(UnitSet)
    BY <1>1, <1>2, UnitOfType
<1>4. CASE line.type = "message" /\ line.role \in {"user", "assistant"}
    <2>1. CodexUnits(line, session) = UnitOf(line.role, text, session, TimeOf("codex", line))
        BY <1>4 DEF CodexUnits, text
    <2>2. line.role \in Roles
        BY <1>4 DEF Roles
    <2> QED  BY <1>3, <2>1, <2>2
<1>5. CASE line.type = "function_call_output"
    <2>1. CodexUnits(line, session) = UnitOf("tool", text, session, TimeOf("codex", line))
        BY <1>5 DEF CodexUnits, text
    <2>2. "tool" \in Roles
        BY DEF Roles
    <2> QED  BY <1>3, <2>1, <2>2
<1>6. CASE /\ ~(line.type = "message" /\ line.role \in {"user", "assistant"})
           /\ line.type # "function_call_output"
    <2>1. CodexUnits(line, session) = <<>>
        BY <1>6 DEF CodexUnits
    <2> QED  BY <2>1, NoUnits
<1> QED  BY <1>4, <1>5, <1>6

LEMMA HermesUnitsType ==
    ASSUME NEW row \in Line
    PROVE  HermesUnits(row) \in Seq(UnitSet)
<1> DEFINE text == Joined(row.blocks, {"text"})
<1>1. /\ row.blocks \in Seq(Block) /\ TimeOf("hermes", row) \in Seq(Int)
      /\ row.session \in STRING \cup {None}
    BY LineFields, TimeType
<1>2. text \in Seq(STRING)
    BY <1>1, JoinedType
<1>3. CASE row.role \in {"user", "assistant", "tool"} /\ row.session # None
    <2>1. HermesUnits(row) = UnitOf(row.role, text, row.session, TimeOf("hermes", row))
        BY <1>3 DEF HermesUnits
    <2>2. row.role \in Roles
        BY <1>3 DEF Roles
    <2> HIDE DEF text
    <2> QED  BY <1>1, <1>2, <2>1, <2>2, UnitOfType
<1>4. CASE ~(row.role \in {"user", "assistant", "tool"} /\ row.session # None)
    BY <1>4, NoUnits DEF HermesUnits
<1> QED  BY <1>3, <1>4

(* An interval has one length.                                             *)
LEMMA SameInterval ==
    ASSUME NEW x \in Nat, NEW y \in Nat, 1..x = 1..y
    PROVE  x = y
<1>1. ~(x < y)
    <2>1. SUFFICES ASSUME x < y PROVE FALSE
        OBVIOUS
    <2>2. y \in 1..y /\ ~(y \in 1..x)
        BY <2>1
    <2> QED  BY <2>2
<1>2. ~(y < x)
    <2>1. SUFFICES ASSUME y < x PROVE FALSE
        OBVIOUS
    <2>2. x \in 1..x /\ ~(x \in 1..y)
        BY <2>1
    <2> QED  BY <2>2
<1> QED  BY <1>1, <1>2

(* The elements of a file and of its beginning.                            *)
LEMMA StartsParts ==
    ASSUME NEW s \in Seq(Line), NEW t \in Seq(Line), Starts(s, t)
    PROVE  /\ DOMAIN s = 1..Len(s) /\ DOMAIN t = 1..Len(t)
           /\ Len(s) \in Nat /\ Len(t) \in Nat /\ Len(s) <= Len(t)
           /\ \A i \in 1..Len(s) : t[i] = s[i]
           /\ \A i \in DOMAIN s : s[i] \in Line
           /\ \A i \in DOMAIN t : t[i] \in Line
BY DEF Starts

(* What is read of the beginning of a file begins what is read of it.      *)
LEMMA ParseStarts ==
    ASSUME NEW s \in Seq(Line), NEW t \in Seq(Line), Starts(s, t),
           NEW agent \in TranscriptAgents, agent # "opencode"
    PROVE  Starts(Parse(agent, s), Parse(agent, t))
<1>1. PICK m \in Nat, n \in Nat :
        /\ m <= n /\ DOMAIN s = 1..m /\ DOMAIN t = 1..n
        /\ \A i \in 1..m : t[i] = s[i]
        /\ \A i \in DOMAIN s : s[i] \in Line
        /\ \A i \in DOMAIN t : t[i] \in Line
    BY StartsParts
<1>2. CASE agent = "claude"
    <2> DEFINE us(l) == [i \in DOMAIN l |-> ClaudeUnits(l[i])]
    <2>1. /\ DOMAIN us(s) = 1..m /\ us(s) = [i \in DOMAIN us(s) |-> us(s)[i]]
          /\ DOMAIN us(t) = 1..n /\ us(t) = [i \in DOMAIN us(t) |-> us(t)[i]]
        BY <1>1
    <2>2. /\ \A i \in DOMAIN us(s) : us(s)[i] \in Seq(UnitSet)
          /\ \A i \in DOMAIN us(t) : us(t)[i] \in Seq(UnitSet)
        BY <1>1, ClaudeUnitsType
    <2>3. \A i \in 1..m : us(t)[i] = us(s)[i]
        BY <1>1
    <2>4. Parse(agent, s) = FlattenSeq(us(s)) /\ Parse(agent, t) = FlattenSeq(us(t))
        BY <1>2 DEF Parse, ParseClaude
    <2> HIDE DEF us
    <2>5. Starts(FlattenSeq(us(s)), FlattenSeq(us(t)))
        BY <1>1, <2>1, <2>2, <2>3, MadeStarts
    <2> QED  BY <2>4, <2>5
<1>3. CASE agent = "hermes"
    <2> DEFINE us(l) == [i \in DOMAIN l |-> HermesUnits(l[i])]
    <2>1. /\ DOMAIN us(s) = 1..m /\ us(s) = [i \in DOMAIN us(s) |-> us(s)[i]]
          /\ DOMAIN us(t) = 1..n /\ us(t) = [i \in DOMAIN us(t) |-> us(t)[i]]
        BY <1>1
    <2>2. /\ \A i \in DOMAIN us(s) : us(s)[i] \in Seq(UnitSet)
          /\ \A i \in DOMAIN us(t) : us(t)[i] \in Seq(UnitSet)
        BY <1>1, HermesUnitsType
    <2>3. \A i \in 1..m : us(t)[i] = us(s)[i]
        BY <1>1
    <2>4. Parse(agent, s) = FlattenSeq(us(s)) /\ Parse(agent, t) = FlattenSeq(us(t))
        BY <1>3 DEF Parse, ParseHermes
    <2> HIDE DEF us
    <2>5. Starts(FlattenSeq(us(s)), FlattenSeq(us(t)))
        BY <1>1, <2>1, <2>2, <2>3, MadeStarts
    <2> QED  BY <2>4, <2>5
<1>4. CASE agent = "codex"
    <2> DEFINE us(l) == [i \in DOMAIN l |-> CodexUnits(l[i], CodexSession(l, i))]
    <2>1. /\ DOMAIN us(s) = 1..m /\ us(s) = [i \in DOMAIN us(s) |-> us(s)[i]]
          /\ DOMAIN us(t) = 1..n /\ us(t) = [i \in DOMAIN us(t) |-> us(t)[i]]
        BY <1>1
    <2>2. \A i \in DOMAIN s : i \in Nat /\ CodexSession(s, i) \in STRING \cup {None}
        <3> SUFFICES ASSUME NEW i \in DOMAIN s
                     PROVE  i \in Nat /\ CodexSession(s, i) \in STRING \cup {None}
            OBVIOUS
        <3>1. i \in Nat
            BY <1>1
        <3>2. CodexSession(s, i) = SessionAt("codex", s, i)
            BY <3>1, CodexSessionTold
        <3> QED  BY <3>1, <3>2, SessionType
    <2>3. \A i \in DOMAIN t : i \in Nat /\ CodexSession(t, i) \in STRING \cup {None}
        <3> SUFFICES ASSUME NEW i \in DOMAIN t
                     PROVE  i \in Nat /\ CodexSession(t, i) \in STRING \cup {None}
            OBVIOUS
        <3>1. i \in Nat
            BY <1>1
        <3>2. CodexSession(t, i) = SessionAt("codex", t, i)
            BY <3>1, CodexSessionTold
        <3> QED  BY <3>1, <3>2, SessionType
    <2>4. \A i \in DOMAIN us(s) : us(s)[i] \in Seq(UnitSet)
        BY <1>1, <2>2, CodexUnitsType
    <2>5. \A i \in DOMAIN us(t) : us(t)[i] \in Seq(UnitSet)
        BY <1>1, <2>3, CodexUnitsType
    <2>6. ASSUME NEW i \in 1..m PROVE us(t)[i] = us(s)[i]
        <3>1. SessionAt("codex", s, i) = SessionAt("codex", t, i)
            BY <1>1, SessionAtStart
        <3>2. i \in DOMAIN s /\ i \in DOMAIN t /\ i \in Nat /\ t[i] = s[i]
            BY <1>1
        <3>3. CodexSession(s, i) = CodexSession(t, i)
            BY <3>1, <3>2, CodexSessionTold
        <3> QED  BY <3>2, <3>3
    <2>7. Parse(agent, s) = FlattenSeq(us(s)) /\ Parse(agent, t) = FlattenSeq(us(t))
        BY <1>4 DEF Parse, ParseCodex
    <2> HIDE DEF us
    <2>8. Starts(FlattenSeq(us(s)), FlattenSeq(us(t)))
        BY <1>1, <2>1, <2>4, <2>5, <2>6, MadeStarts
    <2> QED  BY <2>7, <2>8
<1>5. CASE agent = "jsonl"
    <2>1. Parse(agent, s) = ParseJsonl(s) /\ Parse(agent, t) = ParseJsonl(t)
        BY <1>5 DEF Parse
    <2>2. ParseJsonl(s) \in Seq(DrawnUnits("jsonl", s)) /\ ParseJsonl(t) \in Seq(DrawnUnits("jsonl", t))
        BY JsonlDrawn
    <2>3. DOMAIN ParseJsonl(s) = 1..m /\ DOMAIN ParseJsonl(t) = 1..n
        BY <1>1 DEF ParseJsonl
    <2>4. Len(ParseJsonl(s)) = m /\ Len(ParseJsonl(t)) = n
        <3> DEFINE a == ParseJsonl(s)
                   b == ParseJsonl(t)
        <3> HIDE DEF a, b
        <3>1. DOMAIN a = 1..Len(a) /\ Len(a) \in Nat /\ DOMAIN b = 1..Len(b) /\ Len(b) \in Nat
            BY <2>2 DEF a, b
        <3>2. DOMAIN a = 1..m /\ DOMAIN b = 1..n
            BY <2>3 DEF a, b
        <3>3. Len(a) = m /\ Len(b) = n
            BY <3>1, <3>2, SameInterval
        <3> QED  BY <3>3 DEF a, b
    <2>5. \A i \in 1..m : ParseJsonl(t)[i] = ParseJsonl(s)[i]
        <3> SUFFICES ASSUME NEW i \in 1..m PROVE ParseJsonl(t)[i] = ParseJsonl(s)[i]
            OBVIOUS
        <3>1. i \in DOMAIN s /\ i \in DOMAIN t /\ t[i] = s[i]
            BY <1>1
        <3> QED  BY <3>1 DEF ParseJsonl
    <2>6. Starts(ParseJsonl(s), ParseJsonl(t))
        BY <1>1, <2>4, <2>5 DEF Starts
    <2> QED  BY <2>1, <2>6
<1> QED  BY <1>2, <1>3, <1>4, <1>5 DEF TranscriptAgents

(* A generic export that is refused stays refused.                         *)
LEMMA RefusedStarts ==
    ASSUME NEW s \in Seq(Line), NEW t \in Seq(Line), Starts(s, t), NEW agent,
           TranscriptRefused(agent, s)
    PROVE  TranscriptRefused(agent, t)
<1>1. PICK m \in Nat, n \in Nat :
        /\ m <= n /\ DOMAIN s = 1..m /\ DOMAIN t = 1..n
        /\ \A i \in 1..m : t[i] = s[i]
    BY StartsParts
<1>2. \A i \in DOMAIN s : i \in DOMAIN t /\ t[i] = s[i]
    BY <1>1
<1> QED  BY <1>2 DEF TranscriptRefused, JsonlRefused

-----------------------------------------------------------------------------
(* OpenCode: what is pending is one message, told by its rows.             *)

(* OpenCode: what is pending is one message, told by its rows.             *)
RowsIn(lines) == { lines[j] : j \in DOMAIN lines }

OneRole(lines) ==
    \A i, j \in DOMAIN lines : lines[i].message = lines[j].message => lines[i].role = lines[j].role

ToldTexts(lines, i, role) == { t \in Seq(STRING) : Tells("opencode", lines, i, role, t) }

(* A message is pending: none, or one told by the rows with its id.        *)
Pends(lines, id, m) ==
    \/ m = NoMessage
    \/ \E i \in DOMAIN lines :
          /\ lines[i].message = id
          /\ lines[i].role \in {"user", "assistant"}
          /\ \E texts \in Seq(ToldTexts(lines, i, lines[i].role)),
                tools \in Seq(ToldTexts(lines, i, "tool")) :
                m = [open |-> TRUE, role |-> lines[i].role, session |-> lines[i].session,
                     time |-> TimeOf("opencode", lines[i]), texts |-> texts, tools |-> tools]

(* What the fold over the rows carries.                                    *)
Accumulates(lines, acc) ==
    \E id \in Nat, units \in Seq(DrawnUnits("opencode", lines)) : \E m :
        acc = [id |-> id, units |-> units, pending |-> m] /\ Pends(lines, id, m)

(* What was heard early enough was heard early enough for later.           *)
LEMMA HeardLater ==
    ASSUME NEW agent, NEW lines \in Seq(Line), NEW i, NEW role, NEW x, NEW p \in Int, NEW r \in Int,
           p <= r, Heard(agent, lines, i, role, x, p)
    PROVE  Heard(agent, lines, i, role, x, r)
<1>1. PICK j \in DOMAIN lines : \E c \in DOMAIN lines[j].blocks :
        \E q \in DOMAIN lines[j].blocks[c].text :
            /\ i = j \/ (agent = "opencode" /\ lines[i].message = lines[j].message)
            /\ Speaker(agent, lines[j], lines[j].blocks[c]) = role
            /\ q <= p
            /\ x = lines[j].blocks[c].text[q]
    BY DEF Heard
<1>2. PICK c \in DOMAIN lines[j].blocks : \E q \in DOMAIN lines[j].blocks[c].text :
            /\ i = j \/ (agent = "opencode" /\ lines[i].message = lines[j].message)
            /\ Speaker(agent, lines[j], lines[j].blocks[c]) = role
            /\ q <= p
            /\ x = lines[j].blocks[c].text[q]
    BY <1>1
<1>3. PICK q \in DOMAIN lines[j].blocks[c].text :
            /\ i = j \/ (agent = "opencode" /\ lines[i].message = lines[j].message)
            /\ Speaker(agent, lines[j], lines[j].blocks[c]) = role
            /\ q <= p
            /\ x = lines[j].blocks[c].text[q]
    BY <1>2
<1>4. lines[j] \in Line
    BY LinesOf
<1>5. lines[j].blocks[c].text \in Seq(STRING)
    BY <1>4, LineFields
<1>6. q \in Int
    BY <1>5
<1>7. q <= r
    BY <1>3, <1>6
<1> QED  BY <1>3, <1>7 DEF Heard

(* Texts told in one turn, joined.                                         *)
LEMMA ToldFlat ==
    ASSUME NEW lines \in Seq(Line), NEW i, NEW role, NEW texts \in Seq(ToldTexts(lines, i, role))
    PROVE  FlattenSeq(texts) \in Seq(STRING) /\ Tells("opencode", lines, i, role, FlattenSeq(texts))
<1> DEFINE W == ToldTexts(lines, i, role)
<1>1. \A t \in W : t \in Seq(STRING) /\ Tells("opencode", lines, i, role, t)
    BY DEF ToldTexts
<1>2. PICK n \in Nat : DOMAIN texts = 1..n
    OBVIOUS
<1>3. \A x \in DOMAIN texts : texts[x] \in W
    OBVIOUS
<1>4. texts = [x \in DOMAIN texts |-> texts[x]]
    OBVIOUS
<1> HIDE DEF W
<1>5. \A x \in DOMAIN texts : texts[x] \in Seq(STRING) /\ Tells("opencode", lines, i, role, texts[x])
    BY <1>1, <1>3
<1>6. texts \in Seq(Seq(STRING)) /\ FlattenSeq(texts) \in Seq(STRING)
    BY <1>2, <1>4, <1>5, FlattenMade
<1>7. ASSUME NEW p \in DOMAIN FlattenSeq(texts)
      PROVE  Heard("opencode", lines, i, role, FlattenSeq(texts)[p], p)
    <2>1. PICK x \in DOMAIN texts : \E k \in DOMAIN texts[x] :
                k <= p /\ FlattenSeq(texts)[p] = texts[x][k]
        BY <1>6, FlattenOrigin
    <2>2. PICK k \in DOMAIN texts[x] : k <= p /\ FlattenSeq(texts)[p] = texts[x][k]
        BY <2>1
    <2>3. Heard("opencode", lines, i, role, texts[x][k], k)
        BY <1>5 DEF Tells
    <2>4. k \in Int /\ p \in Int
        BY <1>5, <1>6
    <2> QED  BY <2>2, <2>3, <2>4, HeardLater
<1> QED  BY <1>6, <1>7 DEF Tells

(* The units of a pending message were told in its turn.                   *)
LEMMA FlushDrawn ==
    ASSUME NEW lines \in Seq(Line), NEW id, NEW m, Pends(lines, id, m)
    PROVE  Flush(m) \in Seq(DrawnUnits("opencode", lines))
<1> DEFINE S == DrawnUnits("opencode", lines)
<1>1. /\ DOMAIN lines = 1..Len(lines) /\ Len(lines) \in Nat
      /\ \A i \in DOMAIN lines : lines[i] \in Line
    BY LinesOf
<1>2. CASE m = NoMessage
    <2>1. m.texts = <<>> /\ m.tools = <<>> /\ DOMAIN m.tools = {}
        BY <1>2 DEF NoMessage
    <2>2. FlattenSeq(<<>>) = <<>>
        BY DEF FlattenSeq
    <2>3. [i \in DOMAIN m.tools |-> UnitOf("tool", m.tools[i], m.session, m.time)] = <<>>
        BY <2>1
    <2>4. Flush(m) = <<>> \o <<>>
        BY <2>1, <2>2, <2>3 DEF Flush, UnitOf
    <2>5. <<>> \o <<>> = <<>>
        OBVIOUS
    <2> QED  BY <2>4, <2>5, NoUnits
<1>3. CASE m # NoMessage
    <2>1. PICK i \in DOMAIN lines :
                /\ lines[i].message = id
                /\ lines[i].role \in {"user", "assistant"}
                /\ \E texts \in Seq(ToldTexts(lines, i, lines[i].role)),
                      tools \in Seq(ToldTexts(lines, i, "tool")) :
                      m = [open |-> TRUE, role |-> lines[i].role, session |-> lines[i].session,
                           time |-> TimeOf("opencode", lines[i]), texts |-> texts, tools |-> tools]
        BY <1>3 DEF Pends
    <2>2. PICK texts \in Seq(ToldTexts(lines, i, lines[i].role)),
               tools \in Seq(ToldTexts(lines, i, "tool")) :
               m = [open |-> TRUE, role |-> lines[i].role, session |-> lines[i].session,
                    time |-> TimeOf("opencode", lines[i]), texts |-> texts, tools |-> tools]
        BY <2>1
    <2> DEFINE said == UnitOf(lines[i].role, FlattenSeq(texts), lines[i].session, TimeOf("opencode", lines[i]))
               heard == [c \in DOMAIN tools |->
                            UnitOf("tool", tools[c], lines[i].session, TimeOf("opencode", lines[i]))]
    <2>3. Flush(m) = said \o FlattenSeq(heard)
        BY <2>2 DEF Flush
    <2>4. /\ lines[i] \in Line /\ lines[i].session \in STRING \cup {None}
          /\ lines[i].session = SessionAt("opencode", lines, i)
        BY <1>1, LineFields DEF SessionAt
    <2>5. lines[i].role \in Roles /\ "tool" \in Roles
        BY <2>1 DEF Roles
    <2>6. said \in Seq(S)
        <3>1. FlattenSeq(texts) \in Seq(STRING)
                /\ Tells("opencode", lines, i, lines[i].role, FlattenSeq(texts))
            BY ToldFlat
        <3> QED  BY <2>4, <2>5, <3>1, UnitDrawn
    <2>7. ASSUME NEW c \in DOMAIN tools PROVE heard[c] \in Seq(S)
        <3>1. tools[c] \in ToldTexts(lines, i, "tool")
            OBVIOUS
        <3>2. tools[c] \in Seq(STRING) /\ Tells("opencode", lines, i, "tool", tools[c])
            BY <3>1 DEF ToldTexts
        <3>3. UnitOf("tool", tools[c], lines[i].session, TimeOf("opencode", lines[i])) \in Seq(S)
            BY <2>4, <2>5, <3>2, UnitDrawn
        <3> HIDE DEF S
        <3> QED  BY <3>3
    <2>8. PICK n \in Nat : DOMAIN tools = 1..n
        OBVIOUS
    <2>9. DOMAIN heard = DOMAIN tools /\ heard = [c \in DOMAIN heard |-> heard[c]]
        OBVIOUS
    <2> HIDE DEF S, said, heard
    <2>10. FlattenSeq(heard) \in Seq(S)
        BY <2>7, <2>8, <2>9, FlattenMade
    <2>11. said \o FlattenSeq(heard) \in Seq(S)
        BY <2>6, <2>10, Concatenated
    <2> QED  BY <2>3, <2>11 DEF S
<1> QED  BY <1>2, <1>3

(* What a part adds to a message was told in the turn of its message.      *)
LEMMA PayloadTold ==
    ASSUME NEW lines \in Seq(Line), NEW i \in DOMAIN lines, NEW j \in DOMAIN lines,
           lines[i].message = lines[j].message, lines[j].role \in {"user", "assistant"}
    PROVE  /\ Payload(lines[j], "text") \in Seq(ToldTexts(lines, i, lines[j].role))
           /\ Payload(lines[j], "tool") \in Seq(ToldTexts(lines, i, "tool"))
<1> DEFINE row == lines[j]
           text == Joined(row.blocks, {"text"})
<1>1. row.blocks \in Seq(Block)
    BY LinesOf, LineFields
<1>2. text \in Seq(STRING)
    BY <1>1, JoinedType
<1>3. CASE row.type = "text" /\ ~row.aside
    <2>1. \A c \in DOMAIN row.blocks : Speaker("opencode", row, row.blocks[c]) = row.role
        BY <1>3 DEF Speaker
    <2>2. Tells("opencode", lines, i, row.role, text)
        BY <1>1, <2>1, JoinedTells
    <2>3. Payload(row, "text") = <<text>> /\ Payload(row, "tool") = <<>>
        BY <1>3 DEF Payload
    <2>4. text \in ToldTexts(lines, i, row.role)
        BY <1>2, <2>2 DEF ToldTexts
    <2> HIDE DEF text
    <2> QED  BY <2>3, <2>4, OneUnit, NoUnits
<1>4. CASE row.type = "tool"
    <2>1. \A c \in DOMAIN row.blocks : Speaker("opencode", row, row.blocks[c]) = "tool"
        BY <1>4 DEF Speaker
    <2>2. Tells("opencode", lines, i, "tool", text)
        BY <1>1, <2>1, JoinedTells
    <2>3. Payload(row, "tool") = <<text>> /\ Payload(row, "text") = <<>>
        BY <1>4 DEF Payload
    <2>4. text \in ToldTexts(lines, i, "tool")
        BY <1>2, <2>2 DEF ToldTexts
    <2> HIDE DEF text
    <2> QED  BY <2>3, <2>4, OneUnit, NoUnits
<1>5. CASE row.type # "tool" /\ ~(row.type = "text" /\ ~row.aside)
    <2>1. Payload(row, "tool") = <<>> /\ Payload(row, "text") = <<>>
        BY <1>5 DEF Payload
    <2> QED  BY <2>1, NoUnits
<1> QED  BY <1>3, <1>4, <1>5

(* A part adds to its message; a header begins one.                        *)
LEMMA PartPends ==
    ASSUME NEW lines \in Seq(Line), OneRole(lines), NEW j \in DOMAIN lines, NEW m,
           Pends(lines, lines[j].message, m)
    PROVE  Pends(lines, lines[j].message, WithPart(m, lines[j]))
<1>1. CASE m = NoMessage
    <2>1. WithPart(m, lines[j]) = m
        BY <1>1 DEF WithPart, NoMessage
    <2> QED  BY <2>1
<1>2. CASE m # NoMessage
    <2>1. PICK i \in DOMAIN lines :
                /\ lines[i].message = lines[j].message
                /\ lines[i].role \in {"user", "assistant"}
                /\ \E texts \in Seq(ToldTexts(lines, i, lines[i].role)),
                      tools \in Seq(ToldTexts(lines, i, "tool")) :
                      m = [open |-> TRUE, role |-> lines[i].role, session |-> lines[i].session,
                           time |-> TimeOf("opencode", lines[i]), texts |-> texts, tools |-> tools]
        BY <1>2 DEF Pends
    <2>2. PICK texts \in Seq(ToldTexts(lines, i, lines[i].role)),
               tools \in Seq(ToldTexts(lines, i, "tool")) :
               m = [open |-> TRUE, role |-> lines[i].role, session |-> lines[i].session,
                    time |-> TimeOf("opencode", lines[i]), texts |-> texts, tools |-> tools]
        BY <2>1
    <2>3. lines[j].role = lines[i].role
        BY <2>1 DEF OneRole
    <2> DEFINE more == Payload(lines[j], "text")
               rest == Payload(lines[j], "tool")
    <2>4. /\ more \in Seq(ToldTexts(lines, i, lines[i].role))
          /\ rest \in Seq(ToldTexts(lines, i, "tool"))
        BY <2>1, <2>3, PayloadTold
    <2>5. WithPart(m, lines[j])
            = [open |-> TRUE, role |-> lines[i].role, session |-> lines[i].session,
               time |-> TimeOf("opencode", lines[i]), texts |-> texts \o more, tools |-> tools \o rest]
        BY <2>2 DEF WithPart
    <2> HIDE DEF more, rest
    <2>6. /\ texts \o more \in Seq(ToldTexts(lines, i, lines[i].role))
          /\ tools \o rest \in Seq(ToldTexts(lines, i, "tool"))
        BY <2>4, Concatenated
    <2> QED  BY <2>1, <2>5, <2>6 DEF Pends
<1> QED  BY <1>1, <1>2

LEMMA HeaderPends ==
    ASSUME NEW lines \in Seq(Line), NEW j \in DOMAIN lines
    PROVE  Pends(lines, lines[j].message, FromData(lines[j]))
<1>1. CASE lines[j].role \in {"user", "assistant"} /\ lines[j].session # None
    <2>1. FromData(lines[j])
            = [open |-> TRUE, role |-> lines[j].role, session |-> lines[j].session,
               time |-> TimeOf("opencode", lines[j]), texts |-> <<>>, tools |-> <<>>]
        BY <1>1 DEF FromData, NoMessage
    <2>2. \A S : <<>> \in Seq(S)
        OBVIOUS
    <2> QED  BY <1>1, <2>1, <2>2 DEF Pends
<1>2. CASE ~(lines[j].role \in {"user", "assistant"} /\ lines[j].session # None)
    <2>1. FromData(lines[j]) = NoMessage
        BY <1>2 DEF FromData
    <2> QED  BY <2>1 DEF Pends
<1> QED  BY <1>1, <1>2

(* One row: what is carried stays told.                                    *)
LEMMA AccumulatesOne ==
    ASSUME NEW lines, NEW id \in Nat, NEW units \in Seq(DrawnUnits("opencode", lines)), NEW m,
           Pends(lines, id, m)
    PROVE  Accumulates(lines, [id |-> id, units |-> units, pending |-> m])
BY DEF Accumulates

LEMMA AccumulateStep ==
    ASSUME NEW lines \in Seq(Line), OneRole(lines), NEW acc, Accumulates(lines, acc),
           NEW j \in DOMAIN lines
    PROVE  Accumulates(lines, Accumulate(acc, lines[j]))
<1> DEFINE row == lines[j]
           U == Seq(DrawnUnits("opencode", lines))
<1>1. PICK id \in Nat, units \in U : \E m :
            acc = [id |-> id, units |-> units, pending |-> m] /\ Pends(lines, id, m)
    BY DEF Accumulates
<1>2. PICK m :
           acc = [id |-> id, units |-> units, pending |-> m] /\ Pends(lines, id, m)
    BY <1>1
<1>3. acc.id = id /\ acc.units = units /\ acc.pending = m
    BY <1>2
<1>4. CASE row.message = id
    <2>1. Accumulate(acc, row) = [id |-> id, units |-> units, pending |-> WithPart(m, row)]
        BY <1>2, <1>3, <1>4 DEF Accumulate
    <2>2. Pends(lines, id, WithPart(m, row))
        BY <1>2, <1>4, PartPends
    <2> QED  BY <1>2, <2>1, <2>2, AccumulatesOne
<1>5. CASE row.message # id
    <2>1. Accumulate(acc, row) = [id |-> row.message, units |-> units \o Flush(m),
                                  pending |-> WithPart(FromData(row), row)]
        BY <1>3, <1>5 DEF Accumulate
    <2>2. Pends(lines, row.message, WithPart(FromData(row), row))
        BY HeaderPends, PartPends
    <2>3. Flush(m) \in U
        BY <1>2, FlushDrawn
    <2>4. units \o Flush(m) \in U
        BY <1>2, <2>3, Concatenated
    <2>5. row.message \in Nat
        BY LinesOf, LineFields
    <2> QED  BY <2>1, <2>2, <2>4, <2>5, AccumulatesOne
<1> QED  BY <1>4, <1>5

(* A fold stays in a set its steps stay in.                                *)
LEMMA Folding ==
    ASSUME NEW D, NEW base \in D, NEW n \in Nat, NEW rows, DOMAIN rows = 1..n,
           \A d \in D, i \in 1..n : Accumulate(d, rows[i]) \in D
    PROVE  FoldLeft(Accumulate, base, rows) \in D
<1> DEFINE Value(f, s) == IF s = {} THEN base ELSE Accumulate(f[s \ {Max(s)}], rows[Max(s)])
           Iterates(f, m) == f \in [SUBSET (1..m) -> D] /\ \A s \in SUBSET (1..m) : f[s] = Value(f, s)
           Some(m) == \E f : Iterates(f, m)
           T == { m \in Nat : m <= n => Some(m) }
<1>1. \A m \in Nat : \A s \in SUBSET (1..m) : s # {} =>
            Max(s) \in s /\ Max(s) \in 1..m /\ \A y \in s : Max(s) >= y
    BY LargestIn
<1>2. 0 \in T
    <2> DEFINE f == [s \in SUBSET (1..0) |-> base]
    <2>1. \A s \in SUBSET (1..0) : s = {}
        OBVIOUS
    <2>2. f \in [SUBSET (1..0) -> D]
        OBVIOUS
    <2>3. \A s \in SUBSET (1..0) : f[s] = Value(f, s)
        BY <2>1
    <2> HIDE DEF f, Value
    <2>4. Iterates(f, 0)
        BY <2>2, <2>3
    <2> QED  BY <2>4
<1>3. ASSUME NEW m \in T PROVE m + 1 \in T
    <2> HIDE DEF Some
    <2>1. SUFFICES ASSUME m + 1 <= n PROVE Some(m + 1)
        OBVIOUS
    <2>2. m \in Nat /\ m <= n /\ m + 1 \in Nat /\ m + 1 \in 1..n
        BY <2>1
    <2>3. Some(m)
        BY <2>2
    <2>4. PICK f : Iterates(f, m)
        BY <2>3 DEF Some
    <2> DEFINE h == [s \in SUBSET (1..(m + 1)) |->
                        IF m + 1 \in s THEN Accumulate(f[s \ {m + 1}], rows[m + 1]) ELSE f[s]]
    <2>5. ASSUME NEW s \in SUBSET (1..(m + 1))
          PROVE  h[s] \in D /\ h[s] = Value(h, s)
        <3>1. \A y \in 1..(m + 1) : y # m + 1 => y \in 1..m
            BY <2>2
        <3>2. CASE m + 1 \in s
            <4>1. Max(s) = m + 1
                <5>1. Max(s) \in 1..(m + 1) /\ Max(s) >= m + 1
                    BY <1>1, <2>2, <3>2
                <5> QED  BY <2>2, <5>1
            <4>2. s \ {m + 1} \in SUBSET (1..m) /\ s \ {m + 1} \in SUBSET (1..(m + 1))
                BY <3>1
            <4>3. h[s \ {m + 1}] = f[s \ {m + 1}]
                BY <4>2
            <4>4. h[s] = Accumulate(f[s \ {m + 1}], rows[m + 1])
                BY <3>2
            <4>5. f[s \ {m + 1}] \in D
                BY <2>4, <4>2
            <4>6. h[s] \in D
                BY <2>2, <4>4, <4>5
            <4> HIDE DEF h
            <4> QED  BY <3>2, <4>1, <4>3, <4>4, <4>6
        <3>3. CASE m + 1 \notin s
            <4>1. s \in SUBSET (1..m)
                BY <3>1, <3>3
            <4>2. h[s] = f[s]
                BY <3>3
            <4>3. f[s] \in D /\ f[s] = Value(f, s)
                BY <2>4, <4>1
            <4>4. s # {} => h[s \ {Max(s)}] = f[s \ {Max(s)}]
                <5>1. s \ {Max(s)} \in SUBSET (1..(m + 1)) /\ m + 1 \notin s \ {Max(s)}
                    BY <3>3
                <5> QED  BY <5>1
            <4> HIDE DEF h
            <4>5. Value(h, s) = Value(f, s)
                BY <4>4
            <4> HIDE DEF Value
            <4> QED  BY <4>2, <4>3, <4>5
        <3> QED  BY <3>2, <3>3
    <2>6. h = [s \in SUBSET (1..(m + 1)) |-> h[s]]
        OBVIOUS
    <2> HIDE DEF h, Value
    <2>7. h \in [SUBSET (1..(m + 1)) -> D]
        BY <2>5, <2>6
    <2>8. Iterates(h, m + 1)
        BY <2>5, <2>7
    <2> HIDE DEF Iterates
    <2> QED  BY <2>8 DEF Some
<1>4. T = Nat
    <2> HIDE DEF T
    <2>1. T \subseteq Nat
        BY DEF T
    <2> QED  BY <1>2, <1>3, <2>1, Counting
<1>5. Some(n)
    <2> HIDE DEF Some
    <2>1. n <= n
        OBVIOUS
    <2> QED  BY <1>4, <2>1
<1>6. PICK f : Iterates(f, n)
    BY <1>5
<1> DEFINE Folds(g) == g = [s \in SUBSET (1..n) |->
                IF s = {} THEN base ELSE Accumulate(g[s \ {Max(s)}], rows[Max(s)])]
           f0 == CHOOSE g : Folds(g)
<1>7. Folds(f)
    <2>1. f = [s \in SUBSET (1..n) |-> f[s]] /\ \A s \in SUBSET (1..n) : f[s] = Value(f, s)
        BY <1>6
    <2> QED  BY <2>1
<1>8. Folds(f0)
    BY <1>7
<1>9. FoldLeft(Accumulate, base, rows) = f0[1..n]
    BY DEF FoldLeft, MapThenFoldSet
<1> HIDE DEF f0
<1> DEFINE V == { m \in Nat : m <= n => \A s \in SUBSET (1..m) : f0[s] \in D }
<1>10. \A s \in SUBSET (1..n) : f0[s] = Value(f0, s)
    BY <1>8
<1>11. 0 \in V
    <2>1. \A s \in SUBSET (1..0) : s = {} /\ s \in SUBSET (1..n)
        OBVIOUS
    <2>2. \A s \in SUBSET (1..0) : f0[s] = base
        BY <1>10, <2>1
    <2> QED  BY <2>2
<1>12. ASSUME NEW m \in V PROVE m + 1 \in V
    <2>1. SUFFICES ASSUME m + 1 <= n, NEW s \in SUBSET (1..(m + 1)) PROVE f0[s] \in D
        OBVIOUS
    <2>2. m \in Nat /\ m <= n /\ m + 1 \in Nat /\ \A t \in SUBSET (1..m) : f0[t] \in D
        BY <2>1
    <2>3. \A y \in 1..(m + 1) : y \in 1..n
        BY <2>1, <2>2
    <2>4. s \in SUBSET (1..n)
        BY <2>3
    <2>5. f0[s] = Value(f0, s)
        BY <1>10, <2>4
    <2>6. CASE s = {}
        BY <2>5, <2>6
    <2>7. CASE s # {}
        <3>1. Max(s) \in s /\ Max(s) \in 1..(m + 1) /\ \A y \in s : Max(s) >= y
            BY <1>1, <2>2, <2>7
        <3>2. s \ {Max(s)} \in SUBSET (1..m)
            <4>1. \A y \in s : y # Max(s) => y \in 1..m
                BY <2>2, <3>1
            <4> QED  BY <4>1
        <3>3. f0[s \ {Max(s)}] \in D
            BY <2>2, <3>2
        <3>4. Max(s) \in 1..n
            BY <2>4, <3>1
        <3>5. f0[s] = Accumulate(f0[s \ {Max(s)}], rows[Max(s)])
            BY <2>5, <2>7
        <3> QED  BY <3>3, <3>4, <3>5
    <2> QED  BY <2>6, <2>7
<1>13. V = Nat
    <2> HIDE DEF V
    <2>1. V \subseteq Nat
        BY DEF V
    <2> QED  BY <1>11, <1>12, <2>1, Counting
<1>14. f0[1..n] \in D
    BY <1>13
<1> QED  BY <1>9, <1>14

(* The rows in the order of their messages are rows.                       *)
LEMMA ByMessageRows ==
    ASSUME NEW rows \in Seq(Line)
    PROVE  ByMessage(rows) \in Seq(RowsIn(rows))
<1> DEFINE R == RowsIn(rows)
           Of(id) == [j \in DOMAIN rows |-> IF rows[j].message = id THEN <<rows[j]>> ELSE <<>>]
           Id(i) == SetToSortSeq(Messages(rows), <)[i]
           all == [i \in 1..Cardinality(Messages(rows)) |-> FlattenSeq(Of(Id(i)))]
<1>1. DOMAIN rows = 1..Len(rows) /\ Len(rows) \in Nat
    BY LinesOf
<1>2. ASSUME NEW id PROVE FlattenSeq(Of(id)) \in Seq(R)
    <2>1. \A j \in DOMAIN rows : rows[j] \in R
        BY DEF RowsIn
    <2> HIDE DEF R
    <2>2. ASSUME NEW j \in DOMAIN rows PROVE Of(id)[j] \in Seq(R)
        <3>1. <<rows[j]>> \in Seq(R) /\ <<>> \in Seq(R)
            BY <2>1, OneUnit, NoUnits
        <3> QED  BY <3>1
    <2>3. DOMAIN Of(id) = DOMAIN rows /\ Of(id) = [j \in DOMAIN Of(id) |-> Of(id)[j]]
        OBVIOUS
    <2> HIDE DEF Of
    <2> QED  BY <1>1, <2>2, <2>3, FlattenMade
<1>3. Cardinality(Messages(rows)) \in Nat
    <2> DEFINE I == DOMAIN rows
               M == { rows[i].message : i \in I }
    <2>1. IsFiniteSet(I)
        BY <1>1, FS_Interval
    <2> HIDE DEF I
    <2> DEFINE g == [i \in I |-> rows[i].message]
    <2>2. g \in Surjection(I, M)
        BY DEF Surjection
    <2>3. IsFiniteSet(M)
        BY <2>1, <2>2, FS_Surjection
    <2>4. Messages(rows) = M
        BY DEF Messages, I
    <2> HIDE DEF M
    <2> QED  BY <2>3, <2>4, FS_CardinalityType
<1>4. DOMAIN all = 1..Cardinality(Messages(rows)) /\ all = [i \in DOMAIN all |-> all[i]]
    OBVIOUS
<1>5. ByMessage(rows) = FlattenSeq(all)
    BY DEF ByMessage
<1> HIDE DEF R, Of, Id
<1>6. \A i \in DOMAIN all : all[i] \in Seq(R)
    BY <1>2
<1> HIDE DEF all
<1>7. FlattenSeq(all) \in Seq(R)
    BY <1>3, <1>4, <1>6, FlattenMade
<1> QED  BY <1>5, <1>7 DEF R

(* Every message that may be pending.                                      *)
TextLists == Seq(Seq(STRING))

PendingOf(row, texts, tools) ==
    [open |-> TRUE, role |-> row.role, session |-> row.session, time |-> TimeOf("opencode", row),
     texts |-> texts, tools |-> tools]

Pendings(lines) ==
    {NoMessage} \cup
    { PendingOf(lines[i], texts, tools) :
            i \in DOMAIN lines, texts \in TextLists, tools \in TextLists }

(* A message that is pending is one of a set, over which to fold.          *)
LEMMA PendingIn ==
    ASSUME NEW lines, NEW id, NEW m, Pends(lines, id, m)
    PROVE  m \in Pendings(lines)
<1>1. CASE m = NoMessage
    BY <1>1 DEF Pendings
<1>2. CASE m # NoMessage
    <2>1. PICK i \in DOMAIN lines :
                \E texts \in Seq(ToldTexts(lines, i, lines[i].role)),
                   tools \in Seq(ToldTexts(lines, i, "tool")) :
                   m = [open |-> TRUE, role |-> lines[i].role, session |-> lines[i].session,
                        time |-> TimeOf("opencode", lines[i]), texts |-> texts, tools |-> tools]
        BY <1>2 DEF Pends
    <2>2. PICK texts \in Seq(ToldTexts(lines, i, lines[i].role)),
               tools \in Seq(ToldTexts(lines, i, "tool")) :
               m = [open |-> TRUE, role |-> lines[i].role, session |-> lines[i].session,
                    time |-> TimeOf("opencode", lines[i]), texts |-> texts, tools |-> tools]
        BY <2>1
    <2>3. \A role : ToldTexts(lines, i, role) \subseteq Seq(STRING)
        BY DEF ToldTexts
    <2> DEFINE Q == Seq(STRING)
               A == ToldTexts(lines, i, lines[i].role)
               B == ToldTexts(lines, i, "tool")
    <2> HIDE DEF Q, A, B
    <2>4. A \subseteq Q /\ B \subseteq Q /\ texts \in Seq(A) /\ tools \in Seq(B)
        BY <2>3 DEF Q, A, B
    <2>5. texts \in Seq(Q) /\ tools \in Seq(Q)
        BY <2>4, WiderSeq
    <2>6. texts \in TextLists /\ tools \in TextLists
        BY <2>5 DEF Q, TextLists
    <2>7. m = PendingOf(lines[i], texts, tools)
        BY <2>2 DEF PendingOf
    <2> QED  BY <2>6, <2>7, SMT DEF Pendings
<1> QED  BY <1>1, <1>2

(* OpenCode: each unit was told by the rows of its message.                *)
LEMMA OpencodeDrawn ==
    ASSUME NEW lines \in Seq(Line), OneRole(lines)
    PROVE  ParseOpencode(lines) \in Seq(DrawnUnits("opencode", lines))
<1> DEFINE U == Seq(DrawnUnits("opencode", lines))
           D == { acc \in [id : Nat, units : U, pending : Pendings(lines)] : Accumulates(lines, acc) }
           base == [id |-> 0, units |-> <<>>, pending |-> NoMessage]
           rows == ByMessage(lines)
           end == FoldLeft(Accumulate, base, rows)
<1>1. \A acc : Accumulates(lines, acc) => acc \in D
    <2> SUFFICES ASSUME NEW acc, Accumulates(lines, acc) PROVE acc \in D
        OBVIOUS
    <2>1. PICK id \in Nat, units \in U : \E m :
                acc = [id |-> id, units |-> units, pending |-> m] /\ Pends(lines, id, m)
        BY DEF Accumulates
    <2>2. PICK m :
               acc = [id |-> id, units |-> units, pending |-> m] /\ Pends(lines, id, m)
        BY <2>1
    <2>3. m \in Pendings(lines)
        BY <2>2, PendingIn
    <2> HIDE DEF U
    <2>4. acc \in [id : Nat, units : U, pending : Pendings(lines)]
        BY <2>2, <2>3
    <2> QED  BY <2>4
<1>2. \A acc \in D : Accumulates(lines, acc)
    OBVIOUS
<1> HIDE DEF D
<1>3. base \in D
    <2>1. Pends(lines, 0, NoMessage) /\ 0 \in Nat
        BY DEF Pends
    <2>2. <<>> \in U
        BY NoUnits
    <2>3. Accumulates(lines, base)
        BY <2>1, <2>2, AccumulatesOne
    <2> HIDE DEF base
    <2> QED  BY <1>1, <2>3
<1>4. rows \in Seq(RowsIn(lines))
    BY ByMessageRows
<1>5. PICK n \in Nat : DOMAIN rows = 1..n /\ \A i \in 1..n : rows[i] \in RowsIn(lines)
    <2> HIDE DEF rows
    <2> QED  BY <1>4
<1>6. ASSUME NEW d \in D, NEW i \in 1..n PROVE Accumulate(d, rows[i]) \in D
    <2>1. PICK j \in DOMAIN lines : rows[i] = lines[j]
        BY <1>5 DEF RowsIn
    <2>2. Accumulates(lines, Accumulate(d, lines[j]))
        BY <1>2, AccumulateStep
    <2> QED  BY <1>1, <2>1, <2>2
<1>7. ParseOpencode(lines) = end.units \o Flush(end.pending)
    BY DEF ParseOpencode, AccumulateOpencode
<1> HIDE DEF base, rows
<1>8. end \in D
    BY <1>3, <1>5, <1>6, Folding
<1> HIDE DEF end
<1>9. Accumulates(lines, end)
    BY <1>2, <1>8
<1>10. PICK id \in Nat, units \in U : \E m :
            end = [id |-> id, units |-> units, pending |-> m] /\ Pends(lines, id, m)
    BY <1>9 DEF Accumulates
<1>11. PICK m :
           end = [id |-> id, units |-> units, pending |-> m] /\ Pends(lines, id, m)
    BY <1>10
<1>12. end.units = units /\ end.pending = m
    BY <1>11
<1>13. Flush(m) \in U
    BY <1>11, FlushDrawn
<1>14. units \o Flush(m) \in U
    BY <1>13, Concatenated
<1> QED  BY <1>7, <1>12, <1>14

(* Whatever is read of a file, each unit of it was told there.             *)
LEMMA ParseDrawn ==
    ASSUME NEW agent \in TranscriptAgents, NEW lines \in Seq(Line),
           agent = "opencode" => OneRole(lines)
    PROVE  Parse(agent, lines) \in Seq(DrawnUnits(agent, lines))
<1>1. CASE agent = "claude"
    BY <1>1, ClaudeDrawn DEF Parse
<1>2. CASE agent = "codex"
    BY <1>2, CodexDrawn DEF Parse
<1>3. CASE agent = "opencode"
    BY <1>3, OpencodeDrawn DEF Parse
<1>4. CASE agent = "hermes"
    BY <1>4, HermesDrawn DEF Parse
<1>5. CASE agent = "jsonl"
    BY <1>5, JsonlDrawn DEF Parse
<1> QED  BY <1>1, <1>2, <1>3, <1>4, <1>5 DEF TranscriptAgents

-----------------------------------------------------------------------------
(* Events and turns.                                                       *)

(* An event is a turn of a file of which n lines are written.              *)
IsTurn(h, f, n, e) ==
    \E i \in 1..n :
        LET line == Told[h][f][i]
            turn == UNION { Told[h][f][j].said : j \in line.turn \cap 1..n }
        IN  /\ e.session = line.session
            /\ e.time = line.time
            /\ Pieces(e.text) \subseteq UNION { s[2] : s \in { t \in turn : t[1] = e.role } }

(* What is told at a line.                                                 *)
LEMMA ToldAt ==
    ASSUME NEW h \in DOMAIN Histories, NEW f \in DOMAIN Histories[h].files,
           NEW i \in DOMAIN Histories[h].files[f]
    PROVE  Told[h][f][i] = ToldLine(Histories[h].agent, Histories[h].files[f], i)
BY DEF Told

(* Redaction goes piece by piece.                                          *)
LEMMA RedactedPieces ==
    ASSUME NEW text \in Seq(STRING)
    PROVE  /\ Redacted(text) \in Seq(STRING \cup {"REDACTED"})
           /\ DOMAIN Redacted(text) = DOMAIN text
           /\ \A q \in DOMAIN text :
                Redacted(text)[q] = IF text[q] \in Secrets THEN "REDACTED" ELSE text[q]
<1> DEFINE r == Redacted(text)
<1>1. /\ DOMAIN r = DOMAIN text /\ r = [q \in DOMAIN r |-> r[q]]
      /\ \A q \in DOMAIN text : r[q] = IF text[q] \in Secrets THEN "REDACTED" ELSE text[q]
    BY DEF Redacted
<1>2. PICK n \in Nat : DOMAIN text = 1..n
    OBVIOUS
<1> HIDE DEF r
<1>3. \A q \in DOMAIN r : r[q] \in STRING \cup {"REDACTED"}
    BY <1>1
<1>4. r \in Seq(STRING \cup {"REDACTED"})
    BY <1>1, <1>2, <1>3, MadeSeq
<1> QED  BY <1>1, <1>4 DEF r

(* A piece within the length of a text is kept when it is cut short.       *)
LEMMA PieceKept ==
    ASSUME NEW text \in Seq(STRING), NEW q \in DOMAIN text, q <= TextCap,
           Redacted(text)[q] # "..."
    PROVE  Redacted(text)[q] \in Pieces(Truncated(Redacted(text)))
<1> DEFINE r == Redacted(text)
           W == STRING \cup {"REDACTED", "..."}
<1>1. r \in Seq(STRING \cup {"REDACTED"}) /\ DOMAIN r = DOMAIN text
    BY RedactedPieces
<1>2. STRING \cup {"REDACTED"} \subseteq W /\ "..." \in W
    OBVIOUS
<1> HIDE DEF r, W
<1>3. r \in Seq(W)
    BY <1>1, <1>2, WiderSeq
<1>4. q \in 1..Len(r) /\ q \in DOMAIN r /\ TextCap \in Nat
    BY <1>1, <1>3, TextCapAssumption
<1>5. CASE Len(r) > TextCap
    <2> DEFINE s == SubSeq(r, 1, TextCap)
    <2>1. s \in Seq(W) /\ Len(s) = TextCap /\ \A i \in 1..TextCap : s[i] = r[i]
        BY <1>3, <1>4, <1>5
    <2>2. Truncated(r) = Append(s, "...")
        BY <1>5 DEF Truncated
    <2> HIDE DEF s
    <2>3. q \in 1..TextCap /\ q \in 1..(TextCap + 1)
        BY <1>4
    <2>4. q \in DOMAIN Append(s, "...") /\ Append(s, "...")[q] = r[q]
        BY <1>2, <2>1, <2>3, Appending
    <2> QED  BY <2>2, <2>4 DEF Pieces, r
<1>6. CASE ~(Len(r) > TextCap)
    <2>1. Truncated(r) = r
        BY <1>6 DEF Truncated
    <2> QED  BY <1>4, <2>1 DEF Pieces, r
<1> QED  BY <1>5, <1>6

(* The lines of a file written so far.                                     *)
LEMMA WrittenLines ==
    ASSUME NEW file \in Seq(Line), NEW n \in 0..Len(file)
    PROVE  /\ SubSeq(file, 1, n) \in Seq(Line)
           /\ DOMAIN SubSeq(file, 1, n) = 1..n /\ n \in Nat
           /\ \A i \in 1..n : SubSeq(file, 1, n)[i] = file[i] /\ i \in DOMAIN file
OBVIOUS

(* A piece as it is stored.                                                *)
StoredPiece(y) == IF y \in Secrets THEN "REDACTED" ELSE y

ToldTo(h, f, n, i, role, x) ==
    \E j \in Told[h][f][i].turn \cap 1..n : \E s \in Told[h][f][j].said : s[1] = role /\ x \in s[2]

(* A piece of a unit was told in the turn of its line.                     *)
LEMMA PieceTold ==
    ASSUME NEW h \in DOMAIN Histories, NEW f \in DOMAIN Histories[h].files,
           NEW n \in 0..Len(Histories[h].files[f]), NEW i \in 1..n, NEW role, NEW y, NEW p \in Nat,
           Heard(Histories[h].agent, SubSeq(Histories[h].files[f], 1, n), i, role, y, p),
           Histories[h].agent = "jsonl" \/ p <= TextCap,
           StoredPiece(y) # "..."
    PROVE  ToldTo(h, f, n, i, role, StoredPiece(y))
<1> DEFINE x == StoredPiece(y)
           file == Histories[h].files[f]
           agent == Histories[h].agent
           w == SubSeq(file, 1, n)
<1>1. file \in Seq(Line)
    BY ImportHistoriesAssumption
<1>2. /\ DOMAIN w = 1..n /\ n \in Nat
      /\ \A j \in 1..n : w[j] = file[j] /\ j \in DOMAIN file
    BY <1>1, WrittenLines
<1> HIDE DEF file, w, agent, x
<1>3. Heard(agent, w, i, role, y, p) /\ (agent = "jsonl" \/ p <= TextCap)
    BY DEF agent, w, file
<1> DEFINE At(j, c, q) == /\ i = j \/ (agent = "opencode" /\ w[i].message = w[j].message)
                          /\ Speaker(agent, w[j], w[j].blocks[c]) = role
                          /\ q <= p
                          /\ y = w[j].blocks[c].text[q]
<1>4. PICK j \in DOMAIN w :
            \E c \in DOMAIN w[j].blocks : \E q \in DOMAIN w[j].blocks[c].text : At(j, c, q)
    BY <1>3, Zenon DEF Heard
<1>5. PICK c \in DOMAIN w[j].blocks : \E q \in DOMAIN w[j].blocks[c].text : At(j, c, q)
    BY <1>4, Zenon
<1>6. PICK q \in DOMAIN w[j].blocks[c].text : At(j, c, q)
    BY <1>5, Zenon
<1>7. j \in 1..n /\ w[j] = file[j] /\ w[i] = file[i] /\ j \in DOMAIN file /\ i \in DOMAIN file
    BY <1>2
<1> DEFINE b == file[j].blocks[c]
<1>8. /\ c \in DOMAIN file[j].blocks /\ q \in DOMAIN b.text /\ y = b.text[q]
      /\ Speaker(agent, file[j], b) = role
      /\ i = j \/ (agent = "opencode" /\ file[i].message = file[j].message)
    BY <1>6, <1>7
<1>9. /\ Told[h][f][i] = ToldLine(agent, file, i)
      /\ Told[h][f][j] = ToldLine(agent, file, j)
    BY <1>7, ToldAt DEF agent, file
<1>10. j \in Told[h][f][i].turn \cap 1..n
    BY <1>7, <1>8, <1>9 DEF ToldLine
<1>11. file[j] \in Line
    BY <1>1, <1>7
<1>12. b.text \in Seq(STRING) /\ file[j].blocks \in Seq(Block)
    BY <1>8, <1>11, LineFields
<1> DEFINE t == IF agent = "jsonl" THEN Redacted(b.text) ELSE Truncated(Redacted(b.text))
           s == <<Speaker(agent, file[j], b), Pieces(t)>>
<1>13. b \in ToSet(file[j].blocks)
    BY <1>8 DEF ToSet
<1>14. s \in Told[h][f][j].said
    <2> HIDE DEF b
    <2> QED  BY <1>9, <1>13 DEF ToldLine
<1>15. q \in Nat /\ p \in Nat /\ q <= p /\ TextCap \in Nat
    BY <1>6, <1>8, <1>12, TextCapAssumption
<1> HIDE DEF b
<1>16. Redacted(b.text)[q] = x /\ q \in DOMAIN Redacted(b.text)
    <2>1. Redacted(b.text)[q] = IF b.text[q] \in Secrets THEN "REDACTED" ELSE b.text[q]
        BY <1>8, <1>12, RedactedPieces
    <2>2. q \in DOMAIN Redacted(b.text)
        BY <1>8, <1>12, RedactedPieces
    <2> QED  BY <1>8, <2>1, <2>2 DEF x, StoredPiece
<1>17. x # "..."
    BY DEF x
<1>18. x \in Pieces(t)
    <2>1. CASE agent = "jsonl"
        <3>1. t = Redacted(b.text)
            BY <2>1
        <3> QED  BY <1>16, <1>17, <3>1 DEF Pieces
    <2>2. CASE agent # "jsonl"
        <3>1. q <= TextCap
            BY <1>3, <1>15, <2>2
        <3>2. x \in Pieces(Truncated(Redacted(b.text)))
            BY <1>8, <1>12, <1>16, <1>17, <3>1, PieceKept
        <3> QED  BY <2>2, <3>2
    <2> QED  BY <2>1, <2>2
<1> HIDE DEF t
<1>19. s[1] = role /\ x \in s[2]
    BY <1>8, <1>18
<1> QED  BY <1>10, <1>14, <1>19 DEF x, ToldTo

(* A unit drawn from the lines written so far is stored as a turn of them. *)
LEMMA DrawnIsTurn ==
    ASSUME NEW h \in DOMAIN Histories, NEW f \in DOMAIN Histories[h].files,
           NEW n \in 0..Len(Histories[h].files[f]), NEW u,
           Drawn(Histories[h].agent, SubSeq(Histories[h].files[f], 1, n), u),
           u.text \in Seq(Word)
    PROVE  IsTurn(h, f, n, EventOf(u))
<1> DEFINE file == Histories[h].files[f]
           agent == Histories[h].agent
           w == SubSeq(file, 1, n)
           e == EventOf(u)
<1>0. agent \in TranscriptAgents
    BY ImportHistoriesAssumption
<1>1. file \in Seq(Line)
    BY ImportHistoriesAssumption
<1>2. /\ DOMAIN w = 1..n /\ n \in Nat /\ w \in Seq(Line)
      /\ \A j \in 1..n : w[j] = file[j] /\ j \in DOMAIN file
    BY <1>1, WrittenLines
<1>3. Drawn(agent, w, u)
    OBVIOUS
<1> HIDE DEF file, w, agent
<1>4. PICK i \in DOMAIN w :
        /\ u.session = SessionAt(agent, w, i)
        /\ u.time = TimeOf(agent, w[i])
        /\ \A k \in DOMAIN u.text :
              \/ u.text[k] = "..."
              \/ /\ agent = "jsonl" \/ k <= TextCap
                 /\ Heard(agent, w, i, u.role, u.text[k], k)
    BY <1>3, Zenon DEF Drawn
<1>5. i \in 1..n /\ w[i] = file[i] /\ i \in DOMAIN file
    BY <1>2
<1>6. Told[h][f][i] = ToldLine(agent, file, i)
    BY <1>5, ToldAt DEF agent, file
<1>7. /\ e.session = u.session /\ e.role = u.role /\ e.text = Redacted(u.text)
      /\ e.time = IF u.time = <<>> THEN <<Now>> ELSE u.time
    BY DEF EventOf
<1> HIDE DEF e
<1>8. e.session = Told[h][f][i].session
    <2>1. SessionAt(agent, w, i) = SessionAt(agent, file, i)
        <3>1. \A j \in 1..n : file[j] = w[j]
            BY <1>2
        <3> QED  BY <1>2, <1>5, <3>1, SessionAtStart
    <2> QED  BY <1>4, <1>6, <1>7, <2>1 DEF ToldLine
<1>9. e.time = Told[h][f][i].time
    <2>1. file[i] \in Line
        BY <1>1, <1>5
    <2>2. file[i].at \in Seq(Int)
        BY <2>1, LineFields
    <2>3. (IF TimeOf(agent, file[i]) = <<>> THEN <<Now>> ELSE TimeOf(agent, file[i])) = <<InstantOf(agent, file[i].at)>>
        BY <1>0, <2>2, Dated
    <2>4. e.time = <<InstantOf(agent, file[i].at)>>
        BY <1>4, <1>5, <1>7, <2>3
    <2> QED  BY <1>6, <2>4 DEF ToldLine
<1> DEFINE turn == UNION { Told[h][f][j].said : j \in Told[h][f][i].turn \cap 1..n }
<1>10. ASSUME NEW x \in Pieces(e.text)
       PROVE  x \in UNION { s[2] : s \in { t \in turn : t[1] = e.role } }
    <2>1. PICK k \in DOMAIN u.text :
                x = (IF u.text[k] \in Secrets THEN "REDACTED" ELSE u.text[k]) /\ x # "..."
        BY <1>7, <1>10 DEF Pieces, Redacted
    <2>2. u.text[k] # "..."
        BY <2>1, ImportMarkAssumption
    <2>3. (agent = "jsonl" \/ k <= TextCap) /\ Heard(agent, w, i, u.role, u.text[k], k)
        BY <1>4, <2>2
    <2>4. k \in Nat
        OBVIOUS
    <2>5. \E j \in Told[h][f][i].turn \cap 1..n : \E s \in Told[h][f][j].said :
              s[1] = u.role /\ x \in s[2]
        <3>1. /\ Histories[h].agent = "jsonl" \/ k <= TextCap
              /\ Heard(Histories[h].agent, SubSeq(Histories[h].files[f], 1, n), i, u.role,
                       u.text[k], k)
            BY <2>3 DEF agent, w, file
        <3>2. i \in 1..n /\ k \in Nat /\ x # "..."
            BY <1>5, <2>1, <2>4
        <3>3. x = StoredPiece(u.text[k])
            BY <2>1 DEF StoredPiece
        <3>4. ToldTo(h, f, n, i, u.role, StoredPiece(u.text[k]))
            BY <3>1, <3>2, <3>3, PieceTold
        <3> QED  BY <3>3, <3>4 DEF ToldTo
    <2>6. PICK j \in Told[h][f][i].turn \cap 1..n :
                \E s \in Told[h][f][j].said : s[1] = u.role /\ x \in s[2]
        BY <2>5
    <2>7. PICK s \in Told[h][f][j].said : s[1] = u.role /\ x \in s[2]
        BY <2>6
    <2>8. s \in turn
        BY <2>7
    <2> HIDE DEF turn
    <2> QED  BY <1>7, <2>7, <2>8
<1> QED  BY <1>5, <1>8, <1>9, <1>10 DEF IsTurn, e

(* A turn of a file is one however much is added to the file.              *)
LEMMA TurnStays ==
    ASSUME NEW h, NEW f, NEW m \in Nat, NEW n \in Nat, m <= n, NEW e, IsTurn(h, f, m, e)
    PROVE  IsTurn(h, f, n, e)
<1> DEFINE Turn(i, k) == UNION { Told[h][f][j].said : j \in Told[h][f][i].turn \cap 1..k }
<1>1. PICK i \in 1..m :
            /\ e.session = Told[h][f][i].session
            /\ e.time = Told[h][f][i].time
            /\ Pieces(e.text) \subseteq UNION { s[2] : s \in { t \in Turn(i, m) : t[1] = e.role } }
    BY DEF IsTurn
<1>2. i \in 1..n /\ 1..m \subseteq 1..n
    OBVIOUS
<1>3. Turn(i, m) \subseteq Turn(i, n)
    BY <1>2
<1> HIDE DEF Turn
<1>4. Pieces(e.text) \subseteq UNION { s[2] : s \in { t \in Turn(i, n) : t[1] = e.role } }
    BY <1>1, <1>3
<1> QED  BY <1>1, <1>2, <1>4 DEF IsTurn, Turn

(* What is read of a file.                                                 *)
LEMMA HistoryFiles ==
    ASSUME NEW h \in DOMAIN Histories, NEW f \in DOMAIN Histories[h].files
    PROVE  /\ Histories[h].agent \in TranscriptAgents
           /\ Histories[h].files[f] \in Seq(Line)
           /\ Histories[h].agent = "opencode" => OneRole(Histories[h].files[f])
<1>1. Histories[h].agent = "opencode" => OneRole(Histories[h].files[f])
    BY ImportMessagesAssumption DEF OneRole
<1> QED  BY <1>1, ImportHistoriesAssumption

(* The entries of the table of readings: drawn from their lines, and turns *)
(* of them.                                                                *)
LEMMA ReadingOf ==
    ASSUME NEW h \in DOMAIN Histories, NEW f \in DOMAIN Histories[h].files,
           NEW n \in 0..Len(Histories[h].files[f])
    PROVE  Reading[h][f][n] =
              IF TranscriptRefused(Histories[h].agent, SubSeq(Histories[h].files[f], 1, n)) THEN <<>>
              ELSE Parse(Histories[h].agent, SubSeq(Histories[h].files[f], 1, n))
BY DEF Reading

LEMMA ReadingDrawn ==
    ASSUME NEW h \in DOMAIN Histories, NEW f \in DOMAIN Histories[h].files,
           NEW n \in 0..Len(Histories[h].files[f])
    PROVE  Reading[h][f][n] \in
              Seq(DrawnUnits(Histories[h].agent, SubSeq(Histories[h].files[f], 1, n)))
<1> DEFINE agent == Histories[h].agent
           file == Histories[h].files[f]
           w == SubSeq(file, 1, n)
<1>1. agent \in TranscriptAgents /\ file \in Seq(Line) /\ (agent = "opencode" => OneRole(file))
    BY HistoryFiles
<1>2. w \in Seq(Line)
    BY <1>1, WrittenLines
<1>3. DOMAIN w = 1..n /\ n \in Nat /\ \A i \in 1..n : w[i] = file[i] /\ i \in DOMAIN file
    BY <1>1, WrittenLines
<1>4. Reading[h][f][n] = IF TranscriptRefused(agent, w) THEN <<>> ELSE Parse(agent, w)
    BY ReadingOf
<1>5. agent = "opencode" => OneRole(w)
    <2> HIDE DEF w, file, agent
    <2> QED  BY <1>1, <1>3 DEF OneRole
<1>6. Parse(agent, w) \in Seq(DrawnUnits(agent, w))
    <2> HIDE DEF w, agent
    <2> QED  BY <1>1, <1>2, <1>5, ParseDrawn
<1>7. <<>> \in Seq(DrawnUnits(agent, w))
    BY NoUnits
<1>8. Reading[h][f][n] \in Seq(DrawnUnits(agent, w))
    <2> HIDE DEF w, agent
    <2> QED  BY <1>4, <1>6, <1>7
<1> QED  BY <1>8

LEMMA ReadingTurns ==
    ASSUME NEW h \in DOMAIN Histories, NEW f \in DOMAIN Histories[h].files,
           NEW n \in 0..Len(Histories[h].files[f])
    PROVE  /\ Reading[h][f][n] \in Seq(UnitSet)
           /\ \A i \in DOMAIN Reading[h][f][n] : IsTurn(h, f, n, EventOf(Reading[h][f][n][i]))
<1> DEFINE w == SubSeq(Histories[h].files[f], 1, n)
           D == DrawnUnits(Histories[h].agent, w)
           r == Reading[h][f][n]
<1>1. r \in Seq(D)
    BY ReadingDrawn
<1>2. D \subseteq UnitSet /\ \A u \in D : Drawn(Histories[h].agent, w, u)
    BY DEF DrawnUnits
<1> HIDE DEF r, D, w
<1>3. r \in Seq(UnitSet)
    BY <1>1, <1>2, WiderSeq
<1>4. ASSUME NEW i \in DOMAIN r PROVE IsTurn(h, f, n, EventOf(r[i]))
    <2>1. r[i] \in D
        BY <1>1
    <2>2. r[i] \in UnitSet /\ Drawn(Histories[h].agent, w, r[i])
        BY <1>2, <2>1
    <2>3. r[i].text \in Seq(Word)
        BY <2>2 DEF UnitSet
    <2> QED  BY <2>2, <2>3, DrawnIsTurn DEF w
<1> QED  BY <1>3, <1>4 DEF r

(* What was read of a file starts what is read of it later.                *)
LEMMA ReadingGrows ==
    ASSUME NEW h \in DOMAIN Histories, NEW f \in DOMAIN Histories[h].files,
           NEW n \in 0..Len(Histories[h].files[f]), NEW m \in 0..n,
           Histories[h].agent # "opencode", Reading[h][f][n] # <<>>
    PROVE  Starts(Reading[h][f][m], Reading[h][f][n])
<1> DEFINE agent == Histories[h].agent
           file == Histories[h].files[f]
           v == SubSeq(file, 1, m)
           w == SubSeq(file, 1, n)
<1>1. agent \in TranscriptAgents /\ file \in Seq(Line) /\ agent # "opencode"
    BY HistoryFiles
<1>2. m \in 0..Len(file) /\ n \in 0..Len(file) /\ m <= n /\ m \in Nat /\ n \in Nat
    BY <1>1
<1>3. /\ Reading[h][f][m] = IF TranscriptRefused(agent, v) THEN <<>> ELSE Parse(agent, v)
      /\ Reading[h][f][n] = IF TranscriptRefused(agent, w) THEN <<>> ELSE Parse(agent, w)
    BY <1>2, ReadingOf
<1>4. v \in Seq(Line) /\ w \in Seq(Line) /\ Starts(v, w)
    BY <1>1, <1>2 DEF Starts
<1> HIDE DEF v, w, agent
<1>5. ~TranscriptRefused(agent, w)
    BY <1>3
<1>6. ~TranscriptRefused(agent, v)
    BY <1>4, <1>5, RefusedStarts
<1>7. Starts(Parse(agent, v), Parse(agent, w))
    BY <1>1, <1>4, ParseStarts
<1> QED  BY <1>3, <1>5, <1>6, <1>7

-----------------------------------------------------------------------------
(* Content is stored once.                                                 *)

(* Redaction leaves nothing for a second redaction: what is stored of a    *)
(* unit has the hash the unit was looked up with.                          *)
LEMMA RedactedTwice ==
    ASSUME NEW text
    PROVE  Redacted(Redacted(text)) = Redacted(text)
<1>1. DOMAIN Redacted(text) = DOMAIN text
  BY DEF Redacted
<1>2. \A i \in DOMAIN text :
        Redacted(text)[i] = IF text[i] \in Secrets THEN "REDACTED" ELSE text[i]
  BY DEF Redacted
<1>3. ASSUME NEW i \in DOMAIN text
      PROVE  (IF Redacted(text)[i] \in Secrets THEN "REDACTED" ELSE Redacted(text)[i])
                = Redacted(text)[i]
  BY <1>2
<1>4. Redacted(Redacted(text))
        = [i \in DOMAIN text |-> IF Redacted(text)[i] \in Secrets THEN "REDACTED"
                                 ELSE Redacted(text)[i]]
  BY <1>1 DEF Redacted
<1>5. Redacted(text) = [i \in DOMAIN text |-> Redacted(text)[i]]
  BY <1>1 DEF Redacted
<1> QED
  BY <1>3, <1>4, <1>5

(* What is stored of a unit has its hash.                                  *)
LEMMA StoredHash ==
    ASSUME NEW u
    PROVE  ContentHash(EventOf(u)) = ContentHash(u)
<1>1. EventOf(u).role = u.role /\ EventOf(u).text = Redacted(u.text)
  BY DEF EventOf
<1> QED
  BY <1>1, RedactedTwice DEF ContentHash

(* One event is added, or deleted.                                         *)
LEMMA OneMore ==
    ASSUME NEW e, e \notin DOMAIN stored, stored' = stored (+) SetToBag({e})
    PROVE  /\ DOMAIN stored' = DOMAIN stored \cup {e}
           /\ stored'[e] = 1
           /\ \A d \in DOMAIN stored : stored'[d] = stored[d] + 0
  BY DEF (+), SetToBag, BagToSet

(* Neither a staged unit nor a deletion makes a double.                    *)
LEMMA StageUnitOnce ==
    ASSUME NeverStoredTwice, NEW p \in Importers, StageUnit(p)
    PROVE  NeverStoredTwice'
<1> DEFINE u == runs[p].units[runs[p].next]
           new == EventOf(u)
<1>1. CASE stored' = stored
  BY <1>1 DEF NeverStoredTwice
<1>2. CASE ~Already(u) /\ stored' = stored (+) SetToBag({new})
  <2>1. \A e \in DOMAIN stored : ContentHash(e) # ContentHash(new)
    BY <1>2, StoredHash DEF Already
  <2> HIDE DEF new, u
  <2>2. new \notin DOMAIN stored
    BY <2>1
  <2>3. /\ DOMAIN stored' = DOMAIN stored \cup {new}
        /\ stored'[new] = 1
        /\ \A d \in DOMAIN stored : stored'[d] = stored[d] + 0
    BY <1>2, <2>2, OneMore
  <2>4. \A d \in DOMAIN stored : stored[d] = 1
    BY DEF NeverStoredTwice
  <2>5. \A d \in DOMAIN stored' : stored'[d] = 1
    BY <2>3, <2>4
  <2>6. \A d \in DOMAIN stored, e \in DOMAIN stored : ContentHash(d) = ContentHash(e) => d = e
    BY DEF NeverStoredTwice
  <2>7. \A d \in DOMAIN stored', e \in DOMAIN stored' : ContentHash(d) = ContentHash(e) => d = e
    BY <2>1, <2>3, <2>6
  <2> QED
    BY <2>5, <2>7 DEF NeverStoredTwice
<1> QED
  BY <1>1, <1>2 DEF StageUnit

(* What is deleted is one event.                                           *)
LEMMA RetainTakes ==
    ASSUME NeverStoredTwice, NEW u \in DOMAIN stored, Retain(u)
    PROVE  DOMAIN stored' = DOMAIN stored \ {u} /\ \A d \in DOMAIN stored' : stored'[d] = 1
<1> DEFINE one == [e \in {u} |-> stored[u]]
<1>1. stored' = stored (-) one /\ \A d \in DOMAIN stored : stored[d] = 1
  BY DEF Retain, NeverStoredTwice
<1>2. DOMAIN one = {u} /\ one[u] = 1
  BY <1>1
<1> DEFINE rest == [e \in DOMAIN stored |-> IF e \in DOMAIN one
                                            THEN stored[e] - one[e] ELSE stored[e]]
<1>3. stored' = [e \in {d \in DOMAIN rest : rest[d] > 0} |-> rest[e]]
  BY <1>1 DEF (-)
<1>4. \A d \in DOMAIN stored : rest[d] = IF d = u THEN 0 ELSE 1
  BY <1>1, <1>2
<1> HIDE DEF rest, one
<1>5. DOMAIN rest = DOMAIN stored
  BY DEF rest
<1> QED
  BY <1>3, <1>4, <1>5

LEMMA RetainOnce ==
    ASSUME NeverStoredTwice, NEW u \in DOMAIN stored, Retain(u)
    PROVE  NeverStoredTwice'
BY RetainTakes DEF NeverStoredTwice

(* Look-up and insertion are one transaction of SQLite, so however         *)
(* importers race, fail or repeat, files repeat each other and retention   *)
(* deletes, no two stored events have the same content.                    *)
THEOREM ImportsNeverStoreTwice == Spec => []NeverStoredTwice
<1>1. Init => NeverStoredTwice
  BY DEF Init, NeverStoredTwice, EmptyBag, SetToBag
<1>2. NeverStoredTwice /\ [Next]_vars => NeverStoredTwice'
  <2> SUFFICES ASSUME NeverStoredTwice, [Next]_vars PROVE NeverStoredTwice'
    OBVIOUS
  <2>1. CASE UNCHANGED stored
    BY <2>1 DEF NeverStoredTwice
  <2>2. ASSUME NEW f \in Files, Grow(f) PROVE NeverStoredTwice'
    BY <2>1, <2>2 DEF Grow, store
  <2>3. CASE JobSettles
    BY <2>1, <2>3 DEF JobSettles
  <2>4. ASSUME NEW u \in DOMAIN stored, Retain(u) PROVE NeverStoredTwice'
    BY <2>4, RetainOnce
  <2>5. ASSUME NEW p \in Importers, ImportStep(p) \/ Fail(p) PROVE NeverStoredTwice'
    <3>1. CASE StartImport(p) \/ Fail(p)
      BY <2>1, <3>1 DEF StartImport, Fail, store
    <3>2. CASE OpenFile(p)
      BY <2>1, <3>2 DEF OpenFile, store
    <3>3. CASE StageUnit(p)
      BY <3>3, StageUnitOnce
    <3>4. CASE CloseBatch(p)
      BY <2>1, <3>4 DEF CloseBatch
    <3> QED
      BY <2>5, <3>1, <3>2, <3>3, <3>4 DEF ImportStep
  <2>6. CASE UNCHANGED vars
    BY <2>1, <2>6 DEF vars, store
  <2> QED
    BY <2>2, <2>3, <2>4, <2>5, <2>6 DEF Next
<1> QED
  BY <1>1, <1>2, PTL DEF Spec

-----------------------------------------------------------------------------
(* The shape of the state, and where the units of an importer come from.   *)

(* The shape of the state, and where the units of an importer come from.   *)
Run == [at : {"idle", "open", "staging", "full"}, file : Nat, units : Seq(UnitSet), next : Nat]

ReadFrom(r) ==
    /\ r.at # "idle" => r.file \in Files
    /\ r.at \in {"staging", "full"} =>
          /\ r.next \in 1..(Len(r.units) + 1)
          /\ \E n \in 0..length[r.file] : r.units = Reading[history][r.file][n]

ImportShape ==
    /\ history \in DOMAIN Histories
    /\ length \in [Files -> Nat]
    /\ \A f \in Files : length[f] \in 0..Len(Lines(f))
    /\ batches \in [Files -> BatchRow]
    /\ runs \in [Importers -> Run]
    /\ \A p \in Importers : ReadFrom(runs[p])
    /\ alone \subseteq Files

(* The runs an importer goes through: none, a file opened, the next file.  *)
LEMMA FilesOf ==
    ASSUME NEW h \in DOMAIN Histories
    PROVE  DOMAIN Histories[h].files \subseteq Nat \ {0}
BY ImportHistoriesAssumption

LEMMA NoRun == Idle \in Run /\ Idle.at = "idle"
<1>1. <<>> \in Seq(UnitSet)
    BY NoUnits
<1> QED  BY <1>1 DEF Idle, Run

LEMMA OpenRun ==
    ASSUME NEW f \in Nat
    PROVE  /\ Open(f) \in Run /\ Open(f).at = "open" /\ Open(f).file = f
<1>1. <<>> \in Seq(UnitSet)
    BY NoUnits
<1> QED  BY <1>1 DEF Open, Run

LEMMA IdleReads == ReadFrom(Idle)
BY DEF ReadFrom, Idle

LEMMA NextReads ==
    ASSUME ImportShape, NEW f \in Files
    PROVE  NextFile(f) \in Run /\ NextFile(f).at \in {"idle", "open"} /\ ReadFrom(NextFile(f))
<1>1. CASE f + 1 \in Files
    <2>1. f + 1 \in Nat
        BY <1>1, FilesOf DEF Files, ImportShape
    <2>2. Open(f + 1) \in Run /\ Open(f + 1).at = "open" /\ Open(f + 1).file = f + 1
        BY <2>1, OpenRun
    <2> QED  BY <1>1, <2>2 DEF NextFile, ReadFrom
<1>2. CASE f + 1 \notin Files
    BY <1>2, NoRun, IdleReads DEF NextFile
<1> QED  BY <1>1, <1>2

(* The shape holds at the start, and the agent may add a line.             *)
LEMMA ShapeInit == Init => ImportShape
<1> SUFFICES ASSUME Init PROVE ImportShape
    OBVIOUS
<1>1. history \in DOMAIN Histories /\ alone \subseteq Files
    BY DEF Init
<1>2. length = [f \in Files |-> 0] /\ batches = [f \in Files |-> NoBatch]
    BY DEF Init
<1>3. length \in [Files -> Nat]
    BY <1>2
<1>4. NoBatch \in BatchRow
    BY DEF NoBatch, BatchRow, BatchStates
<1>5. batches \in [Files -> BatchRow]
    BY <1>2, <1>4
<1>6. ASSUME NEW f \in Files PROVE length[f] \in 0..Len(Lines(f))
    <2>1. Lines(f) \in Seq(Line)
        BY <1>1, HistoryFiles DEF Files, Lines
    <2>2. Len(Lines(f)) \in Nat
        BY <2>1, LinesOf
    <2> QED  BY <1>2, <2>2
<1>7. runs = [p \in Importers |-> Idle]
    BY DEF Init
<1>8. runs \in [Importers -> Run] /\ \A p \in Importers : ReadFrom(runs[p])
    BY <1>7, NoRun, IdleReads
<1> QED  BY <1>1, <1>3, <1>5, <1>6, <1>8 DEF ImportShape

LEMMA GrowShape ==
    ASSUME ImportShape, NEW g \in Files, Grow(g)
    PROVE  /\ ImportShape'
           /\ \A f \in Files : length'[f] \in Nat /\ length[f] \in Nat /\ length[f] <= length'[f]
           /\ history' = history
<1>1. /\ history' = history /\ batches' = batches /\ runs' = runs /\ alone' = alone
      /\ length' = [length EXCEPT ![g] = @ + 1] /\ length[g] < Len(Lines(g))
    BY DEF Grow, store
<1>2. Files' = Files /\ \A f : Lines(f)' = Lines(f)
    BY <1>1 DEF Files, Lines
<1>3. length \in [Files -> Nat] /\ \A f \in Files : length[f] \in 0..Len(Lines(f))
    BY DEF ImportShape
<1>4. length' \in [Files -> Nat] /\ \A f \in Files : length'[f] = IF f = g THEN length[f] + 1 ELSE length[f]
    BY <1>1, <1>3
<1>5. ASSUME NEW f \in Files PROVE Len(Lines(f)) \in Nat
    <2>1. Lines(f) \in Seq(Line)
        BY HistoryFiles DEF ImportShape, Files, Lines
    <2> QED  BY <2>1, LinesOf
<1>6. ASSUME NEW f \in Files
      PROVE  /\ length'[f] \in 0..Len(Lines(f)) /\ length[f] <= length'[f]
             /\ length'[f] \in Nat /\ length[f] \in Nat
    <2> DEFINE k == Len(Lines(f))
    <2>1. k \in Nat
        BY <1>5
    <2>2. length[f] \in 0..k /\ (f = g => length[f] < k)
        BY <1>1, <1>3
    <2> HIDE DEF k
    <2>3. length[f] \in Nat /\ length[f] <= k
        BY <2>1, <2>2
    <2>4. CASE f = g
        BY <1>4, <2>1, <2>2, <2>3, <2>4 DEF k
    <2>5. CASE f # g
        BY <1>4, <2>1, <2>3, <2>5 DEF k
    <2> QED  BY <2>4, <2>5
<1>7. ASSUME NEW p \in Importers PROVE ReadFrom(runs[p])'
    <2>1. ReadFrom(runs[p])
        BY DEF ImportShape
    <2> DEFINE r == runs[p]
    <2>2. r' = r
        BY <1>1
    <2>3. r.at # "idle" => r.file \in Files
        BY <2>1 DEF ReadFrom
    <2>4. ASSUME r.at \in {"staging", "full"}
          PROVE  r.next \in 1..(Len(r.units) + 1) /\
                 \E n \in 0..length'[r.file] : r.units = Reading[history][r.file][n]
        <3>1. r.file \in Files
            BY <2>3, <2>4
        <3>2. PICK n \in 0..length[r.file] : r.units = Reading[history][r.file][n]
            BY <2>1, <2>4 DEF ReadFrom
        <3> HIDE DEF r
        <3>3. length'[r.file] \in Nat /\ length[r.file] \in Nat /\ length[r.file] <= length'[r.file]
            BY <1>6, <3>1
        <3>4. n \in 0..length'[r.file]
            BY <3>3
        <3>5. r.next \in 1..(Len(r.units) + 1)
            BY <2>1, <2>4 DEF ReadFrom, r
        <3> QED  BY <3>2, <3>4, <3>5
    <2>5. r' = runs'[p]
        OBVIOUS
    <2> HIDE DEF r
    <2>6. /\ r.at # "idle" => r.file \in Files'
          /\ r.at \in {"staging", "full"} =>
                /\ r.next \in 1..(Len(r.units) + 1)
                /\ \E n \in 0..length'[r.file] : r.units = Reading[history'][r.file][n]
        BY <1>1, <1>2, <2>3, <2>4
    <2> QED  BY <2>2, <2>6 DEF ReadFrom, r
<1>8. runs' \in [Importers -> Run] /\ alone' \subseteq Files' /\ batches' \in [Files' -> BatchRow]
      /\ history' \in DOMAIN Histories /\ length' \in [Files' -> Nat]
    BY <1>1, <1>2, <1>4 DEF ImportShape
<1>9. ImportShape'
    BY <1>2, <1>6, <1>7, <1>8 DEF ImportShape
<1> QED  BY <1>1, <1>6, <1>9

(* A step that changes at most a row and a run.                            *)
LEMMA RunShape ==
    ASSUME ImportShape, history' = history, length' = length,
           batches' \in [Files -> BatchRow], alone' \subseteq Files,
           runs' \in [Importers -> Run],
           \A p \in Importers : runs'[p] = runs[p] \/ ReadFrom(runs'[p])
    PROVE  ImportShape'
<1>1. Files' = Files /\ \A f : Lines(f)' = Lines(f)
    BY DEF Files, Lines
<1>2. ASSUME NEW p \in Importers PROVE ReadFrom(runs'[p])
    BY DEF ImportShape
<1>3. ASSUME NEW p \in Importers PROVE ReadFrom(runs[p])'
    <2>1. ReadFrom(runs'[p])
        BY <1>2
    <2> QED  BY <1>1, <2>1 DEF ReadFrom
<1> QED  BY <1>1, <1>3 DEF ImportShape

(* One importer changes its run alone.                                     *)
LEMMA OneRun ==
    ASSUME ImportShape, NEW p \in Importers, NEW r \in Run, ReadFrom(r),
           runs' = [runs EXCEPT ![p] = r]
    PROVE  /\ runs' \in [Importers -> Run]
           /\ \A q \in Importers : runs'[q] = IF q = p THEN r ELSE runs[q]
           /\ \A q \in Importers : runs'[q] = runs[q] \/ ReadFrom(runs'[q])
BY DEF ImportShape

(* An importer starts, or is cut short.                                    *)
LEMMA StartShape == ASSUME ImportShape, NEW p \in Importers, StartImport(p) PROVE ImportShape'
<1>1. runs' = [runs EXCEPT ![p] = Open(1)]
    BY DEF StartImport
<1>2. history' = history /\ length' = length /\ batches' = batches /\ alone' = alone
    BY DEF StartImport, store
<1>3. 1 \in Files
    <2>1. Histories[history].files \in Seq(Seq(Line)) /\ Files # {}
        BY ImportHistoriesAssumption DEF ImportShape, StartImport
    <2> QED  BY <2>1 DEF Files
<1>4. Open(1) \in Run /\ ReadFrom(Open(1))
    BY <1>3, OpenRun DEF ReadFrom
<1>5. /\ runs' \in [Importers -> Run]
      /\ \A q \in Importers : runs'[q] = runs[q] \/ ReadFrom(runs'[q])
    BY <1>1, <1>4, OneRun
<1> QED  BY <1>2, <1>5, RunShape DEF ImportShape

LEMMA FailShape ==
    ASSUME ImportShape, NEW p \in Importers, Fail(p)
    PROVE  ImportShape' /\ \A q \in Importers : runs'[q] = IF q = p THEN Idle ELSE runs[q]
<1>1. runs' = [runs EXCEPT ![p] = Idle]
    BY DEF Fail
<1>2. history' = history /\ length' = length /\ batches' = batches /\ alone' = alone
    BY DEF Fail, store
<1>3. /\ runs' \in [Importers -> Run]
      /\ \A q \in Importers : runs'[q] = IF q = p THEN Idle ELSE runs[q]
      /\ \A q \in Importers : runs'[q] = runs[q] \/ ReadFrom(runs'[q])
    BY <1>1, NoRun, IdleReads, OneRun
<1> QED  BY <1>2, <1>3, RunShape DEF ImportShape

(* A file is opened: passed over, or its row reset.                        *)
LEMMA OpenedRow ==
    ASSUME NEW total \in Nat, NEW batch
    PROVE  /\ Restarted(batch, total) \in BatchRow
           /\ Restarted(batch, total).state = "staging"
           /\ Restarted(batch, total).total = total
           /\ Restarted(batch, total).processed = 0 /\ Restarted(batch, total).skipped = 0
BY DEF Restarted, BatchRow, BatchStates

LEMMA UnitsRead ==
    ASSUME ImportShape, NEW f \in Files
    PROVE  UnitsOf(f) \in Seq(UnitSet) /\ Len(UnitsOf(f)) \in Nat /\ length[f] \in 0..length[f]
<1>1. /\ history \in DOMAIN Histories /\ f \in DOMAIN Histories[history].files
      /\ length[f] \in 0..Len(Histories[history].files[f]) /\ length[f] \in Nat
    BY DEF ImportShape, Files, Lines
<1>2. Reading[history][f][length[f]] \in Seq(UnitSet)
    BY <1>1, ReadingTurns
<1>3. UnitsOf(f) \in Seq(UnitSet)
    BY <1>2 DEF UnitsOf
<1> QED  BY <1>1, <1>3

(* The run of a file just opened.                                          *)
StagingRun(f) == [at |-> "staging", file |-> f, units |-> UnitsOf(f), next |-> FirstUnit(f)]

LEMMA StagingRunOf ==
    ASSUME ImportShape, NEW f \in Files
    PROVE  /\ StagingRun(f) \in Run /\ ReadFrom(StagingRun(f))
           /\ StagingRun(f).at = "staging" /\ StagingRun(f).file = f
           /\ StagingRun(f).units = UnitsOf(f) /\ StagingRun(f).next = 1
<1> DEFINE r == StagingRun(f)
<1>1. UnitsOf(f) \in Seq(UnitSet) /\ length[f] \in 0..length[f] /\ f \in Nat
    BY UnitsRead, FilesOf DEF Files, ImportShape
<1>2. r.at = "staging" /\ r.file = f /\ r.units = UnitsOf(f) /\ r.next = 1
    BY DEF StagingRun, FirstUnit
<1>3. r \in Run
    BY <1>1 DEF StagingRun, FirstUnit, Run
<1>4. r.units = Reading[history][f][length[f]]
    BY <1>2 DEF UnitsOf
<1>5. r.next \in 1..(Len(r.units) + 1)
    BY <1>2, UnitsRead
<1> HIDE DEF r
<1>6. ReadFrom(r)
    BY <1>1, <1>2, <1>4, <1>5 DEF ReadFrom
<1> QED  BY <1>2, <1>3, <1>6 DEF r

(* What opening a file does.                                               *)
LEMMA OpenShape ==
    ASSUME ImportShape, NEW p \in Importers, OpenFile(p)
    PROVE  /\ ImportShape'
           /\ \/ /\ batches' = batches /\ alone' = alone
                 /\ runs'[p].at \in {"idle", "open"}
              \/ /\ runs'[p] = StagingRun(runs[p].file)
                 /\ runs[p].file \in Files
                 /\ batches'[runs[p].file] =
                        Restarted(batches[runs[p].file], Len(UnitsOf(runs[p].file)))
                 /\ \A f \in Files \ {runs[p].file} : batches'[f] = batches[f]
                 /\ alone' = IF \E q \in Importers \ {p} : runs[q].file = runs[p].file
                                                        /\ runs[q].at \in {"staging", "full"}
                             THEN alone \ {runs[p].file} ELSE alone \cup {runs[p].file}
           /\ \A q \in Importers \ {p} : runs'[q] = runs[q]
<1> DEFINE f == runs[p].file
<1>1. history' = history /\ length' = length /\ stored' = stored /\ runs[p].at = "open"
    BY DEF OpenFile, store
<1>2. f \in Files
    BY <1>1 DEF ImportShape, ReadFrom
<1> HIDE DEF f
<1>3. CASE batches' = batches /\ alone' = alone /\ runs' = [runs EXCEPT ![p] = NextFile(f)]
    <2>1. NextFile(f) \in Run /\ NextFile(f).at \in {"idle", "open"} /\ ReadFrom(NextFile(f))
        BY <1>2, NextReads
    <2>2. /\ runs' \in [Importers -> Run]
          /\ \A q \in Importers : runs'[q] = IF q = p THEN NextFile(f) ELSE runs[q]
          /\ \A q \in Importers : runs'[q] = runs[q] \/ ReadFrom(runs'[q])
        BY <1>3, <2>1, OneRun
    <2>3. ImportShape'
        BY <1>1, <1>3, <2>2, RunShape DEF ImportShape
    <2> QED  BY <1>3, <2>1, <2>2, <2>3
<1>4. CASE /\ batches' = [batches EXCEPT ![f] = Restarted(batches[f], Len(UnitsOf(f)))]
           /\ alone' = IF \E q \in Importers \ {p} :
                              runs[q].file = f /\ runs[q].at \in {"staging", "full"}
                       THEN alone \ {f} ELSE alone \cup {f}
           /\ runs' = [runs EXCEPT ![p] = StagingRun(f)]
    <2>1. StagingRun(f) \in Run /\ ReadFrom(StagingRun(f))
        BY <1>2, StagingRunOf
    <2>2. /\ runs' \in [Importers -> Run]
          /\ \A q \in Importers : runs'[q] = IF q = p THEN StagingRun(f) ELSE runs[q]
          /\ \A q \in Importers : runs'[q] = runs[q] \/ ReadFrom(runs'[q])
        BY <1>4, <2>1, OneRun
    <2>3. Restarted(batches[f], Len(UnitsOf(f))) \in BatchRow
        BY <1>2, UnitsRead, OpenedRow
    <2>4. /\ batches' \in [Files -> BatchRow]
          /\ batches'[f] = Restarted(batches[f], Len(UnitsOf(f)))
          /\ \A g \in Files \ {f} : batches'[g] = batches[g]
        BY <1>2, <1>4, <2>3 DEF ImportShape
    <2>5. alone' \subseteq Files
        BY <1>2, <1>4 DEF ImportShape
    <2>6. ImportShape'
        BY <1>1, <2>2, <2>4, <2>5, RunShape
    <2> QED  BY <1>2, <1>4, <2>2, <2>4, <2>6 DEF f
<1> QED  BY <1>3, <1>4 DEF OpenFile, store, f, StagingRun

(* An importer that is at work: its file and its next unit.                *)
LEMMA AtWork ==
    ASSUME ImportShape, NEW p \in Importers, runs[p].at \in {"staging", "full"}
    PROVE  /\ runs[p] \in Run /\ runs[p].file \in Files
           /\ runs[p].units \in Seq(UnitSet) /\ Len(runs[p].units) \in Nat
           /\ runs[p].next \in Nat \ {0} /\ runs[p].next <= Len(runs[p].units) + 1
           /\ \E n \in 0..length[runs[p].file] :
                 runs[p].units = Reading[history][runs[p].file][n]
<1>1. runs[p] \in Run /\ ReadFrom(runs[p])
    BY DEF ImportShape
<1>2. runs[p].units \in Seq(UnitSet)
    BY <1>1 DEF Run
<1>3. /\ runs[p].file \in Files /\ runs[p].next \in 1..(Len(runs[p].units) + 1)
      /\ \E n \in 0..length[runs[p].file] : runs[p].units = Reading[history][runs[p].file][n]
    BY <1>1 DEF ReadFrom
<1> QED  BY <1>1, <1>2, <1>3

(* A run past one unit more, and one at the full queue.                    *)
LEMMA NextUnitRun ==
    ASSUME NEW r \in Run, r.at \in {"staging", "full"}, ReadFrom(r), r.next <= Len(r.units)
    PROVE  /\ [r EXCEPT !.next = @ + 1] \in Run /\ ReadFrom([r EXCEPT !.next = @ + 1])
           /\ [r EXCEPT !.next = @ + 1].at = r.at /\ [r EXCEPT !.next = @ + 1].file = r.file
           /\ [r EXCEPT !.next = @ + 1].units = r.units
           /\ [r EXCEPT !.next = @ + 1].next = r.next + 1
<1> DEFINE s == [r EXCEPT !.next = @ + 1]
<1>1. r.units \in Seq(UnitSet) /\ Len(r.units) \in Nat /\ r.next \in Nat
    BY DEF Run
<1>2. s.at = r.at /\ s.file = r.file /\ s.units = r.units /\ s.next = r.next + 1 /\ s \in Run
    BY <1>1 DEF Run
<1>3. /\ r.at # "idle" /\ r.file \in Files /\ r.next \in 1..(Len(r.units) + 1)
      /\ \E n \in 0..length[r.file] : r.units = Reading[history][r.file][n]
    BY DEF ReadFrom
<1>4. r.next + 1 \in 1..(Len(r.units) + 1)
    BY <1>1, <1>3
<1> HIDE DEF s
<1>5. ReadFrom(s)
    BY <1>2, <1>3, <1>4 DEF ReadFrom
<1> QED  BY <1>2, <1>5 DEF s

LEMMA FullRun ==
    ASSUME NEW r \in Run, r.at = "staging", ReadFrom(r)
    PROVE  /\ [r EXCEPT !.at = "full"] \in Run /\ ReadFrom([r EXCEPT !.at = "full"])
           /\ [r EXCEPT !.at = "full"].at = "full" /\ [r EXCEPT !.at = "full"].file = r.file
           /\ [r EXCEPT !.at = "full"].units = r.units
           /\ [r EXCEPT !.at = "full"].next = r.next
<1> DEFINE s == [r EXCEPT !.at = "full"]
<1>1. s.at = "full" /\ s.file = r.file /\ s.units = r.units /\ s.next = r.next /\ s \in Run
    BY DEF Run
<1> HIDE DEF s
<1>2. ReadFrom(s)
    BY <1>1 DEF ReadFrom
<1> QED  BY <1>1, <1>2 DEF s

(* The three ways a unit goes.                                             *)
Skipped(p) ==
    /\ Already(runs[p].units[runs[p].next])
    /\ batches' = [batches EXCEPT ![runs[p].file].skipped = @ + 1]
    /\ runs' = [runs EXCEPT ![p].next = @ + 1]
    /\ stored' = stored

Staged(p) ==
    /\ ~Already(runs[p].units[runs[p].next])
    /\ stored' = stored (+) SetToBag({EventOf(runs[p].units[runs[p].next])})
    /\ batches' = [batches EXCEPT ![runs[p].file].processed = @ + 1]
    /\ runs' = [runs EXCEPT ![p].next = @ + 1]

Stopped(p) ==
    /\ runs' = [runs EXCEPT ![p].at = "full"]
    /\ batches' = batches /\ stored' = stored

LEMMA StageCases ==
    ASSUME ImportShape, NEW p \in Importers, StageUnit(p)
    PROVE  /\ runs[p].at = "staging" /\ runs[p].next <= Len(runs[p].units)
           /\ history' = history /\ length' = length /\ alone' = alone /\ swept' = swept
           /\ Skipped(p) \/ Staged(p) \/ Stopped(p)
BY DEF StageUnit, Skipped, Staged, Stopped, bounds

(* A row with one unit more skipped or processed.                          *)
LEMMA CountedRow ==
    ASSUME NEW b \in BatchRow
    PROVE  /\ [b EXCEPT !.skipped = @ + 1] \in BatchRow
           /\ [b EXCEPT !.skipped = @ + 1].state = b.state
           /\ [b EXCEPT !.skipped = @ + 1].total = b.total
           /\ [b EXCEPT !.skipped = @ + 1].processed + [b EXCEPT !.skipped = @ + 1].skipped
                = b.processed + b.skipped + 1
           /\ [b EXCEPT !.processed = @ + 1] \in BatchRow
           /\ [b EXCEPT !.processed = @ + 1].state = b.state
           /\ [b EXCEPT !.processed = @ + 1].total = b.total
           /\ [b EXCEPT !.processed = @ + 1].processed + [b EXCEPT !.processed = @ + 1].skipped
                = b.processed + b.skipped + 1
           /\ b.processed \in Nat /\ b.skipped \in Nat
BY DEF BatchRow

(* A row that counts one unit more.                                        *)
CountsOn(b, c) ==
    c.state = b.state /\ c.total = b.total /\ c.processed + c.skipped = b.processed + b.skipped + 1

(* A unit is counted; the queue is full; the run of a file ends.           *)
LEMMA CountedShape ==
    ASSUME ImportShape, NEW p \in Importers, runs[p].at = "staging",
           runs[p].next <= Len(runs[p].units), history' = history, length' = length, alone' = alone,
           Skipped(p) \/ Staged(p)
    PROVE  /\ ImportShape'
           /\ runs'[p].at = "staging" /\ runs'[p].file = runs[p].file
           /\ runs'[p].units = runs[p].units /\ runs'[p].next = runs[p].next + 1
           /\ \A q \in Importers \ {p} : runs'[q] = runs[q]
           /\ CountsOn(batches[runs[p].file], batches'[runs[p].file])
           /\ \A f \in Files \ {runs[p].file} : batches'[f] = batches[f]
<1> DEFINE f == runs[p].file
           r == [runs[p] EXCEPT !.next = @ + 1]
<1>1. runs[p] \in Run /\ f \in Files /\ ReadFrom(runs[p]) /\ batches[f] \in BatchRow
    BY AtWork DEF ImportShape
<1>2. runs' = [runs EXCEPT ![p] = r]
    BY DEF Skipped, Staged, ImportShape
<1>3. /\ r \in Run /\ ReadFrom(r) /\ r.at = "staging" /\ r.file = f
      /\ r.units = runs[p].units /\ r.next = runs[p].next + 1
    BY <1>1, NextUnitRun
<1> HIDE DEF r
<1>4. /\ runs' \in [Importers -> Run]
      /\ \A q \in Importers : runs'[q] = IF q = p THEN r ELSE runs[q]
      /\ \A q \in Importers : runs'[q] = runs[q] \/ ReadFrom(runs'[q])
    BY <1>2, <1>3, OneRun
<1>5. PICK c \in BatchRow : CountsOn(batches[f], c) /\ batches' = [batches EXCEPT ![f] = c]
    <2> DEFINE b == batches[f]
    <2>1. \/ batches' = [batches EXCEPT ![f] = [b EXCEPT !.skipped = @ + 1]]
          \/ batches' = [batches EXCEPT ![f] = [b EXCEPT !.processed = @ + 1]]
        BY <1>1 DEF Skipped, Staged, ImportShape
    <2>2. b \in BatchRow
        BY <1>1
    <2> HIDE DEF b
    <2>3. /\ [b EXCEPT !.skipped = @ + 1] \in BatchRow
          /\ CountsOn(b, [b EXCEPT !.skipped = @ + 1])
          /\ [b EXCEPT !.processed = @ + 1] \in BatchRow
          /\ CountsOn(b, [b EXCEPT !.processed = @ + 1])
        BY <2>2, CountedRow DEF CountsOn
    <2> QED  BY <2>1, <2>3 DEF b
<1>6. /\ batches' \in [Files -> BatchRow] /\ batches'[f] = c
      /\ \A g \in Files \ {f} : batches'[g] = batches[g]
    BY <1>1, <1>5 DEF ImportShape
<1>7. ImportShape'
    BY <1>4, <1>6, RunShape DEF ImportShape
<1> QED  BY <1>3, <1>4, <1>5, <1>6, <1>7

LEMMA StoppedShape ==
    ASSUME ImportShape, NEW p \in Importers, runs[p].at = "staging",
           history' = history, length' = length, alone' = alone, Stopped(p)
    PROVE  /\ ImportShape'
           /\ runs'[p].at = "full" /\ runs'[p].file = runs[p].file
           /\ runs'[p].units = runs[p].units /\ runs'[p].next = runs[p].next
           /\ \A q \in Importers \ {p} : runs'[q] = runs[q]
           /\ batches' = batches
<1> DEFINE r == [runs[p] EXCEPT !.at = "full"]
<1>1. runs[p] \in Run /\ ReadFrom(runs[p])
    BY DEF ImportShape
<1>2. runs' = [runs EXCEPT ![p] = r] /\ batches' = batches
    BY DEF Stopped, ImportShape
<1>3. /\ r \in Run /\ ReadFrom(r) /\ r.at = "full" /\ r.file = runs[p].file
      /\ r.units = runs[p].units /\ r.next = runs[p].next
    BY <1>1, FullRun
<1> HIDE DEF r
<1>4. /\ runs' \in [Importers -> Run]
      /\ \A q \in Importers : runs'[q] = IF q = p THEN r ELSE runs[q]
      /\ \A q \in Importers : runs'[q] = runs[q] \/ ReadFrom(runs'[q])
    BY <1>2, <1>3, OneRun
<1>5. ImportShape'
    BY <1>2, <1>4, RunShape DEF ImportShape
<1> QED  BY <1>2, <1>3, <1>4, <1>5

LEMMA CloseShape ==
    ASSUME ImportShape, NEW p \in Importers, CloseBatch(p)
    PROVE  /\ ImportShape'
           /\ runs[p].at \in {"staging", "full"} /\ runs'[p].at \in {"idle", "open"}
           /\ \A q \in Importers \ {p} : runs'[q] = runs[q]
           /\ \A f \in Files \ {runs[p].file} : batches'[f] = batches[f]
           /\ batches'[runs[p].file].processed = batches[runs[p].file].processed
           /\ batches'[runs[p].file].skipped = batches[runs[p].file].skipped
           /\ batches'[runs[p].file].total = batches[runs[p].file].total
           /\ \/ batches'[runs[p].file].state = "paused"
              \/ /\ batches'[runs[p].file].state = "completed"
                 /\ runs[p].next > Len(runs[p].units)
<1> DEFINE f == runs[p].file
<1>1. history' = history /\ length' = length /\ alone' = alone
      /\ runs[p].at \in {"staging", "full"}
    BY DEF CloseBatch
<1>2. f \in Files /\ batches[f] \in BatchRow
    BY <1>1, AtWork DEF ImportShape
<1>3. PICK r \in Run, c \in BatchRow :
        /\ r.at \in {"idle", "open"} /\ ReadFrom(r)
        /\ runs' = [runs EXCEPT ![p] = r] /\ batches' = [batches EXCEPT ![f] = c]
        /\ c.processed = batches[f].processed /\ c.skipped = batches[f].skipped
        /\ c.total = batches[f].total
        /\ c.state = "paused" \/ (c.state = "completed" /\ runs[p].next > Len(runs[p].units))
    <2>1. CASE /\ batches' = [batches EXCEPT ![f].state = "paused"]
               /\ runs' = [runs EXCEPT ![p] = Idle]
        <3> DEFINE c == [batches[f] EXCEPT !.state = "paused"]
        <3>1. batches' = [batches EXCEPT ![f] = c]
            BY <1>2, <2>1 DEF ImportShape
        <3>2. c \in BatchRow /\ c.state = "paused" /\ c.processed = batches[f].processed
              /\ c.skipped = batches[f].skipped /\ c.total = batches[f].total
            BY <1>2 DEF BatchRow, BatchStates
        <3> HIDE DEF c
        <3> QED  BY <2>1, <3>1, <3>2, NoRun, IdleReads
    <2>2. CASE /\ batches' = [batches EXCEPT ![f].state = "completed"]
               /\ runs' = [runs EXCEPT ![p] = NextFile(f)]
               /\ runs[p].next > Len(runs[p].units)
        <3> DEFINE c == [batches[f] EXCEPT !.state = "completed"]
        <3>1. batches' = [batches EXCEPT ![f] = c]
            BY <1>2, <2>2 DEF ImportShape
        <3>2. c \in BatchRow /\ c.state = "completed" /\ c.processed = batches[f].processed
              /\ c.skipped = batches[f].skipped /\ c.total = batches[f].total
            BY <1>2 DEF BatchRow, BatchStates
        <3>3. NextFile(f) \in Run /\ NextFile(f).at \in {"idle", "open"} /\ ReadFrom(NextFile(f))
            BY <1>2, NextReads
        <3> HIDE DEF c
        <3> QED  BY <2>2, <3>1, <3>2, <3>3
    <2> QED  BY <2>1, <2>2 DEF CloseBatch
<1>4. /\ runs' \in [Importers -> Run]
      /\ \A q \in Importers : runs'[q] = IF q = p THEN r ELSE runs[q]
      /\ \A q \in Importers : runs'[q] = runs[q] \/ ReadFrom(runs'[q])
    BY <1>3, OneRun
<1>5. /\ batches' \in [Files -> BatchRow] /\ batches'[f] = c
      /\ \A g \in Files \ {f} : batches'[g] = batches[g]
    BY <1>2, <1>3 DEF ImportShape
<1>6. ImportShape'
    BY <1>1, <1>4, <1>5, RunShape DEF ImportShape
<1> QED  BY <1>1, <1>3, <1>4, <1>5, <1>6

(* What is stored of a unit is one event more.                             *)
LEMMA StagedAdds ==
    ASSUME NEW p, Staged(p)
    PROVE  DOMAIN stored' = DOMAIN stored \cup {EventOf(runs[p].units[runs[p].next])}
BY DEF Staged, (+), SetToBag

(* What no step of an importer touches.                                    *)
LEMMA ShapeStep == ImportShape /\ [Next]_vars => ImportShape'
<1> SUFFICES ASSUME ImportShape, [Next]_vars PROVE ImportShape'
    OBVIOUS
<1>1. CASE history' = history /\ length' = length /\ batches' = batches /\ alone' = alone
           /\ runs' = runs
    <2>1. batches' \in [Files -> BatchRow] /\ alone' \subseteq Files /\ runs' \in [Importers -> Run]
        BY <1>1 DEF ImportShape
    <2>2. \A p \in Importers : runs'[p] = runs[p]
        BY <1>1
    <2> QED  BY <1>1, <2>1, <2>2, RunShape
<1>2. ASSUME NEW f \in Files, Grow(f) PROVE ImportShape'
    BY <1>2, GrowShape
<1>3. CASE JobSettles
    BY <1>1, <1>3 DEF JobSettles
<1>4. ASSUME NEW u \in DOMAIN stored, Retain(u) PROVE ImportShape'
    BY <1>1, <1>4 DEF Retain
<1>5. ASSUME NEW p \in Importers, ImportStep(p) \/ Fail(p) PROVE ImportShape'
    <2>1. CASE StartImport(p)
        BY <2>1, StartShape
    <2>2. CASE OpenFile(p)
        BY <2>2, OpenShape
    <2>3. CASE StageUnit(p)
        <3>1. /\ runs[p].at = "staging" /\ runs[p].next <= Len(runs[p].units)
              /\ history' = history /\ length' = length /\ alone' = alone
              /\ Skipped(p) \/ Staged(p) \/ Stopped(p)
            BY <2>3, StageCases
        <3> QED  BY <3>1, CountedShape, StoppedShape
    <2>4. CASE CloseBatch(p)
        BY <2>4, CloseShape
    <2>5. CASE Fail(p)
        BY <2>5, FailShape
    <2> QED  BY <1>5, <2>1, <2>2, <2>3, <2>4, <2>5 DEF ImportStep
<1>6. CASE UNCHANGED vars
    BY <1>1, <1>6 DEF vars, store
<1> QED  BY <1>2, <1>3, <1>4, <1>5, <1>6 DEF Next

-----------------------------------------------------------------------------
(* Stored events are turns.                                                *)

(* The unit an importer stages was told in the file it reads.              *)
LEMMA UnitIsTurn ==
    ASSUME ImportShape, NEW p \in Importers, runs[p].at = "staging",
           runs[p].next <= Len(runs[p].units)
    PROVE  \E f \in Files : IsTurn(history, f, length[f], EventOf(runs[p].units[runs[p].next]))
<1> DEFINE f == runs[p].file
           r == runs[p].units
           k == runs[p].next
<1>1. f \in Files /\ r \in Seq(UnitSet) /\ k \in DOMAIN r
    BY AtWork
<1>2. PICK n \in 0..length[f] : r = Reading[history][f][n]
    BY AtWork
<1>3. length[f] \in 0..Len(Lines(f)) /\ length[f] \in Nat /\ Len(Lines(f)) \in Nat
    <2>1. Lines(f) \in Seq(Line)
        BY <1>1, HistoryFiles DEF ImportShape, Files, Lines
    <2>2. Len(Lines(f)) \in Nat
        BY <2>1, LinesOf
    <2> QED  BY <1>1, <2>2 DEF ImportShape
<1> HIDE DEF f, r, k
<1>4. n \in 0..Len(Lines(f)) /\ n \in Nat /\ n <= length[f]
    BY <1>3
<1>5. IsTurn(history, f, n, EventOf(r[k]))
    BY <1>1, <1>2, <1>4, ReadingTurns DEF ImportShape, Files, Lines
<1>6. IsTurn(history, f, length[f], EventOf(r[k]))
    BY <1>3, <1>4, <1>5, TurnStays
<1> QED  BY <1>1, <1>6 DEF f, r, k

(* Every event is a turn of a file, as far as it is written.               *)
TurnsInv ==
    /\ ImportShape
    /\ \A e \in DOMAIN stored : \E f \in Files : IsTurn(history, f, length[f], e)

LEMMA TurnsStep ==
    ASSUME NeverStoredTwice, TurnsInv, [Next]_vars
    PROVE  TurnsInv'
<1> DEFINE Good(e) == \E f \in Files : IsTurn(history, f, length[f], e)
<1>1. ImportShape /\ ImportShape' /\ \A e \in DOMAIN stored : Good(e)
    BY ShapeStep DEF TurnsInv
<1>2. ASSUME history' = history, length' = length,
             \A e \in DOMAIN stored' : e \in DOMAIN stored \/ Good(e)
      PROVE  TurnsInv'
    <2>1. \A e \in DOMAIN stored' : Good(e)
        BY <1>1, <1>2
    <2>2. Files' = Files
        BY <1>2 DEF Files
    <2> QED  BY <1>1, <1>2, <2>1, <2>2 DEF TurnsInv
<1>3. ASSUME NEW g \in Files, Grow(g) PROVE TurnsInv'
    <2>1. /\ \A f \in Files : length'[f] \in Nat /\ length[f] \in Nat /\ length[f] <= length'[f]
          /\ history' = history
        BY <1>1, <1>3, GrowShape
    <2>2. stored' = stored /\ Files' = Files
        BY <1>3, <2>1 DEF Grow, store, Files
    <2>3. ASSUME NEW e \in DOMAIN stored PROVE \E f \in Files : IsTurn(history, f, length'[f], e)
        <3>1. PICK f \in Files : IsTurn(history, f, length[f], e)
            BY <1>1
        <3>2. IsTurn(history, f, length'[f], e)
            BY <2>1, <3>1, TurnStays
        <3> QED  BY <3>2
    <2> QED  BY <1>1, <2>1, <2>2, <2>3 DEF TurnsInv
<1>4. CASE JobSettles
    BY <1>2, <1>4 DEF JobSettles
<1>5. ASSUME NEW u \in DOMAIN stored, Retain(u) PROVE TurnsInv'
    <2>1. DOMAIN stored' = DOMAIN stored \ {u}
        BY <1>5, RetainTakes
    <2> QED  BY <1>2, <1>5, <2>1 DEF Retain
<1>6. ASSUME NEW p \in Importers, ImportStep(p) \/ Fail(p) PROVE TurnsInv'
    <2>1. CASE StartImport(p) \/ Fail(p)
        BY <1>2, <2>1 DEF StartImport, Fail, store
    <2>2. CASE OpenFile(p)
        BY <1>2, <2>2 DEF OpenFile, store
    <2>3. CASE StageUnit(p)
        <3>1. /\ runs[p].at = "staging" /\ runs[p].next <= Len(runs[p].units)
              /\ history' = history /\ length' = length
              /\ Skipped(p) \/ Staged(p) \/ Stopped(p)
            BY <1>1, <2>3, StageCases
        <3>2. CASE Staged(p)
            <4>1. Good(EventOf(runs[p].units[runs[p].next]))
                BY <1>1, <3>1, UnitIsTurn
            <4>2. DOMAIN stored' = DOMAIN stored \cup {EventOf(runs[p].units[runs[p].next])}
                BY <3>2, StagedAdds
            <4> HIDE DEF Good
            <4>3. \A e \in DOMAIN stored' : e \in DOMAIN stored \/ Good(e)
                BY <4>1, <4>2
            <4> QED  BY <1>2, <3>1, <4>3
        <3>3. CASE stored' = stored
            BY <1>2, <3>1, <3>3
        <3> QED  BY <3>1, <3>2, <3>3 DEF Skipped, Stopped
    <2>4. CASE CloseBatch(p)
        BY <1>2, <2>4 DEF CloseBatch
    <2> QED  BY <1>6, <2>1, <2>2, <2>3, <2>4 DEF ImportStep
<1>7. CASE UNCHANGED vars
    BY <1>2, <1>7 DEF vars, store
<1> QED  BY <1>3, <1>4, <1>5, <1>6, <1>7 DEF Next

(* Whatever was written, by whichever agent, and whenever it was read: what *)
(* is stored as an event was said in one turn of one session of a file, at *)
(* that time and by that speaker (importers.rs: parse_*; store.rs:         *)
(* stage_import_unit).                                                     *)
THEOREM ImportedEventsAreTurns == Spec => []EventsAreTurns
<1>1. Init => TurnsInv
    <2>1. Init => DOMAIN stored = {}
        BY DEF Init, EmptyBag, SetToBag
    <2> QED  BY <2>1, ShapeInit DEF TurnsInv
<1>2. NeverStoredTwice /\ TurnsInv /\ [Next]_vars => TurnsInv'
    BY TurnsStep
<1>3. TurnsInv => EventsAreTurns
    BY DEF TurnsInv, EventsAreTurns, IsTurn
<1> QED  BY <1>1, <1>2, <1>3, ImportsNeverStoreTwice, PTL DEF Spec

-----------------------------------------------------------------------------
(* Completed rows.                                                         *)

(* A file that never had two importers at once: what its row says of them. *)
EverStored == swept \cup DOMAIN stored

(* The content of a unit is in a set of events.                            *)
KeptIn(S, u) == \E e \in S : ContentHash(e) = ContentHash(u)

(* An importer is at work on a file.                                       *)
WorksOn(r, f) == r.at \in {"staging", "full"} /\ r.file = f

(* The row of a file says where its importer is, and what it is past was   *)
(* ever stored.                                                            *)
Counted(row, r, S) ==
    /\ row.state = "staging" /\ row.total = Len(r.units)
    /\ row.processed + row.skipped = r.next - 1
    /\ \A i \in 1..(r.next - 1) : KeptIn(S, r.units[i])

(* A row that is complete: it covers what was read of the file at some     *)
(* length.                                                                 *)
Covered(row, reading, n, S) ==
    /\ row.processed + row.skipped = row.total
    /\ row.total = Len(reading[n])
    /\ \A i \in 1..row.total : KeptIn(S, reading[n][i])

(* A file in alone: one importer at most, which its row counts, and a      *)
(* completed row covers.                                                   *)
AloneAt(f) ==
    /\ \A p, q \in Importers : WorksOn(runs[p], f) /\ WorksOn(runs[q], f) => p = q
    /\ \A p \in Importers : WorksOn(runs[p], f) => Counted(batches[f], runs[p], EverStored)
    /\ batches[f].state = "completed" =>
          \E n \in 0..length[f] : Covered(batches[f], Reading[history][f], n, EverStored)

AloneInv == \A f \in alone : AloneAt(f)

(* What was ever stored stays so.                                          *)
LEMMA KeptStays ==
    ASSUME NEW S, NEW T, S \subseteq T, NEW u, KeptIn(S, u)
    PROVE  KeptIn(T, u)
BY DEF KeptIn

LEMMA CountedStays ==
    ASSUME NEW S, NEW T, S \subseteq T, NEW row, NEW r, Counted(row, r, S)
    PROVE  Counted(row, r, T)
BY KeptStays DEF Counted

LEMMA CoveredStays ==
    ASSUME NEW S, NEW T, S \subseteq T, NEW row, NEW reading, NEW n, Covered(row, reading, n, S)
    PROVE  Covered(row, reading, n, T)
BY KeptStays DEF Covered

(* The content that was ever stored only grows.                            *)
LEMMA EverMore ==
    ASSUME NeverStoredTwice, ImportShape, [Next]_vars
    PROVE  EverStored \subseteq EverStored'
<1>1. CASE DOMAIN stored \subseteq DOMAIN stored' /\ swept' = swept
    BY <1>1 DEF EverStored
<1>2. ASSUME NEW f \in Files, Grow(f) PROVE EverStored \subseteq EverStored'
    BY <1>1, <1>2 DEF Grow, store, bounds
<1>3. CASE JobSettles
    BY <1>1, <1>3 DEF JobSettles, bounds
<1>4. ASSUME NEW u \in DOMAIN stored, Retain(u) PROVE EverStored \subseteq EverStored'
    <2>1. DOMAIN stored' = DOMAIN stored \ {u} /\ swept' = swept \cup {u}
        BY <1>4, RetainTakes DEF Retain
    <2> QED  BY <2>1 DEF EverStored
<1>5. ASSUME NEW p \in Importers, ImportStep(p) \/ Fail(p) PROVE EverStored \subseteq EverStored'
    <2>1. CASE StartImport(p) \/ Fail(p)
        BY <1>1, <2>1 DEF StartImport, Fail, store, bounds
    <2>2. CASE OpenFile(p)
        BY <1>1, <2>2 DEF OpenFile, store, bounds
    <2>3. CASE StageUnit(p)
        <3>1. swept' = swept /\ (Skipped(p) \/ Staged(p) \/ Stopped(p))
            BY <2>3, StageCases
        <3>2. CASE Staged(p)
            BY <1>1, <3>1, <3>2, StagedAdds
        <3>3. CASE stored' = stored
            BY <1>1, <3>1, <3>3
        <3> QED  BY <3>1, <3>2, <3>3 DEF Skipped, Stopped
    <2>4. CASE CloseBatch(p)
        BY <1>1, <2>4 DEF CloseBatch, bounds
    <2> QED  BY <1>5, <2>1, <2>2, <2>3, <2>4 DEF ImportStep
<1>6. CASE UNCHANGED vars
    BY <1>1, <1>6 DEF vars, store, bounds
<1> QED  BY <1>2, <1>3, <1>4, <1>5, <1>6 DEF Next

(* What others do leaves a file as it was.                                 *)
LEMMA AloneFrame ==
    ASSUME NEW f, AloneAt(f), history' = history, length[f] \in Nat, length'[f] \in Nat,
           length[f] <= length'[f], batches'[f] = batches[f], EverStored \subseteq EverStored',
           \A p \in Importers : WorksOn(runs'[p], f) => WorksOn(runs[p], f) /\ runs'[p] = runs[p]
    PROVE  AloneAt(f)'
<1>1. ASSUME NEW p \in Importers, NEW q \in Importers, WorksOn(runs'[p], f), WorksOn(runs'[q], f)
      PROVE  p = q
    <2>1. WorksOn(runs[p], f) /\ WorksOn(runs[q], f)
        BY <1>1
    <2> QED  BY <2>1 DEF AloneAt
<1>2. ASSUME NEW p \in Importers, WorksOn(runs'[p], f)
      PROVE  Counted(batches'[f], runs'[p], EverStored')
    <2>1. Counted(batches[f], runs[p], EverStored) /\ runs'[p] = runs[p]
        BY <1>2 DEF AloneAt
    <2>2. Counted(batches[f], runs[p], EverStored')
        BY <2>1, CountedStays
    <2> QED  BY <2>1, <2>2
<1>3. ASSUME batches'[f].state = "completed"
      PROVE  \E n \in 0..length'[f] : Covered(batches'[f], Reading[history'][f], n, EverStored')
    <2>1. PICK n \in 0..length[f] : Covered(batches[f], Reading[history][f], n, EverStored)
        BY <1>3 DEF AloneAt
    <2>2. Covered(batches[f], Reading[history][f], n, EverStored')
        BY <2>1, CoveredStays
    <2>3. n \in 0..length'[f]
        OBVIOUS
    <2> QED  BY <2>2, <2>3
<1> QED  BY <1>1, <1>2, <1>3 DEF AloneAt

(* The first unit is the next.                                             *)
LEMMA CountedAtFirst ==
    ASSUME NEW row, NEW r, NEW S, row.state = "staging", row.total = Len(r.units),
           row.processed = 0, row.skipped = 0, r.next = 1
    PROVE  Counted(row, r, S)
<1>1. 1..(r.next - 1) = {}
    OBVIOUS
<1>2. row.processed + row.skipped = r.next - 1
    OBVIOUS
<1> QED  BY <1>1, <1>2 DEF Counted

(* Opening a file alone resets its row; the others stay as they are.       *)
LEMMA OpenAlone ==
    ASSUME ImportShape, AloneInv, NEW p \in Importers, OpenFile(p), EverStored \subseteq EverStored'
    PROVE  AloneInv'
<1>1. PICK g : g = runs[p].file
    OBVIOUS
<1>2. history' = history /\ length' = length
    BY DEF OpenFile
<1>3. \A f \in Files : length[f] \in Nat
    BY DEF ImportShape
<1>4. \A q \in Importers \ {p} : runs'[q] = runs[q]
    BY OpenShape
<1>5. CASE batches' = batches /\ alone' = alone /\ runs'[p].at \in {"idle", "open"}
    <2>1. ASSUME NEW f \in alone PROVE AloneAt(f)'
        <3>1. f \in Files /\ AloneAt(f)
            BY DEF ImportShape, AloneInv
        <3>2. \A q \in Importers : WorksOn(runs'[q], f) => WorksOn(runs[q], f) /\ runs'[q] = runs[q]
            BY <1>4, <1>5 DEF WorksOn
        <3> QED  BY <1>2, <1>3, <1>5, <3>1, <3>2, AloneFrame
    <2> QED  BY <1>5, <2>1 DEF AloneInv
<1>6. CASE /\ runs'[p] = StagingRun(g)
           /\ g \in Files
           /\ batches'[g] = Restarted(batches[g], Len(UnitsOf(g)))
           /\ \A f \in Files \ {g} : batches'[f] = batches[f]
           /\ alone' = IF \E q \in Importers \ {p} : runs[q].file = g
                                                  /\ runs[q].at \in {"staging", "full"}
                       THEN alone \ {g} ELSE alone \cup {g}
    <2>1. /\ runs'[p].at = "staging" /\ runs'[p].file = g
          /\ runs'[p].units = UnitsOf(g) /\ runs'[p].next = 1
        BY <1>6, StagingRunOf
    <2>2. ASSUME NEW f \in alone', f # g PROVE AloneAt(f)'
        <3>1. f \in Files /\ AloneAt(f)
            BY <1>6, <2>2 DEF ImportShape, AloneInv
        <3>2. \A q \in Importers : WorksOn(runs'[q], f) => WorksOn(runs[q], f) /\ runs'[q] = runs[q]
            BY <1>4, <2>1, <2>2 DEF WorksOn
        <3>3. batches'[f] = batches[f]
            BY <1>6, <2>2, <3>1
        <3> QED  BY <1>2, <1>3, <3>1, <3>2, <3>3, AloneFrame
    <2>3. ASSUME g \in alone' PROVE AloneAt(g)'
        <3>1. ~ \E q \in Importers \ {p} : runs[q].file = g /\ runs[q].at \in {"staging", "full"}
            BY <1>6, <2>3
        <3>2. \A q \in Importers : WorksOn(runs'[q], g) => q = p
            BY <1>4, <3>1 DEF WorksOn
        <3>3. /\ batches'[g].state = "staging" /\ batches'[g].total = Len(UnitsOf(g))
              /\ batches'[g].processed = 0 /\ batches'[g].skipped = 0
            BY <1>6, UnitsRead, OpenedRow
        <3>4. Counted(batches'[g], runs'[p], EverStored')
            BY <2>1, <3>3, CountedAtFirst
        <3>5. ASSUME NEW q \in Importers, WorksOn(runs'[q], g)
              PROVE  Counted(batches'[g], runs'[q], EverStored')
            <4>1. q = p
                BY <3>2, <3>5
            <4> QED  BY <3>4, <4>1
        <3>6. ASSUME NEW q \in Importers, NEW r \in Importers,
                     WorksOn(runs'[q], g), WorksOn(runs'[r], g)
              PROVE  q = r
            BY <3>2, <3>6
        <3> QED  BY <3>3, <3>5, <3>6 DEF AloneAt
    <2> QED  BY <2>2, <2>3 DEF AloneInv
<1> QED  BY <1>1, <1>5, <1>6, OpenShape

(* One unit more is counted, and was ever stored.                          *)
LEMMA CountedMore ==
    ASSUME NEW b, NEW c, NEW r, NEW s, NEW S, NEW T, Counted(b, r, S), S \subseteq T, CountsOn(b, c),
           r.next \in Nat \ {0}, s.units = r.units, s.next = r.next + 1,
           KeptIn(T, r.units[r.next]), b.processed \in Nat, b.skipped \in Nat
    PROVE  Counted(c, s, T)
<1>1. PICK k \in Nat \ {0} : r.next = k
    OBVIOUS
<1>2. PICK units : r.units = units
    OBVIOUS
<1>3. c.state = "staging" /\ c.total = Len(units)
    BY <1>2 DEF Counted, CountsOn
<1>4. c.processed + c.skipped = s.next - 1
    <2>1. b.processed + b.skipped = k - 1 /\ b.processed + b.skipped \in Nat
        BY <1>1 DEF Counted
    <2>2. c.processed + c.skipped = (k - 1) + 1
        BY <2>1 DEF CountsOn
    <2> QED  BY <1>1, <2>2
<1>5. \A i \in 1..(k - 1) : KeptIn(S, units[i])
    BY <1>1, <1>2 DEF Counted
<1>6. KeptIn(T, units[k])
    BY <1>1, <1>2
<1>7. ASSUME NEW i \in 1..k PROVE KeptIn(T, units[i])
    <2>1. CASE i = k
        BY <1>6, <2>1
    <2>2. CASE i # k
        <3>1. i \in 1..(k - 1)
            BY <2>2
        <3> QED  BY <1>5, <3>1, KeptStays
    <2> QED  BY <2>1, <2>2
<1>8. s.next - 1 = k
    BY <1>1
<1> QED  BY <1>2, <1>3, <1>4, <1>7, <1>8 DEF Counted

(* The unit an importer is past was ever stored.                           *)
LEMMA PastIsKept ==
    ASSUME NEW p, Skipped(p) \/ Staged(p), EverStored \subseteq EverStored'
    PROVE  KeptIn(EverStored', runs[p].units[runs[p].next])
<1> DEFINE u == runs[p].units[runs[p].next]
<1>1. CASE Skipped(p)
    <2>1. PICK e \in DOMAIN stored : ContentHash(e) = ContentHash(u)
        BY <1>1 DEF Skipped, Already
    <2>2. e \in EverStored'
        BY <2>1 DEF EverStored
    <2> QED  BY <2>1, <2>2 DEF KeptIn
<1>2. CASE Staged(p)
    <2> DEFINE e == EventOf(u)
    <2>1. e \in EverStored'
        BY <1>2, StagedAdds DEF EverStored
    <2>2. ContentHash(e) = ContentHash(u)
        BY StoredHash
    <2> HIDE DEF e, u
    <2> QED  BY <2>1, <2>2 DEF KeptIn, u
<1> QED  BY <1>1, <1>2

(* A unit more, of the one importer of its file.                           *)
LEMMA StageAlone ==
    ASSUME ImportShape, AloneInv, NEW p \in Importers, StageUnit(p), EverStored \subseteq EverStored'
    PROVE  AloneInv'
<1>1. PICK g : g = runs[p].file
    OBVIOUS
<1>2. /\ runs[p].at = "staging" /\ runs[p].next <= Len(runs[p].units)
      /\ history' = history /\ length' = length /\ alone' = alone
      /\ Skipped(p) \/ Staged(p) \/ Stopped(p)
    BY StageCases
<1>3. \A f \in Files : length[f] \in Nat
    BY DEF ImportShape
<1>4. /\ g \in Files /\ batches[g] \in BatchRow /\ runs[p].next \in Nat \ {0}
    BY <1>1, <1>2, AtWork DEF ImportShape
<1>5. CASE Skipped(p) \/ Staged(p)
    <2>1. /\ runs'[p].at = "staging" /\ runs'[p].file = g
          /\ runs'[p].units = runs[p].units /\ runs'[p].next = runs[p].next + 1
          /\ \A q \in Importers \ {p} : runs'[q] = runs[q]
          /\ CountsOn(batches[g], batches'[g])
          /\ \A f \in Files \ {g} : batches'[f] = batches[f]
        BY <1>1, <1>2, <1>5, CountedShape
    <2>2. ASSUME NEW f \in alone, f # g PROVE AloneAt(f)'
        <3>1. f \in Files /\ AloneAt(f)
            BY DEF ImportShape, AloneInv
        <3>2. \A q \in Importers : WorksOn(runs'[q], f) => WorksOn(runs[q], f) /\ runs'[q] = runs[q]
            BY <2>1, <2>2 DEF WorksOn
        <3>3. batches'[f] = batches[f]
            BY <2>1, <2>2, <3>1
        <3> QED  BY <1>2, <1>3, <3>1, <3>2, <3>3, AloneFrame
    <2>3. ASSUME g \in alone PROVE AloneAt(g)'
        <3>1. AloneAt(g) /\ WorksOn(runs[p], g)
            BY <1>1, <1>2, <2>3 DEF AloneInv, WorksOn
        <3>2. Counted(batches[g], runs[p], EverStored)
            BY <3>1 DEF AloneAt
        <3>3. ASSUME NEW q \in Importers, WorksOn(runs'[q], g) PROVE q = p
            <4>1. CASE q # p
                <5>1. WorksOn(runs[q], g)
                    BY <2>1, <3>3, <4>1
                <5> QED  BY <3>1, <5>1 DEF AloneAt
            <4> QED  BY <4>1
        <3>4. KeptIn(EverStored', runs[p].units[runs[p].next])
            BY <1>5, PastIsKept
        <3>5. batches[g].processed \in Nat /\ batches[g].skipped \in Nat
            BY <1>4, CountedRow
        <3>6. Counted(batches'[g], runs'[p], EverStored')
            BY <1>4, <2>1, <3>2, <3>4, <3>5, CountedMore
        <3>7. batches'[g].state = "staging"
            BY <3>6 DEF Counted
        <3>8. ASSUME NEW q \in Importers, WorksOn(runs'[q], g)
              PROVE  Counted(batches'[g], runs'[q], EverStored')
            <4>1. q = p
                BY <3>3, <3>8
            <4> QED  BY <3>6, <4>1
        <3>9. ASSUME NEW q \in Importers, NEW r \in Importers,
                     WorksOn(runs'[q], g), WorksOn(runs'[r], g)
              PROVE  q = r
            BY <3>3, <3>9
        <3> QED  BY <3>7, <3>8, <3>9 DEF AloneAt
    <2> QED  BY <1>2, <2>2, <2>3 DEF AloneInv
<1>6. CASE Stopped(p)
    <2>1. /\ runs'[p].at = "full" /\ runs'[p].file = g
          /\ runs'[p].units = runs[p].units /\ runs'[p].next = runs[p].next
          /\ \A q \in Importers \ {p} : runs'[q] = runs[q]
          /\ batches' = batches
        BY <1>1, <1>2, <1>6, StoppedShape
    <2>2. ASSUME NEW f \in alone, f # g PROVE AloneAt(f)'
        <3>1. f \in Files /\ AloneAt(f)
            BY DEF ImportShape, AloneInv
        <3>2. \A q \in Importers : WorksOn(runs'[q], f) => WorksOn(runs[q], f) /\ runs'[q] = runs[q]
            BY <2>1, <2>2 DEF WorksOn
        <3> QED  BY <1>2, <1>3, <2>1, <3>1, <3>2, AloneFrame
    <2>3. ASSUME g \in alone PROVE AloneAt(g)'
        <3>1. AloneAt(g) /\ WorksOn(runs[p], g)
            BY <1>1, <1>2, <2>3 DEF AloneInv, WorksOn
        <3>2. Counted(batches[g], runs[p], EverStored')
            <4>1. Counted(batches[g], runs[p], EverStored)
                BY <3>1 DEF AloneAt
            <4> QED  BY <4>1, CountedStays
        <3>3. ASSUME NEW q \in Importers, WorksOn(runs'[q], g) PROVE q = p
            <4>1. CASE q # p
                <5>1. WorksOn(runs[q], g)
                    BY <2>1, <3>3, <4>1
                <5> QED  BY <3>1, <5>1 DEF AloneAt
            <4> QED  BY <4>1
        <3>4. Counted(batches'[g], runs'[p], EverStored')
            BY <2>1, <3>2 DEF Counted
        <3>5. batches'[g].state = "staging"
            BY <3>4 DEF Counted
        <3>6. ASSUME NEW q \in Importers, WorksOn(runs'[q], g)
              PROVE  Counted(batches'[g], runs'[q], EverStored')
            <4>1. q = p
                BY <3>3, <3>6
            <4> QED  BY <3>4, <4>1
        <3>7. ASSUME NEW q \in Importers, NEW r \in Importers,
                     WorksOn(runs'[q], g), WorksOn(runs'[r], g)
              PROVE  q = r
            BY <3>3, <3>7
        <3> QED  BY <3>5, <3>6, <3>7 DEF AloneAt
    <2> QED  BY <1>2, <2>2, <2>3 DEF AloneInv
<1> QED  BY <1>2, <1>5, <1>6

(* A file that ends with all its units counted is covered.                 *)
LEMMA CloseAlone ==
    ASSUME ImportShape, AloneInv, NEW p \in Importers, CloseBatch(p), EverStored \subseteq EverStored'
    PROVE  AloneInv'
<1>1. PICK g : g = runs[p].file
    OBVIOUS
<1>2. /\ history' = history /\ length' = length /\ alone' = alone
      /\ runs[p].at \in {"staging", "full"}
    BY CloseShape DEF CloseBatch
<1>3. \A f \in Files : length[f] \in Nat
    BY DEF ImportShape
<1>4. /\ runs'[p].at \in {"idle", "open"}
      /\ \A q \in Importers \ {p} : runs'[q] = runs[q]
      /\ \A f \in Files \ {g} : batches'[f] = batches[f]
      /\ batches'[g].processed = batches[g].processed
      /\ batches'[g].skipped = batches[g].skipped
      /\ batches'[g].total = batches[g].total
      /\ \/ batches'[g].state = "paused"
         \/ batches'[g].state = "completed" /\ runs[p].next > Len(runs[p].units)
    BY <1>1, CloseShape
<1>5. ASSUME NEW f \in alone, f # g PROVE AloneAt(f)'
    <2>1. f \in Files /\ AloneAt(f)
        BY DEF ImportShape, AloneInv
    <2>2. \A q \in Importers : WorksOn(runs'[q], f) => WorksOn(runs[q], f) /\ runs'[q] = runs[q]
        BY <1>4 DEF WorksOn
    <2>3. batches'[f] = batches[f]
        BY <1>4, <1>5, <2>1
    <2> QED  BY <1>2, <1>3, <2>1, <2>2, <2>3, AloneFrame
<1>6. ASSUME g \in alone PROVE AloneAt(g)'
    <2>1. AloneAt(g) /\ WorksOn(runs[p], g)
        BY <1>1, <1>2, <1>6 DEF AloneInv, WorksOn
    <2>2. Counted(batches[g], runs[p], EverStored')
        <3>1. Counted(batches[g], runs[p], EverStored)
            BY <2>1 DEF AloneAt
        <3> QED  BY <3>1, CountedStays
    <2>3. ASSUME NEW q \in Importers PROVE ~WorksOn(runs'[q], g)
        <3>1. CASE q = p
            BY <1>4, <3>1 DEF WorksOn
        <3>2. CASE q # p
            <4>1. runs'[q] = runs[q]
                BY <1>4, <3>2
            <4>2. WorksOn(runs[q], g) => q = p
                BY <2>1 DEF AloneAt
            <4> QED  BY <3>2, <4>1, <4>2
        <3> QED  BY <3>1, <3>2
    <2>4. ASSUME batches'[g].state = "completed"
          PROVE  \E n \in 0..length'[g] : Covered(batches'[g], Reading[history'][g], n, EverStored')
        <3>1. PICK n \in 0..length[g] : runs[p].units = Reading[history][g][n]
            BY <1>1, <1>2, AtWork
        <3>2. PICK k : runs[p].next = k
            OBVIOUS
        <3>3. PICK units : runs[p].units = units
            OBVIOUS
        <3>4. Len(units) \in Nat /\ k \in Nat \ {0} /\ k <= Len(units) + 1 /\ k > Len(units)
            BY <1>2, <1>4, <2>4, <3>2, <3>3, AtWork
        <3>5. k - 1 = Len(units)
            BY <3>4
        <3>6. batches'[g].processed + batches'[g].skipped = Len(units)
              /\ batches'[g].total = Len(units) /\ \A i \in 1..Len(units) : KeptIn(EverStored', units[i])
            BY <1>4, <2>2, <3>2, <3>3, <3>5 DEF Counted
        <3>7. Covered(batches'[g], Reading[history][g], n, EverStored')
            BY <3>1, <3>3, <3>6 DEF Covered
        <3> QED  BY <1>2, <3>7
    <2> QED  BY <2>3, <2>4 DEF AloneAt
<1> QED  BY <1>2, <1>5, <1>6 DEF AloneInv

(* The invariant holds at the start and after every step.                  *)
LEMMA AloneInit == Init => AloneInv
<1> SUFFICES ASSUME Init, NEW f \in alone PROVE AloneAt(f)
    BY DEF AloneInv
<1>1. runs = [p \in Importers |-> Idle] /\ batches = [g \in Files |-> NoBatch] /\ f \in Files
    BY DEF Init
<1>2. batches[f].state = "absent"
    BY <1>1 DEF NoBatch
<1>3. \A p \in Importers : ~WorksOn(runs[p], f)
    BY <1>1 DEF WorksOn, Idle
<1> QED  BY <1>2, <1>3 DEF AloneAt

LEMMA AloneStep ==
    ASSUME NeverStoredTwice, ImportShape, AloneInv, [Next]_vars
    PROVE  AloneInv'
<1>1. EverStored \subseteq EverStored'
    BY EverMore
<1>2. \A f \in Files : length[f] \in Nat
    BY DEF ImportShape
<1>3. ASSUME history' = history, \A f \in Files : length'[f] \in Nat /\ length[f] <= length'[f],
             batches' = batches, alone' = alone,
             \A p \in Importers : runs'[p] = runs[p] \/ runs'[p].at \in {"idle", "open"}
      PROVE  AloneInv'
    <2>1. ASSUME NEW f \in alone PROVE AloneAt(f)'
        <3>1. f \in Files /\ AloneAt(f)
            BY DEF ImportShape, AloneInv
        <3>2. \A p \in Importers : WorksOn(runs'[p], f) => WorksOn(runs[p], f) /\ runs'[p] = runs[p]
            BY <1>3 DEF WorksOn
        <3> QED  BY <1>1, <1>2, <1>3, <3>1, <3>2, AloneFrame
    <2> QED  BY <1>3, <2>1 DEF AloneInv
<1>4. ASSUME history' = history, length' = length, batches' = batches, alone' = alone,
             \A p \in Importers : runs'[p] = runs[p] \/ runs'[p].at \in {"idle", "open"}
      PROVE  AloneInv'
    BY <1>2, <1>3, <1>4
<1>5. ASSUME NEW g \in Files, Grow(g) PROVE AloneInv'
    <2>1. batches' = batches /\ alone' = alone /\ runs' = runs
        BY <1>5 DEF Grow, store
    <2>2. /\ \A f \in Files : length'[f] \in Nat /\ length[f] \in Nat /\ length[f] <= length'[f]
          /\ history' = history
        BY <1>5, GrowShape
    <2> QED  BY <1>3, <2>1, <2>2
<1>6. CASE JobSettles
    BY <1>4, <1>6 DEF JobSettles
<1>7. ASSUME NEW u \in DOMAIN stored, Retain(u) PROVE AloneInv'
    BY <1>4, <1>7 DEF Retain
<1>8. ASSUME NEW p \in Importers, ImportStep(p) \/ Fail(p) PROVE AloneInv'
    <2>1. CASE StartImport(p)
        <3>1. runs' = [runs EXCEPT ![p] = Open(1)] /\ runs \in [Importers -> Run]
            BY <2>1 DEF StartImport, ImportShape
        <3>2. Open(1).at = "open"
            BY OpenRun
        <3>3. \A q \in Importers : runs'[q] = runs[q] \/ runs'[q].at = "open"
            BY <3>1, <3>2
        <3> QED  BY <1>4, <2>1, <3>3 DEF StartImport, store
    <2>2. CASE OpenFile(p)
        BY <1>1, <2>2, OpenAlone
    <2>3. CASE StageUnit(p)
        BY <1>1, <2>3, StageAlone
    <2>4. CASE CloseBatch(p)
        BY <1>1, <2>4, CloseAlone
    <2>5. CASE Fail(p)
        <3>1. \A q \in Importers : runs'[q] = runs[q] \/ runs'[q].at = "idle"
            BY <2>5, FailShape, NoRun
        <3> QED  BY <1>4, <2>5, <3>1 DEF Fail, store
    <2> QED  BY <1>8, <2>1, <2>2, <2>3, <2>4, <2>5 DEF ImportStep
<1>9. CASE UNCHANGED vars
    BY <1>4, <1>9 DEF vars, store
<1> QED  BY <1>5, <1>6, <1>7, <1>8, <1>9 DEF Next

(* What a completed row covers starts what the file says now.              *)
LEMMA CoveredNow ==
    ASSUME ImportShape, AloneInv, NEW f \in alone, batches[f].state = "completed"
    PROVE  /\ batches[f].processed + batches[f].skipped = batches[f].total
           /\ Agent # "opencode" /\ UnitsOf(f) # <<>> =>
                \A i \in 1..batches[f].total : KeptIn(EverStored, UnitsOf(f)[i])
<1>1. f \in Files /\ AloneAt(f)
    BY DEF ImportShape, AloneInv
<1>2. PICK n \in 0..length[f] : Covered(batches[f], Reading[history][f], n, EverStored)
    BY <1>1 DEF AloneAt
<1> DEFINE r == Reading[history][f][n]
           total == batches[f].total
<1>3. batches[f].processed + batches[f].skipped = total /\ total = Len(r)
      /\ \A i \in 1..total : KeptIn(EverStored, r[i])
    BY <1>2 DEF Covered
<1>4. ASSUME Agent # "opencode", UnitsOf(f) # <<>>
      PROVE  \A i \in 1..total : KeptIn(EverStored, UnitsOf(f)[i])
    <2>1. /\ history \in DOMAIN Histories /\ f \in DOMAIN Histories[history].files
          /\ length[f] \in 0..Len(Histories[history].files[f]) /\ n \in 0..length[f]
        BY <1>1 DEF ImportShape, Files, Lines
    <2>2. Histories[history].agent # "opencode" /\ Reading[history][f][length[f]] # <<>>
        BY <1>4 DEF Agent, UnitsOf
    <2>3. Starts(r, UnitsOf(f))
        BY <2>1, <2>2, ReadingGrows DEF UnitsOf
    <2> HIDE DEF r, total
    <2>4. \A i \in 1..total : UnitsOf(f)[i] = r[i]
        BY <1>3, <2>3 DEF Starts
    <2> QED  BY <1>3, <2>4
<1> QED  BY <1>3, <1>4

(* However importers race, fail, pause and are started again while the     *)
(* files grow: a completed row of a file that never had two importers at   *)
(* once counts every unit, and each of them was stored (store.rs:          *)
(* begin_import_batch, finish_import_batch).                               *)
THEOREM CompletedImportsAreStaged == Spec => []CompletedIsStaged
<1>1. Init => ImportShape /\ AloneInv
    BY ShapeInit, AloneInit
<1>2. NeverStoredTwice /\ ImportShape /\ AloneInv /\ [Next]_vars => (ImportShape /\ AloneInv)'
    BY ShapeStep, AloneStep
<1>3. ImportShape /\ AloneInv => CompletedIsStaged
    BY CoveredNow DEF CompletedIsStaged, KeptIn, EverStored
<1> QED  BY <1>1, <1>2, <1>3, ImportsNeverStoreTwice, PTL DEF Spec

-----------------------------------------------------------------------------
(* Types.                                                                  *)

(* A bag is a function; the counters stay within their bounds.             *)
ABag(b) == b = [e \in DOMAIN b |-> b[e]]

BoundsInv ==
    /\ active \in 0..MaxActiveJobs
    /\ failures \in 0..MaxFailures
    /\ ABag(stored)

(* Every step keeps the bounds.                                            *)
LEMMA BoundsStep ==
    ASSUME BoundsInv, [Next]_vars
    PROVE  BoundsInv'
<1>1. active \in Nat /\ MaxActiveJobs \in Nat /\ active <= MaxActiveJobs
      /\ failures \in Nat /\ MaxFailures \in Nat /\ failures <= MaxFailures
    BY ImportCapsAssumption DEF BoundsInv
<1>2. CASE active' = active /\ failures' = failures /\ stored' = stored
    BY <1>2 DEF BoundsInv
<1>3. ASSUME NEW f \in Files, Grow(f) PROVE BoundsInv'
    BY <1>2, <1>3 DEF Grow, store, bounds
<1>4. CASE JobSettles
    <2>1. active' \in 0..MaxActiveJobs
        BY <1>1, <1>4 DEF JobSettles
    <2> QED  BY <1>4, <2>1 DEF BoundsInv, JobSettles, bounds
<1>5. ASSUME NEW u \in DOMAIN stored, Retain(u) PROVE BoundsInv'
    <2>1. ABag(stored')
        BY <1>5 DEF Retain, ABag, (-)
    <2> QED  BY <1>5, <2>1 DEF BoundsInv, Retain
<1>6. ASSUME NEW p \in Importers, ImportStep(p) \/ Fail(p) PROVE BoundsInv'
    <2>1. CASE StartImport(p)
        BY <1>2, <2>1 DEF StartImport, store, bounds
    <2>2. CASE OpenFile(p)
        BY <1>2, <2>2 DEF OpenFile, store, bounds
    <2>3. CASE StageUnit(p)
        <3>1. CASE HasRoom /\ active' = active + 1
                    /\ stored' = stored (+) SetToBag({EventOf(runs[p].units[runs[p].next])})
            <4>1. active' \in 0..MaxActiveJobs
                BY <1>1, <3>1 DEF HasRoom
            <4>2. ABag(stored')
                BY <3>1 DEF ABag, (+)
            <4> QED  BY <2>3, <4>1, <4>2 DEF BoundsInv, StageUnit, bounds
        <3> QED  BY <1>2, <2>3, <3>1 DEF StageUnit, bounds
    <2>4. CASE CloseBatch(p)
        BY <1>2, <2>4 DEF CloseBatch, bounds
    <2>5. CASE Fail(p)
        <3>1. failures' \in 0..MaxFailures
            BY <1>1, <2>5 DEF Fail
        <3> QED  BY <2>5, <3>1 DEF BoundsInv, Fail, store
    <2> QED  BY <1>6, <2>1, <2>2, <2>3, <2>4, <2>5 DEF ImportStep
<1>7. CASE UNCHANGED vars
    BY <1>2, <1>7 DEF vars, store, bounds
<1> QED  BY <1>3, <1>4, <1>5, <1>6, <1>7 DEF Next

(* The shape, the bounds and the single copies make the types.             *)
LEMMA TypesHold == NeverStoredTwice /\ ImportShape /\ BoundsInv => TypeOK
<1> SUFFICES ASSUME NeverStoredTwice, ImportShape, BoundsInv PROVE TypeOK
    OBVIOUS
<1>1. IsABag(stored)
    <2>1. \A e \in DOMAIN stored : stored[e] \in {n \in Nat : n > 0}
        BY DEF NeverStoredTwice
    <2> QED  BY <2>1 DEF BoundsInv, ABag, IsABag
<1>2. \A p \in Importers : runs[p].at \in {"idle", "open", "staging", "full"}
    BY DEF ImportShape, Run
<1> QED  BY <1>1, <1>2 DEF ImportShape, BoundsInv, TypeOK

(* Any number of importers, any histories and any caps keep the types, and *)
(* the embed queue within its depth.                                       *)
THEOREM ImportTypes == Spec => []TypeOK
<1>1. Init => ImportShape /\ BoundsInv
    <2>1. Init => BoundsInv
        BY ImportCapsAssumption DEF Init, BoundsInv, ABag, EmptyBag, SetToBag
    <2> QED  BY <2>1, ShapeInit
<1>2. ImportShape /\ BoundsInv /\ [Next]_vars => (ImportShape /\ BoundsInv)'
    BY ShapeStep, BoundsStep
<1> QED  BY <1>1, <1>2, TypesHold, ImportsNeverStoreTwice, PTL DEF Spec

=============================================================================
