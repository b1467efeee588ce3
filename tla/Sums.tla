-------------------------------- MODULE Sums --------------------------------
(***************************************************************************)
(* Sums over finite sets, for the proofs about what is billed and what is  *)
(* used: the sums of the models take elements as CHOOSE gives them, and a  *)
(* proof needs that the order does not matter; and sequences put together  *)
(* from others, for those about lists of steps.  Induction is by the least *)
(* number for which something would be wrong.                              *)
(***************************************************************************)
EXTENDS Integers, FiniteSetTheorems, SequenceTheorems, WellFoundedInduction, TLAPS

-----------------------------------------------------------------------------
(* The least number *)

Less == {ss \in Nat \X Nat : ss[1] < ss[2]}

\* The library's order on the naturals is this set.
LEMMA LessIs == OpToRel(<, Nat) = Less
BY DEF OpToRel, Less

LEMMA LessWF == IsWellFoundedOn(Less, Nat)
BY NatLessThanWellFounded, LessIs

LEMMA InLess == \A k, l \in Nat : k < l => <<k, l>> \in Less
BY DEF Less

\* A set of naturals that is not empty has a least element.
LEMMA LeastNat ==
  ASSUME NEW T, T \subseteq Nat, T # {}
  PROVE  \E n \in T : \A k \in T : n <= k
<1>1. PICK n \in T : \A k \in T : <<k, n>> \notin Less
  BY LessWF, WFMin
<1>2. ASSUME NEW k \in T PROVE n <= k
  <2>1. k \in Nat /\ n \in Nat
    OBVIOUS
  <2>2. ~(k < n)
    BY <1>1, <2>1, InLess
  <2> QED BY <2>1, <2>2
<1> QED BY <1>2

-----------------------------------------------------------------------------
(* The sum of the values of a function f over a set *)

Some(S) == CHOOSE x \in S : TRUE

Term(f, g, S) == IF S = {} THEN 0 ELSE f[Some(S)] + g[S \ {Some(S)}]

\* g adds up the values of f over the sets in D.
AddsUp(f, D, g) == g = [S \in D |-> Term(f, g, S)]

SumOf(f, B) == LET sum == CHOOSE g : AddsUp(f, SUBSET B, g) IN sum[B]

\* What CHOOSE takes from a set is in it, and what is left is smaller.
LEMMA SomeIn == ASSUME NEW S, S # {} PROVE Some(S) \in S
BY DEF Some

\* Subsets of B with at most n elements.
Small(B, n) == {S \in SUBSET B : Cardinality(S) <= n}

LEMMA Smaller ==
  ASSUME NEW S, IsFiniteSet(S), NEW x \in S
  PROVE  /\ IsFiniteSet(S \ {x}) /\ Cardinality(S \ {x}) = Cardinality(S) - 1
         /\ Cardinality(S) \in Nat \ {0} /\ Cardinality(S \ {x}) \in Nat
<1>1. IsFiniteSet(S \ {x}) /\ Cardinality(S \ {x}) = Cardinality(S) - 1
  BY FS_RemoveElement
<1>2. Cardinality(S) \in Nat /\ Cardinality(S \ {x}) \in Nat
  BY <1>1, FS_CardinalityType
<1> QED BY <1>1, <1>2

\* There is a function that adds up: over sets of n elements if there is one over sets of
\* fewer.
LEMMA SumsExist ==
  ASSUME NEW B, IsFiniteSet(B), NEW f
  PROVE  \A n \in Nat : \E g : AddsUp(f, Small(B, n), g)
<1> DEFINE T == {n \in Nat : ~\E g : AddsUp(f, Small(B, n), g)}
<1> SUFFICES ASSUME T # {} PROVE FALSE
  OBVIOUS
<1>1. PICK n \in T : \A k \in T : n <= k
  BY LeastNat
<1>2. ASSUME NEW S \in SUBSET B PROVE IsFiniteSet(S) /\ Cardinality(S) \in Nat /\ (Cardinality(S) = 0 <=> S = {})
  BY FS_Subset, FS_CardinalityType, FS_EmptySet
<1>3. CASE n = 0
  <2> DEFINE g == [S \in Small(B, 0) |-> 0]
  <2>1. \A S \in Small(B, 0) : S = {}
    BY <1>2 DEF Small
  <2>2. AddsUp(f, Small(B, 0), g)
    BY <2>1 DEF AddsUp, Term
  <2> QED BY <1>1, <1>3, <2>2
<1>4. CASE n # 0
  <2>1. n - 1 \in Nat /\ n - 1 \notin T
    BY <1>1, <1>4
  <2>2. PICK h : AddsUp(f, Small(B, n - 1), h)
    BY <2>1
  <2> DEFINE g == [S \in Small(B, n) |-> Term(f, h, S)]
  <2>3. ASSUME NEW S \in Small(B, n - 1) PROVE g[S] = h[S]
    <3>1. S \in Small(B, n)
      BY <1>2, <2>1 DEF Small
    <3>2. h[S] = Term(f, h, S)
      BY <2>2 DEF AddsUp
    <3> QED BY <3>1, <3>2
  <2>4. ASSUME NEW S \in Small(B, n), S # {} PROVE S \ {Some(S)} \in Small(B, n - 1)
    <3>1. IsFiniteSet(S) /\ S \in SUBSET B /\ Cardinality(S) <= n
      BY <1>2 DEF Small
    <3>2. Cardinality(S \ {Some(S)}) = Cardinality(S) - 1 /\ Cardinality(S) \in Nat
      BY <2>4, <3>1, SomeIn, Smaller
    <3> QED BY <3>1, <3>2 DEF Small
  <2>5. ASSUME NEW S \in Small(B, n) PROVE Term(f, g, S) = Term(f, h, S)
    <3> HIDE DEF g
    <3> QED BY <2>3, <2>4 DEF Term
  <2>6. AddsUp(f, Small(B, n), g)
    BY <2>5 DEF AddsUp
  <2> QED BY <1>1, <2>6
<1> QED BY <1>3, <1>4

LEMMA SumsAre ==
  ASSUME NEW B, IsFiniteSet(B), NEW f
  PROVE  \E g : AddsUp(f, SUBSET B, g)
<1>1. Cardinality(B) \in Nat
  BY FS_CardinalityType
<1>2. ASSUME NEW S \in SUBSET B PROVE Cardinality(S) <= Cardinality(B)
  BY FS_Subset
<1>3. Small(B, Cardinality(B)) = SUBSET B
  BY <1>2 DEF Small
<1>4. \E g : AddsUp(f, Small(B, Cardinality(B)), g)
  BY <1>1, SumsExist
<1> QED BY <1>3, <1>4

\* g and h add up the same values of the subsets of C.
Alike(B, C, f, g, e, h) ==
  /\ IsFiniteSet(B) /\ C \subseteq B
  /\ AddsUp(f, SUBSET B, g) /\ AddsUp(e, SUBSET C, h)
  /\ \A x \in C : e[x] = f[x]

\* Two functions that add up the same values agree wherever both are defined.
LEMMA SumsAgree ==
  ASSUME NEW B, NEW C, NEW f, NEW g, NEW e, NEW h, Alike(B, C, f, g, e, h)
  PROVE  g[C] = h[C]
<1> USE DEF Alike
<1> DEFINE Differs(n) == \E S \in SUBSET C : Cardinality(S) = n /\ g[S] # h[S]
           T == {n \in Nat : Differs(n)}
<1>1. ASSUME NEW S \in SUBSET C PROVE IsFiniteSet(S) /\ Cardinality(S) \in Nat
  BY FS_Subset, FS_CardinalityType
<1>2. ASSUME T # {} PROVE FALSE
  <2>1. PICK n \in T : \A k \in T : n <= k
    BY <1>2, LeastNat
  <2>2. PICK S \in SUBSET C : Cardinality(S) = n /\ g[S] # h[S]
    BY <2>1
  <2>3. g[S] = Term(f, g, S) /\ h[S] = Term(e, h, S)
    BY DEF AddsUp
  <2>4. S # {}
    BY <2>2, <2>3 DEF Term
  <2>5. Some(S) \in S
    BY <2>4, SomeIn
  <2>6. Cardinality(S \ {Some(S)}) \in Nat /\ Cardinality(S \ {Some(S)}) < n
    BY <1>1, <2>2, <2>5, Smaller
  <2>7. g[S \ {Some(S)}] = h[S \ {Some(S)}]
    BY <2>1, <2>6
  <2> HIDE DEF T
  <2> QED BY <2>2, <2>3, <2>4, <2>5, <2>7 DEF Term
<1> QED BY <1>1, <1>2

LEMMA SumIs ==
  ASSUME NEW B, IsFiniteSet(B), NEW f
  PROVE  \E g : AddsUp(f, SUBSET B, g) /\ SumOf(f, B) = g[B]
BY SumsAre DEF SumOf

\* The sum is that of an element and of the rest.
LEMMA SumTerm ==
  ASSUME NEW B, IsFiniteSet(B), NEW f, B # {}
  PROVE  SumOf(f, B) = f[Some(B)] + SumOf(f, B \ {Some(B)})
<1>1. PICK g : AddsUp(f, SUBSET B, g) /\ SumOf(f, B) = g[B]
  BY SumIs
<1> DEFINE C == B \ {Some(B)}
<1>2. IsFiniteSet(C) /\ C \subseteq B
  BY FS_Subset
<1>3. PICK h : AddsUp(f, SUBSET C, h) /\ SumOf(f, C) = h[C]
  BY <1>2, SumIs
<1>4. g[C] = h[C]
  <2> HIDE DEF C
  <2>1. Alike(B, C, f, g, f, h)
    BY <1>1, <1>2, <1>3 DEF Alike
  <2> QED BY <2>1, SumsAgree
<1>5. g[B] = Term(f, g, B)
  BY <1>1 DEF AddsUp
<1> QED BY <1>1, <1>3, <1>4, <1>5 DEF Term

LEMMA SumEmpty == ASSUME NEW f PROVE SumOf(f, {}) = 0
<1>1. PICK g : AddsUp(f, SUBSET {}, g) /\ SumOf(f, {}) = g[{}]
  BY SumIs, FS_EmptySet
<1>2. g[{}] = Term(f, g, {})
  BY <1>1 DEF AddsUp
<1> QED BY <1>1, <1>2 DEF Term

\* Only the values on the set matter.
LEMMA SumCongruent ==
  ASSUME NEW B, IsFiniteSet(B), NEW f, NEW e, \A x \in B : f[x] = e[x]
  PROVE  SumOf(f, B) = SumOf(e, B)
<1>1. PICK g : AddsUp(f, SUBSET B, g) /\ SumOf(f, B) = g[B]
  BY SumIs
<1>2. PICK h : AddsUp(e, SUBSET B, h) /\ SumOf(e, B) = h[B]
  BY SumIs
<1>3. Alike(B, B, f, g, e, h)
  BY <1>1, <1>2 DEF Alike
<1>4. g[B] = h[B]
  BY <1>3, SumsAgree
<1> QED BY <1>1, <1>2, <1>4

\* The sum is a natural number.
LEMMA SumNat ==
  ASSUME NEW B, IsFiniteSet(B), NEW f, \A x \in B : f[x] \in Nat
  PROVE  SumOf(f, B) \in Nat
<1> DEFINE Odd(n) == \E S \in SUBSET B : Cardinality(S) = n /\ SumOf(f, S) \notin Nat
           T == {n \in Nat : Odd(n)}
<1>1. ASSUME NEW S \in SUBSET B PROVE IsFiniteSet(S) /\ Cardinality(S) \in Nat
  BY FS_Subset, FS_CardinalityType
<1>2. ASSUME T # {} PROVE FALSE
  <2>1. PICK n \in T : \A k \in T : n <= k
    BY <1>2, LeastNat
  <2>2. PICK S \in SUBSET B : Cardinality(S) = n /\ SumOf(f, S) \notin Nat
    BY <2>1
  <2>3. S # {}
    BY <2>2, SumEmpty
  <2>4. Some(S) \in S
    BY <2>3, SomeIn
  <2>5. Cardinality(S \ {Some(S)}) \in Nat /\ Cardinality(S \ {Some(S)}) < n
    BY <1>1, <2>2, <2>4, Smaller
  <2>6. SumOf(f, S \ {Some(S)}) \in Nat
    BY <2>1, <2>5
  <2>7. SumOf(f, S) = f[Some(S)] + SumOf(f, S \ {Some(S)})
    BY <1>1, <2>3, SumTerm
  <2> HIDE DEF T
  <2> QED BY <2>2, <2>4, <2>6, <2>7
<1> QED BY <1>1, <1>2

\* Any element adds its value to the sum, whichever CHOOSE takes first.
LEMMA SumWith ==
  ASSUME NEW B, IsFiniteSet(B), NEW f, \A x \in B : f[x] \in Nat
  PROVE  \A S \in SUBSET B : \A y \in B \ S : SumOf(f, S \union {y}) = SumOf(f, S) + f[y]
<1> DEFINE Odd(n) == \E S \in SUBSET B : \E y \in B \ S :
                       Cardinality(S) = n /\ SumOf(f, S \union {y}) # SumOf(f, S) + f[y]
           T == {n \in Nat : Odd(n)}
<1>1. ASSUME NEW S \in SUBSET B
      PROVE  IsFiniteSet(S) /\ Cardinality(S) \in Nat /\ SumOf(f, S) \in Nat
  <2>1. IsFiniteSet(S) /\ Cardinality(S) \in Nat
    BY FS_Subset, FS_CardinalityType
  <2> QED BY <2>1, SumNat
<1>2. ASSUME T # {} PROVE FALSE
  <2>1. PICK n \in T : \A k \in T : n <= k
    BY <1>2, LeastNat
  <2>2. PICK S \in SUBSET B : \E y \in B \ S :
               Cardinality(S) = n /\ SumOf(f, S \union {y}) # SumOf(f, S) + f[y]
    BY <2>1
  <2>3. PICK y \in B \ S : Cardinality(S) = n /\ SumOf(f, S \union {y}) # SumOf(f, S) + f[y]
    BY <2>2
  <2> DEFINE U == S \union {y}
             x == Some(U)
  <2>4. x \in U /\ U \in SUBSET B
    <3>1. U # {} /\ U \in SUBSET B
      BY <2>3
    <3> QED BY <3>1, SomeIn
  <2>5. SumOf(f, U) = f[x] + SumOf(f, U \ {x})
    <3> HIDE DEF U
    <3> QED BY <1>1, <2>4, SumTerm
  <2>6. f[y] \in Nat /\ f[x] \in Nat
    BY <2>3, <2>4
  <2>7. CASE x = y
    <3>1. U \ {x} = S
      BY <2>7
    <3>2. SumOf(f, S) \in Nat
      BY <1>1
    <3> HIDE DEF x, T
    <3> QED BY <2>3, <2>5, <2>6, <2>7, <3>1, <3>2
  <2>8. CASE x # y
    <3> DEFINE R == S \ {x}
    <3>1. x \in S /\ x \in B \ R /\ y \in B \ R /\ R \in SUBSET B
      BY <2>4, <2>8
    <3>2. U \ {x} = R \union {y} /\ S = R \union {x}
      BY <2>8, <3>1
    <3>3. Cardinality(R) \in Nat /\ Cardinality(R) < n
      <4>1. IsFiniteSet(S) /\ Cardinality(S) = n
        BY <1>1, <2>3
      <4>2. Cardinality(R) = Cardinality(S) - 1 /\ Cardinality(S) \in Nat /\ Cardinality(R) \in Nat
        <5> HIDE DEF x
        <5> QED BY <3>1, <4>1, Smaller
      <4> HIDE DEF R
      <4> QED BY <4>1, <4>2
    <3>4. Cardinality(R) \notin T
      <4>1. n \in Nat
        OBVIOUS
      <4> HIDE DEF R, T
      <4> QED BY <2>1, <3>3, <4>1
    <3>5. SumOf(f, R \union {y}) = SumOf(f, R) + f[y] /\ SumOf(f, R \union {x}) = SumOf(f, R) + f[x]
      BY <3>1, <3>3, <3>4
    <3>6. SumOf(f, R) \in Nat
      BY <1>1, <3>1
    <3>7. SumOf(f, U) = f[x] + SumOf(f, R \union {y}) /\ SumOf(f, S) = SumOf(f, R) + f[x]
      BY <2>5, <3>2, <3>5
    <3>8. SumOf(f, S \union {y}) # SumOf(f, S) + f[y]
      BY <2>3
    <3> HIDE DEF x, R, T
    <3> QED BY <2>6, <3>5, <3>6, <3>7, <3>8
  <2> QED BY <2>7, <2>8
<1> QED BY <1>1, <1>2

LEMMA SumAdd ==
  ASSUME NEW B, IsFiniteSet(B), NEW f, NEW y, y \notin B, f[y] \in Nat, \A x \in B : f[x] \in Nat
  PROVE  SumOf(f, B \union {y}) = SumOf(f, B) + f[y]
<1>1. IsFiniteSet(B \union {y})
  BY FS_AddElement
<1> QED BY <1>1, SumWith

-----------------------------------------------------------------------------
(* Sequences put together *)

\* g[i] is the first i of n sequences.
Flattens(seqs, n, g) == g = [i \in 1 .. n |-> IF i = 1 THEN seqs[i] ELSE g[i - 1] \o seqs[i]]

\* There is such a function.
LEMMA FlattensExist ==
  ASSUME NEW seqs, NEW n \in Nat
  PROVE  \E g : Flattens(seqs, n, g)
<1> DEFINE T == {m \in Nat : ~\E g : Flattens(seqs, m, g)}
<1> SUFFICES ASSUME T # {} PROVE FALSE
  OBVIOUS
<1>1. PICK m \in T : \A l \in T : m <= l
  <2>1. T \subseteq Nat
    OBVIOUS
  <2> HIDE DEF T
  <2> QED BY <2>1, LeastNat
<1>2. m \in Nat /\ ~\E g : Flattens(seqs, m, g)
  OBVIOUS
<1>3. CASE m = 0
  <2> DEFINE g == [i \in 1 .. 0 |-> <<>>]
  <2>1. Flattens(seqs, 0, g)
    BY DEF Flattens
  <2> QED BY <1>2, <1>3, <2>1
<1>4. CASE m # 0
  <2>1. m - 1 \in Nat /\ m - 1 \notin T
    BY <1>1, <1>2, <1>4
  <2>2. PICK h : Flattens(seqs, m - 1, h)
    BY <2>1
  <2> DEFINE last == IF m = 1 THEN seqs[m] ELSE h[m - 1] \o seqs[m]
             g == [i \in 1 .. m |-> IF i = m THEN last ELSE h[i]]
  <2>3. \A i \in 1 .. m - 1 : h[i] = IF i = 1 THEN seqs[i] ELSE h[i - 1] \o seqs[i]
    BY <2>1, <2>2 DEF Flattens
  <2>4. ASSUME NEW i \in 1 .. m
        PROVE  g[i] = IF i = 1 THEN seqs[i] ELSE g[i - 1] \o seqs[i]
    <3>1. CASE i = m
      <4>1. g[i] = last /\ (i # 1 => g[i - 1] = h[m - 1])
        BY <1>2, <1>4, <3>1
      <4> QED BY <3>1, <4>1
    <3>2. CASE i # m
      <4>1. i \in 1 .. m - 1 /\ g[i] = h[i] /\ (i # 1 => g[i - 1] = h[i - 1])
        BY <1>2, <3>2
      <4> QED BY <2>3, <4>1
    <3> QED BY <3>1, <3>2
  <2>5. Flattens(seqs, m, g)
    <3>1. g = [i \in 1 .. m |-> g[i]]
      OBVIOUS
    <3> HIDE DEF g
    <3> QED BY <2>4, <3>1 DEF Flattens
  <2> QED BY <1>2, <2>5
<1> QED BY <1>3, <1>4

\* What is closed under putting together has the whole.
LEMMA FlattensIn ==
  ASSUME NEW C, \A q, r \in C : q \o r \in C,
         NEW n \in Nat, NEW seqs, \A i \in 1 .. n : seqs[i] \in C, NEW g, Flattens(seqs, n, g)
  PROVE  \A i \in 1 .. n : g[i] \in C
<1> DEFINE T == {i \in 1 .. n : g[i] \notin C}
<1> SUFFICES ASSUME T # {} PROVE FALSE
  OBVIOUS
<1>1. PICK m \in T : \A l \in T : m <= l
  <2>1. T \subseteq Nat
    OBVIOUS
  <2> HIDE DEF T
  <2> QED BY <2>1, LeastNat
<1>2. m \in 1 .. n /\ g[m] \notin C /\ seqs[m] \in C
  OBVIOUS
<1>3. g[m] = IF m = 1 THEN seqs[m] ELSE g[m - 1] \o seqs[m]
  BY <1>2 DEF Flattens
<1>4. m # 1 /\ m - 1 \in 1 .. n /\ m - 1 \notin T
  BY <1>1, <1>2, <1>3
<1>5. g[m - 1] \in C
  BY <1>4
<1> QED BY <1>2, <1>3, <1>4, <1>5

\* Everything in q is in r.
Included(q, r) == \A k \in DOMAIN q : \E j \in DOMAIN r : r[j] = q[k]

LEMMA IncludedJoin ==
  ASSUME NEW X, NEW q \in Seq(X), NEW r \in Seq(X)
  PROVE  Included(q, q \o r) /\ Included(r, q \o r)
<1>1. /\ q \o r \in Seq(X) /\ Len(q \o r) = Len(q) + Len(r)
      /\ \A i \in 1 .. Len(q) + Len(r) : (q \o r)[i] = IF i <= Len(q) THEN q[i] ELSE r[i - Len(q)]
  BY ConcatProperties
<1>2. /\ Len(q) \in Nat /\ Len(r) \in Nat /\ DOMAIN q = 1 .. Len(q) /\ DOMAIN r = 1 .. Len(r)
      /\ DOMAIN (q \o r) = 1 .. Len(q) + Len(r)
  BY <1>1, LenProperties
<1> DEFINE w == q \o r
<1> HIDE DEF w
<1>3. ASSUME NEW k \in DOMAIN q PROVE k \in DOMAIN w /\ w[k] = q[k]
  BY <1>1, <1>2 DEF w
<1>4. ASSUME NEW k \in DOMAIN r PROVE k + Len(q) \in DOMAIN w /\ w[k + Len(q)] = r[k]
  <2>1. k \in 1 .. Len(r)
    BY <1>2
  <2>2. k + Len(q) \in 1 .. Len(q) + Len(r) /\ ~(k + Len(q) <= Len(q)) /\ (k + Len(q)) - Len(q) = k
    BY <1>2, <2>1
  <2> QED BY <1>1, <1>2, <2>2 DEF w
<1> QED BY <1>3, <1>4 DEF Included, w

LEMMA IncludedTwice ==
  ASSUME NEW q, NEW r, NEW s, Included(q, r), Included(r, s) PROVE Included(q, s)
BY DEF Included

\* Everything in one of the sequences is in the whole.
LEMMA FlattensIncluded ==
  ASSUME NEW X, NEW n \in Nat, NEW seqs, \A i \in 1 .. n : seqs[i] \in Seq(X), NEW g, Flattens(seqs, n, g),
         NEW k \in 1 .. n
  PROVE  Included(seqs[k], g[n])
<1> DEFINE T == {i \in 1 .. n : k <= i /\ ~Included(seqs[k], g[i])}
<1>0. \A i \in 1 .. n : g[i] \in Seq(X)
  <2>1. \A q, r \in Seq(X) : q \o r \in Seq(X)
    BY ConcatProperties
  <2> QED BY <2>1, FlattensIn
<1>1. ASSUME T # {} PROVE FALSE
  <2>1. PICK m \in T : \A l \in T : m <= l
    <3>1. T \subseteq Nat
      OBVIOUS
    <3> HIDE DEF T
    <3> QED BY <1>1, <3>1, LeastNat
  <2>2. m \in 1 .. n /\ k <= m /\ ~Included(seqs[k], g[m])
    OBVIOUS
  <2>3. g[m] = IF m = 1 THEN seqs[m] ELSE g[m - 1] \o seqs[m]
    BY <2>2 DEF Flattens
  <2>4. CASE m = 1
    <3>1. k = m /\ g[m] = seqs[k]
      BY <2>2, <2>3, <2>4
    <3> QED BY <2>2, <3>1 DEF Included
  <2>5. CASE m # 1
    <3>1. m - 1 \in 1 .. n /\ g[m] = g[m - 1] \o seqs[m]
      <4>1. m - 1 \in 1 .. n
        BY <2>2, <2>5
      <4>2. g[m] = g[m - 1] \o seqs[m]
        BY <2>3, <2>5
      <4> QED BY <4>1, <4>2
    <3>2. Included(g[m - 1], g[m]) /\ Included(seqs[m], g[m])
      <4>1. g[m - 1] \in Seq(X) /\ seqs[m] \in Seq(X)
        BY <1>0, <2>2, <3>1
      <4>2. Included(g[m - 1], g[m - 1] \o seqs[m]) /\ Included(seqs[m], g[m - 1] \o seqs[m])
        <5> DEFINE q == g[m - 1]
                   r == seqs[m]
        <5> HIDE DEF q, r
        <5>1. q \in Seq(X) /\ r \in Seq(X)
          BY <4>1 DEF q, r
        <5>2. Included(q, q \o r) /\ Included(r, q \o r)
          BY <5>1, IncludedJoin
        <5> QED BY <5>2 DEF q, r
      <4> QED BY <3>1, <4>2
    <3>3. k # m
      BY <2>2, <3>2
    <3>4. k <= m - 1 /\ ~(m <= m - 1)
      BY <2>2, <3>3
    <3>5. Included(seqs[k], g[m - 1])
      BY <2>1, <3>1, <3>4
    <3> QED BY <2>2, <3>2, <3>5, IncludedTwice
  <2> QED BY <2>4, <2>5
<1>2. n \in 1 .. n /\ k <= n
  OBVIOUS
<1> QED BY <1>1, <1>2

\* Only the sequences count, and only those up to a place.
Alongside(seqs, n, g, more, m, h) ==
  /\ n <= m /\ \A i \in 1 .. n : seqs[i] = more[i]
  /\ Flattens(seqs, n, g) /\ Flattens(more, m, h)

LEMMA FlattensAgree ==
  ASSUME NEW n \in Nat, NEW m \in Nat, NEW seqs, NEW more, NEW g, NEW h, Alongside(seqs, n, g, more, m, h)
  PROVE  \A i \in 1 .. n : g[i] = h[i]
<1> USE DEF Alongside
<1> DEFINE T == {i \in 1 .. n : g[i] # h[i]}
<1> SUFFICES ASSUME T # {} PROVE FALSE
  OBVIOUS
<1>1. PICK i \in T : \A j \in T : i <= j
  <2>1. T \subseteq Nat
    OBVIOUS
  <2> HIDE DEF T
  <2> QED BY <2>1, LeastNat
<1>2. i \in 1 .. n /\ g[i] # h[i]
  OBVIOUS
<1>3. g[i] = IF i = 1 THEN seqs[i] ELSE g[i - 1] \o seqs[i]
  <2> HIDE DEF T
  <2> QED BY <1>2 DEF Flattens
<1>6. h[i] = IF i = 1 THEN more[i] ELSE h[i - 1] \o more[i]
  <2> HIDE DEF T
  <2>1. i \in 1 .. m
    BY <1>2
  <2> QED BY <2>1 DEF Flattens
<1>7. seqs[i] = more[i]
  BY <1>2
<1>4. CASE i = 1
  BY <1>2, <1>3, <1>4, <1>6, <1>7
<1>5. CASE i # 1
  <2>1. i - 1 \in 1 .. n /\ i - 1 \notin T
    BY <1>1, <1>2, <1>5
  <2>2. g[i - 1] = h[i - 1]
    BY <2>1
  <2> HIDE DEF T
  <2> QED BY <1>2, <1>3, <1>5, <1>6, <1>7, <2>2
<1> QED BY <1>4, <1>5
=============================================================================
