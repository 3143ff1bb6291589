------------------------------ MODULE FoldProofs ------------------------------
(****************************************************************************)
(* What holds of a fold over a sequence, or a set, when each of its steps   *)
(* takes what is good after n elements to what is good after one more.  It  *)
(* is instantiated with the step and the property: the folds of a model     *)
(* each have their own.                                                     *)
(*                                                                          *)
(* Every instance adds this module, and all that it extends, to what the    *)
(* provers are given of its user.  So it extends next to nothing: Folded    *)
(* and FoldedSet spell out FoldLeft and FoldSet of the community modules,   *)
(* and what the theorems need of numbers and of finite sets (WellOrdered,   *)
(* Shrinking) are hypotheses that the user proves once.                     *)
(****************************************************************************)
EXTENDS Integers, TLAPS

CONSTANTS
    Step(_, _, _),      \* Step(a, t, x): what t becomes with element x; a goes with the fold
    Good(_, _, _, _)    \* Good(a, z, t, n): t after n elements, or after the elements of n;
                        \*   z is what the fold is compared with

\* Every set of naturals that is not empty has a first one.
WellOrdered == \A N \in SUBSET Nat : N # {} => \E n \in N : \A m \in N : n <= m

\* size decreases with every element that a subset of S loses, as the number of its
\* elements does when S is finite.
Shrinking(size, S) ==
    \A r \in SUBSET S : size[r] \in Nat /\ \A x \in r : size[r \ {x}] < size[r]

Greatest(S) == CHOOSE x \in S : \A y \in S : x >= y

\* FoldLeft of SequencesExt.
Folded(a, t, seq) ==
    LET iter[r \in SUBSET DOMAIN seq] ==
          IF r = {} THEN t
          ELSE LET x == Greatest(r) IN Step(a, iter[r \ {x}], seq[x])
    IN  iter[DOMAIN seq]

\* FoldSet of FiniteSetsExt.
FoldedSet(a, t, S) ==
    LET iter[r \in SUBSET S] ==
          IF r = {} THEN t
          ELSE LET x == CHOOSE x \in r : TRUE IN Step(a, iter[r \ {x}], x)
    IN  iter[S]

----------------------------------------------------------------------------
(* The recursion of a fold has a solution *)

\* The recursion that folds the elements of D, pick[r] being the last one of r.
Picked(g, a, t, val, pick, D) ==
    g = [r \in SUBSET D |->
            IF r = {} THEN t ELSE Step(a, g[r \ {pick[r]}], val[pick[r]])]

\* A size up to which it has a solution.
Solvable(a, t, val, pick, size, D, k) ==
    \E g : \A r \in SUBSET D :
        size[r] <= k =>
            g[r] = IF r = {} THEN t ELSE Step(a, g[r \ {pick[r]}], val[pick[r]])

\* What is taken last of a set leaves a smaller one.
Picks(pick, size, D) ==
    \A r \in SUBSET D : r # {} =>
        pick[r] \in r /\ size[r \ {pick[r]}] \in Nat /\ size[r \ {pick[r]}] < size[r]

\* A solution for sets up to a size can be continued by one.
LEMMA SolvableOneMore ==
    ASSUME NEW a, NEW t, NEW val, NEW D, NEW pick, NEW size,
           \A r \in SUBSET D : size[r] \in Nat, Picks(pick, size, D),
           NEW k \in Nat, Solvable(a, t, val, pick, size, D, k)
    PROVE  Solvable(a, t, val, pick, size, D, k + 1)
  <1>1. PICK g : \A r \in SUBSET D : size[r] <= k =>
                     g[r] = IF r = {} THEN t ELSE Step(a, g[r \ {pick[r]}], val[pick[r]])
    BY DEF Solvable
  <1> DEFINE h == [r \in SUBSET D |->
                      IF size[r] <= k THEN g[r]
                      ELSE IF r = {} THEN t ELSE Step(a, g[r \ {pick[r]}], val[pick[r]])]
  <1>2. ASSUME NEW r \in SUBSET D, size[r] <= k + 1
        PROVE  h[r] = IF r = {} THEN t ELSE Step(a, h[r \ {pick[r]}], val[pick[r]])
    <2>1. r = {} => h[r] = t
      <3>1. r = {} /\ size[r] <= k => g[r] = t
        BY <1>1
      <3> QED BY <3>1
    <2>2. ASSUME r # {} PROVE h[r] = Step(a, h[r \ {pick[r]}], val[pick[r]])
      <3> DEFINE q == r \ {pick[r]}
      <3>1. q \in SUBSET D /\ size[q] <= k
        <4>1. size[q] \in Nat /\ size[q] < size[r]
          BY <2>2 DEF Picks
        <4>2. size[r] \in Nat
          OBVIOUS
        <4> HIDE DEF Picks
        <4> QED BY <1>2, <4>1, <4>2
      <3>2. h[q] = g[q]
        BY <3>1
      <3>3. size[r] <= k => g[r] = Step(a, g[q], val[pick[r]])
        BY <1>1, <2>2
      <3> QED BY <2>2, <3>2, <3>3
    <2> QED BY <2>1, <2>2
  <1> HIDE DEF h
  <1> QED BY <1>2 DEF Solvable

LEMMA RecursionHasSolution ==
    ASSUME WellOrdered,
           NEW a, NEW t, NEW val, NEW D, NEW pick, NEW size,
           \A r \in SUBSET D : size[r] \in Nat, Picks(pick, size, D),
           \A r \in SUBSET D : size[r] <= size[D]
    PROVE  \E g : Picked(g, a, t, val, pick, D)
  <1>1. Solvable(a, t, val, pick, size, D, 0)
    <2>1. ASSUME NEW r \in SUBSET D, size[r] <= 0 PROVE r = {}
      <3>1. r # {} => size[r \ {pick[r]}] \in Nat /\ size[r \ {pick[r]}] < size[r]
        BY DEF Picks
      <3>2. size[r] \in Nat
        OBVIOUS
      <3> HIDE DEF Picks
      <3> QED BY <2>1, <3>1, <3>2
    <2>2. \A r \in SUBSET D : size[r] <= 0 => r = {} /\ [x \in {{}} |-> t][r] = t
      BY <2>1
    <2> QED BY <2>2 DEF Solvable
  <1>2. \A k \in Nat : Solvable(a, t, val, pick, size, D, k)
    <2> DEFINE N == {k \in Nat : ~Solvable(a, t, val, pick, size, D, k)}
    <2>1. SUFFICES ASSUME N # {} PROVE FALSE
      OBVIOUS
    <2>2. PICK k \in N : \A m \in N : k <= m
      BY <2>1 DEF WellOrdered
    <2>3. k # 0
      BY <1>1
    <2>4. k - 1 \in Nat /\ Solvable(a, t, val, pick, size, D, k - 1)
      BY <2>2, <2>3
    <2>5. Solvable(a, t, val, pick, size, D, (k - 1) + 1)
      BY <2>4, SolvableOneMore
    <2> QED BY <2>2, <2>5
  <1>3. PICK g : \A r \in SUBSET D :
                     g[r] = IF r = {} THEN t ELSE Step(a, g[r \ {pick[r]}], val[pick[r]])
    <2>1. Solvable(a, t, val, pick, size, D, size[D])
      BY <1>2
    <2> QED BY <2>1 DEF Solvable
  <1> DEFINE h == [r \in SUBSET D |-> g[r]]
  <1>4. ASSUME NEW r \in SUBSET D
        PROVE  h[r] = IF r = {} THEN t ELSE Step(a, h[r \ {pick[r]}], val[pick[r]])
    <2>1. r \ {pick[r]} \in SUBSET D
      OBVIOUS
    <2> QED BY <1>3, <2>1
  <1>5. h = [r \in SUBSET D |->
                IF r = {} THEN t ELSE Step(a, h[r \ {pick[r]}], val[pick[r]])]
    BY <1>4
  <1> HIDE DEF h
  <1> QED BY <1>5 DEF Picked

----------------------------------------------------------------------------
(* Folds over sequences *)

\* Every element of a nonempty set of numbers up to n is at most its greatest.
LEMMA GreatestIsGreatest ==
    ASSUME WellOrdered, NEW n \in Nat, NEW S \in SUBSET (1..n), S # {}
    PROVE  Greatest(S) \in S /\ \A y \in S : y <= Greatest(S)
  <1> DEFINE N == {n - y : y \in S}
  <1>1. N \in SUBSET Nat /\ N # {}
    <2>1. \A y \in S : n - y \in Nat
      OBVIOUS
    <2>2. N \subseteq Nat
      BY <2>1
    <2>3. PICK y \in S : TRUE
      OBVIOUS
    <2>4. n - y \in N
      BY <2>3
    <2> QED BY <2>2, <2>4
  <1> HIDE DEF N
  <1>2. PICK m \in N : \A k \in N : m <= k
    BY <1>1 DEF WellOrdered
  <1>3. PICK x \in S : \A y \in S : n - x <= n - y
    BY <1>2 DEF N
  <1>4. \A y \in S : x >= y
    BY <1>3
  <1>5. Greatest(S) \in S /\ \A y \in S : Greatest(S) >= y
    BY <1>4 DEF Greatest
  <1> QED BY <1>5

\* The definition of a fold over a sequence of the given length.
Recursion(g, a, t, seq, D) ==
    g = [r \in SUBSET D |->
            IF r = {} THEN t
            ELSE LET x == Greatest(r) IN Step(a, g[r \ {x}], seq[x])]

LEMMA FoldIsRecursion ==
    ASSUME NEW a, NEW t, NEW seq
    PROVE  Folded(a, t, seq) = (CHOOSE g : Recursion(g, a, t, seq, DOMAIN seq))[DOMAIN seq]
  BY DEF Folded, Recursion

LEMMA IntervalsGrow ==
    ASSUME NEW len \in Nat, NEW n \in 1..len
    PROVE  1..n \in SUBSET (1..len) /\ 1..n # {}
  OBVIOUS

\* A fold keeps what its steps keep, element by element.
LEMMA FoldKeeps ==
    ASSUME WellOrdered,
           NEW a, NEW z, NEW t, NEW seq, NEW len \in Nat, DOMAIN seq = 1..len,
           Good(a, z, t, 0),
           \A n \in 1..len : \A u : Good(a, z, u, n - 1) => Good(a, z, Step(a, u, seq[n]), n)
    PROVE  Good(a, z, Folded(a, t, seq), len)
  <1> DEFINE g == CHOOSE f : Recursion(f, a, t, seq, 1..len)
  <1>1. Folded(a, t, seq) = g[1..len]
    BY FoldIsRecursion
  <1>2. Recursion(g, a, t, seq, 1..len)
    <2> DEFINE pick == [r \in SUBSET (1..len) |-> Greatest(r)]
               size == [r \in SUBSET (1..len) |-> IF r = {} THEN 0 ELSE Greatest(r)]
    <2>1. \A r \in SUBSET (1..len) : r # {} =>
              pick[r] \in r /\ size[r] = pick[r] /\ \A y \in r : y <= pick[r]
      BY GreatestIsGreatest
    <2>2. ASSUME NEW r \in SUBSET (1..len) PROVE size[r] \in Nat
      <3>1. CASE r = {}
        BY <3>1
      <3>2. CASE r # {}
        <4>1. size[r] = pick[r] /\ pick[r] \in 1..len
          BY <2>1, <3>2
        <4> HIDE DEF size, pick
        <4> QED BY <4>1
      <3> QED BY <3>1, <3>2
    <2>3. Picks(pick, size, 1..len)
      <3>1. ASSUME NEW r \in SUBSET (1..len), r # {}
            PROVE  size[r \ {pick[r]}] < size[r]
        <4> DEFINE q == r \ {pick[r]}
        <4>1. q \in SUBSET (1..len)
          OBVIOUS
        <4>2. CASE q = {}
          <5>1. size[q] = 0
            BY <4>1, <4>2
          <5>2. size[r] = pick[r] /\ pick[r] \in 1..len
            BY <2>1, <3>1
          <5> HIDE DEF size, pick
          <5> QED BY <5>1, <5>2
        <4>3. CASE q # {}
          <5>1. pick[q] \in q /\ size[q] = pick[q]
            BY <2>1, <4>1, <4>3
          <5>2. size[r] = pick[r] /\ pick[r] \in 1..len /\ pick[q] <= pick[r]
            BY <2>1, <3>1, <5>1
          <5>3. pick[q] # pick[r] /\ pick[q] \in 1..len
            BY <5>1
          <5> HIDE DEF size, pick
          <5> QED BY <5>1, <5>2, <5>3
        <4> QED BY <4>2, <4>3
      <3>2. \A r \in SUBSET (1..len) : r \ {pick[r]} \in SUBSET (1..len)
        OBVIOUS
      <3> HIDE DEF pick, size
      <3> QED BY <2>1, <2>2, <3>1, <3>2 DEF Picks
    <2>4. \A r \in SUBSET (1..len) : size[r] <= size[1..len]
      <3>1. CASE len = 0
        BY <3>1
      <3>2. CASE len # 0
        <4>1. 1..len \in SUBSET (1..len) /\ 1..len # {} /\ len \in 1..len
          BY <3>2
        <4>2. len <= size[1..len]
          BY <2>1, <4>1
        <4>3. \A r \in SUBSET (1..len) : r # {} => size[r] \in 1..len
          BY <2>1
        <4>4. \A r \in SUBSET (1..len) : r = {} => size[r] = 0
          OBVIOUS
        <4>5. size[1..len] \in 1..len
          BY <4>1, <4>3
        <4> HIDE DEF size
        <4> QED BY <4>2, <4>3, <4>4, <4>5
      <3> QED BY <3>1, <3>2
    <2>5. \E f : Picked(f, a, t, seq, pick, 1..len)
      <3> HIDE DEF pick, size
      <3> QED BY <2>2, <2>3, <2>4, RecursionHasSolution
    <2>6. PICK f : Picked(f, a, t, seq, pick, 1..len)
      BY <2>5
    <2>7. Recursion(f, a, t, seq, 1..len)
      BY <2>6 DEF Picked, Recursion
    <2> QED BY <2>7
  <1> HIDE DEF g
  <1>3. g[{}] = t
    BY <1>2 DEF Recursion
  <1>4. ASSUME NEW n \in 1..len PROVE g[1..n] = Step(a, g[1..n - 1], seq[n])
    <2>1. 1..n \in SUBSET (1..len) /\ 1..n # {}
      BY IntervalsGrow
    <2>2. Greatest(1..n) = n
      <3>1. n \in Nat /\ 1..n \in SUBSET (1..n)
        OBVIOUS
      <3>2. Greatest(1..n) \in 1..n /\ \A y \in 1..n : y <= Greatest(1..n)
        BY <2>1, <3>1, GreatestIsGreatest
      <3> QED BY <3>2
    <2>3. (1..n) \ {n} = 1..n - 1
      OBVIOUS
    <2> QED BY <1>2, <2>1, <2>2, <2>3 DEF Recursion
  <1> DEFINE N == {n \in Nat : n <= len /\ ~Good(a, z, g[1..n], n)}
  <1>5. N = {}
    <2>1. SUFFICES ASSUME N # {} PROVE FALSE
      OBVIOUS
    <2>2. PICK n \in N : \A m \in N : n <= m
      BY <2>1 DEF WellOrdered
    <2>3. n # 0
      <3>1. 1..0 = {}
        OBVIOUS
      <3> QED BY <1>3, <3>1
    <2>4. n \in 1..len /\ Good(a, z, g[1..n - 1], n - 1)
      BY <2>2, <2>3
    <2> QED BY <1>4, <2>2, <2>4
  <1>6. ~(len \in N)
    BY <1>5
  <1> QED BY <1>1, <1>6

----------------------------------------------------------------------------
(* Folds over sets *)

SetRecursion(g, a, t, D) ==
    g = [r \in SUBSET D |->
            IF r = {} THEN t
            ELSE LET x == CHOOSE x \in r : TRUE IN Step(a, g[r \ {x}], x)]

LEMMA FoldSetIsRecursion ==
    ASSUME NEW a, NEW t, NEW S
    PROVE  FoldedSet(a, t, S) = (CHOOSE g : SetRecursion(g, a, t, S))[S]
  BY DEF FoldedSet, SetRecursion

\* The same of a fold over a set, in whatever order.
LEMMA FoldSetKeeps ==
    ASSUME WellOrdered,
           NEW a, NEW z, NEW t, NEW S, NEW size, Shrinking(size, S),
           \A r \in SUBSET S : size[r] <= size[S],
           Good(a, z, t, {}),
           \A D \in SUBSET S : \A x \in S \ D : \A u :
               Good(a, z, u, D) => Good(a, z, Step(a, u, x), D \union {x})
    PROVE  Good(a, z, FoldedSet(a, t, S), S)
  <1> DEFINE g == CHOOSE f : SetRecursion(f, a, t, S)
             pick == [r \in SUBSET S |-> CHOOSE x \in r : TRUE]
  <1>1. FoldedSet(a, t, S) = g[S]
    BY FoldSetIsRecursion
  <1>2. \A r \in SUBSET S : r # {} => pick[r] \in r
    OBVIOUS
  <1>3. SetRecursion(g, a, t, S)
    <2>1. Picks(pick, size, S)
      <3>1. \A r \in SUBSET S : r \ {pick[r]} \in SUBSET S
        OBVIOUS
      <3> HIDE DEF pick
      <3> QED BY <1>2, <3>1 DEF Picks, Shrinking
    <2>2. \E f : Picked(f, a, t, [x \in S |-> x], pick, S)
      <3> HIDE DEF pick
      <3> QED BY <2>1, RecursionHasSolution DEF Shrinking
    <2>3. PICK f : Picked(f, a, t, [x \in S |-> x], pick, S)
      BY <2>2
    <2>4. f = [r \in SUBSET S |-> IF r = {} THEN t ELSE Step(a, f[r \ {pick[r]}], pick[r])]
      BY <1>2, <2>3 DEF Picked
    <2>5. SetRecursion(f, a, t, S)
      BY <2>4 DEF SetRecursion
    <2> QED BY <2>5
  <1> HIDE DEF g
  <1>4. \A r \in SUBSET S :
            g[r] = IF r = {} THEN t ELSE Step(a, g[r \ {pick[r]}], pick[r])
    BY <1>3 DEF SetRecursion
  <1> HIDE DEF pick
  <1> DEFINE N == {size[r] : r \in {q \in SUBSET S : ~Good(a, z, g[q], q)}}
  <1>5. N = {}
    <2>1. SUFFICES ASSUME N # {} PROVE FALSE
      OBVIOUS
    <2>2. N \in SUBSET Nat
      BY DEF Shrinking
    <2>3. PICK n \in N : \A m \in N : n <= m
      BY <2>1, <2>2 DEF WellOrdered
    <2>4. PICK r \in SUBSET S : ~Good(a, z, g[r], r) /\ n = size[r]
      BY <2>3
    <2>5. r # {}
      BY <1>4, <2>4
    <2> DEFINE q == r \ {pick[r]}
    <2>6. q \in SUBSET S /\ size[q] < n /\ size[q] \in Nat /\ pick[r] \in S \ q /\ r = q \union {pick[r]}
      BY <1>2, <2>4, <2>5 DEF Shrinking
    <2>7. Good(a, z, g[q], q)
      <3>1. n \in Nat /\ \A m \in N : n <= m
        BY <2>2, <2>3
      <3>2. size[q] \notin N
        <4> HIDE DEF N, q
        <4> QED BY <2>6, <3>1
      <3> QED BY <2>6, <3>2
    <2>8. g[r] = Step(a, g[q], pick[r])
      BY <1>4, <2>5
    <2>9. Good(a, z, Step(a, g[q], pick[r]), q \union {pick[r]})
      BY <2>6, <2>7
    <2> QED BY <2>4, <2>6, <2>8, <2>9
  <1> QED BY <1>1, <1>5
=============================================================================
