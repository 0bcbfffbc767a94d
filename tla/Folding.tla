------------------------------ MODULE Folding ------------------------------
(***************************************************************************)
(* Induction, for the proofs about the loops that the models write as      *)
(* folds: over the natural numbers, and over the rounds of a fold of Op,   *)
(* which a module that instantiates this one names.                        *)
(***************************************************************************)
EXTENDS Integers, SequencesExt, FiniteSetsExt, FiniteSetTheorems,
        WellFoundedInduction, NaturalsInduction, TLAPS

CONSTANT Op(_, _)

Fold(base, seq) == FoldLeft(Op, base, seq)

\* A set of numbers that is not empty has a least element.
LEMMA LeastElement ==
  ASSUME NEW S \in SUBSET Nat, S # {}
  PROVE  \E m \in S : \A k \in S : m <= k
<1>1. \E x \in S : \A y \in S : ~ (<<y, x>> \in OpToRel(<, Nat))
  BY NatLessThanWellFounded, WFMin
<1>2. OpToRel(<, Nat) = {ss \in Nat \X Nat : ss[1] < ss[2]}
  BY Zenon DEF OpToRel
<1>3. PICK x \in S : \A y \in S : ~ (<<y, x>> \in {ss \in Nat \X Nat : ss[1] < ss[2]})
  BY <1>1, <1>2, Zenon
<1>4. ASSUME NEW y \in S PROVE x <= y
  <2>1. <<y, x>> \in Nat \X Nat /\ <<y, x>>[1] = y /\ <<y, x>>[2] = x
    OBVIOUS
  <2>2. ~ (y < x)
    BY <1>3, <2>1
  <2>. QED
    BY <2>2
<1>. QED
  BY <1>4

\* What holds of 0, and of n + 1 whenever of n, holds of all numbers.
LEMMA Induction ==
  ASSUME NEW S, 0 \in S, \A n \in Nat : n \in S => n + 1 \in S
  PROVE  \A n \in Nat : n \in S
<1>. DEFINE T == {n \in Nat : n \notin S}
<1>. SUFFICES ASSUME T # {} PROVE FALSE
  OBVIOUS
<1>1. PICK m \in T : \A k \in T : m <= k
  BY LeastElement
<1>2. m \in Nat /\ m # 0 /\ m - 1 \in Nat
  BY <1>1
<1>3. m - 1 \in S
  BY <1>1, <1>2
<1>. QED
  BY <1>1, <1>2, <1>3

-----------------------------------------------------------------------------
\* g folds any part of 1 .. m, from its least element to its greatest.
FoldsTo(g, m, base, seq) ==
  g = [s \in SUBSET (1 .. m) |->
         IF s = {} THEN base ELSE Op(g[s \ {Max(s)}], seq[Max(s)])]

LEMMA MaxIsGreatest ==
  ASSUME NEW m \in Nat, NEW s \in SUBSET (1 .. m), s # {}
  PROVE  /\ Max(s) \in s
         /\ m \in s => Max(s) = m
<1>. DEFINE T == {m - x : x \in s}
<1>0. \A y \in s : y \in Int /\ y <= m /\ m - y \in Nat
  OBVIOUS
<1>1. T \in SUBSET Nat /\ T # {}
  BY <1>0
<1>2. \E t \in T : \A k \in T : t <= k
  <2>. HIDE DEF T
  <2>. QED
    BY <1>1, LeastElement
<1>3. PICK x \in s : \A y \in s : x >= y
  BY <1>0, <1>2, SMTT(30)
<1>4. Max(s) \in s /\ \A y \in s : Max(s) >= y
  BY <1>3, Zenon DEF Max
<1>5. Max(s) \in Int /\ Max(s) <= m
  BY <1>0, <1>4
<1>6. ASSUME m \in s PROVE Max(s) >= m
  BY <1>4, <1>6
<1>. QED
  BY <1>4, <1>5, <1>6

LEMMA FoldExists ==
  ASSUME NEW base, NEW seq, NEW n \in Nat
  PROVE  \E g : FoldsTo(g, n, base, seq)
<1>. DEFINE S == {m \in Nat : \E g : FoldsTo(g, m, base, seq)}
<1>1. 0 \in S
  <2>. DEFINE g == [s \in SUBSET (1 .. 0) |-> base]
  <2>1. \A s \in SUBSET (1 .. 0) : s = {}
    OBVIOUS
  <2>2. FoldsTo(g, 0, base, seq)
    BY <2>1 DEF FoldsTo
  <2>. QED
    BY <2>2
<1>2. ASSUME NEW m \in Nat, m \in S PROVE m + 1 \in S
  <2>1. PICK g : FoldsTo(g, m, base, seq)
    BY <1>2
  <2>. DEFINE h == [s \in SUBSET (1 .. (m + 1)) |->
                      IF m + 1 \in s THEN Op(g[s \ {m + 1}], seq[m + 1]) ELSE g[s]]
  <2>2. ASSUME NEW s \in SUBSET (1 .. (m + 1))
        PROVE  h[s] = IF s = {} THEN base ELSE Op(h[s \ {Max(s)}], seq[Max(s)])
    <3>1. CASE m + 1 \in s
      <4>1. Max(s) = m + 1
        BY <3>1, MaxIsGreatest
      <4>2. s \ {m + 1} \in SUBSET (1 .. (m + 1)) /\ m + 1 \notin s \ {m + 1}
        OBVIOUS
      <4>3. h[s \ {m + 1}] = g[s \ {m + 1}]
        BY <4>2
      <4>. QED
        BY <3>1, <4>1, <4>3
    <3>2. CASE m + 1 \notin s
      <4>1. s \in SUBSET (1 .. m)
        BY <3>2
      <4>2. h[s] = g[s]
        BY <3>2
      <4>3. g[s] = IF s = {} THEN base ELSE Op(g[s \ {Max(s)}], seq[Max(s)])
        BY <2>1, <4>1 DEF FoldsTo
      <4>4. ASSUME s # {} PROVE h[s \ {Max(s)}] = g[s \ {Max(s)}]
        BY <3>2
      <4>. QED
        BY <4>2, <4>3, <4>4
    <3>. QED
      BY <3>1, <3>2
  <2>3. FoldsTo(h, m + 1, base, seq)
    <3>1. h = [s \in SUBSET (1 .. (m + 1)) |-> h[s]]
      OBVIOUS
    <3>. HIDE DEF h
    <3>. QED
      BY <2>2, <3>1, Zenon DEF FoldsTo
  <2>. QED
    BY <2>3
<1>. HIDE DEF S
<1>3. n \in S
  BY <1>1, <1>2, Induction
<1>. QED
  BY <1>3 DEF S

\* st[k] is what the fold has come to after k rounds.
Rounds(st, base, seq, n) ==
  /\ st[0] = base
  /\ \A k \in 0 .. n - 1 : st[k + 1] = Op(st[k], seq[k + 1])

(***************************************************************************)
(* The rounds of a fold: it begins with base, every round applies Op to    *)
(* what there is and the next element, and the result is that of the last. *)
(***************************************************************************)
THEOREM FoldRounds ==
  ASSUME NEW base, NEW seq, NEW n \in Nat, DOMAIN seq = 1 .. n
  PROVE  \E st : Rounds(st, base, seq, n) /\ Fold(base, seq) = st[n]
<1>. DEFINE g == CHOOSE g : g = [s \in SUBSET DOMAIN seq |->
                     IF s = {} THEN base ELSE Op(g[s \ {Max(s)}], seq[Max(s)])]
            st == [k \in 0 .. n |-> g[1 .. k]]
<1>1. Fold(base, seq) = g[DOMAIN seq]
  BY Zenon DEF Fold, FoldLeft, MapThenFoldSet
<1>2. FoldsTo(g, n, base, seq)
  <2>1. \E x : x = [s \in SUBSET DOMAIN seq |->
                     IF s = {} THEN base ELSE Op(x[s \ {Max(s)}], seq[Max(s)])]
    <3>1. \E x : FoldsTo(x, n, base, seq)
      BY FoldExists
    <3>. QED
      BY <3>1, Zenon DEF FoldsTo
  <2>. QED
    BY <2>1, Zenon DEF FoldsTo
<1>. HIDE DEF g
<1>3. st[0] = base
  <2>1. {} \in SUBSET (1 .. n) /\ 1 .. 0 = {}
    OBVIOUS
  <2>2. g[{}] = base
    BY <1>2, <2>1 DEF FoldsTo
  <2>. QED
    BY <2>1, <2>2
<1>4. ASSUME NEW k \in 0 .. n - 1 PROVE st[k + 1] = Op(st[k], seq[k + 1])
  <2>1. /\ 1 .. (k + 1) \in SUBSET (1 .. n) /\ k + 1 \in 1 .. (k + 1)
        /\ (1 .. (k + 1)) \ {k + 1} = 1 .. k /\ k + 1 \in Nat
        /\ k \in 0 .. n /\ k + 1 \in 0 .. n
    OBVIOUS
  <2>2. Max(1 .. (k + 1)) = k + 1
    BY <2>1, MaxIsGreatest
  <2>3. g[1 .. (k + 1)] = Op(g[1 .. k], seq[k + 1])
    BY <1>2, <2>1, <2>2 DEF FoldsTo
  <2>. QED
    BY <2>3
<1>5. Fold(base, seq) = st[n]
  BY <1>1
<1>. HIDE DEF st
<1>6. Rounds(st, base, seq, n)
  BY <1>3, <1>4 DEF Rounds
<1>. QED
  BY <1>5, <1>6

(***************************************************************************)
(* Induction over the rounds: what is in V[0] before the first one and     *)
(* goes from V[k] to V[k + 1] in every one, is in V[n] after the last.     *)
(***************************************************************************)
THEOREM FoldInduction ==
  ASSUME NEW base, NEW seq, NEW n \in Nat, DOMAIN seq = 1 .. n,
         NEW V, base \in V[0],
         \A k \in 0 .. n - 1 : \A a \in V[k] : Op(a, seq[k + 1]) \in V[k + 1]
  PROVE  Fold(base, seq) \in V[n]
<1>1. PICK st : Rounds(st, base, seq, n) /\ Fold(base, seq) = st[n]
  BY FoldRounds
<1>. DEFINE S == {k \in Nat : k <= n => st[k] \in V[k]}
<1>2. ASSUME NEW k \in Nat, k \in S PROVE k + 1 \in S
  <2>. SUFFICES ASSUME k + 1 <= n PROVE st[k + 1] \in V[k + 1]
    OBVIOUS
  <2>1. k \in 0 .. n - 1 /\ st[k] \in V[k]
    BY <1>2
  <2>2. Op(st[k], seq[k + 1]) \in V[k + 1]
    BY <2>1
  <2>. QED
    BY <1>1, <2>1, <2>2 DEF Rounds
<1>3. 0 \in S
  BY <1>1 DEF Rounds
<1>. HIDE DEF S
<1>4. n \in S
  BY <1>2, <1>3, Induction
<1>. QED
  BY <1>1, <1>4 DEF S
=============================================================================
