------------------------ MODULE ReceiveBufferProofs ------------------------
(***************************************************************************)
(* What Wanted returns for the fragments of one object, however many there *)
(* are: the lemma the correctness of reassembly rests on.                  *)
(***************************************************************************)
EXTENDS ReceiveBuffer, FiniteSetTheorems, WellFoundedInduction, TLAPS

\* The slots of buf are numbered for an object of n fragments: they lie in
\* 0..n-1 and only the last one may hold an ending fragment.
Numbered(buf, n) ==
  /\ DOMAIN buf.frags \subseteq 0 .. n - 1
  /\ \A k \in DOMAIN buf.frags : buf.frags[k].fid \in Int /\ (buf.frags[k].fid < 0 <=> k = n - 1)

\* A nonempty set of naturals has a least element.
LEMMA LeastElement ==
  ASSUME NEW S \in SUBSET Nat, S # {}
  PROVE  \E m \in S : \A k \in S : m <= k
<1>1. \E x \in S : \A y \in S : ~ (<<y, x>> \in OpToRel(<, Nat))
  BY NatLessThanWellFounded, WFMin
<1>2. OpToRel(<, Nat) = {ss \in Nat \X Nat : ss[1] < ss[2]}
  BY Zenon DEF OpToRel
<1>3. PICK x \in S : \A y \in S : ~ (<<y, x>> \in {ss \in Nat \X Nat : ss[1] < ss[2]})
  BY <1>1, <1>2, Zenon
<1>4. ASSUME NEW y \in S PROVE x <= y
  <2>1. <<y, x>> \in Nat \X Nat /\ <<y, x>>[1] = y /\ <<y, x>>[2] = x
    OBVIOUS
  <2>2. ~ (y < x)
    BY <1>3, <2>1
  <2>. QED
    BY <2>2
<1>. QED
  BY <1>4

\* At most n slots are occupied, and at least m when the first m are.
LEMMA OccupiedSlots ==
  ASSUME NEW D, NEW n \in Nat, D \subseteq 0 .. n - 1,
         NEW m \in 0 .. n, 0 .. m - 1 \subseteq D
  PROVE  Cardinality(D) \in m .. n
<1>1. /\ IsFiniteSet(0 .. n - 1) /\ Cardinality(0 .. n - 1) = n
      /\ IsFiniteSet(0 .. m - 1) /\ Cardinality(0 .. m - 1) = m
  BY FS_Interval
<1>2. IsFiniteSet(D) /\ Cardinality(D) <= n
  <2>1. D \in SUBSET (0 .. n - 1)
    OBVIOUS
  <2>2. IsFiniteSet(D) /\ Cardinality(D) <= Cardinality(0 .. n - 1)
    BY <1>1, <2>1, FS_Subset, Zenon
  <2>. QED
    BY <1>1, <2>2
<1>3. m <= Cardinality(D)
  BY <1>1, <1>2, FS_Subset
<1>. QED
  BY <1>2, <1>3, FS_CardinalityType

\* All n fragments are there: Wanted reports that nothing is missing.
LEMMA WantedNothing ==
  ASSUME NEW buf, NEW n \in Nat \ {0}, Numbered(buf, n), DOMAIN buf.frags = 0 .. n - 1
  PROVE  Wanted(buf) = 0
<1>1. Cardinality(DOMAIN buf.frags) = n
  BY FS_Interval
<1>2. Stops(buf) = {n - 1}
  BY <1>1 DEF Stops, Numbered
<1>. QED
  BY <1>2 DEF Wanted

\* Slot m is the first empty one: Wanted asks for fragment m + 1.
LEMMA WantedFirst ==
  ASSUME NEW buf, NEW n \in Nat \ {0}, Numbered(buf, n),
         NEW m \in 0 .. n - 1, m \notin DOMAIN buf.frags, 0 .. m - 1 \subseteq DOMAIN buf.frags
  PROVE  Wanted(buf) = m + 1
<1>. DEFINE c == Cardinality(DOMAIN buf.frags)
<1>1. c \in m .. n
  BY OccupiedSlots DEF Numbered
<1>2. CASE c = m
  <2>1. Stops(buf) = {}
    BY <1>2 DEF Stops, Numbered
  <2>. QED
    BY <1>2, <2>1 DEF Wanted
<1>3. CASE c > m
  <2>1. m \in Stops(buf) /\ Stops(buf) \subseteq Int
    BY <1>1, <1>3 DEF Stops
  <2>2. \A j \in Stops(buf) : m <= j
    BY <1>1 DEF Stops, Numbered
  <2>3. \A i \in Stops(buf) : (\A j \in Stops(buf) : i <= j) => i = m
    BY <2>1, <2>2
  <2>4. (CHOOSE i \in Stops(buf) : \A j \in Stops(buf) : i <= j) = m
    BY <2>1, <2>2, <2>3
  <2>. QED
    BY <2>1, <2>4 DEF Wanted
<1>. QED
  BY <1>1, <1>2, <1>3

\* Both cases together: Wanted is 0 exactly when nothing is missing, and the
\* least missing number otherwise (Buffer.Wanted, buffer.go:356).
THEOREM WantedCorrect ==
  ASSUME NEW buf, NEW n \in Nat \ {0}, Numbered(buf, n)
  PROVE  LET missing == {i \in 1 .. n : i - 1 \notin DOMAIN buf.frags}
         IN  /\ Wanted(buf) = 0 <=> missing = {}
             /\ missing # {} => /\ Wanted(buf) \in missing
                                /\ \A i \in missing : Wanted(buf) <= i
<1>. DEFINE missing == {i \in 1 .. n : i - 1 \notin DOMAIN buf.frags}
<1>1. CASE missing = {}
  <2>1. 0 .. n - 1 \subseteq DOMAIN buf.frags
    <3>1. ASSUME NEW k \in 0 .. n - 1, k \notin DOMAIN buf.frags PROVE FALSE
      <4>1. k + 1 \in missing
        BY <3>1
      <4>. QED
        BY <4>1, <1>1
    <3>. QED
      BY <3>1
  <2>2. Wanted(buf) = 0
    BY <2>1, WantedNothing DEF Numbered
  <2>. QED
    BY <1>1, <2>2
<1>2. CASE missing # {}
  <2>0. missing \in SUBSET Nat
    OBVIOUS
  <2>1. PICK i \in missing : \A j \in missing : i <= j
    <3>. HIDE DEF missing
    <3>. QED
      BY <1>2, <2>0, LeastElement
  <2>2. i - 1 \in 0 .. n - 1 /\ i - 1 \notin DOMAIN buf.frags
    BY <2>1
  <2>3. 0 .. (i - 1) - 1 \subseteq DOMAIN buf.frags
    <3>1. ASSUME NEW k \in 0 .. (i - 1) - 1, k \notin DOMAIN buf.frags PROVE FALSE
      <4>1. k + 1 \in missing /\ k + 1 < i
        BY <3>1, <2>2
      <4>. QED
        BY <4>1, <2>1
    <3>. QED
      BY <3>1
  <2>4. Wanted(buf) = (i - 1) + 1
    BY <2>2, <2>3, WantedFirst
  <2>. QED
    BY <1>2, <2>1, <2>4
<1>. QED
  BY <1>1, <1>2
=============================================================================
