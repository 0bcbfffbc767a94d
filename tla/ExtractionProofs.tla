-------------------------- MODULE ExtractionProofs --------------------------
(***************************************************************************)
(* Proofs about Extraction for any stream, any chunks and any good frames: *)
(* the bytes kept, the frames extracted, and what Extract asks for.        *)
(***************************************************************************)
EXTENDS Extraction, SequenceTheorems, FiniteSetTheorems, TLAPS

Tries == INSTANCE Folding WITH Op <- Again

\* d is s without its first k bytes.
IsRest(d, s, k) ==
  /\ d \in Seq(Int) /\ k \in 0 .. Len(s) /\ Len(d) = Len(s) - k
  /\ \A i \in 1 .. Len(d) : d[i] = s[k + i]

\* s has a magic behind its first n bytes.
Spells(s, n) == \A i \in 1 .. M : s[n + i] = Magic[i]

LEMMA MagicFacts ==
  /\ Magic \in Seq(Int) /\ M \in Nat /\ M > 1
  /\ MinHeader \in Nat /\ MinHeader > M /\ MinHeader <= HeadsLen + SumLen
  /\ SchemaEnd = M + 2 /\ HeadsLen = M + 3 /\ SumLen = 2
BY ExtractionAssumption DEF M, SchemaEnd, HeadsLen, SumLen

LEMMA SubSeqFacts ==
  ASSUME NEW s \in Seq(Int), NEW k \in 0 .. Len(s), NEW n \in k .. Len(s)
  PROVE  /\ SubSeq(s, k + 1, n) \in Seq(Int)
         /\ Len(SubSeq(s, k + 1, n)) = n - k
         /\ \A i \in 1 .. n - k : SubSeq(s, k + 1, n)[i] = s[k + i]
<1>. DEFINE m == k + 1
<1>1. /\ m \in Int /\ n \in Int /\ k \in Int /\ m = k + 1 /\ k <= n
      /\ \A i \in m .. n : s[i] \in Int
  OBVIOUS
<1>. HIDE DEF m
<1>2. /\ SubSeq(s, m, n) \in Seq(Int)
      /\ Len(SubSeq(s, m, n)) = IF m <= n THEN n - m + 1 ELSE 0
      /\ \A i \in 1 .. n - m + 1 : SubSeq(s, m, n)[i] = s[m + i - 1]
  BY <1>1, SubSeqProperties, SMTT(30)
<1>3. /\ n - m + 1 = n - k /\ \A i \in 1 .. n - k : m + i - 1 = k + i
      /\ Len(SubSeq(s, m, n)) = n - k
  BY <1>1, <1>2
<1>4. \A i \in 1 .. n - k : SubSeq(s, m, n)[i] = s[k + i]
  BY <1>2, <1>3
<1>. QED
  BY <1>2, <1>3, <1>4 DEF m

LEMMA DropIsRest ==
  ASSUME NEW s \in Seq(Int), NEW k \in 0 .. Len(s)
  PROVE  IsRest(Drop(s, k), s, k)
<1>1. Len(s) \in k .. Len(s)
  OBVIOUS
<1>. QED
  BY <1>1, SubSeqFacts DEF IsRest, Drop

LEMMA EndingIsRest ==
  ASSUME NEW s \in Seq(Int), NEW n \in 0 .. Len(s)
  PROVE  IsRest(Ending(s, n), s, Len(s) - n)
<1>1. Len(s) - n \in 0 .. Len(s) /\ Len(s) - n + 1 = (Len(s) - n) + 1
  OBVIOUS
<1>2. Ending(s, n) = Drop(s, Len(s) - n)
  BY DEF Ending, Drop
<1>. QED
  BY <1>1, <1>2, DropIsRest

LEMMA RestIsShorter ==
  ASSUME NEW s \in Seq(Int), NEW d, NEW k, IsRest(d, s, k)
  PROVE  Len(d) \in Nat /\ Len(d) <= Len(s)
BY DEF IsRest

LEMMA RestOfRest ==
  ASSUME NEW s \in Seq(Int), NEW d, NEW e, NEW j, NEW k, IsRest(d, s, k), IsRest(e, d, j)
  PROVE  IsRest(e, s, k + j)
<1>1. /\ d \in Seq(Int) /\ k \in 0 .. Len(s) /\ Len(d) = Len(s) - k
      /\ e \in Seq(Int) /\ j \in 0 .. Len(d) /\ Len(e) = Len(d) - j
  BY DEF IsRest
<1>2. ASSUME NEW i \in 1 .. Len(e) PROVE e[i] = s[k + j + i]
  <2>1. j + i \in 1 .. Len(d) /\ k + (j + i) = k + j + i
    BY <1>1
  <2>. QED
    BY <2>1 DEF IsRest
<1>. QED
  BY <1>1, <1>2 DEF IsRest

LEMMA RestOfFront ==
  ASSUME NEW s \in Seq(Int), NEW t \in Seq(Int), NEW d, NEW k, IsRest(d, s, k)
  PROVE  IsRest(d \o t, s \o t, k)
<1>1. d \in Seq(Int) /\ k \in 0 .. Len(s) /\ Len(d) = Len(s) - k
  BY DEF IsRest
<1>2. /\ d \o t \in Seq(Int) /\ Len(d \o t) = Len(d) + Len(t)
      /\ \A i \in 1 .. Len(d) + Len(t) : (d \o t)[i] = IF i <= Len(d) THEN d[i] ELSE t[i - Len(d)]
  BY <1>1, ConcatProperties
<1>3. /\ s \o t \in Seq(Int) /\ Len(s \o t) = Len(s) + Len(t)
      /\ \A i \in 1 .. Len(s) + Len(t) : (s \o t)[i] = IF i <= Len(s) THEN s[i] ELSE t[i - Len(s)]
  BY ConcatProperties
<1>4. ASSUME NEW i \in 1 .. Len(d \o t) PROVE (d \o t)[i] = (s \o t)[k + i]
  <2>1. CASE i <= Len(d)
    BY <1>1, <1>2, <1>3, <2>1 DEF IsRest
  <2>2. CASE i > Len(d)
    BY <1>1, <1>2, <1>3, <2>2, SMTT(30)
  <2>. QED
    BY <1>1, <1>2, <2>1, <2>2
<1>. QED
  BY <1>1, <1>2, <1>3, <1>4 DEF IsRest

LEMMA RestOfBack ==
  ASSUME NEW s \in Seq(Int), NEW t \in Seq(Int), NEW d, NEW k, IsRest(d, t, k)
  PROVE  IsRest(d, s \o t, Len(s) + k)
<1>1. d \in Seq(Int) /\ k \in 0 .. Len(t) /\ Len(d) = Len(t) - k
  BY DEF IsRest
<1>2. /\ s \o t \in Seq(Int) /\ Len(s \o t) = Len(s) + Len(t)
      /\ \A i \in 1 .. Len(s) + Len(t) : (s \o t)[i] = IF i <= Len(s) THEN s[i] ELSE t[i - Len(s)]
  BY ConcatProperties
<1>3. ASSUME NEW i \in 1 .. Len(d) PROVE d[i] = (s \o t)[Len(s) + k + i]
  <2>1. d[i] = t[k + i]
    BY DEF IsRest
  <2>. QED
    BY <1>1, <1>2, <2>1, SMTT(30)
<1>. QED
  BY <1>1, <1>2, <1>3 DEF IsRest

LEMMA SpellsIsSubSeq ==
  ASSUME NEW s \in Seq(Int), NEW n \in 0 .. Len(s) - M
  PROVE  SubSeq(s, n + 1, n + M) = Magic <=> Spells(s, n)
<1>. DEFINE t == SubSeq(s, n + 1, n + M)
<1>1. n \in 0 .. Len(s) /\ n + M \in n .. Len(s) /\ n + M - n = M
  BY MagicFacts
<1>2. t \in Seq(Int) /\ Len(t) = M /\ \A i \in 1 .. M : t[i] = s[n + i]
  <2>. DEFINE e == n + M
  <2>1. e \in n .. Len(s) /\ n \in 0 .. Len(s)
    BY <1>1
  <2>. HIDE DEF e
  <2>2. /\ SubSeq(s, n + 1, e) \in Seq(Int) /\ Len(SubSeq(s, n + 1, e)) = e - n
        /\ \A i \in 1 .. e - n : SubSeq(s, n + 1, e)[i] = s[n + i]
    BY <2>1, SubSeqFacts
  <2>3. e - n = M
    BY MagicFacts DEF e
  <2>4. t = SubSeq(s, n + 1, e)
    BY DEF e
  <2>. HIDE DEF t
  <2>. QED
    BY <2>2, <2>3, <2>4
<1>4. t = Magic <=> \A i \in 1 .. M : t[i] = Magic[i]
  <2>. HIDE DEF t
  <2>1. Len(Magic) = M
    BY DEF M
  <2>. QED
    BY <1>2, <2>1, MagicFacts, SeqEqual
<1>. QED
  BY <1>2, <1>4 DEF Spells

\* bytes.Index finds the first one.
LEMMA IndexFacts ==
  ASSUME NEW s \in Seq(Int)
  PROVE  /\ Index(s) \in Int
         /\ Index(s) >= 0 => Index(s) + M <= Len(s) /\ Spells(s, Index(s))
         /\ \A n \in 0 .. Len(s) - M : Index(s) < 0 \/ n < Index(s) => ~ Spells(s, n)
<1>. DEFINE at == {i \in 0 .. Len(s) - M : SubSeq(s, i + 1, i + M) = Magic}
<1>1. \A n \in 0 .. Len(s) - M : n \in at <=> Spells(s, n)
  BY SpellsIsSubSeq
<1>2. at \in SUBSET Nat /\ \A n \in at : n \in 0 .. Len(s) - M
  OBVIOUS
<1>3. Index(s) = IF at = {} THEN -1 ELSE Min(at)
  BY DEF Index
<1>. HIDE DEF at
<1>4. CASE at = {}
  <2>1. Index(s) = -1
    BY <1>3, <1>4
  <2>. QED
    BY <1>1, <1>4, <2>1
<1>5. CASE at # {}
  <2>1. \E m \in at : \A k \in at : m <= k
    BY <1>2, <1>5, Tries!LeastElement
  <2>2. Min(at) \in at /\ \A k \in at : Min(at) <= k
    BY <2>1, Zenon DEF Min
  <2>3. Index(s) = Min(at) /\ Index(s) \in Nat /\ Index(s) \in 0 .. Len(s) - M
    BY <1>2, <1>3, <1>5, <2>2
  <2>4. Spells(s, Index(s)) /\ Index(s) + M <= Len(s)
    BY <1>1, <2>2, <2>3, MagicFacts
  <2>5. ASSUME NEW n \in 0 .. Len(s) - M, n < Index(s) PROVE ~ Spells(s, n)
    BY <1>1, <2>2, <2>3, <2>5
  <2>. QED
    BY <2>3, <2>4, <2>5
<1>. QED
  BY <1>4, <1>5

\* No magic begins inside another one.
LEMMA MagicsApart ==
  ASSUME NEW s \in Seq(Int), NEW n \in 1 .. M - 1, Spells(s, 0)
  PROVE  ~ Spells(s, n)
<1>1. SubSeq(Magic, 1, M - n) # SubSeq(Magic, n + 1, M)
  BY ExtractionAssumption
<1>. DEFINE a == SubSeq(Magic, 1, M - n)
            b == SubSeq(Magic, n + 1, M)
<1>2. /\ M - n \in Int /\ n + 1 \in Int /\ 1 \in Int /\ M \in Int
      /\ \A i \in 1 .. M : Magic[i] \in Int
      /\ \A i \in 1 .. M - n : Magic[i] \in Int
      /\ \A i \in n + 1 .. M : Magic[i] \in Int
  BY MagicFacts DEF M
<1>3. /\ a \in Seq(Int) /\ Len(a) = IF 1 <= M - n THEN M - n - 1 + 1 ELSE 0
      /\ \A i \in 1 .. M - n - 1 + 1 : a[i] = Magic[1 + i - 1]
  BY <1>2, SubSeqProperties
<1>4. /\ b \in Seq(Int) /\ Len(b) = IF n + 1 <= M THEN M - (n + 1) + 1 ELSE 0
      /\ \A i \in 1 .. M - (n + 1) + 1 : b[i] = Magic[n + 1 + i - 1]
  BY <1>2, SubSeqProperties
<1>5. Len(a) = Len(b) /\ Len(a) = M - n
  BY <1>2, <1>3, <1>4
<1>6. PICK i \in 1 .. M - n : a[i] # b[i]
  <2>. HIDE DEF a, b
  <2>1. a # b
    BY <1>1 DEF a, b
  <2>. QED
    BY <1>3, <1>4, <1>5, <2>1, SeqEqual
<1>7. a[i] = Magic[i] /\ b[i] = Magic[n + i]
  BY <1>2, <1>3, <1>4
<1>8. i \in 1 .. M /\ n + i \in 1 .. M /\ 0 + (n + i) = n + i
  BY <1>2
<1>. HIDE DEF a, b
<1>9. s[n + i] = Magic[n + i]
  BY <1>8 DEF Spells
<1>. QED
  BY <1>6, <1>7, <1>8, <1>9 DEF Spells

-----------------------------------------------------------------------------
(***************************************************************************)
(* One round of Extract, on the bytes it had and those that came.          *)
(***************************************************************************)
Rec == [data : Seq(Int), magic : {-1, 0}, headsLen : {-1, HeadsLen}, payloadLen : Int]

\* What is known of the frame that data begins with.
HeadOK(r) ==
  /\ r \in Rec
  /\ r.magic = 0 => Len(r.data) >= M /\ Spells(r.data, 0)
  /\ r.magic = -1 => r.headsLen = -1
  /\ r.headsLen >= 0 => /\ Len(r.data) >= HeadsLen
                        /\ r.payloadLen = r.data[HeadsLen] /\ r.payloadLen >= 0

\* What follows the first n bytes of s may be a good frame, or grow into one.
MayBegin(s, n) ==
  \E f \in GoodFrames : \A i \in 1 .. Len(f) : n + i <= Len(s) => s[n + i] = f[i]

LEMMA GoodFrameFacts ==
  ASSUME NEW f \in GoodFrames
  PROVE  /\ f \in Seq(Int) /\ Len(f) >= HeadsLen + SumLen
         /\ Spells(f, 0) /\ f[M + 1] = Tschema
         /\ f[HeadsLen] \in Int /\ f[HeadsLen] >= 0
         /\ Len(f) = HeadsLen + f[HeadsLen] + SumLen
         /\ f[HeadsLen + f[HeadsLen] + 1] = ChecksumHead
<1>1. WellFormed(f)
  BY ExtractionAssumption
<1>2. /\ f \in Seq(Int) /\ Len(f) >= HeadsLen + SumLen
      /\ SubSeq(f, 1, M) = Magic /\ f[M + 1] = Tschema
      /\ Len(f) = HeadsLen + f[HeadsLen] + SumLen
      /\ f[HeadsLen + f[HeadsLen] + 1] = ChecksumHead
  BY <1>1 DEF WellFormed
<1>3. HeadsLen \in 1 .. Len(f) /\ 0 \in 0 .. Len(f) - M /\ 0 + 1 = 1 /\ 0 + M = M
  BY <1>2, MagicFacts
<1>4. f[HeadsLen] \in Int
  BY <1>2, <1>3
<1>5. Spells(f, 0)
  BY <1>2, <1>3, SpellsIsSubSeq
<1>6. f[HeadsLen] >= 0
  BY <1>2, <1>4, MagicFacts, SMTT(30)
<1>. QED
  BY <1>2, <1>4, <1>5, <1>6

\* Where no magic is, no good frame begins.
LEMMA NoMagicNoFrame ==
  ASSUME NEW s \in Seq(Int), NEW n \in 0 .. Len(s) - M, ~ Spells(s, n)
  PROVE  ~ MayBegin(s, n)
<1>. SUFFICES ASSUME NEW f \in GoodFrames,
                     \A i \in 1 .. Len(f) : n + i <= Len(s) => s[n + i] = f[i]
             PROVE  Spells(s, n)
  BY DEF MayBegin
<1>1. /\ f \in Seq(Int) /\ Len(f) \in Nat /\ Len(f) >= M
      /\ \A i \in 1 .. M : f[0 + i] = Magic[i]
  <2>1. f \in Seq(Int) /\ Len(f) >= HeadsLen + SumLen /\ Spells(f, 0)
    BY GoodFrameFacts
  <2>. QED
    BY <2>1, MagicFacts DEF Spells
<1>2. ASSUME NEW i \in 1 .. M PROVE s[n + i] = Magic[i]
  <2>1. i \in 1 .. Len(f) /\ n + i <= Len(s) /\ 0 + i = i
    BY <1>1, MagicFacts
  <2>. QED
    BY <1>1, <2>1
<1>. QED
  BY <1>2 DEF Spells

\* d, a part of the bytes s, is what detectMagic leaves of them: it begins
\* with a magic or is too short for one, and behind the first low bytes none
\* was dropped that a magic begins with.
Detected(d, s, low) ==
  \E k \in 0 .. Len(s) :
    /\ IsRest(d.rbuf.data, s, k)
    /\ k >= low
    /\ \A n \in low .. k - 1 : n + M <= Len(s) /\ ~ Spells(s, n)
    /\ \/ d = At(d.rbuf.data) /\ Len(d.rbuf.data) >= M /\ Spells(d.rbuf.data, 0)
       \/ d = Keep(d.rbuf.data) /\ Len(d.rbuf.data) < M

\* A magic in a part of s, or in what it begins with, is one in s.
LEMMA SpellsInRest ==
  ASSUME NEW s \in Seq(Int), NEW d, NEW k, IsRest(d, s, k), NEW n \in 0 .. Len(d) - M
  PROVE  Spells(d, n) <=> Spells(s, k + n)
<1>1. /\ d \in Seq(Int) /\ k \in 0 .. Len(s) /\ Len(d) = Len(s) - k
  BY DEF IsRest
<1>2. ASSUME NEW i \in 1 .. M PROVE d[n + i] = s[k + n + i]
  <2>1. n + i \in 1 .. Len(d) /\ k + (n + i) = k + n + i
    BY <1>1, MagicFacts
  <2>. QED
    BY <2>1 DEF IsRest
<1>. QED
  BY <1>2 DEF Spells

LEMMA SpellsInFront ==
  ASSUME NEW s \in Seq(Int), NEW t \in Seq(Int), NEW n \in 0 .. Len(s) - M
  PROVE  Spells(s, n) <=> Spells(s \o t, n)
<1>1. \A i \in 1 .. Len(s) : (s \o t)[i] = s[i]
  BY ConcatProperties
<1>2. \A i \in 1 .. M : n + i \in 1 .. Len(s)
  BY MagicFacts
<1>. QED
  BY <1>1, <1>2 DEF Spells

LEMMA AtDetects ==
  ASSUME NEW s \in Seq(Int), NEW x, NEW k, NEW low \in {0, 1}, IsRest(x, s, k), k >= low,
         \A n \in low .. k - 1 : n + M <= Len(s) /\ ~ Spells(s, n),
         Len(x) >= M, Spells(x, 0)
  PROVE  Detected(At(x), s, low)
<1>1. At(x).rbuf.data = x
  BY DEF At, Fresh
<1>2. k \in 0 .. Len(s)
  BY DEF IsRest
<1>. QED
  BY <1>1, <1>2 DEF Detected

LEMMA KeepDetects ==
  ASSUME NEW s \in Seq(Int), NEW x, NEW k, NEW low \in {0, 1}, IsRest(x, s, k), k >= low,
         \A n \in low .. k - 1 : n + M <= Len(s) /\ ~ Spells(s, n),
         Len(x) < M
  PROVE  Detected(Keep(x), s, low)
<1>1. Keep(x).rbuf.data = x
  BY DEF Keep, Fresh
<1>2. k \in 0 .. Len(s)
  BY DEF IsRest
<1>. QED
  BY <1>1, <1>2 DEF Detected

(***************************************************************************)
(* detectMagic finds the first magic that is not the one to skip, also one *)
(* that the chunk boundary cuts, and drops no byte it may begin with.      *)
(***************************************************************************)
LEMMA DetectFinds ==
  ASSUME NEW r, HeadOK(r), r.magic = -1, NEW chunk \in Seq(Int), NEW skip, NEW low,
         \/ skip = 0 /\ low = 0
         \/ skip = M /\ low = 1 /\ Len(r.data) >= M /\ Spells(r.data, 0)
  PROVE  Detected(DetectMagic(r, chunk, skip), r.data \o chunk, low)
<1>. DEFINE data  == r.data
            s     == data \o chunk
            P     == IF Len(data) >= M THEN Len(data) - (M - 1) ELSE 0
            pre   == IF Len(data) >= M THEN Ending(data, M - 1) ELSE data
            cp    == IF Len(chunk) < M - 1 THEN Len(chunk) ELSE M - 1
            start == SubSeq(chunk, 1, cp)
            both  == pre \o start
            behind == Drop(data, skip)
            found == Len(data) >= M /\ Index(behind) >= 0
<1>1. /\ data \in Seq(Int) /\ s \in Seq(Int) /\ Len(s) = Len(data) + Len(chunk)
      /\ Len(data) \in Nat /\ Len(chunk) \in Nat /\ low \in {0, 1}
      /\ \A i \in 1 .. Len(s) : s[i] = IF i <= Len(data) THEN data[i] ELSE chunk[i - Len(data)]
  <2>1. data \in Seq(Int)
    BY DEF HeadOK, Rec
  <2>. HIDE DEF data
  <2>. QED
    BY <2>1, ConcatProperties
<1>2. DetectMagic(r, chunk, skip) =
        IF found THEN At(Drop(data, skip + Index(behind)) \o chunk)
        ELSE IF Len(pre) + Len(chunk) < M THEN Keep(pre \o chunk)
        ELSE IF Index(both) >= 0 THEN At(Drop(pre, Index(both)) \o chunk)
        ELSE IF Index(chunk) >= 0 THEN At(Drop(chunk, Index(chunk)))
        ELSE Keep(Ending(pre, M - 1 - cp) \o Ending(chunk, cp))
  BY DEF DetectMagic
<1>. HIDE DEF data
<1>3. ASSUME Len(data) >= M
      PROVE  /\ skip \in 0 .. Len(data) /\ low <= skip
             /\ IsRest(behind, data, skip) /\ behind \in Seq(Int)
             /\ Len(behind) = Len(data) - skip
             /\ \A n \in low .. skip - 1 : ~ Spells(data, n)
  <2>1. skip \in 0 .. Len(data) /\ low <= skip
    BY <1>1, <1>3, MagicFacts
  <2>2. IsRest(behind, data, skip)
    BY <1>1, <2>1, DropIsRest
  <2>3. ASSUME NEW n \in low .. skip - 1 PROVE ~ Spells(data, n)
    <3>1. n \in 1 .. M - 1 /\ Spells(data, 0)
      BY <1>1, MagicFacts DEF data
    <3>. QED
      BY <1>1, <3>1, MagicsApart
  <2>. QED
    BY <1>1, <2>1, <2>2, <2>3 DEF IsRest
<1>4. \A n \in 0 .. Len(data) - M : Spells(data, n) <=> Spells(s, n)
  BY <1>1, SpellsInFront
<1>. HIDE DEF s, behind, P, pre, cp, start, both
<1>5. CASE found
  <2>. DEFINE j == Index(behind)
              k == skip + j
              x == Drop(data, k) \o chunk
  <2>1. /\ j \in Nat /\ j + M <= Len(behind) /\ Spells(behind, j)
        /\ \A n \in 0 .. Len(behind) - M : n < j => ~ Spells(behind, n)
    BY <1>3, <1>5, IndexFacts
  <2>2. /\ skip \in 0 .. Len(data) /\ low <= skip /\ IsRest(behind, data, skip)
        /\ Len(behind) = Len(data) - skip
        /\ \A n \in low .. skip - 1 : ~ Spells(data, n)
    BY <1>3, <1>5
  <2>. HIDE DEF j
  <2>3. /\ k \in 0 .. Len(data) - M /\ k \in 0 .. Len(data) /\ k >= low
        /\ j \in 0 .. Len(behind) - M
    BY <1>1, <2>1, <2>2, MagicFacts
  <2>4. Spells(data, skip + j)
    BY <1>1, <2>1, <2>2, <2>3, SpellsInRest
  <2>5. /\ k = skip + j /\ k \in Int /\ skip \in Int /\ low \in Int /\ Len(behind) \in Int
    BY <1>1, <2>2, <2>3
  <2>. HIDE DEF k
  <2>6. ASSUME NEW n \in skip .. k - 1 PROVE ~ Spells(data, n)
    <3>. DEFINE m == n - skip
    <3>1. m \in 0 .. Len(behind) - M /\ m < j /\ skip + m = n
      BY <2>1, <2>5, MagicFacts
    <3>. HIDE DEF m
    <3>2. ~ Spells(behind, m)
      BY <2>1, <3>1
    <3>3. Spells(behind, m) <=> Spells(data, skip + m)
      BY <1>1, <2>2, <3>1, SpellsInRest
    <3>. QED
      BY <3>1, <3>2, <3>3
  <2>8. ASSUME NEW n \in low .. k - 1 PROVE n + M <= Len(s) /\ ~ Spells(s, n)
    <3>1. n \in 0 .. Len(data) - M /\ n + M <= Len(s)
      <4>1. /\ low >= 0 /\ k <= Len(data) - M /\ M \in Nat /\ Len(data) \in Nat
            /\ Len(s) = Len(data) + Len(chunk) /\ Len(chunk) \in Nat
        BY <1>1, <2>3, MagicFacts
      <4>. QED
        BY <2>5, <4>1
    <3>2. n \in low .. skip - 1 \/ n \in skip .. k - 1
      BY <2>5
    <3>3. ~ Spells(data, n)
      BY <2>2, <2>6, <3>2
    <3>. QED
      BY <1>4, <3>1, <3>3
  <2>9. IsRest(x, s, k)
    <3>1. IsRest(Drop(data, k), data, k)
      BY <1>1, <2>3, DropIsRest
    <3>. QED
      BY <1>1, <3>1, RestOfFront DEF s
  <2>. HIDE DEF x
  <2>10. Len(x) >= M /\ Spells(x, 0)
    <3>1. Len(x) = Len(s) - k
      BY <2>9 DEF IsRest
    <3>2. 0 \in 0 .. Len(x) - M /\ Len(x) >= M /\ k + 0 = k
      BY <1>1, <2>3, <3>1, MagicFacts
    <3>3. Spells(s, k)
      BY <1>4, <2>3, <2>4, <2>5
    <3>. QED
      BY <1>1, <2>9, <3>2, <3>3, SpellsInRest
  <2>11. Detected(At(x), s, low)
    BY <1>1, <2>3, <2>8, <2>9, <2>10, AtDetects
  <2>12. DetectMagic(r, chunk, skip) = At(x)
    BY <1>2, <1>5 DEF x, k, j
  <2>. QED
    BY <2>11, <2>12 DEF s, data
<1>6. CASE ~ found
  <2>1. /\ P \in 0 .. Len(data) /\ low <= P /\ (P = 0 \/ P = Len(data) - M + 1)
        /\ IsRest(pre, data, P) /\ pre \in Seq(Int) /\ Len(pre) = Len(data) - P
        /\ Len(pre) <= M - 1
    <3>1. CASE Len(data) >= M
      <4>0. P = Len(data) - (M - 1) /\ pre = Ending(data, M - 1)
        BY <3>1 DEF P, pre
      <4>1. M - 1 \in 0 .. Len(data) /\ P = Len(data) - (M - 1) /\ pre = Ending(data, M - 1)
        <5>1. Len(data) \in Nat /\ M \in Nat /\ M > 1
          BY <1>1, MagicFacts
        <5>. QED
          BY <3>1, <4>0, <5>1
      <4>2. IsRest(pre, data, P)
        BY <1>1, <4>1, EndingIsRest
      <4>3. P \in 0 .. Len(data) /\ low <= P /\ P = Len(data) - M + 1
        BY <1>1, <3>1, <4>1, MagicFacts
      <4>. QED
        BY <1>1, <4>1, <4>2, <4>3, MagicFacts DEF IsRest
    <3>2. CASE Len(data) < M
      <4>1. P = 0 /\ pre = data /\ low = 0 /\ Len(data) <= M - 1
        BY <1>1, <3>2, MagicFacts DEF P, pre, data
      <4>2. IsRest(data, data, 0)
        BY <1>1 DEF IsRest
      <4>. QED
        BY <1>1, <4>1, <4>2
    <3>. QED
      BY <1>1, <3>1, <3>2, MagicFacts
  <2>2. ASSUME NEW n \in low .. P - 1 PROVE n + M <= Len(s) /\ ~ Spells(s, n)
    <3>1. Len(data) >= M /\ n \in 0 .. Len(data) - M /\ n + M <= Len(s)
      <4>1. /\ low \in Int /\ low >= 0 /\ M \in Nat /\ Len(data) \in Nat
            /\ Len(s) = Len(data) + Len(chunk) /\ Len(chunk) \in Nat
        BY <1>1, MagicFacts
      <4>2. P \in Int /\ n < P /\ n \in Int /\ n >= 0 /\ P # 0
        BY <2>1, <4>1
      <4>3. P = Len(data) - M + 1
        BY <2>1, <4>2
      <4>. QED
        BY <4>1, <4>2, <4>3
    <3>2. /\ skip \in 0 .. Len(data) /\ IsRest(behind, data, skip) /\ behind \in Seq(Int)
          /\ Len(behind) = Len(data) - skip
          /\ n \in low .. skip - 1 => ~ Spells(data, n)
          /\ Index(behind) < 0
      BY <1>3, <1>6, <3>1, IndexFacts
    <3>3. CASE n < skip
      <4>1. n \in low .. skip - 1
        BY <1>1, <3>2, <3>3
      <4>. QED
        BY <1>4, <3>1, <3>2, <4>1
    <3>4. CASE n >= skip
      <4>. DEFINE m == n - skip
      <4>1. m \in 0 .. Len(behind) - M /\ skip + m = n
        BY <1>1, <3>1, <3>2, <3>4, MagicFacts
      <4>. HIDE DEF m
      <4>2. ~ Spells(behind, m)
        BY <3>2, <4>1, IndexFacts
      <4>3. Spells(behind, m) <=> Spells(data, skip + m)
        BY <1>1, <3>2, <4>1, SpellsInRest
      <4>. QED
        BY <1>4, <3>1, <4>1, <4>2, <4>3
    <3>. QED
      BY <1>1, <3>1, <3>2, <3>3, <3>4
  <2>3. IsRest(pre \o chunk, s, P)
    BY <1>1, <2>1, RestOfFront DEF s
  <2>4. CASE Len(pre) + Len(chunk) < M
    <3>1. Len(pre \o chunk) < M
      <4>1. Len(pre \o chunk) = Len(pre) + Len(chunk)
        BY <2>1, ConcatProperties
      <4>. QED
        BY <2>4, <4>1
    <3>2. Detected(Keep(pre \o chunk), s, low)
      BY <1>1, <2>1, <2>2, <2>3, <3>1, KeepDetects
    <3>3. DetectMagic(r, chunk, skip) = Keep(pre \o chunk)
      BY <1>2, <1>6, <2>4
    <3>. QED
      BY <3>2, <3>3 DEF s, data
  <2>5. CASE Len(pre) + Len(chunk) >= M
    <3>1. /\ cp \in 0 .. M - 1 /\ cp \in 0 .. Len(chunk)
          /\ cp = M - 1 \/ (cp = Len(chunk) /\ Len(chunk) < M - 1)
      <4>1. M \in Nat /\ M > 1 /\ Len(chunk) \in Nat
        BY MagicFacts
      <4>2. CASE Len(chunk) < M - 1
        BY <4>1, <4>2 DEF cp
      <4>3. CASE ~ (Len(chunk) < M - 1)
        BY <4>1, <4>3 DEF cp
      <4>. QED
        BY <4>2, <4>3
    <3>2. /\ start \in Seq(Int) /\ Len(start) = cp
          /\ \A i \in 1 .. cp : start[i] = chunk[i]
      <4>1. cp \in 0 .. Len(chunk) /\ 0 \in 0 .. Len(chunk) /\ cp - 0 = cp /\ 0 + 1 = 1
        BY <3>1
      <4>2. /\ SubSeq(chunk, 0 + 1, cp) \in Seq(Int) /\ Len(SubSeq(chunk, 0 + 1, cp)) = cp - 0
            /\ \A i \in 1 .. cp - 0 : SubSeq(chunk, 0 + 1, cp)[i] = chunk[0 + i]
        BY <4>1, SubSeqFacts
      <4>. QED
        BY <4>1, <4>2 DEF start
    <3>3. /\ both \in Seq(Int) /\ Len(both) = Len(pre) + cp
          /\ \A i \in 1 .. Len(both) : both[i] = s[P + i]
      <4>1. /\ both \in Seq(Int) /\ Len(both) = Len(pre) + cp
            /\ \A i \in 1 .. Len(pre) + cp :
                 both[i] = IF i <= Len(pre) THEN pre[i] ELSE start[i - Len(pre)]
        BY <2>1, <3>2, ConcatProperties, SMTT(30) DEF both
      <4>2. ASSUME NEW i \in 1 .. Len(pre) + cp PROVE both[i] = s[P + i]
        <5>0. /\ i \in Int /\ i >= 1 /\ i <= Len(pre) + cp /\ P \in Nat /\ cp \in Nat
              /\ Len(pre) \in Nat /\ Len(pre) = Len(data) - P /\ Len(data) \in Nat
              /\ Len(s) = Len(data) + Len(chunk) /\ Len(chunk) \in Nat /\ cp <= Len(chunk)
          BY <1>1, <2>1, <3>1
        <5>1. CASE i <= Len(pre)
          <6>1. /\ i \in 1 .. Len(pre) /\ P + i \in 1 .. Len(data)
                /\ P + i \in 1 .. Len(s) /\ P + i <= Len(data)
            BY <5>0, <5>1
          <6>2. both[i] = pre[i] /\ pre[i] = data[P + i]
            BY <2>1, <4>1, <5>1, <6>1 DEF IsRest
          <6>3. s[P + i] = data[P + i]
            BY <1>1, <6>1
          <6>. QED
            BY <6>2, <6>3
        <5>2. CASE i > Len(pre)
          <6>1. /\ i - Len(pre) \in 1 .. cp /\ i - Len(pre) = P + i - Len(data)
                /\ P + i \in 1 .. Len(s) /\ P + i > Len(data)
            BY <5>0, <5>2
          <6>2. both[i] = start[i - Len(pre)]
            BY <4>1, <5>0, <5>2
          <6>3. start[i - Len(pre)] = chunk[i - Len(pre)]
            BY <3>2, <6>1
          <6>4. s[P + i] = chunk[P + i - Len(data)]
            BY <1>1, <5>0, <6>1, SMTT(30)
          <6>. QED
            BY <6>1, <6>2, <6>3, <6>4
        <5>. QED
          BY <2>1, <5>1, <5>2
      <4>. QED
        BY <4>1, <4>2
    <3>4. ASSUME NEW n \in 0 .. Len(both) - M
          PROVE  Spells(both, n) <=> Spells(s, P + n)
      <4>1. ASSUME NEW i \in 1 .. M PROVE both[n + i] = s[P + n + i]
        <5>1. n + i \in 1 .. Len(both) /\ P + (n + i) = P + n + i
          BY <2>1, <3>3, MagicFacts
        <5>. QED
          BY <3>3, <5>1
      <4>. QED
        BY <4>1 DEF Spells
    <3>0. Index(both) \in Int /\ Index(chunk) \in Int /\ Len(pre) + Len(chunk) \in Nat /\ M \in Nat
      <4>1. Len(pre) \in Nat /\ Len(chunk) \in Nat
        BY <1>1, <2>1
      <4>2. Index(both) \in Int /\ Index(chunk) \in Int
        BY <3>3, IndexFacts
      <4>. QED
        BY <4>1, <4>2, MagicFacts
    <3>5. CASE Index(both) >= 0
      <4>. DEFINE j == Index(both)
                  k == P + j
                  x == Drop(pre, j) \o chunk
      <4>1. /\ j \in Nat /\ j + M <= Len(both) /\ Spells(both, j)
            /\ \A n \in 0 .. Len(both) - M : n < j => ~ Spells(both, n)
        BY <3>3, <3>5, IndexFacts
      <4>2. DetectMagic(r, chunk, skip) = At(x)
        BY <1>1, <1>2, <1>6, <2>1, <2>5, <3>5, MagicFacts, SMTT(30)
      <4>. HIDE DEF j, k
      <4>3. /\ j \in 0 .. Len(pre) /\ j \in 0 .. Len(both) - M /\ k = P + j
            /\ k \in 0 .. Len(s) /\ k >= low /\ k + M <= Len(s) /\ low \in Int /\ low >= 0
        <5>1. /\ Len(both) = Len(pre) + cp /\ cp \in Nat /\ cp <= M - 1 /\ cp <= Len(chunk)
              /\ Len(pre) \in Nat /\ Len(pre) = Len(data) - P /\ P \in Nat /\ low <= P
              /\ Len(s) = Len(data) + Len(chunk) /\ Len(data) \in Nat /\ Len(chunk) \in Nat
              /\ M \in Nat /\ k = P + j /\ low \in Int /\ low >= 0
          BY <1>1, <2>1, <3>1, <3>3, MagicFacts DEF k
        <5>. QED
          BY <4>1, <5>1
      <4>4. ASSUME NEW n \in low .. k - 1 PROVE n + M <= Len(s) /\ ~ Spells(s, n)
        <5>1. CASE n < P
          <6>1. n \in low .. P - 1
            BY <2>1, <4>3, <5>1
          <6>. QED
            BY <2>2, <6>1
        <5>2. CASE n >= P
          <6>. DEFINE m == n - P
          <6>1. m \in 0 .. Len(both) - M /\ m < j /\ P + m = n /\ n + M <= Len(s)
            <7>1. /\ n \in Int /\ n < k /\ k = P + j /\ k + M <= Len(s) /\ j + M <= Len(both)
                  /\ j \in Nat /\ P \in Nat /\ M \in Nat /\ Len(s) \in Nat /\ Len(both) \in Nat
              BY <1>1, <2>1, <3>3, <4>1, <4>3, MagicFacts
            <7>. QED
              BY <5>2, <7>1
          <6>. HIDE DEF m
          <6>2. ~ Spells(both, m)
            BY <4>1, <6>1
          <6>. QED
            BY <3>4, <6>1, <6>2
        <5>. QED
          BY <2>1, <4>3, <5>1, <5>2
      <4>5. IsRest(x, s, k)
        <5>1. IsRest(Drop(pre, j), pre, j)
          BY <2>1, <4>3, DropIsRest
        <5>2. IsRest(Drop(pre, j), data, P + j)
          BY <1>1, <2>1, <5>1, RestOfRest
        <5>. QED
          BY <1>1, <4>3, <5>2, RestOfFront DEF s
      <4>. HIDE DEF x
      <4>6. Len(x) >= M /\ Spells(x, 0)
        <5>1. Len(x) = Len(s) - k
          BY <4>5 DEF IsRest
        <5>2. 0 \in 0 .. Len(x) - M /\ Len(x) >= M /\ k + 0 = k
          <6>1. k \in Int /\ k + M <= Len(s) /\ Len(s) \in Nat /\ M \in Nat
            BY <1>1, <4>3, MagicFacts
          <6>. QED
            BY <5>1, <6>1
        <5>3. Spells(s, k)
          BY <3>4, <4>1, <4>3
        <5>. QED
          BY <1>1, <4>5, <5>2, <5>3, SpellsInRest
      <4>7. Detected(At(x), s, low)
        BY <1>1, <4>3, <4>4, <4>5, <4>6, AtDetects
      <4>. QED
        BY <4>2, <4>7 DEF s, data
    <3>6. ASSUME Index(both) < 0,
                 NEW k \in P .. Len(s),
                 k + M <= Len(s) + 1,
                 \A n \in 0 .. k - Len(data) - 1 : ~ Spells(chunk, n)
          PROVE  \A n \in low .. k - 1 : n + M <= Len(s) /\ ~ Spells(s, n)
      <4>. TAKE n \in low .. k - 1
      <4>0. /\ P \in Nat /\ Len(data) \in Nat /\ Len(chunk) \in Nat
            /\ Len(s) = Len(data) + Len(chunk) /\ low \in Int /\ low >= 0
            /\ M \in Nat /\ M > 1 /\ Len(pre) = Len(data) - P
            /\ Len(both) = Len(pre) + cp /\ cp \in Nat
            /\ cp = M - 1 \/ (cp = Len(chunk) /\ Len(chunk) < M - 1)
        BY <1>1, <2>1, <3>1, <3>3, MagicFacts
      <4>1. n \in Int /\ n <= k - 1 /\ n >= low /\ k \in Int /\ n + M <= Len(s)
        BY <3>6, <4>0
      <4>2. CASE n < P
        <5>1. n \in low .. P - 1
          BY <4>0, <4>1, <4>2
        <5>. QED
          BY <2>2, <5>1
      <4>3. CASE P <= n /\ n < Len(data)
        <5>. DEFINE m == n - P
        <5>1. m \in 0 .. Len(both) - M /\ P + m = n
          BY <4>0, <4>1, <4>3
        <5>. HIDE DEF m
        <5>2. ~ Spells(both, m)
          BY <3>3, <3>6, <5>1, IndexFacts
        <5>. QED
          BY <3>4, <4>1, <5>1, <5>2
      <4>4. CASE n >= Len(data)
        <5>. DEFINE m == n - Len(data)
        <5>1. m \in 0 .. k - Len(data) - 1 /\ m \in 0 .. Len(chunk) - M /\ Len(data) + m = n
          BY <4>0, <4>1, <4>4
        <5>. HIDE DEF m
        <5>2. IsRest(chunk, s, Len(data))
          <6>1. ASSUME NEW i \in 1 .. Len(chunk) PROVE chunk[i] = s[Len(data) + i]
            <7>1. /\ Len(data) + i \in 1 .. Len(s) /\ ~ (Len(data) + i <= Len(data))
                  /\ Len(data) + i - Len(data) = i
              BY <1>1
            <7>2. s[Len(data) + i] = chunk[Len(data) + i - Len(data)]
              BY <1>1, <7>1, SMTT(30)
            <7>. QED
              BY <7>1, <7>2
          <6>2. Len(data) \in 0 .. Len(s) /\ Len(chunk) = Len(s) - Len(data)
            BY <1>1
          <6>. QED
            BY <6>1, <6>2 DEF IsRest
        <5>3. Spells(chunk, m) <=> Spells(s, Len(data) + m)
          BY <1>1, <5>1, <5>2, SpellsInRest
        <5>. QED
          BY <3>6, <4>1, <5>1, <5>3
      <4>. QED
        BY <4>0, <4>1, <4>2, <4>3, <4>4
    <3>7. CASE Index(both) < 0 /\ Index(chunk) >= 0
      <4>. DEFINE j == Index(chunk)
                  k == Len(data) + j
                  x == Drop(chunk, j)
      <4>1. /\ j \in Nat /\ j + M <= Len(chunk) /\ Spells(chunk, j)
            /\ \A n \in 0 .. Len(chunk) - M : n < j => ~ Spells(chunk, n)
        BY <3>7, IndexFacts
      <4>2. DetectMagic(r, chunk, skip) = At(x)
        <5>1. ~ (Index(both) >= 0) /\ ~ (Len(pre) + Len(chunk) < M)
          BY <2>5, <3>0, <3>7
        <5>. QED
          BY <1>2, <1>6, <3>7, <5>1
      <4>. HIDE DEF j, k
      <4>3. /\ j \in 0 .. Len(chunk) /\ k = Len(data) + j /\ k \in P .. Len(s) /\ k >= low
            /\ k + M <= Len(s) /\ k \in Int /\ Len(chunk) \in Nat /\ Len(s) \in Nat /\ M \in Nat
            /\ k - Len(data) - 1 = j - 1
        <5>1. /\ Len(s) = Len(data) + Len(chunk) /\ Len(data) \in Nat /\ Len(chunk) \in Nat
              /\ P \in Nat /\ P <= Len(data) /\ low \in Int /\ low <= P /\ M \in Nat
              /\ k = Len(data) + j
          BY <1>1, <2>1, MagicFacts DEF k
        <5>. QED
          BY <4>1, <5>1
      <4>4. \A n \in low .. k - 1 : n + M <= Len(s) /\ ~ Spells(s, n)
        <5>1. \A n \in 0 .. j - 1 : n \in 0 .. Len(chunk) - M /\ n < j
          BY <4>1, <4>3
        <5>. QED
          BY <3>6, <3>7, <4>1, <4>3, <5>1, SMTT(30)
      <4>5. IsRest(x, s, k)
        <5>1. IsRest(Drop(chunk, j), chunk, j)
          BY <4>3, DropIsRest
        <5>. QED
          BY <1>1, <4>3, <5>1, RestOfBack DEF s
      <4>6. Len(x) >= M /\ Spells(x, 0)
        <5>1. IsRest(x, chunk, j) /\ Len(x) = Len(chunk) - j
          BY <4>3, DropIsRest DEF IsRest
        <5>2. 0 \in 0 .. Len(x) - M /\ Len(x) >= M /\ j + 0 = j
          BY <4>1, <4>3, <5>1
        <5>. HIDE DEF x
        <5>3. Spells(x, 0) <=> Spells(chunk, j + 0)
          BY <5>1, <5>2, SpellsInRest
        <5>. QED
          BY <4>1, <5>2, <5>3
      <4>. HIDE DEF x
      <4>7. Detected(At(x), s, low)
        BY <1>1, <4>3, <4>4, <4>5, <4>6, AtDetects
      <4>. QED
        BY <4>2, <4>7 DEF s, data
    <3>8. CASE Index(both) < 0 /\ Index(chunk) < 0
      <4>. DEFINE x == Ending(pre, M - 1 - cp) \o Ending(chunk, cp)
                  k == Len(s) - (M - 1)
      <4>1. DetectMagic(r, chunk, skip) = Keep(x)
        <5>1. ~ (Index(both) >= 0) /\ ~ (Index(chunk) >= 0) /\ ~ (Len(pre) + Len(chunk) < M)
          BY <2>5, <3>0, <3>8
        <5>. QED
          BY <1>2, <1>6, <5>1
      <4>2. /\ k = Len(s) - (M - 1) /\ k \in P .. Len(s) /\ k + M <= Len(s) + 1 /\ k >= low
            /\ k \in Int /\ k \in 0 .. Len(s) /\ Len(s) \in Nat /\ M \in Nat /\ Len(s) - k = M - 1
            /\ Len(pre) \in Nat /\ Len(chunk) \in Nat /\ Len(pre) = Len(data) - P
            /\ Len(s) = Len(data) + Len(chunk) /\ P \in Nat /\ Len(data) \in Nat
        <5>1. /\ Len(s) = Len(data) + Len(chunk) /\ Len(data) \in Nat /\ Len(chunk) \in Nat
              /\ P \in Nat /\ P <= Len(data) /\ low \in Int /\ low <= P /\ M \in Nat /\ M > 1
              /\ Len(pre) = Len(data) - P
          BY <1>1, <2>1, MagicFacts
        <5>. QED
          BY <2>5, <5>1
      <4>. HIDE DEF k
      <4>3. \A n \in low .. k - 1 : n + M <= Len(s) /\ ~ Spells(s, n)
        <5>1. \A n \in 0 .. k - Len(data) - 1 : n \in 0 .. Len(chunk) - M
          BY <4>2
        <5>2. \A n \in 0 .. k - Len(data) - 1 : ~ Spells(chunk, n)
          BY <3>8, <5>1, IndexFacts
        <5>. QED
          BY <3>6, <3>8, <4>2, <5>2
      <4>4. IsRest(x, s, k)
        <5>1. CASE cp = M - 1
          <6>1. M - 1 - cp = 0 /\ cp \in 0 .. Len(chunk) /\ 0 \in 0 .. Len(pre)
            BY <3>1, <4>2, <5>1
          <6>2. IsRest(Ending(pre, 0), pre, Len(pre) - 0) /\ IsRest(Ending(chunk, cp), chunk, Len(chunk) - cp)
            BY <2>1, <6>1, EndingIsRest
          <6>3. Ending(pre, 0) = << >>
            BY <2>1, <6>2 DEF IsRest
          <6>4. x = Ending(chunk, cp)
            BY <6>1, <6>2, <6>3, ConcatEmptySeq DEF IsRest
          <6>5. IsRest(x, s, Len(data) + (Len(chunk) - cp))
            BY <1>1, <6>2, <6>4, RestOfBack DEF s
          <6>6. Len(data) + (Len(chunk) - cp) = k
            BY <4>2, <5>1
          <6>. QED
            BY <6>5, <6>6
        <5>2. CASE cp = Len(chunk) /\ Len(chunk) < M - 1
          <6>. DEFINE n == M - 1 - cp
          <6>1. n \in 0 .. Len(pre) /\ cp \in 0 .. Len(chunk) /\ Len(chunk) - cp = 0
            BY <2>5, <4>2, <5>2
          <6>. HIDE DEF n
          <6>2. IsRest(Ending(pre, n), pre, Len(pre) - n) /\ IsRest(Ending(chunk, cp), chunk, 0)
            <7>1. IsRest(Ending(pre, n), pre, Len(pre) - n)
              BY <2>1, <6>1, EndingIsRest
            <7>2. IsRest(Ending(chunk, cp), chunk, Len(chunk) - cp)
              BY <6>1, EndingIsRest
            <7>. QED
              BY <6>1, <7>1, <7>2
          <6>3. Ending(chunk, cp) = chunk
            <7>1. /\ Ending(chunk, cp) \in Seq(Int) /\ Len(Ending(chunk, cp)) = Len(chunk) - 0
                  /\ \A i \in 1 .. Len(Ending(chunk, cp)) : Ending(chunk, cp)[i] = chunk[0 + i]
              BY <6>2 DEF IsRest
            <7>2. /\ Len(Ending(chunk, cp)) = Len(chunk)
                  /\ \A i \in 1 .. Len(Ending(chunk, cp)) : Ending(chunk, cp)[i] = chunk[i]
              BY <4>2, <7>1
            <7>. QED
              BY <7>1, <7>2, SeqEqual
          <6>4. IsRest(Ending(pre, n), data, P + (Len(pre) - n))
            BY <1>1, <2>1, <6>2, RestOfRest
          <6>5. IsRest(Ending(pre, n) \o chunk, s, P + (Len(pre) - n))
            BY <1>1, <6>4, RestOfFront DEF s
          <6>6. P + (Len(pre) - n) = k
            BY <4>2, <5>2 DEF n
          <6>7. x = Ending(pre, n) \o chunk
            BY <6>3 DEF n
          <6>. QED
            BY <6>5, <6>6, <6>7
        <5>. QED
          BY <3>1, <5>1, <5>2
      <4>. HIDE DEF x
      <4>5. Len(x) < M
        BY <4>2, <4>4 DEF IsRest
      <4>6. Detected(Keep(x), s, low)
        BY <1>1, <4>2, <4>3, <4>4, <4>5, KeepDetects
      <4>. QED
        BY <4>1, <4>6 DEF s, data
    <3>. QED
      BY <1>1, <3>3, <3>5, <3>7, <3>8, IndexFacts
  <2>. QED
    BY <1>1, <2>1, <2>4, <2>5, MagicFacts
<1>. QED
  BY <1>5, <1>6

-----------------------------------------------------------------------------
\* r holds a good frame and all of it.
Whole(r) ==
  /\ r.headsLen = HeadsLen /\ r.headsLen + r.payloadLen + SumLen <= Len(r.data)
  /\ Frame(r) \in GoodFrames

\* r holds too little for any frame, or for the one its header claims.
Short(r, more_) ==
  /\ more_ > 0
  /\ \/ Len(r.data) < HeadsLen + SumLen
     \/ r.headsLen >= 0 /\ more_ <= r.headsLen + r.payloadLen + SumLen - Len(r.data)

Results == [rbuf : Rec, more : Int,
            err : {"nil", "InSufficientData", "InvalidData", "ChecksumFailure"}]

\* What Extract knows when a round has ended: the bytes are all there.
Judged(a) ==
  /\ a \in Results /\ HeadOK(a.rbuf)
  /\ a.err = "nil" => Whole(a.rbuf)
  /\ a.err = "InSufficientData" => Short(a.rbuf, a.more)
  /\ a.err \notin {"nil", "InSufficientData"} => a.rbuf.magic = 0 /\ ~ MayBegin(a.rbuf.data, 0)

LEMMA ParseHeadsJudges ==
  ASSUME NEW r, HeadOK(r), r.magic = 0
  PROVE  LET h == ParseHeads(r)
         IN  /\ h \in Results /\ h.rbuf.data = r.data /\ h.rbuf.magic = 0 /\ HeadOK(h.rbuf)
             /\ h.err = "nil" => h.rbuf.headsLen = HeadsLen
             /\ h.err = "InSufficientData" => h.more > 0 /\ Len(r.data) < HeadsLen + SumLen
             /\ h.err \notin {"nil", "InSufficientData"} => ~ MayBegin(r.data, 0)
<1>. DEFINE h == ParseHeads(r)
            n == Len(r.data)
<1>1. /\ r \in Rec /\ r.data \in Seq(Int) /\ n \in Nat /\ MinHeader \in Nat
      /\ r.headsLen \in {-1, HeadsLen} /\ HeadsLen \in Nat /\ HeadsLen = M + 3 /\ SchemaEnd = M + 2
      /\ M \in Nat /\ M > 1 /\ MinHeader > M /\ SumLen = 2 /\ MinHeader <= HeadsLen + SumLen
  BY MagicFacts DEF HeadOK, Rec
<1>2. CASE r.headsLen >= 0
  <2>1. h = Result(r, 0, "nil")
    BY <1>2 DEF ParseHeads
  <2>2. r.headsLen = HeadsLen
    BY <1>1, <1>2
  <2>. QED
    BY <1>1, <2>1, <2>2 DEF Result, Results
<1>3. CASE ~ (r.headsLen >= 0) /\ n < MinHeader
  <2>1. h = Result(r, MinHeader - n, "InSufficientData")
    BY <1>3 DEF ParseHeads
  <2>2. MinHeader - n > 0 /\ MinHeader - n \in Int /\ n < HeadsLen + SumLen
    BY <1>1, <1>3
  <2>. QED
    BY <1>1, <2>1, <2>2 DEF Result, Results
<1>4. CASE ~ (r.headsLen >= 0) /\ ~ (n < MinHeader) /\ r.data[M + 1] # Tschema
  <2>1. h = Result(r, 0, "InvalidData")
    BY <1>4 DEF ParseHeads
  <2>2. ASSUME NEW f \in GoodFrames,
               \A i \in 1 .. Len(f) : 0 + i <= Len(r.data) => r.data[0 + i] = f[i]
        PROVE  FALSE
    <3>1. /\ f \in Seq(Int) /\ Len(f) \in Nat /\ Len(f) >= HeadsLen + SumLen /\ f[M + 1] = Tschema
      BY GoodFrameFacts
    <3>2. M + 1 \in 1 .. Len(f) /\ 0 + (M + 1) <= Len(r.data) /\ 0 + (M + 1) = M + 1
      BY <1>1, <1>4, <3>1
    <3>. QED
      BY <1>4, <2>2, <3>1, <3>2
  <2>3. ~ MayBegin(r.data, 0)
    BY <2>2 DEF MayBegin
  <2>. QED
    BY <1>1, <2>1, <2>3 DEF Result, Results
<1>5. CASE ~ (r.headsLen >= 0) /\ ~ (n < MinHeader) /\ r.data[M + 1] = Tschema /\ n < HeadsLen
  <2>1. \/ h = Result(r, MinHeader, "InSufficientData")
        \/ h = Result(r, HeadsLen - n, "InSufficientData")
    BY <1>5 DEF ParseHeads
  <2>2. /\ HeadsLen - n > 0 /\ HeadsLen - n \in Int /\ n < HeadsLen + SumLen
    <3>1. n \in Nat /\ HeadsLen \in Nat /\ SumLen = 2 /\ n < HeadsLen
      BY <1>1, <1>5
    <3>. HIDE DEF n
    <3>. QED
      BY <3>1
  <2>3. MinHeader \in Int /\ MinHeader > 0
    BY <1>1
  <2>4. CASE h = Result(r, MinHeader, "InSufficientData")
    <3>1. /\ h.rbuf = r /\ h.more = MinHeader /\ h.err = "InSufficientData" /\ h \in Results
      BY <1>1, <2>3, <2>4 DEF Result, Results
    <3>. QED
      BY <2>2, <2>3, <3>1
  <2>5. CASE h = Result(r, HeadsLen - n, "InSufficientData")
    <3>1. /\ h.rbuf = r /\ h.more = HeadsLen - n /\ h.err = "InSufficientData" /\ h \in Results
      BY <1>1, <2>2, <2>5 DEF Result, Results
    <3>. QED
      BY <2>2, <3>1
  <2>. QED
    BY <2>1, <2>4, <2>5
<1>6. CASE ~ (r.headsLen >= 0) /\ ~ (n < MinHeader) /\ r.data[M + 1] = Tschema /\ ~ (n < HeadsLen)
  <2>1. /\ ~ (n < SchemaEnd) /\ HeadsLen \in 1 .. n /\ r.data[HeadsLen] \in Int
    BY <1>1, <1>6
  <2>2. CASE r.data[HeadsLen] < 0
    <3>1. h = Result(r, 0, "InvalidData")
      BY <1>6, <2>1, <2>2 DEF ParseHeads
    <3>2. ASSUME NEW f \in GoodFrames,
                 \A i \in 1 .. Len(f) : 0 + i <= Len(r.data) => r.data[0 + i] = f[i]
          PROVE  FALSE
      <4>1. /\ f \in Seq(Int) /\ Len(f) \in Nat /\ Len(f) >= HeadsLen + SumLen
            /\ f[HeadsLen] \in Int /\ f[HeadsLen] >= 0
        BY GoodFrameFacts
      <4>2. HeadsLen \in 1 .. Len(f) /\ 0 + HeadsLen <= Len(r.data) /\ 0 + HeadsLen = HeadsLen
        BY <1>1, <1>6, <4>1, SMTT(30)
      <4>. QED
        BY <2>2, <3>2, <4>1, <4>2
    <3>3. ~ MayBegin(r.data, 0)
      BY <3>2 DEF MayBegin
    <3>. QED
      BY <1>1, <3>1, <3>3 DEF Result, Results
  <2>3. CASE ~ (r.data[HeadsLen] < 0)
    <3>. DEFINE q == [r EXCEPT !.headsLen = HeadsLen, !.payloadLen = r.data[HeadsLen]]
    <3>1. h = Result(q, 0, "nil")
      BY <1>6, <2>1, <2>3 DEF ParseHeads
    <3>2. /\ q \in Rec /\ q.data = r.data /\ q.magic = 0 /\ q.headsLen = HeadsLen
          /\ q.payloadLen = r.data[HeadsLen] /\ q.payloadLen >= 0
      <4>. DEFINE len == r.data[HeadsLen]
      <4>1. len \in Int /\ len >= 0
        BY <2>1, <2>3
      <4>. HIDE DEF len
      <4>2. q = [r EXCEPT !.headsLen = HeadsLen, !.payloadLen = len]
        BY DEF len
      <4>. HIDE DEF q
      <4>3. /\ q \in Rec /\ q.data = r.data /\ q.magic = 0 /\ q.headsLen = HeadsLen
            /\ q.payloadLen = len
        BY <1>1, <4>1, <4>2 DEF Rec
      <4>. QED
        BY <4>1, <4>3 DEF len
    <3>. HIDE DEF q
    <3>3. HeadOK(q)
      BY <1>1, <1>6, <3>2 DEF HeadOK
    <3>. QED
      BY <3>1, <3>2, <3>3 DEF Result, Results
  <2>. QED
    BY <2>2, <2>3
<1>. QED
  BY <1>2, <1>3, <1>4, <1>5, <1>6

\* parsePayload, parseChecksum and Validate refuse no good frame.
LEMMA ParseBodyJudges ==
  ASSUME NEW r, HeadOK(r), r.magic = 0, r.headsLen = HeadsLen
  PROVE  LET b == ParseBody(r)
         IN  b.rbuf = r /\ Judged(b)
<1>. DEFINE n == Len(r.data)
            body == r.headsLen + r.payloadLen
<1>1. /\ r \in Rec /\ r.data \in Seq(Int) /\ n \in Nat /\ HeadsLen \in Nat
      /\ HeadsLen = M + 3 /\ SumLen = 2 /\ M \in Nat /\ n >= HeadsLen /\ r.headsLen >= 0
      /\ r.payloadLen \in Nat /\ r.payloadLen = r.data[HeadsLen]
      /\ body = HeadsLen + r.payloadLen /\ body \in Nat
  BY MagicFacts DEF HeadOK, Rec
<1>2. ASSUME NEW f \in GoodFrames,
             \A i \in 1 .. Len(f) : 0 + i <= Len(r.data) => r.data[0 + i] = f[i]
      PROVE  /\ f \in Seq(Int) /\ Len(f) = body + SumLen /\ f[body + 1] = ChecksumHead
  <2>1. /\ f \in Seq(Int) /\ Len(f) \in Nat /\ Len(f) >= HeadsLen + SumLen
        /\ Len(f) = HeadsLen + f[HeadsLen] + SumLen
        /\ f[HeadsLen + f[HeadsLen] + 1] = ChecksumHead
    BY GoodFrameFacts
  <2>2. HeadsLen \in 1 .. Len(f) /\ 0 + HeadsLen <= Len(r.data) /\ 0 + HeadsLen = HeadsLen
    BY <1>1, <2>1
  <2>3. f[HeadsLen] = r.payloadLen
    BY <1>1, <1>2, <2>2
  <2>. QED
    BY <1>1, <2>1, <2>3
<1>. HIDE DEF body
<1>3. CASE body + SumLen > n /\ (body + 1 > n \/ r.data[body + 1] = ChecksumHead)
  <2>1. \E k \in {0, 1, 2} : body + k > n /\ ParseBody(r) = Result(r, body + k - n, "InSufficientData")
    <3>1. CASE body > n
      <4>1. ParseBody(r) = Result(r, body - n, "InSufficientData")
        BY <3>1 DEF ParseBody, body
      <4>. QED
        BY <1>1, <3>1, <4>1
    <3>2. CASE ~ (body > n) /\ body + 1 > n
      <4>1. ParseBody(r) = Result(r, body + 1 - n, "InSufficientData")
        BY <3>2 DEF ParseBody, body
      <4>. QED
        BY <1>1, <3>2, <4>1
    <3>3. CASE ~ (body > n) /\ ~ (body + 1 > n) /\ r.data[body + 1] = ChecksumHead
      <4>1. ParseBody(r) = Result(r, body + SumLen - n, "InSufficientData")
        BY <1>3, <3>3 DEF ParseBody, body
      <4>. QED
        BY <1>1, <1>3, <3>3, <4>1
    <3>. QED
      BY <1>3, <3>1, <3>2, <3>3
  <2>2. PICK k \in {0, 1, 2} : body + k > n /\ ParseBody(r) = Result(r, body + k - n, "InSufficientData")
    BY <2>1
  <2>3. /\ body + k - n \in Int /\ body + k - n > 0 /\ body + k - n <= body + SumLen - n
    <3>1. body \in Int /\ n \in Int /\ k \in Int /\ k <= SumLen /\ SumLen \in Int /\ body + k > n
      BY <1>1, <2>2
    <3>. HIDE DEF n
    <3>. QED
      BY <3>1
  <2>4. Short(r, body + k - n)
    BY <1>1, <2>3 DEF Short, body
  <2>. QED
    BY <1>1, <2>2, <2>3, <2>4 DEF Result, Results, Judged
<1>4. CASE ~ (body > n) /\ ~ (body + 1 > n) /\ r.data[body + 1] # ChecksumHead
  <2>1. ParseBody(r) = Result(r, 0, "InvalidData")
    BY <1>4 DEF ParseBody, body
  <2>2. ASSUME NEW f \in GoodFrames,
               \A i \in 1 .. Len(f) : 0 + i <= Len(r.data) => r.data[0 + i] = f[i]
        PROVE  FALSE
    <3>1. Len(f) = body + SumLen /\ f[body + 1] = ChecksumHead
      BY <1>2, <2>2
    <3>2. body + 1 \in 1 .. Len(f) /\ 0 + (body + 1) <= Len(r.data) /\ 0 + (body + 1) = body + 1
      BY <1>1, <1>4, <3>1
    <3>. QED
      BY <1>4, <2>2, <3>1, <3>2
  <2>3. ~ MayBegin(r.data, 0)
    BY <2>2 DEF MayBegin
  <2>. QED
    BY <1>1, <2>1, <2>3 DEF Result, Results, Judged
<1>5. CASE ~ (body + SumLen > n) /\ r.data[body + 1] = ChecksumHead
  <2>1. ~ (body > n) /\ ~ (body + 1 > n) /\ body + SumLen <= n
    BY <1>1, <1>5
  <2>2. CASE Frame(r) \in GoodFrames
    <3>1. ParseBody(r) = Result(r, 0, "nil")
      BY <1>5, <2>1, <2>2 DEF ParseBody, body
    <3>2. Whole(r)
      BY <2>1, <2>2 DEF Whole, body
    <3>. QED
      BY <1>1, <3>1, <3>2 DEF Result, Results, Judged
  <2>3. CASE Frame(r) \notin GoodFrames
    <3>1. ParseBody(r) = Result(r, 0, "ChecksumFailure")
      BY <1>5, <2>1, <2>3 DEF ParseBody, body
    <3>2. ASSUME NEW f \in GoodFrames,
                 \A i \in 1 .. Len(f) : 0 + i <= Len(r.data) => r.data[0 + i] = f[i]
          PROVE  FALSE
      <4>. DEFINE e == body + SumLen
      <4>1. f \in Seq(Int) /\ Len(f) = e
        BY <1>2, <3>2
      <4>2. e \in 0 .. n /\ 0 \in 0 .. n /\ e - 0 = e /\ 0 + 1 = 1
        BY <1>1, <2>1
      <4>3. Frame(r) = SubSeq(r.data, 0 + 1, e)
        BY <4>2 DEF Frame, body
      <4>. HIDE DEF e
      <4>4. /\ Frame(r) \in Seq(Int) /\ Len(Frame(r)) = e
            /\ \A i \in 1 .. e : Frame(r)[i] = r.data[0 + i]
        BY <1>1, <4>2, <4>3, SubSeqFacts
      <4>5. \A i \in 1 .. Len(f) : f[i] = Frame(r)[i]
        BY <3>2, <4>1, <4>2, <4>4
      <4>. QED
        BY <2>3, <4>1, <4>4, <4>5, SeqEqual
    <3>3. ~ MayBegin(r.data, 0)
      BY <3>2 DEF MayBegin
    <3>. QED
      BY <1>1, <3>1, <3>3 DEF Result, Results, Judged
  <2>. QED
    BY <2>2, <2>3
<1>. QED
  BY <1>1, <1>3, <1>4, <1>5

LEMMA UnmarshalJudges ==
  ASSUME NEW r, HeadOK(r), r.magic = 0
  PROVE  LET u == UnmarshalFragment(r)
         IN  u.rbuf.data = r.data /\ Judged(u)
<1>. DEFINE h == ParseHeads(r)
<1>1. /\ h \in Results /\ h.rbuf.data = r.data /\ h.rbuf.magic = 0 /\ HeadOK(h.rbuf)
      /\ h.err = "nil" => h.rbuf.headsLen = HeadsLen
      /\ h.err = "InSufficientData" => h.more > 0 /\ Len(r.data) < HeadsLen + SumLen
      /\ h.err \notin {"nil", "InSufficientData"} => ~ MayBegin(r.data, 0)
  BY ParseHeadsJudges
<1>2. UnmarshalFragment(r) = IF h.err = "nil" THEN ParseBody(h.rbuf) ELSE h
  BY DEF UnmarshalFragment
<1>. HIDE DEF h
<1>3. CASE h.err = "nil"
  <2>1. ParseBody(h.rbuf).rbuf = h.rbuf /\ Judged(ParseBody(h.rbuf))
    BY <1>1, <1>3, ParseBodyJudges
  <2>. QED
    BY <1>1, <1>2, <1>3, <2>1
<1>4. CASE h.err # "nil"
  BY <1>1, <1>2, <1>4 DEF Judged, Short
<1>. QED
  BY <1>3, <1>4

\* The bytes a keeps are those of s without a front no good frame begins in.
Kept(a, s, low) ==
  \E k \in 0 .. Len(s) :
    IsRest(a.rbuf.data, s, k) /\ k >= low /\ \A n \in low .. k - 1 : ~ MayBegin(s, n)

\* One round, with the bytes there are: DetectFinds, then UnmarshalJudges.
LEMMA AttemptJudges ==
  ASSUME NEW r, HeadOK(r), NEW chunk \in Seq(Int), NEW skip, NEW low,
         \/ skip = 0 /\ low = 0
         \/ skip = M /\ low = 1 /\ Len(r.data) >= M /\ Spells(r.data, 0) /\ r.magic = -1
  PROVE  LET a == Attempt(r, chunk, skip)
         IN  Judged(a) /\ Kept(a, r.data \o chunk, low)
<1>. DEFINE data == r.data
            s == data \o chunk
            d == DetectMagic(r, chunk, skip)
            a == Attempt(r, chunk, skip)
<1>1. /\ r \in Rec /\ data \in Seq(Int) /\ s \in Seq(Int) /\ Len(s) = Len(data) + Len(chunk)
      /\ \A i \in 1 .. Len(data) : s[i] = data[i]
  <2>1. r \in Rec /\ data \in Seq(Int)
    BY DEF HeadOK, Rec
  <2>. HIDE DEF data
  <2>. QED
    BY <2>1, ConcatProperties
<1>2. a = IF d.err = "nil" THEN UnmarshalFragment(d.rbuf) ELSE d
  BY DEF Attempt
<1>3. CASE r.magic = 0
  <2>1. skip = 0 /\ low = 0
    BY <1>3
  <2>2. d = [rbuf |-> [r EXCEPT !.data = @ \o chunk], more |-> 0, err |-> "nil"]
    BY <1>3 DEF DetectMagic
  <2>. DEFINE q == [r EXCEPT !.data = s]
  <2>3. d.err = "nil" /\ d.rbuf = q
    BY <2>2
  <2>4. /\ q \in Rec /\ q.data = s /\ q.magic = 0 /\ q.headsLen = r.headsLen
        /\ q.payloadLen = r.payloadLen
    <3>. HIDE DEF s, data
    <3>. QED
      BY <1>1, <1>3 DEF Rec
  <2>5. HeadOK(q)
    <3>1. Len(data) >= M /\ Spells(data, 0)
      BY <1>3 DEF HeadOK
    <3>2. Len(s) >= M /\ Spells(s, 0)
      <4>1. Len(s) >= M /\ 0 \in 0 .. Len(data) - M
        BY <1>1, <3>1, MagicFacts
      <4>. HIDE DEF data
      <4>. QED
        BY <1>1, <3>1, <4>1, SpellsInFront DEF s
    <3>3. ASSUME r.headsLen >= 0
          PROVE  Len(s) >= HeadsLen /\ q.payloadLen = s[HeadsLen] /\ q.payloadLen >= 0
      <4>1. Len(data) >= HeadsLen /\ r.payloadLen = data[HeadsLen] /\ r.payloadLen >= 0
        BY <3>3 DEF HeadOK
      <4>2. HeadsLen \in 1 .. Len(data) /\ Len(s) >= HeadsLen
        BY <1>1, <4>1, MagicFacts
      <4>. QED
        BY <1>1, <2>4, <4>1, <4>2
    <3>. HIDE DEF q, s, data
    <3>. QED
      BY <1>3, <2>4, <3>2, <3>3 DEF HeadOK
  <2>. HIDE DEF q
  <2>6. Judged(UnmarshalFragment(q)) /\ UnmarshalFragment(q).rbuf.data = s
    BY <2>4, <2>5, UnmarshalJudges
  <2>7. a = UnmarshalFragment(q)
    BY <1>2, <2>3
  <2>. HIDE DEF a, s
  <2>8. IsRest(s, s, 0) /\ 0 \in 0 .. Len(s)
    BY <1>1 DEF IsRest
  <2>9. Kept(a, s, low)
    BY <2>1, <2>6, <2>7, <2>8 DEF Kept
  <2>. QED
    BY <2>6, <2>7, <2>9 DEF a, s
<1>4. CASE r.magic = -1
  <2>1. Detected(d, s, low)
    BY <1>4, DetectFinds
  <2>. HIDE DEF d, s
  <2>2. PICK k \in 0 .. Len(s) :
          /\ IsRest(d.rbuf.data, s, k) /\ k >= low
          /\ \A n \in low .. k - 1 : n + M <= Len(s) /\ ~ Spells(s, n)
          /\ \/ d = At(d.rbuf.data) /\ Len(d.rbuf.data) >= M /\ Spells(d.rbuf.data, 0)
             \/ d = Keep(d.rbuf.data) /\ Len(d.rbuf.data) < M
    BY <2>1 DEF Detected
  <2>3. d.rbuf.data \in Seq(Int) /\ Len(d.rbuf.data) \in Nat
    BY <2>2 DEF IsRest
  <2>4. ASSUME NEW n \in low .. k - 1 PROVE ~ MayBegin(s, n)
    <3>1. n \in 0 .. Len(s) - M
      BY <1>1, <2>2, MagicFacts
    <3>. QED
      BY <1>1, <2>2, <3>1, NoMagicNoFrame
  <2>. DEFINE x == d.rbuf.data
  <2>5. CASE d = At(x) /\ Len(x) >= M /\ Spells(x, 0)
    <3>1. /\ d.err = "nil" /\ d.rbuf \in Rec /\ d.rbuf.magic = 0 /\ d.rbuf.headsLen = -1
      <4>. HIDE DEF x
      <4>. QED
        BY <2>3, <2>5, MagicFacts DEF At, Fresh, Rec, x
    <3>2. HeadOK(d.rbuf)
      BY <2>5, <3>1, MagicFacts DEF HeadOK
    <3>3. Judged(a) /\ a.rbuf.data = d.rbuf.data
      BY <1>2, <3>1, <3>2, UnmarshalJudges
    <3>4. Kept(a, s, low)
      BY <2>2, <2>4, <3>3 DEF Kept
    <3>. QED
      BY <3>3, <3>4 DEF s
  <2>6. CASE d = Keep(x) /\ Len(x) < M
    <3>1. a = d /\ d.err = "InSufficientData"
      BY <1>2, <2>6 DEF Keep
    <3>2. /\ d.rbuf = Fresh(x) /\ d.more = MinHeader - Len(x) /\ d.more > 0 /\ d.more \in Int
          /\ Len(x) < HeadsLen + SumLen
      BY <2>3, <2>6, MagicFacts DEF Keep
    <3>3. d.rbuf \in Rec /\ d.rbuf.magic = -1 /\ d.rbuf.headsLen = -1
      BY <2>3, <3>2 DEF Fresh, Rec
    <3>4. d \in Results
      <4>1. d = [rbuf |-> d.rbuf, more |-> d.more, err |-> d.err]
        BY <2>6 DEF Keep
      <4>. QED
        BY <3>1, <3>2, <3>3, <4>1 DEF Results
    <3>5. Judged(d)
      BY <3>1, <3>2, <3>3, <3>4 DEF Judged, HeadOK, Short
    <3>6. Kept(a, s, low)
      BY <2>2, <2>4, <3>1 DEF Kept
    <3>. QED
      BY <3>1, <3>5, <3>6 DEF s
  <2>. QED
    BY <2>2, <2>5, <2>6
<1>. QED
  BY <1>1, <1>3, <1>4 DEF Rec

-----------------------------------------------------------------------------
Final(a) == a.err \in {"nil", "InSufficientData"}
DoneBy(a, n) == Final(a) \/ Len(a.rbuf.data) <= n

LEMMA MayBeginInRest ==
  ASSUME NEW s \in Seq(Int), NEW d, NEW k, IsRest(d, s, k), NEW n \in Nat
  PROVE  MayBegin(d, n) <=> MayBegin(s, k + n)
<1>1. d \in Seq(Int) /\ k \in 0 .. Len(s) /\ Len(d) = Len(s) - k
  BY DEF IsRest
<1>2. ASSUME NEW f \in GoodFrames, NEW i \in 1 .. Len(f)
      PROVE  (n + i <= Len(d) => d[n + i] = f[i]) <=> (k + n + i <= Len(s) => s[k + n + i] = f[i])
  <2>1. f \in Seq(Int)
    BY GoodFrameFacts
  <2>2. /\ n + i <= Len(d) <=> k + n + i <= Len(s)
        /\ n + i <= Len(d) => n + i \in 1 .. Len(d) /\ k + (n + i) = k + n + i
    BY <1>1, <2>1
  <2>3. n + i <= Len(d) => d[n + i] = s[k + n + i]
    BY <2>2 DEF IsRest
  <2>. QED
    BY <2>2, <2>3
<1>. QED
  BY <1>2 DEF MayBegin

\* A retry goes on behind the magic of the frame that was given up: it keeps
\* every byte a good frame may begin with, and fewer than there were.
LEMMA RetryJudges ==
  ASSUME NEW s \in Seq(Int), NEW a, Judged(a), Kept(a, s, 0)
  PROVE  LET b == Retry(a)
         IN  /\ Judged(b) /\ Kept(b, s, 0)
             /\ Final(a) => b = a
             /\ ~ Final(a) => Len(b.rbuf.data) < Len(a.rbuf.data)
<1>. DEFINE x == a.rbuf.data
            b == Retry(a)
<1>1. CASE Final(a)
  <2>1. b = a
    BY <1>1 DEF Retry, Final
  <2>. QED
    BY <1>1, <2>1
<1>2. CASE ~ Final(a)
  <2>. DEFINE r == Fresh(x)
              c == Attempt(r, <<>>, M)
  <2>1. b = c
    BY <1>2 DEF Retry, Final
  <2>2. /\ a.rbuf \in Rec /\ x \in Seq(Int) /\ Len(x) \in Nat
        /\ Len(x) >= M /\ Spells(x, 0) /\ ~ MayBegin(x, 0)
    BY <1>2 DEF Judged, HeadOK, Final, Rec
  <2>3. r.data = x /\ r.magic = -1 /\ HeadOK(r)
    <3>. HIDE DEF x
    <3>. QED
      BY <2>2, MagicFacts DEF HeadOK, Fresh, Rec
  <2>. HIDE DEF x, r, b
  <2>4. Judged(c) /\ Kept(c, x \o <<>>, 1)
    <3>1. <<>> \in Seq(Int)
      OBVIOUS
    <3>2. Judged(c) /\ Kept(c, r.data \o <<>>, 1)
      BY <2>2, <2>3, <3>1, AttemptJudges
    <3>. QED
      BY <2>3, <3>2
  <2>5. x \o <<>> = x
    BY <2>2, ConcatEmptySeq
  <2>. HIDE DEF c
  <2>6. PICK j \in 0 .. Len(x) :
          IsRest(c.rbuf.data, x, j) /\ j >= 1 /\ \A n \in 1 .. j - 1 : ~ MayBegin(x, n)
    BY <2>4, <2>5 DEF Kept
  <2>7. PICK k \in 0 .. Len(s) :
          IsRest(x, s, k) /\ k >= 0 /\ \A n \in 0 .. k - 1 : ~ MayBegin(s, n)
    BY DEF Kept, x
  <2>8. IsRest(c.rbuf.data, s, k + j) /\ k + j \in 0 .. Len(s)
    <3>1. IsRest(c.rbuf.data, s, k + j)
      BY <2>6, <2>7, RestOfRest
    <3>. QED
      BY <3>1 DEF IsRest
  <2>9. ASSUME NEW n \in 0 .. k + j - 1 PROVE ~ MayBegin(s, n)
    <3>1. CASE n < k
      <4>1. n \in 0 .. k - 1
        BY <2>7, <3>1
      <4>. QED
        BY <2>7, <4>1
    <3>2. CASE n >= k
      <4>. DEFINE m == n - k
      <4>1. m \in Nat /\ k + m = n /\ (m = 0 \/ m \in 1 .. j - 1)
        BY <2>6, <2>7, <3>2
      <4>. HIDE DEF m
      <4>2. ~ MayBegin(x, m)
        BY <2>2, <2>6, <4>1
      <4>3. MayBegin(x, m) <=> MayBegin(s, k + m)
        BY <2>7, <4>1, MayBeginInRest
      <4>. QED
        BY <4>1, <4>2, <4>3
    <3>. QED
      BY <2>7, <3>1, <3>2
  <2>10. Kept(c, s, 0)
    BY <2>8, <2>9 DEF Kept
  <2>11. Len(c.rbuf.data) < Len(x)
    BY <2>2, <2>6 DEF IsRest
  <2>. QED
    BY <1>2, <2>1, <2>4, <2>10, <2>11 DEF b, x
<1>. QED
  BY <1>1, <1>2

(***************************************************************************)
(* Extract: when the rounds end a frame has been found, or there is too    *)
(* little for one; no other outcome is left.                               *)
(***************************************************************************)
LEMMA ExtractedJudges ==
  ASSUME NEW r, HeadOK(r), NEW chunk \in Seq(Int)
  PROVE  LET a == Extracted(r, chunk)
         IN  Judged(a) /\ Final(a) /\ Kept(a, r.data \o chunk, 0)
<1>. DEFINE s == r.data \o chunk
            base == Attempt(r, chunk, 0)
            V == [k \in 0 .. Len(s) |->
                    {a \in Results : Judged(a) /\ Kept(a, s, 0) /\ DoneBy(a, Len(s) - k)}]
<1>1. r.data \in Seq(Int)
  BY DEF HeadOK, Rec
<1>2. s \in Seq(Int) /\ Len(s) \in Nat /\ DOMAIN s = 1 .. Len(s)
  <2>1. s \in Seq(Int)
    BY <1>1, ConcatProperties
  <2>. HIDE DEF s
  <2>. QED
    BY <2>1
<1>3. Judged(base) /\ Kept(base, s, 0)
  BY AttemptJudges
<1>. HIDE DEF s, base
<1>a. ASSUME NEW k \in 0 .. Len(s), NEW a
      PROVE  a \in V[k] <=> a \in Results /\ Judged(a) /\ Kept(a, s, 0) /\ DoneBy(a, Len(s) - k)
  OBVIOUS
<1>. HIDE DEF V
<1>4. base \in V[0]
  <2>1. Len(base.rbuf.data) <= Len(s)
    <3>1. PICK k \in 0 .. Len(s) : IsRest(base.rbuf.data, s, k)
      BY <1>3 DEF Kept
    <3>. QED
      BY <1>2, <3>1, RestIsShorter
  <2>2. base \in Results /\ Len(base.rbuf.data) <= Len(s) - 0 /\ 0 \in 0 .. Len(s)
    BY <1>2, <1>3, <2>1 DEF Judged
  <2>. QED
    BY <1>3, <1>a, <2>2 DEF DoneBy
<1>5. ASSUME NEW k \in 0 .. Len(s) - 1, NEW a \in V[k]
      PROVE  Again(a, s[k + 1]) \in V[k + 1]
  <2>. DEFINE b == Retry(a)
  <2>1. /\ a \in Results /\ Judged(a) /\ Kept(a, s, 0)
        /\ DoneBy(a, Len(s) - k)
    <3>1. k \in 0 .. Len(s) /\ a \in V[k]
      BY <1>2, <1>5
    <3>. QED
      BY <1>a, <3>1
  <2>2. /\ Judged(b) /\ Kept(b, s, 0)
        /\ Final(a) => b = a
        /\ ~ Final(a) => Len(b.rbuf.data) < Len(a.rbuf.data)
    BY <1>2, <2>1, RetryJudges
  <2>. HIDE DEF b
  <2>3. Len(a.rbuf.data) \in Int /\ Len(b.rbuf.data) \in Int
    BY <2>1, <2>2 DEF Judged, Results, Rec
  <2>4. DoneBy(b, Len(s) - (k + 1))
    <3>1. CASE Final(a)
      BY <2>2, <3>1 DEF DoneBy
    <3>2. CASE ~ Final(a)
      <4>1. /\ Len(a.rbuf.data) <= Len(s) - k /\ Len(b.rbuf.data) < Len(a.rbuf.data)
            /\ Len(s) \in Nat /\ k \in Int
        BY <1>2, <2>1, <2>2, <3>2 DEF DoneBy
      <4>2. Len(b.rbuf.data) <= Len(s) - (k + 1)
        BY <2>3, <4>1
      <4>. QED
        BY <4>2 DEF DoneBy
    <3>. QED
      BY <3>1, <3>2
  <2>5. k + 1 \in 0 .. Len(s)
    BY <1>2
  <2>6. b \in Results
    BY <2>2 DEF Judged
  <2>7. b \in V[k + 1]
    BY <1>a, <2>2, <2>4, <2>5, <2>6
  <2>. QED
    BY <2>7 DEF Again, b
<1>6. Tries!Fold(base, s) \in V[Len(s)]
  <2>1. \A k \in 0 .. Len(s) - 1 : \A a \in V[k] : Again(a, s[k + 1]) \in V[k + 1]
    BY <1>5
  <2>. QED
    BY <1>2, <1>4, <2>1, Tries!FoldInduction
<1>7. Extracted(r, chunk) = Tries!Fold(base, s)
  BY Zenon DEF Extracted, base, s, FoldLeft, MapThenFoldSet, Max,
               Tries!Fold, Tries!FoldLeft, Tries!MapThenFoldSet, Tries!Max
<1>. DEFINE a == Extracted(r, chunk)
<1>8. Judged(a) /\ Kept(a, s, 0) /\ DoneBy(a, Len(s) - Len(s))
  <2>1. Len(s) \in 0 .. Len(s)
    BY <1>2
  <2>. QED
    BY <1>6, <1>7, <1>a, <2>1
<1>. HIDE DEF a
<1>9. Final(a)
  <2>. SUFFICES ASSUME ~ Final(a) PROVE FALSE
    OBVIOUS
  <2>1. Len(a.rbuf.data) >= M /\ Len(a.rbuf.data) \in Nat
    BY <1>8 DEF Judged, HeadOK, Final, Rec
  <2>. QED
    BY <1>2, <1>8, <2>1, MagicFacts DEF DoneBy
<1>. QED
  BY <1>8, <1>9 DEF a, s

-----------------------------------------------------------------------------
(***************************************************************************)
(* The inductive invariant: what is kept is the end of what has arrived    *)
(* and its header is read right; a ready frame is good and whole, a wait   *)
(* is for bytes that are missing; and the k-th frame extracted is the k-th *)
(* one of those in front of what is kept.                                  *)
(***************************************************************************)
arrived == SubSeq(wire, 1, sent)

InOrder(n) ==
  /\ out \in Seq(GoodFrames) /\ Len(out) = Cardinality(StartsBefore(n))
  /\ \A i \in 1 .. Len(out) : \E k \in StartsBefore(n) :
       Cardinality(StartsBefore(k)) = i - 1 /\ out[i] \in FrameAt(k)

IInv ==
  /\ wire \in Wires /\ sent \in 0 .. Len(wire)
  /\ status \in {"wait", "ready", "taken"}
  /\ HeadOK(rbuf) /\ IsRest(rbuf.data, arrived, Offset)
  /\ status = "ready" => Whole(rbuf)
  /\ status = "wait" => Short(rbuf, more)
  /\ InOrder(Offset)

LEMMA LiesIsEqual ==
  ASSUME NEW f \in Seq(Int), NEW w \in Seq(Int), NEW n \in 0 .. Len(w)
  PROVE  LiesAt(f, w, n) <=> n + Len(f) <= Len(w) /\ \A i \in 1 .. Len(f) : w[n + i] = f[i]
<1>. SUFFICES ASSUME n + Len(f) <= Len(w)
             PROVE  SubSeq(w, n + 1, n + Len(f)) = f <=> \A i \in 1 .. Len(f) : w[n + i] = f[i]
  BY DEF LiesAt
<1>. DEFINE e == n + Len(f)
            t == SubSeq(w, n + 1, e)
<1>1. e \in n .. Len(w) /\ e - n = Len(f)
  OBVIOUS
<1>. HIDE DEF e
<1>2. /\ t \in Seq(Int) /\ Len(t) = e - n /\ \A i \in 1 .. e - n : t[i] = w[n + i]
  BY <1>1, SubSeqFacts
<1>. HIDE DEF t
<1>3. t = f <=> \A i \in 1 .. Len(f) : w[n + i] = f[i]
  BY <1>1, <1>2, SeqEqual
<1>. QED
  BY <1>3 DEF t, e

\* Two good frames in one place are one.
LEMMA OneFrameAt ==
  ASSUME NEW k \in Nat, NEW f \in FrameAt(k), NEW g \in FrameAt(k), wire \in Wires
  PROVE  f = g
<1>1. /\ f \in GoodFrames /\ g \in GoodFrames /\ LiesAt(f, wire, k) /\ LiesAt(g, wire, k)
      /\ wire \in Seq(Int)
  BY WiresAssumption DEF FrameAt
<1>2. /\ f \in Seq(Int) /\ g \in Seq(Int) /\ Len(f) \in Nat /\ Len(g) \in Nat
      /\ HeadsLen \in 1 .. Len(f) /\ HeadsLen \in 1 .. Len(g)
      /\ Len(f) = HeadsLen + f[HeadsLen] + SumLen /\ Len(g) = HeadsLen + g[HeadsLen] + SumLen
  <2>1. /\ f \in Seq(Int) /\ Len(f) >= HeadsLen + SumLen /\ Len(f) = HeadsLen + f[HeadsLen] + SumLen
    BY <1>1, GoodFrameFacts
  <2>2. /\ g \in Seq(Int) /\ Len(g) >= HeadsLen + SumLen /\ Len(g) = HeadsLen + g[HeadsLen] + SumLen
    BY <1>1, GoodFrameFacts
  <2>3. HeadsLen \in 1 .. Len(f)
    BY <2>1, MagicFacts
  <2>4. HeadsLen \in 1 .. Len(g)
    BY <2>2, MagicFacts
  <2>. QED
    BY <2>1, <2>2, <2>3, <2>4
<1>3. k \in 0 .. Len(wire)
  BY <1>1, <1>2 DEF LiesAt
<1>4. /\ \A i \in 1 .. Len(f) : wire[k + i] = f[i]
      /\ \A i \in 1 .. Len(g) : wire[k + i] = g[i]
  BY <1>1, <1>2, <1>3, LiesIsEqual
<1>5. f[HeadsLen] = g[HeadsLen]
  BY <1>2, <1>4
<1>6. Len(f) = Len(g) /\ \A i \in 1 .. Len(f) : f[i] = g[i]
  BY <1>2, <1>4, <1>5
<1>. QED
  BY <1>2, <1>6, SeqEqual

LEMMA StartsFinite ==
  ASSUME NEW n \in Nat
  PROVE  /\ StartsBefore(n) \subseteq 0 .. n - 1 /\ IsFiniteSet(StartsBefore(n))
         /\ Cardinality(StartsBefore(n)) \in Nat
<1>1. StartsBefore(n) \subseteq 0 .. n - 1
  BY DEF StartsBefore
<1>2. IsFiniteSet(0 .. n - 1)
  BY FS_Interval
<1>. QED
  BY <1>1, <1>2, FS_Subset, FS_CardinalityType

\* A later start has more starts in front of it.
LEMMA StartsCount ==
  ASSUME NEW n \in Nat, NEW j \in StartsBefore(n), NEW k \in StartsBefore(n),
         Cardinality(StartsBefore(j)) = Cardinality(StartsBefore(k))
  PROVE  j = k
<1>1. ASSUME NEW p \in StartsBefore(n), NEW q \in StartsBefore(n), p < q
      PROVE  Cardinality(StartsBefore(p)) < Cardinality(StartsBefore(q))
  <2>1. p \in Nat /\ q \in Nat /\ FrameAt(p) # {}
    BY StartsFinite DEF StartsBefore
  <2>2. StartsBefore(p) \subseteq StartsBefore(q) /\ p \in StartsBefore(q) /\ p \notin StartsBefore(p)
    BY <1>1, <2>1 DEF StartsBefore
  <2>3. StartsBefore(p) # StartsBefore(q)
    BY <2>2
  <2>4. /\ IsFiniteSet(StartsBefore(q)) /\ StartsBefore(p) \in SUBSET StartsBefore(q)
        /\ Cardinality(StartsBefore(q)) \in Nat /\ Cardinality(StartsBefore(p)) \in Nat
    BY <2>1, <2>2, StartsFinite
  <2>5. /\ Cardinality(StartsBefore(p)) <= Cardinality(StartsBefore(q))
        /\ Cardinality(StartsBefore(p)) # Cardinality(StartsBefore(q))
    BY <2>3, <2>4, FS_Subset
  <2>. QED
    BY <2>4, <2>5
<1>2. /\ j \in Nat /\ k \in Nat
      /\ Cardinality(StartsBefore(j)) \in Nat /\ Cardinality(StartsBefore(k)) \in Nat
  <2>1. j \in Nat /\ k \in Nat
    BY DEF StartsBefore
  <2>. QED
    BY <2>1, StartsFinite
<1>. QED
  BY <1>1, <1>2

LEMMA InOrderIsFramesBefore ==
  ASSUME NEW n \in Nat, wire \in Wires, InOrder(n)
  PROVE  out = FramesBefore(n)
<1>. DEFINE Start(i) == CHOOSE k \in StartsBefore(n) : Cardinality(StartsBefore(k)) = i - 1
<1>1. FramesBefore(n) =
        [i \in 1 .. Cardinality(StartsBefore(n)) |-> CHOOSE f \in FrameAt(Start(i)) : TRUE]
  BY DEF FramesBefore
<1>2. out \in Seq(GoodFrames) /\ Len(out) = Cardinality(StartsBefore(n))
  BY DEF InOrder
<1>3. ASSUME NEW i \in 1 .. Len(out)
      PROVE  out[i] = CHOOSE f \in FrameAt(Start(i)) : TRUE
  <2>1. PICK k \in StartsBefore(n) : Cardinality(StartsBefore(k)) = i - 1 /\ out[i] \in FrameAt(k)
    BY DEF InOrder
  <2>2. Start(i) \in StartsBefore(n) /\ Cardinality(StartsBefore(Start(i))) = i - 1
    BY <2>1
  <2>. HIDE DEF Start
  <2>3. Start(i) = k
    BY <2>1, <2>2, StartsCount
  <2>4. k \in Nat
    BY <2>1 DEF StartsBefore
  <2>5. (CHOOSE f \in FrameAt(k) : TRUE) \in FrameAt(k)
    BY <2>1
  <2>6. out[i] = CHOOSE f \in FrameAt(k) : TRUE
    BY <2>1, <2>4, <2>5, OneFrameAt
  <2>. QED
    BY <2>3, <2>6
<1>. HIDE DEF Start
<1>4. out = [i \in 1 .. Len(out) |-> out[i]]
  BY <1>2
<1>. QED
  BY <1>1, <1>2, <1>3, <1>4

\* The bytes not yet dropped are numbered behind those that were.
LEMMA NoFrameDropped ==
  ASSUME wire \in Wires, NEW n \in Nat, NEW k \in Nat,
         \A j \in 0 .. k - 1 : FrameAt(n + j) = {}
  PROVE  StartsBefore(n + k) = StartsBefore(n)
<1>1. ASSUME NEW j \in StartsBefore(n + k) PROVE j \in StartsBefore(n)
  <2>1. j \in 0 .. n + k - 1 /\ FrameAt(j) # {}
    BY DEF StartsBefore
  <2>2. CASE j >= n
    <3>1. j - n \in 0 .. k - 1 /\ n + (j - n) = j
      BY <2>1, <2>2
    <3>. QED
      BY <2>1, <3>1
  <2>. QED
    BY <2>1, <2>2 DEF StartsBefore
<1>2. StartsBefore(n) \subseteq StartsBefore(n + k)
  BY DEF StartsBefore
<1>. QED
  BY <1>1, <1>2

\* Over a frame no other one begins in there is one start more.
LEMMA OneFrameFurther ==
  ASSUME NEW o \in Nat, NEW n \in Nat, n > 0, FrameAt(o) # {},
         \A k \in o + 1 .. o + n - 1 : FrameAt(k) = {}
  PROVE  StartsBefore(o + n) = StartsBefore(o) \cup {o} /\ o \notin StartsBefore(o)
<1>1. ASSUME NEW k \in StartsBefore(o + n) PROVE k \in StartsBefore(o) \cup {o}
  <2>1. k \in 0 .. o + n - 1 /\ FrameAt(k) # {}
    BY DEF StartsBefore
  <2>2. k \in 0 .. o - 1 \/ k = o
    BY <2>1
  <2>. QED
    BY <2>1, <2>2 DEF StartsBefore
<1>2. ASSUME NEW k \in StartsBefore(o) \cup {o} PROVE k \in StartsBefore(o + n)
  <2>1. FrameAt(k) # {} /\ (k \in 0 .. o - 1 \/ k = o)
    BY DEF StartsBefore
  <2>2. k \in 0 .. o + n - 1
    BY <2>1
  <2>. QED
    BY <2>1, <2>2 DEF StartsBefore
<1>3. o \notin StartsBefore(o)
  BY DEF StartsBefore
<1>. QED
  BY <1>1, <1>2, <1>3

-----------------------------------------------------------------------------
LEMMA InitIInv == Init => IInv
<1>. SUFFICES ASSUME Init PROVE IInv
  OBVIOUS
<1>1. /\ wire \in Wires /\ wire \in Seq(Int) /\ sent = 0 /\ status = "wait" /\ more = MinHeader
      /\ out = <<>> /\ rbuf = [data |-> <<>>, magic |-> -1, headsLen |-> -1, payloadLen |-> -1]
  BY WiresAssumption DEF Init, Fresh
<1>2. rbuf.data = <<>> /\ <<>> \in Seq(Int) /\ Len(<<>>) = 0
  BY <1>1
<1>3. HeadOK(rbuf)
  BY <1>1, <1>2 DEF HeadOK, Rec
<1>4. arrived = <<>> /\ Offset = 0
  <2>1. SubSeq(wire, 1, 0) = <<>>
    BY SubSeqEmpty
  <2>2. arrived = <<>>
    BY <1>1, <2>1 DEF arrived
  <2>3. Offset = 0 - 0
    BY <1>1, <1>2 DEF Offset
  <2>. QED
    BY <2>2, <2>3
<1>5. IsRest(rbuf.data, arrived, Offset)
  BY <1>2, <1>4 DEF IsRest
<1>6. Short(rbuf, more)
  BY <1>1, <1>2, MagicFacts DEF Short
<1>7. InOrder(0)
  <2>1. StartsBefore(0) = {}
    BY DEF StartsBefore
  <2>2. Cardinality(StartsBefore(0)) = 0
    BY <2>1, FS_EmptySet
  <2>3. out \in Seq(GoodFrames) /\ Len(out) = 0
    BY <1>1
  <2>. QED
    BY <2>2, <2>3 DEF InOrder
<1>8. sent \in 0 .. Len(wire)
  BY <1>1
<1>. QED
  BY <1>1, <1>3, <1>4, <1>5, <1>6, <1>7, <1>8 DEF IInv

(***************************************************************************)
(* Extract keeps the invariant, whatever chunk of the stream it is given.  *)
(***************************************************************************)
LEMMA ExtractKeepsIInv ==
  ASSUME IInv, NEW n \in Nat, sent + n <= Len(wire),
         NEW chunk, chunk = SubSeq(wire, sent + 1, sent + n), Extract(chunk),
         sent' = sent + n, wire' = wire, out' = out
  PROVE  IInv'
<1>. DEFINE s == rbuf.data \o chunk
            a == Extracted(rbuf, chunk)
<1>1. /\ wire \in Wires /\ wire \in Seq(Int) /\ sent \in 0 .. Len(wire)
      /\ HeadOK(rbuf) /\ IsRest(rbuf.data, arrived, Offset) /\ InOrder(Offset)
      /\ rbuf.data \in Seq(Int)
  BY WiresAssumption DEF IInv, IsRest
<1>2. /\ chunk \in Seq(Int) /\ Len(chunk) = n
  <2>. DEFINE e == sent + n
  <2>1. e \in sent .. Len(wire) /\ e - sent = n
    BY <1>1
  <2>. HIDE DEF e
  <2>2. SubSeq(wire, sent + 1, e) \in Seq(Int) /\ Len(SubSeq(wire, sent + 1, e)) = e - sent
    BY <1>1, <2>1, SubSeqFacts
  <2>3. chunk = SubSeq(wire, sent + 1, e)
    BY DEF e
  <2>. QED
    BY <2>1, <2>2, <2>3
<1>3. /\ arrived \in Seq(Int) /\ Len(arrived) = sent
      /\ arrived' = arrived \o chunk /\ arrived' = SubSeq(wire, 1, sent')
  <2>1. arrived \in Seq(Int) /\ Len(arrived) = sent
    <3>1. 0 \in 0 .. Len(wire) /\ sent \in 0 .. Len(wire) /\ sent - 0 = sent /\ 0 + 1 = 1
      BY <1>1
    <3>. QED
      BY <1>1, <3>1, SubSeqFacts DEF arrived
  <2>2. 1 \in 1 .. Len(wire) + 1 /\ sent \in 1 - 1 .. Len(wire) /\ sent + n \in sent .. Len(wire)
    BY <1>1
  <2>3. SubSeq(wire, 1, sent) \o SubSeq(wire, sent + 1, sent + n) = SubSeq(wire, 1, sent + n)
    BY <1>1, <2>2, ConcatAdjacentSubSeq
  <2>. QED
    BY <2>1, <2>3 DEF arrived
<1>4. /\ rbuf' = a.rbuf /\ more' = a.more
      /\ status' = IF a.err = "nil" THEN "ready" ELSE "wait"
  BY DEF Extract
<1>5. Judged(a) /\ Final(a) /\ Kept(a, s, 0)
  BY <1>1, <1>2, ExtractedJudges
<1>6. IsRest(s, arrived', Offset)
  BY <1>1, <1>2, <1>3, RestOfFront
<1>. HIDE DEF a, s
<1>7. PICK k \in 0 .. Len(s) :
        IsRest(a.rbuf.data, s, k) /\ k >= 0 /\ \A j \in 0 .. k - 1 : ~ MayBegin(s, j)
  BY <1>5 DEF Kept
<1>8. arrived' \in Seq(Int) /\ Len(arrived') = sent + n
  <2>0. arrived \in Seq(Int) /\ chunk \in Seq(Int)
    BY <1>2, <1>3
  <2>1. Len(arrived \o chunk) = Len(arrived) + Len(chunk) /\ arrived \o chunk \in Seq(Int)
    BY <2>0, ConcatProperties
  <2>. QED
    BY <1>2, <1>3, <2>1
<1>9. IsRest(rbuf'.data, arrived', Offset + k)
  BY <1>4, <1>6, <1>7, <1>8, RestOfRest
<1>10. Offset' = Offset + k /\ Offset \in Nat
  <2>1. /\ Offset + k \in 0 .. Len(arrived') /\ Len(rbuf'.data) = Len(arrived') - (Offset + k)
        /\ Offset \in 0 .. Len(arrived)
    BY <1>1, <1>9 DEF IsRest
  <2>2. Offset' = sent' - Len(rbuf'.data)
    BY DEF Offset
  <2>3. Offset \in Nat /\ k \in Nat
    BY <1>3, <1>7, <2>1
  <2>. QED
    BY <1>1, <1>8, <2>1, <2>2, <2>3
<1>11. ASSUME NEW j \in 0 .. k - 1 PROVE FrameAt(Offset + j) = {}
  <2>. SUFFICES ASSUME NEW f \in GoodFrames, LiesAt(f, wire, Offset + j) PROVE FALSE
    BY DEF FrameAt
  <2>. DEFINE o == Offset + j
  <2>1. f \in Seq(Int) /\ o \in Nat /\ j \in Nat
    BY <1>10, GoodFrameFacts
  <2>2. o \in 0 .. Len(wire)
    BY <2>1 DEF LiesAt
  <2>. HIDE DEF o
  <2>3. o + Len(f) <= Len(wire) /\ \A i \in 1 .. Len(f) : wire[o + i] = f[i]
    BY <1>1, <2>1, <2>2, LiesIsEqual DEF o
  <2>4. ASSUME NEW i \in 1 .. sent + n PROVE arrived'[i] = wire[i]
    <3>. DEFINE e == sent + n
    <3>1. 0 \in 0 .. Len(wire) /\ e \in 0 .. Len(wire) /\ e - 0 = e /\ 0 + i = i /\ i \in 1 .. e
      BY <1>1
    <3>2. arrived' = SubSeq(wire, 0 + 1, e)
      <4>1. sent' = e
        OBVIOUS
      <4>2. arrived' = SubSeq(wire, 1, sent')
        BY DEF arrived
      <4>. HIDE DEF e
      <4>3. 0 + 1 = 1
        OBVIOUS
      <4>. QED
        BY <4>1, <4>2, <4>3
    <3>. HIDE DEF e
    <3>3. SubSeq(wire, 0 + 1, e)[i] = wire[0 + i]
      BY <1>1, <3>1, SubSeqFacts
    <3>. QED
      BY <3>1, <3>2, <3>3
  <2>5. ASSUME NEW i \in 1 .. Len(f), o + i <= Len(arrived') PROVE arrived'[o + i] = f[i]
    <3>1. o + i \in 1 .. sent + n
      BY <1>1, <1>8, <2>1, <2>5
    <3>. QED
      BY <2>3, <2>4, <3>1
  <2>6. MayBegin(arrived', o)
    BY <2>5 DEF MayBegin
  <2>7. MayBegin(s, j)
    BY <1>6, <1>8, <2>1, <2>6, MayBeginInRest DEF o
  <2>. QED
    BY <1>7, <2>7
<1>12. InOrder(Offset)'
  <2>1. StartsBefore(Offset + k) = StartsBefore(Offset)
    <3>1. k \in Nat /\ \A j \in 0 .. k - 1 : FrameAt(Offset + j) = {}
      BY <1>7, <1>11
    <3>2. Offset \in Nat
      BY <1>10
    <3>. HIDE DEF Offset
    <3>. QED
      BY <1>1, <3>1, <3>2, NoFrameDropped
  <2>2. \A j : FrameAt(j)' = FrameAt(j) /\ StartsBefore(j)' = StartsBefore(j)
    BY DEF FrameAt, StartsBefore
  <2>3. InOrder(Offset + k)
    BY <1>1, <2>1 DEF InOrder
  <2>. QED
    BY <1>10, <2>2, <2>3 DEF InOrder
<1>13. /\ status' \in {"wait", "ready", "taken"} /\ HeadOK(rbuf)'
       /\ (status = "ready" => Whole(rbuf))' /\ (status = "wait" => Short(rbuf, more))'
  <2>1. HeadOK(rbuf')
    BY <1>4, <1>5 DEF Judged
  <2>2. status' = "ready" => Whole(rbuf')
    BY <1>4, <1>5 DEF Judged
  <2>3. status' = "wait" => Short(rbuf', more')
    BY <1>4, <1>5 DEF Judged, Final
  <2>4. status' \in {"wait", "ready", "taken"}
    BY <1>4
  <2>. QED
    BY <2>1, <2>2, <2>3, <2>4 DEF HeadOK, Whole, Short, Frame, Spells, Rec, HeadsLen, SumLen, SchemaEnd, M
<1>14. IsRest(rbuf.data, arrived, Offset)'
  BY <1>9, <1>10 DEF IsRest
<1>15. wire' \in Wires /\ sent' \in 0 .. Len(wire')
  BY <1>1
<1>. QED
  BY <1>12, <1>13, <1>14, <1>15 DEF IInv

(***************************************************************************)
(* Fragment hands over the frame that begins what is kept: the next good   *)
(* frame of the stream, and no other begins in the bytes it takes away.    *)
(***************************************************************************)
LEMMA FragmentKeepsIInv ==
  ASSUME IInv, Fragment
  PROVE  IInv'
<1>. DEFINE f == Frame(rbuf)
            n == Len(f)
            data == rbuf.data
<1>1. /\ wire \in Wires /\ wire \in Seq(Int) /\ sent \in 0 .. Len(wire)
      /\ HeadOK(rbuf) /\ IsRest(data, arrived, Offset) /\ InOrder(Offset)
      /\ Whole(rbuf) /\ data \in Seq(Int) /\ f \in GoodFrames
  BY WiresAssumption DEF IInv, IsRest, Fragment, Whole
<1>2. /\ out' = Append(out, f) /\ rbuf' = Fresh(Drop(data, n)) /\ status' = "taken"
      /\ wire' = wire /\ sent' = sent /\ more' = more
  BY DEF Fragment
<1>3. f \in Seq(Int) /\ n \in Nat /\ n >= HeadsLen + SumLen
  BY <1>1, GoodFrameFacts
<1>4. n \in 0 .. Len(data) /\ \A i \in 1 .. n : f[i] = data[i]
  <2>. DEFINE e == rbuf.headsLen + rbuf.payloadLen + SumLen
  <2>1. e \in 0 .. Len(data) /\ 0 \in 0 .. Len(data) /\ e - 0 = e /\ 0 + 1 = 1
    <3>1. /\ rbuf.headsLen = HeadsLen /\ rbuf.payloadLen \in Int /\ rbuf.payloadLen >= 0
          /\ e <= Len(data)
      BY <1>1, MagicFacts DEF Whole, HeadOK, Rec
    <3>. QED
      BY <1>1, <3>1, MagicFacts, SMTT(30)
  <2>2. f = SubSeq(data, 0 + 1, e)
    BY <2>1 DEF Frame
  <2>. HIDE DEF e, f, data
  <2>3. Len(f) = e /\ \A i \in 1 .. e : f[i] = data[0 + i]
    BY <1>1, <2>1, <2>2, SubSeqFacts
  <2>. QED
    BY <2>1, <2>3
<1>. HIDE DEF f, data
<1>5. arrived \in Seq(Int) /\ Len(arrived) = sent /\ \A i \in 1 .. sent : arrived[i] = wire[i]
  <2>1. 0 \in 0 .. Len(wire) /\ sent \in 0 .. Len(wire) /\ sent - 0 = sent /\ 0 + 1 = 1
    BY <1>1
  <2>2. /\ SubSeq(wire, 0 + 1, sent) \in Seq(Int) /\ Len(SubSeq(wire, 0 + 1, sent)) = sent - 0
        /\ \A i \in 1 .. sent - 0 : SubSeq(wire, 0 + 1, sent)[i] = wire[0 + i]
    BY <1>1, <2>1, SubSeqFacts
  <2>. QED
    BY <2>1, <2>2 DEF arrived
<1>6. /\ Offset \in 0 .. sent /\ Len(data) = sent - Offset
      /\ \A i \in 1 .. Len(data) : data[i] = arrived[Offset + i]
  <2>1. /\ Offset \in 0 .. Len(arrived) /\ Len(data) = Len(arrived) - Offset
        /\ \A i \in 1 .. Len(data) : data[i] = arrived[Offset + i]
    BY <1>1 DEF IsRest
  <2>. QED
    BY <1>5, <2>1
<1>7. IsRest(Drop(data, n), data, n)
  BY <1>1, <1>4, DropIsRest
<1>8. /\ rbuf'.data = Drop(data, n) /\ Drop(data, n) \in Seq(Int) /\ Len(Drop(data, n)) = Len(data) - n
      /\ rbuf' = [data |-> Drop(data, n), magic |-> -1, headsLen |-> -1, payloadLen |-> -1]
  BY <1>2, <1>7 DEF Fresh, IsRest
<1>9. Offset' = Offset + n
  <2>1. Offset' = sent' - Len(rbuf'.data)
    BY DEF Offset
  <2>2. Offset \in Int /\ sent \in Int
    BY <1>1, <1>6
  <2>. QED
    BY <1>2, <1>3, <1>6, <1>8, <2>1, <2>2
<1>10. IsRest(rbuf.data, arrived, Offset)'
  <2>1. IsRest(Drop(data, n), arrived, Offset + n)
    BY <1>1, <1>5, <1>7, RestOfRest
  <2>2. arrived' = arrived
    BY <1>2 DEF arrived
  <2>. QED
    BY <1>8, <1>9, <2>1, <2>2 DEF IsRest
<1>11. HeadOK(rbuf)'
  <2>1. rbuf' \in Rec /\ rbuf'.magic = -1 /\ rbuf'.headsLen = -1
    BY <1>8 DEF Rec
  <2>2. HeadOK(rbuf')
    BY <2>1 DEF HeadOK
  <2>. QED
    BY <2>2 DEF HeadOK, Spells, Rec, HeadsLen, SchemaEnd, M
<1>. HIDE DEF n
<1>12. f \in FrameAt(Offset)
  <2>1. Offset + n <= Len(wire) /\ Offset \in 0 .. Len(wire)
    BY <1>1, <1>3, <1>4, <1>6
  <2>2. ASSUME NEW i \in 1 .. n PROVE wire[Offset + i] = f[i]
    <3>1. i \in 1 .. Len(data) /\ Offset + i \in 1 .. sent
      BY <1>1, <1>3, <1>4, <1>6
    <3>. QED
      BY <1>4, <1>5, <1>6, <3>1
  <2>3. LiesAt(f, wire, Offset)
    BY <1>1, <1>3, <2>1, <2>2, LiesIsEqual DEF n
  <2>. QED
    BY <1>1, <2>3 DEF FrameAt
<1>13. /\ StartsBefore(Offset + n) = StartsBefore(Offset) \cup {Offset}
       /\ Offset \notin StartsBefore(Offset) /\ Offset \in Nat
  <2>1. Offset \in Nat /\ n \in Nat /\ n > 0
    BY <1>3, <1>6, MagicFacts
  <2>. DEFINE o == Offset
  <2>2. ASSUME NEW k \in o + 1 .. o + n - 1 PROVE FrameAt(k) = {}
    <3>1. f \in GoodFrames /\ Offset \in 0 .. Len(wire) /\ LiesAt(f, wire, Offset)
      BY <1>1, <1>6, <1>12 DEF FrameAt
    <3>2. \A g \in GoodFrames : ~ LiesAt(g, wire, k)
      BY <1>1, <3>1, WiresAssumption DEF n
    <3>. QED
      BY <3>2 DEF FrameAt
  <2>3. FrameAt(o) # {}
    BY <1>12
  <2>. HIDE DEF o
  <2>4. StartsBefore(o + n) = StartsBefore(o) \cup {o} /\ o \notin StartsBefore(o)
    BY <2>1, <2>2, <2>3, OneFrameFurther DEF o
  <2>. QED
    BY <2>1, <2>4 DEF o
<1>14. InOrder(Offset)'
  <2>. DEFINE o == Offset
  <2>1. /\ out \in Seq(GoodFrames) /\ Len(out) = Cardinality(StartsBefore(o))
        /\ \A i \in 1 .. Len(out) : \E k \in StartsBefore(o) :
             Cardinality(StartsBefore(k)) = i - 1 /\ out[i] \in FrameAt(k)
    BY <1>1 DEF InOrder
  <2>. HIDE DEF o
  <2>2. /\ StartsBefore(o + n) = StartsBefore(o) \cup {o} /\ o \notin StartsBefore(o) /\ o \in Nat
        /\ f \in FrameAt(o)
    BY <1>12, <1>13 DEF o
  <2>3. Cardinality(StartsBefore(o + n)) = Len(out) + 1
    <3>1. IsFiniteSet(StartsBefore(o))
      BY <2>2, StartsFinite
    <3>. QED
      BY <2>1, <2>2, <3>1, FS_AddElement
  <2>4. /\ out' \in Seq(GoodFrames) /\ Len(out') = Len(out) + 1 /\ Len(out) \in Nat
        /\ \A i \in 1 .. Len(out) : out'[i] = out[i]
        /\ out'[Len(out) + 1] = f
    BY <1>1, <1>2, <2>1, AppendProperties
  <2>5. ASSUME NEW i \in 1 .. Len(out')
        PROVE  \E k \in StartsBefore(o + n) :
                 Cardinality(StartsBefore(k)) = i - 1 /\ out'[i] \in FrameAt(k)
    <3>1. CASE i \in 1 .. Len(out)
      BY <2>1, <2>2, <2>4, <3>1
    <3>2. CASE i = Len(out) + 1
      <4>1. Cardinality(StartsBefore(o)) = i - 1 /\ out'[i] \in FrameAt(o)
        BY <2>1, <2>2, <2>4, <3>2
      <4>. QED
        BY <2>2, <4>1
    <3>. QED
      BY <2>4, <3>1, <3>2
  <2>6. \A j : FrameAt(j)' = FrameAt(j) /\ StartsBefore(j)' = StartsBefore(j)
    BY <1>2 DEF FrameAt, StartsBefore
  <2>7. Offset' = o + n
    BY <1>9 DEF o
  <2>. QED
    BY <2>3, <2>4, <2>5, <2>6, <2>7 DEF InOrder
<1>15. /\ wire' \in Wires /\ sent' \in 0 .. Len(wire') /\ status' = "taken"
  BY <1>1, <1>2
<1>. QED
  BY <1>10, <1>11, <1>14, <1>15 DEF IInv

LEMMA NextKeepsIInv == IInv /\ [Next]_vars => IInv'
<1>. SUFFICES ASSUME IInv, [Next]_vars PROVE IInv'
  OBVIOUS
<1>1. wire \in Seq(Int) /\ sent \in 0 .. Len(wire)
  BY WiresAssumption DEF IInv
<1>2. ASSUME NEW n \in Chunks, Feed(n) PROVE IInv'
  <2>. DEFINE chunk == SubSeq(wire, sent + 1, sent + n)
  <2>1. /\ n \in Nat /\ sent + n <= Len(wire) /\ Extract(chunk)
        /\ sent' = sent + n /\ wire' = wire /\ out' = out
    BY <1>2, ExtractionAssumption DEF Feed
  <2>2. chunk = SubSeq(wire, sent + 1, sent + n)
    OBVIOUS
  <2>. HIDE DEF chunk
  <2>. QED
    BY <2>1, <2>2, ExtractKeepsIInv
<1>3. CASE Fragment
  BY <1>3, FragmentKeepsIInv
<1>4. CASE ExtractMore
  <2>1. SubSeq(wire, sent + 1, sent + 0) = <<>>
    <3>1. sent + 1 \in Int /\ sent + 0 \in Int /\ sent + 0 < sent + 1
      BY <1>1
    <3>. QED
      BY <3>1, SubSeqEmpty
  <2>2. /\ Extract(<<>>) /\ sent' = sent /\ wire' = wire /\ out' = out
    BY <1>4 DEF ExtractMore
  <2>3. sent' = sent + 0 /\ sent + 0 <= Len(wire) /\ 0 \in Nat
    BY <1>1, <2>2
  <2>. DEFINE n == 0
              chunk == <<>>
  <2>4. /\ n \in Nat /\ sent + n <= Len(wire) /\ chunk = SubSeq(wire, sent + 1, sent + n)
        /\ Extract(chunk) /\ sent' = sent + n /\ wire' = wire /\ out' = out
    BY <2>1, <2>2, <2>3
  <2>. HIDE DEF n, chunk
  <2>. QED
    BY <2>4, ExtractKeepsIInv
<1>5. CASE UNCHANGED vars
  <2>1. /\ wire' = wire /\ sent' = sent /\ rbuf' = rbuf /\ status' = status /\ more' = more /\ out' = out
    BY <1>5 DEF vars
  <2>2. Offset' = Offset /\ arrived' = arrived
    BY <2>1 DEF Offset, arrived
  <2>3. InOrder(Offset)' = InOrder(Offset)
    BY <2>1, <2>2 DEF InOrder, StartsBefore, FrameAt
  <2>. QED
    BY <2>1, <2>2, <2>3 DEF IInv
<1>. QED
  BY <1>2, <1>3, <1>4, <1>5 DEF Next

LEMMA Correct == Spec => []IInv
<1>1. Init => IInv
  BY InitIInv
<1>2. IInv /\ [Next]_vars => IInv'
  BY NextKeepsIInv
<1>. QED
  BY <1>1, <1>2, PTL DEF Spec

LEMMA IInvFacts ==
  ASSUME IInv
  PROVE  /\ wire \in Wires /\ wire \in Seq(Int) /\ sent \in 0 .. Len(wire)
         /\ Offset \in 0 .. sent /\ Len(rbuf.data) = sent - Offset
         /\ rbuf.data = SubSeq(wire, Offset + 1, sent)
<1>. DEFINE o == Offset
            d == rbuf.data
<1>1. /\ wire \in Wires /\ wire \in Seq(Int) /\ sent \in 0 .. Len(wire) /\ IsRest(d, arrived, o)
  BY WiresAssumption DEF IInv
<1>. HIDE DEF o, d
<1>2. /\ Len(arrived) = sent /\ \A i \in 1 .. sent : arrived[i] = wire[i]
  <2>1. 0 \in 0 .. Len(wire) /\ sent \in 0 .. Len(wire) /\ sent - 0 = sent /\ 0 + 1 = 1
    BY <1>1
  <2>2. /\ Len(SubSeq(wire, 0 + 1, sent)) = sent - 0
        /\ \A i \in 1 .. sent - 0 : SubSeq(wire, 0 + 1, sent)[i] = wire[0 + i]
    BY <1>1, <2>1, SubSeqFacts
  <2>. QED
    BY <2>1, <2>2 DEF arrived
<1>3. /\ d \in Seq(Int) /\ o \in 0 .. sent /\ Len(d) = sent - o
      /\ \A i \in 1 .. Len(d) : d[i] = arrived[o + i]
  BY <1>1, <1>2 DEF IsRest
<1>4. o \in 0 .. Len(wire) /\ sent \in o .. Len(wire)
  BY <1>1, <1>3
<1>5. /\ SubSeq(wire, o + 1, sent) \in Seq(Int) /\ Len(SubSeq(wire, o + 1, sent)) = sent - o
      /\ \A i \in 1 .. sent - o : SubSeq(wire, o + 1, sent)[i] = wire[o + i]
  BY <1>1, <1>4, SubSeqFacts
<1>6. ASSUME NEW i \in 1 .. Len(d) PROVE d[i] = SubSeq(wire, o + 1, sent)[i]
  <2>1. o + i \in 1 .. sent /\ i \in 1 .. sent - o
    BY <1>1, <1>3
  <2>. QED
    BY <1>2, <1>3, <1>5, <2>1
<1>7. d = SubSeq(wire, o + 1, sent)
  BY <1>3, <1>5, <1>6, SeqEqual
<1>. QED
  BY <1>1, <1>3, <1>7 DEF o, d

(***************************************************************************)
(* Types; and the bytes kept are the latest ones of the stream.            *)
(***************************************************************************)
THEOREM TypeCorrect == Spec => []TypeOK
<1>1. IInv => TypeOK
  <2>1. ASSUME IInv PROVE rbuf.magic \in {-1, 0} /\ rbuf.headsLen \in {-1, HeadsLen}
    BY <2>1 DEF IInv, HeadOK, Rec
  <2>. QED
    BY <2>1, IInvFacts DEF IInv, TypeOK
<1>. QED
  BY <1>1, Correct, PTL

(***************************************************************************)
(* Whatever the stream, the chunks and the damage, the good frames that    *)
(* start before the bytes kept are extracted, each once and in order.      *)
(***************************************************************************)
THEOREM NothingLost == Spec => []NoFrameLost
<1>1. IInv => NoFrameLost
  <2>1. ASSUME IInv PROVE Offset \in Nat
    BY <2>1, IInvFacts
  <2>. QED
    BY <2>1, IInvFacts, InOrderIsFramesBefore DEF IInv, NoFrameLost
<1>. QED
  BY <1>1, Correct, PTL

(***************************************************************************)
(* A good frame that is there in whole waits only behind a header that     *)
(* claims more than has come, and Extract asks for no more than it claims. *)
(***************************************************************************)
THEOREM OnlyClaimsHoldBack == Spec => []HeldBackByClaim
<1>1. IInv => HeldBackByClaim
  <2>. SUFFICES ASSUME IInv, status = "wait", NEW k \in Offset .. sent,
                       NEW f \in FrameAt(k), k + Len(f) <= sent
                PROVE  /\ rbuf.headsLen >= 0 /\ more > 0
                       /\ more <= rbuf.headsLen + rbuf.payloadLen + SumLen - Len(rbuf.data)
    BY DEF HeldBackByClaim
  <2>1. f \in Seq(Int) /\ Len(f) >= HeadsLen + SumLen
    BY GoodFrameFacts DEF FrameAt
  <2>2. Offset \in 0 .. sent /\ Len(rbuf.data) = sent - Offset /\ sent \in Nat
    BY IInvFacts
  <2>3. Len(rbuf.data) >= HeadsLen + SumLen
    BY <2>1, <2>2, MagicFacts
  <2>. QED
    BY <2>2, <2>3, MagicFacts DEF IInv, Short
<1>. QED
  BY <1>1, Correct, PTL

(***************************************************************************)
(* Extract never waits without asking for bytes.                           *)
(***************************************************************************)
THEOREM WaitAsks == Spec => []AsksForMore
<1>1. IInv => AsksForMore
  BY DEF IInv, Short, AsksForMore
<1>. QED
  BY <1>1, Correct, PTL
=============================================================================
