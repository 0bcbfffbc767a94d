------------------------ MODULE FragmentBufferProofs ------------------------
(***************************************************************************)
(* The proof that a sending Buffer is a byte stream in frames a receiver   *)
(* can put together (FragmentBuffer), for every MTU, header, checksum and  *)
(* object.                                                                 *)
(*                                                                         *)
(* Cut says what fragments are: pieces of one width of a stream.  Each     *)
(* loop of the code is a fold over it: Append and split fill pieces, Read  *)
(* joins them, Push puts them into slots; for each of them a lemma says    *)
(* what the whole loop comes to, by induction over its rounds (Folding).   *)
(* The invariant IInv says that the fragments are cut (Shape), where the   *)
(* read position is in the stream (Reading), that the places kept for size *)
(* fields are where they were written and what was counted since (Nested), *)
(* and what the headers and sums of frames are in each phase (Phased).     *)
(* Under it every action is a step of the byte stream.                     *)
(***************************************************************************)
EXTENDS FragmentBuffer, ReceiveBufferProofs, SequenceTheorems

\* The loops of the code, as folds.
Fills == INSTANCE Folding WITH Op <- FillRound
Copies == INSTANCE Folding WITH Op <- CopyRound
Rewrites == INSTANCE Folding WITH Op <- Appended
Pushes == INSTANCE Folding WITH Op <- Pushed

-----------------------------------------------------------------------------
(* Where fragments start. *)

\* i fragments of w bytes.
Start(i, w) == i * w

\* Fragments start one behind the other.
LEMMA StartFacts ==
  ASSUME NEW w \in Nat, NEW i \in Nat
  PROVE  /\ Start(i, w) \in Nat /\ Start(0, w) = 0 /\ Start(1, w) = w
         /\ Start(i + 1, w) = Start(i, w) + w
BY DEF Start

\* ... and the one before starts w bytes before.
LEMMA StartBack ==
  ASSUME NEW w \in Nat, NEW i \in Nat, i # 0
  PROVE  i - 1 \in Nat /\ Start(i - 1, w) \in Nat /\ Start(i, w) \in Nat
         /\ Start(i - 1, w) + w = Start(i, w)
<1>1. i - 1 \in Nat /\ (i - 1) + 1 = i
  OBVIOUS
<1>. QED
  BY <1>1, StartFacts

\* i fragments are i bytes at least.
LEMMA StartAtLeast ==
  ASSUME NEW w \in Nat, w > 0, NEW i \in Nat
  PROVE  i <= Start(i, w) /\ Start(i, w) \in Nat
<1>1. PICK d \in Nat : w = d + 1
  <2>1. w - 1 \in Nat /\ w = (w - 1) + 1
    OBVIOUS
  <2>. QED
    BY <2>1
<1>2. i * w = i * d + i /\ i * d \in Nat
  BY <1>1
<1>. QED
  BY <1>2 DEF Start

\* What starts later starts behind the whole of what starts before.
LEMMA StartMonotone ==
  ASSUME NEW w \in Nat, NEW i \in Nat, NEW j \in Nat, i < j
  PROVE  Start(i, w) + w <= Start(j, w)
<1>1. PICK d \in Nat : j = i + 1 + d
  <2>1. j - i - 1 \in Nat /\ j = i + 1 + (j - i - 1)
    OBVIOUS
  <2>. QED
    BY <2>1
<1>2. j * w = i * w + w + d * w
  BY <1>1
<1>3. d * w \in Nat /\ i * w \in Nat
  OBVIOUS
<1>. QED
  BY <1>2, <1>3 DEF Start

\* A place behind the first i fragments and not behind the next.
LEMMA StartUnique ==
  ASSUME NEW w \in Nat, NEW i \in Nat, NEW j \in Nat, NEW p \in Int, NEW q \in Int,
         p > 0, p <= w, q > 0, q <= w, Start(i, w) + p = Start(j, w) + q
  PROVE  i = j /\ p = q
<1>1. Start(i, w) \in Nat /\ Start(j, w) \in Nat
  BY StartFacts
<1>2. ~ (i < j)
  <2>. SUFFICES ASSUME i < j PROVE FALSE
    OBVIOUS
  <2>1. Start(i, w) + w <= Start(j, w)
    BY StartMonotone
  <2>. QED
    BY <1>1, <2>1
<1>3. ~ (j < i)
  <2>. SUFFICES ASSUME j < i PROVE FALSE
    OBVIOUS
  <2>1. Start(j, w) + w <= Start(i, w)
    BY StartMonotone
  <2>. QED
    BY <1>1, <2>1
<1>4. i = j
  BY <1>2, <1>3
<1>. QED
  BY <1>1, <1>4

\* How far fragments are apart, as Patched counts it.
LEMMA StartMinus ==
  ASSUME NEW w \in Nat, NEW i \in Nat, NEW j \in Nat
  PROVE  (i - j) * w = Start(i, w) - Start(j, w)
BY DEF Start

\* Induction over the numbers, as a set.
LEMMA Induction ==
  ASSUME NEW S, 0 \in S, \A n \in Nat : n \in S => n + 1 \in S
  PROVE  \A n \in Nat : n \in S
BY Fills!Induction

-----------------------------------------------------------------------------
(* The bytes of a Buffer. *)

\* A byte, as the byte stream knows it.
Byte == {"data", "size"} \X Int \X Int

\* The bytes of two sequences, one behind the other.
LEMMA Joined ==
  ASSUME NEW p \in Seq(Byte), NEW x \in Seq(Byte), NEW m, NEW q, Len(p) = m, Len(x) = q
  PROVE  /\ m \in Nat /\ q \in Nat /\ p \o x \in Seq(Byte) /\ Len(p \o x) = m + q
         /\ \A i \in 1 .. m + q : (p \o x)[i] = IF i <= m THEN p[i] ELSE x[i - m]
BY ConcatProperties

\* What Append is called with is bytes.
LEMMA ByteSeqs ==
  ASSUME NEW n \in Nat, NEW off \in Int, NEW v \in Int
  PROVE  /\ Stm!DataFrom(off, n) \in Seq(Byte) /\ Len(Stm!DataFrom(off, n)) = n
         /\ Stm!SizeField(v) \in Seq(Byte) /\ Len(Stm!SizeField(v)) = SizeT
         /\ \A k \in Int : Stm!SizeByte(v, k) \in Byte
<1>1. \A k \in Int : Stm!Data(k) \in Byte /\ Stm!SizeByte(v, k) \in Byte
  BY DEF Stm!Data, Stm!SizeByte, Byte
<1>2. SizeT \in Nat
  BY FragmentAssumption
<1>3. Stm!DataFrom(off, n) \in [1 .. n -> Byte] /\ Stm!SizeField(v) \in [1 .. SizeT -> Byte]
  BY <1>1, <1>2 DEF Stm!DataFrom, Stm!SizeField
<1>4. Stm!DataFrom(off, n) \in Seq(Byte) /\ Stm!SizeField(v) \in Seq(Byte)
  BY <1>2, <1>3, SeqDef
<1>5. DOMAIN Stm!DataFrom(off, n) = 1 .. n /\ DOMAIN Stm!SizeField(v) = 1 .. SizeT
  BY <1>3
<1>. QED
  BY <1>1, <1>2, <1>4, <1>5, LenProperties

\* A fragment of the Schema that is marshalled.
Fragment ==
  [types : {type}, tid : {tid}, fid : Int, payload : Seq(Byte), len : Nat,
   head : [fid : Int, size : Int], sum : [fid : Int, size : Int, payload : Seq(Byte)]]

\* Fragments without gaps.
Frags == UNION {[0 .. n - 1 -> Fragment] : n \in Nat}

\* What a Buffer can be.
Buffers ==
  [schema : {NoSchema, [types |-> type, tid |-> tid]}, heads : Nat, headSize : Int,
   lenChecksum : Nat, MTU : Nat, size : Int, index : Nat, pos : Nat, windex : Nat,
   frags : Frags]

\* The n fragments f hold s, cut every w bytes.
PieceLen(n, w, s, i) == IF i = n - 1 THEN Len(s) - Start(i, w) ELSE w

Cut(f, n, w, s) ==
  /\ n \in Nat /\ w \in Nat /\ w > 0 /\ s \in Seq(Byte) /\ f \in [0 .. n - 1 -> Fragment]
  /\ n = 0 => Len(s) = 0
  /\ n > 0 => Start(n - 1, w) < Len(s) /\ Len(s) <= Start(n, w)
  /\ \A i \in 0 .. n - 1 :
       /\ Len(f[i].payload) = PieceLen(n, w, s, i) /\ f[i].len = PieceLen(n, w, s, i)
       /\ \A j \in 1 .. PieceLen(n, w, s, i) : f[i].payload[j] = s[Start(i, w) + j]

\* How many fragments there are.
N(b) == Cardinality(DOMAIN b.frags)

\* What being cut says of each fragment.
LEMMA CutFacts ==
  ASSUME NEW f, NEW n, NEW w, NEW s, Cut(f, n, w, s)
  PROVE  /\ n \in Nat /\ w \in Nat /\ w > 0 /\ s \in Seq(Byte) /\ f \in [0 .. n - 1 -> Fragment]
         /\ DOMAIN f = 0 .. n - 1 /\ Cardinality(DOMAIN f) = n /\ f \in Frags
         /\ n = 0 => s = <<>>
         /\ Len(s) \in Nat
         /\ \A i \in 0 .. n - 1 :
              /\ Start(i, w) \in Nat
              /\ PieceLen(n, w, s, i) \in 1 .. w
              /\ Start(i, w) + PieceLen(n, w, s, i) <= Len(s)
              /\ f[i] \in Fragment /\ f[i].payload \in Seq(Byte)
              /\ Len(f[i].payload) = PieceLen(n, w, s, i)
<1>1. /\ n \in Nat /\ w \in Nat /\ w > 0 /\ s \in Seq(Byte) /\ f \in [0 .. n - 1 -> Fragment]
      /\ Len(s) \in Nat
  BY DEF Cut
<1>2. Cardinality(0 .. n - 1) = n
  BY <1>1, FS_Interval
<1>3. n = 0 => s = <<>>
  BY <1>1, EmptySeq DEF Cut
<1>4. ASSUME NEW i \in 0 .. n - 1
      PROVE  /\ Start(i, w) \in Nat
             /\ PieceLen(n, w, s, i) \in 1 .. w
             /\ Start(i, w) + PieceLen(n, w, s, i) <= Len(s)
  <2>0. i \in Nat /\ n - 1 \in Nat
    BY <1>1
  <2>1. i \in Nat /\ n - 1 \in Nat /\ Start(i, w) \in Nat /\ Start(n - 1, w) \in Nat
    BY <1>1, <2>0, StartFacts
  <2>2. Start(n - 1, w) < Len(s) /\ Len(s) <= Start(n - 1, w) + w
    BY <1>1, <2>1, StartFacts DEF Cut
  <2>3. CASE i = n - 1
    BY <1>1, <2>1, <2>2, <2>3 DEF PieceLen
  <2>4. CASE i # n - 1
    <3>1. Start(i, w) + w <= Start(n - 1, w)
      BY <1>1, <2>1, <2>4, StartMonotone
    <3>. QED
      BY <1>1, <2>1, <2>2, <2>4, <3>1 DEF PieceLen
  <2>. QED
    BY <2>3, <2>4
<1>5. \A i \in 0 .. n - 1 : f[i] \in Fragment /\ f[i].payload \in Seq(Byte)
  BY <1>1 DEF Fragment
<1>6. f \in Frags
  BY <1>1 DEF Frags
<1>. QED
  BY <1>1, <1>2, <1>3, <1>4, <1>5, <1>6 DEF Cut

-----------------------------------------------------------------------------
(* The stream is what the fragments were cut from. *)

\* flat joins the first m of seqs, one after the other.
FlatTo(flat, m, seqs) ==
  flat = [i \in 1 .. m |-> IF i = 1 THEN seqs[i] ELSE flat[i - 1] \o seqs[i]]

\* The function FlattenSeq chooses exists, for any number of sequences.
LEMMA FlatExists ==
  ASSUME NEW seqs, NEW n \in Nat
  PROVE  \E flat : FlatTo(flat, n, seqs)
<1>. DEFINE S == {m \in Nat : \E flat : FlatTo(flat, m, seqs)}
<1>1. 0 \in S
  <2>. DEFINE g == [i \in 1 .. 0 |-> seqs]
  <2>1. FlatTo(g, 0, seqs)
    BY DEF FlatTo
  <2>. QED
    BY <2>1
<1>2. ASSUME NEW m \in Nat, m \in S PROVE m + 1 \in S
  <2>1. PICK g : FlatTo(g, m, seqs)
    BY <1>2
  <2>. DEFINE h == [i \in 1 .. (m + 1) |->
                      IF i = m + 1 THEN (IF i = 1 THEN seqs[i] ELSE g[i - 1] \o seqs[i]) ELSE g[i]]
  <2>2. ASSUME NEW i \in 1 .. (m + 1)
        PROVE  h[i] = IF i = 1 THEN seqs[i] ELSE h[i - 1] \o seqs[i]
    <3>1. CASE i = m + 1
      <4>1. i # 1 => i - 1 \in 1 .. (m + 1) /\ i - 1 # m + 1
        BY <3>1
      <4>2. i # 1 => h[i - 1] = g[i - 1]
        BY <4>1
      <4>. QED
        BY <3>1, <4>2
    <3>2. CASE i # m + 1
      <4>1. i \in 1 .. m /\ (i # 1 => i - 1 \in 1 .. (m + 1) /\ i - 1 # m + 1)
        BY <3>2
      <4>2. g[i] = IF i = 1 THEN seqs[i] ELSE g[i - 1] \o seqs[i]
        BY <2>1, <4>1 DEF FlatTo
      <4>3. i # 1 => h[i - 1] = g[i - 1]
        BY <4>1
      <4>. QED
        BY <3>2, <4>2, <4>3
    <3>. QED
      BY <3>1, <3>2
  <2>3. FlatTo(h, m + 1, seqs)
    <3>1. h = [i \in 1 .. (m + 1) |-> h[i]]
      OBVIOUS
    <3>. HIDE DEF h
    <3>. QED
      BY <2>2, <3>1, Zenon DEF FlatTo
  <2>. QED
    BY <2>3
<1>. HIDE DEF S
<1>3. n \in S
  BY <1>1, <1>2, Induction
<1>. QED
  BY <1>3 DEF S

\* The Stream of fragments is what they were cut from.
LEMMA StreamIs ==
  ASSUME NEW b, NEW n, NEW w, NEW s, Cut(b.frags, n, w, s)
  PROVE  Stream(b) = s
<1>. DEFINE ps == Payloads(b)
<1>1. /\ n \in Nat /\ w \in Nat /\ s \in Seq(Byte) /\ Len(s) \in Nat
      /\ DOMAIN b.frags = 0 .. n - 1 /\ Cardinality(DOMAIN b.frags) = n
  BY CutFacts
<1>2. ps = [k \in 1 .. n |-> b.frags[k - 1].payload]
  BY <1>1 DEF Payloads, Fragments
<1>3. ps \in Seq(Seq(Byte)) /\ Len(ps) = n
  <2>1. ASSUME NEW k \in 1 .. n PROVE b.frags[k - 1].payload \in Seq(Byte)
    <3>1. k - 1 \in 0 .. n - 1
      BY <1>1
    <3>. QED
      BY <3>1, CutFacts
  <2>2. ps \in [1 .. n -> Seq(Byte)]
    BY <1>2, <2>1
  <2>3. ps \in Seq(Seq(Byte))
    BY <1>1, <2>2, SeqDef
  <2>4. DOMAIN ps = 1 .. n /\ DOMAIN ps = 1 .. Len(ps) /\ Len(ps) \in Nat
    BY <1>2, <2>3, LenProperties
  <2>. QED
    BY <1>1, <2>3, <2>4
<1>. HIDE DEF ps
<1>4. CASE n = 0
  <2>1. ps = <<>> /\ s = <<>>
    BY <1>3, <1>4, EmptySeq, CutFacts
  <2>2. FlattenSeq(ps) = ps
    BY <1>3, <1>4 DEF FlattenSeq
  <2>. QED
    BY <2>1, <2>2 DEF Stream, ps
<1>5. CASE n # 0
  <2>. DEFINE flat == CHOOSE f : f = [i \in 1 .. Len(ps) |->
                                        IF i = 1 THEN ps[i] ELSE f[i - 1] \o ps[i]]
  <2>1. FlattenSeq(ps) = flat[Len(ps)]
    BY <1>3, <1>5, Zenon DEF FlattenSeq
  <2>2. FlatTo(flat, n, ps)
    <3>1. \E f : FlatTo(f, n, ps)
      BY <1>1, FlatExists
    <3>. QED
      BY <1>3, <3>1, Zenon DEF FlatTo
  <2>. HIDE DEF flat
  <2>. DEFINE Upto(k) == Start(k - 1, w) + PieceLen(n, w, s, k - 1)
              S == {k \in Nat : k \in 1 .. n =>
                      /\ flat[k] \in Seq(Byte) /\ Len(flat[k]) = Upto(k)
                      /\ \A j \in 1 .. Upto(k) : flat[k][j] = s[j]}
  <2>3. 0 \in S
    OBVIOUS
  <2>4. ASSUME NEW k \in Nat, k \in S PROVE k + 1 \in S
    <3>. SUFFICES ASSUME k + 1 \in 1 .. n
                  PROVE  /\ flat[k + 1] \in Seq(Byte) /\ Len(flat[k + 1]) = Upto(k + 1)
                         /\ \A j \in 1 .. Upto(k + 1) : flat[k + 1][j] = s[j]
      OBVIOUS
    <3>1. k \in 0 .. n - 1 /\ (k + 1) - 1 = k
      BY <1>1
    <3>. DEFINE p == b.frags[k].payload
                l == PieceLen(n, w, s, k)
    <3>2. /\ ps[k + 1] = p /\ p \in Seq(Byte) /\ Len(p) = l /\ l \in Nat
          /\ \A j \in 1 .. l : p[j] = s[Start(k, w) + j]
          /\ Upto(k + 1) = Start(k, w) + l /\ Start(k, w) \in Nat
      <4>1. ps[k + 1] = p
        BY <1>2, <3>1 DEF ps
      <4>2. /\ p \in Seq(Byte) /\ Len(p) = l /\ l \in 1 .. w /\ Start(k, w) \in Nat
        BY <3>1, CutFacts
      <4>3. \A j \in 1 .. l : p[j] = s[Start(k, w) + j]
        BY <3>1 DEF Cut
      <4>. QED
        BY <3>1, <4>1, <4>2, <4>3
    <3>3. flat[k + 1] = IF k + 1 = 1 THEN ps[k + 1] ELSE flat[(k + 1) - 1] \o ps[k + 1]
      <4>. DEFINE e == k + 1
      <4>1. e \in 1 .. n
        OBVIOUS
      <4>. HIDE DEF e
      <4>2. flat[e] = IF e = 1 THEN ps[e] ELSE flat[e - 1] \o ps[e]
        BY <2>2, <4>1 DEF FlatTo
      <4>. QED
        BY <4>2 DEF e
    <3>. HIDE DEF p, l
    <3>4. CASE k = 0
      <4>1. Start(k, w) = 0
        BY <1>1, <3>4, StartFacts
      <4>2. flat[k + 1] = p
        BY <3>2, <3>3, <3>4
      <4>. QED
        BY <3>2, <4>1, <4>2
    <3>5. CASE k # 0
      <4>1. k \in 1 .. n /\ k - 1 \in 0 .. n - 1 /\ k - 1 # n - 1 /\ k - 1 \in Nat
        BY <1>1, <3>1, <3>5
      <4>2. Upto(k) = Start(k, w)
        <5>1. Start(k - 1, w) + w = Start(k, w) /\ Start(k, w) \in Nat /\ Start(k - 1, w) \in Nat
          BY <1>1, <3>5, StartBack
        <5>2. Upto(k) = Start(k - 1, w) + w
          BY <4>1 DEF PieceLen
        <5>. QED
          BY <5>1, <5>2
      <4>3. /\ flat[k] \in Seq(Byte) /\ Len(flat[k]) = Start(k, w)
            /\ \A j \in 1 .. Start(k, w) : flat[k][j] = s[j]
        BY <2>4, <4>1, <4>2
      <4>4. flat[k + 1] = flat[k] \o p
        <5>1. k + 1 # 1 /\ (k + 1) - 1 = k
          BY <3>5
        <5>. QED
          BY <3>2, <3>3, <5>1
      <4>5. /\ flat[k] \o p \in Seq(Byte) /\ Len(flat[k] \o p) = Start(k, w) + l
            /\ \A j \in 1 .. Start(k, w) + l :
                 (flat[k] \o p)[j] = IF j <= Start(k, w) THEN flat[k][j] ELSE p[j - Start(k, w)]
        <5>1. /\ flat[k] \o p \in Seq(Byte) /\ Len(flat[k] \o p) = Len(flat[k]) + Len(p)
              /\ \A j \in 1 .. Len(flat[k]) + Len(p) :
                   (flat[k] \o p)[j] = IF j <= Len(flat[k]) THEN flat[k][j] ELSE p[j - Len(flat[k])]
          BY <3>2, <4>3, ConcatProperties
        <5>. QED
          BY <3>2, <4>3, <5>1
      <4>6. ASSUME NEW j \in 1 .. Start(k, w) + l PROVE (flat[k] \o p)[j] = s[j]
        <5>1. CASE j <= Start(k, w)
          BY <3>2, <4>3, <4>5, <5>1
        <5>2. CASE ~ (j <= Start(k, w))
          <6>1. j - Start(k, w) \in 1 .. l /\ Start(k, w) + (j - Start(k, w)) = j
            BY <3>2, <5>2
          <6>2. p[j - Start(k, w)] = s[Start(k, w) + (j - Start(k, w))]
            BY <3>2, <6>1
          <6>. QED
            BY <4>5, <5>2, <6>1, <6>2
        <5>. QED
          BY <5>1, <5>2
      <4>. QED
        BY <3>2, <4>4, <4>5, <4>6
    <3>. QED
      BY <3>4, <3>5
  <2>. HIDE DEF S
  <2>5. n \in S
    BY <1>1, <2>3, <2>4, Induction
  <2>6. n \in 1 .. n /\ n - 1 \in 0 .. n - 1
    BY <1>1, <1>5
  <2>7. Upto(n) = Len(s)
    <3>1. Start(n - 1, w) \in Nat
      BY <2>6, CutFacts
    <3>. QED
      BY <1>1, <3>1 DEF PieceLen
  <2>8. /\ flat[n] \in Seq(Byte) /\ Len(flat[n]) = Len(s)
        /\ \A j \in 1 .. Len(s) : flat[n][j] = s[j]
    BY <2>5, <2>6, <2>7 DEF S
  <2>9. flat[n] = s
    BY <1>1, <2>8, SeqEqual
  <2>. QED
    BY <1>3, <2>1, <2>9 DEF Stream, ps
<1>. QED
  BY <1>4, <1>5

-----------------------------------------------------------------------------
(* A fragment more, or more in the last one. *)

\* The last fragment gets p as well, and is not longer than the others.
LEMMA CutLonger ==
  ASSUME NEW f, NEW n, NEW w, NEW s, Cut(f, n, w, s),
         NEW p \in Seq(Byte), NEW g \in [0 .. n - 1 -> Fragment],
         n > 0, Len(s) + Len(p) <= Start(n, w),
         \A i \in 0 .. n - 1 : i # n - 1 => g[i] = f[i],
         g[n - 1].payload = f[n - 1].payload \o p,
         g[n - 1].len = Len(f[n - 1].payload) + Len(p)
  PROVE  Cut(g, n, w, s \o p)
<1>. DEFINE t == s \o p
            a == Start(n - 1, w)
<1>1. /\ n \in Nat /\ w \in Nat /\ w > 0 /\ s \in Seq(Byte) /\ Len(s) \in Nat /\ Len(p) \in Nat
      /\ n - 1 \in 0 .. n - 1
  BY CutFacts
<1>2. /\ t \in Seq(Byte) /\ Len(t) = Len(s) + Len(p)
      /\ \A j \in 1 .. Len(s) + Len(p) : t[j] = IF j <= Len(s) THEN s[j] ELSE p[j - Len(s)]
  BY <1>1, ConcatProperties
<1>3. /\ a \in Nat /\ a < Len(s)
      /\ f[n - 1].payload \in Seq(Byte) /\ Len(f[n - 1].payload) = Len(s) - a
      /\ \A j \in 1 .. Len(s) - a : f[n - 1].payload[j] = s[a + j]
  <2>1. /\ a \in Nat /\ f[n - 1].payload \in Seq(Byte)
        /\ Len(f[n - 1].payload) = PieceLen(n, w, s, n - 1)
    BY <1>1, CutFacts
  <2>2. PieceLen(n, w, s, n - 1) = Len(s) - a
    BY DEF PieceLen
  <2>. QED
    BY <1>1, <2>1, <2>2 DEF Cut
<1>4. /\ Len(g[n - 1].payload) = Len(t) - a /\ g[n - 1].len = Len(t) - a
      /\ \A j \in 1 .. Len(t) - a : g[n - 1].payload[j] = t[a + j]
  <2>1. /\ Len(g[n - 1].payload) = (Len(s) - a) + Len(p)
        /\ \A j \in 1 .. (Len(s) - a) + Len(p) :
             g[n - 1].payload[j] = IF j <= Len(s) - a THEN f[n - 1].payload[j] ELSE p[j - (Len(s) - a)]
    BY <1>3, ConcatProperties, SMTT(30)
  <2>2. (Len(s) - a) + Len(p) = Len(t) - a
    BY <1>1, <1>2, <1>3
  <2>3. ASSUME NEW j \in 1 .. Len(t) - a PROVE g[n - 1].payload[j] = t[a + j]
    <3>0. a + j \in 1 .. Len(s) + Len(p) /\ j \in 1 .. (Len(s) - a) + Len(p)
      BY <1>1, <1>2, <1>3
    <3>1. CASE j <= Len(s) - a
      <4>1. j \in 1 .. Len(s) - a /\ a + j <= Len(s)
        BY <1>1, <1>3, <3>1
      <4>. QED
        BY <1>2, <1>3, <2>1, <3>0, <3>1, <4>1
    <3>2. CASE ~ (j <= Len(s) - a)
      <4>1. ~ (a + j <= Len(s)) /\ (a + j) - Len(s) = j - (Len(s) - a)
        BY <1>1, <1>3, <3>2
      <4>. QED
        BY <1>2, <2>1, <3>0, <3>2, <4>1
    <3>. QED
      BY <3>1, <3>2
  <2>. QED
    BY <1>3, <2>1, <2>2, <2>3
<1>5. ASSUME NEW i \in 0 .. n - 1
      PROVE  /\ Len(g[i].payload) = PieceLen(n, w, t, i) /\ g[i].len = PieceLen(n, w, t, i)
             /\ \A j \in 1 .. PieceLen(n, w, t, i) : g[i].payload[j] = t[Start(i, w) + j]
  <2>1. CASE i = n - 1
    <3>1. PieceLen(n, w, t, i) = Len(t) - a /\ Start(i, w) = a
      BY <2>1 DEF PieceLen
    <3>. QED
      BY <1>4, <2>1, <3>1
  <2>2. CASE i # n - 1
    <3>1. PieceLen(n, w, t, i) = w /\ PieceLen(n, w, s, i) = w /\ g[i] = f[i]
      BY <2>2 DEF PieceLen
    <3>2. /\ Len(f[i].payload) = w /\ f[i].len = w
          /\ \A j \in 1 .. w : f[i].payload[j] = s[Start(i, w) + j]
      BY <3>1 DEF Cut
    <3>3. ASSUME NEW j \in 1 .. w PROVE s[Start(i, w) + j] = t[Start(i, w) + j]
      <4>1. Start(i, w) \in Nat /\ Start(i, w) + w <= Len(s)
        BY <3>1, CutFacts
      <4>2. Start(i, w) + j \in 1 .. Len(s) + Len(p) /\ Start(i, w) + j <= Len(s)
        BY <1>1, <4>1
      <4>. QED
        BY <1>2, <4>2
    <3>. QED
      BY <3>1, <3>2, <3>3
  <2>. QED
    BY <2>1, <2>2
<1>6. a < Len(t) /\ Len(t) <= Start(n, w)
  BY <1>1, <1>2, <1>3
<1>. HIDE DEF t
<1>7. n # 0
  BY <1>1
<1>. QED
  BY <1>1, <1>2, <1>5, <1>6, <1>7 DEF Cut, t

\* All fragments are full, and p becomes one more.
LEMMA CutMore ==
  ASSUME NEW f, NEW n, NEW w, NEW s, Cut(f, n, w, s), Len(s) = Start(n, w),
         NEW p \in Seq(Byte), Len(p) > 0, Len(p) <= w,
         NEW g \in [0 .. (n + 1) - 1 -> Fragment],
         \A i \in 0 .. n - 1 : g[i] = f[i],
         g[n].payload = p, g[n].len = Len(p)
  PROVE  Cut(g, n + 1, w, s \o p)
<1>. DEFINE t == s \o p
            m == n + 1
<1>1. /\ n \in Nat /\ w \in Nat /\ w > 0 /\ s \in Seq(Byte) /\ Len(s) \in Nat /\ Len(p) \in Nat
      /\ m \in Nat /\ m > 0 /\ m - 1 = n
  BY CutFacts
<1>2. /\ t \in Seq(Byte) /\ Len(t) = Len(s) + Len(p)
      /\ \A j \in 1 .. Len(s) + Len(p) : t[j] = IF j <= Len(s) THEN s[j] ELSE p[j - Len(s)]
  BY <1>1, ConcatProperties
<1>3. Start(n, w) \in Nat /\ Start(m, w) = Start(n, w) + w
  BY <1>1, StartFacts
<1>. HIDE DEF t, m
<1>4. ASSUME NEW i \in 0 .. m - 1
      PROVE  /\ Len(g[i].payload) = PieceLen(m, w, t, i) /\ g[i].len = PieceLen(m, w, t, i)
             /\ \A j \in 1 .. PieceLen(m, w, t, i) : g[i].payload[j] = t[Start(i, w) + j]
  <2>1. CASE i = n
    <3>1. PieceLen(m, w, t, i) = Len(p)
      BY <1>1, <1>2, <1>3, <2>1 DEF PieceLen
    <3>2. ASSUME NEW j \in 1 .. Len(p) PROVE p[j] = t[Start(n, w) + j]
      <4>1. /\ Len(s) + j \in 1 .. Len(s) + Len(p) /\ ~ (Len(s) + j <= Len(s))
            /\ (Len(s) + j) - Len(s) = j
        BY <1>1
      <4>2. t[Len(s) + j] = p[(Len(s) + j) - Len(s)]
        BY <1>2, <4>1
      <4>. QED
        BY <4>1, <4>2
    <3>. QED
      BY <2>1, <3>1, <3>2
  <2>2. CASE i # n
    <3>0. i \in 0 .. n - 1 /\ i \in Nat
      BY <1>1, <2>2
    <3>1. PieceLen(m, w, t, i) = w /\ g[i] = f[i]
      BY <1>1, <2>2, <3>0 DEF PieceLen
    <3>2. PieceLen(n, w, s, i) = w
      <4>1. CASE i = n - 1
        <5>1. Start(n - 1, w) + w = Start(n, w) /\ Start(n - 1, w) \in Nat
          <6>1. n # 0
            BY <1>1, <3>0
          <6>. QED
            BY <1>1, <6>1, StartBack
        <5>. QED
          BY <1>1, <1>3, <4>1, <5>1 DEF PieceLen
      <4>2. CASE i # n - 1
        BY <4>2 DEF PieceLen
      <4>. QED
        BY <4>1, <4>2
    <3>3. /\ Len(f[i].payload) = w /\ f[i].len = w
          /\ \A j \in 1 .. w : f[i].payload[j] = s[Start(i, w) + j]
      BY <3>0, <3>2 DEF Cut
    <3>4. ASSUME NEW j \in 1 .. w PROVE s[Start(i, w) + j] = t[Start(i, w) + j]
      <4>1. Start(i, w) \in Nat /\ Start(i, w) + w <= Len(s)
        BY <3>0, <3>2, CutFacts
      <4>2. Start(i, w) + j \in 1 .. Len(s) + Len(p) /\ Start(i, w) + j <= Len(s)
        BY <1>1, <4>1
      <4>. QED
        BY <1>2, <4>2
    <3>. QED
      BY <3>1, <3>3, <3>4
  <2>. QED
    BY <2>1, <2>2
<1>5. Start(m - 1, w) < Len(t) /\ Len(t) <= Start(m, w)
  BY <1>1, <1>2, <1>3
<1>6. g \in [0 .. m - 1 -> Fragment] /\ m # 0
  BY <1>1 DEF m
<1>7. Cut(g, m, w, t)
  BY <1>1, <1>2, <1>4, <1>5, <1>6 DEF Cut
<1>. QED
  BY <1>7 DEF m, t

-----------------------------------------------------------------------------
(* One round of Append. *)

\* What Append leaves alone.
Same(b, c) ==
  /\ c.schema = b.schema /\ c.heads = b.heads /\ c.headSize = b.headSize
  /\ c.lenChecksum = b.lenChecksum /\ c.index = b.index /\ c.pos = b.pos

\* The MTU once there is a fragment, and the payload bytes of a full one.
Sized(b) == IF b.MTU = 0 THEN DefaultMTU ELSE b.MTU
Width(b) == Sized(b) - b.heads - b.lenChecksum

\* The Schemas of fragments that were not received: no number in them is an
\* ending one.
Local(f, n) == \A i \in 0 .. n - 1 : i + 1 < ShortMax => f[i].fid >= 0

\* The headers before finish.
Plain(b, n) ==
  /\ Local(b.frags, n)
  /\ \A i \in 0 .. n - 1 :
       b.frags[i].head = [fid |-> IF b.heads = 0 THEN 0 ELSE Short(i + 1), size |-> b.headSize]

\* Append can go on behind s, in the last fragment or with a new one.
Ready(b, n, s) ==
  /\ b \in Buffers /\ Cut(b.frags, n, Width(b), s) /\ Plain(b, n)
  /\ b.MTU = 0 => n = 0
  /\ \/ b.windex = n - 1
     \/ b.windex = n /\ Len(s) = Start(n, Width(b))

\* int16 of a number is a number.
LEMMA ShortInt == ASSUME NEW k \in Int PROVE Short(k) \in Int
BY FragmentAssumption DEF Short

\* int16 does not change what fits.
LEMMA ShortIs ==
  ASSUME NEW k \in Int, -ShortMax <= k, k < ShortMax
  PROVE  Short(k) = k
<1>. DEFINE x == k + ShortMax
            y == 2 * ShortMax
<1>1. x \in Nat /\ y \in Nat /\ y > 0 /\ x < y /\ x - ShortMax = k
  BY FragmentAssumption
<1>. HIDE DEF x, y
<1>2. x % y = x
  BY <1>1
<1>. QED
  BY <1>1, <1>2 DEF Short, x, y

\* Fragments with the same numbers in their Schemas are local if the others are.
LEMMA LocalSame ==
  ASSUME NEW f, NEW g, NEW n, Local(f, n), \A i \in 0 .. n - 1 : g[i].fid = f[i].fid
  PROVE  Local(g, n)
BY Zenon DEF Local

\* No fragments are local.
LEMMA LocalNone == \A f : Local(f, 0)
BY DEF Local

\* e is c with p written to fragment w.
Lengthened(c, n, w, p, e) ==
  /\ e \in Buffers /\ Same(c, e) /\ e.MTU = c.MTU /\ e.windex = w
  /\ e.size = c.size + Len(p)
  /\ e.frags \in [0 .. n - 1 -> Fragment]
  /\ \A i \in 0 .. n - 1 : e.frags[i].head = c.frags[i].head
  /\ \A i \in 0 .. n - 1 : e.frags[i].fid = c.frags[i].fid
  /\ \A i \in 0 .. n - 1 : i # w => e.frags[i] = c.frags[i]
  /\ e.frags[w].payload = c.frags[w].payload \o p
  /\ e.frags[w].len = c.frags[w].len + Len(p)

\* What writing p to a fragment changes.
LEMMA ExtendedFacts ==
  ASSUME NEW c \in Buffers, NEW n \in Nat, c.frags \in [0 .. n - 1 -> Fragment],
         NEW w \in 0 .. n - 1, c.windex = w, NEW p \in Seq(Byte)
  PROVE  Lengthened(c, n, w, p, Extended(c, p))
<1>. DEFINE e == Extended(c, p)
            g == [c.frags[w] EXCEPT !.payload = @ \o p, !.len = @ + Len(p)]
            h == [c.frags EXCEPT ![w] = g]
<1>1. /\ w \in 0 .. n - 1 /\ c.frags[w] \in Fragment /\ Len(p) \in Nat
      /\ c.frags \in [0 .. n - 1 -> Fragment]
  OBVIOUS
<1>2. g \in Fragment
  <2>1. c.frags[w].payload \o p \in Seq(Byte) /\ c.frags[w].len + Len(p) \in Nat
    <3>1. c.frags[w].payload \in Seq(Byte) /\ c.frags[w].len \in Nat
      BY <1>1 DEF Fragment
    <3>. QED
      BY <1>1, <3>1, ConcatProperties
  <2>. QED
    BY <1>1, <2>1 DEF Fragment
<1>3. /\ g.payload = c.frags[w].payload \o p /\ g.len = c.frags[w].len + Len(p)
      /\ g.head = c.frags[w].head /\ g.fid = c.frags[w].fid
  BY <1>1 DEF Fragment
<1>4. e = [c EXCEPT !.size = @ + Len(p), !.frags = h]
  BY <1>1 DEF Extended, Buffers, Fragment
<1>. HIDE DEF g
<1>5. h \in [0 .. n - 1 -> Fragment] /\ h[w] = g /\ \A i \in 0 .. n - 1 : i # w => h[i] = c.frags[i]
  BY <1>1, <1>2
<1>. HIDE DEF e, h
<1>6. h \in Frags
  BY <1>5 DEF Frags
<1>7. /\ e \in Buffers /\ Same(c, e) /\ e.MTU = c.MTU /\ e.windex = w
      /\ e.size = c.size + Len(p) /\ e.frags = h
  <2>1. c.size + Len(p) \in Int
    BY <1>1 DEF Buffers
  <2>. QED
    BY <1>4, <1>6, <2>1 DEF Buffers, Same
<1>. QED
  BY <1>1, <1>3, <1>5, <1>7 DEF e, Lengthened

\* What a new fragment changes: the MTU, if it was not set, and nothing of the
\* others.
LEMMA CreatedFacts ==
  ASSUME NEW b \in Buffers, NEW n \in Nat, b.frags \in [0 .. n - 1 -> Fragment], b.windex = n
  PROVE  LET c == Created(b)
         IN  /\ c \in Buffers /\ Same(b, c) /\ c.MTU = Sized(b) /\ c.windex = n
             /\ c.size = b.size
             /\ c.frags \in [0 .. (n + 1) - 1 -> Fragment]
             /\ \A i \in 0 .. n - 1 : c.frags[i] = b.frags[i]
             /\ c.frags[n].payload = <<>> /\ c.frags[n].len = 0
             /\ c.frags[n].head =
                  [fid |-> IF b.heads = 0 THEN 0 ELSE Short(n + 1), size |-> b.headSize]
             /\ n + 1 < ShortMax => c.frags[n].fid >= 0
<1>. DEFINE c == Created(b)
            d == [b EXCEPT !.MTU = IF @ = 0 THEN DefaultMTU ELSE @]
            g == NewFragment(d)
            h == Put(b.frags, n, g)
<1>1. Cardinality(DOMAIN b.frags) = n
  <2>1. DOMAIN b.frags = 0 .. n - 1
    OBVIOUS
  <2>. QED
    BY <2>1, FS_Interval
<1>2. /\ d \in Buffers /\ Same(b, d) /\ d.MTU = Sized(b) /\ d.windex = n
      /\ d.size = b.size /\ d.frags = b.frags
  BY FragmentAssumption DEF Buffers, Same, Sized
<1>3. c = [d EXCEPT !.frags = h]
  BY <1>1, <1>2 DEF Created
<1>. HIDE DEF c, d
<1>4. /\ g.payload = <<>> /\ g.len = 0
      /\ g.head = [fid |-> IF b.heads = 0 THEN 0 ELSE Short(n + 1), size |-> b.headSize]
  BY <1>2 DEF NewFragment, Same
<1>9. n + 1 < ShortMax => g.fid >= 0
  <2>1. n + 1 < ShortMax => Short(n + 1) = n + 1
    <3>1. n + 1 \in Int /\ -ShortMax <= n + 1
      BY FragmentAssumption
    <3>. QED
      BY <3>1, ShortIs
  <2>2. g.fid = IF d.schema = NoSchema THEN 0 ELSE Short(n + 1)
    BY <1>2 DEF NewFragment
  <2>. QED
    BY <2>1, <2>2
<1>5. g \in Fragment
  <2>1. Short(n + 1) \in Int /\ <<>> \in Seq(Byte)
    BY ShortInt
  <2>2. d.headSize \in Int
    BY <1>2 DEF Buffers
  <2>3. Bare \in [fid : Int, size : Int, payload : Seq(Byte)]
    BY <2>1 DEF Bare
  <2>. QED
    BY <1>2, <2>1, <2>2, <2>3 DEF NewFragment, Fragment
<1>. HIDE DEF g
<1>6. /\ h \in [0 .. (n + 1) - 1 -> Fragment] /\ h[n] = g
      /\ \A i \in 0 .. n - 1 : h[i] = b.frags[i]
  <2>1. DOMAIN b.frags \cup {n} = 0 .. (n + 1) - 1
    OBVIOUS
  <2>2. h = [i \in 0 .. (n + 1) - 1 |-> IF i = n THEN g ELSE b.frags[i]]
    BY <2>1 DEF Put
  <2>3. \A i \in 0 .. (n + 1) - 1 : i # n => i \in 0 .. n - 1
    OBVIOUS
  <2>. QED
    BY <1>5, <2>2, <2>3
<1>. HIDE DEF h
<1>7. h \in Frags
  <2>1. n + 1 \in Nat
    OBVIOUS
  <2>. QED
    BY <1>6, <2>1 DEF Frags
<1>8. /\ c \in Buffers /\ Same(b, c) /\ c.MTU = Sized(b) /\ c.windex = n
      /\ c.size = b.size /\ c.frags = h
  BY <1>2, <1>3, <1>7 DEF Buffers, Same
<1>. QED
  BY <1>4, <1>6, <1>8, <1>9 DEF c

\* A sequence is its first m elements and the rest.
LEMMA Parts ==
  ASSUME NEW s \in Seq(Byte), NEW m \in 0 .. Len(s)
  PROVE  LET p == SubSeq(s, 1, m)
             r == SubSeq(s, m + 1, Len(s))
         IN  /\ p \in Seq(Byte) /\ Len(p) = m /\ \A i \in 1 .. m : p[i] = s[i]
             /\ r \in Seq(Byte) /\ Len(r) = Len(s) - m
             /\ \A i \in 1 .. Len(s) - m : r[i] = s[m + i]
             /\ p \o r = s
             /\ m = Len(s) => p = s /\ r = <<>>
<1>. DEFINE p == SubSeq(s, 1, m)
            e == m + 1
            r == SubSeq(s, e, Len(s))
<1>1. /\ Len(s) \in Nat /\ m \in Int /\ e \in Int /\ e = m + 1 /\ m >= 0 /\ m <= Len(s)
      /\ \A i \in 1 .. m : s[i] \in Byte
      /\ \A i \in e .. Len(s) : s[i] \in Byte
  OBVIOUS
<1>. HIDE DEF e
<1>2. /\ p \in Seq(Byte) /\ Len(p) = IF 1 <= m THEN m - 1 + 1 ELSE 0
      /\ \A i \in 1 .. m - 1 + 1 : p[i] = s[1 + i - 1]
  BY <1>1, SubSeqProperties
<1>3. /\ r \in Seq(Byte) /\ Len(r) = IF e <= Len(s) THEN Len(s) - e + 1 ELSE 0
      /\ \A i \in 1 .. Len(s) - e + 1 : r[i] = s[e + i - 1]
  BY <1>1, SubSeqProperties
<1>4. Len(p) = m /\ \A i \in 1 .. m : p[i] = s[i]
  <2>1. m - 1 + 1 = m /\ \A i \in 1 .. m : 1 + i - 1 = i
    BY <1>1
  <2>. QED
    BY <1>1, <1>2, <2>1
<1>5. Len(r) = Len(s) - m /\ \A i \in 1 .. Len(s) - m : r[i] = s[m + i]
  <2>1. Len(s) - e + 1 = Len(s) - m /\ \A i \in 1 .. Len(s) - m : e + i - 1 = m + i
    BY <1>1
  <2>2. Len(r) = Len(s) - m
    BY <1>1, <1>3
  <2>3. ASSUME NEW i \in 1 .. Len(s) - m PROVE r[i] = s[m + i]
    <3>1. i \in 1 .. Len(s) - e + 1 /\ e + i - 1 = m + i
      BY <2>1
    <3>2. r[i] = s[e + i - 1]
      BY <1>3, <3>1
    <3>. QED
      BY <3>1, <3>2
  <2>. QED
    BY <2>2, <2>3
<1>. HIDE DEF p, r
<1>6. p \o r = s
  <2>1. /\ p \o r \in Seq(Byte) /\ Len(p \o r) = Len(p) + Len(r)
        /\ \A i \in 1 .. Len(p) + Len(r) : (p \o r)[i] = IF i <= Len(p) THEN p[i] ELSE r[i - Len(p)]
    BY <1>2, <1>3, ConcatProperties
  <2>2. Len(p) + Len(r) = Len(s)
    BY <1>1, <1>4, <1>5
  <2>3. ASSUME NEW i \in 1 .. Len(s) PROVE (p \o r)[i] = s[i]
    <3>1. CASE i <= m
      BY <1>1, <1>4, <2>1, <2>2, <3>1
    <3>2. CASE ~ (i <= m)
      <4>1. i - m \in 1 .. Len(s) - m /\ m + (i - m) = i
        BY <1>1, <3>2
      <4>2. r[i - m] = s[i]
        BY <1>5, <4>1
      <4>. QED
        BY <1>4, <2>1, <2>2, <3>2, <4>2
    <3>. QED
      BY <3>1, <3>2
  <2>. QED
    BY <2>1, <2>2, <2>3, SeqEqual
<1>7. m = Len(s) => p = s /\ r = <<>>
  <2>. SUFFICES ASSUME m = Len(s) PROVE p = s /\ r = <<>>
    OBVIOUS
  <2>1. Len(p) = Len(s) /\ \A i \in 1 .. Len(p) : p[i] = s[i]
    BY <1>4
  <2>2. p = s
    BY <1>2, <2>1, SeqEqual
  <2>3. Len(r) = 0
    BY <1>1, <1>5
  <2>4. r = <<>>
    BY <1>3, <2>3, EmptySeq
  <2>. QED
    BY <2>2, <2>4
<1>. QED
  BY <1>2, <1>3, <1>4, <1>5, <1>6, <1>7 DEF p, r, e

\* p has been written behind s: what FillOne and Append come to.
Behind(b, n, s, c, k, p) ==
  /\ c \in Buffers /\ k \in Nat /\ n <= k /\ k > 0
  /\ Cut(c.frags, k, Width(b), s \o p) /\ Plain(c, k)
  /\ Same(b, c) /\ c.MTU = Sized(b) /\ c.size = b.size + Len(p)

\* Once the MTU is set the width of a fragment is Wavail.
LEMMA SizedFacts ==
  ASSUME NEW b \in Buffers, NEW c \in Buffers, Same(b, c), c.MTU = Sized(b)
  PROVE  /\ c.MTU \in Nat /\ c.MTU # 0 /\ Width(c) = Width(b) /\ Wavail(c) = Width(b)
         /\ Sized(c) = Sized(b)
<1>1. DefaultMTU \in Nat /\ DefaultMTU # 0 /\ b.MTU \in Nat
  BY FragmentAssumption DEF Buffers
<1>2. Sized(b) \in Nat /\ Sized(b) # 0
  BY <1>1 DEF Sized
<1>3. Sized(c) = Sized(b)
  BY <1>2 DEF Sized
<1>. QED
  BY <1>2, <1>3 DEF Width, Wavail, Same

\* A new fragment gets p ...
LEMMA FillNew ==
  ASSUME NEW b, NEW n, NEW s, Ready(b, n, s), b.windex = n,
         NEW p \in Seq(Byte), Len(p) > 0, Len(p) <= Width(b)
  PROVE  LET c == Created(b)
             e == Extended(c, p)
         IN  /\ Wavail(c) - Avail(c, c.windex) = Width(b)
             /\ Behind(b, n, s, e, n + 1, p) /\ e.windex = n
<1>. DEFINE c == Created(b)
            e == Extended(c, p)
            m == n + 1
<1>1. /\ b \in Buffers /\ Cut(b.frags, n, Width(b), s) /\ Plain(b, n) /\ n \in Nat
      /\ b.frags \in [0 .. n - 1 -> Fragment] /\ Width(b) \in Nat
      /\ m \in Nat /\ n \in 0 .. m - 1 /\ m - 1 = n /\ n <= m /\ m > 0
  <2>1. b \in Buffers /\ Cut(b.frags, n, Width(b), s) /\ Plain(b, n)
    BY DEF Ready
  <2>2. n \in Nat /\ b.frags \in [0 .. n - 1 -> Fragment] /\ Width(b) \in Nat
    BY <2>1, CutFacts
  <2>. QED
    BY <2>1, <2>2
<1>2. Len(s) = Start(n, Width(b))
  <2>1. n # n - 1
    BY <1>1
  <2>. QED
    BY <2>1 DEF Ready
<1>3. /\ c \in Buffers /\ Same(b, c) /\ c.MTU = Sized(b) /\ c.windex = n
      /\ c.size = b.size
      /\ c.frags \in [0 .. m - 1 -> Fragment]
      /\ \A i \in 0 .. n - 1 : c.frags[i] = b.frags[i]
      /\ c.frags[n].payload = <<>> /\ c.frags[n].len = 0
      /\ c.frags[n].head = [fid |-> IF b.heads = 0 THEN 0 ELSE Short(n + 1), size |-> b.headSize]
      /\ n + 1 < ShortMax => c.frags[n].fid >= 0
  BY <1>1, CreatedFacts
<1>. HIDE DEF c, m
<1>4. /\ e \in Buffers /\ Same(c, e) /\ e.MTU = c.MTU /\ e.windex = n
      /\ e.size = c.size + Len(p)
      /\ e.frags \in [0 .. m - 1 -> Fragment]
      /\ \A i \in 0 .. m - 1 : e.frags[i].head = c.frags[i].head
      /\ \A i \in 0 .. m - 1 : e.frags[i].fid = c.frags[i].fid
      /\ \A i \in 0 .. m - 1 : i # n => e.frags[i] = c.frags[i]
      /\ e.frags[n].payload = c.frags[n].payload \o p
      /\ e.frags[n].len = c.frags[n].len + Len(p)
  <2>1. c \in Buffers /\ m \in Nat /\ c.frags \in [0 .. m - 1 -> Fragment]
        /\ n \in 0 .. m - 1 /\ c.windex = n
    BY <1>1, <1>3
  <2>2. Lengthened(c, m, n, p, Extended(c, p))
    BY <2>1, ExtendedFacts
  <2>. QED
    BY <2>2 DEF Lengthened
<1>. HIDE DEF e
<1>5. /\ e.frags[n].payload = p /\ e.frags[n].len = Len(p)
      /\ \A i \in 0 .. n - 1 : e.frags[i] = b.frags[i]
  <2>1. <<>> \o p = p /\ Len(p) \in Nat
    BY ConcatEmptySeq
  <2>2. \A i \in 0 .. n - 1 : i \in 0 .. m - 1 /\ i # n
    BY <1>1
  <2>. QED
    BY <1>3, <1>4, <2>1, <2>2
<1>6. Cut(e.frags, n + 1, Width(b), s \o p)
  <2>. DEFINE f == b.frags
              g == e.frags
              w == Width(b)
  <2>1. Cut(f, n, w, s) /\ Len(s) = Start(n, w)
    BY <1>1, <1>2
  <2>2. /\ g \in [0 .. (n + 1) - 1 -> Fragment] /\ \A i \in 0 .. n - 1 : g[i] = f[i]
        /\ g[n].payload = p /\ g[n].len = Len(p)
    BY <1>4, <1>5 DEF m
  <2>3. p \in Seq(Byte) /\ Len(p) > 0 /\ Len(p) <= w
    OBVIOUS
  <2>4. Cut(g, n + 1, w, s \o p)
    <3>. HIDE DEF f, g, w
    <3>. QED
      BY <2>1, <2>2, <2>3, CutMore
  <2>. QED
    BY <2>4
<1>7. Plain(e, m)
  <2>1. ASSUME NEW i \in 0 .. m - 1
        PROVE  e.frags[i].head = [fid |-> IF b.heads = 0 THEN 0 ELSE Short(i + 1), size |-> b.headSize]
    <3>1. CASE i = n
      BY <1>3, <1>4, <3>1
    <3>2. CASE i # n
      <4>1. i \in 0 .. n - 1
        BY <1>1, <3>2
      <4>. QED
        BY <1>1, <1>3, <1>4, <4>1, ZenonT(30) DEF Plain
    <3>. QED
      BY <3>1, <3>2
  <2>2. e.heads = b.heads /\ e.headSize = b.headSize
    BY <1>3, <1>4 DEF Same
  <2>3. Local(e.frags, m)
    <3>. SUFFICES ASSUME NEW i \in 0 .. m - 1, i + 1 < ShortMax PROVE e.frags[i].fid >= 0
      BY DEF Local
    <3>1. CASE i = n
      BY <1>3, <1>4, <3>1
    <3>2. CASE i # n
      <4>1. i \in 0 .. n - 1
        BY <1>1, <3>2
      <4>2. e.frags[i] = b.frags[i]
        BY <1>5, <4>1
      <4>3. b.frags[i].fid >= 0
        BY <1>1, <4>1 DEF Plain, Local
      <4>. QED
        BY <4>2, <4>3
    <3>. QED
      BY <3>1, <3>2
  <2>. QED
    BY <2>1, <2>2, <2>3 DEF Plain
<1>8. Wavail(c) - Avail(c, c.windex) = Width(b)
  <2>1. Wavail(c) = Width(b)
    BY <1>1, <1>3, SizedFacts
  <2>2. Avail(c, c.windex) = 0
    BY <1>3 DEF Avail
  <2>. QED
    BY <1>1, <2>1, <2>2
<1>9. Same(b, e) /\ e.MTU = Sized(b) /\ e.size = b.size + Len(p)
  BY <1>3, <1>4 DEF Same
<1>. QED
  BY <1>1, <1>4, <1>6, <1>7, <1>8, <1>9 DEF Behind, c, e, m

\* ... or the last one, that may be full already.
LEMMA FillLast ==
  ASSUME NEW b, NEW n, NEW s, Ready(b, n, s), b.windex = n - 1,
         NEW p \in Seq(Byte), Len(s) + Len(p) <= Start(n, Width(b))
  PROVE  LET e == Extended(b, p)
         IN  /\ Created(b) = b
             /\ Wavail(b) - Avail(b, b.windex) = Start(n, Width(b)) - Len(s)
             /\ Behind(b, n, s, e, n, p) /\ e.windex = n - 1
<1>. DEFINE e == Extended(b, p)
            W == Width(b)
<1>1. /\ b \in Buffers /\ Cut(b.frags, n, W, s) /\ Plain(b, n) /\ n \in Nat
      /\ b.frags \in [0 .. n - 1 -> Fragment] /\ W \in Nat /\ Len(s) \in Nat
      /\ DOMAIN b.frags = 0 .. n - 1 /\ Cardinality(DOMAIN b.frags) = n
  <2>1. b \in Buffers /\ Cut(b.frags, n, W, s) /\ Plain(b, n)
    BY DEF Ready
  <2>. QED
    BY <2>1, CutFacts
<1>2. n > 0 /\ n # 0 /\ n - 1 \in 0 .. n - 1
  <2>1. b.windex \in Nat
    BY <1>1 DEF Buffers
  <2>. QED
    BY <1>1, <2>1
<1>3. b.MTU # 0 /\ b.MTU = Sized(b) /\ Wavail(b) = W
  BY <1>2 DEF Ready, Sized, Wavail, Width
<1>4. Created(b) = b
  BY <1>1, <1>2 DEF Created
<1>5. Avail(b, n - 1) = Len(s) - Start(n - 1, W) /\ Len(b.frags[n - 1].payload) = b.frags[n - 1].len
  BY <1>1, <1>2 DEF Cut, Avail, PieceLen
<1>6. Wavail(b) - Avail(b, b.windex) = Start(n, W) - Len(s)
  <2>1. Start(n - 1, W) + W = Start(n, W) /\ Start(n - 1, W) \in Nat
    BY <1>1, <1>2, StartBack
  <2>. QED
    BY <1>1, <1>3, <1>5, <2>1
<1>7. /\ e \in Buffers /\ Same(b, e) /\ e.MTU = b.MTU /\ e.windex = n - 1
      /\ e.size = b.size + Len(p)
      /\ e.frags \in [0 .. n - 1 -> Fragment]
      /\ \A i \in 0 .. n - 1 : e.frags[i].head = b.frags[i].head
      /\ \A i \in 0 .. n - 1 : e.frags[i].fid = b.frags[i].fid
      /\ \A i \in 0 .. n - 1 : i # n - 1 => e.frags[i] = b.frags[i]
      /\ e.frags[n - 1].payload = b.frags[n - 1].payload \o p
      /\ e.frags[n - 1].len = b.frags[n - 1].len + Len(p)
  <2>1. b \in Buffers /\ n \in Nat /\ b.frags \in [0 .. n - 1 -> Fragment]
        /\ n - 1 \in 0 .. n - 1 /\ b.windex = n - 1
    BY <1>1, <1>2
  <2>2. Lengthened(b, n, n - 1, p, Extended(b, p))
    BY <2>1, ExtendedFacts
  <2>. QED
    BY <2>2 DEF Lengthened
<1>. HIDE DEF e, W
<1>8. Cut(e.frags, n, W, s \o p)
  <2>1. Len(s) + Len(p) <= Start(n, W)
    BY DEF W
  <2>2. e.frags[n - 1].len = Len(b.frags[n - 1].payload) + Len(p)
    BY <1>5, <1>7
  <2>. QED
    <3>. DEFINE f == b.frags
                g == e.frags
    <3>1. Cut(f, n, W, s) /\ n > 0 /\ g \in [0 .. n - 1 -> Fragment]
      BY <1>1, <1>2, <1>7
    <3>2. /\ \A i \in 0 .. n - 1 : i # n - 1 => g[i] = f[i]
          /\ g[n - 1].payload = f[n - 1].payload \o p
      BY <1>7
    <3>3. g[n - 1].len = Len(f[n - 1].payload) + Len(p)
      BY <2>2
    <3>4. Cut(g, n, W, s \o p)
      <4>. HIDE DEF f, g
      <4>. QED
        BY <2>1, <3>1, <3>2, <3>3, CutLonger
    <3>. QED
      BY <3>4
<1>9. Plain(e, n)
  <2>1. Local(e.frags, n)
    BY <1>1, <1>7, LocalSame DEF Plain
  <2>. QED
    BY <1>1, <1>7, <2>1 DEF Plain, Same
<1>. QED
  BY <1>1, <1>2, <1>3, <1>4, <1>6, <1>7, <1>8, <1>9 DEF Behind, e, W

\* The write position may move on, the bytes stay.
LEMMA MoveOn ==
  ASSUME NEW b, NEW n, NEW s, NEW e, NEW k, NEW p, Behind(b, n, s, e, k, p)
  PROVE  LET g == [e EXCEPT !.windex = @ + 1]
         IN  Behind(b, n, s, g, k, p) /\ g.windex = e.windex + 1
<1>. DEFINE g == [e EXCEPT !.windex = @ + 1]
<1>1. e \in Buffers
  BY DEF Behind
<1>2. e.windex + 1 \in Nat
  BY <1>1 DEF Buffers
<1>3. /\ g \in Buffers /\ g.windex = e.windex + 1 /\ g.frags = e.frags /\ g.schema = e.schema
      /\ g.heads = e.heads /\ g.headSize = e.headSize /\ g.lenChecksum = e.lenChecksum
      /\ g.index = e.index /\ g.pos = e.pos /\ g.MTU = e.MTU /\ g.size = e.size
  BY <1>1, <1>2 DEF Buffers
<1>. HIDE DEF g
<1>4. Plain(g, k)
  BY <1>3 DEF Behind, Plain
<1>5. Same(b, g)
  BY <1>3 DEF Behind, Same
<1>6. Behind(b, n, s, g, k, p)
  BY <1>3, <1>4, <1>5 DEF Behind
<1>. QED
  BY <1>3, <1>6 DEF g

\* r is what one round makes of b and rest.
Advanced(b, n, s, rest, r, m, k) ==
  /\ r.rest = SubSeq(rest, m + 1, Len(rest))
  /\ Behind(b, n, s, r.buf, k, SubSeq(rest, 1, m))
  /\ m = Len(rest) => r.buf.windex = k - 1
  /\ m # Len(rest) => /\ r.buf.windex = k /\ Len(s) + m = Start(k, Width(b))
                      /\ b.windex = n => m > 0

\* A round of Append writes a first part of rest and leaves the others.
LEMMA RoundFills ==
  ASSUME NEW b, NEW n, NEW s, Ready(b, n, s), NEW rest \in Seq(Byte), rest # <<>>
  PROVE  \E m \in 0 .. Len(rest) : \E k \in Nat :
           Advanced(b, n, s, rest, FillOne([buf |-> b, rest |-> rest]), m, k)
<1>. DEFINE W == Width(b)
            c == Created(b)
            fill == Wavail(c) - Avail(c, c.windex)
            l == Len(rest)
            r == FillOne([buf |-> b, rest |-> rest])
<1>1. /\ Cut(b.frags, n, W, s) /\ n \in Nat /\ W \in Nat /\ W > 0 /\ Len(s) \in Nat
      /\ l \in Nat /\ l > 0 /\ Len(s) <= Start(n, W) /\ Start(n, W) \in Nat
      /\ Start(n + 1, W) = Start(n, W) + W
  <2>1. Cut(b.frags, n, W, s)
    BY DEF Ready
  <2>2. n \in Nat /\ W \in Nat /\ W > 0 /\ Len(s) \in Nat /\ s \in Seq(Byte)
    BY <2>1, CutFacts
  <2>3. Start(n, W) \in Nat /\ Start(n + 1, W) = Start(n, W) + W
    BY <2>2, StartFacts
  <2>4. Len(s) <= Start(n, W)
    BY <2>1, <2>2, <2>3 DEF Cut
  <2>5. l \in Nat /\ l > 0
    BY EmptySeq
  <2>. QED
    BY <2>1, <2>2, <2>3, <2>4, <2>5
<1>2. r = IF l <= fill
          THEN [buf |-> Extended(c, rest), rest |-> <<>>]
          ELSE [buf |-> [Extended(c, SubSeq(rest, 1, fill)) EXCEPT !.windex = @ + 1],
                rest |-> SubSeq(rest, fill + 1, l)]
  BY DEF FillOne
<1>3. b.windex = n \/ b.windex = n - 1
  BY DEF Ready
<1>4. /\ b.windex = n => fill = W
      /\ b.windex = n - 1 => fill = Start(n, W) - Len(s) /\ c = b
  <2>1. CASE b.windex = n
    <3>1. PICK q \in Seq(Byte) : Len(q) = 1
      <4>1. <<Stm!SizeByte(0, 0)>> \in Seq(Byte) /\ Len(<<Stm!SizeByte(0, 0)>>) = 1
        BY ByteSeqs
      <4>. QED
        BY <4>1
    <3>2. Len(q) > 0 /\ Len(q) <= W
      BY <1>1, <3>1
    <3>3. fill = W
      BY <2>1, <3>2, FillNew, Zenon DEF W, c, fill
    <3>4. b.windex # n - 1
      BY <1>1, <2>1
    <3>. QED
      BY <3>3, <3>4
  <2>2. CASE b.windex = n - 1
    <3>1. <<>> \in Seq(Byte) /\ Len(<<>>) = 0
      BY EmptySeq
    <3>2. Len(s) + Len(<<>>) <= Start(n, W)
      BY <1>1, <3>1
    <3>3. c = b /\ Wavail(b) - Avail(b, b.windex) = Start(n, W) - Len(s)
      BY <2>2, <3>1, <3>2, FillLast, Zenon DEF W, c
    <3>4. b.windex # n
      BY <1>1, <2>2
    <3>. QED
      BY <3>3, <3>4 DEF fill
  <2>. QED
    BY <1>3, <2>1, <2>2
<1>5. fill \in Nat
  BY <1>1, <1>3, <1>4
<1>. HIDE DEF fill, r, c
<1>6. CASE l <= fill
  <2>1. r = [buf |-> Extended(c, rest), rest |-> <<>>]
    BY <1>2, <1>6
  <2>2. l \in 0 .. l /\ SubSeq(rest, 1, l) = rest /\ SubSeq(rest, l + 1, l) = <<>>
    <3>1. l \in 0 .. Len(rest)
      BY <1>1
    <3>. QED
      BY <3>1, Parts
  <2>3. ASSUME NEW k \in Nat, Behind(b, n, s, r.buf, k, rest), r.buf.windex = k - 1
        PROVE  Advanced(b, n, s, rest, r, l, k)
    BY <2>1, <2>2, <2>3 DEF Advanced
  <2>4. CASE b.windex = n
    <3>1. Behind(b, n, s, r.buf, n + 1, rest) /\ r.buf.windex = n
      BY <1>1, <1>4, <1>6, <2>1, <2>4, FillNew DEF c
    <3>2. n + 1 \in Nat /\ (n + 1) - 1 = n
      BY <1>1
    <3>3. Advanced(b, n, s, rest, r, l, n + 1)
      BY <2>3, <3>1, <3>2
    <3>. QED
      BY <2>2, <3>2, <3>3 DEF r
  <2>5. CASE b.windex = n - 1
    <3>1. Len(s) + Len(rest) <= Start(n, W)
      BY <1>1, <1>4, <1>6, <2>5
    <3>2. Behind(b, n, s, r.buf, n, rest) /\ r.buf.windex = n - 1
      BY <1>4, <2>1, <2>5, <3>1, FillLast
    <3>3. Advanced(b, n, s, rest, r, l, n)
      BY <1>1, <2>3, <3>2
    <3>. QED
      BY <1>1, <2>2, <3>3 DEF r
  <2>. QED
    BY <1>3, <2>4, <2>5
<1>7. CASE ~ (l <= fill)
  <2>. DEFINE p == SubSeq(rest, 1, fill)
              e == Extended(c, p)
              g == [e EXCEPT !.windex = @ + 1]
  <2>1. r = [buf |-> g, rest |-> SubSeq(rest, fill + 1, l)]
    BY <1>2, <1>7
  <2>2. fill \in 0 .. Len(rest) /\ p \in Seq(Byte) /\ Len(p) = fill /\ fill # l
    <3>1. fill \in 0 .. Len(rest) /\ fill # l
      BY <1>1, <1>5, <1>7
    <3>. QED
      BY <3>1, Parts
  <2>. HIDE DEF p, e
  <2>3. ASSUME NEW k \in Nat, Behind(b, n, s, e, k, p), e.windex = k - 1,
               Len(s) + fill = Start(k, W), b.windex = n => fill > 0
        PROVE  Advanced(b, n, s, rest, r, fill, k)
    <3>1. Behind(b, n, s, g, k, p) /\ g.windex = k
      BY <2>3, MoveOn
    <3>. QED
      BY <2>1, <2>2, <2>3, <3>1 DEF Advanced, p
  <2>4. CASE b.windex = n
    <3>1. Len(p) > 0 /\ Len(p) <= W
      BY <1>1, <1>4, <2>2, <2>4
    <3>2. Behind(b, n, s, e, n + 1, p) /\ e.windex = n
      BY <2>2, <2>4, <3>1, FillNew DEF c, e
    <3>3. /\ n + 1 \in Nat /\ (n + 1) - 1 = n /\ fill > 0
          /\ Len(s) + fill = Start(n + 1, W)
      <4>1. Len(s) = Start(n, W)
        <5>1. n # n - 1
          BY <1>1
        <5>. QED
          BY <2>4, <5>1 DEF Ready
      <4>. QED
        BY <1>1, <1>4, <2>4, <4>1
    <3>4. Advanced(b, n, s, rest, r, fill, n + 1)
      BY <2>3, <3>2, <3>3
    <3>. QED
      BY <2>2, <3>3, <3>4 DEF r
  <2>5. CASE b.windex = n - 1
    <3>1. Len(s) + Len(p) <= Start(n, W) /\ Len(s) + fill = Start(n, W)
      BY <1>1, <1>4, <2>2, <2>5
    <3>2. Behind(b, n, s, e, n, p) /\ e.windex = n - 1
      BY <1>4, <2>2, <2>5, <3>1, FillLast DEF e
    <3>3. b.windex # n
      BY <1>1, <2>5
    <3>4. Advanced(b, n, s, rest, r, fill, n)
      BY <1>1, <2>3, <3>1, <3>2, <3>3
    <3>. QED
      BY <1>1, <2>2, <3>4 DEF r
  <2>. QED
    BY <1>3, <2>4, <2>5
<1>. QED
  BY <1>6, <1>7

\* Joining is associative.
LEMMA Associative ==
  ASSUME NEW p \in Seq(Byte), NEW q \in Seq(Byte), NEW r \in Seq(Byte)
  PROVE  (p \o q) \o r = p \o (q \o r)
BY ConcatAssociative

\* A part of the rest makes the first part longer.
LEMMA PartsOfRest ==
  ASSUME NEW s \in Seq(Byte), NEW m \in 0 .. Len(s), NEW q \in 0 .. Len(s) - m
  PROVE  LET r == SubSeq(s, m + 1, Len(s))
         IN  /\ m + q \in 0 .. Len(s)
             /\ SubSeq(s, 1, m) \o SubSeq(r, 1, q) = SubSeq(s, 1, m + q)
             /\ SubSeq(r, q + 1, Len(r)) = SubSeq(s, m + q + 1, Len(s))
<1>. DEFINE r == SubSeq(s, m + 1, Len(s))
            p == SubSeq(s, 1, m)
            x == SubSeq(r, 1, q)
            y == SubSeq(r, q + 1, Len(r))
            e == m + q
            u == SubSeq(s, 1, e)
            v == SubSeq(s, e + 1, Len(s))
<1>1. /\ p \in Seq(Byte) /\ Len(p) = m /\ \A i \in 1 .. m : p[i] = s[i]
      /\ r \in Seq(Byte) /\ Len(r) = Len(s) - m
      /\ \A i \in 1 .. Len(s) - m : r[i] = s[m + i]
  BY Parts
<1>2. e \in 0 .. Len(s) /\ Len(s) \in Nat /\ q \in 0 .. Len(r) /\ m \in Nat /\ q \in Nat /\ e = m + q
  BY <1>1
<1>. HIDE DEF r, p
<1>3. /\ x \in Seq(Byte) /\ Len(x) = q /\ \A i \in 1 .. q : x[i] = r[i]
      /\ y \in Seq(Byte) /\ Len(y) = Len(r) - q
      /\ \A i \in 1 .. Len(r) - q : y[i] = r[q + i]
  BY <1>1, <1>2, Parts
<1>. HIDE DEF e
<1>4. /\ u \in Seq(Byte) /\ Len(u) = e /\ \A i \in 1 .. e : u[i] = s[i]
      /\ v \in Seq(Byte) /\ Len(v) = Len(s) - e
      /\ \A i \in 1 .. Len(s) - e : v[i] = s[e + i]
  BY <1>2, Parts
<1>. HIDE DEF x, y, u, v
<1>5. p \o x = u
  <2>1. /\ p \o x \in Seq(Byte) /\ Len(p \o x) = m + q
        /\ \A i \in 1 .. m + q : (p \o x)[i] = IF i <= m THEN p[i] ELSE x[i - m]
    <3>1. p \in Seq(Byte) /\ Len(p) = m /\ x \in Seq(Byte) /\ Len(x) = q
      BY <1>1, <1>3
    <3>. QED
      BY <3>1, Joined, SMTT(30)
  <2>2. ASSUME NEW i \in 1 .. m + q PROVE (p \o x)[i] = s[i]
    <3>1. CASE i <= m
      BY <1>1, <1>2, <2>1, <3>1
    <3>2. CASE ~ (i <= m)
      <4>1. i - m \in 1 .. q /\ m + (i - m) = i /\ i - m \in 1 .. Len(s) - m
        BY <1>2, <3>2
      <4>2. x[i - m] = r[i - m] /\ r[i - m] = s[m + (i - m)]
        BY <1>1, <1>3, <4>1
      <4>. QED
        BY <2>1, <3>2, <4>1, <4>2
    <3>. QED
      BY <3>1, <3>2
  <2>3. Len(p \o x) = Len(u) /\ \A i \in 1 .. Len(p \o x) : (p \o x)[i] = u[i]
    BY <1>2, <1>4, <2>1, <2>2
  <2>. QED
    BY <1>4, <2>1, <2>3, SeqEqual
<1>6. y = v
  <2>1. Len(y) = Len(v) /\ Len(v) = Len(s) - e
    BY <1>1, <1>2, <1>3, <1>4
  <2>2. ASSUME NEW i \in 1 .. Len(y) PROVE y[i] = v[i]
    <3>1. /\ i \in 1 .. Len(r) - q /\ q + i \in 1 .. Len(s) - m /\ m + (q + i) = e + i
          /\ i \in 1 .. Len(s) - e
      BY <1>1, <1>2, <1>3, <2>1
    <3>2. y[i] = r[q + i] /\ r[q + i] = s[m + (q + i)] /\ v[i] = s[e + i]
      BY <1>1, <1>3, <1>4, <3>1
    <3>. QED
      BY <3>1, <3>2
  <2>. QED
    BY <1>3, <1>4, <2>1, <2>2, SeqEqual
<1>. QED
  BY <1>2, <1>5, <1>6 DEF r, p, x, y, e, u, v

\* Where a round has ended, Append can go on.
LEMMA BehindReady ==
  ASSUME NEW b \in Buffers, NEW n, NEW s, NEW c, NEW k, NEW p, Behind(b, n, s, c, k, p),
         \/ c.windex = k - 1
         \/ c.windex = k /\ Len(s \o p) = Start(k, Width(b))
  PROVE  /\ Ready(c, k, s \o p) /\ Width(c) = Width(b) /\ Wavail(c) = Width(b)
         /\ c.MTU # 0 /\ Sized(c) = Sized(b)
<1>1. c \in Buffers /\ Same(b, c) /\ c.MTU = Sized(b)
  BY DEF Behind
<1>2. Width(c) = Width(b) /\ Wavail(c) = Width(b) /\ c.MTU # 0 /\ Sized(c) = Sized(b)
  BY <1>1, SizedFacts
<1>. QED
  BY <1>1, <1>2 DEF Behind, Ready

\* Two rounds are like one that writes both their parts.
LEMMA AdvancedTwice ==
  ASSUME NEW b, NEW n, NEW s, NEW bs \in Seq(Byte), NEW a, NEW m \in 0 .. Len(bs), NEW k \in Nat,
         Ready(b, n, s), Advanced(b, n, s, bs, a, m, k), m # Len(bs),
         NEW r, NEW q \in 0 .. Len(a.rest), NEW l \in Nat,
         Advanced(a.buf, k, s \o SubSeq(bs, 1, m), a.rest, r, q, l)
  PROVE  m + q \in 0 .. Len(bs) /\ Advanced(b, n, s, bs, r, m + q, l)
<1>. DEFINE p == SubSeq(bs, 1, m)
            x == SubSeq(a.rest, 1, q)
            e == m + q
<1>1. /\ p \in Seq(Byte) /\ Len(p) = m /\ a.rest = SubSeq(bs, m + 1, Len(bs))
      /\ a.rest \in Seq(Byte) /\ Len(a.rest) = Len(bs) - m
  BY Parts DEF Advanced
<1>2. /\ b \in Buffers /\ s \in Seq(Byte) /\ n \in Nat /\ Len(s) \in Nat /\ Len(bs) \in Nat
      /\ m \in Nat /\ q \in Nat
  BY CutFacts DEF Ready
<1>3. /\ e \in 0 .. Len(bs) /\ p \o x = SubSeq(bs, 1, e)
      /\ SubSeq(a.rest, q + 1, Len(a.rest)) = SubSeq(bs, e + 1, Len(bs))
  BY <1>1, PartsOfRest
<1>4. x \in Seq(Byte) /\ Len(x) = q
  BY <1>1, Parts
<1>. HIDE DEF p, x
<1>5. (s \o p) \o x = s \o (p \o x) /\ Len(s \o p) = Len(s) + m
  <2>0. s \in Seq(Byte) /\ p \in Seq(Byte) /\ x \in Seq(Byte) /\ Len(p) = m
    BY <1>1, <1>2, <1>4
  <2>1. (s \o p) \o x = s \o (p \o x)
    BY <2>0, Associative, Zenon
  <2>2. Len(s \o p) = Len(s) + m
    BY <2>0, ConcatProperties
  <2>. QED
    BY <2>1, <2>2
<1>6. /\ Behind(b, n, s, a.buf, k, p) /\ a.buf.windex = k
      /\ Len(s) + m = Start(k, Width(b))
  BY DEF Advanced, p
<1>7. Width(a.buf) = Width(b) /\ Sized(a.buf) = Sized(b)
  BY <1>2, <1>5, <1>6, BehindReady
<1>8. Behind(a.buf, k, s \o p, r.buf, l, x)
  BY DEF Advanced, p, x
<1>9. Behind(b, n, s, r.buf, l, p \o x)
  <2>1. /\ r.buf \in Buffers /\ l \in Nat /\ l > 0 /\ n <= l
        /\ Plain(r.buf, l) /\ Same(b, r.buf) /\ r.buf.MTU = Sized(b)
    BY <1>2, <1>6, <1>7, <1>8 DEF Behind, Same
  <2>2. Cut(r.buf.frags, l, Width(b), s \o (p \o x))
    BY <1>5, <1>7, <1>8 DEF Behind
  <2>3. r.buf.size = b.size + Len(p \o x)
    <3>1. r.buf.size = (b.size + m) + q /\ b.size \in Int
      BY <1>1, <1>2, <1>4, <1>6, <1>8 DEF Behind, Buffers
    <3>2. Len(p \o x) = m + q
      BY <1>1, <1>4, ConcatProperties
    <3>. QED
      BY <1>2, <3>1, <3>2
  <2>. QED
    BY <2>1, <2>2, <2>3 DEF Behind
<1>10. ASSUME e = Len(bs) PROVE r.buf.windex = l - 1
  <2>1. q = Len(a.rest)
    BY <1>1, <1>2, <1>10
  <2>. QED
    BY <2>1 DEF Advanced
<1>11. ASSUME e # Len(bs)
       PROVE  r.buf.windex = l /\ Len(s) + e = Start(l, Width(b)) /\ e > 0
  <2>1. q # Len(a.rest)
    BY <1>1, <1>2, <1>11
  <2>2. r.buf.windex = l /\ Len(s \o p) + q = Start(l, Width(a.buf)) /\ q > 0
    BY <1>6, <2>1 DEF Advanced, p
  <2>3. Len(s) + e = Start(l, Width(b))
    BY <1>2, <1>5, <1>7, <2>2
  <2>. QED
    BY <1>2, <2>2, <2>3
<1>12. r.rest = SubSeq(bs, e + 1, Len(bs))
  BY <1>3 DEF Advanced
<1>13. Behind(b, n, s, r.buf, l, SubSeq(bs, 1, e))
  BY <1>3, <1>9
<1>. HIDE DEF e
<1>14. Advanced(b, n, s, bs, r, e, l)
  BY <1>10, <1>11, <1>12, <1>13 DEF Advanced
<1>. QED
  BY <1>3, <1>14 DEF e

\* What a round of Append has.
Writing == [buf : Buffers, rest : Seq(Byte)]

\* A round of the loop while bytes are left.
LEMMA RoundIs ==
  ASSUME NEW a \in Writing, a.rest # <<>>, NEW n, NEW s, Ready(a.buf, n, s), NEW round
  PROVE  /\ FillRound(a, round) \in Writing
         /\ \E m \in 0 .. Len(a.rest) : \E k \in Nat :
              Advanced(a.buf, n, s, a.rest, FillRound(a, round), m, k)
<1>. DEFINE r == FillRound(a, round)
<1>1. r = FillOne(a)
  BY DEF FillRound
<1>2. a = [buf |-> a.buf, rest |-> a.rest] /\ a.rest \in Seq(Byte)
  BY DEF Writing
<1>. HIDE DEF r
<1>3. PICK m \in 0 .. Len(a.rest) : \E k \in Nat : Advanced(a.buf, n, s, a.rest, r, m, k)
  BY <1>1, <1>2, RoundFills
<1>4. r.buf \in Buffers /\ r.rest = SubSeq(a.rest, m + 1, Len(a.rest))
  BY <1>3 DEF Advanced, Behind
<1>5. r.rest \in Seq(Byte)
  BY <1>2, <1>3, <1>4, Parts
<1>6. r = [buf |-> r.buf, rest |-> r.rest]
  BY <1>1 DEF FillOne
<1>7. r \in Writing
  BY <1>4, <1>5, <1>6 DEF Writing
<1>. QED
  BY <1>3, <1>7 DEF r

\* Append: bs behind s, and the write position at the last fragment.
LEMMA AppendedIs ==
  ASSUME NEW b, NEW n, NEW s, Ready(b, n, s), NEW bs \in Seq(Byte), bs # <<>>
  PROVE  \E k \in Nat : /\ Behind(b, n, s, Appended(b, bs), k, bs)
                        /\ Appended(b, bs).windex = k - 1
<1>. DEFINE L == Len(bs)
            last2 == L + 1
            rounds == [round \in 1 .. last2 |-> round]
            base == [buf |-> b, rest |-> bs]
            Done(a, i) == \E m \in 0 .. L : \E k \in Nat :
                             Advanced(b, n, s, bs, a, m, k) /\ (m # L => m >= i - 1)
            V == [i \in 0 .. last2 |->
                    {a \in Writing : IF i = 0 THEN a = base ELSE Done(a, i)}]
<1>1. L \in Nat /\ L > 0 /\ b \in Buffers /\ s \in Seq(Byte) /\ last2 \in Nat
  <2>1. L \in Nat /\ L > 0
    BY EmptySeq
  <2>2. b \in Buffers /\ Cut(b.frags, n, Width(b), s)
    BY DEF Ready
  <2>. QED
    BY <2>1, <2>2, CutFacts
<1>2. base \in V[0]
  BY <1>1 DEF Writing
<1>3. ASSUME NEW i \in 0 .. last2 - 1, NEW a \in V[i]
      PROVE  FillRound(a, rounds[i + 1]) \in V[i + 1]
  <2>. DEFINE r == FillRound(a, rounds[i + 1])
  <2>1. a \in Writing /\ i \in Nat /\ i + 1 \in 0 .. last2 /\ i + 1 # 0
    BY <1>1
  <2>. HIDE DEF rounds, r
  <2>2. SUFFICES r \in Writing /\ Done(r, i + 1)
    BY <2>1 DEF r
  <2>. HIDE DEF V
  <2>3. CASE i = 0
    <3>1. a = base
      BY <1>1, <2>3 DEF V
    <3>2. a.rest # <<>> /\ a.buf = b /\ a.rest = bs
      BY <3>1
    <3>3. /\ r \in Writing
          /\ \E m \in 0 .. L : \E k \in Nat : Advanced(b, n, s, bs, r, m, k)
      BY <2>1, <3>2, RoundIs DEF r
    <3>4. \A m \in 0 .. L : m >= (i + 1) - 1
      BY <2>3
    <3>. QED
      BY <3>3, <3>4
  <2>4. CASE i # 0
    <3>1. PICK m \in 0 .. L, k \in Nat : Advanced(b, n, s, bs, a, m, k) /\ (m # L => m >= i - 1)
      BY <1>1, <2>1, <2>4 DEF V
    <3>2. /\ a.rest = SubSeq(bs, m + 1, L) /\ a.rest \in Seq(Byte) /\ Len(a.rest) = L - m
          /\ m = L => a.rest = <<>>
      BY <3>1, Parts DEF Advanced
    <3>3. CASE m = L
      <4>1. r = a
        BY <3>2, <3>3 DEF r, FillRound
      <4>. QED
        BY <2>1, <3>1, <3>3, <4>1
    <3>4. CASE m # L
      <4>. DEFINE p == SubSeq(bs, 1, m)
                  t == s \o p
      <4>1. a.rest # <<>>
        <5>1. Len(a.rest) # 0
          BY <1>1, <3>1, <3>2, <3>4
        <5>. QED
          BY <5>1
      <4>2. /\ Behind(b, n, s, a.buf, k, p) /\ a.buf.windex = k
            /\ Len(s) + m = Start(k, Width(b))
        BY <3>1, <3>4 DEF Advanced
      <4>3. p \in Seq(Byte) /\ Len(p) = m
        BY <3>1, Parts
      <4>. HIDE DEF p
      <4>4. Len(s \o p) = Len(s) + m
        BY <1>1, <4>3, ConcatProperties
      <4>5. Ready(a.buf, k, t)
        BY <1>1, <4>2, <4>4, BehindReady
      <4>. HIDE DEF t
      <4>6. r \in Writing
        BY <2>1, <4>1, <4>5, RoundIs DEF r
      <4>7. PICK q \in 0 .. Len(a.rest), l \in Nat : Advanced(a.buf, k, t, a.rest, r, q, l)
        BY <2>1, <4>1, <4>5, RoundIs DEF r
      <4>8. m + q \in 0 .. L /\ Advanced(b, n, s, bs, r, m + q, l)
        BY <3>1, <3>4, <4>7, AdvancedTwice DEF t, p
      <4>9. m + q # L => m + q >= (i + 1) - 1
        <5>. SUFFICES ASSUME m + q # L PROVE m + q >= (i + 1) - 1
          OBVIOUS
        <5>1. q # Len(a.rest)
          BY <1>1, <3>1, <3>2, SMTT(30)
        <5>2. q > 0
          BY <4>2, <4>7, <5>1 DEF Advanced
        <5>. QED
          BY <1>1, <2>1, <3>1, <3>4, <4>7, <5>2
      <4>. QED
        BY <4>6, <4>8, <4>9
    <3>. QED
      BY <3>3, <3>4
  <2>. QED
    BY <2>3, <2>4
<1>4. Fills!Fold(base, rounds) \in V[last2]
  <2>1. DOMAIN rounds = 1 .. last2
    OBVIOUS
  <2>. HIDE DEF V, rounds, base, last2
  <2>. QED
    BY <1>1, <1>2, <1>3, <2>1, Fills!FoldInduction
<1>5. Appended(b, bs) = Fills!Fold(base, rounds).buf
  BY Zenon DEF Appended, base, rounds, last2, FoldLeft, MapThenFoldSet, Max,
               Fills!Fold, Fills!FoldLeft, Fills!MapThenFoldSet, Fills!Max
<1>. DEFINE r == Fills!Fold(base, rounds)
<1>. HIDE DEF r, rounds, base
<1>6. PICK m \in 0 .. L, k \in Nat : Advanced(b, n, s, bs, r, m, k) /\ (m # L => m >= last2 - 1)
  <2>1. last2 # 0 /\ last2 \in 0 .. last2
    BY <1>1
  <2>. QED
    BY <1>4, <2>1 DEF r
<1>7. m = L
  BY <1>1, <1>6
<1>8. SubSeq(bs, 1, L) = bs
  <2>1. L \in 0 .. Len(bs)
    BY <1>1
  <2>. QED
    BY <2>1, Parts
<1>9. Behind(b, n, s, r.buf, k, bs) /\ r.buf.windex = k - 1
  BY <1>6, <1>7, <1>8 DEF Advanced
<1>. QED
  BY <1>5, <1>6, <1>9 DEF r

-----------------------------------------------------------------------------
(* A Buffer between two calls. *)

\* The bytes all fragments but the last have.
Unit(b) == IF b.MTU # 0 THEN Width(b) ELSE IF N(b) = 0 THEN 1 ELSE Avail(b, 0)

\* b has s in n fragments, and is to write behind it.
Shape(b, n, s) ==
  /\ b \in Buffers /\ Cut(b.frags, n, Unit(b), s)
  /\ b.lenChecksum <= ChecksumLen
  /\ b.MTU # 0 /\ n > 0 => b.windex = n - 1
  /\ b.MTU = 0 => b.windex = 0

\* The place of the next byte to read.
Reading(b, n, s) ==
  /\ b.size \in 0 .. Len(s)
  /\ Len(s) - b.size = Start(b.index, Unit(b)) + b.pos
  /\ n = 0 => b.index = 0 /\ b.pos = 0
  /\ n > 0 => b.index < n /\ b.pos <= Avail(b, b.index)

\* What a Buffer's shape says of it.
LEMMA ShapeFacts ==
  ASSUME NEW b, NEW n, NEW s, Shape(b, n, s)
  PROVE  /\ b \in Buffers /\ n \in Nat /\ N(b) = n /\ DOMAIN b.frags = 0 .. n - 1
         /\ Unit(b) \in Nat /\ Unit(b) > 0 /\ s \in Seq(Byte) /\ Len(s) \in Nat
         /\ Stream(b) = s /\ (n = 0 => s = <<>>)
         /\ \A i \in 0 .. n - 1 : /\ b.frags[i] \in Fragment
                                  /\ Avail(b, i) = PieceLen(n, Unit(b), s, i)
<1>1. b \in Buffers /\ Cut(b.frags, n, Unit(b), s)
  BY DEF Shape
<1>2. Stream(b) = s
  BY <1>1, StreamIs
<1>. QED
  BY <1>1, <1>2, CutFacts DEF N, Avail

\* Append of nothing does nothing.
LEMMA AppendedNothing ==
  ASSUME NEW b
  PROVE  Appended(b, <<>>) = b
<1>. DEFINE base == [buf |-> b, rest |-> <<>>]
            rounds == [round \in 1 .. Len(<<>>) + 1 |-> round]
<1>1. Appended(b, <<>>) = Fills!Fold(base, rounds).buf
  BY Zenon DEF Appended, base, rounds, FoldLeft, MapThenFoldSet, Max,
               Fills!Fold, Fills!FoldLeft, Fills!MapThenFoldSet, Fills!Max
<1>2. DOMAIN rounds = 1 .. 1
  OBVIOUS
<1>. HIDE DEF rounds, base
<1>3. PICK st : Fills!Rounds(st, base, rounds, 1) /\ Fills!Fold(base, rounds) = st[1]
  BY <1>2, Fills!FoldRounds
<1>4. st[0] = base /\ st[1] = FillRound(st[0], rounds[1])
  <2>1. 0 \in 0 .. 1 - 1 /\ 0 + 1 = 1
    OBVIOUS
  <2>. QED
    BY <1>3, <2>1, Zenon DEF Fills!Rounds
<1>5. FillRound(base, rounds[1]) = base
  BY DEF FillRound, base
<1>. QED
  BY <1>1, <1>3, <1>4, <1>5 DEF base

\* Before finish every header is one that prepare made; and without an MTU
\* there is nothing yet.
Unsealed(b, n) == Plain(b, n) /\ (b.MTU = 0 => n = 0 /\ b.heads = 0)

\* Without fragments any width will do.
LEMMA CutEmpty ==
  ASSUME NEW f, NEW v, NEW s, Cut(f, 0, v, s), NEW w \in Nat, w > 0
  PROVE  Cut(f, 0, w, s)
BY DEF Cut

\* A Buffer that is not finished can be appended to, unless Clear has left the
\* write position behind.
LEMMA ShapeReady ==
  ASSUME NEW b, NEW n, NEW s, Shape(b, n, s), Unsealed(b, n), Writable(b)
  PROVE  Ready(b, n, s) /\ Width(b) \in Nat /\ Width(b) > 0 /\ (b.MTU # 0 => Unit(b) = Width(b))
<1>1. /\ b \in Buffers /\ n \in Nat /\ N(b) = n /\ DOMAIN b.frags = 0 .. n - 1 /\ Len(s) \in Nat
      /\ s \in Seq(Byte) /\ (n = 0 => s = <<>>) /\ Unit(b) \in Nat /\ Unit(b) > 0
  BY ShapeFacts
<1>2. b.MTU # 0 => Unit(b) = Width(b)
  BY DEF Unit
<1>3. CASE b.MTU # 0
  <2>1. Cut(b.frags, n, Width(b), s)
    BY <1>2, <1>3 DEF Shape
  <2>2. ASSUME n > 0 PROVE b.windex = n - 1
    BY <1>3, <2>2 DEF Shape
  <2>3. ASSUME n = 0 PROVE b.windex = n /\ Len(s) = Start(n, Width(b))
    <3>1. b.windex = 0
      BY <1>1, <2>3 DEF Writable, N
    <3>2. Len(s) = 0 /\ Start(0, Width(b)) = 0
      BY <1>1, <1>2, <1>3, <2>3, StartFacts
    <3>. QED
      BY <2>3, <3>1, <3>2
  <2>4. Ready(b, n, s)
    BY <1>1, <1>3, <2>1, <2>2, <2>3 DEF Ready, Unsealed
  <2>. QED
    BY <1>1, <1>2, <1>3, <2>4
<1>4. CASE b.MTU = 0
  <2>1. n = 0 /\ b.heads = 0 /\ b.windex = 0 /\ b.lenChecksum <= ChecksumLen
    BY <1>4 DEF Unsealed, Shape
  <2>2. Width(b) \in Nat /\ Width(b) > 0
    <3>1. b.lenChecksum \in Nat /\ Width(b) = DefaultMTU - b.heads - b.lenChecksum
      BY <1>1, <1>4 DEF Width, Sized, Buffers
    <3>. QED
      BY <2>1, <3>1, FragmentAssumption
  <2>3. Cut(b.frags, n, Width(b), s)
    BY <1>1, <2>1, <2>2, CutEmpty DEF Shape
  <2>4. Len(s) = 0 /\ Start(0, Width(b)) = 0
    BY <1>1, <2>1, <2>2, StartFacts
  <2>5. Ready(b, n, s)
    BY <1>1, <1>4, <2>1, <2>3, <2>4 DEF Ready, Unsealed
  <2>. QED
    BY <1>4, <2>2, <2>5
<1>. QED
  BY <1>3, <1>4

\* A cursor stays where it is when bytes are written behind it.
LEMMA ReadingOn ==
  ASSUME NEW b, NEW n, NEW s, NEW c, NEW k, NEW p \in Seq(Byte),
         Shape(b, n, s), Reading(b, n, s), Shape(c, k, s \o p), n <= k, k > 0,
         c.index = b.index, c.pos = b.pos, c.size = b.size + Len(p),
         n = 0 \/ Unit(c) = Unit(b)
  PROVE  Reading(c, k, s \o p)
<1>1. /\ b \in Buffers /\ n \in Nat /\ Len(s) \in Nat /\ s \in Seq(Byte) /\ Unit(b) \in Nat
      /\ \A i \in 0 .. n - 1 : Avail(b, i) = PieceLen(n, Unit(b), s, i)
  BY ShapeFacts
<1>2. /\ c \in Buffers /\ k \in Nat /\ Unit(c) \in Nat
      /\ \A i \in 0 .. k - 1 : Avail(c, i) = PieceLen(k, Unit(c), s \o p, i)
  BY ShapeFacts
<1>3. b.index \in Nat /\ b.pos \in Nat
  BY <1>1 DEF Buffers
<1>4. Len(s \o p) = Len(s) + Len(p) /\ Len(p) \in Nat
  BY <1>1, ConcatProperties
<1>5. b.size \in 0 .. Len(s) /\ Len(s) - b.size = Start(b.index, Unit(b)) + b.pos
  BY DEF Reading
<1>6. CASE n = 0
  <2>1. b.index = 0 /\ b.pos = 0 /\ Start(0, Unit(b)) = 0 /\ Start(0, Unit(c)) = 0
    BY <1>1, <1>2, <1>6, StartFacts DEF Reading
  <2>2. c.index = 0 /\ c.pos = 0 /\ Avail(c, 0) \in Nat
    <3>1. Cut(c.frags, k, Unit(c), s \o p) /\ 0 \in 0 .. k - 1
      BY <1>2 DEF Shape
    <3>2. c.frags[0].payload \in Seq(Byte)
      BY <3>1, CutFacts
    <3>. QED
      BY <2>1, <3>2 DEF Avail
  <2>3. c.size \in 0 .. Len(s \o p) /\ Len(s \o p) - c.size = 0 + 0
    <3>1. Len(s) - b.size = 0 + 0 /\ b.size \in 0 .. Len(s)
      BY <1>5, <2>1
    <3>2. c.size = b.size + Len(p)
      OBVIOUS
    <3>. QED
      BY <1>1, <1>4, <3>1, <3>2
  <2>. QED
    BY <1>2, <2>1, <2>2, <2>3 DEF Reading
<1>7. CASE n # 0
  <2>1. Unit(c) = Unit(b) /\ b.index < n /\ b.pos <= Avail(b, b.index) /\ b.index \in 0 .. n - 1
    BY <1>1, <1>3, <1>7 DEF Reading
  <2>2. c.size \in 0 .. Len(s \o p) /\ Len(s \o p) - c.size = Start(b.index, Unit(b)) + b.pos
    <3>0. Start(b.index, Unit(b)) \in Nat
      BY <1>1, <1>3, StartFacts
    <3>1. Start(b.index, Unit(b)) \in Nat /\ b.size \in Nat
      BY <1>5, <3>0
    <3>. QED
      BY <1>1, <1>3, <1>4, <1>5, <3>1
  <2>3. b.index \in 0 .. k - 1 /\ b.index < k
    BY <1>1, <1>2, <2>1
  <2>4. Avail(c, b.index) >= Avail(b, b.index)
    <3>. DEFINE w == Unit(b)
                a == Start(b.index, w)
    <3>1. a \in Nat /\ w \in Nat
      BY <1>1, <1>3, StartFacts
    <3>. HIDE DEF a, w
    <3>2. Avail(b, b.index) = IF b.index = n - 1 THEN Len(s) - a ELSE w
      BY <1>1, <2>1 DEF PieceLen, a, w
    <3>3. Avail(c, b.index) = IF b.index = k - 1 THEN (Len(s) + Len(p)) - a ELSE w
      <4>1. Avail(c, b.index) = PieceLen(k, w, s \o p, b.index)
        BY <1>2, <2>1, <2>3 DEF w
      <4>2. Avail(c, b.index) = IF b.index = k - 1 THEN Len(s \o p) - a ELSE w
        BY <4>1, Zenon DEF PieceLen, a
      <4>. QED
        BY <1>4, <4>2, Zenon
    <3>4. PieceLen(n, w, s, b.index) \in 1 .. w
      <4>1. Cut(b.frags, n, w, s)
        BY DEF Shape, w
      <4>. QED
        BY <2>1, <4>1, CutFacts
    <3>5. Avail(b, b.index) <= w
      BY <1>1, <2>1, <3>1, <3>4 DEF w
    <3>6. b.index = k - 1 => b.index = n - 1
      BY <1>1, <1>2, <1>3, <2>1
    <3>. QED
      BY <1>1, <1>4, <3>1, <3>2, <3>3, <3>5, <3>6
  <2>5. Avail(b, b.index) \in Nat /\ Avail(c, b.index) \in Nat
    <3>1. Cut(b.frags, n, Unit(b), s) /\ Cut(c.frags, k, Unit(c), s \o p)
      BY DEF Shape
    <3>. DEFINE t == s \o p
    <3>. HIDE DEF t
    <3>2. Cut(c.frags, k, Unit(c), t)
      BY <3>1 DEF t
    <3>3. b.frags[b.index].payload \in Seq(Byte) /\ c.frags[b.index].payload \in Seq(Byte)
      BY <2>1, <2>3, <3>1, <3>2, CutFacts
    <3>. QED
      BY <3>3, LenProperties, Zenon DEF Avail
  <2>6. b.pos <= Avail(c, b.index)
    BY <1>3, <2>1, <2>4, <2>5
  <2>7. k # 0
    BY <1>2
  <2>. QED
    BY <2>1, <2>2, <2>3, <2>6, <2>7 DEF Reading
<1>. QED
  BY <1>6, <1>7

\* What Append makes of a Buffer that can be written to.
Grown(b, n, s, c, k, p) ==
  /\ Shape(c, k, s \o p) /\ Reading(c, k, s \o p) /\ Unsealed(c, k) /\ Writable(c)
  /\ Same(b, c) /\ c.MTU = Sized(b) /\ c.MTU # 0 /\ c.size = b.size + Len(p)
  /\ k > 0 /\ n <= k /\ Unit(c) = Width(b) /\ Width(c) = Width(b)

\* Append puts its bytes behind those of the Buffer, whatever the MTU, and
\* leaves the cursor.
LEMMA AppendGrows ==
  ASSUME NEW b, NEW n, NEW s, Shape(b, n, s), Reading(b, n, s), Unsealed(b, n), Writable(b),
         NEW p \in Seq(Byte), p # <<>>
  PROVE  \E k \in Nat : Grown(b, n, s, Appended(b, p), k, p)
<1>. DEFINE c == Appended(b, p)
<1>1. Ready(b, n, s) /\ (b.MTU # 0 => Unit(b) = Width(b))
  BY ShapeReady
<1>2. PICK k \in Nat : Behind(b, n, s, c, k, p) /\ c.windex = k - 1
  BY <1>1, AppendedIs
<1>. HIDE DEF c
<1>3. b \in Buffers /\ n \in Nat /\ c \in Buffers
  BY <1>2, ShapeFacts DEF Behind
<1>4. Width(c) = Width(b) /\ c.MTU # 0 /\ c.MTU = Sized(b) /\ Unit(c) = Width(b)
  <2>1. Same(b, c) /\ c.MTU = Sized(b)
    BY <1>2 DEF Behind
  <2>. QED
    BY <1>3, <2>1, SizedFacts DEF Unit
<1>5. Cut(c.frags, k, Unit(c), s \o p) /\ k > 0 /\ n <= k /\ Same(b, c) /\ c.size = b.size + Len(p)
  BY <1>2, <1>4 DEF Behind
<1>6. Shape(c, k, s \o p)
  BY <1>2, <1>3, <1>4, <1>5 DEF Shape, Same
<1>7. Unsealed(c, k)
  BY <1>2, <1>4 DEF Unsealed, Behind
<1>8. Writable(c)
  <2>1. DOMAIN c.frags = 0 .. k - 1
    BY <1>6, ShapeFacts
  <2>. QED
    BY <1>2, <1>5, <2>1 DEF Writable
<1>9. n = 0 \/ Unit(c) = Unit(b)
  <2>1. b.MTU = 0 => n = 0
    BY DEF Unsealed
  <2>. QED
    BY <1>1, <1>4, <2>1
<1>10. Reading(c, k, s \o p)
  BY <1>5, <1>6, <1>9, ReadingOn DEF Same
<1>. QED
  BY <1>4, <1>5, <1>6, <1>7, <1>8, <1>10 DEF Grown, c

-----------------------------------------------------------------------------
(* objSave: the place of a size field, and filling it in. *)

\* The offset of a place, in fragments of w bytes.
Offset(at, w) == Start(at.index, w) + at.pos

\* writePos is where the next byte goes.
LEMMA WritePosIs ==
  ASSUME NEW b, NEW n, NEW s, Shape(b, n, s), n > 0, b.MTU # 0
  PROVE  /\ WritePos(b).index \in Nat /\ WritePos(b).pos \in Nat
         /\ Offset(WritePos(b), Unit(b)) = Len(s)
<1>. DEFINE w == Unit(b)
            a == Start(n - 1, w)
<1>1. /\ b \in Buffers /\ n \in Nat /\ N(b) = n /\ w \in Nat /\ w > 0 /\ Len(s) \in Nat
      /\ n # 0 /\ n - 1 \in 0 .. n - 1
      /\ Avail(b, n - 1) = PieceLen(n, w, s, n - 1)
  BY ShapeFacts
<1>2. a \in Nat /\ n - 1 \in Nat /\ a + w = Start(n, w) /\ n - 1 + 1 = n
  BY <1>1, StartBack
<1>3. Len(s) <= Start(n, w) /\ a < Len(s)
  <2>1. Cut(b.frags, n, w, s)
    BY DEF Shape
  <2>. QED
    BY <1>1, <2>1 DEF Cut
<1>4. Avail(b, n - 1) = Len(s) - a
  BY <1>1 DEF PieceLen
<1>5. Wavail(b) = w
  BY DEF Wavail, Unit, Width, Sized
<1>6. WritePos(b) = IF Avail(b, n - 1) >= w THEN [index |-> n - 1 + 1, pos |-> 0]
                                            ELSE [index |-> n - 1, pos |-> Avail(b, n - 1)]
  BY <1>1, <1>5 DEF WritePos, N
<1>. HIDE DEF a, w
<1>7. CASE Avail(b, n - 1) >= w
  <2>1. WritePos(b).index = n /\ WritePos(b).pos = 0
    BY <1>2, <1>6, <1>7
  <2>2. Start(n, w) = Len(s)
    BY <1>1, <1>2, <1>3, <1>4, <1>7
  <2>. QED
    BY <1>1, <2>1, <2>2 DEF Offset, w
<1>8. CASE ~ (Avail(b, n - 1) >= w)
  <2>1. WritePos(b).index = n - 1 /\ WritePos(b).pos = Avail(b, n - 1)
    BY <1>6, <1>8
  <2>2. Len(s) - a \in Nat /\ a + (Len(s) - a) = Len(s)
    BY <1>1, <1>2, <1>3
  <2>. QED
    BY <1>2, <1>4, <2>1, <2>2 DEF Offset, w, a
<1>. QED
  BY <1>7, <1>8

\* s with the size v at a place.
Filled(s, a, v) ==
  [p \in 1 .. Len(s) |-> IF p - a \in 1 .. SizeT THEN Stm!SizeByte(v, p - a) ELSE s[p]]

\* updateSize changes the bytes of the size field and no other, in however
\* many fragments they are.
LEMMA PatchedIs ==
  ASSUME NEW b, NEW n, NEW s, Shape(b, n, s), b.MTU # 0,
         NEW at, at.index \in Nat, at.pos \in Nat, NEW v \in Int
  PROVE  LET c == Patched(b, at, v)
             t == Filled(s, Offset(at, Unit(b)), v)
         IN  /\ Shape(c, n, t) /\ Len(t) = Len(s)
             /\ Same(b, c) /\ c.MTU = b.MTU /\ c.size = b.size /\ c.windex = b.windex
             /\ \A i \in 0 .. n - 1 : /\ Avail(c, i) = Avail(b, i)
                                      /\ c.frags[i].head = b.frags[i].head
                                      /\ c.frags[i].fid = b.frags[i].fid
                                      /\ c.frags[i].sum = b.frags[i].sum
<1>. DEFINE w == Unit(b)
            a == Offset(at, w)
            t == Filled(s, a, v)
            c == Patched(b, at, v)
            byte(i, p) == (i - at.index) * Wavail(b) + p - at.pos
            patch(i) == [p \in 1 .. Avail(b, i) |->
                     IF byte(i, p) \in 1 .. SizeT THEN Stm!SizeByte(v, byte(i, p))
                     ELSE b.frags[i].payload[p]]
            g == [i \in DOMAIN b.frags |-> [b.frags[i] EXCEPT !.payload = patch(i)]]
<1>1. /\ b \in Buffers /\ n \in Nat /\ DOMAIN b.frags = 0 .. n - 1
      /\ w \in Nat /\ w > 0 /\ Len(s) \in Nat /\ s \in Seq(Byte)
      /\ \A i \in 0 .. n - 1 : b.frags[i] \in Fragment /\ Avail(b, i) = PieceLen(n, w, s, i)
      /\ Cut(b.frags, n, w, s)
  BY ShapeFacts DEF Shape
<1>2. c = [b EXCEPT !.frags = g]
  BY DEF Patched
<1>3. Wavail(b) = w
  BY DEF Wavail, Unit, Width, Sized
<1>4. a \in Nat /\ a = Start(at.index, w) + at.pos /\ Start(at.index, w) \in Nat
  <2>1. w \in Nat
    BY <1>1
  <2>. HIDE DEF w
  <2>2. Start(at.index, w) \in Nat
    BY <2>1, StartFacts
  <2>. QED
    BY <2>2 DEF Offset
<1>5. /\ t \in Seq(Byte) /\ Len(t) = Len(s)
      /\ \A p \in 1 .. Len(s) :
           t[p] = IF p - a \in 1 .. SizeT THEN Stm!SizeByte(v, p - a) ELSE s[p]
  <2>1. \A p \in 1 .. Len(s) : p - a \in Int /\ s[p] \in Byte
    BY <1>1, <1>4
  <2>2. \A k \in Int : Stm!SizeByte(v, k) \in Byte
    BY ByteSeqs
  <2>3. t \in [1 .. Len(s) -> Byte]
    BY <2>1, <2>2 DEF Filled
  <2>4. t \in Seq(Byte) /\ DOMAIN t = 1 .. Len(s)
    BY <1>1, <2>3, SeqDef
  <2>. QED
    BY <1>1, <2>4, LenProperties DEF Filled
<1>. HIDE DEF t
<1>6. ASSUME NEW i \in 0 .. n - 1
      PROVE  /\ g[i] \in Fragment /\ g[i].head = b.frags[i].head /\ g[i].sum = b.frags[i].sum
             /\ g[i].fid = b.frags[i].fid
             /\ g[i].payload = patch(i) /\ g[i].len = b.frags[i].len
             /\ patch(i) \in Seq(Byte) /\ Len(patch(i)) = PieceLen(n, w, s, i)
             /\ \A p \in 1 .. PieceLen(n, w, s, i) : patch(i)[p] = t[Start(i, w) + p]
  <2>. DEFINE l == PieceLen(n, w, s, i)
              x == Start(i, w)
  <2>1. /\ Avail(b, i) = l /\ l \in Nat /\ x \in Nat /\ x + l <= Len(s)
        /\ b.frags[i].payload \in Seq(Byte)
    BY <1>1, CutFacts
  <2>2. \A p \in 1 .. l : b.frags[i].payload[p] = s[x + p]
    BY <1>1 DEF Cut
  <2>3. ASSUME NEW p \in 1 .. l
        PROVE  byte(i, p) = (x + p) - a /\ x + p \in 1 .. Len(s)
    <3>0. w \in Nat /\ i \in Nat
      BY <1>1
    <3>. HIDE DEF l, a, w
    <3>1. (i - at.index) * w = x - Start(at.index, w)
      BY <3>0, StartMinus
    <3>. HIDE DEF x
    <3>2. byte(i, p) = (x - Start(at.index, w)) + (p - at.pos)
      BY <1>3, <3>1 DEF byte
    <3>3. /\ x \in Nat /\ l \in Nat /\ x + l <= Len(s) /\ Start(at.index, w) \in Nat
          /\ a = Start(at.index, w) + at.pos /\ Len(s) \in Nat
      BY <1>1, <1>4, <2>1
    <3>. HIDE DEF byte
    <3>4. (x - Start(at.index, w)) + (p - at.pos) = (x + p) - (Start(at.index, w) + at.pos)
      BY <3>3
    <3>5. x + p \in 1 .. Len(s)
      BY <3>3
    <3>. QED
      BY <3>2, <3>3, <3>4, <3>5
  <2>. HIDE DEF byte, x, l, a, w
  <2>4. ASSUME NEW p \in 1 .. l
        PROVE  patch(i)[p] = t[x + p] /\ t[x + p] \in Byte
    <3>1. patch(i)[p] = IF (x + p) - a \in 1 .. SizeT THEN Stm!SizeByte(v, (x + p) - a) ELSE s[x + p]
      BY <2>1, <2>2, <2>3
    <3>. QED
      BY <1>1, <1>5, <2>3, <3>1
  <2>5. DOMAIN patch(i) = 1 .. l
    BY <2>1
  <2>6. patch(i) = [p \in 1 .. l |-> patch(i)[p]]
    BY <2>5
  <2>7. patch(i) \in Seq(Byte) /\ Len(patch(i)) = l
    <3>. DEFINE q == patch(i)
    <3>. HIDE DEF patch
    <3>1. q \in [1 .. l -> Byte]
      BY <2>4, <2>6
    <3>2. q \in Seq(Byte) /\ DOMAIN q = 1 .. l
      BY <2>1, <3>1, SeqDef
    <3>. QED
      BY <2>1, <3>2, LenProperties
  <2>8. g[i] = [b.frags[i] EXCEPT !.payload = patch(i)]
    BY <1>1
  <2>. HIDE DEF patch, g
  <2>9. /\ g[i] \in Fragment /\ g[i].head = b.frags[i].head /\ g[i].sum = b.frags[i].sum
        /\ g[i].fid = b.frags[i].fid
        /\ g[i].payload = patch(i) /\ g[i].len = b.frags[i].len
    BY <1>1, <2>7, <2>8 DEF Fragment
  <2>. QED
    BY <2>4, <2>7, <2>9 DEF x, l
<1>7. g \in [0 .. n - 1 -> Fragment]
  <2>1. DOMAIN g = 0 .. n - 1 /\ g = [i \in 0 .. n - 1 |-> g[i]]
    BY <1>1
  <2>. HIDE DEF g
  <2>. QED
    BY <1>6, <2>1
<1>. HIDE DEF g, patch, c, a, w
<1>8. Cut(g, n, w, t)
  <2>1. ASSUME NEW i \in 0 .. n - 1
        PROVE  PieceLen(n, w, t, i) = PieceLen(n, w, s, i) /\ g[i].len = PieceLen(n, w, s, i)
    BY <1>1, <1>5, <1>6 DEF Cut, PieceLen
  <2>2. /\ n = 0 => Len(t) = 0
        /\ n > 0 => Start(n - 1, w) < Len(t) /\ Len(t) <= Start(n, w)
    BY <1>1, <1>5 DEF Cut
  <2>. QED
    BY <1>1, <1>5, <1>6, <1>7, <2>1, <2>2 DEF Cut
<1>9. /\ c \in Buffers /\ c.frags = g /\ Same(b, c) /\ c.MTU = b.MTU /\ c.size = b.size
      /\ c.windex = b.windex
  <2>1. g \in Frags
    BY <1>1, <1>7 DEF Frags
  <2>. QED
    BY <1>1, <1>2, <2>1 DEF Buffers, Same
<1>10. Unit(c) = w
  BY <1>9 DEF Unit, Width, Sized, Same, w
<1>11. Shape(c, n, t)
  BY <1>8, <1>9, <1>10 DEF Shape, Same
<1>12. \A i \in 0 .. n - 1 : Avail(c, i) = Avail(b, i)
  BY <1>1, <1>6, <1>9 DEF Avail
<1>. QED
  BY <1>5, <1>6, <1>9, <1>11, <1>12 DEF c, t, a, w

-----------------------------------------------------------------------------
(* finish and Rewind. *)

\* The frames finish leaves: numbered up to the ending one, and summed; and
\* if an ending number is in a Schema, they were received, and decode.
Framed(b, n) ==
  /\ b.heads > 0 /\ n > 0
  /\ Local(b.frags, n) \/ \A i \in 0 .. n - 1 : Decodes(b.frags[i])
  /\ \A i \in 0 .. n - 1 :
       LET f == b.frags[i]
       IN  /\ IF i = n - 1 THEN f.head = [fid |-> Short(-n), size |-> Short(Avail(b, i))]
              ELSE f.head.fid = Short(i + 1) /\ f.head.size \in {b.headSize, Avail(b, i)}
           /\ f.sum = [fid |-> f.head.fid, size |-> f.head.size, payload |-> f.payload]

\* The cursor depends on the lengths of fragments only.
LEMMA ReadingSame ==
  ASSUME NEW b, NEW n, NEW s, NEW c, NEW t, Shape(b, n, s), Reading(b, n, s), Len(t) = Len(s),
         \A i \in 0 .. n - 1 : Avail(c, i) = Avail(b, i), Unit(c) = Unit(b),
         c.index = b.index, c.pos = b.pos, c.size = b.size
  PROVE  Reading(c, n, t)
<1>1. n \in Nat /\ b.index \in Nat
  BY ShapeFacts DEF Buffers
<1>2. n > 0 => Avail(c, b.index) = Avail(b, b.index)
  BY <1>1 DEF Reading
<1>. QED
  BY <1>2 DEF Reading

\* finish leaves the bytes, and frames that are numbered up to the ending one
\* and summed.
LEMMA FinishedIs ==
  ASSUME NEW b, NEW n, NEW s, Shape(b, n, s), Plain(b, n), b.heads > 0, b.MTU # 0, n > 0
  PROVE  LET c == Finished(b)
         IN  /\ Shape(c, n, s) /\ Framed(c, n)
             /\ Same(b, c) /\ c.MTU = b.MTU /\ c.size = b.size /\ c.windex = b.windex
             /\ \A i \in 0 .. n - 1 : Avail(c, i) = Avail(b, i)
<1>. DEFINE w == Unit(b)
            z == n - 1
            ending == [fid |-> Short(-n), size |-> Short(Avail(b, z))]
            d == Ended(b)
            g == [i \in DOMAIN d.frags |->
                    IF i > d.windex THEN d.frags[i]
                    ELSE [d.frags[i] EXCEPT !.sum = [fid     |-> d.frags[i].head.fid,
                                                     size    |-> d.frags[i].head.size,
                                                     payload |-> d.frags[i].payload]]]
            c == Finished(b)
<1>1. /\ b \in Buffers /\ n \in Nat /\ z \in 0 .. n - 1 /\ z + 1 = n /\ b.windex = z
      /\ b.frags \in [0 .. n - 1 -> Fragment] /\ b.heads # 0 /\ DOMAIN b.frags = 0 .. n - 1
      /\ \A i \in 0 .. n - 1 : b.frags[i] \in Fragment
  <2>1. /\ b \in Buffers /\ n \in Nat /\ DOMAIN b.frags = 0 .. n - 1
        /\ \A i \in 0 .. n - 1 : b.frags[i] \in Fragment
    BY ShapeFacts
  <2>2. b.windex = z /\ Cut(b.frags, n, Unit(b), s)
    BY DEF Shape
  <2>3. b.frags \in [0 .. n - 1 -> Fragment]
    BY <2>2, CutFacts
  <2>. QED
    BY <2>1, <2>2, <2>3
<1>2. c = [d EXCEPT !.frags = g]
  BY <1>1 DEF Finished, Summed
<1>3. ending \in [fid : Int, size : Int]
  <2>1. Avail(b, z) \in Nat
    BY <1>1, LenProperties DEF Avail, Fragment
  <2>2. -n \in Int /\ Avail(b, z) \in Int
    BY <1>1, <2>1
  <2>3. Short(-n) \in Int /\ Short(Avail(b, z)) \in Int
    BY <2>2, ShortInt
  <2>. QED
    BY <2>3
<1>4. d = [b EXCEPT !.frags[z].head = ending]
  BY <1>1 DEF Ended
<1>. HIDE DEF ending, d, c, z, w
<1>5. d.frags = [b.frags EXCEPT ![z] = [b.frags[z] EXCEPT !.head = ending]]
  BY <1>1, <1>4 DEF Buffers
<1>6. /\ DOMAIN d.frags = 0 .. n - 1 /\ d.windex = z
      /\ d.schema = b.schema /\ d.heads = b.heads /\ d.headSize = b.headSize
      /\ d.lenChecksum = b.lenChecksum /\ d.MTU = b.MTU /\ d.size = b.size
      /\ d.index = b.index /\ d.pos = b.pos
  BY <1>1, <1>4 DEF Buffers
<1>7. ASSUME NEW i \in 0 .. n - 1
      PROVE  /\ d.frags[i] = [b.frags[i] EXCEPT !.head = IF i = z THEN ending ELSE @]
             /\ g[i] = [d.frags[i] EXCEPT !.sum = [fid     |-> d.frags[i].head.fid,
                                                   size    |-> d.frags[i].head.size,
                                                   payload |-> d.frags[i].payload]]
  <2>1. d.frags[i] = [b.frags[i] EXCEPT !.head = IF i = z THEN ending ELSE @]
    <3>1. CASE i = z
      BY <1>1, <1>5, <3>1
    <3>2. CASE i # z
      <4>1. d.frags[i] = b.frags[i]
        BY <1>1, <1>5, <3>2
      <4>2. b.frags[i] \in Fragment
        BY <1>1
      <4>3. [b.frags[i] EXCEPT !.head = b.frags[i].head] = b.frags[i]
        BY <4>2 DEF Fragment
      <4>. QED
        BY <3>2, <4>1, <4>3
    <3>. QED
      BY <3>1, <3>2
  <2>2. ~ (i > d.windex) /\ i \in DOMAIN d.frags
    BY <1>1, <1>6 DEF z
  <2>. QED
    BY <2>1, <2>2
<1>8. ASSUME NEW i \in 0 .. n - 1
      PROVE  /\ g[i] \in Fragment
             /\ g[i].payload = b.frags[i].payload /\ g[i].len = b.frags[i].len
             /\ g[i].head = IF i = z THEN ending ELSE b.frags[i].head
             /\ g[i].fid = b.frags[i].fid
             /\ g[i].sum = [fid |-> g[i].head.fid, size |-> g[i].head.size, payload |-> g[i].payload]
  <2>. DEFINE f == b.frags[i]
              h == IF i = z THEN ending ELSE f.head
              e == d.frags[i]
  <2>1. f \in Fragment /\ h \in [fid : Int, size : Int]
    BY <1>1, <1>3 DEF Fragment
  <2>2. e = [f EXCEPT !.head = h] /\ g[i] = [e EXCEPT !.sum = [fid |-> e.head.fid,
                                        size |-> e.head.size, payload |-> e.payload]]
    BY <1>7
  <2>. HIDE DEF f, h, e, g
  <2>3. e \in Fragment /\ e.head = h /\ e.payload = f.payload /\ e.len = f.len /\ e.fid = f.fid
    BY <2>1, <2>2 DEF Fragment
  <2>4. [fid |-> e.head.fid, size |-> e.head.size, payload |-> e.payload]
          \in [fid : Int, size : Int, payload : Seq(Byte)]
    BY <2>3 DEF Fragment
  <2>5. /\ g[i] \in Fragment /\ g[i].head = e.head /\ g[i].payload = e.payload /\ g[i].len = e.len
        /\ g[i].fid = e.fid
        /\ g[i].sum = [fid |-> e.head.fid, size |-> e.head.size, payload |-> e.payload]
    BY <2>2, <2>3, <2>4 DEF Fragment
  <2>. QED
    BY <2>3, <2>5 DEF f, h
<1>9. DOMAIN g = 0 .. n - 1 /\ g = [i \in 0 .. n - 1 |-> g[i]]
  BY <1>6
<1>. HIDE DEF g
<1>10. g \in [0 .. n - 1 -> Fragment]
  BY <1>8, <1>9
<1>11. Cut(g, n, w, s)
  <2>1. Cut(b.frags, n, w, s)
    BY DEF Shape, w
  <2>. QED
    BY <1>8, <1>10, <2>1, ZenonT(30) DEF Cut
<1>12. /\ c \in Buffers /\ c.frags = g /\ Same(b, c) /\ c.MTU = b.MTU /\ c.size = b.size
       /\ c.windex = b.windex
  <2>1. g \in Frags
    BY <1>1, <1>10 DEF Frags
  <2>2. d \in Buffers
    <3>1. d.frags \in Frags
      <4>1. [b.frags[z] EXCEPT !.head = ending] \in Fragment
        BY <1>1, <1>3, ZenonT(30) DEF Fragment
      <4>2. d.frags \in [0 .. n - 1 -> Fragment]
        BY <1>1, <1>5, <4>1
      <4>. QED
        BY <1>1, <4>2 DEF Frags
    <3>2. d = [b EXCEPT !.frags = d.frags]
      BY <1>1, <1>4, <1>5 DEF Buffers
    <3>. QED
      BY <1>1, <3>1, <3>2 DEF Buffers
  <2>. QED
    BY <1>1, <1>2, <1>6, <2>1, <2>2 DEF Buffers, Same
<1>13. Unit(c) = w
  BY <1>12 DEF Unit, Width, Sized, Same, w
<1>14. Shape(c, n, s)
  BY <1>11, <1>12, <1>13 DEF Shape, Same
<1>15. \A i \in 0 .. n - 1 : Avail(c, i) = Avail(b, i)
  BY <1>8, <1>12 DEF Avail
<1>16. Framed(c, n)
  <2>1. ASSUME NEW i \in 0 .. n - 1, i # z
        PROVE  g[i].head.fid = Short(i + 1) /\ g[i].head.size = c.headSize
    <3>1. g[i].head = [fid |-> Short(i + 1), size |-> b.headSize]
      BY <1>1, <1>8, <2>1, ZenonT(30) DEF Plain
    <3>. QED
      BY <1>12, <3>1 DEF Same
  <2>2. g[z].head = [fid |-> Short(-n), size |-> Short(Avail(c, z))]
    BY <1>1, <1>8, <1>15 DEF ending
  <2>3. c.heads > 0
    BY <1>12 DEF Same
  <2>4. Local(c.frags, n)
    <3>1. Local(b.frags, n)
      BY DEF Plain
    <3>2. \A i \in 0 .. n - 1 : g[i].fid = b.frags[i].fid
      BY <1>8
    <3>3. Local(g, n)
      BY <3>1, <3>2, LocalSame
    <3>. QED
      BY <1>12, <3>3
  <2>. QED
    BY <1>8, <1>12, <2>1, <2>2, <2>3, <2>4 DEF Framed, z
<1>. QED
  BY <1>12, <1>14, <1>15, <1>16 DEF c

\* What reading leaves alone.
Kept(b, c) ==
  /\ c.frags = b.frags /\ c.schema = b.schema /\ c.heads = b.heads /\ c.headSize = b.headSize
  /\ c.lenChecksum = b.lenChecksum /\ c.MTU = b.MTU /\ c.windex = b.windex

\* b with the read position at a place.
At(b, i, p, l) == [b EXCEPT !.index = i, !.pos = p, !.size = l]

\* Setting the read position changes nothing else.
LEMMA Repositioned ==
  ASSUME NEW b, NEW i, NEW p, NEW l, NEW c, c = At(b, i, p, l),
         b \in Buffers, i \in Nat, p \in Nat, l \in Nat
  PROVE  c \in Buffers /\ Kept(b, c) /\ c.size = l /\ c.index = i /\ c.pos = p
<1>1. c.size = l /\ c.index = i /\ c.pos = p
        /\ c.frags = b.frags /\ c.schema = b.schema /\ c.heads = b.heads
        /\ c.headSize = b.headSize /\ c.lenChecksum = b.lenChecksum
        /\ c.MTU = b.MTU /\ c.windex = b.windex
  BY DEF Buffers, At
<1>2. PICK x : x = [b EXCEPT !.index = i]
  OBVIOUS
<1>3. x \in Buffers
  BY <1>2 DEF Buffers
<1>4. PICK y : y = [x EXCEPT !.pos = p]
  OBVIOUS
<1>5. y \in Buffers
  BY <1>3, <1>4 DEF Buffers
<1>6. [y EXCEPT !.size = l] \in Buffers
  BY <1>5 DEF Buffers
<1>7. c = [y EXCEPT !.size = l]
  BY <1>2, <1>4, Zenon DEF At
<1>8. Kept(b, c)
  BY <1>1 DEF Kept
<1>. QED
  BY <1>1, <1>6, <1>7, <1>8

\* ... so that the bytes are the same.
LEMMA KeptShape ==
  ASSUME NEW b, NEW n, NEW s, Shape(b, n, s), NEW c \in Buffers, Kept(b, c)
  PROVE  Shape(c, n, s) /\ Unit(c) = Unit(b) /\ \A i : Avail(c, i) = Avail(b, i)
<1>1. Unit(c) = Unit(b) /\ \A i : Avail(c, i) = Avail(b, i)
  BY DEF Unit, Width, Sized, N, Avail, Kept
<1>2. Shape(c, n, s)
  BY <1>1 DEF Shape, Kept
<1>. QED
  BY <1>1, <1>2

\* Rewind sets the cursor to the first byte.
LEMMA RewoundIs ==
  ASSUME NEW b, NEW n, NEW s, Shape(b, n, s)
  PROVE  LET c == Rewound(b)
         IN  /\ Shape(c, n, s) /\ Reading(c, n, s) /\ c.size = Len(s) /\ c.index = 0 /\ c.pos = 0
             /\ Kept(b, c)
<1>. DEFINE c == Rewound(b)
<1>1. /\ b \in Buffers /\ n \in Nat /\ Len(s) \in Nat /\ Stream(b) = s /\ Unit(b) \in Nat
      /\ \A i \in 0 .. n - 1 : b.frags[i] \in Fragment
  BY ShapeFacts
<1>2. c \in Buffers /\ Kept(b, c) /\ c.size = Len(s) /\ c.index = 0 /\ c.pos = 0
  <2>1. b \in Buffers /\ Len(s) \in Nat
    BY <1>1
  <2>2. c = [b EXCEPT !.index = 0, !.pos = 0, !.size = Len(s)]
    BY <1>1, Zenon DEF Rewound
  <2>. DEFINE l == Len(s)
  <2>. HIDE DEF c, l
  <2>3. b \in Buffers /\ 0 \in Nat /\ l \in Nat
    BY <2>1 DEF l
  <2>4. c = At(b, 0, 0, l)
    BY <2>2, Zenon DEF l, At
  <2>5. c \in Buffers /\ Kept(b, c) /\ c.size = l /\ c.index = 0 /\ c.pos = 0
    BY <2>3, <2>4, Repositioned
  <2>. QED
    BY <2>5 DEF l
<1>. HIDE DEF c
<1>4. Shape(c, n, s) /\ Unit(c) = Unit(b) /\ \A i : Avail(c, i) = Avail(b, i)
  BY <1>2, KeptShape
<1>5. Start(0, Unit(b)) = 0
  BY <1>1, StartFacts
<1>6. n > 0 => Avail(c, 0) \in Nat
  BY <1>1, <1>4, LenProperties DEF Avail, Fragment
<1>7. Reading(c, n, s)
  BY <1>1, <1>2, <1>4, <1>5, <1>6 DEF Reading
<1>. QED
  BY <1>2, <1>4, <1>7 DEF c

-----------------------------------------------------------------------------
(* Read and PeekByte. *)

\* The bytes that follow the read position in its fragment.
LEMMA Following ==
  ASSUME NEW b, NEW n, NEW s, Shape(b, n, s), Reading(b, n, s), n > 0
  PROVE  LET i == b.index
             a == Start(i, Unit(b))
         IN  /\ i \in 0 .. n - 1 /\ b.pos \in Nat /\ b.size \in Nat /\ a \in Nat /\ Len(s) \in Nat
             /\ b.frags[i].payload \in Seq(Byte) /\ Len(b.frags[i].payload) = Avail(b, i)
             /\ Avail(b, i) \in Nat /\ Avail(b, i) > 0
             /\ Len(s) - b.size = a + b.pos /\ b.pos <= Avail(b, i) /\ a + Avail(b, i) <= Len(s)
             /\ \A j \in 1 .. Avail(b, i) : b.frags[i].payload[j] = s[a + j]
             /\ i = n - 1 => a + Avail(b, i) = Len(s)
             /\ i # n - 1 => Start(i + 1, Unit(b)) = a + Avail(b, i)
<1>. DEFINE i == b.index
            w == Unit(b)
            a == Start(i, w)
            l == PieceLen(n, w, s, i)
<1>1. /\ b \in Buffers /\ n \in Nat /\ w \in Nat /\ Len(s) \in Nat
      /\ \A k \in 0 .. n - 1 : Avail(b, k) = PieceLen(n, w, s, k)
      /\ Cut(b.frags, n, w, s)
  BY ShapeFacts DEF Shape
<1>2. i \in 0 .. n - 1 /\ b.pos \in Nat /\ i \in Nat
  BY <1>1 DEF Buffers, Reading
<1>3. b.size \in Nat /\ Len(s) - b.size = a + b.pos /\ b.pos <= Avail(b, i)
  BY <1>1, <1>2 DEF Reading
<1>4. /\ a \in Nat /\ l \in 1 .. w /\ a + l <= Len(s) /\ b.frags[i].payload \in Seq(Byte)
      /\ Len(b.frags[i].payload) = l /\ Avail(b, i) = l
  BY <1>1, <1>2, CutFacts
<1>5. \A j \in 1 .. l : b.frags[i].payload[j] = s[a + j]
  BY <1>1, <1>2 DEF Cut
<1>6. Start(i + 1, w) = a + w
  BY <1>1, <1>2, StartFacts
<1>7. /\ i = n - 1 => l = Len(s) - a
      /\ i # n - 1 => l = w
  BY DEF PieceLen
<1>. HIDE DEF a, w, l, i
<1>8. i = n - 1 => a + l = Len(s)
  BY <1>1, <1>4, <1>7
<1>. QED
  BY <1>1, <1>2, <1>3, <1>4, <1>5, <1>6, <1>7, <1>8 DEF a, w, l, i

\* Leaving a fragment that was read does not move the cursor.
LEMMA NormalIs ==
  ASSUME NEW b, NEW n, NEW s, Shape(b, n, s), Reading(b, n, s), b.size > 0
  PROVE  LET c == Normal(b)
         IN  /\ Shape(c, n, s) /\ Reading(c, n, s) /\ Kept(b, c) /\ c.size = b.size /\ n > 0
             /\ c.index >= b.index /\ c.pos < Avail(c, c.index)
             /\ b.pos = Avail(b, b.index) => c.index = b.index + 1
<1>. DEFINE c == Normal(b)
            i == b.index
            a == Start(i, Unit(b))
<1>0. b \in Buffers /\ n \in Nat /\ (n = 0 => s = <<>>) /\ Len(<<>>) = 0 /\ Len(s) \in Nat
  BY ShapeFacts
<1>1. n > 0
  BY <1>0 DEF Reading
<1>2. /\ i \in 0 .. n - 1 /\ b.pos \in Nat /\ b.size \in Nat /\ a \in Nat /\ Len(s) \in Nat
      /\ Avail(b, i) \in Nat /\ Avail(b, i) > 0
      /\ Len(s) - b.size = a + b.pos /\ b.pos <= Avail(b, i)
      /\ i = n - 1 => a + Avail(b, i) = Len(s)
      /\ i # n - 1 => Start(i + 1, Unit(b)) = a + Avail(b, i)
  BY <1>1, Following
<1>3. CASE b.pos >= Avail(b, i)
  <2>1. b.pos = Avail(b, i)
    BY <1>2, <1>3
  <2>2. c = [b EXCEPT !.pos = @ - Avail(b, i), !.index = @ + 1]
    BY <1>3 DEF Normal
  <2>3. c = At(b, i + 1, 0, b.size)
    <3>1. b.pos - Avail(b, i) = 0
      BY <1>2, <2>1
    <3>2. c = [b EXCEPT !.pos = 0, !.index = i + 1]
      BY <2>2, <3>1
    <3>3. [b EXCEPT !.size = b.size] = b
      BY <1>0 DEF Buffers
    <3>. QED
      BY <1>0, <3>2, <3>3 DEF At, Buffers
  <2>4. i # n - 1
    BY <1>2, <2>1
  <2>. HIDE DEF c
  <2>5. c \in Buffers /\ Kept(b, c) /\ c.size = b.size /\ c.index = i + 1 /\ c.pos = 0
    <3>. DEFINE j == i + 1
                l == b.size
    <3>1. b \in Buffers /\ j \in Nat /\ 0 \in Nat /\ l \in Nat
      BY <1>0, <1>2
    <3>2. c = At(b, j, 0, l)
      BY <2>3
    <3>. HIDE DEF j, l, i, a
    <3>3. c \in Buffers /\ Kept(b, c) /\ c.size = l /\ c.index = j /\ c.pos = 0
      BY <3>1, <3>2, Repositioned
    <3>. QED
      BY <3>3 DEF j, l
  <2>6. Shape(c, n, s) /\ Unit(c) = Unit(b) /\ \A k : Avail(c, k) = Avail(b, k)
    BY <2>5, KeptShape
  <2>7. i + 1 \in 0 .. n - 1 /\ i + 1 < n /\ i + 1 >= i
    <3>1. i \in 0 .. n - 1 /\ n \in Nat
      BY <1>0, <1>2
    <3>. HIDE DEF i
    <3>. QED
      BY <2>4, <3>1
  <2>8. Avail(c, i + 1) \in Nat /\ Avail(c, i + 1) > 0
    <3>1. Cut(c.frags, n, Unit(c), s)
      BY <2>6 DEF Shape
    <3>2. PieceLen(n, Unit(c), s, i + 1) \in 1 .. Unit(c) /\ Unit(c) \in Nat
          /\ Len(c.frags[i + 1].payload) = PieceLen(n, Unit(c), s, i + 1)
      BY <2>7, <3>1, CutFacts
    <3>. QED
      BY <3>2 DEF Avail
  <2>9. Len(s) - c.size = Start(c.index, Unit(c)) + c.pos
    BY <1>2, <2>1, <2>4, <2>5, <2>6
  <2>10. Reading(c, n, s)
    <3>1. c.size \in 0 .. Len(s)
      BY <2>5 DEF Reading
    <3>. QED
      BY <1>1, <2>5, <2>7, <2>8, <2>9, <3>1 DEF Reading
  <2>. QED
    BY <1>1, <2>5, <2>6, <2>7, <2>8, <2>10 DEF c
<1>4. CASE ~ (b.pos >= Avail(b, i))
  <2>1. c = b
    BY <1>4 DEF Normal
  <2>. QED
    BY <1>1, <1>2, <1>4, <2>1 DEF Kept
<1>. QED
  BY <1>3, <1>4

\* What a round of Read has.
Copying == [buf : Buffers, left : Nat, got : Seq(Byte)]

\* A part of the stream.
LEMMA Piece ==
  ASSUME NEW s \in Seq(Byte), NEW o \in Nat, NEW m \in Nat, o + m <= Len(s)
  PROVE  /\ SubSeq(s, o + 1, o + m) \in Seq(Byte) /\ Len(SubSeq(s, o + 1, o + m)) = m
         /\ \A j \in 1 .. m : SubSeq(s, o + 1, o + m)[j] = s[o + j]
<1>. DEFINE x == o + 1
            y == o + m
<1>1. /\ x \in Int /\ y \in Int /\ \A j \in x .. y : s[j] \in Byte
  OBVIOUS
<1>2. /\ SubSeq(s, x, y) \in Seq(Byte)
      /\ Len(SubSeq(s, x, y)) = IF x <= y THEN y - x + 1 ELSE 0
      /\ \A j \in 1 .. y - x + 1 : SubSeq(s, x, y)[j] = s[x + j - 1]
  <2>. HIDE DEF x, y
  <2>. QED
    BY <1>1, SubSeqProperties
<1>3. /\ y - x + 1 = m /\ (x <= y <=> m > 0)
      /\ \A j \in 1 .. m : x + j - 1 = o + j
  OBVIOUS
<1>. HIDE DEF x, y
<1>4. Len(SubSeq(s, x, y)) = m
  BY <1>2, <1>3
<1>5. ASSUME NEW j \in 1 .. m PROVE SubSeq(s, x, y)[j] = s[o + j]
  <2>1. j \in 1 .. y - x + 1 /\ x + j - 1 = o + j
    BY <1>3
  <2>. QED
    BY <1>2, <2>1
<1>. QED
  BY <1>2, <1>4, <1>5 DEF x, y

\* One copy: m bytes, all that are wanted or all the fragment has left.
LEMMA CopyOneIs ==
  ASSUME NEW a \in Copying, NEW n, NEW s, Shape(a.buf, n, s), Reading(a.buf, n, s),
         a.left > 0, a.left <= a.buf.size
  PROVE  LET r == CopyOne(a)
             o == Len(s) - a.buf.size
         IN  /\ r \in Copying /\ Shape(r.buf, n, s) /\ Reading(r.buf, n, s) /\ Kept(a.buf, r.buf)
             /\ \E m \in 1 .. a.left :
                  /\ r.buf.size = a.buf.size - m /\ r.left = a.left - m
                  /\ r.got = a.got \o SubSeq(s, o + 1, o + m)
             /\ r.left > 0 => r.buf.pos = Avail(r.buf, r.buf.index)
             /\ r.buf.index >= a.buf.index
             /\ a.buf.pos = Avail(a.buf, a.buf.index) => r.buf.index = a.buf.index + 1
<1>. DEFINE b == Normal(a.buf)
            i == b.index
            l == Avail(b, i)
            m == IF a.left <= l - b.pos THEN a.left ELSE l - b.pos
            f == b.frags[i].payload
            o == Len(s) - a.buf.size
            st == Start(i, Unit(b))
            e == b.pos + m
            z == b.size - m
            r == CopyOne(a)
<1>1. a.buf \in Buffers /\ a.left \in Nat /\ a.got \in Seq(Byte) /\ a.buf.size \in Nat
  BY DEF Copying, Buffers
<1>2. /\ Shape(b, n, s) /\ Reading(b, n, s) /\ Kept(a.buf, b) /\ b.size = a.buf.size /\ n > 0
      /\ b.index >= a.buf.index /\ b.pos < Avail(b, b.index)
      /\ a.buf.pos = Avail(a.buf, a.buf.index) => b.index = a.buf.index + 1
  <2>1. a.buf.size > 0
    BY <1>1
  <2>. QED
    BY <2>1, NormalIs
<1>3. r = [buf  |-> [b EXCEPT !.pos = @ + m, !.size = @ - m],
           left |-> a.left - m,
           got  |-> a.got \o SubSeq(f, b.pos + 1, b.pos + m)]
  BY DEF CopyOne
<1>. HIDE DEF b, r
<1>4. /\ i \in 0 .. n - 1 /\ b.pos \in Nat /\ b.size \in Nat /\ Len(s) \in Nat
      /\ f \in Seq(Byte) /\ Len(f) = l /\ l \in Nat
      /\ st \in Nat /\ Len(s) - b.size = st + b.pos /\ st + l <= Len(s)
      /\ \A j \in 1 .. l : f[j] = s[st + j]
  BY <1>2, Following
<1>5. b \in Buffers /\ s \in Seq(Byte) /\ n \in Nat /\ n # 0
  BY <1>2, ShapeFacts
<1>. HIDE DEF i, l, f, st
<1>6. m \in 1 .. a.left /\ m <= l - b.pos /\ m \in Nat /\ (a.left - m > 0 => m = l - b.pos)
  BY <1>1, <1>2, <1>4 DEF i, l
<1>7. e \in Nat /\ z \in Nat /\ e <= l
  <2>1. a.left <= b.size /\ b.size \in Nat /\ m \in Nat /\ m <= a.left /\ a.left \in Nat
    BY <1>1, <1>2, <1>4, <1>6
  <2>2. b.pos \in Nat /\ l \in Nat /\ m <= l - b.pos
    BY <1>4, <1>6
  <2>. HIDE DEF m
  <2>. QED
    BY <2>1, <2>2
<1>8. r.buf = At(b, i, e, z) /\ r.left = a.left - m
      /\ r.got = a.got \o SubSeq(f, b.pos + 1, b.pos + m)
  <2>1. r.buf = [b EXCEPT !.pos = e, !.size = z]
    BY <1>3
  <2>2. [b EXCEPT !.index = i] = b
    BY <1>5 DEF Buffers, i
  <2>3. r.buf = At(b, i, e, z)
    BY <1>5, <2>1, <2>2, Zenon DEF At
  <2>. QED
    BY <1>3, <2>3
<1>. DEFINE c == r.buf
<1>. HIDE DEF c, m, e, z
<1>9. c \in Buffers /\ Kept(b, c) /\ c.index = i /\ c.pos = e /\ c.size = z
  <2>1. b \in Buffers /\ i \in Nat /\ e \in Nat /\ z \in Nat /\ c = At(b, i, e, z)
    BY <1>4, <1>5, <1>7, <1>8 DEF c
  <2>. QED
    BY <2>1, Repositioned
<1>10. Shape(c, n, s) /\ Unit(c) = Unit(b) /\ \A k : Avail(c, k) = Avail(b, k)
  BY <1>2, <1>9, KeptShape
<1>11. Reading(c, n, s)
  <2>1. c.size \in 0 .. Len(s) /\ Len(s) - c.size = Start(i, Unit(b)) + e
    <3>1. /\ c.size = b.size - m /\ b.size \in Nat /\ m \in Nat /\ b.size - m \in Nat
          /\ Len(s) - b.size = st + b.pos /\ st \in Nat /\ b.pos \in Nat /\ Len(s) \in Nat
      BY <1>4, <1>6, <1>7, <1>9 DEF z
    <3>2. Len(s) - c.size = st + (b.pos + m)
      BY <3>1, SMTT(30)
    <3>3. Len(s) - c.size = Start(i, Unit(b)) + e
      BY <3>2 DEF e, st
    <3>4. 0 <= c.size /\ c.size <= Len(s) /\ c.size \in Int
      <4>1. Len(s) - c.size \in Nat
        BY <3>1, <3>2, SMTT(30)
      <4>. QED
        BY <3>1, <4>1, SMTT(30)
    <3>. QED
      BY <3>1, <3>3, <3>4, SMTT(30)
  <2>2. i < n /\ e <= Avail(c, i)
    BY <1>4, <1>5, <1>7, <1>10 DEF l
  <2>. QED
    BY <1>5, <1>9, <1>10, <2>1, <2>2 DEF Reading
<1>12. SubSeq(f, b.pos + 1, b.pos + m) = SubSeq(s, o + 1, o + m)
  <2>. DEFINE x == SubSeq(f, b.pos + 1, b.pos + m)
              y == SubSeq(s, o + 1, o + m)
  <2>1. o = st + b.pos /\ o \in Nat /\ o + m <= Len(s) /\ b.pos + m <= l
    <3>1. /\ b.pos \in Nat /\ l \in Nat /\ st \in Nat /\ m \in Nat /\ m <= l - b.pos
          /\ Len(s) - a.buf.size = st + b.pos /\ st + l <= Len(s) /\ Len(s) \in Nat
      BY <1>2, <1>4, <1>6
    <3>2. o = st + b.pos
      BY <3>1
    <3>. HIDE DEF o
    <3>. QED
      BY <3>1, <3>2
  <2>2. x \in Seq(Byte) /\ Len(x) = m /\ \A j \in 1 .. m : x[j] = f[b.pos + j]
    BY <1>4, <1>6, <2>1, Piece, ZenonT(30)
  <2>3. y \in Seq(Byte) /\ Len(y) = m /\ \A j \in 1 .. m : y[j] = s[o + j]
    BY <1>4, <1>5, <1>6, <2>1, Piece, ZenonT(30)
  <2>. HIDE DEF x, y, o
  <2>4. ASSUME NEW j \in 1 .. m PROVE x[j] = y[j]
    <3>0. /\ b.pos \in Nat /\ l \in Nat /\ st \in Nat /\ m \in Nat /\ b.pos + m <= l
          /\ o = st + b.pos
      BY <1>4, <1>6, <2>1
    <3>1. b.pos + j \in 1 .. l /\ st + (b.pos + j) = o + j
      BY <3>0
    <3>. QED
      BY <1>4, <2>2, <2>3, <3>1
  <2>5. x = y
    BY <2>2, <2>3, <2>4, SeqEqual
  <2>. QED
    BY <2>5 DEF x, y
<1>13. r \in Copying
  <2>1. r = [buf |-> r.buf, left |-> r.left, got |-> r.got]
    BY <1>3
  <2>2. a.left - m \in Nat
    BY <1>1, <1>6
  <2>3. a.got \o SubSeq(f, b.pos + 1, b.pos + m) \in Seq(Byte)
    <3>1. SubSeq(f, b.pos + 1, b.pos + m) \in Seq(Byte)
      <4>1. b.pos + m <= l
        BY <1>4, <1>6
      <4>. QED
        BY <1>4, <1>6, <4>1, Piece
    <3>. QED
      BY <1>1, <3>1, ConcatProperties
  <2>. QED
    BY <1>8, <1>9, <2>1, <2>2, <2>3 DEF Copying, c
<1>14. r.left > 0 => c.pos = Avail(c, c.index)
  BY <1>1, <1>4, <1>6, <1>8, <1>9, <1>10 DEF e, l
<1>15. Kept(a.buf, c)
  BY <1>2, <1>9 DEF Kept
<1>16. c.index >= a.buf.index
       /\ (a.buf.pos = Avail(a.buf, a.buf.index) => c.index = a.buf.index + 1)
  BY <1>2, <1>9 DEF i
<1>17. /\ c.size = a.buf.size - m /\ r.left = a.left - m
       /\ r.got = a.got \o SubSeq(s, o + 1, o + m)
  BY <1>2, <1>8, <1>9, <1>12 DEF z
<1>. QED
  BY <1>6, <1>10, <1>11, <1>13, <1>14, <1>15, <1>16, <1>17 DEF c, r

\* Parts that follow one another are one part.
LEMMA PiecesJoin ==
  ASSUME NEW s, NEW o, NEW m, NEW q, s \in Seq(Byte), o \in Nat, m \in Nat, q \in Nat,
         o + m + q <= Len(s)
  PROVE  SubSeq(s, o + 1, o + m) \o SubSeq(s, o + m + 1, o + m + q) = SubSeq(s, o + 1, o + (m + q))
<1>. DEFINE x == SubSeq(s, o + 1, o + m)
            d == o + m
            y == SubSeq(s, d + 1, d + q)
            z == SubSeq(s, o + 1, o + (m + q))
<1>1. x \in Seq(Byte) /\ Len(x) = m /\ \A j \in 1 .. m : x[j] = s[o + j]
  <2>1. o + m <= Len(s)
    OBVIOUS
  <2>. QED
    BY <2>1, Piece
<1>2. y \in Seq(Byte) /\ Len(y) = q /\ \A j \in 1 .. q : y[j] = s[d + j]
  <2>1. d \in Nat /\ d + q <= Len(s)
    OBVIOUS
  <2>. HIDE DEF d
  <2>. QED
    BY <2>1, Piece
<1>3. z \in Seq(Byte) /\ Len(z) = m + q /\ \A j \in 1 .. m + q : z[j] = s[o + j]
  <2>1. m + q \in Nat /\ o + (m + q) <= Len(s)
    OBVIOUS
  <2>. QED
    BY <2>1, Piece
<1>. HIDE DEF x, y, z
<1>4. x \o y \in Seq(Byte) /\ Len(x \o y) = m + q
      /\ \A j \in 1 .. m + q : (x \o y)[j] = IF j <= m THEN x[j] ELSE y[j - m]
  <2>1. x \in Seq(Byte) /\ y \in Seq(Byte) /\ Len(x) = m /\ Len(y) = q
    BY <1>1, <1>2
  <2>. QED
    BY <2>1, Joined
<1>5. ASSUME NEW j \in 1 .. m + q PROVE (x \o y)[j] = z[j]
  <2>1. CASE j <= m
    <3>1. j \in 1 .. m
      BY <2>1
    <3>2. (x \o y)[j] = x[j] /\ x[j] = s[o + j] /\ z[j] = s[o + j]
      BY <1>1, <1>3, <1>4, <2>1, <3>1
    <3>. QED
      BY <3>2
  <2>2. CASE ~ (j <= m)
    <3>1. j - m \in 1 .. q /\ d + (j - m) = o + j
      BY <2>2
    <3>. HIDE DEF d
    <3>2. (x \o y)[j] = y[j - m] /\ y[j - m] = s[o + j]
      BY <1>2, <1>4, <2>2, <3>1
    <3>. QED
      BY <1>3, <3>2
  <2>. QED
    BY <2>1, <2>2
<1>6. x \o y = z
  BY <1>3, <1>4, <1>5, SeqEqual
<1>. QED
  BY <1>6 DEF x, y, z

\* m of the wanted bytes have been read.
Took(b, n, s, want, a, m) ==
  /\ m \in 0 .. want
  /\ Shape(a.buf, n, s) /\ Reading(a.buf, n, s) /\ Kept(b, a.buf)
  /\ a.left = want - m /\ a.buf.size = b.size - m
  /\ a.got = SubSeq(s, Len(s) - b.size + 1, Len(s) - b.size + m)

\* A round of Read gets the bytes that follow those it has.
LEMMA TakeMore ==
  ASSUME NEW b, NEW n, NEW s, NEW want, want \in Nat, Shape(b, n, s), b.size \in 0 .. Len(s),
         want <= b.size, NEW a, a \in Copying, NEW m, Took(b, n, s, want, a, m), m # want
  PROVE  LET r == CopyOne(a)
         IN  /\ r \in Copying
             /\ \E q : Took(b, n, s, want, r, q)
             /\ r.left > 0 => r.buf.pos = Avail(r.buf, r.buf.index)
             /\ r.buf.index >= a.buf.index
             /\ a.buf.pos = Avail(a.buf, a.buf.index) => r.buf.index = a.buf.index + 1
<1>. DEFINE r == CopyOne(a)
            o == Len(s) - b.size
            e == Len(s) - a.buf.size
<1>1. /\ m \in 0 .. want /\ Shape(a.buf, n, s) /\ Reading(a.buf, n, s) /\ Kept(b, a.buf)
      /\ a.left = want - m /\ a.buf.size = b.size - m
      /\ a.got = SubSeq(s, o + 1, o + m)
  BY DEF Took
<1>2. s \in Seq(Byte) /\ Len(s) \in Nat
  BY ShapeFacts
<1>3. a.left > 0 /\ a.left <= a.buf.size /\ o \in Nat /\ e = o + m
  BY <1>1, <1>2
<1>. HIDE DEF o, r, e
<1>4. /\ r \in Copying /\ Shape(r.buf, n, s) /\ Reading(r.buf, n, s) /\ Kept(a.buf, r.buf)
      /\ \E q \in 1 .. a.left :
           /\ r.buf.size = a.buf.size - q /\ r.left = a.left - q
           /\ r.got = a.got \o SubSeq(s, e + 1, e + q)
      /\ r.left > 0 => r.buf.pos = Avail(r.buf, r.buf.index)
      /\ r.buf.index >= a.buf.index
      /\ a.buf.pos = Avail(a.buf, a.buf.index) => r.buf.index = a.buf.index + 1
  BY <1>1, <1>3, CopyOneIs DEF r, e
<1>5. PICK q \in 1 .. a.left :
        /\ r.buf.size = a.buf.size - q /\ r.left = a.left - q
        /\ r.got = a.got \o SubSeq(s, e + 1, e + q)
  BY <1>4
<1>. DEFINE k == m + q
<1>6. /\ k \in 0 .. want /\ r.left = want - k /\ r.buf.size = b.size - k /\ q \in Nat /\ m \in Nat
      /\ o + m + q <= Len(s)
  <2>1. o = Len(s) - b.size /\ b.size \in Nat
    BY DEF o
  <2>2. q \in Nat /\ m \in Nat /\ q <= want - m
    BY <1>1, <1>5
  <2>3. r.buf.size = b.size - m - q /\ r.left = want - m - q
    BY <1>1, <1>5
  <2>4. k \in 0 .. want /\ want - m - q = want - k /\ b.size - m - q = b.size - k
    BY <2>1, <2>2
  <2>5. o + m + q <= Len(s)
    <3>1. m + q <= want /\ want <= b.size
      BY <2>2
    <3>. QED
      BY <1>2, <2>1, <2>2, <3>1
  <2>. HIDE DEF k
  <2>. QED
    BY <2>2, <2>3, <2>4, <2>5
<1>7. r.got = SubSeq(s, o + 1, o + k)
  <2>1. SubSeq(s, o + 1, o + m) \o SubSeq(s, o + m + 1, o + m + q) = SubSeq(s, o + 1, o + k)
    BY <1>2, <1>3, <1>6, PiecesJoin
  <2>. QED
    BY <1>1, <1>3, <1>5, <2>1
<1>8. Kept(b, r.buf)
  BY <1>1, <1>4 DEF Kept
<1>. HIDE DEF k
<1>9. Took(b, n, s, want, r, k)
  BY <1>4, <1>6, <1>7, <1>8 DEF Took, o
<1>. QED
  BY <1>4, <1>9 DEF r

\* Read: the next bytes, and the cursor behind them.
LEMMA CopiedIs ==
  ASSUME NEW b, NEW n, NEW s, Shape(b, n, s), Reading(b, n, s), NEW want, want \in Nat,
         want <= b.size
  PROVE  LET c == Copied(b, want)
             o == Len(s) - b.size
         IN  /\ Shape(c.buf, n, s) /\ Reading(c.buf, n, s) /\ Kept(b, c.buf)
             /\ c.buf.size = b.size - want
             /\ c.got = SubSeq(s, o + 1, o + want)
<1>. DEFINE base == [buf |-> b, left |-> want, got |-> <<>>]
            rounds == Fragments(b)
            Far(a, i) == /\ \E m : Took(b, n, s, want, a, m)
                         /\ i # 0 /\ a.left > 0 => /\ a.buf.index >= i - 1
                                                  /\ a.buf.pos = Avail(a.buf, a.buf.index)
            V == [i \in 0 .. n |-> {a \in Copying : Far(a, i)}]
<1>1. /\ b \in Buffers /\ s \in Seq(Byte) /\ Len(s) \in Nat /\ n \in Nat
      /\ N(b) = n /\ DOMAIN b.frags = 0 .. n - 1 /\ (n = 0 => s = <<>>)
  BY ShapeFacts
<1>2. b.size \in 0 .. Len(s)
  BY DEF Reading
<1>3. DOMAIN rounds = 1 .. n
  BY <1>1 DEF Fragments, N
<1>4. base \in V[0]
  <2>1. base \in Copying
    <3>1. <<>> \in Seq(Byte)
      OBVIOUS
    <3>. QED
      BY <1>1, <3>1 DEF Copying
  <2>2. SubSeq(s, Len(s) - b.size + 1, Len(s) - b.size + 0) = <<>>
    <3>. DEFINE o == Len(s) - b.size
                x == SubSeq(s, o + 1, o + 0)
    <3>1. o \in Nat /\ 0 \in Nat /\ o + 0 <= Len(s)
      BY <1>1, <1>2
    <3>. HIDE DEF o
    <3>2. x \in Seq(Byte) /\ Len(x) = 0
      BY <1>1, <3>1, Piece
    <3>. HIDE DEF x
    <3>3. x = <<>>
      BY <3>2, EmptySeq
    <3>. QED
      BY <3>3 DEF x, o
  <2>3. Kept(b, b) /\ 0 \in 0 .. want /\ want - 0 = want /\ b.size - 0 = b.size
    BY <1>2 DEF Kept
  <2>4. Took(b, n, s, want, base, 0)
    BY <2>2, <2>3 DEF Took
  <2>5. 0 \in 0 .. n
    BY <1>1
  <2>. QED
    BY <2>1, <2>4, <2>5
<1>5. ASSUME NEW i \in 0 .. n - 1, NEW a \in V[i]
      PROVE  CopyRound(a, rounds[i + 1]) \in V[i + 1]
  <2>. DEFINE r == CopyRound(a, rounds[i + 1])
  <2>1. i \in Nat /\ i + 1 \in 0 .. n /\ i + 1 # 0 /\ i \in 0 .. n /\ (i + 1) - 1 = i
    BY <1>1
  <2>2. a \in Copying /\ Far(a, i)
    BY <2>1
  <2>. HIDE DEF rounds
  <2>. HIDE DEF r
  <2>3. SUFFICES r \in Copying /\ Far(r, i + 1)
    BY <2>1 DEF r
  <2>. HIDE DEF V
  <2>4. PICK m : Took(b, n, s, want, a, m)
    BY <2>2
  <2>5. /\ m \in 0 .. want /\ a.left = want - m /\ Reading(a.buf, n, s) /\ a.buf \in Buffers
    BY <2>2, <2>4 DEF Took, Copying
  <2>6. CASE m = want
    <3>1. a.left = 0
      BY <2>5, <2>6
    <3>2. r = a
      BY <3>1 DEF r, CopyRound
    <3>. QED
      BY <2>2, <2>4, <3>1, <3>2
  <2>7. CASE m # want
    <3>1. r = CopyOne(a)
      <4>1. a.left # 0
        BY <2>5, <2>7
      <4>. QED
        BY <4>1 DEF r, CopyRound
    <3>2. /\ r \in Copying
          /\ \E q : Took(b, n, s, want, r, q)
          /\ r.left > 0 => r.buf.pos = Avail(r.buf, r.buf.index)
          /\ r.buf.index >= a.buf.index
          /\ a.buf.pos = Avail(a.buf, a.buf.index) => r.buf.index = a.buf.index + 1
      BY <1>2, <2>2, <2>4, <2>7, <3>1, TakeMore
    <3>3. a.buf.index \in Nat /\ r.buf.index \in Nat /\ a.left > 0
      <4>1. a.buf \in Buffers /\ r.buf \in Buffers
        BY <2>2, <3>2 DEF Copying
      <4>2. a.left > 0
        BY <2>5, <2>7
      <4>. QED
        BY <4>1, <4>2 DEF Buffers
    <3>4. r.buf.index >= i
      <4>1. CASE i = 0
        BY <3>3, <4>1
      <4>2. CASE i # 0
        <5>1. a.buf.index >= i - 1 /\ a.buf.pos = Avail(a.buf, a.buf.index)
          BY <2>2, <3>3, <4>2
        <5>. QED
          BY <2>1, <3>2, <3>3, <5>1
      <4>. QED
        BY <4>1, <4>2
    <3>. QED
      BY <2>1, <3>2, <3>4
  <2>. QED
    BY <2>6, <2>7
<1>6. Copies!Fold(base, rounds) \in V[n]
  <2>. HIDE DEF V, rounds, base
  <2>. QED
    BY <1>1, <1>3, <1>4, <1>5, Copies!FoldInduction
<1>7. Copied(b, want) = Copies!Fold(base, rounds)
  BY Zenon DEF Copied, base, rounds, FoldLeft, MapThenFoldSet, Max,
               Copies!Fold, Copies!FoldLeft, Copies!MapThenFoldSet, Copies!Max
<1>. DEFINE c == Copied(b, want)
<1>. HIDE DEF rounds, base, c
<1>8. c \in Copying /\ Far(c, n)
  <2>1. n \in 0 .. n
    BY <1>1
  <2>. QED
    BY <1>6, <1>7, <2>1 DEF c
<1>9. PICK m : Took(b, n, s, want, c, m)
  BY <1>8
<1>10. /\ m \in 0 .. want /\ c.left = want - m /\ Reading(c.buf, n, s) /\ Shape(c.buf, n, s)
       /\ c.buf.size = b.size - m /\ Kept(b, c.buf)
  BY <1>9 DEF Took
<1>11. m = want
  <2>. SUFFICES ASSUME m # want PROVE FALSE
    OBVIOUS
  <2>1. b.size \in Nat /\ c.left > 0 /\ c.buf.size > 0
    BY <1>1, <1>2, <1>10
  <2>2. n # 0
    <3>. SUFFICES ASSUME n = 0 PROVE FALSE
      OBVIOUS
    <3>1. Len(s) = 0
      BY <1>1
    <3>. QED
      BY <1>10, <2>1, <3>1 DEF Reading
  <2>3. c.buf.index >= n - 1 /\ c.buf.pos = Avail(c.buf, c.buf.index)
    BY <1>8, <2>1, <2>2
  <2>4. n > 0
    BY <1>1, <2>2
  <2>. DEFINE d == c.buf
              i == d.index
              st == Start(i, Unit(d))
  <2>. HIDE DEF d
  <2>5. /\ i \in 0 .. n - 1 /\ d.size \in Nat /\ st \in Nat
        /\ Len(s) - d.size = st + d.pos
        /\ i = n - 1 => st + Avail(d, i) = Len(s)
    <3>1. Shape(d, n, s) /\ Reading(d, n, s)
      BY <1>10 DEF d
    <3>. QED
      BY <2>4, <3>1, Following
  <2>. HIDE DEF st
  <2>6. i = n - 1
    BY <1>1, <2>3, <2>5 DEF d
  <2>7. Len(s) - d.size = Len(s)
    <3>1. d.pos = Avail(d, i)
      BY <2>3 DEF d
    <3>. QED
      BY <2>5, <2>6, <3>1
  <2>. QED
    BY <1>1, <2>1, <2>5, <2>7 DEF d
<1>12. c.buf.size = b.size - want /\ c.got = SubSeq(s, Len(s) - b.size + 1, Len(s) - b.size + want)
  BY <1>9, <1>11 DEF Took
<1>. QED
  BY <1>10, <1>12 DEF c

-----------------------------------------------------------------------------
(* Split and Merge. *)

\* A Buffer without fragments.
LEMMA EmptyMapIs == EmptyMap \in [0 .. 0 - 1 -> Fragment] /\ EmptyMap \in Frags /\ DOMAIN EmptyMap = {}
<1>1. 0 .. 0 - 1 = {}
  OBVIOUS
<1>2. EmptyMap \in [{} -> Fragment] /\ DOMAIN EmptyMap = {}
  BY DEF EmptyMap
<1>3. EmptyMap \in [0 .. 0 - 1 -> Fragment]
  BY <1>1, <1>2
<1>. QED
  BY <1>2, <1>3 DEF Frags

\* No bytes in no fragments, and room in the first one.
LEMMA NothingYet ==
  ASSUME NEW b, b \in Buffers, b.frags = EmptyMap, Unit(b) \in Nat, Unit(b) > 0,
         b.lenChecksum <= ChecksumLen, b.MTU = 0 => b.windex = 0
  PROVE  Shape(b, 0, <<>>)
<1>1. <<>> \in Seq(Byte) /\ Len(<<>>) = 0
  BY EmptySeq
<1>2. Cut(b.frags, 0, Unit(b), <<>>)
  BY <1>1, EmptyMapIs DEF Cut
<1>. QED
  BY <1>2 DEF Shape

\* What no call but prepare, Clear and Pipe changes.
SameHeader(b, c) ==
  /\ c.schema = b.schema /\ c.heads = b.heads /\ c.headSize = b.headSize
  /\ c.lenChecksum = b.lenChecksum

\* split's Buffer before anything is written.
Emptied(b, mtu) ==
  [b EXCEPT !.MTU = mtu, !.size = 0, !.windex = 0, !.index = 0, !.pos = 0, !.frags = EmptyMap]

\* Nothing is in split's new fragments yet.
LEMMA EmptiedIs ==
  ASSUME NEW b, NEW mtu, b \in Buffers, mtu \in Nat, b.lenChecksum <= ChecksumLen,
         mtu > b.heads + b.lenChecksum
  PROVE  LET c == Emptied(b, mtu)
         IN  /\ Shape(c, 0, <<>>) /\ Reading(c, 0, <<>>) /\ Unsealed(c, 0) /\ Writable(c)
             /\ SameHeader(b, c) /\ c.MTU = mtu /\ mtu # 0
             /\ c.size = 0 /\ c.index = 0 /\ c.pos = 0
<1>. DEFINE c == Emptied(b, mtu)
<1>1. b.heads \in Nat /\ b.lenChecksum \in Nat
  BY DEF Buffers
<1>2. /\ c.frags = EmptyMap /\ c.MTU = mtu /\ c.windex = 0 /\ c.size = 0 /\ c.index = 0 /\ c.pos = 0
      /\ SameHeader(b, c)
  BY DEF Emptied, Buffers, SameHeader
<1>3. PICK x : x = At(b, 0, 0, 0)
  OBVIOUS
<1>4. x \in Buffers
  <2>1. 0 \in Nat
    OBVIOUS
  <2>. QED
    BY <1>3, <2>1, Repositioned
<1>5. PICK y : y = [x EXCEPT !.MTU = mtu]
  OBVIOUS
<1>6. y \in Buffers
  BY <1>4, <1>5 DEF Buffers
<1>7. PICK z : z = [y EXCEPT !.windex = 0]
  OBVIOUS
<1>8. z \in Buffers
  BY <1>6, <1>7 DEF Buffers
<1>9. c \in Buffers
  <2>1. [z EXCEPT !.frags = EmptyMap] \in Buffers
    BY <1>8, EmptyMapIs DEF Buffers
  <2>2. c = [z EXCEPT !.frags = EmptyMap]
    <3>1. z = [b EXCEPT !.index = 0, !.pos = 0, !.size = 0, !.MTU = mtu, !.windex = 0]
      BY <1>3, <1>5, <1>7 DEF At
    <3>. QED
      BY <3>1 DEF Emptied, Buffers
  <2>. QED
    BY <2>1, <2>2
<1>. HIDE DEF c
<1>10. Unit(c) = mtu - b.heads - b.lenChecksum /\ mtu # 0
  BY <1>1, <1>2 DEF Unit, Width, Sized, SameHeader
<1>11. Unit(c) \in Nat /\ Unit(c) > 0
  BY <1>1, <1>10
<1>12. Shape(c, 0, <<>>)
  BY <1>2, <1>9, <1>11, NothingYet DEF SameHeader
<1>13. Reading(c, 0, <<>>)
  <2>1. Start(0, Unit(c)) = 0 /\ Len(<<>>) = 0
    BY <1>11, StartFacts
  <2>. QED
    BY <1>2, <2>1 DEF Reading
<1>14. Unsealed(c, 0)
  <2>1. 0 .. 0 - 1 = {}
    OBVIOUS
  <2>. QED
    BY <1>2, <1>10, <2>1, LocalNone DEF Unsealed, Plain
<1>15. Writable(c)
  BY <1>2, <1>12, ShapeFacts DEF Writable, N
<1>. QED
  BY <1>2, <1>10, <1>12, <1>13, <1>14, <1>15 DEF c

\* The payload of a fragment, as a part of the stream.
LEMMA PayloadIs ==
  ASSUME NEW b, NEW n, NEW s, Shape(b, n, s), NEW i, i \in 0 .. n - 1
  PROVE  LET a == Start(i, Unit(b))
             e == IF i = n - 1 THEN Len(s) ELSE Start(i + 1, Unit(b))
             p == b.frags[i].payload
         IN  /\ a \in Nat /\ e \in Nat /\ a < e /\ e <= Len(s)
             /\ p \in Seq(Byte) /\ p # <<>> /\ SubSeq(s, 1, a) \o p = SubSeq(s, 1, e)
             /\ Len(SubSeq(s, 1, e)) = e
<1>. DEFINE w == Unit(b)
            a == Start(i, w)
            l == PieceLen(n, w, s, i)
            e == IF i = n - 1 THEN Len(s) ELSE Start(i + 1, w)
            p == b.frags[i].payload
<1>1. s \in Seq(Byte) /\ Len(s) \in Nat /\ n \in Nat /\ w \in Nat /\ i \in Nat /\ Cut(b.frags, n, w, s)
  BY ShapeFacts DEF Shape
<1>2. /\ a \in Nat /\ l \in 1 .. w /\ a + l <= Len(s) /\ p \in Seq(Byte) /\ Len(p) = l
  BY <1>1, CutFacts
<1>3. \A j \in 1 .. l : p[j] = s[a + j]
  BY <1>1 DEF Cut
<1>4. e = a + l
  <2>1. Start(i + 1, w) = a + w
    BY <1>1, StartFacts
  <2>2. l = IF i = n - 1 THEN Len(s) - a ELSE w
    BY DEF PieceLen
  <2>. HIDE DEF a, w, l
  <2>. QED
    BY <1>1, <1>2, <2>1, <2>2
<1>. HIDE DEF a, w, l, e, p
<1>5. p = SubSeq(s, a + 1, a + l)
  <2>. DEFINE x == SubSeq(s, a + 1, a + l)
  <2>1. x \in Seq(Byte) /\ Len(x) = l /\ \A j \in 1 .. l : x[j] = s[a + j]
    <3>1. l \in Nat
      BY <1>1, <1>2
    <3>. QED
      BY <1>1, <1>2, <3>1, Piece
  <2>. HIDE DEF x
  <2>2. p = x
    BY <1>2, <1>3, <2>1, SeqEqual
  <2>. QED
    BY <2>2 DEF x
<1>6. SubSeq(s, 1, a) \o p = SubSeq(s, 1, e)
  <2>1. SubSeq(s, 0 + 1, 0 + a) \o SubSeq(s, 0 + a + 1, 0 + a + l) = SubSeq(s, 0 + 1, 0 + (a + l))
    <3>1. 0 \in Nat /\ l \in Nat /\ 0 + a + l <= Len(s)
      BY <1>1, <1>2
    <3>. QED
      BY <1>1, <1>2, <3>1, PiecesJoin
  <2>2. 0 + 1 = 1 /\ 0 + a = a /\ 0 + a + 1 = a + 1 /\ 0 + a + l = a + l /\ 0 + (a + l) = a + l
    BY <1>1, <1>2
  <2>. QED
    BY <1>4, <1>5, <2>1, <2>2
<1>7. e \in Nat /\ a < e /\ e <= Len(s) /\ p # <<>>
  <2>1. e \in Nat /\ a < e /\ e <= Len(s)
    BY <1>1, <1>2, <1>4
  <2>2. Len(p) # 0 /\ Len(<<>>) = 0
    BY <1>1, <1>2, EmptySeq
  <2>. QED
    BY <2>1, <2>2
<1>8. Len(SubSeq(s, 1, e)) = e
  <2>1. e \in 0 .. Len(s)
    BY <1>1, <1>7
  <2>. QED
    BY <1>1, <2>1, Parts
<1>. QED
  BY <1>2, <1>6, <1>7, <1>8 DEF a, w, e, p

\* The first i fragments of s, w bytes each, are so many bytes.
Upto(i, n, w, s) == IF i = n THEN Len(s) ELSE Start(i, w)

\* t has been written again, in k fragments.
Rewritten(d, c, k, t) ==
  /\ Shape(c, k, t) /\ Reading(c, k, t) /\ Unsealed(c, k) /\ Writable(c)
  /\ SameHeader(d, c) /\ c.MTU = d.MTU /\ c.MTU # 0
  /\ c.size = Len(t) /\ c.index = 0 /\ c.pos = 0

\* A payload more is written again.
LEMMA RewriteMore ==
  ASSUME NEW d, NEW c, NEW k, NEW t, Rewritten(d, c, k, t), NEW p, p \in Seq(Byte), p # <<>>
  PROVE  \E q \in Nat : q > 0 /\ Rewritten(d, Appended(c, p), q, t \o p)
<1>. DEFINE e == Appended(c, p)
<1>1. /\ Shape(c, k, t) /\ Reading(c, k, t) /\ Unsealed(c, k) /\ Writable(c)
      /\ SameHeader(d, c) /\ c.MTU = d.MTU /\ c.MTU # 0
      /\ c.size = Len(t) /\ c.index = 0 /\ c.pos = 0
  BY DEF Rewritten
<1>2. PICK q \in Nat : Grown(c, k, t, e, q, p)
  BY <1>1, AppendGrows
<1>. HIDE DEF e
<1>3. /\ Shape(e, q, t \o p) /\ Reading(e, q, t \o p) /\ Unsealed(e, q) /\ Writable(e)
      /\ Same(c, e) /\ e.MTU = Sized(c) /\ e.MTU # 0 /\ e.size = c.size + Len(p) /\ q > 0
  BY <1>2 DEF Grown
<1>4. e.MTU = d.MTU /\ SameHeader(d, e) /\ e.index = 0 /\ e.pos = 0
  BY <1>1, <1>3 DEF Sized, Same, SameHeader
<1>5. t \in Seq(Byte)
  BY <1>1, ShapeFacts
<1>6. Len(t \o p) = Len(t) + Len(p)
  BY <1>5, ConcatProperties
<1>7. Rewritten(d, e, q, t \o p)
  BY <1>1, <1>3, <1>4, <1>6 DEF Rewritten
<1>. QED
  BY <1>3, <1>7 DEF e

\* Writing all payloads again, under whatever MTU, gives the stream again.
LEMMA RewritesIs ==
  ASSUME NEW b, NEW n, NEW s, Shape(b, n, s), n > 0, NEW mtu, mtu \in Nat,
         mtu > b.heads + b.lenChecksum
  PROVE  LET c == FoldLeft(Appended, Emptied(b, mtu), Payloads(b))
             d == Emptied(b, mtu)
         IN  \E k \in Nat : k > 0 /\ Rewritten(d, c, k, s)
<1>. DEFINE d == Emptied(b, mtu)
            w == Unit(b)
            ps == Payloads(b)
            u(i) == Upto(i, n, w, s)
            Done(c, i) == \E k \in Nat : Rewritten(d, c, k, SubSeq(s, 1, u(i))) /\ (i # 0 => k > 0)
            V == [i \in 0 .. n |-> {c \in Buffers : Done(c, i)}]
<1>1. /\ b \in Buffers /\ n \in Nat /\ N(b) = n /\ s \in Seq(Byte) /\ Len(s) \in Nat
      /\ w \in Nat /\ DOMAIN b.frags = 0 .. n - 1 /\ b.lenChecksum <= ChecksumLen
  BY ShapeFacts DEF Shape
<1>2. DOMAIN ps = 1 .. n /\ \A i \in 1 .. n : ps[i] = b.frags[i - 1].payload
  BY <1>1 DEF Payloads, Fragments, N
<1>3. d \in V[0]
  <2>1. /\ Shape(d, 0, <<>>) /\ Reading(d, 0, <<>>) /\ Unsealed(d, 0) /\ Writable(d)
        /\ SameHeader(b, d) /\ d.MTU = mtu /\ mtu # 0 /\ d.size = 0 /\ d.index = 0 /\ d.pos = 0
    BY <1>1, EmptiedIs
  <2>2. u(0) = 0
    <3>1. 0 # n /\ Start(0, w) = 0
      BY <1>1, StartFacts
    <3>. QED
      BY <3>1 DEF Upto
  <2>3. SubSeq(s, 1, 0) = <<>> /\ Len(<<>>) = 0
    <3>1. 0 \in 0 .. Len(s)
      BY <1>1
    <3>2. SubSeq(s, 1, 0) \in Seq(Byte) /\ Len(SubSeq(s, 1, 0)) = 0
      BY <1>1, <3>1, Parts
    <3>. QED
      BY <3>2, EmptySeq
  <2>. HIDE DEF d, u
  <2>4. Rewritten(d, d, 0, SubSeq(s, 1, u(0)))
    BY <2>1, <2>2, <2>3 DEF Rewritten, SameHeader
  <2>5. d \in Buffers
    BY <2>1 DEF Shape
  <2>6. 0 \in 0 .. n /\ 0 \in Nat
    BY <1>1
  <2>. QED
    BY <2>4, <2>5, <2>6
<1>. HIDE DEF d, u
<1>4. ASSUME NEW i \in 0 .. n - 1, NEW c \in V[i]
      PROVE  Appended(c, ps[i + 1]) \in V[i + 1]
  <2>. DEFINE p == b.frags[i].payload
              e == Appended(c, p)
  <2>1. i \in Nat /\ i + 1 \in 0 .. n /\ i + 1 # 0 /\ i \in 0 .. n /\ ps[i + 1] = p
    <3>1. i + 1 \in 1 .. n /\ (i + 1) - 1 = i
      BY <1>1
    <3>. QED
      BY <1>1, <1>2, <3>1
  <2>2. Done(c, i)
    BY <2>1
  <2>. HIDE DEF ps, e, p
  <2>3. SUFFICES e \in Buffers /\ Done(e, i + 1)
    BY <2>1 DEF e
  <2>. HIDE DEF V
  <2>4. PICK k \in Nat : Rewritten(d, c, k, SubSeq(s, 1, u(i)))
    BY <2>2
  <2>5. p \in Seq(Byte) /\ p # <<>> /\ SubSeq(s, 1, u(i)) \o p = SubSeq(s, 1, u(i + 1))
    <3>1. u(i) = Start(i, w)
      <4>1. i # n
        BY <1>1
      <4>. QED
        BY <4>1 DEF u, Upto
    <3>2. u(i + 1) = IF i = n - 1 THEN Len(s) ELSE Start(i + 1, w)
      <4>1. i + 1 = n <=> i = n - 1
        BY <1>1
      <4>. QED
        BY <4>1 DEF u, Upto
    <3>. QED
      <4>1. /\ p \in Seq(Byte) /\ p # <<>>
            /\ SubSeq(s, 1, Start(i, w)) \o p =
                 SubSeq(s, 1, IF i = n - 1 THEN Len(s) ELSE Start(i + 1, w))
        BY PayloadIs, ZenonT(30) DEF p
      <4>. QED
        BY <3>1, <3>2, <4>1, Zenon
  <2>6. PICK q \in Nat : q > 0 /\ Rewritten(d, e, q, SubSeq(s, 1, u(i + 1)))
    BY <2>4, <2>5, RewriteMore DEF e
  <2>7. e \in Buffers
    BY <2>6 DEF Rewritten, Shape
  <2>. QED
    BY <2>6, <2>7
<1>5. Rewrites!Fold(d, ps) \in V[n]
  <2>. HIDE DEF V, ps
  <2>. QED
    BY <1>1, <1>2, <1>3, <1>4, Rewrites!FoldInduction
<1>6. FoldLeft(Appended, d, ps) = Rewrites!Fold(d, ps)
  BY Zenon DEF FoldLeft, MapThenFoldSet, Max,
               Rewrites!Fold, Rewrites!FoldLeft, Rewrites!MapThenFoldSet, Rewrites!Max
<1>. DEFINE c == FoldLeft(Appended, d, ps)
<1>. HIDE DEF ps, c
<1>7. Done(c, n)
  <2>1. n \in 0 .. n
    BY <1>1
  <2>. QED
    BY <1>5, <1>6, <2>1 DEF c
<1>8. SubSeq(s, 1, u(n)) = s
  <2>1. u(n) = Len(s) /\ Len(s) \in 0 .. Len(s)
    BY <1>1 DEF u, Upto
  <2>. QED
    BY <1>1, <2>1, Parts
<1>9. n # 0
  BY <1>1
<1>10. \E k \in Nat : k > 0 /\ Rewritten(d, c, k, s)
  BY <1>7, <1>8, <1>9
<1>. QED
  BY <1>10 DEF c, d, ps

\* What Split and Merge come to.
Recut(b, c, k, s) ==
  /\ Shape(c, k, s) /\ Reading(c, k, s) /\ SameHeader(b, c) /\ k > 0
  /\ c.MTU # 0 /\ c.size = Len(s)
  /\ IF b.heads > 0 THEN Framed(c, k) ELSE Plain(c, k)

\* split leaves the bytes, in other fragments.
LEMMA ResplitIs ==
  ASSUME NEW b, NEW n, NEW s, Shape(b, n, s), n > 0, NEW mtu, mtu \in Nat,
         mtu > b.heads + b.lenChecksum
  PROVE  \E k \in Nat : Recut(b, Resplit(b, mtu), k, s)
<1>. DEFINE d == Emptied(b, mtu)
            e == FoldLeft(Appended, d, Payloads(b))
            c == Finished(e)
<1>1. PICK k \in Nat : k > 0 /\ Rewritten(d, e, k, s)
  BY RewritesIs
<1>2. b \in Buffers /\ b.heads \in Nat /\ b.lenChecksum \in Nat /\ b.lenChecksum <= ChecksumLen
  BY DEF Shape, Buffers
<1>3. SameHeader(b, d)
  BY <1>2, EmptiedIs
<1>4. Resplit(b, mtu) = c
  <2>1. ~ (mtu <= b.heads + b.lenChecksum)
    BY <1>2
  <2>. QED
    BY <2>1 DEF Resplit, Emptied
<1>. HIDE DEF d, e
<1>5. /\ Shape(e, k, s) /\ Reading(e, k, s) /\ Unsealed(e, k)
      /\ SameHeader(b, e) /\ e.MTU # 0 /\ e.size = Len(s) /\ e.heads = b.heads
  BY <1>1, <1>3 DEF Rewritten, SameHeader
<1>6. CASE b.heads = 0
  <2>1. c = e
    BY <1>5, <1>6 DEF Finished
  <2>2. ~ (b.heads > 0)
    BY <1>6
  <2>. QED
    BY <1>1, <1>4, <1>5, <2>1, <2>2 DEF Recut, Unsealed
<1>7. CASE b.heads # 0
  <2>1. b.heads > 0 /\ e.heads > 0 /\ Plain(e, k)
    BY <1>2, <1>5, <1>7 DEF Unsealed
  <2>2. /\ Shape(c, k, s) /\ Framed(c, k)
        /\ Same(e, c) /\ c.MTU = e.MTU /\ c.size = e.size /\ c.windex = e.windex
        /\ \A i \in 0 .. k - 1 : Avail(c, i) = Avail(e, i)
    BY <1>1, <1>5, <2>1, FinishedIs
  <2>. HIDE DEF c
  <2>3. Unit(c) = Unit(e)
    BY <1>5, <2>2 DEF Unit, Width, Sized, Same
  <2>4. Reading(c, k, s)
    BY <1>5, <2>2, <2>3, ReadingSame DEF Same
  <2>5. SameHeader(b, c)
    BY <1>5, <2>2 DEF SameHeader, Same
  <2>. QED
    BY <1>1, <1>4, <1>5, <2>1, <2>2, <2>4, <2>5 DEF Recut
<1>. QED
  BY <1>6, <1>7

\* Merge leaves the bytes, in one fragment if there were more.
LEMMA MergedIs ==
  ASSUME NEW b, NEW n, NEW s, Shape(b, n, s)
  PROVE  IF n < 2 THEN Merged(b) = b ELSE \E k \in Nat : Recut(b, Merged(b), k, s)
<1>. DEFINE r == Rewound(b)
            mtu == r.size + r.heads + r.lenChecksum
<1>1. n \in Nat /\ N(b) = n /\ Len(s) \in Nat
  BY ShapeFacts
<1>2. n < 2 => Merged(b) = b
  BY <1>1 DEF Merged, N
<1>3. ASSUME ~ (n < 2) PROVE \E k \in Nat : Recut(b, Merged(b), k, s)
  <2>1. Shape(r, n, s) /\ r.size = Len(s) /\ Kept(b, r)
    BY RewoundIs
  <2>2. Merged(b) = Resplit(r, mtu)
    BY <1>1, <1>3, <2>1 DEF Merged, N, Kept
  <2>. HIDE DEF r
  <2>3. n > 0 /\ Len(s) > 0
    <3>1. Cut(b.frags, n, Unit(b), s) /\ n > 0 /\ n - 1 \in 0 .. n - 1
      BY <1>1, <1>3 DEF Shape
    <3>2. Start(n - 1, Unit(b)) < Len(s) /\ Start(n - 1, Unit(b)) \in Nat
      <4>1. Start(n - 1, Unit(b)) \in Nat
        BY <3>1, CutFacts
      <4>. QED
        BY <3>1, <4>1 DEF Cut
    <3>. QED
      BY <1>1, <3>1, <3>2
  <2>4. r.heads \in Nat /\ r.lenChecksum \in Nat
    BY <2>1 DEF Shape, Buffers
  <2>5. mtu \in Nat /\ mtu > r.heads + r.lenChecksum
    BY <1>1, <2>1, <2>3, <2>4
  <2>. HIDE DEF mtu
  <2>6. PICK k \in Nat : Recut(r, Resplit(r, mtu), k, s)
    BY <2>1, <2>3, <2>5, ResplitIs
  <2>7. Recut(b, Resplit(r, mtu), k, s)
    BY <2>1, <2>6 DEF Recut, SameHeader, Kept
  <2>. QED
    BY <2>2, <2>7
<1>. QED
  BY <1>2, <1>3

-----------------------------------------------------------------------------
(* Pipe: the frames pushed into a new Buffer. *)

\* The Schema of what is sent.
TheSchema == [types |-> type, tid |-> tid]

\* The new Buffer, with fragments g.
Box(h, z, l, schema, size, g) ==
  [schema |-> schema, heads |-> h, headSize |-> z, lenChecksum |-> l, MTU |-> 0,
   size |-> size, index |-> 0, pos |-> 0, windex |-> 0, frags |-> g]

\* Push puts a fragment into the slot of its number and counts its bytes.
LEMMA PushedIs ==
  ASSUME NEW h, NEW z, NEW l, NEW schema, schema \in {NoSchema, TheSchema}, NEW size, NEW g,
         schema = NoSchema => g = EmptyMap,
         NEW frag, frag \in Fragment, NEW i, Number(frag.fid) - 1 = i
  PROVE  Pushed(Box(h, z, l, schema, size, g), frag) =
           Box(h, z, l, TheSchema,
               size - (IF i \in DOMAIN g THEN g[i].len ELSE 0) + frag.len, Put(g, i, frag))
<1>. DEFINE c == Box(h, z, l, schema, size, g)
            o == Box(h, z, l, TheSchema, size, g)
<1>1. frag.types = type /\ frag.tid = tid /\ SchemaOf(frag) = TheSchema
  BY DEF Fragment, SchemaOf, TheSchema
<1>2. TheSchema # NoSchema
  BY NoSchemaAssumption, FragmentAssumption DEF TheSchema, Schemas
<1>3. Opened(c, frag) = o
  <2>1. CASE schema = NoSchema
    BY <1>1, <2>1 DEF Opened, Box
  <2>2. CASE schema = TheSchema
    BY <1>2, <2>2 DEF Opened, Box
  <2>. QED
    BY <2>1, <2>2
<1>4. PushError(c, frag) = "nil"
  <2>1. o.schema.types = frag.types /\ o.schema.tid = frag.tid
    BY <1>1 DEF Box, TheSchema
  <2>. QED
    BY <1>3, <2>1 DEF PushError
<1>5. Pushed(c, frag) = Stored(o, frag)
  BY <1>3, <1>4 DEF Pushed
<1>6. o.frags = g /\ o.size = size
  BY DEF Box
<1>7. Stored(o, frag) = [o EXCEPT !.frags = Put(g, i, frag),
                                  !.size = size - (IF i \in DOMAIN g THEN g[i].len ELSE 0) + frag.len]
  BY <1>6, Zenon DEF Stored
<1>. DEFINE q == size - (IF i \in DOMAIN g THEN g[i].len ELSE 0) + frag.len
            m == Put(g, i, frag)
<1>0. o = Box(h, z, l, TheSchema, size, g)
  OBVIOUS
<1>. HIDE DEF q, m, o
<1>8. [o EXCEPT !.frags = m, !.size = q] = Box(h, z, l, TheSchema, q, m)
  <2>. DEFINE u == [o EXCEPT !.frags = m]
  <2>1. u = Box(h, z, l, TheSchema, size, m)
    BY <1>0 DEF Box
  <2>2. [u EXCEPT !.size = q] = Box(h, z, l, TheSchema, q, m)
    <3>. HIDE DEF u
    <3>. QED
      BY <2>1 DEF Box
  <2>. QED
    BY <2>2
<1>. QED
  BY <1>5, <1>7, <1>8 DEF q, m, o

\* What a receiver makes of a frame: the fragment with the number of its header.
LEMMA DecodedIs ==
  ASSUME NEW b, NEW n, NEW s, Shape(b, n, s), Framed(b, n), n <= ShortMax, NEW i, i \in 0 .. n - 1
  PROVE  LET d == Decoded(b.frags[i])
             f == b.frags[i]
         IN  /\ d \in Fragment /\ Number(d.fid) - 1 = i
             /\ d.fid \in Int /\ (d.fid < 0 <=> i = n - 1)
             /\ d.payload = f.payload /\ d.len = f.len /\ d.head = f.head /\ d.sum = f.sum
<1>. DEFINE f == b.frags[i]
            d == Decoded(f)
<1>1. n \in Nat /\ f \in Fragment /\ i \in Nat /\ ShortMax \in Nat
  BY ShapeFacts, FragmentAssumption
<1>2. d = [f EXCEPT !.fid = f.head.fid]
  BY DEF Decoded
<1>3. f.head.fid = IF i = n - 1 THEN Short(-n) ELSE Short(i + 1)
  <2>1. IF i = n - 1 THEN f.head = [fid |-> Short(-n), size |-> Short(Avail(b, i))]
        ELSE f.head.fid = Short(i + 1)
    BY DEF Framed
  <2>. QED
    BY <2>1
<1>. HIDE DEF f, d
<1>4. /\ d \in Fragment /\ d.fid = f.head.fid
      /\ d.payload = f.payload /\ d.len = f.len /\ d.head = f.head /\ d.sum = f.sum
  <2>1. f.head.fid \in Int
    BY <1>1 DEF Fragment
  <2>. QED
    BY <1>1, <1>2, <2>1 DEF Fragment
<1>5. Short(-n) = -n
  <2>1. -n \in Int /\ -ShortMax <= -n /\ -n < ShortMax
    BY <1>1, FragmentAssumption
  <2>. QED
    BY <2>1, ShortIs
<1>6. i # n - 1 => Short(i + 1) = i + 1
  <2>. SUFFICES ASSUME i # n - 1 PROVE Short(i + 1) = i + 1
    OBVIOUS
  <2>1. i + 1 \in Int /\ -ShortMax <= i + 1 /\ i + 1 < ShortMax
    BY <1>1
  <2>. QED
    BY <2>1, ShortIs
<1>7. d.fid = IF i = n - 1 THEN -n ELSE i + 1
  BY <1>3, <1>4, <1>5, <1>6
<1>8. d.fid \in Int /\ (d.fid < 0 <=> i = n - 1) /\ Number(d.fid) - 1 = i
  BY <1>1, <1>7 DEF Number
<1>. QED
  BY <1>4, <1>8 DEF d, f

\* The slots that are filled after f first, if there is an f, and i more.
Slots(i, f, n) == 0 .. i - 1 \cup (IF f < n THEN {f} ELSE {})

\* The bytes in these slots.
Total(i, f, n, w, s) ==
  Upto(i, n, w, s) + (IF f < n /\ f >= i THEN PieceLen(n, w, s, f) ELSE 0)

\* The new Buffer with these slots filled.
Pile(b, n, s, h, z, l, i, f) ==
  Box(h, z, l, IF i = 0 /\ f = n THEN NoSchema ELSE TheSchema, Total(i, f, n, Unit(b), s),
      [j \in Slots(i, f, n) |-> Decoded(b.frags[j])])

\* One fragment more.
LEMMA UptoNext ==
  ASSUME NEW n, NEW w, NEW s, NEW g, Cut(g, n, w, s), NEW i, i \in 0 .. n - 1
  PROVE  /\ Upto(0, n, w, s) = 0 /\ Upto(i, n, w, s) \in Nat
         /\ PieceLen(n, w, s, i) \in Nat
         /\ Upto(i + 1, n, w, s) = Upto(i, n, w, s) + PieceLen(n, w, s, i)
<1>1. /\ n \in Nat /\ w \in Nat /\ i \in Nat /\ Len(s) \in Nat /\ i # n
      /\ Start(i, w) \in Nat /\ PieceLen(n, w, s, i) \in 1 .. w
  <2>1. n \in Nat /\ w \in Nat /\ Len(s) \in Nat /\ Start(i, w) \in Nat /\ PieceLen(n, w, s, i) \in 1 .. w
    BY CutFacts
  <2>. QED
    BY <2>1
<1>2. Start(0, w) = 0 /\ Start(i + 1, w) = Start(i, w) + w
  BY <1>1, StartFacts
<1>3. n # 0
  BY <1>1
<1>4. Upto(0, n, w, s) = 0 /\ Upto(i, n, w, s) = Start(i, w)
  BY <1>1, <1>2, <1>3 DEF Upto
<1>5. CASE i = n - 1
  <2>1. i + 1 = n
    BY <1>1, <1>5
  <2>2. Upto(i + 1, n, w, s) = Len(s) /\ PieceLen(n, w, s, i) = Len(s) - Start(i, w)
    BY <1>5, <2>1 DEF Upto, PieceLen
  <2>. QED
    BY <1>1, <1>4, <2>2
<1>6. CASE i # n - 1
  <2>1. i + 1 # n
    BY <1>1, <1>6
  <2>2. Upto(i + 1, n, w, s) = Start(i + 1, w) /\ PieceLen(n, w, s, i) = w
    BY <1>6, <2>1 DEF Upto, PieceLen
  <2>. QED
    BY <1>1, <1>2, <1>4, <2>2
<1>. QED
  BY <1>5, <1>6

\* Pushing frame i takes pile i to the next one.
Piles(b, n, s, h, z, l, i, f) ==
  Pushed(Pile(b, n, s, h, z, l, i, f), Decoded(b.frags[i])) = Pile(b, n, s, h, z, l, i + 1, f)

\* Pushing the frames in their order fills one slot after the other.
LEMMA PushStep ==
  ASSUME NEW b, NEW n, NEW s, Shape(b, n, s), Framed(b, n), n <= ShortMax,
         NEW h, NEW z, NEW l, NEW i, i \in 0 .. n - 1, NEW f, f \in 0 .. n
  PROVE  Piles(b, n, s, h, z, l, i, f)
<1>. DEFINE w == Unit(b)
            d == Decoded(b.frags[i])
            g == [j \in Slots(i, f, n) |-> Decoded(b.frags[j])]
            e == [j \in Slots(i + 1, f, n) |-> Decoded(b.frags[j])]
            schema == IF i = 0 /\ f = n THEN NoSchema ELSE TheSchema
            t == Total(i, f, n, w, s)
            u == Total(i + 1, f, n, w, s)
            p == PieceLen(n, w, s, i)
            freed == IF i \in DOMAIN g THEN g[i].len ELSE 0
<1>1. n \in Nat /\ i \in Nat /\ f \in Nat /\ Cut(b.frags, n, w, s)
  <2>1. n \in Nat
    BY ShapeFacts
  <2>. QED
    BY <2>1 DEF Shape
<1>2. d \in Fragment /\ Number(d.fid) - 1 = i /\ d.len = p
  <2>1. b.frags[i].len = p
    BY <1>1 DEF Cut
  <2>. QED
    BY <2>1, DecodedIs
<1>3. schema \in {NoSchema, TheSchema} /\ (schema = NoSchema => g = EmptyMap)
  <2>1. TheSchema # NoSchema
    BY NoSchemaAssumption, FragmentAssumption DEF TheSchema, Schemas
  <2>2. i = 0 /\ f = n => Slots(i, f, n) = {}
    BY <1>1 DEF Slots
  <2>. QED
    BY <2>1, <2>2 DEF EmptyMap
<1>4. Put(g, i, d) = e
  <2>1. Slots(i + 1, f, n) = Slots(i, f, n) \cup {i}
    <3>1. 0 .. (i + 1) - 1 = 0 .. i - 1 \cup {i}
      BY <1>1
    <3>. QED
      BY <3>1 DEF Slots
  <2>. QED
    BY <2>1 DEF Put
<1>5. freed = IF i = f THEN p ELSE 0
  <2>1. i \in Slots(i, f, n) <=> i = f
    BY <1>1 DEF Slots
  <2>2. i \in Slots(i, f, n) => g[i] = d
    OBVIOUS
  <2>. QED
    BY <1>2, <2>1, <2>2
<1>6. p \in Nat /\ Upto(i, n, w, s) \in Nat /\ Upto(i + 1, n, w, s) = Upto(i, n, w, s) + p
  BY <1>1, UptoNext
<1>7. f < n => PieceLen(n, w, s, f) \in Nat
  <2>. SUFFICES ASSUME f < n PROVE PieceLen(n, w, s, f) \in Nat
    OBVIOUS
  <2>1. f \in 0 .. n - 1
    BY <1>1
  <2>. QED
    BY <1>1, <2>1, UptoNext
<1>. DEFINE a == Upto(i, n, w, s)
            o == Upto(i + 1, n, w, s)
            q == PieceLen(n, w, s, f)
<1>8. t = a + (IF f < n /\ f >= i THEN q ELSE 0) /\ u = o + (IF f < n /\ f >= i + 1 THEN q ELSE 0)
  BY DEF Total
<1>9. i = f => q = p
  OBVIOUS
<1>. HIDE DEF a, o, q, p, t, u, freed, w
<1>10. t - freed + p = u
  <2>1. CASE i = f
    <3>1. f < n /\ f >= i /\ ~ (f >= i + 1)
      BY <1>1, <2>1
    <3>2. t = a + p /\ u = o + 0 /\ freed = p
      BY <1>5, <1>8, <1>9, <2>1, <3>1
    <3>. QED
      BY <1>6, <3>2 DEF a, o
  <2>2. CASE i # f
    <3>1. f < n => (f >= i <=> f >= i + 1)
      BY <1>1, <2>2
    <3>2. PICK r \in Nat : t = a + r /\ u = o + r
      <4>1. CASE f < n /\ f >= i
        <5>1. f >= i + 1
          BY <3>1, <4>1
        <5>2. q \in Nat
          BY <1>7, <4>1 DEF q, w
        <5>. QED
          BY <1>8, <4>1, <5>1, <5>2
      <4>2. CASE ~ (f < n /\ f >= i)
        <5>1. ~ (f < n /\ f >= i + 1)
          BY <3>1, <4>2
        <5>2. t = a + 0 /\ u = o + 0
          BY <1>8, <4>2, <5>1
        <5>. QED
          BY <5>2
      <4>. QED
        BY <4>1, <4>2
    <3>3. freed = 0
      BY <1>5, <2>2
    <3>. QED
      BY <1>6, <3>2, <3>3 DEF a, o
  <2>. QED
    BY <2>1, <2>2
<1>. HIDE DEF g, e, schema, d
<1>11. Pushed(Box(h, z, l, schema, t, g), d) = Box(h, z, l, TheSchema, t - freed + d.len, Put(g, i, d))
  BY <1>2, <1>3, PushedIs DEF freed
<1>12. Pile(b, n, s, h, z, l, i, f) = Box(h, z, l, schema, t, g)
  BY DEF Pile, schema, t, g, w
<1>13. Pile(b, n, s, h, z, l, i + 1, f) = Box(h, z, l, TheSchema, u, e)
  <2>1. i + 1 # 0
    BY <1>1
  <2>. QED
    BY <2>1 DEF Pile, u, e, w
<1>. QED
  BY <1>2, <1>4, <1>10, <1>11, <1>12, <1>13 DEF d, Piles

\* The first frame of Pipe opens the new Buffer.
LEMMA PushFirst ==
  ASSUME NEW b, NEW n, NEW s, Shape(b, n, s), Framed(b, n), n <= ShortMax,
         NEW h, NEW z, NEW l, NEW f, f \in 0 .. n - 1
  PROVE  Pushed(Box(h, z, l, NoSchema, 0, EmptyMap), Decoded(b.frags[f]))
           = Pile(b, n, s, h, z, l, 0, f)
<1>. DEFINE w == Unit(b)
            d == Decoded(b.frags[f])
            p == PieceLen(n, w, s, f)
            freed == IF f \in DOMAIN EmptyMap THEN EmptyMap[f].len ELSE 0
            m == Put(EmptyMap, f, d)
            g == [j \in Slots(0, f, n) |-> Decoded(b.frags[j])]
<1>1. n \in Nat /\ f \in Nat /\ f # n /\ Cut(b.frags, n, w, s)
  <2>1. n \in Nat
    BY ShapeFacts
  <2>. QED
    BY <2>1 DEF Shape
<1>2. d \in Fragment /\ Number(d.fid) - 1 = f /\ d.len = p
  <2>1. b.frags[f].len = p
    BY <1>1 DEF Cut
  <2>. QED
    BY <2>1, DecodedIs
<1>3. m = g
  <2>1. Slots(0, f, n) = {f} /\ DOMAIN EmptyMap \cup {f} = {f}
    BY <1>1, EmptyMapIs DEF Slots
  <2>. QED
    BY <2>1 DEF Put
<1>4. freed = 0
  BY EmptyMapIs
<1>5. Total(0, f, n, w, s) = p /\ p \in Nat
  <2>1. Upto(0, n, w, s) = 0 /\ p \in Nat
    BY <1>1, UptoNext
  <2>2. f < n /\ f >= 0
    BY <1>1
  <2>. QED
    BY <2>1, <2>2 DEF Total
<1>. HIDE DEF d, p, m, g, w
<1>6. NoSchema \in {NoSchema, TheSchema}
  OBVIOUS
<1>7. Pushed(Box(h, z, l, NoSchema, 0, EmptyMap), d) = Box(h, z, l, TheSchema, 0 - freed + d.len, m)
  <2>. HIDE DEF freed
  <2>. QED
    BY <1>2, <1>6, PushedIs DEF m, freed
<1>8. 0 - freed + d.len = p
  BY <1>2, <1>4, <1>5
<1>9. Pile(b, n, s, h, z, l, 0, f) = Box(h, z, l, TheSchema, Total(0, f, n, w, s), g)
  BY <1>1 DEF Pile, g, w
<1>. QED
  BY <1>3, <1>5, <1>7, <1>8, <1>9 DEF d

\* The frames of b as a receiver gets them, in their order.
Frames(b) == [k \in DOMAIN Fragments(b) |-> Decoded(Fragments(b)[k])]

\* Pushing all frames fills all slots, whether one was pushed before or not.
LEMMA PushesIs ==
  ASSUME NEW b, NEW n, NEW s, Shape(b, n, s), Framed(b, n), n <= ShortMax,
         NEW h, NEW z, NEW l, NEW f, f \in 0 .. n
  PROVE  FoldLeft(Pushed, Pile(b, n, s, h, z, l, 0, f), Frames(b)) = Pile(b, n, s, h, z, l, n, f)
<1>. DEFINE seq == Frames(b)
            pile(i) == Pile(b, n, s, h, z, l, i, f)
            V == [i \in 0 .. n |-> {pile(i)}]
<1>1. n \in Nat /\ N(b) = n /\ n > 0
  BY ShapeFacts DEF Framed
<1>2. DOMAIN seq = 1 .. n /\ \A i \in 0 .. n - 1 : seq[i + 1] = Decoded(b.frags[i])
  <2>1. DOMAIN seq = 1 .. n /\ \A k \in 1 .. n : seq[k] = Decoded(b.frags[k - 1])
    BY <1>1 DEF Frames, Fragments, N
  <2>2. \A i \in 0 .. n - 1 : i + 1 \in 1 .. n /\ (i + 1) - 1 = i
    BY <1>1
  <2>. QED
    BY <2>1, <2>2
<1>3. \A i \in 0 .. n - 1 : Pushed(pile(i), seq[i + 1]) = pile(i + 1)
  <2>. SUFFICES ASSUME NEW i \in 0 .. n - 1 PROVE Pushed(pile(i), seq[i + 1]) = pile(i + 1)
    OBVIOUS
  <2>1. seq[i + 1] = Decoded(b.frags[i])
    BY <1>2
  <2>2. Pushed(Pile(b, n, s, h, z, l, i, f), Decoded(b.frags[i]))
          = Pile(b, n, s, h, z, l, i + 1, f)
    <3>1. Piles(b, n, s, h, z, l, i, f)
      BY PushStep
    <3>. QED
      BY <3>1 DEF Piles
  <2>. QED
    BY <2>1, <2>2
<1>. HIDE DEF seq, pile
<1>4. \A i \in 0 .. n - 1 : \A c \in V[i] : Pushed(c, seq[i + 1]) \in V[i + 1]
  <2>. SUFFICES ASSUME NEW i \in 0 .. n - 1, NEW c \in V[i] PROVE Pushed(c, seq[i + 1]) \in V[i + 1]
    OBVIOUS
  <2>1. i \in 0 .. n /\ i + 1 \in 0 .. n
    BY <1>1
  <2>2. c = pile(i) /\ V[i + 1] = {pile(i + 1)}
    BY <2>1
  <2>. QED
    BY <1>3, <2>2
<1>5. pile(0) \in V[0]
  <2>1. 0 \in 0 .. n
    BY <1>1
  <2>. QED
    BY <2>1
<1>6. V[n] = {pile(n)}
  <2>1. n \in 0 .. n
    BY <1>1
  <2>. QED
    BY <2>1
<1>. HIDE DEF V
<1>7. Pushes!Fold(pile(0), seq) \in V[n]
  BY <1>1, <1>2, <1>4, <1>5, Pushes!FoldInduction
<1>8. FoldLeft(Pushed, pile(0), seq) = Pushes!Fold(pile(0), seq)
  BY Zenon DEF FoldLeft, MapThenFoldSet, Max,
               Pushes!Fold, Pushes!FoldLeft, Pushes!MapThenFoldSet, Pushes!Max
<1>9. FoldLeft(Pushed, pile(0), seq) = pile(n)
  BY <1>6, <1>7, <1>8
<1>. QED
  BY <1>9 DEF pile, seq

\* One fragment is as wide as its bytes; of several the first is of full width.
LEMMA CutUnit ==
  ASSUME NEW f, NEW n, NEW w, NEW s, Cut(f, n, w, s), n > 0
  PROVE  Cut(f, n, Len(f[0].payload), s) /\ Len(f[0].payload) \in Nat /\ Len(f[0].payload) > 0
<1>. DEFINE v == Len(f[0].payload)
<1>1. n \in Nat /\ w \in Nat /\ 0 \in 0 .. n - 1 /\ Len(s) \in Nat
  <2>1. n \in Nat /\ w \in Nat /\ Len(s) \in Nat
    BY CutFacts
  <2>. QED
    BY <2>1
<1>2. v = PieceLen(n, w, s, 0) /\ v \in 1 .. w
  BY <1>1, CutFacts
<1>3. CASE n = 1
  <2>1. Start(0, w) = 0 /\ Start(n - 1, w) = 0
    BY <1>1, <1>3, StartFacts
  <2>2. v = Len(s) /\ v \in Nat /\ v > 0
    BY <1>1, <1>2, <1>3, <2>1 DEF PieceLen
  <2>3. Start(0, v) = 0 /\ Start(1, v) = v
    BY <2>2, StartFacts
  <2>4. Start(n - 1, v) = 0 /\ Start(n, v) = v
    BY <1>3, <2>3
  <2>5. \A i \in 0 .. n - 1 : i = 0 /\ PieceLen(n, v, s, i) = PieceLen(n, w, s, i)
                              /\ Start(i, v) = Start(i, w)
    <3>1. \A i \in 0 .. n - 1 : i = 0 /\ i = n - 1
      BY <1>1, <1>3
    <3>. QED
      BY <2>1, <2>3, <3>1 DEF PieceLen
  <2>. HIDE DEF v
  <2>6. Cut(f, n, v, s)
    BY <2>2, <2>4, <2>5 DEF Cut
  <2>. QED
    BY <2>2, <2>6 DEF v
<1>4. CASE n # 1
  <2>1. v = w
    <3>1. 0 # n - 1
      BY <1>1, <1>4
    <3>. QED
      BY <1>2, <3>1 DEF PieceLen
  <2>. QED
    BY <1>1, <1>2, <2>1
<1>. QED
  BY <1>3, <1>4

\* The Buffer that was sent has arrived.
Arrived(b, c, n, s, h) ==
  /\ Shape(c, n, s) /\ Reading(c, n, s) /\ Numbered(c, n) /\ DOMAIN c.frags = 0 .. n - 1
  /\ c.MTU = 0 /\ c.size = Len(s) /\ c.heads = h
  /\ (c.heads > 0 /\ \A i \in 0 .. n - 1 : Decodes(b.frags[i])) => Framed(c, n)

\* The Buffer that all frames were pushed into has what was sent.
LEMMA PileIs ==
  ASSUME NEW b, NEW n, NEW s, Shape(b, n, s), Framed(b, n), n <= ShortMax,
         NEW h, NEW z, NEW l, h \in Nat, z \in Int, l \in Nat, l <= ChecksumLen,
         NEW f, f \in 0 .. n
  PROVE  Arrived(b, Pile(b, n, s, h, z, l, n, f), n, s, h)
<1>. DEFINE w == Unit(b)
            g == [j \in 0 .. n - 1 |-> Decoded(b.frags[j])]
            c == Pile(b, n, s, h, z, l, n, f)
<1>1. n \in Nat /\ n > 0 /\ n # 0 /\ Len(s) \in Nat /\ Cut(b.frags, n, w, s) /\ 0 \in 0 .. n - 1
  <2>1. n \in Nat /\ n > 0 /\ Len(s) \in Nat
    BY ShapeFacts DEF Framed
  <2>2. 0 \in 0 .. n - 1
    BY <2>1
  <2>. QED
    BY <2>1, <2>2 DEF Shape
<1>2. c = Box(h, z, l, TheSchema, Len(s), g)
  <2>1. Slots(n, f, n) = 0 .. n - 1
    BY <1>1 DEF Slots
  <2>2. Total(n, f, n, w, s) = Len(s)
    <3>1. Upto(n, n, w, s) = Len(s) /\ ~ (f < n /\ f >= n)
      BY <1>1 DEF Upto
    <3>2. Total(n, f, n, w, s) = Len(s) + 0
      BY <3>1 DEF Total
    <3>. QED
      BY <1>1, <3>2
  <2>. QED
    BY <1>1, <2>1, <2>2 DEF Pile
<1>3. \A j \in 0 .. n - 1 :
        LET d == g[j]
            e == b.frags[j]
        IN  /\ d \in Fragment /\ d.fid \in Int /\ (d.fid < 0 <=> j = n - 1)
            /\ d.payload = e.payload /\ d.len = e.len /\ d.head = e.head /\ d.sum = e.sum
  BY DecodedIs
<1>4. g \in [0 .. n - 1 -> Fragment] /\ DOMAIN g = 0 .. n - 1
  BY <1>3
<1>. HIDE DEF g, c
<1>5. Cut(g, n, w, s)
  BY <1>1, <1>3, <1>4 DEF Cut
<1>6. /\ c.frags = g /\ c.heads = h /\ c.headSize = z /\ c.lenChecksum = l /\ c.MTU = 0
      /\ c.size = Len(s) /\ c.index = 0 /\ c.pos = 0 /\ c.windex = 0
  BY <1>2 DEF Box
<1>7. c \in Buffers
  <2>1. g \in Frags
    BY <1>1, <1>4 DEF Frags
  <2>. DEFINE k == Len(s)
  <2>2. k \in Int
    BY <1>1
  <2>3. c = Box(h, z, l, TheSchema, k, g)
    BY <1>2
  <2>. HIDE DEF k
  <2>. QED
    BY <2>1, <2>2, <2>3 DEF Box, TheSchema, Buffers
<1>8. Unit(c) = Len(g[0].payload)
  <2>1. N(c) = n
    <3>1. Cardinality(0 .. n - 1) = n
      BY <1>1, FS_Interval
    <3>. QED
      BY <1>4, <1>6, <3>1 DEF N
  <2>. QED
    BY <1>1, <1>6, <2>1 DEF Unit, Avail
<1>9. Cut(c.frags, n, Unit(c), s) /\ Unit(c) \in Nat
  BY <1>1, <1>5, <1>6, <1>8, CutUnit
<1>10. Shape(c, n, s)
  BY <1>6, <1>7, <1>9 DEF Shape
<1>11. Reading(c, n, s)
  <2>1. Start(0, Unit(c)) = 0
    BY <1>9, StartFacts
  <2>2. Avail(c, 0) \in Nat
    <3>1. g[0].payload \in Seq(Byte)
      BY <1>1, <1>3 DEF Fragment
    <3>. QED
      BY <1>6, <3>1, LenProperties DEF Avail
  <2>. QED
    BY <1>1, <1>6, <2>1, <2>2 DEF Reading
<1>12. Numbered(c, n)
  BY <1>3, <1>4, <1>6 DEF Numbered
<1>13. ASSUME h > 0, \A i \in 0 .. n - 1 : Decodes(b.frags[i])
       PROVE  Framed(c, n)
  <2>1. ASSUME NEW i \in 0 .. n - 1
        PROVE  /\ i = n - 1 => g[i].head = [fid |-> Short(-n), size |-> Short(Avail(c, i))]
               /\ i # n - 1 => g[i].head.fid = Short(i + 1) /\ g[i].head.size = Avail(c, i)
               /\ g[i].sum = [fid |-> g[i].head.fid, size |-> g[i].head.size, payload |-> g[i].payload]
    <3>1. g[i].payload = b.frags[i].payload /\ g[i].head = b.frags[i].head /\ g[i].sum = b.frags[i].sum
      BY <1>3
    <3>2. Avail(c, i) = Avail(b, i)
      BY <1>6, <3>1 DEF Avail
    <3>3. b.frags[i].head.size = Avail(b, i)
      BY <1>13 DEF Decodes, Avail
    <3>4. /\ i = n - 1 => b.frags[i].head = [fid |-> Short(-n), size |-> Short(Avail(b, i))]
          /\ i # n - 1 => b.frags[i].head.fid = Short(i + 1)
          /\ b.frags[i].sum = [fid |-> b.frags[i].head.fid, size |-> b.frags[i].head.size,
                               payload |-> b.frags[i].payload]
      BY DEF Framed
    <3>. QED
      BY <3>1, <3>2, <3>3, <3>4
  <2>2. ASSUME NEW i \in 0 .. n - 1 PROVE Decodes(c.frags[i])
    <3>1. g[i].payload = b.frags[i].payload /\ g[i].head = b.frags[i].head /\ g[i].sum = b.frags[i].sum
      BY <1>3
    <3>. QED
      BY <1>6, <1>13, <3>1 DEF Decodes
  <2>. QED
    BY <1>1, <1>6, <1>13, <2>1, <2>2 DEF Framed
<1>14. Arrived(b, c, n, s, h)
  BY <1>4, <1>6, <1>10, <1>11, <1>12, <1>13 DEF Arrived
<1>. QED
  BY <1>14 DEF c

-----------------------------------------------------------------------------
(* The invariant. *)

\* How many bytes were read.
Cursor(b) == Len(Stream(b)) - b.size

\* The open size fields, as offsets in the stream.
Starts(b, op) == [k \in DOMAIN op |-> op[k].index * Wavail(b) + op[k].pos]

\* The places op were written in b, and the bytes behind them are counted.
Nested(b, op, s) ==
  /\ op \in Seq([index : Nat, pos : Nat, size : Int])
  /\ op # <<>> => b.MTU # 0
  /\ \A k \in 1 .. Len(op) :
       /\ Offset(op[k], Unit(b)) + SizeT <= Len(s)
       /\ op[k].size = Offset(op[k], Unit(b)) - (Len(s) - b.size)

\* What the phase of a Buffer says of its headers, frames and open size fields.
Phased(b, n, op, ph) ==
  /\ ph \in {"raw", "saving", "sealed", "panicked"}
  /\ ph = "raw" => b.heads = 0 /\ Unsealed(b, n)
  /\ ph = "saving" => b.heads > 0 /\ b.MTU # 0 /\ Unsealed(b, n)
  /\ ph = "sealed" => Framed(b, n) /\ op = <<>>
  /\ ph = "panicked" => Local(b.frags, n)

\* All of it, of n fragments that hold s.
Good(b, n, s, op, ph) ==
  Shape(b, n, s) /\ Reading(b, n, s) /\ Nested(b, op, s) /\ Phased(b, n, op, ph)

\* The invariant.
IInv == Good(buf, N(buf), Stream(buf), open, phase)

\* The number of fragments and the stream are the Buffer's own.
LEMMA GoodFacts ==
  ASSUME NEW b, NEW n, NEW s, NEW op, NEW ph, Good(b, n, s, op, ph)
  PROVE  N(b) = n /\ Stream(b) = s /\ Good(b, N(b), Stream(b), op, ph)
<1>1. N(b) = n /\ Stream(b) = s
  BY ShapeFacts DEF Good
<1>. QED
  BY <1>1

\* With no object open there is no place to be wrong.
LEMMA NothingNested ==
  ASSUME NEW b, NEW s
  PROVE  Nested(b, <<>>, s)
<1>1. <<>> \in Seq([index : Nat, pos : Nat, size : Int]) /\ Len(<<>>) = 0 /\ 1 .. 0 = {}
  BY EmptySeq
<1>. QED
  BY <1>1 DEF Nested

\* The size fields' offsets, as the byte stream has them.
LEMMA StartsIs ==
  ASSUME NEW b, NEW op, NEW s, Nested(b, op, s)
  PROVE  /\ Starts(b, op) = [k \in 1 .. Len(op) |-> Offset(op[k], Unit(b))]
         /\ DOMAIN op = 1 .. Len(op) /\ Len(op) \in Nat
<1>1. DOMAIN op = 1 .. Len(op) /\ Len(op) \in Nat
  BY LenProperties DEF Nested
<1>2. ASSUME op # <<>> PROVE Unit(b) = Wavail(b)
  BY <1>2 DEF Nested, Unit, Width, Sized, Wavail
<1>3. op = <<>> => Len(op) = 0
  BY EmptySeq
<1>4. ASSUME NEW k \in 1 .. Len(op)
      PROVE  op[k].index * Wavail(b) + op[k].pos = Offset(op[k], Unit(b))
  <2>1. op # <<>>
    BY <1>1, <1>3
  <2>. QED
    BY <1>2, <2>1, Zenon DEF Offset, Start
<1>. QED
  BY <1>1, <1>4, Zenon DEF Starts

\* An offset is a number.
LEMMA OffsetIs ==
  ASSUME NEW at \in [index : Nat, pos : Nat, size : Int], NEW w, w \in Nat
  PROVE  Offset(at, w) \in Nat
<1>1. at.index \in Nat /\ at.pos \in Nat
  OBVIOUS
<1>2. Start(at.index, w) \in Nat
  BY <1>1, StartFacts
<1>. QED
  BY <1>1, <1>2 DEF Offset

\* The places stay when more is written and nothing is read.
LEMMA NestedOn ==
  ASSUME NEW b, NEW op, NEW s, Nested(b, op, s), NEW c, NEW t,
         op # <<>> => c.MTU # 0 /\ Unit(c) = Unit(b), Unit(b) \in Nat,
         Len(s) \in Nat, Len(t) \in Nat, Len(s) <= Len(t), Len(t) - c.size = Len(s) - b.size
  PROVE  Nested(c, op, t) /\ Starts(c, op) = Starts(b, op)
<1>1. op \in Seq([index : Nat, pos : Nat, size : Int]) /\ (op = <<>> => Len(op) = 0)
  BY EmptySeq DEF Nested
<1>2. ASSUME NEW k \in 1 .. Len(op)
      PROVE  Unit(c) = Unit(b) /\ Offset(op[k], Unit(b)) + SizeT <= Len(t)
  <2>1. op # <<>> /\ op[k] \in [index : Nat, pos : Nat, size : Int]
    <3>1. Len(op) \in Nat /\ Len(op) # 0
      BY <1>1
    <3>. QED
      BY <1>1, <3>1, ElementOfSeq
  <2>2. Offset(op[k], Unit(b)) \in Nat
    BY <2>1, OffsetIs
  <2>3. Offset(op[k], Unit(b)) + SizeT <= Len(s) /\ SizeT \in Nat
    BY FragmentAssumption DEF Nested
  <2>. HIDE DEF Nested
  <2>. QED
    BY <2>1, <2>2, <2>3
<1>3. Nested(c, op, t)
  BY <1>1, <1>2 DEF Nested
<1>4. Starts(c, op) = Starts(b, op)
  BY <1>2, <1>3, StartsIs
<1>. QED
  BY <1>3, <1>4

\* A new Buffer satisfies the invariant and has nothing.
LEMMA InitIInv ==
  ASSUME Init
  PROVE  IInv /\ Stream(buf) = <<>> /\ buf.size = 0 /\ open = <<>>
<1>1. PICK mtu \in MTUs : buf = NewBuffer(mtu)
  BY DEF Init
<1>2. mtu \in Nat /\ open = <<>> /\ phase = "raw"
  BY FragmentAssumption DEF Init
<1>3. buf \in Buffers
  BY <1>1, <1>2, EmptyMapIs DEF NewBuffer, Buffers
<1>4. /\ buf.frags = EmptyMap /\ buf.heads = 0 /\ buf.lenChecksum = 0 /\ buf.MTU = mtu
      /\ buf.size = 0 /\ buf.index = 0 /\ buf.pos = 0 /\ buf.windex = 0
  BY <1>1 DEF NewBuffer
<1>5. Unit(buf) \in Nat /\ Unit(buf) > 0
  <2>1. N(buf) = 0
    BY <1>4, EmptyMapIs, FS_EmptySet DEF N
  <2>. QED
    BY <1>2, <1>4, <2>1 DEF Unit, Width, Sized
<1>6. Shape(buf, 0, <<>>)
  BY <1>3, <1>4, <1>5, NothingYet, FragmentAssumption
<1>7. Reading(buf, 0, <<>>)
  <2>1. Start(0, Unit(buf)) = 0 /\ Len(<<>>) = 0
    BY <1>5, StartFacts
  <2>. QED
    BY <1>4, <2>1 DEF Reading
<1>8. Phased(buf, 0, open, phase)
  <2>1. 0 .. 0 - 1 = {}
    OBVIOUS
  <2>. QED
    BY <1>2, <1>4, <2>1, LocalNone DEF Phased, Unsealed, Plain
<1>9. Good(buf, 0, <<>>, open, phase)
  BY <1>2, <1>6, <1>7, <1>8, NothingNested DEF Good
<1>. QED
  BY <1>2, <1>4, <1>9, GoodFacts DEF IInv

-----------------------------------------------------------------------------
(* The steps of the byte stream a Buffer is. *)

\* The bound on the bytes of a stream.
Within(b) == Len(Stream(b)) <= MaxBytes

\* A step of the byte stream or none, that keeps its bound.
Streams == (Stm!Next \/ UNCHANGED Stm!streamVars) /\ (Within(buf) => Within(buf'))

\* Nothing the byte stream shows has changed.
LEMMA Stutters ==
  ASSUME Stream(buf') = Stream(buf), Starts(buf', open') = Starts(buf, open),
         Cursor(buf') = Cursor(buf), last' = last
  PROVE  Streams
BY DEF Streams, Stm!streamVars, Starts, Cursor, Within

\* Bytes at the end.
LEMMA Writes ==
  ASSUME NEW n \in Counts, Stream(buf') = Stream(buf) \o Stm!DataFrom(Len(Stream(buf)), n),
         Starts(buf', open') = Starts(buf, open), Cursor(buf') = Cursor(buf), last' = last,
         Within(buf')
  PROVE  Streams
<1>1. Stm!Write(n)
  BY DEF Stm!Write, Starts, Cursor
<1>. QED
  BY <1>1 DEF Streams, Stm!Next

\* An object's head at the end, and its size field open.
LEMMA Begins ==
  ASSUME Stream(buf') = Stream(buf) \o Stm!ObjectHead(Len(Stream(buf))),
         Starts(buf', open') = Append(Starts(buf, open), Len(Stream(buf)) + 1),
         Cursor(buf') = Cursor(buf), last' = last, Within(buf')
  PROVE  Streams
<1>1. Stm!BeginObject
  BY DEF Stm!BeginObject, Starts, Cursor
<1>. QED
  BY <1>1 DEF Streams, Stm!Next

\* The size field that was opened last is filled in.
LEMMA Ends ==
  ASSUME Starts(buf, open) # <<>>,
         Stream(buf') =
           LET at == Starts(buf, open)[Len(Starts(buf, open))]
               value == Len(Stream(buf)) - at - SizeT
           IN  [p \in 1 .. Len(Stream(buf)) |->
                  IF p - at \in 1 .. SizeT THEN Stm!SizeByte(value, p - at) ELSE Stream(buf)[p]],
         Starts(buf', open') = SubSeq(Starts(buf, open), 1, Len(Starts(buf, open)) - 1),
         Cursor(buf') = Cursor(buf), last' = last, Len(Stream(buf')) = Len(Stream(buf))
  PROVE  Streams
<1>1. Stm!EndObject
  BY Zenon DEF Stm!EndObject, Starts, Cursor
<1>. QED
  BY <1>1 DEF Streams, Stm!Next, Within

\* What the byte stream gives to a read of n bytes.
Fetched(b, n) ==
  IF Cursor(b) + n <= Len(Stream(b))
  THEN [ok |-> TRUE, bytes |-> SubSeq(Stream(b), Cursor(b) + 1, Cursor(b) + n)]
  ELSE [ok |-> FALSE, bytes |-> <<>>]

\* Read: the next bytes, or insufficient data.
LEMMA Consumes ==
  ASSUME NEW n \in Counts, last' = Fetched(buf, n),
         Cursor(buf') = IF Fetched(buf, n).ok THEN Cursor(buf) + n ELSE Cursor(buf),
         Stream(buf') = Stream(buf), Starts(buf', open') = Starts(buf, open)
  PROVE  Streams
<1>1. Fetched(buf, n) = Stm!Fetch(n)
  BY Zenon DEF Fetched, Stm!Fetch, Cursor, Stm!InSufficientData
<1>2. Stm!Consume(n)
  BY <1>1, Zenon DEF Stm!Consume, Starts, Cursor
<1>. QED
  BY <1>2 DEF Streams, Stm!Next, Within

\* PeekByte: the next byte, and the cursor stays.
LEMMA Looks ==
  ASSUME last' = Fetched(buf, 1), Cursor(buf') = Cursor(buf),
         Stream(buf') = Stream(buf), Starts(buf', open') = Starts(buf, open)
  PROVE  Streams
<1>1. Fetched(buf, 1) = Stm!Fetch(1)
  BY Zenon DEF Fetched, Stm!Fetch, Cursor, Stm!InSufficientData
<1>2. Stm!Look
  BY <1>1, Zenon DEF Stm!Look, Starts, Cursor
<1>. QED
  BY <1>2 DEF Streams, Stm!Next, Within

\* Rewind: back to the first byte.
LEMMA Restarts ==
  ASSUME Cursor(buf') = 0, last' = last, Stream(buf') = Stream(buf),
         Starts(buf', open') = Starts(buf, open)
  PROVE  Streams
<1>1. Stm!Restart
  BY DEF Stm!Restart, Starts, Cursor
<1>. QED
  BY <1>1 DEF Streams, Stm!Next, Within

\* Clear: no bytes.
LEMMA Forgets ==
  ASSUME Cursor(buf') = 0, last' = last, Stream(buf') = <<>>, Starts(buf', open') = <<>>
  PROVE  Streams
<1>1. Stm!Forget
  BY DEF Stm!Forget, Starts, Cursor
<1>2. Within(buf')
  <2>1. Len(<<>>) = 0 /\ MaxBytes >= 0
    BY FragmentAssumption
  <2>. QED
    BY <2>1 DEF Within
<1>. QED
  BY <1>1, <1>2 DEF Streams, Stm!Next

\* What the invariant says of the Buffer.
LEMMA IInvFacts ==
  ASSUME IInv
  PROVE  LET n == N(buf)
             s == Stream(buf)
         IN  /\ Shape(buf, n, s) /\ Reading(buf, n, s) /\ Nested(buf, open, s)
             /\ Phased(buf, n, open, phase)
             /\ buf \in Buffers /\ n \in Nat /\ s \in Seq(Byte) /\ Len(s) \in Nat
             /\ Unit(buf) \in Nat /\ Unit(buf) > 0 /\ buf.size \in 0 .. Len(s)
             /\ DOMAIN buf.frags = 0 .. n - 1 /\ (n = 0 => s = <<>>) /\ (n = 0 <=> buf.frags = EmptyMap)
<1>. DEFINE n == N(buf)
            s == Stream(buf)
<1>1. Good(buf, n, s, open, phase)
  BY DEF IInv
<1>. HIDE DEF n, s
<1>2. /\ Shape(buf, n, s) /\ Reading(buf, n, s) /\ Nested(buf, open, s)
      /\ Phased(buf, n, open, phase)
  BY <1>1 DEF Good
<1>3. /\ buf \in Buffers /\ n \in Nat /\ s \in Seq(Byte) /\ Len(s) \in Nat
      /\ Unit(buf) \in Nat /\ Unit(buf) > 0 /\ DOMAIN buf.frags = 0 .. n - 1 /\ (n = 0 => s = <<>>)
  BY <1>2, ShapeFacts
<1>4. buf.size \in 0 .. Len(s)
  BY <1>2 DEF Reading
<1>5. n = 0 <=> buf.frags = EmptyMap
  <2>1. CASE n = 0
    <3>1. DOMAIN buf.frags = {}
      BY <1>3, <2>1
    <3>2. buf.frags = [i \in DOMAIN buf.frags |-> buf.frags[i]]
      BY <1>2, CutFacts DEF Shape
    <3>. QED
      BY <2>1, <3>1, <3>2 DEF EmptyMap
  <2>2. CASE n # 0
    <3>1. 0 \in DOMAIN buf.frags
      BY <1>3, <2>2
    <3>. QED
      BY <2>2, <3>1, EmptyMapIs
  <2>. QED
    BY <2>1, <2>2
<1>. QED
  BY <1>2, <1>3, <1>4, <1>5 DEF n, s

\* A Buffer that is good for some stream satisfies the invariant with it.
LEMMA GoodNext ==
  ASSUME NEW k, NEW t, Good(buf', k, t, open', phase')
  PROVE  IInv' /\ N(buf') = k /\ Stream(buf') = t
<1>1. N(buf') = k /\ Stream(buf') = t /\ Good(buf', N(buf'), Stream(buf'), open', phase')
  BY GoodFacts
<1>. QED
  BY <1>1 DEF IInv

\* No object open, no offset.
LEMMA NothingOpen ==
  ASSUME NEW b, NEW c
  PROVE  Starts(b, <<>>) = <<>> /\ Starts(c, <<>>) = Starts(b, <<>>)
<1>1. DOMAIN <<>> = {}
  OBVIOUS
<1>2. \A d : Starts(d, <<>>) = [k \in {} |-> 0]
  BY <1>1 DEF Starts
<1>3. <<>> = [k \in {} |-> 0]
  BY <1>1
<1>. QED
  BY <1>2, <1>3

\* Bytes, cursor and places are as they were.
LEMMA Nothing ==
  ASSUME IInv, buf' = buf, open' = open, last' = last, phase' = phase
  PROVE  IInv' /\ Streams
<1>1. Good(buf', N(buf), Stream(buf), open', phase')
  BY IInvFacts DEF Good
<1>2. IInv'
  BY <1>1, GoodNext
<1>3. Streams
  BY Stutters
<1>. QED
  BY <1>2, <1>3

\* ... and the program panics, with no ending number in a Schema.
LEMMA Panics ==
  ASSUME IInv, buf' = buf, open' = open, last' = last, phase' = "panicked",
         Local(buf.frags, N(buf))
  PROVE  IInv' /\ Streams
<1>1. Good(buf', N(buf), Stream(buf), open', phase')
  BY IInvFacts DEF Good, Phased
<1>2. IInv'
  BY <1>1, GoodNext
<1>3. Streams
  BY Stutters
<1>. QED
  BY <1>2, <1>3

\* prepare, with an MTU, h bytes of header, their payload size and l of checksum.
Prepared(b, mtu, h, z, l) ==
  [b EXCEPT !.MTU = mtu, !.schema = [types |-> type, tid |-> tid],
            !.heads = h, !.headSize = z, !.lenChecksum = l]

\* These are lengths.
Lengthwise(mtu, h, z, l) == mtu \in Nat /\ h \in Nat /\ z \in Int /\ l \in Nat

\* c has another header, and b's fragments and read position.
Headed(b, c, mtu, h, l) ==
  /\ c \in Buffers /\ c.MTU = mtu /\ c.heads = h /\ c.lenChecksum = l /\ c.frags = b.frags
  /\ c.size = b.size /\ c.index = b.index /\ c.pos = b.pos /\ c.windex = b.windex

\* prepare sets the fields of the header and leaves the fragments.
LEMMA PreparedIs ==
  ASSUME NEW b, b \in Buffers, NEW mtu, NEW h, NEW z, NEW l, Lengthwise(mtu, h, z, l)
  PROVE  Headed(b, Prepared(b, mtu, h, z, l), mtu, h, l)
<1>. DEFINE c == Prepared(b, mtu, h, z, l)
<1>0. mtu \in Nat /\ h \in Nat /\ z \in Int /\ l \in Nat
  BY DEF Lengthwise
<1>1. PICK x : x = [b EXCEPT !.MTU = mtu, !.schema = TheSchema]
  OBVIOUS
<1>2. x \in Buffers
  BY <1>0, <1>1 DEF Buffers, TheSchema
<1>3. PICK y : y = [x EXCEPT !.heads = h, !.headSize = z]
  OBVIOUS
<1>4. y \in Buffers
  BY <1>0, <1>2, <1>3 DEF Buffers
<1>5. c = [y EXCEPT !.lenChecksum = l]
  BY <1>1, <1>3, Zenon DEF TheSchema, Prepared
<1>. HIDE DEF c
<1>6. c \in Buffers
  BY <1>0, <1>4, <1>5 DEF Buffers
<1>7. /\ c.MTU = mtu /\ c.heads = h /\ c.lenChecksum = l /\ c.frags = b.frags
      /\ c.size = b.size /\ c.index = b.index /\ c.pos = b.pos /\ c.windex = b.windex
  BY <1>1, <1>2, <1>3, <1>4, <1>5 DEF Buffers
<1>. QED
  BY <1>6, <1>7 DEF c, Headed

\* A Buffer without fragments under another MTU and header.
LEMMA NothingHeld ==
  ASSUME NEW b, NEW c, NEW s, Shape(b, 0, s), Reading(b, 0, s), c \in Buffers, c.frags = b.frags,
         c.size = b.size, c.index = b.index, c.pos = b.pos,
         c.MTU # 0, c.lenChecksum <= ChecksumLen, c.heads + c.lenChecksum < c.MTU
  PROVE  Shape(c, 0, s) /\ Reading(c, 0, s)
<1>1. Unit(c) = c.MTU - c.heads - c.lenChecksum
  BY DEF Unit, Width, Sized
<1>2. Unit(c) \in Nat /\ Unit(c) > 0
  BY <1>1 DEF Buffers
<1>3. Shape(c, 0, s)
  <2>1. Cut(c.frags, 0, Unit(c), s)
    BY <1>2, CutEmpty DEF Shape
  <2>. QED
    BY <2>1 DEF Shape
<1>4. Reading(c, 0, s)
  <2>1. Unit(b) \in Nat
    BY ShapeFacts
  <2>2. b.index = 0 /\ b.pos = 0
    BY DEF Reading
  <2>3. Start(0, Unit(b)) = 0 /\ Start(0, Unit(c)) = 0
    BY <1>2, <2>1, StartFacts
  <2>. QED
    BY <2>2, <2>3 DEF Reading
<1>. QED
  BY <1>3, <1>4

\* prepare: the stream is as it was.
LEMMA PrepareStep ==
  ASSUME IInv, NEW h \in HeadLens, Prepare(h)
  PROVE  IInv' /\ Streams
<1>. DEFINE s == Stream(buf)
            mtu == IF buf.MTU = 0 THEN DefaultMTU ELSE IF buf.MTU < MinMTU THEN MinMTU ELSE buf.MTU
            ready == [buf EXCEPT !.MTU = mtu, !.schema = [types |-> type, tid |-> tid],
                                 !.heads = 0, !.lenChecksum = ChecksumLen]
            l == IF h - ArrayHead > mtu THEN buf.lenChecksum ELSE ChecksumLen
<1>1. N(buf) = 0 /\ open = <<>> /\ open' = open /\ last' = last /\ phase = "raw"
  BY IInvFacts DEF Prepare
<1>2. /\ Shape(buf, 0, s) /\ Reading(buf, 0, s) /\ Nested(buf, open, s) /\ Phased(buf, 0, open, phase)
      /\ buf \in Buffers /\ Len(s) \in Nat /\ Unit(buf) \in Nat
  BY <1>1, IInvFacts
<1>3. /\ mtu \in Nat /\ mtu > ChecksumLen /\ h \in Nat /\ h > 0 /\ ChecksumLen \in Nat
      /\ buf.headSize \in Int
  <2>1. buf.MTU \in Nat /\ buf.headSize \in Int
    BY <1>2 DEF Buffers
  <2>. QED
    BY <2>1, FragmentAssumption
<1>4. l \in Nat /\ l <= ChecksumLen
  BY <1>2, <1>3 DEF Shape, Buffers
<1>5. IF h + ChecksumLen >= mtu
      THEN buf' = [ready EXCEPT !.lenChecksum = l] /\ phase' = phase
      ELSE /\ buf' = [ready EXCEPT !.heads = h, !.headSize = Short(mtu - h - ChecksumLen)]
           /\ phase' = "saving"
  BY DEF Prepare
<1>. HIDE DEF mtu, l
<1>6. ASSUME NEW c, c \in Buffers, c = buf', c.frags = buf.frags, c.size = buf.size,
             c.index = buf.index, c.pos = buf.pos, c.MTU = mtu,
             c.lenChecksum \in Nat, c.lenChecksum <= ChecksumLen,
             \/ phase' = "raw" /\ c.heads = 0
             \/ phase' = "saving" /\ c.heads = h /\ h + c.lenChecksum < mtu
      PROVE  IInv' /\ Streams
  <2>1. c.heads + c.lenChecksum < c.MTU /\ c.MTU # 0
    BY <1>3, <1>6
  <2>2. Shape(c, 0, s) /\ Reading(c, 0, s)
    <3>. HIDE DEF s
    <3>. QED
      BY <1>2, <1>6, <2>1, NothingHeld
  <2>3. Nested(c, open, s)
    BY <1>1, NothingNested
  <2>4. Phased(c, 0, open, phase')
    <3>1. Unsealed(c, 0)
      <4>1. 0 .. 0 - 1 = {}
        OBVIOUS
      <4>. QED
        BY <2>1, <4>1, LocalNone DEF Unsealed, Plain
    <3>. QED
      BY <1>3, <1>6, <2>1, <3>1 DEF Phased
  <2>5. Good(buf', 0, s, open', phase')
    BY <1>1, <1>6, <2>2, <2>3, <2>4 DEF Good
  <2>6. IInv' /\ Stream(buf') = Stream(buf)
    BY <2>5, GoodNext
  <2>7. Starts(buf', open') = Starts(buf, open)
    BY <1>1, NothingOpen
  <2>8. Cursor(buf') = Cursor(buf)
    BY <1>6, <2>6 DEF Cursor
  <2>. QED
    BY <1>1, <2>6, <2>7, <2>8, Stutters
<1>7. CASE h + ChecksumLen >= mtu
  <2>1. phase' = "raw" /\ buf' = [ready EXCEPT !.lenChecksum = l]
    BY <1>1, <1>5, <1>7
  <2>2. buf' = Prepared(buf, mtu, 0, buf.headSize, l)
    <3>1. [ready EXCEPT !.lenChecksum = l]
            = [buf EXCEPT !.MTU = mtu, !.schema = [types |-> type, tid |-> tid],
                          !.heads = 0, !.headSize = buf.headSize, !.lenChecksum = l]
      BY <1>2 DEF Buffers
    <3>. QED
      BY <2>1, <3>1 DEF Prepared
  <2>. DEFINE c == buf'
  <2>3. /\ c \in Buffers /\ c.MTU = mtu /\ c.heads = 0 /\ c.lenChecksum = l /\ c.frags = buf.frags
        /\ c.size = buf.size /\ c.index = buf.index /\ c.pos = buf.pos
    <3>1. Lengthwise(mtu, 0, buf.headSize, l)
      BY <1>3, <1>4 DEF Lengthwise
    <3>2. Headed(buf, Prepared(buf, mtu, 0, buf.headSize, l), mtu, 0, l)
      BY <1>2, <3>1, PreparedIs
    <3>. QED
      BY <2>2, <3>2 DEF Headed
  <2>. QED
    BY <1>4, <1>6, <2>1, <2>3
<1>8. CASE ~ (h + ChecksumLen >= mtu)
  <2>. DEFINE z == Short(mtu - h - ChecksumLen)
              c == buf'
  <2>1. phase' = "saving" /\ buf' = [ready EXCEPT !.heads = h, !.headSize = z]
    BY <1>5, <1>8
  <2>2. z \in Int
    BY <1>3, ShortInt
  <2>. HIDE DEF z
  <2>3. buf' = Prepared(buf, mtu, h, z, ChecksumLen)
    <3>1. [ready EXCEPT !.heads = h, !.headSize = z]
            = [buf EXCEPT !.MTU = mtu, !.schema = [types |-> type, tid |-> tid],
                          !.heads = h, !.headSize = z, !.lenChecksum = ChecksumLen]
      BY <1>2 DEF Buffers
    <3>. QED
      BY <2>1, <3>1 DEF Prepared
  <2>4. /\ c \in Buffers /\ c.MTU = mtu /\ c.heads = h /\ c.lenChecksum = ChecksumLen
        /\ c.frags = buf.frags /\ c.size = buf.size /\ c.index = buf.index /\ c.pos = buf.pos
    <3>1. Lengthwise(mtu, h, z, ChecksumLen)
      BY <1>3, <2>2 DEF Lengthwise
    <3>2. Headed(buf, Prepared(buf, mtu, h, z, ChecksumLen), mtu, h, ChecksumLen)
      BY <1>2, <3>1, PreparedIs
    <3>. QED
      BY <2>3, <3>2 DEF Headed
  <2>5. h + ChecksumLen < mtu /\ ChecksumLen <= ChecksumLen
    BY <1>3, <1>8
  <2>. QED
    BY <1>3, <1>6, <2>1, <2>4, <2>5
<1>. QED
  BY <1>7, <1>8

\* c has p behind what b has, and the cursor and the places of b.
Longer(b, n, s, op, c, k, p) ==
  /\ Shape(c, k, s \o p) /\ Reading(c, k, s \o p) /\ Nested(c, op, s \o p)
  /\ Unsealed(c, k) /\ Writable(c) /\ c.heads = b.heads /\ c.size = b.size + Len(p)
  /\ b.MTU # 0 => c.MTU # 0 /\ Unit(c) = Unit(b)
  /\ p # <<>> => c.MTU # 0 /\ k > 0
  /\ Starts(c, op) = Starts(b, op) /\ Len(s \o p) = Len(s) + Len(p)

\* What writing starts from.
Open(b, n, s, op) ==
  Shape(b, n, s) /\ Reading(b, n, s) /\ Nested(b, op, s) /\ Unsealed(b, n) /\ Writable(b)

\* Append leaves the cursor and the places of open size fields.
LEMMA AppendHolds ==
  ASSUME NEW b, NEW n, NEW s, NEW op, Open(b, n, s, op), NEW p, p \in Seq(Byte)
  PROVE  \E k \in Nat : Longer(b, n, s, op, Appended(b, p), k, p)
<1>. DEFINE c == Appended(b, p)
<1>1. /\ Shape(b, n, s) /\ Reading(b, n, s) /\ Nested(b, op, s) /\ Unsealed(b, n) /\ Writable(b)
      /\ b \in Buffers /\ n \in Nat /\ s \in Seq(Byte) /\ Len(s) \in Nat /\ Unit(b) \in Nat
  <2>1. /\ Shape(b, n, s) /\ Reading(b, n, s) /\ Nested(b, op, s) /\ Unsealed(b, n) /\ Writable(b)
    BY DEF Open
  <2>. QED
    BY <2>1, ShapeFacts
<1>2. Len(p) \in Nat /\ s \o p \in Seq(Byte) /\ Len(s \o p) = Len(s) + Len(p)
  BY <1>1, ConcatProperties
<1>3. b.size \in Int
  BY <1>1 DEF Buffers
<1>4. CASE p = <<>>
  <2>1. c = b /\ s \o p = s /\ Len(p) = 0
    BY <1>1, <1>4, AppendedNothing, EmptySeq, ConcatEmptySeq
  <2>2. c.size = b.size + Len(p) /\ Len(s) = Len(s) + Len(p)
    BY <1>1, <1>3, <2>1
  <2>3. Longer(b, n, s, op, c, n, p)
    BY <1>1, <1>4, <2>1, <2>2, Zenon DEF Longer
  <2>. QED
    BY <1>1, <2>3
<1>5. CASE p # <<>>
  <2>1. PICK k \in Nat : Grown(b, n, s, c, k, p)
    BY <1>1, <1>5, AppendGrows
  <2>. HIDE DEF c
  <2>2. /\ Shape(c, k, s \o p) /\ Reading(c, k, s \o p) /\ Unsealed(c, k) /\ Writable(c)
        /\ c.MTU # 0 /\ c.MTU = Sized(b) /\ c.size = b.size + Len(p) /\ k > 0 /\ c.heads = b.heads
        /\ Unit(c) = Width(b)
    BY <2>1 DEF Grown, Same
  <2>3. b.MTU # 0 => c.MTU # 0 /\ Unit(c) = Unit(b)
    BY <2>2 DEF Unit
  <2>4. Nested(c, op, s \o p) /\ Starts(c, op) = Starts(b, op)
    <3>. DEFINE t == s \o p
    <3>1. op # <<>> => c.MTU # 0 /\ Unit(c) = Unit(b)
      BY <1>1, <2>3 DEF Nested
    <3>2. Len(t) \in Nat /\ Len(s) <= Len(t) /\ Len(t) - c.size = Len(s) - b.size
      BY <1>1, <1>2, <1>3, <2>2
    <3>. HIDE DEF t
    <3>3. Nested(c, op, t) /\ Starts(c, op) = Starts(b, op)
      BY <1>1, <3>1, <3>2, NestedOn
    <3>. QED
      BY <3>3 DEF t
  <2>5. Longer(b, n, s, op, c, k, p)
    BY <1>2, <2>2, <2>3, <2>4 DEF Longer
  <2>. QED
    BY <2>5 DEF c
<1>. QED
  BY <1>4, <1>5

\* Append of a field.
LEMMA AppendDataStep ==
  ASSUME IInv, NEW m \in Counts, AppendData(m)
  PROVE  IInv' /\ Streams
<1>. DEFINE n == N(buf)
            s == Stream(buf)
            p == Stm!DataFrom(Len(s), m)
<1>1. /\ Shape(buf, n, s) /\ Reading(buf, n, s) /\ Nested(buf, open, s)
      /\ Phased(buf, n, open, phase) /\ Len(s) \in Nat /\ buf.size \in Int
  BY IInvFacts
<1>2. m \in Nat /\ p \in Seq(Byte) /\ Len(p) \in Nat /\ Len(p) = m
  <2>1. m \in Nat /\ Len(s) \in Int /\ 0 \in Int
    BY <1>1, FragmentAssumption
  <2>. QED
    BY <2>1, ByteSeqs
<1>3. open' = open /\ last' = last /\ phase \in {"raw", "saving"} /\ Written(p)
  BY DEF AppendData
<1>4. CASE p = <<>>
  <2>1. buf' = buf /\ phase' = phase
    BY <1>3, <1>4, AppendedNothing DEF Written
  <2>. QED
    BY <1>3, <2>1, Nothing
<1>5. CASE p # <<>> /\ Writable(buf)
  <2>1. buf' = Appended(buf, p) /\ phase' = phase
    BY <1>3, <1>5 DEF Written
  <2>2. Unsealed(buf, n) /\ Open(buf, n, s, open)
    BY <1>1, <1>3, <1>5 DEF Phased, Open
  <2>. DEFINE c == Appended(buf, p)
  <2>3. PICK k \in Nat : Longer(buf, n, s, open, c, k, p)
    <3>. HIDE DEF n, s, p
    <3>. QED
      BY <1>2, <2>2, AppendHolds
  <2>. HIDE DEF c, n, s, p
  <2>4. /\ Shape(c, k, s \o p) /\ Reading(c, k, s \o p) /\ Nested(c, open, s \o p)
        /\ Unsealed(c, k) /\ c.heads = buf.heads /\ c.MTU # 0
        /\ c.size = buf.size + Len(p)
        /\ Starts(c, open) = Starts(buf, open) /\ Len(s \o p) = Len(s) + Len(p)
    BY <1>5, <2>3 DEF Longer
  <2>5. Phased(c, k, open, phase)
    BY <1>1, <1>3, <2>4 DEF Phased
  <2>6. buf' = c /\ Good(buf', k, s \o p, open', phase')
    BY <1>3, <2>1, <2>4, <2>5 DEF Good, c
  <2>7. IInv' /\ Stream(buf') = s \o p
    BY <2>6, GoodNext
  <2>8. Cursor(buf') = Cursor(buf)
    <3>1. Cursor(buf') = (Len(s) + Len(p)) - (buf.size + Len(p)) /\ Cursor(buf) = Len(s) - buf.size
      BY <2>4, <2>6, <2>7 DEF Cursor, s
    <3>. QED
      BY <1>1, <1>2, <3>1
  <2>9. Streams
    <3>1. Stream(buf') = Stream(buf) \o Stm!DataFrom(Len(Stream(buf)), m)
      BY <2>7 DEF s, p
    <3>2. Starts(buf', open') = Starts(buf, open)
      BY <1>3, <2>4, <2>6
    <3>3. Within(buf')
      <4>1. Len(s) + m <= MaxBytes
        BY DEF AppendData, Room, s
      <4>2. Len(s \o p) = Len(s) + m
        BY <1>2, <2>4
      <4>. QED
        BY <2>7, <4>1, <4>2 DEF Within
    <3>. QED
      BY <1>3, <2>8, <3>1, <3>2, <3>3, Writes
  <2>. QED
    BY <2>7, <2>9
<1>6. CASE p # <<>> /\ ~ Writable(buf)
  <2>1. buf' = buf /\ phase' = "panicked"
    BY <1>3, <1>6 DEF Written
  <2>2. Local(buf.frags, n)
    BY <1>1, <1>3 DEF Phased, Unsealed, Plain
  <2>. QED
    BY <1>3, <2>1, <2>2, Panics
<1>. QED
  BY <1>4, <1>5, <1>6

\* Where the size field of an object being saved is, and the Size of the Buffer then.
Place == [index : Nat, pos : Nat, size : Int]

\* One more size field, inside those that are open.
LEMMA NestedMore ==
  ASSUME NEW c, NEW op, NEW t, Nested(c, op, t), c.MTU # 0, NEW at, at \in Place,
         NEW a, a = Offset(at, Unit(c)), a + SizeT <= Len(t), at.size = a - (Len(t) - c.size)
  PROVE  Nested(c, Append(op, at), t) /\ Starts(c, Append(op, at)) = Append(Starts(c, op), a)
<1>. DEFINE l == Len(op)
            q == Append(op, at)
<1>1. op \in Seq(Place) /\ l \in Nat
  BY LenProperties DEF Nested, Place
<1>2. /\ q \in Seq(Place) /\ Len(q) = l + 1 /\ \A k \in 1 .. l : q[k] = op[k]
      /\ q[l + 1] = at /\ q # <<>>
  BY <1>1, AppendProperties
<1>. HIDE DEF q, l
<1>3. ASSUME NEW k \in 1 .. l + 1
      PROVE  /\ Offset(q[k], Unit(c)) + SizeT <= Len(t)
             /\ q[k].size = Offset(q[k], Unit(c)) - (Len(t) - c.size)
  <2>1. CASE k = l + 1
    BY <1>2, <2>1
  <2>2. CASE k # l + 1
    <3>1. k \in 1 .. l /\ q[k] = op[k]
      BY <1>1, <1>2, <2>2
    <3>. QED
      BY <3>1 DEF Nested, l
  <2>. QED
    BY <2>1, <2>2
<1>4. Nested(c, q, t)
  BY <1>2, <1>3 DEF Nested, Place
<1>5. Starts(c, q) = [k \in 1 .. l + 1 |-> Offset(q[k], Unit(c))]
  BY <1>2, <1>4, StartsIs
<1>6. Starts(c, op) = [k \in 1 .. l |-> Offset(op[k], Unit(c))]
  BY StartsIs DEF l
<1>7. Append(Starts(c, op), a) = [k \in 1 .. l + 1 |-> IF k = l + 1 THEN a ELSE Offset(op[k], Unit(c))]
  <2>. DEFINE S == {Offset(op[k], Unit(c)) : k \in 1 .. l} \cup {a}
              f == [k \in 1 .. l |-> Offset(op[k], Unit(c))]
  <2>1. f \in Seq(S) /\ a \in S /\ Len(f) = l
    <3>1. f \in [1 .. l -> S] /\ DOMAIN f = 1 .. l
      OBVIOUS
    <3>2. f \in Seq(S)
      BY <1>1, <3>1, SeqDef
    <3>3. Len(f) = l
      BY <1>1, <3>1, <3>2, LenProperties
    <3>. QED
      BY <3>2, <3>3
  <2>4. \A k \in 1 .. l + 1 : k # l + 1 => f[k] = Offset(op[k], Unit(c))
    <3>1. \A k \in 1 .. l + 1 : k # l + 1 => k \in 1 .. l
      BY <1>1
    <3>. QED
      BY <3>1
  <2>5. Starts(c, op) = f
    BY <1>6
  <2>. HIDE DEF S, f
  <2>2. DOMAIN Append(f, a) = 1 .. l + 1 /\ Append(f, a) = [k \in DOMAIN Append(f, a) |-> Append(f, a)[k]]
    <3>1. Append(f, a) \in Seq(S) /\ Len(Append(f, a)) = l + 1
      BY <2>1, AppendProperties
    <3>. QED
      BY <3>1, LenProperties, SeqDef
  <2>3. \A k \in 1 .. l + 1 : Append(f, a)[k] = IF k = l + 1 THEN a ELSE f[k]
    <3>1. Append(f, a)[l + 1] = a /\ \A k \in 1 .. l : Append(f, a)[k] = f[k]
      BY <2>1, AppendProperties
    <3>2. \A k \in 1 .. l + 1 : k # l + 1 => k \in 1 .. l
      BY <1>1
    <3>. QED
      BY <3>1, <3>2, Zenon
  <2>. QED
    BY <2>2, <2>3, <2>4, <2>5
<1>8. Starts(c, q) = Append(Starts(c, op), a)
  <2>1. ASSUME NEW k \in 1 .. l + 1
        PROVE  Offset(q[k], Unit(c)) = IF k = l + 1 THEN a ELSE Offset(op[k], Unit(c))
    <3>1. k # l + 1 => q[k] = op[k]
      BY <1>1, <1>2
    <3>. QED
      BY <1>2, <3>1
  <2>. QED
    BY <1>5, <1>7, <2>1
<1>. QED
  BY <1>4, <1>8 DEF q

\* Three writes, one behind the other.
LEMMA ThreeWrites ==
  ASSUME NEW b, NEW n, NEW s, NEW op, Open(b, n, s, op),
         NEW p1, p1 \in Seq(Byte), NEW p2, p2 \in Seq(Byte), NEW p3, p3 \in Seq(Byte), p1 # <<>>
  PROVE  LET c1 == Appended(b, p1)
             c == Appended(Appended(c1, p2), p3)
         IN  \E k1, k \in Nat :
               /\ Longer(b, n, s, op, c1, k1, p1)
               /\ Shape(c, k, s \o ((p1 \o p2) \o p3)) /\ Reading(c, k, s \o ((p1 \o p2) \o p3))
               /\ Nested(c, op, s \o ((p1 \o p2) \o p3)) /\ Unsealed(c, k)
               /\ c.heads = b.heads /\ c.size = (c1.size + Len(p2)) + Len(p3)
               /\ c.MTU # 0 /\ Unit(c) = Unit(c1) /\ Starts(c, op) = Starts(b, op)
               /\ Len(s \o ((p1 \o p2) \o p3)) = (Len(s \o p1) + Len(p2)) + Len(p3)
               /\ Len(s \o p1) = Len(s) + Len(p1) /\ c1.size = b.size + Len(p1)
<1>. DEFINE c1 == Appended(b, p1)
            c2 == Appended(c1, p2)
            c3 == Appended(c2, p3)
            s1 == s \o p1
            s2 == s1 \o p2
            s3 == s2 \o p3
<1>1. s \in Seq(Byte)
  BY ShapeFacts DEF Open
<1>2. PICK k1 \in Nat : Longer(b, n, s, op, c1, k1, p1)
  BY AppendHolds
<1>. HIDE DEF c1
<1>3. /\ Open(c1, k1, s1, op) /\ c1.MTU # 0 /\ c1.heads = b.heads /\ c1.size = b.size + Len(p1)
      /\ Starts(c1, op) = Starts(b, op) /\ Len(s1) = Len(s) + Len(p1)
  BY <1>2 DEF Longer, Open
<1>4. PICK k2 \in Nat : Longer(c1, k1, s1, op, c2, k2, p2)
  <2>. HIDE DEF s1
  <2>. QED
    BY <1>3, AppendHolds
<1>. HIDE DEF c2
<1>5. /\ Open(c2, k2, s2, op) /\ c2.MTU # 0 /\ c2.heads = b.heads /\ c2.size = c1.size + Len(p2)
      /\ Starts(c2, op) = Starts(b, op) /\ Len(s2) = Len(s1) + Len(p2) /\ Unit(c2) = Unit(c1)
  <2>. HIDE DEF s1
  <2>. QED
    BY <1>3, <1>4 DEF Longer, Open
<1>6. PICK k \in Nat : Longer(c2, k2, s2, op, c3, k, p3)
  <2>. HIDE DEF s2
  <2>. QED
    BY <1>5, AppendHolds
<1>. HIDE DEF c3
<1>7. /\ Shape(c3, k, s3) /\ Reading(c3, k, s3) /\ Nested(c3, op, s3) /\ Unsealed(c3, k)
      /\ c3.MTU # 0 /\ c3.heads = b.heads /\ c3.size = c2.size + Len(p3)
      /\ Starts(c3, op) = Starts(b, op) /\ Len(s3) = Len(s2) + Len(p3) /\ Unit(c3) = Unit(c1)
  <2>. HIDE DEF s2
  <2>. QED
    BY <1>5, <1>6 DEF Longer
<1>8. s3 = s \o ((p1 \o p2) \o p3)
  <2>1. p1 \o p2 \in Seq(Byte)
    BY ConcatProperties
  <2>2. s2 = s \o (p1 \o p2)
    BY <1>1, Associative
  <2>3. (s \o (p1 \o p2)) \o p3 = s \o ((p1 \o p2) \o p3)
    BY <1>1, <2>1, Associative
  <2>. QED
    BY <2>2, <2>3
<1>. HIDE DEF s1, s2, s3
<1>9. c3.size = (c1.size + Len(p2)) + Len(p3) /\ Len(s3) = (Len(s1) + Len(p2)) + Len(p3)
  BY <1>5, <1>7
<1>. QED
  BY <1>2, <1>3, <1>7, <1>8, <1>9 DEF c1, c2, c3, s1

\* objSave begins: type, size and count behind the stream, and a place for the
\* size.
LEMMA BeginSaveStep ==
  ASSUME IInv, BeginSave
  PROVE  IInv' /\ Streams
<1>. DEFINE n == N(buf)
            s == Stream(buf)
            off == Len(s)
            p1 == Stm!DataFrom(off, 1)
            p2 == Stm!SizeField(0)
            p3 == Stm!DataFrom(off + 1 + SizeT, SizeA)
            c1 == Appended(buf, p1)
            c == Appended(Appended(c1, p2), p3)
            p == (p1 \o p2) \o p3
            t == s \o p
            at == [index |-> WritePos(c1).index, pos |-> WritePos(c1).pos, size |-> c1.size]
<1>1. /\ Shape(buf, n, s) /\ Reading(buf, n, s) /\ Nested(buf, open, s)
      /\ Phased(buf, n, open, phase) /\ off \in Nat /\ buf.size \in Int /\ s \in Seq(Byte)
  BY IInvFacts
<1>2. /\ last' = last /\ phase \in {"raw", "saving"}
      /\ IF Writable(buf) THEN buf' = c /\ open' = Append(open, at) /\ phase' = phase
         ELSE phase' = "panicked" /\ buf' = buf /\ open' = open
  BY DEF BeginSave
<1>3. /\ p1 \in Seq(Byte) /\ Len(p1) = 1 /\ p1 # <<>> /\ p2 \in Seq(Byte) /\ Len(p2) = SizeT
      /\ p3 \in Seq(Byte) /\ Len(p3) = SizeA /\ SizeT \in Nat /\ SizeA \in Nat
  <2>1. SizeT \in Nat /\ SizeA \in Nat /\ 1 \in Nat /\ off \in Int /\ off + 1 + SizeT \in Int /\ 0 \in Int
    BY <1>1, FragmentAssumption
  <2>2. p1 \in Seq(Byte) /\ Len(p1) = 1 /\ p2 \in Seq(Byte) /\ Len(p2) = SizeT
    BY <2>1, ByteSeqs
  <2>. DEFINE o == off + 1 + SizeT
  <2>3. p3 \in Seq(Byte) /\ Len(p3) = SizeA
    <3>1. o \in Int /\ p3 = Stm!DataFrom(o, SizeA)
      BY <2>1
    <3>. HIDE DEF o, p3
    <3>. QED
      BY <2>1, <3>1, ByteSeqs
  <2>4. p1 # <<>>
    BY <2>2, EmptySeq
  <2>. QED
    BY <2>1, <2>2, <2>3, <2>4
<1>4. CASE ~ Writable(buf)
  <2>1. phase' = "panicked" /\ buf' = buf /\ open' = open
    BY <1>2, <1>4
  <2>2. Local(buf.frags, n)
    BY <1>1, <1>2 DEF Phased, Unsealed, Plain
  <2>. QED
    BY <1>2, <2>1, <2>2, Panics
<1>5. CASE Writable(buf)
  <2>1. buf' = c /\ open' = Append(open, at) /\ phase' = phase
    BY <1>2, <1>5
  <2>2. Open(buf, n, s, open)
    BY <1>1, <1>2, <1>5 DEF Phased, Open
  <2>3. PICK k1, k \in Nat :
          /\ Longer(buf, n, s, open, c1, k1, p1)
          /\ Shape(c, k, t) /\ Reading(c, k, t) /\ Nested(c, open, t) /\ Unsealed(c, k)
          /\ c.heads = buf.heads /\ c.size = (c1.size + Len(p2)) + Len(p3)
          /\ c.MTU # 0 /\ Unit(c) = Unit(c1) /\ Starts(c, open) = Starts(buf, open)
          /\ Len(t) = (Len(s \o p1) + Len(p2)) + Len(p3)
          /\ Len(s \o p1) = off + Len(p1) /\ c1.size = buf.size + Len(p1)
    <3>. HIDE DEF n, s, p1, p2, p3
    <3>. QED
      BY <1>3, <2>2, ThreeWrites
  <2>. DEFINE a == off + 1
  <2>4. at \in Place /\ a = Offset(at, Unit(c)) /\ at.size = buf.size + 1 /\ c1.size = buf.size + 1
    <3>. HIDE DEF n, s, p1, c1, c, off
    <3>1. Shape(c1, k1, s \o p1) /\ k1 > 0 /\ c1.MTU # 0
      BY <1>3, <2>3 DEF Longer
    <3>2. /\ WritePos(c1).index \in Nat /\ WritePos(c1).pos \in Nat
          /\ Offset(WritePos(c1), Unit(c1)) = Len(s \o p1)
      BY <3>1, WritePosIs
    <3>3. Len(s \o p1) = a /\ c1.size = buf.size + 1
      BY <1>3, <2>3 DEF off
    <3>4. at.index = WritePos(c1).index /\ at.pos = WritePos(c1).pos /\ at.size = c1.size
      OBVIOUS
    <3>5. at \in Place
      BY <1>1, <3>2, <3>3 DEF Place
    <3>6. Offset(at, Unit(c1)) = Offset(WritePos(c1), Unit(c1))
      BY <3>4 DEF Offset
    <3>. QED
      BY <2>3, <3>2, <3>3, <3>4, <3>5, <3>6
  <2>5. /\ Len(t) = ((off + 1) + SizeT) + SizeA /\ c.size = ((buf.size + 1) + SizeT) + SizeA
        /\ Shape(c, k, t) /\ Reading(c, k, t) /\ Nested(c, open, t) /\ Unsealed(c, k)
        /\ c.heads = buf.heads /\ c.MTU # 0 /\ Starts(c, open) = Starts(buf, open)
    <3>. HIDE DEF c, t, c1, off, p1, p2, p3
    <3>. QED
      BY <1>3, <2>3, <2>4
  <2>. HIDE DEF c, t, at, off, p, p1, p2, p3, c1, n, s
  <2>6. Nested(c, Append(open, at), t) /\ Starts(c, Append(open, at)) = Append(Starts(buf, open), a)
    <3>1. a + SizeT <= Len(t) /\ at.size = a - (Len(t) - c.size)
      BY <1>1, <1>3, <2>4, <2>5
    <3>2. Nested(c, Append(open, at), t) /\ Starts(c, Append(open, at)) = Append(Starts(c, open), a)
      <4>. HIDE DEF a
      <4>. QED
        BY <2>4, <2>5, <3>1, NestedMore
    <3>. QED
      BY <2>5, <3>2
  <2>7. Phased(c, k, Append(open, at), phase)
    BY <1>1, <1>2, <2>5 DEF Phased
  <2>8. Good(buf', k, t, open', phase')
    BY <2>1, <2>5, <2>6, <2>7 DEF Good
  <2>9. IInv' /\ Stream(buf') = t
    BY <2>8, GoodNext
  <2>10. Cursor(buf') = Cursor(buf)
    <3>1. Cursor(buf') = Len(t) - c.size /\ Cursor(buf) = off - buf.size
      BY <2>1, <2>9 DEF Cursor, off, s
    <3>. QED
      BY <1>1, <1>3, <2>5, <3>1
  <2>11. Stream(buf') = Stream(buf) \o Stm!ObjectHead(Len(Stream(buf)))
    <3>1. p = Stm!ObjectHead(off)
      BY Zenon DEF p, p1, p2, p3, Stm!ObjectHead
    <3>. QED
      BY <2>9, <3>1 DEF t, s, off
  <2>12. Starts(buf', open') = Append(Starts(buf, open), Len(Stream(buf)) + 1)
    BY <2>1, <2>6 DEF off, s
  <2>13. Within(buf')
    <3>1. off + (1 + SizeT + SizeA) <= MaxBytes
      BY DEF BeginSave, Room, off, s
    <3>2. Len(t) = off + (1 + SizeT + SizeA)
      BY <1>1, <1>3, <2>5
    <3>. QED
      BY <2>9, <3>1, <3>2 DEF Within
  <2>. QED
    BY <1>2, <2>9, <2>10, <2>11, <2>12, <2>13, Begins
<1>. QED
  BY <1>4, <1>5

\* A sequence without its last element.
LEMMA FrontIs ==
  ASSUME NEW S, NEW q, q \in Seq(S), q # <<>>
  PROVE  LET f == SubSeq(q, 1, Len(q) - 1)
         IN  /\ Len(q) \in Nat /\ Len(q) > 0 /\ f \in Seq(S) /\ Len(f) = Len(q) - 1
             /\ \A k \in 1 .. Len(q) - 1 : f[k] = q[k]
             /\ q[Len(q)] \in S
             /\ f = [k \in 1 .. Len(q) - 1 |-> q[k]]
<1>. DEFINE l == Len(q)
            f == SubSeq(q, 1, l - 1)
<1>1. l \in Nat /\ l # 0 /\ l > 0
  BY EmptySeq, LenProperties
<1>2. l - 1 \in 0 .. l /\ l \in 1 .. l
  BY <1>1
<1>3. f \in Seq(S) /\ Len(f) = l - 1 /\ \A k \in 1 .. l - 1 : f[k] = q[k]
  <2>1. \A i \in 1 .. l - 1 : q[i] \in S
    BY <1>1, ElementOfSeq
  <2>. DEFINE m == l - 1
  <2>2. 1 \in Int /\ m \in Int /\ \A i \in 1 .. m : q[i] \in S
    BY <1>1, <2>1
  <2>. HIDE DEF m
  <2>3. /\ SubSeq(q, 1, m) \in Seq(S) /\ Len(SubSeq(q, 1, m)) = IF 1 <= m THEN m - 1 + 1 ELSE 0
        /\ \A i \in 1 .. m - 1 + 1 : SubSeq(q, 1, m)[i] = q[1 + i - 1]
    BY <2>2, SubSeqProperties
  <2>4. m \in Nat
    BY <1>1 DEF m
  <2>. HIDE DEF l
  <2>5. Len(SubSeq(q, 1, m)) = m /\ \A i \in 1 .. m : SubSeq(q, 1, m)[i] = q[i]
    BY <2>3, <2>4
  <2>. QED
    BY <2>3, <2>5 DEF m
<1>4. f = [k \in 1 .. l - 1 |-> q[k]]
  <2>1. f = [k \in 1 .. Len(f) |-> f[k]]
    BY <1>3, LenProperties, SeqDef
  <2>. HIDE DEF f
  <2>. QED
    BY <1>3, <2>1
<1>5. q[l] \in S
  BY <1>2, ElementOfSeq
<1>. QED
  BY <1>1, <1>3, <1>4, <1>5

\* The innermost open size field: its place, its size so far, and the others.
LEMMA NestedLess ==
  ASSUME NEW b, NEW op, NEW s, Nested(b, op, s), op # <<>>
  PROVE  /\ Nested(b, Front(op), s) /\ b.MTU # 0 /\ Last(op) \in Place
         /\ Offset(Last(op), Unit(b)) + SizeT <= Len(s)
         /\ Last(op).size = Offset(Last(op), Unit(b)) - (Len(s) - b.size)
         /\ Starts(b, op) # <<>>
         /\ Starts(b, op)[Len(Starts(b, op))] = Offset(Last(op), Unit(b))
         /\ Starts(b, Front(op)) = SubSeq(Starts(b, op), 1, Len(Starts(b, op)) - 1)
<1>. DEFINE l == Len(op)
            f == Front(op)
            q == Starts(b, op)
            r == SubSeq(q, 1, Len(q) - 1)
<1>1. op \in Seq(Place) /\ b.MTU # 0
  BY DEF Nested, Place
<1>2. f = SubSeq(op, 1, l - 1) /\ Last(op) = op[l]
  BY Zenon DEF Front, Last
<1>3. /\ l \in Nat /\ l > 0 /\ f \in Seq(Place) /\ Len(f) = l - 1 /\ op[l] \in Place
      /\ \A k \in 1 .. l - 1 : f[k] = op[k]
  BY <1>1, <1>2, FrontIs
<1>. HIDE DEF l, f
<1>4. l \in 1 .. l /\ \A k \in 1 .. l - 1 : k \in 1 .. l
  BY <1>3
<1>5. /\ Offset(op[l], Unit(b)) + SizeT <= Len(s)
      /\ op[l].size = Offset(op[l], Unit(b)) - (Len(s) - b.size)
  BY <1>4 DEF Nested, l
<1>6. Nested(b, f, s)
  <2>1. \A k \in 1 .. Len(f) :
          /\ Offset(f[k], Unit(b)) + SizeT <= Len(s)
          /\ f[k].size = Offset(f[k], Unit(b)) - (Len(s) - b.size)
    BY <1>3, <1>4 DEF Nested, l
  <2>. QED
    BY <1>1, <1>3, <2>1 DEF Nested, Place
<1>7. q = [k \in 1 .. l |-> Offset(op[k], Unit(b))]
  BY StartsIs DEF l
<1>8. Starts(b, f) = [k \in 1 .. l - 1 |-> Offset(f[k], Unit(b))]
  BY <1>3, <1>6, StartsIs
<1>. DEFINE S == {Offset(op[k], Unit(b)) : k \in 1 .. l}
<1>. HIDE DEF q
<1>9. q \in Seq(S) /\ Len(q) = l /\ q # <<>>
  <2>1. q \in [1 .. l -> S]
    BY <1>7
  <2>0. DOMAIN q = 1 .. l /\ l \in Nat
    BY <1>3, <1>7
  <2>. HIDE DEF S
  <2>2. q \in Seq(S)
    BY <2>0, <2>1, SeqDef
  <2>3. Len(q) = l
    BY <2>0, <2>2, LenProperties
  <2>. QED
    BY <1>3, <2>2, <2>3, EmptySeq
<1>. HIDE DEF S
<1>10. r = [k \in 1 .. l - 1 |-> q[k]]
  BY <1>9, FrontIs
<1>11. Starts(b, f) = r
  <2>1. \A k \in 1 .. l - 1 : q[k] = Offset(f[k], Unit(b))
    BY <1>3, <1>4, <1>7
  <2>. HIDE DEF r
  <2>. QED
    BY <1>8, <1>10, <2>1
<1>12. q[Len(q)] = Offset(op[l], Unit(b))
  BY <1>4, <1>7, <1>9
<1>. QED
  BY <1>1, <1>2, <1>3, <1>5, <1>6, <1>9, <1>11, <1>12 DEF f, q, r

\* objSave ends: the size field is filled in, in place.
LEMMA EndSaveStep ==
  ASSUME IInv, EndSave
  PROVE  IInv' /\ Streams
<1>. DEFINE n == N(buf)
            s == Stream(buf)
            at == Last(open)
            a == Offset(at, Unit(buf))
            v == buf.size - at.size - SizeT
            c == Patched(buf, at, v)
            t == Filled(s, a, v)
            q == Starts(buf, open)
<1>1. /\ Shape(buf, n, s) /\ Reading(buf, n, s) /\ Nested(buf, open, s) /\ n \in Nat
      /\ Phased(buf, n, open, phase) /\ Len(s) \in Nat /\ buf.size \in Int /\ Unit(buf) \in Nat
  BY IInvFacts
<1>2. /\ open # <<>> /\ buf' = c /\ open' = Front(open) /\ last' = last /\ phase' = phase
      /\ phase \in {"raw", "saving"}
  BY DEF EndSave
<1>3. /\ Nested(buf, Front(open), s) /\ buf.MTU # 0 /\ at \in Place /\ a + SizeT <= Len(s)
      /\ at.size = a - (Len(s) - buf.size) /\ q # <<>> /\ q[Len(q)] = a
      /\ Starts(buf, Front(open)) = SubSeq(q, 1, Len(q) - 1)
  <2>. HIDE DEF s
  <2>. QED
    BY <1>1, <1>2, NestedLess
<1>4. at.index \in Nat /\ at.pos \in Nat /\ at.size \in Int /\ a \in Nat /\ SizeT \in Nat
  <2>1. at \in [index : Nat, pos : Nat, size : Int]
    BY <1>3 DEF Place
  <2>2. a \in Nat
    BY <1>1, <2>1, OffsetIs
  <2>. QED
    BY <2>1, <2>2, FragmentAssumption
<1>5. v \in Int /\ v = (Len(s) - a) - SizeT
  <2>. HIDE DEF a, s, at
  <2>. QED
    BY <1>1, <1>3, <1>4, SMTT(30)
<1>6. /\ Shape(c, n, t) /\ Len(t) = Len(s) /\ Same(buf, c) /\ c.MTU = buf.MTU /\ c.size = buf.size
      /\ \A i \in 0 .. n - 1 : /\ Avail(c, i) = Avail(buf, i) /\ c.frags[i].head = buf.frags[i].head
                               /\ c.frags[i].fid = buf.frags[i].fid
  <2>. HIDE DEF n, s, v
  <2>. QED
    BY <1>1, <1>3, <1>4, <1>5, PatchedIs, SMTT(30)
<1>. HIDE DEF c, t, s, n, v, at
<1>7. Unit(c) = Unit(buf)
  BY <1>3, <1>6 DEF Unit, Width, Sized, Same
<1>8. Reading(c, n, t)
  BY <1>1, <1>6, <1>7, ReadingSame DEF Same
<1>9. Nested(c, Front(open), t) /\ Starts(c, Front(open)) = Starts(buf, Front(open))
  <2>1. Len(t) \in Nat /\ Len(s) <= Len(t) /\ Len(t) - c.size = Len(s) - buf.size /\ c.MTU # 0
    BY <1>1, <1>3, <1>6
  <2>. QED
    BY <1>1, <1>3, <1>7, <2>1, NestedOn
<1>10. Phased(c, n, Front(open), phase)
  <2>1. Unsealed(c, n)
    <3>1. Unsealed(buf, n)
      BY <1>1, <1>2 DEF Phased
    <3>2. Local(c.frags, n)
      BY <1>6, <3>1, LocalSame DEF Unsealed, Plain
    <3>. QED
      BY <1>3, <1>6, <3>1, <3>2 DEF Unsealed, Plain, Same
  <2>. QED
    BY <1>1, <1>2, <1>6, <2>1 DEF Phased, Same
<1>11. Good(buf', n, t, open', phase')
  BY <1>2, <1>6, <1>8, <1>9, <1>10 DEF Good
<1>12. IInv' /\ Stream(buf') = t
  BY <1>11, GoodNext
<1>13. Cursor(buf') = Cursor(buf)
  BY <1>2, <1>6, <1>12 DEF Cursor, s
<1>14. Starts(buf', open') = SubSeq(q, 1, Len(q) - 1)
  BY <1>2, <1>3, <1>9
<1>15. Stream(buf') =
         LET p0 == q[Len(q)]
             value == Len(Stream(buf)) - p0 - SizeT
         IN  [p \in 1 .. Len(Stream(buf)) |->
                IF p - p0 \in 1 .. SizeT THEN Stm!SizeByte(value, p - p0) ELSE Stream(buf)[p]]
  <2>1. t = [p \in 1 .. Len(s) |-> IF p - a \in 1 .. SizeT THEN Stm!SizeByte(v, p - a) ELSE s[p]]
    BY Zenon DEF t, Filled
  <2>2. v = Len(s) - a - SizeT
    BY <1>1, <1>4, <1>5
  <2>. QED
    BY <1>3, <1>12, <2>1, <2>2, Zenon DEF s
<1>16. Len(Stream(buf')) = Len(Stream(buf))
  BY <1>6, <1>12 DEF s
<1>. QED
  BY <1>2, <1>3, <1>12, <1>13, <1>14, <1>15, <1>16, Ends, Zenon

\* finish leaves the stream, and frames.
LEMMA FinishStep ==
  ASSUME IInv, Finish
  PROVE  IInv' /\ Streams
<1>. DEFINE n == N(buf)
            s == Stream(buf)
            c == Finished(buf)
<1>1. /\ Shape(buf, n, s) /\ Reading(buf, n, s) /\ Phased(buf, n, open, phase) /\ n \in Nat
      /\ (n = 0 <=> buf.frags = EmptyMap)
  BY IInvFacts
<1>2. /\ open = <<>> /\ open' = open /\ last' = last /\ phase = "saving" /\ phase' = "sealed"
      /\ buf' = c /\ n > 0
  BY <1>1 DEF Finish
<1>. HIDE DEF n, s
<1>3. buf.heads > 0 /\ buf.MTU # 0 /\ Plain(buf, n)
  BY <1>1, <1>2 DEF Phased, Unsealed
<1>4. /\ Shape(c, n, s) /\ Framed(c, n) /\ Same(buf, c) /\ c.MTU = buf.MTU /\ c.size = buf.size
      /\ \A i \in 0 .. n - 1 : Avail(c, i) = Avail(buf, i)
  BY <1>1, <1>2, <1>3, FinishedIs
<1>. HIDE DEF c
<1>5. Unit(c) = Unit(buf)
  BY <1>3, <1>4 DEF Unit, Width, Sized, Same
<1>6. Reading(c, n, s)
  BY <1>1, <1>4, <1>5, ReadingSame DEF Same
<1>7. Nested(c, <<>>, s) /\ Phased(c, n, <<>>, "sealed")
  BY <1>4, NothingNested DEF Phased
<1>8. Good(buf', n, s, open', phase')
  BY <1>2, <1>4, <1>6, <1>7 DEF Good
<1>9. IInv' /\ Stream(buf') = s
  BY <1>8, GoodNext
<1>10. Cursor(buf') = Cursor(buf)
  BY <1>2, <1>4, <1>9 DEF Cursor, s
<1>11. Starts(buf', open') = Starts(buf, open)
  BY <1>2, NothingOpen
<1>. QED
  BY <1>2, <1>9, <1>10, <1>11, Stutters DEF s

\* Only the read position is another.
LEMMA KeptGood ==
  ASSUME NEW b, NEW n, NEW s, NEW ph, Phased(b, n, <<>>, ph), NEW c, Kept(b, c),
         Shape(c, n, s), Reading(c, n, s)
  PROVE  Good(c, n, s, <<>>, ph)
<1>1. Unsealed(b, n) => Unsealed(c, n)
  BY DEF Unsealed, Plain, Kept
<1>2. Framed(b, n) => Framed(c, n)
  <2>1. \A i : Avail(c, i) = Avail(b, i)
    BY DEF Avail, Kept
  <2>. QED
    BY <2>1 DEF Framed, Kept
<1>3. Phased(c, n, <<>>, ph)
  BY <1>1, <1>2 DEF Phased, Kept
<1>. QED
  BY <1>3, NothingNested DEF Good

\* c and the bytes got are what Read of so many bytes comes to.
TookAll(b, n, s, want, c) ==
  LET o == Len(s) - b.size
  IN  /\ Shape(c.buf, n, s) /\ Reading(c.buf, n, s) /\ Kept(b, c.buf)
      /\ c.buf.size = b.size - want
      /\ c.got = SubSeq(s, o + 1, o + want)

\* Read of no more than there is gets it all.
LEMMA TookAllIs ==
  ASSUME NEW b, NEW n, NEW s, Shape(b, n, s), Reading(b, n, s), NEW want, want \in Nat,
         want <= b.size
  PROVE  TookAll(b, n, s, want, Copied(b, want))
BY CopiedIs DEF TookAll

\* Read is a read of the byte stream.
LEMMA ReadStep ==
  ASSUME IInv, NEW m \in Counts, Read(m)
  PROVE  IInv' /\ Streams
<1>. DEFINE n == N(buf)
            s == Stream(buf)
            r == Copied(buf, m)
            o == Len(s) - buf.size
<1>1. /\ Shape(buf, n, s) /\ Reading(buf, n, s) /\ Phased(buf, n, open, phase)
      /\ Len(s) \in Nat /\ buf.size \in 0 .. Len(s) /\ Good(buf, n, s, open, phase)
  BY IInvFacts DEF IInv
<1>2. open = <<>> /\ open' = <<>> /\ phase' = phase /\ m \in Nat
  BY FragmentAssumption DEF Read, Idle
<1>3. /\ IF m = 0 \/ buf.size >= m THEN buf' = r.buf /\ last' = [ok |-> TRUE, bytes |-> r.got]
         ELSE last' = Stm!InSufficientData /\ buf' = buf
  BY Zenon DEF Read
<1>4. Starts(buf', open') = Starts(buf, open)
  BY <1>2, NothingOpen
<1>5. Cursor(buf) = o
  BY DEF Cursor
<1>6. CASE m = 0 \/ buf.size >= m
  <2>1. m <= buf.size /\ buf' = r.buf /\ last' = [ok |-> TRUE, bytes |-> r.got]
    BY <1>1, <1>2, <1>3, <1>6
  <2>2. /\ Shape(r.buf, n, s) /\ Reading(r.buf, n, s) /\ Kept(buf, r.buf)
        /\ r.buf.size = buf.size - m /\ r.got = SubSeq(s, o + 1, o + m)
    <3>. HIDE DEF n, s
    <3>1. TookAll(buf, n, s, m, r)
      BY <1>1, <1>2, <2>1, TookAllIs
    <3>. QED
      BY <3>1, Zenon DEF TookAll
  <2>3. Good(buf', n, s, open', phase')
    <3>. HIDE DEF n, s, r
    <3>. QED
      BY <1>1, <1>2, <2>1, <2>2, KeptGood
  <2>4. IInv' /\ Stream(buf') = s
    BY <2>3, GoodNext
  <2>5. Cursor(buf') = o + m
    <3>1. Cursor(buf') = Len(s) - (buf.size - m)
      BY <2>1, <2>2, <2>4 DEF Cursor
    <3>. QED
      BY <1>1, <1>2, <3>1
  <2>6. o + m <= Len(s)
    BY <1>1, <1>2, <2>1
  <2>7. Fetched(buf, m) = [ok |-> TRUE, bytes |-> SubSeq(s, o + 1, o + m)]
    BY <1>5, <2>6 DEF Fetched
  <2>8. last' = Fetched(buf, m) /\ Fetched(buf, m).ok
    BY <2>1, <2>2, <2>7
  <2>. QED
    BY <1>4, <1>5, <2>4, <2>5, <2>8, Consumes
<1>7. CASE ~ (m = 0 \/ buf.size >= m)
  <2>1. buf' = buf /\ last' = Stm!InSufficientData
    BY <1>3, <1>7
  <2>2. IInv' /\ Stream(buf') = s /\ Cursor(buf') = o
    <3>1. Good(buf', n, s, open', phase')
      BY <1>1, <1>2, <2>1
    <3>. QED
      BY <2>1, <3>1, GoodNext DEF Cursor
  <2>3. ~ (o + m <= Len(s))
    BY <1>1, <1>2, <1>7
  <2>4. Fetched(buf, m) = [ok |-> FALSE, bytes |-> <<>>]
    BY <1>5, <2>3 DEF Fetched
  <2>5. last' = Fetched(buf, m) /\ ~ Fetched(buf, m).ok
    BY <2>1, <2>4 DEF Stm!InSufficientData
  <2>. QED
    BY <1>4, <1>5, <2>2, <2>5, Consumes
<1>. QED
  BY <1>6, <1>7

\* PeekByte is a look at the byte stream.
LEMMA PeekByteStep ==
  ASSUME IInv, PeekByte
  PROVE  IInv' /\ Streams
<1>. DEFINE n == N(buf)
            s == Stream(buf)
            b == Normal(buf)
            o == Len(s) - buf.size
<1>1. /\ Shape(buf, n, s) /\ Reading(buf, n, s) /\ Phased(buf, n, open, phase)
      /\ s \in Seq(Byte) /\ Len(s) \in Nat /\ buf.size \in 0 .. Len(s) /\ Good(buf, n, s, open, phase)
  BY IInvFacts DEF IInv
<1>2. open = <<>> /\ open' = <<>> /\ phase' = phase
  BY DEF PeekByte, Idle
<1>3. IF buf.size = 0 THEN last' = Stm!InSufficientData /\ buf' = buf
      ELSE /\ buf' = b
           /\ last' = [ok |-> TRUE, bytes |-> <<b.frags[b.index].payload[b.pos + 1]>>]
  BY Zenon DEF PeekByte
<1>4. Starts(buf', open') = Starts(buf, open)
  BY <1>2, NothingOpen
<1>5. Cursor(buf) = o
  BY DEF Cursor
<1>6. CASE buf.size # 0
  <2>1. buf.size > 0
    BY <1>1, <1>6
  <2>2. /\ Shape(b, n, s) /\ Reading(b, n, s) /\ Kept(buf, b) /\ b.size = buf.size /\ n > 0
        /\ b.pos < Avail(b, b.index)
    <3>. HIDE DEF n, s
    <3>. QED
      BY <1>1, <2>1, NormalIs
  <2>. HIDE DEF b, n, s
  <2>3. Good(buf', n, s, open', phase')
    BY <1>1, <1>2, <1>3, <1>6, <2>2, KeptGood
  <2>4. IInv' /\ Stream(buf') = s
    BY <2>3, GoodNext
  <2>5. Cursor(buf') = o
    BY <1>3, <1>6, <2>2, <2>4 DEF Cursor
  <2>6. b.frags[b.index].payload[b.pos + 1] = s[o + 1]
    <3>. DEFINE i == b.index
                w == Unit(b)
                a == Start(i, w)
    <3>1. Cut(b.frags, n, w, s) /\ b \in Buffers /\ n \in Nat /\ w \in Nat
      BY <2>2, ShapeFacts DEF Shape
    <3>2. i \in 0 .. n - 1 /\ i \in Nat /\ b.pos \in Nat
      BY <2>2, <3>1 DEF Reading, Buffers
    <3>3. o = a + b.pos /\ a \in Nat
      BY <2>2, <3>1, <3>2, StartFacts DEF Reading
    <3>4. Avail(b, i) = PieceLen(n, w, s, i) /\ PieceLen(n, w, s, i) \in Nat
      BY <3>1, <3>2, CutFacts DEF Avail
    <3>. HIDE DEF i, w, a
    <3>5. b.pos + 1 \in 1 .. PieceLen(n, w, s, i)
      BY <2>2, <3>2, <3>4 DEF i
    <3>6. b.frags[i].payload[b.pos + 1] = s[a + (b.pos + 1)]
      BY <3>1, <3>2, <3>5 DEF Cut, a
    <3>7. a + (b.pos + 1) = o + 1
      BY <3>2, <3>3
    <3>. QED
      BY <3>6, <3>7 DEF i
  <2>7. o + 1 <= Len(s) /\ o \in Nat
    BY <1>1, <2>1
  <2>8. <<s[o + 1]>> = SubSeq(s, o + 1, o + 1)
    <3>. DEFINE k == o + 1
                x == SubSeq(s, k, k)
    <3>1. k \in 1 .. Len(s) /\ k \in Int
      BY <1>1, <2>7
    <3>. HIDE DEF k
    <3>2. \A i \in k .. k : s[i] \in Byte
      BY <1>1, <3>1, ElementOfSeq
    <3>3. /\ x \in Seq(Byte) /\ Len(x) = IF k <= k THEN k - k + 1 ELSE 0
          /\ \A i \in 1 .. k - k + 1 : x[i] = s[k + i - 1]
      BY <3>1, <3>2, SubSeqProperties
    <3>4. Len(x) = 1 /\ x[1] = s[k]
      <4>1. k - k + 1 = 1 /\ k + 1 - 1 = k /\ 1 \in 1 .. k - k + 1 /\ k <= k
        BY <3>1
      <4>2. Len(x) = k - k + 1 /\ x[1] = s[k + 1 - 1]
        BY <3>3, <4>1, Zenon
      <4>. QED
        BY <4>1, <4>2
    <3>5. <<s[k]>> \in Seq(Byte) /\ Len(<<s[k]>>) = 1 /\ <<s[k]>>[1] = s[k]
      <4>1. s[k] \in Byte
        BY <1>1, <3>1, ElementOfSeq
      <4>. QED
        BY <4>1
    <3>. HIDE DEF x
    <3>6. \A i \in 1 .. Len(x) : x[i] = <<s[k]>>[i]
      BY <3>4, <3>5
    <3>7. x = <<s[k]>>
      <4>. DEFINE y == <<s[k]>>
      <4>1. /\ x \in Seq(Byte) /\ y \in Seq(Byte) /\ Len(x) = Len(y)
            /\ \A i \in 1 .. Len(x) : x[i] = y[i]
        BY <3>3, <3>4, <3>5, <3>6
      <4>. HIDE DEF y
      <4>2. x = y
        BY <4>1, SeqEqual
      <4>. QED
        BY <4>2 DEF y
    <3>. QED
      BY <3>7 DEF k, x
  <2>9. Fetched(buf, 1) = [ok |-> TRUE, bytes |-> SubSeq(s, o + 1, o + 1)]
    BY <1>5, <2>7 DEF Fetched, s
  <2>10. last' = Fetched(buf, 1)
    BY <1>3, <1>6, <2>6, <2>8, <2>9
  <2>. QED
    BY <1>4, <1>5, <2>4, <2>5, <2>10, Looks DEF s
<1>7. CASE buf.size = 0
  <2>1. buf' = buf /\ last' = Stm!InSufficientData
    BY <1>3, <1>7
  <2>2. IInv' /\ Stream(buf') = s /\ Cursor(buf') = o
    <3>1. Good(buf', n, s, open', phase')
      BY <1>1, <1>2, <2>1
    <3>. QED
      BY <2>1, <3>1, GoodNext DEF Cursor
  <2>3. ~ (o + 1 <= Len(s))
    BY <1>1, <1>7
  <2>4. last' = Fetched(buf, 1)
    BY <1>5, <2>1, <2>3 DEF Fetched, Stm!InSufficientData
  <2>. QED
    BY <1>4, <1>5, <2>2, <2>4, Looks
<1>. QED
  BY <1>6, <1>7

\* The same bytes, to be read from the start.
LEMMA Again ==
  ASSUME IInv, open = <<>>, open' = <<>>, last' = last,
         NEW k, Good(buf', k, Stream(buf), open', phase'), buf'.size = Len(Stream(buf))
  PROVE  IInv' /\ Streams
<1>1. IInv' /\ Stream(buf') = Stream(buf)
  BY GoodNext
<1>2. Len(Stream(buf)) \in Nat
  BY IInvFacts
<1>3. Cursor(buf') = 0
  BY <1>1, <1>2 DEF Cursor
<1>4. Starts(buf', open') = Starts(buf, open)
  BY NothingOpen
<1>. QED
  BY <1>1, <1>3, <1>4, Restarts

\* Rewind sets the byte stream's cursor back.
LEMMA RewindStep ==
  ASSUME IInv, Rewind
  PROVE  IInv' /\ Streams
<1>. DEFINE n == N(buf)
            s == Stream(buf)
            c == Rewound(buf)
<1>1. Shape(buf, n, s) /\ Phased(buf, n, open, phase)
  BY IInvFacts
<1>2. open = <<>> /\ open' = <<>> /\ phase' = phase /\ last' = last /\ buf' = c
  BY DEF Rewind, Idle
<1>. HIDE DEF n, s
<1>3. Shape(c, n, s) /\ Reading(c, n, s) /\ Kept(buf, c) /\ c.size = Len(s)
  BY <1>1, RewoundIs
<1>. HIDE DEF c
<1>4. Good(buf', n, s, open', phase') /\ buf'.size = Len(s)
  BY <1>1, <1>2, <1>3, KeptGood
<1>. QED
  BY <1>2, <1>4, Again DEF s

\* Clear empties the byte stream.
LEMMA ClearStep ==
  ASSUME IInv, Clear
  PROVE  IInv' /\ Streams
<1>. DEFINE c == [buf EXCEPT !.index = 0, !.pos = 0, !.size = 0, !.heads = 0, !.headSize = 0,
                             !.lenChecksum = 0, !.frags = EmptyMap]
<1>1. buf \in Buffers /\ (buf.MTU = 0 => buf.windex = 0)
  BY IInvFacts DEF Shape
<1>2. open = <<>> /\ open' = <<>> /\ phase' = "raw" /\ last' = last /\ buf' = c
  BY DEF Clear, Idle
<1>3. PICK x : x = At(buf, 0, 0, 0)
  OBVIOUS
<1>4. x \in Buffers
  <2>1. 0 \in Nat
    OBVIOUS
  <2>. QED
    BY <1>1, <1>3, <2>1, Repositioned
<1>5. PICK y : y = [x EXCEPT !.heads = 0, !.headSize = 0]
  OBVIOUS
<1>6. y \in Buffers
  <2>1. PICK u : u = [x EXCEPT !.heads = 0]
    OBVIOUS
  <2>2. u \in Buffers
    BY <1>4, <2>1 DEF Buffers
  <2>3. y = [u EXCEPT !.headSize = 0]
    BY <1>5, <2>1, Zenon
  <2>. QED
    BY <2>2, <2>3 DEF Buffers
<1>7. PICK z : z = [y EXCEPT !.lenChecksum = 0]
  OBVIOUS
<1>8. z \in Buffers
  BY <1>6, <1>7 DEF Buffers
<1>9. c = [z EXCEPT !.frags = EmptyMap]
  BY <1>3, <1>5, <1>7, Zenon DEF At
<1>10. c \in Buffers
  <2>. HIDE DEF c
  <2>. QED
    BY <1>8, <1>9, EmptyMapIs DEF Buffers
<1>11. /\ c.frags = EmptyMap /\ c.MTU = buf.MTU /\ c.windex = buf.windex /\ c.heads = 0
       /\ c.lenChecksum = 0 /\ c.size = 0 /\ c.index = 0 /\ c.pos = 0 /\ c.MTU \in Nat
  BY <1>1 DEF Buffers
<1>. HIDE DEF c
<1>12. Unit(c) \in Nat /\ Unit(c) > 0
  <2>1. N(c) = 0
    BY <1>11, EmptyMapIs, FS_EmptySet DEF N
  <2>. QED
    BY <1>11, <2>1 DEF Unit, Width, Sized
<1>13. Shape(c, 0, <<>>)
  BY <1>1, <1>10, <1>11, <1>12, NothingYet, FragmentAssumption
<1>14. Reading(c, 0, <<>>)
  <2>1. Start(0, Unit(c)) = 0 /\ Len(<<>>) = 0
    BY <1>12, StartFacts
  <2>. QED
    BY <1>11, <2>1 DEF Reading
<1>15. Phased(c, 0, <<>>, "raw")
  <2>1. 0 .. 0 - 1 = {}
    OBVIOUS
  <2>. QED
    BY <1>11, <2>1, LocalNone DEF Phased, Unsealed, Plain
<1>16. Good(buf', 0, <<>>, open', phase')
  BY <1>2, <1>13, <1>14, <1>15, NothingNested DEF Good
<1>17. IInv' /\ Stream(buf') = <<>>
  BY <1>16, GoodNext
<1>18. Cursor(buf') = 0
  BY <1>2, <1>11, <1>17 DEF Cursor
<1>19. Starts(buf', open') = <<>>
  BY <1>2, NothingOpen
<1>. QED
  BY <1>2, <1>17, <1>18, <1>19, Forgets

\* Cutting anew is good for a Buffer that nothing is being saved into.
LEMMA RecutGood ==
  ASSUME NEW b, NEW n, NEW ph, Phased(b, n, <<>>, ph), ph \in {"raw", "sealed"},
         NEW c, NEW k, NEW s, Recut(b, c, k, s)
  PROVE  Good(c, k, s, <<>>, ph) /\ c.size = Len(s)
<1>1. /\ Shape(c, k, s) /\ Reading(c, k, s) /\ c.heads = b.heads /\ c.MTU # 0 /\ c.size = Len(s)
      /\ IF b.heads > 0 THEN Framed(c, k) ELSE Plain(c, k)
  BY DEF Recut, SameHeader
<1>2. ph = "raw" => c.heads = 0 /\ Unsealed(c, k)
  BY <1>1 DEF Phased, Unsealed
<1>3. ph = "sealed" => Framed(c, k)
  BY <1>1 DEF Phased, Framed
<1>4. Phased(c, k, <<>>, ph)
  BY <1>2, <1>3 DEF Phased
<1>. QED
  BY <1>1, <1>4, NothingNested DEF Good

\* Split restarts the byte stream, unless it does nothing.
LEMMA SplitStep ==
  ASSUME IInv, NEW mtu \in MTUs, Split(mtu)
  PROVE  IInv' /\ Streams
<1>. DEFINE n == N(buf)
            s == Stream(buf)
<1>1. /\ Shape(buf, n, s) /\ Phased(buf, n, open, phase) /\ n \in Nat /\ buf \in Buffers
      /\ (n = 0 <=> buf.frags = EmptyMap)
  BY IInvFacts
<1>2. open = <<>> /\ open' = <<>> /\ last' = last /\ phase \in {"raw", "sealed"} /\ mtu \in Nat
  BY FragmentAssumption DEF Split, Idle
<1>3. CASE buf.MTU <= mtu \/ mtu <= buf.heads + buf.lenChecksum
  <2>1. buf' = buf /\ phase' = phase
    BY <1>3 DEF Split
  <2>. QED
    BY <1>2, <2>1, Nothing
<1>4. CASE ~ (buf.MTU <= mtu \/ mtu <= buf.heads + buf.lenChecksum) /\ buf.frags = EmptyMap
  <2>1. buf' = buf /\ phase' = "panicked"
    BY <1>4 DEF Split
  <2>2. Local(buf.frags, n)
    BY <1>1, <1>4, LocalNone
  <2>. QED
    BY <1>2, <2>1, <2>2, Panics
<1>5. CASE ~ (buf.MTU <= mtu \/ mtu <= buf.heads + buf.lenChecksum) /\ buf.frags # EmptyMap
  <2>1. buf' = Resplit(buf, mtu) /\ phase' = phase /\ n > 0
    BY <1>1, <1>5 DEF Split
  <2>2. mtu > buf.heads + buf.lenChecksum
    BY <1>1, <1>2, <1>5 DEF Buffers
  <2>. HIDE DEF n, s
  <2>3. PICK k \in Nat : Recut(buf, Resplit(buf, mtu), k, s)
    BY <1>1, <1>2, <2>1, <2>2, ResplitIs
  <2>4. Good(buf', k, s, open', phase') /\ buf'.size = Len(s)
    BY <1>1, <1>2, <2>1, <2>3, RecutGood
  <2>. QED
    BY <1>2, <2>4, Again DEF s
<1>. QED
  BY <1>3, <1>4, <1>5

\* Merge restarts the byte stream, unless it does nothing.
LEMMA MergeStep ==
  ASSUME IInv, Merge
  PROVE  IInv' /\ Streams
<1>. DEFINE n == N(buf)
            s == Stream(buf)
<1>1. Shape(buf, n, s) /\ Phased(buf, n, open, phase)
  BY IInvFacts
<1>2. /\ open = <<>> /\ open' = <<>> /\ last' = last /\ phase \in {"raw", "sealed"}
      /\ phase' = phase /\ buf' = Merged(buf)
  BY DEF Merge, Idle
<1>3. IF n < 2 THEN Merged(buf) = buf ELSE \E k \in Nat : Recut(buf, Merged(buf), k, s)
  <2>. HIDE DEF n, s
  <2>. QED
    BY <1>1, MergedIs
<1>4. CASE n < 2
  BY <1>2, <1>3, <1>4, Nothing
<1>5. CASE ~ (n < 2)
  <2>1. PICK k \in Nat : Recut(buf, Merged(buf), k, s)
    BY <1>3, <1>5
  <2>. HIDE DEF n, s
  <2>2. Good(buf', k, s, open', phase') /\ buf'.size = Len(s)
    BY <1>1, <1>2, <2>1, RecutGood
  <2>. QED
    BY <1>2, <2>2, Again DEF s
<1>. QED
  BY <1>4, <1>5

-----------------------------------------------------------------------------
\* The object is in no more fragments than an int16 can number.
FewFragments == Cardinality(DOMAIN buf.frags) <= ShortMax

\* Pipe restarts the byte stream in another Buffer.
LEMMA PipeStep ==
  ASSUME IInv, FewFragments, NEW first, Pipe(first)
  PROVE  IInv' /\ Streams
<1>. DEFINE n == N(buf)
            s == Stream(buf)
            f == first - 1
            h == buf.heads
            l == buf.lenChecksum
            rest == [k \in DOMAIN Fragments(buf) |-> Decoded(Fragments(buf)[k])]
            z == rest[first].head.size
            new == [NewBuffer(0) EXCEPT !.heads = h, !.lenChecksum = l, !.headSize = z]
            opened == Pushed(new, rest[first])
<1>1. /\ Shape(buf, n, s) /\ Phased(buf, n, open, phase) /\ n \in Nat /\ buf \in Buffers
      /\ l <= ChecksumLen
  BY IInvFacts DEF Shape
<1>2. phase = "sealed" /\ open' = open /\ last' = last /\ first \in DOMAIN Fragments(buf)
  BY DEF Pipe
<1>3. open = <<>> /\ Framed(buf, n) /\ n <= ShortMax /\ h > 0 /\ h \in Nat /\ l \in Nat
  <2>1. h \in Nat /\ l \in Nat
    BY <1>1 DEF Buffers
  <2>. QED
    BY <1>1, <1>2, <2>1 DEF Phased, FewFragments, N, Framed
<1>4. CASE \A k \in DOMAIN Fragments(buf) : Decodes(Fragments(buf)[k])
  <2>1. buf' = FoldLeft(Pushed, opened, rest) /\ phase' = phase
    BY <1>4, Zenon DEF Pipe
  <2>2. /\ DOMAIN Fragments(buf) = 1 .. n /\ \A k \in 1 .. n : Fragments(buf)[k] = buf.frags[k - 1]
        /\ first \in 1 .. n
    BY <1>2 DEF Fragments, N
  <2>3. f \in 0 .. n - 1 /\ rest[first] = Decoded(buf.frags[f])
    BY <1>1, <2>2
  <2>4. \A i \in 0 .. n - 1 : Decodes(buf.frags[i])
    <3>1. \A i \in 0 .. n - 1 : i + 1 \in 1 .. n /\ (i + 1) - 1 = i
      BY <1>1
    <3>. QED
      BY <1>4, <2>2, <3>1
  <2>5. z \in Int
    <3>1. Decoded(buf.frags[f]) \in Fragment
      <4>. HIDE DEF n, s, f
      <4>. QED
        BY <1>1, <1>3, <2>3, DecodedIs
    <3>. QED
      BY <2>3, <3>1 DEF Fragment
  <2>6. rest = Frames(buf)
    BY DEF Frames
  <2>. HIDE DEF rest, z, f, n, s, l, h
  <2>7. new = Box(h, z, l, NoSchema, 0, EmptyMap)
    <3>1. NewBuffer(0) = Box(0, 0, 0, NoSchema, 0, EmptyMap)
      BY DEF NewBuffer, Box
    <3>2. PICK u : u = [NewBuffer(0) EXCEPT !.heads = h]
      OBVIOUS
    <3>3. u = Box(h, 0, 0, NoSchema, 0, EmptyMap)
      BY <3>1, <3>2 DEF Box
    <3>4. PICK v : v = [u EXCEPT !.lenChecksum = l]
      OBVIOUS
    <3>5. v = Box(h, 0, l, NoSchema, 0, EmptyMap)
      BY <3>3, <3>4 DEF Box
    <3>6. [v EXCEPT !.headSize = z] = Box(h, z, l, NoSchema, 0, EmptyMap)
      BY <3>5 DEF Box
    <3>7. new = [v EXCEPT !.headSize = z]
      BY <3>2, <3>4, Zenon
    <3>. QED
      BY <3>6, <3>7
  <2>. HIDE DEF new
  <2>8. opened = Pile(buf, n, s, h, z, l, 0, f)
    BY <1>1, <1>3, <2>3, <2>7, PushFirst
  <2>. HIDE DEF opened
  <2>. DEFINE c == Pile(buf, n, s, h, z, l, n, f)
  <2>9. f \in 0 .. n
    BY <1>1, <2>3
  <2>10. FoldLeft(Pushed, opened, rest) = c
    BY <1>1, <1>3, <2>6, <2>8, <2>9, PushesIs
  <2>11. Arrived(buf, c, n, s, h)
    BY <1>1, <1>3, <2>5, <2>9, PileIs
  <2>. HIDE DEF c
  <2>12. Good(c, n, s, <<>>, "sealed") /\ c.size = Len(s)
    BY <1>3, <2>4, <2>11, NothingNested DEF Arrived, Good, Phased
  <2>13. Good(buf', n, s, open', phase') /\ buf'.size = Len(s)
    BY <1>2, <1>3, <2>1, <2>10, <2>12
  <2>. QED
    BY <1>2, <1>3, <2>13, Again DEF s
<1>5. CASE ~ \A k \in DOMAIN Fragments(buf) : Decodes(Fragments(buf)[k])
  <2>1. buf' = buf /\ phase' = "panicked"
    BY <1>5, Zenon DEF Pipe
  <2>2. Local(buf.frags, n)
    <3>1. PICK k \in DOMAIN Fragments(buf) : ~ Decodes(Fragments(buf)[k])
      BY <1>5
    <3>2. k \in 1 .. n /\ Fragments(buf)[k] = buf.frags[k - 1]
      BY <3>1 DEF Fragments, N
    <3>3. k - 1 \in 0 .. n - 1
      BY <1>1, <3>2
    <3>. QED
      BY <1>3, <3>1, <3>2, <3>3 DEF Framed
  <2>. QED
    BY <1>2, <2>1, <2>2, Panics
<1>. QED
  BY <1>4, <1>5

\* Every step keeps the invariant and is a step of the byte stream or none.
LEMMA NextStep ==
  ASSUME IInv, FewFragments, [Next]_vars
  PROVE  IInv' /\ Streams
<1>1. ASSUME NEW h \in HeadLens, Prepare(h) PROVE IInv' /\ Streams
  BY <1>1, PrepareStep
<1>2. ASSUME NEW m \in Counts, AppendData(m) PROVE IInv' /\ Streams
  BY <1>2, AppendDataStep
<1>3. ASSUME NEW m \in Counts, Read(m) PROVE IInv' /\ Streams
  BY <1>3, ReadStep
<1>4. ASSUME NEW mtu \in MTUs, Split(mtu) PROVE IInv' /\ Streams
  BY <1>4, SplitStep
<1>5. ASSUME NEW first, Pipe(first) PROVE IInv' /\ Streams
  BY <1>5, PipeStep
<1>6. CASE BeginSave
  BY <1>6, BeginSaveStep
<1>7. CASE EndSave
  BY <1>7, EndSaveStep
<1>8. CASE Finish
  BY <1>8, FinishStep
<1>9. CASE PeekByte
  BY <1>9, PeekByteStep
<1>10. CASE Rewind
  BY <1>10, RewindStep
<1>11. CASE Clear
  BY <1>11, ClearStep
<1>12. CASE Merge
  BY <1>12, MergeStep
<1>13. CASE UNCHANGED vars
  <2>1. buf' = buf /\ open' = open /\ last' = last /\ phase' = phase
    BY <1>13 DEF vars
  <2>. QED
    BY <2>1, Nothing
<1>. QED
  BY <1>1, <1>2, <1>3, <1>4, <1>5, <1>6, <1>7, <1>8, <1>9, <1>10, <1>11, <1>12, <1>13 DEF Next

\* The invariant holds.
LEMMA Correct == Spec /\ []FewFragments => []IInv
<1>1. Init => IInv
  BY InitIInv
<1>2. IInv /\ FewFragments /\ [Next]_vars => IInv'
  BY NextStep
<1>. QED
  BY <1>1, <1>2, PTL DEF Spec

\* A fragment has a byte at least: a stream that is not too long is in few fragments.
LEMMA WithinIsFew ==
  ASSUME IInv, Within(buf), MaxBytes <= ShortMax
  PROVE  FewFragments
<1>. DEFINE n == N(buf)
            s == Stream(buf)
            w == Unit(buf)
<1>1. Cut(buf.frags, n, w, s) /\ n \in Nat /\ w \in Nat /\ w > 0 /\ Len(s) \in Nat
  BY IInvFacts DEF Shape
<1>. HIDE DEF n, s, w
<1>2. n <= Len(s)
  <2>1. CASE n = 0
    BY <1>1, <2>1
  <2>2. CASE n # 0
    <3>1. n - 1 \in Nat /\ Start(n - 1, w) < Len(s)
      BY <1>1, <2>2 DEF Cut
    <3>2. n - 1 <= Start(n - 1, w) /\ Start(n - 1, w) \in Nat
      BY <1>1, <3>1, StartAtLeast
    <3>. QED
      BY <1>1, <3>1, <3>2
  <2>. QED
    BY <2>1, <2>2
<1>3. Len(s) <= MaxBytes
  BY DEF Within, s
<1>4. n <= ShortMax
  BY <1>1, <1>2, <1>3, FragmentAssumption
<1>. QED
  BY <1>4 DEF FewFragments, N, n

\* The fragments as TypeOK and FramesDeliver see them.
LEMMA LengthsAre ==
  ASSUME IInv
  PROVE  LET n == N(buf)
             s == Stream(buf)
         IN  /\ n \in Nat /\ DOMAIN Lengths = 1 .. n /\ Len(Lengths) = n
             /\ DOMAIN Fragments(buf) = 1 .. n
             /\ \A k \in 1 .. n : /\ Fragments(buf)[k] = buf.frags[k - 1]
                                  /\ Lengths[k] = Avail(buf, k - 1)
                                  /\ Lengths[k] = PieceLen(n, Unit(buf), s, k - 1)
                                  /\ Lengths[k] \in 1 .. Unit(buf)
                                  /\ buf.frags[k - 1].len = Lengths[k]
<1>. DEFINE n == N(buf)
            s == Stream(buf)
            w == Unit(buf)
<1>1. Cut(buf.frags, n, w, s) /\ n \in Nat /\ w \in Nat
  BY IInvFacts DEF Shape
<1>2. DOMAIN Fragments(buf) = 1 .. n /\ \A k \in 1 .. n : Fragments(buf)[k] = buf.frags[k - 1]
  BY DEF Fragments, N
<1>3. DOMAIN Lengths = 1 .. n /\ \A k \in 1 .. n : Lengths[k] = Avail(buf, k - 1)
  BY <1>2 DEF Lengths, Avail
<1>. HIDE DEF n, s, w
<1>4. ASSUME NEW k \in 1 .. n
      PROVE  /\ Lengths[k] = PieceLen(n, w, s, k - 1) /\ Lengths[k] \in 1 .. w
             /\ buf.frags[k - 1].len = Lengths[k]
  <2>1. k - 1 \in 0 .. n - 1
    BY <1>1
  <2>2. Avail(buf, k - 1) = PieceLen(n, w, s, k - 1) /\ PieceLen(n, w, s, k - 1) \in 1 .. w
    BY <1>1, <2>1, CutFacts DEF Avail
  <2>3. buf.frags[k - 1].len = PieceLen(n, w, s, k - 1)
    BY <1>1, <2>1 DEF Cut
  <2>. QED
    BY <1>3, <2>2, <2>3
<1>5. Len(Lengths) = n
  <2>. DEFINE q == Lengths
  <2>1. q = [k \in 1 .. n |-> q[k]]
    BY <1>2 DEF Lengths
  <2>2. DOMAIN q = 1 .. n /\ \A k \in 1 .. n : q[k] \in Nat
    BY <1>1, <1>3, <1>4
  <2>. HIDE DEF q
  <2>3. q \in [1 .. n -> Nat]
    BY <2>1, <2>2
  <2>4. q \in Seq(Nat)
    BY <1>1, <2>3, SeqDef
  <2>5. Len(q) = n
    BY <1>1, <2>2, <2>4, LenProperties
  <2>. QED
    BY <2>5 DEF q
<1>. QED
  BY <1>1, <1>2, <1>3, <1>4, <1>5 DEF n, s, w

\* The shape TypeOK demands is part of the invariant.
LEMMA IInvTypeOK ==
  ASSUME IInv
  PROVE  TypeOK
<1>. DEFINE n == N(buf)
            s == Stream(buf)
            w == Unit(buf)
<1>1. /\ Phased(buf, n, open, phase) /\ Shape(buf, n, s) /\ buf.size \in 0 .. Len(s)
      /\ DOMAIN buf.frags = 0 .. n - 1 /\ (n = 0 <=> buf.frags = EmptyMap) /\ w \in Nat
  BY IInvFacts
<1>2. /\ n \in Nat /\ DOMAIN Lengths = 1 .. n /\ Len(Lengths) = n
      /\ \A k \in 1 .. n : /\ Lengths[k] = PieceLen(n, w, s, k - 1)
                           /\ Lengths[k] \in 1 .. w
                           /\ buf.frags[k - 1].len = Lengths[k]
  BY LengthsAre
<1>3. buf.MTU # 0 => w = Wavail(buf)
  BY DEF Unit, Width, Sized, Wavail
<1>4. buf.MTU # 0 /\ buf.frags # EmptyMap => buf.windex = n - 1
  BY <1>1, <1>2 DEF Shape
<1>5. phase \in {"raw", "saving", "sealed", "panicked"}
  BY <1>1 DEF Phased
<1>. HIDE DEF n, s, w
<1>6. ASSUME NEW k \in 1 .. n
      PROVE  /\ Lengths[k] > 0 /\ Lengths[k] <= Lengths[1]
             /\ k < n => Lengths[k] = Lengths[1]
             /\ Lengths[k] <= w
  <2>1. Lengths[k] \in 1 .. w /\ 1 \in 1 .. n
    BY <1>2
  <2>2. n # 1 => Lengths[1] = w
    <3>1. n # 1 => 1 - 1 # n - 1
      BY <1>2
    <3>2. Lengths[1] = PieceLen(n, w, s, 1 - 1)
      BY <1>2, <2>1
    <3>. QED
      BY <3>1, <3>2 DEF PieceLen
  <2>3. k < n => Lengths[k] = w /\ n # 1
    <3>1. k < n => k - 1 # n - 1 /\ n # 1
      BY <1>2
    <3>2. Lengths[k] = PieceLen(n, w, s, k - 1)
      BY <1>2
    <3>. QED
      BY <3>1, <3>2 DEF PieceLen
  <2>4. n = 1 => k = 1
    BY <1>2
  <2>. QED
    BY <1>1, <2>1, <2>2, <2>3, <2>4
<1>7. \A k \in DOMAIN Lengths :
        /\ Lengths[k] > 0
        /\ Lengths[k] <= Lengths[1]
        /\ k < Len(Lengths) => Lengths[k] = Lengths[1]
        /\ buf.MTU # 0 => Lengths[k] <= Wavail(buf)
        /\ buf.frags[k - 1].len = Lengths[k]
  BY <1>2, <1>3, <1>6
<1>8. DOMAIN buf.frags = 0 .. Len(Lengths) - 1
  BY <1>1, <1>2
<1>9. buf.MTU # 0 /\ buf.frags # EmptyMap => buf.windex = Len(Lengths) - 1
  BY <1>2, <1>4
<1>. QED
  BY <1>1, <1>5, <1>7, <1>8, <1>9 DEF TypeOK, s

\* A receiver that pushed all frames misses nothing and has the stream.
LEMMA ReceivedIs ==
  ASSUME NEW b, NEW n, NEW s, Shape(b, n, s), Framed(b, n), n <= ShortMax
  PROVE  LET c == FoldLeft(Pushed, NewBuffer(0), Frames(b))
         IN  Wanted(c) = 0 /\ Stream(c) = s
<1>. DEFINE c == FoldLeft(Pushed, NewBuffer(0), Frames(b))
            p == Pile(b, n, s, 0, 0, 0, n, n)
<1>1. n \in Nat /\ n > 0 /\ n # 0 /\ Cut(b.frags, n, Unit(b), s)
  <2>1. n \in Nat /\ n > 0
    BY ShapeFacts DEF Framed
  <2>. QED
    BY <2>1 DEF Shape
<1>2. NewBuffer(0) = Pile(b, n, s, 0, 0, 0, 0, n)
  <2>1. NewBuffer(0) = Box(0, 0, 0, NoSchema, 0, EmptyMap)
    BY DEF NewBuffer, Box
  <2>2. Slots(0, n, n) = {}
    BY <1>1 DEF Slots
  <2>3. [j \in Slots(0, n, n) |-> Decoded(b.frags[j])] = EmptyMap
    BY <2>2 DEF EmptyMap
  <2>4. Total(0, n, n, Unit(b), s) = 0
    <3>1. 0 \in 0 .. n - 1
      BY <1>1
    <3>2. Upto(0, n, Unit(b), s) = 0 /\ ~ (n < n /\ n >= 0)
      BY <1>1, <3>1, UptoNext
    <3>. QED
      BY <3>2 DEF Total
  <2>. QED
    BY <2>1, <2>3, <2>4 DEF Pile
<1>3. c = p
  <2>1. n \in 0 .. n
    BY <1>1
  <2>2. FoldLeft(Pushed, Pile(b, n, s, 0, 0, 0, 0, n), Frames(b)) = p
    BY <2>1, PushesIs
  <2>. QED
    BY <1>2, <2>2
<1>4. Arrived(b, p, n, s, 0)
  <2>1. n \in 0 .. n /\ 0 \in Nat /\ 0 \in Int /\ 0 <= ChecksumLen
    BY <1>1, FragmentAssumption
  <2>. QED
    BY <2>1, PileIs
<1>. HIDE DEF c, p
<1>5. Shape(c, n, s) /\ Numbered(c, n) /\ DOMAIN c.frags = 0 .. n - 1
  BY <1>3, <1>4 DEF Arrived
<1>6. Wanted(c) = 0
  BY <1>1, <1>5, WantedNothing
<1>. QED
  BY <1>5, <1>6, ShapeFacts DEF c

\* The frames that the invariant describes are delivered.
LEMMA IInvFramesDeliver ==
  ASSUME IInv, FewFragments
  PROVE  FramesDeliver
<1>. DEFINE n == N(buf)
            s == Stream(buf)
            w == Unit(buf)
<1>1. Shape(buf, n, s) /\ Phased(buf, n, open, phase) /\ n <= ShortMax
  BY IInvFacts DEF FewFragments, N
<1>2. /\ n \in Nat /\ DOMAIN Lengths = 1 .. n /\ Len(Lengths) = n /\ DOMAIN Fragments(buf) = 1 .. n
      /\ \A k \in 1 .. n : /\ Fragments(buf)[k] = buf.frags[k - 1]
                           /\ Lengths[k] = Avail(buf, k - 1)
                           /\ Lengths[k] = PieceLen(n, w, s, k - 1)
                           /\ Lengths[k] \in 1 .. w
  BY LengthsAre
<1>. SUFFICES ASSUME phase = "sealed", \A k \in DOMAIN Lengths : Lengths[k] < ShortMax,
                     Len(Lengths) = 1 \/ Lengths[1] = buf.headSize
              PROVE  Deliverable
  BY DEF FramesDeliver
<1>3. Framed(buf, n)
  BY <1>1 DEF Phased
<1>. HIDE DEF n, s, w
<1>4. ASSUME NEW k \in 1 .. n PROVE Decodes(Fragments(buf)[k])
  <2>. DEFINE i == k - 1
              f == buf.frags[i]
  <2>1. /\ i \in 0 .. n - 1 /\ Lengths[k] = Len(f.payload) /\ Lengths[k] = Avail(buf, i)
        /\ Fragments(buf)[k] = f /\ Lengths[k] \in Nat /\ Lengths[k] < ShortMax
    <3>1. i \in 0 .. n - 1
      BY <1>2
    <3>2. Lengths[k] = Avail(buf, i) /\ Fragments(buf)[k] = f /\ Lengths[k] < ShortMax
      BY <1>2
    <3>3. Lengths[k] \in Nat
      BY <1>2
    <3>4. Avail(buf, i) = Len(f.payload)
      BY DEF Avail
    <3>. HIDE DEF f, i
    <3>. QED
      BY <3>1, <3>2, <3>3, <3>4
  <2>. HIDE DEF i
  <2>2. /\ IF i = n - 1 THEN f.head = [fid |-> Short(-n), size |-> Short(Avail(buf, i))]
           ELSE f.head.fid = Short(i + 1) /\ f.head.size \in {buf.headSize, Avail(buf, i)}
        /\ f.sum = [fid |-> f.head.fid, size |-> f.head.size, payload |-> f.payload]
    BY <1>3, <2>1 DEF Framed
  <2>3. CASE i = n - 1
    <3>1. f.head.size = Short(Lengths[k])
      BY <2>1, <2>2, <2>3
    <3>2. -ShortMax <= Lengths[k] /\ Lengths[k] \in Int
      BY <2>1, FragmentAssumption
    <3>3. Short(Lengths[k]) = Lengths[k]
      BY <2>1, <3>2, ShortIs
    <3>. QED
      BY <2>1, <2>2, <3>1, <3>3 DEF Decodes
  <2>4. CASE i # n - 1
    <3>1. n # 1 /\ 1 \in 1 .. n /\ 1 - 1 # n - 1
      BY <1>2, <2>1, <2>4
    <3>2. Lengths[1] = w
      BY <1>2, <3>1 DEF PieceLen
    <3>3. Lengths[k] = w
      BY <1>2, <2>4 DEF PieceLen, i
    <3>4. buf.headSize = Lengths[k]
      BY <1>2, <3>1, <3>2, <3>3
    <3>5. f.head.size = Lengths[k]
      BY <2>1, <2>2, <2>4, <3>4
    <3>. QED
      BY <2>1, <2>2, <3>5 DEF Decodes
  <2>. QED
    BY <2>3, <2>4
<1>5. Received = FoldLeft(Pushed, NewBuffer(0), Frames(buf))
  BY Zenon DEF Received, Frames
<1>6. Wanted(Received) = 0 /\ Stream(Received) = s
  BY <1>1, <1>3, <1>5, ReceivedIs
<1>. QED
  BY <1>2, <1>4, <1>6 DEF s, Deliverable

\* Without an ending number in a Schema, Wanted asks for more.
LEMMA LocalWants ==
  ASSUME NEW b, NEW n, NEW s, Shape(b, n, s), Local(b.frags, n), n < ShortMax
  PROVE  Wanted(b) # 0
<1>1. n \in Nat /\ DOMAIN b.frags = 0 .. n - 1 /\ Cardinality(DOMAIN b.frags) = n
  BY ShapeFacts DEF N
<1>2. Stops(b) = {}
  <2>. SUFFICES ASSUME NEW i \in Stops(b) PROVE FALSE
    OBVIOUS
  <2>1. i \in 0 .. n - 1 /\ b.frags[i].fid < 0
    BY <1>1 DEF Stops
  <2>2. b.frags[i] \in Fragment /\ b.frags[i].fid \in Int
    BY <2>1, ShapeFacts DEF Fragment
  <2>3. i + 1 < ShortMax /\ ShortMax \in Nat
    BY <1>1, <2>1, FragmentAssumption
  <2>. QED
    BY <2>1, <2>2, <2>3 DEF Local
<1>3. Wanted(b) = n + 1
  BY <1>1, <1>2 DEF Wanted
<1>. QED
  BY <1>1, <1>3

\* Frames that decode, with an ending number in a Schema, can be sent on.
LEMMA IInvCompleteCanBeSent ==
  ASSUME IInv, FewFragments
  PROVE  CompleteCanBeSent
<1>. DEFINE n == N(buf)
            s == Stream(buf)
<1>1. Shape(buf, n, s) /\ Phased(buf, n, open, phase) /\ n <= ShortMax
  BY IInvFacts DEF FewFragments, N
<1>2. /\ n \in Nat /\ DOMAIN Lengths = 1 .. n /\ Len(Lengths) = n
      /\ \A k \in 1 .. n : Fragments(buf)[k] = buf.frags[k - 1]
  BY LengthsAre
<1>. SUFFICES ASSUME Wanted(buf) = 0, Len(Lengths) < ShortMax
              PROVE  phase = "sealed" /\ Deliverable
  BY DEF CompleteCanBeSent
<1>. HIDE DEF n, s
<1>3. ~ Local(buf.frags, n)
  BY <1>1, <1>2, LocalWants
<1>4. phase = "sealed"
  BY <1>1, <1>3 DEF Phased, Unsealed, Plain
<1>5. Framed(buf, n) /\ \A i \in 0 .. n - 1 : Decodes(buf.frags[i])
  BY <1>1, <1>3, <1>4 DEF Phased, Framed
<1>6. \A k \in DOMAIN Lengths : Decodes(Fragments(buf)[k])
  <2>1. \A k \in 1 .. n : k - 1 \in 0 .. n - 1
    BY <1>2
  <2>. QED
    BY <1>2, <1>5, <2>1
<1>7. Received = FoldLeft(Pushed, NewBuffer(0), Frames(buf))
  BY Zenon DEF Received, Frames
<1>8. Wanted(Received) = 0 /\ Stream(Received) = s
  BY <1>1, <1>5, <1>7, ReceivedIs
<1>. QED
  BY <1>4, <1>6, <1>8 DEF s, Deliverable

(***************************************************************************)
(* A stream of fewer bytes than an int16 has numbers is never in so many   *)
(* fragments that their numbers wrap (Append, split): the hypothesis of    *)
(* the theorems below holds of every such Buffer.                          *)
(***************************************************************************)
THEOREM FragmentsAreFew == MaxBytes <= ShortMax => (Spec => []FewFragments)
<1>. SUFFICES ASSUME MaxBytes <= ShortMax PROVE Spec => []FewFragments
  OBVIOUS
<1>1. Init => IInv /\ Within(buf)
  <2>. SUFFICES ASSUME Init PROVE IInv /\ Within(buf)
    OBVIOUS
  <2>1. IInv /\ Stream(buf) = <<>>
    BY InitIInv
  <2>2. Len(<<>>) = 0 /\ 0 <= MaxBytes
    BY FragmentAssumption
  <2>. QED
    BY <2>1, <2>2 DEF Within
<1>2. IInv /\ Within(buf) => FewFragments
  BY WithinIsFew
<1>3. IInv /\ Within(buf) /\ [Next]_vars => IInv' /\ Within(buf)'
  BY <1>2, NextStep DEF Streams
<1>. QED
  BY <1>1, <1>2, <1>3, PTL DEF Spec

(***************************************************************************)
(* Whatever the MTUs, the headers and the calls: Append, split and Push    *)
(* leave fragments without gaps, none empty and none longer than the MTU   *)
(* allows, all but the last of one length, and the write position at the   *)
(* last one.                                                               *)
(***************************************************************************)
THEOREM TypeCorrect == Spec /\ []FewFragments => []TypeOK
<1>1. IInv => TypeOK
  BY IInvTypeOK
<1>. QED
  BY <1>1, Correct, PTL

(***************************************************************************)
(* The frames of a marshalled object decode, and a receiver that has       *)
(* pushed them misses nothing and has the stream, as long as their lengths *)
(* are those their headers were prepared for (finish, appendChecksum,      *)
(* Push, Wanted).                                                          *)
(***************************************************************************)
THEOREM FramesAreDelivered == Spec /\ []FewFragments => []FramesDeliver
<1>1. IInv /\ FewFragments => FramesDeliver
  BY IInvFramesDeliver
<1>. QED
  BY <1>1, Correct, PTL

(***************************************************************************)
(* A Buffer of which Wanted says that nothing is missing can be sent on as *)
(* it is: an ending number is in a Schema only while the frames are those  *)
(* that were received, which decode and are numbered up to the ending one  *)
(* (Append, finish, split, Pipe, Wanted).                                  *)
(***************************************************************************)
THEOREM CompleteBuffersCanBeSent == Spec /\ []FewFragments => []CompleteCanBeSent
<1>1. IInv /\ FewFragments => CompleteCanBeSent
  BY IInvCompleteCanBeSent
<1>. QED
  BY <1>1, Correct, PTL

(***************************************************************************)
(* A Buffer is a byte stream: no call of Append, objSave, Read, PeekByte,  *)
(* Rewind, Clear, Split, Merge, finish or Pipe loses, doubles or moves a   *)
(* byte, a size field is filled in where it is however it is cut, and a    *)
(* read gets the bytes that follow the last one.                           *)
(***************************************************************************)
THEOREM ImplementsByteStream == Spec /\ []FewFragments => IsByteStream
<1>1. Init => Stm!Init
  <2>. SUFFICES ASSUME Init PROVE Stm!Init
    OBVIOUS
  <2>1. Stream(buf) = <<>> /\ buf.size = 0 /\ open = <<>>
    BY InitIInv
  <2>2. Starts(buf, open) = <<>>
    BY <2>1, NothingOpen
  <2>3. Cursor(buf) = 0
    BY <2>1 DEF Cursor
  <2>4. last = Stm!NoResult
    BY DEF Init
  <2>. QED
    BY <2>1, <2>2, <2>3, <2>4 DEF Stm!Init, Starts, Cursor
<1>2. IInv /\ FewFragments /\ [Next]_vars => [Stm!Next]_Stm!streamVars
  BY NextStep DEF Streams
<1>. QED
  BY <1>1, <1>2, Correct, PTL DEF Spec, IsByteStream, Stm!Spec
=============================================================================
