--------------------------- MODULE FragmentBuffer ---------------------------
(***************************************************************************)
(* tssd.Buffer as a sender keeps it (src/tssd/buffer.go): the byte stream  *)
(* of a marshalled object cut into fragments of at most MTU bytes, each a  *)
(* header, a piece of payload and a checksum; with the size fields of      *)
(* objects patched after the fact (objSave), the sealing of the frames     *)
(* (finish), reading across fragments, Split, Merge and the trip over the  *)
(* wire to a receiving Buffer (Pipe).                                      *)
(*                                                                         *)
(* Of a header the model keeps its length and the two fields that differ   *)
(* between fragments: the fragment number and the payload size.            *)
(***************************************************************************)
EXTENDS ReceiveBuffer, SequencesExt

CONSTANTS MTUs,           \* MTUs a Buffer is created with or split to; 0: not set
          HeadLens,       \* lengths of the header prepare produces
          ChecksumLen,    \* bytes of the checksum, its array header included
          MinMTU,         \* TSSD_BUFFER_MIN_MTU
          DefaultMTU,     \* TSSD_BUFFER_MTU
          ShortMax,       \* 2^15: one more than the largest int16
          SizeT, SizeA, Counts, MaxBytes, MaxDepth,  \* see ByteStream
          type, tid       \* the Schema of the object that is marshalled

ASSUME FragmentAssumption ==
  /\ MTUs \subseteq Nat /\ HeadLens \subseteq Nat \ {0}
  /\ ChecksumLen \in Nat \ {0}
  /\ MinMTU \in Nat /\ DefaultMTU \in Nat
  /\ ChecksumLen < MinMTU /\ MinMTU <= DefaultMTU
  /\ ShortMax \in Nat \ {0}
  /\ SizeT \in Nat \ {0} /\ SizeA \in Nat
  /\ Counts \subseteq Nat
  /\ MaxBytes \in Nat /\ MaxDepth \in Nat
  /\ type \in Types /\ tid \in Tids

VARIABLES buf,    \* the Buffer
          open,   \* objSave's index, pos and size, for each object being saved
          last,   \* the result of the last Read or PeekByte
          phase   \* "raw": no header; "saving": inside MarshalTo;
                  \* "sealed": after finish; "panicked": a nil dereference

vars == <<buf, open, last, phase>>

\* int16(n)
Short(n) == ((n + ShortMax) % (2 * ShortMax)) - ShortMax

NewBuffer(mtu) ==
  [schema |-> NoSchema, heads |-> 0, headSize |-> 0, lenChecksum |-> 0, MTU |-> mtu,
   size |-> 0, index |-> 0, pos |-> 0, windex |-> 0, frags |-> EmptyMap]

\* [Tarraym][Tuint8][size][count] in front of the payload.
ArrayHead == 2 + SizeT + SizeA

Bare == [fid |-> 0, size |-> 0, payload |-> <<>>]    \* a header and payload not summed yet

Fragments(b) == [k \in 1 .. Cardinality(DOMAIN b.frags) |-> b.frags[k - 1]]
Payloads(b) == [k \in DOMAIN Fragments(b) |-> Fragments(b)[k].payload]
Stream(b) == FlattenSeq(Payloads(b))

\* avail and wavail: payload bytes a fragment has, and can have.
Avail(b, i) == Len(b.frags[i].payload)
Wavail(b) == b.MTU - b.heads - b.lenChecksum

-----------------------------------------------------------------------------
(***************************************************************************)
(* Append fills the fragment at windex, and moves on to a new one only     *)
(* when bytes are left over; the first piece may be empty when the         *)
(* fragment is full already.  A windex that is neither a fragment nor the  *)
(* next one to create is a nil dereference.                                *)
(***************************************************************************)
NewFragment(b) ==
  [types |-> type, tid |-> tid,
   fid     |-> IF b.schema = NoSchema THEN 0 ELSE Short(b.windex + 1),
   payload |-> <<>>, len |-> 0,
   head    |-> [fid  |-> IF b.heads = 0 THEN 0 ELSE Short(b.windex + 1),
                size |-> b.headSize],
   sum     |-> Bare]

Created(b) ==
  IF b.windex # Cardinality(DOMAIN b.frags) THEN b
  ELSE LET sized == [b EXCEPT !.MTU = IF @ = 0 THEN DefaultMTU ELSE @]
       IN  [sized EXCEPT !.frags = Put(@, b.windex, NewFragment(sized))]

Extended(b, bs) ==
  [b EXCEPT !.size = @ + Len(bs),
            !.frags[b.windex].payload = @ \o bs,
            !.frags[b.windex].len = @ + Len(bs)]

Writable(b) == b.windex \in DOMAIN b.frags \cup {Cardinality(DOMAIN b.frags)}

\* Mutant of FillOne: a piece that fills the fragment exactly moves on as well.
FillOneStrict(a) ==
  LET c == Created(a.buf)
      fill == Wavail(c) - Avail(c, c.windex)
  IN  IF Len(a.rest) < fill
      THEN [buf |-> Extended(c, a.rest), rest |-> <<>>]
      ELSE [buf |-> [Extended(c, SubSeq(a.rest, 1, fill)) EXCEPT !.windex = @ + 1],
            rest |-> SubSeq(a.rest, fill + 1, Len(a.rest))]

\* One round of the loop: what is left to write, and the Buffer so far.
FillOne(a) ==
  LET c == Created(a.buf)
      fill == Wavail(c) - Avail(c, c.windex)
  IN  IF Len(a.rest) <= fill
      THEN [buf |-> Extended(c, a.rest), rest |-> <<>>]
      ELSE [buf |-> [Extended(c, SubSeq(a.rest, 1, fill)) EXCEPT !.windex = @ + 1],
            rest |-> SubSeq(a.rest, fill + 1, Len(a.rest))]

FillRound(a, round) == IF a.rest = <<>> THEN a ELSE FillOne(a)

\* Every round after the first writes a byte, so Len(bs) + 1 rounds are enough.
Appended(b, bs) ==
  FoldLeft(FillRound, [buf |-> b, rest |-> bs], [round \in 1 .. Len(bs) + 1 |-> round]).buf

\* writePos: the fragment and the place in it the next byte will have.
WritePos(b) ==
  LET i == Cardinality(DOMAIN b.frags) - 1
  IN  IF Avail(b, i) >= Wavail(b) THEN [index |-> i + 1, pos |-> 0]
                                  ELSE [index |-> i, pos |-> Avail(b, i)]

Stm == INSTANCE ByteStream WITH bytes <- Stream(buf),
         open <- [k \in DOMAIN open |-> open[k].index * Wavail(buf) + open[k].pos],
         cursor <- Len(Stream(buf)) - buf.size

\* Mutant of Patched: the bytes beyond the fragment are not written.
PatchedWithin(b, at, value) ==
  [b EXCEPT !.frags[at.index].payload =
     [p \in DOMAIN @ |-> IF p - at.pos \in 1 .. SizeT THEN Stm!SizeByte(value, p - at.pos)
                         ELSE @[p]]]

\* updateSize: SizeT bytes from a place on, which may run into later fragments.
Patched(b, at, value) ==
  LET byte(i, p) == (i - at.index) * Wavail(b) + p - at.pos
      patch(i) == [p \in 1 .. Avail(b, i) |->
                     IF byte(i, p) \in 1 .. SizeT THEN Stm!SizeByte(value, byte(i, p))
                     ELSE b.frags[i].payload[p]]
  IN  [b EXCEPT !.frags = [i \in DOMAIN b.frags |-> [b.frags[i] EXCEPT !.payload = patch(i)]]]

-----------------------------------------------------------------------------
\* Mutant of Ended: the Schema gets the ending number as well.
EndedInSchema(b) ==
  [b EXCEPT !.frags[b.windex].fid = Short(-(b.windex + 1)),
            !.frags[b.windex].head = [fid  |-> Short(-(b.windex + 1)),
                                      size |-> Short(Avail(b, b.windex))]]

\* finish: number the last fragment as the ending one and give it its real
\* size, then sum up every frame.  A Buffer without header has no frames.
Ended(b) ==
  [b EXCEPT !.frags[b.windex].head = [fid  |-> Short(-(b.windex + 1)),
                                      size |-> Short(Avail(b, b.windex))]]

Summed(b) ==
  [b EXCEPT !.frags = [i \in DOMAIN b.frags |->
     IF i > b.windex THEN b.frags[i]
     ELSE [b.frags[i] EXCEPT !.sum = [fid     |-> b.frags[i].head.fid,
                                      size    |-> b.frags[i].head.size,
                                      payload |-> b.frags[i].payload]]]]

\* Mutant of Finished: the checksums are taken first.
FinishedEarlySum(b) == IF b.heads = 0 THEN b ELSE Ended(Summed(b))

Finished(b) == IF b.heads = 0 THEN b ELSE Summed(Ended(b))

Rewound(b) == [b EXCEPT !.index = 0, !.pos = 0, !.size = Len(Stream(b))]

\* split: write the payloads again, one after the other, under another MTU.
Resplit(b, mtu) ==
  IF mtu <= b.heads + b.lenChecksum THEN b
  ELSE Finished(FoldLeft(Appended,
         [b EXCEPT !.MTU = mtu, !.size = 0, !.windex = 0, !.index = 0, !.pos = 0,
                   !.frags = EmptyMap],
         Payloads(b)))

Merged(b) ==
  IF Cardinality(DOMAIN b.frags) < 2 THEN b
  ELSE LET r == Rewound(b) IN Resplit(r, r.size + b.heads + b.lenChecksum)

\* Read and PeekByte first leave a fragment that was read to its end.
Normal(b) ==
  IF b.pos >= Avail(b, b.index) THEN [b EXCEPT !.pos = @ - Avail(b, b.index), !.index = @ + 1]
  ELSE b

\* One copy of Read: the rest of the fragment, or as much of it as is wanted.
CopyOne(a) ==
  LET b == Normal(a.buf)
      n == IF a.left <= Avail(b, b.index) - b.pos THEN a.left ELSE Avail(b, b.index) - b.pos
  IN  [buf  |-> [b EXCEPT !.pos = @ + n, !.size = @ - n],
       left |-> a.left - n,
       got  |-> a.got \o SubSeq(b.frags[b.index].payload, b.pos + 1, b.pos + n)]

CopyRound(a, round) == IF a.left = 0 THEN a ELSE CopyOne(a)

Copied(b, n) == FoldLeft(CopyRound, [buf |-> b, left |-> n, got |-> <<>>], Fragments(b))

(***************************************************************************)
(* A frame is read back by its header: it decodes if the payload size of   *)
(* the header is the payload's, so that the checksum is found behind it,   *)
(* and the checksum is that of the header and the payload.                 *)
(***************************************************************************)
Decodes(frag) ==
  /\ frag.head.size = Len(frag.payload)
  /\ frag.sum = [fid |-> frag.head.fid, size |-> frag.head.size, payload |-> frag.payload]

Decoded(frag) == [frag EXCEPT !.fid = frag.head.fid]

-----------------------------------------------------------------------------
Init ==
  /\ buf \in {NewBuffer(mtu) : mtu \in MTUs}
  /\ open = <<>>
  /\ last = Stm!NoResult
  /\ phase = "raw"

\* Write bs, or hit the nil dereference.
Written(bs) ==
  IF bs = <<>> \/ Writable(buf)
  THEN buf' = Appended(buf, bs) /\ UNCHANGED phase
  ELSE phase' = "panicked" /\ UNCHANGED buf

Room(n) == Len(Stream(buf)) + n <= MaxBytes

\* prepare(schema): the MTU, and a header of h bytes to copy into every
\* fragment, unless it leaves no room for payload.  A header that is longer
\* than the MTU before its array head is added fails before the checksum's
\* length is known.
Prepare(h) ==
  /\ phase = "raw" /\ open = <<>> /\ buf.frags = EmptyMap
  /\ LET mtu == IF buf.MTU = 0 THEN DefaultMTU ELSE IF buf.MTU < MinMTU THEN MinMTU ELSE buf.MTU
         ready == [buf EXCEPT !.MTU = mtu, !.schema = [types |-> type, tid |-> tid],
                              !.heads = 0, !.lenChecksum = ChecksumLen]
     IN  IF h + ChecksumLen >= mtu
         THEN /\ buf' = [ready EXCEPT !.lenChecksum =
                           IF h - ArrayHead > mtu THEN buf.lenChecksum ELSE ChecksumLen]
              /\ UNCHANGED phase
         ELSE /\ buf' = [ready EXCEPT !.heads = h, !.headSize = Short(mtu - h - ChecksumLen)]
              /\ phase' = "saving"
  /\ UNCHANGED <<open, last>>

\* Append of n bytes of a field.
AppendData(n) ==
  /\ phase \in {"raw", "saving"} /\ Room(n)
  /\ Written(Stm!DataFrom(Len(Stream(buf)), n))
  /\ UNCHANGED <<open, last>>

\* objSave and sliceSave begin: the type, a size to be filled in, the count.
BeginSave ==
  /\ phase \in {"raw", "saving"} /\ Len(open) < MaxDepth /\ Room(1 + SizeT + SizeA)
  /\ LET off == Len(Stream(buf))
         typed == Appended(buf, Stm!DataFrom(off, 1))
     IN  IF Writable(buf)
         THEN /\ buf' = Appended(Appended(typed, Stm!SizeField(0)),
                                 Stm!DataFrom(off + 1 + SizeT, SizeA))
              /\ open' = Append(open, [index |-> WritePos(typed).index,
                                       pos |-> WritePos(typed).pos, size |-> typed.size])
              /\ UNCHANGED phase
         ELSE phase' = "panicked" /\ UNCHANGED <<buf, open>>
  /\ UNCHANGED last

\* ... and end: the bytes written since then go into the size field.
EndSave ==
  /\ phase \in {"raw", "saving"} /\ open # <<>>
  /\ buf' = Patched(buf, Last(open), buf.size - Last(open).size - SizeT)
  /\ open' = Front(open)
  /\ UNCHANGED <<last, phase>>

\* MarshalTo ends.
Finish ==
  /\ phase = "saving" /\ open = <<>> /\ buf.frags # EmptyMap
  /\ buf' = Finished(buf)
  /\ phase' = "sealed"
  /\ UNCHANGED <<open, last>>

\* The calls below are not made while an object is being saved.
Idle == phase \in {"raw", "sealed"} /\ open = <<>>

Read(n) ==
  /\ Idle
  /\ IF n = 0 \/ buf.size >= n
     THEN LET c == Copied(buf, n)
          IN  buf' = c.buf /\ last' = [ok |-> TRUE, bytes |-> c.got]
     ELSE last' = Stm!InSufficientData /\ UNCHANGED buf
  /\ UNCHANGED <<open, phase>>

PeekByte ==
  /\ Idle
  /\ IF buf.size = 0 THEN last' = Stm!InSufficientData /\ UNCHANGED buf
     ELSE LET b == Normal(buf)
          IN  buf' = b /\ last' = [ok |-> TRUE, bytes |-> <<b.frags[b.index].payload[b.pos + 1]>>]
  /\ UNCHANGED <<open, phase>>

Rewind == Idle /\ buf' = Rewound(buf) /\ UNCHANGED <<open, last, phase>>

Clear ==
  /\ Idle
  /\ buf' = [buf EXCEPT !.index = 0, !.pos = 0, !.size = 0, !.heads = 0, !.headSize = 0,
                        !.lenChecksum = 0, !.frags = EmptyMap]
  /\ phase' = "raw"
  /\ UNCHANGED <<open, last>>

\* Split does nothing under an MTU that is not smaller, or too small for the
\* header; a Buffer without fragments has no last one to finish.
Split(mtu) ==
  /\ Idle
  /\ IF buf.MTU <= mtu \/ mtu <= buf.heads + buf.lenChecksum THEN UNCHANGED <<buf, phase>>
     ELSE IF buf.frags = EmptyMap THEN phase' = "panicked" /\ UNCHANGED buf
     ELSE buf' = Resplit(buf, mtu) /\ UNCHANGED phase
  /\ UNCHANGED <<open, last>>

Merge == Idle /\ buf' = Merged(buf) /\ UNCHANGED <<open, last, phase>>

\* Pipe: every frame is extracted and pushed into a new Buffer, in an order
\* drawn at random of which only the first counts: its header is kept.
Pipe(first) ==
  /\ phase = "sealed" /\ first \in DOMAIN Fragments(buf)
  /\ IF \A k \in DOMAIN Fragments(buf) : Decodes(Fragments(buf)[k])
     THEN LET rest == [k \in DOMAIN Fragments(buf) |-> Decoded(Fragments(buf)[k])]
              opened == Pushed([NewBuffer(0) EXCEPT !.heads = buf.heads,
                                  !.lenChecksum = buf.lenChecksum,
                                  !.headSize = rest[first].head.size], rest[first])
          IN  buf' = FoldLeft(Pushed, opened, rest) /\ UNCHANGED phase
     ELSE phase' = "panicked" /\ UNCHANGED buf
  /\ UNCHANGED <<open, last>>

Next ==
  \/ \E h \in HeadLens : Prepare(h)
  \/ \E n \in Counts : AppendData(n) \/ Read(n)
  \/ BeginSave \/ EndSave \/ Finish \/ PeekByte \/ Rewind \/ Clear \/ Merge
  \/ \E mtu \in MTUs : Split(mtu)
  \/ \E first \in 1 .. MaxBytes : Pipe(first)

Spec == Init /\ [][Next]_vars

-----------------------------------------------------------------------------
Lengths == [k \in DOMAIN Fragments(buf) |-> Len(Fragments(buf)[k].payload)]

(***************************************************************************)
(* The shape every call leaves: fragments numbered without gaps, none      *)
(* empty, all but the last of one length, and the write position at the    *)
(* last one (Append, split, Push).                                         *)
(***************************************************************************)
TypeOK ==
  /\ phase \in {"raw", "saving", "sealed", "panicked"}
  /\ DOMAIN buf.frags = 0 .. Len(Lengths) - 1
  /\ \A k \in DOMAIN Lengths :
        /\ Lengths[k] > 0
        /\ Lengths[k] <= Lengths[1]
        /\ k < Len(Lengths) => Lengths[k] = Lengths[1]
        /\ buf.MTU # 0 => Lengths[k] <= Wavail(buf)
        /\ buf.frags[k - 1].len = Lengths[k]
  /\ buf.MTU # 0 /\ buf.frags # EmptyMap => buf.windex = Len(Lengths) - 1
  /\ buf.size \in 0 .. Len(Stream(buf))

(***************************************************************************)
(* Whatever the MTU, wherever the cuts fall, and however often the         *)
(* fragments are cut again, merged or sent, the Buffer is a ByteStream: no *)
(* byte is lost, doubled or moved, a size field is patched in place even   *)
(* when a cut goes through it, and a read gets the bytes that follow the   *)
(* last one (Append, updateSize, Read, split, Push).                       *)
(***************************************************************************)
IsByteStream == Stm!Spec

\* What a receiver makes of the frames.
Received ==
  FoldLeft(Pushed, NewBuffer(0), [k \in DOMAIN Fragments(buf) |-> Decoded(Fragments(buf)[k])])

\* The frames can be read back, and give a receiver that pushes them the stream.
Deliverable ==
  /\ \A k \in DOMAIN Lengths : Decodes(Fragments(buf)[k])
  /\ Wanted(Received) = 0
  /\ Stream(Received) = Stream(buf)

(***************************************************************************)
(* The frames of a marshalled object decode, and a receiver that has       *)
(* pushed them all misses nothing and has the stream; also after Merge,    *)
(* and after Split as long as one fragment or the fragment length the      *)
(* header was prepared for results (finish, appendChecksum, Push, Wanted). *)
(***************************************************************************)
FramesDeliver ==
  /\ phase = "sealed"
  /\ \A k \in DOMAIN Lengths : Lengths[k] < ShortMax
  /\ Len(Lengths) = 1 \/ Lengths[1] = buf.headSize
  => Deliverable

(***************************************************************************)
(* A Buffer of which Wanted says that nothing is missing can be sent on as *)
(* it is.  Wanted goes by the numbers in the Schemas, not by those in the  *)
(* frames: the two agree only in what was received and not cut again since *)
(* (Append, finish, split, Pipe, Wanted); as an int16 the number 2^15      *)
(* would be an ending one, too.                                            *)
(***************************************************************************)
CompleteCanBeSent ==
  Wanted(buf) = 0 /\ Len(Lengths) < ShortMax => phase = "sealed" /\ Deliverable

(***************************************************************************)
(* The comment of Split: it splits large fragments into small ones.  They  *)
(* are fragments like others, which WriteFragments sends: each decodes.    *)
(***************************************************************************)
SplitFramesDecode ==
  phase = "sealed" => \A k \in DOMAIN Lengths : Decodes(Fragments(buf)[k])

(***************************************************************************)
(* The benchmarks marshal into one Buffer again and again, with Clear in   *)
(* between: a Buffer without fragments can be written to.                  *)
(***************************************************************************)
ReusableAfterClear ==
  phase \in {"raw", "saving"} /\ buf.frags = EmptyMap => Writable(buf)
=============================================================================
