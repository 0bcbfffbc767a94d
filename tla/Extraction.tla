----------------------------- MODULE Extraction -----------------------------
(***************************************************************************)
(* RBuffer.Extract (src/tssd/rbuffer.go): frames are found again in a      *)
(* stream of bytes that arrives in chunks of any size and in which frames  *)
(* may be damaged, cut short, or mixed with noise.                         *)
(*                                                                         *)
(* A frame is shrunk to the bytes the parser decides on:                   *)
(*   Magic, tag, schema, payload length, payload, checksum head, checksum. *)
(* The checksum is taken to tell: it is right for the frames in GoodFrames *)
(* and for nothing else.                                                   *)
(***************************************************************************)
EXTENDS Integers, SequencesExt, FiniteSetsExt

CONSTANTS Wires,         \* the streams that may arrive
          GoodFrames,    \* the frames a sender made
          Magic,         \* MAGIC
          Tschema,       \* the tag of a schema
          ChecksumHead,  \* the array head of a checksum
          MinHeader,     \* TSSD_FRAGMENT_MIN_HEADER_SIZE
          Chunks         \* sizes of the chunks the stream arrives in

M == Len(Magic)
SchemaEnd == M + 2       \* Magic, tag, schema
HeadsLen == SchemaEnd + 1
SumLen == 2

\* What a sender makes: the parts above, as long as its header says.
WellFormed(f) ==
  /\ f \in Seq(Int) /\ Len(f) >= HeadsLen + SumLen
  /\ SubSeq(f, 1, M) = Magic /\ f[M + 1] = Tschema
  /\ Len(f) = HeadsLen + f[HeadsLen] + SumLen
  /\ f[HeadsLen + f[HeadsLen] + 1] = ChecksumHead

\* Frame f lies in w behind the first n bytes.
LiesAt(f, w, n) == n + Len(f) <= Len(w) /\ SubSeq(w, n + 1, n + Len(f)) = f

\* The magic is not the end of one followed by the beginning of one; and no
\* good frame begins inside another, as one in a payload would.
ASSUME ExtractionAssumption ==
  /\ Magic \in Seq(Int) /\ M > 1
  /\ MinHeader \in Nat /\ MinHeader > M /\ MinHeader <= HeadsLen + SumLen
  /\ \A i \in 1 .. M - 1 : SubSeq(Magic, 1, M - i) # SubSeq(Magic, i + 1, M)
  /\ \A f \in GoodFrames : WellFormed(f)
  /\ Chunks \subseteq Nat \ {0}

ASSUME WiresAssumption ==
  \A w \in Wires :
    /\ w \in Seq(Int)
    /\ \A f, g \in GoodFrames : \A n \in 0 .. Len(w) :
         LiesAt(f, w, n) => \A k \in n + 1 .. n + Len(f) - 1 : ~ LiesAt(g, w, k)

VARIABLES wire,     \* the stream
          sent,     \* how many of its bytes were handed to Extract
          rbuf,     \* RBuffer's data, magic, headsLen and payloadLen
          status,   \* the state of the loop over Extract: "wait", "ready", "taken"
          more,     \* what Extract returned last
          out       \* the frames extracted so far

vars == <<wire, sent, rbuf, status, more, out>>

Fresh(data) == [data |-> data, magic |-> -1, headsLen |-> -1, payloadLen |-> -1]

Drop(s, n) == SubSeq(s, n + 1, Len(s))
Ending(s, n) == SubSeq(s, Len(s) - n + 1, Len(s))

\* bytes.Index(s, MAGIC)
Index(s) ==
  LET at == {i \in 0 .. Len(s) - M : SubSeq(s, i + 1, i + M) = Magic}
  IN  IF at = {} THEN -1 ELSE Min(at)

-----------------------------------------------------------------------------
(***************************************************************************)
(* detectMagic adds a chunk and drops what is in front of the next magic;  *)
(* without one it keeps the M - 1 bytes a magic may have begun in.  skip   *)
(* is the magic of a frame that turned out to be invalid.                  *)
(***************************************************************************)
At(data) == [rbuf |-> [Fresh(data) EXCEPT !.magic = 0], more |-> 0, err |-> "nil"]
Keep(data) == [rbuf |-> Fresh(data), more |-> MinHeader - Len(data), err |-> "InSufficientData"]

\* Mutant of DetectMagic: the front of the chunk stays when a magic is found
\* across the boundary, and is added again with the chunk.
DetectMagicTwice(r, chunk, skip) ==
  LET pre  == IF Len(r.data) >= M THEN Ending(r.data, M - 1) ELSE r.data
      cp   == IF Len(chunk) < M - 1 THEN Len(chunk) ELSE M - 1
      both == pre \o SubSeq(chunk, 1, cp)
  IN  IF r.magic >= 0 THEN [rbuf |-> [r EXCEPT !.data = @ \o chunk], more |-> 0, err |-> "nil"]
      ELSE IF Len(r.data) >= M /\ Index(Drop(r.data, skip)) >= 0
      THEN At(Drop(r.data, skip + Index(Drop(r.data, skip))) \o chunk)
      ELSE IF Len(pre) + Len(chunk) < M THEN Keep(pre \o chunk)
      ELSE IF Index(both) >= 0 THEN At(Drop(both, Index(both)) \o chunk)
      ELSE IF Index(chunk) >= 0 THEN At(Drop(chunk, Index(chunk)))
      ELSE Keep(Ending(pre, M - 1 - cp) \o Ending(chunk, cp))

DetectMagic(r, chunk, skip) ==
  LET pre  == IF Len(r.data) >= M THEN Ending(r.data, M - 1) ELSE r.data
      cp   == IF Len(chunk) < M - 1 THEN Len(chunk) ELSE M - 1
      join == Index(pre \o SubSeq(chunk, 1, cp))
  IN  CASE r.magic >= 0 ->
             [rbuf |-> [r EXCEPT !.data = @ \o chunk], more |-> 0, err |-> "nil"]
        [] r.magic < 0 /\ Len(r.data) >= M /\ Index(Drop(r.data, skip)) >= 0 ->
             At(Drop(r.data, skip + Index(Drop(r.data, skip))) \o chunk)
        [] OTHER ->
             IF Len(pre) + Len(chunk) < M THEN Keep(pre \o chunk)
             ELSE IF join >= 0 THEN At(Drop(pre, join) \o chunk)
             ELSE IF Index(chunk) >= 0 THEN At(Drop(chunk, Index(chunk)))
             ELSE Keep(Ending(pre, M - 1 - cp) \o Ending(chunk, cp))

Result(r, n, e) == [rbuf |-> r, more |-> n, err |-> e]

\* parseHeads, once per frame: what is read of the header is kept.
ParseHeads(r) ==
  LET n == Len(r.data)
  IN  IF r.headsLen >= 0 THEN Result(r, 0, "nil")
      ELSE IF n < MinHeader THEN Result(r, MinHeader - n, "InSufficientData")
      ELSE IF r.data[M + 1] # Tschema THEN Result(r, 0, "InvalidData")
      ELSE IF n < SchemaEnd THEN Result(r, MinHeader, "InSufficientData")
      ELSE IF n < HeadsLen THEN Result(r, HeadsLen - n, "InSufficientData")
      ELSE IF r.data[HeadsLen] < 0 THEN Result(r, 0, "InvalidData")
      ELSE Result([r EXCEPT !.headsLen = HeadsLen, !.payloadLen = r.data[HeadsLen]], 0, "nil")

Frame(r) == SubSeq(r.data, 1, r.headsLen + r.payloadLen + SumLen)

\* Mutants of ParseBody: a wrong checksum is taken for missing data ...
ParseBodyWaits(r) ==
  LET whole == r.headsLen + r.payloadLen + SumLen
  IN  IF whole > Len(r.data) THEN Result(r, whole - Len(r.data), "InSufficientData")
      ELSE IF Frame(r) \notin GoodFrames THEN Result(r, 1, "InSufficientData")
      ELSE Result(r, 0, "nil")

\* ... the last byte is waited for when it is there.
ParseBodyOffByOne(r) ==
  LET n == Len(r.data)
      body == r.headsLen + r.payloadLen
  IN  IF body >= n THEN Result(r, body - n, "InSufficientData")
      ELSE IF r.data[body + 1] # ChecksumHead THEN Result(r, 0, "InvalidData")
      ELSE IF body + SumLen > n THEN Result(r, body + SumLen - n, "InSufficientData")
      ELSE IF Frame(r) \notin GoodFrames THEN Result(r, 0, "ChecksumFailure")
      ELSE Result(r, 0, "nil")

\* parsePayload, parseChecksum and Validate.
ParseBody(r) ==
  LET n == Len(r.data)
      body == r.headsLen + r.payloadLen
  IN  IF body > n THEN Result(r, body - n, "InSufficientData")
      ELSE IF body + 1 > n THEN Result(r, body + 1 - n, "InSufficientData")
      ELSE IF r.data[body + 1] # ChecksumHead THEN Result(r, 0, "InvalidData")
      ELSE IF body + SumLen > n THEN Result(r, body + SumLen - n, "InSufficientData")
      ELSE IF Frame(r) \notin GoodFrames THEN Result(r, 0, "ChecksumFailure")
      ELSE Result(r, 0, "nil")

UnmarshalFragment(r) ==
  LET heads == ParseHeads(r) IN IF heads.err = "nil" THEN ParseBody(heads.rbuf) ELSE heads

\* One round of Extract: an invalid frame is given up and looked behind.
Attempt(r, chunk, skip) ==
  LET found == DetectMagic(r, chunk, skip)
  IN  IF found.err = "nil" THEN UnmarshalFragment(found.rbuf) ELSE found

\* Mutant of Retry: everything that came with the invalid frame is dropped.
RetryDropsAll(a) ==
  IF a.err \in {"nil", "InSufficientData"} THEN a ELSE Attempt(Fresh(<<>>), <<>>, 0)

Retry(a) ==
  IF a.err \in {"nil", "InSufficientData"} THEN a
  ELSE Attempt(Fresh(a.rbuf.data), <<>>, M)

\* Every retry drops at least a byte: there are no more of them than bytes.
Again(a, b) == Retry(a)
Extracted(r, chunk) == FoldLeft(Again, Attempt(r, chunk, 0), r.data \o chunk)

-----------------------------------------------------------------------------
Init ==
  /\ wire \in Wires
  /\ sent = 0 /\ rbuf = Fresh(<<>>) /\ status = "wait" /\ more = MinHeader /\ out = <<>>

Extract(chunk) ==
  LET a == Extracted(rbuf, chunk)
  IN  /\ rbuf' = a.rbuf
      /\ more' = a.more
      /\ status' = IF a.err = "nil" THEN "ready" ELSE "wait"

\* The next n bytes of the stream arrive.
Feed(n) ==
  /\ status = "wait" /\ sent + n <= Len(wire)
  /\ Extract(SubSeq(wire, sent + 1, sent + n))
  /\ sent' = sent + n
  /\ UNCHANGED <<wire, out>>

\* Fragment: hand over the frame and clear what is known about it.
Fragment ==
  /\ status = "ready"
  /\ out' = Append(out, Frame(rbuf))
  /\ rbuf' = Fresh(Drop(rbuf.data, Len(Frame(rbuf))))
  /\ status' = "taken"
  /\ UNCHANGED <<wire, sent, more>>

\* Extract again, without new bytes.
ExtractMore == status = "taken" /\ Extract(<<>>) /\ UNCHANGED <<wire, sent, out>>

Next == (\E n \in Chunks : Feed(n)) \/ Fragment \/ ExtractMore

Spec == Init /\ [][Next]_vars

-----------------------------------------------------------------------------
\* The good frames of the wire by how many bytes are in front of them, and
\* those of them in the first n bytes, in their order.
FrameAt(k) == {f \in GoodFrames : LiesAt(f, wire, k)}
StartsBefore(n) == {k \in 0 .. n - 1 : FrameAt(k) # {}}
FramesBefore(n) ==
  LET Start(i) == CHOOSE k \in StartsBefore(n) : Cardinality(StartsBefore(k)) = i - 1
  IN  [i \in 1 .. Cardinality(StartsBefore(n)) |-> CHOOSE f \in FrameAt(Start(i)) : TRUE]

Offset == sent - Len(rbuf.data)    \* of the first byte kept

(***************************************************************************)
(* Types; and the bytes kept are the latest ones of the stream, without a  *)
(* byte missing or doubled, whatever was cut off in front (detectMagic).   *)
(***************************************************************************)
TypeOK ==
  /\ wire \in Wires /\ sent \in 0 .. Len(wire) /\ Offset \in 0 .. sent
  /\ status \in {"wait", "ready", "taken"}
  /\ rbuf.magic \in {-1, 0} /\ rbuf.headsLen \in {-1, HeadsLen}
  /\ rbuf.data = SubSeq(wire, Offset + 1, sent)

(***************************************************************************)
(* Of the good frames of the stream exactly those that start before the    *)
(* bytes kept have been extracted, once and in order: no chunk boundary,   *)
(* damage or noise makes Extract lose, repeat or invent one.               *)
(***************************************************************************)
NoFrameLost == out = FramesBefore(Offset)

(***************************************************************************)
(* A frame that has arrived is held back only by a header in front of it   *)
(* that claims more bytes than have come; Extract then asks for exactly    *)
(* these (Extract, parsePayload, parseChecksum).                           *)
(***************************************************************************)
HeldBackByClaim ==
  status = "wait" /\ (\E k \in Offset .. sent : \E f \in FrameAt(k) : k + Len(f) <= sent)
  => /\ rbuf.headsLen >= 0
     /\ more > 0 /\ more <= rbuf.headsLen + rbuf.payloadLen + SumLen - Len(rbuf.data)

(***************************************************************************)
(* Extract that is short of data says how much to read, and never nothing: *)
(* ExtractReader, which reads only when it is told to, would call it for   *)
(* ever (more).                                                            *)
(***************************************************************************)
AsksForMore == status = "wait" => more > 0
=============================================================================
