----------------------------- MODULE ByteStream -----------------------------
(***************************************************************************)
(* What a Buffer promises whoever saves an object into it and loads one    *)
(* from it: one sequence of bytes without fragments, written at its end,   *)
(* in which the size field of an object is filled in when the object is    *)
(* complete, and read from a cursor.                                       *)
(***************************************************************************)
EXTENDS Integers, Sequences

CONSTANTS SizeT,     \* bytes of a size field
          SizeA,     \* bytes of a count field
          Counts,    \* the byte counts one Append or one Read is called with
          MaxBytes,  \* bound: bytes in a stream
          MaxDepth   \* bound: objects being saved inside one another

VARIABLES bytes,   \* the stream
          open,    \* where the size fields still to be filled in start, innermost last
          cursor,  \* how many bytes were read
          last     \* the result of the last Read or PeekByte

streamVars == <<bytes, open, cursor, last>>

\* A byte of data is known by its offset, byte k of a size field by the size.
Data(offset) == <<"data", offset, 0>>
SizeByte(value, k) == <<"size", value, k>>

DataFrom(offset, n) == [k \in 1 .. n |-> Data(offset + k - 1)]
SizeField(value) == [k \in 1 .. SizeT |-> SizeByte(value, k)]

\* An object being saved so far: type, size still 0, number of fields.
ObjectHead(offset) ==
  DataFrom(offset, 1) \o SizeField(0) \o DataFrom(offset + 1 + SizeT, SizeA)

NoResult == [ok |-> TRUE, bytes |-> <<>>]
InSufficientData == [ok |-> FALSE, bytes |-> <<>>]

Init == bytes = <<>> /\ open = <<>> /\ cursor = 0 /\ last = NoResult

Write(n) ==
  /\ bytes' = bytes \o DataFrom(Len(bytes), n)
  /\ UNCHANGED <<open, cursor, last>>

BeginObject ==
  /\ bytes' = bytes \o ObjectHead(Len(bytes))
  /\ open' = Append(open, Len(bytes) + 1)
  /\ UNCHANGED <<cursor, last>>

\* The size is what was written since the size field itself.
EndObject ==
  /\ open # <<>>
  /\ LET at == open[Len(open)]
         value == Len(bytes) - at - SizeT
     IN  bytes' = [p \in 1 .. Len(bytes) |->
                     IF p - at \in 1 .. SizeT THEN SizeByte(value, p - at) ELSE bytes[p]]
  /\ open' = SubSeq(open, 1, Len(open) - 1)
  /\ UNCHANGED <<cursor, last>>

Fetch(n) ==
  IF cursor + n <= Len(bytes)
  THEN [ok |-> TRUE, bytes |-> SubSeq(bytes, cursor + 1, cursor + n)]
  ELSE InSufficientData

Consume(n) ==
  /\ last' = Fetch(n)
  /\ cursor' = IF Fetch(n).ok THEN cursor + n ELSE cursor
  /\ UNCHANGED <<bytes, open>>

Look == last' = Fetch(1) /\ UNCHANGED <<bytes, open, cursor>>

Restart == cursor' = 0 /\ UNCHANGED <<bytes, open, last>>

Forget == bytes' = <<>> /\ open' = <<>> /\ cursor' = 0 /\ UNCHANGED last

Next ==
  \/ \E n \in Counts : Write(n) \/ Consume(n)
  \/ BeginObject \/ EndObject \/ Look \/ Restart \/ Forget

Spec == Init /\ [][Next]_streamVars
=============================================================================
