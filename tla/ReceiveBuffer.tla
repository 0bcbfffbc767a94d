--------------------------- MODULE ReceiveBuffer ---------------------------
(***************************************************************************)
(* The receiving side of tssd.Buffer (src/tssd/buffer.go): a Buffer that   *)
(* collects the fragments of one object as they arrive.  Push files a      *)
(* fragment under the number in its FID, Wanted names the first fragment   *)
(* that is still missing.                                                  *)
(*                                                                         *)
(* A fragment is reduced to the fields these two functions read: the       *)
(* Types and TID of its Schema, its signed FID, and its payload, which is  *)
(* an opaque value with a length.                                          *)
(***************************************************************************)
EXTENDS Integers, FiniteSets

CONSTANTS Types,     \* hashes of type descriptions (Schema.Types)
          Tids,      \* object identifiers (Schema.TID)
          NoSchema   \* the nil *Schema of a Buffer nothing was pushed into

Schemas == [types : Types, tid : Tids]

ASSUME NoSchemaAssumption == NoSchema \notin Schemas

SchemaOf(frag) == [types |-> frag.types, tid |-> frag.tid]

\* Mutant of Number: the sign of an ending fragment is kept.
NumberSigned(fid) == fid

\* The number a FID stands for: N-1 fragments are numbered 1, 2, ..., N-1
\* and the ending one carries -N.
Number(fid) == IF fid < 0 THEN -fid ELSE fid

\* m[k] = v on a Go map.
Put(m, k, v) == [x \in DOMAIN m \cup {k} |-> IF x = k THEN v ELSE m[x]]

\* delete(m, k) on a Go map.
Delete(m, k) == [x \in DOMAIN m \ {k} |-> m[x]]

EmptyMap == [x \in {} |-> x]

\* &Buffer{}: no schema, no fragments, no bytes.
EmptyBuffer == [schema |-> NoSchema, frags |-> EmptyMap, size |-> 0]

-----------------------------------------------------------------------------
\* Mutants of Wanted.  Any ending fragment ends the object, gaps or not.
WantedIgnoresGaps(buf) ==
  IF \E k \in DOMAIN buf.frags : buf.frags[k].fid < 0
  THEN 0 ELSE Cardinality(DOMAIN buf.frags) + 1

\* ... the scan ends before the last slot.
WantedStopsShort(buf) ==
  LET n == Cardinality(DOMAIN buf.frags) - 1
      gaps == {i \in 0 .. n - 1 : i \notin DOMAIN buf.frags}
  IN  IF \E i \in 0 .. n - 1 : i \in DOMAIN buf.frags /\ buf.frags[i].fid < 0 THEN 0
      ELSE IF gaps = {} THEN n + 2 ELSE (CHOOSE i \in gaps : \A j \in gaps : i <= j) + 1

\* ... the slot is returned, not the number.
WantedZeroBased(buf) ==
  LET gaps == {i \in 0 .. Cardinality(DOMAIN buf.frags) : i \notin DOMAIN buf.frags}
      slot == CHOOSE i \in gaps : \A j \in gaps : i <= j
  IN  IF \E i \in 0 .. slot - 1 : buf.frags[i].fid < 0 THEN 0 ELSE slot

\* ... the ending fragment is not looked for.
WantedForgetsEnding(buf) ==
  LET gaps == {i \in 0 .. Cardinality(DOMAIN buf.frags) : i \notin DOMAIN buf.frags}
  IN  (CHOOSE i \in gaps : \A j \in gaps : i <= j) + 1

\* ... the fragments are counted, and the one after the count is asked for.
WantedCounts(buf) ==
  IF \E k \in DOMAIN buf.frags : buf.frags[k].fid = -Cardinality(DOMAIN buf.frags)
  THEN 0 ELSE Cardinality(DOMAIN buf.frags) + 1

(***************************************************************************)
(* Wanted: scan the slots 0, 1, ..., len(fragments)-1; stop at the first   *)
(* one that is empty (and name it) or that holds an ending fragment (and   *)
(* report that nothing is missing); otherwise name the slot after them.    *)
(***************************************************************************)
Stops(buf) == {i \in 0 .. Cardinality(DOMAIN buf.frags) - 1 :
                  i \in DOMAIN buf.frags => buf.frags[i].fid < 0}

Wanted(buf) ==
  IF Stops(buf) = {}
  THEN Cardinality(DOMAIN buf.frags) + 1
  ELSE LET i == CHOOSE i \in Stops(buf) : \A j \in Stops(buf) : i <= j
       IN  IF i \in DOMAIN buf.frags THEN 0 ELSE i + 1

(***************************************************************************)
(* Push: the first fragment fixes the schema; a fragment of another type   *)
(* or object is refused; any other one is stored in its slot, replacing an *)
(* earlier copy of itself, and size follows.  The guard on a nil fragment  *)
(* is left out: every caller in src/ hands over an extracted fragment.     *)
(***************************************************************************)
\* Mutant of Opened: every fragment starts the Buffer afresh.
OpenedAlways(buf, frag) == [buf EXCEPT !.schema = SchemaOf(frag), !.frags = EmptyMap]

Opened(buf, frag) ==
  IF buf.schema = NoSchema
  THEN [buf EXCEPT !.schema = SchemaOf(frag), !.frags = EmptyMap]
  ELSE buf

PushError(buf, frag) ==
  LET schema == Opened(buf, frag).schema
  IN  CASE schema.types # frag.types -> "SchemaUnmatch"
        [] schema.types = frag.types /\ schema.tid # frag.tid -> "FragmentIDUnmatch"
        [] OTHER -> "nil"

\* Mutants of Stored: the size of a replaced copy is not taken off.
StoredTwice(buf, frag) ==
  [buf EXCEPT !.frags = Put(buf.frags, Number(frag.fid) - 1, frag),
              !.size  = buf.size + frag.len]

\* ... the slot is the next free one, not the one of the number.
StoredInOrder(buf, frag) ==
  [buf EXCEPT !.frags = Put(buf.frags, Cardinality(DOMAIN buf.frags), frag),
              !.size  = buf.size + frag.len]

Stored(buf, frag) ==
  LET slot  == Number(frag.fid) - 1
      freed == IF slot \in DOMAIN buf.frags THEN buf.frags[slot].len ELSE 0
  IN  [buf EXCEPT !.frags = Put(buf.frags, slot, frag),
                  !.size  = buf.size - freed + frag.len]

Pushed(buf, frag) ==
  IF PushError(buf, frag) = "nil" THEN Stored(Opened(buf, frag), frag)
                                  ELSE Opened(buf, frag)
=============================================================================
