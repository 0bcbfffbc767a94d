------------------------------- MODULE Codec --------------------------------
(***************************************************************************)
(* The codec of src/tssd (typeinfo.go, typeinfo_map.go) and the printer    *)
(* (print.go): what a description of a Go type makes of a value when it is *)
(* saved, dumped into an object that may be in use, and printed, and the   *)
(* calls of MarshalTo, UnmarshalTo, Unmarshal and Print on one Buffer.     *)
(*                                                                         *)
(* The bytes of a Buffer are cells: a tag, a size (4 bytes) and a count    *)
(* (2 bytes) take one cell each, a basic value as many as its type says.   *)
(* Their way through the fragments is the matter of FragmentBuffer.        *)
(*                                                                         *)
(* A value is what the memory holds: of a basic type and of an array of    *)
(* one (a "flat" type) cells, of any other type one unit: a string or time *)
(* its characters, a pointer Nil or <<what it points to>>, a slice Nil or  *)
(* its length and the memory up to its capacity, a map Nil or a function,  *)
(* a struct the values of all its fields.                                  *)
(***************************************************************************)
EXTENDS Integers, SequencesExt

CONSTANTS Infos,       \* the classes: name -> description of a struct
          ValuesOf,    \* name -> the objects that are marshalled
          Seconds,     \* bound: the classes that are marshalled one behind another
          Printed,     \* bound: the classes that Print is called with
          Cuts,        \* bound: where a Buffer that lacks its end may end
          ShortMax,    \* the largest count
          Nil

ASSUME CodecAssumption == ShortMax \in Nat /\ Cuts \subseteq Nat \ {0} /\ DOMAIN ValuesOf = DOMAIN Infos

Tstring == 22  Ttime == 23  Tarray == 25  Tarraym == 26
Tobject == 27  Tdict == 28  Tdictk == 29  Tdictv == 30

SizeA == 1     \* TSSD_SIZEA_LENGTH: the cells of a count

\* int16(n)
Short(n) == ((n + ShortMax + 1) % (2 * (ShortMax + 1))) - (ShortMax + 1)

-----------------------------------------------------------------------------
(***************************************************************************)
(* doParse: size is typeInfo.size, the step between elements; for arrays   *)
(* and slices it is Len() of a zero value.  mem is the memory a value      *)
(* really takes.  A pointer has no code of its own: Type 0, and it adds    *)
(* nothing to the description (stype) that is hashed into Types.           *)
(***************************************************************************)
Parsed(kind, Type, info, stype, zero) ==
  [kind |-> kind, Type |-> Type, info |-> info, stype |-> stype, zero |-> zero,
   size |-> 1, mem |-> 1, flat |-> FALSE, fields |-> <<>>]

Basic(Type, n) ==
  [Parsed("basic", Type, <<>>, <<Type>>, [i \in 1 .. n |-> 0])
     EXCEPT !.size = n, !.mem = n, !.flat = TRUE]

String == Parsed("string", Tstring, <<>>, <<Tstring>>, <<>>)

\* A time is its year: what matters is whether the text of it can be parsed.
Time == Parsed("time", Ttime, <<>>, <<Ttime, Tstring>>, <<1>>)

Pointer(e) == Parsed("pointer", 0, <<e>>, e.stype, Nil)

\* A field that is not exported, tagged "-" or of type Flat (shouldIgnore).
Ignored == Parsed("ignored", 0, <<>>, <<>>, 0)

Struct(all) ==
  LET kept == SelectSeq([i \in DOMAIN all |-> i], LAMBDA i : all[i].kind # "ignored")
      info == [k \in DOMAIN kept |-> all[kept[k]]]
      stypes == [k \in DOMAIN kept |-> info[k].stype]
  IN  [Parsed("struct", Tobject, info, <<Tobject, Len(kept)>> \o FlattenSeq(stypes),
              [i \in DOMAIN all |-> all[i].zero]) EXCEPT !.fields = kept]

\* isFixedLength elements are merged.
ArrayType(e) == IF e.kind = "basic" THEN Tarraym ELSE Tarray

Slice(e) == [Parsed("slice", ArrayType(e), <<e>>, <<ArrayType(e)>> \o e.stype, Nil)
               EXCEPT !.size = 0]

\* The zero values of n elements in memory.
Zeros(e, n) == IF e.flat THEN [i \in 1 .. n * e.mem |-> 0] ELSE [i \in 1 .. n |-> e.zero]

Array(n, e) == [Parsed("array", ArrayType(e), <<e>>, <<ArrayType(e)>> \o e.stype, Zeros(e, n))
                  EXCEPT !.size = n, !.mem = n * e.mem, !.flat = e.flat]

Map(k, v) == Parsed("map", Tdict, <<k, v>>, <<Tdict, Tdictk>> \o k.stype \o <<Tdictv>> \o v.stype, Nil)

-----------------------------------------------------------------------------
\* Elements in memory, and the one that lies at an offset.
Memory(t, v) == IF t.kind = "slice" THEN v.mem ELSE v
Length(t, v) == IF t.kind = "slice" THEN v.len ELSE t.size
Unit(e, memory, off) == IF e.flat THEN SubSeq(memory, off + 1, off + e.mem) ELSE memory[off + 1]
PutUnit(e, memory, off, v) ==
  IF e.flat THEN [k \in DOMAIN memory |-> IF k - off \in 1 .. e.mem THEN v[k - off] ELSE memory[k]]
  ELSE [memory EXCEPT ![off + 1] = v]

RECURSIVE Save(_, _, _)   \* info.save(info, src, buf), or mapSave of a value
RECURSIVE Dump(_, _, _)   \* info.dump(info, buf, dest)
RECURSIVE Parse(_, _)     \* info.parse(parent, buf) of print.go

\* Mutant of Sized: the size is not patched.
SizedUnpatched(n, body) == <<0, Short(n)>> \o body

\* A size that is patched when what it counts has been written, and a count.
Sized(n, body) == <<SizeA + Len(body), Short(n)>> \o body

MemAppend(t, v) == <<t.Type>> \o v
StrSave(t, v)   == <<t.Type, Len(v)>> \o v
TimeSave(t, v)  == <<t.Type, Tstring, Len(v)>> \o v

ObjSave(t, v, how) ==
  <<t.Type>> \o Sized(Len(t.info),
     FlattenSeq([i \in DOMAIN t.info |-> Save(t.info[i], v[t.fields[i]], how)]))

\* sliceSave goes through memory in steps of info.size; mapSliceValueSave asks
\* reflect for the element.
Step(e, how) == IF how.map THEN e.mem ELSE e.size

SliceSave(t, v, how) ==
  LET e == t.info[1]
  IN  IF v = Nil THEN <<-t.Type>>
      ELSE <<t.Type>> \o Sized(Length(t, v), FlattenSeq([i \in 1 .. Length(t, v) |->
             Save(e, Unit(e, Memory(t, v), (i - 1) * Step(e, how)), how)]))

MergeSliceSave(t, v) ==
  LET e == t.info[1]
      n == Length(t, v)
  IN  IF v = Nil THEN <<-t.Type>>
      ELSE <<t.Type, e.Type>> \o Sized(n, SubSeq(Memory(t, v), 1, n * e.size))

\* Keys and elements are saved by mapSave, and so are the fields of a struct
\* among them (mapStructSave); but not what a pointer points to.
InMap(how) == [how EXCEPT !.map = TRUE]
NotInMap(how) == [how EXCEPT !.map = FALSE]

\* MapKeys gives the keys in any order.
DictSave(t, v, how) ==
  LET keys == IF how.down THEN Reverse(SetToSeq(DOMAIN v)) ELSE SetToSeq(DOMAIN v)
  IN  IF v = Nil THEN <<-t.Type>>
      ELSE <<t.Type>> \o Sized(Len(keys), FlattenSeq([i \in DOMAIN keys |->
             <<Tdictk>> \o Save(t.info[1], keys[i], InMap(how))
               \o <<Tdictv>> \o Save(t.info[2], v[keys[i]], InMap(how))]))

\* A pointer stands for what it points to, nil for the negated type of that.
PointerSave(t, v, how) ==
  IF v = Nil THEN <<-t.info[1].Type>> ELSE Save(t.info[1], v[1], NotInMap(how))

Save(t, v, how) ==
  CASE t.kind = "basic"   -> MemAppend(t, v)
    [] t.kind = "string"  -> StrSave(t, v)
    [] t.kind = "time"    -> TimeSave(t, v)
    [] t.kind = "struct"  -> ObjSave(t, v, how)
    [] t.kind = "pointer" -> PointerSave(t, v, how)
    [] t.kind = "map"     -> DictSave(t, v, how)
    [] t.Type = Tarray    -> SliceSave(t, v, how)
    [] t.Type = Tarraym   -> MergeSliceSave(t, v)

-----------------------------------------------------------------------------
\* A dump ends with an error, what is left of the Buffer, and what dest is.
Ends(err, rest, val) == [err |-> err, rest |-> rest, val |-> val]
Gives(rest, val) == Ends("nil", rest, val)

\* The tag every dump starts with; the negated one means nil.
Tagged(t, s, d, whenNil, Body(_)) ==
  IF s = <<>> THEN Ends("InSufficientData", s, d)
  ELSE IF Head(s) = t.Type THEN Body(Tail(s))
  ELSE IF Head(s) = -t.Type THEN Gives(Tail(s), whenNil)
  ELSE Ends("InvalidTSSDData", Tail(s), d)

\* checkDumpSizet
SizeChecked(s, d, Body(_, _)) ==
  IF s = <<>> THEN Ends("InSufficientData", s, d)
  ELSE IF Head(s) > Len(s) - 1 THEN Ends("InSufficientData", Tail(s), d)
  ELSE Body(Head(s), Tail(s))

\* checkDumpSize: with the count behind it.
CountChecked(s, d, Body(_, _)) ==
  SizeChecked(s, d, LAMBDA size, r :
    IF r = <<>> THEN Ends("InSufficientData", r, d) ELSE Body(Head(r), Tail(r)))

MemDump(t, s, d) ==
  Tagged(t, s, d, d, LAMBDA r :
    IF Len(r) < t.size THEN Ends("InSufficientData", r, d)
    ELSE Gives(SubSeq(r, t.size + 1, Len(r)), SubSeq(r, 1, t.size)))

\* stringDump
Text(s, d) ==
  SizeChecked(s, d, LAMBDA size, r : Gives(SubSeq(r, size + 1, Len(r)), SubSeq(r, 1, size)))

StrDump(t, s, d) == Tagged(t, s, d, d, LAMBDA r : Text(r, d))

\* time.Parse reads years of four digits; Format writes any.
Parses(text) == text[1] \in 0 .. 9999

TimeDump(t, s, d) ==
  Tagged(t, s, d, d, LAMBDA r :
    IF r = <<>> THEN Ends("InSufficientData", r, d)
    ELSE IF Head(r) # Tstring THEN Ends("InvalidTSSDData", Tail(r), d)
    ELSE LET text == Text(Tail(r), d)
         IN  IF text.err = "nil" /\ ~Parses(text.val) THEN Ends("ParseError", text.rest, d) ELSE text)

\* A loop of dumps that stops at the first error.
Each(n, first, Do(_, _)) ==
  FoldLeft(LAMBDA acc, i : IF acc.err # "nil" THEN acc ELSE Do(acc, i), first, [i \in 1 .. n |-> i])

ObjDump(t, s, d) ==
  LET Field(acc, i) ==
        LET f == t.fields[i]
            r == Dump(t.info[i], acc.rest, acc.val[f])
        IN  [r EXCEPT !.val = [acc.val EXCEPT ![f] = r.val]]
  IN  Tagged(t, s, d, d, LAMBDA r : CountChecked(r, d, LAMBDA n, q :
        IF n # Len(t.info) THEN Ends("InvalidTSSDData", q, d) ELSE Each(n, Gives(q, d), Field)))

Mem(e, n) == IF e.flat THEN n * e.mem ELSE n

\* Mutant of Room: the bytes of an old slice are taken for its capacity.
RoomInBytes(t, d, n) ==
  IF t.kind = "array" THEN d
  ELSE IF d = Nil \/ Len(d.mem) < n THEN [len |-> n, mem |-> Zeros(t.info[1], n)]
  ELSE [d EXCEPT !.len = n]

\* The slice that n elements are dumped into: the old one if its capacity is
\* enough, otherwise a new one.  An array is where it is.
Room(t, d, n) ==
  IF t.kind = "array" THEN d
  ELSE IF d = Nil \/ Len(d.mem) < Mem(t.info[1], n)
  THEN [len |-> n, mem |-> Zeros(t.info[1], n)]
  ELSE [d EXCEPT !.len = n]

WithMemory(t, d, memory) == IF t.kind = "slice" THEN [d EXCEPT !.mem = memory] ELSE memory

\* Nothing refuses to write behind an array; MakeSlice and SetLen panic for a
\* negative length, as does taking so many bytes of memory.
Overruns(t, d, n) == t.kind = "array" /\ n > t.size
Panics(t, n) == t.kind = "slice" /\ n < 0

SliceDump(t, s, d) ==
  LET e == t.info[1]
      Element(acc, i) ==
        LET off == (i - 1) * e.size
            memory == Memory(t, acc.val)
            r == Dump(e, acc.rest, Unit(e, memory, off))
        IN  [r EXCEPT !.val = WithMemory(t, acc.val, PutUnit(e, memory, off, r.val))]
  IN  Tagged(t, s, d, t.zero, LAMBDA r : CountChecked(r, d, LAMBDA n, q :
        IF Panics(t, n) THEN Ends("panic", q, d)
        ELSE IF Overruns(t, d, n) THEN Ends("overrun", q, d)
        ELSE Each(n, Gives(q, Room(t, d, n)), Element)))

\* What Read gets; its error is not looked at.
MergeSliceDump(t, s, d) ==
  LET e == t.info[1]
      Read(n, q) ==
        LET to == Room(t, d, n)
            size == n * e.size
            old == Memory(t, to)
        IN  IF Len(q) < size THEN Gives(q, to)
            ELSE Gives(SubSeq(q, size + 1, Len(q)), WithMemory(t, to,
                   [k \in DOMAIN old |-> IF k <= size THEN q[k] ELSE old[k]]))
  IN  Tagged(t, s, d, t.zero, LAMBDA r :
        IF r = <<>> THEN Ends("InSufficientData", r, d)
        ELSE IF Head(r) # e.Type THEN Ends("InvalidTSSDData", Tail(r), d)
        ELSE CountChecked(Tail(r), d, LAMBDA n, q :
               IF n < 0 THEN Ends("panic", q, d)
               ELSE IF Overruns(t, d, n) THEN Ends("overrun", q, d)
               ELSE Read(n, q)))

\* A tag and the key or element behind it, into new memory.
DumpMember(tag, t, s) ==
  IF s = <<>> THEN Ends("InSufficientData", s, t.zero)
  ELSE IF Head(s) # tag THEN Ends("InvalidTSSDData", Tail(s), t.zero)
  ELSE Dump(t, Tail(s), t.zero)

\* A new map, which replaces the old one when it is complete (makeDumpMap).
DictDump(t, s, d) ==
  LET Pair(acc, i) ==
        LET k == DumpMember(Tdictk, t.info[1], acc.rest)
            v == DumpMember(Tdictv, t.info[2], k.rest)
        IN  IF k.err # "nil" THEN k
            ELSE [v EXCEPT !.val = [x \in DOMAIN acc.val \cup {k.val} |->
                                      IF x = k.val THEN v.val ELSE acc.val[x]]]
  IN  Tagged(t, s, d, Nil, LAMBDA r : CountChecked(r, d, LAMBDA n, q :
        LET made == Each(n, Gives(q, [x \in {} |-> 0]), Pair)
        IN  IF made.err = "nil" THEN made ELSE [made EXCEPT !.val = d]))

\* Mutant of PointerDump: the negated type is taken for the child's to read.
PointerDumpNoNil(t, s, d) ==
  LET r == Dump(t.info[1], s, IF d = Nil THEN t.info[1].zero ELSE d[1])
  IN  IF s = <<>> THEN Ends("InSufficientData", s, d) ELSE [r EXCEPT !.val = <<r.val>>]

\* What a pointer of dest points to already is written over.
PointerDump(t, s, d) ==
  LET r == Dump(t.info[1], s, IF d = Nil THEN t.info[1].zero ELSE d[1])
  IN  IF s = <<>> THEN Ends("InSufficientData", s, d)
      ELSE IF Head(s) = -t.info[1].Type THEN Gives(Tail(s), Nil)
      ELSE [r EXCEPT !.val = <<r.val>>]

Dump(t, s, d) ==
  CASE t.kind = "basic"   -> MemDump(t, s, d)
    [] t.kind = "string"  -> StrDump(t, s, d)
    [] t.kind = "time"    -> TimeDump(t, s, d)
    [] t.kind = "struct"  -> ObjDump(t, s, d)
    [] t.kind = "pointer" -> PointerDump(t, s, d)
    [] t.kind = "map"     -> DictDump(t, s, d)
    [] t.Type = Tarray    -> SliceDump(t, s, d)
    [] t.Type = Tarraym   -> MergeSliceDump(t, s, d)

-----------------------------------------------------------------------------
(***************************************************************************)
(* The walk of print.go.  It reads what it prints; what the description    *)
(* does not match it leaves to the next field, and to no avail: a pointer  *)
(* (Type 0) matches nothing, a negated type is "not support".              *)
(* "garbled": it goes on in the middle of something.                       *)
(***************************************************************************)
ParseObject(t, s) ==
  CountChecked(Tail(s), 0, LAMBDA n, q :
    Each(n, Gives(q, 0), LAMBDA acc, i :
      IF i > Len(t.info) THEN Ends("panic", acc.rest, 0) ELSE Parse(t.info[i], acc.rest)))

ParseArray(t, s) ==
  CountChecked(Tail(s), 0, LAMBDA n, q :
    Each(n, Gives(q, 0), LAMBDA acc, i : Parse(t.info[1], acc.rest)))

\* Mutant of ParseMerged: only one byte of the head is read.
ParseMergedOneByte(t, s) ==
  CountChecked(Tail(s), 0, LAMBDA n, q :
    Each(n, Gives(q, 0), LAMBDA acc, i :
      Gives(SubSeq(acc.rest, t.info[1].size + 1, Len(acc.rest)), 0)))

ParseMerged(t, s) ==
  LET e == t.info[1]
  IN  IF Len(s) < 2 THEN Ends("InSufficientData", s, 0)
      ELSE IF s[2] # e.Type THEN Ends("garbled", s, 0)
      ELSE CountChecked(Tail(Tail(s)), 0, LAMBDA n, q :
             Each(n, Gives(q, 0), LAMBDA acc, i :
               IF Len(acc.rest) < e.size THEN Ends("InSufficientData", acc.rest, 0)
               ELSE Gives(SubSeq(acc.rest, e.size + 1, Len(acc.rest)), 0)))

\* The tags of key and element are not looked at, nor are their errors.
ParseDict(t, s) ==
  LET Member(acc, tag, e) ==
        IF acc.err # "nil" THEN acc
        ELSE IF acc.rest = <<>> THEN Ends("InSufficientData", acc.rest, 0)
        ELSE IF Head(acc.rest) # tag THEN Ends("garbled", acc.rest, 0)
        ELSE LET r == Parse(e, Tail(acc.rest))
             IN  IF r.err \in {"panic", "garbled"} THEN r ELSE Gives(r.rest, 0)
  IN  CountChecked(Tail(s), 0, LAMBDA n, q :
        Each(n, Gives(q, 0), LAMBDA acc, i :
          Member(Member(acc, Tdictk, t.info[1]), Tdictv, t.info[2])))

Parse(t, s) ==
  IF s = <<>> THEN Ends("InSufficientData", s, 0)
  ELSE IF Head(s) # t.Type \/ t.Type = 0 THEN Gives(s, 0)
  ELSE CASE t.kind \in {"basic", "string"} -> Gives(Dump(t, s, t.zero).rest, 0)
         [] t.kind = "time" -> Dump(t, s, t.zero)
         [] t.kind = "struct" -> ParseObject(t, s)
         [] t.kind = "map" -> ParseDict(t, s)
         [] t.Type = Tarray -> ParseArray(t, s)
         [] t.Type = Tarraym -> ParseMerged(t, s)

-----------------------------------------------------------------------------
VARIABLES buf,     \* the Buffer: what was marshalled, all its cells, those not yet read
          dest,    \* the object of the program that is dumped into, and its class
          result   \* how the last call ended

vars == <<buf, dest, result>>

\* at: how many objects lie before the read position; Inside: it is in one.
Inside == -1
MaxObjects == 2   \* bound: more would not be read back differently

\* nth: the object that was read, left: the cells behind it.
Result(call, name, nth, r) ==
  [call |-> call, name |-> name, nth |-> nth, err |-> r.err, left |-> Len(r.rest)]
NoResult == Result("none", "", 0, Gives(<<>>, 0))

EmptyBuffer == [sent |-> <<>>, cells |-> <<>>, rest |-> <<>>, at |-> 0, whole |-> TRUE]

Init ==
  /\ buf = EmptyBuffer
  /\ \E name \in DOMAIN Infos : dest = [name |-> name, value |-> Infos[name].zero]
  /\ result = NoResult

Running == result.err \notin {"panic", "overrun"}

\* MarshalTo, into a new Buffer or behind what it has (with heads as long).
MarshalTo(name, v, down) ==
  LET cells == Save(Infos[name], v, [map |-> FALSE, down |-> down])
  IN  /\ Running /\ buf.whole /\ Len(buf.sent) < MaxObjects
      /\ buf.sent # <<>> => {buf.sent[1].name, name} \subseteq Seconds
      /\ buf' = [buf EXCEPT !.sent = Append(@, [name |-> name, value |-> v]),
                            !.cells = @ \o cells, !.rest = @ \o cells]
      /\ result' = NoResult
      /\ UNCHANGED dest

\* The Buffer as a receiver has it who has not got the last fragments.
Lose(k) ==
  /\ Running /\ Len(buf.sent) = 1 /\ buf.at = 0 /\ buf.whole
  /\ k < Len(buf.cells)
  /\ buf' = [buf EXCEPT !.cells = SubSeq(@, 1, k), !.rest = SubSeq(@, 1, k), !.whole = FALSE]
  /\ UNCHANGED <<dest, result>>

\* The program takes another Buffer.
NewBuffer ==
  /\ Running
  /\ buf' = EmptyBuffer /\ result' = NoResult
  /\ UNCHANGED dest

\* The program takes another object.
NewDest(name) ==
  /\ Running
  /\ dest' = [name |-> name, value |-> Infos[name].zero]
  /\ result' = NoResult
  /\ UNCHANGED buf

AfterRead(r, at) == [buf EXCEPT !.rest = r.rest, !.at = IF r.err = "nil" THEN at ELSE Inside]

\* Mutant of UnmarshalTo: it does not Rewind.
UnmarshalToNoRewind ==
  LET r == Dump(Infos[dest.name], buf.rest, dest.value)
  IN  /\ Running /\ buf.sent # <<>> /\ buf.at # Inside
      /\ Infos[dest.name].stype = Infos[buf.sent[1].name].stype
      /\ buf' = AfterRead(r, 1)
      /\ dest' = [dest EXCEPT !.value = r.val]
      /\ result' = Result("UnmarshalTo", dest.name, 1, r)

\* UnmarshalTo into an object whose Types are those of the first fragment (the
\* other case is decorate's, see Registry).  It reads from the start.
UnmarshalTo ==
  LET r == Dump(Infos[dest.name], buf.cells, dest.value)
  IN  /\ Running /\ buf.sent # <<>>
      /\ Infos[dest.name].stype = Infos[buf.sent[1].name].stype
      /\ buf' = AfterRead(r, 1)
      /\ dest' = [dest EXCEPT !.value = r.val]
      /\ result' = Result("UnmarshalTo", dest.name, 1, r)

\* Unmarshal builds a new object of the class the first fragment names, and
\* reads on from where the Buffer is.  (Not from inside an object: what bytes
\* mean there, cells do not tell.)
Unmarshal ==
  LET name == buf.sent[1].name
      r == Dump(Infos[name], buf.rest, Infos[name].zero)
  IN  /\ Running /\ buf.sent # <<>> /\ buf.at # Inside
      /\ buf' = AfterRead(r, buf.at + 1)
      /\ dest' = IF r.err = "nil" THEN [name |-> name, value |-> r.val] ELSE dest
      /\ result' = Result("Unmarshal", name, buf.at + 1, r)

\* tssd.Print(flat, *buf): the description of flat is walked over a copy of the
\* Buffer, whatever Types its fragments name; the result of the walk is dropped.
PrintTree(name) ==
  /\ Running /\ buf.sent # <<>> /\ buf.at # Inside
  /\ result' = Result("PrintTree", name, buf.at + 1, Parse(Infos[name], buf.rest))
  /\ UNCHANGED <<buf, dest>>

Next ==
  \/ \E name \in DOMAIN Infos, down \in BOOLEAN : \E v \in ValuesOf[name] : MarshalTo(name, v, down)
  \/ \E k \in Cuts : Lose(k)
  \/ \E name \in DOMAIN Infos : NewDest(name)
  \/ \E name \in Printed : PrintTree(name)
  \/ NewBuffer
  \/ UnmarshalTo
  \/ Unmarshal

Spec == Init /\ [][Next]_vars

-----------------------------------------------------------------------------
RECURSIVE HasType(_, _), Hollow(_, _), Same(_, _, _, _), Fits(_, _, _), Even(_), Shown(_, _)

\* The values of a type.
HasType(t, v) ==
  CASE t.kind = "ignored" -> v \in Int
    [] t.kind = "basic"   -> Len(v) = t.size
    [] t.kind \in {"string", "time"} -> v \in Seq(Int)
    [] t.kind = "pointer" -> v = Nil \/ (Len(v) = 1 /\ HasType(t.info[1], v[1]))
    [] t.kind = "struct"  -> \A i \in DOMAIN t.info : HasType(t.info[i], v[t.fields[i]])
    [] t.kind = "map"     -> v = Nil \/ \A k \in DOMAIN v : HasType(t.info[2], v[k])
    [] t.kind = "array"   -> Len(v) = Mem(t.info[1], t.size)
    [] t.kind = "slice"   -> v = Nil \/ (v.len >= 0 /\ Mem(t.info[1], v.len) <= Len(v.mem))

(***************************************************************************)
(* Types: whatever is dumped into it, from a Buffer that is whole or not,  *)
(* the memory of dest stays of its type, slices within their capacity      *)
(* (dump); and what is unread is the end of what was saved (Buffer.Read).  *)
(***************************************************************************)
TypeOK ==
  /\ HasType(Infos[dest.name], dest.value)
  /\ Running => IsSuffix(buf.rest, buf.cells)

\* Saved as a negated type.
Hollow(t, v) == v = Nil \/ (t.kind = "pointer" /\ Hollow(t.info[1], v[1]))

\* Sequences of elements, one by one.
Elements(t, v) ==
  [i \in 1 .. Length(t, v) |-> Unit(t.info[1], Memory(t, v), (i - 1) * t.info[1].mem)]

\* The reference: w, of type u, has what v, of type t, had.  A pointer and what
\* it points to are the same; nil is not told apart from a pointer to nil; nil
\* leaves what is not a pointer, slice or map as it was; an array may be longer.
Same(t, v, u, w) ==
  CASE Hollow(t, v) -> u.kind \in {"pointer", "slice", "map"} => Hollow(u, w)
    [] ~Hollow(t, v) /\ t.kind = "pointer" -> Same(t.info[1], v[1], u, w)
    [] ~Hollow(t, v) /\ t.kind # "pointer" /\ u.kind = "pointer" ->
         w # Nil /\ Same(t, v, u.info[1], w[1])
    [] OTHER ->
         CASE t.kind = "struct" ->
                \A i \in DOMAIN t.info : Same(t.info[i], v[t.fields[i]], u.info[i], w[u.fields[i]])
           [] t.kind = "map" ->
                /\ w # Nil /\ DOMAIN v = DOMAIN w
                /\ \A k \in DOMAIN v : Same(t.info[2], v[k], u.info[2], w[k])
           [] t.kind \in {"slice", "array"} ->
                /\ w # Nil /\ (u.kind = "slice" => w.len = Length(t, v))
                /\ \A i \in 1 .. Length(t, v) :
                     Same(t.info[1], Elements(t, v)[i], u.info[1], Elements(u, w)[i])
           [] OTHER -> v = w

\* What the format has room for: counts, times, and pointers to pointers and
\* longer arrays only where the other side has them too.
Fits(t, v, u) ==
  CASE Hollow(t, v) -> t.kind = "pointer" /\ t.info[1].kind = "pointer" => u = t
    [] ~Hollow(t, v) /\ t.kind = "pointer" -> Fits(t.info[1], v[1], u)
    [] ~Hollow(t, v) /\ t.kind # "pointer" /\ u.kind = "pointer" -> Fits(t, v, u.info[1])
    [] OTHER ->
         CASE t.kind = "struct" -> \A i \in DOMAIN t.info : Fits(t.info[i], v[t.fields[i]], u.info[i])
           [] t.kind = "time" -> Parses(v)
           [] t.kind = "map" -> /\ Cardinality(DOMAIN v) <= ShortMax
                                /\ \A k \in DOMAIN v : Fits(t.info[2], v[k], u.info[2])
           [] t.kind \in {"slice", "array"} ->
                /\ Length(t, v) <= ShortMax /\ (u.kind = "array" => Length(t, v) <= u.size)
                /\ \A i \in 1 .. Length(t, v) : Fits(t.info[1], Elements(t, v)[i], u.info[1])
           [] OTHER -> TRUE

\* The step between elements is their size: not for slices of slices, nor for
\* arrays of arrays of more than bytes.
Even(t) ==
  /\ \A i \in DOMAIN t.info : Even(t.info[i])
  /\ t.kind \in {"slice", "array"} => t.info[1].size = t.info[1].mem

Decoded == result.call \in {"UnmarshalTo", "Unmarshal"}

\* The object that was asked for, as it was marshalled.
Meant == buf.sent[result.nth]

(***************************************************************************)
(* What was marshalled is what is unmarshalled: into a new object or over  *)
(* an old one, of the same class or one that differs in pointers, by       *)
(* UnmarshalTo, which always gives the first object of the Buffer, or by   *)
(* Unmarshal, which gives one after the other.  And reading behind the     *)
(* last is an error (save, dump, UnmarshalTo, Unmarshal).                  *)
(***************************************************************************)
RoundTrip ==
  Decoded /\ buf.whole =>
    IF result.nth > Len(buf.sent) THEN result.err = "InSufficientData"
    ELSE LET t == Infos[Meant.name]
             u == Infos[result.name]
         IN  t.stype = u.stype /\ Even(t) /\ Even(u) /\ Fits(t, Meant.value, u) =>
               result.err = "nil" /\ Same(t, Meant.value, u, dest.value)

(***************************************************************************)
(* A Buffer that lacks its end is refused before anything of dest is       *)
(* overwritten: the size patched into the object's head covers all that    *)
(* its fields wrote (updateSize in objSave, checkDumpSize in objDump).     *)
(***************************************************************************)
AllOrNothing ==
  [][~buf.whole /\ (UnmarshalTo \/ Unmarshal) =>
        result'.err = "InSufficientData" /\ dest' = dest]_vars

\* All that Print can show: no pointers and no nil.
Shown(t, v) ==
  CASE t.kind = "pointer" -> FALSE
    [] t.kind = "struct" -> \A i \in DOMAIN t.info : Shown(t.info[i], v[t.fields[i]])
    [] t.kind = "map" -> v # Nil /\ \A k \in DOMAIN v : Shown(t.info[2], v[k])
    [] t.kind \in {"slice", "array"} ->
         v # Nil /\ \A i \in DOMAIN Elements(t, v) : Shown(t.info[1], Elements(t, v)[i])
    [] OTHER -> TRUE

(***************************************************************************)
(* Print walks over the whole object and no further, through structs,      *)
(* arrays, merged arrays and maps, when it has no pointers and no nil      *)
(* (print.go parse).                                                       *)
(***************************************************************************)
PrintShowsAll ==
  result.call = "PrintTree" /\ buf.whole /\ Len(buf.sent) = 1 /\ result.nth = 1
    /\ result.name = Meant.name /\ Even(Infos[Meant.name])
    /\ Fits(Infos[Meant.name], Meant.value, Infos[Meant.name])
    /\ Shown(Infos[Meant.name], Meant.value)
  => result.err = "nil" /\ result.left = 0

(***************************************************************************)
(* A test (typeinfo_test.go): an object and what it is unmarshalled to are *)
(* equal, also when slices hold slices.                                    *)
(***************************************************************************)
NestedKept ==
  Decoded /\ result.err = "nil" /\ result.nth = 1 /\ result.name = Meant.name =>
    Same(Infos[Meant.name], Meant.value, Infos[Meant.name], dest.value)
=============================================================================
