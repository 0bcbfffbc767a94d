--------------------------- MODULE RBufferProofs ---------------------------
(***************************************************************************)
(* Proofs about RBuffer, for any objects, classes, types and numbers of    *)
(* fragments.  TypeOK is inductive as it stands; the delivery properties   *)
(* are proved on top of it.  Then about Receiver, for any chunks and       *)
(* errors: its loop does to the tables nothing but what RBuffer allows, so *)
(* what is proved of RBuffer holds around the loop too; what is ready      *)
(* stays ready; and nil is returned only when something is.                *)
(***************************************************************************)
EXTENDS Receiver, ReceiveBufferProofs

-----------------------------------------------------------------------------
(* Facts about the constants and about one Buffer. *)

LEMMA FragFacts ==
  ASSUME NEW o \in Objects, NEW i \in 1 .. N(o)
  PROVE  /\ N(o) \in Nat \ {0}
         /\ Frag(o, i).types = TypesOf[o]
         /\ Frag(o, i).tid = TidOf[o]
         /\ Frag(o, i).fid \in Int
         /\ Frag(o, i).fid < 0 <=> i = N(o)
         /\ Number(Frag(o, i).fid) = i
         /\ Frag(o, i).len \in Nat
         /\ SchemaOf(Frag(o, i)) = ObjectSchema(o)
         /\ ObjectSchema(o) \in Schemas
<1>1. N(o) \in Nat \ {0} /\ Lengths[o] \in Seq(Nat)
  BY ObjectsAssumption DEF N
<1>2. Lengths[o][i] \in Nat
  BY <1>1 DEF N
<1>3. /\ Frag(o, i).types = TypesOf[o] /\ Frag(o, i).tid = TidOf[o]
      /\ Frag(o, i).fid = IF i = N(o) THEN -i ELSE i
      /\ Frag(o, i).len = Lengths[o][i]
  BY DEF Frag
<1>4. /\ Frag(o, i).fid \in Int
      /\ Frag(o, i).fid < 0 <=> i = N(o)
      /\ Number(Frag(o, i).fid) = i
  BY <1>1, <1>3 DEF Number
<1>5. SchemaOf(Frag(o, i)) = ObjectSchema(o)
  BY <1>3 DEF SchemaOf, ObjectSchema
<1>6. ObjectSchema(o) \in Schemas
  BY ObjectsAssumption DEF ObjectSchema, Schemas
<1>. QED
  BY <1>1, <1>2, <1>3, <1>4, <1>5, <1>6

\* Two objects with one schema are one object.
LEMMA SchemaDetermines ==
  ASSUME NEW o \in Objects, NEW p \in Objects, ObjectSchema(o) = ObjectSchema(p)
  PROVE  o = p
BY TidAssumption DEF ObjectSchema

\* Push of a fragment of o into a fresh Buffer or into one of o succeeds and
\* fills exactly one more slot, the right one.
LEMMA PushedOwn ==
  ASSUME NEW o \in Objects, NEW i \in 1 .. N(o), NEW buf, buf = EmptyBuffer \/ BufferOf(buf, o)
  PROVE  LET new == Pushed(buf, Frag(o, i))
         IN  /\ PushError(buf, Frag(o, i)) = "nil"
             /\ BufferOf(new, o)
             /\ DOMAIN new.frags = DOMAIN buf.frags \cup {i - 1}
             /\ new.frags[i - 1] = Frag(o, i)
             /\ \A k \in DOMAIN buf.frags : k # i - 1 => new.frags[k] = buf.frags[k]
<1>. DEFINE f == Frag(o, i)
            old == Opened(buf, f)
            new == Stored(old, f)
<1>1. /\ N(o) \in Nat \ {0}
      /\ f.types = TypesOf[o] /\ f.tid = TidOf[o] /\ f.len \in Nat
      /\ Number(f.fid) = i
      /\ SchemaOf(f) = ObjectSchema(o) /\ ObjectSchema(o) \in Schemas
  BY FragFacts
<1>2. /\ DOMAIN old = {"schema", "frags", "size"}
      /\ old.schema = ObjectSchema(o)
      /\ DOMAIN old.frags = DOMAIN buf.frags
      /\ DOMAIN old.frags \subseteq 0 .. N(o) - 1
      /\ \A k \in DOMAIN old.frags : old.frags[k] = Frag(o, k + 1) /\ old.frags[k] = buf.frags[k]
      /\ old.size \in Int
  <2>1. CASE buf = EmptyBuffer
    BY <1>1, <2>1 DEF Opened, EmptyBuffer, EmptyMap
  <2>2. CASE BufferOf(buf, o)
    <3>1. old = buf
      BY <1>1, <2>2, NoSchemaAssumption DEF Opened, BufferOf
    <3>2. \A k \in DOMAIN buf.frags : buf.frags[k] = Frag(o, k + 1)
      BY <2>2 DEF BufferOf
    <3>. QED
      BY <2>2, <3>1, <3>2 DEF BufferOf
  <2>. QED
    BY <2>1, <2>2
<1>3. PushError(buf, f) = "nil"
  BY <1>1, <1>2 DEF PushError, ObjectSchema
<1>4. Pushed(buf, f) = new
  BY <1>3 DEF Pushed
<1>. HIDE DEF f, old
<1>5. /\ DOMAIN new = {"schema", "frags", "size"}
      /\ new.schema = ObjectSchema(o)
      /\ new.frags = Put(old.frags, i - 1, f)
  BY <1>1, <1>2 DEF Stored
<1>6. /\ DOMAIN new.frags = DOMAIN buf.frags \cup {i - 1}
      /\ new.frags[i - 1] = f
      /\ \A k \in DOMAIN buf.frags : k # i - 1 => new.frags[k] = buf.frags[k]
  BY <1>2, <1>5 DEF Put
<1>7. new.size \in Int
  <2>1. i - 1 \in DOMAIN old.frags => old.frags[i - 1].len \in Nat
    BY <1>1, <1>2 DEF f
  <2>2. new.size = old.size - (IF i - 1 \in DOMAIN old.frags THEN old.frags[i - 1].len ELSE 0) + f.len
    BY <1>1, <1>2 DEF Stored
  <2>. QED
    BY <1>1, <1>2, <2>1, <2>2
<1>8. BufferOf(new, o)
  <2>1. new.frags = [k \in DOMAIN new.frags |-> Frag(o, k + 1)]
    <3>1. \A k \in DOMAIN new.frags : new.frags[k] = Frag(o, k + 1)
      BY <1>2, <1>6 DEF f
    <3>2. new.frags = [k \in DOMAIN new.frags |-> new.frags[k]]
      BY <1>5 DEF Put
    <3>. QED
      BY <3>1, <3>2
  <2>2. DOMAIN new.frags # {} /\ DOMAIN new.frags \subseteq 0 .. N(o) - 1
    BY <1>1, <1>2, <1>6
  <2>. QED
    BY <1>5, <1>7, <2>1, <2>2 DEF BufferOf
<1>. QED
  BY <1>3, <1>4, <1>6, <1>8 DEF f

\* The slots of a Buffer of o are numbered as WantedCorrect expects.
LEMMA OwnIsNumbered ==
  ASSUME NEW o \in Objects, NEW buf, BufferOf(buf, o)
  PROVE  N(o) \in Nat \ {0} /\ Numbered(buf, N(o))
<1>1. N(o) \in Nat \ {0}
  BY ObjectsAssumption DEF N
<1>2. ASSUME NEW k \in DOMAIN buf.frags
      PROVE  buf.frags[k].fid \in Int /\ (buf.frags[k].fid < 0 <=> k = N(o) - 1)
  <2>1. k \in 0 .. N(o) - 1 /\ k + 1 \in 1 .. N(o) /\ buf.frags[k] = Frag(o, k + 1)
    BY <1>1 DEF BufferOf
  <2>. QED
    BY <1>1, <2>1, FragFacts
<1>. QED
  BY <1>1, <1>2 DEF Numbered, BufferOf

\* A Buffer of o in which Wanted misses nothing is the whole object.
LEMMA CompleteIsWhole ==
  ASSUME NEW o \in Objects, NEW buf, BufferOf(buf, o), Wanted(buf) = 0
  PROVE  DOMAIN buf.frags = 0 .. N(o) - 1
<1>1. N(o) \in Nat \ {0} /\ Numbered(buf, N(o))
  BY OwnIsNumbered
<1>2. {i \in 1 .. N(o) : i - 1 \notin DOMAIN buf.frags} = {}
  BY <1>1, WantedCorrect
<1>3. ASSUME NEW k \in 0 .. N(o) - 1 PROVE k \in DOMAIN buf.frags
  <2>1. k + 1 \in 1 .. N(o) /\ (k + 1) - 1 = k
    BY <1>1
  <2>. QED
    BY <1>2, <2>1
<1>. QED
  BY <1>3 DEF BufferOf

-----------------------------------------------------------------------------
(* The type invariant. *)

\* What a table entry filed under a key holds: fragments of the object of the
\* key's type and TID.
LEMMA EntryOf ==
  ASSUME TypeOK, NEW o \in Objects, NEW l \in Locations, LocTypes[l] = TypesOf[o]
  PROVE  LET buf == Entry(results, <<l, TidOf[o]>>)
         IN  buf = EmptyBuffer \/ BufferOf(buf, o)
<1>. DEFINE key == <<l, TidOf[o]>>
<1>1. CASE key \in DOMAIN results
  <2>1. PICK p \in Objects : /\ TypesOf[p] = LocTypes[l] /\ TidOf[p] = TidOf[o]
                            /\ BufferOf(results[key], p)
    BY <1>1 DEF TypeOK, ResultsOK, UnregisteredOK
  <2>2. p = o
    BY <2>1, TidAssumption
  <2>. QED
    BY <1>1, <2>1, <2>2 DEF Entry
<1>. QED
  BY <1>1 DEF Entry

LEMMA AsideOf ==
  ASSUME TypeOK, NEW o \in Objects
  PROVE  LET buf == Entry(unregistered, <<TypesOf[o], TidOf[o]>>)
         IN  buf = EmptyBuffer \/ BufferOf(buf, o)
<1>. DEFINE key == <<TypesOf[o], TidOf[o]>>
<1>1. CASE key \in DOMAIN unregistered
  <2>1. PICK p \in Objects : /\ TypesOf[p] = TypesOf[o] /\ TidOf[p] = TidOf[o]
                            /\ BufferOf(unregistered[key], p)
    BY <1>1 DEF TypeOK, ResultsOK, UnregisteredOK
  <2>2. p = o
    BY <2>1, TidAssumption
  <2>. QED
    BY <1>1, <2>1, <2>2 DEF Entry
<1>. QED
  BY <1>1 DEF Entry

\* What a Push of a registered type does to results.
LEMMA RegisteredPush ==
  ASSUME TypeOK, NEW o \in Objects, NEW i \in 1 .. N(o), PushRegistered(o, Frag(o, i))
  PROVE  LET l   == registered[TypesOf[o]]
             old == Entry(results, <<l, TidOf[o]>>)
             new == Pushed(old, Frag(o, i))
         IN  /\ l \in Locations /\ LocTypes[l] = TypesOf[o]
             /\ old = EmptyBuffer \/ BufferOf(old, o)
             /\ BufferOf(new, o)
             /\ results' = Put(results, <<l, TidOf[o]>>, new)
<1>1. Frag(o, i).types = TypesOf[o] /\ Frag(o, i).tid = TidOf[o]
  BY FragFacts
<1>2. registered[TypesOf[o]] \in Locations /\ LocTypes[registered[TypesOf[o]]] = TypesOf[o]
  BY <1>1 DEF PushRegistered, TypeOK, RegisteredOK
<1>3. LET old == Entry(results, <<registered[TypesOf[o]], TidOf[o]>>)
      IN  old = EmptyBuffer \/ BufferOf(old, o)
  BY <1>2, EntryOf
<1>. QED
  BY <1>1, <1>2, <1>3, PushedOwn DEF PushRegistered

LEMMA UnregisteredPush ==
  ASSUME TypeOK, NEW o \in Objects, NEW i \in 1 .. N(o), PushUnregistered(o, Frag(o, i))
  PROVE  LET key == <<TypesOf[o], TidOf[o]>>
             old == Entry(unregistered, key)
             new == Pushed(old, Frag(o, i))
         IN  /\ old = EmptyBuffer \/ BufferOf(old, o)
             /\ BufferOf(new, o)
             /\ unregistered' = Put(unregistered, key, new)
<1>1. Frag(o, i).types = TypesOf[o] /\ Frag(o, i).tid = TidOf[o]
  BY FragFacts
<1>2. LET old == Entry(unregistered, <<TypesOf[o], TidOf[o]>>)
      IN  old = EmptyBuffer \/ BufferOf(old, o)
  BY AsideOf
<1>. QED
  BY <1>1, <1>2, PushedOwn DEF PushUnregistered

LEMMA TypeOKInit == Init => TypeOK
<1>. SUFFICES ASSUME Init PROVE TypeOK
  OBVIOUS
<1>1. RegisteredOK /\ ResultsOK /\ UnregisteredOK
  BY DEF Init, EmptyMap, RegisteredOK, ResultsOK, UnregisteredOK
<1>2. CountsOK
  BY MaxArrivalsAssumption DEF Init, CountsOK
<1>. QED
  BY <1>1, <1>2 DEF TypeOK

LEMMA TypeOKNext == TypeOK /\ [Next]_vars => TypeOK'
<1>. SUFFICES ASSUME TypeOK, [Next]_vars PROVE TypeOK'
  OBVIOUS
<1>. USE DEF TypeOK
<1>1. CASE UNCHANGED vars
  BY <1>1 DEF vars, RegisteredOK, ResultsOK, UnregisteredOK, CountsOK
<1>2. ASSUME NEW l \in Locations, Register(l) PROVE TypeOK'
  <2>1. RegisteredOK'
    BY <1>2, LocationsAssumption DEF Register, RegisteredOK, Put
  <2>. QED
    BY <1>2, <2>1 DEF Register, ResultsOK, UnregisteredOK, CountsOK
<1>3. ASSUME NEW o \in Objects, NEW i \in 1 .. N(o), Push(o, i) PROVE TypeOK'
  <2>1. RegisteredOK'
    BY <1>3 DEF Push, RegisteredOK
  <2>2. CountsOK'
    <3>1. handed' \in [Objects -> Nat]
      BY <1>3 DEF Push, CountsOK
    <3>2. /\ arrived' = [arrived EXCEPT ![o] = [arrived[o] EXCEPT ![i] = arrived[o][i] + 1]]
          /\ arrived[o][i] < MaxArrivals
      BY <1>3 DEF Push
    <3>3. /\ DOMAIN arrived = Objects
          /\ \A p \in Objects : arrived[p] \in [1 .. N(p) -> 0 .. MaxArrivals]
      BY DEF CountsOK
    <3>4. [arrived[o] EXCEPT ![i] = arrived[o][i] + 1] \in [1 .. N(o) -> 0 .. MaxArrivals]
      <4>1. arrived[o] \in [1 .. N(o) -> 0 .. MaxArrivals]
        BY <3>3
      <4>2. arrived[o][i] \in 0 .. MaxArrivals /\ arrived[o][i] < MaxArrivals
        BY <3>2, <4>1
      <4>3. arrived[o][i] + 1 \in 0 .. MaxArrivals
        BY <4>2, MaxArrivalsAssumption
      <4>. QED
        BY <4>1, <4>3
    <3>. QED
      BY <3>1, <3>2, <3>3, <3>4 DEF CountsOK
  <2>3. CASE PushUnregistered(o, Frag(o, i))
    <3>1. UnregisteredOK'
      <4>. DEFINE key == <<TypesOf[o], TidOf[o]>>
                  new == Pushed(Entry(unregistered, key), Frag(o, i))
      <4>1. unregistered' = Put(unregistered, key, new) /\ BufferOf(new, o)
        BY <2>3, UnregisteredPush
      <4>2. key \in Types \X Tids /\ key[1] = TypesOf[o] /\ key[2] = TidOf[o]
        BY ObjectsAssumption
      <4>. HIDE DEF key, new
      <4>. QED
        BY <4>1, <4>2 DEF UnregisteredOK, Put
    <3>2. ResultsOK'
      BY <2>3 DEF PushUnregistered, ResultsOK
    <3>. QED
      BY <2>1, <2>2, <3>1, <3>2
  <2>4. CASE PushRegistered(o, Frag(o, i))
    <3>1. ResultsOK'
      <4>. DEFINE key == <<registered[TypesOf[o]], TidOf[o]>>
                  new == Pushed(Entry(results, key), Frag(o, i))
      <4>1. /\ results' = Put(results, key, new) /\ BufferOf(new, o)
            /\ registered[TypesOf[o]] \in Locations
            /\ LocTypes[registered[TypesOf[o]]] = TypesOf[o]
        BY <2>4, RegisteredPush
      <4>2. /\ key \in Locations \X Tids
            /\ LocTypes[key[1]] = TypesOf[o] /\ key[2] = TidOf[o]
        BY <4>1, ObjectsAssumption
      <4>. HIDE DEF key, new
      <4>. QED
        BY <4>1, <4>2 DEF ResultsOK, Put
    <3>2. UnregisteredOK'
      BY <2>4 DEF PushRegistered, UnregisteredOK
    <3>. QED
      BY <2>1, <2>2, <3>1, <3>2
  <2>. QED
    BY <1>3, <2>3, <2>4 DEF Push
<1>4. ASSUME NEW l \in Locations, NEW tid \in Tids, Buffer(l, tid) PROVE TypeOK'
  <2>1. ResultsOK'
    BY <1>4 DEF Buffer, ResultsOK, Delete
  <2>2. CountsOK'
    BY <1>4 DEF Buffer, CountsOK
  <2>. QED
    BY <1>4, <2>1, <2>2 DEF Buffer, RegisteredOK, UnregisteredOK
<1>. QED
  BY <1>1, <1>2, <1>3, <1>4 DEF Next

\* Every table entry holds, slot by slot, fragments of the one object it is
\* filed under (RBuffer.Push, Buffer.Push), in every reachable state.
THEOREM TypeCorrect == Spec => []TypeOK
<1>. QED
  BY TypeOKInit, TypeOKNext, PTL DEF Spec

-----------------------------------------------------------------------------
(* What the application is handed. *)

LEMMA HandedWholeStep == TypeOK /\ HandedWhole /\ [Next]_vars => HandedWhole'
<1>. SUFFICES ASSUME TypeOK, HandedWhole, [Next]_vars PROVE HandedWhole'
  OBVIOUS
<1>1. CASE returned' = returned
  BY <1>1 DEF HandedWhole
<1>2. ASSUME NEW l \in Locations, NEW tid \in Tids, Buffer(l, tid) PROVE HandedWhole'
  <2>. DEFINE buf == results[<<l, tid>>]
  <2>1. /\ <<l, tid>> \in DOMAIN results /\ Wanted(buf) = 0
        /\ returned' = [loc |-> l, buf |-> buf]
    BY <1>2 DEF Buffer
  <2>2. PICK o \in Objects : TypesOf[o] = LocTypes[l] /\ BufferOf(buf, o)
    BY <2>1 DEF TypeOK, ResultsOK
  <2>3. DOMAIN buf.frags = 0 .. N(o) - 1
    BY <2>1, <2>2, CompleteIsWhole
  <2>4. buf.frags = [k \in 0 .. N(o) - 1 |-> Frag(o, k + 1)]
    BY <2>2, <2>3 DEF BufferOf
  <2>. QED
    BY <2>1, <2>2, <2>4 DEF HandedWhole
<1>. QED
  BY <1>1, <1>2 DEF Next, Register, Push, vars

\* Every Buffer the application is handed is one whole object of the class it
\* asked for (RBuffer.Buffer, Buffer.Wanted).
THEOREM HandedWholeCorrect == Spec => []HandedWhole
<1>1. Init => HandedWhole
  BY DEF Init, HandedWhole
<1>. QED
  BY <1>1, TypeCorrect, HandedWholeStep, PTL DEF Spec

-----------------------------------------------------------------------------
(* Conservation of fragments. *)

\* A Push of fragment i of o adds at most the entry it is filed in to the
\* places of that fragment, and takes none away from any fragment.
LEMMA PlacesPush ==
  ASSUME TypeOK, NEW o \in Objects, NEW i \in 1 .. N(o), PushRegistered(o, Frag(o, i)),
         NEW p \in Objects, NEW j \in 1 .. N(p)
  PROVE  \E l \in Locations :
           Places(p, j)' = IF p = o /\ j = i THEN Places(p, j) \cup {l} ELSE Places(p, j)
<1>0. PICK l \in Locations : l = registered[TypesOf[o]]
  BY RegisteredPush
<1>. DEFINE key == <<l, TidOf[o]>>
            old == Entry(results, key)
            new == Pushed(old, Frag(o, i))
<1>1. /\ old = EmptyBuffer \/ BufferOf(old, o)
      /\ BufferOf(new, o)
      /\ results' = Put(results, key, new)
  BY <1>0, RegisteredPush
<1>2. /\ DOMAIN new.frags = DOMAIN old.frags \cup {i - 1}
      /\ new.frags[i - 1] = Frag(o, i)
      /\ \A k \in DOMAIN old.frags : k # i - 1 => new.frags[k] = old.frags[k]
  BY <1>1, PushedOwn
<1>. HIDE DEF new
<1>3. ASSUME NEW m \in Locations, m # l \/ TidOf[p] # TidOf[o]
      PROVE  Holds(results, <<m, TidOf[p]>>, p, j)' <=> Holds(results, <<m, TidOf[p]>>, p, j)
  BY <1>1, <1>3 DEF Holds, Put
<1>4. ASSUME TidOf[p] = TidOf[o]
      PROVE  Holds(results, key, p, j)' <=> Holds(results, key, p, j) \/ (p = o /\ j = i)
  <2>1. /\ key \in DOMAIN results'
        /\ results'[key] = new
        /\ key \in DOMAIN results => old = results[key]
        /\ key \notin DOMAIN results => DOMAIN old.frags = {}
    BY <1>1 DEF Put, Entry, EmptyBuffer, EmptyMap
  <2>2. Holds(results, key, p, j)' <=> j - 1 \in DOMAIN new.frags /\ new.frags[j - 1] = Frag(p, j)
    BY <2>1 DEF Holds
  <2>3. Holds(results, key, p, j) <=> j - 1 \in DOMAIN old.frags /\ old.frags[j - 1] = Frag(p, j)
    BY <2>1 DEF Holds
  <2>4. CASE j = i
    <3>1. Frag(p, j) = Frag(o, i) <=> p = o
      <4>1. p # o => TypesOf[p] # TypesOf[o]
        BY <1>4, TidAssumption
      <4>2. Frag(p, j).types = TypesOf[p] /\ Frag(o, i).types = TypesOf[o]
        BY FragFacts
      <4>. QED
        BY <2>4, <4>1, <4>2
    <3>2. i - 1 \in DOMAIN old.frags => old.frags[i - 1] = Frag(o, i)
      <4>1. (i - 1) + 1 = i
        BY FragFacts
      <4>2. old = EmptyBuffer => DOMAIN old.frags = {}
        BY DEF EmptyBuffer, EmptyMap
      <4>3. BufferOf(old, o) /\ i - 1 \in DOMAIN old.frags => old.frags[i - 1] = Frag(o, (i - 1) + 1)
        BY DEF BufferOf
      <4>. QED
        BY <1>1, <4>1, <4>2, <4>3
    <3>. QED
      BY <1>2, <2>2, <2>3, <2>4, <3>1, <3>2
  <2>5. CASE j # i
    BY <1>2, <2>2, <2>3, <2>5
  <2>. QED
    BY <2>4, <2>5
<1>5. \A m \in Locations : Holds(results, <<m, TidOf[p]>>, p, j)' <=>
                           Holds(results, <<m, TidOf[p]>>, p, j) \/ (m = l /\ p = o /\ j = i)
  BY <1>3, <1>4
<1>6. Places(p, j)' = IF p = o /\ j = i THEN Places(p, j) \cup {l} ELSE Places(p, j)
  BY <1>5 DEF Places
<1>. QED
  BY <1>6

LEMMA AsidePush ==
  ASSUME TypeOK, NEW o \in Objects, NEW i \in 1 .. N(o), PushUnregistered(o, Frag(o, i)),
         NEW p \in Objects, NEW j \in 1 .. N(p)
  PROVE  Aside(p, j)' <=> Aside(p, j) \/ (p = o /\ j = i)
<1>. DEFINE key == <<TypesOf[o], TidOf[o]>>
            old == Entry(unregistered, key)
            new == Pushed(old, Frag(o, i))
<1>1. /\ old = EmptyBuffer \/ BufferOf(old, o)
      /\ BufferOf(new, o)
      /\ unregistered' = Put(unregistered, key, new)
  BY UnregisteredPush
<1>2. /\ DOMAIN new.frags = DOMAIN old.frags \cup {i - 1}
      /\ new.frags[i - 1] = Frag(o, i)
      /\ \A k \in DOMAIN old.frags : k # i - 1 => new.frags[k] = old.frags[k]
  BY <1>1, PushedOwn
<1>3. CASE p # o
  <2>1. <<TypesOf[p], TidOf[p]>> # key
    BY <1>3, TidAssumption
  <2>. QED
    BY <1>1, <1>3, <2>1 DEF Aside, Holds, Put
<1>4. CASE p = o
  <2>1. /\ key \in DOMAIN unregistered'
        /\ unregistered'[key] = new
        /\ key \in DOMAIN unregistered => old = unregistered[key]
        /\ key \notin DOMAIN unregistered => DOMAIN old.frags = {}
    BY <1>1 DEF Put, Entry, EmptyBuffer, EmptyMap
  <2>2. Aside(p, j)' <=> j - 1 \in DOMAIN new.frags /\ new.frags[j - 1] = Frag(p, j)
    BY <1>4, <2>1 DEF Aside, Holds
  <2>3. Aside(p, j) <=> j - 1 \in DOMAIN old.frags /\ old.frags[j - 1] = Frag(p, j)
    BY <1>4, <2>1 DEF Aside, Holds
  <2>4. CASE j = i
    BY <1>2, <1>4, <2>2, <2>3, <2>4
  <2>5. CASE j # i
    BY <1>2, <1>4, <2>2, <2>3, <2>5
  <2>. QED
    BY <2>4, <2>5
<1>. QED
  BY <1>3, <1>4

\* Handing over an entry: it is a whole object, so each of its fragments loses
\* the place it was in, and no other fragment loses one.
LEMMA PlacesBuffer ==
  ASSUME TypeOK, NEW l \in Locations, NEW tid \in Tids, Buffer(l, tid),
         NEW p \in Objects, NEW j \in 1 .. N(p)
  PROVE  IF TypesOf[p] = LocTypes[l] /\ TidOf[p] = tid
         THEN /\ l \in Places(p, j) /\ Places(p, j)' = Places(p, j) \ {l}
              /\ handed'[p] = handed[p] + 1
         ELSE Places(p, j)' = Places(p, j) /\ handed'[p] = handed[p]
<1>. DEFINE key == <<l, tid>>
            buf == results[key]
<1>1. /\ key \in DOMAIN results /\ Wanted(buf) = 0
      /\ results' = Delete(results, key)
      /\ handed'[p] = IF ObjectSchema(p) = buf.schema THEN handed[p] + 1 ELSE handed[p]
  BY DEF Buffer
<1>2. PICK o \in Objects : TypesOf[o] = LocTypes[l] /\ TidOf[o] = tid /\ BufferOf(buf, o)
  BY <1>1 DEF TypeOK, ResultsOK
<1>3. DOMAIN buf.frags = 0 .. N(o) - 1 /\ buf.schema = ObjectSchema(o)
  BY <1>1, <1>2, CompleteIsWhole DEF BufferOf
<1>4. CASE p = o
  <2>1. j - 1 \in 0 .. N(o) - 1 /\ buf.frags[j - 1] = Frag(o, j)
    <3>1. N(o) \in Nat
      BY <1>4, FragFacts
    <3>2. j - 1 \in 0 .. N(o) - 1 /\ (j - 1) + 1 = j
      BY <1>4, <3>1
    <3>. QED
      BY <1>2, <1>3, <3>2 DEF BufferOf
  <2>2. Holds(results, key, p, j)
    BY <1>1, <1>3, <1>4, <2>1 DEF Holds
  <2>3. \A m \in Locations : Holds(results, <<m, TidOf[p]>>, p, j)' <=>
                             m # l /\ Holds(results, <<m, TidOf[p]>>, p, j)
    BY <1>1, <1>2, <1>4 DEF Holds, Delete
  <2>. QED
    BY <1>1, <1>2, <1>3, <1>4, <2>2, <2>3 DEF Places
<1>5. CASE p # o
  <2>1. ObjectSchema(p) # buf.schema /\ ~ (TypesOf[p] = LocTypes[l] /\ TidOf[p] = tid)
    BY <1>2, <1>3, <1>5, SchemaDetermines, TidAssumption
  <2>2. ~ Holds(results, key, p, j)
    <3>1. ASSUME j - 1 \in DOMAIN buf.frags, buf.frags[j - 1] = Frag(p, j) PROVE FALSE
      <4>1. Frag(p, j) = Frag(o, (j - 1) + 1)
        BY <1>2, <3>1 DEF BufferOf
      <4>2. TypesOf[p] = TypesOf[o] /\ TidOf[p] = TidOf[o]
        BY <4>1 DEF Frag
      <4>. QED
        BY <1>5, <4>2, TidAssumption
    <3>. QED
      BY <3>1 DEF Holds
  <2>3. \A m \in Locations : Holds(results, <<m, TidOf[p]>>, p, j)' <=>
                             Holds(results, <<m, TidOf[p]>>, p, j)
    BY <1>1, <2>2 DEF Holds, Delete
  <2>. QED
    BY <1>1, <2>1, <2>3 DEF Places
<1>. QED
  BY <1>4, <1>5

LEMMA NeverInventedStep == TypeOK /\ NeverInvented /\ [Next]_vars => NeverInvented'
<1>. SUFFICES ASSUME TypeOK, NeverInvented, [Next]_vars,
                     NEW p \in Objects, NEW j \in 1 .. N(p)
              PROVE  (handed[p] + Cardinality(Places(p, j)) + (IF Aside(p, j) THEN 1 ELSE 0)
                        <= arrived[p][j])'
  BY DEF NeverInvented
<1>. DEFINE places == Cardinality(Places(p, j))
            aside  == IF Aside(p, j) THEN 1 ELSE 0
<1>1. handed[p] + places + aside <= arrived[p][j]
  BY DEF NeverInvented
<1>2. /\ handed[p] \in Nat /\ arrived[p][j] \in Nat /\ aside \in {0, 1}
      /\ IsFiniteSet(Places(p, j)) /\ places \in Nat
  <2>1. Places(p, j) \in SUBSET Locations
    BY DEF Places
  <2>2. IsFiniteSet(Places(p, j))
    BY <2>1, LocationsAssumption, FS_Subset, Zenon
  <2>3. arrived[p] \in [1 .. N(p) -> 0 .. MaxArrivals]
    BY DEF TypeOK, CountsOK
  <2>4. arrived[p][j] \in 0 .. MaxArrivals
    BY <2>3
  <2>. QED
    BY <2>2, <2>4, FS_CardinalityType, MaxArrivalsAssumption DEF TypeOK, CountsOK
<1>3. CASE UNCHANGED vars
  BY <1>1, <1>3 DEF vars, Places, Aside, Holds
<1>4. ASSUME NEW l \in Locations, Register(l)
      PROVE  handed'[p] + places' + aside' <= arrived'[p][j]
  BY <1>1, <1>4 DEF Register, Places, Aside, Holds
<1>5. ASSUME NEW o \in Objects, NEW i \in 1 .. N(o), Push(o, i)
      PROVE  handed'[p] + places' + aside' <= arrived'[p][j]
  <2>1. /\ handed' = handed
        /\ arrived'[p][j] = IF p = o /\ j = i THEN arrived[p][j] + 1 ELSE arrived[p][j]
    <3>1. arrived' = [arrived EXCEPT ![o] = [arrived[o] EXCEPT ![i] = arrived[o][i] + 1]]
      BY <1>5 DEF Push
    <3>2. DOMAIN arrived = Objects /\ DOMAIN arrived[o] = 1 .. N(o)
      BY DEF TypeOK, CountsOK
    <3>. QED
      BY <1>5, <3>1, <3>2 DEF Push
  <2>2. CASE PushRegistered(o, Frag(o, i))
    <3>1. PICK l \in Locations :
            Places(p, j)' = IF p = o /\ j = i THEN Places(p, j) \cup {l} ELSE Places(p, j)
      BY <2>2, PlacesPush
    <3>2. Cardinality(Places(p, j) \cup {l}) = IF l \in Places(p, j) THEN places ELSE places + 1
      BY <1>2, FS_AddElement, Zenon
    <3>3. places' <= IF p = o /\ j = i THEN places + 1 ELSE places
      BY <1>2, <3>1, <3>2
    <3>4. places' \in Nat
      BY <1>2, <3>1, FS_AddElement, FS_CardinalityType
    <3>5. aside' = aside
      BY <2>2 DEF PushRegistered, Aside, Holds
    <3>. QED
      BY <1>1, <1>2, <2>1, <3>3, <3>4, <3>5
  <2>3. CASE PushUnregistered(o, Frag(o, i))
    <3>1. places' = places
      BY <2>3 DEF PushUnregistered, Places, Holds
    <3>2. aside' <= IF p = o /\ j = i THEN aside + 1 ELSE aside
      BY <2>3, AsidePush
    <3>3. aside' \in {0, 1}
      OBVIOUS
    <3>. QED
      BY <1>1, <1>2, <2>1, <3>1, <3>2, <3>3
  <2>. QED
    BY <1>5, <2>2, <2>3 DEF Push
<1>6. ASSUME NEW l \in Locations, NEW tid \in Tids, Buffer(l, tid)
      PROVE  handed'[p] + places' + aside' <= arrived'[p][j]
  <2>1. arrived' = arrived /\ aside' = aside
    BY <1>6 DEF Buffer, Aside, Holds
  <2>2. CASE TypesOf[p] = LocTypes[l] /\ TidOf[p] = tid
    <3>1. /\ l \in Places(p, j) /\ Places(p, j)' = Places(p, j) \ {l}
          /\ handed'[p] = handed[p] + 1
      BY <1>6, <2>2, PlacesBuffer
    <3>2. places' = places - 1
      BY <1>2, <3>1, FS_RemoveElement, ZenonT(30)
    <3>. QED
      BY <1>1, <1>2, <2>1, <3>1, <3>2
  <2>3. CASE ~ (TypesOf[p] = LocTypes[l] /\ TidOf[p] = tid)
    <3>1. Places(p, j)' = Places(p, j) /\ handed'[p] = handed[p]
      BY <1>6, <2>3, PlacesBuffer
    <3>. QED
      BY <1>1, <2>1, <3>1
  <2>. QED
    BY <2>2, <2>3
<1>. QED
  BY <1>3, <1>4, <1>5, <1>6, <1>1 DEF Next

\* An object is never handed over more often than its rarest fragment arrived,
\* the copies still kept included (RBuffer.Push, the delete of RBuffer.Buffer).
THEOREM NeverInventedCorrect == Spec => []NeverInvented
<1>1. Init => NeverInvented
  <2>. SUFFICES ASSUME Init, NEW o \in Objects, NEW i \in 1 .. N(o)
                PROVE  handed[o] + Cardinality(Places(o, i)) + (IF Aside(o, i) THEN 1 ELSE 0)
                         <= arrived[o][i]
    BY DEF NeverInvented
  <2>1. Places(o, i) = {} /\ ~ Aside(o, i)
    BY DEF Init, Places, Aside, Holds, EmptyMap
  <2>2. Cardinality(Places(o, i)) = 0
    BY <2>1, FS_EmptySet
  <2>. QED
    BY <2>1, <2>2 DEF Init
<1>. QED
  BY <1>1, TypeCorrect, NeverInventedStep, PTL DEF Spec

LEMMA NeverDroppedStep == TypeOK /\ NeverDropped /\ [Next]_vars => NeverDropped'
<1>. SUFFICES ASSUME TypeOK, NeverDropped, [Next]_vars,
                     NEW p \in Objects, NEW j \in 1 .. N(p), arrived'[p][j] > 0
              PROVE  handed'[p] > 0 \/ Places(p, j)' # {} \/ Aside(p, j)'
  BY DEF NeverDropped
<1>1. arrived[p][j] > 0 => handed[p] > 0 \/ Places(p, j) # {} \/ Aside(p, j)
  BY DEF NeverDropped
<1>2. handed[p] \in Nat
  BY DEF TypeOK, CountsOK
<1>3. CASE UNCHANGED vars
  BY <1>1, <1>3 DEF vars, Places, Aside, Holds
<1>4. ASSUME NEW l \in Locations, Register(l)
      PROVE  handed'[p] > 0 \/ Places(p, j)' # {} \/ Aside(p, j)'
  BY <1>1, <1>4 DEF Register, Places, Aside, Holds
<1>5. ASSUME NEW o \in Objects, NEW i \in 1 .. N(o), Push(o, i)
      PROVE  handed'[p] > 0 \/ Places(p, j)' # {} \/ Aside(p, j)'
  <2>1. /\ handed' = handed
        /\ ~ (p = o /\ j = i) => arrived'[p][j] = arrived[p][j]
    <3>1. arrived' = [arrived EXCEPT ![o] = [arrived[o] EXCEPT ![i] = arrived[o][i] + 1]]
      BY <1>5 DEF Push
    <3>2. DOMAIN arrived = Objects /\ DOMAIN arrived[o] = 1 .. N(o)
      BY DEF TypeOK, CountsOK
    <3>. QED
      BY <1>5, <3>1, <3>2 DEF Push
  <2>2. CASE PushRegistered(o, Frag(o, i))
    <3>1. PICK l \in Locations :
            Places(p, j)' = IF p = o /\ j = i THEN Places(p, j) \cup {l} ELSE Places(p, j)
      BY <2>2, PlacesPush
    <3>2. Aside(p, j)' <=> Aside(p, j)
      BY <2>2 DEF PushRegistered, Aside, Holds
    <3>. QED
      BY <1>1, <2>1, <3>1, <3>2
  <2>3. CASE PushUnregistered(o, Frag(o, i))
    <3>1. Places(p, j)' = Places(p, j)
      BY <2>3 DEF PushUnregistered, Places, Holds
    <3>2. Aside(p, j)' <=> Aside(p, j) \/ (p = o /\ j = i)
      BY <2>3, AsidePush
    <3>. QED
      BY <1>1, <2>1, <3>1, <3>2
  <2>. QED
    BY <1>5, <2>2, <2>3 DEF Push
<1>6. ASSUME NEW l \in Locations, NEW tid \in Tids, Buffer(l, tid)
      PROVE  handed'[p] > 0 \/ Places(p, j)' # {} \/ Aside(p, j)'
  <2>1. arrived' = arrived /\ (Aside(p, j)' <=> Aside(p, j))
    BY <1>6 DEF Buffer, Aside, Holds
  <2>2. handed'[p] = handed[p] + 1 \/ (handed'[p] = handed[p] /\ Places(p, j)' = Places(p, j))
    BY <1>6, PlacesBuffer
  <2>. QED
    BY <1>1, <1>2, <2>1, <2>2
<1>. QED
  BY <1>3, <1>4, <1>5, <1>6 DEF Next

\* A fragment that arrived is kept until its object has been handed over
\* (RBuffer.Push files into the existing entry).
THEOREM NeverDroppedCorrect == Spec => []NeverDropped
<1>1. Init => NeverDropped
  BY DEF Init, NeverDropped
<1>. QED
  BY <1>1, TypeCorrect, NeverDroppedStep, PTL DEF Spec

-----------------------------------------------------------------------------
(* What Wanted tells about the entries of results. *)

\* In every reachable state Wanted is 0 for a complete entry and names the
\* least missing fragment of an incomplete one (Buffer.Wanted).
THEOREM WantedIsFirstMissingCorrect == Spec => []WantedIsFirstMissing
<1>1. WantedIsFirstMissing
  <2>. SUFFICES ASSUME NEW key \in DOMAIN results, NEW o \in Objects, BufferOf(results[key], o)
                PROVE  LET missing == {i \in 1 .. N(o) : i - 1 \notin DOMAIN results[key].frags}
                       IN  IF missing = {} THEN Wanted(results[key]) = 0
                           ELSE /\ Wanted(results[key]) \in missing
                                /\ \A i \in missing : Wanted(results[key]) <= i
    BY DEF WantedIsFirstMissing
  <2>1. N(o) \in Nat \ {0} /\ Numbered(results[key], N(o))
    BY OwnIsNumbered
  <2>. QED
    BY <2>1, WantedCorrect
<1>. QED
  BY <1>1, PTL

LEMMA ReadyFromKept == TypeOK /\ NeverDropped => ArrivedIsReady
<1>. SUFFICES ASSUME TypeOK, NeverDropped, NEW o \in Objects,
                     \A i \in 1 .. N(o) : arrived[o][i] > 0 /\ ~Aside(o, i),
                     \A l, m \in Locations : LocTypes[l] = TypesOf[o] /\ LocTypes[m] = TypesOf[o] => l = m,
                     ~ (handed[o] > 0)
              PROVE  \E l \in Locations : /\ <<l, TidOf[o]>> \in DOMAIN results
                                         /\ Wanted(results[<<l, TidOf[o]>>]) = 0
  BY DEF ArrivedIsReady
<1>1. \A i \in 1 .. N(o) : \E l \in Locations : Holds(results, <<l, TidOf[o]>>, o, i)
  BY DEF NeverDropped, Places
<1>2. N(o) \in Nat \ {0} /\ 1 \in 1 .. N(o)
  BY ObjectsAssumption DEF N
\* An entry that keeps a fragment of o is filed under the class of its type.
<1>3. ASSUME NEW i \in 1 .. N(o), NEW l \in Locations, Holds(results, <<l, TidOf[o]>>, o, i)
      PROVE  LocTypes[l] = TypesOf[o] /\ BufferOf(results[<<l, TidOf[o]>>], o)
  <2>. DEFINE buf == results[<<l, TidOf[o]>>]
  <2>1. PICK p \in Objects : TypesOf[p] = LocTypes[l] /\ TidOf[p] = TidOf[o] /\ BufferOf(buf, p)
    BY <1>3 DEF TypeOK, ResultsOK, Holds
  <2>2. Frag(o, i) = Frag(p, (i - 1) + 1)
    BY <1>3, <2>1 DEF Holds, BufferOf
  <2>3. TypesOf[o] = TypesOf[p]
    BY <2>2 DEF Frag
  <2>. QED
    BY <2>1, <2>3, TidAssumption
<1>4. PICK l \in Locations : Holds(results, <<l, TidOf[o]>>, o, 1)
  BY <1>1, <1>2
<1>. DEFINE buf == results[<<l, TidOf[o]>>]
<1>5. \A i \in 1 .. N(o) : i - 1 \in DOMAIN buf.frags
  <2>. SUFFICES ASSUME NEW i \in 1 .. N(o) PROVE i - 1 \in DOMAIN buf.frags
    OBVIOUS
  <2>1. PICK m \in Locations : Holds(results, <<m, TidOf[o]>>, o, i)
    BY <1>1
  <2>2. m = l
    BY <1>2, <1>3, <1>4, <2>1
  <2>. QED
    BY <2>1, <2>2 DEF Holds
<1>6. BufferOf(buf, o) /\ <<l, TidOf[o]>> \in DOMAIN results
  BY <1>2, <1>3, <1>4 DEF Holds
<1>7. Wanted(buf) = 0
  <2>1. Numbered(buf, N(o))
    BY <1>6, OwnIsNumbered
  <2>2. {i \in 1 .. N(o) : i - 1 \notin DOMAIN buf.frags} = {}
    BY <1>5
  <2>. QED
    BY <1>2, <2>1, <2>2, WantedCorrect
<1>. QED
  BY <1>6, <1>7

\* Once all fragments of an object of a registered, unshared type arrived, the
\* Buffer call of its class finds the object (RBuffer.Push, RBuffer.Buffer).
THEOREM ArrivedIsReadyCorrect == Spec => []ArrivedIsReady
BY TypeCorrect, NeverDroppedCorrect, ReadyFromKept, PTL

-----------------------------------------------------------------------------
(* The bytes that fragments hold: MapThenSumSet takes the elements of a set *)
(* in an order of its own, and the sum does not depend on it.               *)

HeldBytes(h, S) == MapThenSumSet(LAMBDA k : h[k].len, S)

Choice(S) == CHOOSE x \in S : TRUE

\* g adds up the lengths of any part of S.
AddsUp(g, h, S) ==
  g = [s \in SUBSET S |->
         IF s = {} THEN 0 ELSE h[Choice(s)].len + g[s \ {Choice(s)}]]

LEMMA ChoiceIn ==
  ASSUME NEW s, s # {}
  PROVE  Choice(s) \in s
  BY DEF Choice

\* What holds of a part of a finite set when it does of all smaller ones.
LEMMA PartInduction ==
  ASSUME NEW S, IsFiniteSet(S), NEW P,
         \A s \in SUBSET S : (\A t \in SUBSET s : t # s => t \in P) => s \in P
  PROVE  \A s \in SUBSET S : s \in P
<1>. DEFINE Sizes == {Cardinality(s) : s \in (SUBSET S) \ P}
<1>1. \A s \in SUBSET S : IsFiniteSet(s) /\ Cardinality(s) \in Nat
  BY FS_Subset, FS_CardinalityType
<1>. SUFFICES ASSUME (SUBSET S) \ P # {} PROVE FALSE
  OBVIOUS
<1>2. Sizes \in SUBSET Nat /\ Sizes # {}
  BY <1>1
<1>3. PICK m \in Sizes : \A k \in Sizes : m <= k
  <2>. HIDE DEF Sizes
  <2>. QED
    BY <1>2, LeastElement
<1>4. PICK s \in (SUBSET S) \ P : m = Cardinality(s)
  BY <1>3
<1>5. ASSUME NEW t \in SUBSET s, t # s PROVE t \in P
  <2>1. Cardinality(t) <= Cardinality(s) /\ Cardinality(t) # Cardinality(s)
    BY <1>1, <1>5, FS_Subset
  <2>2. t \in SUBSET S /\ Cardinality(t) \in Nat /\ Cardinality(s) \in Nat
    BY <1>1
  <2>3. t \notin P => Cardinality(t) \in Sizes
    BY <2>2
  <2>. QED
    BY <1>3, <1>4, <2>1, <2>2, <2>3
<1>. QED
  BY <1>5

\* Equal lengths have equal sums.
LEMMA AddsUpOnce ==
  ASSUME NEW A, IsFiniteSet(A), NEW B, A \subseteq B,
         NEW g, NEW h, AddsUp(g, h, A), NEW gg, NEW hh, AddsUp(gg, hh, B),
         \A k \in A : h[k].len = hh[k].len
  PROVE  \A s \in SUBSET A : g[s] = gg[s]
<1>. DEFINE P == {s \in SUBSET A : g[s] = gg[s]}
<1>1. ASSUME NEW s \in SUBSET A, \A t \in SUBSET s : t # s => t \in P PROVE s \in P
  <2>1. /\ g[s] = IF s = {} THEN 0 ELSE h[Choice(s)].len + g[s \ {Choice(s)}]
        /\ gg[s] = IF s = {} THEN 0 ELSE hh[Choice(s)].len + gg[s \ {Choice(s)}]
    BY DEF AddsUp
  <2>2. CASE s = {}
    BY <2>1, <2>2
  <2>3. CASE s # {}
    <3>1. Choice(s) \in s
      BY <2>3, ChoiceIn
    <3>2. s \ {Choice(s)} \in P /\ h[Choice(s)].len = hh[Choice(s)].len
      BY <1>1, <3>1
    <3>. QED
      BY <2>1, <2>3, <3>2
  <2>. QED
    BY <2>2, <2>3
<1>. HIDE DEF P
<1>2. \A s \in SUBSET A : s \in P
  BY <1>1, PartInduction
<1>. QED
  BY <1>2 DEF P

LEMMA AddsUpExists ==
  ASSUME NEW S, IsFiniteSet(S), NEW h
  PROVE  \E g : AddsUp(g, h, S)
<1>. DEFINE P == {s \in SUBSET S : \E g : AddsUp(g, h, s)}
<1>1. ASSUME NEW s \in SUBSET S, \A t \in SUBSET s : t # s => t \in P PROVE s \in P
  <2>. DEFINE G(t) == CHOOSE g : AddsUp(g, h, t)
              Sum(t) == IF t = {} THEN 0 ELSE h[Choice(t)].len + G(t \ {Choice(t)})[t \ {Choice(t)}]
              g == [t \in SUBSET s |-> Sum(t)]
  <2>1. ASSUME NEW t \in SUBSET s, t # {}
        PROVE  G(t \ {Choice(t)})[t \ {Choice(t)}] = g[t \ {Choice(t)}]
    <3>. DEFINE r == t \ {Choice(t)}
    <3>1. r \in SUBSET s /\ r # s
      BY <2>1, ChoiceIn
    <3>2. AddsUp(G(r), h, r)
      BY <1>1, <3>1
    <3>3. G(r)[r] = IF r = {} THEN 0 ELSE h[Choice(r)].len + G(r)[r \ {Choice(r)}]
      <4>. HIDE DEF r, G
      <4>. QED
        BY <3>2 DEF AddsUp
    <3>4. CASE r = {}
      <4>1. G(r)[r] = 0
        BY <3>3, <3>4
      <4>2. g[r] = 0
        <5>. HIDE DEF r, G
        <5>. QED
          BY <3>1, <3>4
      <4>. QED
        BY <4>1, <4>2
    <3>5. CASE r # {}
      <4>. DEFINE q == r \ {Choice(r)}
      <4>1. q \in SUBSET s /\ q # s /\ q \in SUBSET r /\ q # r
        BY <3>1, <3>5, ChoiceIn
      <4>2. AddsUp(G(q), h, q)
        BY <1>1, <4>1
      <4>3. IsFiniteSet(q)
        BY <4>1, FS_Subset
      <4>. HIDE DEF G
      <4>4. G(q)[q] = G(r)[q]
        <5>. HIDE DEF q, r
        <5>. QED
          BY <3>2, <4>1, <4>2, <4>3, AddsUpOnce
      <4>5. g[r] = h[Choice(r)].len + G(q)[q]
        <5>. HIDE DEF r
        <5>. QED
          BY <3>1, <3>5
      <4>. QED
        BY <3>3, <3>5, <4>4, <4>5
    <3>. QED
      BY <3>4, <3>5
  <2>2. ASSUME NEW t \in SUBSET s
        PROVE  g[t] = IF t = {} THEN 0 ELSE h[Choice(t)].len + g[t \ {Choice(t)}]
    <3>. HIDE DEF G
    <3>1. g[t] = IF t = {} THEN 0
                 ELSE h[Choice(t)].len + G(t \ {Choice(t)})[t \ {Choice(t)}]
      OBVIOUS
    <3>. HIDE DEF g
    <3>. QED
      BY <2>1, <3>1
  <2>3. AddsUp(g, h, s)
    <3>1. g = [t \in SUBSET s |-> g[t]]
      OBVIOUS
    <3>. HIDE DEF g
    <3>. QED
      BY <2>2, <3>1, Zenon DEF AddsUp
  <2>. QED
    BY <2>3
<1>. HIDE DEF P
<1>2. S \in P
  BY <1>1, PartInduction
<1>. QED
  BY <1>2 DEF P

LEMMA HeldBytesAddsUp ==
  ASSUME NEW S, IsFiniteSet(S), NEW h
  PROVE  \E g : AddsUp(g, h, S) /\ HeldBytes(h, S) = g[S]
<1>. DEFINE g == CHOOSE g : g = [s \in SUBSET S |->
                   IF s = {} THEN 0 ELSE h[Choice(s)].len + g[s \ {Choice(s)}]]
<1>1. HeldBytes(h, S) = g[S]
  BY Zenon DEF HeldBytes, MapThenSumSet, MapThenFoldSet, Choice
<1>2. AddsUp(g, h, S)
  <2>1. \E x : AddsUp(x, h, S)
    BY AddsUpExists
  <2>. QED
    BY <2>1, Zenon DEF AddsUp
<1>. QED
  BY <1>1, <1>2

\* The sum is that of any element and the rest.
LEMMA HeldBytesAny ==
  ASSUME NEW S, IsFiniteSet(S), NEW h, \A k \in S : h[k].len \in Nat
  PROVE  /\ HeldBytes(h, S) \in Nat
         /\ S = {} => HeldBytes(h, S) = 0
         /\ \A x \in S : HeldBytes(h, S) = h[x].len + HeldBytes(h, S \ {x})
<1>1. PICK g : AddsUp(g, h, S) /\ HeldBytes(h, S) = g[S]
  BY HeldBytesAddsUp
<1>2. \A s \in SUBSET S : g[s] = IF s = {} THEN 0 ELSE h[Choice(s)].len + g[s \ {Choice(s)}]
  BY <1>1 DEF AddsUp
<1>. DEFINE P == {s \in SUBSET S : g[s] \in Nat /\ \A x \in s : g[s] = h[x].len + g[s \ {x}]}
<1>3. ASSUME NEW s \in SUBSET S, \A t \in SUBSET s : t # s => t \in P PROVE s \in P
  <2>1. CASE s = {}
    <3>1. g[s] = 0
      BY <1>2, <2>1
    <3>. QED
      BY <2>1, <3>1
  <2>2. CASE s # {}
    <3>. DEFINE c == Choice(s)
    <3>1. c \in s
      BY <2>2, ChoiceIn
    <3>2. g[s] = h[c].len + g[s \ {c}]
      BY <1>2, <2>2
    <3>. HIDE DEF c
    <3>3. g[s \ {c}] \in Nat /\ h[c].len \in Nat /\ s \ {c} \in P
      BY <1>3, <3>1
    <3>4. ASSUME NEW x \in s, x # c PROVE g[s] = h[x].len + g[s \ {x}]
      <4>1. /\ x \in s \ {c} /\ c \in s \ {x} /\ (s \ {c}) \ {x} = (s \ {x}) \ {c}
            /\ s \ {x} \in SUBSET s /\ s \ {x} # s
        BY <3>1, <3>4
      <4>2. g[s \ {c}] = h[x].len + g[(s \ {c}) \ {x}]
        BY <3>3, <4>1
      <4>3. g[s \ {x}] = h[c].len + g[(s \ {x}) \ {c}] /\ g[s \ {x}] \in Nat
        <5>1. s \ {x} \in P
          BY <1>3, <4>1
        <5>. QED
          BY <4>1, <5>1
      <4>4. g[(s \ {x}) \ {c}] \in Nat /\ h[x].len \in Nat
        <5>1. (s \ {x}) \ {c} \in SUBSET s /\ (s \ {x}) \ {c} # s
          BY <3>1
        <5>. QED
          BY <1>3, <5>1
      <4>. DEFINE z == g[(s \ {x}) \ {c}]
                  a == h[c].len
                  b == h[x].len
      <4>5. /\ z \in Nat /\ a \in Nat /\ b \in Nat
            /\ g[s] = a + (b + z) /\ g[s \ {x}] = a + z
        BY <3>2, <3>3, <4>1, <4>2, <4>3, <4>4
      <4>. HIDE DEF z, a
      <4>6. g[s] = b + g[s \ {x}]
        <5>. HIDE DEF b
        <5>. QED
          BY <4>5
      <4>. QED
        BY <4>6
    <3>5. g[s] \in Nat
      BY <3>2, <3>3
    <3>6. \A x \in s : g[s] = h[x].len + g[s \ {x}]
      BY <3>2, <3>4
    <3>. QED
      BY <3>5, <3>6
  <2>. QED
    BY <2>1, <2>2
<1>. HIDE DEF P
<1>4. S \in P
  BY <1>3, PartInduction
<1>5. ASSUME NEW x \in S PROVE HeldBytes(h, S \ {x}) = g[S \ {x}]
  <2>. DEFINE R == S \ {x}
  <2>1. R \in SUBSET S /\ IsFiniteSet(R)
    BY FS_Subset
  <2>. HIDE DEF R
  <2>2. PICK r : AddsUp(r, h, R) /\ HeldBytes(h, R) = r[R]
    BY <2>1, HeldBytesAddsUp
  <2>3. r[R] = g[R]
    BY <1>1, <2>1, <2>2, AddsUpOnce
  <2>. QED
    BY <2>2, <2>3 DEF R
<1>. QED
  BY <1>1, <1>2, <1>4, <1>5 DEF P

\* The sum is that of the lengths, wherever they are taken from.
LEMMA HeldBytesAgree ==
  ASSUME NEW S, IsFiniteSet(S), NEW h, NEW hh, \A k \in S : h[k].len = hh[k].len
  PROVE  HeldBytes(h, S) = HeldBytes(hh, S)
<1>1. PICK g : AddsUp(g, h, S) /\ HeldBytes(h, S) = g[S]
  BY HeldBytesAddsUp
<1>2. PICK gg : AddsUp(gg, hh, S) /\ HeldBytes(hh, S) = gg[S]
  BY HeldBytesAddsUp
<1>. QED
  BY <1>1, <1>2, AddsUpOnce

-----------------------------------------------------------------------------
(* Size counts the bytes that are held. *)

\* One Buffer of an object counts right, and still does after a Push.
Counts(buf) == buf.size = HeldBytes(buf.frags, DOMAIN buf.frags)

LEMMA LengthsOf ==
  ASSUME NEW o \in Objects, NEW buf, BufferOf(buf, o)
  PROVE  IsFiniteSet(DOMAIN buf.frags) /\ \A k \in DOMAIN buf.frags : buf.frags[k].len \in Nat
<1>1. N(o) \in Nat \ {0}
  BY ObjectsAssumption DEF N
<1>2. IsFiniteSet(0 .. N(o) - 1) /\ DOMAIN buf.frags \in SUBSET (0 .. N(o) - 1)
  BY <1>1, FS_Interval DEF BufferOf
<1>3. ASSUME NEW k \in DOMAIN buf.frags PROVE buf.frags[k].len \in Nat
  <2>1. k \in 0 .. N(o) - 1 /\ k + 1 \in 1 .. N(o) /\ buf.frags[k] = Frag(o, k + 1)
    BY <1>1 DEF BufferOf
  <2>. QED
    BY <2>1, FragFacts
<1>. QED
  BY <1>2, <1>3, FS_Subset

LEMMA EmptyCounts == Counts(EmptyBuffer)
<1>1. /\ DOMAIN EmptyBuffer.frags = {} /\ EmptyBuffer.size = 0
      /\ IsFiniteSet({})
  BY FS_EmptySet DEF EmptyBuffer, EmptyMap
<1>. QED
  BY <1>1, HeldBytesAny DEF Counts

LEMMA PushedCounts ==
  ASSUME NEW o \in Objects, NEW i \in 1 .. N(o), NEW buf,
         buf = EmptyBuffer \/ BufferOf(buf, o), Counts(buf)
  PROVE  Counts(Pushed(buf, Frag(o, i)))
<1>. DEFINE f == Frag(o, i)
            new == Pushed(buf, f)
            slot == i - 1
            D == DOMAIN buf.frags
            E == DOMAIN new.frags
<1>1. /\ BufferOf(new, o) /\ PushError(buf, f) = "nil"
      /\ E = D \cup {slot} /\ new.frags[slot] = f
      /\ \A k \in D : k # slot => new.frags[k] = buf.frags[k]
  BY PushedOwn
<1>2. /\ f.len \in Nat /\ Number(f.fid) - 1 = slot /\ buf.size \in Int
      /\ IsFiniteSet(D) /\ \A k \in D : buf.frags[k].len \in Nat
  <2>1. CASE buf = EmptyBuffer
    BY <2>1, FragFacts, FS_EmptySet DEF EmptyBuffer, EmptyMap
  <2>2. CASE BufferOf(buf, o)
    <3>1. buf.size \in Int
      BY <2>2 DEF BufferOf
    <3>. QED
      BY <2>2, <3>1, FragFacts, LengthsOf
  <2>. QED
    BY <2>1, <2>2
<1>3. new.size = buf.size - (IF slot \in D THEN buf.frags[slot].len ELSE 0) + f.len
  <2>1. CASE buf = EmptyBuffer
    BY <1>1, <1>2, <2>1 DEF Pushed, Stored, Opened, EmptyBuffer, EmptyMap
  <2>2. CASE BufferOf(buf, o)
    <3>1. Opened(buf, f) = buf
      BY <2>2, FragFacts, NoSchemaAssumption DEF Opened, BufferOf
    <3>2. DOMAIN buf = {"schema", "frags", "size"}
      BY <2>2 DEF BufferOf
    <3>3. new = [buf EXCEPT !.frags = Put(buf.frags, slot, f),
                            !.size = buf.size - (IF slot \in D THEN buf.frags[slot].len ELSE 0) + f.len]
      BY <1>1, <1>2, <3>1, Zenon DEF Pushed, Stored
    <3>. HIDE DEF new, f
    <3>. QED
      BY <3>2, <3>3
  <2>. QED
    BY <2>1, <2>2
<1>4. IsFiniteSet(E) /\ \A k \in E : new.frags[k].len \in Nat
  BY <1>1, LengthsOf
<1>. HIDE DEF new, f, D, E, slot
<1>5. HeldBytes(new.frags, E) = f.len + HeldBytes(new.frags, E \ {slot})
  BY <1>1, <1>4, HeldBytesAny
<1>6. HeldBytes(new.frags, E \ {slot}) = HeldBytes(buf.frags, D \ {slot})
  <2>. DEFINE R == D \ {slot}
  <2>1. E \ {slot} = R /\ IsFiniteSet(R)
    BY <1>1, <1>2, FS_Subset
  <2>2. \A k \in R : new.frags[k].len = buf.frags[k].len
    BY <1>1
  <2>. HIDE DEF R
  <2>3. HeldBytes(new.frags, R) = HeldBytes(buf.frags, R)
    BY <2>1, <2>2, HeldBytesAgree
  <2>. QED
    BY <2>1, <2>3 DEF R
<1>7. /\ HeldBytes(buf.frags, D) \in Nat
      /\ slot \in D => HeldBytes(buf.frags, D) = buf.frags[slot].len + HeldBytes(buf.frags, D \ {slot})
  BY <1>2, HeldBytesAny
<1>8. HeldBytes(buf.frags, D \ {slot}) \in Nat
  <2>1. IsFiniteSet(D \ {slot}) /\ \A k \in D \ {slot} : buf.frags[k].len \in Nat
    BY <1>2, FS_Subset
  <2>. QED
    BY <2>1, HeldBytesAny
<1>9. buf.size = HeldBytes(buf.frags, D)
  BY DEF Counts, D
<1>10. new.size = HeldBytes(new.frags, E)
  <2>1. CASE slot \in D
    BY <1>2, <1>3, <1>5, <1>6, <1>7, <1>8, <1>9, <2>1
  <2>2. CASE slot \notin D
    <3>1. HeldBytes(buf.frags, D \ {slot}) = HeldBytes(buf.frags, D)
      <4>1. D \ {slot} = D
        BY <2>2
      <4>. QED
        BY <4>1
    <3>. QED
      BY <1>2, <1>3, <1>5, <1>6, <1>8, <1>9, <2>2, <3>1
  <2>. QED
    BY <2>1, <2>2
<1>. QED
  BY <1>10 DEF Counts, new, E, f

AllCount == \A key \in DOMAIN results : Counts(results[key])

LEMMA AllCountStep == TypeOK /\ AllCount /\ [Next]_vars => AllCount'
<1>. SUFFICES ASSUME TypeOK, AllCount, [Next]_vars PROVE AllCount'
  OBVIOUS
<1>1. CASE UNCHANGED results
  BY <1>1 DEF AllCount
<1>2. ASSUME NEW o \in Objects, NEW i \in 1 .. N(o), Push(o, i) PROVE AllCount'
  <2>1. CASE PushUnregistered(o, Frag(o, i))
    BY <1>1, <2>1 DEF PushUnregistered
  <2>2. CASE PushRegistered(o, Frag(o, i))
    <3>. DEFINE key == <<registered[TypesOf[o]], TidOf[o]>>
                old == Entry(results, key)
                new == Pushed(old, Frag(o, i))
    <3>1. (old = EmptyBuffer \/ BufferOf(old, o)) /\ results' = Put(results, key, new)
      BY <2>2, RegisteredPush
    <3>2. Counts(old)
      BY EmptyCounts DEF AllCount, Entry
    <3>3. Counts(new)
      BY <3>1, <3>2, PushedCounts
    <3>. HIDE DEF key, new
    <3>. QED
      BY <3>1, <3>3 DEF AllCount, Put
  <2>. QED
    BY <1>2, <2>1, <2>2 DEF Push
<1>3. ASSUME NEW l \in Locations, NEW tid \in Tids, Buffer(l, tid) PROVE AllCount'
  BY <1>3 DEF Buffer, Delete, AllCount
<1>. QED
  BY <1>1, <1>2, <1>3 DEF Next, Register, vars

(***************************************************************************)
(* Size is the number of payload bytes that are held, in whatever order    *)
(* and however often fragments of whatever lengths were pushed             *)
(* (Buffer.Push, the subtraction on a repeated push).                      *)
(***************************************************************************)
THEOREM SizeCorrect == Spec => []SizeIsHeldBytes
<1>1. Init => AllCount
  BY DEF Init, EmptyMap, AllCount
<1>2. AllCount => SizeIsHeldBytes
  BY Zenon DEF AllCount, Counts, HeldBytes, SizeIsHeldBytes
<1>. QED
  BY <1>1, <1>2, TypeCorrect, AllCountStep, PTL DEF Spec

-----------------------------------------------------------------------------
(* The loop of ExtractReader. *)

\* The loop: read only when it is not yet time to return and nothing is left to
\* push; got says that a Buffer is ready; and it is time to return only when
\* something was got or the stream has given an error.
LoopOK ==
  /\ queue \in Seq(AllFragments)
  /\ mode \in {"idle", "reading", "draining"}
  /\ mode # "draining" => queue = <<>>
  /\ mode = "reading" => ~exit
  /\ mode # "idle" /\ got => Ready # {}
  /\ mode = "draining" /\ exit => got \/ err # "nil"
  /\ NilMeansReady

LEMMA ChunkIsSequence ==
  ASSUME NEW fragments \in Arriving
  PROVE  fragments \in Seq(AllFragments)
  BY MaxFramesAssumption DEF Arriving

LEMMA FragmentOf ==
  ASSUME queue \in Seq(AllFragments), queue # <<>>
  PROVE  /\ Tail(queue) \in Seq(AllFragments)
         /\ Head(queue)[1] \in Objects /\ Head(queue)[2] \in 1 .. N(Head(queue)[1])
<1>1. Head(queue) \in AllFragments /\ Tail(queue) \in Seq(AllFragments)
  OBVIOUS
<1>2. PICK o \in Objects : Head(queue) \in {o} \X (1 .. N(o))
  BY <1>1 DEF AllFragments
<1>. QED
  BY <1>1, <1>2

-----------------------------------------------------------------------------
(* What is ready. *)

\* A complete Buffer is still complete after a late copy of one of its fragments.
LEMMA CompleteStays ==
  ASSUME NEW o \in Objects, NEW i \in 1 .. N(o), NEW buf, BufferOf(buf, o), Wanted(buf) = 0
  PROVE  Wanted(Pushed(buf, Frag(o, i))) = 0
<1>. DEFINE new == Pushed(buf, Frag(o, i))
<1>1. BufferOf(new, o) /\ DOMAIN new.frags = DOMAIN buf.frags \cup {i - 1}
  BY PushedOwn
<1>2. DOMAIN buf.frags = 0 .. N(o) - 1
  BY CompleteIsWhole
<1>3. N(o) \in Nat \ {0} /\ Numbered(new, N(o))
  BY <1>1, OwnIsNumbered
<1>4. {j \in 1 .. N(o) : j - 1 \notin DOMAIN new.frags} = {}
  BY <1>1, <1>2, <1>3
<1>. QED
  BY <1>3, <1>4, WantedCorrect

\* The classes and TIDs of which the application could fetch a Buffer, at a push.
LEMMA PushKeepsReady ==
  ASSUME TypeOK, NEW o \in Objects, NEW i \in 1 .. N(o), Push(o, i)
  PROVE  /\ Ready \subseteq Ready'
         /\ answer'.err = "nil" => Ready' # {}
<1>1. CASE PushUnregistered(o, Frag(o, i))
  BY <1>1 DEF PushUnregistered, Ready
<1>2. CASE PushRegistered(o, Frag(o, i))
  <2>. DEFINE key == <<registered[TypesOf[o]], TidOf[o]>>
              old == Entry(results, key)
              new == Pushed(old, Frag(o, i))
  <2>1. /\ old = EmptyBuffer \/ BufferOf(old, o)
        /\ results' = Put(results, key, new)
    BY <1>2, RegisteredPush
  <2>2. answer'.err = "nil" => Wanted(new) = 0
    <3>1. Frag(o, i).types = TypesOf[o] /\ Frag(o, i).tid = TidOf[o]
      BY FragFacts
    <3>2. answer'.err = IF PushError(old, Frag(o, i)) # "nil" THEN PushError(old, Frag(o, i))
                        ELSE IF Wanted(new) # 0 THEN "InSufficientData" ELSE "nil"
      BY <1>2, <3>1 DEF PushRegistered
    <3>. QED
      BY <3>2
  <2>3. key \in DOMAIN results /\ Wanted(results[key]) = 0 => Wanted(new) = 0
    <3>1. SUFFICES ASSUME key \in DOMAIN results, Wanted(results[key]) = 0
                   PROVE  Wanted(new) = 0
      OBVIOUS
    <3>2. old = results[key]
      BY <3>1 DEF Entry
    <3>3. BufferOf(old, o)
      <4>1. PICK p \in Objects : /\ TypesOf[p] = LocTypes[key[1]] /\ TidOf[p] = key[2]
                                 /\ BufferOf(results[key], p)
        BY <3>1 DEF TypeOK, ResultsOK
      <4>2. LocTypes[registered[TypesOf[o]]] = TypesOf[o]
        BY <1>2, RegisteredPush
      <4>3. p = o
        BY <4>1, <4>2, TidAssumption
      <4>. QED
        BY <3>2, <4>1, <4>3
    <3>. QED
      BY <3>1, <3>2, <3>3, CompleteStays
  <2>. HIDE DEF new, old, key
  <2>4. /\ DOMAIN results' = DOMAIN results \cup {key} /\ results'[key] = new
        /\ \A k \in DOMAIN results : k # key => results'[k] = results[k]
    BY <2>1 DEF Put
  <2>5. Ready \subseteq Ready'
    BY <2>3, <2>4 DEF Ready
  <2>. QED
    BY <2>2, <2>4, <2>5 DEF Ready
<1>. QED
  BY <1>1, <1>2 DEF Push

\* At any step of the tables: what was ready still is, unless it is handed over.
LEMMA StepKeepsReady ==
  ASSUME TypeOK, [Next]_vars, NEW key \in Ready
  PROVE  key \in Ready' \/ returned' = [loc |-> key[1], buf |-> results[key]]
<1>1. CASE UNCHANGED results
  BY <1>1 DEF Ready
<1>2. ASSUME NEW o \in Objects, NEW i \in 1 .. N(o), Push(o, i) PROVE key \in Ready'
  BY <1>2, PushKeepsReady
<1>3. ASSUME NEW l \in Locations, NEW tid \in Tids, Buffer(l, tid)
      PROVE  key \in Ready' \/ returned' = [loc |-> key[1], buf |-> results[key]]
  <2>1. CASE key = <<l, tid>>
    BY <1>3, <2>1 DEF Buffer
  <2>2. CASE key # <<l, tid>>
    <3>1. key \in DOMAIN results' /\ results'[key] = results[key]
      BY <1>3, <2>2 DEF Buffer, Delete, Ready
    <3>. QED
      BY <3>1 DEF Ready
  <2>. QED
    BY <2>1, <2>2
<1>. QED
  BY <1>1, <1>2, <1>3 DEF Next, Register, vars

-----------------------------------------------------------------------------
(* The loop does to the tables what RBuffer allows. *)

LEMMA LoopStep ==
  ASSUME LoopOK, [ReceiverNext]_allVars
  PROVE  [Next]_vars
<1>1. CASE Call \/ EndDrain \/ UNCHANGED allVars
  BY <1>1 DEF Call, EndDrain, allVars
<1>2. CASE PushNext
  <2>1. queue # <<>> /\ Push(Head(queue)[1], Head(queue)[2])
    BY <1>2 DEF PushNext
  <2>. QED
    BY <2>1, FragmentOf DEF LoopOK, Next
<1>3. ASSUME NEW fragments \in Arriving, ReadChunk(fragments) PROVE [Next]_vars
  BY <1>3 DEF ReadChunk
<1>4. ASSUME NEW e \in EndErrors, ReadNothing(e) PROVE [Next]_vars
  BY <1>4 DEF ReadNothing
<1>5. ASSUME NEW l \in Locations, Setup(l) PROVE [Next]_vars
  BY <1>5 DEF Setup, Next
<1>6. ASSUME NEW l \in Locations, NEW tid \in Tids, Fetch(l, tid) PROVE [Next]_vars
  BY <1>6 DEF Fetch, Next
<1>. QED
  BY <1>1, <1>2, <1>3, <1>4, <1>5, <1>6 DEF ReceiverNext

LEMMA LoopInit == ReceiverInit => TypeOK /\ LoopOK
<1>. SUFFICES ASSUME ReceiverInit PROVE TypeOK /\ LoopOK
  OBVIOUS
<1>1. TypeOK
  BY TypeOKInit DEF ReceiverInit
<1>. QED
  BY <1>1 DEF ReceiverInit, LoopOK, NilMeansReady

\* A Read without bytes always comes with an error (the documentation of
\* io.Reader discourages anything else).
ReadsFailOpenly == "nil" \notin EndErrors

LEMMA LoopNext ==
  ASSUME ReadsFailOpenly, TypeOK, LoopOK, [ReceiverNext]_allVars
  PROVE  LoopOK'
<1>1. CASE UNCHANGED allVars
  BY <1>1 DEF allVars, vars, loopVars, LoopOK, NilMeansReady, Ready
<1>2. CASE Call
  BY <1>2 DEF Call, vars, LoopOK, NilMeansReady, Ready
<1>3. CASE PushNext
  <2>1. /\ mode = "draining" /\ queue # <<>> /\ Push(Head(queue)[1], Head(queue)[2])
        /\ exit' = (answer'.err = "nil") /\ got' = (got \/ exit') /\ queue' = Tail(queue)
        /\ UNCHANGED <<mode, err, result>>
    BY <1>3 DEF PushNext
  <2>2. Tail(queue) \in Seq(AllFragments) /\ Ready \subseteq Ready'
        /\ (answer'.err = "nil" => Ready' # {})
    BY <2>1, FragmentOf, PushKeepsReady DEF LoopOK
  <2>. QED
    BY <2>1, <2>2 DEF LoopOK, NilMeansReady
<1>4. CASE EndDrain
  <2>1. Ready' = Ready
    BY <1>4 DEF EndDrain, vars, Ready
  <2>. QED
    BY <1>4, <2>1 DEF EndDrain, LoopOK, NilMeansReady
<1>5. ASSUME NEW fragments \in Arriving, ReadChunk(fragments) PROVE LoopOK'
  <2>1. Ready' = Ready
    BY <1>5 DEF ReadChunk, vars, Ready
  <2>. QED
    BY <1>5, <2>1, ChunkIsSequence DEF ReadChunk, LoopOK, NilMeansReady
<1>6. ASSUME NEW e \in EndErrors, ReadNothing(e) PROVE LoopOK'
  <2>1. Ready' = Ready
    BY <1>6 DEF ReadNothing, vars, Ready
  <2>. QED
    BY <1>6, <2>1 DEF ReadsFailOpenly, ReadNothing, LoopOK, NilMeansReady
<1>7. ASSUME NEW l \in Locations, Setup(l) PROVE LoopOK'
  <2>1. Ready' = Ready /\ UNCHANGED loopVars
    BY <1>7 DEF Setup, Register, Ready
  <2>. QED
    BY <2>1 DEF loopVars, LoopOK, NilMeansReady
<1>8. ASSUME NEW l \in Locations, NEW tid \in Tids, Fetch(l, tid) PROVE LoopOK'
  BY <1>8 DEF Fetch, LoopOK, NilMeansReady
<1>. QED
  BY <1>1, <1>2, <1>3, <1>4, <1>5, <1>6, <1>7, <1>8 DEF ReceiverNext

\* The state that the loop is in keeps the tables' types.
LEMMA AlwaysLoop == ASSUME ReadsFailOpenly PROVE ReceiverSpec => [](TypeOK /\ LoopOK)
<1>1. TypeOK /\ LoopOK /\ [ReceiverNext]_allVars => (TypeOK /\ LoopOK)'
  BY LoopStep, LoopNext, TypeOKNext
<1>. QED
  BY <1>1, LoopInit, PTL DEF ReceiverSpec

(***************************************************************************)
(* The loop around RBuffer implements RBuffer: whatever chunks come and    *)
(* whenever it returns, pushes to the tables and fetches from them only,   *)
(* so that all that is proved of RBuffer holds of it (ExtractReader).      *)
(***************************************************************************)
THEOREM ReceiverImplementsRBuffer == ASSUME ReadsFailOpenly PROVE ReceiverSpec => Spec
<1>1. ReceiverInit => Init
  BY DEF ReceiverInit
<1>2. LoopOK /\ [ReceiverNext]_allVars => [Next]_vars
  BY LoopStep
<1>. QED
  BY <1>1, <1>2, AlwaysLoop, PTL DEF ReceiverSpec, Spec

(***************************************************************************)
(* When ExtractReader returns nil, a Buffer is ready, for any number of    *)
(* objects and any way their frames are cut into chunks (ExtractReader).   *)
(***************************************************************************)
THEOREM NilIsReady == ASSUME ReadsFailOpenly PROVE ReceiverSpec => []NilMeansReady
<1>1. LoopOK => NilMeansReady
  BY DEF LoopOK
<1>. QED
  BY <1>1, AlwaysLoop, PTL

(***************************************************************************)
(* What is ready stays ready until it is handed out, late copies and       *)
(* registrations notwithstanding (Push, Buffer).                           *)
(***************************************************************************)
THEOREM ReadyStays == ASSUME ReadsFailOpenly PROVE ReceiverSpec => StaysReady
<1>. DEFINE Stays == \A key \in Ready :
                       \/ key \in Ready'
                       \/ returned' = [loc |-> key[1], buf |-> results[key]]
<1>1. TypeOK /\ LoopOK /\ [ReceiverNext]_allVars => [Stays]_allVars
  BY LoopStep, StepKeepsReady
<1>. QED
  BY <1>1, AlwaysLoop, PTL DEF ReceiverSpec, StaysReady

(***************************************************************************)
(* The Buffers that the application gets between the calls are whole       *)
(* objects (ExtractReader, Buffer).                                        *)
(***************************************************************************)
THEOREM ReceivedIsWhole == ASSUME ReadsFailOpenly PROVE ReceiverSpec => []HandedWhole
<1>. QED
  BY ReceiverImplementsRBuffer, HandedWholeCorrect, PTL
-----------------------------------------------------------------------------
(* What is left of a chunk may still come. *)

\* Where fragment x waits in q.
Waiting(q, x) == {k \in DOMAIN q : q[k] = x}

\* Taking the first one off leaves one less of it, and all the others.
LEMMA WaitingTail ==
  ASSUME NEW T, NEW q \in Seq(T), q # <<>>, NEW x
  PROVE  /\ Cardinality(Waiting(q, x)) \in Nat /\ Cardinality(Waiting(Tail(q), x)) \in Nat
         /\ Cardinality(Waiting(q, x)) =
              Cardinality(Waiting(Tail(q), x)) + (IF Head(q) = x THEN 1 ELSE 0)
<1>. DEFINE n == Len(q)
            A == Waiting(q, x)
            B == Waiting(Tail(q), x)
            f == [k \in B |-> k + 1]
<1>1. /\ n \in Nat \ {0} /\ DOMAIN q = 1 .. n /\ DOMAIN Tail(q) = 1 .. n - 1
      /\ Head(q) = q[1] /\ \A k \in 1 .. n - 1 : Tail(q)[k] = q[k + 1]
  OBVIOUS
<1>2. /\ A \in SUBSET (1 .. n) /\ B \in SUBSET (1 .. n - 1)
      /\ \A k \in 1 .. n - 1 : k \in B <=> k + 1 \in A
      /\ 1 \in A <=> Head(q) = x
  BY <1>1 DEF Waiting
<1>. HIDE DEF A, B, n
<1>3. IsFiniteSet(A) /\ Cardinality(A) \in Nat /\ IsFiniteSet(B) /\ Cardinality(B) \in Nat
  <2>1. IsFiniteSet(1 .. n) /\ IsFiniteSet(1 .. n - 1)
    BY <1>1, FS_Interval
  <2>. QED
    BY <1>2, <2>1, FS_Subset, FS_CardinalityType
<1>4. ExistsBijection(B, A \ {1})
  <2>1. f \in [B -> A \ {1}]
    BY <1>1, <1>2
  <2>2. \A j, k \in B : f[j] = f[k] => j = k
    BY <1>1, <1>2
  <2>3. ASSUME NEW k \in A \ {1} PROVE \E j \in B : f[j] = k
    <3>1. k - 1 \in 1 .. n - 1 /\ (k - 1) + 1 = k
      BY <1>1, <1>2
    <3>2. k - 1 \in B
      BY <1>2, <3>1
    <3>. QED
      BY <3>1, <3>2
  <2>. HIDE DEF f
  <2>. QED
    BY <2>1, <2>2, <2>3, Zenon
       DEF ExistsBijection, Bijection, Injection, Surjection, IsInjective
<1>5. Cardinality(A \ {1}) = Cardinality(B)
  BY <1>3, <1>4, FS_Bijection
<1>6. Cardinality(A \ {1}) = IF 1 \in A THEN Cardinality(A) - 1 ELSE Cardinality(A)
  BY <1>3, FS_RemoveElement
<1>. QED
  BY <1>2, <1>3, <1>5, <1>6 DEF A, B

\* ReceiverTypeOK but for the tables and what is ready.
QueueOK == queue \in Arriving /\ MayCome(queue) /\ {got, exit} \subseteq BOOLEAN

LEMMA EmptyMayCome ==
  ASSUME TypeOK
  PROVE  <<>> \in Arriving /\ MayCome(<<>>)
<1>1. <<>> \in Arriving
  <2>1. <<>> \in [1 .. 0 -> AllFragments] /\ 0 \in 0 .. MaxFrames
    BY MaxFramesAssumption
  <2>. QED
    BY <2>1 DEF Arriving
<1>2. ASSUME NEW o \in Objects, NEW i \in 1 .. N(o)
      PROVE  arrived[o][i] + Cardinality({k \in DOMAIN <<>> : <<>>[k] = <<o, i>>}) <= MaxArrivals
  <2>1. {k \in DOMAIN <<>> : <<>>[k] = <<o, i>>} = {}
    OBVIOUS
  <2>2. arrived[o][i] \in 0 .. MaxArrivals
    BY DEF TypeOK, CountsOK
  <2>3. Cardinality({k \in DOMAIN <<>> : <<>>[k] = <<o, i>>}) = 0
    BY <2>1, FS_EmptySet
  <2>. QED
    BY <2>2, <2>3, MaxArrivalsAssumption
<1>. QED
  BY <1>1, <1>2 DEF MayCome

LEMMA PushNextQueue ==
  ASSUME TypeOK, LoopOK, QueueOK, PushNext
  PROVE  QueueOK'
<1>. DEFINE o == Head(queue)[1]
            i == Head(queue)[2]
<1>1. /\ queue # <<>> /\ Push(o, i) /\ queue' = Tail(queue)
      /\ queue \in Seq(AllFragments)
      /\ {got', exit'} \subseteq BOOLEAN
  BY DEF PushNext, LoopOK, QueueOK
<1>2. o \in Objects /\ i \in 1 .. N(o) /\ Head(queue) = <<o, i>>
  <2>1. Head(queue) \in AllFragments
    BY <1>1
  <2>2. PICK p \in Objects : Head(queue) \in {p} \X (1 .. N(p))
    BY <2>1 DEF AllFragments
  <2>. QED
    BY <2>2
<1>3. Tail(queue) \in Arriving
  <2>1. PICK n \in 0 .. MaxFrames : queue \in [1 .. n -> AllFragments]
    BY DEF QueueOK, Arriving
  <2>2. Tail(queue) \in Seq(AllFragments) /\ Len(Tail(queue)) = n - 1 /\ n \in 1 .. MaxFrames
    <3>1. Len(queue) = n /\ n \in Nat
      BY <1>1, <2>1, MaxFramesAssumption
    <3>2. n # 0
      BY <1>1, <3>1
    <3>. QED
      BY <1>1, <2>1, <3>1, <3>2, MaxFramesAssumption
  <2>3. Tail(queue) \in [1 .. n - 1 -> AllFragments] /\ n - 1 \in 0 .. MaxFrames
    <3>. DEFINE t == Tail(queue)
    <3>1. t \in Seq(AllFragments) => t \in [1 .. Len(t) -> AllFragments]
      <4>. HIDE DEF t
      <4>. QED
        OBVIOUS
    <3>2. n - 1 \in 0 .. MaxFrames
      BY <2>2, MaxFramesAssumption
    <3>. QED
      BY <2>2, <3>1, <3>2
  <2>. QED
    BY <2>3 DEF Arriving
<1>. HIDE DEF o, i
<1>4. /\ arrived' = [arrived EXCEPT ![o] = [arrived[o] EXCEPT ![i] = arrived[o][i] + 1]]
      /\ DOMAIN arrived = Objects /\ \A p \in Objects : arrived[p] \in [1 .. N(p) -> 0 .. MaxArrivals]
  BY <1>1 DEF Push, TypeOK, CountsOK
<1>5. ASSUME NEW p \in Objects, NEW j \in 1 .. N(p)
      PROVE  arrived'[p][j] + Cardinality({k \in DOMAIN Tail(queue) : Tail(queue)[k] = <<p, j>>})
               <= MaxArrivals
  <2>. DEFINE x == <<p, j>>
              a == Cardinality(Waiting(queue, x))
              b == Cardinality(Waiting(Tail(queue), x))
  <2>1. a \in Nat /\ b \in Nat /\ a = b + (IF Head(queue) = x THEN 1 ELSE 0)
    BY <1>1, WaitingTail
  <2>2. arrived[p][j] + a <= MaxArrivals /\ arrived[p][j] \in Nat
    <3>1. arrived[p][j] + Cardinality({k \in DOMAIN queue : queue[k] = <<p, j>>}) <= MaxArrivals
      BY DEF QueueOK, MayCome
    <3>2. arrived[p][j] \in 0 .. MaxArrivals
      BY <1>4
    <3>. QED
      BY <3>1, <3>2 DEF Waiting
  <2>. HIDE DEF a
  <2>3. arrived'[p][j] = IF Head(queue) = x THEN arrived[p][j] + 1 ELSE arrived[p][j]
    <3>1. CASE p = o /\ j = i
      BY <1>2, <1>4, <3>1
    <3>2. CASE ~ (p = o /\ j = i)
      <4>1. Head(queue) # x
        BY <1>2, <3>2
      <4>. QED
        BY <1>2, <1>4, <3>2, <4>1
    <3>. QED
      BY <3>1, <3>2
  <2>. HIDE DEF x, b
  <2>4. arrived'[p][j] + b <= MaxArrivals
    BY <2>1, <2>2, <2>3, MaxArrivalsAssumption
  <2>. QED
    BY <2>4 DEF b, x, Waiting
<1>. QED
  BY <1>1, <1>3, <1>5 DEF QueueOK, MayCome

LEMMA QueueNext ==
  ASSUME TypeOK, LoopOK, QueueOK, [ReceiverNext]_allVars
  PROVE  QueueOK'
<1>1. CASE PushNext
  BY <1>1, PushNextQueue
<1>2. ASSUME NEW fragments \in Arriving, MayCome(fragments), ReadChunk(fragments) PROVE QueueOK'
  BY <1>2 DEF ReadChunk, vars, QueueOK, MayCome
<1>3. CASE /\ queue' = queue /\ arrived' = arrived
           /\ got' \in {got, FALSE} /\ exit' \in {exit, FALSE, TRUE}
  BY <1>3 DEF QueueOK, MayCome
<1>4. \/ PushNext
      \/ \E fragments \in Arriving : MayCome(fragments) /\ ReadChunk(fragments)
      \/ /\ queue' = queue /\ arrived' = arrived
         /\ got' \in {got, FALSE} /\ exit' \in {exit, FALSE, TRUE}
  BY DEF ReceiverNext, allVars, vars, loopVars, Call, EndDrain, ReadNothing, Setup, Register,
         Fetch, Buffer
<1>. QED
  BY <1>1, <1>2, <1>3, <1>4

(***************************************************************************)
(* Types of the loop: what it has still to push is the rest of a chunk of  *)
(* fragments, got is never set without a Buffer that is ready, whatever    *)
(* is read and fetched (ExtractReader).                                    *)
(***************************************************************************)
THEOREM ReceiverTypeCorrect == ASSUME ReadsFailOpenly PROVE ReceiverSpec => []ReceiverTypeOK
<1>1. ReceiverInit => QueueOK
  <2>. SUFFICES ASSUME ReceiverInit PROVE QueueOK
    OBVIOUS
  <2>. QED
    BY LoopInit, EmptyMayCome DEF ReceiverInit, QueueOK
<1>2. TypeOK /\ LoopOK /\ QueueOK /\ [ReceiverNext]_allVars => QueueOK'
  BY QueueNext
<1>3. TypeOK /\ LoopOK /\ QueueOK => ReceiverTypeOK
  BY DEF LoopOK, QueueOK, ReceiverTypeOK
<1>. QED
  BY <1>1, <1>2, <1>3, AlwaysLoop, PTL DEF ReceiverSpec
=============================================================================
