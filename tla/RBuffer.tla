------------------------------ MODULE RBuffer ------------------------------
(***************************************************************************)
(* RBuffer.Push and RBuffer.Buffer (src/tssd/rbuffer.go) with the part of  *)
(* the type registry they consult (src/tssd/flat.go): fragments of many    *)
(* objects arrive in any order and any number of times, are grouped into   *)
(* one receiving Buffer per (family, version, TID), and complete Buffers   *)
(* are handed to the application.  Fragments whose type is not registered  *)
(* are kept aside.                                                         *)
(*                                                                         *)
(* The wire is not a variable: every fragment of every object may arrive   *)
(* at any time, up to MaxArrivals times, which covers loss, duplication,   *)
(* reordering and interleaving of senders.                                 *)
(***************************************************************************)
EXTENDS ReceiveBuffer, Sequences, FiniteSetsExt

CONSTANTS Objects,      \* the objects whose fragments may arrive
          TypesOf,      \* the Types hash of each object
          TidOf,        \* the TID of each object
          Lengths,      \* the payload lengths of the fragments of each object
          Locations,    \* registered classes: (family, version) pairs
          LocTypes,     \* the Types hash of each class
          MaxArrivals   \* bound: how often one fragment may arrive

\* FID is an int16, which bounds the number of fragments of an object.
MaxFID == 2^15 - 1

ASSUME ObjectsAssumption ==
  /\ TypesOf \in [Objects -> Types]
  /\ TidOf \in [Objects -> Tids]
  /\ Lengths \in [Objects -> Seq(Nat)]
  /\ \A o \in Objects : Len(Lengths[o]) \in 1 .. MaxFID

\* TIDs are drawn at random (flat.go:153): objects of one type differ in TID.
ASSUME TidAssumption ==
  \A o, p \in Objects : TypesOf[o] = TypesOf[p] /\ TidOf[o] = TidOf[p] => o = p

ASSUME LocationsAssumption ==
  /\ IsFiniteSet(Locations)
  /\ LocTypes \in [Locations -> Types]

ASSUME MaxArrivalsAssumption == MaxArrivals \in Nat

N(o) == Len(Lengths[o])

\* Fragment i of object o, as Marshal numbers it (FID of the last is negative).
Frag(o, i) == [types   |-> TypesOf[o],
               tid     |-> TidOf[o],
               fid     |-> IF i = N(o) THEN -i ELSE i,
               payload |-> <<o, i>>,
               len     |-> Lengths[o][i]]

ObjectSchema(o) == [types |-> TypesOf[o], tid |-> TidOf[o]]

VARIABLES registered,   \* registers.types: Types hash -> class
          results,      \* RBuffer.results: (class, TID) -> Buffer
          unregistered, \* RBuffer.unregistered: (Types, TID) -> Buffer
          answer,       \* the fragment last pushed and the error Push returned
          returned,     \* the Buffer the application was handed last, and where from
          handed,       \* history: how often each object was handed over
          arrived       \* history: how often each fragment of each object arrived

vars == <<registered, results, unregistered, answer, returned, handed, arrived>>

NoAnswer == [obj |-> "none", err |-> "nil"]
NoneReturned == [loc |-> "none", buf |-> EmptyBuffer]

Init ==
  /\ registered = EmptyMap
  /\ results = EmptyMap
  /\ unregistered = EmptyMap
  /\ answer = NoAnswer
  /\ returned = NoneReturned
  /\ handed = [o \in Objects |-> 0]
  /\ arrived = [o \in Objects |-> [i \in 1 .. N(o) |-> 0]]

-----------------------------------------------------------------------------
\* Mutants of Entry: every push begins a new Buffer ...
EntryFresh(m, key) == EmptyBuffer

\* ... a push to a complete Buffer begins a new one.
EntryRestarts(m, key) ==
  IF key \in DOMAIN m /\ Wanted(m[key]) # 0 THEN m[key] ELSE EmptyBuffer

\* The Buffer filed under a key, a fresh one if there is none.
Entry(m, key) == IF key \in DOMAIN m THEN m[key] ELSE EmptyBuffer

\* Register a class: the last registration of a Types hash wins.
Register(l) ==
  /\ registered' = Put(registered, LocTypes[l], l)
  /\ UNCHANGED <<results, unregistered, answer, returned, handed, arrived>>

\* Push of a fragment no registered class has the type of: keep it aside.
PushUnregistered(o, f) ==
  LET key == <<f.types, f.tid>>
  IN  /\ f.types \notin DOMAIN registered
      /\ unregistered' = Put(unregistered, key, Pushed(Entry(unregistered, key), f))
      /\ answer' = [obj |-> o, err |-> "SchemaUnmatch"]
      /\ UNCHANGED results

\* Push of any other fragment: file it with its object and report what is missing.
PushRegistered(o, f) ==
  /\ f.types \in DOMAIN registered
  /\ LET key == <<registered[f.types], f.tid>>
         old == Entry(results, key)
         new == Pushed(old, f)
         err == IF PushError(old, f) # "nil" THEN PushError(old, f)
                ELSE IF Wanted(new) # 0 THEN "InSufficientData" ELSE "nil"
     IN  /\ results' = Put(results, key, new)
         /\ answer' = [obj |-> o, err |-> err]
  /\ UNCHANGED unregistered

\* Fragment i of object o comes off the wire and is pushed.
Push(o, i) ==
  /\ arrived[o][i] < MaxArrivals
  /\ PushUnregistered(o, Frag(o, i)) \/ PushRegistered(o, Frag(o, i))
  /\ arrived' = [arrived EXCEPT ![o][i] = @ + 1]
  /\ UNCHANGED <<registered, returned, handed>>

\* Mutant of Buffer: the entry stays in the table.
BufferKeeps(l, tid) ==
  /\ <<l, tid>> \in DOMAIN results
  /\ Wanted(results[<<l, tid>>]) = 0
  /\ returned' = [loc |-> l, buf |-> results[<<l, tid>>]]
  /\ handed' = [o \in Objects |-> IF ObjectSchema(o) = results[<<l, tid>>].schema
                                  THEN handed[o] + 1 ELSE handed[o]]
  /\ UNCHANGED <<registered, results, unregistered, answer, arrived>>

\* Buffer(family, version) finds a complete entry: remove it and return it.
Buffer(l, tid) ==
  /\ <<l, tid>> \in DOMAIN results
  /\ Wanted(results[<<l, tid>>]) = 0
  /\ results' = Delete(results, <<l, tid>>)
  /\ returned' = [loc |-> l, buf |-> results[<<l, tid>>]]
  /\ handed' = [o \in Objects |-> IF ObjectSchema(o) = results[<<l, tid>>].schema
                                  THEN handed[o] + 1 ELSE handed[o]]
  /\ UNCHANGED <<registered, unregistered, answer, arrived>>

Next ==
  \/ \E l \in Locations : Register(l)
  \/ \E o \in Objects : \E i \in 1 .. N(o) : Push(o, i)
  \/ \E l \in Locations, tid \in Tids : Buffer(l, tid)

Spec == Init /\ [][Next]_vars

-----------------------------------------------------------------------------
\* The part of a type invariant that concerns one Buffer of one object: the
\* right schema, and in each occupied slot the fragment with that number.
BufferOf(buf, o) ==
  /\ DOMAIN buf = {"schema", "frags", "size"}
  /\ buf.schema = ObjectSchema(o)
  /\ DOMAIN buf.frags # {}
  /\ DOMAIN buf.frags \subseteq 0 .. N(o) - 1
  /\ buf.frags = [k \in DOMAIN buf.frags |-> Frag(o, k + 1)]
  /\ buf.size \in Int

RegisteredOK ==
  /\ DOMAIN registered \subseteq Types
  /\ \A t \in DOMAIN registered : registered[t] \in Locations /\ LocTypes[registered[t]] = t

ResultsOK ==
  /\ DOMAIN results \subseteq Locations \X Tids
  /\ \A key \in DOMAIN results : \E o \in Objects :
        /\ TypesOf[o] = LocTypes[key[1]] /\ TidOf[o] = key[2]
        /\ BufferOf(results[key], o)

UnregisteredOK ==
  /\ DOMAIN unregistered \subseteq Types \X Tids
  /\ \A key \in DOMAIN unregistered : \E o \in Objects :
        /\ TypesOf[o] = key[1] /\ TidOf[o] = key[2]
        /\ BufferOf(unregistered[key], o)

CountsOK ==
  /\ handed \in [Objects -> Nat]
  /\ arrived = [o \in Objects |-> arrived[o]]
  /\ \A o \in Objects : arrived[o] \in [1 .. N(o) -> 0 .. MaxArrivals]

(***************************************************************************)
(* Types, and what the tables are keyed by: every entry of results and of  *)
(* unregistered holds, slot by slot, fragments of one object of the type   *)
(* and TID it is filed under (RBuffer.Push, Buffer.Push).                  *)
(***************************************************************************)
TypeOK == RegisteredOK /\ ResultsOK /\ UnregisteredOK /\ CountsOK

\* m keeps, under key, fragment i of object o.
Holds(m, key, o, i) ==
  /\ key \in DOMAIN m
  /\ i - 1 \in DOMAIN m[key].frags
  /\ m[key].frags[i - 1] = Frag(o, i)

\* The classes whose part of results keeps fragment i of object o, and whether
\* unregistered does.
Places(o, i) == {l \in Locations : Holds(results, <<l, TidOf[o]>>, o, i)}
Aside(o, i) == Holds(unregistered, <<TypesOf[o], TidOf[o]>>, o, i)

(***************************************************************************)
(* A Buffer the application is handed is one whole object: every fragment  *)
(* 1..N of one object of the class it was asked for, each in its slot, and *)
(* nothing else, whatever order and copies arrived (Buffer, Wanted).       *)
(***************************************************************************)
HandedWhole ==
  returned # NoneReturned =>
    \E o \in Objects :
      /\ TypesOf[o] = LocTypes[returned.loc]
      /\ returned.buf.frags = [k \in 0 .. N(o) - 1 |-> Frag(o, k + 1)]

(***************************************************************************)
(* No object is delivered out of thin air: for every fragment, the times   *)
(* its object was handed over and the copies still kept in the tables are  *)
(* together at most its arrivals, so an object is handed over no more      *)
(* often than its rarest fragment arrived (Push, Buffer's delete).         *)
(***************************************************************************)
NeverInvented ==
  \A o \in Objects : \A i \in 1 .. N(o) :
    handed[o] + Cardinality(Places(o, i)) + (IF Aside(o, i) THEN 1 ELSE 0) <= arrived[o][i]

(***************************************************************************)
(* Nothing is dropped: a fragment that arrived is still in one of the      *)
(* tables until its object has been handed over, whatever is pushed or     *)
(* registered in between (Push never replaces an entry by a fresh one).    *)
(***************************************************************************)
NeverDropped ==
  \A o \in Objects : \A i \in 1 .. N(o) :
    arrived[o][i] > 0 => handed[o] > 0 \/ Places(o, i) # {} \/ Aside(o, i)

(***************************************************************************)
(* What arrived completely can be fetched: once every fragment of an       *)
(* object arrived, and none did before its type was registered, the Buffer *)
(* call of its class finds it, unless it has been handed over already.  A  *)
(* type two classes share is excepted: its fragments may be spread over    *)
(* both (Push, Wanted).                                                    *)
(***************************************************************************)
ArrivedIsReady ==
  \A o \in Objects :
    (/\ \A i \in 1 .. N(o) : arrived[o][i] > 0 /\ ~Aside(o, i)
     /\ \A l, m \in Locations : LocTypes[l] = TypesOf[o] /\ LocTypes[m] = TypesOf[o] => l = m)
    => \/ handed[o] > 0
       \/ \E l \in Locations : /\ <<l, TidOf[o]>> \in DOMAIN results
                              /\ Wanted(results[<<l, TidOf[o]>>]) = 0

(***************************************************************************)
(* Wanted is the request to make: 0 exactly when fragments 1..N are all    *)
(* there, otherwise the least number that is missing, which never exceeds  *)
(* N although the receiver does not know N (Buffer.Wanted).                *)
(***************************************************************************)
WantedIsFirstMissing ==
  \A key \in DOMAIN results : \A o \in Objects :
    BufferOf(results[key], o) =>
      LET missing == {i \in 1 .. N(o) : i - 1 \notin DOMAIN results[key].frags}
      IN  IF missing = {} THEN Wanted(results[key]) = 0
          ELSE /\ Wanted(results[key]) \in missing
               /\ \A i \in missing : Wanted(results[key]) <= i

(***************************************************************************)
(* Size is the number of payload bytes held, however often a fragment was  *)
(* pushed again (Buffer.Push, the subtraction on a repeated push).         *)
(***************************************************************************)
SizeIsHeldBytes ==
  \A key \in DOMAIN results :
    results[key].size =
      MapThenSumSet(LAMBDA k : results[key].frags[k].len, DOMAIN results[key].frags)
=============================================================================
