------------------------------ MODULE Registry ------------------------------
(***************************************************************************)
(* The registry of classes and the migration of objects between their      *)
(* versions (src/tssd/flat.go, src/tssd/factory.go): Register,             *)
(* RegisterCurrent, MarshalTo, Unmarshal and UnmarshalTo, with the loop of *)
(* decorate one step at a time.                                            *)
(*                                                                         *)
(* A class is a Flatable type of the program: a version in a family, the   *)
(* version it upgrades to (Progeny) and the hash of its fields (Types).    *)
(* The bytes of an object are known by the class that marshalled them.     *)
(***************************************************************************)
EXTENDS Integers, SequencesExt

CONSTANTS Classes,    \* the Flatable types of the sender and the receiver
          FamilyOf, VersionOf, ProgenyOf, TypesOf,
          NoName      \* the empty string

\* A family does not have two types of one version (a second one is skipped
\* by register, and marshalled with the layout of the first).  A name is no type.
ASSUME RegistryAssumption ==
  /\ \A c, d \in Classes : FamilyOf[c] = FamilyOf[d] /\ VersionOf[c] = VersionOf[d] => c = d
  /\ NoName \notin Classes

Families == {FamilyOf[c] : c \in Classes} \ {NoName}

\* How much of an object's fragments a Buffer holds: none, all but the first,
\* all but the last, or all.
Held == {"none", "tail", "head", "whole"}

VARIABLES families,   \* registers.families: family -> current and versions
          types,      \* registers.types: Types -> class
          job,        \* the call that is in decorate's loop
          result      \* what MarshalTo, Unmarshal or UnmarshalTo returned, if it was last

vars == <<families, types, job, result>>

\* call: the function, data: the class that marshalled the object, to: the
\* class it is wanted as; path: the classes the object has been, v: the next.
NoCall == [call |-> "none", data |-> NoName, to |-> NoName, family |-> NoName]
NoJob == [busy |-> FALSE, of |-> NoCall, path |-> <<>>, v |-> NoName]
NoResult == [err |-> "none", of |-> NoCall, path |-> <<>>]

Init ==
  /\ families = [f \in {} |-> 0]
  /\ types = [t \in {} |-> 0]
  /\ job = NoJob /\ result = NoResult

\* The program went on: no call is in the loop and none has crashed.
Running == ~job.busy /\ result.err # "panic"

-----------------------------------------------------------------------------
\* m[k] = v on a Go map.
Put(m, k, v) == [x \in DOMAIN m \cup {k} |-> IF x = k THEN v ELSE m[x]]

\* The class a family knows by a version.
Versions(f) == families[f].versions

Nameless(c) == FamilyOf[c] = NoName \/ VersionOf[c] = NoName

\* Mutant of Registered: every class starts its family afresh.
RegisteredAfresh(c) ==
  Put(families, FamilyOf[c], [current |-> VersionOf[c],
                              versions |-> [x \in {VersionOf[c]} |-> c]])

(***************************************************************************)
(* Register: the first class of a family becomes its current one, a class  *)
(* that is known already is skipped, and its Types lead to it from now on. *)
(***************************************************************************)
Registered(c) ==
  LET f == FamilyOf[c]
      known == IF f \in DOMAIN families THEN Versions(f) ELSE [x \in {} |-> c]
  IN  Put(families, f,
        [current  |-> IF f \in DOMAIN families THEN families[f].current ELSE VersionOf[c],
         versions |-> IF VersionOf[c] \in DOMAIN known THEN known ELSE Put(known, VersionOf[c], c)])

Register(c) ==
  /\ Running
  /\ IF Nameless(c) THEN UNCHANGED <<families, types>>
     ELSE families' = Registered(c) /\ types' = Put(types, TypesOf[c], c)
  /\ result' = NoResult
  /\ UNCHANGED job

\* Mutant of RegisterCurrent: the class is made current without registering it.
RegisterCurrentOnly(c) ==
  /\ Running /\ ~Nameless(c)
  /\ LET f == FamilyOf[c]
     IN  families' = Put(families, f, [current |-> VersionOf[c], versions |->
                           IF f \in DOMAIN families THEN Versions(f) ELSE [x \in {} |-> c]])
  /\ result' = NoResult
  /\ UNCHANGED <<types, job>>

RegisterCurrent(c) ==
  /\ Running
  /\ IF Nameless(c) THEN UNCHANGED <<families, types>>
     ELSE /\ families' = Put(families, FamilyOf[c],
                           [current  |-> VersionOf[c],
                            versions |-> Registered(c)[FamilyOf[c]].versions])
          /\ types' = Put(types, TypesOf[c], c)
  /\ result' = NoResult
  /\ UNCHANGED job

Return(err, of, path) == job' = NoJob /\ result' = [err |-> err, of |-> of, path |-> path]

Decorate(of, first) ==
  /\ job' = [busy |-> TRUE, of |-> of, path |-> <<first>>, v |-> ProgenyOf[first]]
  /\ result' = NoResult

\* MarshalTo(flat, buf), as far as the registry has a say in it.
MarshalTo(c) ==
  LET of == [call |-> "MarshalTo", data |-> c, to |-> c, family |-> FamilyOf[c]]
  IN  /\ Running
      /\ IF FamilyOf[c] \in DOMAIN families /\ VersionOf[c] \in DOMAIN Versions(FamilyOf[c])
         THEN Return("nil", of, <<c>>) ELSE Return("SchemaUnmatch", of, <<>>)
      /\ UNCHANGED <<families, types>>

(***************************************************************************)
(* UnmarshalTo(buf, dest) for an object marshalled as class c.  Without a  *)
(* first fragment, or a registered version of dest, there is no schema to  *)
(* look at: a nil dereference.  A partial object is found out by reading.  *)
(***************************************************************************)
UnmarshalTo(c, held, dest) ==
  LET f == FamilyOf[dest]
      of == [call |-> "UnmarshalTo", data |-> c, to |-> dest, family |-> f]
      Ends(err) == Return(err, of, <<>>)
  IN  /\ Running
      /\ IF f \notin DOMAIN families THEN Ends("SchemaUnmatch")
         ELSE IF held = "none" THEN Ends("InSufficientData")
         ELSE IF held = "tail" \/ VersionOf[dest] \notin DOMAIN Versions(f) THEN Ends("panic")
         ELSE IF TypesOf[c] \notin DOMAIN types THEN Ends("SchemaUnmatch")
         ELSE IF held = "head" THEN Ends("InSufficientData")
         ELSE IF TypesOf[dest] = TypesOf[c] THEN Return("nil", of, <<dest>>)
         ELSE Decorate(of, types[TypesOf[c]])
      /\ UNCHANGED <<families, types>>

\* Unmarshal(buf, family): the object's own class if it is the current one or
\* has no progeny, otherwise what it can be decorated to.
Unmarshal(c, held, f) ==
  LET own == types[TypesOf[c]]
      to == IF f \in DOMAIN families THEN Versions(f)[families[f].current] ELSE NoName
      of == [call |-> "Unmarshal", data |-> c, to |-> to, family |-> f]
      Ends(err) == Return(err, of, <<>>)
  IN  /\ Running
      /\ IF f \notin DOMAIN families THEN Ends("SchemaUnmatch")
         ELSE IF held = "none" THEN Ends("InSufficientData")
         ELSE IF held = "tail" THEN Ends("panic")
         ELSE IF TypesOf[c] \notin DOMAIN types THEN Ends("SchemaUnmatch")
         ELSE IF held = "head" THEN Ends("InSufficientData")
         ELSE IF ProgenyOf[own] = NoName \/ VersionOf[own] = families[f].current
         THEN Return("nil", of, <<own>>)
         ELSE Decorate(of, own)
      /\ UNCHANGED <<families, types>>

\* Mutants of DecorateStep: the versions in between are left out ...
DecorateStepJumps ==
  /\ job.busy
  /\ IF job.v = NoName THEN Return("SchemaUnmatch", job.of, <<>>)
     ELSE Return("nil", job.of, Append(job.path, job.of.to))
  /\ UNCHANGED <<families, types>>

\* ... only one version in between is looked for ...
DecorateStepOnce ==
  /\ job.busy
  /\ IF job.v = VersionOf[job.of.to]
     THEN Return("nil", job.of, Append(job.path, job.of.to))
     ELSE Return("SchemaUnmatch", job.of, <<>>)
  /\ UNCHANGED <<families, types>>

\* ... the loop does not go on to the next progeny.
DecorateStepStays ==
  /\ job.busy
  /\ IF job.v = NoName THEN Return("SchemaUnmatch", job.of, <<>>)
     ELSE IF job.v = VersionOf[job.of.to]
     THEN Return("nil", job.of, Append(job.path, job.of.to))
     ELSE UNCHANGED <<job, result>>
  /\ UNCHANGED <<families, types>>

\* One round of decorate's loop, in the factory of the family that was asked.
DecorateStep ==
  /\ job.busy
  /\ LET known == Versions(job.of.family)
     IN  IF job.v = NoName THEN Return("SchemaUnmatch", job.of, <<>>)
         ELSE IF job.v = VersionOf[job.of.to]
         THEN Return("nil", job.of, Append(job.path, job.of.to))
         ELSE IF job.v \notin DOMAIN known THEN Return("SchemaUnmatch", job.of, <<>>)
         ELSE /\ job' = [job EXCEPT !.path = Append(@, known[job.v]),
                                    !.v = ProgenyOf[known[job.v]]]
              /\ UNCHANGED result
  /\ UNCHANGED <<families, types>>

Next ==
  \/ \E c \in Classes : Register(c) \/ RegisterCurrent(c) \/ MarshalTo(c)
  \/ \E c, dest \in Classes, held \in Held : UnmarshalTo(c, held, dest)
  \/ \E c \in Classes, held \in Held, f \in Families : Unmarshal(c, held, f)
  \/ DecorateStep

Spec == Init /\ [][Next]_vars /\ WF_vars(DecorateStep)

-----------------------------------------------------------------------------
Known(c) == FamilyOf[c] \in DOMAIN families /\ VersionOf[c] \in DOMAIN Versions(FamilyOf[c])

(***************************************************************************)
(* Types; every family's current version is registered, so that Unmarshal  *)
(* can build it; and every Types leads to a registered class that has it   *)
(* (Register, RegisterCurrent, getBuildInfoByTypes).                       *)
(***************************************************************************)
TypeOK ==
  /\ DOMAIN families \subseteq Families
  /\ \A f \in DOMAIN families :
        /\ families[f].current \in DOMAIN Versions(f)
        /\ \A v \in DOMAIN Versions(f) :
             /\ Versions(f)[v] \in Classes
             /\ FamilyOf[Versions(f)[v]] = f /\ VersionOf[Versions(f)[v]] = v
  /\ \A t \in DOMAIN types : types[t] \in Classes /\ TypesOf[types[t]] = t /\ Known(types[t])
  /\ job.path \in Seq(Classes)

\* A way from c to d in their family: every class upgrades to the next one.
IsWay(p, c, d) ==
  /\ p # <<>> /\ p[1] = c /\ p[Len(p)] = d
  /\ \A i \in DOMAIN p : FamilyOf[p[i]] = FamilyOf[c]
  /\ \A i \in 1 .. Len(p) - 1 : ProgenyOf[p[i]] = VersionOf[p[i + 1]]

Ways(c, d) == {p \in SeqOf(Classes, Cardinality(Classes)) : IsWay(p, c, d)}

(***************************************************************************)
(* An object of the family that is asked for becomes the class that is     *)
(* asked for along the chain of progenies, every version's Decorate called *)
(* once and in order, over versions that are registered; only Unmarshal    *)
(* may return it as it is, when it has no progeny.  Stated for programs in *)
(* which Types tell classes apart (UnmarshalTo, Unmarshal, decorate).      *)
(***************************************************************************)
MigratesAlongChain ==
  result.err = "nil" /\ FamilyOf[result.of.data] = result.of.family =>
    LET last == result.path[Len(result.path)]
    IN  /\ IsWay(result.path, result.of.data, last)
        /\ \A i \in DOMAIN result.path : Known(result.path[i])
        /\ \/ last = result.of.to
           \/ result.of.call = "Unmarshal" /\ ProgenyOf[last] = NoName

(***************************************************************************)
(* And a call fails only when a version on the way is not registered, or   *)
(* no way leads there, where Types tell classes apart (MarshalTo,          *)
(* UnmarshalTo, Unmarshal, decorate).                                      *)
(***************************************************************************)
RefusedWithoutWay ==
  result.err = "SchemaUnmatch" =>
    \A p \in Ways(result.of.data, result.of.to) : \E i \in DOMAIN p : ~Known(p[i])

(***************************************************************************)
(* decorate comes to an end, where no chain of progenies runs in a circle. *)
(***************************************************************************)
DecorationEnds == job.busy ~> ~job.busy

(***************************************************************************)
(* A version that is registered stays registered, as the same class; and   *)
(* so do the Types that lead to it, where they tell classes apart          *)
(* (register skips what it knows, Register).                               *)
(***************************************************************************)
NothingForgotten ==
  [][/\ \A f \in DOMAIN families : \A v \in DOMAIN Versions(f) :
          f \in DOMAIN families' /\ v \in DOMAIN families'[f].versions
          /\ families'[f].versions[v] = Versions(f)[v]
     /\ \A t \in DOMAIN types : t \in DOMAIN types' /\ types'[t] = types[t]]_vars

(***************************************************************************)
(* The README: TSSD data of one version can be received as a later one,    *)
(* and Decorate is called to migrate it.  It can whenever every version on *)
(* the way is registered.                                                  *)
(***************************************************************************)
LaterVersionIsReceived ==
  result.err = "SchemaUnmatch" /\ result.of.call = "UnmarshalTo" =>
    \A p \in Ways(result.of.data, result.of.to) : \E i \in DOMAIN p : ~Known(p[i])
=============================================================================
