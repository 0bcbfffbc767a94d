--------------------------- MODULE RegistryProofs ---------------------------
(***************************************************************************)
(* Proofs about Registry for any families, versions and progenies: its     *)
(* types, that nothing that was registered is forgotten, and that objects  *)
(* migrate along the chain of progenies and in no other way.               *)
(***************************************************************************)
EXTENDS Registry, TLAPS

\* F is what the families become when class c is put in: its version is there,
\* and everything else stays.
Added(F, c) ==
  LET f == FamilyOf[c]
      v == VersionOf[c]
  IN  /\ DOMAIN F = DOMAIN families \cup {f}
      /\ \A g \in DOMAIN families \ {f} : F[g] = families[g]
      /\ F[f].current = v \/ (f \in DOMAIN families /\ F[f].current = families[f].current)
      /\ v \in DOMAIN F[f].versions
      /\ f \in DOMAIN families =>
           /\ DOMAIN F[f].versions = DOMAIN families[f].versions \cup {v}
           /\ \A x \in DOMAIN families[f].versions :
                F[f].versions[x] = families[f].versions[x]
           /\ v \notin DOMAIN families[f].versions => F[f].versions[v] = c
      /\ f \notin DOMAIN families =>
           DOMAIN F[f].versions = {v} /\ F[f].versions[v] = c

LEMMA RegisteredIs ==
  ASSUME NEW c \in Classes
  PROVE  Added(Registered(c), c)
<1>. DEFINE f == FamilyOf[c]
            v == VersionOf[c]
            known == IF f \in DOMAIN families THEN Versions(f) ELSE [x \in {} |-> c]
            vs == IF v \in DOMAIN known THEN known ELSE Put(known, v, c)
            cur == IF f \in DOMAIN families THEN families[f].current ELSE v
<1>1. /\ DOMAIN vs = DOMAIN known \cup {v}
      /\ \A x \in DOMAIN known : vs[x] = known[x]
      /\ v \notin DOMAIN known => vs[v] = c
  <2>. HIDE DEF known
  <2>. QED
    BY DEF Put
<1>2. Registered(c) = [x \in DOMAIN families \cup {f} |->
                         IF x = f THEN [current |-> cur, versions |-> vs] ELSE families[x]]
  BY Zenon DEF Registered, Put
<1>3. /\ Registered(c)[f].versions = vs /\ Registered(c)[f].current = cur
      /\ DOMAIN Registered(c) = DOMAIN families \cup {f}
      /\ \A g \in DOMAIN families \ {f} : Registered(c)[g] = families[g]
  <2>. HIDE DEF vs, cur
  <2>. QED
    BY <1>2
<1>4. f \in DOMAIN families => known = families[f].versions
  BY DEF Versions
<1>5. f \notin DOMAIN families => DOMAIN known = {}
  OBVIOUS
<1>6. cur = v \/ (f \in DOMAIN families /\ cur = families[f].current)
  OBVIOUS
<1>. HIDE DEF known, vs, cur
<1>. QED
  BY <1>1, <1>3, <1>4, <1>5, <1>6 DEF Added

LEMMA AddedCurrent ==
  ASSUME NEW c \in Classes, NEW R, Added(R, c)
  PROVE  Added(Put(families, FamilyOf[c],
                   [current |-> VersionOf[c], versions |-> R[FamilyOf[c]].versions]), c)
<1>. DEFINE f == FamilyOf[c]
            vs == R[f].versions
            F == Put(families, f, [current |-> VersionOf[c], versions |-> vs])
<1>1. /\ DOMAIN F = DOMAIN families \cup {f}
      /\ \A g \in DOMAIN families \ {f} : F[g] = families[g]
      /\ F[f].current = VersionOf[c] /\ F[f].versions = vs
  <2>. HIDE DEF vs
  <2>. QED
    BY DEF Put
<1>. HIDE DEF F
<1>2. Added(F, c)
  BY <1>1 DEF Added
<1>. QED
  BY <1>2 DEF F

\* Register and RegisterCurrent put the class in, unless it has no name.
LEMMA RegisterAdds ==
  ASSUME NEW c \in Classes, Register(c) \/ RegisterCurrent(c)
  PROVE  \/ UNCHANGED <<families, types>>
         \/ /\ Added(families', c) /\ FamilyOf[c] \in Families
            /\ types' = Put(types, TypesOf[c], c)
<1>1. CASE Nameless(c)
  BY <1>1 DEF Register, RegisterCurrent
<1>2. CASE ~Nameless(c)
  <2>1. FamilyOf[c] \in Families
    BY <1>2 DEF Nameless, Families
  <2>2. CASE Register(c)
    <3>1. families' = Registered(c) /\ types' = Put(types, TypesOf[c], c)
      BY <1>2, <2>2 DEF Register
    <3>. QED
      BY <2>1, <3>1, RegisteredIs, Zenon
  <2>3. CASE RegisterCurrent(c)
    <3>1. /\ families' = Put(families, FamilyOf[c],
                [current |-> VersionOf[c], versions |-> Registered(c)[FamilyOf[c]].versions])
          /\ types' = Put(types, TypesOf[c], c)
      BY <1>2, <2>3 DEF RegisterCurrent
    <3>. QED
      BY <2>1, <3>1, RegisteredIs, AddedCurrent, Zenon
  <2>. QED
    BY <2>2, <2>3
<1>. QED
  BY <1>1, <1>2

-----------------------------------------------------------------------------
\* TypeOK in parts: the families, the Types, and decorate's loop, which runs in
\* a family that is registered.
FamiliesOK ==
  /\ DOMAIN families \subseteq Families
  /\ \A f \in DOMAIN families :
        /\ families[f].current \in DOMAIN families[f].versions
        /\ \A v \in DOMAIN families[f].versions :
             /\ families[f].versions[v] \in Classes
             /\ FamilyOf[families[f].versions[v]] = f
             /\ VersionOf[families[f].versions[v]] = v

TypesOK ==
  \A t \in DOMAIN types : /\ types[t] \in Classes /\ TypesOf[types[t]] = t
                          /\ FamilyOf[types[t]] \in DOMAIN families
                          /\ VersionOf[types[t]] \in DOMAIN families[FamilyOf[types[t]]].versions

JobOK ==
  /\ job = [busy |-> job.busy, of |-> job.of, path |-> job.path, v |-> job.v]
  /\ job.busy \in BOOLEAN
  /\ job.path \in Seq(Classes)
  /\ job.busy => job.of.family \in DOMAIN families

Inv == FamiliesOK /\ TypesOK /\ JobOK

LEMMA InvIsTypeOK == Inv => TypeOK
  BY DEF Inv, FamiliesOK, TypesOK, JobOK, TypeOK, Versions, Known

LEMMA InitInv == Init => Inv
  BY DEF Init, Inv, FamiliesOK, TypesOK, JobOK, NoJob

\* No family and no version goes away when a class is put in.
LEMMA AddedKeeps ==
  ASSUME NEW c \in Classes, NEW F, Added(F, c), NEW f \in DOMAIN families
  PROVE  /\ f \in DOMAIN F
         /\ DOMAIN families[f].versions \subseteq DOMAIN F[f].versions
         /\ \A v \in DOMAIN families[f].versions :
              F[f].versions[v] = families[f].versions[v]
<1>1. CASE f = FamilyOf[c]
  BY <1>1 DEF Added
<1>2. CASE f # FamilyOf[c]
  BY <1>2 DEF Added
<1>. QED
  BY <1>1, <1>2

LEMMA AddedInv ==
  ASSUME Inv, NEW c \in Classes, FamilyOf[c] \in Families, Added(families', c),
         types' = Put(types, TypesOf[c], c), UNCHANGED job
  PROVE  Inv'
<1>1. FamiliesOK'
  <2>1. DOMAIN families' \subseteq Families
    BY DEF Inv, FamiliesOK, Added
  <2>2. ASSUME NEW f \in DOMAIN families'
        PROVE  /\ families'[f].current \in DOMAIN families'[f].versions
               /\ \A v \in DOMAIN families'[f].versions :
                    /\ families'[f].versions[v] \in Classes
                    /\ FamilyOf[families'[f].versions[v]] = f
                    /\ VersionOf[families'[f].versions[v]] = v
    <3>1. CASE f # FamilyOf[c]
      BY <2>2, <3>1 DEF Inv, FamiliesOK, Added
    <3>2. CASE f = FamilyOf[c] /\ f \in DOMAIN families
      BY <3>2 DEF Inv, FamiliesOK, Added
    <3>3. CASE f = FamilyOf[c] /\ f \notin DOMAIN families
      BY <3>3 DEF Added
    <3>. QED
      BY <3>1, <3>2, <3>3
  <2>. QED
    BY <2>1, <2>2 DEF FamiliesOK
<1>2. TypesOK'
  <2>1. DOMAIN types' = DOMAIN types \cup {TypesOf[c]}
    BY DEF Put
  <2>2. ASSUME NEW t \in DOMAIN types'
        PROVE  /\ types'[t] \in Classes /\ TypesOf[types'[t]] = t
               /\ FamilyOf[types'[t]] \in DOMAIN families'
               /\ VersionOf[types'[t]] \in DOMAIN families'[FamilyOf[types'[t]]].versions
    <3>1. CASE t = TypesOf[c]
      <4>1. types'[t] = c
        BY <2>1, <3>1 DEF Put
      <4>. QED
        BY <3>1, <4>1 DEF Added
    <3>2. CASE t # TypesOf[c]
      <4>1. t \in DOMAIN types /\ types'[t] = types[t]
        BY <2>1, <2>2, <3>2 DEF Put
      <4>2. /\ types[t] \in Classes /\ TypesOf[types[t]] = t
            /\ FamilyOf[types[t]] \in DOMAIN families
            /\ VersionOf[types[t]] \in DOMAIN families[FamilyOf[types[t]]].versions
        BY <4>1 DEF Inv, TypesOK
      <4>. QED
        BY <4>1, <4>2, AddedKeeps
    <3>. QED
      BY <3>1, <3>2
  <2>. QED
    BY <2>2 DEF TypesOK
<1>3. JobOK'
  BY DEF Inv, JobOK, Added
<1>. QED
  BY <1>1, <1>2, <1>3 DEF Inv

\* A call that returns, or goes into decorate's loop with a family that is known.
LEMMA ReturnInv ==
  ASSUME Inv, UNCHANGED <<families, types>>, job' = NoJob
  PROVE  Inv'
  BY DEF Inv, FamiliesOK, TypesOK, JobOK, NoJob

LEMMA DecorateInv ==
  ASSUME Inv, UNCHANGED <<families, types>>, NEW of, NEW first \in Classes,
         of.family \in DOMAIN families, Decorate(of, first)
  PROVE  Inv'
  BY DEF Inv, FamiliesOK, TypesOK, JobOK, Decorate

LEMMA DecorateStepInv ==
  ASSUME Inv, DecorateStep
  PROVE  Inv'
<1>1. UNCHANGED <<families, types>> /\ job.busy
  BY DEF DecorateStep
<1>2. CASE job' = NoJob
  BY <1>1, <1>2, ReturnInv
<1>3. CASE job' # NoJob
  <2>. DEFINE known == Versions(job.of.family)
  <2>1. /\ job.v \in DOMAIN known
        /\ job' = [job EXCEPT !.path = Append(@, known[job.v]), !.v = ProgenyOf[known[job.v]]]
    BY <1>3 DEF DecorateStep, Return
  <2>2. known[job.v] \in Classes
    BY <1>1, <2>1 DEF Inv, FamiliesOK, JobOK, Versions
  <2>. HIDE DEF known
  <2>. DEFINE d == known[job.v]
  <2>3. job' = [busy |-> job.busy, of |-> job.of, path |-> Append(job.path, d),
                v |-> ProgenyOf[d]]
    <3>. HIDE DEF d
    <3>. QED
      BY <2>1 DEF Inv, JobOK, d
  <2>4. Append(job.path, d) \in Seq(Classes)
    BY <2>2 DEF Inv, JobOK
  <2>. HIDE DEF d
  <2>5. JobOK'
    BY <1>1, <2>3, <2>4 DEF Inv, JobOK
  <2>. QED
    BY <1>1, <2>5 DEF Inv, FamiliesOK, TypesOK
<1>. QED
  BY <1>2, <1>3

LEMMA StepInv == Inv /\ [Next]_vars => Inv'
<1>. SUFFICES ASSUME Inv, [Next]_vars PROVE Inv'
  OBVIOUS
<1>1. ASSUME NEW c \in Classes, Register(c) \/ RegisterCurrent(c) PROVE Inv'
  <2>1. UNCHANGED job
    BY <1>1 DEF Register, RegisterCurrent
  <2>2. CASE UNCHANGED <<families, types>>
    BY <2>1, <2>2 DEF Inv, FamiliesOK, TypesOK, JobOK
  <2>. QED
    BY <1>1, <2>1, <2>2, RegisterAdds, AddedInv
<1>2. ASSUME NEW c \in Classes, MarshalTo(c) PROVE Inv'
  <2>1. UNCHANGED <<families, types>> /\ job' = NoJob
    BY <1>2 DEF MarshalTo, Return
  <2>. QED
    BY <2>1, ReturnInv
<1>3. ASSUME NEW c \in Classes, NEW dest \in Classes, NEW held \in Held,
             UnmarshalTo(c, held, dest)
      PROVE  Inv'
  <2>. DEFINE of == [call |-> "UnmarshalTo", data |-> c, to |-> dest, family |-> FamilyOf[dest]]
  <2>1. /\ UNCHANGED <<families, types>>
        /\ \/ job' = NoJob
           \/ /\ FamilyOf[dest] \in DOMAIN families /\ TypesOf[c] \in DOMAIN types
              /\ Decorate(of, types[TypesOf[c]])
    BY <1>3, Zenon DEF UnmarshalTo, Return
  <2>2. CASE job' = NoJob
    BY <2>1, <2>2, ReturnInv
  <2>3. CASE job' # NoJob
    <3>1. types[TypesOf[c]] \in Classes /\ of.family \in DOMAIN families
      BY <2>1, <2>3 DEF Inv, TypesOK
    <3>. HIDE DEF of
    <3>. QED
      BY <2>1, <2>3, <3>1, DecorateInv
  <2>. QED
    BY <2>2, <2>3
<1>4. ASSUME NEW c \in Classes, NEW held \in Held, NEW f \in Families, Unmarshal(c, held, f)
      PROVE  Inv'
  <2>. DEFINE to == IF f \in DOMAIN families THEN Versions(f)[families[f].current] ELSE NoName
              of == [call |-> "Unmarshal", data |-> c, to |-> to, family |-> f]
  <2>1. /\ UNCHANGED <<families, types>>
        /\ \/ job' = NoJob
           \/ /\ f \in DOMAIN families /\ TypesOf[c] \in DOMAIN types
              /\ Decorate(of, types[TypesOf[c]])
    BY <1>4, Zenon DEF Unmarshal, Return
  <2>2. CASE job' = NoJob
    BY <2>1, <2>2, ReturnInv
  <2>3. CASE job' # NoJob
    <3>. HIDE DEF to
    <3>1. types[TypesOf[c]] \in Classes /\ of.family \in DOMAIN families
      BY <2>1, <2>3 DEF Inv, TypesOK
    <3>. HIDE DEF of
    <3>. QED
      BY <2>1, <2>3, <3>1, DecorateInv
  <2>. QED
    BY <2>2, <2>3
<1>5. CASE UNCHANGED vars
  BY <1>5 DEF vars, Inv, FamiliesOK, TypesOK, JobOK
<1>. QED
  BY <1>1, <1>2, <1>3, <1>4, <1>5, DecorateStepInv DEF Next

LEMMA AlwaysInv == Spec => []Inv
<1>. QED
  BY InitInv, StepInv, PTL DEF Spec

(***************************************************************************)
(* Whatever is registered and asked for, in whatever order: a family's     *)
(* current version can be built, every Types leads to a registered class   *)
(* that has it, and the classes decorate goes through are classes          *)
(* (Register, RegisterCurrent, getBuildInfoByTypes, decorate).             *)
(***************************************************************************)
THEOREM TypeCorrect == Spec => []TypeOK
<1>. QED
  BY AlwaysInv, InvIsTypeOK, PTL

\* The fields of a class tell it apart from every other one.
TypesTellApart == \A c, d \in Classes : TypesOf[c] = TypesOf[d] => c = d

\* What one step of the program may not take away.
Kept ==
  /\ \A f \in DOMAIN families : \A v \in DOMAIN Versions(f) :
       f \in DOMAIN families' /\ v \in DOMAIN families'[f].versions
       /\ families'[f].versions[v] = Versions(f)[v]
  /\ \A t \in DOMAIN types : t \in DOMAIN types' /\ types'[t] = types[t]

LEMMA StepKeeps ==
  ASSUME TypesTellApart, Inv, [Next]_vars
  PROVE  Kept
<1>1. CASE UNCHANGED <<families, types>>
  BY <1>1 DEF Kept, Versions
<1>2. ASSUME NEW c \in Classes, Register(c) \/ RegisterCurrent(c),
             ~UNCHANGED <<families, types>>
      PROVE  Kept
  <2>1. Added(families', c) /\ types' = Put(types, TypesOf[c], c)
    BY <1>2, RegisterAdds
  <2>2. ASSUME NEW t \in DOMAIN types PROVE t \in DOMAIN types' /\ types'[t] = types[t]
    <3>1. types[t] \in Classes /\ TypesOf[types[t]] = t
      BY DEF Inv, TypesOK
    <3>2. t = TypesOf[c] => types[t] = c
      BY <3>1 DEF TypesTellApart
    <3>. QED
      BY <2>1, <3>2 DEF Put
  <2>. QED
    BY <2>1, <2>2, AddedKeeps DEF Kept, Versions
<1>3. (\E c \in Classes : Register(c) \/ RegisterCurrent(c)) \/ UNCHANGED <<families, types>>
  BY ZenonT(30) DEF Next, vars, MarshalTo, UnmarshalTo, Unmarshal, DecorateStep
<1>. QED
  BY <1>1, <1>2, <1>3

(***************************************************************************)
(* No call takes a class away that was registered, or leads its Types to   *)
(* another class, whenever Types tell classes apart (Register,             *)
(* RegisterCurrent).                                                       *)
(***************************************************************************)
THEOREM NothingIsForgotten ==
  ASSUME TypesTellApart
  PROVE  Spec => NothingForgotten
<1>1. Inv /\ [Next]_vars => [Kept]_vars
  BY StepKeeps
<1>2. Kept <=> /\ \A f \in DOMAIN families : \A v \in DOMAIN Versions(f) :
                    f \in DOMAIN families' /\ v \in DOMAIN families'[f].versions
                    /\ families'[f].versions[v] = Versions(f)[v]
               /\ \A t \in DOMAIN types : t \in DOMAIN types' /\ types'[t] = types[t]
  BY DEF Kept
<1>. QED
  BY <1>1, <1>2, AlwaysInv, PTL DEF Spec, NothingForgotten

-----------------------------------------------------------------------------
\* Decorate's loop goes from the object's class towards the class that is asked
\* for, over registered versions of the family.
Underway ==
  job.busy =>
    LET last == job.path[Len(job.path)]
    IN  /\ job.of.to \in Classes /\ FamilyOf[job.of.to] = job.of.family /\ Known(job.of.to)
        /\ job.path # <<>>
        /\ FamilyOf[job.of.data] = job.of.family =>
             /\ IsWay(job.path, job.of.data, last)
             /\ FamilyOf[last] = job.of.family /\ ProgenyOf[last] = job.v
             /\ \A i \in DOMAIN job.path : Known(job.path[i])

LEMMA FirstOfWay ==
  ASSUME NEW c \in Classes
  PROVE  IsWay(<<c>>, c, c)
  BY DEF IsWay

LEMMA NextOfWay ==
  ASSUME NEW p \in Seq(Classes), NEW c, NEW d \in Classes, IsWay(p, c, p[Len(p)]),
         FamilyOf[p[Len(p)]] = FamilyOf[d], ProgenyOf[p[Len(p)]] = VersionOf[d]
  PROVE  IsWay(Append(p, d), c, d)
<1>. DEFINE q == Append(p, d)
<1>1. Len(q) = Len(p) + 1 /\ q[Len(q)] = d /\ q # <<>> /\ Len(p) \in Nat \ {0}
  BY DEF IsWay
<1>2. q[1] = c
  BY <1>1 DEF IsWay
<1>3. ASSUME NEW i \in DOMAIN q PROVE FamilyOf[q[i]] = FamilyOf[c]
  <2>1. CASE i = Len(q)
    <3>1. Len(p) \in DOMAIN p
      BY <1>1
    <3>. QED
      BY <1>1, <2>1, <3>1 DEF IsWay
  <2>2. CASE i # Len(q)
    <3>1. i \in DOMAIN p /\ q[i] = p[i]
      BY <1>1, <1>3, <2>2
    <3>. QED
      BY <3>1 DEF IsWay
  <2>. QED
    BY <2>1, <2>2
<1>4. ASSUME NEW i \in 1 .. Len(q) - 1 PROVE ProgenyOf[q[i]] = VersionOf[q[i + 1]]
  <2>1. CASE i = Len(p)
    BY <1>1, <2>1
  <2>2. CASE i # Len(p)
    <3>1. i \in 1 .. Len(p) - 1 /\ q[i] = p[i] /\ q[i + 1] = p[i + 1]
      BY <1>1, <1>4, <2>2
    <3>. QED
      BY <3>1 DEF IsWay
  <2>. QED
    BY <2>1, <2>2
<1>. QED
  BY <1>1, <1>2, <1>3, <1>4 DEF IsWay

\* Every class that the families know is known.
LEMMA VersionsKnown ==
  ASSUME Inv, NEW f \in DOMAIN families, NEW v \in DOMAIN Versions(f)
  PROVE  /\ Versions(f)[v] \in Classes /\ Known(Versions(f)[v])
         /\ FamilyOf[Versions(f)[v]] = f /\ VersionOf[Versions(f)[v]] = v
  BY DEF Inv, FamiliesOK, Versions, Known

\* The class that the object's Types lead to is its own.
LEMMA OwnClass ==
  ASSUME TypesTellApart, Inv, NEW c \in Classes, TypesOf[c] \in DOMAIN types
  PROVE  types[TypesOf[c]] = c /\ Known(c)
  BY DEF TypesTellApart, Inv, TypesOK, Known, Versions

LEMMA InitWay == Init => Underway /\ MigratesAlongChain
  BY DEF Init, NoJob, NoResult, Underway, MigratesAlongChain

LEMMA DecorateStepWay ==
  ASSUME Inv, Underway, MigratesAlongChain, DecorateStep
  PROVE  (Underway /\ MigratesAlongChain)'
<1>. DEFINE last == job.path[Len(job.path)]
            known == Versions(job.of.family)
<1>1. /\ job.busy /\ UNCHANGED <<families, types>>
      /\ job.path \in Seq(Classes) /\ job.path # <<>>
      /\ job.of.family \in DOMAIN families
      /\ job.of.to \in Classes /\ FamilyOf[job.of.to] = job.of.family /\ Known(job.of.to)
  BY DEF DecorateStep, Underway, Inv, JobOK
<1>2. \A c : Known(c)' <=> Known(c)
  BY <1>1 DEF Known, Versions
<1>3. ASSUME NEW d \in Classes, Known(d), FamilyOf[d] = job.of.family, VersionOf[d] = job.v,
             FamilyOf[job.of.data] = job.of.family
      PROVE  /\ IsWay(Append(job.path, d), job.of.data, d)
             /\ \A i \in DOMAIN Append(job.path, d) : Known(Append(job.path, d)[i])
  <2>1. /\ IsWay(job.path, job.of.data, last) /\ FamilyOf[last] = FamilyOf[d]
        /\ ProgenyOf[last] = VersionOf[d] /\ \A i \in DOMAIN job.path : Known(job.path[i])
    BY <1>1, <1>3 DEF Underway
  <2>2. IsWay(Append(job.path, d), job.of.data, d)
    BY <1>1, <2>1, NextOfWay
  <2>3. \A i \in DOMAIN Append(job.path, d) : Known(Append(job.path, d)[i])
    BY <1>1, <1>3, <2>1
  <2>. QED
    BY <2>2, <2>3
<1>4. ASSUME NEW d
      PROVE  LET q == Append(job.path, d) IN q # <<>> /\ q[Len(q)] = d
  BY <1>1
<1>. HIDE DEF last, known
<1>5. CASE Return("SchemaUnmatch", job.of, <<>>)
  BY <1>5 DEF Return, NoJob, Underway, MigratesAlongChain
<1>6. CASE job.v = VersionOf[job.of.to] /\ Return("nil", job.of, Append(job.path, job.of.to))
  <2>. DEFINE q == Append(job.path, job.of.to)
  <2>1. ~job'.busy /\ result' = [err |-> "nil", of |-> job.of, path |-> q]
    BY <1>6 DEF Return, NoJob
  <2>2. q[Len(q)] = job.of.to
    BY <1>4
  <2>3. ASSUME FamilyOf[job.of.data] = job.of.family
        PROVE  IsWay(q, job.of.data, job.of.to) /\ \A i \in DOMAIN q : Known(q[i])
    BY <1>1, <1>3, <1>6, <2>3 
  <2>. HIDE DEF q
  <2>. QED
    BY <1>2, <2>1, <2>2, <2>3 DEF Underway, MigratesAlongChain
<1>7. CASE /\ job.v \in DOMAIN known
           /\ job' = [job EXCEPT !.path = Append(@, known[job.v]),
                                 !.v = ProgenyOf[known[job.v]]]
           /\ UNCHANGED result
  <2>. DEFINE d == known[job.v]
              q == Append(job.path, d)
  <2>1. d \in Classes /\ Known(d) /\ FamilyOf[d] = job.of.family /\ VersionOf[d] = job.v
    BY <1>1, <1>7, VersionsKnown DEF known
  <2>2. job' = [busy |-> job.busy, of |-> job.of, path |-> q, v |-> ProgenyOf[d]]
    <3>. HIDE DEF d
    <3>. QED
      BY <1>7 DEF Inv, JobOK, d
  <2>3. q # <<>> /\ q[Len(q)] = d
    BY <1>4
  <2>4. ASSUME FamilyOf[job.of.data] = job.of.family
        PROVE  IsWay(q, job.of.data, d) /\ \A i \in DOMAIN q : Known(q[i])
    BY <1>3, <2>1, <2>4
  <2>. HIDE DEF q, d
  <2>5. Underway'
    BY <1>1, <1>2, <2>1, <2>2, <2>3, <2>4 DEF Underway
  <2>6. MigratesAlongChain'
    BY <1>2, <1>7 DEF MigratesAlongChain
  <2>. QED
    BY <2>5, <2>6
<1>. QED
  BY <1>5, <1>6, <1>7 DEF DecorateStep, known

\* A call that goes into the loop, and a call that returns.
LEMMA DecorateWay ==
  ASSUME UNCHANGED families, NEW of, NEW c \in Classes, Decorate(of, c), of.data = c,
         of.to \in Classes, FamilyOf[of.to] = of.family, Known(of.to), Known(c)
  PROVE  (Underway /\ MigratesAlongChain)'
<1>1. /\ job' = [busy |-> TRUE, of |-> of, path |-> <<c>>, v |-> ProgenyOf[c]]
      /\ result'.err = "none"
  BY DEF Decorate, NoResult
<1>2. Known(of.to)' /\ Known(c)'
  BY DEF Known, Versions
<1>3. Underway'
  BY <1>1, <1>2, FirstOfWay DEF Underway
<1>. QED
  BY <1>1, <1>3 DEF MigratesAlongChain

LEMMA FailsWay ==
  ASSUME NEW of, NEW err \in {"SchemaUnmatch", "InSufficientData", "panic"},
         Return(err, of, <<>>)
  PROVE  (Underway /\ MigratesAlongChain)'
  BY DEF Return, NoJob, Underway, MigratesAlongChain

\* An object that is handed out as the class it has.
LEMMA AsItIsWay ==
  ASSUME UNCHANGED families, NEW of, NEW c \in Classes, Return("nil", of, <<c>>),
         of.data = c, Known(c),
         FamilyOf[c] = of.family => \/ c = of.to
                                    \/ of.call = "Unmarshal" /\ ProgenyOf[c] = NoName
  PROVE  (Underway /\ MigratesAlongChain)'
<1>1. ~job'.busy /\ result' = [err |-> "nil", of |-> of, path |-> <<c>>]
  BY DEF Return, NoJob
<1>2. Known(c)'
  BY DEF Known, Versions
<1>3. /\ <<c>>[Len(<<c>>)] = c /\ DOMAIN <<c>> = {1} /\ <<c>>[1] = c
  OBVIOUS
<1>. DEFINE q == <<c>>
<1>4. IsWay(q, c, c)
  BY FirstOfWay
<1>. HIDE DEF q
<1>. QED
  BY <1>1, <1>2, <1>3, <1>4 DEF Underway, MigratesAlongChain, q

LEMMA UnmarshalToWay ==
  ASSUME TypesTellApart, Inv, NEW c \in Classes, NEW dest \in Classes, NEW held \in Held,
         UnmarshalTo(c, held, dest)
  PROVE  (Underway /\ MigratesAlongChain)'
<1>. DEFINE f == FamilyOf[dest]
            of == [call |-> "UnmarshalTo", data |-> c, to |-> dest, family |-> f]
            Goes == /\ f \in DOMAIN families /\ VersionOf[dest] \in DOMAIN Versions(f)
                    /\ TypesOf[c] \in DOMAIN types
<1>1. /\ UNCHANGED families
      /\ \/ \E err \in {"SchemaUnmatch", "InSufficientData", "panic"} : Return(err, of, <<>>)
         \/ Goes /\ TypesOf[dest] = TypesOf[c] /\ Return("nil", of, <<dest>>)
         \/ Goes /\ Decorate(of, types[TypesOf[c]])
  BY Zenon DEF UnmarshalTo
<1>2. of.call = "UnmarshalTo" /\ of.data = c /\ of.to = dest /\ of.family = f
  OBVIOUS
<1>3. Goes => types[TypesOf[c]] = c /\ Known(c) /\ Known(dest)
  BY OwnClass DEF Known
<1>. HIDE DEF of
<1>4. CASE \E err \in {"SchemaUnmatch", "InSufficientData", "panic"} : Return(err, of, <<>>)
  BY <1>4, FailsWay
<1>5. CASE Goes /\ TypesOf[dest] = TypesOf[c] /\ Return("nil", of, <<dest>>)
  <2>1. dest = c
    BY <1>5 DEF TypesTellApart
  <2>. QED
    BY <1>1, <1>2, <1>3, <1>5, <2>1, AsItIsWay
<1>6. CASE Goes /\ Decorate(of, types[TypesOf[c]])
  BY <1>1, <1>2, <1>3, <1>6, DecorateWay
<1>. QED
  BY <1>1, <1>4, <1>5, <1>6

LEMMA UnmarshalWay ==
  ASSUME TypesTellApart, Inv, NEW c \in Classes, NEW held \in Held, NEW f \in Families,
         Unmarshal(c, held, f)
  PROVE  (Underway /\ MigratesAlongChain)'
<1>. DEFINE own == types[TypesOf[c]]
            to == IF f \in DOMAIN families THEN Versions(f)[families[f].current] ELSE NoName
            of == [call |-> "Unmarshal", data |-> c, to |-> to, family |-> f]
            Goes == f \in DOMAIN families /\ TypesOf[c] \in DOMAIN types
<1>1. /\ UNCHANGED families
      /\ \/ \E err \in {"SchemaUnmatch", "InSufficientData", "panic"} : Return(err, of, <<>>)
         \/ /\ Goes /\ (ProgenyOf[own] = NoName \/ VersionOf[own] = families[f].current)
            /\ Return("nil", of, <<own>>)
         \/ Goes /\ Decorate(of, own)
  BY Zenon DEF Unmarshal
<1>2. of.call = "Unmarshal" /\ of.data = c /\ of.to = to /\ of.family = f
  OBVIOUS
<1>3. Goes => own = c /\ Known(c)
  BY OwnClass
<1>4. Goes => to \in Classes /\ Known(to) /\ FamilyOf[to] = f /\ VersionOf[to] = families[f].current
  <2>. SUFFICES ASSUME Goes
                PROVE  to \in Classes /\ Known(to) /\ FamilyOf[to] = f
                       /\ VersionOf[to] = families[f].current
    OBVIOUS
  <2>1. families[f].current \in DOMAIN Versions(f)
    BY DEF Inv, FamiliesOK, Versions
  <2>. QED
    BY <2>1, VersionsKnown
<1>. HIDE DEF of, to, own
<1>5. CASE \E err \in {"SchemaUnmatch", "InSufficientData", "panic"} : Return(err, of, <<>>)
  BY <1>5, FailsWay
<1>6. CASE /\ Goes /\ (ProgenyOf[own] = NoName \/ VersionOf[own] = families[f].current)
           /\ Return("nil", of, <<own>>)
  <2>1. FamilyOf[c] = f => ProgenyOf[c] = NoName \/ c = to
    BY <1>3, <1>4, <1>6, RegistryAssumption
  <2>. QED
    BY <1>1, <1>2, <1>3, <1>6, <2>1, AsItIsWay
<1>7. CASE Goes /\ Decorate(of, own)
  BY <1>1, <1>2, <1>3, <1>4, <1>7, DecorateWay
<1>. QED
  BY <1>1, <1>5, <1>6, <1>7

LEMMA MarshalToWay ==
  ASSUME NEW c \in Classes, MarshalTo(c)
  PROVE  (Underway /\ MigratesAlongChain)'
<1>. DEFINE of == [call |-> "MarshalTo", data |-> c, to |-> c, family |-> FamilyOf[c]]
<1>1. /\ UNCHANGED families
      /\ \/ Known(c) /\ Return("nil", of, <<c>>)
         \/ Return("SchemaUnmatch", of, <<>>)
  BY Zenon DEF MarshalTo, Known
<1>2. of.data = c /\ of.to = c
  OBVIOUS
<1>. HIDE DEF of
<1>3. CASE Known(c) /\ Return("nil", of, <<c>>)
  BY <1>1, <1>2, <1>3, AsItIsWay
<1>4. CASE Return("SchemaUnmatch", of, <<>>)
  BY <1>4, FailsWay
<1>. QED
  BY <1>1, <1>3, <1>4

LEMMA StepWay ==
  ASSUME TypesTellApart, Inv, Underway, MigratesAlongChain, [Next]_vars
  PROVE  (Underway /\ MigratesAlongChain)'
<1>1. ASSUME NEW c \in Classes, Register(c) \/ RegisterCurrent(c)
      PROVE  (Underway /\ MigratesAlongChain)'
  <2>1. ~job.busy /\ job' = job /\ result' = NoResult
    BY <1>1 DEF Register, RegisterCurrent, Running
  <2>. QED
    BY <2>1 DEF Underway, MigratesAlongChain, NoResult
<1>2. CASE UNCHANGED vars
  <2>1. \A c : Known(c)' <=> Known(c)
    BY <1>2 DEF vars, Known, Versions
  <2>. QED
    BY <1>2, <2>1 DEF vars, Underway, MigratesAlongChain
<1>. QED
  BY <1>1, <1>2, MarshalToWay, UnmarshalToWay, UnmarshalWay, DecorateStepWay DEF Next

(***************************************************************************)
(* An object never comes out as a class that its chain of progenies does   *)
(* not lead to, and no version on the way is left out or unregistered,     *)
(* however many versions and families there are, whenever Types tell       *)
(* classes apart (UnmarshalTo, Unmarshal, decorate).                       *)
(***************************************************************************)
THEOREM MigrationFollowsChain ==
  ASSUME TypesTellApart
  PROVE  Spec => []MigratesAlongChain
<1>1. Init => Underway /\ MigratesAlongChain
  BY InitWay
<1>2. Inv /\ Underway /\ MigratesAlongChain /\ [Next]_vars
        => (Underway /\ MigratesAlongChain)'
  BY StepWay
<1>. QED
  BY <1>1, <1>2, AlwaysInv, PTL DEF Spec
-----------------------------------------------------------------------------
(* When an object is refused. *)

\* The Types of a known class are registered.
KnownByTypes == \A c \in Classes : Known(c) => TypesOf[c] \in DOMAIN types

\* No version is the empty string.
Named == \A f \in DOMAIN families : NoName \notin DOMAIN Versions(f)

Passable(p) == \A i \in DOMAIN p : Known(p[i])

\* decorate's loop has come part of any way there is over known classes.
Ahead ==
  job.busy =>
    \A p \in Seq(Classes) : IsWay(p, job.of.data, job.of.to) /\ Passable(p) =>
      Len(job.path) < Len(p) /\ p[Len(job.path)] = job.path[Len(job.path)]

\* The result is a refusal only when no way is over known classes.
Refused ==
  result.err = "SchemaUnmatch" =>
    \A p \in Seq(Classes) : IsWay(p, result.of.data, result.of.to) => ~Passable(p)

LEMMA RefusedIsWithout == Refused => RefusedWithoutWay
<1>. SUFFICES ASSUME Refused, result.err = "SchemaUnmatch",
                     NEW p \in Ways(result.of.data, result.of.to)
              PROVE  \E i \in DOMAIN p : ~Known(p[i])
  BY DEF RefusedWithoutWay
<1>1. p \in Seq(Classes) /\ IsWay(p, result.of.data, result.of.to)
  BY DEF Ways, SeqOf
<1>. QED
  BY <1>1 DEF Refused, Passable

LEMMA InitAhead == Init => KnownByTypes /\ Named /\ Ahead /\ Refused
  BY DEF Init, NoJob, NoResult, KnownByTypes, Known, Named, Ahead, Refused

\* What a call that looks a class up leaves, and what Register does.
LEMMA TablesKept ==
  ASSUME KnownByTypes, Named, UNCHANGED <<families, types>>
  PROVE  /\ (KnownByTypes /\ Named)'
         /\ \A c : Known(c)' <=> Known(c)
         /\ \A p : Passable(p)' <=> Passable(p)
<1>1. \A c : Known(c)' <=> Known(c)
  BY DEF Known, Versions
<1>. QED
  BY <1>1 DEF KnownByTypes, Named, Versions, Passable

LEMMA RegisterTables ==
  ASSUME Inv, KnownByTypes, Named, NEW c \in Classes, Register(c) \/ RegisterCurrent(c)
  PROVE  (KnownByTypes /\ Named)'
<1>1. CASE UNCHANGED <<families, types>>
  BY <1>1, TablesKept
<1>2. CASE ~UNCHANGED <<families, types>>
  <2>1. /\ Added(families', c) /\ types' = Put(types, TypesOf[c], c)
        /\ VersionOf[c] # NoName
    <3>1. ~Nameless(c)
      BY <1>2 DEF Register, RegisterCurrent
    <3>. QED
      BY <1>2, <3>1, RegisterAdds DEF Nameless
  <2>2. DOMAIN types' = DOMAIN types \cup {TypesOf[c]}
    BY <2>1 DEF Put
  <2>3. ASSUME NEW d \in Classes, Known(d)' PROVE TypesOf[d] \in DOMAIN types'
    <3>1. CASE Known(d)
      BY <2>2, <3>1 DEF KnownByTypes
    <3>2. CASE ~Known(d)
      <4>1. FamilyOf[d] \in DOMAIN families' /\ VersionOf[d] \in DOMAIN families'[FamilyOf[d]].versions
        BY <2>3 DEF Known, Versions
      <4>2. FamilyOf[d] \notin DOMAIN families \/ VersionOf[d] \notin DOMAIN families[FamilyOf[d]].versions
        BY <3>2 DEF Known, Versions
      <4>3. FamilyOf[d] = FamilyOf[c] /\ VersionOf[d] = VersionOf[c]
        BY <2>1, <4>1, <4>2 DEF Added
      <4>4. d = c
        BY <4>3, RegistryAssumption
      <4>. QED
        BY <2>2, <4>4
    <3>. QED
      BY <3>1, <3>2
  <2>4. ASSUME NEW f \in DOMAIN families' PROVE NoName \notin DOMAIN families'[f].versions
    <3>1. CASE f \in DOMAIN families
      <4>1. NoName \notin DOMAIN families[f].versions
        BY <3>1 DEF Named, Versions
      <4>. QED
        BY <2>1, <3>1, <4>1 DEF Added
    <3>2. CASE f \notin DOMAIN families
      BY <2>1, <2>4, <3>2 DEF Added
    <3>. QED
      BY <3>1, <3>2
  <2>. QED
    BY <2>3, <2>4 DEF KnownByTypes, Named, Versions
<1>. QED
  BY <1>1, <1>2

\* A call that returns without a refusal, refuses for a reason, or goes on.
LEMMA ReturnAhead ==
  ASSUME UNCHANGED families, NEW of, NEW err, NEW path, Return(err, of, path),
         err = "SchemaUnmatch" =>
           \A p \in Seq(Classes) : IsWay(p, of.data, of.to) => ~Passable(p)
  PROVE  (Ahead /\ Refused)'
<1>1. ~job'.busy /\ result' = [err |-> err, of |-> of, path |-> path]
  BY DEF Return, NoJob
<1>2. \A p : Passable(p)' <=> Passable(p)
  BY DEF Passable, Known, Versions
<1>. QED
  BY <1>1, <1>2 DEF Ahead, Refused

LEMMA DecorateAhead ==
  ASSUME UNCHANGED families, NEW of, NEW c, Decorate(of, c), of.data = c, of.to # c
  PROVE  (Ahead /\ Refused)'
<1>1. /\ job' = [busy |-> TRUE, of |-> of, path |-> <<c>>, v |-> ProgenyOf[c]]
      /\ result' = NoResult
  BY DEF Decorate
<1>2. ASSUME NEW p \in Seq(Classes), IsWay(p, c, of.to) PROVE 1 < Len(p) /\ p[1] = c
  BY <1>2 DEF IsWay
<1>3. Len(<<c>>) = 1 /\ <<c>>[1] = c
  OBVIOUS
<1>. QED
  BY <1>1, <1>2, <1>3 DEF Ahead, Refused, NoResult

\* The next class of a way is the one that decorate looks up.
LEMMA NextAhead ==
  ASSUME Inv, Underway, Ahead, job.busy, NEW p \in Seq(Classes),
         IsWay(p, job.of.data, job.of.to), Passable(p)
  PROVE  LET n == Len(job.path)
         IN  /\ n \in Nat \ {0} /\ n < Len(p) /\ p[n + 1] \in Classes /\ Known(p[n + 1])
             /\ FamilyOf[p[n + 1]] = job.of.family /\ VersionOf[p[n + 1]] = job.v
             /\ p[Len(p)] = job.of.to
<1>. DEFINE n == Len(job.path)
            last == job.path[n]
<1>1. job.path \in Seq(Classes) /\ job.path # <<>> /\ n \in Nat \ {0}
  BY DEF Underway, Inv, JobOK
<1>2. n < Len(p) /\ p[n] = last
  BY DEF Ahead
<1>3. Len(p) \in DOMAIN p /\ n + 1 \in DOMAIN p /\ n \in 1 .. Len(p) - 1
  BY <1>1, <1>2
<1>4. FamilyOf[job.of.to] = job.of.family
  BY DEF Underway
<1>5. FamilyOf[job.of.data] = job.of.family
  BY <1>3, <1>4 DEF IsWay
<1>6. ProgenyOf[last] = job.v
  BY <1>5 DEF Underway
<1>7. FamilyOf[p[n + 1]] = FamilyOf[job.of.data] /\ ProgenyOf[p[n]] = VersionOf[p[n + 1]]
  BY <1>3 DEF IsWay
<1>8. p[n + 1] \in Classes /\ Known(p[n + 1])
  BY <1>3 DEF Passable
<1>9. p[Len(p)] = job.of.to
  BY DEF IsWay
<1>. QED
  BY <1>1, <1>2, <1>5, <1>6, <1>7, <1>8, <1>9

LEMMA DecorateStepAhead ==
  ASSUME Inv, Named, Underway, Ahead, Refused, DecorateStep
  PROVE  (Ahead /\ Refused)'
<1>. DEFINE known == Versions(job.of.family)
            n == Len(job.path)
<1>1. /\ job.busy /\ UNCHANGED <<families, types>>
      /\ job.path \in Seq(Classes) /\ job.path # <<>> /\ n \in Nat
      /\ job.of.family \in DOMAIN families
  BY DEF DecorateStep, Underway, Inv, JobOK
<1>2. ASSUME NEW p \in Seq(Classes), IsWay(p, job.of.data, job.of.to), Passable(p)
      PROVE  job.v # NoName /\ job.v \in DOMAIN known
  BY <1>1, <1>2, NextAhead DEF Known, Named
<1>. HIDE DEF known
<1>3. CASE (job.v = NoName \/ job.v \notin DOMAIN known) /\ Return("SchemaUnmatch", job.of, <<>>)
  BY <1>1, <1>2, <1>3, ReturnAhead
<1>4. CASE Return("nil", job.of, Append(job.path, job.of.to))
  BY <1>1, <1>4, ReturnAhead
<1>5. CASE /\ job.v # VersionOf[job.of.to] /\ job.v \in DOMAIN known
           /\ job' = [job EXCEPT !.path = Append(@, known[job.v]),
                                 !.v = ProgenyOf[known[job.v]]]
           /\ UNCHANGED result
  <2>. DEFINE d == known[job.v]
              q == Append(job.path, d)
  <2>1. d \in Classes /\ FamilyOf[d] = job.of.family /\ VersionOf[d] = job.v
    BY <1>1, <1>5, VersionsKnown DEF known
  <2>2. job' = [busy |-> job.busy, of |-> job.of, path |-> q, v |-> ProgenyOf[d]]
    <3>. HIDE DEF d
    <3>. QED
      BY <1>5 DEF Inv, JobOK, d
  <2>3. Len(q) = n + 1 /\ q[n + 1] = d
    <3>. HIDE DEF d
    <3>. QED
      BY <1>1
  <2>4. ASSUME NEW p \in Seq(Classes), IsWay(p, job.of.data, job.of.to), Passable(p)
        PROVE  n + 1 < Len(p) /\ p[n + 1] = d
    <3>1. /\ n < Len(p) /\ p[n + 1] \in Classes
          /\ FamilyOf[p[n + 1]] = job.of.family /\ VersionOf[p[n + 1]] = job.v
          /\ p[Len(p)] = job.of.to
      BY <1>1, <2>4, NextAhead
    <3>2. p[n + 1] = d
      BY <2>1, <3>1, RegistryAssumption
    <3>3. n + 1 # Len(p)
      BY <1>5, <3>1
    <3>. QED
      BY <1>1, <3>1, <3>2, <3>3
  <2>5. \A p : Passable(p)' <=> Passable(p)
    BY <1>1 DEF Passable, Known, Versions
  <2>. HIDE DEF q, d
  <2>6. Ahead'
    BY <2>2, <2>3, <2>4, <2>5 DEF Ahead
  <2>7. Refused'
    BY <1>5, <2>5 DEF Refused
  <2>. QED
    BY <2>6, <2>7
<1>. QED
  BY <1>3, <1>4, <1>5 DEF DecorateStep, known

LEMMA UnmarshalToAhead ==
  ASSUME TypesTellApart, Inv, KnownByTypes, NEW c \in Classes, NEW dest \in Classes,
         NEW held \in Held, UnmarshalTo(c, held, dest)
  PROVE  (Ahead /\ Refused)'
<1>. DEFINE f == FamilyOf[dest]
            of == [call |-> "UnmarshalTo", data |-> c, to |-> dest, family |-> f]
            Lost == f \notin DOMAIN families \/ TypesOf[c] \notin DOMAIN types
<1>1. /\ UNCHANGED families
      /\ \/ \E err \in {"InSufficientData", "panic"} : Return(err, of, <<>>)
         \/ Lost /\ Return("SchemaUnmatch", of, <<>>)
         \/ Return("nil", of, <<dest>>)
         \/ /\ TypesOf[c] \in DOMAIN types /\ TypesOf[dest] # TypesOf[c]
            /\ Decorate(of, types[TypesOf[c]])
  BY Zenon DEF UnmarshalTo
<1>2. of.data = c /\ of.to = dest
  OBVIOUS
<1>3. ASSUME Lost, NEW p \in Seq(Classes), IsWay(p, c, dest) PROVE ~Passable(p)
  <2>1. 1 \in DOMAIN p /\ Len(p) \in DOMAIN p /\ p[1] = c /\ p[Len(p)] = dest
    BY <1>3 DEF IsWay
  <2>2. ~Known(c) \/ ~Known(dest)
    BY <1>3 DEF KnownByTypes, Known
  <2>. QED
    BY <2>1, <2>2 DEF Passable
<1>. HIDE DEF of, Lost
<1>4. CASE \E err \in {"InSufficientData", "panic"} : Return(err, of, <<>>)
  BY <1>1, <1>4, ReturnAhead
<1>5. CASE Lost /\ Return("SchemaUnmatch", of, <<>>)
  BY <1>1, <1>2, <1>3, <1>5, ReturnAhead
<1>6. CASE Return("nil", of, <<dest>>)
  BY <1>1, <1>6, ReturnAhead
<1>7. CASE /\ TypesOf[c] \in DOMAIN types /\ TypesOf[dest] # TypesOf[c]
           /\ Decorate(of, types[TypesOf[c]])
  <2>1. types[TypesOf[c]] = c /\ dest # c
    BY <1>7, OwnClass
  <2>. QED
    BY <1>1, <1>2, <1>7, <2>1, DecorateAhead
<1>. QED
  BY <1>1, <1>4, <1>5, <1>6, <1>7

LEMMA UnmarshalAhead ==
  ASSUME TypesTellApart, Inv, KnownByTypes, NEW c \in Classes, NEW held \in Held,
         NEW f \in Families, Unmarshal(c, held, f)
  PROVE  (Ahead /\ Refused)'
<1>. DEFINE own == types[TypesOf[c]]
            to == IF f \in DOMAIN families THEN Versions(f)[families[f].current] ELSE NoName
            of == [call |-> "Unmarshal", data |-> c, to |-> to, family |-> f]
            Lost == f \notin DOMAIN families \/ TypesOf[c] \notin DOMAIN types
<1>1. /\ UNCHANGED families
      /\ \/ \E err \in {"InSufficientData", "panic"} : Return(err, of, <<>>)
         \/ Lost /\ Return("SchemaUnmatch", of, <<>>)
         \/ Return("nil", of, <<own>>)
         \/ /\ f \in DOMAIN families /\ TypesOf[c] \in DOMAIN types
            /\ VersionOf[own] # families[f].current /\ Decorate(of, own)
  BY Zenon DEF Unmarshal
<1>2. of.data = c /\ of.to = to
  OBVIOUS
<1>3. ASSUME Lost, NEW p \in Seq(Classes), IsWay(p, c, to) PROVE ~Passable(p)
  <2>1. 1 \in DOMAIN p /\ Len(p) \in DOMAIN p /\ p[1] = c /\ p[Len(p)] = to
    BY <1>3 DEF IsWay
  <2>2. CASE f \notin DOMAIN families
    <3>1. to = NoName
      BY <2>2
    <3>. QED
      BY <2>1, <3>1, RegistryAssumption
  <2>3. CASE TypesOf[c] \notin DOMAIN types
    BY <2>1, <2>3 DEF KnownByTypes, Passable
  <2>. QED
    BY <1>3, <2>2, <2>3
<1>4. f \in DOMAIN families => VersionOf[to] = families[f].current
  <2>1. f \in DOMAIN families => families[f].current \in DOMAIN Versions(f)
    BY DEF Inv, FamiliesOK, Versions
  <2>. QED
    BY <2>1, VersionsKnown
<1>5. TypesOf[c] \in DOMAIN types => own = c
  BY OwnClass
<1>. HIDE DEF of, Lost, to, own
<1>6. CASE \E err \in {"InSufficientData", "panic"} : Return(err, of, <<>>)
  BY <1>1, <1>6, ReturnAhead
<1>7. CASE Lost /\ Return("SchemaUnmatch", of, <<>>)
  BY <1>1, <1>2, <1>3, <1>7, ReturnAhead
<1>8. CASE Return("nil", of, <<own>>)
  BY <1>1, <1>8, ReturnAhead
<1>9. CASE /\ f \in DOMAIN families /\ TypesOf[c] \in DOMAIN types
           /\ VersionOf[own] # families[f].current /\ Decorate(of, own)
  BY <1>1, <1>2, <1>4, <1>5, <1>9, DecorateAhead
<1>. QED
  BY <1>1, <1>6, <1>7, <1>8, <1>9

LEMMA MarshalToAhead ==
  ASSUME NEW c \in Classes, MarshalTo(c)
  PROVE  (Ahead /\ Refused)'
<1>. DEFINE of == [call |-> "MarshalTo", data |-> c, to |-> c, family |-> FamilyOf[c]]
<1>1. /\ UNCHANGED families
      /\ \/ Return("nil", of, <<c>>)
         \/ ~Known(c) /\ Return("SchemaUnmatch", of, <<>>)
  BY Zenon DEF MarshalTo, Known
<1>2. of.data = c /\ of.to = c
  OBVIOUS
<1>. HIDE DEF of
<1>3. ASSUME ~Known(c), NEW p \in Seq(Classes), IsWay(p, c, c) PROVE ~Passable(p)
  BY <1>3 DEF IsWay, Passable
<1>4. CASE Return("nil", of, <<c>>)
  BY <1>1, <1>4, ReturnAhead
<1>5. CASE ~Known(c) /\ Return("SchemaUnmatch", of, <<>>)
  BY <1>1, <1>2, <1>3, <1>5, ReturnAhead
<1>. QED
  BY <1>1, <1>4, <1>5

LEMMA StepAhead ==
  ASSUME TypesTellApart, Inv, Underway, KnownByTypes, Named, Ahead, Refused, [Next]_vars
  PROVE  (KnownByTypes /\ Named /\ Ahead /\ Refused)'
<1>1. ASSUME NEW c \in Classes, Register(c) \/ RegisterCurrent(c)
      PROVE  (KnownByTypes /\ Named /\ Ahead /\ Refused)'
  <2>1. ~job.busy /\ job' = job /\ result' = NoResult
    BY <1>1 DEF Register, RegisterCurrent, Running
  <2>2. (Ahead /\ Refused)'
    BY <2>1 DEF Ahead, Refused, NoResult
  <2>. QED
    BY <1>1, <2>2, RegisterTables
<1>2. CASE UNCHANGED <<families, types>>
  <2>1. (KnownByTypes /\ Named)'
    BY <1>2, TablesKept
  <2>2. CASE UNCHANGED vars
    <3>1. \A p : Passable(p)' <=> Passable(p)
      BY <1>2 DEF Passable, Known, Versions
    <3>. QED
      BY <2>1, <2>2, <3>1 DEF vars, Ahead, Refused
  <2>3. CASE ~UNCHANGED vars /\ ~\E c \in Classes : Register(c) \/ RegisterCurrent(c)
    <3>1. \/ \E c \in Classes : MarshalTo(c)
          \/ \E c, dest \in Classes, held \in Held : UnmarshalTo(c, held, dest)
          \/ \E c \in Classes, held \in Held, f \in Families : Unmarshal(c, held, f)
          \/ DecorateStep
      BY <2>3 DEF Next
    <3>2. (Ahead /\ Refused)'
      BY <3>1, MarshalToAhead, UnmarshalToAhead, UnmarshalAhead, DecorateStepAhead
    <3>. QED
      BY <2>1, <3>2
  <2>. QED
    BY <1>1, <2>2, <2>3
<1>3. (\E c \in Classes : Register(c) \/ RegisterCurrent(c)) \/ UNCHANGED <<families, types>>
  BY DEF Next, vars, MarshalTo, UnmarshalTo, Unmarshal, DecorateStep
<1>. QED
  BY <1>1, <1>2, <1>3

(***************************************************************************)
(* A call fails with SchemaUnmatch only when no way of progenies leads     *)
(* from the class of the object to the one asked for, or a class on it is  *)
(* not registered, for any families and versions, whenever Types tell      *)
(* classes apart (MarshalTo, UnmarshalTo, Unmarshal, decorate).            *)
(***************************************************************************)
THEOREM RefusedOnlyWithoutWay ==
  ASSUME TypesTellApart
  PROVE  Spec => []RefusedWithoutWay
<1>. DEFINE IInv == Inv /\ Underway /\ MigratesAlongChain
                    /\ KnownByTypes /\ Named /\ Ahead /\ Refused
<1>1. Init => IInv
  BY InitInv, InitWay, InitAhead
<1>2. IInv /\ [Next]_vars => IInv'
  BY StepInv, StepWay, StepAhead
<1>3. IInv => RefusedWithoutWay
  BY RefusedIsWithout
<1>. HIDE DEF IInv
<1>. QED
  BY <1>1, <1>2, <1>3, PTL DEF Spec
=============================================================================
