----------------------------- MODULE MCRBuffer -----------------------------
(***************************************************************************)
(* An instance of RBuffer for TLC: an object of three fragments, of a type *)
(* with a class of its own, and one of two fragments, of a type that two   *)
(* classes claim, so that registering one takes the type from the other.   *)
(***************************************************************************)
EXTENDS RBuffer, TLC

CONSTANTS long, pair, typeA, typeB, tid1, v1, v2, v3

Objects2 == {long, pair}

TypesOf2  == (long :> typeA) @@ (pair :> typeB)
TidOf2    == (long :> tid1) @@ (pair :> tid1)
Lengths2  == (long :> <<2, 2, 1>>) @@ (pair :> <<1, 2>>)
LocTypes2 == (v1 :> typeA) @@ (v2 :> typeB) @@ (v3 :> typeB)
=============================================================================
