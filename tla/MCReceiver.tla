----------------------------- MODULE MCReceiver -----------------------------
(***************************************************************************)
(* Instances of Receiver for TLC: an object of two fragments and one of    *)
(* one fragment, both of the one type there is.                            *)
(***************************************************************************)
EXTENDS Receiver, TLC

CONSTANTS long, short, typeA, tid1, tid2, v1

Objects2  == {long, short}
TypesOf2  == (long :> typeA) @@ (short :> typeA)
TidOf2    == (long :> tid1) @@ (short :> tid2)
Lengths2  == (long :> <<2, 1>>) @@ (short :> <<1>>)
LocTypes2 == (v1 :> typeA)
=============================================================================
