----------------------------- MODULE MCRegistry -----------------------------
(***************************************************************************)
(* Instances of Registry for TLC: three versions of one class, each the    *)
(* progeny of the one before; a class of another family, of the second     *)
(* version there too, whose progeny is not registered; and a type without  *)
(* a family.  "clash": the other family's class has the fields of the      *)
(* first version.                                                          *)
(***************************************************************************)
EXTENDS Registry, TLC

CONSTANTS a1, a2, a3, b1, plain

Classes5 == {a1, a2, a3, b1, plain}

Family   == (a1 :> "A") @@ (a2 :> "A") @@ (a3 :> "A") @@ (b1 :> "B") @@ (plain :> "")
Version  == (a1 :> "1") @@ (a2 :> "2") @@ (a3 :> "3") @@ (b1 :> "2") @@ (plain :> "1")
Progeny  == (a1 :> "2") @@ (a2 :> "3") @@ (a3 :> "") @@ (b1 :> "3") @@ (plain :> "")
OwnTypes == (a1 :> 1) @@ (a2 :> 2) @@ (a3 :> 3) @@ (b1 :> 4) @@ (plain :> 5)
ClashTypes == (a1 :> 1) @@ (a2 :> 2) @@ (a3 :> 3) @@ (b1 :> 1) @@ (plain :> 5)
=============================================================================
