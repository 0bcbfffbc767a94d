------------------------------ MODULE Delivery ------------------------------
(***************************************************************************)
(* What fetching one object in fragments promises, seen from outside: the  *)
(* parts come in one by one, in any order, and what is delivered, once all *)
(* are there, is the whole object, its parts in their order.               *)
(***************************************************************************)
EXTENDS Naturals, Sequences

CONSTANT N   \* the number of parts of the object

VARIABLES have,      \* the parts that came in
          delivered  \* the delivered objects, each a sequence of parts

vars == <<have, delivered>>

Whole == [i \in 1 .. N |-> i]

Init == have = {} /\ delivered = {}

Get(i) ==
  /\ have' = have \cup {i}
  /\ UNCHANGED delivered

Deliver ==
  /\ have = 1 .. N
  /\ delivered' = delivered \cup {Whole}
  /\ UNCHANGED have

Next == Deliver \/ \E i \in 1 .. N : Get(i)

Spec == Init /\ [][Next]_vars
=============================================================================
