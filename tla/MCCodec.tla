------------------------------ MODULE MCCodec -------------------------------
(***************************************************************************)
(* Instances of Codec for TLC: classes that between them have every kind   *)
(* of field, classes that differ in pointers or arrays only (equal Types), *)
(* and objects with nil, empty, short and too long values.                 *)
(***************************************************************************)
EXTENDS Codec

int8  == Basic(12, 1)
int16 == Basic(14, 2)
point == Struct(<<int8, Ignored, Pointer(String)>>)

Classes ==
     "flat"     :> Struct(<<Ignored, int16, String, Time>>)
  @@ "pointers" :> Struct(<<Pointer(int16), Ignored, Pointer(String), Pointer(Time)>>)
  @@ "slices"   :> Struct(<<Slice(int16), Slice(String)>>)
  @@ "hanging"  :> Struct(<<Pointer(Slice(int16)), Slice(Pointer(String))>>)
  @@ "arrays"   :> Struct(<<Array(2, int16), Array(2, String)>>)
  @@ "objects"  :> Struct(<<Slice(point), Pointer(point)>>)
  @@ "maps"     :> Struct(<<Map(int8, Slice(int16)), Map(String, Pointer(point))>>)
  @@ "bytes"    :> Struct(<<Array(2, Array(2, int8)), int8>>)
  @@ "printed"  :> Struct(<<Slice(Struct(<<int8, String>>)), Map(String, Array(2, int16))>>)
  @@ "doubled"  :> Struct(<<Pointer(Pointer(int8)), int8>>)

Nested ==
     "nested" :> Struct(<<Slice(Slice(int8))>>)
  @@ "matrix" :> Struct(<<Array(2, Array(2, int16))>>)

\* A slice as it is made, and one with capacity to spare.
Made(n, mem) == [len |-> n, mem |-> mem]

Points == {<<<<7>>, 9, Nil>>, <<<<8>>, 9, <<<<5>>>>>>}

Objects ==
     "flat"     :> {<<9, <<1, 2>>, <<>>, <<70>>>>, <<9, <<3, 4>>, <<5, 6>>, <<2024>>>>,
                    <<9, <<3, 4>>, <<5>>, <<10000>>>>}
  @@ "pointers" :> {<<Nil, 9, <<<<5>>>>, Nil>>, <<<<<<1, 2>>>>, 9, Nil, <<<<2024>>>>>>}
  @@ "slices"   :> {<<Nil, Made(0, <<>>)>>, <<Made(2, <<1, 2, 3, 4>>), Made(1, <<<<5>>>>)>>,
                    <<Made(1, <<5, 6, 7, 8>>), Made(3, <<<<5>>, <<>>, <<6, 7>>>>)>>,
                    <<Made(4, <<1, 2, 3, 4, 5, 6, 7, 8>>), Nil>>}
  @@ "hanging"  :> {<<Nil, Made(2, <<<<<<5>>>>, Nil>>)>>, <<<<Nil>>, Nil>>,
                    <<<<Made(1, <<1, 2>>)>>, Made(1, <<<<<<6>>>>>>)>>}
  @@ "arrays"   :> {<<<<1, 2, 3, 4>>, <<<<5>>, <<>>>>>>}
  @@ "objects"  :> {<<Made(1, <<p>>), Nil>> : p \in Points}
                   \cup {<<Made(2, <<p, p>>), <<p>>>> : p \in Points}
  @@ "maps"     :> {<<Nil, (<<5>> :> <<p>>) @@ (<<>> :> Nil)>> : p \in Points}
                   \cup {<<<<1>> :> Made(1, <<1, 2>>) @@ <<2>> :> Nil, x>> : x \in {Nil, [k \in {} |-> 0]}}
                   \cup {<<[k \in {<<1>>, <<2>>, <<3>>, <<4>>} |-> Nil], Nil>>}
  @@ "bytes"    :> {<<<<1, 2, 3, 4>>, <<5>>>>}
  @@ "printed"  :> {<<Made(2, <<<<<<1>>, <<5>>>>, <<<<2>>, <<>>>>>>), y>> :
                               y \in {Nil, <<5>> :> <<1, 2, 3, 4>> @@ <<6>> :> <<5, 6, 7, 8>>}}
  @@ "doubled"  :> {<<x, <<3>>>> : x \in {Nil, <<Nil>>, <<<<<<2>>>>>>}}

NestedObjects ==
     "nested" :> {<<Made(2, <<Made(1, <<1>>), Made(2, <<2, 3>>)>>)>>}
  @@ "matrix" :> {<<<<1, 2, 3, 4, 5, 6, 7, 8>>>>}
=============================================================================
