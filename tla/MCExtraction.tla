---------------------------- MODULE MCExtraction ----------------------------
(***************************************************************************)
(* Instances of Extraction for TLC.  A stream is a few pieces one behind   *)
(* the other: good frames, one of them with a magic in its payload, frames *)
(* damaged in the tag, the length or the payload, and noise that begins    *)
(* like a magic or is one.                                                 *)
(***************************************************************************)
EXTENDS Extraction

T == 201
S == 202
V == 203
Tag == 77
Head17 == 17

Word == <<T, S, V>>
FrameOf(tag, schema, len, payload, sum) == Word \o <<tag, schema, len>> \o payload \o <<Head17, sum>>

Good1 == FrameOf(Tag, 1, 1, <<7>>, 91)
Good2 == FrameOf(Tag, 2, 4, <<8>> \o Word, 92)
Good == {Good1, Good2}

BadTag    == FrameOf(5, 1, 1, <<7>>, 91)
BadLength == FrameOf(Tag, 1, -1, <<7>>, 91)
TooLong   == FrameOf(Tag, 1, 6, <<7>>, 91)
BadData   == FrameOf(Tag, 2, 4, <<9>> \o Word, 92)
BadSum    == FrameOf(Tag, 1, 1, <<7>>, 90)
Noise     == <<T, T, S>>
CutShort  == SubSeq(Good1, 1, 5)

Damage == {BadTag, BadLength, TooLong, BadData, BadSum, Noise, CutShort, Word}

Streams == {<<p, g>> : p \in Damage, g \in Good}
  \cup {<<g, p, h>> : p \in Damage, g \in Good, h \in Good}
  \cup {<<p, q, g>> : p \in Damage, q \in Damage, g \in Good}
MCWires == {FlattenSeq(s) : s \in Streams}
=============================================================================
