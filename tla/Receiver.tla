------------------------------ MODULE Receiver ------------------------------
(***************************************************************************)
(* RBuffer.ExtractReader (src/tssd/rbuffer.go) and the application around  *)
(* it: a loop that reads a chunk, extracts and pushes the frames that have *)
(* become complete, and returns when a Buffer is ready or the stream ends. *)
(*                                                                         *)
(* A chunk is the sequence of fragments whose frames it completes          *)
(* (Extraction shows that Extract finds them); it may complete none.       *)
(***************************************************************************)
EXTENDS RBuffer

CONSTANTS MaxFrames,   \* bound: frames completed by one chunk
          EndErrors    \* errors a Read of no bytes may come with

ASSUME MaxFramesAssumption == MaxFrames \in Nat

VARIABLES mode,    \* "idle": not called; "reading": in Read; "draining": the inner loop
          queue,   \* fragments of the chunk that are still to be pushed
          got,     \* got, exit and err of ExtractReader
          exit,
          err,
          result   \* what the last call returned, until the application acts on it

loopVars == <<mode, queue, got, exit, err, result>>
allVars == <<vars, loopVars>>

ReceiverInit ==
  /\ Init
  /\ mode = "idle" /\ queue = <<>> /\ got = FALSE /\ exit = FALSE
  /\ err = "nil" /\ result = "none"

\* Mutant of Call: got is what the last call left.
CallKeepsGot ==
  /\ mode = "idle"
  /\ mode' = "reading" /\ exit' = FALSE /\ err' = "nil" /\ result' = "none"
  /\ UNCHANGED <<vars, queue, got>>

\* The application calls ExtractReader.
Call ==
  /\ mode = "idle"
  /\ mode' = "reading" /\ got' = FALSE /\ exit' = FALSE /\ err' = "nil" /\ result' = "none"
  /\ UNCHANGED <<vars, queue>>

\* Read returns bytes, which complete the frames of these fragments ...
ReadChunk(fragments) ==
  /\ mode = "reading"
  /\ queue' = fragments /\ err' = "nil" /\ mode' = "draining"
  /\ UNCHANGED <<vars, got, exit, result>>

\* Mutant of ReadNothing: the end of the stream does not end the loop.
ReadNothingGoesOn(e) ==
  /\ mode = "reading"
  /\ err' = e /\ mode' = "draining"
  /\ UNCHANGED <<vars, queue, got, exit, result>>

\* ... or returns none.
ReadNothing(e) ==
  /\ mode = "reading"
  /\ exit' = TRUE /\ err' = e /\ mode' = "draining"
  /\ UNCHANGED <<vars, queue, got, result>>

\* Mutant of PushNext: a fragment that is not the last one counts as the end.
PushNextAny ==
  /\ mode = "draining" /\ queue # <<>>
  /\ Push(Head(queue)[1], Head(queue)[2])
  /\ exit' = (answer'.err # "SchemaUnmatch")
  /\ got' = (got \/ exit')
  /\ queue' = Tail(queue)
  /\ UNCHANGED <<mode, err, result>>

\* A frame is extracted: push its fragment.
PushNext ==
  /\ mode = "draining" /\ queue # <<>>
  /\ Push(Head(queue)[1], Head(queue)[2])
  /\ exit' = (answer'.err = "nil")
  /\ got' = (got \/ exit')
  /\ queue' = Tail(queue)
  /\ UNCHANGED <<mode, err, result>>

\* Nothing more to extract: read again, unless it is time to return.
EndDrain ==
  /\ mode = "draining" /\ queue = <<>>
  /\ IF exit THEN mode' = "idle" /\ result' = (IF got THEN "nil" ELSE err)
             ELSE mode' = "reading" /\ UNCHANGED result
  /\ UNCHANGED <<vars, queue, got, exit, err>>

\* Between calls the application registers classes and fetches Buffers.
Setup(l) == mode = "idle" /\ Register(l) /\ UNCHANGED loopVars

Fetch(l, tid) ==
  /\ mode = "idle" /\ Buffer(l, tid) /\ result' = "none"
  /\ UNCHANGED <<mode, queue, got, exit, err>>

\* The fragments there are, and the chunks that may come.
AllFragments == UNION {{o} \X (1 .. N(o)) : o \in Objects}
Arriving == UNION {[1 .. n -> AllFragments] : n \in 0 .. MaxFrames}
MayCome(fragments) ==
  \A o \in Objects : \A i \in 1 .. N(o) :
    arrived[o][i] + Cardinality({k \in DOMAIN fragments : fragments[k] = <<o, i>>}) <= MaxArrivals

ReceiverNext ==
  \/ Call \/ PushNext \/ EndDrain
  \/ \E fragments \in Arriving : MayCome(fragments) /\ ReadChunk(fragments)
  \/ \E e \in EndErrors : ReadNothing(e)
  \/ \E l \in Locations : Setup(l)
  \/ \E l \in Locations, tid \in Tids : Fetch(l, tid)

\* The loop goes on by itself; a stream that is read again and again ends at
\* some time; the application fetches what it finds ready after the calls.
\* Nothing is assumed of what the stream brings.
ReceiverFairness ==
  /\ WF_allVars(PushNext) /\ WF_allVars(EndDrain)
  /\ SF_allVars(\E e \in EndErrors : ReadNothing(e))
  /\ \A l \in Locations, tid \in Tids : SF_allVars(Fetch(l, tid))

ReceiverSpec == ReceiverInit /\ [][ReceiverNext]_allVars /\ ReceiverFairness

-----------------------------------------------------------------------------
Ready == {key \in DOMAIN results : Wanted(results[key]) = 0}

\* Types of the loop's state; got is about a Buffer that is there.
ReceiverTypeOK ==
  /\ TypeOK
  /\ mode \in {"idle", "reading", "draining"}
  /\ queue \in Arriving /\ MayCome(queue)
  /\ {got, exit} \subseteq BOOLEAN
  /\ mode # "idle" /\ got => Ready # {}

(***************************************************************************)
(* ExtractReader that returns nil has a Buffer for the application         *)
(* (ExtractReader, Push, Buffer).                                          *)
(***************************************************************************)
NilMeansReady == result = "nil" => Ready # {}

(***************************************************************************)
(* A Buffer that is ready stays ready until Buffer hands out that very     *)
(* one, whatever arrives late or again, and whatever is registered.        *)
(***************************************************************************)
StaysReady ==
  [][\A key \in Ready :
       \/ key \in Ready'
       \/ returned' = [loc |-> key[1], buf |-> results[key]]]_allVars

(***************************************************************************)
(* What has arrived is delivered: once all fragments of an object of a     *)
(* registered type were pushed, the application gets it in the end, also   *)
(* when the call that completed it reads on (exit), and also when it has   *)
(* returned for another object (ExtractReader, Buffer).                    *)
(***************************************************************************)
ArrivedIsHanded ==
  \A o \in Objects :
    (\A i \in 1 .. N(o) : arrived[o][i] > 0 /\ ~Aside(o, i)) ~> handed[o] > 0
=============================================================================
