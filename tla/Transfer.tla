------------------------------ MODULE Transfer ------------------------------
(***************************************************************************)
(* One client fetching one object of N fragments from the echo server of   *)
(* src/examples/transfer, over a channel that loses, duplicates and        *)
(* reorders frames: the client asks for everything once, pushes what       *)
(* arrives into its Buffer, asks again for the fragment Wanted names, and  *)
(* unmarshals the Buffer once nothing is missing.                          *)
(*                                                                         *)
(* The example asks again for one fixed fragment, 2, to show how a damaged *)
(* one is fetched again; here the client asks for the one Wanted names, as *)
(* Push and Wanted are meant to be used.  The example reads frames with    *)
(* calls (ReadFragments, Fragment.Read) that src/tssd no longer has:       *)
(* Receive is what remains of them, an extracted fragment that is pushed.  *)
(*                                                                         *)
(* A frame damaged on the way fails its checksum and is skipped by         *)
(* RBuffer.Extract; a write that fails leaves frames out.  Both are losses *)
(* here.  The channel keeps sets of frames: what is sent twice before it   *)
(* arrives may arrive once, and what arrives may arrive again.             *)
(***************************************************************************)
EXTENDS ReceiveBuffer, Sequences

CONSTANTS N,      \* the number of fragments of the object
          type,   \* its Types hash
          tid     \* its TID

ASSUME TransferAssumption == N \in Nat \ {0} /\ type \in Types /\ tid \in Tids

VARIABLES requests,  \* request frames on their way to the server: numbers, 0 for all
          frames,    \* fragment frames on their way to the client: numbers
          buf,       \* the client's receiving Buffer
          delivered  \* what the client unmarshalled: sequences of payloads

vars == <<requests, frames, buf, delivered>>

\* Fragment i of the served object; its payload is known by its number.
Served(i) == [types |-> type, tid |-> tid, fid |-> IF i = N THEN -i ELSE i,
              payload |-> i, len |-> 1]

Init ==
  /\ requests = {0}
  /\ frames = {}
  /\ buf = EmptyBuffer
  /\ delivered = {}

\* The server reads a request: all fragments for 0, one fragment for its
\* number, nothing for a number there is no fragment of.
Answer(r) ==
  /\ r \in requests
  /\ requests' = requests \ {r}
  /\ \/ r <= 0 /\ frames' = frames \cup 1 .. N
     \/ r \in 1 .. N /\ frames' = frames \cup {r}
     \/ r > N /\ frames' = frames
  /\ UNCHANGED <<buf, delivered>>

\* The client pushes an extracted fragment; the frame may come a second time.
Receive(i) ==
  /\ i \in frames
  /\ frames' \in {frames, frames \ {i}}
  /\ buf' = Pushed(buf, Served(i))
  /\ UNCHANGED <<requests, delivered>>

\* The client asks again for the first fragment it misses.
Request ==
  /\ Wanted(buf) # 0
  /\ requests' = requests \cup {Wanted(buf)}
  /\ UNCHANGED <<frames, buf, delivered>>

\* UnmarshalTo reads the payloads of slots 0, 1, ... one after the other.
Unmarshal ==
  /\ Wanted(buf) = 0
  /\ delivered' = delivered \cup
       {[k \in 1 .. Cardinality(DOMAIN buf.frags) |-> buf.frags[k - 1].payload]}
  /\ UNCHANGED <<requests, frames, buf>>

LoseRequest(r) ==
  /\ r \in requests
  /\ requests' = requests \ {r}
  /\ UNCHANGED <<frames, buf, delivered>>

LoseFrame(i) ==
  /\ i \in frames
  /\ frames' = frames \ {i}
  /\ UNCHANGED <<requests, buf, delivered>>

Next ==
  \/ Request \/ Unmarshal
  \/ \E r \in requests : Answer(r) \/ LoseRequest(r)
  \/ \E i \in frames : Receive(i) \/ LoseFrame(i)

(***************************************************************************)
(* The client keeps asking and unmarshals when it can; a request, and a    *)
(* frame, that is on its way again and again gets through in the end.      *)
(***************************************************************************)
Fairness ==
  /\ WF_vars(Request) /\ WF_vars(Unmarshal)
  /\ \A r \in 0 .. N : SF_vars(Answer(r))
  /\ \A i \in 1 .. N : SF_vars(Receive(i))

Spec == Init /\ [][Next]_vars /\ Fairness

-----------------------------------------------------------------------------
\* The fragments the client holds, by number.
HeldBy(b) == {Number(b.frags[k].fid) : k \in DOMAIN b.frags}
Held == HeldBy(buf)

\* b holds fragments of the served object, each in the slot of its number.
BufferOK(b) ==
  \/ b = EmptyBuffer
  \/ /\ DOMAIN b = {"schema", "frags", "size"}
     /\ b.schema = [types |-> type, tid |-> tid]
     /\ DOMAIN b.frags \subseteq 0 .. N - 1
     /\ b.frags = [k \in DOMAIN b.frags |-> Served(k + 1)]

\* Types, and the client's Buffer slot by slot (Buffer.Push).
TypeOK ==
  /\ requests \subseteq Int
  /\ frames \subseteq 1 .. N
  /\ BufferOK(buf)
  /\ delivered \subseteq {[i \in 1 .. N |-> i]}

(***************************************************************************)
(* Every request the client makes names a fragment the object has, though  *)
(* the client does not know N: the server's "Invalid fragment number"      *)
(* branch is never taken (Wanted, handleEchoRequest).                      *)
(***************************************************************************)
RequestsAnswerable == requests \subseteq 0 .. N

(***************************************************************************)
(* Progress is never lost: no arrival makes the client ask for a fragment  *)
(* it was already past, and a complete object stays complete when frames   *)
(* arrive again (Push, Wanted).                                            *)
(***************************************************************************)
WantedMovesOn ==
  [][Wanted(buf') = 0 \/ (Wanted(buf) # 0 /\ Wanted(buf') >= Wanted(buf))]_buf

\* Fetching implements Delivery: only the whole object is ever unmarshalled,
\* whatever copies arrive in whatever order (Push, Wanted, Read).
Promise == INSTANCE Delivery WITH have <- Held
Implements == Promise!Spec

\* The object is delivered in the end, whatever is lost on the way
\* (re-requesting what Wanted names).
Delivered == <>(delivered # {})
=============================================================================
