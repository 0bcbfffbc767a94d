----------------------------- MODULE EchoServer -----------------------------
(***************************************************************************)
(* The server of the transfer example (src/examples/transfer/echo.go,      *)
(* student.go): one goroutine per connection, and one Buffer for all of    *)
(* them, made by whoever finds none.  Nothing guards nbuf: the test, the   *)
(* assignment, the marshalling and the answers of several goroutines run   *)
(* in any order.                                                           *)
(*                                                                         *)
(* A Buffer is known by the connection that made it.  MarshalTo fills it   *)
(* one fragment after the other and seals them in the end; how often it    *)
(* has been sealed, and which connections marshalled into it, tells        *)
(* whether its frames are good.                                            *)
(***************************************************************************)
EXTENDS Integers, Sequences

CONSTANTS Conns,   \* the connections
          N,       \* the fragments of the object
          Fids,    \* bound: the fragments that are asked for
          None

ASSUME EchoAssumption == N \in Nat \ {0} /\ Fids \subseteq Int /\ None \notin Conns \cup Int

VARIABLES nbuf,     \* the shared variable: nil or a Buffer
          bufs,     \* the Buffers: fragments, seals, and who marshalled into it
          pc,       \* where the goroutine of a connection is
          into,     \* the Buffer its call of MarshalTo or WriteFragments works on
          count,    \* the fragments it has appended
          asked,    \* request.Fid
          answer,   \* history: the frames of the answer, as they were written
          late,     \* history: the set-up was over when it looked at nbuf
          dead      \* the program has panicked

vars == <<nbuf, bufs, pc, into, count, asked, answer, late, dead>>

Init ==
  /\ nbuf = None
  /\ bufs = [b \in Conns |-> [n |-> 0, sums |-> 0, by |-> {}]]
  /\ pc = [c \in Conns |-> "idle"]
  /\ into = [c \in Conns |-> None] /\ count = [c \in Conns |-> 0]
  /\ asked = [c \in Conns |-> None] /\ answer = [c \in Conns |-> <<>>]
  /\ late = [c \in Conns |-> FALSE] /\ dead = FALSE

\* A connection that has found no Buffer and is not done with making one.
SettingUp == {c \in Conns : pc[c] \in {"make", "call", "fill", "finish"}}
Settled == nbuf # None /\ SettingUp = {}

At(c, label) == ~dead /\ pc[c] = label
Goto(c, label) == pc' = [pc EXCEPT ![c] = label]

\* listener.Accept, go handleConn
Accept(c) ==
  /\ At(c, "idle") /\ Goto(c, "check")
  /\ UNCHANGED <<nbuf, bufs, into, count, asked, answer, late, dead>>

\* Mutant of Check: every request makes a Buffer of its own.
CheckNothing(c) ==
  /\ At(c, "check") /\ Goto(c, "make")
  /\ late' = [late EXCEPT ![c] = Settled]
  /\ asked' = [asked EXCEPT ![c] = None] /\ answer' = [answer EXCEPT ![c] = <<>>]
  /\ UNCHANGED <<nbuf, bufs, into, count, dead>>

\* handleEchoRequest, which handleConn calls again and again: if nbuf == nil
Check(c) ==
  /\ At(c, "check") /\ Goto(c, IF nbuf = None THEN "make" ELSE "read")
  /\ late' = [late EXCEPT ![c] = Settled]
  /\ asked' = [asked EXCEPT ![c] = None] /\ answer' = [answer EXCEPT ![c] = <<>>]
  /\ UNCHANGED <<nbuf, bufs, into, count, dead>>

\* nbuf = &tssd.Buffer{...}
Make(c) ==
  /\ At(c, "make") /\ Goto(c, "call")
  /\ nbuf' = c
  /\ UNCHANGED <<bufs, into, count, asked, answer, late, dead>>

\* tssd.MarshalTo(v, nbuf): nbuf is read when the call is made.
Call(c) ==
  /\ At(c, "call") /\ Goto(c, "fill")
  /\ into' = [into EXCEPT ![c] = nbuf]
  /\ bufs' = [bufs EXCEPT ![nbuf].by = @ \cup {c}]
  /\ UNCHANGED <<nbuf, count, asked, answer, late, dead>>

\* Mutant of Fill: Append does not come to the next fragment.
FillStays(c) ==
  /\ At(c, "fill")
  /\ UNCHANGED vars

\* Append comes to the next fragment.
Fill(c) ==
  /\ At(c, "fill") /\ Goto(c, IF count[c] + 1 = N THEN "finish" ELSE "fill")
  /\ count' = [count EXCEPT ![c] = @ + 1]
  /\ bufs' = [bufs EXCEPT ![into[c]].n = @ + 1]
  /\ UNCHANGED <<nbuf, into, asked, answer, late, dead>>

\* Buffer.finish
Finish(c) ==
  /\ At(c, "finish") /\ Goto(c, "read")
  /\ bufs' = [bufs EXCEPT ![into[c]].sums = @ + 1]
  /\ UNCHANGED <<nbuf, into, count, asked, answer, late, dead>>

\* handleRequestRecv returns a request, or fails: the connection is closed.
Request(c, fid) ==
  /\ At(c, "read") /\ Goto(c, IF fid <= 0 THEN "all" ELSE "look")
  /\ asked' = [asked EXCEPT ![c] = fid]
  /\ UNCHANGED <<nbuf, bufs, into, count, answer, late, dead>>

\* Mutant of Close: the Buffer is let go with the connection.
CloseFrees(c) ==
  /\ At(c, "read") /\ Goto(c, "closed")
  /\ nbuf' = None
  /\ UNCHANGED <<bufs, into, count, asked, answer, late, dead>>

Close(c) ==
  /\ At(c, "read") /\ Goto(c, "closed")
  /\ UNCHANGED <<nbuf, bufs, into, count, asked, answer, late, dead>>

\* nbuf.WriteFragments(rw), and its loop.
WriteFragments(c) ==
  /\ At(c, "all") /\ Goto(c, "write")
  /\ into' = [into EXCEPT ![c] = nbuf]
  /\ UNCHANGED <<nbuf, bufs, count, asked, answer, late, dead>>

Frame(b, i) == [nth |-> i, of |-> b, buf |-> bufs[b]]

WriteNext(c) ==
  /\ At(c, "write")
  /\ IF Len(answer[c]) < bufs[into[c]].n
     THEN /\ answer' = [answer EXCEPT ![c] = Append(@, Frame(into[c], Len(@) + 1))]
          /\ UNCHANGED pc
     ELSE Goto(c, "check") /\ UNCHANGED answer
  /\ UNCHANGED <<nbuf, bufs, into, count, asked, late, dead>>

\* Mutant of Look: a number that does not exist is waited for.
LookWaits(c) ==
  /\ At(c, "look") /\ asked[c] <= bufs[nbuf].n /\ Goto(c, "pick")
  /\ UNCHANGED <<nbuf, bufs, into, count, asked, answer, late, dead>>

\* The case of one fragment looks at nbuf twice; a number that does not exist
\* is not answered.
Look(c) ==
  /\ At(c, "look") /\ Goto(c, IF asked[c] <= bufs[nbuf].n THEN "pick" ELSE "check")
  /\ UNCHANGED <<nbuf, bufs, into, count, asked, answer, late, dead>>

\* Mutant of Pick: the number is taken for an index.
PickNext(c) ==
  /\ At(c, "pick")
  /\ answer' = [answer EXCEPT ![c] = <<Frame(nbuf, asked[c] + 1)>>]
  /\ Goto(c, "check")
  /\ UNCHANGED <<nbuf, bufs, into, count, asked, late, dead>>

\* ... the second time to index its fragments: nbuf may be another one by now.
Pick(c) ==
  /\ At(c, "pick")
  /\ IF asked[c] <= bufs[nbuf].n
     THEN /\ answer' = [answer EXCEPT ![c] = <<Frame(nbuf, asked[c])>>]
          /\ Goto(c, "check") /\ UNCHANGED dead
     ELSE dead' = TRUE /\ UNCHANGED <<pc, answer>>
  /\ UNCHANGED <<nbuf, bufs, into, count, asked, late>>

\* Go's runtime may stop a program that uses a map (buf.fragments) while
\* another goroutine writes to it.
Uses(c) ==
  CASE pc[c] \in {"fill", "finish", "write"} -> {into[c]}
    [] pc[c] \in {"look", "pick"} -> {nbuf}
    [] OTHER -> {}

Race(c, d) ==
  /\ c # d /\ At(d, "fill") /\ into[d] \in Uses(c)
  /\ dead' = TRUE
  /\ UNCHANGED <<nbuf, bufs, pc, into, count, asked, answer, late>>

SetUp(c) == Check(c) \/ Make(c) \/ Call(c) \/ Fill(c) \/ Finish(c)
Answer(c) == WriteFragments(c) \/ WriteNext(c) \/ Look(c) \/ Pick(c)

Next ==
  \/ \E c \in Conns : Accept(c) \/ SetUp(c) \/ Close(c) \/ Answer(c)
  \/ \E c \in Conns, fid \in Fids : Request(c, fid)
  \/ \E c, d \in Conns : Race(c, d)

\* Goroutines are scheduled; clients need not do anything.
Spec == Init /\ [][Next]_vars /\ \A c \in Conns : WF_vars(SetUp(c)) /\ WF_vars(Answer(c))

-----------------------------------------------------------------------------
Labels == {"idle", "check", "make", "call", "fill", "finish", "read", "all", "write",
           "look", "pick", "closed"}

Buffers == [n : Nat, sums : Nat, by : SUBSET Conns]
Frames == [nth : Nat, of : Conns, buf : Buffers]

(***************************************************************************)
(* Types; and where a goroutine uses nbuf or a Buffer, there is one: nbuf  *)
(* never becomes nil again (handleEchoRequest).                            *)
(***************************************************************************)
TypeOK ==
  /\ nbuf \in Conns \cup {None} /\ bufs \in [Conns -> Buffers]
  /\ pc \in [Conns -> Labels] /\ into \in [Conns -> Conns \cup {None}]
  /\ count \in [Conns -> Nat] /\ asked \in [Conns -> Fids \cup {None}]
  /\ answer \in [Conns -> Seq(Frames)]
  /\ late \in [Conns -> BOOLEAN] /\ dead \in BOOLEAN
  /\ \A c \in Conns :
       /\ pc[c] \in {"call", "fill", "finish", "read", "all", "write", "look", "pick"} => nbuf # None
       /\ pc[c] \in {"fill", "finish", "write"} => into[c] # None
       /\ pc[c] \in {"look", "pick"} => asked[c] \in Fids /\ asked[c] > 0

(***************************************************************************)
(* Once every connection that found no Buffer is done with making one, the *)
(* Buffer that is served is the same for good (handleEchoRequest).         *)
(***************************************************************************)
SettledStays == [][Settled => Settled' /\ nbuf' = nbuf /\ bufs'[nbuf] = bufs[nbuf]]_vars

\* Nobody but its maker marshalled into a Buffer.
Alone(b) == bufs[b].by \subseteq {b}

Whole(buf) == buf.n = N /\ buf.sums = 1

(***************************************************************************)
(* A connection that looked at nbuf after the set-up writes whole frames   *)
(* of one object, and all of them in order when that was asked for; unless *)
(* two connections happened to marshal into the Buffer that is served      *)
(* (handleEchoRequest, MarshalTo, WriteFragments).                         *)
(***************************************************************************)
LateAnswersWhole ==
  \A c \in Conns : late[c] /\ Alone(nbuf) =>
    /\ \A i \in DOMAIN answer[c] : answer[c][i].of = nbuf /\ Whole(answer[c][i].buf)
    /\ pc[c] = "check" /\ asked[c] # None => 
         IF asked[c] <= 0 THEN Len(answer[c]) = N /\ \A i \in 1 .. N : answer[c][i].nth = i
         ELSE asked[c] <= N => Len(answer[c]) = 1 /\ answer[c][1].nth = asked[c]

(***************************************************************************)
(* The set-up comes to an end, however many connections take part in it:   *)
(* each makes one Buffer at most (handleEchoRequest); if the program       *)
(* lives.                                                                  *)
(***************************************************************************)
SetUpEnds == \A c \in Conns : c \in SettingUp ~> (dead \/ [](c \notin SettingUp))

(***************************************************************************)
(* A request that was read is done with, whatever becomes of nbuf in the   *)
(* meantime (handleEchoRequest, WriteFragments); if the program lives.     *)
(***************************************************************************)
RequestEnds == \A c \in Conns : pc[c] \in {"all", "write", "look", "pick"} ~> (dead \/ pc[c] = "check")
=============================================================================
