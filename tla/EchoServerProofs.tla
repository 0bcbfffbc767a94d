-------------------------- MODULE EchoServerProofs --------------------------
(***************************************************************************)
(* Proofs about EchoServer for any number of connections and fragments:    *)
(* its types, that what is served stays once the set-up is over, and that  *)
(* from then on the answers are whole.                                     *)
(***************************************************************************)
EXTENDS EchoServer, TLAPS

\* TypeOK says where there is a Buffer: it is inductive as it stands.
LEMMA TypeInit == Init => TypeOK
<1>. SUFFICES ASSUME Init PROVE TypeOK
  OBVIOUS
<1>1. bufs \in [Conns -> Buffers]
  BY DEF Init, Buffers
<1>2. answer \in [Conns -> Seq(Frames)]
  BY DEF Init
<1>3. \A c \in Conns : pc[c] = "idle"
  BY DEF Init
<1>. QED
  BY <1>1, <1>2, <1>3 DEF Init, TypeOK, Labels

LEMMA TypeNext == TypeOK /\ [Next]_vars => TypeOK'
<1>. SUFFICES ASSUME TypeOK, [Next]_vars PROVE TypeOK'
  OBVIOUS
<1>. USE EchoAssumption
<1>1. ASSUME NEW c \in Conns, Accept(c) PROVE TypeOK'
  BY <1>1 DEF TypeOK, Accept, At, Goto, Labels
<1>2. ASSUME NEW c \in Conns, Check(c) PROVE TypeOK'
  BY <1>2 DEF TypeOK, Check, At, Goto, Labels, Settled
<1>3. ASSUME NEW c \in Conns, Make(c) PROVE TypeOK'
  BY <1>3 DEF TypeOK, Make, At, Goto, Labels
<1>4. ASSUME NEW c \in Conns, Call(c) PROVE TypeOK'
  <2>1. nbuf \in Conns
    BY <1>4 DEF TypeOK, Call, At
  <2>2. [bufs[nbuf] EXCEPT !.by = @ \cup {c}] \in Buffers
    <3>1. bufs[nbuf] \in Buffers
      BY <2>1 DEF TypeOK
    <3>. QED
      BY <3>1 DEF Buffers
  <2>3. bufs' \in [Conns -> Buffers]
    BY <1>4, <2>1, <2>2 DEF TypeOK, Call
  <2>. QED
    BY <1>4, <2>1, <2>3 DEF TypeOK, Call, At, Goto, Labels
<1>5. ASSUME NEW c \in Conns, Fill(c) PROVE TypeOK'
  <2>1. into[c] \in Conns
    BY <1>5 DEF TypeOK, Fill, At
  <2>2. [bufs[into[c]] EXCEPT !.n = @ + 1] \in Buffers
    <3>1. bufs[into[c]] \in Buffers
      BY <2>1 DEF TypeOK
    <3>. QED
      BY <3>1 DEF Buffers
  <2>3. bufs' \in [Conns -> Buffers]
    BY <1>5, <2>1, <2>2 DEF TypeOK, Fill
  <2>. QED
    BY <1>5, <2>1, <2>3 DEF TypeOK, Fill, At, Goto, Labels
<1>6. ASSUME NEW c \in Conns, Finish(c) PROVE TypeOK'
  <2>1. into[c] \in Conns
    BY <1>6 DEF TypeOK, Finish, At
  <2>2. [bufs[into[c]] EXCEPT !.sums = @ + 1] \in Buffers
    <3>1. bufs[into[c]] \in Buffers
      BY <2>1 DEF TypeOK
    <3>. QED
      BY <3>1 DEF Buffers
  <2>3. bufs' \in [Conns -> Buffers]
    BY <1>6, <2>1, <2>2 DEF TypeOK, Finish
  <2>. QED
    BY <1>6, <2>1, <2>3 DEF TypeOK, Finish, At, Goto, Labels
<1>7. ASSUME NEW c \in Conns, NEW fid \in Fids, Request(c, fid) PROVE TypeOK'
  BY <1>7 DEF TypeOK, Request, At, Goto, Labels
<1>8. ASSUME NEW c \in Conns, Close(c) PROVE TypeOK'
  BY <1>8 DEF TypeOK, Close, At, Goto, Labels
<1>9. ASSUME NEW c \in Conns, WriteFragments(c) PROVE TypeOK'
  BY <1>9 DEF TypeOK, WriteFragments, At, Goto, Labels
<1>10. ASSUME NEW c \in Conns, WriteNext(c) PROVE TypeOK'
  <2>1. into[c] \in Conns
    BY <1>10 DEF TypeOK, WriteNext, At
  <2>2. Frame(into[c], Len(answer[c]) + 1) \in Frames
    BY <2>1 DEF TypeOK, Frame, Frames
  <2>3. Append(answer[c], Frame(into[c], Len(answer[c]) + 1)) \in Seq(Frames)
    BY <2>2 DEF TypeOK
  <2>4. answer' \in [Conns -> Seq(Frames)]
    BY <1>10, <2>3 DEF TypeOK, WriteNext
  <2>. QED
    BY <1>10, <2>4 DEF TypeOK, WriteNext, At, Goto, Labels
<1>11. ASSUME NEW c \in Conns, Look(c) PROVE TypeOK'
  BY <1>11 DEF TypeOK, Look, At, Goto, Labels
<1>12. ASSUME NEW c \in Conns, Pick(c) PROVE TypeOK'
  <2>1. nbuf \in Conns /\ asked[c] \in Nat
    <3>1. asked[c] \in Fids /\ asked[c] > 0 /\ nbuf # None
      BY <1>12 DEF TypeOK, Pick, At
    <3>2. nbuf \in Conns
      BY <3>1 DEF TypeOK
    <3>3. asked[c] \in Int
      BY <3>1 DEF EchoAssumption
    <3>. QED
      BY <3>1, <3>2, <3>3
  <2>2. Frame(nbuf, asked[c]) \in Frames
    BY <2>1 DEF TypeOK, Frame, Frames
  <2>3. <<Frame(nbuf, asked[c])>> \in Seq(Frames)
    BY <2>2
  <2>4. answer' \in [Conns -> Seq(Frames)]
    BY <1>12, <2>3 DEF TypeOK, Pick
  <2>. QED
    BY <1>12, <2>4 DEF TypeOK, Pick, At, Goto, Labels
<1>13. ASSUME NEW c \in Conns, NEW d \in Conns, Race(c, d) PROVE TypeOK'
  BY <1>13 DEF TypeOK, Race
<1>14. CASE UNCHANGED vars
  BY <1>14 DEF TypeOK, vars
<1>. QED
  BY <1>1, <1>2, <1>3, <1>4, <1>5, <1>6, <1>7, <1>8, <1>9, <1>10, <1>11, <1>12, <1>13, <1>14
     DEF Next, SetUp, Answer

(***************************************************************************)
(* EchoServer keeps its types, and no goroutine uses a nil Buffer.         *)
(***************************************************************************)
THEOREM TypeCorrect == Spec => []TypeOK
BY TypeInit, TypeNext, PTL DEF Spec

-----------------------------------------------------------------------------
\* A step of another kind than the set-up's leaves nbuf, the Buffers and the
\* set SettingUp alone; when all is settled there are no others.
LEMMA SettledStep ==
  ASSUME TypeOK, [Next]_vars, Settled
  PROVE  Settled' /\ nbuf' = nbuf /\ bufs' = bufs
<1>1. ASSUME NEW c \in Conns, SetUp(c) PROVE Check(c) /\ pc' = [pc EXCEPT ![c] = "read"]
  BY <1>1 DEF Settled, SettingUp, SetUp, Check, Make, Call, Fill, Finish, At, Goto
<1>2. ASSUME NEW c \in Conns, Accept(c) \/ SetUp(c) \/ Close(c) \/ Answer(c)
      PROVE  Settled' /\ nbuf' = nbuf /\ bufs' = bufs
  BY <1>1, <1>2 DEF TypeOK, Settled, SettingUp, Accept, Check, Close, Answer, WriteFragments,
     WriteNext, Look, Pick, At, Goto
<1>3. ASSUME NEW c \in Conns, NEW fid \in Fids, Request(c, fid)
      PROVE  Settled' /\ nbuf' = nbuf /\ bufs' = bufs
  BY <1>3 DEF TypeOK, Settled, SettingUp, Request, At, Goto
<1>4. ASSUME NEW c \in Conns, NEW d \in Conns, Race(c, d)
      PROVE  Settled' /\ nbuf' = nbuf /\ bufs' = bufs
  BY <1>4 DEF Settled, SettingUp, Race
<1>5. CASE UNCHANGED vars
  BY <1>5 DEF Settled, SettingUp, vars
<1>. QED
  BY <1>2, <1>3, <1>4, <1>5 DEF Next

(***************************************************************************)
(* The Buffer that is served when the set-up is over is served for good.   *)
(***************************************************************************)
THEOREM ServedForGood == Spec => SettledStays
<1>1. TypeOK /\ [Next]_vars => [Settled => Settled' /\ nbuf' = nbuf /\ bufs'[nbuf] = bufs[nbuf]]_vars
  BY SettledStep
<1>. QED
  BY <1>1, TypeCorrect, PTL DEF Spec, SettledStays

-----------------------------------------------------------------------------
(***************************************************************************)
(* Why the answers are whole.  A connection marshals once at most, because *)
(* nbuf never becomes nil again (OnlyOnce); so a Buffer that nobody but    *)
(* its maker marshalled into is being filled by it or is whole (Filling),  *)
(* and the maker of the one that is served did marshal into it (Served).   *)
(* LateAnswersWhole itself says nothing of answers on their way, which     *)
(* Written does.                                                           *)
(***************************************************************************)
Marshals == \A c \in Conns : pc[c] \in {"fill", "finish"} => c \in bufs[into[c]].by

OnlyOnce ==
  \A b, c \in Conns : c \in bufs[b].by =>
    /\ nbuf # None /\ pc[c] \notin {"idle", "make", "call"}
    /\ pc[c] \in {"fill", "finish"} => into[c] = b

Fresh == \A b \in Conns : bufs[b].by = {} => bufs[b].n = 0 /\ bufs[b].sums = 0

Counted == \A c \in Conns : nbuf = None \/ pc[c] \in {"make", "call"} => count[c] = 0

Filling ==
  \A b \in Conns : bufs[b].by = {b} =>
    CASE pc[b] = "fill"   -> bufs[b].n = count[b] /\ count[b] < N /\ bufs[b].sums = 0
      [] pc[b] = "finish" -> bufs[b].n = N /\ bufs[b].sums = 0
      [] OTHER            -> Whole(bufs[b])

Served == nbuf # None => pc[nbuf] = "call" \/ nbuf \in bufs[nbuf].by

LateSettled == \A c \in Conns : late[c] => Settled

Made == Marshals /\ OnlyOnce /\ Fresh /\ Counted /\ Filling /\ Served

BufInv == TypeOK /\ Made /\ LateSettled

\* What has been written, and how the connection comes to its end.
WrittenBy(c) ==
  /\ pc[c] # "idle"
  /\ \A i \in DOMAIN answer[c] : answer[c][i].of = nbuf /\ Whole(answer[c][i].buf)
  /\ pc[c] \in {"read", "all", "look", "pick"} => answer[c] = <<>>
  /\ pc[c] \in {"all", "write"} => asked[c] \in Fids /\ asked[c] <= 0
  /\ pc[c] = "write" => into[c] = nbuf /\ Len(answer[c]) <= N
  /\ pc[c] = "write" => \A i \in 1 .. Len(answer[c]) : answer[c][i].nth = i
  /\ pc[c] = "pick" => asked[c] <= N
  /\ pc[c] = "check" /\ asked[c] # None =>
       IF asked[c] <= 0 THEN Len(answer[c]) = N /\ \A i \in 1 .. N : answer[c][i].nth = i
       ELSE asked[c] <= N => Len(answer[c]) = 1 /\ answer[c][1].nth = asked[c]

Written == \A c \in Conns : late[c] /\ Alone(nbuf) => WrittenBy(c)

LEMMA BufInit == Init => BufInv /\ Written
<1>. SUFFICES ASSUME Init PROVE BufInv /\ Written
  OBVIOUS
<1>1. \A c \in Conns : pc[c] = "idle" /\ count[c] = 0 /\ late[c] = FALSE
                      /\ bufs[c].n = 0 /\ bufs[c].sums = 0 /\ bufs[c].by = {}
  BY DEF Init
<1>2. nbuf = None
  BY DEF Init
<1>. QED
  BY <1>1, <1>2, TypeInit DEF BufInv, Made, Marshals, OnlyOnce, Fresh, Counted, Filling, Served,
     LateSettled, Written

\* A step that has nothing to do with making or filling a Buffer.
LEMMA QuietStep ==
  ASSUME TypeOK, Made, NEW c \in Conns,
         NEW l \in Labels \ {"idle", "make", "call", "fill", "finish"},
         pc[c] \notin {"make", "call", "fill", "finish"},
         pc' = [pc EXCEPT ![c] = l],
         UNCHANGED <<nbuf, bufs, count>>,
         \A d \in Conns \ {c} : into'[d] = into[d]
  PROVE  Made'
<1>1. pc \in [Conns -> Labels] /\ nbuf \in Conns \cup {None}
  BY DEF TypeOK
<1>2. /\ pc'[c] = l
      /\ \A d \in Conns \ {c} : pc'[d] = pc[d]
  BY <1>1
<1>3. Marshals'
  BY <1>2 DEF Made, Marshals
<1>4. OnlyOnce'
  BY <1>2 DEF Made, OnlyOnce
<1>5. Fresh' /\ Counted'
  BY <1>2 DEF Made, Fresh, Counted
<1>6. Filling'
  BY <1>2 DEF Made, Filling, Whole
<1>7. Served'
  BY <1>1, <1>2 DEF Made, Served
<1>. QED
  BY <1>3, <1>4, <1>5, <1>6, <1>7 DEF Made

LEMMA CheckStep ==
  ASSUME TypeOK, Made, NEW c \in Conns, Check(c)
  PROVE  Made'
<1>1. CASE nbuf = None
  <2>1. pc' = [pc EXCEPT ![c] = "make"] /\ UNCHANGED <<nbuf, bufs, into, count>>
    BY <1>1 DEF Check, Goto
  <2>2. /\ pc'[c] = "make"
        /\ \A d \in Conns \ {c} : pc'[d] = pc[d]
    BY <2>1 DEF TypeOK
  <2>3. \A b, d \in Conns : d \notin bufs[b].by
    BY <1>1 DEF Made, OnlyOnce
  <2>4. Marshals'
    BY <2>1, <2>2 DEF Made, Marshals
  <2>5. OnlyOnce' /\ Filling'
    BY <2>1, <2>3 DEF OnlyOnce, Filling
  <2>6. Fresh' /\ Counted' /\ Served'
    BY <1>1, <2>1 DEF Made, Fresh, Counted, Served
  <2>. QED
    BY <2>4, <2>5, <2>6 DEF Made
<1>2. CASE nbuf # None
  <2>1. pc' = [pc EXCEPT ![c] = "read"] /\ pc[c] = "check" /\ UNCHANGED <<nbuf, bufs, into, count>>
    BY <1>2 DEF Check, Goto, At
  <2>. QED
    BY <2>1, QuietStep DEF Labels
<1>. QED
  BY <1>1, <1>2

LEMMA MakeStep ==
  ASSUME TypeOK, Made, NEW c \in Conns, Make(c)
  PROVE  Made'
<1>1. pc' = [pc EXCEPT ![c] = "call"] /\ pc[c] = "make" /\ nbuf' = c /\ UNCHANGED <<bufs, into, count>>
  BY DEF Make, Goto, At
<1>2. /\ pc'[c] = "call"
      /\ \A d \in Conns \ {c} : pc'[d] = pc[d]
  BY <1>1 DEF TypeOK
<1>3. c # None
  BY EchoAssumption
<1>4. \A b \in Conns : c \notin bufs[b].by
  BY <1>1 DEF Made, OnlyOnce
<1>5. Marshals'
  BY <1>1, <1>2 DEF Made, Marshals
<1>6. OnlyOnce'
  BY <1>1, <1>2, <1>3, <1>4 DEF Made, OnlyOnce
<1>7. Fresh' /\ Counted' /\ Served'
  BY <1>1, <1>2, <1>3 DEF Made, Fresh, Counted, Served
<1>8. Filling'
  BY <1>1, <1>2, <1>4 DEF Made, Filling, Whole
<1>. QED
  BY <1>5, <1>6, <1>7, <1>8 DEF Made

LEMMA CallStep ==
  ASSUME TypeOK, Made, NEW c \in Conns, Call(c)
  PROVE  Made'
<1>. DEFINE x == nbuf
<1>1. /\ pc' = [pc EXCEPT ![c] = "fill"] /\ pc[c] = "call"
      /\ into' = [into EXCEPT ![c] = x] /\ bufs' = [bufs EXCEPT ![x].by = @ \cup {c}]
      /\ UNCHANGED <<nbuf, count>>
  BY DEF Call, Goto, At
<1>2. x \in Conns /\ x # None
  BY <1>1 DEF TypeOK
<1>3. /\ pc'[c] = "fill" /\ into'[c] = x
      /\ \A d \in Conns \ {c} : pc'[d] = pc[d] /\ into'[d] = into[d]
  BY <1>1 DEF TypeOK
<1>4. bufs[x] \in Buffers
  BY <1>2 DEF TypeOK
<1>5. /\ bufs'[x].by = bufs[x].by \cup {c} /\ bufs'[x].n = bufs[x].n /\ bufs'[x].sums = bufs[x].sums
      /\ \A b \in Conns \ {x} : bufs'[b] = bufs[b]
  BY <1>1, <1>2, <1>4 DEF TypeOK, Buffers
<1>6. \A b \in Conns : c \notin bufs[b].by
  BY <1>1 DEF Made, OnlyOnce
<1>7. Marshals'
  <2>1. \A d \in Conns \ {c} : pc[d] \in {"fill", "finish"} => into[d] \in Conns /\ d \in bufs[into[d]].by
    BY DEF TypeOK, Made, Marshals
  <2>2. \A b \in Conns : bufs[b].by \subseteq bufs'[b].by
    BY <1>5
  <2>3. c \in bufs'[into'[c]].by
    BY <1>3, <1>5
  <2>4. \A d \in Conns \ {c} : pc'[d] \in {"fill", "finish"} => d \in bufs'[into'[d]].by
    BY <1>3, <2>1, <2>2
  <2>. QED
    BY <2>3, <2>4 DEF Marshals
<1>8. OnlyOnce'
  BY <1>1, <1>2, <1>3, <1>5, <1>6 DEF Made, OnlyOnce
<1>9. Fresh' /\ Served'
  BY <1>1, <1>2, <1>3, <1>5 DEF Made, Fresh, Served
<1>10. Counted'
  BY <1>1, <1>2, <1>3 DEF Made, Counted
<1>11. Filling'
  <2>. SUFFICES ASSUME NEW b \in Conns, bufs'[b].by = {b}
                PROVE  CASE pc'[b] = "fill"   -> bufs'[b].n = count'[b] /\ count'[b] < N /\ bufs'[b].sums = 0
                         [] pc'[b] = "finish" -> bufs'[b].n = N /\ bufs'[b].sums = 0
                         [] OTHER             -> Whole(bufs'[b])
    BY DEF Filling, Whole
  <2>1. CASE b = x
    <3>1. c = x /\ bufs[x].by = {}
      BY <1>4, <1>5, <1>6, <2>1 DEF Buffers
    <3>2. bufs[x].n = 0 /\ bufs[x].sums = 0 /\ count[x] = 0
      BY <1>1, <1>2, <3>1 DEF Made, Fresh, Counted
    <3>. QED
      BY <1>1, <1>3, <1>5, <2>1, <3>1, <3>2, EchoAssumption
  <2>2. CASE b # x
    <3>1. b # c
      BY <1>5, <1>6, <2>2
    <3>. QED
      BY <1>1, <1>3, <1>5, <2>2, <3>1 DEF Made, Filling
  <2>. QED
    BY <2>1, <2>2
<1>. QED
  BY <1>7, <1>8, <1>9, <1>10, <1>11 DEF Made

LEMMA FillStep ==
  ASSUME TypeOK, Made, NEW c \in Conns, Fill(c)
  PROVE  Made'
<1>. DEFINE x == into[c]
            l == IF count[c] + 1 = N THEN "finish" ELSE "fill"
<1>1. /\ pc' = [pc EXCEPT ![c] = l] /\ pc[c] = "fill"
      /\ count' = [count EXCEPT ![c] = @ + 1] /\ bufs' = [bufs EXCEPT ![x].n = @ + 1]
      /\ UNCHANGED <<nbuf, into>>
  BY DEF Fill, Goto, At
<1>2. x \in Conns /\ nbuf \in Conns /\ nbuf # None /\ count[c] \in Nat
  BY <1>1 DEF TypeOK
<1>3. /\ pc'[c] = l /\ count'[c] = count[c] + 1
      /\ \A d \in Conns \ {c} : pc'[d] = pc[d] /\ count'[d] = count[d]
  BY <1>1 DEF TypeOK
<1>4. bufs[x] \in Buffers
  BY <1>2 DEF TypeOK
<1>5. /\ bufs'[x].by = bufs[x].by /\ bufs'[x].n = bufs[x].n + 1 /\ bufs'[x].sums = bufs[x].sums
      /\ \A b \in Conns \ {x} : bufs'[b] = bufs[b]
  BY <1>1, <1>2, <1>4 DEF TypeOK, Buffers
<1>6. c \in bufs[x].by /\ \A b \in Conns : c \in bufs[b].by => b = x
  BY <1>1, <1>2 DEF Made, Marshals, OnlyOnce
<1>7. Marshals'
  BY <1>1, <1>3, <1>5, <1>6 DEF Made, Marshals
<1>8. OnlyOnce'
  BY <1>1, <1>3, <1>5, <1>6 DEF Made, OnlyOnce
<1>9. Fresh' /\ Counted'
  BY <1>1, <1>2, <1>3, <1>5, <1>6 DEF Made, Fresh, Counted
<1>10. Served'
  BY <1>1, <1>2, <1>3, <1>5 DEF Made, Served
<1>11. Filling'
  <2>. SUFFICES ASSUME NEW b \in Conns, bufs'[b].by = {b}
                PROVE  CASE pc'[b] = "fill"   -> bufs'[b].n = count'[b] /\ count'[b] < N /\ bufs'[b].sums = 0
                         [] pc'[b] = "finish" -> bufs'[b].n = N /\ bufs'[b].sums = 0
                         [] OTHER             -> Whole(bufs'[b])
    BY DEF Filling, Whole
  <2>1. CASE b = x
    <3>1. c = b /\ bufs[b].by = {b}
      BY <1>5, <1>6, <2>1
    <3>2. bufs[b].n = count[b] /\ count[b] < N /\ bufs[b].sums = 0
      BY <1>1, <3>1 DEF Made, Filling
    <3>. QED
      BY <1>2, <1>3, <1>5, <2>1, <3>1, <3>2, EchoAssumption
  <2>2. CASE b # x
    <3>1. b # c
      BY <1>5, <1>6, <2>2
    <3>. QED
      BY <1>1, <1>3, <1>5, <2>2, <3>1 DEF Made, Filling
  <2>. QED
    BY <2>1, <2>2
<1>. QED
  BY <1>7, <1>8, <1>9, <1>10, <1>11 DEF Made

LEMMA FinishStep ==
  ASSUME TypeOK, Made, NEW c \in Conns, Finish(c)
  PROVE  Made'
<1>. DEFINE x == into[c]
<1>1. /\ pc' = [pc EXCEPT ![c] = "read"] /\ pc[c] = "finish"
      /\ bufs' = [bufs EXCEPT ![x].sums = @ + 1]
      /\ UNCHANGED <<nbuf, into, count>>
  BY DEF Finish, Goto, At
<1>2. x \in Conns /\ nbuf \in Conns /\ nbuf # None
  BY <1>1 DEF TypeOK
<1>3. /\ pc'[c] = "read"
      /\ \A d \in Conns \ {c} : pc'[d] = pc[d]
  BY <1>1 DEF TypeOK
<1>4. bufs[x] \in Buffers
  BY <1>2 DEF TypeOK
<1>5. /\ bufs'[x].by = bufs[x].by /\ bufs'[x].n = bufs[x].n /\ bufs'[x].sums = bufs[x].sums + 1
      /\ \A b \in Conns \ {x} : bufs'[b] = bufs[b]
  BY <1>1, <1>2, <1>4 DEF TypeOK, Buffers
<1>6. c \in bufs[x].by /\ \A b \in Conns : c \in bufs[b].by => b = x
  BY <1>1, <1>2 DEF Made, Marshals, OnlyOnce
<1>7. Marshals' /\ OnlyOnce'
  BY <1>1, <1>3, <1>5 DEF Made, Marshals, OnlyOnce
<1>8. Fresh' /\ Counted' /\ Served'
  BY <1>1, <1>2, <1>3, <1>5, <1>6 DEF Made, Fresh, Counted, Served
<1>9. Filling'
  <2>. SUFFICES ASSUME NEW b \in Conns, bufs'[b].by = {b}
                PROVE  CASE pc'[b] = "fill"   -> bufs'[b].n = count'[b] /\ count'[b] < N /\ bufs'[b].sums = 0
                         [] pc'[b] = "finish" -> bufs'[b].n = N /\ bufs'[b].sums = 0
                         [] OTHER             -> Whole(bufs'[b])
    BY DEF Filling, Whole
  <2>1. CASE b = x
    <3>1. c = b /\ bufs[b].by = {b}
      BY <1>5, <1>6, <2>1
    <3>2. bufs[b].n = N /\ bufs[b].sums = 0
      BY <1>1, <3>1 DEF Made, Filling
    <3>. QED
      BY <1>3, <1>5, <2>1, <3>1, <3>2 DEF Whole
  <2>2. CASE b # x
    <3>1. b # c
      BY <1>5, <1>6, <2>2
    <3>. QED
      BY <1>1, <1>3, <1>5, <2>2, <3>1 DEF Made, Filling
  <2>. QED
    BY <2>1, <2>2
<1>. QED
  BY <1>7, <1>8, <1>9 DEF Made

LEMMA MadeNext == TypeOK /\ Made /\ [Next]_vars => Made'
<1>. SUFFICES ASSUME TypeOK, Made, [Next]_vars PROVE Made'
  OBVIOUS
<1>1. ASSUME NEW c \in Conns, Accept(c) PROVE Made'
  <2>. pc' = [pc EXCEPT ![c] = "check"] /\ pc[c] = "idle" /\ UNCHANGED <<nbuf, bufs, into, count>>
    BY <1>1 DEF Accept, At, Goto
  <2>. QED
    BY QuietStep DEF Labels
<1>2. ASSUME NEW c \in Conns, NEW fid \in Fids, Request(c, fid) PROVE Made'
  <2>1. PICK l \in {"all", "look"} : pc' = [pc EXCEPT ![c] = l] /\ pc[c] = "read"
                                   /\ UNCHANGED <<nbuf, bufs, into, count>>
    BY <1>2 DEF Request, At, Goto
  <2>. QED
    BY <2>1, QuietStep DEF Labels
<1>3. ASSUME NEW c \in Conns, Close(c) PROVE Made'
  <2>. pc' = [pc EXCEPT ![c] = "closed"] /\ pc[c] = "read" /\ UNCHANGED <<nbuf, bufs, into, count>>
    BY <1>3 DEF Close, At, Goto
  <2>. QED
    BY QuietStep DEF Labels
<1>4. ASSUME NEW c \in Conns, WriteFragments(c) PROVE Made'
  <2>1. pc' = [pc EXCEPT ![c] = "write"] /\ pc[c] = "all" /\ UNCHANGED <<nbuf, bufs, count>>
    BY <1>4 DEF WriteFragments, At, Goto
  <2>2. \A d \in Conns \ {c} : into'[d] = into[d]
    BY <1>4 DEF WriteFragments, TypeOK
  <2>. QED
    BY <2>1, <2>2, QuietStep DEF Labels
<1>5. ASSUME NEW c \in Conns, WriteNext(c) \/ Look(c) \/ Pick(c) PROVE Made'
  <2>1. pc[c] \in {"write", "look", "pick"} /\ UNCHANGED <<nbuf, bufs, into, count>>
    BY <1>5 DEF WriteNext, Look, Pick, At
  <2>2. pc' = pc \/ pc' = [pc EXCEPT ![c] = "check"] \/ pc' = [pc EXCEPT ![c] = "pick"]
    BY <1>5 DEF WriteNext, Look, Pick, Goto
  <2>3. pc = [pc EXCEPT ![c] = pc[c]]
    BY DEF TypeOK
  <2>4. PICK l \in {"write", "look", "check", "pick"} : pc' = [pc EXCEPT ![c] = l]
    BY <2>1, <2>2, <2>3
  <2>. QED
    BY <2>1, <2>4, QuietStep DEF Labels
<1>6. ASSUME NEW c \in Conns, SetUp(c) PROVE Made'
  BY <1>6, CheckStep, MakeStep, CallStep, FillStep, FinishStep DEF SetUp
<1>7. CASE UNCHANGED <<nbuf, bufs, pc, into, count>>
  BY <1>7 DEF Made, Marshals, OnlyOnce, Fresh, Counted, Filling, Served, Whole
<1>8. ASSUME NEW c \in Conns, NEW d \in Conns, Race(c, d) PROVE Made'
  BY <1>7, <1>8 DEF Race
<1>9. CASE UNCHANGED vars
  BY <1>7, <1>9 DEF vars
<1>. QED
  BY <1>1, <1>2, <1>3, <1>4, <1>5, <1>6, <1>8, <1>9 DEF Next, Answer

LEMMA BufNext == BufInv /\ [Next]_vars => BufInv'
<1>. SUFFICES ASSUME BufInv, [Next]_vars PROVE BufInv'
  OBVIOUS
<1>1. \A c \in Conns : late'[c] => late[c] \/ Settled
  BY DEF BufInv, TypeOK, Next, SetUp, Answer, Accept, Check, Make, Call, Fill, Finish, Request, Close,
     WriteFragments, WriteNext, Look, Pick, Race, vars
<1>2. LateSettled'
  BY <1>1, SettledStep DEF BufInv, LateSettled
<1>. QED
  BY <1>2, TypeNext, MadeNext DEF BufInv

-----------------------------------------------------------------------------
\* The Buffer that is served, when its maker is alone in it.
LEMMA ServedWhole ==
  ASSUME TypeOK, Made, Settled, Alone(nbuf)
  PROVE  nbuf \in Conns /\ Whole(bufs[nbuf])
<1>1. nbuf \in Conns
  BY DEF TypeOK, Settled
<1>2. pc[nbuf] \notin {"call", "fill", "finish"}
  BY <1>1 DEF Settled, SettingUp
<1>3. bufs[nbuf].by = {nbuf}
  BY <1>1, <1>2 DEF Made, Served, Settled, Alone
<1>. QED
  BY <1>1, <1>2, <1>3 DEF Made, Filling

\* What a connection has written changes by its own steps only.
LEMMA OthersWrite ==
  ASSUME TypeOK, [Next]_vars, NEW c \in Conns, Settled,
         ~ \E fid \in Fids : Request(c, fid),
         ~ (Accept(c) \/ SetUp(c) \/ Close(c) \/ Answer(c))
  PROVE  pc'[c] = pc[c] /\ answer'[c] = answer[c] /\ asked'[c] = asked[c] /\ into'[c] = into[c]
<1>. DEFINE Mine == <<pc[c], answer[c], asked[c], into[c]>>
<1>1. ASSUME NEW d \in Conns \ {c}, Accept(d) \/ Close(d) PROVE Mine' = Mine
  BY <1>1 DEF TypeOK, Accept, Close, At, Goto
<1>2. ASSUME NEW d \in Conns \ {c}, SetUp(d) PROVE Mine' = Mine
  BY <1>2 DEF TypeOK, SetUp, Check, Make, Call, Fill, Finish, At, Goto
<1>3. ASSUME NEW d \in Conns \ {c}, Answer(d) PROVE Mine' = Mine
  BY <1>3 DEF TypeOK, Answer, WriteFragments, WriteNext, Look, Pick, At, Goto
<1>4. ASSUME NEW d \in Conns \ {c}, NEW fid \in Fids, Request(d, fid) PROVE Mine' = Mine
  BY <1>4 DEF TypeOK, Request, At, Goto
<1>5. ASSUME NEW d \in Conns, NEW e \in Conns, Race(d, e) PROVE Mine' = Mine
  BY <1>5 DEF Race
<1>6. CASE UNCHANGED vars
  BY <1>6 DEF vars
<1>7. Mine' = Mine
  BY <1>1, <1>2, <1>3, <1>4, <1>5, <1>6 DEF Next
<1>. QED
  BY <1>7

LEMMA WrittenNext == BufInv /\ Written /\ [Next]_vars => Written'
<1>. SUFFICES ASSUME BufInv, Written, [Next]_vars, NEW c \in Conns, late'[c], Alone(nbuf)'
              PROVE  WrittenBy(c)'
  BY DEF Written
<1>. USE DEF BufInv
<1>1. CASE Check(c)
  <2>1. Settled
    BY <1>1 DEF Check, TypeOK
  <2>2. pc'[c] = "read" /\ answer'[c] = <<>> /\ asked'[c] = None
    BY <1>1, <2>1 DEF Check, Goto, TypeOK, Settled
  <2>. QED
    BY <2>2 DEF WrittenBy
<1>2. CASE ~Check(c)
  <2>1. late[c]
    BY <1>2, ZenonT(30) DEF TypeOK, Next, SetUp, Answer, Accept, Check, Make, Call, Fill, Finish, Request, Close,
       WriteFragments, WriteNext, Look, Pick, Race, vars
  <2>2. Settled
    BY <2>1 DEF LateSettled
  <2>3. nbuf' = nbuf /\ bufs' = bufs
    BY <2>2, SettledStep
  <2>4. Alone(nbuf)
    BY <2>3 DEF Alone
  <2>5. nbuf \in Conns /\ Whole(bufs[nbuf])
    BY <2>2, <2>4, ServedWhole
  <2>6. WrittenBy(c)
    BY <2>1, <2>4 DEF Written
  <2>7. CASE Accept(c) \/ SetUp(c)
    BY <1>2, <2>2, <2>6, <2>7 DEF WrittenBy, SetUp, Accept, Make, Call, Fill, Finish, At, Settled, SettingUp
  <2>8. CASE Close(c)
    <3>1. pc'[c] = "closed" /\ answer'[c] = answer[c] /\ asked'[c] = asked[c]
      BY <2>8 DEF Close, Goto, TypeOK
    <3>. QED
      BY <2>3, <2>6, <3>1 DEF WrittenBy, Whole
  <2>9. ASSUME NEW fid \in Fids, Request(c, fid) PROVE WrittenBy(c)'
    <3>1. /\ pc'[c] = IF fid <= 0 THEN "all" ELSE "look"
          /\ asked'[c] = fid /\ answer'[c] = answer[c] /\ answer[c] = <<>>
      BY <2>6, <2>9 DEF Request, Goto, At, TypeOK, WrittenBy
    <3>. QED
      BY <3>1 DEF WrittenBy
  <2>10. CASE WriteFragments(c)
    <3>1. /\ pc'[c] = "write" /\ into'[c] = nbuf /\ asked'[c] = asked[c]
          /\ answer'[c] = <<>> /\ asked[c] \in Fids /\ asked[c] <= 0
      BY <2>6, <2>10 DEF WriteFragments, Goto, At, TypeOK, WrittenBy
    <3>. QED
      BY <2>3, <3>1, EchoAssumption DEF WrittenBy
  <2>11. CASE WriteNext(c)
    <3>1. pc[c] = "write" /\ into[c] = nbuf /\ bufs[into[c]].n = N /\ asked' = asked /\ into' = into
      BY <2>5, <2>6, <2>11 DEF WriteNext, At, WrittenBy, Whole
    <3>2. answer[c] \in Seq(Frames)
      BY DEF TypeOK
    <3>3. CASE Len(answer[c]) < N
      <4>. DEFINE f == Frame(nbuf, Len(answer[c]) + 1)
      <4>1. answer'[c] = Append(answer[c], f) /\ pc'[c] = "write"
        BY <2>11, <3>1, <3>3 DEF WriteNext, TypeOK
      <4>2. f.of = nbuf /\ f.nth = Len(answer[c]) + 1 /\ Whole(f.buf)
        BY <2>5 DEF Frame
      <4>3. /\ Len(answer'[c]) = Len(answer[c]) + 1 /\ Len(answer'[c]) <= N
            /\ DOMAIN answer'[c] = 1 .. Len(answer[c]) + 1
            /\ \A i \in 1 .. Len(answer[c]) : answer'[c][i] = answer[c][i]
            /\ answer'[c][Len(answer[c]) + 1] = f
        BY <3>2, <3>3, <4>1, EchoAssumption
      <4>4. \A i \in DOMAIN answer'[c] : answer'[c][i].of = nbuf /\ Whole(answer'[c][i].buf)
                                      /\ answer'[c][i].nth = i
        BY <2>6, <3>1, <3>2, <4>2, <4>3 DEF WrittenBy
      <4>5. asked'[c] \in Fids /\ asked'[c] <= 0
        BY <2>6, <3>1 DEF WrittenBy
      <4>. QED
        BY <2>3, <3>1, <4>1, <4>3, <4>4, <4>5 DEF WrittenBy, Whole
    <3>4. CASE ~(Len(answer[c]) < N)
      <4>1. answer'[c] = answer[c] /\ pc'[c] = "check"
        BY <2>11, <3>1, <3>4 DEF WriteNext, Goto, TypeOK
      <4>2. Len(answer[c]) = N
        BY <2>6, <3>1, <3>2, <3>4, EchoAssumption DEF WrittenBy
      <4>3. \A i \in 1 .. N : answer'[c][i].nth = i
        BY <2>6, <3>1, <4>1, <4>2 DEF WrittenBy
      <4>4. asked'[c] <= 0
        BY <2>6, <3>1 DEF WrittenBy
      <4>5. \A i \in DOMAIN answer'[c] : answer'[c][i].of = nbuf /\ Whole(answer'[c][i].buf)
        BY <2>6, <4>1 DEF WrittenBy
      <4>. QED
        BY <2>3, <4>1, <4>2, <4>3, <4>4, <4>5 DEF WrittenBy, Whole
    <3>. QED
      BY <3>3, <3>4
  <2>12. CASE Look(c)
    <3>1. /\ pc'[c] = IF asked[c] <= N THEN "pick" ELSE "check"
          /\ asked'[c] = asked[c] /\ answer'[c] = <<>>
          /\ asked[c] \in Fids /\ asked[c] > 0
      BY <2>5, <2>6, <2>12 DEF Look, Goto, At, TypeOK, WrittenBy, Whole
    <3>2. asked[c] \in Int
      BY <3>1, EchoAssumption
    <3>. QED
      BY <3>1, <3>2, EchoAssumption DEF WrittenBy
  <2>13. CASE Pick(c)
    <3>1. asked[c] \in Fids /\ asked[c] > 0 /\ asked[c] <= N /\ bufs[nbuf].n = N
      BY <2>5, <2>6, <2>13 DEF Pick, At, TypeOK, WrittenBy, Whole
    <3>2. pc'[c] = "check" /\ asked'[c] = asked[c] /\ answer'[c] = <<Frame(nbuf, asked[c])>>
      BY <2>13, <3>1 DEF Pick, Goto, TypeOK
    <3>3. asked[c] \in Int
      BY <3>1, EchoAssumption
    <3>4. /\ DOMAIN answer'[c] = {1} /\ Len(answer'[c]) = 1
          /\ answer'[c][1].of = nbuf /\ Whole(answer'[c][1].buf) /\ answer'[c][1].nth = asked[c]
      BY <2>5, <3>2 DEF Frame
    <3>. QED
      BY <2>3, <3>1, <3>2, <3>3, <3>4 DEF WrittenBy, Whole
  <2>14. CASE ~(Accept(c) \/ SetUp(c) \/ Close(c) \/ Answer(c)) /\ ~ \E fid \in Fids : Request(c, fid)
    <3>1. pc'[c] = pc[c] /\ answer'[c] = answer[c] /\ asked'[c] = asked[c] /\ into'[c] = into[c]
      BY <2>2, <2>14, OthersWrite
    <3>. QED
      BY <2>3, <2>6, <3>1 DEF WrittenBy, Whole
  <2>. QED
    BY <2>7, <2>8, <2>9, <2>10, <2>11, <2>12, <2>13, <2>14 DEF Answer
<1>. QED
  BY <1>1, <1>2

(***************************************************************************)
(* A connection that comes after the set-up is answered with whole frames  *)
(* of the Buffer that is served, the ones it asked for, for any number of  *)
(* connections and fragments.                                              *)
(***************************************************************************)
THEOREM LateAnswersAreWhole == Spec => []LateAnswersWhole
<1>1. Init => BufInv /\ Written
  BY BufInit
<1>2. BufInv /\ Written /\ [Next]_vars => BufInv' /\ Written'
  BY BufNext, WrittenNext
<1>3. BufInv /\ Written => LateAnswersWhole
  BY DEF Written, WrittenBy, LateAnswersWhole
<1>. QED
  BY <1>1, <1>2, <1>3, PTL DEF Spec
=============================================================================
