--------------------------- MODULE TransferProofs ---------------------------
(***************************************************************************)
(* Proofs about Transfer for an object of any number of fragments: its     *)
(* types, that every request can be answered, that the client never falls  *)
(* back, and that it implements Delivery.                                  *)
(***************************************************************************)
EXTENDS Transfer, ReceiveBufferProofs

LEMMA ServedFacts ==
  ASSUME NEW i \in 1 .. N
  PROVE  /\ Served(i).types = type /\ Served(i).tid = tid
         /\ Served(i).fid \in Int /\ (Served(i).fid < 0 <=> i = N)
         /\ Number(Served(i).fid) = i
         /\ SchemaOf(Served(i)) = [types |-> type, tid |-> tid]
         /\ SchemaOf(Served(i)) # NoSchema
         /\ Served(i).payload = i
<1>1. /\ Served(i).types = type /\ Served(i).tid = tid /\ Served(i).payload = i
      /\ Served(i).fid = IF i = N THEN -i ELSE i
  BY DEF Served
<1>2. /\ Served(i).fid \in Int /\ (Served(i).fid < 0 <=> i = N)
      /\ Number(Served(i).fid) = i
  BY <1>1, TransferAssumption DEF Number
<1>3. SchemaOf(Served(i)) = [types |-> type, tid |-> tid]
  BY <1>1 DEF SchemaOf
<1>. QED
  BY <1>1, <1>2, <1>3, TransferAssumption, NoSchemaAssumption DEF Schemas

\* A Push adds the slot of the fragment and keeps all others.
LEMMA PushedServed ==
  ASSUME NEW b, BufferOK(b), NEW i \in 1 .. N
  PROVE  LET new == Pushed(b, Served(i))
         IN  /\ DOMAIN new = {"schema", "frags", "size"}
             /\ new.schema = [types |-> type, tid |-> tid]
             /\ DOMAIN new.frags = DOMAIN b.frags \cup {i - 1}
             /\ DOMAIN new.frags \subseteq 0 .. N - 1
             /\ new.frags = [k \in DOMAIN new.frags |-> Served(k + 1)]
<1>. DEFINE f == Served(i)
            old == Opened(b, f)
            new == Stored(old, f)
<1>1. /\ N \in Nat \ {0} /\ i \in 1 .. N
      /\ f.types = type /\ f.tid = tid /\ Number(f.fid) = i
      /\ SchemaOf(f) = [types |-> type, tid |-> tid] /\ SchemaOf(f) # NoSchema
  BY ServedFacts, TransferAssumption
<1>2. /\ DOMAIN old = {"schema", "frags", "size"}
      /\ old.schema = [types |-> type, tid |-> tid]
      /\ DOMAIN old.frags = DOMAIN b.frags
      /\ DOMAIN old.frags \subseteq 0 .. N - 1
      /\ \A k \in DOMAIN old.frags : old.frags[k] = Served(k + 1)
  <2>1. CASE b = EmptyBuffer
    BY <1>1, <2>1 DEF Opened, EmptyBuffer, EmptyMap
  <2>2. CASE b # EmptyBuffer
    <3>1. old = b
      BY <1>1, <2>2 DEF Opened, BufferOK
    <3>. QED
      BY <2>2, <3>1 DEF BufferOK
  <2>. QED
    BY <2>1, <2>2
<1>3. Pushed(b, f) = new
  BY <1>1, <1>2 DEF Pushed, PushError
<1>. HIDE DEF f, old
<1>4. /\ DOMAIN new = {"schema", "frags", "size"}
      /\ new.schema = [types |-> type, tid |-> tid]
      /\ new.frags = Put(old.frags, i - 1, f)
  BY <1>1, <1>2 DEF Stored
<1>5. DOMAIN new.frags = DOMAIN b.frags \cup {i - 1} /\ DOMAIN new.frags \subseteq 0 .. N - 1
  BY <1>1, <1>2, <1>4 DEF Put
<1>6. new.frags = [k \in DOMAIN new.frags |-> Served(k + 1)]
  <2>1. f = Served((i - 1) + 1)
    BY <1>1 DEF f
  <2>2. \A k \in DOMAIN new.frags : new.frags[k] = Served(k + 1)
    BY <1>2, <1>4, <2>1 DEF Put
  <2>3. new.frags = [k \in DOMAIN new.frags |-> new.frags[k]]
    BY <1>4 DEF Put
  <2>. QED
    BY <2>2, <2>3
<1>. QED
  BY <1>3, <1>4, <1>5, <1>6 DEF f

\* The client's Buffer is numbered as WantedCorrect expects.
LEMMA BufIsNumbered ==
  ASSUME NEW b, BufferOK(b)
  PROVE  N \in Nat \ {0} /\ Numbered(b, N)
<1>1. N \in Nat \ {0}
  BY TransferAssumption
<1>2. CASE b = EmptyBuffer
  BY <1>1, <1>2 DEF EmptyBuffer, EmptyMap, Numbered
<1>3. CASE b # EmptyBuffer
  <2>1. DOMAIN b.frags \subseteq 0 .. N - 1 /\ \A k \in DOMAIN b.frags : b.frags[k] = Served(k + 1)
    BY <1>3 DEF BufferOK
  <2>2. ASSUME NEW k \in DOMAIN b.frags
        PROVE  b.frags[k].fid \in Int /\ (b.frags[k].fid < 0 <=> k = N - 1)
    <3>1. k + 1 \in 1 .. N /\ k \in Int
      BY <1>1, <2>1
    <3>. QED
      BY <1>1, <2>1, <3>1, ServedFacts
  <2>. QED
    BY <1>1, <2>1, <2>2 DEF Numbered
<1>. QED
  BY <1>2, <1>3

\* What Wanted returns while the types are right.
LEMMA WantedOfBuf ==
  ASSUME NEW b, BufferOK(b)
  PROVE  /\ Wanted(b) \in 0 .. N
         /\ Wanted(b) = 0 => DOMAIN b.frags = 0 .. N - 1
         /\ Wanted(b) # 0 => Wanted(b) - 1 \notin DOMAIN b.frags
         /\ \A i \in 1 .. N : i - 1 \notin DOMAIN b.frags => Wanted(b) \in 1 .. i
<1>. DEFINE missing == {i \in 1 .. N : i - 1 \notin DOMAIN b.frags}
<1>1. N \in Nat \ {0} /\ Numbered(b, N)
  BY BufIsNumbered
<1>2. /\ Wanted(b) = 0 <=> missing = {}
      /\ missing # {} => Wanted(b) \in missing /\ \A i \in missing : Wanted(b) <= i
  BY <1>1, WantedCorrect
<1>3. ASSUME missing = {} PROVE DOMAIN b.frags = 0 .. N - 1
  <2>1. \A k \in 0 .. N - 1 : k + 1 \in 1 .. N /\ (k + 1) - 1 = k
    BY <1>1
  <2>2. \A k \in 0 .. N - 1 : k \in DOMAIN b.frags
    BY <1>3, <2>1
  <2>. QED
    BY <1>1, <2>2 DEF Numbered
<1>. QED
  BY <1>1, <1>2, <1>3

-----------------------------------------------------------------------------
LEMMA UnmarshalWhole ==
  ASSUME NEW b, BufferOK(b), Wanted(b) = 0
  PROVE  [k \in 1 .. Cardinality(DOMAIN b.frags) |-> b.frags[k - 1].payload]
           = [i \in 1 .. N |-> i]
<1>1. N \in Nat \ {0} /\ DOMAIN b.frags = 0 .. N - 1
  BY BufIsNumbered, WantedOfBuf
<1>2. Cardinality(DOMAIN b.frags) = N
  <2>1. Cardinality(0 .. N - 1) = IF 0 > N - 1 THEN 0 ELSE (N - 1) - 0 + 1
    BY <1>1, FS_Interval
  <2>. QED
    BY <1>1, <2>1
<1>3. ASSUME NEW k \in 1 .. N PROVE b.frags[k - 1].payload = k
  <2>1. k - 1 \in DOMAIN b.frags /\ (k - 1) + 1 = k
    BY <1>1
  <2>2. b # EmptyBuffer
    BY <2>1 DEF EmptyBuffer, EmptyMap
  <2>3. b.frags[k - 1] = Served(k)
    BY <2>1, <2>2 DEF BufferOK
  <2>. QED
    BY <2>3, ServedFacts
<1>. QED
  BY <1>2, <1>3

LEMMA TypeOKInit == Init => TypeOK
BY DEF Init, TypeOK, BufferOK

LEMMA TypeOKNext == TypeOK /\ [Next]_vars => TypeOK'
<1>. SUFFICES ASSUME TypeOK, [Next]_vars PROVE TypeOK'
  OBVIOUS
<1>. USE DEF TypeOK
<1>1. N \in Nat \ {0}
  BY TransferAssumption
<1>2. CASE UNCHANGED vars
  BY <1>2 DEF vars
<1>3. CASE Request
  <2>1. requests' = requests \cup {Wanted(buf)} /\ Wanted(buf) \in 0 .. N
    BY <1>3, WantedOfBuf DEF Request
  <2>2. requests' \subseteq Int
    <3>1. requests \subseteq Int /\ Wanted(buf) \in Int
      BY <1>1, <2>1
    <3>. QED
      BY <2>1, <3>1
  <2>. QED
    BY <1>3, <2>2 DEF Request
<1>4. CASE Unmarshal
  BY <1>4, UnmarshalWhole, ZenonT(30) DEF Unmarshal
<1>5. ASSUME NEW r \in requests, Answer(r) PROVE TypeOK'
  <2>1. requests' \subseteq Int /\ buf' = buf /\ delivered' = delivered
    BY <1>5 DEF Answer
  <2>2. frames' \subseteq 1 .. N
    BY <1>5 DEF Answer
  <2>. QED
    BY <2>1, <2>2
<1>5a. ASSUME NEW r \in requests, LoseRequest(r) PROVE TypeOK'
  BY <1>5a DEF LoseRequest
<1>6. ASSUME NEW i \in frames, Receive(i) PROVE TypeOK'
  <2>1. buf' = Pushed(buf, Served(i)) /\ i \in 1 .. N
    BY <1>6 DEF Receive
  <2>2. BufferOK(buf)'
    BY <2>1, PushedServed DEF BufferOK
  <2>. QED
    BY <1>6, <2>2 DEF Receive
<1>7. ASSUME NEW i \in frames, LoseFrame(i) PROVE TypeOK'
  BY <1>7 DEF LoseFrame
<1>. QED
  BY <1>2, <1>3, <1>4, <1>5, <1>5a, <1>6, <1>7 DEF Next

\* The client's Buffer only ever holds fragments of the served object, each in
\* the slot of its number (Buffer.Push).
THEOREM TypeCorrect == Spec => []TypeOK
BY TypeOKInit, TypeOKNext, PTL DEF Spec

\* Every request names a fragment the object has, so the server's "Invalid
\* fragment number" branch is unreachable (Wanted, handleEchoRequest).
THEOREM RequestsAnswerableCorrect == Spec => []RequestsAnswerable
<1>1. Init => RequestsAnswerable
  BY TransferAssumption DEF Init, RequestsAnswerable
<1>2. TypeOK /\ RequestsAnswerable /\ [Next]_vars => RequestsAnswerable'
  <2>. SUFFICES ASSUME TypeOK, RequestsAnswerable, [Next]_vars PROVE RequestsAnswerable'
    OBVIOUS
  <2>1. CASE Request
    BY <2>1, WantedOfBuf DEF Request, RequestsAnswerable, TypeOK
  <2>. QED
    BY <2>1 DEF Next, vars, Unmarshal, Answer, LoseRequest, Receive, LoseFrame, RequestsAnswerable
<1>. QED
  BY <1>1, <1>2, TypeCorrect, PTL DEF Spec

\* No arrival makes the client ask for a fragment it was already past
\* (Buffer.Push, Buffer.Wanted).
THEOREM WantedMovesOnCorrect == Spec => WantedMovesOn
<1>. DEFINE onward == Wanted(buf') = 0 \/ (Wanted(buf) # 0 /\ Wanted(buf') >= Wanted(buf))
<1>1. TypeOK /\ TypeOK' /\ [Next]_vars => [onward]_buf
  <2>. SUFFICES ASSUME TypeOK, TypeOK', Next, buf' # buf PROVE onward
    BY DEF vars
  <2>. HIDE DEF onward
  <2>1. PICK i \in 1 .. N : buf' = Pushed(buf, Served(i))
    BY DEF Next, Request, Unmarshal, Answer, LoseRequest, Receive, LoseFrame, TypeOK
  <2>2. DOMAIN buf.frags \subseteq DOMAIN buf'.frags
    <3>1. DOMAIN Pushed(buf, Served(i)).frags = DOMAIN buf.frags \cup {i - 1}
      BY PushedServed DEF TypeOK
    <3>. QED
      BY <2>1, <3>1
  <2>3. /\ Wanted(buf) \in 0 .. N
        /\ Wanted(buf) = 0 => DOMAIN buf.frags = 0 .. N - 1
        /\ \A j \in 1 .. N : j - 1 \notin DOMAIN buf.frags => Wanted(buf) \in 1 .. j
    BY WantedOfBuf DEF TypeOK
  <2>4. /\ Wanted(buf') \in 0 .. N
        /\ Wanted(buf') # 0 => Wanted(buf') - 1 \notin DOMAIN buf'.frags
    BY WantedOfBuf DEF TypeOK
  <2>5. CASE Wanted(buf') = 0
    BY <2>5 DEF onward
  <2>6. CASE Wanted(buf') # 0
    <3>1. Wanted(buf') \in 1 .. N /\ Wanted(buf') - 1 \notin DOMAIN buf.frags
      BY <2>2, <2>4, <2>6, TransferAssumption
    <3>2. Wanted(buf) \in 1 .. Wanted(buf')
      BY <2>3, <3>1
    <3>. QED
      BY <3>1, <3>2 DEF onward
  <2>. QED
    BY <2>5, <2>6
<1>. QED
  BY <1>1, TypeCorrect, PTL DEF Spec, WantedMovesOn

-----------------------------------------------------------------------------
(* Transfer implements Delivery. *)

\* The held numbers, in terms of slots.
LEMMA HeldSlots ==
  ASSUME NEW b, BufferOK(b)
  PROVE  HeldBy(b) = {k + 1 : k \in DOMAIN b.frags}
<1>1. CASE b = EmptyBuffer
  BY <1>1 DEF HeldBy, EmptyBuffer, EmptyMap
<1>2. CASE b # EmptyBuffer
  <2>1. ASSUME NEW k \in DOMAIN b.frags PROVE Number(b.frags[k].fid) = k + 1
    <3>1. k + 1 \in 1 .. N /\ b.frags[k] = Served(k + 1)
      BY <1>2, TransferAssumption DEF BufferOK
    <3>. QED
      BY <3>1, ServedFacts
  <2>. QED
    BY <2>1 DEF HeldBy
<1>. QED
  BY <1>1, <1>2

LEMMA StepImplements == TypeOK /\ TypeOK' /\ [Next]_vars => [Promise!Next]_Promise!vars
<1>. SUFFICES ASSUME TypeOK, TypeOK', [Next]_vars PROVE [Promise!Next]_Promise!vars
  OBVIOUS
<1>0. N \in Nat \ {0}
  BY TransferAssumption
<1>1. CASE buf' = buf /\ delivered' = delivered
  BY <1>1 DEF Promise!vars, Held, HeldBy
<1>2. CASE Unmarshal
  <2>1. DOMAIN buf.frags = 0 .. N - 1
    BY <1>2, WantedOfBuf DEF Unmarshal, TypeOK
  <2>2. Held = 1 .. N
    <3>1. Held = {k + 1 : k \in 0 .. N - 1}
      BY <2>1, HeldSlots DEF TypeOK, Held
    <3>2. \A i \in 1 .. N : i - 1 \in 0 .. N - 1 /\ (i - 1) + 1 = i
      BY <1>0
    <3>. QED
      BY <1>0, <3>1, <3>2
  <2>3. Held' = Held
    BY <1>2 DEF Unmarshal, Held
  <2>4. delivered' = delivered \cup {Promise!Whole}
    BY <1>2, UnmarshalWhole DEF Unmarshal, TypeOK, Promise!Whole
  <2>. QED
    BY <2>2, <2>3, <2>4 DEF Promise!Next, Promise!Deliver
<1>3. ASSUME NEW i \in frames, Receive(i) PROVE Promise!Next
  <2>1. i \in 1 .. N /\ buf' = Pushed(buf, Served(i)) /\ delivered' = delivered
    BY <1>3 DEF Receive, TypeOK
  <2>2. DOMAIN buf'.frags = DOMAIN buf.frags \cup {i - 1}
    BY <2>1, PushedServed DEF TypeOK
  <2>3. Held = {k + 1 : k \in DOMAIN buf.frags}
    BY HeldSlots DEF TypeOK, Held
  <2>4. Held' = {k + 1 : k \in DOMAIN buf'.frags}
    BY HeldSlots DEF TypeOK, Held
  <2>5. Held' = Held \cup {i}
    BY <1>0, <2>1, <2>2, <2>3, <2>4
  <2>. QED
    BY <2>1, <2>5 DEF Promise!Next, Promise!Get
<1>. QED
  BY <1>1, <1>2, <1>3 DEF Next, vars, Request, Answer, LoseRequest, LoseFrame

\* Whatever the channel loses, repeats or reorders, what is unmarshalled is the
\* whole object and nothing else (Push, Wanted, UnmarshalTo).
THEOREM ImplementsDelivery == Spec => Implements
<1>1. Init => Promise!Init
  BY DEF Init, Promise!Init, Held, HeldBy, EmptyBuffer, EmptyMap
<1>. QED
  BY <1>1, StepImplements, TypeCorrect, PTL DEF Spec, Implements, Promise!Spec
=============================================================================
