--------------------------- MODULE MultipartProofs ---------------------------
(***************************************************************************)
(* Theorems about Multipart, for messages of any number of parts, any high *)
(* water mark and any order of calls, arrivals and failures.               *)
(*                                                                         *)
(* What is sent: the wire is at the end of a message exactly when the      *)
(* application is.  What is received: messages arrive whole, so that more  *)
(* parts are there when the last one promised them, the parts of events    *)
(* alternate, and what was given, is held by a call and waits are, one     *)
(* after the other, the parts that arrived and were not dropped.  Of a     *)
(* call in the middle of a message: it can go on, and what it has left to  *)
(* move gets less.                                                         *)
(***************************************************************************)
EXTENDS Multipart, FiniteSetTheorems, SequenceTheorems,
        WellFoundedInduction, TLAPS

Part == [id : Nat \ {SocketObject}, more : BOOLEAN]
SentPart == [first : BOOLEAN, more : BOOLEAN]
Calls == [op : {"none"} \cup SendCalls \cup RecvCalls, parts : Seq(Elements),
          last : BOOLEAN, begun : BOOLEAN, got : Seq(Nat)]

Types ==
    /\ arrived \in Nat
    /\ inbox \in Seq(Part)
    /\ outbox \in Seq(SentPart)
    /\ call \in Calls
    /\ reading \in BOOLEAN /\ flag \in BOOLEAN /\ told \in BOOLEAN
    /\ meant \in BOOLEAN /\ term \in BOOLEAN /\ aborted \in BOOLEAN

-----------------------------------------------------------------------------
(* Sending.                                                                *)

Clean == did \cap {"badElement", "noMemory", "nothing"} = {}

FirstsFit ==
    \A i \in DOMAIN outbox : outbox[i].first = (i = 1 \/ ~outbox[i - 1].more)

SendInv ==
    /\ call.op \in SendCalls => call.parts # <<>>
    /\ call.begun => meant
    /\ Clean => FirstsFit
    /\ Clean /\ ~term => (AtBoundary <=> ~meant)

-----------------------------------------------------------------------------
(* Receiving.                                                              *)

(* Messages arrive whole, and an event is one part with a successor and    *)
(* one without.                                                            *)
Whole ==
    /\ inbox # <<>> => ~inbox[Len(inbox)].more
    /\ reading => inbox # <<>>
    /\ kind = "monitor" =>
        /\ inbox # <<>> => inbox[1].more = ~reading
        /\ \A i \in 1 .. Len(inbox) - 1 : inbox[i + 1].more = ~inbox[i].more

Collects == call.op \in {"recv_all", "recvx", "recv_event"}
Outside == call.op \in {"none"} \cup SendCalls

(* What the application knows of the message it receives.                  *)
Knows ==
    ~term /\ ~aborted /\ "middle" \notin did =>
        /\ Outside => told = reading
        /\ Collects => ~told /\ (reading <=> call.got # <<>>)

FlagFits ==
    ~term /\ ~aborted /\ did \cap {"middle", "msg_recv"} = {} =>
        (Outside \/ Collects => flag = told)

EventInv ==
    /\ call.op = "recv_event" => kind = "monitor" /\ Len(call.got) <= 1
    /\ AssertionsHold

RecvInv == Whole /\ Knows /\ FlagFits /\ EventInv

IInv == Types /\ SendInv /\ RecvInv

-----------------------------------------------------------------------------

LEMMA FunctionIsSequence ==
    ASSUME NEW S, NEW n \in Nat, NEW s \in [1 .. n -> S]
    PROVE  s \in Seq(S) /\ Len(s) = n
OBVIOUS

LEMMA ListsAreSequences == Lists(Elements) \subseteq Seq(Elements)
BY FunctionIsSequence, BoundsAssumption DEF Lists

LEMMA InitIInv == Init => IInv
<1> SUFFICES ASSUME Init PROVE IInv
  OBVIOUS
<1>1. /\ reading \in BOOLEAN /\ flag \in BOOLEAN /\ told \in BOOLEAN
      /\ meant \in BOOLEAN /\ term \in BOOLEAN /\ aborted \in BOOLEAN
      /\ ~meant /\ ~reading /\ told = reading /\ flag = told /\ ~aborted
  BY Zenon DEF Init
<1>2. /\ inbox = <<>> /\ outbox = <<>> /\ arrived = 0
      /\ call = [op |-> "none", parts |-> <<>>, last |-> FALSE,
                 begun |-> FALSE, got |-> <<>>]
  BY DEF Init, Idle, Call
<1>3. call \in Calls
  BY <1>2 DEF Calls
<1>4. Types
  BY <1>1, <1>2, <1>3 DEF Types
<1>5. SendInv
  BY <1>1, <1>2 DEF SendInv, FirstsFit, AtBoundary, SendCalls
<1>6. Outside /\ ~Collects /\ call.op # "recv_event"
  BY <1>2 DEF Outside, Collects
<1>7. RecvInv
  BY <1>1, <1>2, <1>6 DEF RecvInv, Whole, Knows, FlagFits, EventInv,
     AssertionsHold
<1> QED
  BY <1>4, <1>5, <1>7 DEF IInv

(* A part that is sent keeps the wire and the application in step.         *)
LEMMA PutKeeps ==
    ASSUME Types, SendInv, ~term, term' = term, did' = did,
           NEW more \in BOOLEAN, Put(~meant, more), meant' = more
    PROVE  /\ outbox' \in Seq(SentPart)
           /\ Clean => FirstsFit'
           /\ Clean => (AtBoundary' <=> ~meant')
<1> DEFINE part == [first |-> ~meant, more |-> more]
<1>1. outbox' = Append(outbox, part) /\ part \in SentPart
  BY DEF Put, Types, SentPart
<1>2. /\ outbox' \in Seq(SentPart)
      /\ Len(outbox') = Len(outbox) + 1
      /\ outbox'[Len(outbox) + 1] = part
      /\ \A i \in 1 .. Len(outbox) : outbox'[i] = outbox[i]
  BY <1>1 DEF Types
<1>3. Clean => (AtBoundary' <=> ~meant')
  BY <1>1, <1>2 DEF AtBoundary, Types
<1>4. ASSUME Clean PROVE FirstsFit'
  <2> SUFFICES ASSUME NEW i \in 1 .. Len(outbox) + 1
               PROVE  outbox'[i].first = (i = 1 \/ ~outbox'[i - 1].more)
    BY <1>2 DEF FirstsFit
  <2>1. CASE i = Len(outbox) + 1
    <3>1. AtBoundary <=> ~meant
      BY <1>4 DEF SendInv
    <3>2. outbox = <<>> <=> i = 1
      BY <2>1 DEF Types
    <3>3. i # 1 => outbox'[i - 1] = outbox[Len(outbox)]
      BY <2>1, <1>2 DEF Types
    <3> QED
      BY <2>1, <3>1, <3>2, <3>3, <1>1, <1>2 DEF AtBoundary, Types, SentPart
  <2>2. CASE i \in 1 .. Len(outbox)
    <3>1. outbox[i].first = (i = 1 \/ ~outbox[i - 1].more)
      BY <2>2, <1>4 DEF SendInv, FirstsFit, Types
    <3>2. outbox'[i] = outbox[i] /\ (i # 1 => outbox'[i - 1] = outbox[i - 1])
      BY <2>2, <1>2 DEF Types
    <3> QED
      BY <3>1, <3>2
  <2> QED
    BY <2>1, <2>2, <1>2 DEF Types
<1> QED
  BY <1>2, <1>3, <1>4

(* What a step of a sending method leaves alone.                           *)
LEMMA RecvFrame ==
    ASSUME IInv, UNCHANGED <<kind, incoming, term, aborted>>,
           did \subseteq did', Outside, Outside'
    PROVE  RecvInv'
<1>1. UNCHANGED <<arrived, inbox, reading, flag, given, told>>
  BY DEF incoming
<1>2. ~Collects' /\ call'.op # "recv_event"
  BY DEF Outside, Collects, SendCalls
<1>3. Whole'
  BY <1>1 DEF IInv, RecvInv, Whole
<1>4. Knows'
  BY <1>1, <1>2 DEF IInv, RecvInv, Knows
<1>5. FlagFits'
  BY <1>1, <1>2 DEF IInv, RecvInv, FlagFits
<1>6. EventInv'
  BY <1>2 DEF IInv, RecvInv, EventInv, AssertionsHold
<1> QED
  BY <1>3, <1>4, <1>5, <1>6 DEF RecvInv

(* What a step of a receiving method leaves alone.                         *)
LEMMA SendFrame ==
    ASSUME IInv, UNCHANGED outgoing, term => term',
           did \subseteq did', call'.begun => call.begun,
           call'.op \in SendCalls => call'.parts # <<>>
    PROVE  SendInv'
<1>1. UNCHANGED <<outbox, meant>>
  BY DEF outgoing
<1>2. Clean' => Clean
  BY DEF Clean
<1> QED
  BY <1>1, <1>2 DEF IInv, SendInv, FirstsFit, AtBoundary

-----------------------------------------------------------------------------
(* The steps of the sending methods.                                       *)

LEMMA SendOneKeeps ==
    ASSUME IInv, NEW more \in BOOLEAN, SendOne(more)
    PROVE  IInv'
<1>1. /\ UNCHANGED <<kind, incoming, term, call, aborted, did>>
      /\ call = Idle /\ ~term /\ Put(~meant, more) /\ meant' = more
  BY DEF SendOne, CanCall, CanWork
<1>2. call.op = "none" /\ ~call.begun
  BY <1>1 DEF Idle, Call
<1>3. /\ outbox' \in Seq(SentPart)
      /\ Clean => FirstsFit' /\ (AtBoundary' <=> ~meant')
  BY <1>1, PutKeeps DEF IInv
<1>4. SendInv'
  BY <1>1, <1>2, <1>3 DEF SendInv, Clean, SendCalls
<1>5. RecvInv'
  BY <1>1, <1>2, RecvFrame DEF Outside
<1>6. Types'
  BY <1>1, <1>3 DEF IInv, Types, incoming
<1> QED
  BY <1>4, <1>5, <1>6 DEF IInv

LEMMA SendListKeeps ==
    ASSUME IInv, NEW op \in SendCalls, NEW parts \in Lists(Elements),
           NEW last \in BOOLEAN, SendList(op, parts, last)
    PROVE  IInv'
<1>1. /\ UNCHANGED <<kind, incoming, outbox, term, aborted>>
      /\ call = Idle
  BY DEF SendList, CanCall
<1>2. call.op = "none" /\ ~call.begun
  BY <1>1 DEF Idle, Call
<1>3. CASE parts = <<>>
  <2>1. /\ UNCHANGED call /\ meant' = last
        /\ did' = IF meant # last THEN did \cup {"nothing"} ELSE did
    BY <1>3 DEF SendList
  <2>2. SendInv'
    <3> USE DEF SendCalls
    <3>1. CASE meant = last
      BY <1>1, <1>2, <2>1, <3>1 DEF IInv, SendInv, Clean, FirstsFit, AtBoundary
    <3>2. CASE meant # last
      BY <1>2, <2>1, <3>2 DEF SendInv, Clean
    <3> QED
      BY <3>1, <3>2
  <2>3. did \subseteq did'
    BY <2>1
  <2>4. RecvInv'
    BY <1>1, <1>2, <2>1, <2>3, RecvFrame DEF Outside
  <2>5. Types'
    BY <1>1, <2>1 DEF IInv, Types, incoming
  <2> QED
    BY <2>2, <2>4, <2>5 DEF IInv
<1>4. CASE parts # <<>>
  <2>1. UNCHANGED <<meant, did>> /\ call' = Call(op, parts, last)
    BY <1>4 DEF SendList
  <2>2. /\ call' \in Calls
        /\ ~call'.begun /\ call'.op = op /\ call'.parts # <<>>
    BY <1>4, <2>1, ListsAreSequences DEF Call, Calls
  <2>3. SendInv'
    BY <1>1, <2>1, <2>2, SendFrame DEF outgoing
  <2>4. RecvInv'
    BY <1>1, <1>2, <2>1, <2>2, RecvFrame DEF Outside
  <2>5. Types'
    BY <1>1, <2>1, <2>2 DEF IInv, Types, incoming
  <2> QED
    BY <2>3, <2>4, <2>5 DEF IInv
<1> QED
  BY <1>3, <1>4

(* A call that has begun a message is in the middle of it.                 *)
LEMMA SendPartKeeps ==
    ASSUME IInv, SendPart
    PROVE  IInv'
<1> DEFINE more == IF Len(call.parts) = 1 THEN call.last ELSE TRUE
<1>1. /\ UNCHANGED <<kind, incoming, term, aborted, did>>
      /\ call.op \in SendCalls /\ ~term
      /\ Head(call.parts) = "string"
      /\ Put(~meant /\ ~call.begun, more) /\ meant' = more
      /\ call' = IF Len(call.parts) = 1 THEN Idle
                 ELSE [call EXCEPT !.parts = Tail(@), !.begun = TRUE]
  BY DEF SendPart, CanWork
<1>2. more \in BOOLEAN
  BY DEF IInv, Types, Calls
<1>3. (~meant /\ ~call.begun) = ~meant
  BY DEF IInv, Types, Calls, SendInv
<1>4. Put(~meant, more)
  BY <1>1, <1>3
<1> HIDE DEF more
<1>5. /\ outbox' \in Seq(SentPart)
      /\ Clean => FirstsFit' /\ (AtBoundary' <=> ~meant')
  BY <1>1, <1>2, <1>4, PutKeeps DEF IInv
<1>6. /\ call' \in Calls /\ Outside'
      /\ call'.op \in SendCalls => call'.parts # <<>>
      /\ call'.begun => more
  <2>1. call.parts \in Seq(Elements) /\ call.parts # <<>>
    BY <1>1 DEF IInv, Types, Calls, SendInv
  <2>2. CASE Len(call.parts) = 1
    <3>1. call' = [op |-> "none", parts |-> <<>>, last |-> FALSE,
                   begun |-> FALSE, got |-> <<>>]
      BY <1>1, <2>2 DEF Idle, Call
    <3> QED
      BY <3>1 DEF Calls, Outside, SendCalls
  <2>3. CASE Len(call.parts) # 1
    <3>1. call' = [op |-> call.op, parts |-> Tail(call.parts),
                   last |-> call.last, begun |-> TRUE, got |-> call.got]
      BY <1>1, <2>3 DEF IInv, Types, Calls
    <3>2. Tail(call.parts) \in Seq(Elements) /\ Tail(call.parts) # <<>>
      <4>1. Len(call.parts) \in Nat /\ Len(call.parts) > 1
        <5>1. Len(call.parts) \in Nat
          BY <2>1, LenProperties
        <5>2. Len(call.parts) # 0
          BY <2>1, EmptySeq
        <5>3. \A n \in Nat : n # 0 /\ n # 1 => n > 1
          OBVIOUS
        <5> QED
          BY <5>1, <5>2, <5>3, <2>3, Zenon
      <4>2. /\ Tail(call.parts) \in Seq(Elements)
            /\ Len(Tail(call.parts)) = Len(call.parts) - 1
        BY <2>1, HeadTailProperties
      <4> QED
        BY <4>1, <4>2, Len(<<>>) = 0
    <3>3. call' \in Calls
      BY <3>1, <3>2 DEF IInv, Types, Calls
    <3>4. more
      BY <2>3 DEF more
    <3> QED
      BY <1>1, <3>1, <3>2, <3>3, <3>4 DEF Outside
  <2> QED
    BY <2>2, <2>3
<1>7. SendInv'
  BY <1>1, <1>5, <1>6 DEF SendInv, Clean
<1>8. RecvInv'
  BY <1>1, <1>6, RecvFrame DEF Outside
<1>9. Types'
  BY <1>1, <1>2, <1>5, <1>6 DEF IInv, Types, incoming
<1> QED
  BY <1>7, <1>8, <1>9 DEF IInv

LEMMA IdleType ==
    Idle = [op |-> "none", parts |-> <<>>, last |-> FALSE,
            begun |-> FALSE, got |-> <<>>] /\ Idle \in Calls
BY DEF Idle, Call, Calls

(* A call that fails after it has begun takes the application out of step, *)
(* unless the library gives up for good: there is room for the next part.  *)
LEMMA SendEndsKeeps ==
    ASSUME IInv, \/ \E cause \in {"badElement", "noMemory"} : SendStops(cause)
                 \/ SendFails
    PROVE  IInv'
<1>1. /\ UNCHANGED <<kind, incoming, outbox, term, aborted>>
      /\ call.op \in SendCalls /\ call' = Idle /\ did \subseteq did'
      /\ meant' \in BOOLEAN
  BY DEF SendStops, SendFails, IInv, Types
<1>2. call'.op = "none" /\ ~call'.begun /\ call' \in Calls
  BY <1>1, IdleType
<1>3. SendInv'
  <2>1. ASSUME NEW cause \in {"badElement", "noMemory"}, SendStops(cause)
        PROVE  SendInv'
    <3>1. CASE call.begun
      BY <2>1, <3>1, <1>2 DEF SendStops, SendInv, Clean, SendCalls
    <3>2. CASE ~call.begun
      <4>1. UNCHANGED <<meant, did>>
        BY <2>1, <3>2 DEF SendStops
      <4> QED
        BY <4>1, <1>1, <1>2, SendFrame DEF outgoing, SendCalls
    <3> QED
      BY <3>1, <3>2
  <2>2. ASSUME SendFails PROVE SendInv'
    <3>1. /\ did' = did /\ (term \/ ~HasRoom)
          /\ meant' = (meant /\ ~call.begun)
      BY <2>2 DEF SendFails
    <3>2. Clean /\ ~term => meant' = meant
      BY <3>1 DEF HasRoom, IInv, SendInv, Types
    <3> QED
      BY <1>1, <1>2, <3>1, <3>2
         DEF IInv, SendInv, Clean, FirstsFit, AtBoundary, SendCalls
  <2> QED
    BY <2>1, <2>2
<1>4. RecvInv'
  BY <1>1, <1>2, RecvFrame DEF Outside
<1>5. Types'
  BY <1>1, <1>2 DEF IInv, Types, incoming
<1> QED
  BY <1>3, <1>4, <1>5 DEF IInv

-----------------------------------------------------------------------------
(* The steps of the receiving methods.                                     *)

LEMMA TakeKeeps ==
    ASSUME IInv, Take, kind' = kind
    PROVE  /\ arrived' = arrived /\ inbox' \in Seq(Part)
           /\ Head(inbox).id \in Nat /\ Head(inbox).more \in BOOLEAN
           /\ reading' \in BOOLEAN /\ reading' = Head(inbox).more
           /\ kind = "monitor" => (reading' <=> ~reading)
           /\ Whole'
<1>1. /\ inbox \in Seq(Part) /\ inbox # <<>>
      /\ inbox' = Tail(inbox) /\ reading' = Head(inbox).more
      /\ arrived' = arrived
  BY DEF Take, IInv, Types
<1>2. /\ Head(inbox) \in Part /\ Head(inbox) = inbox[1]
      /\ inbox' \in Seq(Part) /\ Len(inbox') = Len(inbox) - 1
      /\ \A i \in 1 .. Len(inbox') : inbox'[i] = inbox[i + 1]
      /\ Len(inbox) \in Nat \ {0}
  BY <1>1, HeadTailProperties, EmptySeq
<1>3. inbox' = <<>> <=> Len(inbox) = 1
  BY <1>2, EmptySeq
<1>4. inbox' # <<>> => inbox'[Len(inbox')] = inbox[Len(inbox)]
  BY <1>2, <1>3
<1>5. kind = "monitor" => (reading' <=> ~reading)
  BY <1>1, <1>2 DEF IInv, RecvInv, Whole, Types, Part
<1>6. Whole'
  <2>1. inbox' # <<>> => ~inbox'[Len(inbox')].more
    BY <1>1, <1>4 DEF IInv, RecvInv, Whole
  <2>2. reading' => inbox' # <<>>
    BY <1>1, <1>2, <1>3 DEF IInv, RecvInv, Whole
  <2>3. ASSUME kind = "monitor", inbox' # <<>>
        PROVE  inbox'[1].more = ~reading'
    <3>1. 1 \in 1 .. Len(inbox) - 1 /\ inbox'[1] = inbox[1 + 1]
      BY <1>2, <1>3, <2>3
    <3>2. inbox[1 + 1].more = ~inbox[1].more
      BY <2>3, <3>1 DEF IInv, RecvInv, Whole
    <3> QED
      BY <1>1, <1>2, <3>1, <3>2
  <2>4. ASSUME kind = "monitor", NEW i \in 1 .. Len(inbox') - 1
        PROVE  inbox'[i + 1].more = ~inbox'[i].more
    <3>1. /\ i + 1 \in 1 .. Len(inbox) - 1
          /\ inbox'[i] = inbox[i + 1] /\ inbox'[i + 1] = inbox[(i + 1) + 1]
      BY <1>2
    <3> QED
      BY <2>4, <3>1 DEF IInv, RecvInv, Whole
  <2> QED
    BY <2>1, <2>2, <2>3, <2>4 DEF Whole
<1> QED
  BY <1>1, <1>2, <1>5, <1>6 DEF Part

(* The socket object's flag follows, but for msg:recv(skt).                *)
LEMMA RecvOneKeeps ==
    ASSUME IInv, RecvOne,
           \/ SetMore(Head(inbox).more) /\ UNCHANGED did
           \/ did' = did \cup {"msg_recv"} /\ UNCHANGED flag
    PROVE  IInv'
<1>1. /\ UNCHANGED <<kind, outgoing, term, call, aborted>>
      /\ call = Idle /\ Take /\ told' = Head(inbox).more
  BY DEF RecvOne, CanCall, Hand
<1>2. /\ call.op = "none" /\ Outside /\ ~Collects
      /\ call' = call
  BY <1>1, IdleType DEF Outside, Collects
<1>3. /\ arrived' = arrived /\ inbox' \in Seq(Part)
      /\ reading' \in BOOLEAN /\ reading' = Head(inbox).more
      /\ Whole'
  BY <1>1, TakeKeeps
<1>4. /\ flag' \in BOOLEAN /\ did \subseteq did'
      /\ "msg_recv" \in did' \/ flag' = reading'
  BY <1>3 DEF SetMore, IInv, Types
<1>5. SendInv'
  BY <1>1, <1>2, <1>4, SendFrame DEF SendCalls
<1>6. told' = reading' /\ told' \in BOOLEAN
  BY <1>1, <1>3
<1>7. Knows'
  BY <1>2, <1>6 DEF Knows, Collects
<1>8. FlagFits'
  BY <1>4, <1>6 DEF FlagFits
<1>9. EventInv'
  BY <1>1, <1>2, <1>4 DEF IInv, RecvInv, EventInv, AssertionsHold
<1>10. Types'
  BY <1>1, <1>3, <1>4, <1>6 DEF IInv, Types, outgoing
<1> QED
  BY <1>3, <1>5, <1>7, <1>8, <1>9, <1>10 DEF IInv, RecvInv

LEMMA RecvLenKeeps ==
    ASSUME IInv, RecvLen
    PROVE  IInv'
<1>1. /\ UNCHANGED <<kind, flag, told, outgoing, term, aborted, did>>
      /\ Take
  BY DEF RecvLen
<1>2. /\ arrived' = arrived /\ inbox' \in Seq(Part)
      /\ reading' \in BOOLEAN /\ Head(inbox).id \in Nat /\ Whole'
  BY <1>1, TakeKeeps
<1>3. call' = [op |-> "recv_len", parts |-> <<>>, last |-> FALSE,
               begun |-> FALSE, got |-> <<Head(inbox).id>>]
  BY DEF RecvLen, Call
<1>4. call' \in Calls
  BY <1>2, <1>3 DEF Calls, RecvCalls
<1>5. SendInv'
  <2>1. ~call'.begun /\ call'.op \notin SendCalls
    BY <1>3 DEF SendCalls
  <2> QED
    BY <1>1, <2>1, SendFrame
<1>6. ~Outside' /\ ~Collects' /\ call'.op # "recv_event"
  BY <1>3 DEF Outside, Collects, SendCalls
<1>7. Knows' /\ FlagFits' /\ EventInv'
  BY <1>1, <1>6 DEF Knows, FlagFits, EventInv, AssertionsHold, IInv, RecvInv
<1>8. Types'
  BY <1>1, <1>2, <1>4 DEF IInv, Types, outgoing
<1> QED
  BY <1>2, <1>5, <1>7, <1>8 DEF IInv, RecvInv

LEMMA RecvLenMoreKeeps ==
    ASSUME IInv, RecvLenMore
    PROVE  IInv'
<1>1. /\ UNCHANGED <<kind, arrived, inbox, reading, outgoing, term, aborted, did>>
      /\ flag' = reading /\ told' = reading /\ call' = Idle
  BY DEF RecvLenMore, SetMore, Hand
<1>2. /\ call'.op = "none" /\ ~call'.begun /\ call' \in Calls
      /\ ~Collects'
  BY <1>1, IdleType DEF Collects
<1>3. SendInv'
  BY <1>1, <1>2, SendFrame DEF SendCalls
<1>4. Whole' /\ Knows' /\ FlagFits' /\ EventInv'
  BY <1>1, <1>2 DEF Whole, Knows, FlagFits, EventInv, AssertionsHold, IInv,
     RecvInv
<1>5. Types'
  BY <1>1, <1>2 DEF IInv, Types, outgoing
<1> QED
  BY <1>3, <1>4, <1>5 DEF IInv, RecvInv

(* A method that collects starts from what the application knows.          *)
LEMMA RecvListKeeps ==
    ASSUME IInv, NEW op \in {"recv_all", "recvx", "recv_event"}, RecvList(op),
           op = "recv_event" => kind = "monitor"
    PROVE  IInv'
<1>1. /\ UNCHANGED <<kind, incoming, outgoing, term, aborted>>
      /\ call = Idle /\ did \subseteq did'
      /\ told => "middle" \in did'
  BY DEF RecvList, CanCall
<1>2. UNCHANGED <<arrived, inbox, reading, flag, told>>
  BY <1>1 DEF incoming
<1>3. call' = [op |-> op, parts |-> <<>>, last |-> FALSE,
               begun |-> FALSE, got |-> <<>>]
  BY DEF RecvList, Call
<1>4. call' \in Calls /\ ~call'.begun /\ call'.op \notin SendCalls
  BY <1>3 DEF Calls, SendCalls, RecvCalls
<1>5. SendInv'
  BY <1>1, <1>4, SendFrame
<1>6. ~Outside' /\ call'.op = op /\ call'.got = <<>> /\ Len(<<>>) = 0
  BY <1>3 DEF Outside, SendCalls
<1>7. Outside
  BY <1>1, IdleType DEF Outside
<1>8. Knows'
  BY <1>1, <1>2, <1>6, <1>7 DEF Knows, IInv, RecvInv, Types
<1>9. FlagFits'
  BY <1>1, <1>2, <1>7 DEF FlagFits, IInv, RecvInv
<1>10. Whole' /\ EventInv'
  BY <1>1, <1>2, <1>6 DEF Whole, EventInv, AssertionsHold, IInv, RecvInv
<1>11. Types'
  BY <1>1, <1>2, <1>4 DEF IInv, Types, outgoing
<1> QED
  BY <1>5, <1>8, <1>9, <1>10, <1>11 DEF IInv, RecvInv

(* A part of a message, or its last one.                                   *)
LEMMA RecvPartKeeps ==
    ASSUME IInv, RecvPart
    PROVE  IInv'
<1>1. /\ UNCHANGED <<kind, flag, outgoing, term, aborted, did>>
      /\ call.op \in {"recv_all", "recvx"} /\ Take
  BY DEF RecvPart
<1>2. /\ arrived' = arrived /\ inbox' \in Seq(Part)
      /\ Head(inbox).id \in Nat /\ Head(inbox).more \in BOOLEAN
      /\ reading' \in BOOLEAN /\ reading' = Head(inbox).more
      /\ Whole'
  BY <1>1, TakeKeeps
<1>3. /\ call \in Calls /\ call.got \in Seq(Nat)
      /\ Append(call.got, Head(inbox).id) \in Seq(Nat)
      /\ Append(call.got, Head(inbox).id) # <<>>
  <2>1. call \in Calls /\ call.got \in Seq(Nat)
    BY DEF IInv, Types, Calls
  <2> QED
    BY <1>2, <2>1, AppendProperties, SMTT(30)
<1>4. CASE Head(inbox).more
  <2>1. /\ told' = told
        /\ call' = [op |-> call.op, parts |-> call.parts, last |-> call.last,
                    begun |-> call.begun,
                    got |-> Append(call.got, Head(inbox).id)]
    BY <1>3, <1>4 DEF RecvPart, Calls
  <2>2. /\ call' \in Calls /\ call'.op = call.op /\ call'.begun = call.begun
        /\ call'.op \notin SendCalls /\ call'.got # <<>>
    BY <1>1, <1>3, <2>1 DEF Calls, SendCalls
  <2>3. SendInv'
    BY <1>1, <2>2, SendFrame
  <2>4. Collects /\ Collects' /\ ~Outside' /\ call'.op # "recv_event"
    BY <1>1, <2>2 DEF Collects, Outside
  <2>5. Knows' /\ FlagFits' /\ EventInv'
    BY <1>1, <1>2, <1>4, <2>1, <2>2, <2>4
       DEF Knows, FlagFits, EventInv, AssertionsHold, IInv, RecvInv
  <2>6. Types'
    BY <1>1, <1>2, <2>1, <2>2 DEF IInv, Types, outgoing
  <2> QED
    BY <1>2, <2>3, <2>5, <2>6 DEF IInv, RecvInv
<1>5. CASE ~Head(inbox).more
  <2>1. call' = Idle /\ told' = FALSE
    BY <1>5 DEF RecvPart, Hand
  <2>2. /\ call' \in Calls /\ call'.op = "none" /\ ~call'.begun
        /\ call'.op \notin SendCalls /\ ~Collects'
    BY <2>1, IdleType DEF SendCalls, Collects
  <2>3. SendInv'
    BY <1>1, <2>2, SendFrame
  <2>4. Collects
    BY <1>1 DEF Collects
  <2>5. Knows' /\ FlagFits' /\ EventInv'
    BY <1>1, <1>2, <1>5, <2>1, <2>2, <2>4
       DEF Knows, FlagFits, EventInv, AssertionsHold, IInv, RecvInv, Types
  <2>6. Types'
    BY <1>1, <1>2, <2>1, <2>2 DEF IInv, Types, outgoing
  <2> QED
    BY <1>2, <2>3, <2>5, <2>6 DEF IInv, RecvInv
<1> QED
  BY <1>4, <1>5

(* The parts of an event come as its assertions say: the first when the    *)
(* last part received had no successor, the second when it had one.        *)
LEMMA RecvEventPartKeeps ==
    ASSUME IInv, RecvEventPart
    PROVE  IInv'
<1> DEFINE got == Append(call.got, Head(inbox).id)
<1>1. /\ UNCHANGED <<kind, flag, outgoing, term, did>>
      /\ call.op = "recv_event" /\ Take /\ ~term /\ ~aborted
      /\ aborted' = (Head(inbox).more # (Len(got) = 1))
  BY DEF RecvEventPart, CanWork
<1>2. /\ arrived' = arrived /\ inbox' \in Seq(Part)
      /\ Head(inbox).id \in Nat /\ Head(inbox).more \in BOOLEAN
      /\ reading' \in BOOLEAN /\ reading' = Head(inbox).more
      /\ kind = "monitor" => (reading' <=> ~reading)
      /\ Whole'
  BY <1>1, TakeKeeps
<1>3. /\ kind = "monitor" /\ Len(call.got) <= 1
      /\ Collects /\ Outside = FALSE
  BY <1>1 DEF IInv, RecvInv, EventInv, Collects, Outside, SendCalls
<1>4. call \in Calls /\ call.got \in Seq(Nat)
  BY DEF IInv, Types, Calls
<1>5. got \in Seq(Nat) /\ Len(got) = Len(call.got) + 1 /\ got # <<>>
  BY <1>2, <1>4, AppendProperties, SMTT(30)
<1>6. Len(got) = 1 <=> call.got = <<>>
  BY <1>4, <1>5, EmptySeq
<1>7. "middle" \notin did => ~aborted'
  <2>1. "middle" \notin did => (reading <=> call.got # <<>>)
    BY <1>1, <1>3 DEF IInv, RecvInv, Knows
  <2> QED
    BY <1>1, <1>2, <1>3, <1>6, <2>1 DEF IInv, Types
<1>8. aborted' \in BOOLEAN
  BY <1>1
<1>9. CASE Len(got) = 1
  <2>1. /\ told' = told
        /\ call' = [op |-> call.op, parts |-> call.parts, last |-> call.last,
                    begun |-> call.begun, got |-> got]
    BY <1>4, <1>9 DEF RecvEventPart, Calls
  <2> HIDE DEF got
  <2>2. /\ call' \in Calls /\ call'.op = call.op /\ call'.begun = call.begun
        /\ call'.op \notin SendCalls /\ call'.got = got
    BY <1>1, <1>4, <1>5, <2>1 DEF Calls, SendCalls
  <2>3. SendInv'
    BY <1>1, <2>2, SendFrame
  <2>4. Outside' = FALSE
    BY <1>1, <2>2 DEF Outside, SendCalls
  <2>5. ~aborted' => reading'
    BY <1>1, <1>2, <1>9
  <2>6. Knows' /\ FlagFits' /\ EventInv'
    <3>1. told' = told /\ Collects'
      BY <1>1, <2>1, <2>2 DEF Collects
    <3>2. Knows'
      BY <1>1, <1>3, <1>5, <2>2, <2>4, <2>5, <3>1 DEF Knows, IInv, RecvInv
    <3>3. FlagFits'
      BY <1>1, <1>3, <3>1 DEF FlagFits, IInv, RecvInv
    <3>4. EventInv'
      <4>1. kind' = "monitor" /\ did' = did
        BY <1>1, <1>3
      <4>2. Len(call'.got) <= 1
        <5>1. Len(call'.got) = 1
          BY <1>9, <2>2
        <5> QED
          BY <5>1, 1 <= 1
      <4> QED
        BY <4>1, <4>2, <1>7 DEF EventInv, AssertionsHold
    <3> QED
      BY <3>2, <3>3, <3>4
  <2>7. Types'
    BY <1>1, <1>2, <1>8, <2>1, <2>2 DEF IInv, Types, outgoing
  <2> QED
    BY <1>2, <2>3, <2>6, <2>7 DEF IInv, RecvInv
<1>10. CASE Len(got) # 1
  <2>1. call' = Idle /\ told' = FALSE
    BY <1>10 DEF RecvEventPart, Hand
  <2> HIDE DEF got
  <2>2. /\ call' \in Calls /\ call'.op = "none" /\ ~call'.begun
        /\ call'.op \notin SendCalls /\ ~Collects'
    BY <2>1, IdleType DEF SendCalls, Collects
  <2>3. SendInv'
    BY <1>1, <2>2, SendFrame
  <2>4. ~aborted' => ~reading'
    BY <1>1, <1>2, <1>10
  <2>5. Knows' /\ FlagFits' /\ EventInv'
    BY <1>1, <1>2, <1>3, <1>7, <2>1, <2>2, <2>4
       DEF Knows, FlagFits, EventInv, AssertionsHold, IInv, RecvInv, Types
  <2>6. Types'
    BY <1>1, <1>2, <1>8, <2>1, <2>2 DEF IInv, Types, outgoing
  <2> QED
    BY <1>2, <2>3, <2>5, <2>6 DEF IInv, RecvInv
<1> QED
  BY <1>9, <1>10

(* A collecting call fails before it has taken a part, or for good: the    *)
(* rest of a message that has begun is there.                              *)
LEMMA RecvFailsKeeps ==
    ASSUME IInv, RecvFails
    PROVE  IInv'
<1>1. /\ UNCHANGED <<kind, arrived, inbox, reading, flag,
                     outgoing, term, aborted>>
      /\ did' = did
      /\ call.op \in RecvCalls /\ ~aborted
      /\ term \/ (call.op # "recv_len" /\ inbox = <<>>)
      /\ call' = Idle /\ told' = (told /\ call.got = <<>>)
  BY DEF RecvFails, Hand
<1>2. /\ call' \in Calls /\ call'.op = "none" /\ ~call'.begun
      /\ call'.op \notin SendCalls /\ ~Collects'
  BY <1>1, IdleType DEF SendCalls, Collects
<1>3. SendInv'
  BY <1>1, <1>2, SendFrame
<1>4. ~term => Collects /\ ~reading
  BY <1>1 DEF Collects, RecvCalls, IInv, RecvInv, Whole
<1>5. ~term /\ "middle" \notin did => told' = FALSE /\ told = FALSE
  BY <1>1, <1>4 DEF IInv, RecvInv, Knows, Types
<1>6. Whole' /\ Knows' /\ EventInv'
  BY <1>1, <1>2, <1>4, <1>5
     DEF Whole, Knows, EventInv, AssertionsHold, IInv, RecvInv, Types
<1>7. FlagFits'
  BY <1>1, <1>2, <1>4, <1>5 DEF FlagFits, IInv, RecvInv
<1>8. Types'
  BY <1>1, <1>2 DEF IInv, Types, outgoing
<1> QED
  BY <1>3, <1>6, <1>7, <1>8 DEF IInv, RecvInv

-----------------------------------------------------------------------------
(* Peers and other threads.                                                *)

LEMMA ArriveKeeps ==
    ASSUME IInv, Arrive
    PROVE  IInv'
<1>1. PICK n \in 1 .. MaxParts :
        /\ kind = "monitor" => n = 2
        /\ arrived' = arrived + n
        /\ inbox' = inbox \o
              [i \in 1 .. n |-> [id |-> arrived + i, more |-> i < n]]
  BY DEF Arrive
<1>2. UNCHANGED <<kind, reading, flag, given, told, outgoing, term, call,
                  aborted, did>>
  BY DEF Arrive
<1> DEFINE parts == [i \in 1 .. n |-> [id |-> arrived + i, more |-> i < n]]
<1>3. n \in Nat \ {0} /\ arrived \in Nat /\ inbox \in Seq(Part)
      /\ Len(inbox) \in Nat
  BY BoundsAssumption, LenProperties DEF IInv, Types
<1>4. /\ parts \in Seq(Part) /\ Len(parts) = n
      /\ \A i \in 1 .. n - 1 : parts[i].more = TRUE
      /\ parts[n].more = FALSE
  <2>1. \A i \in 1 .. n : parts[i] \in Part
    BY <1>3 DEF Part, SocketObject
  <2>2. ASSUME NEW i \in 1 .. n - 1 PROVE parts[i].more = TRUE
    <3>1. i \in 1 .. n /\ (i < n) = TRUE
      BY <1>3
    <3> QED
      BY <3>1
  <2>3. parts[n].more = FALSE
    <3>1. n \in 1 .. n /\ (n < n) = FALSE
      BY <1>3
    <3> QED
      BY <3>1
  <2>4. parts \in [1 .. n -> Part]
    BY <2>1
  <2>5. parts \in Seq(Part) /\ Len(parts) = n
    BY <1>3, <2>4, FunctionIsSequence
  <2> QED
    BY <2>2, <2>3, <2>5
<1> HIDE DEF parts
<1>5. inbox' = inbox \o parts
  BY <1>1 DEF parts
<1>6. /\ inbox' \in Seq(Part) /\ Len(inbox') = Len(inbox) + n
      /\ \A i \in 1 .. Len(inbox) + n :
            inbox'[i] = IF i <= Len(inbox) THEN inbox[i]
                        ELSE parts[i - Len(inbox)]
  BY <1>3, <1>4, <1>5, ConcatProperties
<1>7. Whole'
  <2>1. inbox' # <<>>
    BY <1>3, <1>6, Len(<<>>) = 0
  <2>2. inbox'[Len(inbox')] = parts[n]
    BY <1>3, <1>6
  <2>3. ~inbox'[Len(inbox')].more
    BY <1>3, <1>4, <2>2
  <2>4. ASSUME kind = "monitor"
        PROVE  /\ inbox'[1].more = ~reading
               /\ \A i \in 1 .. Len(inbox') - 1 :
                     inbox'[i + 1].more = ~inbox'[i].more
    <3>1. /\ n = 2 /\ Len(inbox') = Len(inbox) + 2
          /\ inbox'[Len(inbox) + 1] = parts[1] /\ parts[1].more = TRUE
          /\ inbox'[Len(inbox) + 2] = parts[2] /\ parts[2].more = FALSE
      <4>1. n = 2
        BY <1>1, <2>4
      <4>2. parts[1].more = TRUE /\ parts[2].more = FALSE
        BY <1>4, <4>1
      <4>3. /\ inbox'[Len(inbox) + 1] = parts[1]
            /\ inbox'[Len(inbox) + 2] = parts[2]
        BY <1>3, <1>6, <4>1
      <4> QED
        BY <1>6, <4>1, <4>2, <4>3
    <3>2. CASE inbox = <<>>
      <4>1. Len(inbox) = 0 /\ reading = FALSE
        BY <3>2 DEF IInv, Types, RecvInv, Whole
      <4>2. inbox'[1].more = TRUE /\ inbox'[2].more = FALSE /\ Len(inbox') = 2
        BY <3>1, <4>1
      <4>3. ASSUME NEW i \in 1 .. Len(inbox') - 1
            PROVE  inbox'[i + 1].more = ~inbox'[i].more
        <5>1. i = 1 /\ i + 1 = 2
          BY <4>2
        <5> QED
          BY <4>2, <5>1
      <4> QED
        BY <4>1, <4>2, <4>3
    <3>3. CASE inbox # <<>>
      <4>1. Len(inbox) # 0
        BY <1>3, <3>3, EmptySeq
      <4>2. /\ inbox[Len(inbox)].more = FALSE
            /\ inbox[1].more = ~reading
            /\ \A i \in 1 .. Len(inbox) - 1 : inbox[i + 1].more = ~inbox[i].more
        <5>1. inbox[Len(inbox)] \in Part
          BY <1>3, <4>1, LenProperties
        <5> QED
          BY <2>4, <3>3, <5>1 DEF IInv, RecvInv, Whole, Part
      <4>3. \A i \in 1 .. Len(inbox) : inbox'[i] = inbox[i]
        BY <1>3, <1>6
      <4>4. inbox'[1].more = ~reading
        BY <1>3, <4>1, <4>2, <4>3
      <4>5. ASSUME NEW i \in 1 .. Len(inbox') - 1
            PROVE  inbox'[i + 1].more = ~inbox'[i].more
        <5>1. CASE i \in 1 .. Len(inbox) - 1
          BY <1>3, <4>2, <4>3, <5>1
        <5>2. CASE i = Len(inbox)
          <6>1. /\ i \in 1 .. Len(inbox) /\ inbox'[i] = inbox[Len(inbox)]
                /\ inbox'[i + 1] = parts[1]
            BY <1>3, <3>1, <4>1, <4>3, <5>2
          <6> QED
            BY <3>1, <4>2, <6>1
        <5>3. CASE i = Len(inbox) + 1
          BY <3>1, <5>3, (Len(inbox) + 1) + 1 = Len(inbox) + 2, <1>3
        <5> QED
          BY <1>3, <3>1, <5>1, <5>2, <5>3
      <4> QED
        BY <4>4, <4>5
    <3> QED
      BY <3>2, <3>3
  <2> QED
    BY <1>2, <2>1, <2>3, <2>4 DEF Whole
<1>8. SendInv'
  BY <1>2, SendFrame DEF IInv, SendInv
<1>9. Knows' /\ FlagFits' /\ EventInv'
  BY <1>2 DEF Knows, FlagFits, EventInv, AssertionsHold, Outside, Collects,
     IInv, RecvInv
<1>10. Types'
  <2>1. arrived' \in Nat
    BY <1>1, <1>3
  <2> QED
    BY <1>2, <1>6, <2>1 DEF IInv, Types, outgoing
<1> QED
  BY <1>7, <1>8, <1>9, <1>10 DEF IInv, RecvInv

(* A peer takes whole messages: what is left begins with a first part.     *)
LEMMA PeerReadsRest ==
    ASSUME IInv, PeerReads
    PROVE  /\ AtBoundary' <=> AtBoundary
           /\ \E n \in 1 .. Len(outbox) :
                /\ ~outbox[n].more /\ outbox' \in Seq(SentPart)
                /\ Len(outbox') = Len(outbox) - n
                /\ \A i \in 1 .. Len(outbox) - n : outbox'[i] = outbox[n + i]
<1>1. PICK n \in Completed : outbox' = SubSeq(outbox, n + 1, Len(outbox))
  BY DEF PeerReads
<1>2. /\ outbox \in Seq(SentPart) /\ Len(outbox) \in Nat
      /\ n \in 1 .. Len(outbox) /\ ~outbox[n].more
      /\ \A i \in 1 .. Len(outbox) : outbox[i] \in SentPart
  BY <1>1, LenProperties DEF IInv, Types, Completed
<1>3. /\ outbox' \in Seq(SentPart)
      /\ Len(outbox') = Len(outbox) - n
      /\ \A i \in 1 .. Len(outbox) - n : outbox'[i] = outbox[n + i]
  <2>1. \A i \in n + 1 .. Len(outbox) : outbox[i] \in SentPart
    BY <1>2
  <2>2. n + 1 \in Int /\ Len(outbox) \in Int
    BY <1>2
  <2>3. /\ outbox' \in Seq(SentPart)
        /\ Len(outbox') = IF n + 1 <= Len(outbox) THEN Len(outbox) - (n + 1) + 1
                          ELSE 0
        /\ \A i \in 1 .. Len(outbox) - (n + 1) + 1 :
              outbox'[i] = outbox[(n + 1) + i - 1]
    BY <1>1, <2>1, <2>2, SubSeqProperties
  <2> QED
    BY <1>2, <2>3
<1>4. AtBoundary' <=> AtBoundary
  <2>1. CASE n = Len(outbox)
    <3>1. outbox' = <<>>
      BY <1>2, <1>3, <2>1, EmptySeq
    <3> QED
      BY <1>2, <2>1, <3>1 DEF AtBoundary
  <2>2. CASE n # Len(outbox)
    <3>1. /\ Len(outbox') # 0 /\ Len(outbox) # 0
          /\ outbox'[Len(outbox')] = outbox[Len(outbox)]
      BY <1>2, <1>3, <2>2
    <3> QED
      BY <3>1, Len(<<>>) = 0 DEF AtBoundary
  <2> QED
    BY <2>1, <2>2
<1> QED
  BY <1>2, <1>3, <1>4

LEMMA PeerReadsKeeps ==
    ASSUME IInv, PeerReads
    PROVE  IInv'
<1>1. UNCHANGED <<kind, incoming, meant, term, call, aborted, did>>
  BY DEF PeerReads
<1>2. PICK n \in 1 .. Len(outbox) :
        /\ ~outbox[n].more /\ outbox' \in Seq(SentPart)
        /\ Len(outbox') = Len(outbox) - n
        /\ \A i \in 1 .. Len(outbox) - n : outbox'[i] = outbox[n + i]
  BY PeerReadsRest
<1>3. Len(outbox) \in Nat /\ \A i \in 1 .. Len(outbox) : outbox[i] \in SentPart
  BY LenProperties DEF IInv, Types
<1>4. AtBoundary' <=> AtBoundary
  BY PeerReadsRest
<1>5. ASSUME Clean PROVE FirstsFit'
  <2> SUFFICES ASSUME NEW i \in 1 .. Len(outbox) - n
               PROVE  outbox'[i].first = (i = 1 \/ ~outbox'[i - 1].more)
    BY <1>2, LenProperties DEF FirstsFit
  <2>1. /\ n + i \in DOMAIN outbox /\ n + i # 1
        /\ outbox'[i] = outbox[n + i]
    BY <1>3, <1>2
  <2>2. outbox[n + i].first = ~outbox[(n + i) - 1].more
    <3>1. outbox[n + i].first = (n + i = 1 \/ ~outbox[(n + i) - 1].more)
      BY <1>5, <2>1 DEF IInv, SendInv, FirstsFit
    <3> QED
      BY <2>1, <3>1
  <2>3. CASE i = 1
    <3>1. (n + i) - 1 = n
      BY <1>3, <2>3
    <3> QED
      BY <1>2, <2>1, <2>2, <2>3, <3>1
  <2>4. CASE i # 1
    <3>1. outbox'[i - 1] = outbox[(n + i) - 1]
      BY <1>3, <1>2, <2>4
    <3> QED
      BY <2>1, <2>2, <2>4, <3>1
  <2> QED
    BY <2>3, <2>4
<1>6. SendInv'
  BY <1>1, <1>4, <1>5 DEF IInv, SendInv, Clean
<1>7. RecvInv'
  BY <1>1 DEF IInv, RecvInv, Whole, Knows, FlagFits, EventInv,
     AssertionsHold, Outside, Collects, incoming
<1>8. Types'
  BY <1>1, <1>2 DEF IInv, Types, incoming
<1> QED
  BY <1>6, <1>7, <1>8 DEF IInv

LEMMA ContextShutsDownKeeps ==
    ASSUME IInv, ContextShutsDown
    PROVE  IInv'
<1>1. /\ UNCHANGED <<kind, incoming, outgoing, call, aborted, did>>
      /\ term' = TRUE
  BY DEF ContextShutsDown
<1>2. SendInv'
  BY <1>1, SendFrame DEF IInv, SendInv
<1>3. RecvInv'
  BY <1>1 DEF IInv, RecvInv, Whole, Knows, FlagFits, EventInv,
     AssertionsHold, incoming
<1>4. Types'
  BY <1>1 DEF IInv, Types, incoming, outgoing
<1> QED
  BY <1>2, <1>3, <1>4 DEF IInv

LEMMA StutteringKeeps == IInv /\ UNCHANGED vars => IInv'
BY DEF vars, incoming, outgoing, IInv, Types, SendInv, Clean, FirstsFit,
   AtBoundary, RecvInv, Whole, Knows, FlagFits, EventInv, AssertionsHold,
   Outside, Collects

-----------------------------------------------------------------------------

LEMMA NextIInv == IInv /\ [Next]_vars => IInv'
<1> SUFFICES ASSUME IInv, [Next]_vars PROVE IInv'
  OBVIOUS
<1>1. ASSUME NEW more \in BOOLEAN, Send(more) \/ SendMsg(more) \/ MsgSend(more)
      PROVE  IInv'
  BY <1>1, SendOneKeeps DEF Send, SendMsg, MsgSend
<1>2. CASE SendMore
  BY <1>2, SendOneKeeps DEF SendMore, Send
<1>3. ASSUME NEW parts \in Lists(Elements), Sendv(parts) \/ SendvMore(parts)
      PROVE  IInv'
  BY <1>3, SendOneKeeps DEF Sendv, SendvMore, SendvImpl
<1>4. ASSUME NEW parts \in Lists(Elements),
             \/ Sendx(parts) \/ SendxMore(parts)
             \/ \E last \in BOOLEAN : SendAll(parts, last)
      PROVE  IInv'
  <2>1. /\ {"send_all", "sendx"} = SendCalls
        /\ \E op \in {"send_all", "sendx"}, last \in BOOLEAN :
              SendList(op, parts, last)
    BY <1>4 DEF Sendx, SendxMore, SendxImpl, SendAll, SendCalls
  <2> QED
    BY <2>1, SendListKeeps
<1>5. CASE SendPart
  BY <1>5, SendPartKeeps
<1>6. CASE SendStops("noMemory") \/ SendStops("badElement") \/ SendFails
  BY <1>6, SendEndsKeeps
<1>7. CASE Recv \/ RecvMsg \/ RecvNewMsg \/ MsgRecv
  BY <1>7, RecvOneKeeps DEF Recv, RecvMsg, RecvNewMsg, MsgRecv
<1>8. CASE RecvLen \/ RecvLenMore
  BY <1>8, RecvLenKeeps, RecvLenMoreKeeps
<1>9. CASE RecvAll \/ Recvx \/ RecvEvent
  BY <1>9, RecvListKeeps DEF RecvAll, Recvx, RecvEvent
<1>10. CASE RecvPart \/ RecvEventPart \/ RecvFails
  BY <1>10, RecvPartKeeps, RecvEventPartKeeps, RecvFailsKeeps
<1>11. CASE Arrive \/ PeerReads \/ ContextShutsDown
  BY <1>11, ArriveKeeps, PeerReadsKeeps, ContextShutsDownKeeps
<1>12. CASE UNCHANGED vars
  BY <1>12, StutteringKeeps
<1> QED
  BY <1>1, <1>2, <1>3, <1>4, <1>5, <1>6, <1>7, <1>8, <1>9, <1>10, <1>11,
     <1>12 DEF Next, CallStep

LEMMA Inductive == Spec => []IInv
BY InitIInv, NextIInv, PTL DEF Spec

-----------------------------------------------------------------------------
(* Peers see the messages the application meant, for lists of any length   *)
(* and any high water mark, whatever fails and whenever, but for what      *)
(* SentAsMeant names (send_all and sendx, zsocket.c:319-381).              *)
THEOREM BoundariesAreMeant == Spec => []SentAsMeant
<1>1. IInv => SentAsMeant
  BY DEF IInv, SendInv, Clean, FirstsFit, SentAsMeant
<1> QED
  BY <1>1, Inductive, PTL

(* The assertions of recv_event (zsocket.c:269-280) hold in every order of *)
(* its calls with others, arrivals and failures.                           *)
THEOREM NoAbort == Spec => []AssertionsHold
<1>1. IInv => AssertionsHold
  BY DEF IInv, RecvInv, EventInv
<1> QED
  BY <1>1, Inductive, PTL

(* more() is right between calls, for messages of any number of parts,     *)
(* although most receiving methods leave its flag alone (zsocket.c:313).   *)
THEOREM MoreIsRight == Spec => []FlagIsTrue
<1>1. IInv => FlagIsTrue
  <2> SUFFICES ASSUME IInv, call = Idle, ~term,
                      did \cap {"middle", "msg_recv"} = {}
               PROVE  More = reading /\ More = told
    BY DEF FlagIsTrue
  <2>1. Outside /\ ~aborted
    BY IdleType DEF Outside, IInv, RecvInv, EventInv, AssertionsHold
  <2> QED
    BY <2>1 DEF IInv, RecvInv, Knows, FlagFits, More
<1> QED
  BY <1>1, Inductive, PTL

-----------------------------------------------------------------------------
(* The parts that were handed over, that a call holds and that wait, one   *)
(* after the other.                                                        *)

Increasing(s) ==
    \A i, j \in 1 .. Len(s) :
        i < j /\ s[i] # SocketObject /\ s[j] # SocketObject => s[i] < s[j]

Elems(s) == {s[i] : i \in 1 .. Len(s)}

(* They are numbered in the order of arrival, and missing are those that   *)
(* were dropped.                                                           *)
InOrder(s, n, gone) ==
    /\ s \in Seq(0 .. n) /\ Increasing(s)
    /\ Elems(s) \ {SocketObject} = (1 .. n) \ gone

HeldInv ==
    /\ given \in Seq(Nat)
    /\ call.op \notin RecvCalls => call.got = <<>>
    /\ dropped \subseteq 0 .. arrived
    /\ InOrder(given \o call.got \o Ids(inbox), arrived, dropped)

LEMMA IdsAre ==
    ASSUME NEW parts \in Seq(Part)
    PROVE  /\ Ids(parts) \in Seq(Nat) /\ Len(Ids(parts)) = Len(parts)
           /\ \A i \in 1 .. Len(parts) : Ids(parts)[i] = parts[i].id
<1>1. Len(parts) \in Nat /\ DOMAIN parts = 1 .. Len(parts)
      /\ \A i \in 1 .. Len(parts) : parts[i] \in Part
  BY LenProperties
<1>2. Ids(parts) \in [1 .. Len(parts) -> Nat]
  BY <1>1 DEF Ids, Part
<1>3. \A i \in 1 .. Len(parts) : Ids(parts)[i] = parts[i].id
  BY <1>1 DEF Ids
<1> HIDE DEF Ids
<1> QED
  BY <1>1, <1>2, <1>3, FunctionIsSequence

LEMMA TakeIds ==
    ASSUME IInv, Take
    PROVE  /\ Head(inbox).id \in Nat /\ arrived' = arrived
           /\ Ids(inbox) \in Seq(Nat) /\ Ids(inbox') \in Seq(Nat)
           /\ Ids(inbox) = <<Head(inbox).id>> \o Ids(inbox')
<1>1. /\ inbox \in Seq(Part) /\ inbox # <<>> /\ inbox' = Tail(inbox)
      /\ arrived' = arrived
  BY DEF Take, IInv, Types
<1>2. /\ Head(inbox) \in Part /\ Head(inbox) = inbox[1]
      /\ inbox' \in Seq(Part) /\ Len(inbox') = Len(inbox) - 1
      /\ \A i \in 1 .. Len(inbox') : inbox'[i] = inbox[i + 1]
      /\ Len(inbox) \in Nat \ {0}
  BY <1>1, HeadTailProperties, EmptySeq
<1> DEFINE n == Len(inbox)
           h == Head(inbox).id
           q == Ids(inbox)
           t == Ids(inbox')
<1>3. h \in Nat
  BY <1>2 DEF Part
<1>4. /\ q \in Seq(Nat) /\ Len(q) = n
      /\ \A i \in 1 .. n : q[i] = inbox[i].id
  BY <1>1, IdsAre
<1>5. /\ t \in Seq(Nat) /\ Len(t) = n - 1
      /\ \A i \in 1 .. n - 1 : t[i] = inbox'[i].id
  BY <1>2, IdsAre
<1>6. q[1] = h /\ \A i \in 1 .. n - 1 : t[i] = q[i + 1]
  <2>1. q[1] = h
    BY <1>2, <1>4
  <2>2. ASSUME NEW i \in 1 .. n - 1
        PROVE  t[i] = q[i + 1]
    <3>1. i + 1 \in 1 .. n
      BY <1>2
    <3>2. inbox'[i] = inbox[i + 1]
      BY <1>2
    <3> QED
      BY <1>4, <1>5, <3>1, <3>2
  <2> QED
    BY <2>1, <2>2
<1>7. n \in Nat \ {0}
  BY <1>2
<1> HIDE DEF n, h, q, t
<1>8. q = <<h>> \o t
  <2>1. <<h>> \in Seq(Nat) /\ Len(<<h>>) = 1 /\ <<h>>[1] = h
    BY <1>3
  <2>2. /\ <<h>> \o t \in Seq(Nat) /\ Len(<<h>> \o t) = 1 + Len(t)
        /\ \A i \in 1 .. 1 + Len(t) :
              (<<h>> \o t)[i] = IF i <= 1 THEN <<h>>[i] ELSE t[i - 1]
    BY <1>5, <2>1, ConcatProperties
  <2>3. ASSUME NEW i \in 1 .. n
        PROVE  q[i] = (<<h>> \o t)[i]
    <3>1. CASE i = 1
      <4>1. Len(t) \in Nat /\ 1 \in 1 .. 1 + Len(t) /\ 1 <= 1
        BY <1>5, <1>7
      <4> QED
        BY <1>6, <2>1, <2>2, <3>1, <4>1
    <3>2. CASE i # 1
      <4>1. i - 1 \in 1 .. n - 1 /\ (i - 1) + 1 = i /\ ~(i <= 1)
        BY <1>7, <3>2
      <4>2. t[i - 1] = q[i]
        BY <1>6, <4>1
      <4> QED
        BY <1>5, <1>7, <2>2, <4>1, <4>2
    <3> QED
      BY <3>1, <3>2
  <2>4. Len(q) = Len(<<h>> \o t) /\ Len(q) = n
    <3>1. 1 + (n - 1) = n
      BY <1>7
    <3> QED
      BY <1>4, <1>5, <2>2, <3>1
  <2> QED
    BY <1>4, <2>2, <2>3, <2>4, SeqEqual
<1> QED
  BY <1>1, <1>3, <1>4, <1>5, <1>8 DEF h, q, t

(* A part that is taken goes from the end to the middle or to the front.   *)
LEMMA TakenStays ==
    ASSUME NEW g \in Seq(Nat), NEW k \in Seq(Nat), NEW t \in Seq(Nat), NEW h \in Nat
    PROVE  /\ g \o Append(k, h) \in Seq(Nat)
           /\ (g \o Append(k, h)) \o t = (g \o k) \o (<<h>> \o t)
           /\ ((g \o Append(k, h)) \o <<>>) \o t = (g \o k) \o (<<h>> \o t)
<1>1. <<h>> \in Seq(Nat) /\ Append(k, h) = k \o <<h>>
  BY AppendIsConcat
<1>2. /\ g \o k \in Seq(Nat) /\ k \o <<h>> \in Seq(Nat)
      /\ g \o (k \o <<h>>) \in Seq(Nat)
  BY <1>1, ConcatProperties
<1>3. g \o (k \o <<h>>) = (g \o k) \o <<h>>
  BY <1>1, ConcatAssociative
<1>4. ((g \o k) \o <<h>>) \o t = (g \o k) \o (<<h>> \o t)
  BY <1>1, <1>2, ConcatAssociative
<1>5. (g \o (k \o <<h>>)) \o <<>> = g \o (k \o <<h>>)
  BY <1>2, ConcatEmptySeq
<1> QED
  BY <1>1, <1>2, <1>3, <1>4, <1>5, Zenon

LEMMA ElementsAre ==
    ASSUME NEW s \in Seq(Nat), NEW S, \A i \in 1 .. Len(s) : s[i] \in S
    PROVE  s \in Seq(S)
<1>1. Len(s) \in Nat /\ DOMAIN s = 1 .. Len(s) /\ s \in [1 .. Len(s) -> Nat]
  BY LenProperties
<1>2. s \in [1 .. Len(s) -> S]
  BY <1>1
<1> QED
  BY <1>1, <1>2, FunctionIsSequence

LEMMA ThreeAsOne ==
    ASSUME NEW g \in Seq(Nat), NEW k \in Seq(Nat), NEW q \in Seq(Nat)
    PROVE  /\ (g \o k) \o q \in Seq(Nat)
           /\ Len((g \o k) \o q) = Len(g) + Len(k) + Len(q)
           /\ \A i \in 1 .. Len(g) : ((g \o k) \o q)[i] = g[i]
           /\ \A i \in 1 .. Len(k) : ((g \o k) \o q)[Len(g) + i] = k[i]
           /\ \A i \in 1 .. Len(q) :
                 ((g \o k) \o q)[(Len(g) + Len(k)) + i] = q[i]
<1> DEFINE u == g \o k
           w == u \o q
           a == Len(g)
           b == Len(k)
           c == Len(q)
<1>1. a \in Nat /\ b \in Nat /\ c \in Nat
  BY LenProperties
<1>2. /\ u \in Seq(Nat) /\ Len(u) = a + b
      /\ \A i \in 1 .. a + b : u[i] = IF i <= a THEN g[i] ELSE k[i - a]
  BY ConcatProperties
<1> HIDE DEF u
<1>3. /\ w \in Seq(Nat) /\ Len(w) = a + b + c
      /\ \A i \in 1 .. a + b + c : w[i] = IF i <= a + b THEN u[i] ELSE q[i - (a + b)]
  BY <1>2, ConcatProperties
<1> HIDE DEF w, a, b, c
<1>4. ASSUME NEW i \in 1 .. a
      PROVE  w[i] = g[i]
  <2>1. i \in 1 .. a + b + c /\ i \in 1 .. a + b /\ i <= a /\ i <= a + b
    BY <1>1
  <2> QED
    BY <1>2, <1>3, <2>1
<1>5. ASSUME NEW i \in 1 .. b
      PROVE  w[a + i] = k[i]
  <2>1. /\ a + i \in 1 .. a + b + c /\ a + i \in 1 .. a + b
        /\ ~(a + i <= a) /\ a + i <= a + b /\ (a + i) - a = i
    BY <1>1
  <2> QED
    BY <1>2, <1>3, <2>1
<1>6. ASSUME NEW i \in 1 .. c
      PROVE  w[(a + b) + i] = q[i]
  <2>1. /\ (a + b) + i \in 1 .. a + b + c /\ ~((a + b) + i <= a + b)
        /\ ((a + b) + i) - (a + b) = i
    BY <1>1
  <2> QED
    BY <1>3, <2>1
<1> QED
  BY <1>3, <1>4, <1>5, <1>6 DEF u, w, a, b, c

LEMMA ElemsOfThree ==
    ASSUME NEW g \in Seq(Nat), NEW k \in Seq(Nat), NEW q \in Seq(Nat)
    PROVE  Elems((g \o k) \o q) = Elems(g) \cup Elems(k) \cup Elems(q)
<1> DEFINE w == (g \o k) \o q
           a == Len(g)
           b == Len(k)
           c == Len(q)
<1>1. a \in Nat /\ b \in Nat /\ c \in Nat
  BY LenProperties
<1>2. /\ w \in Seq(Nat) /\ Len(w) = a + b + c
      /\ \A i \in 1 .. a : w[i] = g[i]
      /\ \A i \in 1 .. b : w[a + i] = k[i]
      /\ \A i \in 1 .. c : w[(a + b) + i] = q[i]
  BY ThreeAsOne
<1>3. /\ Elems(w) = {w[i] : i \in 1 .. a + b + c}
      /\ Elems(g) = {g[i] : i \in 1 .. a}
      /\ Elems(k) = {k[i] : i \in 1 .. b}
      /\ Elems(q) = {q[i] : i \in 1 .. c}
  BY <1>2 DEF Elems
<1> HIDE DEF w, a, b, c
<1>4. ASSUME NEW i \in 1 .. a + b + c
      PROVE  w[i] \in Elems(g) \cup Elems(k) \cup Elems(q)
  <2>1. CASE i <= a
    <3>1. i \in 1 .. a
      BY <1>1, <2>1
    <3> QED
      BY <1>2, <1>3, <3>1
  <2>2. CASE a < i /\ i <= a + b
    <3>1. i - a \in 1 .. b /\ a + (i - a) = i
      BY <1>1, <2>2
    <3>2. w[a + (i - a)] = k[i - a] /\ k[i - a] \in Elems(k)
      BY <1>2, <1>3, <3>1
    <3> QED
      BY <3>1, <3>2
  <2>3. CASE a + b < i
    <3>1. i - (a + b) \in 1 .. c /\ (a + b) + (i - (a + b)) = i
      BY <1>1, <2>3
    <3>2. /\ w[(a + b) + (i - (a + b))] = q[i - (a + b)]
          /\ q[i - (a + b)] \in Elems(q)
      BY <1>2, <1>3, <3>1
    <3> QED
      BY <3>1, <3>2
  <2> QED
    BY <1>1, <2>1, <2>2, <2>3
<1>5. ASSUME NEW i \in 1 .. a PROVE g[i] \in Elems(w)
  <2>1. i \in 1 .. a + b + c
    BY <1>1
  <2> QED
    BY <1>2, <1>3, <2>1
<1>6. ASSUME NEW i \in 1 .. b PROVE k[i] \in Elems(w)
  <2>1. a + i \in 1 .. a + b + c
    BY <1>1
  <2> QED
    BY <1>2, <1>3, <2>1
<1>7. ASSUME NEW i \in 1 .. c PROVE q[i] \in Elems(w)
  <2>1. (a + b) + i \in 1 .. a + b + c
    BY <1>1
  <2> QED
    BY <1>2, <1>3, <2>1
<1> QED
  BY <1>3, <1>4, <1>5, <1>6, <1>7 DEF w

(* No part is in two places.                                               *)
LEMMA OncePlaced ==
    ASSUME NEW g \in Seq(Nat), NEW k \in Seq(Nat), NEW q \in Seq(Nat),
           Increasing((g \o k) \o q)
    PROVE  /\ Elems(g) \cap Elems(k) \subseteq {SocketObject}
           /\ Elems(q) \cap Elems(k) \subseteq {SocketObject}
<1> DEFINE w == (g \o k) \o q
           a == Len(g)
           b == Len(k)
           c == Len(q)
<1>1. a \in Nat /\ b \in Nat /\ c \in Nat
  BY LenProperties
<1>2. /\ w \in Seq(Nat) /\ Len(w) = a + b + c
      /\ \A i \in 1 .. a : w[i] = g[i]
      /\ \A i \in 1 .. b : w[a + i] = k[i]
      /\ \A i \in 1 .. c : w[(a + b) + i] = q[i]
  BY ThreeAsOne
<1>3. \A i \in 1 .. a + b + c : w[i] \in Nat
  BY <1>2
<1>4. \A i, j \in 1 .. a + b + c :
        i < j /\ w[i] # SocketObject /\ w[j] # SocketObject => w[i] < w[j]
  BY <1>2 DEF Increasing
<1>5. /\ Elems(g) = {g[i] : i \in 1 .. a}
      /\ Elems(k) = {k[i] : i \in 1 .. b}
      /\ Elems(q) = {q[i] : i \in 1 .. c}
  BY DEF Elems
<1> HIDE DEF w, a, b, c
<1>6. ASSUME NEW i \in 1 .. a, NEW j \in 1 .. b, g[i] = k[j]
      PROVE  g[i] = SocketObject
  <2>1. /\ i \in 1 .. a + b + c /\ a + j \in 1 .. a + b + c /\ i < a + j
    BY <1>1
  <2>2. w[i] = g[i] /\ w[a + j] = g[i] /\ ~(w[i] < w[i])
    BY <1>2, <1>3, <1>6, <2>1
  <2> QED
    BY <1>4, <2>1, <2>2
<1>7. ASSUME NEW i \in 1 .. c, NEW j \in 1 .. b, q[i] = k[j]
      PROVE  q[i] = SocketObject
  <2>1. /\ (a + b) + i \in 1 .. a + b + c /\ a + j \in 1 .. a + b + c
        /\ a + j < (a + b) + i
    BY <1>1
  <2>2. w[(a + b) + i] = q[i] /\ w[a + j] = q[i] /\ ~(w[a + j] < w[a + j])
    BY <1>2, <1>3, <1>7, <2>1
  <2> QED
    BY <1>4, <2>1, <2>2
<1> QED
  BY <1>5, <1>6, <1>7

(* A call answers something else than the parts that it holds: none of     *)
(* them, or the socket and all but the last.                               *)
LEMMA DroppedInOrder ==
    ASSUME NEW g \in Seq(Nat), NEW k \in Seq(Nat), NEW q \in Seq(Nat),
           NEW n \in Nat, NEW gone \in SUBSET (0 .. n),
           InOrder((g \o k) \o q, n, gone),
           NEW d \in Seq(Nat), Len(d) <= Len(k),
           \A i \in 1 .. Len(d) :
               d[i] = SocketObject \/ (i > 1 /\ d[i] = k[i - 1])
    PROVE  /\ InOrder((g \o d) \o q, n, gone \cup (Elems(k) \ Elems(d)))
           /\ gone \cup (Elems(k) \ Elems(d)) \subseteq 0 .. n
<1> DEFINE w == (g \o k) \o q
           v == (g \o d) \o q
           a == Len(g)
           b == Len(k)
           c == Len(q)
           m == Len(d)
<1>1. a \in Nat /\ b \in Nat /\ c \in Nat /\ m \in Nat /\ m <= b
  BY LenProperties
<1>2. /\ w \in Seq(Nat) /\ Len(w) = a + b + c
      /\ \A i \in 1 .. a : w[i] = g[i]
      /\ \A i \in 1 .. b : w[a + i] = k[i]
      /\ \A i \in 1 .. c : w[(a + b) + i] = q[i]
  BY ThreeAsOne
<1>3. /\ v \in Seq(Nat) /\ Len(v) = a + m + c
      /\ \A i \in 1 .. a : v[i] = g[i]
      /\ \A i \in 1 .. m : v[a + i] = d[i]
      /\ \A i \in 1 .. c : v[(a + m) + i] = q[i]
  <2>1. \A k2 \in Seq(Nat) :
          /\ (g \o k2) \o q \in Seq(Nat)
          /\ Len((g \o k2) \o q) = Len(g) + Len(k2) + Len(q)
          /\ \A i \in 1 .. Len(g) : ((g \o k2) \o q)[i] = g[i]
          /\ \A i \in 1 .. Len(k2) : ((g \o k2) \o q)[Len(g) + i] = k2[i]
          /\ \A i \in 1 .. Len(q) :
                ((g \o k2) \o q)[(Len(g) + Len(k2)) + i] = q[i]
    BY ThreeAsOne, ZenonT(60)
  <2> QED
    BY <2>1, Zenon
<1>4. /\ w \in Seq(0 .. n) /\ Increasing(w)
      /\ Elems(w) \ {SocketObject} = (1 .. n) \ gone
  BY DEF InOrder
<1>5. \A i \in 1 .. m : d[i] = SocketObject \/ (i > 1 /\ d[i] = k[i - 1])
  OBVIOUS
<1>6. /\ Elems(w) = Elems(g) \cup Elems(k) \cup Elems(q)
      /\ Elems(v) = Elems(g) \cup Elems(d) \cup Elems(q)
  BY ElemsOfThree
<1>7. /\ Elems(g) \cap Elems(k) \subseteq {SocketObject}
      /\ Elems(q) \cap Elems(k) \subseteq {SocketObject}
  BY <1>4, OncePlaced
<1>8. Elems(d) \subseteq Elems(k) \cup {SocketObject}
  <2> SUFFICES ASSUME NEW i \in 1 .. m
               PROVE  d[i] \in Elems(k) \cup {SocketObject}
    BY DEF Elems
  <2>1. i > 1 => i - 1 \in 1 .. b
    BY <1>1
  <2>2. i > 1 => k[i - 1] \in Elems(k)
    BY <2>1 DEF Elems
  <2> QED
    BY <1>5, <2>2
<1>9. Elems(v) \ {SocketObject} = (1 .. n) \ (gone \cup (Elems(k) \ Elems(d)))
  <2> HIDE DEF w, v
  <2>1. PICK G, K, D, Q, W, V :
          /\ G = Elems(g) /\ K = Elems(k) /\ D = Elems(d) /\ Q = Elems(q)
          /\ W = Elems(w) /\ V = Elems(v)
    BY Zenon
  <2>2. /\ W \ {SocketObject} = (1 .. n) \ gone
        /\ W = G \cup K \cup Q /\ V = G \cup D \cup Q
        /\ G \cap K \subseteq {SocketObject} /\ Q \cap K \subseteq {SocketObject}
        /\ D \subseteq K \cup {SocketObject}
    BY <1>4, <1>6, <1>7, <1>8, <2>1, Zenon
  <2>3. V \ {SocketObject} = (W \ {SocketObject}) \ (K \ D)
    BY <2>2
  <2>4. V \ {SocketObject} = (1 .. n) \ (gone \cup (K \ D))
    BY <2>2, <2>3
  <2> QED
    BY <2>1, <2>4, Zenon
<1>10. Elems(k) \subseteq 0 .. n
  BY <1>4, <1>6 DEF SocketObject
<1>11. \A i \in 1 .. a + b + c : w[i] \in 0 .. n
  <2> HIDE DEF w
  <2>1. \A i \in 1 .. Len(w) : w[i] \in 0 .. n
    BY <1>4
  <2> QED
    BY <1>2, <2>1
<1>12. \A i, j \in 1 .. a + b + c :
         i < j /\ w[i] # SocketObject /\ w[j] # SocketObject => w[i] < w[j]
  BY <1>2, <1>4 DEF Increasing
<1> DEFINE f(i) == IF i <= a THEN i
                   ELSE IF i <= a + m THEN i - 1 ELSE i + (b - m)
<1> HIDE DEF w, v, a, b, c, m
(* Where a part was before.                                                *)
<1>13. ASSUME NEW i \in 1 .. a + m + c, v[i] # SocketObject
       PROVE  v[i] = w[f(i)] /\ f(i) \in 1 .. a + b + c
  <2>1. CASE i <= a
    <3>1. i \in 1 .. a /\ i \in 1 .. a + b + c
      BY <1>1, <2>1
    <3> QED
      BY <1>2, <1>3, <2>1, <3>1
  <2>2. CASE a < i /\ i <= a + m
    <3>1. i - a \in 1 .. m /\ a + (i - a) = i
      BY <1>1, <2>2
    <3>2. v[i] = d[i - a]
      BY <1>3, <3>1
    <3>3. i - a > 1 /\ d[i - a] = k[(i - a) - 1]
      BY <1>5, <1>13, <3>1, <3>2
    <3>4. /\ (i - a) - 1 \in 1 .. b /\ a + ((i - a) - 1) = i - 1
          /\ i - 1 \in 1 .. a + b + c
      BY <1>1, <3>1, <3>3
    <3>5. w[i - 1] = k[(i - a) - 1]
      BY <1>2, <3>4
    <3>6. f(i) = i - 1
      BY <1>1, <2>2
    <3> QED
      BY <3>2, <3>3, <3>4, <3>5, <3>6
  <2>3. CASE a + m < i
    <3>1. /\ i - (a + m) \in 1 .. c /\ (a + m) + (i - (a + m)) = i
          /\ (a + b) + (i - (a + m)) = f(i) /\ f(i) \in 1 .. a + b + c
      BY <1>1, <2>3
    <3> HIDE DEF f
    <3>2. v[i] = q[i - (a + m)] /\ w[f(i)] = q[i - (a + m)]
      BY <1>2, <1>3, <3>1
    <3> QED
      BY <3>1, <3>2
  <2> QED
    BY <1>1, <2>1, <2>2, <2>3
<1>14. ASSUME NEW i \in 1 .. a + m + c, NEW j \in 1 .. a + m + c, i < j,
              v[j] # SocketObject
       PROVE  f(i) < f(j)
  <2>1. CASE j <= a
    <3>1. f(i) = i /\ f(j) = j
      BY <1>1, <1>14, <2>1
    <3> QED
      BY <1>14, <3>1
  <2>2. CASE a < j /\ j <= a + m
    <3>1. j - a \in 1 .. m /\ a + (j - a) = j
      BY <1>1, <2>2
    <3>2. j - a > 1
      BY <1>3, <1>5, <1>14, <3>1
    <3>3. f(j) = j - 1
      BY <1>1, <2>2
    <3>4. i <= a => f(i) = i /\ i < j - 1
      BY <1>1, <3>1, <3>2
    <3>5. ~(i <= a) => f(i) = i - 1 /\ i - 1 < j - 1
      BY <1>1, <1>14, <2>2
    <3> QED
      BY <3>3, <3>4, <3>5
  <2>3. CASE a + m < j
    <3>1. f(j) = j + (b - m) /\ b - m \in Nat
      BY <1>1, <2>3
    <3>2. f(i) \in {i, i - 1, i + (b - m)}
      OBVIOUS
    <3>3. i < j + (b - m) /\ i - 1 < j + (b - m) /\ i + (b - m) < j + (b - m)
      BY <1>1, <1>14
    <3> QED
      BY <3>1, <3>2, <3>3
  <2> QED
    BY <1>1, <2>1, <2>2, <2>3
<1> HIDE DEF f
<1>15. v \in Seq(0 .. n)
  <2>1. \A i \in 1 .. Len(v) : v[i] \in 0 .. n
    <3> SUFFICES ASSUME NEW i \in 1 .. a + m + c PROVE v[i] \in 0 .. n
      BY <1>3
    <3>1. SocketObject \in 0 .. n
      BY DEF SocketObject
    <3> QED
      BY <1>11, <1>13, <3>1
  <2> QED
    BY <1>3, <2>1, ElementsAre
<1>16. Increasing(v)
  <2> SUFFICES ASSUME NEW i \in 1 .. a + m + c, NEW j \in 1 .. a + m + c, i < j,
                      v[i] # SocketObject, v[j] # SocketObject
               PROVE  v[i] < v[j]
    BY <1>3 DEF Increasing
  <2>1. /\ v[i] = w[f(i)] /\ f(i) \in 1 .. a + b + c
        /\ v[j] = w[f(j)] /\ f(j) \in 1 .. a + b + c
        /\ f(i) < f(j)
    BY <1>13, <1>14
  <2> QED
    BY <1>12, <2>1
<1>17. InOrder(v, n, gone \cup (Elems(k) \ Elems(d)))
  BY <1>9, <1>15, <1>16 DEF InOrder
<1> QED
  BY <1>10, <1>17 DEF v

(* New parts come last.                                                    *)
LEMMA ArrivedInOrder ==
    ASSUME NEW s \in Seq(Nat), NEW n \in Nat, NEW gone \in SUBSET (0 .. n),
           InOrder(s, n, gone),
           NEW m \in Nat, NEW new, new = [i \in 1 .. m |-> n + i]
    PROVE  new \in Seq(Nat) /\ InOrder(s \o new, n + m, gone)
<1> DEFINE w == s \o new
           a == Len(s)
<1>1. new \in Seq(Nat) /\ Len(new) = m /\ \A i \in 1 .. m : new[i] = n + i
  BY FunctionIsSequence
<1>2. /\ w \in Seq(Nat) /\ Len(w) = a + m /\ a \in Nat
      /\ \A i \in 1 .. a + m : w[i] = IF i <= a THEN s[i] ELSE new[i - a]
  BY <1>1, ConcatProperties, LenProperties
<1>3. /\ s \in Seq(0 .. n) /\ Increasing(s)
      /\ Elems(s) \ {SocketObject} = (1 .. n) \ gone
      /\ \A i \in 1 .. a : s[i] \in 0 .. n
  BY DEF InOrder
<1> HIDE DEF w
<1>4. /\ Elems(s) = {s[i] : i \in 1 .. a}
      /\ Elems(w) = {w[i] : i \in 1 .. a + m}
  BY <1>2 DEF Elems
<1> HIDE DEF a
<1>5. \A i \in 1 .. a + m :
        w[i] = IF i <= a THEN s[i] ELSE n + (i - a)
  BY <1>1, <1>2
<1>6. \A i \in 1 .. a + m : w[i] \in 0 .. n + m
  <2> SUFFICES ASSUME NEW i \in 1 .. a + m PROVE w[i] \in 0 .. n + m
    OBVIOUS
  <2>1. CASE i <= a
    <3>1. i \in 1 .. a
      BY <1>2, <2>1
    <3>2. s[i] \in 0 .. n /\ w[i] = s[i]
      BY <1>3, <1>5, <2>1, <3>1
    <3> QED
      BY <3>2
  <2>2. CASE ~(i <= a)
    <3>1. n + (i - a) \in 0 .. n + m
      BY <1>2, <2>2
    <3> QED
      BY <1>5, <2>2, <3>1
  <2> QED
    BY <2>1, <2>2
<1>7. w \in Seq(0 .. n + m)
  <2>1. \A i \in 1 .. Len(w) : w[i] \in 0 .. n + m
    BY <1>2, <1>6
  <2> QED
    BY <1>2, <2>1, ElementsAre
<1>8. Increasing(w)
  <2> SUFFICES ASSUME NEW i \in 1 .. a + m, NEW j \in 1 .. a + m, i < j,
                      w[i] # SocketObject, w[j] # SocketObject
               PROVE  w[i] < w[j]
    BY <1>2 DEF Increasing
  <2>1. CASE j <= a
    <3>1. i \in 1 .. a /\ j \in 1 .. a /\ i <= a
      BY <1>2, <2>1
    <3>2. w[i] = s[i] /\ w[j] = s[j]
      BY <1>5, <2>1, <3>1
    <3>3. \A x, y \in 1 .. a :
            x < y /\ s[x] # SocketObject /\ s[y] # SocketObject => s[x] < s[y]
      BY <1>3 DEF Increasing, a
    <3> QED
      BY <3>1, <3>2, <3>3
  <2>2. CASE i <= a /\ ~(j <= a)
    <3>1. i \in 1 .. a /\ n + (j - a) > n
      BY <1>2, <2>2
    <3>2. s[i] \in 0 .. n /\ w[i] = s[i] /\ w[j] = n + (j - a)
      BY <1>3, <1>5, <2>2, <3>1
    <3> QED
      BY <1>2, <3>1, <3>2
  <2>3. CASE ~(i <= a)
    BY <1>2, <1>5, <2>3
  <2> QED
    BY <2>1, <2>2, <2>3
<1>9. Elems(w) = Elems(s) \cup (n + 1 .. n + m)
  <2>1. ASSUME NEW i \in 1 .. a + m
        PROVE  w[i] \in Elems(s) \cup (n + 1 .. n + m)
    <3>1. CASE i <= a
      <4>1. i \in 1 .. a
        BY <1>2, <3>1
      <4> QED
        BY <1>4, <1>5, <3>1, <4>1
    <3>2. CASE ~(i <= a)
      <4>1. n + (i - a) \in n + 1 .. n + m
        BY <1>2, <3>2
      <4> QED
        BY <1>5, <3>2, <4>1
    <3> QED
      BY <3>1, <3>2
  <2>2. ASSUME NEW i \in 1 .. a PROVE s[i] \in Elems(w)
    <3>1. i \in 1 .. a + m /\ i <= a
      BY <1>2
    <3>2. w[i] = s[i]
      BY <1>5, <3>1
    <3> QED
      BY <1>4, <3>1, <3>2
  <2>3. ASSUME NEW x \in n + 1 .. n + m PROVE x \in Elems(w)
    <3>1. /\ a + (x - n) \in 1 .. a + m /\ ~(a + (x - n) <= a)
          /\ n + ((a + (x - n)) - a) = x
      BY <1>2
    <3>2. w[a + (x - n)] = x
      BY <1>5, <3>1
    <3> QED
      BY <1>4, <3>1, <3>2
  <2> QED
    BY <1>4, <2>1, <2>2, <2>3
<1>10. Elems(w) \ {SocketObject} = (1 .. n + m) \ gone
  <2>1. 1 .. n + m = (1 .. n) \cup (n + 1 .. n + m)
    OBVIOUS
  <2>2. gone \cap (n + 1 .. n + m) = {} /\ SocketObject \notin n + 1 .. n + m
    BY DEF SocketObject
  <2> QED
    BY <1>3, <1>9, <2>1, <2>2
<1> QED
  BY <1>1, <1>7, <1>8, <1>10 DEF InOrder, w

LEMMA HeldKeeps ==
    ASSUME HeldInv, given' \in Seq(Nat),
           call'.op \notin RecvCalls => call'.got = <<>>,
           arrived' = arrived, dropped' = dropped,
           (given' \o call'.got) \o Ids(inbox') =
               (given \o call.got) \o Ids(inbox)
    PROVE  HeldInv'
<1> DEFINE w == (given \o call.got) \o Ids(inbox)
           v == (given' \o call'.got) \o Ids(inbox')
<1>1. InOrder(w, arrived, dropped) /\ dropped \subseteq 0 .. arrived
  BY DEF HeldInv
<1>2. v = w
  OBVIOUS
<1> HIDE DEF w, v
<1>3. InOrder(v, arrived', dropped') /\ dropped' \subseteq 0 .. arrived'
  BY <1>1, <1>2
<1> QED
  BY <1>3 DEF HeldInv, v

LEMMA HeldFrame ==
    ASSUME HeldInv, UNCHANGED <<arrived, inbox, given, dropped>>,
           call'.got = call.got,
           call'.op \notin RecvCalls => call'.got = <<>>
    PROVE  HeldInv'
<1>1. given' \in Seq(Nat)
  BY DEF HeldInv
<1>2. (given' \o call'.got) \o Ids(inbox') = (given \o call.got) \o Ids(inbox)
  OBVIOUS
<1> QED
  BY <1>1, <1>2, HeldKeeps

LEMMA SendersHoldNothing ==
    ASSUME IInv, HeldInv, call.op \in SendCalls
    PROVE  call.got = <<>> /\ call.op \notin RecvCalls
BY DEF HeldInv, SendCalls, RecvCalls

LEMMA SendHeld ==
    ASSUME IInv, HeldInv,
           \/ \E more \in BOOLEAN : SendOne(more)
           \/ \E op \in SendCalls, parts \in Lists(Elements), last \in BOOLEAN :
                 SendList(op, parts, last)
           \/ SendPart
           \/ \E cause \in {"badElement", "noMemory"} : SendStops(cause)
           \/ SendFails
    PROVE  HeldInv'
<1> USE DEF incoming
<1>1. ASSUME NEW more \in BOOLEAN, SendOne(more)
      PROVE  HeldInv'
  <2>1. UNCHANGED <<arrived, inbox, given, dropped>> /\ call' = call
    BY <1>1 DEF SendOne
  <2> QED
    BY <2>1, HeldFrame DEF HeldInv
<1>2. ASSUME NEW op \in SendCalls, NEW parts \in Lists(Elements),
             NEW last \in BOOLEAN, SendList(op, parts, last)
      PROVE  HeldInv'
  <2>1. UNCHANGED <<arrived, inbox, given, dropped>> /\ call.got = <<>>
    BY <1>2, IdleType DEF SendList, CanCall
  <2>2. call' = call \/ call' = Call(op, parts, last)
    BY <1>2 DEF SendList
  <2>3. call'.got = <<>>
    BY <2>1, <2>2 DEF Call
  <2> QED
    BY <2>1, <2>3, HeldFrame
<1>3. ASSUME SendPart
      PROVE  HeldInv'
  <2>1. /\ UNCHANGED <<arrived, inbox, given, dropped>> /\ call.op \in SendCalls
        /\ call' = IF Len(call.parts) = 1 THEN Idle
                   ELSE [call EXCEPT !.parts = Tail(@), !.begun = TRUE]
    BY <1>3 DEF SendPart
  <2>2. call.got = <<>> /\ call \in Calls
    BY <2>1, SendersHoldNothing DEF IInv, Types
  <2>3. call'.got = <<>>
    BY <2>1, <2>2, IdleType DEF Calls
  <2> QED
    BY <2>1, <2>2, <2>3, HeldFrame
<1>4. ASSUME \/ \E cause \in {"badElement", "noMemory"} : SendStops(cause)
             \/ SendFails
      PROVE  HeldInv'
  <2>1. /\ UNCHANGED <<arrived, inbox, given, dropped>>
        /\ call.op \in SendCalls /\ call' = Idle
    BY <1>4 DEF SendStops, SendFails
  <2>2. call.got = <<>> /\ call'.got = <<>>
    BY <2>1, SendersHoldNothing, IdleType
  <2> QED
    BY <2>1, <2>2, HeldFrame
<1> QED
  BY <1>1, <1>2, <1>3, <1>4

(* What was taken is kept by the call or handed over.                      *)
LEMMA TakeHeld ==
    ASSUME IInv, HeldInv, Take,
           \/ /\ given' = given /\ call'.got = Append(call.got, Head(inbox).id)
              /\ call'.op \in RecvCalls
           \/ /\ given' = given \o Append(call.got, Head(inbox).id)
              /\ call'.got = <<>>
    PROVE  HeldInv'
<1>1. /\ Head(inbox).id \in Nat /\ arrived' = arrived /\ dropped' = dropped
      /\ Ids(inbox') \in Seq(Nat)
      /\ Ids(inbox) = <<Head(inbox).id>> \o Ids(inbox')
  BY TakeIds DEF Take
<1>2. given \in Seq(Nat) /\ call.got \in Seq(Nat)
  BY DEF HeldInv, IInv, Types, Calls
<1> DEFINE h == Head(inbox).id
           t == Ids(inbox')
           both == given \o Append(call.got, h)
<1>3. /\ both \in Seq(Nat)
      /\ both \o t = (given \o call.got) \o (<<h>> \o t)
      /\ (both \o <<>>) \o t = (given \o call.got) \o (<<h>> \o t)
  <2>1. h \in Nat /\ t \in Seq(Nat)
    BY <1>1
  <2> HIDE DEF h, t
  <2>2. both \in Seq(Nat)
    BY <1>2, <2>1, TakenStays, ZenonT(30)
  <2>3. both \o t = (given \o call.got) \o (<<h>> \o t)
    BY <1>2, <2>1, TakenStays, ZenonT(30)
  <2>4. (both \o <<>>) \o t = (given \o call.got) \o (<<h>> \o t)
    BY <1>2, <2>1, TakenStays, ZenonT(30)
  <2> QED
    BY <2>2, <2>3, <2>4
<1>4. \/ given' = given /\ given' \o call'.got = both
      \/ given' = both /\ given' \o call'.got = both \o <<>>
  BY Zenon
<1> HIDE DEF h, t, both
<1>5. given' \in Seq(Nat)
  BY <1>2, <1>3, <1>4, Zenon
<1>6. (given' \o call'.got) \o Ids(inbox') = (given \o call.got) \o Ids(inbox)
  BY <1>1, <1>3, <1>4, Zenon DEF h, t
<1> QED
  BY <1>1, <1>5, <1>6, HeldKeeps

LEMMA RecvHeld ==
    ASSUME IInv, HeldInv,
           \/ RecvOne
           \/ RecvLen \/ RecvLenMore
           \/ \E op \in {"recv_all", "recvx", "recv_event"} : RecvList(op)
           \/ RecvPart \/ RecvEventPart
    PROVE  HeldInv'
<1>1. call \in Calls /\ call.got \in Seq(Nat) /\ given \in Seq(Nat)
  BY DEF HeldInv, IInv, Types, Calls
<1>2. Take => Head(inbox).id \in Nat
  BY TakeIds
<1>3. \A h \in Nat : Append(<<>>, h) = <<h>>
  OBVIOUS
<1>4. ASSUME RecvOne
      PROVE  HeldInv'
  <2>1. /\ Take /\ call' = call /\ call.got = <<>>
        /\ given' = given \o <<Head(inbox).id>>
    BY <1>4, IdleType DEF RecvOne, CanCall, Hand
  <2>2. given' = given \o Append(call.got, Head(inbox).id)
    BY <1>2, <1>3, <2>1
  <2> QED
    BY <1>4, <2>1, <2>2, TakeHeld
<1>5. ASSUME RecvLen
      PROVE  HeldInv'
  <2>1. /\ Take /\ call.got = <<>> /\ given' = given
        /\ call' = [op |-> "recv_len", parts |-> <<>>, last |-> FALSE,
                    begun |-> FALSE, got |-> <<Head(inbox).id>>]
    BY <1>5, IdleType DEF RecvLen, CanCall, Call
  <2>2. call'.got = Append(call.got, Head(inbox).id) /\ call'.op \in RecvCalls
    BY <1>2, <1>3, <2>1 DEF RecvCalls
  <2> QED
    BY <2>1, <2>2, TakeHeld
<1>6. ASSUME RecvLenMore
      PROVE  HeldInv'
  <2>1. /\ UNCHANGED <<arrived, inbox, dropped>>
        /\ given' = given \o call.got /\ call'.got = <<>>
    BY <1>6, IdleType DEF RecvLenMore, Hand
  <2>2. given' \in Seq(Nat)
    BY <1>1, <2>1, ConcatProperties
  <2>3. given' \o call'.got = given \o call.got
    BY <2>1, <2>2, ConcatEmptySeq
  <2>4. (given' \o call'.got) \o Ids(inbox') = (given \o call.got) \o Ids(inbox)
    BY <2>1, <2>3
  <2> QED
    BY <2>1, <2>2, <2>4, HeldKeeps
<1>7. ASSUME NEW op \in {"recv_all", "recvx", "recv_event"}, RecvList(op)
      PROVE  HeldInv'
  <2>1. /\ UNCHANGED <<arrived, inbox, given, dropped>>
        /\ call.got = <<>> /\ call' = Call(op, <<>>, FALSE)
    BY <1>7, IdleType DEF RecvList, CanCall, incoming
  <2>2. call'.got = <<>>
    BY <2>1 DEF Call
  <2> QED
    BY <2>1, <2>2, HeldFrame
<1>8. ASSUME RecvPart
      PROVE  HeldInv'
  <2> DEFINE got == Append(call.got, Head(inbox).id)
  <2>1. Take /\ call.op \in RecvCalls
    BY <1>8 DEF RecvPart, RecvCalls
  <2>2. \/ given' = given /\ call' = [call EXCEPT !.got = got]
        \/ given' = given \o got /\ call' = Idle
    BY <1>8 DEF RecvPart, Hand
  <2> HIDE DEF got
  <2>3. call' = [call EXCEPT !.got = got] =>
            call'.got = got /\ call'.op \in RecvCalls
    BY <1>1, <2>1 DEF Calls
  <2>4. call' = Idle => call'.got = <<>>
    BY IdleType
  <2> QED
    BY <2>1, <2>2, <2>3, <2>4, TakeHeld DEF got
<1>9. ASSUME RecvEventPart
      PROVE  HeldInv'
  <2> DEFINE got == Append(call.got, Head(inbox).id)
  <2>1. Take /\ call.op \in RecvCalls
    BY <1>9 DEF RecvEventPart, RecvCalls
  <2>2. \/ given' = given /\ call' = [call EXCEPT !.got = got]
        \/ given' = given \o got /\ call' = Idle
    BY <1>9 DEF RecvEventPart, Hand
  <2> HIDE DEF got
  <2>3. call' = [call EXCEPT !.got = got] =>
            call'.got = got /\ call'.op \in RecvCalls
    BY <1>1, <2>1 DEF Calls
  <2>4. call' = Idle => call'.got = <<>>
    BY IdleType
  <2> QED
    BY <2>1, <2>2, <2>3, <2>4, TakeHeld DEF got
<1> QED
  BY <1>4, <1>5, <1>6, <1>7, <1>8, <1>9

LEMMA ElemsAreRange ==
    ASSUME NEW k \in Seq(Nat)
    PROVE  Range(k) = Elems(k)
BY LenProperties DEF Range, Elems

(* A call that fails hands over what it holds, or another answer.          *)
LEMMA RecvFailsHeld ==
    ASSUME IInv, HeldInv, RecvFails
    PROVE  HeldInv'
<1>1. /\ UNCHANGED <<arrived, inbox>> /\ call' = Idle
      /\ given' = given \o Answered
      /\ dropped' = dropped \cup (Range(call.got) \ Range(Answered))
  BY DEF RecvFails, Hand
<1>2. /\ given \in Seq(Nat) /\ call.got \in Seq(Nat) /\ Ids(inbox) \in Seq(Nat)
      /\ arrived \in Nat /\ dropped \in SUBSET (0 .. arrived)
      /\ InOrder((given \o call.got) \o Ids(inbox), arrived, dropped)
  BY IdsAre DEF HeldInv, IInv, Types, Calls
<1>3. call'.got = <<>>
  BY <1>1, IdleType
<1>4. CASE Answered = call.got
  <2>1. given' \in Seq(Nat)
    BY <1>1, <1>2, <1>4, ConcatProperties
  <2>2. given' \o call'.got = given \o call.got
    BY <1>1, <1>3, <1>4, <2>1, ConcatEmptySeq
  <2>3. (given' \o call'.got) \o Ids(inbox') = (given \o call.got) \o Ids(inbox)
    BY <1>1, <2>2
  <2>4. dropped' = dropped
    BY <1>1, <1>4
  <2> QED
    BY <1>1, <1>3, <2>1, <2>3, <2>4, HeldKeeps
<1>5. CASE call.op # "recv_all" /\ call.got # <<>>
  <2>1. PICK k \in Seq(Nat), g \in Seq(Nat), q \in Seq(Nat) :
          k = call.got /\ g = given /\ q = Ids(inbox)
    BY <1>2
  <2>2. Len(k) \in Nat \ {0}
    BY <1>5, <2>1, LenProperties, EmptySeq
  <2>3. PICK d \in Seq(Nat) :
          /\ d = Answered /\ Len(d) <= Len(k)
          /\ \A i \in 1 .. Len(d) :
                d[i] = SocketObject \/ (i > 1 /\ d[i] = k[i - 1])
    <3>1. CASE call.op = "recvx"
      <4> DEFINE p == SubSeq(k, 1, Len(k) - 1)
                 d == <<SocketObject>> \o p
      <4>1. /\ p \in Seq(Nat) /\ Len(p) = Len(k) - 1
            /\ \A i \in 1 .. Len(k) - 1 : p[i] = k[i]
        <5>1. /\ 1 \in 1 .. Len(k) + 1 /\ Len(k) - 1 \in 1 - 1 .. Len(k)
              /\ (Len(k) - 1) - 1 + 1 = Len(k) - 1
          BY <2>2
        <5>2. \A i \in 1 .. Len(k) - 1 : 1 + i - 1 = i
          BY <2>2
        <5> QED
          BY <5>1, <5>2, SubSeqProperties
      <4>2. Answered = d
        BY <1>5, <2>1, <3>1 DEF Answered
      <4> HIDE DEF p
      <4>3. <<SocketObject>> \in Seq(Nat) /\ Len(<<SocketObject>>) = 1
            /\ <<SocketObject>>[1] = SocketObject
        BY DEF SocketObject
      <4>4. /\ d \in Seq(Nat) /\ Len(d) = 1 + Len(p)
            /\ \A i \in 1 .. 1 + Len(p) :
                  d[i] = IF i <= 1 THEN <<SocketObject>>[i] ELSE p[i - 1]
        BY <4>1, <4>3, ConcatProperties
      <4> HIDE DEF d
      <4>5. ASSUME NEW i \in 1 .. Len(d)
            PROVE  d[i] = SocketObject \/ (i > 1 /\ d[i] = k[i - 1])
        <5>1. CASE i = 1
          <6>1. 1 \in 1 .. 1 + Len(p) /\ 1 <= 1
            BY <2>2, <4>1
          <6> QED
            BY <4>3, <4>4, <5>1, <6>1
        <5>2. CASE i # 1
          <6>1. /\ i \in 1 .. 1 + Len(p) /\ ~(i <= 1) /\ i > 1
                /\ i - 1 \in 1 .. Len(k) - 1
            BY <2>2, <4>1, <4>4, <5>2
          <6> QED
            BY <4>1, <4>4, <6>1
        <5> QED
          BY <5>1, <5>2
      <4>6. Len(d) <= Len(k)
        BY <2>2, <4>1, <4>4
      <4> QED
        BY <4>2, <4>4, <4>5, <4>6, Zenon
    <3>2. CASE call.op # "recvx"
      <4>1. Answered = <<>>
        BY <1>5, <3>2 DEF Answered
      <4>2. <<>> \in Seq(Nat) /\ Len(<<>>) = 0
        OBVIOUS
      <4>3. /\ Len(<<>>) <= Len(k)
            /\ \A i \in 1 .. Len(<<>>) :
                 <<>>[i] = SocketObject \/ (i > 1 /\ <<>>[i] = k[i - 1])
        BY <2>2, <4>2
      <4> QED
        BY <4>1, <4>2, <4>3, Zenon
    <3> QED
      BY <3>1, <3>2
  <2>4. PICK gone \in SUBSET (0 .. arrived) : gone = dropped
    BY <1>2
  <2>5. InOrder((g \o k) \o q, arrived, gone)
    BY <1>2, <2>1, <2>4
  <2>6. /\ InOrder((g \o d) \o q, arrived, gone \cup (Elems(k) \ Elems(d)))
        /\ gone \cup (Elems(k) \ Elems(d)) \subseteq 0 .. arrived
    BY <1>2, <2>3, <2>5, DroppedInOrder
  <2>7. g \o d \in Seq(Nat) /\ (g \o d) \o <<>> = g \o d
    BY ConcatProperties, ConcatEmptySeq
  <2>8. given' = g \o d /\ given' \o call'.got = g \o d
    BY <1>1, <1>3, <2>1, <2>3, <2>7
  <2>9. dropped' = gone \cup (Elems(k) \ Elems(d))
    BY <1>1, <2>1, <2>3, <2>4, ElemsAreRange
  <2> QED
    BY <1>1, <1>3, <2>1, <2>6, <2>7, <2>8, <2>9 DEF HeldInv
<1>6. call.op = "recv_all" => Answered = call.got
  BY DEF Answered
<1>7. call.op # "recv_all" /\ call.got = <<>> => Answered = call.got
  BY DEF Answered
<1> QED
  BY <1>4, <1>5, <1>6, <1>7

LEMMA IdsOfBoth ==
    ASSUME NEW box \in Seq(Part), NEW parts \in Seq(Part)
    PROVE  Ids(box \o parts) = Ids(box) \o Ids(parts)
<1> DEFINE w == box \o parts
           q == Ids(box)
           new == Ids(parts)
           u == Ids(w)
           v == q \o new
           a == Len(box)
           k == Len(parts)
<1>1. a \in Nat /\ k \in Nat
  BY LenProperties
<1>2. new \in Seq(Nat) /\ Len(new) = k /\ \A i \in 1 .. k : new[i] = parts[i].id
  BY IdsAre
<1>3. /\ w \in Seq(Part) /\ Len(w) = a + k
      /\ \A i \in 1 .. a + k : w[i] = IF i <= a THEN box[i] ELSE parts[i - a]
  BY ConcatProperties
<1>4. q \in Seq(Nat) /\ Len(q) = a /\ \A i \in 1 .. a : q[i] = box[i].id
  BY IdsAre
<1> HIDE DEF w, q, a, k, new
<1>5. u \in Seq(Nat) /\ Len(u) = a + k /\ \A i \in 1 .. a + k : u[i] = w[i].id
  BY <1>3, IdsAre
<1>6. /\ v \in Seq(Nat) /\ Len(v) = a + k
      /\ \A i \in 1 .. a + k : v[i] = IF i <= a THEN q[i] ELSE new[i - a]
  BY <1>2, <1>4, ConcatProperties
<1> HIDE DEF u, v
<1>7. ASSUME NEW i \in 1 .. a + k
      PROVE  u[i] = v[i]
  <2>1. CASE i <= a
    <3>1. i \in 1 .. a
      BY <1>1, <2>1
    <3>2. u[i] = box[i].id
      BY <1>3, <1>5, <2>1
    <3> QED
      BY <1>4, <1>6, <2>1, <3>1, <3>2
  <2>2. CASE ~(i <= a)
    <3>1. i - a \in 1 .. k
      BY <1>1, <2>2
    <3>2. u[i] = parts[i - a].id
      BY <1>3, <1>5, <2>2
    <3> QED
      BY <1>2, <1>6, <2>2, <3>1, <3>2
  <2> QED
    BY <2>1, <2>2
<1>8. u = v
  BY <1>5, <1>6, <1>7, SeqEqual
<1> QED
  BY <1>8 DEF u, v, w, q, new

LEMMA ArrivedIds ==
    ASSUME NEW n \in Nat, NEW k \in Nat
    PROVE  LET parts == [i \in 1 .. k |-> [id |-> n + i, more |-> i < k]]
           IN  parts \in Seq(Part) /\ Ids(parts) = [i \in 1 .. k |-> n + i]
<1> DEFINE parts == [i \in 1 .. k |-> [id |-> n + i, more |-> i < k]]
           new == [i \in 1 .. k |-> n + i]
<1>1. /\ parts \in [1 .. k -> Part] /\ new \in [1 .. k -> Nat]
      /\ \A i \in 1 .. k : parts[i].id = new[i]
  BY DEF Part, SocketObject
<1> HIDE DEF parts, new
<1>2. /\ parts \in Seq(Part) /\ Len(parts) = k
      /\ new \in Seq(Nat) /\ Len(new) = k
  BY <1>1, FunctionIsSequence
<1>3. /\ Ids(parts) \in Seq(Nat) /\ Len(Ids(parts)) = k
      /\ \A i \in 1 .. k : Ids(parts)[i] = new[i]
  BY <1>1, <1>2, IdsAre
<1>4. Ids(parts) = new
  BY <1>2, <1>3, SeqEqual
<1> QED
  BY <1>2, <1>4 DEF parts, new

LEMMA ArriveHeld ==
    ASSUME IInv, HeldInv, Arrive
    PROVE  HeldInv'
<1>1. PICK k \in 1 .. MaxParts :
        /\ arrived' = arrived + k
        /\ inbox' = inbox \o
              [i \in 1 .. k |-> [id |-> arrived + i, more |-> i < k]]
  BY DEF Arrive
<1>2. UNCHANGED <<given, call, dropped>>
  BY DEF Arrive
<1>3. k \in Nat
  BY BoundsAssumption
<1>4. PICK h \in Seq(Nat), box \in Seq(Part), n \in Nat :
        h = given \o call.got /\ box = inbox /\ n = arrived
  BY ConcatProperties DEF HeldInv, IInv, Types, Calls
<1> DEFINE parts == [i \in 1 .. k |-> [id |-> n + i, more |-> i < k]]
           new == [i \in 1 .. k |-> n + i]
<1>5. Ids(box \o parts) = Ids(box) \o new
  <2>1. parts \in Seq(Part) /\ Ids(parts) = new
    BY <1>3, ArrivedIds
  <2> HIDE DEF parts, new
  <2> QED
    BY <2>1, IdsOfBoth
<1>6. inbox' = box \o parts /\ arrived' = n + k
  BY <1>1, <1>4
<1>7. /\ InOrder(h \o Ids(box), n, dropped) /\ Ids(box) \in Seq(Nat)
      /\ dropped \in SUBSET (0 .. n)
  BY <1>4, IdsAre DEF HeldInv
<1>8. h \o Ids(box) \in Seq(Nat)
  BY <1>7, ConcatProperties
<1>9. /\ new \in Seq(Nat)
      /\ InOrder((h \o Ids(box)) \o new, n + k, dropped)
  BY <1>3, <1>7, <1>8, ArrivedInOrder
<1> HIDE DEF parts, new
<1>10. (h \o Ids(box)) \o new = h \o (Ids(box) \o new)
  BY <1>7, <1>9, ConcatAssociative, SMTT(30)
<1>11. InOrder(h \o Ids(inbox'), arrived', dropped')
  BY <1>2, <1>5, <1>6, <1>9, <1>10
<1>12. dropped' \subseteq 0 .. arrived'
  BY <1>2, <1>3, <1>6, <1>7
<1> QED
  BY <1>2, <1>4, <1>11, <1>12 DEF HeldInv

LEMMA InitHeld == Init => HeldInv
<1> SUFFICES ASSUME Init PROVE HeldInv
  OBVIOUS
<1>1. /\ arrived = 0 /\ inbox = <<>> /\ given = <<>> /\ call.got = <<>>
      /\ dropped = {}
  BY IdleType DEF Init
<1>2. Ids(<<>>) = <<>> /\ <<>> \in Seq(Nat)
  <2>1. <<>> \in Seq(Part)
    OBVIOUS
  <2>2. Ids(<<>>) \in Seq(Nat) /\ Len(Ids(<<>>)) = Len(<<>>)
    BY <2>1, IdsAre
  <2> QED
    BY <2>2, EmptySeq
<1>3. (<<>> \o <<>>) \o <<>> = <<>>
  BY <1>2, ConcatEmptySeq
<1>4. InOrder(<<>>, 0, {})
  <2>1. <<>> \in Seq(0 .. 0) /\ Len(<<>>) = 0
    OBVIOUS
  <2>2. Increasing(<<>>)
    BY <2>1 DEF Increasing
  <2>3. Elems(<<>>) = {}
    BY <2>1 DEF Elems
  <2> QED
    BY <2>1, <2>2, <2>3 DEF InOrder
<1>5. (given \o call.got) \o Ids(inbox) = <<>>
  BY <1>1, <1>2, <1>3
<1> QED
  BY <1>1, <1>2, <1>4, <1>5 DEF HeldInv

LEMMA NextHeld == IInv /\ HeldInv /\ [Next]_vars => HeldInv'
<1> SUFFICES ASSUME IInv, HeldInv, [Next]_vars PROVE HeldInv'
  OBVIOUS
<1>1. ASSUME NEW more \in BOOLEAN, Send(more) \/ SendMsg(more) \/ MsgSend(more)
      PROVE  HeldInv'
  BY <1>1, SendHeld DEF Send, SendMsg, MsgSend
<1>2. CASE SendMore
  BY <1>2, SendHeld DEF SendMore, Send
<1>3. ASSUME NEW parts \in Lists(Elements), Sendv(parts) \/ SendvMore(parts)
      PROVE  HeldInv'
  BY <1>3, SendHeld DEF Sendv, SendvMore, SendvImpl
<1>4. ASSUME NEW parts \in Lists(Elements),
             \/ Sendx(parts) \/ SendxMore(parts)
             \/ \E last \in BOOLEAN : SendAll(parts, last)
      PROVE  HeldInv'
  <2>1. \E op \in SendCalls, last \in BOOLEAN : SendList(op, parts, last)
    BY <1>4 DEF Sendx, SendxMore, SendxImpl, SendAll, SendCalls
  <2> QED
    BY <2>1, SendHeld
<1>5. CASE SendPart \/ SendFails
  BY <1>5, SendHeld
<1>6. CASE SendStops("noMemory") \/ SendStops("badElement")
  BY <1>6, SendHeld
<1>7. CASE Recv \/ RecvMsg \/ RecvNewMsg \/ MsgRecv
  <2>1. RecvOne
    BY <1>7 DEF Recv, RecvMsg, RecvNewMsg, MsgRecv
  <2> QED
    BY <2>1, RecvHeld
<1>8. CASE RecvLen \/ RecvLenMore
  BY <1>8, RecvHeld
<1>9. CASE RecvAll \/ Recvx \/ RecvEvent
  BY <1>9, RecvHeld DEF RecvAll, Recvx, RecvEvent
<1>10. CASE RecvPart \/ RecvEventPart
  BY <1>10, RecvHeld
<1>11. CASE RecvFails \/ Arrive
  BY <1>11, RecvFailsHeld, ArriveHeld
<1>12. CASE PeerReads \/ ContextShutsDown \/ UNCHANGED vars
  <2>1. UNCHANGED <<arrived, inbox, given, call, dropped>>
    BY <1>12 DEF PeerReads, ContextShutsDown, vars, incoming
  <2> QED
    BY <2>1, HeldFrame DEF HeldInv
<1> QED
  BY <1>1, <1>2, <1>3, <1>4, <1>5, <1>6, <1>7, <1>8, <1>9, <1>10, <1>11,
     <1>12 DEF Next, CallStep

LEMMA HeldInductive == Spec => [](IInv /\ HeldInv)
<1>1. IInv /\ HeldInv /\ [Next]_vars => (IInv /\ HeldInv)'
  BY NextIInv, NextHeld
<1> QED
  BY InitIInv, InitHeld, <1>1, PTL DEF Spec

(* Of the parts that arrived each is handed to the application once, in    *)
(* the order of arrival, or waits, or is held by the call that collects    *)
(* it; calls that fail with parts in hand drop some of those only, and     *)
(* change no order, for messages of any number of parts (the loops of      *)
(* zsocket.c:142-505).                                                     *)
THEOREM PartsHandedOver == Spec => []HandsOver
<1>1. IInv /\ HeldInv => HandsOver
  <2> SUFFICES ASSUME IInv, HeldInv PROVE HandsOver
    OBVIOUS
  <2>1. PICK g \in Seq(Nat), k \in Seq(Nat), q \in Seq(Nat) :
          g = given /\ k = call.got /\ q = Ids(inbox)
    BY IdsAre DEF HeldInv, IInv, Types, Calls
  <2> DEFINE w == (g \o k) \o q
  <2>2. InOrder(w, arrived, dropped)
    BY <2>1 DEF HeldInv
  <2>3. w \in Seq(Nat) /\ w = Held
    BY <2>1, ThreeAsOne DEF Held
  <2> HIDE DEF w
  <2>4. DOMAIN w = 1 .. Len(w) /\ Range(w) = Elems(w)
    BY <2>3, LenProperties, ElemsAreRange
  <2> QED
    BY <2>2, <2>3, <2>4 DEF InOrder, Increasing, HandsOver
<1> QED
  BY <1>1, HeldInductive, PTL

-----------------------------------------------------------------------------
(* The types.  At most Hwm whole messages are in flight, and fewer while   *)
(* another one is being sent.                                              *)

Ends(out) == {i \in 1 .. Len(out) : ~out[i].more}

FitInv ==
    /\ kind \in {"data", "monitor"}
    /\ arrived \in 0 .. MaxIn
    /\ did \subseteq Oddities
    /\ call.op \in SendCalls => Len(call.parts) <= MaxParts
    /\ Cardinality(Completed) <= Hwm
    /\ ~AtBoundary => Cardinality(Completed) < Hwm

LEMMA EndsFinite ==
    ASSUME NEW out \in Seq(SentPart)
    PROVE  IsFiniteSet(Ends(out)) /\ Cardinality(Ends(out)) \in Nat
<1>1. Len(out) \in Nat
  BY LenProperties
<1>2. IsFiniteSet(1 .. Len(out))
  BY <1>1, FS_Interval
<1>3. Ends(out) \in SUBSET (1 .. Len(out))
  BY DEF Ends
<1>4. IsFiniteSet(Ends(out))
  BY <1>2, <1>3, FS_Subset
<1> QED
  BY <1>4, FS_CardinalityType

LEMMA CompletedIs == IInv => Completed = Ends(outbox)
<1> SUFFICES ASSUME IInv PROVE Completed = Ends(outbox)
  OBVIOUS
<1>1. DOMAIN outbox = 1 .. Len(outbox)
  BY LenProperties DEF IInv, Types
<1> QED
  BY <1>1 DEF Completed, Ends

LEMMA EndsOfAppend ==
    ASSUME NEW out \in Seq(SentPart), NEW part \in SentPart
    PROVE  Cardinality(Ends(Append(out, part))) =
               IF part.more THEN Cardinality(Ends(out))
               ELSE Cardinality(Ends(out)) + 1
<1> DEFINE n == Len(out)
           new == Append(out, part)
<1>1. /\ n \in Nat /\ Len(new) = n + 1 /\ new[n + 1] = part
      /\ \A i \in 1 .. n : new[i] = out[i]
  BY AppendProperties, LenProperties
<1> HIDE DEF n, new
<1>2. 1 .. n + 1 = (1 .. n) \cup {n + 1} /\ n + 1 \notin 1 .. n
  BY <1>1
<1>3. Ends(out) = {i \in 1 .. n : ~out[i].more}
  BY DEF Ends, n
<1>4. Ends(new) = {i \in 1 .. n + 1 : ~new[i].more}
  BY <1>1 DEF Ends
<1>5. CASE part.more
  <2>1. Ends(new) = Ends(out)
    BY <1>1, <1>2, <1>3, <1>4, <1>5
  <2> QED
    BY <1>5, <2>1 DEF new
<1>6. CASE ~part.more
  <2>1. Ends(new) = Ends(out) \cup {n + 1} /\ n + 1 \notin Ends(out)
    BY <1>1, <1>2, <1>3, <1>4, <1>6
  <2>2. Cardinality(Ends(new)) = Cardinality(Ends(out)) + 1
    BY <2>1, EndsFinite, FS_AddElement
  <2> QED
    BY <1>6, <2>2 DEF new
<1> QED
  BY <1>5, <1>6

LEMMA EndsOfRest ==
    ASSUME NEW out \in Seq(SentPart), NEW n \in 1 .. Len(out),
           NEW rest \in Seq(SentPart), Len(rest) = Len(out) - n,
           \A i \in 1 .. Len(out) - n : rest[i] = out[n + i]
    PROVE  Cardinality(Ends(rest)) <= Cardinality(Ends(out))
<1> DEFINE f == [i \in Ends(rest) |-> n + i]
<1>1. Len(out) \in Nat /\ n \in Nat
  BY LenProperties
<1>2. ASSUME NEW i \in Ends(rest)
      PROVE  i \in Nat /\ n + i \in Ends(out)
  <2>1. i \in 1 .. Len(out) - n /\ ~rest[i].more
    BY DEF Ends
  <2>2. n + i \in 1 .. Len(out) /\ i \in Nat
    BY <1>1, <2>1
  <2>3. ~out[n + i].more
    BY <2>1
  <2> QED
    BY <2>2, <2>3 DEF Ends
<1>3. f \in [Ends(rest) -> Ends(out)]
  BY <1>2
<1>4. \A i, j \in Ends(rest) : f[i] = f[j] => i = j
  <2> SUFFICES ASSUME NEW i \in Ends(rest), NEW j \in Ends(rest), n + i = n + j
               PROVE  i = j
    OBVIOUS
  <2>1. i \in Nat /\ j \in Nat
    BY <1>2
  <2> QED
    BY <1>1, <2>1
<1> HIDE DEF f
<1>5. f \in Injection(Ends(rest), Ends(out))
  BY <1>3, <1>4, Zenon DEF Injection, IsInjective
<1> QED
  BY <1>5, EndsFinite, FS_Injection

LEMMA FitFrame ==
    ASSUME FitInv, UNCHANGED <<kind, arrived, outbox>>, did' \subseteq Oddities,
           call'.op \in SendCalls => Len(call'.parts) <= MaxParts
    PROVE  FitInv'
BY DEF FitInv, Completed, AtBoundary

(* There is room for the end of a message once there was room for its      *)
(* beginning.                                                              *)
LEMMA PutFits ==
    ASSUME IInv, FitInv, NEW first \in BOOLEAN, NEW more \in BOOLEAN,
           Put(first, more)
    PROVE  /\ Cardinality(Completed)' <= Hwm
           /\ ~AtBoundary' => Cardinality(Completed)' < Hwm
<1> DEFINE part == [first |-> first, more |-> more]
<1>1. PICK out \in Seq(SentPart) : out = outbox
  BY DEF IInv, Types
<1>2. part \in SentPart /\ outbox' = Append(out, part)
  BY <1>1 DEF Put, SentPart
<1>3. part.more = more
  OBVIOUS
<1> HIDE DEF part
<1>4. /\ Append(out, part) \in Seq(SentPart)
      /\ Len(Append(out, part)) = Len(out) + 1
      /\ Append(out, part)[Len(out) + 1] = part
      /\ Len(out) \in Nat
  BY <1>2, AppendProperties, LenProperties
<1>5. /\ Completed = Ends(out)
      /\ Completed' = Ends(Append(out, part))
  BY <1>1, <1>2, <1>4, LenProperties DEF Completed, Ends
<1> DEFINE c == Cardinality(Ends(out))
           d == Cardinality(Ends(Append(out, part)))
<1>6. c \in Nat /\ d = IF more THEN c ELSE c + 1
  BY <1>2, <1>3, EndsFinite, EndsOfAppend
<1>7. c < Hwm
  BY <1>5 DEF Put, HasRoom, FitInv
<1>8. AtBoundary' <=> ~more
  BY <1>2, <1>3, <1>4, EmptySeq DEF AtBoundary
<1>9. Cardinality(Completed)' = d /\ Hwm \in Nat
  BY <1>5, BoundsAssumption
<1> HIDE DEF c, d
<1>10. d <= Hwm /\ (more => d < Hwm)
  BY <1>6, <1>7, <1>9
<1> QED
  BY <1>8, <1>9, <1>10

LEMMA PeerReadsFits ==
    ASSUME IInv, FitInv, PeerReads
    PROVE  FitInv'
<1>1. UNCHANGED <<kind, arrived, call, did>>
  BY DEF PeerReads, incoming
<1>2. PICK out \in Seq(SentPart) : out = outbox
  BY DEF IInv, Types
<1>3. PICK n \in 1 .. Len(out), rest \in Seq(SentPart) :
        /\ rest = outbox' /\ Len(rest) = Len(out) - n
        /\ \A i \in 1 .. Len(out) - n : rest[i] = out[n + i]
  BY <1>2, PeerReadsRest
<1>4. Completed = Ends(out) /\ Completed' = Ends(rest)
  BY <1>2, <1>3, LenProperties DEF Completed, Ends
<1> DEFINE c == Cardinality(Ends(out))
           d == Cardinality(Ends(rest))
<1>5. d <= c
  BY <1>3, EndsOfRest
<1>6. c \in Nat /\ d \in Nat
  BY EndsFinite
<1>7. AtBoundary' <=> AtBoundary
  BY PeerReadsRest
<1>8. c <= Hwm /\ (~AtBoundary => c < Hwm)
  BY <1>4 DEF FitInv
<1>9. Cardinality(Completed)' = d /\ Hwm \in Nat
  BY <1>4, BoundsAssumption
<1> HIDE DEF c, d
<1>10. d <= Hwm /\ (~AtBoundary => d < Hwm)
  BY <1>5, <1>6, <1>8, <1>9
<1> QED
  BY <1>1, <1>7, <1>9, <1>10 DEF FitInv

LEMMA ListsAreShort ==
    ASSUME NEW parts \in Lists(Elements)
    PROVE  Len(parts) <= MaxParts
<1>1. PICK n \in 0 .. MaxParts : parts \in [1 .. n -> Elements]
  BY DEF Lists
<1>2. n \in Nat /\ n <= MaxParts
  BY <1>1, BoundsAssumption
<1> QED
  BY <1>1, <1>2, FunctionIsSequence

LEMMA InitFits == Init => FitInv
<1> SUFFICES ASSUME Init PROVE FitInv
  OBVIOUS
<1>1. /\ kind \in {"data", "monitor"} /\ arrived = 0 /\ outbox = <<>>
      /\ call = Idle /\ did = {}
  BY DEF Init
<1>2. call.op \notin SendCalls
  BY <1>1, IdleType DEF SendCalls
<1>3. Completed = {} /\ AtBoundary
  BY <1>1 DEF Completed, AtBoundary
<1>4. Cardinality(Completed) = 0
  BY <1>3, FS_EmptySet
<1> QED
  BY <1>1, <1>2, <1>3, <1>4, BoundsAssumption DEF FitInv

LEMMA SendFits ==
    ASSUME IInv, FitInv,
           \/ \E more \in BOOLEAN : SendOne(more)
           \/ \E op \in SendCalls, parts \in Lists(Elements), last \in BOOLEAN :
                 SendList(op, parts, last)
           \/ SendPart
           \/ \E cause \in {"badElement", "noMemory"} : SendStops(cause)
           \/ SendFails
    PROVE  FitInv'
<1> USE DEF incoming, outgoing
<1>1. did \subseteq Oddities /\ (call.op \in SendCalls => Len(call.parts) <= MaxParts)
  BY DEF FitInv
<1>2. Idle.op \notin SendCalls
  BY IdleType DEF SendCalls
<1>3. ASSUME NEW more \in BOOLEAN, SendOne(more)
      PROVE  FitInv'
  <2>1. UNCHANGED <<kind, arrived, call, did>> /\ Put(~meant, more)
    BY <1>3 DEF SendOne
  <2>2. /\ Cardinality(Completed)' <= Hwm
        /\ ~AtBoundary' => Cardinality(Completed)' < Hwm
    BY <2>1, PutFits
  <2> QED
    BY <2>1, <2>2 DEF FitInv
<1>4. ASSUME NEW op \in SendCalls, NEW parts \in Lists(Elements),
             NEW last \in BOOLEAN, SendList(op, parts, last)
      PROVE  FitInv'
  <2>1. UNCHANGED <<kind, arrived, outbox>> /\ did' \subseteq did \cup {"nothing"}
    BY <1>4 DEF SendList
  <2>2. call' = call \/ call' = Call(op, parts, last)
    BY <1>4 DEF SendList
  <2>3. call'.op \in SendCalls => Len(call'.parts) <= MaxParts
    BY <1>1, <2>2, ListsAreShort DEF Call
  <2>4. did' \subseteq Oddities
    BY <1>1, <2>1 DEF Oddities
  <2> QED
    BY <2>1, <2>3, <2>4, FitFrame
<1>5. ASSUME SendPart
      PROVE  FitInv'
  <2>1. UNCHANGED <<kind, arrived, did>> /\ call.op \in SendCalls
    BY <1>5 DEF SendPart
  <2>2. PICK first \in BOOLEAN, more \in BOOLEAN : Put(first, more)
    BY <1>5 DEF SendPart, IInv, Types, Calls
  <2>3. /\ Cardinality(Completed)' <= Hwm
        /\ ~AtBoundary' => Cardinality(Completed)' < Hwm
    BY <2>2, PutFits
  <2>4. call'.op \in SendCalls => Len(call'.parts) <= MaxParts
    <3>1. call' = IF Len(call.parts) = 1 THEN Idle
                  ELSE [call EXCEPT !.parts = Tail(@), !.begun = TRUE]
      BY <1>5 DEF SendPart
    <3>2. CASE Len(call.parts) = 1
      BY <1>2, <3>1, <3>2
    <3>3. CASE Len(call.parts) # 1
      <4>1. call'.parts = Tail(call.parts)
        BY <3>1, <3>3 DEF IInv, Types, Calls
      <4>2. call.parts \in Seq(Elements) /\ call.parts # <<>>
        BY <2>1 DEF IInv, Types, Calls, SendInv
      <4>3. Len(Tail(call.parts)) = Len(call.parts) - 1 /\ Len(call.parts) \in Nat
        BY <4>2, HeadTailProperties, LenProperties
      <4>4. Len(call.parts) <= MaxParts /\ MaxParts \in Nat
        BY <1>1, <2>1, BoundsAssumption
      <4> QED
        BY <4>1, <4>3, <4>4
    <3> QED
      BY <3>2, <3>3
  <2> QED
    BY <1>1, <2>1, <2>3, <2>4 DEF FitInv
<1>6. ASSUME \/ \E cause \in {"badElement", "noMemory"} : SendStops(cause)
             \/ SendFails
      PROVE  FitInv'
  <2>1. /\ UNCHANGED <<kind, arrived, outbox>> /\ call' = Idle
        /\ did' \subseteq did \cup {"badElement", "noMemory"}
    BY <1>6 DEF SendStops, SendFails
  <2>2. did' \subseteq Oddities
    BY <1>1, <2>1 DEF Oddities
  <2> QED
    BY <1>2, <2>1, <2>2, FitFrame
<1> QED
  BY <1>3, <1>4, <1>5, <1>6

LEMMA RecvFits ==
    ASSUME IInv, FitInv,
           \/ RecvOne /\ did' \subseteq did \cup {"msg_recv"}
           \/ RecvLen \/ RecvLenMore
           \/ \E op \in {"recv_all", "recvx", "recv_event"} : RecvList(op)
           \/ RecvPart \/ RecvEventPart \/ RecvFails
    PROVE  FitInv'
<1>1. did \subseteq Oddities /\ (call.op \in SendCalls => Len(call.parts) <= MaxParts)
  BY DEF FitInv
<1>2. Idle.op \notin SendCalls /\ call \in Calls
  BY IdleType DEF SendCalls, IInv, Types
<1>3. UNCHANGED <<kind, arrived, outbox>>
  BY DEF RecvOne, RecvLen, RecvLenMore, RecvList, RecvPart, RecvEventPart,
     RecvFails, Take, incoming, outgoing
<1>4. did' \subseteq did \cup {"msg_recv", "middle"}
  BY DEF RecvLen, RecvLenMore, RecvList, RecvPart, RecvEventPart, RecvFails
<1>5. did' \subseteq Oddities
  BY <1>1, <1>4 DEF Oddities
<1>6. call'.op \in SendCalls => Len(call'.parts) <= MaxParts
  <2>1. CASE RecvOne
    <3>1. call' = call
      BY <2>1 DEF RecvOne
    <3> QED
      BY <1>1, <3>1
  <2>2. CASE RecvLen \/ \E op \in {"recv_all", "recvx", "recv_event"} : RecvList(op)
    BY <2>2 DEF RecvLen, RecvList, Call, SendCalls
  <2>3. CASE RecvLenMore \/ RecvFails
    BY <1>2, <2>3 DEF RecvLenMore, RecvFails
  <2>4. CASE RecvPart \/ RecvEventPart
    <3>1. /\ call.op \in RecvCalls
          /\ \/ call' = Idle
             \/ \E got : call' = [call EXCEPT !.got = got]
      BY <2>4 DEF RecvPart, RecvEventPart, RecvCalls
    <3> QED
      BY <1>2, <3>1 DEF Calls, SendCalls, RecvCalls
  <2> QED
    BY <2>1, <2>2, <2>3, <2>4
<1> QED
  BY <1>3, <1>5, <1>6, FitFrame

LEMMA OthersFit ==
    ASSUME IInv, FitInv,
           Arrive \/ PeerReads \/ ContextShutsDown \/ UNCHANGED vars
    PROVE  FitInv'
<1>1. CASE Arrive
  <2>1. PICK n \in 1 .. MaxParts :
          arrived + n <= MaxIn /\ arrived' = arrived + n
    BY <1>1 DEF Arrive
  <2>2. UNCHANGED <<kind, outbox, call, did>>
    BY <1>1 DEF Arrive, outgoing
  <2>3. arrived' \in 0 .. MaxIn
    <3>1. \A m \in 0 .. MaxIn : m + n <= MaxIn => m + n \in 0 .. MaxIn
      BY BoundsAssumption
    <3> QED
      BY <2>1, <3>1 DEF FitInv
  <2> QED
    BY <2>2, <2>3 DEF FitInv, Completed, AtBoundary
<1>2. CASE PeerReads
  BY <1>2, PeerReadsFits
<1>3. CASE ContextShutsDown \/ UNCHANGED vars
  <2>1. UNCHANGED <<kind, arrived, outbox, call, did>>
    BY <1>3 DEF ContextShutsDown, vars, incoming, outgoing
  <2> QED
    BY <2>1, FitFrame DEF FitInv
<1> QED
  BY <1>1, <1>2, <1>3

LEMMA NextFits == IInv /\ FitInv /\ [Next]_vars => FitInv'
<1> SUFFICES ASSUME IInv, FitInv, [Next]_vars PROVE FitInv'
  OBVIOUS
<1>1. ASSUME NEW more \in BOOLEAN, Send(more) \/ SendMsg(more) \/ MsgSend(more)
      PROVE  FitInv'
  BY <1>1, SendFits DEF Send, SendMsg, MsgSend
<1>2. CASE SendMore
  BY <1>2, SendFits DEF SendMore, Send
<1>3. ASSUME NEW parts \in Lists(Elements), Sendv(parts) \/ SendvMore(parts)
      PROVE  FitInv'
  BY <1>3, SendFits DEF Sendv, SendvMore, SendvImpl
<1>4. ASSUME NEW parts \in Lists(Elements),
             \/ Sendx(parts) \/ SendxMore(parts)
             \/ \E last \in BOOLEAN : SendAll(parts, last)
      PROVE  FitInv'
  <2>1. \E op \in SendCalls, last \in BOOLEAN : SendList(op, parts, last)
    BY <1>4 DEF Sendx, SendxMore, SendxImpl, SendAll, SendCalls
  <2> QED
    BY <2>1, SendFits
<1>5. CASE SendPart \/ SendFails
  BY <1>5, SendFits
<1>6. CASE SendStops("noMemory") \/ SendStops("badElement")
  BY <1>6, SendFits
<1>7. CASE Recv \/ RecvMsg \/ RecvNewMsg \/ MsgRecv
  <2>1. RecvOne /\ did' \subseteq did \cup {"msg_recv"}
    BY <1>7 DEF Recv, RecvMsg, RecvNewMsg, MsgRecv
  <2> QED
    BY <2>1, RecvFits
<1>8. CASE RecvLen \/ RecvLenMore \/ RecvPart \/ RecvEventPart \/ RecvFails
  BY <1>8, RecvFits
<1>9. CASE RecvAll \/ Recvx \/ RecvEvent
  BY <1>9, RecvFits DEF RecvAll, Recvx, RecvEvent
<1>10. CASE Arrive \/ PeerReads \/ ContextShutsDown \/ UNCHANGED vars
  BY <1>10, OthersFit
<1> QED
  BY <1>1, <1>2, <1>3, <1>4, <1>5, <1>6, <1>7, <1>8, <1>9, <1>10
     DEF Next, CallStep

LEMMA FitInductive == Spec => []FitInv
<1>1. Spec => [](IInv /\ HeldInv)
  BY HeldInductive
<1> QED
  BY InitFits, NextFits, Inductive, PTL DEF Spec

(* The types.  The parts received carry the numbers of parts that arrived, *)
(* and the high water mark is kept although it holds up only the first     *)
(* part of a message: never more than Hwm whole messages are in flight,    *)
(* and what a method of several parts has still to send is never empty     *)
(* (the loops of zsocket.c:335-415).                                       *)
THEOREM TypesAreRight == Spec => []TypeOK
<1>1. IInv /\ HeldInv /\ FitInv => TypeOK
  <2> SUFFICES ASSUME IInv, HeldInv, FitInv PROVE TypeOK
    OBVIOUS
  <2>1. PICK g \in Seq(Nat), k \in Seq(Nat), q \in Seq(Nat), n \in Nat :
          g = given /\ k = call.got /\ q = Ids(inbox) /\ n = arrived
    BY IdsAre DEF HeldInv, IInv, Types, Calls
  <2> DEFINE w == (g \o k) \o q
  <2>2. /\ w \in Seq(Nat) /\ Len(w) = Len(g) + Len(k) + Len(q)
        /\ \A i \in 1 .. Len(g) : w[i] = g[i]
        /\ \A i \in 1 .. Len(q) : w[(Len(g) + Len(k)) + i] = q[i]
    BY ThreeAsOne
  <2>3. /\ Len(g) \in Nat /\ Len(k) \in Nat /\ Len(q) \in Nat
        /\ DOMAIN g = 1 .. Len(g)
    BY LenProperties
  <2>4. InOrder(w, n, dropped)
    BY <2>1 DEF HeldInv
  <2> HIDE DEF w
  <2>5. \A i \in 1 .. Len(w) : w[i] \in 0 .. n
    BY <2>4 DEF InOrder
  <2>6. \A i \in 1 .. Len(g) : g[i] \in 0 .. n
    <3> SUFFICES ASSUME NEW i \in 1 .. Len(g) PROVE g[i] \in 0 .. n
      OBVIOUS
    <3>1. i \in 1 .. Len(w)
      BY <2>2, <2>3
    <3> QED
      BY <2>2, <2>5, <3>1
  <2>7. \A i \in 1 .. Len(q) : q[i] \in 0 .. n
    <3> SUFFICES ASSUME NEW i \in 1 .. Len(q) PROVE q[i] \in 0 .. n
      OBVIOUS
    <3>1. (Len(g) + Len(k)) + i \in 1 .. Len(w)
      BY <2>2, <2>3
    <3> QED
      BY <2>2, <2>5, <3>1
  <2>8. \A i \in DOMAIN inbox : inbox[i] \in [id : 1 .. arrived, more : BOOLEAN]
    <3>1. PICK box \in Seq(Part) : box = inbox
      BY DEF IInv, Types
    <3>2. DOMAIN box = 1 .. Len(box) /\ \A i \in 1 .. Len(box) : box[i] \in Part
      BY LenProperties
    <3>3. Len(q) = Len(box) /\ \A i \in 1 .. Len(box) : q[i] = box[i].id
      BY <2>1, <3>1, IdsAre
    <3>4. \A i \in 1 .. Len(box) : box[i] \in [id : 1 .. n, more : BOOLEAN]
      <4> SUFFICES ASSUME NEW i \in 1 .. Len(box)
                   PROVE  box[i] \in [id : 1 .. n, more : BOOLEAN]
        OBVIOUS
      <4>1. box[i] \in Part /\ q[i] = box[i].id
        BY <3>2, <3>3
      <4>2. q[i] \in 0 .. n
        BY <2>7, <3>3
      <4>3. box[i].id \in 1 .. n
        BY <4>1, <4>2 DEF Part, SocketObject
      <4> QED
        BY <4>1, <4>3 DEF Part
    <3> QED
      BY <2>1, <3>1, <3>2, <3>4
  <2>9. \A i \in DOMAIN given : given[i] \in {SocketObject} \cup 1 .. arrived
    BY <2>1, <2>3, <2>6 DEF SocketObject
  <2>10. \A i \in DOMAIN outbox : outbox[i] \in [first : BOOLEAN, more : BOOLEAN]
    <3>1. PICK out \in Seq(SentPart) : out = outbox
      BY DEF IInv, Types
    <3>2. DOMAIN out = 1 .. Len(out) /\ \A i \in 1 .. Len(out) : out[i] \in SentPart
      BY LenProperties
    <3> QED
      BY <3>1, <3>2 DEF SentPart
  <2>11. call.op \in SendCalls => call.parts \in Lists(Elements) \ {<<>>}
    <3> SUFFICES ASSUME call.op \in SendCalls
                 PROVE  call.parts \in Lists(Elements) \ {<<>>}
      OBVIOUS
    <3>1. PICK parts \in Seq(Elements) : parts = call.parts
      BY DEF IInv, Types, Calls
    <3>2. parts # <<>> /\ Len(parts) <= MaxParts
      BY <3>1 DEF IInv, SendInv, FitInv
    <3>3. Len(parts) \in 0 .. MaxParts /\ parts \in [1 .. Len(parts) -> Elements]
      BY <3>2, LenProperties, BoundsAssumption
    <3> QED
      BY <3>1, <3>2, <3>3 DEF Lists
  <2>12. call.op \in {"none"} \cup SendCalls \cup RecvCalls
    BY DEF IInv, Types, Calls
  <2>13. /\ reading \in BOOLEAN /\ flag \in BOOLEAN /\ told \in BOOLEAN
         /\ meant \in BOOLEAN /\ term \in BOOLEAN /\ aborted \in BOOLEAN
    BY DEF IInv, Types
  <2>14. {reading, flag, told} \subseteq BOOLEAN
    BY <2>13
  <2>15. /\ kind \in {"data", "monitor"} /\ arrived \in 0 .. MaxIn
         /\ did \subseteq Oddities /\ Cardinality(Completed) <= Hwm
    BY DEF FitInv
  <2> QED
    BY <2>8, <2>9, <2>10, <2>11, <2>12, <2>13, <2>14, <2>15 DEF TypeOK
<1> QED
  BY <1>1, HeldInductive, FitInductive, PTL
-----------------------------------------------------------------------------
(* A call that has begun waits for nobody.                                 *)

Begun == (call.begun \/ call.got # <<>>) /\ ~aborted

(* A disjunct of CallStep has its guard.                                   *)
CallCanStep ==
    \/ /\ call.op \in SendCalls
       /\ term \/ Head(call.parts) = "other" \/ HasRoom
    \/ call.op = "recv_len"
    \/ call.op \in RecvCalls /\ (term \/ inbox # <<>>)

BegunCanStep == Begun => CallCanStep

(* The wire is in the middle of the message that is sent, and the inbox of *)
(* the one that is received.                                               *)
GoInv ==
    /\ call.begun => call.op \in SendCalls /\ ~AtBoundary
    /\ call.got # <<>> /\ ~aborted =>
          call.op = "recv_len" \/ (Collects /\ reading)

LEMMA FreshGoes ==
    ASSUME ~call'.begun, call'.got = <<>>
    PROVE  GoInv'
BY DEF GoInv

LEMMA IdleGoes ==
    ASSUME call' = Idle
    PROVE  GoInv'
BY IdleType, FreshGoes

LEMMA BusyIsNotIdle == Begun => ~CanCall
BY IdleType DEF Begun, CanCall

(* Calls that begin, and the methods of one part.                          *)
LEMMA NewCallGoes ==
    ASSUME \/ \E more \in BOOLEAN : SendOne(more)
           \/ \E op \in SendCalls, parts \in Lists(Elements), last \in BOOLEAN :
                 SendList(op, parts, last)
           \/ RecvOne
           \/ \E op \in {"recv_all", "recvx", "recv_event"} : RecvList(op)
    PROVE  GoInv' /\ CanCall
<1>1. CanCall
  BY DEF SendOne, SendList, RecvOne, RecvList
<1>2. \/ call' = Idle
      \/ \E op, parts, last : call' = Call(op, parts, last)
  BY <1>1 DEF CanCall, SendOne, SendList, RecvOne, RecvList
<1>3. ~call'.begun /\ call'.got = <<>>
  BY <1>2, IdleType DEF Call
<1> QED
  BY <1>1, <1>3, FreshGoes

LEMMA SendPartGoes ==
    ASSUME IInv, HeldInv, SendPart
    PROVE  /\ GoInv'
           /\ \/ call' = Idle
              \/ /\ call'.begun /\ ~aborted' /\ call'.op \in SendCalls
                 /\ Len(call'.parts) < Len(call.parts)
<1>1. /\ call.op \in SendCalls /\ ~aborted /\ aborted' = aborted
      /\ Put(~meant /\ ~call.begun, IF Len(call.parts) = 1 THEN call.last ELSE TRUE)
      /\ call' = IF Len(call.parts) = 1 THEN Idle
                 ELSE [call EXCEPT !.parts = Tail(@), !.begun = TRUE]
  BY DEF SendPart, CanWork
<1>2. CASE Len(call.parts) = 1
  BY <1>1, <1>2, IdleGoes
<1>3. CASE Len(call.parts) # 1
  <2>1. /\ call'.op = call.op /\ call'.begun /\ call'.got = call.got
        /\ call'.parts = Tail(call.parts)
    BY <1>1, <1>3 DEF IInv, Types, Calls
  <2>2. outbox' = Append(outbox, [first |-> ~meant /\ ~call.begun, more |-> TRUE])
    BY <1>1, <1>3 DEF Put
  <2>3. outbox' # <<>> /\ outbox'[Len(outbox')].more
    <3> DEFINE part == [first |-> ~meant /\ ~call.begun, more |-> TRUE]
    <3>1. PICK out \in Seq(SentPart), p \in SentPart :
             out = outbox /\ p.more /\ outbox' = Append(out, p)
      <4>1. outbox \in Seq(SentPart) /\ part \in SentPart /\ part.more
        BY DEF IInv, Types, SentPart
      <4> QED
        BY <2>2, <4>1
    <3>2. /\ Append(out, p) # <<>>
          /\ Append(out, p)[Len(Append(out, p))] = p
      BY AppendProperties
    <3> QED
      BY <3>1, <3>2
  <2>4. ~AtBoundary'
    BY <2>3 DEF AtBoundary
  <2>5. call'.got = <<>>
    BY <1>1, <2>1, SendersHoldNothing
  <2>6. GoInv'
    BY <1>1, <2>1, <2>4, <2>5 DEF GoInv
  <2>7. Len(Tail(call.parts)) < Len(call.parts)
    <3>1. call.parts \in Seq(Elements) /\ call.parts # <<>>
      BY <1>1 DEF IInv, Types, Calls, SendInv
    <3>2. /\ Len(Tail(call.parts)) = Len(call.parts) - 1
          /\ Len(call.parts) \in Nat
      BY <3>1, HeadTailProperties, LenProperties
    <3> QED
      BY <3>2
  <2> QED
    BY <1>1, <2>1, <2>6, <2>7
<1> QED
  BY <1>2, <1>3

(* A call that receives has the next part in the inbox if the last one     *)
(* promised it; an event ends with its second part.                        *)
LEMMA RecvPartGoes ==
    ASSUME IInv, GoInv, RecvPart
    PROVE  /\ GoInv'
           /\ \/ call' = Idle
              \/ /\ Head(inbox).more /\ ~aborted' /\ inbox' = Tail(inbox)
                 /\ call'.got # <<>> /\ call'.op = call.op
<1>1. /\ call.op \in {"recv_all", "recvx"} /\ Take
      /\ ~aborted /\ aborted' = aborted
  BY DEF RecvPart, CanWork
<1>2. /\ reading' = Head(inbox).more /\ inbox' = Tail(inbox)
      /\ Head(inbox).id \in Nat
  BY <1>1, TakeKeeps DEF RecvPart, Take
<1>3. CASE ~Head(inbox).more
  BY <1>3, IdleGoes DEF RecvPart
<1>4. CASE Head(inbox).more
  <2>1. /\ call.got \in Seq(Nat)
        /\ call' = [call EXCEPT !.got = Append(call.got, Head(inbox).id)]
    BY <1>4 DEF RecvPart, IInv, Types, Calls
  <2>2. Append(call.got, Head(inbox).id) # <<>>
    BY <1>2, <2>1, AppendProperties, SMTT(30)
  <2>3. /\ call'.op = call.op /\ call'.begun = call.begun
        /\ call'.got = Append(call.got, Head(inbox).id)
    BY <2>1 DEF IInv, Types, Calls
  <2>4. ~call'.begun
    BY <1>1, <2>3 DEF GoInv, SendCalls
  <2>5. Collects'
    BY <1>1, <2>3 DEF Collects
  <2>6. GoInv'
    BY <1>2, <1>4, <2>4, <2>5 DEF GoInv
  <2> QED
    BY <1>1, <1>2, <1>4, <2>2, <2>3, <2>6
<1> QED
  BY <1>3, <1>4

LEMMA RecvEventPartGoes ==
    ASSUME IInv, GoInv, RecvEventPart
    PROVE  GoInv' /\ (call.got # <<>> => call' = Idle)
<1>1. /\ call.op = "recv_event" /\ Take /\ ~aborted
      /\ aborted' = (Head(inbox).more # (Len(Append(call.got, Head(inbox).id)) = 1))
  BY DEF RecvEventPart, CanWork
<1>2. reading' = Head(inbox).more /\ Head(inbox).id \in Nat
  BY <1>1, TakeKeeps DEF RecvEventPart
<1>3. PICK g \in Seq(Nat), h \in Nat : g = call.got /\ h = Head(inbox).id
  BY <1>2 DEF IInv, Types, Calls
<1>4. Len(Append(g, h)) = 1 <=> g = <<>>
  <2>1. Len(Append(g, h)) = Len(g) + 1 /\ Len(g) \in Nat
    BY AppendProperties, LenProperties
  <2>2. Len(g) = 0 <=> g = <<>>
    BY EmptySeq
  <2> QED
    BY <2>1, <2>2
<1>5. CASE call.got # <<>>
  <2>1. call' = Idle
    BY <1>3, <1>4, <1>5 DEF RecvEventPart
  <2> QED
    BY <2>1, IdleGoes
<1>6. CASE call.got = <<>>
  <2>1. call' = [call EXCEPT !.got = Append(call.got, Head(inbox).id)]
    BY <1>3, <1>4, <1>6 DEF RecvEventPart
  <2>2. call'.op = call.op /\ call'.begun = call.begun
    BY <2>1 DEF IInv, Types, Calls
  <2>3. ~call'.begun /\ Collects'
    BY <1>1, <2>2 DEF GoInv, SendCalls, Collects
  <2>4. ~aborted' => reading'
    BY <1>1, <1>2, <1>3, <1>4, <1>6
  <2> QED
    BY <1>6, <2>3, <2>4 DEF GoInv
<1> QED
  BY <1>5, <1>6

LEMMA InitGoes == Init => GoInv
BY IdleType DEF Init, GoInv

LEMMA NextGoes == IInv /\ HeldInv /\ GoInv /\ [Next]_vars => GoInv'
<1> SUFFICES ASSUME IInv, HeldInv, GoInv, [Next]_vars PROVE GoInv'
  OBVIOUS
<1>1. ASSUME NEW more \in BOOLEAN, Send(more) \/ SendMsg(more) \/ MsgSend(more)
      PROVE  GoInv'
  BY <1>1, NewCallGoes DEF Send, SendMsg, MsgSend
<1>2. CASE SendMore
  BY <1>2, NewCallGoes DEF SendMore, Send
<1>3. ASSUME NEW parts \in Lists(Elements), Sendv(parts) \/ SendvMore(parts)
      PROVE  GoInv'
  BY <1>3, NewCallGoes DEF Sendv, SendvMore, SendvImpl
<1>4. ASSUME NEW parts \in Lists(Elements),
             \/ Sendx(parts) \/ SendxMore(parts)
             \/ \E last \in BOOLEAN : SendAll(parts, last)
      PROVE  GoInv'
  <2>1. \E op \in SendCalls, last \in BOOLEAN : SendList(op, parts, last)
    BY <1>4 DEF Sendx, SendxMore, SendxImpl, SendAll, SendCalls
  <2> QED
    BY <2>1, NewCallGoes
<1>5. CASE SendPart
  BY <1>5, SendPartGoes
<1>6. CASE \/ SendStops("noMemory") \/ SendStops("badElement") \/ SendFails
           \/ RecvLenMore \/ RecvFails
  BY <1>6, IdleGoes DEF SendStops, SendFails, RecvLenMore, RecvFails
<1>7. CASE Recv \/ RecvMsg \/ RecvNewMsg \/ MsgRecv
  BY <1>7, NewCallGoes DEF Recv, RecvMsg, RecvNewMsg, MsgRecv
<1>8. CASE RecvLen
  BY <1>8 DEF RecvLen, Call, GoInv
<1>9. CASE RecvAll \/ Recvx \/ RecvEvent
  BY <1>9, NewCallGoes DEF RecvAll, Recvx, RecvEvent
<1>10. CASE RecvPart \/ RecvEventPart
  BY <1>10, RecvPartGoes, RecvEventPartGoes
<1>11. CASE PeerReads
  <2>1. UNCHANGED <<reading, call, aborted>>
    BY <1>11 DEF PeerReads, incoming
  <2>2. AtBoundary' <=> AtBoundary
    BY <1>11, PeerReadsRest
  <2> QED
    BY <2>1, <2>2 DEF GoInv, Collects
<1>12. CASE Arrive \/ ContextShutsDown \/ UNCHANGED vars
  <2>1. UNCHANGED <<reading, outbox, call, aborted>>
    BY <1>12 DEF Arrive, ContextShutsDown, vars, incoming, outgoing
  <2> QED
    BY <2>1 DEF GoInv, Collects, AtBoundary
<1> QED
  BY <1>1, <1>2, <1>3, <1>4, <1>5, <1>6, <1>7, <1>8, <1>9, <1>10, <1>11,
     <1>12 DEF Next, CallStep

LEMMA GoInductive == Spec => [](IInv /\ HeldInv /\ GoInv)
<1>1. Spec => [](IInv /\ HeldInv)
  BY HeldInductive
<1> QED
  BY <1>1, InitGoes, NextGoes, PTL DEF Spec

(* A method that has moved a part of a message finds the next one, or room *)
(* for it, or learns that there is none: the limit counts whole messages,  *)
(* and the library gives up messages whole.  So it is never a full pipe or *)
(* an empty one that it waits for in the middle of a message: not in the   *)
(* loops of send_all and sendx (zsocket.c:335, 361), of recv_all and recvx *)
(* (zsocket.c:442, 474), nor for the second part of an event (line 272).   *)
THEOREM BegunNeverWaits == Spec => []BegunCanStep
<1>1. IInv /\ GoInv => BegunCanStep
  <2> SUFFICES ASSUME IInv, GoInv, Begun PROVE CallCanStep
    BY DEF BegunCanStep
  <2>1. CASE call.begun
    BY <2>1 DEF GoInv, CallCanStep, HasRoom
  <2>2. CASE call.got # <<>>
    BY <2>2 DEF GoInv, Begun, IInv, RecvInv, Whole, Collects, RecvCalls,
       CallCanStep
  <2> QED
    BY <2>1, <2>2 DEF Begun
<1> QED
  BY <1>1, GoInductive, PTL

(* The first part without a successor.                                     *)
IsEnd(s, n) ==
    /\ n \in 1 .. Len(s) /\ ~s[n].more
    /\ \A m \in 1 .. n - 1 : s[m].more
EndOf(s) == CHOOSE n \in 1 .. Len(s) : IsEnd(s, n)

(* Turns of the loop that a call still needs.                              *)
MovesLeft ==
    CASE call.op \in SendCalls -> Len(call.parts)
      [] call.op = "recv_len"  -> 1
      [] OTHER                 -> EndOf(inbox)

(* Nothing makes them more, and each turn makes them fewer.                *)
CountsDown ==
    /\ MovesLeft \in Nat
    /\ \/ call' = Idle \/ aborted'
       \/ /\ Begun'
          /\ IF CallStep THEN MovesLeft' < MovesLeft
             ELSE MovesLeft' = MovesLeft

LEMMA EndIs ==
    ASSUME NEW s \in Seq(Part), NEW n, IsEnd(s, n)
    PROVE  EndOf(s) = n
<1>1. IsEnd(s, EndOf(s))
  BY DEF EndOf, IsEnd
<1>2. n \in Nat /\ EndOf(s) \in Nat /\ 1 <= n /\ 1 <= EndOf(s)
  BY <1>1, LenProperties DEF IsEnd
<1>3. ~ (n < EndOf(s))
  <2>1. n < EndOf(s) => n \in 1 .. EndOf(s) - 1
    BY <1>2
  <2> QED
    BY <1>1, <2>1 DEF IsEnd
<1>4. ~ (EndOf(s) < n)
  <2>1. EndOf(s) < n => EndOf(s) \in 1 .. n - 1
    BY <1>2
  <2> QED
    BY <1>1, <2>1 DEF IsEnd
<1> QED
  BY <1>2, <1>3, <1>4

(* A message that is whole has an end.                                     *)
LEMMA HasEnd ==
    ASSUME NEW s \in Seq(Part), s # <<>>, ~s[Len(s)].more
    PROVE  IsEnd(s, EndOf(s)) /\ EndOf(s) \in Nat
<1> DEFINE ends == {n \in Nat : n \in 1 .. Len(s) /\ ~s[n].more}
<1>1. Len(s) \in Nat \ {0}
  BY LenProperties, EmptySeq
<1>2. Len(s) \in ends
  BY <1>1
<1>3. PICK n \in ends : \A k \in ends : <<k, n>> \notin OpToRel(<, Nat)
  BY <1>2, WFMin, NatLessThanWellFounded, Zenon
<1>4. \A k \in ends : ~ (k < n)
  BY <1>3, Zenon DEF OpToRel
<1>5. n \in Nat /\ n \in 1 .. Len(s) /\ ~s[n].more
  OBVIOUS
<1>6. ASSUME NEW m \in 1 .. n - 1 PROVE s[m].more
  <2>1. m \in Nat /\ m \in 1 .. Len(s) /\ m < n
    BY <1>1, <1>5
  <2> QED
    BY <1>4, <2>1
<1>7. IsEnd(s, n)
  BY <1>5, <1>6 DEF IsEnd
<1> QED
  BY <1>5, <1>7, EndIs

LEMMA EndOfTail ==
    ASSUME NEW s \in Seq(Part), s # <<>>, ~s[Len(s)].more, Head(s).more
    PROVE  EndOf(s) \in Nat /\ EndOf(Tail(s)) = EndOf(s) - 1
<1> DEFINE n == EndOf(s)
           t == Tail(s)
<1>1. /\ n \in Nat /\ n \in 1 .. Len(s) /\ ~s[n].more
      /\ \A m \in 1 .. n - 1 : s[m].more
  BY HasEnd DEF IsEnd
<1>2. /\ t \in Seq(Part) /\ Len(t) = Len(s) - 1 /\ Len(s) \in Nat
      /\ \A i \in 1 .. Len(t) : t[i] = s[i + 1]
      /\ Head(s) = s[1]
  BY HeadTailProperties, LenProperties
<1> HIDE DEF n, t
<1>3. n # 1
  BY <1>1, <1>2
<1>4. n - 1 \in 1 .. Len(t) /\ ~t[n - 1].more
  <2>1. n - 1 \in 1 .. Len(t) /\ (n - 1) + 1 = n
    BY <1>1, <1>2, <1>3
  <2> QED
    BY <1>1, <1>2, <2>1
<1>5. ASSUME NEW m \in 1 .. (n - 1) - 1 PROVE t[m].more
  <2>1. m \in 1 .. Len(t) /\ m + 1 \in 1 .. n - 1
    BY <1>1, <1>2
  <2> QED
    BY <1>1, <1>2, <2>1
<1>6. EndOf(t) = n - 1
  BY <1>2, <1>4, <1>5, EndIs DEF IsEnd
<1> QED
  BY <1>1, <1>6 DEF n, t

LEMMA EndOfLonger ==
    ASSUME NEW s \in Seq(Part), s # <<>>, ~s[Len(s)].more, NEW t \in Seq(Part)
    PROVE  EndOf(s \o t) = EndOf(s)
<1> DEFINE n == EndOf(s)
           w == s \o t
<1>1. /\ n \in Nat /\ n \in 1 .. Len(s) /\ ~s[n].more
      /\ \A m \in 1 .. n - 1 : s[m].more
  BY HasEnd DEF IsEnd
<1>2. /\ w \in Seq(Part) /\ Len(w) = Len(s) + Len(t)
      /\ Len(s) \in Nat /\ Len(t) \in Nat
      /\ \A i \in 1 .. Len(s) + Len(t) :
            w[i] = IF i <= Len(s) THEN s[i] ELSE t[i - Len(s)]
  BY ConcatProperties, LenProperties
<1> HIDE DEF n, w
<1>3. \A i \in 1 .. n : i \in 1 .. Len(w) /\ w[i] = s[i]
  BY <1>1, <1>2
<1>4. n \in 1 .. n /\ \A m \in 1 .. n - 1 : m \in 1 .. n
  BY <1>1
<1>5. IsEnd(w, n)
  BY <1>1, <1>3, <1>4 DEF IsEnd
<1> QED
  BY <1>2, <1>5, EndIs DEF n, w

(* What was begun has something left to move, and finitely much.           *)
LEMMA MovesLeftIsNat ==
    ASSUME IInv, GoInv, Begun
    PROVE  MovesLeft \in Nat
<1>1. CASE call.op \in SendCalls
  BY <1>1, LenProperties DEF MovesLeft, IInv, Types, Calls
<1>2. CASE call.op = "recv_len"
  BY <1>2 DEF MovesLeft, SendCalls
<1>3. CASE call.op \notin SendCalls /\ call.op # "recv_len"
  <2>1. reading
    BY <1>3 DEF Begun, GoInv
  <2>2. inbox \in Seq(Part) /\ inbox # <<>> /\ ~inbox[Len(inbox)].more
    BY <2>1 DEF IInv, Types, RecvInv, Whole
  <2> QED
    BY <1>3, <2>2, HasEnd DEF MovesLeft
<1> QED
  BY <1>1, <1>2, <1>3

Shorter == Begun' /\ MovesLeft' < MovesLeft

LEMMA CallStepCountsDown ==
    ASSUME IInv, HeldInv, GoInv, Begun, CallStep
    PROVE  call' = Idle \/ aborted' \/ Shorter
<1>1. CASE SendPart
  <2>1. \/ call' = Idle
        \/ /\ call'.begun /\ ~aborted' /\ call'.op \in SendCalls
           /\ Len(call'.parts) < Len(call.parts)
    BY <1>1, SendPartGoes
  <2>2. call.op \in SendCalls
    BY <1>1 DEF SendPart
  <2>3. CASE call' # Idle
    <3>1. MovesLeft = Len(call.parts) /\ MovesLeft' = Len(call'.parts)
      BY <2>1, <2>2, <2>3 DEF MovesLeft, SendCalls
    <3>2. Begun'
      BY <2>1, <2>3, Zenon DEF Begun
    <3>3. MovesLeft' < MovesLeft
      BY <2>1, <2>3, <3>1, Zenon
    <3> QED
      BY <3>2, <3>3 DEF Shorter
  <2> QED
    BY <2>3
<1>2. CASE SendStops("badElement") \/ RecvLenMore \/ SendFails \/ RecvFails
  BY <1>2 DEF SendStops, RecvLenMore, SendFails, RecvFails
<1>3. CASE RecvPart
  <2>1. SUFFICES ASSUME call' # Idle PROVE Shorter
    OBVIOUS
  <2>2. /\ Head(inbox).more /\ ~aborted' /\ inbox' = Tail(inbox)
        /\ call'.got # <<>> /\ call'.op = call.op
    BY <1>3, <2>1, RecvPartGoes
  <2>3. call.op \in {"recv_all", "recvx"} /\ inbox # <<>>
    BY <1>3 DEF RecvPart, Take
  <2>4. MovesLeft = EndOf(inbox) /\ MovesLeft' = EndOf(inbox')
    BY <2>2, <2>3 DEF MovesLeft, SendCalls
  <2>5. inbox \in Seq(Part) /\ ~inbox[Len(inbox)].more
    BY <2>3 DEF IInv, Types, RecvInv, Whole
  <2>6. EndOf(inbox) \in Nat /\ EndOf(Tail(inbox)) = EndOf(inbox) - 1
    BY <2>2, <2>3, <2>5, EndOfTail
  <2>7. MovesLeft' < MovesLeft
    BY <2>2, <2>4, <2>6
  <2> QED
    BY <2>2, <2>7 DEF Shorter, Begun
<1>4. CASE RecvEventPart
  <2>1. call.op = "recv_event"
    BY <1>4 DEF RecvEventPart
  <2>2. call.got # <<>>
    BY <2>1 DEF Begun, GoInv, SendCalls
  <2> QED
    BY <1>4, <2>2, RecvEventPartGoes
<1> QED
  BY <1>1, <1>2, <1>3, <1>4 DEF CallStep

(* Nobody else disturbs a call in progress: what arrives comes after the   *)
(* message that it reads.                                                  *)
LEMMA OthersLeaveMoves ==
    ASSUME IInv, GoInv, Begun, Arrive \/ PeerReads \/ ContextShutsDown
    PROVE  Begun' /\ MovesLeft' = MovesLeft
<1>1. UNCHANGED <<call, aborted>>
  BY DEF Arrive, PeerReads, ContextShutsDown
<1>2. Begun'
  BY <1>1 DEF Begun
<1>3. CASE PeerReads \/ ContextShutsDown
  BY <1>1, <1>2, <1>3 DEF PeerReads, ContextShutsDown, MovesLeft, incoming
<1>4. CASE Arrive
  <2>1. CASE call.op \in SendCalls \/ call.op = "recv_len"
    BY <1>1, <1>2, <2>1 DEF MovesLeft
  <2>2. CASE call.op \notin SendCalls /\ call.op # "recv_len"
    <3>1. reading
      BY <2>2 DEF Begun, GoInv
    <3>2. inbox \in Seq(Part) /\ inbox # <<>> /\ ~inbox[Len(inbox)].more
      BY <3>1 DEF IInv, Types, RecvInv, Whole
    <3>3. PICK more \in Seq(Part) : inbox' = inbox \o more
      <4>1. PICK n \in 1 .. MaxParts : inbox' = inbox \o
              [i \in 1 .. n |-> [id |-> arrived + i, more |-> i < n]]
        BY <1>4 DEF Arrive
      <4> DEFINE parts == [i \in 1 .. n |-> [id |-> arrived + i, more |-> i < n]]
      <4>2. parts \in [1 .. n -> Part] /\ n \in Nat
        BY BoundsAssumption DEF IInv, Types, Part, SocketObject
      <4>3. parts \in Seq(Part)
        BY <4>2, FunctionIsSequence
      <4> QED
        BY <4>1, <4>3
    <3>4. EndOf(inbox') = EndOf(inbox)
      BY <3>2, <3>3, EndOfLonger
    <3> QED
      BY <1>1, <1>2, <2>2, <3>4 DEF MovesLeft
  <2> QED
    BY <2>1, <2>2
<1> QED
  BY <1>3, <1>4

(* Each turn of such a loop leaves fewer to take, and nothing that peers   *)
(* or other threads do adds one: what arrives comes after the message that *)
(* is read, what is read by a peer makes room (zsocket.c:335-505).  With   *)
(* BegunNeverWaits and the fairness of CallStep this is why BegunEnds.     *)
THEOREM BegunCountsDown == Spec => [][Begun => CountsDown]_vars
<1>1. IInv /\ HeldInv /\ GoInv /\ [Next]_vars => [Begun => CountsDown]_vars
  <2> SUFFICES ASSUME IInv, HeldInv, GoInv, Next, Begun
               PROVE  CountsDown
    OBVIOUS
  <2>1. MovesLeft \in Nat /\ ~CanCall
    BY MovesLeftIsNat, BusyIsNotIdle
  <2>2. CASE CallStep
    <3>1. call' = Idle \/ aborted' \/ Shorter
      BY <2>2, CallStepCountsDown
    <3> QED
      BY <2>1, <2>2, <3>1 DEF CountsDown, Shorter
  <2>3. CASE ~CallStep
    <3>1. \/ call' = Idle
          \/ Arrive \/ PeerReads \/ ContextShutsDown
      <4>1. /\ \A more : ~SendOne(more)
            /\ \A op, parts, last : ~SendList(op, parts, last)
            /\ ~RecvOne /\ ~RecvLen /\ \A op : ~RecvList(op)
        BY <2>1 DEF SendOne, SendList, RecvOne, RecvLen, RecvList
      <4>2. \A parts, last :
              ~ (\/ Sendx(parts) \/ SendxMore(parts) \/ Sendv(parts)
                 \/ SendvMore(parts) \/ SendAll(parts, last))
        BY <4>1 DEF Sendx, SendxMore, SendxImpl, SendAll, Sendv,
           SendvMore, SendvImpl
      <4>3. /\ \A more : ~ (Send(more) \/ SendMsg(more) \/ MsgSend(more))
            /\ ~ (\/ SendMore \/ Recv \/ RecvMsg \/ RecvNewMsg \/ MsgRecv
                  \/ RecvLen \/ RecvAll \/ Recvx \/ RecvEvent)
        BY <4>1, Zenon DEF Send, SendMsg, MsgSend, SendMore, Recv, RecvMsg,
           RecvNewMsg, MsgRecv, RecvAll, Recvx, RecvEvent
      <4>4. SendStops("noMemory") \/ SendFails \/ RecvFails => call' = Idle
        BY DEF SendStops, SendFails, RecvFails
      <4> QED
        BY <2>3, <4>2, <4>3, <4>4, Zenon DEF Next
    <3>2. CASE Arrive \/ PeerReads \/ ContextShutsDown
      <4>1. Begun' /\ MovesLeft' = MovesLeft
        BY <3>2, OthersLeaveMoves
      <4> QED
        BY <2>1, <2>3, <4>1 DEF CountsDown
    <3> QED
      BY <2>1, <3>1, <3>2 DEF CountsDown
  <2> QED
    BY <2>2, <2>3
<1> QED
  BY <1>1, GoInductive, PTL DEF Spec
==============================================================================
