----------------------------- MODULE Multipart -----------------------------
(***************************************************************************)
(* How a socket object sends and receives (zsocket.c): messages of several *)
(* parts, each part a call of zmq_msg_send or zmq_msg_recv of its own.     *)
(*                                                                         *)
(* Between two such calls peers and other threads act: messages arrive, a  *)
(* peer reads, the context is shut down.  A method that moves several      *)
(* parts is therefore a call in progress, `call', and a step for each part.*)
(* Parts that arrive are numbered; the bytes of a part are left out.       *)
(* A call that fails at once changes nothing and is a stuttering step.     *)
(***************************************************************************)
EXTENDS Integers, Sequences, FiniteSets, Functions

CONSTANTS MaxParts,  \* bound: parts given to one call, parts of a message
          MaxIn,     \* bound: parts that arrive
          MaxOut,    \* bound: parts in flight
          Hwm        \* messages that may be in flight

ASSUME BoundsAssumption ==
    /\ MaxParts \in Nat \ {0} /\ Hwm \in Nat \ {0}
    /\ MaxIn \in Nat /\ MaxOut \in Nat

VARIABLES kind,     \* "data", or "monitor" for the socket of a monitor
          arrived,  \* how many parts have arrived
          inbox,    \* parts that were not received: [id, more]
          reading,  \* RCVMORE: the last part received has a successor
          flag,     \* LUAZMQ_FLAG_MORE of the socket object
          given,    \* what the application was handed, in order
          dropped,  \* parts of which it will never hear
          told,     \* the application was told that the message goes on
          outbox,   \* parts that were sent and not read: [first, more]
          meant,    \* the application is in the middle of a message it sends
          term,     \* the context was shut down
          call,     \* the method in progress
          aborted,  \* an assertion of the C code failed
          did       \* what went wrong, or was done against the grain

incoming == <<arrived, inbox, reading, flag, given, dropped, told>>
outgoing == <<outbox, meant>>
vars == <<kind, incoming, outgoing, term, call, aborted, did>>

(* "badElement": a method met a value that is no string, "noMemory": or    *)
(*               could not allocate a part, after it had sent some         *)
(* "nothing":    a method was told to send no parts at all                 *)
(* "middle":     recv_all, recvx or recv_event was called although the     *)
(*               application knew it was in the middle of a message        *)
(* "msg_recv":   msg:recv(skt) was called instead of skt:recv_msg(msg)     *)
Oddities == {"badElement", "noMemory", "nothing", "middle", "msg_recv"}

(* The socket object, where a method returns it among the parts.           *)
SocketObject == 0

Elements == {"string", "other"}
Lists(S) == UNION {[1 .. n -> S] : n \in 0 .. MaxParts}

SendCalls == {"send_all", "sendx"}
RecvCalls == {"recv_all", "recvx", "recv_event", "recv_len"}

(* What a call has still to send, the flag of its last part, whether it    *)
(* has sent one; or the parts it has received.                             *)
Call(op, parts, last) ==
    [op |-> op, parts |-> parts, last |-> last, begun |-> FALSE, got |-> <<>>]
Idle == Call("none", <<>>, FALSE)

(* The application is calling, and the library does not answer ETERM.      *)
CanCall == call = Idle /\ ~aborted
CanWork == ~term /\ ~aborted

Init ==
    /\ kind \in {"data", "monitor"}
    /\ arrived = 0 /\ inbox = <<>> /\ reading = FALSE
    /\ flag = FALSE
    /\ given = <<>> /\ dropped = {} /\ told = FALSE
    /\ outbox = <<>> /\ meant = FALSE
    /\ term = FALSE
    /\ call = Idle
    /\ aborted = FALSE
    /\ did = {}

-----------------------------------------------------------------------------
(* Sending.                                                                *)

Completed == {i \in DOMAIN outbox : ~outbox[i].more}
AtBoundary == outbox = <<>> \/ ~outbox[Len(outbox)].more

(* The limit counts whole messages and holds up only their first parts.    *)
HasRoom == ~AtBoundary \/ Cardinality(Completed) < Hwm

(* One zmq_msg_send; `first' is whether the application begins a message.  *)
Put(first, more) ==
    /\ HasRoom
    /\ outbox' = Append(outbox, [first |-> first, more |-> more])

Bounded(n) == Len(outbox) + n <= MaxOut

(* A method that sends one part.                                           *)
SendOne(more) ==
    /\ CanCall /\ CanWork /\ kind = "data"
    /\ Bounded(1)
    /\ Put(~meant, more)
    /\ meant' = more
    /\ UNCHANGED <<kind, incoming, term, call, aborted, did>>

Send(more) == SendOne(more)
SendMsg(more) == SendOne(more)
SendMore == Send(TRUE)
MsgSend(more) == SendOne(more)

(* All strings are checked before the one part they make is sent.          *)
SendvImpl(parts, more) ==
    /\ \A i \in DOMAIN parts : parts[i] = "string"
    /\ SendOne(more)
Sendv(parts) == SendvImpl(parts, FALSE)
SendvMore(parts) == SendvImpl(parts, TRUE)

(* A method that sends a list; an empty one is sent by doing nothing.      *)
SendList(op, parts, last) ==
    /\ CanCall /\ kind = "data"
    /\ Bounded(Len(parts))
    /\ IF parts = <<>>
       THEN /\ meant' = last
            /\ did' = IF meant # last THEN did \cup {"nothing"} ELSE did
            /\ UNCHANGED call
       ELSE /\ call' = Call(op, parts, last)
            /\ UNCHANGED <<meant, did>>
    /\ UNCHANGED <<kind, incoming, outbox, term, aborted>>

(* The only flag that send_all takes is the one for its last part.         *)
SendAll(parts, last) == SendList("send_all", parts, last)
SendxImpl(parts, last) == SendList("sendx", parts, last)
Sendx(parts) == SendxImpl(parts, FALSE)
SendxMore(parts) == SendxImpl(parts, TRUE)

(* One turn of the loops of these methods.                                 *)
SendPart_OneTurnMore ==
    /\ CanWork
    /\ call.op \in SendCalls
    /\ call.parts # <<>> /\ Head(call.parts) = "string"
    /\ LET more == IF Len(call.parts) = 1 THEN call.last ELSE TRUE
       IN  Put(~meant /\ ~call.begun, more) /\ meant' = more
    /\ call' = [call EXCEPT !.parts = Tail(@), !.begun = TRUE]
    /\ UNCHANGED <<kind, incoming, term, aborted, did>>
SendPart_FlagsOnAll ==
    /\ CanWork
    /\ call.op \in SendCalls
    /\ Head(call.parts) = "string"
    /\ Put(~meant /\ ~call.begun, call.last) /\ meant' = call.last
    /\ call' = IF Len(call.parts) = 1 THEN Idle
               ELSE [call EXCEPT !.parts = Tail(@), !.begun = TRUE]
    /\ UNCHANGED <<kind, incoming, term, aborted, did>>
SendPart ==
    /\ CanWork
    /\ call.op \in SendCalls
    /\ Head(call.parts) = "string"
    /\ LET more == IF Len(call.parts) = 1 THEN call.last ELSE TRUE
       IN  Put(~meant /\ ~call.begun, more) /\ meant' = more
    /\ call' = IF Len(call.parts) = 1 THEN Idle
               ELSE [call EXCEPT !.parts = Tail(@), !.begun = TRUE]
    /\ UNCHANGED <<kind, incoming, term, aborted, did>>

(* The turn fails.  The application takes the message for not sent.        *)
SendStops(cause) ==
    /\ call.op \in SendCalls /\ ~aborted
    /\ cause = "badElement" => Head(call.parts) = "other"
    /\ call' = Idle
    /\ IF call.begun
       THEN meant' = FALSE /\ did' = did \cup {cause}
       ELSE UNCHANGED <<meant, did>>
    /\ UNCHANGED <<kind, incoming, outbox, term, aborted>>

(* ETERM; or no room for a first part, and a timeout or a signal ends the  *)
(* wait for it.                                                            *)
SendFails ==
    /\ call.op \in SendCalls /\ ~aborted
    /\ Head(call.parts) = "string"
    /\ term \/ ~HasRoom
    /\ call' = Idle
    /\ meant' = (meant /\ ~call.begun)
    /\ UNCHANGED <<kind, incoming, outbox, term, aborted, did>>

-----------------------------------------------------------------------------
(* Receiving.                                                              *)

(* One zmq_msg_recv.                                                       *)
Take ==
    /\ inbox # <<>>
    /\ inbox' = Tail(inbox)
    /\ reading' = Head(inbox).more
    /\ UNCHANGED <<arrived, dropped>>

Hand(parts, more) == given' = given \o parts /\ told' = more
SetMore(more) == flag' = more

(* A method that receives one part.                                        *)
RecvOne ==
    /\ CanCall /\ CanWork
    /\ Take
    /\ Hand(<<Head(inbox).id>>, Head(inbox).more)
    /\ UNCHANGED <<kind, outgoing, term, call, aborted>>

Recv == RecvOne /\ SetMore(Head(inbox).more) /\ UNCHANGED did
RecvMsg_OnlySets == RecvOne /\ SetMore(flag \/ Head(inbox).more) /\ UNCHANGED did
RecvMsg == RecvOne /\ SetMore(Head(inbox).more) /\ UNCHANGED did

(* Into a message that is created for it, and closed if nothing came.      *)
RecvNewMsg == RecvMsg

(* msg:recv(skt) leaves the flag of the socket alone.                      *)
MsgRecv ==
    /\ RecvOne
    /\ did' = did \cup {"msg_recv"}
    /\ UNCHANGED flag

(* recv_len asks for RCVMORE in a call of its own.                         *)
RecvLen ==
    /\ CanCall /\ CanWork
    /\ Take
    /\ call' = [Call("recv_len", <<>>, FALSE) EXCEPT !.got = <<Head(inbox).id>>]
    /\ UNCHANGED <<kind, flag, given, told, outgoing, term, aborted, did>>

RecvLenMore ==
    /\ call.op = "recv_len" /\ CanWork
    /\ SetMore(reading)
    /\ Hand(call.got, reading)
    /\ call' = Idle
    /\ UNCHANGED <<kind, arrived, inbox, reading, dropped,
                   outgoing, term, aborted, did>>

More == flag

(* A method that receives part after part.                                 *)
RecvList(op) ==
    /\ CanCall
    /\ call' = Call(op, <<>>, FALSE)
    /\ did' = IF told THEN did \cup {"middle"} ELSE did
    /\ UNCHANGED <<kind, incoming, outgoing, term, aborted>>

RecvAll == RecvList("recv_all")
Recvx == RecvList("recvx")
RecvEvent == kind = "monitor" /\ RecvList("recv_event")

(* One turn of the loops of recv_all and recvx.                            *)
RecvPart_NoBreak ==
    /\ CanWork
    /\ call.op \in {"recv_all", "recvx"}
    /\ Take
    /\ call' = [call EXCEPT !.got = Append(@, Head(inbox).id)]
    /\ UNCHANGED <<kind, flag, given, told, outgoing, term, aborted, did>>
RecvPart_DropsLast ==
    /\ CanWork
    /\ call.op \in {"recv_all", "recvx"}
    /\ Take
    /\ IF Head(inbox).more
       THEN /\ call' = [call EXCEPT !.got = Append(@, Head(inbox).id)]
            /\ UNCHANGED <<given, told>>
       ELSE /\ Hand(call.got, FALSE)
            /\ call' = Idle
    /\ UNCHANGED <<kind, flag, outgoing, term, aborted, did>>
RecvPart ==
    /\ CanWork
    /\ call.op \in {"recv_all", "recvx"}
    /\ Take
    /\ LET got == Append(call.got, Head(inbox).id)
       IN  IF Head(inbox).more
           THEN call' = [call EXCEPT !.got = got] /\ UNCHANGED <<given, told>>
           ELSE call' = Idle /\ Hand(got, FALSE)
    /\ UNCHANGED <<kind, flag, outgoing, term, aborted, did>>

(* The two parts of an event, with the assertions on their order.          *)
RecvEventPart_BinaryOnly ==
    /\ CanWork
    /\ call.op = "recv_event"
    /\ Take
    /\ aborted' = ~Head(inbox).more
    /\ call' = Idle /\ Hand(<<Head(inbox).id>>, FALSE)
    /\ UNCHANGED <<kind, flag, outgoing, term, did>>
RecvEventPart ==
    /\ CanWork
    /\ call.op = "recv_event"
    /\ Take
    /\ LET got == Append(call.got, Head(inbox).id)
       IN  /\ aborted' = (Head(inbox).more # (Len(got) = 1))
           /\ IF Len(got) = 1
              THEN call' = [call EXCEPT !.got = got] /\ UNCHANGED <<given, told>>
              ELSE call' = Idle /\ Hand(got, FALSE)
    /\ UNCHANGED <<kind, flag, outgoing, term, did>>

(* ETERM; or nothing there, and a timeout or a signal.  What was received  *)
(* is handed over with the error by recv_all; recv_event and recv_len drop *)
(* it.  recvx rotates one value too many to the bottom of the stack: the   *)
(* last part stays behind, and the socket comes before the first.          *)
Answered ==
    CASE call.op = "recv_all" -> call.got
      [] call.op = "recvx" /\ call.got # <<>> ->
            <<SocketObject>> \o SubSeq(call.got, 1, Len(call.got) - 1)
      [] OTHER -> <<>>

RecvFails ==
    /\ call.op \in RecvCalls /\ ~aborted
    /\ term \/ (call.op # "recv_len" /\ inbox = <<>>)
    /\ call' = Idle
    /\ Hand(Answered, told /\ call.got = <<>>)
    /\ dropped' = dropped \cup (Range(call.got) \ Range(Answered))
    /\ UNCHANGED <<kind, arrived, inbox, reading, flag,
                   outgoing, term, aborted, did>>

-----------------------------------------------------------------------------
(* Peers and other threads.                                                *)

(* A whole message: an event has two parts.                                *)
Arrive ==
    /\ \E n \in 1 .. MaxParts :
        /\ kind = "monitor" => n = 2
        /\ arrived + n <= MaxIn
        /\ arrived' = arrived + n
        /\ inbox' = inbox \o
              [i \in 1 .. n |-> [id |-> arrived + i, more |-> i < n]]
    /\ UNCHANGED <<kind, reading, flag, given, dropped, told, outgoing,
                   term, call, aborted, did>>

PeerReads ==
    /\ \E i \in Completed :
        /\ \A j \in Completed : i <= j
        /\ outbox' = SubSeq(outbox, i + 1, Len(outbox))
    /\ UNCHANGED <<kind, incoming, meant, term, call, aborted, did>>

ContextShutsDown ==
    /\ ~term
    /\ term' = TRUE
    /\ UNCHANGED <<kind, incoming, outgoing, call, aborted, did>>

(* The thread runs on: what it does next for a call in progress.  A socket *)
(* need not have a timeout, and no signal need come.                       *)
CallStep ==
    \/ SendPart \/ SendStops("badElement")
    \/ RecvLenMore \/ RecvPart \/ RecvEventPart
    \/ term /\ (SendFails \/ RecvFails)

Next ==
    \/ \E more \in BOOLEAN : Send(more) \/ SendMsg(more) \/ MsgSend(more)
    \/ SendMore
    \/ \E parts \in Lists(Elements) :
        \/ Sendv(parts) \/ SendvMore(parts)
        \/ Sendx(parts) \/ SendxMore(parts)
        \/ \E last \in BOOLEAN : SendAll(parts, last)
    \/ SendStops("noMemory")
    \/ Recv \/ RecvMsg \/ RecvNewMsg \/ MsgRecv \/ RecvLen
    \/ RecvAll \/ Recvx \/ RecvEvent
    \/ CallStep \/ SendFails \/ RecvFails
    \/ Arrive \/ PeerReads \/ ContextShutsDown

Spec == Init /\ [][Next]_vars
FairSpec == Spec /\ WF_vars(CallStep)

-----------------------------------------------------------------------------
(* Properties.                                                             *)

Ids(parts) == [i \in DOMAIN parts |-> parts[i].id]

(* The types; a call that sends has something left to send.                *)
TypeOK ==
    /\ kind \in {"data", "monitor"}
    /\ arrived \in 0 .. MaxIn
    /\ \A i \in DOMAIN inbox : inbox[i] \in [id : 1 .. arrived, more : BOOLEAN]
    /\ {reading, flag, told} \subseteq BOOLEAN
    /\ \A i \in DOMAIN given : given[i] \in {SocketObject} \cup 1 .. arrived
    /\ \A i \in DOMAIN outbox : outbox[i] \in [first : BOOLEAN, more : BOOLEAN]
    /\ Cardinality(Completed) <= Hwm
    /\ meant \in BOOLEAN /\ term \in BOOLEAN /\ aborted \in BOOLEAN
    /\ did \subseteq Oddities
    /\ call.op \in {"none"} \cup SendCalls \cup RecvCalls
    /\ call.op \in SendCalls => call.parts \in Lists(Elements) \ {<<>>}

(* The messages peers see are the messages the application meant: a part   *)
(* it began a message with begins one on the wire, whatever calls failed   *)
(* before, full pipes, timeouts and a shutdown included.  Only an element  *)
(* that is no string, or an allocation that fails, in the middle of        *)
(* send_all or sendx glues the next message to the half that was sent, and *)
(* only an empty list cannot end or begin one (zsocket.c:335-415).         *)
SentAsMeant ==
    did \cap {"badElement", "noMemory", "nothing"} = {} =>
        \A i \in DOMAIN outbox :
            outbox[i].first = (i = 1 \/ ~outbox[i - 1].more)

(* What the application was handed, a call holds and is still to be        *)
(* received.                                                               *)
Held == given \o call.got \o Ids(inbox)

(* Of the parts that arrived each is handed to the application once, in    *)
(* the order of arrival, or is held by the call that collects it or waits, *)
(* also when the context is shut down between two parts of a call; missing *)
(* are only the parts that a recvx, recv_event or recv_len which failed    *)
(* had in hand and did not answer, and a socket object among the values    *)
(* (recvx) is no part (zsocket.c:142-505).                                 *)
HandsOver ==
    /\ \A i, j \in DOMAIN Held :
         i < j /\ SocketObject \notin {Held[i], Held[j]} => Held[i] < Held[j]
    /\ Range(Held) \ {SocketObject} = (1 .. arrived) \ dropped

(* A recvx that fails answers nil, the error and the "received parts of    *)
(* message" (doc/lzmq.ldoc:595), as recv_all does.  The code answers the   *)
(* socket and all parts but the last (zsocket.c:476-492).                  *)
RecvxAnswers ==
    [][call.op = "recvx" /\ RecvFails => given' = given \o call.got]_vars

(* more() says whether the message goes on, between calls of any methods   *)
(* of the socket (test/utest.lua:1178-1214 asserts it of single parts):    *)
(* recv_all, recvx and recv_event do not touch the flag, and need not, as  *)
(* long as none of them is called in the middle of a message.  Of          *)
(* msg:recv(skt), which does not touch it either, this is not true.        *)
FlagIsTrue ==
    call = Idle /\ ~term /\ did \cap {"middle", "msg_recv"} = {}
        => More = reading /\ More = told

(* The assertions of recv_event on the order of the two parts hold however *)
(* its calls end, if it is called between events (zsocket.c:269-280).      *)
AssertionsHold == aborted => "middle" \in did

(* A call that has moved one part moves the others or fails: it waits for  *)
(* neither peers nor room then, since messages arrive whole and the limit  *)
(* counts whole messages (loops of zsocket.c:335, 361, 442, 474).          *)
BegunEnds ==
    ((call.begun \/ call.got # <<>>) /\ ~aborted) ~> (call = Idle \/ aborted)
=============================================================================
