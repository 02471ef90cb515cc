----------------------------- MODULE Messages -----------------------------
(***************************************************************************)
(* Message objects (zmsg.c): a zmq_msg_t that the methods resize and       *)
(* rewrite, sent to and received from a pair of connected sockets of the   *)
(* application.                                                            *)
(*                                                                         *)
(* A zmq_msg_t of at most Small bytes holds them itself.  A larger one     *)
(* holds a reference to a buffer, which zmq_msg_copy shares and            *)
(* zmq_msg_send hands on, so that a message and a part in flight, or two   *)
(* messages, can hold the same buffer: `buf' names it, and a write in      *)
(* place changes all who hold it.  Allocation does not fail here: a method *)
(* whose allocation fails returns before it has changed anything.          *)
(***************************************************************************)
EXTENDS Integers, Sequences, FiniteSets

CONSTANTS Msgs,       \* message objects
          Strings,    \* Lua strings written into messages
          Small,      \* bytes a zmq_msg_t holds itself
          MaxLen,     \* bound: bytes in a message
          Hwm,        \* messages that may be in flight
          MaxParts,   \* bound: parts of a message
          Undefined,  \* a byte nobody wrote
          NoBuffer,   \* the bytes are in the zmq_msg_t itself
          NoValue,    \* the value of a message that is not open
          Uses        \* what the application does beyond the simplest use

(* "shared":  a buffer that another message or a part holds is written     *)
(* "numbers": the array given to msg_init_data_array holds numbers         *)
(* "zero":    set_data is given position 0, which its check lets pass      *)
AllUses == {"shared", "numbers", "zero"}

ASSUME SizesAssumption ==
    /\ Small \in Nat /\ MaxLen \in Nat
    /\ Hwm \in Nat /\ MaxParts \in Nat \ {0}

(* What can be found in a message.                                         *)
Bytes == {Undefined} \cup UNION {{s[i] : i \in DOMAIN s} : s \in Strings}

ASSUME StringsAssumption ==
    \A s \in Strings : s \in Seq(Bytes) /\ Len(s) \in 1 .. MaxLen

ASSUME ObjectsAssumption ==
    /\ IsFiniteSet(Msgs)
    /\ NoBuffer \notin Int
    /\ \A n \in 0 .. MaxLen : NoValue \notin [1 .. n -> Bytes]

ASSUME UsesAssumption == Uses \subseteq AllUses

Positions == 1 .. MaxLen
Sizes == 0 .. MaxLen

VARIABLES msg,    \* the objects
          queue,  \* parts that were sent and not received
          fault   \* what made memcpy leave its buffers, or "none"

vars == <<msg, queue, fault>>

-----------------------------------------------------------------------------
(* zmq_msg_t.                                                              *)

Closed == {m \in Msgs : msg[m].state # "open"}
Open == {m \in Msgs : msg[m].state = "open"}

(* After a write outside a buffer nothing is known of the program; a       *)
(* method of a closed message raises.                                      *)
CanCreate(m) == fault = "none" /\ m \in Closed
CanCall(m) == fault = "none" /\ m \in Open

(* A name for every buffer that can be held at a time, and for the one a   *)
(* method allocates before it gives up its own.                            *)
Buffers == 1 .. Cardinality(Msgs) + Hwm * MaxParts + 1

Held == {msg[m].buf : m \in Open} \cup {queue[i].buf : i \in DOMAIN queue}

FreeBuffer == CHOOSE b \in Buffers \ Held : \A c \in Buffers \ Held : b <= c

Object(data, buf, more) ==
    [state |-> "open", data |-> data, buf |-> buf, more |-> more]

(* zmq_msg_init_size, and what is then copied into it.                     *)
Filled(data) ==
    Object(data, IF Len(data) <= Small THEN NoBuffer ELSE FreeBuffer, FALSE)

Empty == Object(<<>>, NoBuffer, FALSE)

(* There is no object, or close() was called on it.                        *)
NoObject ==
    [state |-> "closed", data |-> <<>>, buf |-> NoBuffer, more |-> FALSE]

Junk(n) == [i \in 1 .. n |-> Undefined]

(* memcpy of src to the bytes of dst that follow the first `at'.           *)
Copied(dst, at, src) ==
    [i \in 1 .. Len(dst) |->
        IF i > at /\ i <= at + Len(src) THEN src[i - at] ELSE dst[i]]

(* A memcpy of n bytes to position at of size bytes leaves the buffer.     *)
Leaves(at, n, size) == at < 0 \/ at + n > size

(* The bytes of m are written in place: all who hold its buffer see it.    *)
WriteInPlace(m, data) ==
    IF msg[m].buf = NoBuffer
    THEN /\ msg' = [msg EXCEPT ![m].data = data]
         /\ UNCHANGED queue
    ELSE /\ msg' = [n \in Msgs |->
                        IF n \in Open /\ msg[n].buf = msg[m].buf
                        THEN [msg[n] EXCEPT !.data = data] ELSE msg[n]]
         /\ queue' = [i \in DOMAIN queue |->
                        IF queue[i].buf = msg[m].buf
                        THEN [queue[i] EXCEPT !.data = data] ELSE queue[i]]

(* Somebody else holds the buffer of m.                                    *)
IsShared(m) ==
    /\ msg[m].buf # NoBuffer
    /\ \/ \E n \in Open \ {m} : msg[n].buf = msg[m].buf
       \/ \E i \in DOMAIN queue : queue[i].buf = msg[m].buf

-----------------------------------------------------------------------------
(* Constructors: zmq.msg_init and its variants.                            *)

Init ==
    /\ msg = [m \in Msgs |-> NoObject]
    /\ queue = <<>>
    /\ fault = "none"

MsgInit(m) ==
    /\ CanCreate(m)
    /\ msg' = [msg EXCEPT ![m] = Empty]
    /\ UNCHANGED <<queue, fault>>

(* The bytes are not set.                                                  *)
MsgInitSize(m, n) ==
    /\ CanCreate(m)
    /\ msg' = [msg EXCEPT ![m] = Filled(Junk(n))]
    /\ UNCHANGED <<queue, fault>>

MsgInitData(m, s) ==
    /\ CanCreate(m)
    /\ msg' = [msg EXCEPT ![m] = Filled(Copied(Junk(Len(s)), 0, s))]
    /\ UNCHANGED <<queue, fault>>

(* Two strings, one after the other, copied into size bytes.               *)
FromTwo(m, s, t, size, cause) ==
    IF size = 0
    THEN msg' = [msg EXCEPT ![m] = Empty] /\ UNCHANGED fault
    ELSE IF Leaves(0, Len(s), size) \/ Leaves(Len(s), Len(t), size)
    THEN fault' = cause /\ UNCHANGED msg
    ELSE /\ msg' = [msg EXCEPT ![m] =
                Filled(Copied(Copied(Junk(size), 0, s), Len(s), t))]
         /\ UNCHANGED fault

MsgInitDataMulti(m, s, t) ==
    /\ CanCreate(m)
    /\ Len(s) + Len(t) <= MaxLen
    /\ FromTwo(m, s, t, Len(s) + Len(t), "multi")
    /\ UNCHANGED queue

(* The size is the sum of what lua_rawlen says, which is 0 of a number;    *)
(* the bytes come from luaL_checklstring, which makes a string of it.      *)
MsgInitDataArray(m, s, t, numbers) ==
    LET rawlen(i, x) == IF i \in numbers THEN 0 ELSE Len(x)
    IN  /\ CanCreate(m)
        /\ Len(s) + Len(t) <= MaxLen
        /\ numbers # {} => "numbers" \in Uses
        /\ FromTwo(m, s, t, rawlen(1, s) + rawlen(2, t),
                   IF numbers = {} THEN "array" ELSE "numbers")
        /\ UNCHANGED queue

(* close(), by the application or by the collector.                        *)
MsgClose(m) ==
    /\ CanCall(m)
    /\ msg' = [msg EXCEPT ![m] = NoObject]
    /\ UNCHANGED <<queue, fault>>

-----------------------------------------------------------------------------
(* Methods.  dst is an open message, or the new one of the short form.     *)

MsgMove(dst, src) ==
    /\ CanCall(src) /\ dst # src
    /\ msg' = [msg EXCEPT ![dst] = msg[src], ![src] = Empty]
    /\ UNCHANGED <<queue, fault>>

MsgCopy(dst, src) ==
    /\ CanCall(src) /\ dst # src
    /\ msg' = [msg EXCEPT ![dst] = msg[src]]
    /\ UNCHANGED <<queue, fault>>

(* A message that is too short is replaced by a longer one without the     *)
(* flags of the old one; otherwise the bytes are written in place.         *)
MsgSetData_ForgetsPosition(m, pos, s) ==
    LET size == Len(msg[m].data)
    IN  /\ CanCall(m)
        /\ pos = 0 => "zero" \in Uses
        /\ pos - 1 + Len(s) <= MaxLen
        /\ IF Len(s) > size
           THEN /\ fault' = IF pos = 0 THEN "zero"
                            ELSE IF Leaves(pos - 1, Len(s), Len(s))
                            THEN "set_data" ELSE fault
                /\ msg' = [msg EXCEPT ![m] =
                       Filled(Copied(Junk(Len(s)), pos - 1, s))]
                /\ UNCHANGED queue
           ELSE /\ fault' = IF pos = 0 THEN "zero"
                            ELSE IF Leaves(pos - 1, Len(s), size)
                            THEN "set_data" ELSE fault
                /\ IsShared(m) => "shared" \in Uses
                /\ WriteInPlace(m, Copied(msg[m].data, pos - 1, s))
MsgSetData(m, pos, s) ==
    LET at == pos - 1
        old == msg[m].data
        size == IF at + Len(s) > Len(old) THEN at + Len(s) ELSE Len(old)
    IN  /\ CanCall(m)
        /\ pos = 0 => "zero" \in Uses
        /\ size <= MaxLen
        /\ IF Leaves(at, Len(s), size) \/ Leaves(0, Len(old), size)
           THEN /\ fault' = IF pos = 0 THEN "zero" ELSE "set_data"
                /\ UNCHANGED <<msg, queue>>
           ELSE /\ IF size > Len(old)
                   THEN /\ msg' = [msg EXCEPT ![m] =
                              Filled(Copied(Copied(Junk(size), 0, old), at, s))]
                        /\ UNCHANGED queue
                   ELSE /\ IsShared(m) => "shared" \in Uses
                        /\ WriteInPlace(m, Copied(old, at, s))
                /\ UNCHANGED fault

(* Another size: always a new message, without the flags of the old one.   *)
MsgSetSize_CopiesNothing(m, n) ==
    /\ CanCall(m)
    /\ n # Len(msg[m].data)
    /\ msg' = [msg EXCEPT ![m] =
                  Filled(IF n > Len(msg[m].data) THEN Junk(n)
                         ELSE SubSeq(msg[m].data, 1, n))]
    /\ UNCHANGED <<queue, fault>>
MsgSetSize(m, n) ==
    LET osize == Len(msg[m].data)
        kept == IF n > osize THEN osize ELSE n
    IN  /\ CanCall(m)
        /\ n # osize
        /\ IF Leaves(0, kept, n) \/ Leaves(0, kept, osize)
           THEN fault' = "set_size" /\ UNCHANGED msg
           ELSE /\ msg' = [msg EXCEPT ![m] =
                       Filled(Copied(Junk(n), 0, SubSeq(@.data, 1, kept)))]
                /\ UNCHANGED fault
        /\ UNCHANGED queue

-----------------------------------------------------------------------------
(* A message is sent and received.                                         *)

Completed == {i \in DOMAIN queue : ~queue[i].more}

(* Parts of a message that was not sent to its end.                        *)
Begun ==
    Len(queue) - (IF Completed = {} THEN 0
                  ELSE CHOOSE i \in Completed : \A j \in Completed : j <= i)

(* The limit counts whole messages and holds up only the first part.       *)
NoRoom == Begun = 0 /\ Cardinality(Completed) = Hwm

(* The message is left empty; the part holds its buffer.                   *)
MsgSend(m, more) ==
    /\ CanCall(m)
    /\ ~NoRoom
    /\ more => Begun + 1 < MaxParts
    /\ queue' = Append(queue, [msg[m] EXCEPT !.more = more])
    /\ msg' = [msg EXCEPT ![m] = Empty]
    /\ UNCHANGED fault

(* No room: the library has set the flag before it found out.              *)
MsgSendFails(m, more) ==
    /\ CanCall(m)
    /\ NoRoom
    /\ msg' = [msg EXCEPT ![m].more = more]
    /\ UNCHANGED <<queue, fault>>

MsgSendMore(m) == MsgSend(m, TRUE) \/ MsgSendFails(m, TRUE)

(* The parts of a message can be received when it is complete.             *)
MsgRecv(m) ==
    /\ CanCall(m)
    /\ Completed # {}
    /\ msg' = [msg EXCEPT ![m] = Head(queue)]
    /\ queue' = Tail(queue)
    /\ UNCHANGED fault

Next ==
    \/ \E m \in Msgs :
        \/ MsgInit(m) \/ MsgClose(m)
        \/ \E n \in Sizes : MsgInitSize(m, n) \/ MsgSetSize(m, n)
        \/ \E s \in Strings :
            \/ MsgInitData(m, s)
            \/ \E pos \in Positions \cup {0} : MsgSetData(m, pos, s)
        \/ \E s, t \in Strings, numbers \in SUBSET {1, 2} :
            MsgInitDataArray(m, s, t, numbers)
        \/ \E s, t \in Strings : MsgInitDataMulti(m, s, t)
        \/ MsgSend(m, FALSE) \/ MsgSendFails(m, FALSE)
        \/ MsgSendMore(m)
        \/ MsgRecv(m)
    \/ \E d, s \in Msgs : MsgMove(d, s) \/ MsgCopy(d, s)

Spec == Init /\ [][Next]_vars

-----------------------------------------------------------------------------
(* Properties.                                                             *)

(* The types, and: whatever strings, sizes and positions the methods get,  *)
(* after whatever resizing, moving and sharing, the bytes are in a buffer  *)
(* when there are too many for the zmq_msg_t, and the memcpy calls of      *)
(* zmsg.c:34-97 and 174-219 stay within their buffers, but for the two     *)
(* inputs that slip past the checks of the code: numbers in an array, and  *)
(* position 0.                                                             *)
InBounds ==
    /\ \A m \in Msgs :
        /\ msg[m].state \in {"open", "closed"} /\ msg[m].more \in BOOLEAN
        /\ Len(msg[m].data) <= MaxLen
        /\ (msg[m].buf = NoBuffer) = (Len(msg[m].data) <= Small)
    /\ Cardinality(Completed) <= Hwm /\ Begun < MaxParts
    /\ fault \in {"none", "numbers", "zero"}

(* A message object is a string of its own and what was sent arrives as it *)
(* was sent, as long as the application writes no buffer it shares: the    *)
(* reallocations and copies of the methods are not to be seen.             *)
Abstract == INSTANCE Values WITH
    Names <- Msgs,
    value <- [m \in Msgs |-> IF m \in Open THEN msg[m].data ELSE NoValue],
    queue <- [i \in DOMAIN queue |-> queue[i].data]

ImplementsValues == Abstract!Spec

(* A copy is independent of its source: a step that writes one message     *)
(* leaves the bytes of every other message as they were, but the source of *)
(* a move.  test/utest.lua:850-852 expects it of a short message.          *)
CopiesAreIndependent ==
    [][ \A m, n \in Open :
          /\ m # n /\ n \in Open'
          /\ queue' = queue
          /\ msg[m].data' # msg[m].data
          /\ msg[n].data' # msg[n].data
          => <<>> \in {msg[m].data', msg[n].data'} ]_vars
=============================================================================
