------------------------------ MODULE ZContext ------------------------------
(***************************************************************************)
(* The life of contexts and sockets in one Lua state: zcontext.c, the      *)
(* closing half of zsocket.c, and the constructors of lzmq.c.              *)
(*                                                                         *)
(* Four parties hold on to these objects.  The application holds           *)
(* references and drops them.  The garbage collector finalizes what is     *)
(* unreachable, by calling close or destroy on it.  The Lua registry holds *)
(* a reference to the context of every open socket (ctx_ref), the on_close *)
(* callback of a socket, and a table with weak keys of the sockets         *)
(* destroy has to close (autoclose_ref).  And libzmq holds the native      *)
(* sockets and contexts, and does not return from zmq_ctx_term before the  *)
(* last socket of the context is closed.                                   *)
(*                                                                         *)
(* close calls the on_close callback, which is application code and may    *)
(* call any method of any object again: C functions that are waiting for a *)
(* callback are the frames of `stack'.  Errors never cross a frame, since  *)
(* callbacks and the close calls of destroy run under lua_pcall.           *)
(*                                                                         *)
(* A native object is known by the Lua object that created it.             *)
(***************************************************************************)
EXTENDS Integers, FiniteSets, Sequences

CONSTANTS Contexts,   \* zcontext objects
          Sockets,    \* zsocket objects
          NoContext,  \* a NULL zcontext pointer
          MaxDepth,   \* bound: C functions waiting for callbacks
          Uses        \* what the application does beyond the simplest use

(* "reenter": an on_close callback closes its own socket, or destroys a    *)
(*            context that is busy closing that socket or owns it          *)
(* "orphan":  the collector takes a context while the on_close callback of *)
(*            one of its sockets runs                                      *)
(* "create":  an on_close callback opens a socket in a context that is     *)
(*            being destroyed                                              *)
(* "raise":   a setter called by ctx:socket{...} raises an error           *)
(* "wrap":    zmq.init_ctx makes a second object for a native context      *)
(* "override": on_close is called again on a socket that has a callback     *)
(* "handles": zmq.init_socket and skt:reset_handle share native sockets    *)
(* "adopt":   ctx:autoclose(skt) with a socket ctx did not make            *)
AllUses == {"reenter", "orphan", "create", "raise", "wrap", "override",
            "handles", "adopt"}

ASSUME ObjectsAssumption ==
    /\ IsFiniteSet(Sockets)
    /\ Contexts \cap Sockets = {}
    /\ NoContext \notin Contexts
    /\ MaxDepth \in Nat

ASSUME UsesAssumption == Uses \subseteq AllUses

Objects == Contexts \cup Sockets

VARIABLES
    made,          \* objects created
    held,          \* objects the application has a reference to
    finalized,     \* objects whose __gc metamethod was called
    closed,        \* objects with LUAZMQ_FLAG_CLOSED
    borrowed,      \* objects with LUAZMQ_FLAG_DONT_DESTROY
    shut,          \* contexts with LUAZMQ_FLAG_CTX_SHUTDOWN
    native,        \* zcontext.ctx
    handle,        \* zsocket.skt
    ctx,           \* zsocket.ctx
    ctx_ref,       \* sockets that hold a registry reference to their context
    onclose,       \* sockets with an on_close callback
    leaked,        \* sockets with a callback reference that was overwritten
    autoclose,     \* the sockets in each context's autoclose table
    socket_count,  \* zcontext.socket_count
    running,       \* libzmq: native contexts that create sockets
    terminated,    \* libzmq: native contexts that are gone
    opened,        \* libzmq: native sockets that are open
    stack,         \* the C functions that wait for a callback
    fault          \* the assertion that failed

objects == <<made, held, finalized>>
flags == <<borrowed, shut>>
pointers == <<native, handle, ctx>>
libzmq == <<running, terminated>>
closing == <<opened, socket_count, closed, fault>>
callbacks == <<onclose, leaked>>
vars == <<objects, flags, pointers, libzmq, closing, ctx_ref, callbacks,
          autoclose, stack>>

-----------------------------------------------------------------------------
(* The C stack.                                                            *)

Frame == [op : {"close", "destroy", "shutdown", "term", "stop"},
          obj : Objects,
          todo : SUBSET Sockets,   \* keys lua_next has still to visit
          shared : BOOLEAN]        \* the table visited is still autoclose_ref

NewFrame(op, obj, todo) ==
    [op |-> op, obj |-> obj, todo |-> todo, shared |-> TRUE]

Top == stack[Len(stack)]
Pop == SubSeq(stack, 1, Len(stack) - 1)
SetTop(frame) == [stack EXCEPT ![Len(stack)] = frame]
TopIs(op) == stack # << >> /\ Top.op = op /\ fault = "none"

InCallback == TopIs("close")
AppCode == fault = "none" /\ (stack # << >> => InCallback)

OnStack(obj) == \E i \in DOMAIN stack : stack[i].obj = obj
IsClosing(s) == \E i \in DOMAIN stack : stack[i].op = "close" /\ stack[i].obj = s

(* A context that waits for a callback of its own: of a socket it is       *)
(* closing, or that it lists or owns.                                      *)
Busy(c) ==
    \/ OnStack(c)
    \/ \E s \in Sockets : IsClosing(s) /\ (ctx[s] = c \/ s \in autoclose[c])

(* What keeps an object from the collector.  The autoclose table does not, *)
(* its keys are weak.                                                      *)
Reachable(obj) ==
    \/ obj \in held
    \/ OnStack(obj)
    \/ \E s \in ctx_ref : ctx[s] = obj

(* luazmq_getcontext, luazmq_getsocket                                     *)
Usable(obj) == obj \in held /\ obj \notin closed /\ obj \notin shut

-----------------------------------------------------------------------------
Init ==
    /\ made = {} /\ held = {} /\ finalized = {} /\ closed = {}
    /\ borrowed = {} /\ shut = {}
    /\ native = [c \in Contexts |-> c]
    /\ handle = [s \in Sockets |-> s]
    /\ ctx = [s \in Sockets |-> NoContext]
    /\ ctx_ref = {} /\ onclose = {} /\ leaked = {}
    /\ autoclose = [c \in Contexts |-> {}]
    /\ socket_count = [c \in Contexts |-> 0]
    /\ running = {} /\ terminated = {} /\ opened = {}
    /\ stack = << >>
    /\ fault = "none"

-----------------------------------------------------------------------------
(* Closing a socket.                                                       *)

(* luazmq_skt_destroy after before_close; the CLOSED flag comes last.      *)
EndClose_NotCounted(s) ==
    LET owned == s \notin borrowed IN
    /\ opened' = IF owned THEN opened \ {handle[s]} ELSE opened
    /\ socket_count' = IF owned THEN socket_count
                       ELSE [socket_count EXCEPT ![ctx[s]] = @ - 1]
    /\ closed' = closed \cup {s}
    /\ fault' = IF owned /\ handle[s] \notin opened THEN "zmq_close" ELSE "none"
EndClose(s) ==
    LET owned == s \notin borrowed IN
    /\ opened' = IF owned THEN opened \ {handle[s]} ELSE opened
    /\ socket_count' = IF ctx[s] = NoContext THEN socket_count
                       ELSE [socket_count EXCEPT ![ctx[s]] = @ - 1]
    /\ closed' = closed \cup {s}
    /\ fault' = IF owned /\ handle[s] \notin opened THEN "zmq_close"
                ELSE IF ctx[s] # NoContext /\ socket_count[ctx[s]] < 1
                     THEN "socket_count"
                ELSE "none"

(* luazmq_skt_destroy called with the frames of stk below it: the          *)
(* reference to the context goes first, then the callback is called.       *)
BeginClose_NotChecked(s, stk) ==
    \/ /\ s \in onclose
       /\ Len(stk) < MaxDepth
       /\ ctx_ref' = ctx_ref \ {s}
       /\ stack' = Append(stk, NewFrame("close", s, {}))
       /\ UNCHANGED closing
    \/ /\ s \notin onclose
       /\ ctx_ref' = ctx_ref \ {s}
       /\ stack' = stk
       /\ EndClose(s)
BeginClose(s, stk) ==
    \/ /\ s \in closed
       /\ stack' = stk
       /\ UNCHANGED <<closing, ctx_ref>>
    \/ /\ s \notin closed /\ s \in onclose
       /\ Len(stk) < MaxDepth
       /\ ctx_ref' = ctx_ref \ {s}
       /\ stack' = Append(stk, NewFrame("close", s, {}))
       /\ UNCHANGED closing
    \/ /\ s \notin closed /\ s \notin onclose
       /\ ctx_ref' = ctx_ref \ {s}
       /\ stack' = stk
       /\ EndClose(s)

(* skt:close()                                                             *)
Close(s) ==
    /\ AppCode
    /\ s \in held
    /\ IsClosing(s) => "reenter" \in Uses
    /\ BeginClose(s, stack)
    /\ UNCHANGED <<objects, flags, pointers, libzmq, callbacks, autoclose>>

(* The callback returns, or raises an error, which close ignores.          *)
CallbackReturns_RefKept ==
    /\ InCallback
    /\ stack' = Pop
    /\ EndClose(Top.obj)
    /\ UNCHANGED <<objects, flags, pointers, libzmq, callbacks, ctx_ref, autoclose>>
CallbackReturns ==
    /\ InCallback
    /\ stack' = Pop
    /\ onclose' = onclose \ {Top.obj}
    /\ EndClose(Top.obj)
    /\ UNCHANGED <<objects, flags, pointers, libzmq, ctx_ref, leaked, autoclose>>

-----------------------------------------------------------------------------
(* Opening.                                                                *)

(* zmq.context(...), zmq.init(n)                                           *)
NewContext(c) ==
    /\ AppCode
    /\ c \notin made
    /\ made' = made \cup {c}
    /\ held' = held \cup {c}
    /\ running' = running \cup {c}
    /\ UNCHANGED <<finalized, flags, pointers, terminated, closing, ctx_ref,
                   callbacks, autoclose, stack>>

(* zmq.context{...} with an option the setter refuses: destroyed at once.  *)
NewContextFails(c) ==
    /\ AppCode
    /\ c \notin made
    /\ made' = made \cup {c}
    /\ closed' = closed \cup {c}
    /\ terminated' = terminated \cup {c}
    /\ UNCHANGED <<held, finalized, flags, pointers, running, opened,
                   socket_count, fault, ctx_ref, callbacks, autoclose,
                   stack>>

(* zmq.init_ctx(d:lightuserdata())                                         *)
InitCtx(c, d) ==
    /\ AppCode
    /\ "wrap" \in Uses
    /\ c \notin made
    /\ Usable(d)
    /\ made' = made \cup {c}
    /\ held' = held \cup {c}
    /\ borrowed' = borrowed \cup {c}
    /\ native' = [native EXCEPT ![c] = native[d]]
    /\ UNCHANGED <<finalized, shut, handle, ctx, libzmq, closing, ctx_ref,
                   callbacks, autoclose, stack>>

(* A key stored in a table that lua_next is walking through: the walk may  *)
(* miss it, and any other key it has not visited.                          *)
Walks(frame, c) == frame.obj = c /\ frame.shared
StoreKey(s, c) ==
    /\ autoclose' = [autoclose EXCEPT ![c] = @ \cup {s}]
    /\ \E missed \in SUBSET Sockets :
          stack' = [i \in DOMAIN stack |->
                      IF Walks(stack[i], c)
                      THEN [stack[i] EXCEPT !.todo = (@ \cup {s}) \ missed]
                      ELSE stack[i]]

(* ctx:socket(...) up to zmq_socket, which creates handle s.               *)
CreateSocket_NoContext(c, s) ==
    /\ AppCode
    /\ Usable(c) /\ s \notin made
    /\ native[c] \in running
    /\ OnStack(c) => "create" \in Uses
    /\ made' = made \cup {s}
    /\ UNCHANGED ctx
CreateSocket(c, s) ==
    /\ AppCode
    /\ Usable(c) /\ s \notin made
    /\ native[c] \in running
    /\ OnStack(c) => "create" \in Uses
    /\ made' = made \cup {s}
    /\ ctx' = [ctx EXCEPT ![s] = c]

(* The socket is put in the autoclose table, and then keeps its context.   *)
NewSocket_NoRef(c, s) ==
    /\ CreateSocket(c, s)
    /\ held' = held \cup {s}
    /\ opened' = opened \cup {s}
    /\ socket_count' = [socket_count EXCEPT ![c] = @ + 1]
    /\ StoreKey(s, c)
    /\ UNCHANGED <<finalized, flags, native, handle, libzmq, callbacks, closed,
                   fault, ctx_ref>>
NewSocket_NotListed(c, s) ==
    /\ CreateSocket(c, s)
    /\ held' = held \cup {s}
    /\ opened' = opened \cup {s}
    /\ socket_count' = [socket_count EXCEPT ![c] = @ + 1]
    /\ ctx_ref' = ctx_ref \cup {s}
    /\ UNCHANGED <<finalized, flags, native, handle, libzmq, callbacks, closed,
                   fault, autoclose, stack>>
NewSocket(c, s) ==
    /\ CreateSocket(c, s)
    /\ held' = held \cup {s}
    /\ opened' = opened \cup {s}
    /\ socket_count' = [socket_count EXCEPT ![c] = @ + 1]
    /\ StoreKey(s, c)
    /\ ctx_ref' = ctx_ref \cup {s}
    /\ UNCHANGED <<finalized, flags, native, handle, libzmq, callbacks, closed,
                   fault>>

(* An option, bind, connect or autoclose fails: the socket is closed, and  *)
(* socket_count is back at what it was.                                    *)
NewSocketFails(c, s) ==
    /\ CreateSocket(c, s)
    /\ closed' = closed \cup {s}
    /\ UNCHANGED <<held, finalized, flags, native, handle, libzmq, opened,
                   socket_count, fault, ctx_ref, callbacks, autoclose,
                   stack>>

(* A setter raises an error: nobody has the socket any more.               *)
NewSocketRaises(c, s) ==
    /\ "raise" \in Uses
    /\ CreateSocket(c, s)
    /\ opened' = opened \cup {s}
    /\ socket_count' = [socket_count EXCEPT ![c] = @ + 1]
    /\ UNCHANGED <<held, finalized, flags, native, handle, libzmq, closed,
                   fault, ctx_ref, callbacks, autoclose, stack>>

(* zmq.init_socket(s:lightuserdata())                                      *)
InitSocket(s, src) ==
    /\ AppCode
    /\ "handles" \in Uses
    /\ s \notin made
    /\ Usable(src)
    /\ made' = made \cup {s}
    /\ held' = held \cup {s}
    /\ borrowed' = borrowed \cup {s}
    /\ handle' = [handle EXCEPT ![s] = handle[src]]
    /\ UNCHANGED <<finalized, shut, native, ctx, libzmq, closing, ctx_ref,
                   callbacks, autoclose, stack>>

-----------------------------------------------------------------------------
(* Methods of an open socket.                                              *)

(* skt:on_close(f): the reference to an earlier callback is lost.          *)
OnClose(s) ==
    /\ AppCode
    /\ Usable(s)
    /\ s \in onclose => "override" \in Uses
    /\ onclose' = onclose \cup {s}
    /\ leaked' = leaked \cup (onclose \cap {s})
    /\ UNCHANGED <<objects, flags, pointers, libzmq, closing, ctx_ref,
                   autoclose, stack>>

(* skt:on_close(nil)                                                       *)
OnCloseNil(s) ==
    /\ AppCode
    /\ Usable(s)
    /\ onclose' = onclose \ {s}
    /\ UNCHANGED <<objects, flags, pointers, libzmq, closing, ctx_ref, leaked,
                   autoclose, stack>>

(* skt:reset_handle(h, own, close): the flag tells who closes h.           *)
ResetHandle(s, h, own, close) ==
    /\ AppCode
    /\ "handles" \in Uses
    /\ Usable(s) /\ h \in opened
    /\ handle' = [handle EXCEPT ![s] = h]
    /\ borrowed' = IF own THEN borrowed \ {s} ELSE borrowed \cup {s}
    /\ opened' = IF close THEN opened \ {handle[s]} ELSE opened
    /\ UNCHANGED <<objects, shut, native, ctx, libzmq, closed, socket_count,
                   fault, ctx_ref, callbacks, autoclose, stack>>

-----------------------------------------------------------------------------
(* Methods of a context.                                                   *)

(* ctx:autoclose(skt)                                                      *)
Autoclose(c, s) ==
    /\ AppCode
    /\ Usable(c) /\ Usable(s)
    /\ ctx[s] # c => "adopt" \in Uses
    /\ OnStack(c) => "create" \in Uses
    /\ StoreKey(s, c)
    /\ UNCHANGED <<objects, flags, pointers, libzmq, closing, ctx_ref, callbacks>>

(* destroy and shutdown start with luazmq_ctx_close_sockets.  The bound    *)
(* leaves room for the callbacks of the walk.                              *)
BeginWalk(op, c) ==
    /\ Len(stack) + 1 < MaxDepth
    /\ stack' = Append(stack, NewFrame(op, c, autoclose[c]))

(* ctx:destroy(), ctx:term()                                               *)
Destroy_FlagFirst(c) ==
    /\ AppCode
    /\ c \in held /\ c \notin closed
    /\ Busy(c) => "reenter" \in Uses
    /\ BeginWalk("destroy", c)
    /\ closed' = closed \cup {c}
    /\ UNCHANGED <<objects, flags, pointers, libzmq, opened, socket_count,
                   fault, ctx_ref, callbacks, autoclose>>
Destroy(c) ==
    /\ AppCode
    /\ c \in held /\ c \notin closed
    /\ Busy(c) => "reenter" \in Uses
    /\ BeginWalk("destroy", c)
    /\ UNCHANGED <<objects, flags, pointers, libzmq, closing, ctx_ref,
                   callbacks, autoclose>>

(* ctx:shutdown()                                                          *)
Shutdown(c) ==
    /\ AppCode
    /\ Usable(c)
    /\ Busy(c) => "reenter" \in Uses
    /\ BeginWalk("shutdown", c)
    /\ UNCHANGED <<objects, flags, pointers, libzmq, closing, ctx_ref,
                   callbacks, autoclose>>

(* One turn of the lua_next loop.                                          *)
CloseListed ==
    /\ TopIs("destroy") \/ TopIs("shutdown")
    /\ \E s \in Top.todo :
          BeginClose(s, SetTop([Top EXCEPT !.todo = @ \ {s}]))
    /\ UNCHANGED <<objects, flags, pointers, libzmq, callbacks, autoclose>>

(* The loop is over and the table is given up, also by an outer call that  *)
(* still walks through it.                                                 *)
WalkEnds ==
    LET c == Top.obj IN
    /\ TopIs("destroy") \/ TopIs("shutdown")
    /\ Top.todo = {}
    /\ autoclose' = [autoclose EXCEPT ![c] = {}]
    /\ stack' = [i \in DOMAIN stack |->
                   IF i = Len(stack)
                   THEN [Top EXCEPT !.op = IF @ = "destroy" THEN "term" ELSE "stop"]
                   ELSE IF stack[i].obj = c THEN [stack[i] EXCEPT !.shared = FALSE]
                   ELSE stack[i]]
    /\ UNCHANGED <<objects, flags, pointers, libzmq, closing, ctx_ref, callbacks>>

SocketsOf(c) == {h \in opened : ctx[h] # NoContext /\ native[ctx[h]] = native[c]}

(* zmq_ctx_term returns when the last socket is closed, and not at all on  *)
(* a context that is gone (the pointer is dangling then).                  *)
Term ==
    LET c == Top.obj IN
    /\ TopIs("term")
    /\ IF c \in borrowed
       THEN UNCHANGED <<libzmq, fault>>
       ELSE IF native[c] \in terminated
       THEN fault' = "dangling" /\ UNCHANGED libzmq
       ELSE /\ SocketsOf(c) = {}
            /\ terminated' = terminated \cup {native[c]}
            /\ running' = running \ {native[c]}
            /\ UNCHANGED fault
    /\ closed' = closed \cup {c}
    /\ stack' = Pop
    /\ UNCHANGED <<objects, flags, pointers, opened, socket_count,
                   ctx_ref, callbacks, autoclose>>

(* A signal, while zmq_ctx_term waits for sockets or for its own thread:   *)
(* it fails with EINTR, and the context creates no more sockets.  destroy  *)
(* returns nil and can be called again.                                    *)
TermInterrupted ==
    LET c == Top.obj IN
    /\ TopIs("term")
    /\ c \notin borrowed
    /\ native[c] \notin terminated
    /\ running' = running \ {native[c]}
    /\ stack' = Pop
    /\ UNCHANGED <<objects, flags, pointers, terminated, closing, ctx_ref,
                   callbacks, autoclose>>

(* zmq_ctx_shutdown                                                        *)
Stop ==
    LET c == Top.obj IN
    /\ TopIs("stop")
    /\ IF c \in borrowed
       THEN UNCHANGED <<running, fault>>
       ELSE IF native[c] \in terminated
       THEN fault' = "dangling" /\ UNCHANGED running
       ELSE running' = running \ {native[c]} /\ UNCHANGED fault
    /\ shut' = shut \cup {c}
    /\ stack' = Pop
    /\ UNCHANGED <<objects, borrowed, pointers, terminated, opened, closed,
                   socket_count, ctx_ref, callbacks, autoclose>>

-----------------------------------------------------------------------------
(* The application drops its references, and the collector calls __gc:     *)
(* once, on what is unreachable, on sockets before the contexts they were  *)
(* created in (the reverse of the order of creation).                      *)
Drop(obj) ==
    /\ AppCode
    /\ obj \in held
    /\ held' = held \ {obj}
    /\ UNCHANGED <<made, finalized, flags, pointers, libzmq, closing, ctx_ref,
                   callbacks, autoclose, stack>>

Collectable(obj) == obj \in made \ finalized /\ ~Reachable(obj)

CollectSocket(s) ==
    /\ AppCode
    /\ Collectable(s)
    /\ finalized' = finalized \cup {s}
    /\ BeginClose(s, stack)
    /\ UNCHANGED <<made, held, flags, pointers, libzmq, callbacks, autoclose>>

CollectContext(c) ==
    /\ AppCode
    /\ Collectable(c)
    /\ \A s \in Sockets : ctx[s] = c => ~Collectable(s)
    /\ Busy(c) => "orphan" \in Uses
    /\ finalized' = finalized \cup {c}
    /\ IF c \in closed THEN UNCHANGED stack ELSE BeginWalk("destroy", c)
    /\ UNCHANGED <<made, held, flags, pointers, libzmq, closing, ctx_ref,
                   callbacks, autoclose>>

-----------------------------------------------------------------------------
Next ==
    \/ \E c \in Contexts : NewContext(c) \/ NewContextFails(c)
    \/ \E c, d \in Contexts : InitCtx(c, d)
    \/ \E c \in Contexts, s \in Sockets :
          NewSocket(c, s) \/ NewSocketFails(c, s) \/ NewSocketRaises(c, s)
    \/ \E s, src \in Sockets : InitSocket(s, src)
    \/ \E s \in Sockets : OnClose(s) \/ OnCloseNil(s)
    \/ \E s, h \in Sockets, own, close \in BOOLEAN : ResetHandle(s, h, own, close)
    \/ \E s \in Sockets : Close(s)
    \/ CallbackReturns
    \/ \E c \in Contexts, s \in Sockets : Autoclose(c, s)
    \/ \E c \in Contexts : Destroy(c) \/ Shutdown(c)
    \/ CloseListed
    \/ WalkEnds
    \/ Term
    \/ TermInterrupted
    \/ Stop
    \/ \E obj \in Objects : Drop(obj)
    \/ \E s \in Sockets : CollectSocket(s)
    \/ \E c \in Contexts : CollectContext(c)

Spec == Init /\ [][Next]_vars

(* C code runs on, and every callback returns in the end, whatever it      *)
(* calls before; the application and the collector owe nothing.            *)
Fairness ==
    /\ SF_vars(CallbackReturns)
    /\ WF_vars(CloseListed)
    /\ WF_vars(WalkEnds)
    /\ WF_vars(Term)
    /\ WF_vars(Stop)

FairSpec == Spec /\ Fairness

-----------------------------------------------------------------------------
(* Every variable has its type; a reference to a context has one to keep.  *)
ObjectsType ==
    /\ made \subseteq Objects
    /\ held \subseteq made
    /\ finalized \subseteq made
    /\ closed \subseteq made
    /\ borrowed \subseteq made
    /\ shut \subseteq Contexts

PointersType ==
    /\ native \in [Contexts -> Contexts]
    /\ handle \in [Sockets -> Sockets]
    /\ ctx \in [Sockets -> Contexts \cup {NoContext}]

RefsType ==
    /\ ctx_ref \subseteq {s \in Sockets \cap made : ctx[s] # NoContext}
    /\ onclose \subseteq Sockets \cap made
    /\ leaked \subseteq Sockets
    /\ autoclose \in [Contexts -> SUBSET (Sockets \cap made)]

LibzmqType ==
    /\ socket_count \in [Contexts -> Int]
    /\ running \subseteq Contexts
    /\ terminated \subseteq Contexts
    /\ opened \subseteq Sockets

ControlType ==
    /\ stack \in Seq(Frame)
    /\ fault \in {"none", "zmq_close", "socket_count", "dangling"}

(* close runs on a socket, destroy and shutdown run on a context.          *)
FrameFits(frame, born) ==
    /\ frame.op = "close" => frame.obj \in Sockets
    /\ frame.op # "close" => frame.obj \in Contexts
    /\ {frame.obj} \cup frame.todo \subseteq born

FramesFit == \A i \in DOMAIN stack : FrameFits(stack[i], made)

TypeOK == /\ ObjectsType /\ PointersType /\ RefsType /\ LibzmqType
          /\ ControlType /\ FramesFit

(* ctx:socket_count() is the number of sockets of the context that are not *)
(* closed, in the callbacks of nested closes and after failed opens too.   *)
OpenSocketsOf(c) == {s \in Sockets : ctx[s] = c /\ s \notin closed}

CountIsOpenSockets ==
    fault = "none" =>
        \A c \in Contexts : socket_count[c] = Cardinality(OpenSocketsOf(c))

(* The registry holds nothing for a closed socket: no context is kept from *)
(* the collector by it, whoever closed it and whatever its callback did.   *)
RefsReleased == closed \cap (ctx_ref \cup onclose \cup leaked) = {}

(* destroy never waits in zmq_ctx_term for a socket nobody will close: the *)
(* sockets it has not closed itself are gone.                              *)
TermFindsNothingOpen ==
    TopIs("term") /\ Top.obj \notin borrowed => SocketsOf(Top.obj) = {}

(* The collector leaves a context alone as long as a socket of it is open, *)
(* whoever dropped the context: ctx_ref holds it from the constructor to   *)
(* the close.  In the close itself, ctx_ref is given up before the         *)
(* callback, and the collector may come (zsocket.c:601-607).               *)
ContextOutlivesSocket ==
    \A s \in Sockets :
        ctx[s] # NoContext /\ s \notin closed /\ ~IsClosing(s)
            => ctx[s] \notin finalized

(* zmq_close, whose result is asserted (zsocket.c:640), and zmq_ctx_term   *)
(* find what they were given alive.  The exception is a call in one of     *)
(* whose callbacks its own object was closed, by the application or by the *)
(* collector, which takes a context that only this callback keeps.         *)
FailsOnlyNested ==
    [][fault' # fault => Len(stack') < Len(stack) /\ Top.obj \in closed]_vars

(* A destroy that was called returns: with the context closed, or after a  *)
(* signal, and then no socket is opened in the context any more.           *)
Destroying(c) ==
    \E i \in DOMAIN stack : stack[i].obj = c /\ stack[i].op \in {"destroy", "term"}

DestroyEnds ==
    \A c \in Contexts :
        Destroying(c) ~> \/ c \in closed
                         \/ ~Destroying(c) /\ native[c] \notin running
                         \/ fault # "none"

(* The objects live as Lifecycle says: a socket's owner is notified before *)
(* the context is gone, a context is closed after all its sockets.  What   *)
(* runs nested in a close of the same socket, a second callback too, is    *)
(* not to be seen.                                                         *)
L == INSTANCE Lifecycle WITH
        Context <- Contexts,
        Socket  <- Sockets,
        context <- [c \in Contexts |->
                      IF c \notin made THEN "unborn"
                      ELSE IF c \in closed THEN "closed" ELSE "open"],
        socket  <- [s \in Sockets |->
                      IF s \notin made THEN "unborn"
                      ELSE IF s \in closed THEN "closed"
                      ELSE IF IsClosing(s) THEN "notified" ELSE "open"],
        home    <- ctx

ImplementsLifecycle == L!Spec
=============================================================================
