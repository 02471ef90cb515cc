--------------------------- MODULE ZContextProofs ---------------------------
(***************************************************************************)
(* Theorems about ZContext, for any sets of contexts and sockets and any   *)
(* depth of callbacks.                                                     *)
(***************************************************************************)
EXTENDS ZContext, FiniteSetTheorems, SequenceTheorems, TLAPS

(* A stack of well-formed frames.                                          *)
GoodStack(stk, born) ==
    stk \in Seq(Frame) /\ \A i \in DOMAIN stk : FrameFits(stk[i], born)

-----------------------------------------------------------------------------
(* The stack.                                                              *)

LEMMA TopFits ==
    ASSUME ControlType, FramesFit, stack # << >>
    PROVE  /\ Len(stack) \in DOMAIN stack
           /\ Top \in Frame
           /\ FrameFits(Top, made)
<1>1. Len(stack) \in 1 .. Len(stack)
  BY DEF ControlType
<1>2. QED
  BY <1>1 DEF ControlType, FramesFit, Top

LEMMA PopFits ==
    ASSUME ControlType, FramesFit, stack # << >>
    PROVE  /\ GoodStack(Pop, made)
           /\ DOMAIN Pop \subseteq DOMAIN stack
           /\ \A i \in DOMAIN Pop : Pop[i] = stack[i]
<1>1. Len(stack) \in Nat /\ Len(stack) > 0 /\ stack \in Seq(Frame)
  BY DEF ControlType
<1>2. Pop = [i \in 1 .. Len(stack) - 1 |-> stack[i]]
  BY <1>1 DEF Pop
<1>3. \A i \in 1 .. Len(stack) - 1 : stack[i] \in Frame /\ FrameFits(stack[i], made)
  BY <1>1 DEF FramesFit
<1>4. Pop \in Seq(Frame)
  BY <1>1, <1>2, <1>3, SubSeqProperties DEF Pop
<1>5. DOMAIN Pop = 1 .. Len(stack) - 1
  BY <1>2
<1>6. QED
  BY <1>1, <1>2, <1>3, <1>4, <1>5 DEF GoodStack

LEMMA PushFits ==
    ASSUME NEW stk, GoodStack(stk, made), NEW frame \in Frame, FrameFits(frame, made)
    PROVE  GoodStack(Append(stk, frame), made)
<1>1. Append(stk, frame) \in Seq(Frame)
  BY DEF GoodStack
<1>2. \A i \in DOMAIN Append(stk, frame) : FrameFits(Append(stk, frame)[i], made)
  <2> SUFFICES ASSUME NEW i \in 1 .. Len(stk) + 1
               PROVE  FrameFits(Append(stk, frame)[i], made)
    BY DEF GoodStack
  <2>1. CASE i = Len(stk) + 1
    BY <2>1 DEF GoodStack
  <2>2. CASE i # Len(stk) + 1
    <3>1. i \in DOMAIN stk /\ Append(stk, frame)[i] = stk[i]
      BY <2>2 DEF GoodStack
    <3>2. QED
      BY <3>1 DEF GoodStack
  <2>3. QED
    BY <2>1, <2>2
<1>3. QED
  BY <1>1, <1>2 DEF GoodStack

(* Rewriting frames in place, their functions and objects unchanged.       *)
LEMMA MapFits ==
    ASSUME ControlType, FramesFit,
           NEW born, NEW g, DOMAIN g = DOMAIN stack,
           \A i \in DOMAIN stack : g[i] \in Frame /\ FrameFits(g[i], born)
    PROVE  GoodStack([i \in DOMAIN stack |-> g[i]], born)
<1>1. stack \in Seq(Frame) /\ DOMAIN stack = 1 .. Len(stack) /\ Len(stack) \in Nat
  BY DEF ControlType
<1>2. [i \in DOMAIN stack |-> g[i]] \in [1 .. Len(stack) -> Frame]
  BY <1>1
<1>3. QED
  BY <1>1, <1>2 DEF GoodStack

LEMMA NewFrameType ==
    ASSUME NEW op \in {"close", "destroy", "shutdown", "term", "stop"},
           NEW obj \in Objects,
           NEW todo \in SUBSET Sockets
    PROVE  /\ NewFrame(op, obj, todo) \in Frame
           /\ NewFrame(op, obj, todo).op = op
           /\ NewFrame(op, obj, todo).obj = obj
           /\ NewFrame(op, obj, todo).todo = todo
BY DEF NewFrame, Frame

-----------------------------------------------------------------------------
(* Closing a socket.                                                       *)

LEMMA EndCloseType ==
    ASSUME TypeOK, NEW s \in Sockets \cap made,
           EndClose(s)
    PROVE  /\ LibzmqType' <=> (running' \subseteq Contexts /\ terminated' \subseteq Contexts)
           /\ closed' = closed \cup {s}
           /\ fault' \in {"none", "zmq_close", "socket_count", "dangling"}
<1>1. opened' \subseteq Sockets
  BY DEF EndClose, TypeOK, LibzmqType
<1>3. socket_count' \in [Contexts -> Int]
  <2>1. ctx[s] \in Contexts \cup {NoContext}
    BY DEF TypeOK, PointersType
  <2>2. QED
    BY <2>1 DEF EndClose, TypeOK, LibzmqType
<1>4. fault' \in {"none", "zmq_close", "socket_count", "dangling"}
  BY DEF EndClose
<1>5. QED
  BY <1>1, <1>3, <1>4 DEF EndClose, LibzmqType

LEMMA BeginCloseType ==
    ASSUME TypeOK, NEW s \in Sockets \cap made,
           NEW stk, GoodStack(stk, made), BeginClose(s, stk)
    PROVE  /\ LibzmqType' <=> (running' \subseteq Contexts /\ terminated' \subseteq Contexts)
           /\ closed' \in {closed, closed \cup {s}}
           /\ ctx_ref' \in {ctx_ref, ctx_ref \ {s}}
           /\ fault' \in {"none", "zmq_close", "socket_count", "dangling"}
           /\ GoodStack(stack', made)
<1>1. CASE s \in closed /\ stack' = stk /\ UNCHANGED <<closing, ctx_ref>>
  BY <1>1 DEF closing, TypeOK, LibzmqType, ControlType
<1>2. CASE /\ s \notin closed
           /\ ctx_ref' = ctx_ref \ {s}
           /\ stack' = Append(stk, NewFrame("close", s, {}))
           /\ UNCHANGED closing
  <2> DEFINE f == NewFrame("close", s, {})
  <2>0. f \in Frame /\ f.op = "close" /\ f.obj = s /\ f.todo = {}
    BY NewFrameType DEF Objects
  <2>1. f \in Frame /\ FrameFits(f, made)
    BY <2>0 DEF FrameFits
  <2>2. GoodStack(stack', made)
    BY <1>2, <2>1, PushFits
  <2>3. QED
    BY <1>2, <2>2 DEF closing, TypeOK, LibzmqType, ControlType
<1>3. CASE /\ ctx_ref' = ctx_ref \ {s}
           /\ stack' = stk
           /\ EndClose(s)
  BY <1>3, EndCloseType
<1>4. QED
  BY <1>1, <1>2, <1>3 DEF BeginClose

LEMMA GoodStackNext ==
    ASSUME GoodStack(stack', made')
    PROVE  stack' \in Seq(Frame) /\ FramesFit'
BY DEF GoodStack, FramesFit, FrameFits

LEMMA GoodStackGrows ==
    ASSUME NEW stk, NEW born, NEW more, GoodStack(stk, born), born \subseteq more
    PROVE  GoodStack(stk, more)
BY DEF GoodStack, FrameFits

LEMMA StackIsGood ==
    ASSUME TypeOK
    PROVE  GoodStack(stack, made)
BY DEF TypeOK, ControlType, FramesFit, GoodStack

LEMMA BeginWalkType ==
    ASSUME TypeOK, NEW op \in {"destroy", "shutdown"},
           NEW c \in Contexts \cap made,
           BeginWalk(op, c)
    PROVE  GoodStack(stack', made)
<1>1. autoclose[c] \in SUBSET Sockets /\ autoclose[c] \subseteq made
  BY DEF TypeOK, RefsType
<1>2. NewFrame(op, c, autoclose[c]) \in Frame
  BY <1>1, NewFrameType DEF Objects
<1>3. FrameFits(NewFrame(op, c, autoclose[c]), made)
  BY <1>1 DEF NewFrame, FrameFits
<1>4. QED
  BY <1>2, <1>3, StackIsGood, PushFits DEF BeginWalk

LEMMA StoreKeyType ==
    ASSUME TypeOK, NEW s \in Sockets, NEW c \in Contexts, StoreKey(s, c)
    PROVE  /\ autoclose' \in [Contexts -> SUBSET (Sockets \cap (made \cup {s}))]
           /\ GoodStack(stack', made \cup {s})
<1>1. autoclose' \in [Contexts -> SUBSET (Sockets \cap (made \cup {s}))]
  BY DEF StoreKey, TypeOK, RefsType
<1>2. PICK missed \in SUBSET Sockets :
        stack' = [i \in DOMAIN stack |->
                    IF Walks(stack[i], c)
                    THEN [stack[i] EXCEPT !.todo = (@ \cup {s}) \ missed]
                    ELSE stack[i]]
  BY DEF StoreKey
<1> DEFINE g == [i \in DOMAIN stack |->
                    IF Walks(stack[i], c)
                    THEN [stack[i] EXCEPT !.todo = (@ \cup {s}) \ missed]
                    ELSE stack[i]]
<1>3. ASSUME NEW i \in DOMAIN stack
      PROVE  g[i] \in Frame /\ FrameFits(g[i], made \cup {s})
  <2>1. stack[i] \in Frame /\ FrameFits(stack[i], made)
    BY DEF TypeOK, ControlType, FramesFit
  <2>2. g[i] \in Frame
    BY <2>1 DEF Frame
  <2>3. /\ g[i].op = stack[i].op
        /\ g[i].obj = stack[i].obj
        /\ g[i].todo \subseteq stack[i].todo \cup {s}
    BY <2>1 DEF Frame
  <2>4. QED
    BY <2>1, <2>2, <2>3 DEF FrameFits
<1>4. GoodStack([i \in DOMAIN stack |-> g[i]], made \cup {s})
  <2> HIDE DEF g
  <2>1. DOMAIN g = DOMAIN stack
    BY DEF g
  <2>2. QED
    BY <1>3, <2>1, MapFits DEF TypeOK
<1>5. stack' = [i \in DOMAIN stack |-> g[i]]
  BY <1>2
<1>6. QED
  BY <1>1, <1>4, <1>5

LEMMA TypeInit == Init => TypeOK
<1> SUFFICES ASSUME Init
             PROVE  TypeOK
  OBVIOUS
<1> USE DEF Init
<1>1. ObjectsType /\ PointersType /\ LibzmqType
  BY DEF ObjectsType, PointersType, LibzmqType
<1>2. RefsType
  BY DEF RefsType
<1>3. ControlType /\ FramesFit
  BY DEF ControlType, FramesFit
<1>4. QED
  BY <1>1, <1>2, <1>3 DEF TypeOK

-----------------------------------------------------------------------------
(* Every step keeps the types.                                             *)

LEMMA TypeStep ==
    ASSUME TypeOK, [Next]_vars
    PROVE  TypeOK'
<1> USE DEF objects, flags, pointers, libzmq, closing, callbacks
<1> DEFINE Goal == /\ ObjectsType' /\ PointersType' /\ RefsType' /\ LibzmqType'
                   /\ fault' \in {"none", "zmq_close", "socket_count", "dangling"}
                   /\ made \subseteq made'
                   /\ GoodStack(stack', made')
<1>0. GoodStack(stack, made)
  BY StackIsGood
<1>t. ASSUME stack # << >>
      PROVE  /\ Top \in Frame /\ FrameFits(Top, made) /\ Len(stack) \in DOMAIN stack
             /\ GoodStack(Pop, made)
  BY <1>t, TopFits, PopFits DEF TypeOK
<1>1. SUFFICES Goal
  BY GoodStackNext DEF TypeOK, ControlType
<1>2. ASSUME NEW c \in Contexts, NewContext(c)
      PROVE  Goal
  <2>1. ObjectsType' /\ PointersType'
    BY <1>2 DEF NewContext, TypeOK, ObjectsType, PointersType, Objects
  <2>2. RefsType' /\ LibzmqType'
    BY <1>2 DEF NewContext, TypeOK, ObjectsType, RefsType, LibzmqType
  <2>3. QED
    BY <1>2, <1>0, <2>1, <2>2, GoodStackGrows DEF NewContext, TypeOK, ControlType
<1>3. ASSUME NEW c \in Contexts, NewContextFails(c)
      PROVE  Goal
  <2>1. ObjectsType' /\ PointersType'
    BY <1>3 DEF NewContextFails, TypeOK, ObjectsType, PointersType, Objects
  <2>2. RefsType' /\ LibzmqType'
    BY <1>3 DEF NewContextFails, TypeOK, ObjectsType, RefsType, LibzmqType
  <2>3. QED
    BY <1>3, <1>0, <2>1, <2>2, GoodStackGrows DEF NewContextFails, TypeOK, ControlType
<1>4. ASSUME NEW c \in Contexts, NEW d \in Contexts, InitCtx(c, d)
      PROVE  Goal
  <2>1. ObjectsType' /\ PointersType'
    BY <1>4 DEF InitCtx, TypeOK, ObjectsType, PointersType, Objects
  <2>2. RefsType' /\ LibzmqType'
    BY <1>4 DEF InitCtx, TypeOK, ObjectsType, RefsType, LibzmqType
  <2>3. QED
    BY <1>4, <1>0, <2>1, <2>2, GoodStackGrows DEF InitCtx, TypeOK, ControlType
<1>5. ASSUME NEW c \in Contexts, NEW s \in Sockets, NewSocket(c, s)
      PROVE  Goal
  <2>0. CreateSocket(c, s)
    BY <1>5 DEF NewSocket
  <2>1. ctx' \in [Sockets -> Contexts \cup {NoContext}] /\ ctx'[s] = c
    BY <2>0 DEF CreateSocket, TypeOK, PointersType
  <2>2. \A x \in Sockets \ {s} : ctx'[x] = ctx[x]
    BY <2>0 DEF CreateSocket, TypeOK, PointersType
  <2>3. ObjectsType' /\ PointersType'
    BY <1>5, <2>0, <2>1 DEF NewSocket, CreateSocket, TypeOK, ObjectsType, PointersType, Objects
  <2>4. /\ autoclose' \in [Contexts -> SUBSET (Sockets \cap (made \cup {s}))]
        /\ GoodStack(stack', made \cup {s})
    BY <1>5, <1>0, GoodStackGrows, StoreKeyType DEF NewSocket, TypeOK, RefsType
  <2>5. RefsType'
    <3>1. made' = made \cup {s}
      BY <2>0 DEF CreateSocket
    <3>2. ctx_ref' \subseteq {x \in Sockets \cap made' : ctx'[x] # NoContext}
      BY <1>5, <2>1, <2>2, <3>1, ObjectsAssumption DEF NewSocket, TypeOK, RefsType
    <3>3. QED
      BY <1>5, <2>4, <3>1, <3>2 DEF NewSocket, TypeOK, RefsType
  <2>6. LibzmqType'
    BY <1>5 DEF NewSocket, TypeOK, LibzmqType
  <2>7. QED
    BY <1>5, <2>0, <2>3, <2>4, <2>5, <2>6 DEF NewSocket, CreateSocket, TypeOK, ControlType
<1>6. ASSUME NEW c \in Contexts, NEW s \in Sockets, NewSocketFails(c, s)
      PROVE  Goal
  <2>0. CreateSocket(c, s)
    BY <1>6 DEF NewSocketFails
  <2>1. ctx' \in [Sockets -> Contexts \cup {NoContext}] /\ ctx'[s] = c
    BY <2>0 DEF CreateSocket, TypeOK, PointersType
  <2>2. \A x \in Sockets \ {s} : ctx'[x] = ctx[x]
    BY <2>0 DEF CreateSocket, TypeOK, PointersType
  <2>3. ObjectsType' /\ PointersType'
    BY <1>6, <2>0, <2>1 DEF NewSocketFails, CreateSocket, TypeOK, ObjectsType, PointersType, Objects
  <2>4. /\ autoclose' \in [Contexts -> SUBSET (Sockets \cap (made \cup {s}))]
        /\ GoodStack(stack', made \cup {s})
    BY <1>6, <1>0, GoodStackGrows DEF NewSocketFails, TypeOK, RefsType
  <2>5. RefsType'
    <3>1. made' = made \cup {s}
      BY <2>0 DEF CreateSocket
    <3>2. ctx_ref' \subseteq {x \in Sockets \cap made' : ctx'[x] # NoContext}
      BY <1>6, <2>1, <2>2, <3>1, ObjectsAssumption DEF NewSocketFails, TypeOK, RefsType
    <3>3. QED
      BY <1>6, <2>4, <3>1, <3>2 DEF NewSocketFails, TypeOK, RefsType
  <2>6. LibzmqType'
    BY <1>6 DEF NewSocketFails, TypeOK, LibzmqType
  <2>7. QED
    BY <1>6, <2>0, <2>3, <2>4, <2>5, <2>6 DEF NewSocketFails, CreateSocket, TypeOK, ControlType
<1>7. ASSUME NEW c \in Contexts, NEW s \in Sockets, NewSocketRaises(c, s)
      PROVE  Goal
  <2>0. CreateSocket(c, s)
    BY <1>7 DEF NewSocketRaises
  <2>1. ctx' \in [Sockets -> Contexts \cup {NoContext}] /\ ctx'[s] = c
    BY <2>0 DEF CreateSocket, TypeOK, PointersType
  <2>2. \A x \in Sockets \ {s} : ctx'[x] = ctx[x]
    BY <2>0 DEF CreateSocket, TypeOK, PointersType
  <2>3. ObjectsType' /\ PointersType'
    BY <1>7, <2>0, <2>1 DEF NewSocketRaises, CreateSocket, TypeOK, ObjectsType, PointersType, Objects
  <2>4. /\ autoclose' \in [Contexts -> SUBSET (Sockets \cap (made \cup {s}))]
        /\ GoodStack(stack', made \cup {s})
    BY <1>7, <1>0, GoodStackGrows DEF NewSocketRaises, TypeOK, RefsType
  <2>5. RefsType'
    <3>1. made' = made \cup {s}
      BY <2>0 DEF CreateSocket
    <3>2. ctx_ref' \subseteq {x \in Sockets \cap made' : ctx'[x] # NoContext}
      BY <1>7, <2>1, <2>2, <3>1, ObjectsAssumption DEF NewSocketRaises, TypeOK, RefsType
    <3>3. QED
      BY <1>7, <2>4, <3>1, <3>2 DEF NewSocketRaises, TypeOK, RefsType
  <2>6. LibzmqType'
    BY <1>7 DEF NewSocketRaises, TypeOK, LibzmqType
  <2>7. QED
    BY <1>7, <2>0, <2>3, <2>4, <2>5, <2>6 DEF NewSocketRaises, CreateSocket, TypeOK, ControlType
<1>8. ASSUME NEW s \in Sockets, NEW src \in Sockets, InitSocket(s, src)
      PROVE  Goal
  <2>1. ObjectsType' /\ PointersType'
    BY <1>8 DEF InitSocket, TypeOK, ObjectsType, PointersType, Objects
  <2>2. RefsType' /\ LibzmqType'
    BY <1>8 DEF InitSocket, TypeOK, ObjectsType, RefsType, LibzmqType
  <2>3. QED
    BY <1>8, <1>0, <2>1, <2>2, GoodStackGrows DEF InitSocket, TypeOK, ControlType
<1>9. ASSUME NEW s \in Sockets, OnClose(s)
      PROVE  Goal
  <2>1. ObjectsType' /\ PointersType'
    BY <1>9 DEF OnClose, TypeOK, ObjectsType, PointersType, Objects
  <2>2. RefsType' /\ LibzmqType'
    BY <1>9 DEF OnClose, Usable, TypeOK, ObjectsType, RefsType, LibzmqType
  <2>3. QED
    BY <1>9, <1>0, <2>1, <2>2, GoodStackGrows DEF OnClose, TypeOK, ControlType
<1>10. ASSUME NEW s \in Sockets, OnCloseNil(s)
      PROVE  Goal
  <2>1. ObjectsType' /\ PointersType'
    BY <1>10 DEF OnCloseNil, TypeOK, ObjectsType, PointersType, Objects
  <2>2. RefsType' /\ LibzmqType'
    BY <1>10 DEF OnCloseNil, TypeOK, ObjectsType, RefsType, LibzmqType
  <2>3. QED
    BY <1>10, <1>0, <2>1, <2>2, GoodStackGrows DEF OnCloseNil, TypeOK, ControlType
<1>11. ASSUME NEW s \in Sockets, NEW h \in Sockets, NEW own \in BOOLEAN, NEW close \in BOOLEAN,
             ResetHandle(s, h, own, close)
      PROVE  Goal
  <2>1. ObjectsType' /\ PointersType'
    BY <1>11 DEF ResetHandle, Usable, TypeOK, ObjectsType, PointersType, Objects
  <2>2. RefsType' /\ LibzmqType'
    BY <1>11 DEF ResetHandle, Usable, TypeOK, ObjectsType, RefsType, LibzmqType
  <2>3. QED
    BY <1>11, <1>0, <2>1, <2>2, GoodStackGrows DEF ResetHandle, Usable, TypeOK, ControlType
<1>12. ASSUME NEW s \in Sockets, Close(s)
      PROVE  Goal
  <2>1. s \in Sockets \cap made /\ GoodStack(stack, made)
           /\ BeginClose(s, stack)
    BY <1>12, <1>0 DEF Close, TypeOK, ObjectsType, PointersType,
        RefsType, LibzmqType, ControlType, Objects
  <2>2. /\ LibzmqType' <=> (running' \subseteq Contexts /\ terminated' \subseteq Contexts)
        /\ closed' \in {closed, closed \cup {s}}
        /\ ctx_ref' \in {ctx_ref, ctx_ref \ {s}}
        /\ fault' \in {"none", "zmq_close", "socket_count", "dangling"}
        /\ GoodStack(stack', made)
    BY <2>1, BeginCloseType
  <2>3. ObjectsType' /\ PointersType'
    BY <1>12, <2>1, <2>2 DEF Close, TypeOK, ObjectsType, PointersType, Objects
  <2>4. RefsType' /\ LibzmqType'
    BY <1>12, <2>1, <2>2 DEF Close, TypeOK, ObjectsType, RefsType, LibzmqType
  <2>5. QED
    BY <1>12, <2>2, <2>3, <2>4 DEF Close
<1>13. ASSUME NEW s \in Sockets, CollectSocket(s)
      PROVE  Goal
  <2>1. s \in Sockets \cap made /\ GoodStack(stack, made) /\ BeginClose(s, stack)
    BY <1>13, <1>0 DEF CollectSocket, Collectable, TypeOK, ObjectsType
  <2>2. /\ LibzmqType' <=> (running' \subseteq Contexts /\ terminated' \subseteq Contexts)
        /\ closed' \in {closed, closed \cup {s}}
        /\ ctx_ref' \in {ctx_ref, ctx_ref \ {s}}
        /\ fault' \in {"none", "zmq_close", "socket_count", "dangling"}
        /\ GoodStack(stack', made)
    BY <2>1, BeginCloseType
  <2>3. ObjectsType' /\ PointersType'
    BY <1>13, <2>1, <2>2 DEF CollectSocket, TypeOK, ObjectsType, PointersType, Objects
  <2>4. RefsType' /\ LibzmqType'
    BY <1>13, <2>1, <2>2 DEF CollectSocket, TypeOK, ObjectsType, RefsType, LibzmqType
  <2>5. QED
    BY <1>13, <2>2, <2>3, <2>4 DEF CollectSocket
<1>14. ASSUME CallbackReturns
      PROVE  Goal
  <2>1. stack # << >> /\ Top.op = "close"
    BY <1>14 DEF CallbackReturns, InCallback, TopIs
  <2>2. Top.obj \in Sockets \cap made /\ GoodStack(Pop, made)
    BY <1>t, <2>1 DEF Frame, FrameFits
  <2>3. EndClose(Top.obj)
    BY <1>14, <2>2 DEF CallbackReturns
  <2>4. /\ LibzmqType' <=> (running' \subseteq Contexts /\ terminated' \subseteq Contexts)
        /\ closed' = closed \cup {Top.obj}
        /\ fault' \in {"none", "zmq_close", "socket_count", "dangling"}
    BY <2>2, <2>3, EndCloseType
  <2>5. ObjectsType' /\ PointersType'
    BY <1>14, <2>2, <2>4 DEF CallbackReturns, TypeOK, ObjectsType, PointersType, Objects
  <2>6. RefsType' /\ LibzmqType'
    BY <1>14, <2>4 DEF CallbackReturns, TypeOK, ObjectsType, RefsType, LibzmqType
  <2>7. QED
    BY <1>14, <2>2, <2>4, <2>5, <2>6 DEF CallbackReturns
<1>15. ASSUME NEW c \in Contexts, NEW s \in Sockets, Autoclose(c, s)
      PROVE  Goal
  <2>1. /\ autoclose' \in [Contexts -> SUBSET (Sockets \cap (made \cup {s}))]
        /\ GoodStack(stack', made \cup {s})
    BY <1>15, StoreKeyType DEF Autoclose
  <2>2. s \in made
    BY <1>15 DEF Autoclose, Usable, TypeOK, ObjectsType
  <2>3. made \cup {s} = made
    BY <2>2
  <2>4. QED
    BY <1>15, <2>1, <2>3 DEF Autoclose, TypeOK, ObjectsType, PointersType,
        RefsType, LibzmqType, ControlType, Objects
<1>16. ASSUME NEW c \in Contexts, Destroy(c)
      PROVE  Goal
  <2>1. c \in Contexts \cap made
    BY <1>16 DEF Destroy, Usable, TypeOK, ObjectsType
  <2>2. GoodStack(stack', made)
    BY <1>16, <2>1, BeginWalkType DEF Destroy
  <2>3. QED
    BY <1>16, <2>2 DEF Destroy, TypeOK, ObjectsType, PointersType,
        RefsType, LibzmqType, ControlType, Objects
<1>17. ASSUME NEW c \in Contexts, Shutdown(c)
      PROVE  Goal
  <2>1. c \in Contexts \cap made
    BY <1>17 DEF Shutdown, Usable, TypeOK, ObjectsType
  <2>2. GoodStack(stack', made)
    BY <1>17, <2>1, BeginWalkType DEF Shutdown
  <2>3. QED
    BY <1>17, <2>2 DEF Shutdown, TypeOK, ObjectsType, PointersType,
        RefsType, LibzmqType, ControlType, Objects
<1>18. ASSUME NEW c \in Contexts, CollectContext(c)
      PROVE  Goal
  <2>1. c \in Contexts \cap made
    BY <1>18 DEF CollectContext, Collectable
  <2>2. GoodStack(stack', made)
    BY <1>18, <1>0, <2>1, BeginWalkType DEF CollectContext
  <2>3. QED
    BY <1>18, <2>1, <2>2 DEF CollectContext, TypeOK, ObjectsType, PointersType,
        RefsType, LibzmqType, ControlType, Objects
<1>s. ASSUME stack # << >>, NEW f \in Frame, f.op # "close", Top.op # "close", f.obj = Top.obj,
             f.todo \subseteq Top.todo
      PROVE  GoodStack(SetTop(f), made)
  <2> DEFINE g == [i \in DOMAIN stack |-> IF i = Len(stack) THEN f ELSE stack[i]]
  <2>1. FrameFits(f, made)
    BY <1>s, <1>t DEF FrameFits
  <2>2. \A i \in DOMAIN stack : g[i] \in Frame /\ FrameFits(g[i], made)
    BY <2>1 DEF TypeOK, ControlType, FramesFit
  <2>3. SetTop(f) = g
    BY DEF SetTop, TypeOK, ControlType
  <2>4. GoodStack(g, made)
    <3>1. DOMAIN g = DOMAIN stack
      OBVIOUS
    <3>2. g = [i \in DOMAIN stack |-> g[i]]
      OBVIOUS
    <3> HIDE DEF g
    <3>3. GoodStack([i \in DOMAIN stack |-> g[i]], made)
      BY <2>2, <3>1, MapFits DEF TypeOK
    <3>4. QED
      BY <3>2, <3>3, Zenon
  <2>5. QED
    BY <2>3, <2>4
<1>19. ASSUME CloseListed
      PROVE  Goal
  <2>1. stack # << >> /\ Top.op \in {"destroy", "shutdown"}
    BY <1>19 DEF CloseListed, TopIs
  <2>2. Top.todo \subseteq Sockets
    BY <1>t, <2>1 DEF Frame
  <2>3. PICK s \in Top.todo :
          BeginClose(s, SetTop([Top EXCEPT !.todo = @ \ {s}]))
    BY <1>19 DEF CloseListed
  <2>4. [Top EXCEPT !.todo = @ \ {s}] \in Frame
    BY <1>t, <2>1 DEF Frame
  <2>5. GoodStack(SetTop([Top EXCEPT !.todo = @ \ {s}]), made)
    BY <1>s, <1>t, <2>1, <2>4 DEF Frame
  <2>6. s \in made
    BY <1>t, <2>1 DEF FrameFits
  <2>7. /\ LibzmqType' <=> (running' \subseteq Contexts /\ terminated' \subseteq Contexts)
        /\ closed' \in {closed, closed \cup {s}}
        /\ ctx_ref' \in {ctx_ref, ctx_ref \ {s}}
        /\ fault' \in {"none", "zmq_close", "socket_count", "dangling"}
        /\ GoodStack(stack', made)
    BY <2>2, <2>3, <2>5, <2>6, BeginCloseType
  <2>8. ObjectsType' /\ PointersType'
    BY <1>19, <2>6, <2>7 DEF CloseListed, TypeOK, ObjectsType, PointersType, Objects
  <2>9. RefsType' /\ LibzmqType'
    BY <1>19, <2>7 DEF CloseListed, TypeOK, ObjectsType, RefsType, LibzmqType
  <2>10. QED
    BY <1>19, <2>7, <2>8, <2>9 DEF CloseListed
<1>20. ASSUME WalkEnds
      PROVE  Goal
  <2>1. stack # << >> /\ Top.op \in {"destroy", "shutdown"}
    BY <1>20 DEF WalkEnds, TopIs
  <2> DEFINE g == [i \in DOMAIN stack |->
                    IF i = Len(stack)
                    THEN [Top EXCEPT !.op = IF @ = "destroy" THEN "term" ELSE "stop"]
                    ELSE IF stack[i].obj = Top.obj THEN [stack[i] EXCEPT !.shared = FALSE]
                    ELSE stack[i]]
  <2>2. ASSUME NEW i \in DOMAIN stack
        PROVE  g[i] \in Frame /\ FrameFits(g[i], made)
    <3>1. stack[i] \in Frame /\ FrameFits(stack[i], made) /\ Top \in Frame /\ FrameFits(Top, made)
      BY <1>t, <2>1 DEF TypeOK, ControlType, FramesFit
    <3>2. CASE i = Len(stack)
      <4>1. g[i] \in Frame /\ g[i].op \in {"term", "stop"} /\ g[i].obj = Top.obj
        BY <3>1, <3>2 DEF Frame
      <4>2. QED
        BY <2>1, <3>1, <4>1 DEF FrameFits
    <3>3. CASE i # Len(stack)
      <4>1. g[i] \in Frame /\ g[i].op = stack[i].op /\ g[i].obj = stack[i].obj
        BY <3>1, <3>3 DEF Frame
      <4>2. QED
        BY <3>1, <4>1 DEF FrameFits
    <3>4. QED
      BY <3>2, <3>3
  <2>3. GoodStack([i \in DOMAIN stack |-> g[i]], made)
    <3>1. DOMAIN g = DOMAIN stack
      OBVIOUS
    <3> HIDE DEF g
    <3>2. QED
      BY <2>2, <3>1, MapFits DEF TypeOK
  <2>4. stack' = [i \in DOMAIN stack |-> g[i]]
    BY <1>20 DEF WalkEnds
  <2>5. GoodStack(stack', made)
    BY <2>3, <2>4
  <2>6. QED
    BY <1>20, <2>5 DEF WalkEnds, TypeOK, ObjectsType, PointersType,
        RefsType, LibzmqType, ControlType, Objects
<1>21. ASSUME Term
      PROVE  Goal
  <2>1. stack # << >> /\ Top.op = "term"
    BY <1>21 DEF Term, TopIs
  <2>2. Top.obj \in Contexts \cap made /\ GoodStack(Pop, made)
    BY <1>t, <2>1 DEF FrameFits
  <2>3. native[Top.obj] \in Contexts
    BY <2>2 DEF TypeOK, PointersType
  <2>4. ObjectsType' /\ PointersType'
    BY <1>21, <2>2 DEF Term, TypeOK, ObjectsType, PointersType, Objects
  <2>5. RefsType' /\ LibzmqType'
    BY <1>21, <2>3 DEF Term, TypeOK, ObjectsType, RefsType, LibzmqType
  <2>6. QED
    BY <1>21, <2>2, <2>4, <2>5 DEF Term, TypeOK, ControlType
<1>22. ASSUME TermInterrupted
      PROVE  Goal
  <2>1. stack # << >> /\ Top.op = "term"
    BY <1>22 DEF TermInterrupted, TopIs
  <2>2. Top.obj \in Contexts \cap made /\ GoodStack(Pop, made)
    BY <1>t, <2>1 DEF FrameFits
  <2>3. native[Top.obj] \in Contexts
    BY <2>2 DEF TypeOK, PointersType
  <2>4. ObjectsType' /\ PointersType'
    BY <1>22, <2>2 DEF TermInterrupted, TypeOK, ObjectsType, PointersType, Objects
  <2>5. RefsType' /\ LibzmqType'
    BY <1>22, <2>3 DEF TermInterrupted, TypeOK, ObjectsType, RefsType, LibzmqType
  <2>6. QED
    BY <1>22, <2>2, <2>4, <2>5 DEF TermInterrupted, TypeOK, ControlType
<1>23. ASSUME Stop
      PROVE  Goal
  <2>1. stack # << >> /\ Top.op = "stop"
    BY <1>23 DEF Stop, TopIs
  <2>2. Top.obj \in Contexts \cap made /\ GoodStack(Pop, made)
    BY <1>t, <2>1 DEF FrameFits
  <2>3. native[Top.obj] \in Contexts
    BY <2>2 DEF TypeOK, PointersType
  <2>4. ObjectsType' /\ PointersType'
    BY <1>23, <2>2 DEF Stop, TypeOK, ObjectsType, PointersType, Objects
  <2>5. RefsType' /\ LibzmqType'
    BY <1>23, <2>3 DEF Stop, TypeOK, ObjectsType, RefsType, LibzmqType
  <2>6. QED
    BY <1>23, <2>2, <2>4, <2>5 DEF Stop, TypeOK, ControlType
<1>24. ASSUME NEW obj \in Objects, Drop(obj)
      PROVE  Goal
  <2>1. QED
    BY <1>24, <1>0 DEF Drop, TypeOK, ObjectsType, PointersType,
        RefsType, LibzmqType, ControlType, Objects
<1>25. ASSUME UNCHANGED vars
      PROVE  Goal
  <2>1. QED
    BY <1>25, <1>0 DEF vars, TypeOK, ObjectsType, PointersType,
        RefsType, LibzmqType, ControlType, Objects
<1>26. QED
  BY <1>2, <1>3, <1>4, <1>5, <1>6, <1>7, <1>8, <1>9, <1>10, <1>11, <1>12, <1>13, <1>14, <1>15, <1>16, <1>17, <1>18, <1>19, <1>20, <1>21, <1>22, <1>23, <1>24, <1>25, [Next]_vars DEF Next

(* Every variable keeps its type, whatever the application does.           *)
THEOREM TypeCorrect == Spec => []TypeOK
<1>1. Init => TypeOK
  BY TypeInit
<1>2. TypeOK /\ [Next]_vars => TypeOK'
  BY TypeStep
<1>3. QED
  BY <1>1, <1>2, PTL DEF Spec

-----------------------------------------------------------------------------
(* The count of sockets.  Without shared handles every socket owns the     *)
(* native socket it created, which is open only while the socket is; so    *)
(* closing a socket twice fails in zmq_close before it is counted twice.   *)

OwnHandles ==
    /\ borrowed \subseteq Contexts
    /\ \A s \in Sockets : handle[s] = s
    /\ opened \subseteq made \ closed
    /\ \A s \in Sockets \ made : ctx[s] = NoContext

CountInv == TypeOK /\ OwnHandles /\ CountIsOpenSockets

LEMMA CountEndClose ==
    ASSUME TypeOK, OwnHandles, fault = "none" => CountIsOpenSockets,
           fault = "none", UNCHANGED ctx, NEW s \in Sockets, EndClose(s)
    PROVE  CountIsOpenSockets'
<1>1. s \notin borrowed /\ handle[s] = s
  BY ObjectsAssumption DEF OwnHandles
<1>2. CASE s \in closed
  <2>1. fault' = "zmq_close"
    BY <1>1, <1>2 DEF EndClose, OwnHandles
  <2>2. QED
    BY <2>1 DEF CountIsOpenSockets
<1>3. CASE s \notin closed
  <2> SUFFICES ASSUME NEW c \in Contexts
               PROVE  socket_count'[c] = Cardinality(OpenSocketsOf(c)')
    BY DEF CountIsOpenSockets
  <2>1. OpenSocketsOf(c)' = OpenSocketsOf(c) \ {s}
    BY DEF OpenSocketsOf, EndClose
  <2>2. IsFiniteSet(OpenSocketsOf(c))
    BY FS_Subset, ObjectsAssumption DEF OpenSocketsOf
  <2>3. s \in OpenSocketsOf(c) <=> ctx[s] = c
    BY <1>3 DEF OpenSocketsOf
  <2>4. Cardinality(OpenSocketsOf(c)') =
          IF ctx[s] = c THEN Cardinality(OpenSocketsOf(c)) - 1
                        ELSE Cardinality(OpenSocketsOf(c))
    BY <2>1, <2>2, <2>3, FS_RemoveElement
  <2>5. socket_count[c] = Cardinality(OpenSocketsOf(c))
    BY DEF CountIsOpenSockets
  <2>6. socket_count'[c] = IF ctx[s] = c THEN socket_count[c] - 1 ELSE socket_count[c]
    BY ObjectsAssumption DEF EndClose, TypeOK, LibzmqType, PointersType
  <2>7. QED
    BY <2>4, <2>5, <2>6
<1>4. QED
  BY <1>2, <1>3

(* A new socket that is open, and counted.                                 *)
LEMMA CountOpen ==
    ASSUME TypeOK, OwnHandles, CountIsOpenSockets, fault = "none",
           NEW c \in Contexts, NEW s \in Sockets, CreateSocket(c, s),
           socket_count' = [socket_count EXCEPT ![c] = @ + 1],
           UNCHANGED closed
    PROVE  CountIsOpenSockets'
<1> SUFFICES ASSUME NEW d \in Contexts
             PROVE  socket_count'[d] = Cardinality(OpenSocketsOf(d)')
  BY DEF CountIsOpenSockets
<1>1. s \notin made /\ s \notin closed /\ ctx[s] = NoContext
  BY DEF CreateSocket, OwnHandles, TypeOK, ObjectsType
<1>2. ctx' = [ctx EXCEPT ![s] = c] /\ ctx \in [Sockets -> Contexts \cup {NoContext}]
  BY DEF CreateSocket, TypeOK, PointersType
<1>3. OpenSocketsOf(d)' = IF d = c THEN OpenSocketsOf(d) \cup {s} ELSE OpenSocketsOf(d)
  BY <1>1, <1>2, ObjectsAssumption DEF OpenSocketsOf
<1>4. IsFiniteSet(OpenSocketsOf(d)) /\ s \notin OpenSocketsOf(d)
  BY <1>1, FS_Subset, ObjectsAssumption DEF OpenSocketsOf
<1>5. Cardinality(OpenSocketsOf(d) \cup {s}) = Cardinality(OpenSocketsOf(d)) + 1
  BY <1>4, FS_AddElement
<1>6. socket_count[d] = Cardinality(OpenSocketsOf(d))
  BY DEF CountIsOpenSockets
<1>7. socket_count'[d] = IF d = c THEN socket_count[d] + 1 ELSE socket_count[d]
  BY DEF TypeOK, LibzmqType
<1>8. QED
  BY <1>3, <1>5, <1>6, <1>7

(* A step that leaves the open sockets and their counts alone.             *)
LEMMA CountSame ==
    ASSUME CountIsOpenSockets, fault = "none", UNCHANGED socket_count,
           \A c \in Contexts : OpenSocketsOf(c)' = OpenSocketsOf(c)
    PROVE  CountIsOpenSockets'
BY DEF CountIsOpenSockets

LEMMA CountStep ==
    ASSUME CountInv, TypeOK', [Next]_vars, "handles" \notin Uses
    PROVE  OwnHandles' /\ CountIsOpenSockets'
<1> USE DEF objects, flags, pointers, libzmq, closing, callbacks
<1>t. TypeOK /\ OwnHandles /\ CountIsOpenSockets
  BY DEF CountInv
<1>o. ObjectsType /\ ObjectsType' /\ PointersType
  BY <1>t DEF TypeOK
<1>f. ASSUME fault = "none", UNCHANGED <<socket_count, ctx>>,
             closed' \cap Sockets = closed \cap Sockets
      PROVE  CountIsOpenSockets'
  <2>1. \A c \in Contexts : OpenSocketsOf(c)' = OpenSocketsOf(c)
    BY <1>f DEF OpenSocketsOf
  <2>2. QED
    BY <1>f, <1>t, <2>1, CountSame
<1>1. ASSUME NEW c \in Contexts, NewContext(c)
      PROVE  OwnHandles' /\ CountIsOpenSockets'
  <2>1. OwnHandles'
    BY <1>1, <1>t, <1>o DEF NewContext, OwnHandles, ObjectsType
  <2>2. CountIsOpenSockets'
    BY <1>1, <1>f, <1>o, ObjectsAssumption DEF NewContext, AppCode, ObjectsType
  <2>3. QED
    BY <2>1, <2>2
<1>2. ASSUME NEW c \in Contexts, NewContextFails(c)
      PROVE  OwnHandles' /\ CountIsOpenSockets'
  <2>1. OwnHandles'
    BY <1>2, <1>t, <1>o DEF NewContextFails, OwnHandles, ObjectsType
  <2>2. CountIsOpenSockets'
    BY <1>2, <1>f, <1>o, ObjectsAssumption DEF NewContextFails, AppCode, ObjectsType
  <2>3. QED
    BY <2>1, <2>2
<1>3. ASSUME NEW c \in Contexts, NEW d \in Contexts, InitCtx(c, d)
      PROVE  OwnHandles' /\ CountIsOpenSockets'
  <2>1. OwnHandles'
    BY <1>3, <1>t, <1>o DEF InitCtx, OwnHandles, ObjectsType
  <2>2. CountIsOpenSockets'
    BY <1>3, <1>f, <1>o, ObjectsAssumption DEF InitCtx, AppCode, ObjectsType
  <2>3. QED
    BY <2>1, <2>2
<1>4. ASSUME NEW c \in Contexts, NEW s \in Sockets, NewSocket(c, s)
      PROVE  OwnHandles' /\ CountIsOpenSockets'
  <2>1. CreateSocket(c, s) /\ fault = "none"
    BY <1>4 DEF NewSocket, CreateSocket, AppCode
  <2>2. s \notin made /\ made' = made \cup {s} /\ ctx' = [ctx EXCEPT ![s] = c]
    BY <2>1 DEF CreateSocket
  <2>3. OwnHandles'
    BY <1>4, <1>t, <1>o, <2>2 DEF NewSocket, OwnHandles, ObjectsType, PointersType
  <2>4. CountIsOpenSockets'
    BY <1>4, <1>t, <2>1, CountOpen DEF NewSocket
  <2>5. QED
    BY <2>3, <2>4
<1>5. ASSUME NEW c \in Contexts, NEW s \in Sockets, NewSocketRaises(c, s)
      PROVE  OwnHandles' /\ CountIsOpenSockets'
  <2>1. CreateSocket(c, s) /\ fault = "none"
    BY <1>5 DEF NewSocketRaises, CreateSocket, AppCode
  <2>2. s \notin made /\ made' = made \cup {s} /\ ctx' = [ctx EXCEPT ![s] = c]
    BY <2>1 DEF CreateSocket
  <2>3. OwnHandles'
    BY <1>5, <1>t, <1>o, <2>2 DEF NewSocketRaises, OwnHandles, ObjectsType, PointersType
  <2>4. CountIsOpenSockets'
    BY <1>5, <1>t, <2>1, CountOpen DEF NewSocketRaises
  <2>5. QED
    BY <2>3, <2>4
<1>6. ASSUME NEW c \in Contexts, NEW s \in Sockets, NewSocketFails(c, s)
      PROVE  OwnHandles' /\ CountIsOpenSockets'
  <2>1. CreateSocket(c, s) /\ fault = "none"
    BY <1>6 DEF NewSocketFails, CreateSocket, AppCode
  <2>2. s \notin made /\ made' = made \cup {s} /\ ctx' = [ctx EXCEPT ![s] = c]
    BY <2>1 DEF CreateSocket
  <2>3. OwnHandles'
    BY <1>6, <1>t, <1>o, <2>2 DEF NewSocketFails, OwnHandles, ObjectsType, PointersType
  <2>4. \A d \in Contexts : OpenSocketsOf(d)' = OpenSocketsOf(d)
    BY <1>6, <1>t, <1>o, <2>2, ObjectsAssumption
       DEF NewSocketFails, OpenSocketsOf, OwnHandles, ObjectsType, PointersType
  <2>5. CountIsOpenSockets'
    BY <1>6, <1>t, <2>1, <2>4, CountSame DEF NewSocketFails
  <2>6. QED
    BY <2>3, <2>5
<1>7. ASSUME NEW s \in Sockets, NEW src \in Sockets, InitSocket(s, src)
      PROVE  OwnHandles' /\ CountIsOpenSockets'
  BY <1>7 DEF InitSocket
<1>8. ASSUME NEW s \in Sockets, NEW h \in Sockets, NEW own \in BOOLEAN, NEW close \in BOOLEAN,
             ResetHandle(s, h, own, close)
      PROVE  OwnHandles' /\ CountIsOpenSockets'
  BY <1>8 DEF ResetHandle
<1>9. ASSUME NEW s \in Sockets, OnClose(s)
      PROVE  OwnHandles' /\ CountIsOpenSockets'
  <2>1. OwnHandles'
    BY <1>9, <1>t, <1>o DEF OnClose, OwnHandles, ObjectsType
  <2>2. CountIsOpenSockets'
    BY <1>9, <1>f, <1>o, ObjectsAssumption DEF OnClose, AppCode, ObjectsType
  <2>3. QED
    BY <2>1, <2>2
<1>10. ASSUME NEW s \in Sockets, OnCloseNil(s)
      PROVE  OwnHandles' /\ CountIsOpenSockets'
  <2>1. OwnHandles'
    BY <1>10, <1>t, <1>o DEF OnCloseNil, OwnHandles, ObjectsType
  <2>2. CountIsOpenSockets'
    BY <1>10, <1>f, <1>o, ObjectsAssumption DEF OnCloseNil, AppCode, ObjectsType
  <2>3. QED
    BY <2>1, <2>2
<1>b. ASSUME NEW s \in Sockets, NEW stk, BeginClose(s, stk), s \in made,
             fault = "none", UNCHANGED <<made, borrowed, pointers>>
      PROVE  OwnHandles' /\ CountIsOpenSockets'
  <2>1. CASE UNCHANGED closing
    BY <1>b, <1>f, <1>t, <2>1 DEF OwnHandles
  <2>2. CASE EndClose(s)
    <3>1. CountIsOpenSockets'
      BY <1>b, <1>t, <2>2, CountEndClose
    <3>2. s \notin borrowed /\ handle[s] = s
      BY <1>t, ObjectsAssumption DEF OwnHandles
    <3>3. OwnHandles'
      BY <1>b, <1>t, <2>2, <3>2 DEF EndClose, OwnHandles
    <3>4. QED
      BY <3>1, <3>3
  <2>3. QED
    BY <1>b, <2>1, <2>2 DEF BeginClose
<1>11. ASSUME NEW s \in Sockets, Close(s)
      PROVE  OwnHandles' /\ CountIsOpenSockets'
  <2>1. s \in made
    BY <1>11, <1>o DEF Close, ObjectsType
  <2>2. QED
    BY <1>11, <1>b, <2>1 DEF Close, AppCode
<1>12. ASSUME NEW s \in Sockets, CollectSocket(s)
      PROVE  OwnHandles' /\ CountIsOpenSockets'
  BY <1>12, <1>b DEF CollectSocket, Collectable, AppCode
<1>13. ASSUME CallbackReturns
      PROVE  OwnHandles' /\ CountIsOpenSockets'
  <2>1. stack # << >> /\ Top.op = "close" /\ fault = "none"
    BY <1>13 DEF CallbackReturns, InCallback, TopIs
  <2>2. Top.obj \in Sockets \cap made
    BY <1>t, <2>1, TopFits DEF TypeOK, FrameFits
  <2>3. EndClose(Top.obj)
    BY <1>13 DEF CallbackReturns
  <2>4. UNCHANGED <<ctx, handle, borrowed, made>>
    BY <1>13 DEF CallbackReturns
  <2>5. CountIsOpenSockets'
    BY <1>t, <2>1, <2>2, <2>3, <2>4, CountEndClose
  <2>6. Top.obj \notin borrowed /\ handle[Top.obj] = Top.obj
    BY <1>t, <2>2, ObjectsAssumption DEF OwnHandles
  <2>7. OwnHandles'
    BY <1>t, <2>2, <2>3, <2>4, <2>6 DEF EndClose, OwnHandles
  <2>8. QED
    BY <2>5, <2>7
<1>14. ASSUME NEW c \in Contexts, NEW s \in Sockets, Autoclose(c, s)
      PROVE  OwnHandles' /\ CountIsOpenSockets'
  <2>1. OwnHandles'
    BY <1>14, <1>t, <1>o DEF Autoclose, OwnHandles, ObjectsType
  <2>2. CountIsOpenSockets'
    BY <1>14, <1>f, <1>o, ObjectsAssumption DEF Autoclose, AppCode, ObjectsType
  <2>3. QED
    BY <2>1, <2>2
<1>15. ASSUME NEW c \in Contexts, Destroy(c)
      PROVE  OwnHandles' /\ CountIsOpenSockets'
  <2>1. OwnHandles'
    BY <1>15, <1>t, <1>o DEF Destroy, OwnHandles, ObjectsType
  <2>2. CountIsOpenSockets'
    BY <1>15, <1>f, <1>o, ObjectsAssumption DEF Destroy, AppCode, ObjectsType
  <2>3. QED
    BY <2>1, <2>2
<1>16. ASSUME NEW c \in Contexts, Shutdown(c)
      PROVE  OwnHandles' /\ CountIsOpenSockets'
  <2>1. OwnHandles'
    BY <1>16, <1>t, <1>o DEF Shutdown, OwnHandles, ObjectsType
  <2>2. CountIsOpenSockets'
    BY <1>16, <1>f, <1>o, ObjectsAssumption DEF Shutdown, AppCode, ObjectsType
  <2>3. QED
    BY <2>1, <2>2
<1>17. ASSUME NEW c \in Contexts, CollectContext(c)
      PROVE  OwnHandles' /\ CountIsOpenSockets'
  <2>1. OwnHandles'
    BY <1>17, <1>t, <1>o DEF CollectContext, OwnHandles, ObjectsType
  <2>2. CountIsOpenSockets'
    BY <1>17, <1>f, <1>o, ObjectsAssumption DEF CollectContext, AppCode, ObjectsType
  <2>3. QED
    BY <2>1, <2>2
<1>18. ASSUME CloseListed
      PROVE  OwnHandles' /\ CountIsOpenSockets'
  <2>1. stack # << >> /\ Top.op # "close" /\ fault = "none"
    BY <1>18 DEF CloseListed, TopIs
  <2>2. PICK s \in Top.todo :
          BeginClose(s, SetTop([Top EXCEPT !.todo = @ \ {s}]))
    BY <1>18 DEF CloseListed
  <2>3. s \in Sockets \cap made
    BY <1>t, <2>1, TopFits DEF TypeOK, Frame, FrameFits
  <2>4. UNCHANGED <<made, borrowed, pointers>>
    BY <1>18 DEF CloseListed
  <2>5. QED
    BY <1>b, <2>1, <2>2, <2>3, <2>4
<1>19. ASSUME WalkEnds
      PROVE  OwnHandles' /\ CountIsOpenSockets'
  <2>1. OwnHandles'
    BY <1>19, <1>t, <1>o DEF WalkEnds, OwnHandles, ObjectsType
  <2>2. CountIsOpenSockets'
    BY <1>19, <1>f, <1>o, ObjectsAssumption DEF WalkEnds, TopIs, ObjectsType
  <2>3. QED
    BY <2>1, <2>2
<1>20. ASSUME Term
      PROVE  OwnHandles' /\ CountIsOpenSockets'
  <2>1. Top.obj \in Contexts /\ fault = "none"
    BY <1>20, <1>t, TopFits DEF Term, TopIs, TypeOK, FrameFits
  <2>2. Top.obj \notin Sockets
    BY <2>1, ObjectsAssumption
  <2>3. closed' \cap Sockets = closed \cap Sockets
    BY <1>20, <2>2 DEF Term
  <2>4. OwnHandles'
    BY <1>20, <1>t, <1>o, <2>2, <2>3 DEF Term, OwnHandles, LibzmqType, TypeOK
  <2>5. UNCHANGED <<socket_count, ctx>>
    BY <1>20 DEF Term
  <2>6. QED
    BY <1>f, <2>1, <2>3, <2>4, <2>5
<1>21. ASSUME TermInterrupted
      PROVE  OwnHandles' /\ CountIsOpenSockets'
  <2>1. Top.obj \in Contexts /\ fault = "none"
    BY <1>21, <1>t, TopFits DEF TermInterrupted, TopIs, TypeOK, FrameFits
  <2>2. Top.obj \notin Sockets
    BY <2>1, ObjectsAssumption
  <2>3. closed' \cap Sockets = closed \cap Sockets
    BY <1>21, <2>2 DEF TermInterrupted
  <2>4. OwnHandles'
    BY <1>21, <1>t, <1>o, <2>2, <2>3 DEF TermInterrupted, OwnHandles, LibzmqType, TypeOK
  <2>5. UNCHANGED <<socket_count, ctx>>
    BY <1>21 DEF TermInterrupted
  <2>6. QED
    BY <1>f, <2>1, <2>3, <2>4, <2>5
<1>22. ASSUME Stop
      PROVE  OwnHandles' /\ CountIsOpenSockets'
  <2>1. Top.obj \in Contexts /\ fault = "none"
    BY <1>22, <1>t, TopFits DEF Stop, TopIs, TypeOK, FrameFits
  <2>2. Top.obj \notin Sockets
    BY <2>1, ObjectsAssumption
  <2>3. closed' \cap Sockets = closed \cap Sockets
    BY <1>22, <2>2 DEF Stop
  <2>4. OwnHandles'
    BY <1>22, <1>t, <1>o, <2>2, <2>3 DEF Stop, OwnHandles, LibzmqType, TypeOK
  <2>5. UNCHANGED <<socket_count, ctx>>
    BY <1>22 DEF Stop
  <2>6. QED
    BY <1>f, <2>1, <2>3, <2>4, <2>5
<1>23. ASSUME NEW obj \in Objects, Drop(obj)
      PROVE  OwnHandles' /\ CountIsOpenSockets'
  <2>1. OwnHandles'
    BY <1>23, <1>t, <1>o DEF Drop, OwnHandles, ObjectsType
  <2>2. CountIsOpenSockets'
    BY <1>23, <1>f, <1>o, ObjectsAssumption DEF Drop, AppCode, ObjectsType
  <2>3. QED
    BY <2>1, <2>2
<1>24. ASSUME UNCHANGED vars
      PROVE  OwnHandles' /\ CountIsOpenSockets'
  <2>1. OwnHandles' /\ \A c \in Contexts : OpenSocketsOf(c)' = OpenSocketsOf(c)
    BY <1>24, <1>t DEF vars, OwnHandles, OpenSocketsOf
  <2>2. QED
    BY <1>24, <1>t, <2>1 DEF vars, CountIsOpenSockets
<1>25. QED
  BY <1>1, <1>2, <1>3, <1>4, <1>5, <1>6, <1>7, <1>8, <1>9, <1>10, <1>11, <1>12, <1>13, <1>14, <1>15, <1>16, <1>17, <1>18, <1>19, <1>20, <1>21, <1>22, <1>23, <1>24 DEF Next

(* ctx:socket_count() is exact, as long as native sockets are not shared   *)
(* between objects: callbacks may close anything and create anything.      *)
THEOREM CountExact ==
    ASSUME "handles" \notin Uses
    PROVE  Spec => []CountIsOpenSockets
<1>1. Init => CountInv
  <2> SUFFICES ASSUME Init
               PROVE  OwnHandles /\ CountIsOpenSockets
    BY TypeInit DEF CountInv
  <2>1. OwnHandles
    BY DEF Init, OwnHandles
  <2>2. \A c \in Contexts : OpenSocketsOf(c) = {}
    BY ObjectsAssumption DEF Init, OpenSocketsOf
  <2>3. QED
    BY <2>1, <2>2, FS_EmptySet DEF Init, CountIsOpenSockets
<1>2. CountInv /\ [Next]_vars => CountInv'
  BY TypeStep, CountStep DEF CountInv
<1>3. CountInv => CountIsOpenSockets
  BY DEF CountInv
<1>4. QED
  BY <1>1, <1>2, <1>3, PTL DEF Spec

-----------------------------------------------------------------------------
(* The references of the registry.  A socket that is being closed gave up  *)
(* its context before its callback was called, and is not given it back.   *)

GaveUp(stk, refs) ==
    \A i \in DOMAIN stk : stk[i].op = "close" => stk[i].obj \notin refs

RefsInv == TypeOK /\ RefsReleased /\ leaked = {} /\ GaveUp(stack, ctx_ref)

LEMMA BeginCloseRefs ==
    ASSUME TypeOK, RefsReleased, leaked = {}, leaked' = {}, UNCHANGED onclose,
           NEW s \in Sockets, NEW stk, GoodStack(stk, made),
           GaveUp(stk, ctx_ref), BeginClose(s, stk)
    PROVE  RefsReleased' /\ GaveUp(stack', ctx_ref')
<1>1. CASE s \in closed /\ stack' = stk /\ UNCHANGED <<closing, ctx_ref>>
  BY <1>1 DEF closing, RefsReleased
<1>2. CASE /\ s \notin closed /\ s \in onclose
           /\ ctx_ref' = ctx_ref \ {s}
           /\ stack' = Append(stk, NewFrame("close", s, {}))
           /\ UNCHANGED closing
  <2>1. RefsReleased'
    BY <1>2 DEF closing, RefsReleased
  <2>2. ASSUME NEW i \in DOMAIN stack', stack'[i].op = "close"
        PROVE  stack'[i].obj \notin ctx_ref'
    <3>1. stk \in Seq(Frame) /\ Len(stk) \in Nat
      BY DEF GoodStack
    <3>2. i \in 1 .. Len(stk) + 1
      BY <1>2, <2>2, <3>1
    <3>3. CASE i = Len(stk) + 1
      <4>1. stack'[i] = NewFrame("close", s, {})
        BY <1>2, <3>1, <3>3
      <4>2. QED
        BY <1>2, <4>1 DEF NewFrame
    <3>4. CASE i # Len(stk) + 1
      <4>1. i \in DOMAIN stk /\ stack'[i] = stk[i]
        BY <1>2, <3>1, <3>2, <3>4
      <4>2. QED
        BY <1>2, <2>2, <4>1 DEF GaveUp
    <3>5. QED
      BY <3>3, <3>4
  <2>3. QED
    BY <2>1, <2>2 DEF GaveUp
<1>3. CASE /\ s \notin closed /\ s \notin onclose
           /\ ctx_ref' = ctx_ref \ {s}
           /\ stack' = stk
           /\ EndClose(s)
  <2>1. closed' = closed \cup {s}
    BY <1>3 DEF EndClose
  <2>2. QED
    BY <1>3, <2>1 DEF RefsReleased, GaveUp
<1>4. QED
  BY <1>1, <1>2, <1>3 DEF BeginClose

LEMMA RefsStep ==
    ASSUME RefsInv, [Next]_vars, "override" \notin Uses
    PROVE  RefsReleased' /\ leaked' = {} /\ GaveUp(stack', ctx_ref')
<1> USE DEF objects, flags, pointers, libzmq, closing, callbacks
<1> DEFINE Goal == RefsReleased' /\ leaked' = {} /\ GaveUp(stack', ctx_ref')
<1>t. TypeOK /\ RefsReleased /\ leaked = {} /\ GaveUp(stack, ctx_ref)
  BY DEF RefsInv
<1>o. ObjectsType /\ RefsType /\ GoodStack(stack, made)
  BY <1>t, StackIsGood DEF TypeOK
<1>p. ASSUME stack # << >>
      PROVE  GaveUp(Pop, ctx_ref) /\ GoodStack(Pop, made)
  BY <1>p, <1>t, PopFits DEF GaveUp, TypeOK
<1>r. ASSUME DOMAIN stack' = DOMAIN stack,
             \A i \in DOMAIN stack : /\ stack'[i].obj = stack[i].obj
                                     /\ stack'[i].op = "close" => stack[i].op = "close",
             ctx_ref' \subseteq ctx_ref \cup (Sockets \ made)
      PROVE  GaveUp(stack', ctx_ref')
  <2>1. \A i \in DOMAIN stack : stack[i].obj \in made
    BY <1>o DEF GoodStack, FrameFits
  <2>2. QED
    BY <1>r, <1>t, <2>1 DEF GaveUp
<1>w. ASSUME NEW op \in {"destroy", "shutdown"}, NEW c, BeginWalk(op, c),
             UNCHANGED ctx_ref
      PROVE  GaveUp(stack', ctx_ref')
  <2>1. stack' = Append(stack, NewFrame(op, c, autoclose[c]))
    BY <1>w DEF BeginWalk
  <2>2. ASSUME NEW i \in DOMAIN stack', stack'[i].op = "close"
        PROVE  stack'[i].obj \notin ctx_ref'
    <3>1. stack \in Seq(Frame) /\ Len(stack) \in Nat
      BY <1>o DEF GoodStack
    <3>2. i \in 1 .. Len(stack) + 1
      BY <2>1, <2>2, <3>1
    <3>3. i # Len(stack) + 1
      BY <1>w, <2>1, <2>2, <3>1 DEF NewFrame
    <3>4. i \in DOMAIN stack /\ stack'[i] = stack[i]
      BY <2>1, <3>1, <3>2, <3>3
    <3>5. QED
      BY <1>t, <1>w, <2>2, <3>4 DEF GaveUp
  <2>3. QED
    BY <2>2 DEF GaveUp
<1>k. ASSUME NEW s \in Sockets, NEW c \in Contexts, StoreKey(s, c)
      PROVE  /\ DOMAIN stack' = DOMAIN stack
             /\ \A i \in DOMAIN stack : /\ stack'[i].obj = stack[i].obj
                                        /\ stack'[i].op = "close" => stack[i].op = "close"
  <2>1. PICK missed \in SUBSET Sockets :
          stack' = [i \in DOMAIN stack |->
                      IF Walks(stack[i], c)
                      THEN [stack[i] EXCEPT !.todo = (@ \cup {s}) \ missed]
                      ELSE stack[i]]
    BY <1>k DEF StoreKey
  <2>2. \A i \in DOMAIN stack : stack[i] \in Frame
    BY <1>o DEF GoodStack
  <2>3. QED
    BY <2>1, <2>2 DEF Frame
<1>1. ASSUME NEW c \in Contexts, NewContext(c)
      PROVE  Goal
  BY <1>1, <1>t, <1>o, ObjectsAssumption DEF NewContext, RefsReleased, RefsType
<1>2. ASSUME NEW c \in Contexts, NewContextFails(c)
      PROVE  Goal
  BY <1>2, <1>t, <1>o, ObjectsAssumption DEF NewContextFails, RefsReleased, RefsType
<1>3. ASSUME NEW c \in Contexts, NEW d \in Contexts, InitCtx(c, d)
      PROVE  Goal
  BY <1>3, <1>t, <1>o, ObjectsAssumption DEF InitCtx, RefsReleased, RefsType
<1>4. ASSUME NEW c \in Contexts, NEW s \in Sockets, NewSocket(c, s)
      PROVE  Goal
  <2>1. s \notin made /\ StoreKey(s, c) /\ ctx_ref' = ctx_ref \cup {s}
    BY <1>4 DEF NewSocket, CreateSocket
  <2>2. GaveUp(stack', ctx_ref')
    BY <1>k, <1>r, <2>1
  <2>3. QED
    BY <1>4, <1>t, <1>o, <2>1, <2>2 DEF NewSocket, RefsReleased, ObjectsType
<1>5. ASSUME NEW c \in Contexts, NEW s \in Sockets, NewSocketFails(c, s)
      PROVE  Goal
  <2>1. s \notin ctx_ref /\ s \notin onclose
    BY <1>5, <1>o DEF NewSocketFails, CreateSocket, RefsType
  <2>2. QED
    BY <1>5, <1>t, <2>1 DEF NewSocketFails, RefsReleased
<1>6. ASSUME NEW c \in Contexts, NEW s \in Sockets, NewSocketRaises(c, s)
      PROVE  Goal
  BY <1>6, <1>t, <1>o, ObjectsAssumption DEF NewSocketRaises, RefsReleased, RefsType
<1>7. ASSUME NEW s \in Sockets, NEW src \in Sockets, InitSocket(s, src)
      PROVE  Goal
  BY <1>7, <1>t, <1>o, ObjectsAssumption DEF InitSocket, RefsReleased, RefsType
<1>8. ASSUME NEW s \in Sockets, OnClose(s)
      PROVE  Goal
  <2>1. s \notin closed /\ s \notin onclose
    BY <1>8 DEF OnClose, Usable
  <2>2. QED
    BY <1>8, <1>t, <2>1 DEF OnClose, RefsReleased
<1>9. ASSUME NEW s \in Sockets, OnCloseNil(s)
      PROVE  Goal
  BY <1>9, <1>t, <1>o, ObjectsAssumption DEF OnCloseNil, RefsReleased, RefsType
<1>10. ASSUME NEW s \in Sockets, NEW h \in Sockets, NEW own \in BOOLEAN, NEW close \in BOOLEAN,
             ResetHandle(s, h, own, close)
      PROVE  Goal
  BY <1>10, <1>t, <1>o, ObjectsAssumption DEF ResetHandle, RefsReleased, RefsType
<1>11. ASSUME NEW s \in Sockets, Close(s)
      PROVE  Goal
  <2>1. BeginClose(s, stack) /\ leaked' = {} /\ UNCHANGED onclose
    BY <1>11, <1>t DEF Close
  <2>2. QED
    BY <1>t, <1>o, <2>1, BeginCloseRefs
<1>12. ASSUME NEW s \in Sockets, CollectSocket(s)
      PROVE  Goal
  <2>1. BeginClose(s, stack) /\ leaked' = {} /\ UNCHANGED onclose
    BY <1>12, <1>t DEF CollectSocket
  <2>2. QED
    BY <1>t, <1>o, <2>1, BeginCloseRefs
<1>13. ASSUME CallbackReturns
      PROVE  Goal
  <2>1. stack # << >> /\ Top.op = "close"
    BY <1>13 DEF CallbackReturns, InCallback, TopIs
  <2>2. Top.obj \notin ctx_ref
    BY <1>t, <2>1, TopFits DEF TypeOK, GaveUp, Top
  <2>3. closed' = closed \cup {Top.obj}
    BY <1>13 DEF CallbackReturns, EndClose
  <2>4. QED
    BY <1>13, <1>t, <1>p, <2>1, <2>2, <2>3 DEF CallbackReturns, RefsReleased
<1>14. ASSUME NEW c \in Contexts, NEW s \in Sockets, Autoclose(c, s)
      PROVE  Goal
  <2>1. StoreKey(s, c)
    BY <1>14 DEF Autoclose
  <2>2. GaveUp(stack', ctx_ref')
    BY <1>14, <1>k, <1>r, <2>1 DEF Autoclose
  <2>3. QED
    BY <1>14, <1>t, <2>2 DEF Autoclose, RefsReleased
<1>15. ASSUME NEW c \in Contexts, Destroy(c)
      PROVE  Goal
  <2>1. GaveUp(stack', ctx_ref')
    BY <1>15, <1>w DEF Destroy
  <2>2. QED
    BY <1>15, <1>t, <2>1 DEF Destroy, RefsReleased
<1>16. ASSUME NEW c \in Contexts, Shutdown(c)
      PROVE  Goal
  <2>1. GaveUp(stack', ctx_ref')
    BY <1>16, <1>w DEF Shutdown
  <2>2. QED
    BY <1>16, <1>t, <2>1 DEF Shutdown, RefsReleased
<1>17. ASSUME NEW c \in Contexts, CollectContext(c)
      PROVE  Goal
  <2>1. GaveUp(stack', ctx_ref')
    BY <1>17, <1>t, <1>w DEF CollectContext
  <2>2. QED
    BY <1>17, <1>t, <2>1 DEF CollectContext, RefsReleased
<1>18. ASSUME CloseListed
      PROVE  Goal
  <2>1. stack # << >> /\ Top.op # "close"
    BY <1>18 DEF CloseListed, TopIs
  <2>2. Top \in Frame /\ FrameFits(Top, made)
    BY <1>t, <2>1, TopFits DEF TypeOK
  <2>3. PICK s \in Top.todo :
          BeginClose(s, SetTop([Top EXCEPT !.todo = @ \ {s}]))
    BY <1>18 DEF CloseListed
  <2> DEFINE f == [Top EXCEPT !.todo = @ \ {s}]
  <2>4. f \in Frame /\ f.op = Top.op /\ f.obj = Top.obj /\ f.todo \subseteq Top.todo
    BY <2>2 DEF Frame
  <2>5. SetTop(f) = [i \in DOMAIN stack |-> IF i = Len(stack) THEN f ELSE stack[i]]
    BY <1>o DEF SetTop, GoodStack
  <2>6. FrameFits(f, made)
    BY <2>2, <2>4 DEF FrameFits
  <2>7. GoodStack(SetTop(f), made)
    <3> DEFINE g == [i \in DOMAIN stack |-> IF i = Len(stack) THEN f ELSE stack[i]]
    <3>1. DOMAIN g = DOMAIN stack /\ g = [i \in DOMAIN stack |-> g[i]]
      OBVIOUS
    <3>2. \A i \in DOMAIN stack : g[i] \in Frame /\ FrameFits(g[i], made)
      BY <1>o, <2>4, <2>6 DEF GoodStack
    <3> HIDE DEF g
    <3>3. GoodStack([i \in DOMAIN stack |-> g[i]], made)
      BY <1>t, <3>1, <3>2, MapFits DEF TypeOK
    <3>4. SetTop(f) = [i \in DOMAIN stack |-> g[i]]
      BY <2>5, <3>1 DEF g
    <3>5. QED
      BY <3>3, <3>4
  <2>8. GaveUp(SetTop(f), ctx_ref)
    BY <1>t, <2>1, <2>4, <2>5 DEF GaveUp
  <2>9. s \in Sockets
    BY <2>2 DEF Frame
  <2>10. leaked' = {} /\ UNCHANGED onclose
    BY <1>18, <1>t DEF CloseListed
  <2>11. QED
    BY <1>t, <2>3, <2>7, <2>8, <2>9, <2>10, BeginCloseRefs
<1>19. ASSUME WalkEnds
      PROVE  Goal
  <2>1. stack # << >> /\ Top.op \in {"destroy", "shutdown"}
    BY <1>19 DEF WalkEnds, TopIs
  <2>2. Top \in Frame /\ \A i \in DOMAIN stack : stack[i] \in Frame
    BY <1>t, <1>o, <2>1, TopFits DEF TypeOK, GoodStack
  <2>3. Top = stack[Len(stack)]
    BY DEF Top
  <2>4. /\ DOMAIN stack' = DOMAIN stack
        /\ \A i \in DOMAIN stack : /\ stack'[i].obj = stack[i].obj
                                   /\ stack'[i].op = "close" => stack[i].op = "close"
    BY <1>19, <2>1, <2>2, <2>3 DEF WalkEnds, Frame
  <2>5. GaveUp(stack', ctx_ref')
    BY <1>19, <1>r, <2>4 DEF WalkEnds
  <2>6. QED
    BY <1>19, <1>t, <2>5 DEF WalkEnds, RefsReleased
<1>20. ASSUME Term
      PROVE  Goal
  <2>1. stack # << >> /\ Top.op # "close"
    BY <1>20 DEF Term, TopIs
  <2>2. Top.obj \in Contexts
    BY <1>t, <2>1, TopFits DEF TypeOK, FrameFits
  <2>3. Top.obj \notin Sockets
    BY <2>2, ObjectsAssumption
  <2>4. QED
    BY <1>20, <1>t, <1>o, <1>p, <2>1, <2>3 DEF Term, RefsReleased, RefsType
<1>21. ASSUME TermInterrupted
      PROVE  Goal
  <2>1. stack # << >> /\ Top.op # "close"
    BY <1>21 DEF TermInterrupted, TopIs
  <2>2. Top.obj \in Contexts
    BY <1>t, <2>1, TopFits DEF TypeOK, FrameFits
  <2>3. Top.obj \notin Sockets
    BY <2>2, ObjectsAssumption
  <2>4. QED
    BY <1>21, <1>t, <1>o, <1>p, <2>1, <2>3 DEF TermInterrupted, RefsReleased, RefsType
<1>22. ASSUME Stop
      PROVE  Goal
  <2>1. stack # << >> /\ Top.op # "close"
    BY <1>22 DEF Stop, TopIs
  <2>2. Top.obj \in Contexts
    BY <1>t, <2>1, TopFits DEF TypeOK, FrameFits
  <2>3. Top.obj \notin Sockets
    BY <2>2, ObjectsAssumption
  <2>4. QED
    BY <1>22, <1>t, <1>o, <1>p, <2>1, <2>3 DEF Stop, RefsReleased, RefsType
<1>23. ASSUME NEW obj \in Objects, Drop(obj)
      PROVE  Goal
  BY <1>23, <1>t, <1>o, ObjectsAssumption DEF Drop, RefsReleased, RefsType
<1>24. ASSUME UNCHANGED vars
      PROVE  Goal
  BY <1>24, <1>t DEF vars, RefsReleased
<1>25. QED
  BY <1>1, <1>2, <1>3, <1>4, <1>5, <1>6, <1>7, <1>8, <1>9, <1>10, <1>11, <1>12, <1>13, <1>14, <1>15, <1>16, <1>17, <1>18, <1>19, <1>20, <1>21, <1>22, <1>23, <1>24 DEF Next

(* The registry holds nothing for a closed socket, if no callback is       *)
(* replaced by another.                                                    *)
THEOREM NothingRetained ==
    ASSUME "override" \notin Uses
    PROVE  Spec => []RefsReleased
<1>1. Init => RefsInv
  BY TypeInit DEF Init, RefsInv, RefsReleased, GaveUp
<1>2. RefsInv /\ [Next]_vars => RefsInv'
  BY TypeStep, RefsStep DEF RefsInv
<1>3. RefsInv => RefsReleased
  BY DEF RefsInv
<1>4. QED
  BY <1>1, <1>2, <1>3, PTL DEF Spec

-----------------------------------------------------------------------------
(* The native objects.  Without shared handles, what is not closed is open *)
(* in libzmq, and what libzmq has given up is closed.                      *)

Alive == (Sockets \cap made) \ closed

NativesOK ==
    /\ Alive \subseteq opened
    /\ terminated \subseteq closed
    /\ \A c \in Contexts \ borrowed : native[c] = c

NativeInv == CountInv /\ NativesOK

(* The end of a close fails only on a socket that was closed meanwhile.    *)
LEMMA EndCloseFails ==
    ASSUME NativeInv, fault = "none", NEW s \in Sockets \cap made, EndClose(s)
    PROVE  /\ s \notin closed => fault' = "none"
           /\ closed' = closed \cup {s}
           /\ opened' = opened \ {s}
<1>t. /\ OwnHandles /\ CountIsOpenSockets /\ NativesOK
      /\ ctx[s] \in Contexts \cup {NoContext}
  BY DEF NativeInv, CountInv, TypeOK, PointersType
<1>1. s \notin borrowed /\ handle[s] = s
  BY <1>t, ObjectsAssumption DEF OwnHandles
<1>2. ASSUME s \notin closed
      PROVE  fault' = "none"
  <2>1. s \in opened
    BY <1>t, <1>2 DEF NativesOK, Alive
  <2>2. ASSUME ctx[s] \in Contexts
        PROVE  ~(socket_count[ctx[s]] < 1)
    <3> DEFINE S == OpenSocketsOf(ctx[s])
    <3>1. s \in S /\ IsFiniteSet(S)
      BY <1>2, FS_Subset, ObjectsAssumption DEF OpenSocketsOf
    <3>2. socket_count[ctx[s]] = Cardinality(S)
      BY <1>t, <2>2 DEF CountIsOpenSockets
    <3> HIDE DEF S
    <3>3. Cardinality(S) \in Nat /\ Cardinality(S) # 0
      BY <3>1, FS_CardinalityType, FS_EmptySet
    <3>4. QED
      BY <3>2, <3>3
  <2>3. QED
    BY <1>t, <1>1, <2>1, <2>2 DEF EndClose
<1>3. QED
  BY <1>1, <1>2 DEF EndClose

(* What a step may do to the native objects, and how it may fail.          *)
LEMMA NativeStep ==
    ASSUME NativeInv, [Next]_vars, "handles" \notin Uses
    PROVE  /\ NativesOK'
           /\ fault' # fault => /\ stack # << >> /\ stack' = Pop
                                /\ Top.obj \in closed
<1> USE DEF objects, flags, pointers, libzmq, closing, callbacks
<1> DEFINE Goal == /\ NativesOK'
                   /\ fault' # fault => /\ stack # << >> /\ stack' = Pop
                                        /\ Top.obj \in closed
<1>t. TypeOK /\ OwnHandles /\ NativesOK
  BY DEF NativeInv, CountInv
<1>o. ObjectsType /\ PointersType /\ LibzmqType
  BY <1>t DEF TypeOK
<1>q. ASSUME UNCHANGED <<fault, opened>>, made' \cap Sockets = made \cap Sockets,
             closed \subseteq closed', terminated' \subseteq terminated \cup closed',
             \A c \in Contexts \ borrowed' : c \notin borrowed /\ native'[c] = native[c]
      PROVE  Goal
  BY <1>q, <1>t DEF NativesOK, Alive
<1>1. CASE \/ \E c \in Contexts : NewContext(c) \/ NewContextFails(c)
           \/ \E s \in Sockets : OnClose(s) \/ OnCloseNil(s)
           \/ \E c \in Contexts, s \in Sockets : Autoclose(c, s)
           \/ \E obj \in Objects : Drop(obj)
           \/ WalkEnds
           \/ TermInterrupted
           \/ UNCHANGED vars
  <2>1. /\ UNCHANGED <<fault, opened, borrowed, native>>
        /\ closed \subseteq closed' /\ terminated' \subseteq terminated \cup closed'
    BY <1>1 DEF NewContext, NewContextFails, OnClose, OnCloseNil, Autoclose, Drop,
                WalkEnds, TermInterrupted, vars
  <2>2. made' \cap Sockets = made \cap Sockets
    BY <1>1, ObjectsAssumption
       DEF NewContext, NewContextFails, OnClose, OnCloseNil, Autoclose, Drop,
           WalkEnds, TermInterrupted, vars
  <2>3. QED
    BY <1>q, <2>1, <2>2
<1>2. ASSUME NEW c \in Contexts, NEW d \in Contexts, InitCtx(c, d)
      PROVE  Goal
  <2>1. \A x \in Contexts \ borrowed' : x \notin borrowed /\ native'[x] = native[x]
    BY <1>2, <1>o DEF InitCtx, PointersType
  <2>2. made' \cap Sockets = made \cap Sockets
    BY <1>2, ObjectsAssumption DEF InitCtx
  <2>3. QED
    BY <1>2, <1>q, <2>1, <2>2 DEF InitCtx
<1>3. ASSUME NEW c \in Contexts, NEW s \in Sockets,
             NewSocket(c, s) \/ NewSocketFails(c, s) \/ NewSocketRaises(c, s)
      PROVE  Goal
  <2>1. /\ made' = made \cup {s} /\ UNCHANGED <<fault, terminated, borrowed, native>>
        /\ closed \subseteq closed' /\ opened \subseteq opened'
        /\ s \in opened' \/ s \in closed'
    BY <1>3 DEF NewSocket, NewSocketFails, NewSocketRaises, CreateSocket
  <2>2. QED
    BY <1>t, <2>1 DEF NativesOK, Alive
<1>4. CASE \E s, src \in Sockets : InitSocket(s, src)
  BY <1>4 DEF InitSocket
<1>5. CASE \E s, h \in Sockets, own, close \in BOOLEAN : ResetHandle(s, h, own, close)
  BY <1>5 DEF ResetHandle
<1>e. ASSUME NEW s \in Sockets \cap made, fault = "none", EndClose(s),
             UNCHANGED <<made, terminated, borrowed, native>>
      PROVE  NativesOK' /\ (s \notin closed => fault' = fault)
  <2>1. /\ s \notin closed => fault' = "none"
        /\ closed' = closed \cup {s} /\ opened' = opened \ {s}
    BY <1>e, EndCloseFails
  <2>2. QED
    BY <1>e, <1>t, <2>1 DEF NativesOK, Alive
<1>b. ASSUME NEW s \in Sockets \cap made, NEW stk, fault = "none", BeginClose(s, stk),
             UNCHANGED <<made, terminated, borrowed, native>>
      PROVE  Goal
  <2>1. CASE UNCHANGED closing
    BY <1>b, <1>q, <2>1
  <2>2. CASE s \notin closed /\ EndClose(s)
    BY <1>b, <1>e, <2>2
  <2>3. QED
    BY <1>b, <2>1, <2>2 DEF BeginClose
<1>6. ASSUME NEW s \in Sockets, Close(s) \/ CollectSocket(s)
      PROVE  Goal
  <2>1. s \in made /\ fault = "none" /\ BeginClose(s, stack)
    BY <1>6, <1>o DEF Close, CollectSocket, Collectable, AppCode, ObjectsType
  <2>2. UNCHANGED <<made, terminated, borrowed, native>>
    BY <1>6 DEF Close, CollectSocket
  <2>3. QED
    BY <1>b, <2>1, <2>2
<1>7. CASE CloseListed
  <2>1. stack # << >> /\ fault = "none"
    BY <1>7 DEF CloseListed, TopIs
  <2>2. PICK s \in Top.todo : BeginClose(s, SetTop([Top EXCEPT !.todo = @ \ {s}]))
    BY <1>7 DEF CloseListed
  <2>3. s \in Sockets \cap made
    BY <1>t, <2>1, TopFits DEF TypeOK, Frame, FrameFits
  <2>4. UNCHANGED <<made, terminated, borrowed, native>>
    BY <1>7 DEF CloseListed
  <2>5. QED
    BY <1>b, <2>1, <2>2, <2>3, <2>4
<1>8. CASE CallbackReturns
  <2>1. stack # << >> /\ Top.op = "close" /\ fault = "none"
    BY <1>8 DEF CallbackReturns, InCallback, TopIs
  <2>2. Top.obj \in Sockets \cap made
    BY <1>t, <2>1, TopFits DEF TypeOK, FrameFits
  <2>3. stack' = Pop /\ EndClose(Top.obj) /\ UNCHANGED <<made, terminated, borrowed, native>>
    BY <1>8 DEF CallbackReturns
  <2>4. NativesOK' /\ (Top.obj \notin closed => fault' = fault)
    BY <1>e, <2>1, <2>2, <2>3
  <2>5. QED
    BY <2>1, <2>3, <2>4
<1>9. CASE \E c \in Contexts : Destroy(c) \/ Shutdown(c) \/ CollectContext(c)
  <2>1. UNCHANGED <<fault, opened, borrowed, native, made, closed, terminated>>
    BY <1>9 DEF Destroy, Shutdown, CollectContext
  <2>2. QED
    BY <1>q, <2>1
<1>10. CASE Term
  <2>1. stack # << >> /\ stack' = Pop /\ Top.obj \in Contexts /\ fault = "none"
    BY <1>10, <1>t, TopFits DEF Term, TopIs, TypeOK, FrameFits
  <2>2. Top.obj \notin borrowed => native[Top.obj] = Top.obj
    BY <1>t, <2>1 DEF NativesOK
  <2>3. /\ fault' # fault => Top.obj \in closed
        /\ terminated' \subseteq terminated \cup closed'
        /\ closed \subseteq closed'
    BY <1>10, <1>t, <2>2 DEF Term, NativesOK
  <2>4. UNCHANGED <<opened, borrowed, native, made>>
    BY <1>10 DEF Term
  <2>5. NativesOK'
    BY <1>t, <2>3, <2>4 DEF NativesOK, Alive
  <2>6. QED
    BY <2>1, <2>3, <2>5
<1>11. CASE Stop
  <2>1. stack # << >> /\ stack' = Pop /\ Top.obj \in Contexts /\ fault = "none"
    BY <1>11, <1>t, TopFits DEF Stop, TopIs, TypeOK, FrameFits
  <2>2. Top.obj \notin borrowed => native[Top.obj] = Top.obj
    BY <1>t, <2>1 DEF NativesOK
  <2>3. fault' # fault => Top.obj \in closed
    BY <1>11, <1>t, <2>2 DEF Stop, NativesOK
  <2>4. UNCHANGED <<opened, borrowed, native, made, closed, terminated>>
    BY <1>11 DEF Stop
  <2>5. NativesOK'
    BY <1>t, <2>4 DEF NativesOK, Alive
  <2>6. QED
    BY <2>1, <2>3, <2>5
<1>12. QED
  BY <1>1, <1>2, <1>3, <1>4, <1>5, <1>6, <1>7, <1>8, <1>9, <1>10, <1>11 DEF Next

LEMMA NativesHold ==
    ASSUME "handles" \notin Uses
    PROVE  Spec => []NativeInv
<1>1. Init => NativeInv
  <2> SUFFICES ASSUME Init
               PROVE  OwnHandles /\ CountIsOpenSockets /\ NativesOK
    BY TypeInit DEF NativeInv, CountInv
  <2>1. OwnHandles /\ NativesOK
    BY DEF Init, OwnHandles, NativesOK, Alive
  <2>2. \A c \in Contexts : OpenSocketsOf(c) = {}
    BY ObjectsAssumption DEF Init, OpenSocketsOf
  <2>3. QED
    BY <2>1, <2>2, FS_EmptySet DEF Init, CountIsOpenSockets
<1>2. NativeInv /\ [Next]_vars => NativeInv'
  <2>1. CountInv /\ [Next]_vars => CountInv'
    BY TypeStep, CountStep DEF CountInv
  <2>2. NativeInv /\ [Next]_vars => NativesOK'
    BY NativeStep
  <2>3. QED
    BY <2>1, <2>2 DEF NativeInv
<1>3. QED
  BY <1>1, <1>2, PTL DEF Spec

(* An assertion fails in no other way than by closing an object, by hand   *)
(* or by the collector, in a callback that the object's own close, destroy *)
(* or shutdown waits for: whatever else the application does to objects    *)
(* that share no native socket, in any order, all of them hold.            *)
THEOREM FailuresAreNested ==
    ASSUME "handles" \notin Uses
    PROVE  Spec => FailsOnlyNested
<1>1. NativeInv /\ [Next]_vars
        => (fault' # fault => Len(stack') < Len(stack) /\ Top.obj \in closed)
  <2> SUFFICES ASSUME NativeInv, [Next]_vars, fault' # fault
               PROVE  Len(stack') < Len(stack) /\ Top.obj \in closed
    OBVIOUS
  <2>1. stack # << >> /\ stack' = Pop /\ Top.obj \in closed
    BY NativeStep
  <2>2. stack \in Seq(Frame)
    BY DEF NativeInv, CountInv, TypeOK, ControlType
  <2>3. Len(stack) \in Nat /\ Len(stack) > 0
    BY <2>1, <2>2
  <2>4. Len(Pop) = Len(stack) - 1
    <3>1. Pop = [i \in 1 .. Len(stack) - 1 |-> stack[i]]
      BY <2>2, <2>3 DEF Pop
    <3>2. QED
      BY <2>3, <3>1
  <2>5. QED
    BY <2>1, <2>3, <2>4
<1>2. Spec => [][Next]_vars
  BY DEF Spec
<1>3. QED
  BY <1>1, <1>2, NativesHold, PTL DEF FailsOnlyNested

-----------------------------------------------------------------------------
(* What keeps a context from the collector: the registry, or a socket that *)
(* is itself unreachable and goes first.                                   *)

KeepsContext(s) ==
    \/ ctx[s] = NoContext
    \/ s \in closed
    \/ IsClosing(s)
    \/ /\ ctx[s] \notin finalized
       /\ s \in ctx_ref \/ s \notin held \cup finalized

OutliveOK ==
    /\ held \cap finalized = {}
    /\ \A s \in Sockets \ made : ctx[s] = NoContext
    /\ \A s \in Sockets : KeepsContext(s)

Ends(s) == s \in closed \/ IsClosing(s)

(* Calls that are pushed, rewritten or popped leave the others closing.    *)
LEMMA ClosingPushed ==
    ASSUME NEW stk \in Seq(Frame), NEW f, stack' = Append(stk, f),
           DOMAIN stk = DOMAIN stack,
           \A i \in DOMAIN stack : stk[i].op = stack[i].op /\ stk[i].obj = stack[i].obj
    PROVE  /\ \A s \in Sockets : IsClosing(s) => IsClosing(s)'
           /\ f.op = "close" => IsClosing(f.obj)'
<1> DEFINE n == Len(stk)
           r == Append(stk, f)
<1>1. n \in Nat /\ DOMAIN stk = 1 .. n
  BY LenProperties
<1>2. /\ DOMAIN r = 1 .. n + 1 /\ r[n + 1] = f
      /\ \A i \in 1 .. n : r[i] = stk[i]
  BY <1>1
<1> HIDE DEF r, n
<1>3. /\ DOMAIN stk \subseteq DOMAIN r /\ n + 1 \in DOMAIN r
      /\ \A i \in DOMAIN stk : r[i] = stk[i]
  BY <1>1, <1>2
<1>4. stack' = r
  BY DEF r
<1>5. \A i \in DOMAIN stack :
          i \in DOMAIN stack' /\ stack'[i].op = stack[i].op /\ stack'[i].obj = stack[i].obj
  BY <1>3, <1>4
<1>6. \A s \in Sockets : IsClosing(s) => IsClosing(s)'
  BY <1>5 DEF IsClosing
<1>7. f.op = "close" => IsClosing(f.obj)'
  BY <1>2, <1>3, <1>4 DEF IsClosing
<1>8. QED
  BY <1>6, <1>7

LEMMA ClosingRewritten ==
    ASSUME DOMAIN stack' = DOMAIN stack,
           \A i \in DOMAIN stack : /\ stack'[i].obj = stack[i].obj
                                   /\ stack[i].op = "close" => stack'[i].op = "close"
    PROVE  \A s \in Sockets : IsClosing(s) => IsClosing(s)'
BY DEF IsClosing

LEMMA ClosingPopped ==
    ASSUME TypeOK, stack # << >>, stack' = Pop
    PROVE  \A s \in Sockets : IsClosing(s) => IsClosing(s)' \/ (Top.op = "close" /\ s = Top.obj)
<1> SUFFICES ASSUME NEW s \in Sockets, IsClosing(s)
             PROVE  IsClosing(s)' \/ (Top.op = "close" /\ s = Top.obj)
  OBVIOUS
<1>1. PICK i \in DOMAIN stack : stack[i].op = "close" /\ stack[i].obj = s
  BY DEF IsClosing
<1>2. CASE i = Len(stack)
  BY <1>1, <1>2 DEF Top
<1>3. CASE i # Len(stack)
  <2>1. stack \in Seq(Frame) /\ Len(stack) \in Nat /\ Len(stack) > 0 /\ i \in 1 .. Len(stack)
    BY DEF TypeOK, ControlType
  <2>2. Pop = [j \in 1 .. Len(stack) - 1 |-> stack[j]]
    BY <2>1 DEF Pop
  <2>3. i \in 1 .. Len(stack) - 1
    BY <1>3, <2>1
  <2>4. i \in DOMAIN stack' /\ stack'[i] = stack[i]
    BY <2>2, <2>3
  <2>5. QED
    BY <1>1, <2>4 DEF IsClosing
<1>4. QED
  BY <1>2, <1>3

(* A step that collects nothing, and ends whatever it takes a reference    *)
(* from.  A new socket is in a context that is held.                       *)
LEMMA OutliveKeeps ==
    ASSUME TypeOK, OutliveOK,
           made \subseteq made', finalized' = finalized,
           held' \subseteq held \cup (made' \ made),
           \A s \in Sockets : Ends(s) => Ends(s)',
           \A s \in ctx_ref \ ctx_ref' : Ends(s)',
           \A s \in Sockets :
              \/ ctx'[s] = ctx[s] /\ (ctx[s] = NoContext \/ s \in made)
              \/ /\ s \in made' \ made
                 /\ s \in closed' \/ (ctx'[s] \in held /\ (s \in ctx_ref' \/ s \notin held'))
    PROVE  OutliveOK'
<1>o. ObjectsType
  BY DEF TypeOK
<1>1. held' \cap finalized' = {}
  BY <1>o DEF OutliveOK, ObjectsType
<1>2. \A s \in Sockets \ made' : ctx'[s] = NoContext
  BY DEF OutliveOK
<1>3. ASSUME NEW s \in Sockets
      PROVE  KeepsContext(s)'
  <2>1. CASE ctx'[s] = ctx[s] /\ (ctx[s] = NoContext \/ s \in made)
    <3>1. KeepsContext(s) /\ (Ends(s) => Ends(s)')
      BY DEF OutliveOK
    <3>2. CASE ctx[s] = NoContext
      BY <2>1, <3>2 DEF KeepsContext
    <3>3. CASE Ends(s)
      BY <3>1, <3>3 DEF Ends, KeepsContext
    <3>4. CASE /\ s \in made /\ ctx[s] \notin finalized
               /\ s \in ctx_ref \/ s \notin held \cup finalized
      <4>1. s \in ctx_ref => s \in ctx_ref' \/ Ends(s)'
        OBVIOUS
      <4>2. s \notin held => s \notin held'
        BY <3>4
      <4>3. QED
        BY <2>1, <3>4, <4>1, <4>2 DEF Ends, KeepsContext
    <3>5. QED
      BY <2>1, <3>1, <3>2, <3>3, <3>4 DEF KeepsContext, Ends
  <2>2. CASE /\ s \in made' \ made
             /\ s \in closed' \/ (ctx'[s] \in held /\ (s \in ctx_ref' \/ s \notin held'))
    <3>1. s \notin finalized'
      BY <1>o, <2>2 DEF ObjectsType
    <3>2. ctx'[s] \in held => ctx'[s] \notin finalized'
      BY DEF OutliveOK
    <3>3. QED
      BY <2>2, <3>1, <3>2 DEF KeepsContext
  <2>3. QED
    BY <2>1, <2>2
<1>4. QED
  BY <1>1, <1>2, <1>3 DEF OutliveOK

(* close gives up the reference of a socket that it ends.                  *)
LEMMA CloseEnds ==
    ASSUME TypeOK, NEW s \in Sockets, NEW stk, GoodStack(stk, made), BeginClose(s, stk),
           DOMAIN stk = DOMAIN stack,
           \A i \in DOMAIN stack : stk[i].op = stack[i].op /\ stk[i].obj = stack[i].obj
    PROVE  /\ \A x \in Sockets : Ends(x) => Ends(x)'
           /\ \A x \in ctx_ref \ ctx_ref' : Ends(x)'
           /\ Ends(s)'
<1> USE DEF closing
<1>s. stk \in Seq(Frame)
  BY DEF GoodStack
<1>1. CASE s \in closed /\ stack' = stk /\ UNCHANGED <<closing, ctx_ref>>
  <2>1. \A x \in Sockets : IsClosing(x) => IsClosing(x)'
    BY <1>1, ClosingRewritten
  <2>2. QED
    BY <1>1, <2>1 DEF Ends
<1>2. CASE /\ s \notin closed /\ s \in onclose
           /\ ctx_ref' = ctx_ref \ {s}
           /\ stack' = Append(stk, NewFrame("close", s, {}))
           /\ UNCHANGED closing
  <2> DEFINE f == NewFrame("close", s, {})
  <2>1. f.op = "close" /\ f.obj = s
    BY DEF NewFrame
  <2> HIDE DEF f
  <2>2. stack' = Append(stk, f)
    BY <1>2 DEF f
  <2>3. IsClosing(s)' /\ \A x \in Sockets : IsClosing(x) => IsClosing(x)'
    BY <1>s, <2>1, <2>2, ClosingPushed
  <2>4. QED
    BY <1>2, <2>3 DEF Ends
<1>3. CASE /\ s \notin closed /\ s \notin onclose
           /\ ctx_ref' = ctx_ref \ {s}
           /\ stack' = stk
           /\ EndClose(s)
  <2>1. \A x \in Sockets : IsClosing(x) => IsClosing(x)'
    BY <1>3, ClosingRewritten
  <2>2. closed' = closed \cup {s}
    BY <1>3 DEF EndClose
  <2>3. QED
    BY <1>3, <2>1, <2>2 DEF Ends
<1>4. QED
  BY <1>1, <1>2, <1>3 DEF BeginClose

LEMMA StoreKeyClosing ==
    ASSUME TypeOK, NEW c \in Contexts, NEW s \in Sockets, StoreKey(s, c)
    PROVE  \A x \in Sockets : IsClosing(x) => IsClosing(x)'
<1>1. PICK missed \in SUBSET Sockets :
        stack' = [i \in DOMAIN stack |->
                    IF Walks(stack[i], c)
                    THEN [stack[i] EXCEPT !.todo = (@ \cup {s}) \ missed]
                    ELSE stack[i]]
  BY DEF StoreKey
<1>2. \A i \in DOMAIN stack : stack[i] \in Frame
  BY DEF TypeOK, ControlType
<1>3. /\ DOMAIN stack' = DOMAIN stack
      /\ \A i \in DOMAIN stack : /\ stack'[i].obj = stack[i].obj
                                 /\ stack[i].op = "close" => stack'[i].op = "close"
  BY <1>1, <1>2 DEF Frame
<1>4. QED
  BY <1>3, ClosingRewritten

LEMMA BeginWalkClosing ==
    ASSUME TypeOK, NEW op, NEW c, BeginWalk(op, c)
    PROVE  \A x \in Sockets : IsClosing(x) => IsClosing(x)'
<1> DEFINE f == NewFrame(op, c, autoclose[c])
<1>1. stack \in Seq(Frame)
  BY DEF TypeOK, ControlType
<1>2. stack' = Append(stack, f)
  BY DEF BeginWalk
<1> HIDE DEF f
<1>3. QED
  BY <1>1, <1>2, ClosingPushed

LEMMA OutliveStep ==
    ASSUME TypeOK, OutliveOK, [Next]_vars
    PROVE  OutliveOK'
<1> USE DEF objects, flags, pointers, libzmq, closing, callbacks
<1>o. ObjectsType /\ RefsType /\ GoodStack(stack, made)
  BY StackIsGood DEF TypeOK
<1>u. \A s \in Sockets : ctx[s] = NoContext \/ s \in made
  BY DEF OutliveOK
(* Steps that keep the sockets and their references, and end no call.      *)
<1>q. ASSUME made \subseteq made', finalized' = finalized, UNCHANGED <<ctx, ctx_ref>>,
             held' \subseteq held \cup (made' \ made),
             closed \subseteq closed',
             \A x \in Sockets : IsClosing(x) => IsClosing(x)'
      PROVE  OutliveOK'
  <2>1. \A s \in Sockets : Ends(s) => Ends(s)'
    BY <1>q DEF Ends
  <2>2. QED
    BY <1>q, <1>u, <2>1, OutliveKeeps
<1>p. ASSUME stack' = stack
      PROVE  \A x \in Sockets : IsClosing(x) => IsClosing(x)'
  BY <1>p DEF IsClosing
<1>1. CASE \/ \E c \in Contexts : NewContext(c) \/ NewContextFails(c)
           \/ \E c, d \in Contexts : InitCtx(c, d)
           \/ \E s, src \in Sockets : InitSocket(s, src)
           \/ \E s \in Sockets : OnClose(s) \/ OnCloseNil(s)
           \/ \E s, h \in Sockets, own, close \in BOOLEAN : ResetHandle(s, h, own, close)
           \/ \E obj \in Objects : Drop(obj)
           \/ UNCHANGED vars
  <2>1. /\ made \subseteq made' /\ finalized' = finalized /\ UNCHANGED <<ctx, ctx_ref, stack>>
        /\ held' \subseteq held \cup (made' \ made) /\ closed \subseteq closed'
    BY <1>1 DEF NewContext, NewContextFails, InitCtx, InitSocket, OnClose, OnCloseNil,
                ResetHandle, Drop, vars
  <2>2. QED
    BY <1>p, <1>q, <2>1
<1>2. ASSUME NEW c \in Contexts, NEW s \in Sockets,
             NewSocket(c, s) \/ NewSocketFails(c, s) \/ NewSocketRaises(c, s)
      PROVE  OutliveOK'
  <2>1. CreateSocket(c, s) /\ c \in held /\ s \notin made /\ s \notin held
    BY <1>2, <1>o DEF NewSocket, NewSocketFails, NewSocketRaises, CreateSocket, Usable, ObjectsType
  <2>2. /\ made' = made \cup {s} /\ ctx' = [ctx EXCEPT ![s] = c]
        /\ ctx \in [Sockets -> Contexts \cup {NoContext}]
    BY <2>1 DEF CreateSocket, TypeOK, PointersType
  <2>3. /\ finalized' = finalized /\ ctx_ref \subseteq ctx_ref'
        /\ held' \subseteq held \cup {s} /\ closed \subseteq closed'
        /\ s \in closed' \/ s \in ctx_ref' \/ s \notin held'
    BY <1>2, <2>1 DEF NewSocket, NewSocketFails, NewSocketRaises
  <2>4. \A x \in Sockets : IsClosing(x) => IsClosing(x)'
    <3>1. CASE StoreKey(s, c)
      BY <3>1, StoreKeyClosing
    <3>2. CASE stack' = stack
      BY <1>p, <3>2
    <3>3. QED
      BY <1>2, <3>1, <3>2 DEF NewSocket, NewSocketFails, NewSocketRaises
  <2>5. \A x \in Sockets : Ends(x) => Ends(x)'
    BY <2>3, <2>4 DEF Ends
  <2>6. ASSUME NEW x \in Sockets
        PROVE  \/ ctx'[x] = ctx[x] /\ (ctx[x] = NoContext \/ x \in made)
               \/ /\ x \in made' \ made
                  /\ x \in closed' \/ (ctx'[x] \in held /\ (x \in ctx_ref' \/ x \notin held'))
    <3>1. CASE x = s
      <4>1. ctx'[s] = c
        BY <2>2
      <4>2. QED
        BY <2>1, <2>2, <2>3, <3>1, <4>1
    <3>2. CASE x # s
      BY <1>u, <2>2, <3>2
    <3>3. QED
      BY <3>1, <3>2
  <2>7. QED
    BY <2>1, <2>2, <2>3, <2>5, <2>6, OutliveKeeps
<1>3. CASE \E c \in Contexts, s \in Sockets : Autoclose(c, s)
  <2>1. PICK c \in Contexts, s \in Sockets : Autoclose(c, s)
    BY <1>3
  <2>2. \A x \in Sockets : IsClosing(x) => IsClosing(x)'
    BY <2>1, StoreKeyClosing DEF Autoclose
  <2>3. QED
    BY <1>q, <2>1, <2>2 DEF Autoclose
<1>4. ASSUME NEW s \in Sockets, Close(s)
      PROVE  OutliveOK'
  <2>1. /\ \A x \in Sockets : Ends(x) => Ends(x)'
        /\ \A x \in ctx_ref \ ctx_ref' : Ends(x)'
    BY <1>4, <1>o, CloseEnds DEF Close
  <2>2. QED
    BY <1>4, <1>u, <2>1, OutliveKeeps DEF Close
<1>5. ASSUME NEW s \in Sockets, CollectSocket(s)
      PROVE  OutliveOK'
  <2>1. /\ \A x \in Sockets : Ends(x) => Ends(x)'
        /\ \A x \in ctx_ref \ ctx_ref' : Ends(x)'
        /\ Ends(s)'
    BY <1>5, <1>o, CloseEnds DEF CollectSocket
  <2>2. /\ finalized' = finalized \cup {s} /\ UNCHANGED <<made, held, ctx>> /\ s \notin held
    BY <1>5 DEF CollectSocket, Collectable, Reachable
  <2>3. ASSUME NEW x \in Sockets
        PROVE  KeepsContext(x)'
    <3>1. KeepsContext(x) /\ (Ends(x) => Ends(x)')
      BY <2>1 DEF OutliveOK
    <3>2. CASE Ends(x)'
      BY <3>2 DEF Ends, KeepsContext
    <3>3. CASE ~Ends(x)' /\ ctx[x] # NoContext
      <4>1. ctx[x] \in Contexts
        BY <3>3 DEF TypeOK, PointersType
      <4>2. x # s /\ ctx[x] # s
        BY <2>1, <3>3, <4>1, ObjectsAssumption
      <4>3. /\ ctx[x] \notin finalized
            /\ x \in ctx_ref \/ x \notin held \cup finalized
        BY <3>1, <3>3 DEF KeepsContext, Ends
      <4>4. x \in ctx_ref => x \in ctx_ref'
        BY <2>1, <3>3
      <4>5. QED
        BY <2>2, <4>2, <4>3, <4>4 DEF KeepsContext
    <3>4. QED
      BY <2>2, <3>2, <3>3 DEF KeepsContext
  <2>4. QED
    BY <2>2, <2>3 DEF OutliveOK
<1>6. CASE CloseListed
  <2>1. stack # << >>
    BY <1>6 DEF CloseListed, TopIs
  <2>2. PICK s \in Top.todo : BeginClose(s, SetTop([Top EXCEPT !.todo = @ \ {s}]))
    BY <1>6 DEF CloseListed
  <2>3. Top \in Frame /\ FrameFits(Top, made) /\ Len(stack) \in DOMAIN stack
    BY <2>1, TopFits DEF TypeOK
  <2> DEFINE f == [Top EXCEPT !.todo = @ \ {s}]
             g == SetTop(f)
  <2>4. f \in Frame /\ f.op = Top.op /\ f.obj = Top.obj /\ f.todo \subseteq Top.todo
    BY <2>3 DEF Frame
  <2>5. g = [i \in DOMAIN stack |-> IF i = Len(stack) THEN f ELSE stack[i]]
    BY <1>o DEF SetTop, GoodStack
  <2>6. FrameFits(f, made)
    BY <2>3, <2>4 DEF FrameFits
  <2>7. s \in Sockets /\ BeginClose(s, g)
    BY <2>2, <2>3 DEF Frame
  <2> HIDE DEF f
  <2>8. /\ DOMAIN g = DOMAIN stack
        /\ \A i \in DOMAIN stack :
              /\ g[i] \in Frame /\ FrameFits(g[i], made)
              /\ g[i].op = stack[i].op /\ g[i].obj = stack[i].obj
    BY <1>o, <2>4, <2>5, <2>6 DEF GoodStack, Top
  <2>9. g = [i \in DOMAIN stack |-> g[i]]
    BY <2>5
  <2> HIDE DEF g
  <2>10. GoodStack(g, made)
    <3>1. GoodStack([i \in DOMAIN stack |-> g[i]], made)
      BY <2>8, MapFits DEF TypeOK
    <3>2. QED
      BY <2>9, <3>1
  <2>11. /\ \A x \in Sockets : Ends(x) => Ends(x)'
         /\ \A x \in ctx_ref \ ctx_ref' : Ends(x)'
    BY <2>7, <2>8, <2>10, CloseEnds
  <2>12. QED
    BY <1>6, <1>u, <2>11, OutliveKeeps DEF CloseListed
<1>7. CASE CallbackReturns
  <2>1. stack # << >> /\ stack' = Pop /\ closed' = closed \cup {Top.obj}
    BY <1>7 DEF CallbackReturns, InCallback, TopIs, EndClose
  <2>2. \A x \in Sockets : Ends(x) => Ends(x)'
    BY <2>1, ClosingPopped DEF Ends
  <2>3. QED
    BY <1>7, <1>u, <2>2, OutliveKeeps DEF CallbackReturns
<1>8. CASE \E c \in Contexts : Destroy(c) \/ Shutdown(c)
  <2>1. PICK c \in Contexts : Destroy(c) \/ Shutdown(c)
    BY <1>8
  <2>2. \A x \in Sockets : IsClosing(x) => IsClosing(x)'
    BY <2>1, BeginWalkClosing DEF Destroy, Shutdown
  <2>3. QED
    BY <1>q, <2>1, <2>2 DEF Destroy, Shutdown
<1>9. CASE WalkEnds
  <2>1. /\ stack # << >> /\ Top.op # "close" /\ Top = stack[Len(stack)]
        /\ \A i \in DOMAIN stack : stack[i] \in Frame
    BY <1>9 DEF WalkEnds, TopIs, Top, TypeOK, ControlType
  <2>2. /\ DOMAIN stack' = DOMAIN stack
        /\ \A i \in DOMAIN stack : /\ stack'[i].obj = stack[i].obj
                                   /\ stack[i].op = "close" => stack'[i].op = "close"
    BY <1>9, <2>1 DEF WalkEnds, Frame
  <2>3. QED
    BY <1>9, <1>q, <2>2, ClosingRewritten DEF WalkEnds
<1>10. CASE Term \/ TermInterrupted \/ Stop
  <2>1. /\ stack # << >> /\ Top.op # "close" /\ stack' = Pop /\ closed \subseteq closed'
        /\ UNCHANGED <<made, held, finalized, ctx, ctx_ref>>
    BY <1>10 DEF Term, TermInterrupted, Stop, TopIs
  <2>2. QED
    BY <1>q, <2>1, ClosingPopped
<1>11. ASSUME NEW c \in Contexts, CollectContext(c)
      PROVE  OutliveOK'
  <2>1. /\ finalized' = finalized \cup {c} /\ UNCHANGED <<made, held, ctx, ctx_ref, closed>>
        /\ c \notin held /\ \A s \in ctx_ref : ctx[s] # c
        /\ \A s \in Sockets : ctx[s] = c => ~Collectable(s)
    BY <1>11 DEF CollectContext, Collectable, Reachable
  <2>2. \A x \in Sockets : IsClosing(x) => IsClosing(x)'
    BY <1>11, <1>p, BeginWalkClosing DEF CollectContext
  <2>3. ASSUME NEW x \in Sockets
        PROVE  KeepsContext(x)'
    <3>1. KeepsContext(x)
      BY DEF OutliveOK
    <3>2. CASE ctx[x] = NoContext \/ x \in closed \/ IsClosing(x)
      BY <2>1, <2>2, <3>2 DEF KeepsContext
    <3>3. CASE /\ ctx[x] # NoContext /\ ~IsClosing(x)
               /\ ctx[x] \notin finalized
               /\ x \in ctx_ref \/ x \notin held \cup finalized
      <4>1. ASSUME ctx[x] = c
            PROVE  FALSE
        <5>1. x \in made \ finalized /\ x \notin held
          BY <1>u, <2>1, <3>3, <4>1
        <5>2. \A s \in ctx_ref : ctx[s] # x
          BY <1>o, ObjectsAssumption DEF RefsType, TypeOK, PointersType
        <5>3. OnStack(x)
          BY <2>1, <4>1, <5>1, <5>2 DEF Collectable, Reachable
        <5>4. IsClosing(x)
          BY <1>o, <5>3, ObjectsAssumption DEF OnStack, IsClosing, GoodStack, FrameFits
        <5>5. QED
          BY <3>3, <5>4
      <4>2. x # c
        BY ObjectsAssumption
      <4>3. QED
        BY <2>1, <3>3, <4>1, <4>2 DEF KeepsContext
    <3>4. QED
      BY <3>1, <3>2, <3>3 DEF KeepsContext
  <2>4. QED
    BY <2>1, <2>3 DEF OutliveOK
<1>12. QED
  BY <1>1, <1>2, <1>3, <1>4, <1>5, <1>6, <1>7, <1>8, <1>9, <1>10, <1>11 DEF Next

(* The collector never takes a context while a socket of it is open,       *)
(* whatever the application does.  It may take it from the moment the      *)
(* socket's close has begun.                                               *)
THEOREM ContextsOutliveSockets == Spec => []ContextOutlivesSocket
<1>1. Init => TypeOK /\ OutliveOK
  BY TypeInit DEF Init, OutliveOK, KeepsContext
<1>2. TypeOK /\ OutliveOK /\ [Next]_vars => TypeOK' /\ OutliveOK'
  BY TypeStep, OutliveStep
<1>3. TypeOK /\ OutliveOK => ContextOutlivesSocket
  BY DEF OutliveOK, KeepsContext, ContextOutlivesSocket
<1>4. QED
  BY <1>1, <1>2, <1>3, PTL DEF Spec
=============================================================================
