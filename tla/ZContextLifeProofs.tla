------------------------- MODULE ZContextLifeProofs -------------------------
(***************************************************************************)
(* More theorems about ZContext: when no assertion fails at all, when      *)
(* destroy leaves no socket to libzmq, and that the objects live as        *)
(* Lifecycle says.                                                         *)
(***************************************************************************)
EXTENDS ZContextProofs

(* No socket is closed, and no context destroyed, inside a callback of     *)
(* their own, be it by the collector; native sockets are not shared, and a *)
(* context lists its own sockets only.                                     *)
Plain == Uses \cap {"reenter", "orphan", "handles", "adopt"} = {}

(* Besides, every socket is in the list of its context; or it is the       *)
(* context's own zmq_ctx_term that waits for those that are not.           *)
Orderly == Plain /\ ("wrap" \in Uses => Uses \cap {"create", "raise"} = {})

ClosingIn(stk) == {stk[i].obj : i \in {j \in DOMAIN stk : stk[j].op = "close"}}

(* An object has one waiting call, and is not closed before it ends.  A    *)
(* context is not walked above a callback of one of its sockets; so what   *)
(* the walk finds is never in the middle of a close.                       *)
StackOK(stk, gone, home) ==
    /\ \A i, j \in DOMAIN stk : stk[i].obj = stk[j].obj => i = j
    /\ \A i \in DOMAIN stk : stk[i].obj \notin gone
    /\ \A i, j \in DOMAIN stk :
          i < j /\ stk[i].op = "close" => home[stk[i].obj] # stk[j].obj
    /\ \A i \in DOMAIN stk : stk[i].op # "close" =>
          \A s \in stk[i].todo : home[s] = stk[i].obj

(* The context of a socket that is not closed finds it: in its list, or,   *)
(* when it walks the list, among what is left or in a callback.            *)
ListOK(stk, alive, home, lists) ==
    \A s \in alive :
        /\ (\A j \in DOMAIN stk : stk[j].obj # home[s]) => s \in lists[home[s]]
        /\ \A j \in DOMAIN stk : stk[j].obj = home[s] =>
              /\ stk[j].op \in {"destroy", "shutdown"}
              /\ s \in stk[j].todo \/ s \in ClosingIn(stk)

HandlesOK ==
    /\ opened = Alive
    /\ \A s \in Sockets : ctx[s] = NoContext <=> s \notin made
    /\ \A s \in Sockets \cap made : ctx[s] \in made
    /\ \A c \in Contexts : \A s \in autoclose[c] : ctx[s] = c
    /\ "wrap" \notin Uses =>
          /\ borrowed = {} /\ terminated \subseteq closed
          /\ \A c \in Contexts : native[c] = c

(* What keeps the collector from the context of a socket.                  *)
KeptOK ==
    /\ held \cap finalized = {}
    /\ \A s \in Alive : \/ s \in ctx_ref \/ s \in ClosingIn(stack)
                        \/ "raise" \in Uses /\ s \notin held \cup finalized
    /\ \A s \in Alive : ctx[s] \notin closed \cup finalized

ListInv ==
    Uses \cap {"create", "raise"} = {} => ListOK(stack, Alive, ctx, autoclose)

FaultOK == fault = "none" \/ ("wrap" \in Uses /\ fault = "dangling")

LifeOK ==
    /\ StackOK(stack, closed, ctx)
    /\ HandlesOK /\ KeptOK /\ ListInv /\ FaultOK

LifeInv == CountInv /\ LifeOK

-----------------------------------------------------------------------------
(* The waiting calls.                                                      *)
LEMMA FramesAre ==
    ASSUME NEW stk, NEW born, GoodStack(stk, born)
    PROVE  /\ stk \in Seq(Frame) /\ Len(stk) \in Nat /\ DOMAIN stk = 1 .. Len(stk)
           /\ \A i \in DOMAIN stk :
                 /\ stk[i] \in Frame /\ stk[i].obj \in born
                 /\ stk[i].todo \subseteq born \cap Sockets
                 /\ stk[i].op = "close" => stk[i].obj \in Sockets
                 /\ stk[i].op # "close" => stk[i].obj \in Contexts
<1>1. stk \in Seq(Frame) /\ \A i \in DOMAIN stk : FrameFits(stk[i], born)
  BY DEF GoodStack
<1>2. Len(stk) \in Nat /\ DOMAIN stk = 1 .. Len(stk)
  BY <1>1, LenProperties
<1>3. \A i \in DOMAIN stk : stk[i] \in Frame
  BY <1>1, <1>2, ElementOfSeq
<1>4. \A i \in DOMAIN stk : stk[i].todo \subseteq Sockets
  BY <1>3 DEF Frame
<1>5. QED
  BY <1>1, <1>2, <1>3, <1>4 DEF FrameFits

LEMMA ClosingIs ==
    ASSUME NEW stk, NEW s
    PROVE  s \in ClosingIn(stk) <=>
               \E i \in DOMAIN stk : stk[i].op = "close" /\ stk[i].obj = s
BY DEF ClosingIn

LEMMA ClosingAre ==
    ASSUME NEW stk, NEW born, GoodStack(stk, born)
    PROVE  /\ ClosingIn(stk) \subseteq Sockets \cap born
           /\ \A s \in Sockets : (\E i \in DOMAIN stk : stk[i].obj = s)
                                    => s \in ClosingIn(stk)
BY FramesAre, ClosingIs, ObjectsAssumption

(* A call that begins.                                                     *)
LEMMA PushOK ==
    ASSUME NEW stk, NEW born, GoodStack(stk, born),
           NEW gone, NEW home, StackOK(stk, gone, home),
           NEW f \in Frame, f.obj \notin gone,
           \A i \in DOMAIN stk : stk[i].obj # f.obj,
           \A s \in ClosingIn(stk) : home[s] # f.obj,
           f.op # "close" => \A s \in f.todo : home[s] = f.obj
    PROVE  /\ StackOK(Append(stk, f), gone, home)
           /\ ClosingIn(Append(stk, f)) = ClosingIn(stk) \cup
                                          (IF f.op = "close" THEN {f.obj} ELSE {})
           /\ DOMAIN Append(stk, f) = DOMAIN stk \cup {Len(stk) + 1}
           /\ \A i \in DOMAIN stk : Append(stk, f)[i] = stk[i] /\ i # Len(stk) + 1
           /\ Append(stk, f)[Len(stk) + 1] = f
<1> DEFINE r == Append(stk, f)
           n == Len(stk)
<1>1. stk \in Seq(Frame) /\ n \in Nat /\ DOMAIN stk = 1 .. n
  BY FramesAre
<1>2. /\ DOMAIN r = 1 .. n + 1 /\ r[n + 1] = f
      /\ \A i \in 1 .. n : r[i] = stk[i]
  BY <1>1, AppendProperties
<1> HIDE DEF r, n
<1>3. DOMAIN r = DOMAIN stk \cup {n + 1} /\ \A i \in DOMAIN stk : i # n + 1 /\ i < n + 1
  BY <1>1, <1>2
<1>4. \A i \in DOMAIN stk : r[i] = stk[i]
  BY <1>1, <1>2
<1>5. ClosingIn(r) = ClosingIn(stk) \cup (IF f.op = "close" THEN {f.obj} ELSE {})
  <2>1. ASSUME NEW x
        PROVE  x \in ClosingIn(r) <=> x \in ClosingIn(stk) \/ (f.op = "close" /\ x = f.obj)
    <3>1. (\E i \in DOMAIN r : r[i].op = "close" /\ r[i].obj = x)
          <=> \/ \E i \in DOMAIN stk : stk[i].op = "close" /\ stk[i].obj = x
              \/ f.op = "close" /\ x = f.obj
      BY <1>2, <1>3, <1>4
    <3>2. QED
      BY <3>1, ClosingIs
  <2>2. QED
    BY <2>1
<1>6. StackOK(r, gone, home)
  <2>1. \A i, j \in DOMAIN r : r[i].obj = r[j].obj => i = j
    BY <1>2, <1>3, <1>4, ZenonT(60) DEF StackOK
  <2>2. \A i \in DOMAIN r : r[i].obj \notin gone
    BY <1>2, <1>3, <1>4 DEF StackOK
  <2>3. ASSUME NEW i \in DOMAIN r, NEW j \in DOMAIN r, i < j, r[i].op = "close"
        PROVE  home[r[i].obj] # r[j].obj
    <3>1. i \in DOMAIN stk
      BY <1>1, <1>3, <2>3
    <3>2. CASE j = n + 1
      BY <1>2, <1>4, <2>3, <3>1, <3>2 DEF ClosingIn
    <3>3. CASE j \in DOMAIN stk
      BY <1>4, <2>3, <3>1, <3>3 DEF StackOK
    <3>4. QED
      BY <1>3, <3>2, <3>3
  <2>4. ASSUME NEW i \in DOMAIN r, r[i].op # "close", NEW s \in r[i].todo
        PROVE  home[s] = r[i].obj
    <3>1. CASE i = n + 1
      BY <1>2, <2>4, <3>1
    <3>2. CASE i \in DOMAIN stk
      BY <1>4, <2>4, <3>2 DEF StackOK
    <3>3. QED
      BY <1>3, <3>1, <3>2
  <2>5. QED
    BY <2>1, <2>2, <2>3, <2>4 DEF StackOK
<1>7. QED
  BY <1>2, <1>3, <1>4, <1>5, <1>6 DEF r, n

(* Calls rewritten in place, their objects and functions unchanged.        *)
LEMMA RewriteOK ==
    ASSUME NEW stk, NEW r, DOMAIN r = DOMAIN stk, NEW gone, NEW home,
           StackOK(stk, gone, home),
           \A i \in DOMAIN stk : r[i].obj = stk[i].obj
                                 /\ (r[i].op = "close" <=> stk[i].op = "close"),
           \A i \in DOMAIN stk : stk[i].op # "close" =>
                                 \A s \in r[i].todo : home[s] = stk[i].obj
    PROVE  StackOK(r, gone, home) /\ ClosingIn(r) = ClosingIn(stk)
<1>1. StackOK(r, gone, home)
  BY DEF StackOK
<1>2. ClosingIn(r) = ClosingIn(stk)
  BY DEF ClosingIn
<1>3. QED
  BY <1>1, <1>2

(* The last call returns.                                                  *)
LEMMA ReturnOK ==
    ASSUME TypeOK, stack # << >>, NEW gone, NEW home, StackOK(stack, gone, home)
    PROVE  /\ StackOK(Pop, gone \cup {Top.obj}, home)
           /\ ClosingIn(Pop) = ClosingIn(stack) \ {Top.obj}
           /\ DOMAIN Pop \subseteq DOMAIN stack
           /\ \A i \in DOMAIN Pop : Pop[i] = stack[i] /\ stack[i].obj # Top.obj
           /\ \A i \in DOMAIN stack : stack[i].obj # Top.obj => i \in DOMAIN Pop
<1>1. stack \in Seq(Frame) /\ Len(stack) \in Nat \ {0} /\ DOMAIN stack = 1 .. Len(stack)
  BY EmptySeq DEF TypeOK, ControlType
<1>2. DOMAIN Pop = 1 .. Len(stack) - 1 /\ \A i \in DOMAIN Pop : Pop[i] = stack[i]
  BY <1>1 DEF Pop
<1>3. /\ DOMAIN stack = DOMAIN Pop \cup {Len(stack)}
      /\ Len(stack) \notin DOMAIN Pop
  BY <1>1, <1>2
<1>4. Top = stack[Len(stack)]
  BY DEF Top
<1>5. \A i \in DOMAIN Pop : stack[i].obj # Top.obj
  BY <1>3, <1>4 DEF StackOK
<1> HIDE DEF Pop, Top
<1>6. StackOK(Pop, gone \cup {Top.obj}, home)
  <2>1. \A i, j \in DOMAIN Pop : Pop[i].obj = Pop[j].obj => i = j
    BY <1>2, <1>3 DEF StackOK
  <2>2. \A i \in DOMAIN Pop : Pop[i].obj \notin gone \cup {Top.obj}
    BY <1>2, <1>3, <1>5 DEF StackOK
  <2>3. ASSUME NEW i \in DOMAIN Pop, NEW j \in DOMAIN Pop, i < j, Pop[i].op = "close"
        PROVE  home[Pop[i].obj] # Pop[j].obj
    <3>1. i \in DOMAIN stack /\ j \in DOMAIN stack /\ Pop[i] = stack[i] /\ Pop[j] = stack[j]
      BY <1>2, <1>3
    <3>2. QED
      BY <2>3, <3>1 DEF StackOK
  <2>4. \A i \in DOMAIN Pop : Pop[i].op # "close" =>
            \A s \in Pop[i].todo : home[s] = Pop[i].obj
    BY <1>2, <1>3 DEF StackOK
  <2>5. QED
    BY <2>1, <2>2, <2>3, <2>4 DEF StackOK
<1>7. ClosingIn(Pop) = ClosingIn(stack) \ {Top.obj}
  <2>1. ASSUME NEW x
        PROVE  x \in ClosingIn(Pop) <=> x \in ClosingIn(stack) /\ x # Top.obj
    <3>1. (\E i \in DOMAIN Pop : Pop[i].op = "close" /\ Pop[i].obj = x)
          <=> /\ \E i \in DOMAIN stack : stack[i].op = "close" /\ stack[i].obj = x
              /\ x # Top.obj
      BY <1>2, <1>3, <1>4, <1>5
    <3>2. QED
      BY <3>1, ClosingIs
  <2>2. QED
    BY <2>1
<1>8. QED
  BY <1>2, <1>3, <1>4, <1>5, <1>6, <1>7

-----------------------------------------------------------------------------
(* Every step keeps the invariant.                                         *)
LEMMA LifeTypes ==
    ASSUME LifeInv
    PROVE  /\ TypeOK /\ OwnHandles /\ CountIsOpenSockets
           /\ ObjectsType /\ PointersType /\ RefsType /\ LibzmqType
           /\ GoodStack(stack, made)
           /\ StackOK(stack, closed, ctx)
           /\ HandlesOK /\ KeptOK /\ ListInv /\ FaultOK
BY StackIsGood DEF LifeInv, LifeOK, CountInv, TypeOK

LEMMA LifeInit == Init => LifeInv
<1> SUFFICES ASSUME Init
             PROVE  LifeInv
  OBVIOUS
<1>1. TypeOK
  BY TypeInit
<1>2. OwnHandles
  BY DEF Init, OwnHandles
<1>3. CountIsOpenSockets
  <2>1. \A c \in Contexts : OpenSocketsOf(c) = {}
    BY ObjectsAssumption DEF Init, OpenSocketsOf
  <2>2. QED
    BY <2>1, FS_EmptySet DEF Init, CountIsOpenSockets
<1>4. StackOK(stack, closed, ctx)
  BY DEF Init, StackOK
<1>5. HandlesOK /\ KeptOK /\ ListInv /\ FaultOK
  BY DEF Init, HandlesOK, KeptOK, ListInv, ListOK, FaultOK, Alive
<1>6. QED
  BY <1>1, <1>2, <1>3, <1>4, <1>5 DEF LifeInv, LifeOK, CountInv

(* A step that leaves the sockets, the lists and the calls alone; contexts *)
(* are born, or stillborn.                                                 *)
LEMMA QuietKeeps ==
    ASSUME LifeInv,
           UNCHANGED <<stack, ctx, ctx_ref, autoclose, opened, finalized, fault>>,
           made \subseteq made', made' \cap Sockets = made \cap Sockets,
           closed \subseteq closed', closed' \ closed \subseteq Contexts \ made,
           held' \subseteq held \cup (made' \ made),
           "wrap" \notin Uses => /\ borrowed' = borrowed /\ native' = native
                                 /\ terminated' \subseteq closed' \cup terminated
    PROVE  LifeOK'
<1>t. /\ ObjectsType /\ PointersType /\ RefsType /\ LibzmqType
      /\ GoodStack(stack, made) /\ StackOK(stack, closed, ctx)
      /\ HandlesOK /\ KeptOK /\ ListInv /\ FaultOK
  BY LifeTypes
<1>f. \A i \in DOMAIN stack : stack[i].obj \in made
  BY <1>t, FramesAre
<1>1. Alive' = Alive
  BY ObjectsAssumption DEF Alive
<1>2. StackOK(stack, closed, ctx)'
  <2>1. \A i \in DOMAIN stack : stack[i].obj \notin closed'
    BY <1>t, <1>f DEF StackOK
  <2>2. StackOK(stack, closed', ctx)
    BY <1>t, <2>1 DEF StackOK
  <2>3. QED
    BY <2>2 DEF StackOK
<1>3. HandlesOK'
  <2>1. opened' = Alive'
    BY <1>t, <1>1 DEF HandlesOK
  <2>2. \A s \in Sockets : ctx'[s] = NoContext <=> s \notin made'
    BY <1>t DEF HandlesOK
  <2>3. \A s \in Sockets \cap made' : ctx'[s] \in made'
    BY <1>t DEF HandlesOK
  <2>4. \A c \in Contexts : \A s \in autoclose'[c] : ctx'[s] = c
    BY <1>t DEF HandlesOK
  <2>5. "wrap" \notin Uses =>
          /\ borrowed' = {} /\ terminated' \subseteq closed'
          /\ \A c \in Contexts : native'[c] = c
    BY <1>t DEF HandlesOK
  <2>6. QED
    BY <2>1, <2>2, <2>3, <2>4, <2>5 DEF HandlesOK
<1>4. KeptOK'
  <2>1. held' \cap finalized' = {}
    BY <1>t DEF KeptOK, ObjectsType
  <2>2. \A s \in Alive' : \/ s \in ctx_ref' \/ s \in ClosingIn(stack')
                          \/ "raise" \in Uses /\ s \notin held' \cup finalized'
    <3>1. \A s \in Alive : s \in held' => s \in held
      BY DEF Alive
    <3>2. QED
      BY <1>t, <1>1, <3>1 DEF KeptOK
  <2>3. \A s \in Alive' : ctx'[s] \notin closed' \cup finalized'
    <3>1. \A s \in Alive : ctx[s] \in made
      BY <1>t DEF HandlesOK, Alive
    <3>2. QED
      BY <1>t, <1>1, <3>1 DEF KeptOK
  <2>4. QED
    BY <2>1, <2>2, <2>3 DEF KeptOK
<1>5. ListInv'
  BY <1>t, <1>1 DEF ListInv, ListOK
<1>6. FaultOK'
  BY <1>t DEF FaultOK
<1>7. QED
  BY <1>2, <1>3, <1>4, <1>5, <1>6 DEF LifeOK

LEMMA QuietSteps ==
    ASSUME LifeInv, Plain,
           \/ \E c \in Contexts : NewContext(c) \/ NewContextFails(c)
           \/ \E c, d \in Contexts : InitCtx(c, d)
           \/ \E s \in Sockets : OnClose(s) \/ OnCloseNil(s)
           \/ \E obj \in Objects : Drop(obj)
           \/ UNCHANGED vars
    PROVE  LifeOK'
<1> USE DEF objects, flags, pointers, libzmq, closing, callbacks
<1>t. TypeOK /\ ObjectsType /\ HandlesOK
  BY LifeTypes
<1>1. ASSUME NEW c \in Contexts, NewContext(c)
      PROVE  LifeOK'
  BY <1>1, QuietKeeps, ObjectsAssumption DEF NewContext
<1>2. ASSUME NEW c \in Contexts, NewContextFails(c)
      PROVE  LifeOK'
  BY <1>2, QuietKeeps, ObjectsAssumption DEF NewContextFails
<1>3. ASSUME NEW c \in Contexts, NEW d \in Contexts, InitCtx(c, d)
      PROVE  LifeOK'
  BY <1>3, QuietKeeps, ObjectsAssumption DEF InitCtx
<1>4. ASSUME NEW s \in Sockets, OnClose(s) \/ OnCloseNil(s)
      PROVE  LifeOK'
  BY <1>4, QuietKeeps DEF OnClose, OnCloseNil
<1>5. ASSUME NEW obj \in Objects, Drop(obj)
      PROVE  LifeOK'
  BY <1>5, QuietKeeps DEF Drop
<1>6. CASE UNCHANGED vars
  BY <1>6, QuietKeeps DEF vars
<1>7. QED
  BY <1>1, <1>2, <1>3, <1>4, <1>5, <1>6

(* A key stored in the list of c.                                          *)
LEMMA StoreKeyIs ==
    ASSUME TypeOK, NEW s \in Sockets, NEW c \in Contexts, StoreKey(s, c)
    PROVE  /\ autoclose' = [autoclose EXCEPT ![c] = @ \cup {s}]
           /\ autoclose \in [Contexts -> SUBSET (Sockets \cap made)]
           /\ DOMAIN stack' = DOMAIN stack
           /\ \A i \in DOMAIN stack :
                 /\ stack'[i].obj = stack[i].obj /\ stack'[i].op = stack[i].op
                 /\ stack'[i].todo \subseteq stack[i].todo \cup {s}
                 /\ stack[i].obj # c => stack'[i] = stack[i]
           /\ ~OnStack(c) => stack' = stack
<1>t. /\ GoodStack(stack, made)
      /\ autoclose \in [Contexts -> SUBSET (Sockets \cap made)]
  BY StackIsGood DEF TypeOK, RefsType
<1>f. \A i \in DOMAIN stack : stack[i] \in Frame
  BY <1>t, FramesAre
<1>1. PICK missed \in SUBSET Sockets :
        stack' = [i \in DOMAIN stack |->
                    IF Walks(stack[i], c)
                    THEN [stack[i] EXCEPT !.todo = (@ \cup {s}) \ missed]
                    ELSE stack[i]]
  BY DEF StoreKey
<1>2. ASSUME NEW i \in DOMAIN stack
      PROVE  /\ stack'[i].obj = stack[i].obj /\ stack'[i].op = stack[i].op
             /\ stack'[i].todo \subseteq stack[i].todo \cup {s}
             /\ stack[i].obj # c => stack'[i] = stack[i]
  <2>1. stack[i] \in Frame
    BY <1>f
  <2>2. stack'[i] = IF Walks(stack[i], c)
                    THEN [stack[i] EXCEPT !.todo = (@ \cup {s}) \ missed]
                    ELSE stack[i]
    BY <1>1
  <2>3. QED
    BY <2>1, <2>2 DEF Frame, Walks
<1>3. ASSUME ~OnStack(c)
      PROVE  stack' = stack
  <2>1. stack' = [i \in DOMAIN stack |-> stack[i]]
    BY <1>1, <1>3 DEF OnStack, Walks
  <2>2. stack = [i \in DOMAIN stack |-> stack[i]]
    <3>1. stack \in Seq(Frame) /\ DOMAIN stack = 1 .. Len(stack)
      BY <1>t, FramesAre
    <3>2. QED
      BY <3>1
  <2>3. QED
    BY <2>1, <2>2
<1>4. DOMAIN stack' = DOMAIN stack /\ autoclose' = [autoclose EXCEPT ![c] = @ \cup {s}]
  BY <1>1 DEF StoreKey
<1>5. QED
  BY <1>t, <1>2, <1>3, <1>4

(* A socket is created; it may be closed again, raised away or listed.     *)
LEMMA CreateKeeps ==
    ASSUME LifeInv, Plain, NEW c \in Contexts, NEW s \in Sockets,
           CreateSocket(c, s),
           UNCHANGED <<finalized, borrowed, native, terminated, fault>>,
           \/ /\ closed' = closed \cup {s}
              /\ UNCHANGED <<held, opened, ctx_ref, autoclose, stack>>
           \/ /\ "raise" \in Uses
              /\ opened' = opened \cup {s}
              /\ UNCHANGED <<held, closed, ctx_ref, autoclose, stack>>
           \/ /\ held' = held \cup {s} /\ opened' = opened \cup {s}
              /\ StoreKey(s, c)
              /\ ctx_ref' = ctx_ref \cup {s}
              /\ UNCHANGED closed
    PROVE  LifeOK'
<1>t. /\ TypeOK /\ ObjectsType /\ PointersType /\ RefsType /\ LibzmqType
      /\ GoodStack(stack, made) /\ StackOK(stack, closed, ctx)
      /\ HandlesOK /\ KeptOK /\ ListInv /\ FaultOK
  BY LifeTypes
<1>c. /\ s \notin made /\ made' = made \cup {s} /\ ctx' = [ctx EXCEPT ![s] = c]
      /\ OnStack(c) => "create" \in Uses
      /\ c \in made /\ c \notin closed /\ c \notin finalized /\ c # NoContext
  BY <1>t, ObjectsAssumption DEF CreateSocket, Usable, ObjectsType, KeptOK
<1>x. ctx'[s] = c /\ \A x \in Sockets : x # s => ctx'[x] = ctx[x]
  BY <1>t, <1>c DEF PointersType
<1>m. s \notin closed /\ s \notin held /\ s \notin finalized /\ s \notin Contexts
      /\ s \notin Alive
  BY <1>t, <1>c, ObjectsAssumption DEF ObjectsType, Alive
<1>f. \A i \in DOMAIN stack : /\ stack[i].obj # s /\ stack[i].obj \in made
                              /\ stack[i].todo \subseteq made \cap Sockets
                              /\ stack[i].op = "close" => stack[i].obj \in Sockets
                              /\ stack[i].op # "close" => stack[i].obj \in Contexts
  BY <1>t, <1>c, FramesAre
<1>b. autoclose \in [Contexts -> SUBSET (Sockets \cap made)]
  BY <1>t DEF RefsType
<1>s. StackOK(stack, closed', ctx')
  <2>1. \A i, j \in DOMAIN stack : stack[i].obj = stack[j].obj => i = j
    BY <1>t DEF StackOK
  <2>2. \A i \in DOMAIN stack : stack[i].obj \notin closed'
    BY <1>t, <1>f DEF StackOK
  <2>3. \A i, j \in DOMAIN stack :
          i < j /\ stack[i].op = "close" => ctx'[stack[i].obj] # stack[j].obj
    BY <1>t, <1>f, <1>x DEF StackOK
  <2>4. \A i \in DOMAIN stack : stack[i].op # "close" =>
          \A x \in stack[i].todo : ctx'[x] = stack[i].obj
    <3>1. \A i \in DOMAIN stack : \A x \in stack[i].todo : x \in Sockets /\ x # s
      BY <1>f, <1>c
    <3>2. QED
      BY <1>t, <1>x, <3>1 DEF StackOK
  <2>5. QED
    BY <2>1, <2>2, <2>3, <2>4 DEF StackOK
<1>k. /\ StackOK(stack', closed', ctx') /\ ClosingIn(stack') = ClosingIn(stack)
      /\ OnStack(c) \/ stack' = stack
  <2>1. CASE UNCHANGED <<autoclose, stack>>
    BY <1>s, <2>1
  <2>2. CASE StoreKey(s, c)
    <3>1. /\ autoclose' = [autoclose EXCEPT ![c] = @ \cup {s}]
          /\ DOMAIN stack' = DOMAIN stack
          /\ \A i \in DOMAIN stack :
                /\ stack'[i].obj = stack[i].obj /\ stack'[i].op = stack[i].op
                /\ stack'[i].todo \subseteq stack[i].todo \cup {s}
                /\ stack[i].obj # c => stack'[i] = stack[i]
          /\ ~OnStack(c) => stack' = stack
      BY <1>t, <2>2, StoreKeyIs
    <3>2. \A i \in DOMAIN stack : stack[i].op # "close" =>
              \A x \in stack'[i].todo : ctx'[x] = stack[i].obj
      <4>1. ASSUME NEW i \in DOMAIN stack, stack[i].op # "close",
                   NEW x \in stack'[i].todo
            PROVE  ctx'[x] = stack[i].obj
        <5>1. CASE stack[i].obj = c
          BY <1>s, <1>x, <3>1, <4>1, <5>1 DEF StackOK
        <5>2. CASE stack[i].obj # c
          BY <1>s, <3>1, <4>1, <5>2 DEF StackOK
        <5>3. QED
          BY <5>1, <5>2
      <4>2. QED
        BY <4>1
    <3>3. StackOK(stack', closed', ctx') /\ ClosingIn(stack') = ClosingIn(stack)
      BY <1>s, <3>1, <3>2, RewriteOK
    <3>4. QED
      BY <3>1, <3>3
  <2>3. QED
    BY <2>1, <2>2
<1>n. ASSUME NEW d \in Contexts, NEW x
      PROVE  /\ x \in autoclose[d] => x \in autoclose'[d] /\ x \in Sockets /\ x \in made
             /\ x \in autoclose'[d] => x \in autoclose[d] \/ (x = s /\ d = c)
  <2>1. CASE UNCHANGED autoclose
    BY <1>b, <2>1
  <2>2. CASE StoreKey(s, c)
    <3>1. autoclose' = [autoclose EXCEPT ![c] = @ \cup {s}]
      BY <2>2 DEF StoreKey
    <3>2. QED
      BY <1>b, <3>1
  <2>3. QED
    BY <2>1, <2>2
<1>a. \/ closed' = closed \cup {s} /\ Alive' = Alive
      \/ closed' = closed /\ Alive' = Alive \cup {s}
  <2>1. CASE closed' = closed \cup {s}
    BY <1>c, <1>m, <2>1 DEF Alive
  <2>2. CASE closed' = closed
    BY <1>c, <1>m, <2>2 DEF Alive
  <2>3. QED
    BY <2>1, <2>2
<1>h. HandlesOK'
  <2>1. opened' = Alive'
    <3>1. CASE closed' = closed \cup {s}
      BY <1>t, <1>a, <1>m, <3>1 DEF HandlesOK
    <3>2. CASE closed' = closed
      BY <1>t, <1>a, <1>m, <3>2 DEF HandlesOK
    <3>3. QED
      BY <1>a, <3>1, <3>2
  <2>2. \A x \in Sockets : ctx'[x] = NoContext <=> x \notin made'
    BY <1>t, <1>c, <1>x DEF HandlesOK
  <2>3. \A x \in Sockets \cap made' : ctx'[x] \in made'
    BY <1>t, <1>c, <1>x DEF HandlesOK
  <2>4. \A d \in Contexts : \A x \in autoclose'[d] : ctx'[x] = d
    <3>1. ASSUME NEW d \in Contexts, NEW x \in autoclose'[d]
          PROVE  ctx'[x] = d
      <4>1. CASE x \in autoclose[d]
        <5>1. x \in Sockets /\ x # s
          BY <1>c, <1>n, <4>1
        <5>2. QED
          BY <1>t, <1>x, <4>1, <5>1 DEF HandlesOK
      <4>2. CASE x = s /\ d = c
        BY <1>x, <4>2
      <4>3. QED
        BY <1>n, <3>1, <4>1, <4>2
    <3>2. QED
      BY <3>1
  <2>5. "wrap" \notin Uses =>
          /\ borrowed' = {} /\ terminated' \subseteq closed'
          /\ \A d \in Contexts : native'[d] = d
    BY <1>t DEF HandlesOK
  <2>6. QED
    BY <2>1, <2>2, <2>3, <2>4, <2>5 DEF HandlesOK
<1>p. KeptOK'
  <2>1. held' \cap finalized' = {}
    BY <1>t, <1>m DEF KeptOK
  <2>2. \A x \in Alive' : \/ x \in ctx_ref' \/ x \in ClosingIn(stack')
                          \/ "raise" \in Uses /\ x \notin held' \cup finalized'
    <3>1. ASSUME NEW x \in Alive
          PROVE  \/ x \in ctx_ref' \/ x \in ClosingIn(stack')
                 \/ "raise" \in Uses /\ x \notin held' \cup finalized'
      BY <1>t, <1>k, <1>m DEF KeptOK
    <3>2. ASSUME closed' = closed
          PROVE  \/ s \in ctx_ref' \/ s \in ClosingIn(stack')
                 \/ "raise" \in Uses /\ s \notin held' \cup finalized'
      <4>1. closed' # closed \cup {s}
        BY <1>m, <3>2
      <4>2. QED
        BY <1>m, <4>1
    <3>3. QED
      BY <1>a, <3>1, <3>2
  <2>3. \A x \in Alive' : ctx'[x] \notin closed' \cup finalized'
    <3>1. ASSUME NEW x \in Alive
          PROVE  ctx'[x] \notin closed' \cup finalized'
      <4>1. x \in Sockets /\ x # s /\ ctx[x] \in made
        BY <1>t, <1>m DEF Alive, HandlesOK
      <4>2. ctx[x] # s
        BY <1>c, <4>1
      <4>3. QED
        BY <1>t, <1>a, <1>x, <4>1, <4>2 DEF KeptOK
    <3>2. closed' = closed => ctx'[s] \notin closed' \cup finalized'
      BY <1>c, <1>x
    <3>3. QED
      BY <1>a, <3>1, <3>2
  <2>4. QED
    BY <2>1, <2>2, <2>3 DEF KeptOK
<1>l. ListInv'
  <2> SUFFICES ASSUME Uses \cap {"create", "raise"} = {}
               PROVE  ListOK(stack', Alive', ctx', autoclose')
    BY DEF ListInv
  <2>1. ~OnStack(c) /\ stack' = stack
    BY <1>c, <1>k
  <2>2. ListOK(stack, Alive, ctx, autoclose)
    BY <1>t DEF ListInv
  <2>3. ASSUME NEW x \in Alive
        PROVE  /\ (\A j \in DOMAIN stack : stack[j].obj # ctx'[x]) => x \in autoclose'[ctx'[x]]
               /\ \A j \in DOMAIN stack : stack[j].obj = ctx'[x] =>
                     /\ stack[j].op \in {"destroy", "shutdown"}
                     /\ x \in stack[j].todo \/ x \in ClosingIn(stack)
    <3>1. x \in Sockets /\ x # s /\ x \in made
      BY <1>m DEF Alive
    <3>2. ctx'[x] = ctx[x] /\ ctx[x] \in Contexts
      BY <1>t, <1>x, <3>1 DEF HandlesOK, PointersType
    <3>3. x \in autoclose[ctx[x]] => x \in autoclose'[ctx[x]]
      BY <1>n, <3>2
    <3>4. QED
      BY <2>2, <3>2, <3>3 DEF ListOK
  <2>4. ASSUME closed' = closed
        PROVE  /\ s \in autoclose'[ctx'[s]]
               /\ \A j \in DOMAIN stack : stack[j].obj # ctx'[s]
    <3>1. closed' # closed \cup {s}
      BY <1>m, <2>4
    <3>2. StoreKey(s, c)
      BY <3>1
    <3>3. s \in autoclose'[c]
      BY <1>t, <1>b, <3>2, StoreKeyIs
    <3>4. QED
      BY <1>x, <2>1, <3>3 DEF OnStack
  <2>5. QED
    BY <1>a, <2>1, <2>3, <2>4 DEF ListOK
<1>q. FaultOK'
  BY <1>t DEF FaultOK
<1>z. QED
  BY <1>k, <1>h, <1>p, <1>l, <1>q DEF LifeOK

LEMMA CreateSteps ==
    ASSUME LifeInv, Plain, NEW c \in Contexts, NEW s \in Sockets,
           NewSocket(c, s) \/ NewSocketFails(c, s) \/ NewSocketRaises(c, s)
    PROVE  LifeOK'
<1> USE DEF objects, flags, pointers, libzmq, closing, callbacks
<1>1. CASE NewSocket(c, s)
  BY <1>1, CreateKeeps DEF NewSocket
<1>2. CASE NewSocketFails(c, s)
  BY <1>2, CreateKeeps DEF NewSocketFails
<1>3. CASE NewSocketRaises(c, s)
  BY <1>3, CreateKeeps DEF NewSocketRaises
<1>4. QED
  BY <1>1, <1>2, <1>3

(* The sockets, and what the collector sees of them, stay as they are.     *)
LEMMA KeptStays ==
    ASSUME LifeInv, UNCHANGED <<made, held, closed, ctx, ctx_ref>>,
           ClosingIn(stack) \subseteq ClosingIn(stack'),
           finalized' = finalized
    PROVE  Alive' = Alive /\ KeptOK'
<1>1. Alive' = Alive
  BY DEF Alive
<1>2. KeptOK
  BY LifeTypes
<1>3. QED
  BY <1>1, <1>2 DEF KeptOK

LEMMA AutocloseKeeps ==
    ASSUME LifeInv, Plain, NEW c \in Contexts, NEW s \in Sockets, Autoclose(c, s)
    PROVE  LifeOK'
<1> USE DEF objects, flags, pointers, libzmq, closing, callbacks
<1>t. /\ TypeOK /\ ObjectsType /\ PointersType
      /\ GoodStack(stack, made) /\ StackOK(stack, closed, ctx)
      /\ HandlesOK /\ KeptOK /\ ListInv /\ FaultOK
  BY LifeTypes
<1>1. /\ ctx[s] = c /\ StoreKey(s, c)
      /\ OnStack(c) => "create" \in Uses
      /\ UNCHANGED <<made, held, finalized, borrowed, native, ctx, terminated,
                     opened, closed, fault, ctx_ref>>
  BY DEF Autoclose, Plain
<1>2. /\ autoclose' = [autoclose EXCEPT ![c] = @ \cup {s}]
      /\ autoclose \in [Contexts -> SUBSET (Sockets \cap made)]
      /\ DOMAIN stack' = DOMAIN stack
      /\ \A i \in DOMAIN stack :
            /\ stack'[i].obj = stack[i].obj /\ stack'[i].op = stack[i].op
            /\ stack'[i].todo \subseteq stack[i].todo \cup {s}
            /\ stack[i].obj # c => stack'[i] = stack[i]
      /\ ~OnStack(c) => stack' = stack
  BY <1>t, <1>1, StoreKeyIs
<1>3. StackOK(stack', closed, ctx) /\ ClosingIn(stack') = ClosingIn(stack)
  <2>1. ASSUME NEW i \in DOMAIN stack, stack[i].op # "close", NEW x \in stack'[i].todo
        PROVE  ctx[x] = stack[i].obj
    <3>1. CASE stack[i].obj = c
      <4>1. x \in stack[i].todo \/ x = s
        BY <1>2, <2>1
      <4>2. x \in stack[i].todo => ctx[x] = stack[i].obj
        BY <1>t, <2>1 DEF StackOK
      <4>3. QED
        BY <1>1, <3>1, <4>1, <4>2
    <3>2. CASE stack[i].obj # c
      BY <1>t, <1>2, <2>1, <3>2 DEF StackOK
    <3>3. QED
      BY <3>1, <3>2
  <2>2. QED
    BY <1>t, <1>2, <2>1, RewriteOK
<1>4. Alive' = Alive /\ KeptOK'
  BY <1>1, <1>3, KeptStays
<1>n. ASSUME NEW d \in Contexts, NEW x
      PROVE  /\ x \in autoclose[d] => x \in autoclose'[d]
             /\ x \in autoclose'[d] => x \in autoclose[d] \/ (x = s /\ d = c)
  BY <1>2
<1>5. HandlesOK'
  <2>1. \A d \in Contexts : \A x \in autoclose'[d] : ctx'[x] = d
    <3>1. \A d \in Contexts : \A x \in autoclose[d] : ctx[x] = d
      BY <1>t DEF HandlesOK
    <3>2. ctx' = ctx /\ ctx[s] = c
      BY <1>1
    <3>3. ASSUME NEW d \in Contexts, NEW x \in autoclose'[d]
          PROVE  ctx[x] = d
      BY <1>n, <3>1, <3>2, <3>3
    <3>4. QED
      BY <3>2, <3>3
  <2>2. QED
    BY <1>t, <1>1, <1>4, <2>1 DEF HandlesOK
<1>6. ListInv'
  <2> SUFFICES ASSUME Uses \cap {"create", "raise"} = {}
               PROVE  ListOK(stack', Alive', ctx', autoclose')
    BY DEF ListInv
  <2>0. stack' = stack /\ Alive' = Alive /\ ctx' = ctx
    BY <1>1, <1>2, <1>4
  <2>1. ListOK(stack, Alive, ctx, autoclose)
    BY <1>t DEF ListInv
  <2>2. ASSUME NEW x \in Alive
        PROVE  x \in autoclose[ctx[x]] => x \in autoclose'[ctx[x]]
    <3>1. ctx[x] \in Contexts
      BY <1>t DEF Alive, HandlesOK, PointersType
    <3>2. QED
      BY <1>n, <3>1
  <2>3. QED
    BY <2>0, <2>1, <2>2 DEF ListOK
<1>7. FaultOK'
  BY <1>t, <1>1 DEF FaultOK
<1>8. QED
  BY <1>1, <1>3, <1>4, <1>5, <1>6, <1>7 DEF LifeOK

-----------------------------------------------------------------------------
(* A context starts to walk its list.                                      *)
LEMMA WalkKeeps ==
    ASSUME LifeInv, NEW c \in Contexts \cap made, c \notin closed, ~Busy(c),
           NEW op \in {"destroy", "shutdown"}, BeginWalk(op, c),
           UNCHANGED <<made, held, borrowed, native, ctx, terminated, opened,
                       closed, fault, ctx_ref, autoclose>>,
           finalized' \in {finalized, finalized \cup {c}},
           finalized' # finalized => c \notin held /\ \A x \in Alive : ctx[x] # c
    PROVE  LifeOK'
<1>t. /\ TypeOK /\ ObjectsType /\ PointersType /\ RefsType
      /\ GoodStack(stack, made) /\ StackOK(stack, closed, ctx)
      /\ HandlesOK /\ KeptOK /\ ListInv /\ FaultOK
  BY LifeTypes
<1> DEFINE f == NewFrame(op, c, autoclose[c])
           n == Len(stack)
<1>1. /\ autoclose[c] \in SUBSET Sockets
      /\ \A x \in autoclose[c] : ctx[x] = c
  BY <1>t DEF RefsType, HandlesOK
<1>2. f \in Frame /\ f.op = op /\ f.obj = c /\ f.todo = autoclose[c] /\ f.op # "close"
  BY <1>1, NewFrameType DEF Objects
<1>3. stack' = Append(stack, f)
  BY DEF BeginWalk
<1> HIDE DEF f, n
<1>4. /\ \A i \in DOMAIN stack : stack[i].obj # c
      /\ \A x \in ClosingIn(stack) : ctx[x] # c
  <2>1. ~OnStack(c) /\ \A x \in Sockets : IsClosing(x) => ctx[x] # c
    BY DEF Busy
  <2>2. \A x \in ClosingIn(stack) : x \in Sockets /\ IsClosing(x)
    BY <1>t, ClosingAre, ClosingIs DEF IsClosing
  <2>3. QED
    BY <2>1, <2>2 DEF OnStack
<1>5. /\ StackOK(stack', closed, ctx)
      /\ ClosingIn(stack') = ClosingIn(stack)
      /\ DOMAIN stack' = DOMAIN stack \cup {n + 1}
      /\ \A i \in DOMAIN stack : stack'[i] = stack[i]
      /\ stack'[n + 1] = f
  <2>1. f.obj \notin closed /\ (\A i \in DOMAIN stack : stack[i].obj # f.obj)
        /\ (\A x \in ClosingIn(stack) : ctx[x] # f.obj)
        /\ (\A x \in f.todo : ctx[x] = f.obj)
    BY <1>1, <1>2, <1>4
  <2>2. /\ StackOK(Append(stack, f), closed, ctx)
        /\ ClosingIn(Append(stack, f)) = ClosingIn(stack) \cup
                                          (IF f.op = "close" THEN {f.obj} ELSE {})
        /\ DOMAIN Append(stack, f) = DOMAIN stack \cup {Len(stack) + 1}
        /\ \A i \in DOMAIN stack : Append(stack, f)[i] = stack[i] /\ i # Len(stack) + 1
        /\ Append(stack, f)[Len(stack) + 1] = f
    BY <1>t, <1>2, <2>1, PushOK
  <2>3. QED
    BY <1>2, <1>3, <2>2 DEF n
<1>6. Alive' = Alive
  BY DEF Alive
<1>7. HandlesOK'
  BY <1>t, <1>6 DEF HandlesOK
<1>8. KeptOK'
  <2>1. held' \cap finalized' = {}
    BY <1>t DEF KeptOK
  <2>2. \A x \in Alive : x # c
    BY ObjectsAssumption DEF Alive
  <2>3. \A x \in Alive' : \/ x \in ctx_ref' \/ x \in ClosingIn(stack')
                          \/ "raise" \in Uses /\ x \notin held' \cup finalized'
    BY <1>t, <1>5, <1>6, <2>2 DEF KeptOK
  <2>4. \A x \in Alive' : ctx'[x] \notin closed' \cup finalized'
    BY <1>t, <1>6 DEF KeptOK
  <2>5. QED
    BY <2>1, <2>3, <2>4 DEF KeptOK
<1>9. ListInv'
  <2> SUFFICES ASSUME Uses \cap {"create", "raise"} = {}
               PROVE  ListOK(stack', Alive, ctx, autoclose)
    BY <1>6 DEF ListInv
  <2>1. ListOK(stack, Alive, ctx, autoclose)
    BY <1>t DEF ListInv
  <2>2. ASSUME NEW x \in Alive
        PROVE  /\ (\A j \in DOMAIN stack' : stack'[j].obj # ctx[x]) => x \in autoclose[ctx[x]]
               /\ \A j \in DOMAIN stack' : stack'[j].obj = ctx[x] =>
                     /\ stack'[j].op \in {"destroy", "shutdown"}
                     /\ x \in stack'[j].todo \/ x \in ClosingIn(stack')
    <3>1. (\A j \in DOMAIN stack' : stack'[j].obj # ctx[x]) => x \in autoclose[ctx[x]]
      BY <1>5, <2>1 DEF ListOK
    <3>2. ASSUME NEW j \in DOMAIN stack, stack'[j].obj = ctx[x]
          PROVE  /\ stack'[j].op \in {"destroy", "shutdown"}
                 /\ x \in stack'[j].todo \/ x \in ClosingIn(stack')
      BY <1>5, <2>1, <3>2 DEF ListOK
    <3>3. ASSUME c = ctx[x]
          PROVE  x \in f.todo
      BY <1>2, <1>4, <2>1, <3>3 DEF ListOK
    <3>4. QED
      BY <1>2, <1>5, <3>1, <3>2, <3>3
  <2>3. QED
    BY <2>2 DEF ListOK
<1>10. FaultOK'
  BY <1>t DEF FaultOK
<1>11. QED
  BY <1>5, <1>7, <1>8, <1>9, <1>10 DEF LifeOK

LEMMA WalkSteps ==
    ASSUME LifeInv, Plain, NEW c \in Contexts,
           Destroy(c) \/ Shutdown(c) \/ CollectContext(c)
    PROVE  LifeOK'
<1> USE DEF objects, flags, pointers, libzmq, closing, callbacks
<1>t. /\ ObjectsType /\ PointersType /\ RefsType
      /\ GoodStack(stack, made) /\ HandlesOK /\ KeptOK
  BY LifeTypes
<1>1. CASE Destroy(c)
  <2>1. c \in made /\ c \notin closed /\ ~Busy(c)
    BY <1>1, <1>t DEF Destroy, Plain, ObjectsType
  <2>2. QED
    BY <1>1, <2>1, WalkKeeps DEF Destroy
<1>2. CASE Shutdown(c)
  <2>1. c \in made /\ c \notin closed /\ ~Busy(c)
    BY <1>2, <1>t DEF Shutdown, Usable, Plain, ObjectsType
  <2>2. QED
    BY <1>2, <2>1, WalkKeeps DEF Shutdown
<1>3. CASE CollectContext(c)
  <2>1. c \in made /\ c \notin finalized /\ ~Reachable(c) /\ ~Busy(c)
    BY <1>3 DEF CollectContext, Collectable, Plain
  <2>2. c \notin held
    BY <2>1 DEF Reachable
  <2>3. ASSUME NEW x \in Alive, ctx[x] = c
        PROVE  FALSE
    <3>1. x \in Sockets /\ x \in made
      BY DEF Alive
    <3>2. x \notin ctx_ref
      BY <2>1, <2>3 DEF Reachable
    <3>3. x \notin ClosingIn(stack)
      BY <2>1, <2>3, <3>1, ClosingIs DEF Busy, IsClosing
    <3>4. x \notin held /\ x \notin finalized
      BY <1>t, <3>2, <3>3 DEF KeptOK
    <3>5. ~OnStack(x)
      BY <1>t, <3>1, <3>3, ClosingAre DEF OnStack
    <3>6. \A y \in ctx_ref : ctx[y] # x
      BY <1>t, <3>1, ObjectsAssumption DEF RefsType, PointersType
    <3>7. Collectable(x)
      BY <3>1, <3>4, <3>5, <3>6 DEF Collectable, Reachable
    <3>8. QED
      BY <1>3, <2>3, <3>1, <3>7 DEF CollectContext
  <2>4. CASE c \notin closed
    BY <1>3, <2>1, <2>2, <2>3, <2>4, WalkKeeps DEF CollectContext
  <2>5. CASE c \in closed
    <3>1. stack' = stack /\ finalized' = finalized \cup {c}
          /\ UNCHANGED <<made, held, borrowed, native, ctx, terminated, opened,
                         closed, fault, ctx_ref, autoclose>>
      BY <1>3, <2>5 DEF CollectContext
    <3>2. Alive' = Alive
      BY <3>1 DEF Alive
    <3>3. StackOK(stack, closed, ctx) /\ ListInv /\ FaultOK
      BY LifeTypes
    <3>4. StackOK(stack', closed', ctx') /\ ListInv' /\ FaultOK' /\ HandlesOK'
      BY <1>t, <3>1, <3>2, <3>3 DEF ListInv, FaultOK, HandlesOK
    <3>5. \A x \in Alive : x # c
      BY ObjectsAssumption DEF Alive
    <3>6. KeptOK'
      BY <1>t, <2>2, <2>3, <3>1, <3>2, <3>5 DEF KeptOK
    <3>7. QED
      BY <3>4, <3>6 DEF LifeOK
  <2>6. QED
    BY <2>4, <2>5
<1>4. QED
  BY <1>1, <1>2, <1>3

-----------------------------------------------------------------------------
(* A socket that is not closed is closed without a failed assertion.       *)
LEMMA NoFault ==
    ASSUME LifeInv, fault = "none", NEW s \in Alive, EndClose(s)
    PROVE  /\ fault' = "none" /\ closed' = closed \cup {s}
           /\ opened' = opened \ {s}
<1>t. /\ TypeOK /\ OwnHandles /\ CountIsOpenSockets /\ PointersType /\ HandlesOK
  BY LifeTypes
<1>1. s \in Sockets /\ s \in made /\ s \notin closed
  BY DEF Alive
<1>2. s \notin borrowed /\ handle[s] = s /\ s \in opened
  BY <1>t, <1>1, ObjectsAssumption DEF OwnHandles, HandlesOK
<1>3. ctx[s] \in Contexts
  BY <1>t, <1>1 DEF HandlesOK, PointersType
<1> DEFINE S == OpenSocketsOf(ctx[s])
<1>4. s \in S /\ IsFiniteSet(S)
  BY <1>1, FS_Subset, ObjectsAssumption DEF OpenSocketsOf
<1>5. socket_count[ctx[s]] = Cardinality(S)
  BY <1>t, <1>3 DEF CountIsOpenSockets
<1> HIDE DEF S
<1>6. Cardinality(S) \in Nat /\ Cardinality(S) # 0
  BY <1>4, FS_CardinalityType, FS_EmptySet
<1>7. ~(socket_count[ctx[s]] < 1)
  BY <1>5, <1>6
<1>8. QED
  BY <1>2, <1>7 DEF EndClose

(* The end of a close, in a stack that s has left, or was not in.          *)
LEMMA EndKeeps ==
    ASSUME LifeInv, fault = "none", NEW s \in Alive, EndClose(s),
           UNCHANGED <<made, held, borrowed, native, ctx, terminated, autoclose>>,
           finalized' \in {finalized, finalized \cup {s}},
           finalized' # finalized => s \notin held,
           ctx_ref \ {s} \subseteq ctx_ref',
           StackOK(stack', closed \cup {s}, ctx),
           ClosingIn(stack) \ {s} \subseteq ClosingIn(stack'),
           Uses \cap {"create", "raise"} = {} =>
               ListOK(stack', Alive \ {s}, ctx, autoclose)
    PROVE  LifeOK'
<1>t. HandlesOK /\ KeptOK /\ PointersType
  BY LifeTypes
<1>1. /\ fault' = "none" /\ closed' = closed \cup {s}
      /\ opened' = opened \ {s}
  BY NoFault
<1>2. Alive' = Alive \ {s}
  BY <1>1 DEF Alive
<1>3. StackOK(stack', closed', ctx')
  BY <1>1
<1>4. HandlesOK'
  BY <1>t, <1>1, <1>2 DEF HandlesOK
<1>5. KeptOK'
  <2>1. held' \cap finalized' = {}
    BY <1>t DEF KeptOK
  <2>2. \A x \in Alive' : \/ x \in ctx_ref' \/ x \in ClosingIn(stack')
                          \/ "raise" \in Uses /\ x \notin held' \cup finalized'
    <3>1. ASSUME NEW x \in Alive, x # s
          PROVE  \/ x \in ctx_ref' \/ x \in ClosingIn(stack')
                 \/ "raise" \in Uses /\ x \notin held' \cup finalized'
      BY <1>t, <3>1 DEF KeptOK
    <3>2. QED
      BY <1>2, <3>1
  <2>3. \A x \in Alive' : ctx'[x] \notin closed' \cup finalized'
    <3>1. ASSUME NEW x \in Alive, x # s
          PROVE  ctx[x] \notin closed' \cup finalized'
      <4>1. ctx[x] \in Contexts /\ s \in Sockets
        BY <1>t DEF Alive, HandlesOK, PointersType
      <4>2. ctx[x] # s
        BY <4>1, ObjectsAssumption
      <4>3. QED
        BY <1>t, <1>1, <4>2 DEF KeptOK
    <3>2. QED
      BY <1>2, <3>1
  <2>4. QED
    BY <2>1, <2>2, <2>3 DEF KeptOK
<1>6. ListInv' /\ FaultOK'
  BY <1>1, <1>2 DEF ListInv, FaultOK
<1>7. QED
  BY <1>3, <1>4, <1>5, <1>6 DEF LifeOK

(* close of s, called by the application, the collector or the walk that   *)
(* has just taken s from its list: stk is the stack without the call.      *)
LEMMA CloseKeeps ==
    ASSUME LifeInv, fault = "none", NEW s \in Sockets \cap made, NEW stk,
           GoodStack(stk, made), StackOK(stk, closed, ctx),
           ClosingIn(stk) = ClosingIn(stack), s \notin ClosingIn(stack),
           Uses \cap {"create", "raise"} = {} =>
               /\ ListOK(stk, Alive \ {s}, ctx, autoclose)
               /\ \A j \in DOMAIN stk :
                     stk[j].obj = ctx[s] /\ s \in Alive =>
                         stk[j].op \in {"destroy", "shutdown"}
               /\ (\A j \in DOMAIN stk : stk[j].obj # ctx[s]) /\ s \in Alive =>
                     s \in autoclose[ctx[s]],
           BeginClose(s, stk),
           UNCHANGED <<made, held, borrowed, native, ctx, terminated, autoclose>>,
           finalized' \in {finalized, finalized \cup {s}},
           finalized' # finalized => s \notin held
    PROVE  LifeOK'
<1> USE DEF closing
<1>t. HandlesOK /\ KeptOK /\ PointersType /\ FaultOK
  BY LifeTypes
<1>h. \A x \in Alive : ctx[x] \in Contexts /\ ctx[x] # s
  BY <1>t, ObjectsAssumption DEF Alive, HandlesOK, PointersType
<1>1. CASE s \in closed /\ stack' = stk /\ UNCHANGED <<closing, ctx_ref>>
  <2>1. Alive' = Alive /\ Alive \ {s} = Alive
    BY <1>1 DEF Alive
  <2>2. HandlesOK' /\ FaultOK'
    BY <1>t, <1>1, <2>1 DEF HandlesOK, FaultOK
  <2>3. KeptOK'
    <3>1. held' \cap finalized' = {}
      BY <1>t DEF KeptOK
    <3>2. \A x \in Alive' : \/ x \in ctx_ref' \/ x \in ClosingIn(stack')
                            \/ "raise" \in Uses /\ x \notin held' \cup finalized'
      BY <1>t, <1>1, <2>1 DEF KeptOK
    <3>3. \A x \in Alive' : ctx'[x] \notin closed' \cup finalized'
      BY <1>t, <1>h, <1>1, <2>1 DEF KeptOK
    <3>4. QED
      BY <3>1, <3>2, <3>3 DEF KeptOK
  <2>4. ListInv'
    BY <1>1, <2>1 DEF ListInv
  <2>5. QED
    BY <1>1, <2>2, <2>3, <2>4 DEF LifeOK
<1>2. CASE /\ s \notin closed
           /\ ctx_ref' = ctx_ref \ {s}
           /\ stack' = Append(stk, NewFrame("close", s, {}))
           /\ UNCHANGED closing
  <2> DEFINE f == NewFrame("close", s, {})
             n == Len(stk)
  <2>1. f \in Frame /\ f.op = "close" /\ f.obj = s
    BY NewFrameType DEF Objects
  <2>2. stack' = Append(stk, f)
    BY <1>2
  <2> HIDE DEF f, n
  <2>3. \A i \in DOMAIN stk : stk[i].obj # s
    BY ClosingAre
  <2>4. \A x \in ClosingIn(stk) : ctx[x] # s
    <3>1. \A x \in ClosingIn(stk) : x \in Sockets \cap made
      BY ClosingAre
    <3>2. QED
      BY <1>t, <3>1, ObjectsAssumption DEF HandlesOK, PointersType
  <2>5. /\ StackOK(stack', closed, ctx)
        /\ ClosingIn(stack') = ClosingIn(stk) \cup {s}
        /\ DOMAIN stack' = DOMAIN stk \cup {n + 1}
        /\ \A i \in DOMAIN stk : stack'[i] = stk[i]
        /\ stack'[n + 1] = f
    <3>1. /\ StackOK(Append(stk, f), closed, ctx)
          /\ ClosingIn(Append(stk, f)) = ClosingIn(stk) \cup
                                         (IF f.op = "close" THEN {f.obj} ELSE {})
          /\ DOMAIN Append(stk, f) = DOMAIN stk \cup {Len(stk) + 1}
          /\ \A i \in DOMAIN stk : Append(stk, f)[i] = stk[i] /\ i # Len(stk) + 1
          /\ Append(stk, f)[Len(stk) + 1] = f
      BY <1>2, <2>1, <2>3, <2>4, PushOK
    <3>2. QED
      BY <2>1, <2>2, <3>1 DEF n
  <2>6. Alive' = Alive
    BY <1>2 DEF Alive
  <2>7. HandlesOK' /\ FaultOK'
    BY <1>t, <1>2, <2>6 DEF HandlesOK, FaultOK
  <2>8. KeptOK'
    <3>1. held' \cap finalized' = {}
      BY <1>t DEF KeptOK
    <3>2. ASSUME NEW x \in Alive
          PROVE  \/ x \in ctx_ref' \/ x \in ClosingIn(stack')
                 \/ "raise" \in Uses /\ x \notin held' \cup finalized'
      <4>1. CASE x = s
        BY <2>5, <4>1
      <4>2. CASE x # s
        BY <1>t, <1>2, <2>5, <4>2 DEF KeptOK
      <4>3. QED
        BY <4>1, <4>2
    <3>3. \A x \in Alive' : ctx'[x] \notin closed' \cup finalized'
      BY <1>t, <1>h, <1>2, <2>6 DEF KeptOK
    <3>4. QED
      BY <2>6, <3>1, <3>2, <3>3 DEF KeptOK
  <2>9. ListInv'
    <3> SUFFICES ASSUME Uses \cap {"create", "raise"} = {}
                 PROVE  ListOK(stack', Alive, ctx, autoclose)
      BY <2>6 DEF ListInv
    <3>1. ListOK(stk, Alive \ {s}, ctx, autoclose)
      OBVIOUS
    <3>2. ASSUME NEW x \in Alive
          PROVE  /\ (\A j \in DOMAIN stack' : stack'[j].obj # ctx[x]) => x \in autoclose[ctx[x]]
                 /\ \A j \in DOMAIN stack' : stack'[j].obj = ctx[x] =>
                       /\ stack'[j].op \in {"destroy", "shutdown"}
                       /\ x \in stack'[j].todo \/ x \in ClosingIn(stack')
      <4>1. ctx[x] # s
        BY <1>h
      <4>2. stack'[n + 1].obj # ctx[x]
        BY <2>1, <2>5, <4>1
      <4>3. CASE x = s
        BY <2>5, <4>2, <4>3
      <4>4. CASE x # s
        <5>1. /\ (\A j \in DOMAIN stk : stk[j].obj # ctx[x]) => x \in autoclose[ctx[x]]
              /\ \A j \in DOMAIN stk : stk[j].obj = ctx[x] =>
                       /\ stk[j].op \in {"destroy", "shutdown"}
                       /\ x \in stk[j].todo \/ x \in ClosingIn(stk)
          BY <3>1, <4>4 DEF ListOK
        <5>2. QED
          BY <2>5, <4>2, <5>1
      <4>5. QED
        BY <4>3, <4>4
    <3>3. QED
      BY <3>2 DEF ListOK
  <2>10. QED
    BY <1>2, <2>5, <2>7, <2>8, <2>9 DEF LifeOK
<1>3. CASE /\ s \notin closed
           /\ ctx_ref' = ctx_ref \ {s}
           /\ stack' = stk
           /\ EndClose(s)
  <2>1. s \in Alive
    BY <1>3 DEF Alive
  <2>2. StackOK(stk, closed \cup {s}, ctx)
    <3>1. \A i \in DOMAIN stk : stk[i].obj # s
      BY ClosingAre
    <3>2. QED
      BY <3>1 DEF StackOK
  <2>3. ctx_ref \ {s} \subseteq ctx_ref' /\ StackOK(stack', closed \cup {s}, ctx)
        /\ ClosingIn(stack) \ {s} \subseteq ClosingIn(stack')
        /\ EndClose(s)
    BY <1>3, <2>2
  <2>4. Uses \cap {"create", "raise"} = {} => ListOK(stack', Alive \ {s}, ctx, autoclose)
    BY <1>3
  <2>5. QED
    BY <2>1, <2>3, <2>4, EndKeeps
<1>4. QED
  BY <1>1, <1>2, <1>3 DEF BeginClose

LEMMA CloseSteps ==
    ASSUME LifeInv, Plain, NEW s \in Sockets, Close(s) \/ CollectSocket(s)
    PROVE  LifeOK'
<1> USE DEF objects, flags, pointers, libzmq, callbacks
<1>t. /\ ObjectsType /\ GoodStack(stack, made) /\ StackOK(stack, closed, ctx)
      /\ ListInv
  BY LifeTypes
<1>1. Uses \cap {"create", "raise"} = {} =>
          /\ ListOK(stack, Alive \ {s}, ctx, autoclose)
          /\ \A j \in DOMAIN stack :
                stack[j].obj = ctx[s] /\ s \in Alive =>
                    stack[j].op \in {"destroy", "shutdown"}
          /\ (\A j \in DOMAIN stack : stack[j].obj # ctx[s]) /\ s \in Alive =>
                s \in autoclose[ctx[s]]
  BY <1>t DEF ListInv, ListOK
<1>2. CASE Close(s)
  <2>1. s \in made /\ fault = "none" /\ ~IsClosing(s)
    BY <1>2, <1>t DEF Close, AppCode, Plain, ObjectsType
  <2>2. s \notin ClosingIn(stack)
    BY <2>1, ClosingIs DEF IsClosing
  <2>3. /\ BeginClose(s, stack)
        /\ UNCHANGED <<made, held, borrowed, native, ctx, terminated, autoclose>>
        /\ finalized' = finalized
    BY <1>2 DEF Close
  <2>4. QED
    BY <1>t, <1>1, <2>1, <2>2, <2>3, CloseKeeps
<1>3. CASE CollectSocket(s)
  <2>1. s \in made /\ fault = "none" /\ ~Reachable(s)
    BY <1>3 DEF CollectSocket, AppCode, Collectable
  <2>2. s \notin held /\ s \notin ClosingIn(stack)
    BY <2>1, ClosingIs DEF Reachable, OnStack
  <2>3. /\ BeginClose(s, stack)
        /\ UNCHANGED <<made, held, borrowed, native, ctx, terminated, autoclose>>
        /\ finalized' = finalized \cup {s}
    BY <1>3 DEF CollectSocket
  <2>4. QED
    BY <1>t, <1>1, <2>1, <2>2, <2>3, CloseKeeps
<1>4. QED
  BY <1>2, <1>3

(* The walk without the socket it has come to.                             *)
Walked(s) == SetTop([Top EXCEPT !.todo = @ \ {s}])

LEMMA ListedIs ==
    ASSUME LifeInv, CloseListed
    PROVE  \E s \in Sockets \cap made :
              /\ BeginClose(s, Walked(s))
              /\ GoodStack(Walked(s), made) /\ StackOK(Walked(s), closed, ctx)
              /\ ClosingIn(Walked(s)) = ClosingIn(stack) /\ s \notin ClosingIn(stack)
              /\ Uses \cap {"create", "raise"} = {} =>
                    /\ ListOK(Walked(s), Alive \ {s}, ctx, autoclose)
                    /\ \A j \in DOMAIN Walked(s) :
                          Walked(s)[j].obj = ctx[s] /\ s \in Alive =>
                              Walked(s)[j].op \in {"destroy", "shutdown"}
                    /\ (\A j \in DOMAIN Walked(s) : Walked(s)[j].obj # ctx[s])
                          /\ s \in Alive => s \in autoclose[ctx[s]]
<1> USE DEF objects, flags, pointers, libzmq, callbacks
<1>t. /\ TypeOK /\ GoodStack(stack, made) /\ StackOK(stack, closed, ctx) /\ ListInv
  BY LifeTypes
<1>1. stack # << >> /\ fault = "none" /\ Top.op \in {"destroy", "shutdown"}
  BY DEF CloseListed, TopIs
<1> DEFINE n == Len(stack)
           cut(s) == [Top EXCEPT !.todo = @ \ {s}]
<1>2. PICK s \in Top.todo : BeginClose(s, SetTop(cut(s)))
  BY DEF CloseListed
<1> DEFINE stk == SetTop(cut(s))
<1>3. n \in DOMAIN stack /\ Top \in Frame /\ FrameFits(Top, made) /\ Top = stack[n]
  BY <1>t, <1>1, TopFits DEF TypeOK, Top
<1>4. s \in Sockets \cap made
  BY <1>3 DEF Frame, FrameFits
<1>5. /\ cut(s) \in Frame /\ cut(s).op = Top.op /\ cut(s).obj = Top.obj
      /\ cut(s).todo = Top.todo \ {s}
  BY <1>3 DEF Frame
<1>6. DOMAIN stk = DOMAIN stack /\ stk[n] = cut(s)
      /\ \A i \in DOMAIN stack : i # n => stk[i] = stack[i]
  BY <1>3 DEF SetTop
<1>7. GoodStack(stk, made)
  <2>1. stack \in Seq(Frame) /\ \A i \in DOMAIN stack : FrameFits(stack[i], made)
    BY <1>t DEF GoodStack
  <2>2. stk \in Seq(Frame)
    <3>1. DOMAIN stack = 1 .. Len(stack) /\ Len(stack) \in Nat
      BY <2>1, LenProperties
    <3>2. n \in 1 .. Len(stack)
      BY <1>3, <3>1
    <3>3. ASSUME NEW e \in Frame
          PROVE  [stack EXCEPT ![n] = e] \in Seq(Frame)
      BY <2>1, <3>2, ExceptSeq
    <3>4. stk = [stack EXCEPT ![n] = cut(s)]
      BY DEF SetTop
    <3> HIDE DEF stk, cut, n
    <3>5. QED
      BY <1>5, <3>3, <3>4
  <2>3. FrameFits(cut(s), made)
    BY <1>3, <1>5 DEF FrameFits
  <2>4. QED
    BY <1>6, <2>1, <2>2, <2>3 DEF GoodStack
<1> HIDE DEF stk, cut, n
<1>8. /\ \A i \in DOMAIN stack : stk[i].obj = stack[i].obj /\ stk[i].op = stack[i].op
      /\ \A i \in DOMAIN stack : \A x \in stack[i].todo : x # s => x \in stk[i].todo
      /\ \A i \in DOMAIN stack : stk[i].todo \subseteq stack[i].todo
  BY <1>3, <1>5, <1>6
<1>9. StackOK(stk, closed, ctx) /\ ClosingIn(stk) = ClosingIn(stack)
  <2>1. \A i \in DOMAIN stack : stack[i].op # "close" =>
            \A x \in stk[i].todo : ctx[x] = stack[i].obj
    BY <1>t, <1>8 DEF StackOK
  <2>2. \A i \in DOMAIN stack : stk[i].obj = stack[i].obj
                                 /\ (stk[i].op = "close" <=> stack[i].op = "close")
    BY <1>8
  <2>3. QED
    BY <1>t, <1>6, <2>1, <2>2, RewriteOK
<1>10. ctx[s] = Top.obj
  BY <1>t, <1>1, <1>3 DEF StackOK
<1>11. s \notin ClosingIn(stack)
  <2>1. ASSUME NEW i \in DOMAIN stack, stack[i].op = "close", stack[i].obj = s
        PROVE  FALSE
    <3>1. DOMAIN stack = 1 .. n /\ n \in Nat
      BY <1>t, FramesAre DEF n
    <3>2. i # n
      BY <1>1, <1>3, <2>1
    <3>3. i < n
      BY <3>1, <3>2
    <3>4. QED
      BY <1>t, <1>3, <1>10, <2>1, <3>3 DEF StackOK
  <2>2. QED
    BY <2>1, ClosingIs
<1>12. ASSUME Uses \cap {"create", "raise"} = {}
       PROVE  /\ ListOK(stk, Alive \ {s}, ctx, autoclose)
              /\ \A j \in DOMAIN stk :
                    stk[j].obj = ctx[s] /\ s \in Alive =>
                        stk[j].op \in {"destroy", "shutdown"}
              /\ (\A j \in DOMAIN stk : stk[j].obj # ctx[s]) /\ s \in Alive =>
                    s \in autoclose[ctx[s]]
  <2>1. ListOK(stack, Alive, ctx, autoclose)
    BY <1>t, <1>12 DEF ListInv
  <2>2. ASSUME NEW x \in Alive, x # s
        PROVE  /\ (\A j \in DOMAIN stk : stk[j].obj # ctx[x]) => x \in autoclose[ctx[x]]
               /\ \A j \in DOMAIN stk : stk[j].obj = ctx[x] =>
                     /\ stk[j].op \in {"destroy", "shutdown"}
                     /\ x \in stk[j].todo \/ x \in ClosingIn(stk)
    BY <1>6, <1>8, <1>9, <2>1, <2>2 DEF ListOK
  <2>3. ListOK(stk, Alive \ {s}, ctx, autoclose)
    BY <2>2 DEF ListOK
  <2>4. QED
    BY <1>6, <1>8, <2>1, <2>3 DEF ListOK
<1>13. BeginClose(s, stk) /\ stk = Walked(s)
  BY <1>2 DEF stk, cut, Walked
<1>14. /\ BeginClose(s, Walked(s))
       /\ GoodStack(Walked(s), made) /\ StackOK(Walked(s), closed, ctx)
       /\ ClosingIn(Walked(s)) = ClosingIn(stack) /\ s \notin ClosingIn(stack)
       /\ Uses \cap {"create", "raise"} = {} =>
             /\ ListOK(Walked(s), Alive \ {s}, ctx, autoclose)
             /\ \A j \in DOMAIN Walked(s) :
                   Walked(s)[j].obj = ctx[s] /\ s \in Alive =>
                       Walked(s)[j].op \in {"destroy", "shutdown"}
             /\ (\A j \in DOMAIN Walked(s) : Walked(s)[j].obj # ctx[s])
                   /\ s \in Alive => s \in autoclose[ctx[s]]
  BY <1>7, <1>9, <1>11, <1>12, <1>13
<1>15. QED
  BY <1>4, <1>14

LEMMA ListedKeeps ==
    ASSUME LifeInv, CloseListed
    PROVE  LifeOK'
<1>1. PICK s \in Sockets \cap made :
         /\ BeginClose(s, Walked(s))
         /\ GoodStack(Walked(s), made) /\ StackOK(Walked(s), closed, ctx)
         /\ ClosingIn(Walked(s)) = ClosingIn(stack) /\ s \notin ClosingIn(stack)
         /\ Uses \cap {"create", "raise"} = {} =>
               /\ ListOK(Walked(s), Alive \ {s}, ctx, autoclose)
               /\ \A j \in DOMAIN Walked(s) :
                     Walked(s)[j].obj = ctx[s] /\ s \in Alive =>
                         Walked(s)[j].op \in {"destroy", "shutdown"}
               /\ (\A j \in DOMAIN Walked(s) : Walked(s)[j].obj # ctx[s])
                     /\ s \in Alive => s \in autoclose[ctx[s]]
  BY ListedIs
<1>2. /\ fault = "none" /\ finalized' = finalized
      /\ UNCHANGED <<made, held, borrowed, native, ctx, terminated, autoclose>>
  BY DEF CloseListed, TopIs, objects, flags, pointers, libzmq
<1>3. QED
  BY <1>1, <1>2, CloseKeeps

(* The call that waits at the top, and what waits below.                   *)
LEMMA TopIsLast ==
    ASSUME LifeInv, stack # << >>
    PROVE  /\ Len(stack) \in DOMAIN stack /\ Top = stack[Len(stack)]
           /\ \A i \in DOMAIN stack : i # Len(stack) => i < Len(stack)
           /\ Top \in Frame /\ Top.obj \in made /\ Top.obj \notin closed
           /\ Top.op = "close" => Top.obj \in Sockets
           /\ Top.op # "close" => Top.obj \in Contexts
<1>t. /\ TypeOK /\ GoodStack(stack, made) /\ StackOK(stack, closed, ctx)
  BY LifeTypes
<1>1. Len(stack) \in DOMAIN stack /\ Top = stack[Len(stack)]
  BY <1>t, TopFits DEF TypeOK, Top
<1>2. Len(stack) \in Nat /\ DOMAIN stack = 1 .. Len(stack)
  BY <1>t, FramesAre
<1>3. \A i \in DOMAIN stack : i # Len(stack) => i < Len(stack)
  BY <1>2
<1>4. QED
  BY <1>t, <1>1, <1>3, FramesAre DEF StackOK

LEMMA ReturnKeeps ==
    ASSUME LifeInv, CallbackReturns
    PROVE  LifeOK'
<1> USE DEF objects, flags, pointers, libzmq, callbacks
<1>t. /\ TypeOK /\ GoodStack(stack, made) /\ StackOK(stack, closed, ctx)
      /\ PointersType /\ HandlesOK /\ ListInv
  BY LifeTypes
<1>1. stack # << >> /\ fault = "none" /\ Top.op = "close" /\ stack' = Pop
  BY DEF CallbackReturns, InCallback, TopIs
<1> DEFINE s == Top.obj
<1>2. s \in Alive
  BY <1>1, TopIsLast DEF Alive
<1> HIDE DEF s
<1>3. /\ EndClose(s) /\ finalized' = finalized /\ ctx_ref' = ctx_ref
      /\ UNCHANGED <<made, held, borrowed, native, ctx, terminated, autoclose>>
  BY DEF CallbackReturns, s
<1>4. /\ StackOK(Pop, closed \cup {s}, ctx)
      /\ ClosingIn(Pop) = ClosingIn(stack) \ {s}
      /\ DOMAIN Pop \subseteq DOMAIN stack
      /\ \A i \in DOMAIN Pop : Pop[i] = stack[i]
      /\ \A i \in DOMAIN stack : stack[i].obj # s => i \in DOMAIN Pop
  BY <1>t, <1>1, ReturnOK DEF s
<1>5. ASSUME Uses \cap {"create", "raise"} = {}
      PROVE  ListOK(Pop, Alive \ {s}, ctx, autoclose)
  <2>1. ListOK(stack, Alive, ctx, autoclose)
    BY <1>t, <1>5 DEF ListInv
  <2>2. ASSUME NEW x \in Alive, x # s
        PROVE  /\ (\A j \in DOMAIN Pop : Pop[j].obj # ctx[x]) => x \in autoclose[ctx[x]]
               /\ \A j \in DOMAIN Pop : Pop[j].obj = ctx[x] =>
                     /\ Pop[j].op \in {"destroy", "shutdown"}
                     /\ x \in Pop[j].todo \/ x \in ClosingIn(Pop)
    <3>1. ctx[x] # s
      BY <1>t, <1>2, ObjectsAssumption DEF HandlesOK, PointersType, Alive
    <3>2. QED
      BY <1>4, <2>1, <2>2, <3>1 DEF ListOK
  <2>3. QED
    BY <2>2 DEF ListOK
<1>6. ClosingIn(stack) \ {s} \subseteq ClosingIn(stack')
  BY <1>1, <1>4
<1>7. QED
  BY <1>1, <1>2, <1>3, <1>4, <1>5, <1>6, EndKeeps

(* The loop of a walk ends with the sockets of its context closed.         *)
LEMMA WalkEndsKeeps ==
    ASSUME LifeInv, WalkEnds
    PROVE  LifeOK'
<1> USE DEF objects, flags, pointers, libzmq, closing, callbacks
<1>t. /\ TypeOK /\ GoodStack(stack, made) /\ StackOK(stack, closed, ctx)
      /\ RefsType /\ HandlesOK /\ KeptOK /\ ListInv /\ FaultOK
  BY LifeTypes
<1> DEFINE c == Top.obj
           n == Len(stack)
<1>1. stack # << >> /\ Top.op \in {"destroy", "shutdown"} /\ Top.todo = {}
  BY DEF WalkEnds, TopIs
<1>2. /\ n \in DOMAIN stack /\ Top = stack[n] /\ Top \in Frame /\ c \in Contexts
      /\ \A i \in DOMAIN stack : i # n => i < n
  BY <1>1, TopIsLast
<1>3. /\ UNCHANGED <<made, held, finalized, borrowed, native, ctx, terminated,
                     opened, closed, fault, ctx_ref>>
      /\ autoclose' = [autoclose EXCEPT ![c] = {}]
      /\ stack' = [i \in DOMAIN stack |->
                    IF i = n
                    THEN [Top EXCEPT !.op = IF @ = "destroy" THEN "term" ELSE "stop"]
                    ELSE IF stack[i].obj = c THEN [stack[i] EXCEPT !.shared = FALSE]
                    ELSE stack[i]]
  BY DEF WalkEnds
<1> HIDE DEF c, n
<1>4. DOMAIN stack' = DOMAIN stack
  BY <1>3
<1>5. ASSUME NEW i \in DOMAIN stack
      PROVE  /\ stack'[i].obj = stack[i].obj /\ stack'[i].todo = stack[i].todo
             /\ stack'[i].op = "close" <=> stack[i].op = "close"
             /\ i # n => stack'[i].op = stack[i].op
  <2>1. stack[i] \in Frame
    BY <1>t, FramesAre
  <2>2. CASE i = n
    BY <1>1, <1>2, <1>3, <2>2 DEF Frame
  <2>3. CASE i # n
    BY <1>3, <2>1, <2>3 DEF Frame
  <2>4. QED
    BY <2>2, <2>3
<1>6. StackOK(stack', closed, ctx) /\ ClosingIn(stack') = ClosingIn(stack)
  <2>1. \A i \in DOMAIN stack : stack[i].op # "close" =>
            \A x \in stack'[i].todo : ctx[x] = stack[i].obj
    BY <1>t, <1>5 DEF StackOK
  <2>2. QED
    BY <1>t, <1>4, <1>5, <2>1, RewriteOK
<1>7. Alive' = Alive
  BY <1>3 DEF Alive
<1>8. /\ autoclose'[c] = {} /\ \A d \in Contexts : d # c => autoclose'[d] = autoclose[d]
  BY <1>t, <1>2, <1>3 DEF RefsType
<1>9. HandlesOK'
  <2>1. \A d \in Contexts : \A s \in autoclose'[d] : ctx[s] = d
    BY <1>t, <1>8 DEF HandlesOK
  <2>2. QED
    BY <1>t, <1>3, <1>7, <2>1 DEF HandlesOK
<1>10. KeptOK'
  BY <1>t, <1>3, <1>6, <1>7 DEF KeptOK
<1>11. ListInv'
  <2> SUFFICES ASSUME Uses \cap {"create", "raise"} = {}
               PROVE  ListOK(stack', Alive, ctx, autoclose')
    BY <1>3, <1>7 DEF ListInv
  <2>1. ListOK(stack, Alive, ctx, autoclose)
    BY <1>t DEF ListInv
  <2>2. ASSUME NEW x \in Alive, ctx[x] = c
        PROVE  FALSE
    <3>1. x \in ClosingIn(stack)
      BY <1>1, <1>2, <2>1, <2>2 DEF ListOK, c
    <3>2. PICK i \in DOMAIN stack : stack[i].op = "close" /\ stack[i].obj = x
      BY <3>1, ClosingIs
    <3>3. i < n
      BY <1>1, <1>2, <3>2
    <3>4. QED
      BY <1>t, <1>2, <2>2, <3>2, <3>3 DEF StackOK, c
  <2>3. ASSUME NEW x \in Alive
        PROVE  /\ (\A j \in DOMAIN stack' : stack'[j].obj # ctx[x]) => x \in autoclose'[ctx[x]]
               /\ \A j \in DOMAIN stack' : stack'[j].obj = ctx[x] =>
                     /\ stack'[j].op \in {"destroy", "shutdown"}
                     /\ x \in stack'[j].todo \/ x \in ClosingIn(stack')
    <3>1. ctx[x] # c /\ ctx[x] \in Contexts
      BY <2>2, LifeTypes DEF HandlesOK, PointersType, Alive
    <3>2. \A j \in DOMAIN stack : stack[j].obj = ctx[x] => j # n
      BY <1>2, <3>1 DEF c
    <3>3. QED
      BY <1>4, <1>5, <1>6, <1>8, <2>1, <3>1, <3>2 DEF ListOK
  <2>4. QED
    BY <2>3 DEF ListOK
<1>12. FaultOK'
  BY <1>t, <1>3 DEF FaultOK
<1>13. QED
  BY <1>3, <1>6, <1>9, <1>10, <1>11, <1>12 DEF LifeOK

(* destroy and shutdown return.                                            *)
LEMMA PopKeeps ==
    ASSUME LifeInv, stack # << >>, Top.op \in {"term", "stop"}, stack' = Pop,
           UNCHANGED <<made, held, finalized, borrowed, native, ctx, opened,
                       ctx_ref, autoclose>>,
           closed' \in {closed, closed \cup {Top.obj}},
           closed' # closed => \A x \in Alive : ctx[x] # Top.obj,
           "wrap" \notin Uses => terminated' \subseteq terminated \cup closed',
           FaultOK'
    PROVE  LifeOK'
<1>t. /\ TypeOK /\ GoodStack(stack, made) /\ StackOK(stack, closed, ctx)
      /\ RefsType /\ HandlesOK /\ KeptOK /\ ListInv
  BY LifeTypes
<1> DEFINE c == Top.obj
<1>1. c \in Contexts /\ c \notin Sockets
  BY TopIsLast, ObjectsAssumption
<1>2. /\ StackOK(Pop, closed \cup {c}, ctx)
      /\ ClosingIn(Pop) = ClosingIn(stack) \ {c}
      /\ DOMAIN Pop \subseteq DOMAIN stack
      /\ \A i \in DOMAIN Pop : Pop[i] = stack[i]
      /\ \A i \in DOMAIN stack : stack[i].obj # c => i \in DOMAIN Pop
  BY <1>t, ReturnOK
<1>3. ClosingIn(Pop) = ClosingIn(stack)
  BY <1>t, <1>1, <1>2, ClosingAre
<1>4. Len(stack) \in DOMAIN stack /\ Top = stack[Len(stack)]
  BY TopIsLast
<1> HIDE DEF c
<1>5. StackOK(stack', closed', ctx')
  <2>1. closed' \subseteq closed \cup {c}
    BY DEF c
  <2>2. StackOK(Pop, closed', ctx)
    BY <1>2, <2>1 DEF StackOK
  <2>3. QED
    BY <2>2
<1>6. Alive' = Alive
  BY <1>1 DEF Alive, c
<1>7. HandlesOK'
  BY <1>t, <1>6 DEF HandlesOK
<1>8. KeptOK'
  BY <1>t, <1>3, <1>6 DEF KeptOK
<1>9. ListInv'
  <2> SUFFICES ASSUME Uses \cap {"create", "raise"} = {}
               PROVE  ListOK(Pop, Alive, ctx, autoclose)
    BY <1>6 DEF ListInv
  <2>1. ListOK(stack, Alive, ctx, autoclose)
    BY <1>t DEF ListInv
  <2>2. ASSUME NEW x \in Alive
        PROVE  /\ (\A j \in DOMAIN Pop : Pop[j].obj # ctx[x]) => x \in autoclose[ctx[x]]
               /\ \A j \in DOMAIN Pop : Pop[j].obj = ctx[x] =>
                     /\ Pop[j].op \in {"destroy", "shutdown"}
                     /\ x \in Pop[j].todo \/ x \in ClosingIn(Pop)
    <3>1. ctx[x] # c
      BY <1>4, <2>1 DEF ListOK, c
    <3>2. QED
      BY <1>2, <1>3, <2>1, <3>1 DEF ListOK
  <2>3. QED
    BY <2>2 DEF ListOK
<1>10. QED
  BY <1>5, <1>7, <1>8, <1>9 DEF LifeOK

(* zmq_ctx_term returns to a destroy whose sockets are all closed: closed  *)
(* by the walk, or else waited for.                                        *)
LEMMA NoneLeft ==
    ASSUME LifeInv, Orderly, Term
    PROVE  \A x \in Alive : ctx[x] # Top.obj
<1>t. /\ PointersType /\ HandlesOK /\ ListInv /\ StackOK(stack, closed, ctx)
  BY LifeTypes
<1> DEFINE c == Top.obj
<1>1. stack # << >> /\ Top.op = "term"
  BY DEF Term, TopIs
<1>2. /\ Len(stack) \in DOMAIN stack /\ Top = stack[Len(stack)]
      /\ c \in Contexts /\ c \notin closed
  BY <1>1, TopIsLast
<1> SUFFICES ASSUME NEW x \in Alive, ctx[x] = c
             PROVE  FALSE
  OBVIOUS
<1>3. CASE Uses \cap {"create", "raise"} = {}
  BY <1>t, <1>1, <1>2, <1>3 DEF ListInv, ListOK
<1>4. CASE "wrap" \notin Uses
  <2>1. c \notin borrowed /\ native[c] = c /\ c \notin terminated
    BY <1>t, <1>2, <1>4 DEF HandlesOK
  <2>2. SocketsOf(c) = {}
    BY <2>1 DEF Term
  <2>3. x \in opened /\ ctx[x] # NoContext
    BY <1>t, <1>2, ObjectsAssumption DEF HandlesOK
  <2>4. QED
    BY <2>2, <2>3 DEF SocketsOf
<1>5. QED
  BY <1>3, <1>4 DEF Orderly

LEMMA PopSteps ==
    ASSUME LifeInv, Orderly, Term \/ TermInterrupted \/ Stop
    PROVE  LifeOK'
<1> USE DEF objects, flags, pointers, libzmq, closing, callbacks
<1>t. HandlesOK /\ FaultOK
  BY LifeTypes
<1>1. stack # << >> /\ Top.op \in {"term", "stop"}
  BY DEF Term, TermInterrupted, Stop, TopIs
<1>2. Top.obj \in Contexts /\ Top.obj \notin closed
  BY <1>1, TopIsLast
<1>3. "wrap" \notin Uses => /\ Top.obj \notin borrowed
                            /\ native[Top.obj] = Top.obj
                            /\ native[Top.obj] \notin terminated
  BY <1>t, <1>2 DEF HandlesOK
<1>4. CASE Term
  <2>1. \A x \in Alive : ctx[x] # Top.obj
    BY <1>4, NoneLeft
  <2>2. FaultOK'
    BY <1>t, <1>3, <1>4 DEF Term, FaultOK
  <2>3. /\ stack' = Pop /\ closed' = closed \cup {Top.obj}
        /\ UNCHANGED <<made, held, finalized, borrowed, native, ctx, opened,
                       ctx_ref, autoclose>>
    BY <1>4 DEF Term
  <2>4. "wrap" \notin Uses => terminated' \subseteq terminated \cup closed'
    BY <1>3, <1>4 DEF Term
  <2>5. QED
    BY <1>1, <2>1, <2>2, <2>3, <2>4, PopKeeps
<1>5. CASE TermInterrupted
  <2>1. FaultOK'
    BY <1>t, <1>5 DEF TermInterrupted, FaultOK
  <2>2. QED
    BY <1>1, <1>5, <2>1, PopKeeps DEF TermInterrupted
<1>6. CASE Stop
  <2>1. FaultOK'
    BY <1>t, <1>3, <1>6 DEF Stop, FaultOK
  <2>2. QED
    BY <1>1, <1>6, <2>1, PopKeeps DEF Stop
<1>7. QED
  BY <1>4, <1>5, <1>6

LEMMA LifeStep ==
    ASSUME LifeInv, Orderly, [Next]_vars
    PROVE  LifeInv'
<1>1. Plain /\ "handles" \notin Uses
  BY DEF Orderly, Plain
<1>2. TypeOK' /\ OwnHandles' /\ CountIsOpenSockets'
  BY <1>1, TypeStep, CountStep DEF LifeInv, CountInv
<1>3. LifeOK'
  <2>1. CASE \/ \E c \in Contexts : NewContext(c) \/ NewContextFails(c)
             \/ \E c, d \in Contexts : InitCtx(c, d)
             \/ \E s \in Sockets : OnClose(s) \/ OnCloseNil(s)
             \/ \E obj \in Objects : Drop(obj)
             \/ UNCHANGED vars
    BY <1>1, <2>1, QuietSteps
  <2>2. ASSUME NEW c \in Contexts, NEW s \in Sockets,
               NewSocket(c, s) \/ NewSocketFails(c, s) \/ NewSocketRaises(c, s)
        PROVE  LifeOK'
    BY <1>1, <2>2, CreateSteps
  <2>3. ASSUME NEW s \in Sockets, NEW src \in Sockets, InitSocket(s, src)
        PROVE  FALSE
    BY <1>1, <2>3 DEF InitSocket
  <2>4. ASSUME NEW s \in Sockets, NEW h \in Sockets,
               NEW own \in BOOLEAN, NEW close \in BOOLEAN, ResetHandle(s, h, own, close)
        PROVE  FALSE
    BY <1>1, <2>4 DEF ResetHandle
  <2>5. ASSUME NEW s \in Sockets, Close(s) \/ CollectSocket(s)
        PROVE  LifeOK'
    BY <1>1, <2>5, CloseSteps
  <2>6. ASSUME NEW c \in Contexts, NEW s \in Sockets, Autoclose(c, s)
        PROVE  LifeOK'
    BY <1>1, <2>6, AutocloseKeeps
  <2>7. ASSUME NEW c \in Contexts, Destroy(c) \/ Shutdown(c) \/ CollectContext(c)
        PROVE  LifeOK'
    BY <1>1, <2>7, WalkSteps
  <2>8. CASE CallbackReturns \/ CloseListed \/ WalkEnds
    BY <2>8, ReturnKeeps, ListedKeeps, WalkEndsKeeps
  <2>9. CASE Term \/ TermInterrupted \/ Stop
    BY <2>9, PopSteps
  <2>10. QED
    BY <2>1, <2>2, <2>3, <2>4, <2>5, <2>6, <2>7, <2>8, <2>9 DEF Next
<1>4. QED
  BY <1>2, <1>3 DEF LifeInv, LifeOK, CountInv

LEMMA LifeHolds ==
    ASSUME Orderly
    PROVE  Spec => []LifeInv
<1>1. LifeInv /\ [Next]_vars => LifeInv'
  BY LifeStep
<1>2. QED
  BY <1>1, LifeInit, PTL DEF Spec

-----------------------------------------------------------------------------
(* What the invariant says.                                                *)

(* A call that nothing closes its own object under finds every assertion   *)
(* true, so none fails when closes and destroys of an object are not       *)
(* nested: in whatever order callbacks of other objects, the collector and *)
(* the walk of a destroy come to the sockets.                              *)
THEOREM NoAssertionFails ==
    ASSUME Orderly
    PROVE  Spec => [](fault = "none")
<1>h. "handles" \notin Uses
  BY DEF Orderly, Plain
<1> DEFINE Holds == fault = "none"
<1>1. Spec => []LifeInv /\ []NativeInv
  BY <1>h, LifeHolds, NativesHold, PTL
<1>2. LifeInv /\ NativeInv /\ Holds /\ [Next]_vars => Holds'
  <2> SUFFICES ASSUME LifeInv, NativeInv, Holds, [Next]_vars, fault' # fault
               PROVE  FALSE
    OBVIOUS
  <2>1. stack # << >> /\ Top.obj \in closed
    BY <1>h, NativeStep
  <2>2. QED
    BY <2>1, TopIsLast
<1>3. Init => Holds
  BY DEF Init
<1> HIDE DEF Holds
<1>4. Spec => []Holds
  BY <1>1, <1>2, <1>3, PTL DEF Spec
<1>5. QED
  BY <1>4 DEF Holds

(* destroy calls zmq_ctx_term with nothing left to wait for: its walk has  *)
(* closed every socket of the context, those closed by a callback of       *)
(* another one or by a destroy that runs below it too.                     *)
THEOREM TermWaitsForNothing ==
    ASSUME Plain, Uses \cap {"create", "raise", "wrap"} = {}
    PROVE  Spec => []TermFindsNothingOpen
<1>1. Spec => []LifeInv
  BY LifeHolds DEF Orderly
<1>2. LifeInv => TermFindsNothingOpen
  <2> SUFFICES ASSUME LifeInv, TopIs("term"), NEW h \in SocketsOf(Top.obj)
               PROVE  FALSE
    BY DEF TermFindsNothingOpen
  <2>1. /\ PointersType /\ HandlesOK /\ ListOK(stack, Alive, ctx, autoclose)
    BY LifeTypes DEF ListInv
  <2>2. /\ Len(stack) \in DOMAIN stack /\ Top = stack[Len(stack)]
        /\ Top.op = "term" /\ Top.obj \in Contexts
    BY TopIsLast DEF TopIs
  <2>3. h \in Alive /\ ctx[h] # NoContext /\ native[ctx[h]] = native[Top.obj]
    BY <2>1 DEF SocketsOf, HandlesOK
  <2>4. ctx[h] = Top.obj
    BY <2>1, <2>2, <2>3 DEF HandlesOK, PointersType, Alive
  <2>5. QED
    BY <2>1, <2>2, <2>3, <2>4 DEF ListOK
<1>3. QED
  BY <1>1, <1>2, PTL

-----------------------------------------------------------------------------
(* Every step is a step of Lifecycle, or none.                             *)
ContextView ==
    [c \in Contexts |-> IF c \notin made THEN "unborn"
                        ELSE IF c \in closed THEN "closed" ELSE "open"]
SocketView ==
    [s \in Sockets |-> IF s \notin made THEN "unborn"
                       ELSE IF s \in closed THEN "closed"
                       ELSE IF IsClosing(s) THEN "notified" ELSE "open"]

LEMMA LifecycleSees ==
    /\ L!Init <=> /\ ContextView = [c \in Contexts |-> "unborn"]
                  /\ SocketView = [s \in Sockets |-> "unborn"]
                  /\ ctx = [s \in Sockets |-> NoContext]
    /\ \A c \in Contexts, v \in {"open", "closed"} :
          /\ ContextView[c] = "unborn"
          /\ ContextView' = [ContextView EXCEPT ![c] = v]
          /\ SocketView' = SocketView /\ ctx' = ctx
          => L!Next
    /\ \A s \in Sockets, c \in Contexts, v \in {"open", "closed"} :
          /\ SocketView[s] = "unborn" /\ ContextView[c] = "open"
          /\ SocketView' = [SocketView EXCEPT ![s] = v]
          /\ ctx' = [ctx EXCEPT ![s] = c]
          /\ ContextView' = ContextView
          => L!Next
    /\ \A s \in Sockets :
          /\ SocketView[s] = "open" /\ ContextView[ctx[s]] = "open"
          /\ SocketView' = [SocketView EXCEPT ![s] = "notified"]
          /\ ContextView' = ContextView /\ ctx' = ctx
          => L!Next
    /\ \A s \in Sockets :
          /\ SocketView[s] \in {"open", "notified"} /\ ContextView[ctx[s]] = "open"
          /\ SocketView' = [SocketView EXCEPT ![s] = "closed"]
          /\ ContextView' = ContextView /\ ctx' = ctx
          => L!Next
    /\ \A c \in Contexts :
          /\ ContextView[c] = "open"
          /\ \A s \in Sockets : ctx[s] = c => SocketView[s] = "closed"
          /\ ContextView' = [ContextView EXCEPT ![c] = "closed"]
          /\ SocketView' = SocketView /\ ctx' = ctx
          => L!Next
    /\ UNCHANGED L!vars <=> UNCHANGED <<ContextView, SocketView, ctx>>
<1>1. L!Init <=> /\ ContextView = [c \in Contexts |-> "unborn"]
                 /\ SocketView = [s \in Sockets |-> "unborn"]
                 /\ ctx = [s \in Sockets |-> NoContext]
  BY DEF L!Init, ContextView, SocketView
<1>2. ASSUME NEW c \in Contexts, NEW v \in {"open", "closed"},
             ContextView[c] = "unborn",
             ContextView' = [ContextView EXCEPT ![c] = v],
             SocketView' = SocketView, ctx' = ctx
      PROVE  L!Next
  <2>1. CASE v = "open"
    <3>1. L!CreateContext(c)
      BY <1>2, <2>1 DEF L!CreateContext, ContextView, SocketView
    <3>2. QED
      BY <3>1 DEF L!Next
  <2>2. CASE v = "closed"
    <3>1. L!CreateFails(c)
      BY <1>2, <2>2 DEF L!CreateFails, ContextView, SocketView
    <3>2. QED
      BY <3>1 DEF L!Next
  <2>3. QED
    BY <2>1, <2>2
<1>3. ASSUME NEW s \in Sockets, NEW c \in Contexts, NEW v \in {"open", "closed"},
             SocketView[s] = "unborn", ContextView[c] = "open",
             SocketView' = [SocketView EXCEPT ![s] = v],
             ctx' = [ctx EXCEPT ![s] = c],
             ContextView' = ContextView
      PROVE  L!Next
  <2>1. CASE v = "open"
    <3>1. L!OpenSocket(s, c)
      BY <1>3, <2>1 DEF L!OpenSocket, ContextView, SocketView
    <3>2. QED
      BY <3>1 DEF L!Next
  <2>2. CASE v = "closed"
    <3>1. L!OpenFails(s, c)
      BY <1>3, <2>2 DEF L!OpenFails, ContextView, SocketView
    <3>2. QED
      BY <3>1 DEF L!Next
  <2>3. QED
    BY <2>1, <2>2
<1>4. ASSUME NEW s \in Sockets,
             SocketView[s] = "open", ContextView[ctx[s]] = "open",
             SocketView' = [SocketView EXCEPT ![s] = "notified"],
             ContextView' = ContextView, ctx' = ctx
      PROVE  L!Next
  <2>1. L!NotifyOwner(s)
    BY <1>4 DEF L!NotifyOwner, ContextView, SocketView
  <2>2. QED
    BY <2>1 DEF L!Next
<1>5. ASSUME NEW s \in Sockets,
             SocketView[s] \in {"open", "notified"}, ContextView[ctx[s]] = "open",
             SocketView' = [SocketView EXCEPT ![s] = "closed"],
             ContextView' = ContextView, ctx' = ctx
      PROVE  L!Next
  <2>1. L!CloseSocket(s)
    BY <1>5 DEF L!CloseSocket, ContextView, SocketView
  <2>2. QED
    BY <2>1 DEF L!Next
<1>6. ASSUME NEW c \in Contexts, ContextView[c] = "open",
             \A s \in Sockets : ctx[s] = c => SocketView[s] = "closed",
             ContextView' = [ContextView EXCEPT ![c] = "closed"],
             SocketView' = SocketView, ctx' = ctx
      PROVE  L!Next
  <2>1. L!DestroyContext(c)
    BY <1>6 DEF L!DestroyContext, ContextView, SocketView
  <2>2. QED
    BY <2>1 DEF L!Next
<1>7. UNCHANGED L!vars <=> UNCHANGED <<ContextView, SocketView, ctx>>
  BY DEF L!vars, ContextView, SocketView
<1>8. QED
  BY <1>1, <1>2, <1>3, <1>4, <1>5, <1>6, <1>7

(* The views before and after a step, and what a step does to them.        *)
LEMMA ViewsAre ==
    /\ ContextView = [c \in Contexts |-> IF c \notin made THEN "unborn"
                                         ELSE IF c \in closed THEN "closed" ELSE "open"]
    /\ ContextView' = [c \in Contexts |-> IF c \notin made' THEN "unborn"
                                          ELSE IF c \in closed' THEN "closed" ELSE "open"]
    /\ SocketView = [s \in Sockets |-> IF s \notin made THEN "unborn"
                                       ELSE IF s \in closed THEN "closed"
                                       ELSE IF s \in ClosingIn(stack) THEN "notified"
                                       ELSE "open"]
    /\ SocketView' = [s \in Sockets |-> IF s \notin made' THEN "unborn"
                                        ELSE IF s \in closed' THEN "closed"
                                        ELSE IF s \in ClosingIn(stack') THEN "notified"
                                        ELSE "open"]
<1>1. ASSUME NEW s \in Sockets
      PROVE  /\ IsClosing(s) <=> s \in ClosingIn(stack)
             /\ IsClosing(s)' <=> s \in ClosingIn(stack')
  BY ClosingIs DEF IsClosing
<1>2. QED
  BY <1>1 DEF ContextView, SocketView

LEMMA ContextsStay ==
    ASSUME made' \cap Contexts = made \cap Contexts,
           closed' \cap Contexts = closed \cap Contexts
    PROVE  ContextView' = ContextView
<1>1. \A c \in Contexts : (c \in made' <=> c \in made) /\ (c \in closed' <=> c \in closed)
  OBVIOUS
<1>2. QED
  BY <1>1, ViewsAre

LEMMA SocketsStay ==
    ASSUME made' \cap Sockets = made \cap Sockets,
           closed' \cap Sockets = closed \cap Sockets,
           ClosingIn(stack') = ClosingIn(stack)
    PROVE  SocketView' = SocketView
<1>1. \A s \in Sockets : (s \in made' <=> s \in made) /\ (s \in closed' <=> s \in closed)
  OBVIOUS
<1>2. QED
  BY <1>1, ViewsAre

LEMMA OneContext ==
    ASSUME NEW c \in Contexts, made' \in {made, made \cup {c}}, c \in made',
           closed' \in {closed, closed \cup {c}}
    PROVE  ContextView' = [ContextView EXCEPT
                              ![c] = IF c \in closed' THEN "closed" ELSE "open"]
<1>1. \A d \in Contexts : d # c =>
          (d \in made' <=> d \in made) /\ (d \in closed' <=> d \in closed)
  OBVIOUS
<1>2. QED
  BY <1>1, ViewsAre

LEMMA OneSocket ==
    ASSUME NEW s \in Sockets, made' \in {made, made \cup {s}}, s \in made',
           closed' \in {closed, closed \cup {s}},
           ClosingIn(stack') \in {ClosingIn(stack), ClosingIn(stack) \cup {s},
                                  ClosingIn(stack) \ {s}}
    PROVE  SocketView' = [SocketView EXCEPT
                             ![s] = IF s \in closed' THEN "closed"
                                    ELSE IF s \in ClosingIn(stack') THEN "notified"
                                    ELSE "open"]
<1>1. \A x \in Sockets : x # s =>
          /\ x \in made' <=> x \in made
          /\ x \in closed' <=> x \in closed
          /\ x \in ClosingIn(stack') <=> x \in ClosingIn(stack)
  OBVIOUS
<1>2. QED
  BY <1>1, ViewsAre

(* The sockets that are being closed, when calls are rewritten or begin.   *)
LEMMA SameClosing ==
    ASSUME NEW stk, NEW r, DOMAIN r = DOMAIN stk,
           \A i \in DOMAIN stk : r[i].obj = stk[i].obj
                                 /\ (r[i].op = "close" <=> stk[i].op = "close")
    PROVE  ClosingIn(r) = ClosingIn(stk)
BY DEF ClosingIn

LEMMA MoreClosing ==
    ASSUME NEW stk \in Seq(Frame), NEW f
    PROVE  ClosingIn(Append(stk, f)) =
               ClosingIn(stk) \cup (IF f.op = "close" THEN {f.obj} ELSE {})
<1> DEFINE r == Append(stk, f)
           n == Len(stk)
<1>1. n \in Nat /\ DOMAIN stk = 1 .. n
  BY LenProperties
<1>2. /\ DOMAIN r = 1 .. n + 1 /\ r[n + 1] = f
      /\ \A i \in 1 .. n : r[i] = stk[i]
  BY <1>1
<1> HIDE DEF r, n
<1>3. DOMAIN r = DOMAIN stk \cup {n + 1} /\ \A i \in DOMAIN stk : r[i] = stk[i]
  BY <1>1, <1>2
<1>4. ASSUME NEW x
      PROVE  x \in ClosingIn(r) <=> x \in ClosingIn(stk) \/ (f.op = "close" /\ x = f.obj)
  <2>1. (\E i \in DOMAIN r : r[i].op = "close" /\ r[i].obj = x)
        <=> \/ \E i \in DOMAIN stk : stk[i].op = "close" /\ stk[i].obj = x
            \/ f.op = "close" /\ x = f.obj
    BY <1>2, <1>3
  <2>2. QED
    BY <2>1, ClosingIs
<1>5. QED
  BY <1>4 DEF r

-----------------------------------------------------------------------------
(* Re-entrant closes, orphans, adopted sockets, sockets created in a walk  *)
(* and setters that raise are all allowed from here on: a close or destroy *)
(* of what is closed meanwhile is not to be seen.                          *)

HomeOpen == \A s \in Alive : ctx[s] \in (Contexts \cap made) \ closed

ViewInv == NativeInv /\ HomeOpen /\ borrowed = {}

NothingShared == Uses \cap {"handles", "wrap"} = {}

LEMMA ViewTypes ==
    ASSUME ViewInv
    PROVE  /\ TypeOK /\ ObjectsType /\ RefsType /\ PointersType
           /\ OwnHandles /\ NativesOK /\ HomeOpen /\ GoodStack(stack, made)
BY StackIsGood DEF ViewInv, NativeInv, CountInv, TypeOK

(* zmq_ctx_term returns when no socket of the context is open.             *)
LEMMA TermFindsNone ==
    ASSUME ViewInv, Term
    PROVE  /\ stack # << >> /\ Top.obj \in Contexts \cap made
           /\ stack' = Pop /\ closed' = closed \cup {Top.obj}
           /\ Top.obj \in closed \/ \A x \in Alive : ctx[x] # Top.obj
<1>t. TypeOK /\ PointersType /\ NativesOK /\ HomeOpen
  BY ViewTypes
<1> DEFINE c == Top.obj
<1>1. stack # << >> /\ Top.op = "term" /\ stack' = Pop /\ closed' = closed \cup {c}
  BY DEF Term, TopIs
<1>2. c \in Contexts \cap made
  BY <1>t, <1>1, TopFits DEF TypeOK, FrameFits
<1>3. c \notin borrowed /\ native[c] = c
  BY <1>t, <1>2 DEF ViewInv, NativesOK
<1>4. ASSUME c \notin closed, NEW x \in Alive, ctx[x] = c
      PROVE  FALSE
  <2>1. c \notin terminated
    BY <1>t, <1>4 DEF NativesOK
  <2>2. SocketsOf(c) = {}
    BY <1>3, <2>1 DEF Term
  <2>3. x \in opened /\ ctx[x] # NoContext
    BY <1>t, <1>2, <1>4, ObjectsAssumption DEF NativesOK
  <2>4. QED
    BY <1>4, <2>2, <2>3 DEF SocketsOf
<1>5. QED
  BY <1>1, <1>2, <1>4

LEMMA HomeStaysOpen ==
    ASSUME ViewInv, [Next]_vars, NothingShared
    PROVE  HomeOpen' /\ borrowed' = {}
<1> USE DEF objects, flags, pointers, libzmq, closing, callbacks
<1>t. TypeOK /\ ObjectsType /\ PointersType /\ HomeOpen /\ borrowed = {}
  BY ViewTypes DEF ViewInv
<1>n. "handles" \notin Uses /\ "wrap" \notin Uses
  BY DEF NothingShared
<1>h. \A x \in Alive : ctx[x] \in Contexts \cap made /\ ctx[x] \notin closed
  BY <1>t DEF HomeOpen
(* Steps that open no socket, and close no context but a new one.          *)
<1>q. ASSUME made' \cap Sockets = made \cap Sockets, made \subseteq made',
             closed \subseteq closed', closed' \subseteq closed \cup Sockets \cup (made' \ made),
             UNCHANGED <<ctx, borrowed>>
      PROVE  HomeOpen' /\ borrowed' = {}
  <2>1. ASSUME NEW x \in Alive'
        PROVE  ctx'[x] \in (Contexts \cap made') \ closed'
    <3>1. x \in Alive
      BY <1>q, <2>1 DEF Alive
    <3>2. ctx[x] \in Contexts \cap made /\ ctx[x] \notin closed /\ ctx[x] \notin Sockets
      BY <1>h, <3>1, ObjectsAssumption
    <3>3. QED
      BY <1>q, <3>2
  <2>2. QED
    BY <1>q, <1>t, <2>1 DEF HomeOpen
<1>1. CASE \/ \E c \in Contexts : NewContext(c) \/ NewContextFails(c)
           \/ \E s \in Sockets : OnClose(s) \/ OnCloseNil(s)
           \/ \E c \in Contexts, s \in Sockets : Autoclose(c, s)
           \/ \E c \in Contexts : Destroy(c) \/ Shutdown(c) \/ CollectContext(c)
           \/ \E obj \in Objects : Drop(obj)
           \/ WalkEnds
           \/ TermInterrupted
           \/ Stop
           \/ UNCHANGED vars
  <2>1. /\ made \subseteq made' /\ closed \subseteq closed'
        /\ closed' \subseteq closed \cup (made' \ made)
        /\ UNCHANGED <<ctx, borrowed>>
    BY <1>1 DEF NewContext, NewContextFails, OnClose, OnCloseNil, Autoclose, Destroy,
                Shutdown, CollectContext, Drop, WalkEnds, TermInterrupted, Stop, vars
  <2>2. made' \cap Sockets = made \cap Sockets
    BY <1>1, ObjectsAssumption
       DEF NewContext, NewContextFails, OnClose, OnCloseNil, Autoclose, Destroy,
           Shutdown, CollectContext, Drop, WalkEnds, TermInterrupted, Stop, vars
  <2>3. QED
    BY <1>q, <2>1, <2>2
<1>2. CASE \E c, d \in Contexts : InitCtx(c, d)
  BY <1>2, <1>n DEF InitCtx
<1>3. CASE \E s, src \in Sockets : InitSocket(s, src)
  BY <1>3, <1>n DEF InitSocket
<1>4. CASE \E s, h \in Sockets, own, close \in BOOLEAN : ResetHandle(s, h, own, close)
  BY <1>4, <1>n DEF ResetHandle
<1>5. ASSUME NEW c \in Contexts, NEW s \in Sockets,
             NewSocket(c, s) \/ NewSocketFails(c, s) \/ NewSocketRaises(c, s)
      PROVE  HomeOpen' /\ borrowed' = {}
  <2>1. /\ CreateSocket(c, s) /\ closed' \in {closed, closed \cup {s}}
        /\ UNCHANGED borrowed
    BY <1>5 DEF NewSocket, NewSocketFails, NewSocketRaises
  <2>2. /\ c \in made /\ c \notin closed /\ s \notin made
        /\ made' = made \cup {s} /\ ctx' = [ctx EXCEPT ![s] = c]
    BY <1>t, <2>1 DEF CreateSocket, Usable, ObjectsType
  <2>3. s \notin Contexts
    BY ObjectsAssumption
  <2>4. ASSUME NEW x \in Alive'
        PROVE  ctx'[x] \in (Contexts \cap made') \ closed'
    <3>1. CASE x = s
      BY <1>t, <2>1, <2>2, <2>3, <3>1 DEF PointersType
    <3>2. CASE x # s
      <4>1. x \in Alive /\ ctx'[x] = ctx[x]
        BY <1>t, <2>1, <2>2, <3>2 DEF Alive, PointersType
      <4>2. QED
        BY <1>h, <2>1, <2>2, <2>3, <4>1
    <3>3. QED
      BY <3>1, <3>2
  <2>5. QED
    BY <1>t, <2>1, <2>4 DEF HomeOpen
<1>6. CASE \/ \E s \in Sockets : Close(s) \/ CollectSocket(s)
           \/ CloseListed
           \/ CallbackReturns
  <2>1. UNCHANGED <<made, ctx, borrowed>>
    BY <1>6 DEF Close, CollectSocket, CloseListed, CallbackReturns
  <2>2. ASSUME NEW s \in Sockets, NEW stk, BeginClose(s, stk)
        PROVE  closed' \in {closed, closed \cup {s}}
    BY <2>2 DEF BeginClose, EndClose
  <2>3. closed \subseteq closed' /\ closed' \subseteq closed \cup Sockets
    <3>1. CASE \E s \in Sockets : Close(s) \/ CollectSocket(s)
      BY <2>2, <3>1 DEF Close, CollectSocket
    <3>2. CASE CloseListed
      <4>1. stack # << >>
        BY <3>2 DEF CloseListed, TopIs
      <4>2. Top.todo \subseteq Sockets
        BY <1>t, <4>1, TopFits DEF TypeOK, Frame
      <4>3. QED
        BY <2>2, <3>2, <4>2 DEF CloseListed
    <3>3. CASE CallbackReturns
      <4>1. /\ stack # << >> /\ Top.op = "close" /\ closed' = closed \cup {Top.obj}
        BY <3>3 DEF CallbackReturns, InCallback, TopIs, EndClose
      <4>2. Top.obj \in Sockets
        BY <1>t, <4>1, TopFits DEF TypeOK, FrameFits
      <4>3. QED
        BY <4>1, <4>2
    <3>4. QED
      BY <1>6, <3>1, <3>2, <3>3
  <2>4. QED
    BY <1>q, <2>1, <2>3
<1>7. CASE Term
  <2>1. /\ Top.obj \in Contexts /\ closed' = closed \cup {Top.obj}
        /\ Top.obj \in closed \/ \A x \in Alive : ctx[x] # Top.obj
    BY <1>7, TermFindsNone
  <2>2. UNCHANGED <<made, ctx, borrowed>>
    BY <1>7 DEF Term
  <2>3. QED
    BY <1>t, <1>h, <2>1, <2>2 DEF HomeOpen, Alive
<1>8. QED
  BY <1>1, <1>2, <1>3, <1>4, <1>5, <1>6, <1>7 DEF Next

LEMMA ViewHolds ==
    ASSUME NothingShared
    PROVE  Spec => []ViewInv
<1> DEFINE Rest == HomeOpen /\ borrowed = {}
<1>1. Init => Rest
  BY DEF Init, HomeOpen, Alive
<1>2. NativeInv /\ Rest /\ [Next]_vars => Rest'
  BY HomeStaysOpen DEF ViewInv
<1>3. Spec => []NativeInv
  BY NativesHold DEF NothingShared
<1>4. ViewInv <=> NativeInv /\ Rest
  BY DEF ViewInv
<1> HIDE DEF Rest
<1>5. QED
  BY <1>1, <1>2, <1>3, <1>4, PTL DEF Spec

(* A socket that is not closed has a context that is open.                 *)
LEMMA HomeIsOpen ==
    ASSUME ViewInv, NEW s \in Alive
    PROVE  /\ s \in Sockets /\ s \in made /\ s \notin closed /\ s \notin Contexts
           /\ ctx[s] \in Contexts /\ ContextView[ctx[s]] = "open"
<1>1. HomeOpen
  BY ViewTypes
<1>2. s \in Sockets /\ s \in made /\ s \notin closed /\ s \notin Contexts
  BY ObjectsAssumption DEF Alive
<1>3. ctx[s] \in Contexts /\ ctx[s] \in made /\ ctx[s] \notin closed
  BY <1>1 DEF HomeOpen
<1>4. QED
  BY <1>2, <1>3 DEF ContextView

LEMMA CloseIsStep ==
    ASSUME ViewInv, NEW s \in Sockets \cap made, NEW stk, GoodStack(stk, made),
           ClosingIn(stk) = ClosingIn(stack),
           BeginClose(s, stk), UNCHANGED <<made, ctx>>
    PROVE  [L!Next]_(L!vars)
<1> USE DEF closing
<1>n. s \notin Contexts
  BY ObjectsAssumption
<1>1. CASE s \in closed /\ stack' = stk /\ UNCHANGED closing
  <2>1. ContextView' = ContextView /\ SocketView' = SocketView
    BY <1>1, ContextsStay, SocketsStay
  <2>2. QED
    BY <2>1, LifecycleSees
<1>2. CASE /\ s \notin closed
           /\ stack' = Append(stk, NewFrame("close", s, {}))
           /\ UNCHANGED closing
  <2> DEFINE f == NewFrame("close", s, {})
  <2>1. f.op = "close" /\ f.obj = s
    BY NewFrameType DEF Objects
  <2> HIDE DEF f
  <2>2. stack' = Append(stk, f) /\ stk \in Seq(Frame)
    BY <1>2, FramesAre DEF f
  <2>3. ClosingIn(stack') = ClosingIn(stack) \cup {s}
    BY <2>1, <2>2, MoreClosing
  <2>4. ContextView' = ContextView
    BY <1>2, ContextsStay
  <2>5. CASE s \in ClosingIn(stack)
    <3>1. SocketView' = SocketView
      BY <1>2, <2>3, <2>5, SocketsStay
    <3>2. QED
      BY <2>4, <3>1, LifecycleSees
  <2>6. CASE s \notin ClosingIn(stack)
    <3>1. SocketView' = [SocketView EXCEPT ![s] = "notified"]
      BY <1>2, <2>3, OneSocket
    <3>2. SocketView[s] = "open"
      BY <1>2, <2>6, ViewsAre
    <3>3. ContextView[ctx[s]] = "open"
      BY <1>2, HomeIsOpen DEF Alive
    <3>4. QED
      BY <2>4, <3>1, <3>2, <3>3, LifecycleSees
  <2>7. QED
    BY <2>5, <2>6
<1>3. CASE s \notin closed /\ stack' = stk /\ EndClose(s)
  <2>1. closed' = closed \cup {s}
    BY <1>3 DEF EndClose
  <2>2. ContextView' = ContextView
    BY <1>n, <2>1, ContextsStay
  <2>3. SocketView' = [SocketView EXCEPT ![s] = "closed"]
    BY <1>3, <2>1, OneSocket
  <2>4. SocketView[s] \in {"open", "notified"}
    BY <1>3, ViewsAre
  <2>5. ContextView[ctx[s]] = "open"
    BY <1>3, HomeIsOpen DEF Alive
  <2>6. QED
    BY <2>2, <2>3, <2>4, <2>5, LifecycleSees
<1>4. QED
  BY <1>1, <1>2, <1>3 DEF BeginClose

(* The sockets that are being closed, when the last call returns: it may   *)
(* not be the only one of its socket.                                      *)
LEMMA PopClosing ==
    ASSUME TypeOK, stack # << >>
    PROVE  /\ ClosingIn(Pop) \in {ClosingIn(stack), ClosingIn(stack) \ {Top.obj}}
           /\ Top.op # "close" => ClosingIn(Pop) = ClosingIn(stack)
<1>1. /\ DOMAIN Pop \subseteq DOMAIN stack
      /\ \A i \in DOMAIN Pop : Pop[i] = stack[i]
  BY PopFits DEF TypeOK
<1>2. \A i \in DOMAIN stack : i \in DOMAIN Pop \/ stack[i] = Top
  <2>1. stack \in Seq(Frame) /\ Len(stack) \in Nat /\ Len(stack) > 0
        /\ DOMAIN stack = 1 .. Len(stack)
    BY DEF TypeOK, ControlType
  <2>2. DOMAIN Pop = 1 .. Len(stack) - 1
    BY <2>1 DEF Pop
  <2>3. QED
    BY <2>1, <2>2 DEF Top
<1>3. ASSUME NEW x
      PROVE  /\ x \in ClosingIn(Pop) => x \in ClosingIn(stack)
             /\ x \in ClosingIn(stack) =>
                   x \in ClosingIn(Pop) \/ (Top.op = "close" /\ x = Top.obj)
  BY <1>1, <1>2, ClosingIs
<1>4. QED
  BY <1>3

(* The walk takes a socket from its list.                                  *)
LEMMA WalkedIs ==
    ASSUME TypeOK, stack # << >>, NEW s \in Top.todo
    PROVE  /\ s \in Sockets \cap made
           /\ GoodStack(Walked(s), made)
           /\ ClosingIn(Walked(s)) = ClosingIn(stack)
<1>t. GoodStack(stack, made)
  BY StackIsGood
<1>1. Top \in Frame /\ FrameFits(Top, made) /\ Len(stack) \in DOMAIN stack
      /\ Top = stack[Len(stack)]
  BY TopFits DEF TypeOK, Top
<1>2. s \in Sockets \cap made
  BY <1>1 DEF Frame, FrameFits
<1> DEFINE f == [Top EXCEPT !.todo = @ \ {s}]
           g == [i \in DOMAIN stack |-> IF i = Len(stack) THEN f ELSE stack[i]]
<1>3. f \in Frame /\ f.op = Top.op /\ f.obj = Top.obj /\ f.todo \subseteq Top.todo
  BY <1>1 DEF Frame
<1>4. FrameFits(f, made)
  BY <1>1, <1>3 DEF FrameFits
<1>5. Walked(s) = g
  BY <1>t DEF Walked, SetTop, GoodStack
<1> HIDE DEF f
<1>6. /\ DOMAIN g = DOMAIN stack
      /\ \A i \in DOMAIN stack :
            /\ g[i] \in Frame /\ FrameFits(g[i], made)
            /\ g[i].op = stack[i].op /\ g[i].obj = stack[i].obj
  BY <1>t, <1>1, <1>3, <1>4 DEF GoodStack
<1>7. g = [i \in DOMAIN stack |-> g[i]]
  OBVIOUS
<1> HIDE DEF g
<1>8. GoodStack(g, made)
  <2>1. GoodStack([i \in DOMAIN stack |-> g[i]], made)
    BY <1>6, MapFits DEF TypeOK
  <2>2. QED
    BY <1>7, <2>1
<1>9. ClosingIn(g) = ClosingIn(stack)
  BY <1>6, SameClosing
<1>10. QED
  BY <1>2, <1>5, <1>8, <1>9

LEMMA ClosesAreSteps ==
    ASSUME ViewInv,
           \/ \E s \in Sockets : Close(s) \/ CollectSocket(s)
           \/ CloseListed
           \/ CallbackReturns
    PROVE  [L!Next]_(L!vars)
<1> USE DEF objects, pointers
<1>t. /\ TypeOK /\ ObjectsType /\ GoodStack(stack, made)
  BY ViewTypes
<1>1. ASSUME NEW s \in Sockets, Close(s)
      PROVE  [L!Next]_(L!vars)
  <2>1. s \in made
    BY <1>1, <1>t DEF Close, ObjectsType
  <2>2. QED
    BY <1>1, <1>t, <2>1, CloseIsStep DEF Close
<1>2. ASSUME NEW s \in Sockets, CollectSocket(s)
      PROVE  [L!Next]_(L!vars)
  <2>1. s \in made
    BY <1>2 DEF CollectSocket, Collectable
  <2>2. QED
    BY <1>2, <1>t, <2>1, CloseIsStep DEF CollectSocket
<1>3. CASE CloseListed
  <2>1. stack # << >>
    BY <1>3 DEF CloseListed, TopIs
  <2>2. PICK s \in Top.todo : BeginClose(s, Walked(s))
    BY <1>3 DEF CloseListed, Walked
  <2>3. QED
    BY <1>3, <1>t, <2>1, <2>2, WalkedIs, CloseIsStep DEF CloseListed
<1>4. CASE CallbackReturns
  <2> DEFINE s == Top.obj
  <2>1. stack # << >> /\ Top.op = "close" /\ stack' = Pop /\ EndClose(s)
        /\ UNCHANGED <<made, ctx>>
    BY <1>4 DEF CallbackReturns, InCallback, TopIs
  <2>2. s \in Sockets \cap made /\ s \notin Contexts
    BY <1>t, <2>1, TopFits, ObjectsAssumption DEF TypeOK, FrameFits
  <2>3. ClosingIn(stack') \in {ClosingIn(stack), ClosingIn(stack) \ {s}}
    BY <1>t, <2>1, PopClosing
  <2> HIDE DEF s
  <2>4. closed' = closed \cup {s}
    BY <2>1 DEF EndClose
  <2>5. ContextView' = ContextView
    BY <2>1, <2>2, <2>4, ContextsStay
  <2>6. SocketView' = [SocketView EXCEPT ![s] = "closed"]
    BY <2>1, <2>2, <2>3, <2>4, OneSocket
  <2>7. CASE s \in closed
    <3>1. SocketView[s] = "closed" /\ SocketView = [x \in Sockets |-> SocketView[x]]
      BY <2>2, <2>7, ViewsAre
    <3>2. SocketView' = SocketView
      BY <2>2, <2>6, <3>1
    <3>3. QED
      BY <2>1, <2>5, <3>2, LifecycleSees
  <2>8. CASE s \notin closed
    <3>1. SocketView[s] \in {"open", "notified"} /\ ContextView[ctx[s]] = "open"
      BY <2>2, <2>8, HomeIsOpen, ViewsAre DEF Alive
    <3>2. QED
      BY <2>1, <2>2, <2>5, <2>6, <3>1, LifecycleSees
  <2>9. QED
    BY <2>7, <2>8
<1>5. QED
  BY <1>1, <1>2, <1>3, <1>4

LEMMA OpensAreSteps ==
    ASSUME ViewInv, NEW c \in Contexts, NEW s \in Sockets,
           NewSocket(c, s) \/ NewSocketFails(c, s) \/ NewSocketRaises(c, s)
    PROVE  [L!Next]_(L!vars)
<1> USE DEF objects, closing
<1>t. TypeOK /\ ObjectsType /\ GoodStack(stack, made)
  BY ViewTypes
<1>1. /\ CreateSocket(c, s) /\ closed' \in {closed, closed \cup {s}}
      /\ stack' = stack \/ StoreKey(s, c)
  BY DEF NewSocket, NewSocketFails, NewSocketRaises
<1>2. /\ c \in made /\ c \notin closed /\ s \notin made
      /\ made' = made \cup {s} /\ ctx' = [ctx EXCEPT ![s] = c]
  BY <1>1, <1>t DEF CreateSocket, Usable, ObjectsType
<1>3. s \notin Contexts
  BY ObjectsAssumption
<1>4. ClosingIn(stack') = ClosingIn(stack)
  <2>1. CASE StoreKey(s, c)
    BY <1>t, <2>1, StoreKeyIs, SameClosing
  <2>2. QED
    BY <1>1, <2>1
<1>5. s \notin ClosingIn(stack)
  BY <1>t, <1>2, ClosingAre
<1>6. ContextView' = ContextView
  BY <1>1, <1>2, <1>3, ContextsStay
<1>7. ContextView[c] = "open" /\ SocketView[s] = "unborn"
  BY <1>2, ViewsAre
<1>8. \E v \in {"open", "closed"} : SocketView' = [SocketView EXCEPT ![s] = v]
  BY <1>1, <1>2, <1>4, <1>5, OneSocket
<1>9. QED
  BY <1>2, <1>6, <1>7, <1>8, LifecycleSees

LEMMA CreatesAreSteps ==
    ASSUME NEW c \in Contexts,
           \/ NewContext(c) \/ NewContextFails(c)
           \/ \E d \in Contexts : InitCtx(c, d)
    PROVE  [L!Next]_(L!vars)
<1> USE DEF pointers, closing
<1>1. /\ c \notin made /\ made' = made \cup {c} /\ closed' \in {closed, closed \cup {c}}
      /\ stack' = stack /\ ctx' = ctx
  BY DEF NewContext, NewContextFails, InitCtx
<1>2. c \notin Sockets
  BY ObjectsAssumption
<1>3. SocketView' = SocketView
  BY <1>1, <1>2, SocketsStay
<1>4. ContextView[c] = "unborn"
  BY <1>1, ViewsAre
<1>5. \E v \in {"open", "closed"} : ContextView' = [ContextView EXCEPT ![c] = v]
  BY <1>1, OneContext
<1>6. QED
  BY <1>1, <1>3, <1>4, <1>5, LifecycleSees

LEMMA TermIsStep ==
    ASSUME ViewInv, Term
    PROVE  [L!Next]_(L!vars)
<1> USE DEF objects, pointers
<1>t. TypeOK /\ ObjectsType /\ OwnHandles
  BY ViewTypes
<1> DEFINE c == Top.obj
<1>1. /\ stack # << >> /\ stack' = Pop /\ c \in Contexts \cap made
      /\ closed' = closed \cup {c}
      /\ c \in closed \/ \A x \in Alive : ctx[x] # c
  BY TermFindsNone
<1>2. UNCHANGED <<made, ctx>> /\ Top.op # "close"
  BY DEF Term, TopIs
<1>3. ClosingIn(stack') = ClosingIn(stack)
  BY <1>t, <1>1, <1>2, PopClosing
<1> HIDE DEF c
<1>4. c \notin Sockets
  BY <1>1, ObjectsAssumption
<1>5. SocketView' = SocketView
  BY <1>1, <1>2, <1>3, <1>4, SocketsStay
<1>6. CASE c \in closed
  <2>1. ContextView' = ContextView
    BY <1>1, <1>2, <1>6, ContextsStay
  <2>2. QED
    BY <1>2, <1>5, <2>1, LifecycleSees
<1>7. CASE c \notin closed
  <2>1. ContextView[c] = "open"
    BY <1>1, <1>7, ViewsAre
  <2>2. ContextView' = [ContextView EXCEPT ![c] = "closed"]
    BY <1>1, <1>2, OneContext
  <2>3. ASSUME NEW s \in Sockets, ctx[s] = c
        PROVE  SocketView[s] = "closed"
    <3>1. s \in made
      BY <1>t, <1>1, <2>3, ObjectsAssumption DEF OwnHandles
    <3>2. s \in closed
      BY <1>1, <1>7, <2>3, <3>1 DEF Alive
    <3>3. QED
      BY <3>1, <3>2, ViewsAre
  <2>4. QED
    BY <1>1, <1>2, <1>5, <2>1, <2>2, <2>3, LifecycleSees
<1>8. QED
  BY <1>6, <1>7

(* The walks, what the application does with references and callbacks, and *)
(* a destroy that fails are not to be seen.                                *)
LEMMA RestIsStutter ==
    ASSUME ViewInv,
           \/ \E s \in Sockets : OnClose(s) \/ OnCloseNil(s)
           \/ \E c \in Contexts, s \in Sockets : Autoclose(c, s)
           \/ \E c \in Contexts : Destroy(c) \/ Shutdown(c) \/ CollectContext(c)
           \/ WalkEnds \/ TermInterrupted \/ Stop
           \/ \E obj \in Objects : Drop(obj)
           \/ UNCHANGED vars
    PROVE  [L!Next]_(L!vars)
<1> USE DEF objects, pointers, closing
<1>t. TypeOK /\ RefsType /\ GoodStack(stack, made)
  BY ViewTypes
<1>s. stack \in Seq(Frame) /\ \A i \in DOMAIN stack : stack[i] \in Frame
  BY <1>t, FramesAre
<1>u. UNCHANGED <<made, closed, ctx>>
  BY DEF OnClose, OnCloseNil, Autoclose, Destroy, Shutdown, CollectContext,
         WalkEnds, TermInterrupted, Stop, Drop, vars
<1>c. ClosingIn(stack') = ClosingIn(stack)
  <2>1. CASE stack' = stack
    BY <2>1
  <2>2. ASSUME NEW c \in Contexts, NEW s \in Sockets, StoreKey(s, c)
        PROVE  ClosingIn(stack') = ClosingIn(stack)
    BY <1>t, <2>2, StoreKeyIs, SameClosing
  <2>3. ASSUME NEW c \in Contexts, NEW op \in {"destroy", "shutdown"}, BeginWalk(op, c)
        PROVE  ClosingIn(stack') = ClosingIn(stack)
    <3> DEFINE f == NewFrame(op, c, autoclose[c])
    <3>1. f.op = op
      BY DEF NewFrame
    <3> HIDE DEF f
    <3>2. stack' = Append(stack, f)
      BY <2>3 DEF BeginWalk, f
    <3>3. QED
      BY <1>s, <3>1, <3>2, MoreClosing
  <2>4. CASE WalkEnds
    <3>1. stack # << >> /\ Top.op \in {"destroy", "shutdown"}
      BY <2>4 DEF WalkEnds, TopIs
    <3>2. DOMAIN stack' = DOMAIN stack
      BY <2>4 DEF WalkEnds
    <3>3. ASSUME NEW i \in DOMAIN stack
          PROVE  /\ stack'[i].obj = stack[i].obj
                 /\ stack'[i].op = "close" <=> stack[i].op = "close"
      <4>1. stack'[i] =
              IF i = Len(stack)
              THEN [Top EXCEPT !.op = IF @ = "destroy" THEN "term" ELSE "stop"]
              ELSE IF stack[i].obj = Top.obj THEN [stack[i] EXCEPT !.shared = FALSE]
              ELSE stack[i]
        BY <2>4 DEF WalkEnds
      <4>2. Top \in Frame /\ Top = stack[Len(stack)] /\ stack[i] \in Frame
        BY <1>s, <1>t, <3>1, TopFits DEF TypeOK, Top
      <4>3. CASE i = Len(stack)
        BY <3>1, <4>1, <4>2, <4>3 DEF Frame
      <4>4. CASE i # Len(stack)
        BY <4>1, <4>2, <4>4 DEF Frame
      <4>5. QED
        BY <4>3, <4>4
    <3>4. QED
      BY <3>2, <3>3, SameClosing
  <2>5. CASE TermInterrupted \/ Stop
    <3>1. stack # << >> /\ Top.op # "close" /\ stack' = Pop
      BY <2>5 DEF TermInterrupted, Stop, TopIs
    <3>2. QED
      BY <1>t, <3>1, PopClosing
  <2>6. QED
    BY <2>1, <2>2, <2>3, <2>4, <2>5
       DEF OnClose, OnCloseNil, Autoclose, Destroy, Shutdown, CollectContext, Drop, vars
<1>1. ContextView' = ContextView /\ SocketView' = SocketView
  BY <1>u, <1>c, ContextsStay, SocketsStay
<1>2. QED
  BY <1>u, <1>1, LifecycleSees

(* What the application sees is the life Lifecycle promises: a socket's    *)
(* owner is notified before the context is gone, a socket is closed once,  *)
(* and a context after all its sockets.  The application may do anything   *)
(* but share native objects: also a close, a destroy or a collection in    *)
(* the callback of the object itself changes nothing of this.              *)
THEOREM LifeAsPromised ==
    ASSUME NothingShared
    PROVE  Spec => ImplementsLifecycle
<1>1. Init => L!Init
  <2> SUFFICES ASSUME Init
               PROVE  L!Init
    OBVIOUS
  <2>1. ContextView = [c \in Contexts |-> "unborn"]
    BY DEF Init, ContextView
  <2>2. SocketView = [s \in Sockets |-> "unborn"]
    BY DEF Init, SocketView
  <2>3. QED
    BY <2>1, <2>2, LifecycleSees DEF Init
<1>2. ViewInv /\ [Next]_vars => [L!Next]_(L!vars)
  <2> SUFFICES ASSUME ViewInv, [Next]_vars
               PROVE  [L!Next]_(L!vars)
    OBVIOUS
  <2>1. "handles" \notin Uses
    BY DEF NothingShared
  <2>2. ASSUME NEW c \in Contexts,
               \/ NewContext(c) \/ NewContextFails(c)
               \/ \E d \in Contexts : InitCtx(c, d)
        PROVE  [L!Next]_(L!vars)
    BY <2>2, CreatesAreSteps
  <2>3. ASSUME NEW c \in Contexts, NEW s \in Sockets,
               NewSocket(c, s) \/ NewSocketFails(c, s) \/ NewSocketRaises(c, s)
        PROVE  [L!Next]_(L!vars)
    BY <2>3, OpensAreSteps
  <2>4. CASE \/ \E s \in Sockets : Close(s) \/ CollectSocket(s)
             \/ CloseListed
             \/ CallbackReturns
    BY <2>4, ClosesAreSteps
  <2>5. CASE Term
    BY <2>5, TermIsStep
  <2>6. CASE \/ \E s \in Sockets : OnClose(s) \/ OnCloseNil(s)
             \/ \E c \in Contexts, s \in Sockets : Autoclose(c, s)
             \/ \E c \in Contexts : Destroy(c) \/ Shutdown(c) \/ CollectContext(c)
             \/ WalkEnds \/ TermInterrupted \/ Stop
             \/ \E obj \in Objects : Drop(obj)
             \/ UNCHANGED vars
    BY <2>6, RestIsStutter
  <2>7. ASSUME NEW s \in Sockets, NEW src \in Sockets, InitSocket(s, src)
        PROVE  FALSE
    BY <2>1, <2>7 DEF InitSocket
  <2>8. ASSUME NEW s \in Sockets, NEW h \in Sockets,
               NEW own \in BOOLEAN, NEW close \in BOOLEAN, ResetHandle(s, h, own, close)
        PROVE  FALSE
    BY <2>1, <2>8 DEF ResetHandle
  <2>9. QED
    BY <2>2, <2>3, <2>4, <2>5, <2>6, <2>7, <2>8 DEF Next
<1>3. QED
  BY <1>1, <1>2, ViewHolds, PTL DEF Spec, ImplementsLifecycle, L!Spec
=============================================================================
