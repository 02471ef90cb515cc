-------------------------- MODULE EventLoopProofs --------------------------
(***************************************************************************)
(* Theorems about EventLoop, for any number of events and sockets, any     *)
(* intervals, any nesting of its methods and any use of it.                *)
(***************************************************************************)
EXTENDS EventLoop, FiniteSetTheorems, SequenceTheorems, WellFoundedInduction, TLAPS

(* What holds of the frames: a frame whose method polls is the innermost   *)
(* one, and a flush never waits.                                           *)
FrameOK(frame) ==
    /\ frame.phase = "wait" => frame.call = NoCall
    /\ frame.op = "flush" => frame.timeout = 0 /\ frame.phase \in {"wait", "io"}
    /\ frame.call = OnTime => frame.op = "start"

CallsLocked(stk, locked) ==
    \A d \in DOMAIN stk : stk[d].call \in Events => stk[d].call \in locked

CallsDiffer(stk) ==
    \A d1, d2 \in DOMAIN stk :
        stk[d1].call \in Events /\ stk[d1].call = stk[d2].call => d1 = d2

WaitsOnTop(stk) == \A d \in DOMAIN stk : stk[d].phase = "wait" => d = Len(stk)

GoodStack(stk, locked) ==
    /\ stk \in Seq(Frame)
    /\ \A d \in DOMAIN stk : FrameOK(stk[d])
    /\ CallsLocked(stk, locked)
    /\ CallsDiffer(stk)
    /\ WaitsOnTop(stk)

NoWait(stk) == \A d \in DOMAIN stk : stk[d].phase # "wait"

(* The types, but for the order of the events.                             *)
Types ==
    /\ TimersType
    /\ PolledType
    /\ made \in 0 .. MaxEvents
    /\ lock \subseteq Made

IInv == Types /\ GoodStack(stack, lock) /\ NeverOversleeps

-----------------------------------------------------------------------------
(* Minima.                                                                 *)

LEMMA HasMinimum ==
    ASSUME NEW T, T \subseteq Nat, T # {}
    PROVE  \E m \in T : \A k \in T : m <= k
<1>1. PICK m \in T : \A k \in T : <<k, m>> \notin OpToRel(<, Nat)
  BY WFMin, NatLessThanWellFounded, Zenon
<1>2. \A k \in T : ~ (k < m)
  BY <1>1, Zenon DEF OpToRel
<1>3. QED
  BY <1>2

(* The time a poll may wait is at most what is left of any event.          *)
LEMMA SleepIntervalIsLeast ==
    ASSUME TimersType, made \in 0 .. MaxEvents, NEW n \in Nat
    PROVE  /\ SleepInterval(n) \in Nat
           /\ \A e \in (Listed \cap started) \ lock : SleepInterval(n) <= rest[e]
<1> DEFINE limits == {n} \cup {rest[e] : e \in (Listed \cap started) \ lock}
<1>1. \A e \in started : rest[e] \in Nat
  BY BoundsAssumption DEF TimersType, Made, Events
<1>2. limits \subseteq Nat /\ limits # {}
  BY <1>1
<1>3. \E m \in limits : \A k \in limits : m <= k
  BY <1>2, HasMinimum
<1>4. SleepInterval(n) = CHOOSE m \in limits : \A k \in limits : m <= k
  BY DEF SleepInterval
<1> HIDE DEF limits
<1>5. SleepInterval(n) \in limits /\ \A k \in limits : SleepInterval(n) <= k
  BY <1>3, <1>4
<1> USE DEF limits
<1>6. QED
  BY <1>2, <1>5

-----------------------------------------------------------------------------
(* The stack.                                                              *)

LEMMA LastIsTop ==
    ASSUME GoodStack(stack, lock), Running
    PROVE  /\ Len(stack) \in Nat \ {0}
           /\ Len(stack) \in DOMAIN stack
           /\ DOMAIN stack = 1 .. Len(stack)
           /\ Top = stack[Len(stack)]
           /\ Top \in Frame
           /\ FrameOK(Top)
<1>1. stack \in Seq(Frame) /\ stack # << >>
  BY DEF GoodStack, Running
<1>2. Len(stack) \in Nat \ {0} /\ DOMAIN stack = 1 .. Len(stack)
  BY <1>1
<1>3. QED
  BY <1>1, <1>2 DEF GoodStack, Top

(* A method returns, or an error unwinds some.                             *)
LEMMA PrefixGood ==
    ASSUME GoodStack(stack, lock), NEW d \in 0 .. Len(stack) - 1
    PROVE  /\ GoodStack(SubSeq(stack, 1, d), lock)
           /\ NoWait(SubSeq(stack, 1, d))
<1> DEFINE stk == SubSeq(stack, 1, d)
<1>1. stack \in Seq(Frame) /\ Len(stack) \in Nat /\ DOMAIN stack = 1 .. Len(stack)
  BY DEF GoodStack
<1>2. stk \in Seq(Frame) /\ Len(stk) = d /\ DOMAIN stk = 1 .. d
  BY <1>1, SubSeqProperties
<1>3. \A i \in DOMAIN stk : i \in DOMAIN stack /\ stk[i] = stack[i] /\ i # Len(stack)
  BY <1>1, <1>2, SubSeqProperties
<1> HIDE DEF stk
<1>4. NoWait(stk)
  BY <1>3 DEF NoWait, GoodStack, WaitsOnTop
<1>5. CallsLocked(stk, lock) /\ CallsDiffer(stk)
  BY <1>3 DEF GoodStack, CallsLocked, CallsDiffer
<1>6. QED
  BY <1>2, <1>3, <1>4, <1>5 DEF GoodStack, NoWait, WaitsOnTop, stk

LEMMA PopGood ==
    ASSUME GoodStack(stack, lock), Running
    PROVE  GoodStack(Pop, lock) /\ NoWait(Pop)
<1>1. Len(stack) - 1 \in 0 .. Len(stack) - 1
  BY LastIsTop
<1>2. QED
  BY <1>1, PrefixGood DEF Pop

(* The innermost frame goes on.                                            *)
LEMMA SetTopGood ==
    ASSUME GoodStack(stack, lock), Running,
           NEW frame \in Frame, FrameOK(frame), NEW locked,
           \A d \in 1 .. Len(stack) - 1 :
               stack[d].call \in Events =>
                   stack[d].call \in locked /\ stack[d].call # frame.call,
           frame.call \in Events => frame.call \in locked
    PROVE  /\ GoodStack(SetTop(frame), locked)
           /\ Len(SetTop(frame)) = Len(stack)
           /\ SetTop(frame)[Len(stack)] = frame
           /\ frame.phase # "wait" => NoWait(SetTop(frame))
<1> DEFINE stk == SetTop(frame)
<1>1. stack \in Seq(Frame) /\ Len(stack) \in DOMAIN stack /\ DOMAIN stack = 1 .. Len(stack)
      /\ Len(stack) \in Nat \ {0}
  BY LastIsTop DEF GoodStack
<1>2. stk \in Seq(Frame) /\ DOMAIN stk = DOMAIN stack /\ Len(stk) = Len(stack)
  BY <1>1 DEF SetTop
<1>3. stk[Len(stack)] = frame /\ \A d \in 1 .. Len(stack) - 1 : stk[d] = stack[d]
  <2>1. stk = [stack EXCEPT ![Len(stack)] = frame]
    BY DEF SetTop
  <2> HIDE DEF stk
  <2>2. \A d \in 1 .. Len(stack) - 1 : d \in DOMAIN stack /\ d # Len(stack)
    <3>1. \A n \in Nat \ {0} : \A d \in 1 .. n - 1 : d \in 1 .. n /\ d # n
      OBVIOUS
    <3>2. QED
      BY <1>1, <3>1, Zenon
  <2>3. QED
    BY <1>1, <2>1, <2>2
<1> HIDE DEF stk
<1>4. \A d \in DOMAIN stk : d = Len(stack) \/ d \in 1 .. Len(stack) - 1
  BY <1>1, <1>2
<1>5. \A d \in 1 .. Len(stack) - 1 :
          /\ d \in DOMAIN stack
          /\ stk[d].phase # "wait"
          /\ FrameOK(stk[d])
  BY <1>1, <1>3 DEF GoodStack, WaitsOnTop
<1>6. \A d \in DOMAIN stk : FrameOK(stk[d])
  BY <1>3, <1>4, <1>5
<1>7. CallsLocked(stk, locked)
  BY <1>3, <1>4 DEF CallsLocked
<1>8. CallsDiffer(stk)
  <2> SUFFICES ASSUME NEW d1 \in DOMAIN stk, NEW d2 \in DOMAIN stk,
                      stk[d1].call \in Events, stk[d1].call = stk[d2].call
               PROVE  d1 = d2
    BY DEF CallsDiffer
  <2>1. CASE d1 = Len(stack) \/ d2 = Len(stack)
    BY <1>3, <1>4, <2>1
  <2>2. CASE d1 # Len(stack) /\ d2 # Len(stack)
    BY <1>3, <1>4, <1>5, <2>2 DEF GoodStack, CallsDiffer
  <2>3. QED
    BY <2>1, <2>2
<1>9. WaitsOnTop(stk)
  BY <1>2, <1>4, <1>5 DEF WaitsOnTop
<1>10. frame.phase # "wait" => NoWait(stk)
  BY <1>3, <1>4, <1>5 DEF NoWait
<1>11. QED
  BY <1>2, <1>3, <1>6, <1>7, <1>8, <1>9, <1>10 DEF GoodStack, stk

LEMMA PushGood ==
    ASSUME GoodStack(stack, lock), Running => Top.phase # "wait",
           NEW frame \in Frame, FrameOK(frame), frame.call = NoCall
    PROVE  /\ GoodStack(Append(stack, frame), lock)
           /\ Len(Append(stack, frame)) = Len(stack) + 1
           /\ Append(stack, frame)[Len(stack) + 1] = frame
<1> DEFINE stk == Append(stack, frame)
<1>1. stack \in Seq(Frame) /\ Len(stack) \in Nat /\ DOMAIN stack = 1 .. Len(stack)
  BY DEF GoodStack
<1>2. stk \in Seq(Frame) /\ Len(stk) = Len(stack) + 1 /\ DOMAIN stk = 1 .. Len(stack) + 1
  BY <1>1
<1>3. stk[Len(stack) + 1] = frame /\ \A d \in DOMAIN stack : stk[d] = stack[d]
  BY <1>1
<1> HIDE DEF stk
<1>4. \A d \in DOMAIN stk : d = Len(stack) + 1 \/ d \in DOMAIN stack
  BY <1>1, <1>2
<1>5. NoCall \notin Events
  BY CallsAssumption
<1>6. \A d \in DOMAIN stack : stack[d].phase # "wait"
  <2>1. CASE stack = << >>
    BY <1>1, <2>1
  <2>2. CASE stack # << >>
    BY <2>2, LastIsTop DEF Running, GoodStack, WaitsOnTop
  <2>3. QED
    BY <2>1, <2>2
<1>7. \A d \in DOMAIN stk : FrameOK(stk[d])
  BY <1>3, <1>4 DEF GoodStack
<1>8. CallsLocked(stk, lock) /\ CallsDiffer(stk)
  BY <1>3, <1>4, <1>5 DEF GoodStack, CallsLocked, CallsDiffer
<1>9. WaitsOnTop(stk)
  BY <1>2, <1>3, <1>4, <1>6 DEF WaitsOnTop
<1>10. QED
  BY <1>2, <1>3, <1>7, <1>8, <1>9 DEF GoodStack, stk

(* Time passes in every frame.                                             *)
LEMMA TickGood ==
    ASSUME GoodStack(stack, lock), Tick
    PROVE  /\ GoodStack(stack', lock)
           /\ Len(stack') = Len(stack) /\ DOMAIN stack' = DOMAIN stack
           /\ \A d \in DOMAIN stack :
                 /\ stack'[d].timeout = Less1(stack[d].timeout)
                 /\ stack'[d].phase = stack[d].phase
                 /\ stack'[d].call = stack[d].call
<1> DEFINE later(frame) == [frame EXCEPT !.rest = Less1(@), !.timeout = Less1(@)]
<1>1. stack \in Seq(Frame) /\ Len(stack) \in Nat /\ DOMAIN stack = 1 .. Len(stack)
  BY DEF GoodStack
<1>2. \A n \in Nat : Less1(n) \in Nat /\ (n = 0 => Less1(n) = 0)
  BY DEF Less1
<1>3. ASSUME NEW frame \in Frame
      PROVE  /\ later(frame) \in Frame
             /\ later(frame).timeout = Less1(frame.timeout)
             /\ later(frame).phase = frame.phase
             /\ later(frame).call = frame.call
             /\ later(frame).op = frame.op
             /\ frame.timeout \in Nat
  BY <1>2 DEF Frame
<1>4. stack' = [d \in 1 .. Len(stack) |-> later(stack[d])]
  BY <1>1 DEF Tick
<1> HIDE DEF later
<1>5. \A d \in 1 .. Len(stack) : stack[d] \in Frame
  BY <1>1
<1>6. stack' \in [1 .. Len(stack) -> Frame]
  BY <1>3, <1>4, <1>5
<1>7. stack' \in Seq(Frame) /\ Len(stack') = Len(stack) /\ DOMAIN stack' = DOMAIN stack
  BY <1>1, <1>6
<1>8. \A d \in DOMAIN stack :
          /\ stack'[d].timeout = Less1(stack[d].timeout)
          /\ stack'[d].phase = stack[d].phase
          /\ stack'[d].call = stack[d].call
          /\ stack'[d].op = stack[d].op
          /\ stack[d].timeout \in Nat
  BY <1>1, <1>3, <1>4, <1>5
<1>9. \A d \in DOMAIN stack' : FrameOK(stack'[d])
  BY <1>2, <1>7, <1>8 DEF GoodStack, FrameOK
<1>10. CallsLocked(stack', lock) /\ CallsDiffer(stack') /\ WaitsOnTop(stack')
  BY <1>7, <1>8 DEF GoodStack, CallsLocked, CallsDiffer, WaitsOnTop
<1>11. QED
  BY <1>7, <1>8, <1>9, <1>10 DEF GoodStack

(* When no frame polls, or application code runs, nothing is overslept.    *)
LEMMA NoWaitNoSleep ==
    ASSUME GoodStack(stack', lock'), NoWait(stack')
    PROVE  NeverOversleeps'
<1>1. ASSUME stack' # << >>
      PROVE  Len(stack') \in DOMAIN stack'
  BY <1>1 DEF GoodStack
<1>2. QED
  BY <1>1 DEF NeverOversleeps, LoopCode, Running, Top, NoWait

LEMMA AppNoSleep ==
    ASSUME AppCode, UNCHANGED stack
    PROVE  NeverOversleeps'
BY DEF AppCode, InCallback, Running, Top, NeverOversleeps, LoopCode

LEMMA AppNotWaiting ==
    ASSUME IInv, AppCode, Running
    PROVE  Top.phase # "wait"
BY LastIsTop DEF IInv, AppCode, InCallback, FrameOK

-----------------------------------------------------------------------------
(* Steps of the application.                                               *)

LEMMA MadeAreEvents ==
    ASSUME Types
    PROVE  Made \subseteq Events /\ started \subseteq Events
BY BoundsAssumption DEF Types, TimersType, Made, Events

LEMMA RestTyped ==
    ASSUME Types
    PROVE  \A e \in started : rest[e] \in Nat
BY MadeAreEvents DEF Types, TimersType

LEMMA ArmTyped ==
    ASSUME Types, NEW e \in Events, NEW t \in Nat, NEW o, Arm(e, t, o),
           made' \in made .. MaxEvents, e <= made'
    PROVE  TimersType'
<1>1. e \in Made' /\ Made \subseteq Made'
  BY BoundsAssumption DEF Types, Made, Events
<1>2. started' \subseteq Made' /\ once' \subseteq Made'
  BY <1>1 DEF Types, TimersType, Arm
<1>3. rest' \in [Events -> Nat] /\ interval' \in [Events -> Nat]
  BY DEF Types, TimersType, Arm
<1>4. QED
  BY <1>2, <1>3 DEF TimersType

LEMMA DisarmTyped ==
    ASSUME Types, NEW e \in Events, Disarm(e), UNCHANGED made
    PROVE  TimersType'
BY DEF Types, TimersType, Disarm, Made

LEMMA RewindTyped ==
    ASSUME Types, NEW e \in Events, e <= made, Rewind(e), UNCHANGED made
    PROVE  TimersType'
<1>1. CASE e \in once
  BY <1>1, DisarmTyped DEF Rewind
<1>2. CASE e \notin once
  <2>1. e \in Made
    BY DEF Types, Made, Events
  <2>2. started' \subseteq Made'
    BY <1>2, <2>1 DEF Types, TimersType, Rewind, Made
  <2>3. rest' \in [Events -> Nat] /\ interval' \in [Events -> Nat] /\ once' \subseteq Made'
    BY <1>2 DEF Types, TimersType, Rewind, Made
  <2>4. QED
    BY <2>2, <2>3 DEF TimersType
<1>3. QED
  BY <1>1, <1>2

LEMMA TimerSteps ==
    ASSUME IInv,
           \/ \E t \in Intervals, o \in BOOLEAN :
                 AddEvent(t, o) \/ \E e \in Events : SetInterval(e, t, o)
           \/ \E e \in Events : Reset(e) \/ Restart(e)
    PROVE  IInv'
<1>1. AppCode /\ UNCHANGED <<lock, polled, stack>>
  BY DEF AddEvent, SetInterval, Reset, Restart, list
<1>2. GoodStack(stack', lock') /\ NeverOversleeps'
  BY <1>1, AppNoSleep DEF IInv
<1>3. PolledType'
  BY <1>1 DEF IInv, Types, PolledType, polled
<1>4. TimersType' /\ made' \in made .. MaxEvents
  <2>1. ASSUME NEW t \in Intervals, NEW o \in BOOLEAN, AddEvent(t, o)
        PROVE  TimersType' /\ made' \in made .. MaxEvents
    BY <2>1, ArmTyped, BoundsAssumption, TimeAssumption DEF AddEvent, IInv, Types, Events
  <2>2. ASSUME NEW t \in Intervals, NEW o \in BOOLEAN, NEW e \in Events, SetInterval(e, t, o)
        PROVE  TimersType' /\ made' \in made .. MaxEvents
    BY <2>2, ArmTyped, BoundsAssumption, TimeAssumption DEF SetInterval, IInv, Types, list
  <2>3. ASSUME NEW e \in Events, Reset(e)
        PROVE  TimersType' /\ made' \in made .. MaxEvents
    BY <2>3, DisarmTyped, BoundsAssumption DEF Reset, IInv, Types, list
  <2>4. ASSUME NEW e \in Events, Restart(e)
        PROVE  TimersType' /\ made' \in made .. MaxEvents
    BY <2>4, RewindTyped, BoundsAssumption DEF Restart, IInv, Types, list
  <2>5. QED
    BY <2>1, <2>2, <2>3, <2>4
<1>5. made' \in 0 .. MaxEvents /\ lock' \subseteq Made'
  BY <1>1, <1>4, BoundsAssumption DEF IInv, Types, Made
<1>6. QED
  BY <1>2, <1>3, <1>4, <1>5 DEF IInv, Types

LEMMA SocketSteps ==
    ASSUME IInv,
           \/ \E s \in Sockets : AddSocket(s) \/ RemoveSocket(s) \/ CloseSocket(s)
           \/ Interrupt
           \/ Destroy
    PROVE  IInv'
<1>1. AppCode /\ UNCHANGED <<made, lock, timers, stack>>
  BY DEF AddSocket, RemoveSocket, CloseSocket, Interrupt, Destroy, list
<1>2. GoodStack(stack', lock') /\ NeverOversleeps'
  BY <1>1, AppNoSleep DEF IInv
<1>3. TimersType' /\ made' \in 0 .. MaxEvents /\ lock' \subseteq Made'
  BY <1>1 DEF IInv, Types, TimersType, timers, Made
<1>4. PolledType'
  BY DEF IInv, Types, PolledType, AddSocket, RemoveSocket, CloseSocket, Interrupt, Destroy, polled
<1>5. QED
  BY <1>2, <1>3, <1>4 DEF IInv, Types

LEMMA RunStep ==
    ASSUME IInv,
           NEW op \in {"start", "sleep", "poll", "flush"}, NEW t \in Waits,
           Run(op, t)
    PROVE  IInv'
<1> DEFINE frame == NewFrame(op, t)
<1>1. frame \in Frame /\ FrameOK(frame) /\ frame.call = NoCall
      /\ (frame.phase = "wait" => frame.timeout = 0)
  BY TimeAssumption, CallsAssumption DEF NewFrame, Frame, FrameOK
<1>2. stack' = Append(stack, frame) /\ UNCHANGED <<timers, list, polled>>
  BY DEF Run
<1> HIDE DEF frame
<1>3. /\ GoodStack(stack', lock)
      /\ Len(stack') = Len(stack) + 1
      /\ stack'[Len(stack) + 1] = frame
  BY <1>1, <1>2, AppNotWaiting, PushGood DEF IInv, Run
<1>4. Types'
  BY <1>2 DEF IInv, Types, TimersType, PolledType, Made, timers, list, polled
<1>5. \A e \in started' : rest'[e] \in Nat
  BY <1>2, RestTyped DEF IInv, timers
<1>6. NeverOversleeps'
  BY <1>1, <1>3, <1>5 DEF NeverOversleeps, LoopCode, Top
<1>7. QED
  BY <1>2, <1>3, <1>4, <1>6 DEF IInv, list

-----------------------------------------------------------------------------
(* Steps of the loop.                                                      *)

LEMMA PlainTopGood ==
    ASSUME GoodStack(stack, lock), Running,
           NEW frame \in Frame, FrameOK(frame), frame.call \notin Events
    PROVE  /\ GoodStack(SetTop(frame), lock)
           /\ Len(SetTop(frame)) = Len(stack)
           /\ SetTop(frame)[Len(stack)] = frame
           /\ frame.phase # "wait" => NoWait(SetTop(frame))
<1>1. \A d \in 1 .. Len(stack) - 1 : d \in DOMAIN stack
  <2>1. \A n \in Nat \ {0} : \A d \in 1 .. n - 1 : d \in 1 .. n
    OBVIOUS
  <2>2. QED
    BY <2>1, LastIsTop, Zenon
<1>2. \A d \in 1 .. Len(stack) - 1 :
          stack[d].call \in Events =>
              stack[d].call \in lock /\ stack[d].call # frame.call
  BY <1>1 DEF GoodStack, CallsLocked
<1>3. QED
  BY <1>2, SetTopGood

LEMMA EnterStep ==
    ASSUME IInv, Enter
    PROVE  IInv'
<1>1. Running /\ Top.phase = "enter" /\ Top.call = NoCall
  BY DEF Enter, LoopCode, InCallback
<1>2. Top \in Frame /\ FrameOK(Top) /\ GoodStack(stack, lock)
  BY <1>1, LastIsTop DEF IInv
<1>3. UNCHANGED <<timers, list, polled>>
  BY DEF Enter
<1>4. Types'
  BY <1>3 DEF IInv, Types, TimersType, PolledType, Made, timers, list, polled
<1>5. CASE interrupted
  <2>1. stack' = Pop /\ lock' = lock
    BY <1>3, <1>5 DEF Enter, list
  <2>2. GoodStack(stack', lock') /\ NoWait(stack')
    BY <1>1, <1>2, <2>1, PopGood
  <2>3. QED
    BY <1>4, <2>2, NoWaitNoSleep DEF IInv
<1>6. CASE ~interrupted
  <2> DEFINE n == SleepInterval(Top.rest)
             frame == [Top EXCEPT !.phase = "wait", !.timeout = n]
  <2>1. Top.rest \in Nat
    BY <1>2 DEF Frame
  <2>2. n \in Nat /\ \A e \in (Listed \cap started) \ lock : n <= rest[e]
    BY <2>1, SleepIntervalIsLeast DEF IInv, Types
  <2>3. stack' = SetTop(frame)
    BY <1>6 DEF Enter
  <2> HIDE DEF n
  <2>4. /\ frame \in Frame /\ frame.call = NoCall
        /\ frame.timeout = n /\ frame.op = Top.op
    BY <1>1, <1>2, <2>2 DEF Frame
  <2>5. FrameOK(frame)
    BY <1>1, <1>2, <2>4, CallsAssumption DEF FrameOK
  <2> HIDE DEF frame
  <2>6. GoodStack(stack', lock) /\ Len(stack') = Len(stack) /\ stack'[Len(stack)] = frame
    BY <1>1, <1>2, <2>3, <2>4, <2>5, PlainTopGood, CallsAssumption
  <2>7. NeverOversleeps'
    BY <1>3, <2>2, <2>4, <2>6 DEF NeverOversleeps, Top, Listed, timers, list
  <2>8. QED
    BY <1>3, <1>4, <2>6, <2>7 DEF IInv, list
<1>7. QED
  BY <1>5, <1>6

LEMMA PollReturnsStep ==
    ASSUME IInv, PollReturns
    PROVE  IInv'
<1>1. Running /\ Top.phase = "wait" /\ Top.call = NoCall
  BY DEF PollReturns, LoopCode, InCallback
<1>2. Top \in Frame /\ FrameOK(Top) /\ GoodStack(stack, lock)
  BY <1>1, LastIsTop DEF IInv
<1>3. PICK reported \in SUBSET sockets :
          /\ io' = reported
          /\ stack' = IF Top.op = "flush" /\ reported = {} THEN Pop
                      ELSE SetTop([Top EXCEPT !.phase = "io", !.timeout = 0,
                                              !.left = Cardinality(reported)])
  BY DEF PollReturns
<1>4. reported \subseteq Sockets /\ Cardinality(reported) \in Nat
  BY SocketsAssumption, FS_Subset, FS_CardinalityType DEF IInv, Types, PolledType
<1>5. Types' /\ lock' = lock
  BY <1>3, <1>4 DEF PollReturns, IInv, Types, TimersType, PolledType, Made, timers, list
<1>6. GoodStack(stack', lock) /\ NoWait(stack')
  <2>1. CASE Top.op = "flush" /\ reported = {}
    BY <1>1, <1>2, <1>3, <2>1, PopGood
  <2>2. CASE ~ (Top.op = "flush" /\ reported = {})
    <3> DEFINE n == Cardinality(reported)
               frame == [Top EXCEPT !.phase = "io", !.timeout = 0, !.left = n]
    <3>1. stack' = SetTop(frame)
      BY <1>3, <2>2
    <3> HIDE DEF n
    <3>2. n \in Nat
      BY <1>4 DEF n
    <3>3. /\ frame \in Frame /\ frame.call = NoCall /\ frame.phase = "io"
          /\ frame.timeout = 0 /\ frame.op = Top.op
      BY <1>1, <1>2, <3>2 DEF Frame
    <3>4. FrameOK(frame)
      BY <3>3, CallsAssumption DEF FrameOK
    <3> HIDE DEF frame
    <3>5. QED
      BY <1>1, <1>2, <3>1, <3>3, <3>4, PlainTopGood, CallsAssumption
  <2>3. QED
    BY <2>1, <2>2
<1>7. QED
  BY <1>5, <1>6, NoWaitNoSleep DEF IInv

LEMMA UnwindGood ==
    ASSUME GoodStack(stack, lock), Unwind
    PROVE  GoodStack(stack', lock) /\ NoWait(stack')
BY PrefixGood DEF Unwind

LEMMA RaisingSteps ==
    ASSUME IInv, PollFails \/ CallbackRaises
    PROVE  IInv'
<1>1. Types' /\ lock' = lock
  BY DEF PollFails, CallbackRaises, IInv, Types, TimersType, PolledType, Made, timers, list, polled
<1>2. GoodStack(stack', lock) /\ NoWait(stack')
  <2>1. CASE PollFails
    BY <2>1, PopGood DEF PollFails, LoopCode, IInv
  <2>2. CASE CallbackRaises
    BY <2>2, UnwindGood DEF CallbackRaises, IInv
  <2>3. QED
    BY <2>1, <2>2
<1>3. QED
  BY <1>1, <1>2, NoWaitNoSleep DEF IInv

LEMMA DispatchSocketStep ==
    ASSUME IInv, DispatchSocket
    PROVE  IInv'
<1>1. Running /\ Top.phase = "io" /\ Top.call = NoCall /\ Top.left > 0
  BY DEF DispatchSocket, LoopCode, InCallback
<1>2. Top \in Frame /\ FrameOK(Top) /\ GoodStack(stack, lock)
  BY <1>1, LastIsTop DEF IInv
<1>3. Types' /\ lock' = lock
  BY DEF DispatchSocket, IInv, Types, TimersType, PolledType, Made, timers, list
<1>4. GoodStack(stack', lock) /\ NoWait(stack')
  <2>1. ASSUME NEW s \in io, stack' = SetTop([Top EXCEPT !.left = @ - 1, !.call = s])
        PROVE  GoodStack(stack', lock) /\ NoWait(stack')
    <3> DEFINE n == Top.left - 1
               frame == [Top EXCEPT !.left = n, !.call = s]
    <3>1. s \in Sockets /\ s \notin Events /\ s # OnTime
      BY CallsAssumption DEF IInv, Types, PolledType
    <3>2. n \in Nat
      BY <1>1, <1>2 DEF Frame
    <3> HIDE DEF n
    <3>3. /\ frame \in Frame /\ frame.call = s /\ frame.phase = "io"
          /\ frame.timeout = Top.timeout /\ frame.op = Top.op
      BY <1>1, <1>2, <3>1, <3>2 DEF Frame
    <3>4. FrameOK(frame)
      BY <1>2, <3>1, <3>3 DEF FrameOK
    <3>5. stack' = SetTop(frame)
      BY <2>1 DEF n
    <3> HIDE DEF frame
    <3>6. QED
      BY <1>1, <1>2, <3>1, <3>3, <3>4, <3>5, PlainTopGood
  <2>2. CASE Unwind
    BY <1>2, <2>2, UnwindGood
  <2>3. QED
    BY <2>1, <2>2 DEF DispatchSocket
<1>5. QED
  BY <1>3, <1>4, NoWaitNoSleep DEF IInv

LEMMA SocketsDoneStep ==
    ASSUME IInv, SocketsDone
    PROVE  IInv'
<1>1. Running /\ Top.phase = "io" /\ Top.call = NoCall
  BY DEF SocketsDone, LoopCode, InCallback
<1>2. Top \in Frame /\ FrameOK(Top) /\ GoodStack(stack, lock)
  BY <1>1, LastIsTop DEF IInv
<1>3. Types' /\ UNCHANGED <<timers, list>>
  BY DEF SocketsDone, IInv, Types, TimersType, PolledType, Made, timers, list, polled
<1>4. NoCall \notin Events /\ NoCall # OnTime
  BY CallsAssumption
<1>5. CASE stack' = Pop
  BY <1>1, <1>2, <1>3, <1>5, PopGood, NoWaitNoSleep DEF IInv, list
<1>6. CASE Top.op = "flush" /\ stack' = SetTop([Top EXCEPT !.phase = "wait"])
  <2> DEFINE frame == [Top EXCEPT !.phase = "wait"]
  <2>1. /\ frame \in Frame /\ frame.call = NoCall /\ frame.timeout = 0
        /\ frame.op = Top.op /\ frame.phase = "wait"
    BY <1>1, <1>2, <1>6 DEF Frame, FrameOK
  <2>2. FrameOK(frame)
    BY <1>4, <2>1 DEF FrameOK
  <2>3. stack' = SetTop(frame)
    BY <1>6
  <2> HIDE DEF frame
  <2>4. GoodStack(stack', lock) /\ Len(stack') = Len(stack) /\ stack'[Len(stack)] = frame
    BY <1>1, <1>2, <1>4, <2>1, <2>2, <2>3, PlainTopGood
  <2>5. \A e \in started' : rest'[e] \in Nat
    BY <1>3, RestTyped DEF IInv, timers
  <2>6. NeverOversleeps'
    BY <2>1, <2>4, <2>5 DEF NeverOversleeps, LoopCode, Top
  <2>7. QED
    BY <1>3, <2>4, <2>6 DEF IInv, list
<1>7. CASE Top.op # "flush" /\ stack' = SetTop([Top EXCEPT !.phase = "fire"])
  <2> DEFINE frame == [Top EXCEPT !.phase = "fire"]
  <2>1. /\ frame \in Frame /\ frame.call = NoCall
        /\ frame.op = Top.op /\ frame.phase = "fire"
    BY <1>1, <1>2 DEF Frame
  <2>2. FrameOK(frame)
    BY <1>4, <1>7, <2>1 DEF FrameOK
  <2>3. stack' = SetTop(frame)
    BY <1>7
  <2> HIDE DEF frame
  <2>4. GoodStack(stack', lock) /\ NoWait(stack')
    BY <1>1, <1>2, <1>4, <2>1, <2>2, <2>3, PlainTopGood
  <2>5. QED
    BY <1>3, <2>4, NoWaitNoSleep DEF IInv, list
<1>8. QED
  BY <1>5, <1>6, <1>7 DEF SocketsDone

LEMMA FireNextStep ==
    ASSUME IInv, FireNext
    PROVE  IInv'
<1> DEFINE i == Top.i + 1
           e == events[i]
<1>1. Running /\ Top.phase = "fire" /\ Top.call = NoCall
  BY DEF FireNext, LoopCode, InCallback
<1>2. Top \in Frame /\ FrameOK(Top) /\ GoodStack(stack, lock) /\ i \in Nat
  BY <1>1, LastIsTop DEF IInv, Frame
<1>3. Top.op # "flush"
  BY <1>1, <1>2 DEF FrameOK
<1>4. UNCHANGED <<timers, made, polled>>
  BY DEF FireNext
<1>5. TimersType' /\ PolledType' /\ made' \in 0 .. MaxEvents
  BY <1>4 DEF IInv, Types, TimersType, PolledType, Made, timers, polled
<1>6. NoCall \notin Events /\ NoCall # OnTime /\ OnTime \notin Events
  BY CallsAssumption
<1> HIDE DEF i
<1>7. CASE e \in started \ lock /\ stack' = SetTop([Top EXCEPT !.i = i, !.call = e])
           /\ lock' = lock \cup {e}
  <2> DEFINE frame == [Top EXCEPT !.i = i, !.call = e]
  <2> HIDE DEF e
  <2>1. e \in Events /\ e \in Made
    BY <1>7, MadeAreEvents DEF IInv, Types, TimersType
  <2>2. /\ frame \in Frame /\ frame.call = e
        /\ frame.op = Top.op /\ frame.phase = "fire"
    BY <1>1, <1>2, <2>1 DEF Frame
  <2>3. FrameOK(frame)
    BY <1>3, <1>6, <2>1, <2>2 DEF FrameOK
  <2>4. stack' = SetTop(frame)
    BY <1>7
  <2> HIDE DEF frame
  <2>5. \A d \in 1 .. Len(stack) - 1 : d \in DOMAIN stack
    <3>1. \A n \in Nat \ {0} : \A d \in 1 .. n - 1 : d \in 1 .. n
      OBVIOUS
    <3>2. QED
      BY <1>1, <1>2, <3>1, LastIsTop, Zenon
  <2>6. \A d \in 1 .. Len(stack) - 1 :
            stack[d].call \in Events =>
                stack[d].call \in lock' /\ stack[d].call # frame.call
    BY <1>2, <1>7, <2>2, <2>5 DEF GoodStack, CallsLocked
  <2>7. GoodStack(stack', lock') /\ NoWait(stack')
    BY <1>1, <1>2, <1>7, <2>2, <2>3, <2>4, <2>6, SetTopGood
  <2>8. lock' \subseteq Made'
    BY <1>4, <1>7, <2>1 DEF IInv, Types, Made
  <2>9. QED
    BY <1>5, <2>7, <2>8, NoWaitNoSleep DEF IInv, Types
<1>8. CASE lock' = lock /\ stack' = SetTop([Top EXCEPT !.i = i])
  <2> DEFINE frame == [Top EXCEPT !.i = i]
  <2>1. /\ frame \in Frame /\ frame.call = NoCall
        /\ frame.op = Top.op /\ frame.phase = "fire"
    BY <1>1, <1>2 DEF Frame
  <2>2. FrameOK(frame)
    BY <1>3, <1>6, <2>1 DEF FrameOK
  <2>3. stack' = SetTop(frame)
    BY <1>8
  <2> HIDE DEF frame
  <2>4. GoodStack(stack', lock') /\ NoWait(stack')
    BY <1>1, <1>2, <1>6, <1>8, <2>1, <2>2, <2>3, PlainTopGood
  <2>5. lock' \subseteq Made'
    BY <1>4, <1>8 DEF IInv, Types, Made
  <2>6. QED
    BY <1>5, <2>4, <2>5, NoWaitNoSleep DEF IInv, Types
<1>9. CASE UNCHANGED <<stack, lock>>
  <2>1. Top'.phase = "fire"
    BY <1>1, <1>9 DEF Top
  <2>2. NeverOversleeps'
    BY <2>1 DEF NeverOversleeps, LoopCode
  <2>3. lock' \subseteq Made'
    BY <1>4, <1>9 DEF IInv, Types, Made
  <2>4. QED
    BY <1>2, <1>5, <1>9, <2>2, <2>3 DEF IInv, Types
<1>10. QED
  BY <1>7, <1>8, <1>9 DEF FireNext, i

LEMMA PassEndsStep ==
    ASSUME IInv, PassEnds
    PROVE  IInv'
<1>1. Running /\ Top.phase = "fire" /\ Top.call = NoCall
  BY DEF PassEnds, LoopCode, InCallback
<1>2. Top \in Frame /\ FrameOK(Top) /\ GoodStack(stack, lock)
  BY <1>1, LastIsTop DEF IInv
<1>3. Top.op # "flush"
  BY <1>1, <1>2 DEF FrameOK
<1>4. Types' /\ lock' = lock /\ stack' = EndTurn
  BY DEF PassEnds, IInv, Types, TimersType, PolledType, Made, timers, polled
<1>5. NoCall \notin Events /\ NoCall # OnTime /\ OnTime \notin Events
  BY CallsAssumption
<1>6. GoodStack(stack', lock') /\ NoWait(stack')
  <2>1. CASE stack' = Pop
    BY <1>1, <1>2, <1>4, <2>1, PopGood
  <2>2. CASE stack' = SetTop(NextTurn(Top))
    <3> DEFINE frame == NextTurn(Top)
    <3>1. frame \in Frame /\ FrameOK(frame) /\ frame.call = NoCall /\ frame.phase = "enter"
      BY <1>1, <1>2, <1>3, <1>5 DEF NextTurn, Frame, FrameOK
    <3> HIDE DEF frame
    <3>2. QED
      BY <1>1, <1>2, <1>4, <1>5, <2>2, <3>1, PlainTopGood DEF frame
  <2>3. CASE /\ Top.op = "start"
             /\ stack' = SetTop([NextTurn(Top) EXCEPT !.phase = "time", !.call = OnTime])
    <3> DEFINE frame == [NextTurn(Top) EXCEPT !.phase = "time", !.call = OnTime]
    <3>1. frame \in Frame /\ FrameOK(frame) /\ frame.call = OnTime /\ frame.phase = "time"
      BY <1>1, <1>2, <1>5, <2>3 DEF NextTurn, Frame, FrameOK
    <3>2. stack' = SetTop(frame)
      BY <2>3
    <3> HIDE DEF frame
    <3>3. QED
      BY <1>1, <1>2, <1>4, <1>5, <3>1, <3>2, PlainTopGood
  <2>4. QED
    BY <1>4, <2>1, <2>2, <2>3 DEF EndTurn
<1>7. QED
  BY <1>4, <1>6, NoWaitNoSleep DEF IInv

(* A frame whose callback returned.                                        *)
LEMMA ReturnedFrame ==
    ASSUME IInv, InCallback
    PROVE  LET frame == [Top EXCEPT !.call = NoCall]
           IN  frame \in Frame /\ FrameOK(frame) /\ frame.call = NoCall
               /\ frame.phase # "wait"
<1>1. Top \in Frame /\ FrameOK(Top) /\ Top.call # NoCall
  BY LastIsTop DEF IInv, InCallback
<1>2. QED
  BY <1>1, CallsAssumption DEF Frame, FrameOK

LEMMA EventReturnsStep ==
    ASSUME IInv, EventReturns
    PROVE  IInv'
<1> DEFINE e == Top.call
           frame == [Top EXCEPT !.call = NoCall]
<1>1. Running /\ InCallback /\ e \in Events /\ stack' = SetTop(frame)
      /\ lock' = lock \ {e}
  BY DEF EventReturns, InCallback
<1>2. Len(stack) \in Nat \ {0} /\ Len(stack) \in DOMAIN stack
      /\ DOMAIN stack = 1 .. Len(stack) /\ e = stack[Len(stack)].call
      /\ GoodStack(stack, lock)
  BY <1>1, LastIsTop DEF IInv
<1>3. frame \in Frame /\ FrameOK(frame) /\ frame.call = NoCall /\ frame.phase # "wait"
  BY <1>1, ReturnedFrame
<1>4. e \in lock /\ e \in Made
  BY <1>1, <1>2 DEF GoodStack, CallsLocked, IInv, Types
<1>5. Types'
  <2>1. UNCHANGED <<made, polled>>
    BY DEF EventReturns
  <2>2. TimersType'
    <3>1. CASE e \in started
      <4>1. Rewind(e) /\ e <= made /\ made' = made
        BY <1>4, <2>1, <3>1 DEF EventReturns, Made, IInv, Types
      <4> HIDE DEF e
      <4>2. QED
        BY <1>1, <4>1, RewindTyped DEF IInv
    <3>2. CASE e \notin started
      BY <2>1, <3>2 DEF EventReturns, timers, IInv, Types, TimersType, Made
    <3>3. QED
      BY <3>1, <3>2
  <2>3. QED
    BY <1>1, <2>1, <2>2 DEF IInv, Types, PolledType, Made, polled
<1>6. \A d \in 1 .. Len(stack) - 1 : d \in DOMAIN stack /\ d # Len(stack)
  <2>1. \A n \in Nat \ {0} : \A d \in 1 .. n - 1 : d \in 1 .. n /\ d # n
    OBVIOUS
  <2>2. QED
    BY <1>2, <2>1, Zenon
<1>7. \A d \in 1 .. Len(stack) - 1 :
          stack[d].call \in Events =>
              stack[d].call \in lock /\ stack[d].call # e
  BY <1>2, <1>6 DEF GoodStack, CallsLocked, CallsDiffer
<1>8. NoCall \notin Events
  BY CallsAssumption
<1> HIDE DEF e, frame
<1>9. \A d \in 1 .. Len(stack) - 1 :
          stack[d].call \in Events =>
              stack[d].call \in lock' /\ stack[d].call # frame.call
  BY <1>1, <1>3, <1>7, <1>8
<1>10. GoodStack(stack', lock') /\ NoWait(stack')
  BY <1>1, <1>2, <1>3, <1>8, <1>9, SetTopGood
<1>11. QED
  BY <1>5, <1>10, NoWaitNoSleep DEF IInv

LEMMA SocketReturnsStep ==
    ASSUME IInv, SocketReturns
    PROVE  IInv'
<1> DEFINE frame == [Top EXCEPT !.call = NoCall]
<1>1. Running /\ InCallback /\ stack' = SetTop(frame) /\ lock' = lock
  BY DEF SocketReturns, InCallback, list
<1>2. frame \in Frame /\ FrameOK(frame) /\ frame.call \notin Events /\ frame.phase # "wait"
  BY <1>1, ReturnedFrame, CallsAssumption
<1>3. Types'
  BY DEF SocketReturns, IInv, Types, TimersType, PolledType, Made, timers, list, polled
<1> HIDE DEF frame
<1>4. GoodStack(stack', lock') /\ NoWait(stack')
  BY <1>1, <1>2, PlainTopGood DEF IInv
<1>5. QED
  BY <1>3, <1>4, NoWaitNoSleep DEF IInv

LEMMA OnTimeReturnsStep ==
    ASSUME IInv, OnTimeReturns
    PROVE  IInv'
<1>1. Running /\ Top.call = OnTime /\ lock' = lock
  BY DEF OnTimeReturns, InCallback, list
<1>2. Top \in Frame /\ FrameOK(Top) /\ GoodStack(stack, lock)
  BY <1>1, LastIsTop DEF IInv
<1>3. Types'
  BY DEF OnTimeReturns, IInv, Types, TimersType, PolledType, Made, timers, list, polled
<1>4. GoodStack(stack', lock') /\ NoWait(stack')
  <2>1. CASE stack' = Pop
    BY <1>1, <1>2, <2>1, PopGood
  <2>2. CASE stack' = SetTop([NextTurn(Top) EXCEPT !.rest = Top.ms, !.call = NoCall])
    <3> DEFINE frame == [NextTurn(Top) EXCEPT !.rest = Top.ms, !.call = NoCall]
    <3>1. Top.ms \in Nat /\ Top.op = "start"
      BY <1>1, <1>2 DEF Frame, FrameOK
    <3>2. frame \in Frame /\ FrameOK(frame) /\ frame.call = NoCall /\ frame.phase = "enter"
      BY <1>2, <3>1, CallsAssumption DEF NextTurn, Frame, FrameOK
    <3>3. stack' = SetTop(frame)
      BY <2>2
    <3> HIDE DEF frame
    <3>4. QED
      BY <1>1, <1>2, <3>2, <3>3, PlainTopGood, CallsAssumption
  <2>3. QED
    BY <2>1, <2>2 DEF OnTimeReturns
<1>5. QED
  BY <1>3, <1>4, NoWaitNoSleep DEF IInv

LEMMA TickStep ==
    ASSUME IInv, Tick
    PROVE  IInv'
<1>1. UNCHANGED <<started, interval, once, list, polled>>
      /\ rest' = [e \in Events |-> Less1(rest[e])]
  BY DEF Tick
<1>2. \A n \in Nat : Less1(n) \in Nat
  BY DEF Less1
<1>3. Types'
  BY <1>1, <1>2 DEF IInv, Types, TimersType, PolledType, Made, list, polled
<1>4. /\ GoodStack(stack', lock')
      /\ Len(stack') = Len(stack) /\ DOMAIN stack' = DOMAIN stack
      /\ \A d \in DOMAIN stack :
            /\ stack'[d].timeout = Less1(stack[d].timeout)
            /\ stack'[d].phase = stack[d].phase
            /\ stack'[d].call = stack[d].call
  BY <1>1, TickGood DEF IInv, list
<1>5. NeverOversleeps'
  <2> SUFFICES ASSUME LoopCode("wait")',
                      NEW e \in ((Listed \cap started) \ lock)'
               PROVE  Top'.timeout <= rest'[e]
    BY DEF NeverOversleeps
  <2>1. stack' # << >> /\ stack' \in Seq(Frame)
    BY <1>4 DEF LoopCode, Running, GoodStack
  <2>2. stack # << >> /\ Len(stack) \in DOMAIN stack
    BY <1>4, <2>1 DEF IInv, GoodStack
  <2>3. Top \in Frame /\ Top'.timeout = Less1(Top.timeout) /\ LoopCode("wait")
    BY <1>4, <2>2, LastIsTop DEF Top, LoopCode, InCallback, Running, IInv
  <2>4. e \in (Listed \cap started) \ lock
    BY <1>1 DEF Listed, list
  <2>5. e \in Events /\ rest[e] \in Nat /\ rest'[e] = Less1(rest[e])
    BY <1>1, <2>4, MadeAreEvents, RestTyped DEF IInv
  <2>6. Top.timeout <= rest[e] /\ Top.timeout \in Nat
    BY <2>3, <2>4 DEF IInv, NeverOversleeps, Frame
  <2>7. QED
    BY <2>3, <2>5, <2>6 DEF Less1
<1>6. QED
  BY <1>3, <1>4, <1>5 DEF IInv

-----------------------------------------------------------------------------
(* The invariant is inductive.                                             *)

LEMMA InitIInv == Init => IInv
<1> SUFFICES ASSUME Init PROVE IInv
  OBVIOUS
<1>1. Types
  BY BoundsAssumption DEF Init, Types, TimersType, PolledType, Made
<1>2. GoodStack(stack, lock)
  BY DEF Init, GoodStack, CallsLocked, CallsDiffer, WaitsOnTop
<1>3. NeverOversleeps
  BY DEF Init, NeverOversleeps, LoopCode, Running
<1>4. QED
  BY <1>1, <1>2, <1>3 DEF IInv

LEMMA NextIInv == IInv /\ [Next]_vars => IInv'
<1> SUFFICES ASSUME IInv, [Next]_vars PROVE IInv'
  OBVIOUS
<1>1. CASE LoopStep
  BY <1>1, EnterStep, PollReturnsStep, DispatchSocketStep, SocketsDoneStep,
     FireNextStep, PassEndsStep DEF LoopStep
<1>2. CASE EventReturns \/ SocketReturns \/ OnTimeReturns \/ CallbackRaises \/ PollFails
  BY <1>2, EventReturnsStep, SocketReturnsStep, OnTimeReturnsStep, RaisingSteps
<1>3. CASE UNCHANGED vars
  BY <1>3 DEF vars, timers, list, polled, IInv, Types, TimersType, PolledType,
     Made, NeverOversleeps, LoopCode, InCallback, Running, Top, Listed
<1>4. CASE Tick
  BY <1>4, TickStep
<1>5. QED
  BY <1>1, <1>2, <1>3, <1>4, TimerSteps, SocketSteps, RunStep DEF Next

LEMMA Inductive == Spec => []IInv
<1>1. QED
  BY InitIInv, NextIInv, PTL DEF Spec

-----------------------------------------------------------------------------
(* The lock of event_list:fire keeps the callback of an event from being   *)
(* entered again below itself, for any nesting, errors included.           *)
THEOREM NoReentry == Spec => []NotInItself
<1>1. IInv => NotInItself
  BY DEF IInv, GoodStack, CallsDiffer, NotInItself
<1>2. QED
  BY <1>1, Inductive, PTL

(* While a method polls, the timeout left is at most what is left of any   *)
(* event it could fire, for any intervals and any changes by callbacks.    *)
THEOREM WakesInTime == Spec => []NeverOversleeps
<1>1. IInv => NeverOversleeps
  BY DEF IInv
<1>2. QED
  BY <1>1, Inductive, PTL

-----------------------------------------------------------------------------
(* The loop implements Alarms.                                             *)

Due == {e \in started : rest[e] = 0}
Runs == Called \cap Events

(* A step that leaves the timers alone and calls no event ends some        *)
(* callbacks at most.                                                      *)
LEMMA Ending ==
    ASSUME UNCHANGED timers, Runs' \subseteq Runs
    PROVE  A!Next
<1>1. A!Abort
  BY DEF A!Abort, timers, Runs
<1>2. QED
  BY <1>1 DEF A!Next

LEMMA ArmAlarm ==
    ASSUME Types, NEW e \in Events, NEW t, NEW o \in BOOLEAN, Arm(e, t, o),
           UNCHANGED stack
    PROVE  A!Next
<1>1. started' = started \cup {e} /\ rest' = [rest EXCEPT ![e] = t]
      /\ once' = (IF o THEN once \cup {e} ELSE once \ {e})
  BY DEF Arm
<1>2. rest \in [Events -> Nat] /\ started \subseteq Events
  BY MadeAreEvents DEF Types, TimersType
<1>3. \A f \in started : f # e => rest'[f] = rest[f]
  BY <1>1, <1>2
<1>4. Due' \ {e} = Due \ {e}
  BY <1>1, <1>3 DEF Due
<1>5. Due' \in {Due \cup {e}, Due \ {e}}
  BY <1>4, Zenon
<1>6. A!Arm(e)
  BY <1>1, <1>5 DEF A!Arm, Due, Called
<1>7. QED
  BY <1>6 DEF A!Next

LEMMA DisarmAlarm ==
    ASSUME Types, NEW e \in Events, Disarm(e), UNCHANGED stack
    PROVE  A!Next
<1>1. started' = started \ {e} /\ rest' = [rest EXCEPT ![e] = 0] /\ once' = once
  BY DEF Disarm
<1>2. rest \in [Events -> Nat] /\ started \subseteq Events
  BY MadeAreEvents DEF Types, TimersType
<1>3. Due' = Due \ {e}
  BY <1>1, <1>2 DEF Due
<1>4. A!Disarm(e)
  BY <1>1, <1>3 DEF A!Disarm, Due, Called
<1>5. QED
  BY <1>4 DEF A!Next

LEMMA RewindAlarm ==
    ASSUME Types, NEW e \in Events, Rewind(e), UNCHANGED stack
    PROVE  A!Next
<1>1. CASE e \in once
  BY <1>1, DisarmAlarm DEF Rewind
<1>2. CASE e \notin once
  <2>1. started' = started \cup {e} /\ rest' = [rest EXCEPT ![e] = interval[e]]
        /\ once' = once \ {e}
    BY <1>2 DEF Rewind
  <2>2. rest \in [Events -> Nat] /\ started \subseteq Events
    BY MadeAreEvents DEF Types, TimersType
  <2>3. \A f \in started : f # e => rest'[f] = rest[f]
    BY <2>1, <2>2
  <2>4. Due' \ {e} = Due \ {e}
    BY <2>1, <2>3 DEF Due
  <2>5. Due' \in {Due \cup {e}, Due \ {e}}
    BY <2>4, Zenon
  <2>6. A!Arm(e)
    BY <2>1, <2>5 DEF A!Arm, Due, Called
  <2>7. QED
    BY <2>6 DEF A!Next
<1>3. QED
  BY <1>1, <1>2

LEMMA TickAlarm ==
    ASSUME IInv, Tick
    PROVE  A!Next
<1>1. UNCHANGED <<started, once>> /\ rest' = [e \in Events |-> Less1(rest[e])]
  BY DEF Tick
<1>2. started \subseteq Events
  BY MadeAreEvents DEF IInv
<1>3. Due \subseteq Due' /\ Due' \subseteq started
  BY <1>1, <1>2 DEF Due, Less1
<1>4. Runs' = Runs
  BY TickGood DEF IInv, Runs, Called
<1>5. A!TimePasses
  BY <1>1, <1>3, <1>4 DEF A!TimePasses, Due, Runs
<1>6. QED
  BY <1>5 DEF A!Next

-----------------------------------------------------------------------------
(* The callbacks that run.                                                 *)

LEMMA PrefixCalls ==
    ASSUME GoodStack(stack, lock), NEW d \in 0 .. Len(stack) - 1,
           stack' = SubSeq(stack, 1, d)
    PROVE  Runs' \subseteq Runs
<1>1. stack \in Seq(Frame) /\ Len(stack) \in Nat /\ DOMAIN stack = 1 .. Len(stack)
  BY DEF GoodStack
<1>2. DOMAIN stack' = 1 .. d
  BY <1>1, SubSeqProperties
<1>3. \A i \in DOMAIN stack' : i \in DOMAIN stack /\ stack'[i] = stack[i]
  BY <1>1, <1>2, SubSeqProperties
<1>4. QED
  BY <1>3 DEF Runs, Called

LEMMA PopCalls ==
    ASSUME GoodStack(stack, lock), Running, stack' = Pop
    PROVE  Runs' \subseteq Runs
<1>1. Len(stack) - 1 \in 0 .. Len(stack) - 1
  BY LastIsTop
<1>2. QED
  BY <1>1, PrefixCalls DEF Pop

LEMMA TopCalls ==
    ASSUME GoodStack(stack, lock), Running, NEW frame, stack' = SetTop(frame)
    PROVE  Runs' = ({stack[d].call : d \in DOMAIN stack \ {Len(stack)}} \cap Events)
                   \cup ({frame.call} \cap Events)
<1>1. Len(stack) \in DOMAIN stack
  BY LastIsTop
<1>2. DOMAIN stack' = DOMAIN stack /\ stack'[Len(stack)] = frame
      /\ \A d \in DOMAIN stack \ {Len(stack)} : stack'[d] = stack[d]
  BY <1>1 DEF SetTop, GoodStack
<1>3. Called' = {stack[d].call : d \in DOMAIN stack \ {Len(stack)}} \cup {frame.call}
  BY <1>1, <1>2 DEF Called
<1>4. QED
  BY <1>3 DEF Runs

LEMMA PlainTopCalls ==
    ASSUME GoodStack(stack, lock), Running, NEW frame, stack' = SetTop(frame),
           frame.call \notin Events
    PROVE  Runs' \subseteq Runs
BY TopCalls DEF Runs, Called

-----------------------------------------------------------------------------
(* Each step of the loop is a step of Alarms, or leaves them as they are.  *)

LEMMA TimersImplement ==
    ASSUME IInv,
           \/ \E t \in Intervals, o \in BOOLEAN :
                 AddEvent(t, o) \/ \E e \in Events : SetInterval(e, t, o)
           \/ \E e \in Events : Reset(e) \/ Restart(e)
    PROVE  A!Next
<1>1. ASSUME NEW t \in Intervals, NEW o \in BOOLEAN, AddEvent(t, o)
      PROVE  A!Next
  <2>1. made + 1 \in Events /\ Arm(made + 1, t, o) /\ stack' = stack
    BY <1>1, BoundsAssumption DEF AddEvent, IInv, Types, Events
  <2>2. QED
    BY <2>1, ArmAlarm DEF IInv
<1>2. ASSUME NEW t \in Intervals, NEW o \in BOOLEAN, NEW e \in Events, SetInterval(e, t, o)
      PROVE  A!Next
  BY <1>2, ArmAlarm DEF SetInterval, IInv
<1>3. ASSUME NEW e \in Events, Reset(e)
      PROVE  A!Next
  BY <1>3, DisarmAlarm DEF Reset, IInv
<1>4. ASSUME NEW e \in Events, Restart(e)
      PROVE  A!Next
  BY <1>4, RewindAlarm DEF Restart, IInv
<1>5. QED
  BY <1>1, <1>2, <1>3, <1>4

LEMMA SameStackImplements ==
    ASSUME UNCHANGED timers, UNCHANGED stack
    PROVE  A!Next
BY Ending DEF Runs, Called

LEMMA RunImplements ==
    ASSUME IInv,
           NEW op \in {"start", "sleep", "poll", "flush"}, NEW t \in Waits,
           Run(op, t)
    PROVE  A!Next
<1> DEFINE frame == NewFrame(op, t)
<1>1. stack' = Append(stack, frame) /\ frame.call = NoCall /\ UNCHANGED timers
  BY DEF Run, NewFrame
<1>2. stack \in Seq(Frame)
  BY DEF IInv, GoodStack
<1> HIDE DEF frame
<1>3. DOMAIN stack' = DOMAIN stack \cup {Len(stack) + 1}
      /\ stack'[Len(stack) + 1] = frame
      /\ \A d \in DOMAIN stack : stack'[d] = stack[d]
  BY <1>1, <1>2
<1>4. Runs' \subseteq Runs
  BY <1>1, <1>3, CallsAssumption DEF Runs, Called
<1>5. QED
  BY <1>1, <1>4, Ending

LEMMA PollingImplements ==
    ASSUME IInv,
           \/ Enter \/ PollReturns \/ DispatchSocket \/ SocketsDone
           \/ PassEnds \/ PollFails
    PROVE  A!Next
<1>1. Running /\ Top.call = NoCall /\ UNCHANGED timers
  BY DEF Enter, PollReturns, DispatchSocket, SocketsDone, PassEnds, PollFails,
     LoopCode, InCallback
<1>2. GoodStack(stack, lock) /\ Top \in Frame
  BY <1>1, LastIsTop DEF IInv
<1>3. \/ stack' = Pop
      \/ Unwind
      \/ \E frame : stack' = SetTop(frame) /\ frame.call \notin Events
  <2>1. NoCall \notin Events /\ OnTime \notin Events
    BY CallsAssumption
  <2>2. CASE Enter
    <3>1. [Top EXCEPT !.phase = "wait", !.timeout = SleepInterval(Top.rest)].call = NoCall
      BY <1>1, <1>2 DEF Frame
    <3>2. QED
      BY <2>1, <2>2, <3>1 DEF Enter
  <2>3. CASE PollReturns
    <3>1. \A n : [Top EXCEPT !.phase = "io", !.timeout = 0, !.left = n].call = NoCall
      BY <1>1, <1>2 DEF Frame
    <3>2. QED
      BY <2>1, <2>3, <3>1 DEF PollReturns
  <2>4. CASE DispatchSocket
    <3>1. \A n, s : [Top EXCEPT !.left = n, !.call = s].call = s
      BY <1>2 DEF Frame
    <3>2. io \cap Events = {}
      BY CallsAssumption DEF IInv, Types, PolledType
    <3>3. CASE Unwind
      BY <3>3
    <3>4. ASSUME NEW s \in io, stack' = SetTop([Top EXCEPT !.left = @ - 1, !.call = s])
          PROVE  \E frame : stack' = SetTop(frame) /\ frame.call \notin Events
      <4> DEFINE frame == [Top EXCEPT !.left = @ - 1, !.call = s]
      <4>1. frame.call \notin Events
        BY <3>1, <3>2
      <4>2. stack' = SetTop(frame)
        BY <3>4
      <4> HIDE DEF frame
      <4>3. QED
        BY <4>1, <4>2
    <3>5. QED
      BY <2>4, <3>3, <3>4 DEF DispatchSocket
  <2>5. CASE SocketsDone
    <3>1. \A p : [Top EXCEPT !.phase = p].call = NoCall
      BY <1>1, <1>2 DEF Frame
    <3>2. QED
      BY <2>1, <2>5, <3>1 DEF SocketsDone
  <2>6. CASE PassEnds
    <3>1. NextTurn(Top).call = NoCall
          /\ [NextTurn(Top) EXCEPT !.phase = "time", !.call = OnTime].call = OnTime
      BY <1>1, <1>2 DEF Frame, NextTurn
    <3>2. QED
      BY <2>1, <2>6, <3>1 DEF PassEnds, EndTurn
  <2>7. CASE PollFails
    BY <2>7 DEF PollFails
  <2>8. QED
    BY <2>2, <2>3, <2>4, <2>5, <2>6, <2>7
<1>4. Runs' \subseteq Runs
  BY <1>1, <1>2, <1>3, PopCalls, PlainTopCalls, PrefixCalls DEF Unwind
<1>5. QED
  BY <1>1, <1>4, Ending

LEMMA FireNextImplements ==
    ASSUME IInv, FireNext
    PROVE  A!Next
<1> DEFINE i == Top.i + 1
           e == events[i]
<1>1. Running /\ Top.call = NoCall /\ UNCHANGED timers
  BY DEF FireNext, LoopCode, InCallback
<1>2. GoodStack(stack, lock) /\ Top \in Frame /\ NoCall \notin Events
  BY <1>1, LastIsTop, CallsAssumption DEF IInv
<1> HIDE DEF i
<1>3. CASE /\ e \in started \ lock /\ rest[e] = 0
           /\ stack' = SetTop([Top EXCEPT !.i = i, !.call = e])
  <2> HIDE DEF e
  <2>1. e \in Events
    BY <1>3, MadeAreEvents DEF IInv
  <2>2. [Top EXCEPT !.i = i, !.call = e].call = e
    BY <1>2 DEF Frame
  <2>3. Top = stack[Len(stack)] /\ Len(stack) \in DOMAIN stack
    BY <1>1, <1>2, LastIsTop
  <2>4. Runs = {stack[d].call : d \in DOMAIN stack \ {Len(stack)}} \cap Events
    BY <1>1, <1>2, <2>3 DEF Runs, Called
  <2>5. Runs' = Runs \cup {e}
    BY <1>1, <1>2, <1>3, <2>1, <2>2, <2>4, TopCalls
  <2>6. e \notin Runs
    BY <1>2, <1>3 DEF GoodStack, CallsLocked, Runs, Called
  <2>7. A!Call(e)
    BY <1>1, <1>3, <2>5, <2>6 DEF A!Call, timers, Runs
  <2>8. QED
    BY <2>1, <2>7 DEF A!Next
<1>4. CASE stack' = SetTop([Top EXCEPT !.i = i])
  <2>1. [Top EXCEPT !.i = i].call \notin Events
    BY <1>1, <1>2 DEF Frame
  <2>2. Runs' \subseteq Runs
    BY <1>1, <1>2, <1>4, <2>1, PlainTopCalls
  <2>3. QED
    BY <1>1, <2>2, Ending
<1>5. CASE UNCHANGED stack
  BY <1>1, <1>5, SameStackImplements
<1>6. QED
  BY <1>3, <1>4, <1>5 DEF FireNext, i

LEMMA EventReturnsImplements ==
    ASSUME IInv, EventReturns
    PROVE  A!Next
<1> DEFINE frame == [Top EXCEPT !.call = NoCall]
<1>0. PICK e \in Events : e = Top.call
  BY DEF EventReturns
<1>1. Running /\ stack' = SetTop(frame)
      /\ (IF e \in started THEN Rewind(e) ELSE UNCHANGED timers)
  BY <1>0 DEF EventReturns, InCallback
<1>2. GoodStack(stack, lock) /\ Top \in Frame /\ NoCall \notin Events
      /\ Top = stack[Len(stack)] /\ Len(stack) \in DOMAIN stack
  BY <1>1, LastIsTop, CallsAssumption DEF IInv
<1>3. frame.call = NoCall
  BY <1>2 DEF Frame
<1> HIDE DEF frame
<1>4. Runs' = {stack[d].call : d \in DOMAIN stack \ {Len(stack)}} \cap Events
  BY <1>1, <1>2, <1>3, TopCalls
<1>5. \A d \in DOMAIN stack \ {Len(stack)} : stack[d].call # e
  BY <1>0, <1>1, <1>2 DEF GoodStack, CallsDiffer
<1>6. e \in Runs /\ Runs' = Runs \ {e}
  BY <1>0, <1>1, <1>2, <1>4, <1>5 DEF Runs, Called
<1>7. started \subseteq Events /\ rest \in [Events -> Nat]
  BY MadeAreEvents DEF IInv, Types, TimersType
<1>8. once' = once
      /\ (IF e \in once THEN started' = started \ {e} ELSE started' = started)
      /\ Due' \in (IF e \in started' THEN {Due \cup {e}, Due \ {e}} ELSE {Due \ {e}})
  <2>1. CASE e \notin started
    <3>1. UNCHANGED <<started, rest, once>>
      BY <1>1, <2>1 DEF timers
    <3>2. Due' = Due /\ e \notin Due
      BY <2>1, <3>1 DEF Due
    <3>3. QED
      BY <2>1, <3>1, <3>2
  <2>2. CASE e \in started /\ e \in once
    <3>1. started' = started \ {e} /\ rest' = [rest EXCEPT ![e] = 0] /\ once' = once
      BY <1>1, <2>2 DEF Rewind, Disarm
    <3>2. Due' = Due \ {e}
      BY <1>7, <3>1 DEF Due
    <3>3. QED
      BY <2>2, <3>1, <3>2
  <2>3. CASE e \in started /\ e \notin once
    <3>1. started' = started /\ rest' = [rest EXCEPT ![e] = interval[e]] /\ once' = once
      BY <1>1, <2>3 DEF Rewind
    <3>2. \A f \in started : f # e => rest'[f] = rest[f]
      BY <1>7, <3>1
    <3>3. Due' \ {e} = Due \ {e}
      BY <3>1, <3>2 DEF Due
    <3>4. Due' \in {Due \cup {e}, Due \ {e}}
      BY <3>3, Zenon
    <3>5. QED
      BY <2>3, <3>1, <3>4
  <2>4. QED
    BY <2>1, <2>2, <2>3
<1>9. A!Return(e)
  BY <1>6, <1>8 DEF A!Return, Due, Runs
<1>10. QED
  BY <1>9 DEF A!Next

LEMMA ReturnsImplement ==
    ASSUME IInv, SocketReturns \/ OnTimeReturns \/ CallbackRaises
    PROVE  A!Next
<1>1. Running /\ UNCHANGED timers
  BY DEF SocketReturns, OnTimeReturns, CallbackRaises, InCallback
<1>2. GoodStack(stack, lock) /\ Top \in Frame /\ NoCall \notin Events
  BY <1>1, LastIsTop, CallsAssumption DEF IInv
<1>3. \/ stack' = Pop
      \/ Unwind
      \/ \E frame : stack' = SetTop(frame) /\ frame.call \notin Events
  <2>1. [Top EXCEPT !.call = NoCall].call = NoCall
    BY <1>2 DEF Frame
  <2>2. [NextTurn(Top) EXCEPT !.rest = Top.ms, !.call = NoCall].call = NoCall
    BY <1>2 DEF Frame, NextTurn
  <2>3. QED
    BY <1>2, <2>1, <2>2 DEF SocketReturns, OnTimeReturns, CallbackRaises
<1>4. Runs' \subseteq Runs
  BY <1>1, <1>2, <1>3, PopCalls, PlainTopCalls, PrefixCalls DEF Unwind
<1>5. QED
  BY <1>1, <1>4, Ending

(* The calls and returns of callbacks, at any depth, are those of Alarms:  *)
(* each call of event_list:fire is for an event that is due and not in its *)
(* callback, and an event fires once for every time it was armed, with any *)
(* nesting of the methods, errors in callbacks and failing polls.          *)
THEOREM LoopImplementsAlarms == Spec => ImplementsAlarms
<1>1. Init => A!Init
  BY DEF Init, A!Init, Called
<1>2. IInv /\ [Next]_vars => [A!Next]_(A!vars)
  <2> SUFFICES ASSUME IInv, [Next]_vars PROVE [A!Next]_(A!vars)
    OBVIOUS
  <2>1. CASE LoopStep
    BY <2>1, PollingImplements, FireNextImplements DEF LoopStep
  <2>2. CASE EventReturns \/ SocketReturns \/ OnTimeReturns \/ CallbackRaises \/ PollFails
    BY <2>2, EventReturnsImplements, ReturnsImplement, PollingImplements
  <2>3. CASE UNCHANGED vars
    BY <2>3, SameStackImplements DEF vars
  <2>4. CASE Tick
    BY <2>4, TickAlarm
  <2>5. CASE \/ \E s \in Sockets : AddSocket(s) \/ RemoveSocket(s) \/ CloseSocket(s)
             \/ Interrupt \/ Destroy
    <3>1. UNCHANGED timers /\ UNCHANGED stack
      BY <2>5 DEF AddSocket, RemoveSocket, CloseSocket, Interrupt, Destroy
    <3>2. QED
      BY <3>1, SameStackImplements
  <2>6. QED
    BY <2>1, <2>2, <2>3, <2>4, <2>5, TimersImplement, RunImplements DEF Next
<1>3. QED
  BY <1>1, <1>2, Inductive, PTL DEF Spec, A!Spec, ImplementsAlarms

-----------------------------------------------------------------------------
(* The locks, when no callback raises an error or changes the sockets that *)
(* are being dispatched.                                                   *)

Orderly == Uses \cap {"raise", "nestedIo", "others"} = {}

(* The innermost method alone dispatches sockets: those left in the poller.*)
IoFits ==
    \A d \in DOMAIN stack :
        stack[d].phase = "io" => d = Len(stack) /\ stack[d].left = Cardinality(io)

Exact == LockedWhileCalled /\ IoFits

LEMMA PopExact ==
    ASSUME IInv, Exact, Running, Top.call \notin Events, stack' = Pop, UNCHANGED lock
    PROVE  Exact'
<1>1. GoodStack(stack, lock) /\ Top = stack[Len(stack)]
      /\ Len(stack) \in Nat \ {0} /\ DOMAIN stack = 1 .. Len(stack)
      /\ stack \in Seq(Frame)
  BY LastIsTop DEF IInv, GoodStack
<1>2. DOMAIN stack' = 1 .. Len(stack) - 1
      /\ \A d \in DOMAIN stack' : stack'[d] = stack[d]
  BY <1>1, SubSeqProperties DEF Pop
<1>3. \A d \in DOMAIN stack : d \in DOMAIN stack' \/ d = Len(stack)
  BY <1>1, <1>2
<1>4. \A d \in DOMAIN stack' : d \in DOMAIN stack /\ d # Len(stack)
  BY <1>1, <1>2
<1>5. Runs' = Runs
  BY <1>1, <1>2, <1>3, <1>4 DEF Runs, Called
<1>6. IoFits'
  BY <1>2, <1>4 DEF Exact, IoFits
<1>7. QED
  BY <1>5, <1>6 DEF Exact, LockedWhileCalled, Runs

(* The innermost frame goes on.                                            *)
LEMMA TopFits ==
    ASSUME IInv, IoFits, Running, NEW frame, stack' = SetTop(frame),
           frame.phase = "io" => frame.left = Cardinality(io')
    PROVE  IoFits'
<1>1. Len(stack) \in DOMAIN stack /\ stack \in Seq(Frame)
  BY LastIsTop DEF IInv, GoodStack
<1>2. DOMAIN stack' = DOMAIN stack /\ Len(stack') = Len(stack)
      /\ stack'[Len(stack)] = frame
      /\ \A d \in DOMAIN stack \ {Len(stack)} : stack'[d] = stack[d]
  BY <1>1 DEF SetTop
<1>3. QED
  BY <1>1, <1>2 DEF IoFits

LEMMA TopExact ==
    ASSUME IInv, Exact, Running, NEW frame, stack' = SetTop(frame),
           frame.phase = "io" => frame.left = Cardinality(io'),
           Top.call \notin Events, frame.call \notin Events, UNCHANGED lock
    PROVE  Exact'
<1>1. GoodStack(stack, lock) /\ Top = stack[Len(stack)] /\ Len(stack) \in DOMAIN stack
  BY LastIsTop DEF IInv
<1>2. Runs' = Runs
  BY <1>1, TopCalls DEF Runs, Called
<1>3. IoFits'
  BY TopFits DEF Exact
<1>4. QED
  BY <1>2, <1>3 DEF Exact, LockedWhileCalled, Runs

LEMMA ApplicationExact ==
    ASSUME Orderly, Exact,
           \/ \E t \in Intervals, o \in BOOLEAN :
                 AddEvent(t, o) \/ \E e \in Events : SetInterval(e, t, o)
           \/ \E e \in Events : Reset(e) \/ Restart(e)
           \/ \E s \in Sockets : AddSocket(s) \/ RemoveSocket(s) \/ CloseSocket(s)
           \/ Interrupt
           \/ Destroy
    PROVE  Exact'
<1>1. UNCHANGED <<lock, stack>>
  BY DEF AddEvent, SetInterval, Reset, Restart, AddSocket, RemoveSocket, CloseSocket,
     Interrupt, Destroy, list
<1>2. UNCHANGED io
  BY DEF Orderly, AddEvent, SetInterval, Reset, Restart, AddSocket, RemoveSocket,
     CloseSocket, Interrupt, Destroy, polled
<1>3. QED
  BY <1>1, <1>2 DEF Exact, LockedWhileCalled, Called, IoFits

LEMMA RunExact ==
    ASSUME Orderly, IInv, Exact,
           NEW op \in {"start", "sleep", "poll", "flush"}, NEW t \in Waits,
           Run(op, t)
    PROVE  Exact'
<1> DEFINE frame == NewFrame(op, t)
<1>1. stack' = Append(stack, frame) /\ UNCHANGED <<lock, io>>
      /\ frame.call = NoCall /\ frame.phase # "io"
  BY DEF Run, NewFrame, list, polled
<1>2. stack \in Seq(Frame) /\ \A d \in DOMAIN stack : stack[d].phase # "io"
  BY DEF IInv, GoodStack, Orderly, Run, InIo
<1> HIDE DEF frame
<1>3. DOMAIN stack' = DOMAIN stack \cup {Len(stack) + 1}
      /\ stack'[Len(stack) + 1] = frame
      /\ \A d \in DOMAIN stack : stack'[d] = stack[d]
  BY <1>1, <1>2
<1>4. IoFits'
  BY <1>1, <1>2, <1>3 DEF IoFits
<1>5. Runs' = Runs
  BY <1>1, <1>3, CallsAssumption DEF Runs, Called
<1>6. QED
  BY <1>1, <1>4, <1>5 DEF Exact, LockedWhileCalled, Runs

LEMMA PollingExact ==
    ASSUME IInv, Exact,
           Enter \/ PollReturns \/ DispatchSocket \/ SocketsDone \/ PassEnds \/ PollFails
    PROVE  Exact'
<1>1. Running /\ Top.call = NoCall /\ UNCHANGED lock
  BY DEF Enter, PollReturns, DispatchSocket, SocketsDone, PassEnds, PollFails,
     LoopCode, InCallback, list
<1>2. Top \in Frame /\ NoCall \notin Events /\ OnTime \notin Events
  BY <1>1, LastIsTop, CallsAssumption DEF IInv
<1>3. stack' = Pop => Exact'
  BY <1>1, <1>2, PopExact
<1>4. ASSUME NEW frame, stack' = SetTop(frame), frame.call \notin Events,
             frame.phase = "io" => frame.left = Cardinality(io')
      PROVE  Exact'
  BY <1>1, <1>2, <1>4, TopExact
<1>5. CASE Enter
  <2> DEFINE frame == [Top EXCEPT !.phase = "wait", !.timeout = SleepInterval(Top.rest)]
  <2>1. frame.call = NoCall /\ frame.phase = "wait"
    BY <1>1, <1>2 DEF Frame
  <2>2. stack' = Pop \/ stack' = SetTop(frame)
    BY <1>5 DEF Enter
  <2> HIDE DEF frame
  <2>3. QED
    BY <1>2, <1>3, <1>4, <2>1, <2>2
<1>6. CASE PollReturns
  <2>1. PICK reported :
            /\ io' = reported
            /\ \/ stack' = Pop
               \/ stack' = SetTop([Top EXCEPT !.phase = "io", !.timeout = 0,
                                              !.left = Cardinality(reported)])
    BY <1>6 DEF PollReturns
  <2> DEFINE frame == [Top EXCEPT !.phase = "io", !.timeout = 0,
                                  !.left = Cardinality(reported)]
  <2>2. frame.call = NoCall /\ frame.left = Cardinality(reported)
    BY <1>1, <1>2 DEF Frame
  <2>3. stack' = Pop \/ stack' = SetTop(frame)
    BY <2>1
  <2> HIDE DEF frame
  <2>4. QED
    BY <1>2, <1>3, <1>4, <2>1, <2>2, <2>3
<1>7. CASE DispatchSocket
  <2>1. Top = stack[Len(stack)] /\ Len(stack) \in DOMAIN stack /\ Top.phase = "io"
    BY <1>1, <1>7, LastIsTop DEF IInv, DispatchSocket, LoopCode
  <2>2. Top.left = Cardinality(io) /\ IsFiniteSet(io)
    BY <2>1, SocketsAssumption, FS_Subset DEF Exact, IoFits, IInv, Types, PolledType
  <2>3. io # {}
    <3>1. Top.left > 0
      BY <1>7 DEF DispatchSocket
    <3>2. Cardinality({}) = 0
      BY FS_EmptySet
    <3>3. QED
      BY <2>2, <3>1, <3>2
  <2>4. PICK s \in io :
            io' = io \ {s} /\ stack' = SetTop([Top EXCEPT !.left = @ - 1, !.call = s])
    BY <1>7, <2>3 DEF DispatchSocket
  <2> DEFINE frame == [Top EXCEPT !.left = @ - 1, !.call = s]
  <2>5. frame.call = s /\ frame.left = Top.left - 1
    BY <1>2 DEF Frame
  <2>6. s \notin Events
    BY CallsAssumption DEF IInv, Types, PolledType
  <2>7. Cardinality(io') = Top.left - 1
    BY <2>2, <2>4, FS_RemoveElement
  <2>8. stack' = SetTop(frame)
    BY <2>4
  <2> HIDE DEF frame
  <2>9. QED
    BY <1>4, <2>5, <2>6, <2>7, <2>8
<1>8. CASE SocketsDone
  <2>1. \A p : [Top EXCEPT !.phase = p].call = NoCall /\ [Top EXCEPT !.phase = p].phase = p
    BY <1>1, <1>2 DEF Frame
  <2>2. stack' = Pop \/ \E p \in {"wait", "fire"} : stack' = SetTop([Top EXCEPT !.phase = p])
    BY <1>8 DEF SocketsDone
  <2>3. ASSUME NEW p \in {"wait", "fire"}, stack' = SetTop([Top EXCEPT !.phase = p])
        PROVE  Exact'
    <3> DEFINE frame == [Top EXCEPT !.phase = p]
    <3>1. frame.call = NoCall /\ frame.phase # "io" /\ stack' = SetTop(frame)
      BY <2>1, <2>3
    <3> HIDE DEF frame
    <3>2. QED
      BY <1>2, <1>4, <3>1
  <2>4. QED
    BY <1>3, <2>2, <2>3
<1>9. CASE PassEnds
  <2>1. NextTurn(Top).call = NoCall /\ NextTurn(Top).phase = "enter"
    BY <1>1, <1>2 DEF Frame, NextTurn
  <2> DEFINE frame == [NextTurn(Top) EXCEPT !.phase = "time", !.call = OnTime]
  <2>2. frame.call = OnTime /\ frame.phase = "time"
    BY <1>2 DEF Frame, NextTurn
  <2>3. stack' = Pop \/ stack' = SetTop(NextTurn(Top)) \/ stack' = SetTop(frame)
    BY <1>9 DEF PassEnds, EndTurn
  <2> HIDE DEF frame
  <2>4. QED
    BY <1>2, <1>3, <1>4, <2>1, <2>2, <2>3
<1>10. CASE PollFails
  BY <1>3, <1>10 DEF PollFails
<1>11. QED
  BY <1>5, <1>6, <1>7, <1>8, <1>9, <1>10

LEMMA FireNextExact ==
    ASSUME IInv, Exact, FireNext
    PROVE  Exact'
<1> DEFINE i == Top.i + 1
           e == events[i]
<1>1. Running /\ Top.call = NoCall /\ Top.phase = "fire" /\ UNCHANGED io
  BY DEF FireNext, LoopCode, InCallback, polled
<1>2. GoodStack(stack, lock) /\ Top \in Frame /\ NoCall \notin Events
      /\ Top = stack[Len(stack)] /\ Len(stack) \in DOMAIN stack
  BY <1>1, LastIsTop, CallsAssumption DEF IInv
<1> HIDE DEF i
<1>3. CASE /\ e \in started \ lock /\ rest[e] = 0
           /\ stack' = SetTop([Top EXCEPT !.i = i, !.call = e])
           /\ lock' = lock \cup {e}
  <2> DEFINE frame == [Top EXCEPT !.i = i, !.call = e]
  <2> HIDE DEF e
  <2>1. e \in Events
    BY <1>3, MadeAreEvents DEF IInv
  <2>2. frame.call = e /\ frame.phase = "fire" /\ stack' = SetTop(frame)
    BY <1>1, <1>2, <1>3 DEF Frame
  <2> HIDE DEF frame
  <2>3. Runs = {stack[d].call : d \in DOMAIN stack \ {Len(stack)}} \cap Events
    BY <1>1, <1>2 DEF Runs, Called
  <2>4. Runs' = Runs \cup {e}
    BY <1>1, <1>2, <2>1, <2>2, <2>3, TopCalls
  <2>5. IoFits'
    BY <1>1, <2>2, TopFits DEF Exact
  <2>6. QED
    BY <1>3, <2>4, <2>5 DEF Exact, LockedWhileCalled, Runs
<1>4. CASE stack' = SetTop([Top EXCEPT !.i = i]) /\ UNCHANGED lock
  <2> DEFINE frame == [Top EXCEPT !.i = i]
  <2>1. frame.call \notin Events /\ frame.phase = "fire" /\ stack' = SetTop(frame)
    BY <1>1, <1>2, <1>4 DEF Frame
  <2> HIDE DEF frame
  <2>2. QED
    BY <1>1, <1>2, <1>4, <2>1, TopExact
<1>5. CASE UNCHANGED <<stack, lock>>
  BY <1>1, <1>5 DEF Exact, LockedWhileCalled, Called, IoFits
<1>6. QED
  BY <1>3, <1>4, <1>5 DEF FireNext, i

LEMMA ReturnsExact ==
    ASSUME Orderly, IInv, Exact,
           EventReturns \/ SocketReturns \/ OnTimeReturns \/ CallbackRaises
    PROVE  Exact'
<1>1. Running /\ UNCHANGED io /\ ~CallbackRaises
  BY DEF EventReturns, SocketReturns, OnTimeReturns, CallbackRaises, InCallback,
     polled, Orderly
<1>2. GoodStack(stack, lock) /\ Top \in Frame
      /\ Top = stack[Len(stack)] /\ Len(stack) \in DOMAIN stack
  BY <1>1, LastIsTop DEF IInv
<1>3. NoCall \notin Events /\ OnTime \notin Events /\ Sockets \cap Events = {}
  BY CallsAssumption
<1>4. Top.phase = "io" => Top.left = Cardinality(io')
  BY <1>1, <1>2 DEF Exact, IoFits
<1> DEFINE frame == [Top EXCEPT !.call = NoCall]
<1>5. frame.call = NoCall /\ frame.phase = Top.phase /\ frame.left = Top.left
  BY <1>2 DEF Frame
<1>6. CASE SocketReturns
  <2>1. stack' = SetTop(frame) /\ UNCHANGED lock /\ Top.call \notin Events
    BY <1>3, <1>6 DEF SocketReturns, list
  <2> HIDE DEF frame
  <2>2. QED
    BY <1>1, <1>3, <1>4, <1>5, <2>1, TopExact
<1>7. CASE OnTimeReturns
  <2> DEFINE again == [NextTurn(Top) EXCEPT !.rest = Top.ms, !.call = NoCall]
  <2>1. again.call = NoCall /\ again.phase = "enter"
    BY <1>2 DEF Frame, NextTurn
  <2>2. Top.call \notin Events /\ UNCHANGED lock
        /\ (stack' = Pop \/ stack' = SetTop(again))
    BY <1>3, <1>7 DEF OnTimeReturns, list
  <2> HIDE DEF again
  <2>3. QED
    BY <1>1, <1>3, <2>1, <2>2, PopExact, TopExact
<1>8. CASE EventReturns
  <2>1. PICK e \in Events : e = Top.call
    BY <1>8 DEF EventReturns
  <2>2. stack' = SetTop(frame) /\ lock' = lock \ {e}
    BY <1>8, <2>1 DEF EventReturns
  <2> HIDE DEF frame
  <2>3. Runs' = {stack[d].call : d \in DOMAIN stack \ {Len(stack)}} \cap Events
    BY <1>1, <1>2, <1>3, <1>5, <2>2, TopCalls
  <2>4. \A d \in DOMAIN stack \ {Len(stack)} : stack[d].call # e
    BY <1>2, <2>1 DEF GoodStack, CallsDiffer
  <2>5. Runs' = Runs \ {e}
    BY <1>2, <2>1, <2>3, <2>4 DEF Runs, Called
  <2>6. IoFits'
    BY <1>1, <1>4, <1>5, <2>2, TopFits DEF Exact
  <2>7. QED
    BY <2>2, <2>5, <2>6 DEF Exact, LockedWhileCalled, Runs
<1>9. QED
  BY <1>1, <1>6, <1>7, <1>8

LEMMA TickExact ==
    ASSUME IInv, Exact, Tick
    PROVE  Exact'
<1>1. stack' = [d \in DOMAIN stack |->
                  [stack[d] EXCEPT !.rest = Less1(@), !.timeout = Less1(@)]]
      /\ UNCHANGED <<lock, io>> /\ stack \in Seq(Frame)
  BY DEF Tick, list, polled, IInv, GoodStack
<1>2. Len(stack') = Len(stack) /\ DOMAIN stack' = DOMAIN stack
      /\ \A d \in DOMAIN stack :
            stack'[d].phase = stack[d].phase /\ stack'[d].call = stack[d].call
  BY TickGood DEF IInv
<1>3. \A d \in DOMAIN stack : stack'[d].left = stack[d].left
  <2> DEFINE later(frame) == [frame EXCEPT !.rest = Less1(@), !.timeout = Less1(@)]
  <2>1. \A frame \in Frame : later(frame).left = frame.left
    BY DEF Frame
  <2>2. \A d \in DOMAIN stack : stack[d] \in Frame
    <3>1. stack \in Seq(Frame) /\ DOMAIN stack = 1 .. Len(stack)
      BY DEF IInv, GoodStack
    <3>2. QED
      BY <3>1
  <2>3. stack' = [d \in DOMAIN stack |-> later(stack[d])]
    BY <1>1
  <2> HIDE DEF later
  <2>4. QED
    BY <2>1, <2>2, <2>3
<1>4. Called' = Called
  BY <1>2 DEF Called
<1>5. LockedWhileCalled'
  BY <1>1, <1>4 DEF Exact, LockedWhileCalled
<1>6. IoFits'
  BY <1>1, <1>2, <1>3 DEF Exact, IoFits
<1>7. QED
  BY <1>5, <1>6 DEF Exact

(* An event is locked exactly while its callback runs: fire locks it       *)
(* before the call and unlocks it after, whatever the callback does to the *)
(* list and however methods nest, as long as no callback raises an error   *)
(* or disturbs the sockets that are being dispatched.                      *)
THEOREM LockFollowsCall ==
    ASSUME Orderly
    PROVE  Spec => []LockedWhileCalled
<1>1. Init => Exact
  BY DEF Init, Exact, LockedWhileCalled, Called, IoFits
<1>2. IInv /\ Exact /\ [Next]_vars => Exact'
  <2> SUFFICES ASSUME IInv, Exact, [Next]_vars PROVE Exact'
    OBVIOUS
  <2>1. CASE LoopStep
    BY <2>1, PollingExact, FireNextExact DEF LoopStep
  <2>2. CASE EventReturns \/ SocketReturns \/ OnTimeReturns \/ CallbackRaises \/ PollFails
    BY <2>2, ReturnsExact, PollingExact
  <2>3. CASE UNCHANGED vars
    BY <2>3 DEF vars, list, polled, Exact, LockedWhileCalled, Called, IoFits
  <2>4. CASE Tick
    BY <2>4, TickExact
  <2>5. QED
    BY <2>1, <2>2, <2>3, <2>4, ApplicationExact, RunExact DEF Next
<1>3. Exact => LockedWhileCalled
  BY DEF Exact
<1>4. QED
  BY <1>1, <1>2, <1>3, Inductive, PTL DEF Spec

-----------------------------------------------------------------------------
(* The list of events, from which passes at several depths remove events   *)
(* that are not started.                                                   *)

Elems(s) == {s[j] : j \in 1 .. Len(s)}
Distinct(s) == \A j, k \in 1 .. Len(s) : s[j] = s[k] => j = k

LEMMA RemoveAtIs ==
    ASSUME NEW S, NEW s \in Seq(S), NEW i \in 1 .. Len(s)
    PROVE  /\ RemoveAt(s, i) \in Seq(S) /\ Len(RemoveAt(s, i)) = Len(s) - 1
           /\ \A j \in 1 .. i - 1 : RemoveAt(s, i)[j] = s[j]
           /\ \A j \in i .. Len(s) - 1 : RemoveAt(s, i)[j] = s[j + 1]
<1> DEFINE n == Len(s)
           u == SubSeq(s, 1, i - 1)
           v == SubSeq(s, i + 1, n)
           w == u \o v
<1>1. n \in Nat /\ i \in Nat /\ 1 <= i /\ i <= n
      /\ \A j \in 1 .. n : s[j] \in S
  BY LenProperties
<1>2. /\ u \in Seq(S) /\ Len(u) = i - 1
      /\ \A j \in 1 .. i - 1 : u[j] = s[j]
  <2>1. /\ 1 \in 1 .. Len(s) + 1 /\ i - 1 \in 1 - 1 .. Len(s)
        /\ (i - 1) - 1 + 1 = i - 1
    BY <1>1
  <2>2. \A j \in 1 .. i - 1 : 1 + j - 1 = j
    BY <1>1
  <2> QED
    BY <2>1, <2>2, SubSeqProperties
<1>3. /\ v \in Seq(S) /\ Len(v) = n - i
      /\ \A j \in 1 .. n - i : v[j] = s[i + j]
  <2>1. /\ i + 1 \in Int /\ n \in Int /\ \A k \in i + 1 .. n : s[k] \in S
        /\ (IF i + 1 <= n THEN n - (i + 1) + 1 ELSE 0) = n - i
        /\ n - (i + 1) + 1 = n - i
    BY <1>1
  <2>2. /\ v \in Seq(S) /\ Len(v) = IF i + 1 <= n THEN n - (i + 1) + 1 ELSE 0
        /\ \A j \in 1 .. n - (i + 1) + 1 : v[j] = s[(i + 1) + j - 1]
    <3>1. \A m, k \in Int : (\A j \in m .. k : s[j] \in S) =>
            /\ SubSeq(s, m, k) \in Seq(S)
            /\ Len(SubSeq(s, m, k)) = IF m <= k THEN k - m + 1 ELSE 0
            /\ \A j \in 1 .. k - m + 1 : SubSeq(s, m, k)[j] = s[m + j - 1]
      BY SubSeqProperties
    <3> QED
      BY <2>1, <3>1, Zenon
  <2>3. \A j \in 1 .. n - i : (i + 1) + j - 1 = i + j
    BY <1>1
  <2> HIDE DEF n, v
  <2> QED
    BY <2>1, <2>2, <2>3
<1> HIDE DEF u, v
<1>4. /\ w \in Seq(S) /\ Len(w) = Len(u) + Len(v)
      /\ \A j \in 1 .. Len(u) + Len(v) :
            w[j] = IF j <= Len(u) THEN u[j] ELSE v[j - Len(u)]
  BY <1>2, <1>3, ConcatProperties
<1> HIDE DEF w, n
<1>5. Len(u) + Len(v) = n - 1
  BY <1>1, <1>2, <1>3
<1>6. ASSUME NEW j \in 1 .. i - 1
      PROVE  w[j] = s[j]
  <2>1. j \in 1 .. n - 1 /\ j <= i - 1
    BY <1>1
  <2> QED
    BY <1>2, <1>4, <1>5, <2>1
<1>7. ASSUME NEW j \in i .. n - 1
      PROVE  w[j] = s[j + 1]
  <2>1. /\ j \in 1 .. n - 1 /\ ~(j <= i - 1) /\ j - (i - 1) \in 1 .. n - i
        /\ i + (j - (i - 1)) = j + 1
    BY <1>1
  <2>2. w[j] = v[j - (i - 1)]
    BY <1>2, <1>4, <1>5, <2>1
  <2>3. v[j - (i - 1)] = s[i + (j - (i - 1))]
    BY <1>3, <2>1
  <2> QED
    BY <2>1, <2>2, <2>3
<1> QED
  BY <1>4, <1>5, <1>6, <1>7 DEF w, u, v, n, RemoveAt

(* The others stay, each once.                                             *)
LEMMA RemoveAtKeeps ==
    ASSUME NEW S, NEW s \in Seq(S), NEW i \in 1 .. Len(s), Distinct(s)
    PROVE  /\ Distinct(RemoveAt(s, i))
           /\ Elems(s) \ {s[i]} \subseteq Elems(RemoveAt(s, i))
<1> DEFINE n == Len(s)
           w == RemoveAt(s, i)
           f(j) == IF j < i THEN j ELSE j + 1
<1>1. n \in Nat /\ i \in Nat /\ 1 <= i /\ i <= n
  BY LenProperties
<1>2. /\ Len(w) = n - 1
      /\ \A j \in 1 .. i - 1 : w[j] = s[j]
      /\ \A j \in i .. n - 1 : w[j] = s[j + 1]
  BY RemoveAtIs
<1> HIDE DEF w, n
<1>3. ASSUME NEW j \in 1 .. n - 1
      PROVE  w[j] = s[f(j)] /\ f(j) \in 1 .. n
  <2>1. CASE j < i
    <3>1. j \in 1 .. i - 1 /\ j \in 1 .. n
      BY <1>1, <2>1
    <3> QED
      BY <1>2, <2>1, <3>1
  <2>2. CASE ~(j < i)
    <3>1. j \in i .. n - 1 /\ j + 1 \in 1 .. n
      BY <1>1, <2>2
    <3> QED
      BY <1>2, <2>2, <3>1
  <2> QED
    BY <2>1, <2>2
<1>4. \A j, k \in 1 .. n - 1 : f(j) = f(k) => j = k
  <2> SUFFICES ASSUME NEW j \in 1 .. n - 1, NEW k \in 1 .. n - 1, f(j) = f(k)
               PROVE  j = k
    OBVIOUS
  <2>1. CASE j < i /\ k < i
    BY <2>1
  <2>2. CASE j < i /\ ~(k < i)
    BY <1>1, <2>2
  <2>3. CASE ~(j < i) /\ k < i
    BY <1>1, <2>3
  <2>4. CASE ~(j < i) /\ ~(k < i)
    BY <1>1, <2>4
  <2> QED
    BY <2>1, <2>2, <2>3, <2>4
<1>5. Distinct(w)
  <2> SUFFICES ASSUME NEW j \in 1 .. n - 1, NEW k \in 1 .. n - 1, w[j] = w[k]
               PROVE  j = k
    BY <1>2 DEF Distinct
  <2>1. /\ s[f(j)] = s[f(k)] /\ f(j) \in 1 .. Len(s) /\ f(k) \in 1 .. Len(s)
    BY <1>3 DEF n
  <2> HIDE DEF f
  <2>2. f(j) = f(k)
    BY <2>1 DEF Distinct
  <2> QED
    BY <1>4, <2>2
<1>6. ASSUME NEW k \in 1 .. n, s[k] # s[i]
      PROVE  s[k] \in Elems(w)
  <2>1. CASE k < i
    <3>1. k \in 1 .. i - 1 /\ k \in 1 .. n - 1
      BY <1>1, <2>1
    <3>2. w[k] = s[k] /\ k \in 1 .. Len(w)
      BY <1>2, <3>1
    <3> QED
      BY <3>2 DEF Elems
  <2>2. CASE ~(k < i)
    <3>1. k # i
      BY <1>6
    <3>2. k - 1 \in i .. n - 1 /\ (k - 1) + 1 = k /\ k - 1 \in 1 .. n - 1
      BY <1>1, <2>2, <3>1
    <3>3. w[k - 1] = s[k] /\ k - 1 \in 1 .. Len(w)
      BY <1>2, <3>2
    <3> QED
      BY <3>3 DEF Elems
  <2> QED
    BY <2>1, <2>2
<1> QED
  BY <1>5, <1>6 DEF Elems, w, n

(* One turn of the loop of purge, on the list that the turns before left.  *)
Turn(left, n) ==
    IF n = 0 THEN events
    ELSE IF Kept(events[Len(events) - n + 1]) THEN left[n - 1]
    ELSE RemoveAt(left[n - 1], Len(events) - n + 1)

LEMMA TurnsDefined ==
    ASSUME NEW L \in Nat
    PROVE  \A m \in 0 .. L : \E f : f = [n \in 0 .. m |-> Turn(f, n)]
<1> DEFINE P(m) == \E f : f = [n \in 0 .. m |-> Turn(f, n)]
           T == {m \in 0 .. L : ~P(m)}
<1>1. P(0)
  <2> DEFINE f == [n \in 0 .. 0 |-> events]
  <2>1. \A n \in 0 .. 0 : Turn(f, n) = events
    BY DEF Turn
  <2>2. f = [n \in 0 .. 0 |-> Turn(f, n)]
    BY <2>1
  <2> QED
    BY <2>2
<1>2. ASSUME NEW m \in Nat, P(m)
      PROVE  P(m + 1)
  <2>1. PICK f : f = [n \in 0 .. m |-> Turn(f, n)]
    BY <1>2
  <2> DEFINE g == [n \in 0 .. m + 1 |-> IF n = m + 1 THEN Turn(f, m + 1) ELSE f[n]]
  <2>2. \A n \in 0 .. m : g[n] = f[n] /\ n \in 0 .. m + 1
    OBVIOUS
  <2>3. g[m + 1] = Turn(f, m + 1)
    OBVIOUS
  <2>4. ASSUME NEW n \in 0 .. m + 1
        PROVE  g[n] = Turn(g, n)
    <3>1. Turn(g, n) = Turn(f, n)
      <4>1. CASE n = 0
        BY <4>1 DEF Turn
      <4>2. CASE n # 0
        <5>1. n - 1 \in 0 .. m
          BY <4>2
        <5>2. g[n - 1] = f[n - 1]
          BY <2>2, <5>1
        <5> HIDE DEF g
        <5> QED
          BY <5>2 DEF Turn
      <4> QED
        BY <4>1, <4>2
    <3>2. CASE n = m + 1
      BY <2>3, <3>1, <3>2
    <3>3. CASE n # m + 1
      <4>1. n \in 0 .. m
        BY <3>3
      <4>2. f[n] = Turn(f, n)
        BY <2>1, <4>1
      <4> QED
        BY <2>2, <3>1, <4>1, <4>2
    <3> QED
      BY <3>2, <3>3
  <2>5. g = [n \in 0 .. m + 1 |-> g[n]]
    OBVIOUS
  <2> HIDE DEF g
  <2>6. g = [n \in 0 .. m + 1 |-> Turn(g, n)]
    BY <2>4, <2>5
  <2> QED
    BY <2>6
<1> HIDE DEF P
<1>3. T = {}
  <2> SUFFICES ASSUME T # {} PROVE FALSE
    OBVIOUS
  <2>1. T \subseteq Nat
    OBVIOUS
  <2>2. PICK m \in T : \A k \in T : m <= k
    BY <2>1, HasMinimum
  <2>3. m \in Nat /\ m <= L /\ ~P(m) /\ m # 0
    BY <1>1, <2>2
  <2>4. m - 1 \in 0 .. L /\ ~(m <= m - 1) /\ (m - 1) + 1 = m /\ m - 1 \in Nat
    BY <2>3
  <2>5. P(m - 1)
    BY <2>2, <2>4
  <2> QED
    BY <1>2, <2>3, <2>4, <2>5
<1>4. \A m \in 0 .. L : P(m)
  BY <1>3
<1> QED
  BY <1>4 DEF P

LEMMA PurgedIs ==
    ASSUME NEW S, events \in Seq(S)
    PROVE  \E f : /\ \A n \in 0 .. Len(events) : f[n] = Turn(f, n)
                  /\ Purged = f[Len(events)]
<1> DEFINE L == Len(events)
           f == CHOOSE left : left = [n \in 0 .. L |-> Turn(left, n)]
<1>1. L \in Nat
  BY LenProperties
<1>2. Purged = f[L]
  BY DEF Purged, Turn
<1>3. L \in 0 .. L
  BY <1>1
<1>4. \E left : left = [n \in 0 .. L |-> Turn(left, n)]
  BY <1>1, <1>3, TurnsDefined
<1>5. f = [n \in 0 .. L |-> Turn(f, n)]
  BY <1>4
<1> HIDE DEF f
<1>6. \A n \in 0 .. L : f[n] = Turn(f, n)
  BY <1>5
<1> QED
  BY <1>2, <1>6

(* purge keeps what it should, in its place, and each event once.          *)
LEMMA PurgeKeeps ==
    ASSUME NEW S, events \in Seq(S), Distinct(events)
    PROVE  /\ Purged \in Seq(S) /\ Distinct(Purged)
           /\ {e \in Elems(events) : Kept(e)} \subseteq Elems(Purged)
<1> DEFINE L == Len(events)
<1>1. PICK f : /\ \A n \in 0 .. L : f[n] = Turn(f, n)
               /\ Purged = f[L]
  BY PurgedIs
<1>2. L \in Nat
  BY LenProperties
<1> DEFINE keep == {e \in Elems(events) : Kept(e)}
           Q(s, n) == /\ s \in Seq(S) /\ Distinct(s) /\ keep \subseteq Elems(s)
                      /\ L - n <= Len(s)
                      /\ \A i \in 1 .. L - n : s[i] = events[i]
           T == {n \in 0 .. L : ~Q(f[n], n)}
<1>3. Q(f[0], 0)
  <2>1. f[0] = events
    BY <1>1, <1>2 DEF Turn
  <2>2. L - 0 = L /\ L <= L
    BY <1>2
  <2> QED
    BY <2>1, <2>2
<1>4. ASSUME NEW n \in Nat, n + 1 <= L, Q(f[n], n)
      PROVE  Q(f[n + 1], n + 1)
  <2> DEFINE i == L - n
  <2>1. PICK s : s = f[n]
    OBVIOUS
  <2>2. /\ s \in Seq(S) /\ Distinct(s) /\ keep \subseteq Elems(s)
        /\ i <= Len(s) /\ \A j \in 1 .. i : s[j] = events[j]
    BY <1>4, <2>1
  <2>3. /\ i \in Nat /\ 1 <= i /\ i <= L /\ L - (n + 1) = i - 1
        /\ L - (n + 1) + 1 = i
    BY <1>2, <1>4
  <2>4. Len(s) \in Nat /\ i \in 1 .. Len(s) /\ i \in 1 .. i
    BY <2>2, <2>3, LenProperties
  <2>5. f[n + 1] = IF Kept(events[i]) THEN s ELSE RemoveAt(s, i)
    <3>1. n + 1 \in 0 .. L /\ n + 1 # 0 /\ (n + 1) - 1 = n
      BY <1>2, <1>4
    <3> HIDE DEF L
    <3>2. f[n + 1] = Turn(f, n + 1)
      BY <1>1, <3>1
    <3> QED
      BY <2>1, <2>3, <3>1, <3>2 DEF Turn, L
  <2>6. s[i] = events[i]
    BY <2>2, <2>4
  <2> HIDE DEF L, i, keep
  <2>7. CASE Kept(events[i])
    <3>1. f[n + 1] = s
      BY <2>5, <2>7
    <3>2. i - 1 <= Len(s) /\ \A j \in 1 .. i - 1 : j \in 1 .. i
      BY <2>3, <2>4
    <3> QED
      BY <2>2, <2>3, <3>1, <3>2
  <2>8. CASE ~Kept(events[i])
    <3>1. f[n + 1] = RemoveAt(s, i)
      BY <2>5, <2>8
    <3> DEFINE w == RemoveAt(s, i)
    <3>2. /\ w \in Seq(S) /\ Len(w) = Len(s) - 1
          /\ \A j \in 1 .. i - 1 : w[j] = s[j]
      BY <2>2, <2>4, RemoveAtIs
    <3>3. Distinct(w) /\ Elems(s) \ {s[i]} \subseteq Elems(w)
      BY <2>2, <2>4, RemoveAtKeeps
    <3> HIDE DEF w
    <3>4. s[i] \notin keep
      BY <2>6, <2>8 DEF keep
    <3>5. i - 1 <= Len(s) - 1 /\ \A j \in 1 .. i - 1 : j \in 1 .. i
      BY <2>3, <2>4
    <3>6. keep \subseteq Elems(w)
      BY <2>2, <3>3, <3>4
    <3> QED
      BY <2>2, <2>3, <3>1, <3>2, <3>3, <3>5, <3>6 DEF w
  <2> QED
    BY <2>7, <2>8
<1> HIDE DEF Q, L
<1>5. T = {}
  <2> SUFFICES ASSUME T # {} PROVE FALSE
    OBVIOUS
  <2>1. T \subseteq Nat
    OBVIOUS
  <2>2. PICK m \in T : \A k \in T : m <= k
    BY <2>1, HasMinimum
  <2>3. m \in Nat /\ m <= L /\ ~Q(f[m], m) /\ m # 0
    BY <1>2, <1>3, <2>2
  <2>4. m - 1 \in 0 .. L /\ ~(m <= m - 1) /\ (m - 1) + 1 = m /\ m - 1 \in Nat
    BY <1>2, <2>3
  <2>5. Q(f[m - 1], m - 1)
    BY <2>2, <2>4
  <2> QED
    BY <1>4, <2>3, <2>4, <2>5
<1>6. Q(f[L], L)
  <2>1. L \in 0 .. L
    BY <1>2
  <2> QED
    BY <1>5, <2>1
<1> QED
  BY <1>1, <1>6 DEF Q, keep

ListInv ==
    /\ events \in Seq(Made)
    /\ Distinct(events)
    /\ "rearm" \notin Uses /\ life = "alive" => started \subseteq Elems(events)
    /\ interrupted \in BOOLEAN
    /\ life \in {"alive", "broken", "gone"}

LEMMA ListKeeps ==
    ASSUME ListInv, UNCHANGED <<events, made, life>>, interrupted' \in BOOLEAN,
           "rearm" \notin Uses => started' \subseteq started
    PROVE  ListInv'
BY DEF ListInv, Made

LEMMA InitListed == Init => ListInv
<1> SUFFICES ASSUME Init PROVE ListInv
  OBVIOUS
<1>1. <<>> \in Seq(Made) /\ Len(<<>>) = 0
  OBVIOUS
<1>2. events = <<>> /\ started = {} /\ interrupted = FALSE /\ life = "alive"
  BY DEF Init
<1>3. events \in Seq(Made) /\ Distinct(events)
  BY <1>1, <1>2 DEF Distinct
<1>4. interrupted \in BOOLEAN
  BY <1>2
<1> QED
  BY <1>2, <1>3, <1>4 DEF ListInv

LEMMA TimersListed ==
    ASSUME IInv, ListInv,
           \/ \E t \in Intervals, o \in BOOLEAN :
                 AddEvent(t, o) \/ \E e \in Events : SetInterval(e, t, o)
           \/ \E e \in Events : Reset(e) \/ Restart(e)
    PROVE  ListInv'
<1>1. ASSUME NEW t \in Intervals, NEW o \in BOOLEAN, AddEvent(t, o)
      PROVE  ListInv'
  <2>1. /\ UNCHANGED <<interrupted, life>> /\ made' = made + 1 /\ made \in Nat
        /\ events' = Append(events, made + 1) /\ started' = started \cup {made + 1}
    BY <1>1, BoundsAssumption DEF AddEvent, Arm, IInv, Types
  <2>2. events \in Seq(Made) /\ Distinct(events) /\ Len(events) \in Nat
        /\ \A i \in 1 .. Len(events) : events[i] \in Made
    BY LenProperties DEF ListInv
  <2>3. Made' = Made \cup {made + 1} /\ made + 1 \notin Made
    BY <2>1 DEF Made
  <2>4. events \in Seq(Made')
    <3>1. DOMAIN events = 1 .. Len(events) /\ events \in [1 .. Len(events) -> Made]
      BY <2>2
    <3>2. events \in [1 .. Len(events) -> Made']
      BY <2>3, <3>1
    <3> QED
      BY <2>2, <3>2
  <2>5. /\ events' \in Seq(Made') /\ Len(events') = Len(events) + 1
        /\ events'[Len(events) + 1] = made + 1
        /\ \A i \in 1 .. Len(events) : events'[i] = events[i]
    BY <2>1, <2>3, <2>4, AppendProperties
  <2>6. /\ 1 .. Len(events) + 1 = (1 .. Len(events)) \cup {Len(events) + 1}
        /\ Len(events) + 1 \notin 1 .. Len(events)
    BY <2>2
  <2>7. Distinct(events')
    BY <2>2, <2>3, <2>5, <2>6 DEF Distinct
  <2>8. Elems(events') = Elems(events) \cup {made + 1}
    BY <2>5, <2>6 DEF Elems
  <2> QED
    BY <2>1, <2>5, <2>7, <2>8 DEF ListInv
<1>2. ASSUME NEW t \in Intervals, NEW o \in BOOLEAN, NEW e \in Events,
             SetInterval(e, t, o)
      PROVE  ListInv'
  BY <1>2, ListKeeps DEF SetInterval, Arm, list, ListInv
<1>3. ASSUME NEW e \in Events, Reset(e) \/ Restart(e)
      PROVE  ListInv'
  BY <1>3, ListKeeps DEF Reset, Restart, Rewind, Disarm, list, ListInv
<1> QED
  BY <1>1, <1>2, <1>3

LEMMA PassesListed ==
    ASSUME IInv, ListInv, FireNext \/ PassEnds \/ EventReturns
    PROVE  ListInv'
<1>1. events \in Seq(Made) /\ Distinct(events)
  BY DEF ListInv
<1>2. CASE FireNext
  <2> DEFINE i == Top.i + 1
  <2>1. /\ UNCHANGED <<timers, made, interrupted, life>> /\ i <= Len(events)
        /\ \/ events' = events
           \/ events' = RemoveAt(events, i) /\ events[i] \notin lock \cup started
    BY <1>2 DEF FireNext
  <2>2. CASE events' = events
    BY <2>1, <2>2, ListKeeps DEF timers, ListInv
  <2>3. CASE events' = RemoveAt(events, i) /\ events[i] \notin started
    <3>1. Running
      BY <1>2 DEF FireNext, LoopCode
    <3>2. Top.i \in Nat /\ Len(events) \in Nat
      BY <1>1, <3>1, LastIsTop, LenProperties DEF IInv, Frame
    <3>3. i \in 1 .. Len(events)
      BY <2>1, <3>2
    <3> HIDE DEF i
    <3>4. events' \in Seq(Made)
      BY <1>1, <2>3, <3>3, RemoveAtIs
    <3>5. Distinct(events') /\ Elems(events) \ {events[i]} \subseteq Elems(events')
      BY <1>1, <2>3, <3>3, RemoveAtKeeps
    <3> QED
      BY <2>1, <2>3, <3>4, <3>5 DEF ListInv, timers, Made
  <2> QED
    BY <2>1, <2>2, <2>3
<1>3. CASE PassEnds
  <2>1. UNCHANGED <<timers, made, interrupted, life>> /\ events' = Purged
    BY <1>3 DEF PassEnds
  <2>2. /\ Purged \in Seq(Made) /\ Distinct(Purged)
        /\ {e \in Elems(events) : Kept(e)} \subseteq Elems(Purged)
    BY <1>1, PurgeKeeps
  <2> QED
    BY <2>1, <2>2 DEF ListInv, Kept, timers, Made
<1>4. CASE EventReturns
  <2>1. UNCHANGED <<events, made, interrupted, life>> /\ started' \subseteq started
    BY <1>4 DEF EventReturns, Rewind, Disarm, timers
  <2> QED
    BY <2>1, ListKeeps DEF ListInv
<1> QED
  BY <1>2, <1>3, <1>4

LEMMA OthersListed ==
    ASSUME IInv, ListInv,
           \/ \E s \in Sockets : AddSocket(s) \/ RemoveSocket(s) \/ CloseSocket(s)
           \/ Interrupt \/ Destroy
           \/ \E op \in {"start", "sleep", "poll", "flush"}, t \in Waits : Run(op, t)
           \/ Enter \/ PollReturns \/ DispatchSocket \/ SocketsDone
           \/ PollFails \/ SocketReturns \/ OnTimeReturns \/ CallbackRaises
           \/ Tick \/ UNCHANGED vars
    PROVE  ListInv'
<1>1. CASE Destroy
  <2>1. /\ events' = <<>> /\ UNCHANGED <<timers, made, interrupted>>
        /\ life' \in {"gone", "broken"}
    BY <1>1 DEF Destroy
  <2>2. <<>> \in Seq(Made') /\ Len(<<>>) = 0
    OBVIOUS
  <2> QED
    BY <2>1, <2>2 DEF ListInv, Distinct
<1>2. CASE ~Destroy
  <2>1. UNCHANGED <<events, made, life, started>>
    BY <1>2 DEF AddSocket, RemoveSocket, CloseSocket, Interrupt, Run, Enter,
       PollReturns, DispatchSocket, SocketsDone, PollFails, SocketReturns,
       OnTimeReturns, CallbackRaises, Tick, vars, timers, list
  <2>2. interrupted' \in BOOLEAN
    <3>1. interrupted \in BOOLEAN
      BY DEF ListInv
    <3>2. \/ interrupted' = interrupted \/ interrupted' = TRUE
          \/ interrupted' = (interrupted \/ Top.op # "flush")
      BY <1>2 DEF AddSocket, RemoveSocket, CloseSocket, Interrupt, Run, Enter,
         PollReturns, DispatchSocket, SocketsDone, PollFails, SocketReturns,
         OnTimeReturns, CallbackRaises, Tick, vars
    <3> QED
      BY <3>1, <3>2
  <2> QED
    BY <2>1, <2>2, ListKeeps
<1> QED
  BY <1>1, <1>2

LEMMA NextListed == IInv /\ ListInv /\ [Next]_vars => ListInv'
<1> SUFFICES ASSUME IInv, ListInv, [Next]_vars PROVE ListInv'
  OBVIOUS
<1>1. CASE LoopStep
  BY <1>1, PassesListed, OthersListed DEF LoopStep
<1> QED
  BY <1>1, TimersListed, PassesListed, OthersListed DEF Next

LEMMA ListedInductive == Spec => []ListInv
BY InitListed, NextListed, Inductive, PTL DEF Spec

(* The types: the stack holds frames and the list events that were made,   *)
(* for any nesting and any use, although passes at several depths and      *)
(* purge take events out of the list by index (loop.lua:162-226).          *)
THEOREM TypesAreRight == Spec => []TypeOK
<1>1. IInv /\ ListInv => TypeOK
  BY DEF IInv, ListInv, Types, GoodStack, TypeOK, ListType, ControlType
<1> QED
  BY <1>1, Inductive, ListedInductive, PTL

(* No event that is started is lost from the list, and none is in it       *)
(* twice, whatever nested passes and purge remove while an outer pass is   *)
(* at an index of it (event_list:fire and purge, loop.lua:162-226), unless *)
(* an event that has fired for the last time is started anew.              *)
THEOREM NoEventLost ==
    ASSUME "rearm" \notin Uses
    PROVE  Spec => []StartedIsListed
<1>1. ListInv => StartedIsListed
  <2> SUFFICES ASSUME ListInv PROVE StartedIsListed
    OBVIOUS
  <2>1. DOMAIN events = 1 .. Len(events)
    BY LenProperties DEF ListInv
  <2> QED
    BY <2>1 DEF ListInv, StartedIsListed, Listed, Elems, Distinct
<1> QED
  BY <1>1, ListedInductive, PTL
=============================================================================
