----------------------------- MODULE EventLoop -----------------------------
(***************************************************************************)
(* The event loop of impl/loop.lua: timed events, sockets polled by a      *)
(* poller, and the methods that wait and dispatch.                         *)
(*                                                                         *)
(* A callback gets the loop and may call it again: sleep_ex, flush, poll   *)
(* and start run nested, walk the same list of events and change it under  *)
(* the pass that is waiting for the callback.  A running method is a frame *)
(* of `stack'; application code runs below the frames and in the callback  *)
(* of the topmost one.                                                     *)
(*                                                                         *)
(* Time is relative.  The timer of an event and the waits of the loop are  *)
(* what is left of them, and Tick takes one unit off all of them, at any   *)
(* moment.  Sockets stand for what Reactor promises of the poller: a poll  *)
(* finds the ready sockets and dispatches each, unless it is removed; what *)
(* the poller has left to dispatch is shared by nested polls, since the    *)
(* poller has one cursor.                                                  *)
(***************************************************************************)
EXTENDS Integers, FiniteSets, Sequences

CONSTANTS MaxEvents,  \* bound: events created
          Sockets,    \* sockets and descriptors
          Intervals,  \* intervals given to events
          Waits,      \* intervals given to start, sleep_ex, poll and flush
          NoCall,     \* no callback is running
          OnTime,     \* the function given to start
          MaxDepth,   \* bound: methods of the loop nested in callbacks
          Uses        \* what the application does beyond the simplest use

(* "raise":   a callback raises an error                                   *)
(* "nestedIo": the callback of a socket runs the loop                      *)
(* "others":  a callback removes a socket that is due to be dispatched     *)
(* "rearm":   an event that is not started is given an interval            *)
(* "close":   a socket of the loop is closed                               *)
AllUses == {"raise", "nestedIo", "others", "rearm", "close"}

(* The time_event objects, in the order of their creation.                 *)
Events == 1 .. MaxEvents

ASSUME CallsAssumption ==
    /\ Events \cap Sockets = {}
    /\ {NoCall, OnTime} \cap (Events \cup Sockets) = {}
    /\ NoCall # OnTime

ASSUME SocketsAssumption == IsFiniteSet(Sockets)

ASSUME TimeAssumption == Intervals \subseteq Nat /\ Waits \subseteq Nat

ASSUME BoundsAssumption == MaxEvents \in Nat /\ MaxDepth \in Nat

ASSUME UsesAssumption == Uses \subseteq AllUses

VARIABLES
    events,       \* event_list: the events, in the order they were added
    made,         \* how many events were created
    started,      \* events whose timer is started
    rest,         \* timer:rest() of an event that is started
    interval,     \* what the timer was last started with
    once,         \* events that are stopped when they fired
    lock,         \* events that are locked
    sockets,      \* the sockets of the loop, registered in its poller
    closed,       \* sockets that are closed
    io,           \* what the poller has still to dispatch
    interrupted,  \* interrupt() was called
    life,         \* "alive", "gone" or, when destroy failed, "broken"
    stack         \* the running methods of the loop, innermost last

timers == <<started, rest, interval, once>>
list == <<events, made, lock>>
polled == <<sockets, closed, io>>
vars == <<timers, list, polled, interrupted, life, stack>>

-----------------------------------------------------------------------------
(* Timers.                                                                 *)

Arm(e, t, o) ==
    /\ started' = started \cup {e}
    /\ rest' = [rest EXCEPT ![e] = t]
    /\ interval' = [interval EXCEPT ![e] = t]
    /\ once' = IF o THEN once \cup {e} ELSE once \ {e}

Disarm(e) ==
    /\ started' = started \ {e}
    /\ rest' = [rest EXCEPT ![e] = 0]
    /\ UNCHANGED <<interval, once>>

(* time_event:restart()                                                    *)
Rewind(e) ==
    IF e \in once
    THEN Disarm(e)
    ELSE /\ started' = started \cup {e}
         /\ rest' = [rest EXCEPT ![e] = interval[e]]
         /\ UNCHANGED <<interval, once>>

Less1(n) == IF n = 0 THEN 0 ELSE n - 1

-----------------------------------------------------------------------------
(* The list of events.                                                     *)

Listed == {events[i] : i \in DOMAIN events}

(* event_list:sleep_interval(n): how long a poll may wait.                 *)
SleepInterval_FirstOnly(n) ==
    LET first == {e \in (Listed \cap started) \ lock : e = events[1]}
        limits == {n} \cup {rest[e] : e \in first}
    IN  CHOOSE m \in limits : \A k \in limits : m <= k
SleepInterval_Forever(n) ==
    LET limits == {rest[e] : e \in (Listed \cap started) \ lock}
    IN  IF limits = {} THEN -1
        ELSE CHOOSE m \in limits : \A k \in limits : m <= k
SleepInterval(n) ==
    LET limits == {n} \cup {rest[e] : e \in (Listed \cap started) \ lock}
    IN  CHOOSE m \in limits : \A k \in limits : m <= k

RemoveAt(s, i) == SubSeq(s, 1, i - 1) \o SubSeq(s, i + 1, Len(s))

(* event_list:purge(), which goes through the list from its end.           *)
Kept(e) == e \in lock \/ e \in started
Purged ==
    LET left[n \in 0 .. Len(events)] ==
          IF n = 0 THEN events
          ELSE IF Kept(events[Len(events) - n + 1]) THEN left[n - 1]
          ELSE RemoveAt(left[n - 1], Len(events) - n + 1)
    IN  left[Len(events)]

-----------------------------------------------------------------------------
(* Control.                                                                *)

Frame == [op : {"start", "sleep", "poll", "flush"},
          phase : {"enter", "wait", "io", "fire", "time"},
          ms : Nat,        \* what start passes to sleep_ex
          rest : Nat,      \* what is left of the method's interval
          timeout : Nat,   \* what is left of the poll's timeout
          left : Nat,      \* sockets poller:poll has to dispatch
          i : Nat,         \* index of the pass through the events
          call : Events \cup Sockets \cup {NoCall, OnTime}]

NewFrame(op, ms) ==
    [op |-> op, phase |-> IF op = "flush" THEN "wait" ELSE "enter",
     ms |-> IF op = "start" THEN ms ELSE 0, rest |-> ms,
     timeout |-> 0, left |-> 0, i |-> 0, call |-> NoCall]

Top == stack[Len(stack)]
Pop == SubSeq(stack, 1, Len(stack) - 1)
SetTop(frame) == [stack EXCEPT ![Len(stack)] = frame]

Running == stack # <<>>
InCallback == Running /\ Top.call # NoCall
AppCode == life = "alive" /\ (Running => InCallback)
LoopCode(phase) == Running /\ ~InCallback /\ Top.phase = phase

Called == {stack[d].call : d \in DOMAIN stack}

(* A method of the loop between two polls: another turn, or it returns.    *)
NextTurn(frame) ==
    [frame EXCEPT !.phase = "enter", !.timeout = 0, !.left = 0, !.i = 0]

EndTurn ==
    IF Top.op = "poll" THEN Pop
    ELSE IF Top.rest > 0 THEN SetTop(NextTurn(Top))
    ELSE IF Top.op = "start"
         THEN SetTop([NextTurn(Top) EXCEPT !.phase = "time", !.call = OnTime])
    ELSE Pop

(* A Lua error unwinds to a pcall of the application.                      *)
Unwind == \E d \in 0 .. Len(stack) - 1 : stack' = SubSeq(stack, 1, d)

-----------------------------------------------------------------------------
Init ==
    /\ events = << >> /\ made = 0 /\ lock = {}
    /\ started = {} /\ once = {}
    /\ rest = [e \in Events |-> 0]
    /\ interval = [e \in Events |-> 0]
    /\ sockets = {} /\ closed = {} /\ io = {}
    /\ interrupted = FALSE
    /\ life = "alive"
    /\ stack = << >>

(* loop:add_interval(t, fn); loop:add_once and loop:add_time when o.       *)
AddEvent(t, o) ==
    /\ AppCode
    /\ made < MaxEvents
    /\ made' = made + 1
    /\ events' = Append(events, made + 1)
    /\ Arm(made + 1, t, o)
    /\ UNCHANGED <<lock, polled, interrupted, life, stack>>

(* ev:set_interval(t); ev:set_interval_once and ev:set_time when o.        *)
SetInterval(e, t, o) ==
    /\ AppCode
    /\ e <= made
    /\ e \notin started => "rearm" \in Uses
    /\ Arm(e, t, o)
    /\ UNCHANGED <<list, polled, interrupted, life, stack>>

(* ev:reset(), which fails on a timer that is not started.                 *)
Reset(e) ==
    /\ AppCode
    /\ e \in started
    /\ Disarm(e)
    /\ UNCHANGED <<list, polled, interrupted, life, stack>>

(* ev:restart()                                                            *)
Restart(e) ==
    /\ AppCode
    /\ e <= made
    /\ e \notin started => "rearm" \in Uses
    /\ Rewind(e)
    /\ UNCHANGED <<list, polled, interrupted, life, stack>>

(* loop:add_socket(skt, fn)                                                *)
AddSocket(s) ==
    /\ AppCode
    /\ s \notin sockets \cup closed
    /\ sockets' = sockets \cup {s}
    /\ UNCHANGED <<timers, list, closed, io, interrupted, life, stack>>

(* loop:remove_socket(skt)                                                 *)
RemoveSocket(s) ==
    /\ AppCode
    /\ s \in sockets \ closed
    /\ s \in io => "others" \in Uses
    /\ sockets' = sockets \ {s}
    /\ io' = io \ {s}
    /\ UNCHANGED <<timers, list, closed, interrupted, life, stack>>

(* skt:close() by the application.                                         *)
CloseSocket(s) ==
    /\ AppCode
    /\ s \notin closed
    /\ s \in sockets => "close" \in Uses
    /\ closed' = closed \cup {s}
    /\ UNCHANGED <<timers, list, sockets, io, interrupted, life, stack>>

(* loop:interrupt()                                                        *)
Interrupt ==
    /\ AppCode
    /\ interrupted' = TRUE
    /\ UNCHANGED <<timers, list, polled, life, stack>>

(* loop:destroy(): the list of events goes first, then every socket is     *)
(* taken from the poller, which raises an error for a socket that is       *)
(* closed already, and is closed.                                          *)
Destroy ==
    /\ AppCode /\ ~Running
    /\ events' = << >>
    /\ \E done \in SUBSET (sockets \ closed) :
          /\ sockets \cap closed = {} => done = sockets
          /\ closed' = closed \cup done
    /\ life' = IF sockets \cap closed = {} THEN "gone" ELSE "broken"
    /\ UNCHANGED <<timers, made, lock, sockets, io, interrupted, stack>>

-----------------------------------------------------------------------------
(* Running the loop.                                                       *)

InIo == \E d \in DOMAIN stack : stack[d].phase = "io"

(* loop:start(t, fn), loop:sleep_ex(t), loop:poll(t), loop:flush(t); they  *)
(* return at once when the loop is interrupted.                            *)
Run_Resumes(op, t) ==
    /\ AppCode
    /\ InIo => "nestedIo" \in Uses
    /\ Len(stack) < MaxDepth
    /\ interrupted' = FALSE
    /\ stack' = Append(stack, NewFrame(op, t))
    /\ UNCHANGED <<timers, list, polled, life>>
Run(op, t) ==
    /\ AppCode
    /\ ~interrupted
    /\ InIo => "nestedIo" \in Uses
    /\ Len(stack) < MaxDepth
    /\ stack' = Append(stack, NewFrame(op, t))
    /\ UNCHANGED <<timers, list, polled, interrupted, life>>

(* loop:poll: unless interrupted, the poll waits for the next event.       *)
Enter ==
    /\ LoopCode("enter")
    /\ stack' = IF interrupted THEN Pop
                ELSE SetTop([Top EXCEPT !.phase = "wait",
                                        !.timeout = SleepInterval(Top.rest)])
    /\ UNCHANGED <<timers, list, polled, interrupted, life>>

(* poller:poll returns from zmq_poll with sockets to dispatch, or after    *)
(* its timeout.                                                            *)
PollReturns ==
    /\ LoopCode("wait")
    /\ sockets \cap closed = {}
    /\ \E reported \in SUBSET sockets :
          /\ reported = {} => Top.timeout = 0
          /\ io' = reported
          /\ stack' = IF Top.op = "flush" /\ reported = {} THEN Pop
                      ELSE SetTop([Top EXCEPT !.phase = "io", !.timeout = 0,
                                              !.left = Cardinality(reported)])
    /\ UNCHANGED <<timers, list, sockets, closed, interrupted, life>>

(* zmq_poll fails, as it does from then on when a socket was closed, and   *)
(* takes the loop with it.                                                 *)
PollFails ==
    /\ LoopCode("wait")
    /\ io' = {}
    /\ interrupted' = (interrupted \/ Top.op # "flush")
    /\ stack' = Pop
    /\ UNCHANGED <<timers, list, sockets, closed, life>>

(* poller:poll calls the callback of a socket.  When nested polls and      *)
(* removals left it none to dispatch it calls nil, which raises an error.  *)
DispatchSocket ==
    /\ LoopCode("io")
    /\ Top.left > 0
    /\ \/ \E s \in io :
             /\ io' = io \ {s}
             /\ stack' = SetTop([Top EXCEPT !.left = @ - 1, !.call = s])
       \/ io = {} /\ Unwind /\ UNCHANGED io
    /\ UNCHANGED <<timers, list, sockets, closed, interrupted, life>>

(* poller:poll returns to flush, or to poll, which turns to the events.    *)
SocketsDone ==
    /\ LoopCode("io")
    /\ Top.left = 0
    /\ stack' = IF Top.op = "flush"
                THEN IF Top.rest = 0 THEN Pop
                     ELSE SetTop([Top EXCEPT !.phase = "wait"])
                ELSE IF interrupted THEN Pop
                ELSE SetTop([Top EXCEPT !.phase = "fire"])
    /\ UNCHANGED <<timers, list, polled, interrupted, life>>

(* One turn of event_list:fire.                                            *)
FireNext_Unlocked ==
    LET i == Top.i + 1
        e == events[i]
    IN
    /\ LoopCode("fire")
    /\ i <= Len(events)
    /\ \/ /\ e \in started /\ rest[e] = 0
          /\ stack' = SetTop([Top EXCEPT !.i = i, !.call = e])
          /\ lock' = lock \cup {e}
          /\ UNCHANGED events
       \/ /\ e \in lock \/ (e \in started /\ rest[e] > 0)
          /\ stack' = SetTop([Top EXCEPT !.i = i])
          /\ UNCHANGED <<events, lock>>
       \/ /\ e \notin lock \cup started
          /\ events' = RemoveAt(events, i)
          /\ UNCHANGED <<stack, lock>>
    /\ UNCHANGED <<timers, made, polled, interrupted, life>>
FireNext_StopsAtLocked ==
    LET i == Top.i + 1
        e == events[i]
    IN
    /\ LoopCode("fire")
    /\ i <= Len(events)
    /\ \/ /\ e \in started \ lock /\ rest[e] = 0
          /\ stack' = SetTop([Top EXCEPT !.i = i, !.call = e])
          /\ lock' = lock \cup {e}
          /\ UNCHANGED events
       \/ /\ e \in lock
          /\ stack' = SetTop([Top EXCEPT !.i = Len(events)])
          /\ UNCHANGED <<events, lock>>
       \/ /\ e \in started \ lock /\ rest[e] > 0
          /\ stack' = SetTop([Top EXCEPT !.i = i])
          /\ UNCHANGED <<events, lock>>
       \/ /\ e \notin lock \cup started
          /\ events' = RemoveAt(events, i)
          /\ UNCHANGED <<stack, lock>>
    /\ UNCHANGED <<timers, made, polled, interrupted, life>>
FireNext ==
    LET i == Top.i + 1
        e == events[i]
    IN
    /\ LoopCode("fire")
    /\ i <= Len(events)
    /\ \/ /\ e \in started \ lock /\ rest[e] = 0
          /\ stack' = SetTop([Top EXCEPT !.i = i, !.call = e])
          /\ lock' = lock \cup {e}
          /\ UNCHANGED events
       \/ /\ e \in lock \/ (e \in started /\ rest[e] > 0)
          /\ stack' = SetTop([Top EXCEPT !.i = i])
          /\ UNCHANGED <<events, lock>>
       \/ /\ e \notin lock \cup started
          /\ events' = RemoveAt(events, i)
          /\ UNCHANGED <<stack, lock>>
    /\ UNCHANGED <<timers, made, polled, interrupted, life>>

(* The pass is over; poll returns, and sleep_ex and start go on.           *)
PassEnds ==
    /\ LoopCode("fire")
    /\ Top.i >= Len(events)
    /\ events' = Purged
    /\ stack' = EndTurn
    /\ UNCHANGED <<timers, made, lock, polled, interrupted, life>>

(* The callback of an event returns: a one-shot event is stopped, another  *)
(* starts anew, unless the callback reset it.                              *)
EventReturns_AlwaysAnew ==
    LET e == Top.call IN
    /\ InCallback /\ e \in Events
    /\ lock' = lock \ {e}
    /\ IF e \notin once
       THEN started' = started \cup {e} /\ rest' = [rest EXCEPT ![e] = interval[e]]
                                        /\ UNCHANGED <<interval, once>>
       ELSE UNCHANGED timers
    /\ stack' = SetTop([Top EXCEPT !.call = NoCall])
    /\ UNCHANGED <<events, made, polled, interrupted, life>>
EventReturns_NotUnlocked ==
    LET e == Top.call IN
    /\ InCallback /\ e \in Events
    /\ IF e \in started
       THEN lock' = lock \ {e} /\ Rewind(e)
       ELSE UNCHANGED <<lock, timers>>
    /\ stack' = SetTop([Top EXCEPT !.call = NoCall])
    /\ UNCHANGED <<events, made, polled, interrupted, life>>
EventReturns_RemovesFired ==
    LET e == Top.call IN
    /\ InCallback /\ e \in Events
    /\ lock' = lock \ {e}
    /\ IF e \in started THEN Rewind(e) ELSE UNCHANGED timers
    /\ events' = IF e \notin started' /\ Top.i <= Len(events)
                 THEN RemoveAt(events, Top.i) ELSE events
    /\ stack' = SetTop([Top EXCEPT !.call = NoCall])
    /\ UNCHANGED <<made, polled, interrupted, life>>
EventReturns ==
    LET e == Top.call IN
    /\ InCallback /\ e \in Events
    /\ lock' = lock \ {e}
    /\ IF e \in started THEN Rewind(e) ELSE UNCHANGED timers
    /\ stack' = SetTop([Top EXCEPT !.call = NoCall])
    /\ UNCHANGED <<events, made, polled, interrupted, life>>

SocketReturns ==
    /\ InCallback /\ Top.call \in Sockets
    /\ stack' = SetTop([Top EXCEPT !.call = NoCall])
    /\ UNCHANGED <<timers, list, polled, interrupted, life>>

OnTimeReturns ==
    /\ InCallback /\ Top.call = OnTime
    /\ stack' = IF interrupted THEN Pop
                ELSE SetTop([NextTurn(Top) EXCEPT !.rest = Top.ms,
                                                  !.call = NoCall])
    /\ UNCHANGED <<timers, list, polled, interrupted, life>>

CallbackRaises ==
    /\ InCallback
    /\ "raise" \in Uses
    /\ Unwind
    /\ UNCHANGED <<timers, list, polled, interrupted, life>>

-----------------------------------------------------------------------------
(* The environment.                                                        *)

Tick ==
    /\ rest' = [e \in Events |-> Less1(rest[e])]
    /\ stack' = [d \in DOMAIN stack |->
                   [stack[d] EXCEPT !.rest = Less1(@), !.timeout = Less1(@)]]
    /\ UNCHANGED <<started, interval, once, list, polled, interrupted, life>>

(* The loop's own steps; at most one of them is possible at a time.        *)
LoopStep ==
    \/ Enter
    \/ PollReturns
    \/ DispatchSocket
    \/ SocketsDone
    \/ FireNext
    \/ PassEnds

Next ==
    \/ \E t \in Intervals, o \in BOOLEAN :
          AddEvent(t, o) \/ \E e \in Events : SetInterval(e, t, o)
    \/ \E e \in Events : Reset(e) \/ Restart(e)
    \/ \E s \in Sockets : AddSocket(s) \/ RemoveSocket(s) \/ CloseSocket(s)
    \/ Interrupt
    \/ Destroy
    \/ \E op \in {"start", "sleep", "poll", "flush"}, t \in Waits : Run(op, t)
    \/ LoopStep
    \/ PollFails
    \/ EventReturns
    \/ SocketReturns
    \/ OnTimeReturns
    \/ CallbackRaises
    \/ Tick

Spec == Init /\ [][Next]_vars

(* The thread runs on, time passes, and a callback returns in the end,     *)
(* however often it ran the loop before.                                   *)
Fairness ==
    /\ WF_vars(LoopStep)
    /\ SF_vars(EventReturns)
    /\ SF_vars(SocketReturns)
    /\ SF_vars(OnTimeReturns)
    /\ WF_vars(Tick)

FairSpec == Spec /\ Fairness

-----------------------------------------------------------------------------
(* Every variable has its type.                                            *)
Made == 1 .. made

TimersType ==
    /\ started \subseteq Made
    /\ rest \in [Events -> Nat]
    /\ interval \in [Events -> Nat]
    /\ once \subseteq Made

ListType ==
    /\ events \in Seq(Made)
    /\ made \in 0 .. MaxEvents
    /\ lock \subseteq Made

PolledType ==
    /\ sockets \subseteq Sockets
    /\ closed \subseteq Sockets
    /\ io \subseteq Sockets

ControlType ==
    /\ interrupted \in BOOLEAN
    /\ life \in {"alive", "broken", "gone"}
    /\ stack \in Seq(Frame)

TypeOK == TimersType /\ ListType /\ PolledType /\ ControlType

(* The callback of an event is not called again while it runs, however     *)
(* many passes are nested in it.                                           *)
NotInItself ==
    \A d1, d2 \in DOMAIN stack :
        stack[d1].call \in Events /\ stack[d1].call = stack[d2].call => d1 = d2

(* An event is locked while its callback runs, and not any longer.         *)
LockedWhileCalled == lock = Called \cap Events

(* An event that is started is in the list, once, while passes and purges  *)
(* at several depths remove events from it.                                *)
StartedIsListed ==
    life = "alive" =>
        /\ started \subseteq Listed
        /\ \A i, j \in DOMAIN events : events[i] = events[j] => i = j

(* The poll of the running method waits for no longer than the first event *)
(* that can fire, also when events were added, reset and restarted by the  *)
(* callbacks of the turn before.                                           *)
NeverOversleeps ==
    LoopCode("wait") =>
        \A e \in (Listed \cap started) \ lock : Top.timeout <= rest[e]

(* While start() runs, an event that is due is called, at the latest by    *)
(* the passes after one that missed it because nested passes removed       *)
(* events before it (the comment in event_list:fire argues for this).      *)
Waiting(e) ==
    /\ Running /\ stack[1].op = "start" /\ ~interrupted
    /\ e \in (Listed \cap started) \ lock
    /\ rest[e] = 0

DueIsCalled == \A e \in Events : Waiting(e) ~> ~Waiting(e)

(* After interrupt() every method of the loop returns.                     *)
InterruptEnds == interrupted ~> ~Running

(* The events are Alarms: each call is for a due event, and a one-shot     *)
(* event is called once for every time it was armed.                       *)
A == INSTANCE Alarms WITH
        Event   <- Events,
        armed   <- started,
        due     <- {e \in started : rest[e] = 0},
        oneshot <- once,
        running <- Called \cap Events

ImplementsAlarms == A!Spec
=============================================================================
