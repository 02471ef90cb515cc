------------------------------ MODULE ZPoller ------------------------------
(***************************************************************************)
(* The C poller of lzmq and the Lua object around it: the pollitem table   *)
(* of poller.c, the methods of zpoller.c, and lzmq/poller.lua, which keeps *)
(* a callback for every slot of the table in a Lua table of its own.       *)
(*                                                                         *)
(* Lua is single threaded: one call of a method is one step.  What makes   *)
(* the poller hard is that its methods are called back from inside a poll, *)
(* while the poll still walks the table.  A running poller:poll is a frame *)
(* of `stack'; application code runs at the bottom of the stack and inside *)
(* the callback of the topmost frame.                                      *)
(*                                                                         *)
(* Slots are numbered from 0 as in C.  An event mask is the set of its     *)
(* bits.  poller.c's free_list is not a variable: poller_remove_item is    *)
(* the only function that links a slot into it and it ends by compacting   *)
(* the table, which empties it, so it is empty between calls.              *)
(*                                                                         *)
(* Definitions with an underscore in their name (Matches_FdOnly, ...) are  *)
(* plausible mistakes in the definition that follows them, kept to show    *)
(* that the properties below would notice.                                 *)
(***************************************************************************)
EXTENDS Integers, FiniteSets, Sequences

CONSTANTS Sockets,    \* ZMQ sockets
          Fds,        \* OS descriptors, numbers
          NoSocket,   \* a NULL socket pointer
          Condition,  \* POLLIN, POLLOUT, ...
          EventMasks, \* the event masks the application asks for
          InitLen,    \* pre_alloc of poller.new
          GrowBy,     \* 10 in poller_get_free_item
          MaxItems,   \* bound: registrations held at a time
          MaxDepth,   \* bound: polls nested in callbacks
          Uses        \* what the application does beyond the simplest use

(* "duplicate":    registers a handle that is registered already           *)
(* "others":       a callback removes or modifies a handle not its own     *)
(* "unregistered": removes a handle that is not registered                 *)
(* "nested":       a callback calls poll                                   *)
(* "fdModify":     modifies a descriptor                                   *)
AllUses == {"duplicate", "others", "unregistered", "nested", "fdModify"}

ASSUME HandlesAssumption ==
    /\ Fds \subseteq Nat
    /\ \A s \in Sockets : s \notin Int
    /\ NoSocket \notin Sockets
    /\ NoSocket \notin Int

ASSUME EventsAssumption == EventMasks \subseteq (SUBSET Condition) \ {{}}

ASSUME TableAssumption ==
    /\ InitLen \in Nat
    /\ GrowBy \in Nat /\ GrowBy > 1

ASSUME BoundsAssumption == MaxItems \in Nat /\ MaxDepth \in Nat \ {0}

ASSUME UsesAssumption == Uses \subseteq AllUses

Handles == Sockets \cup Fds

VARIABLES
    items,       \* ZMQ_Poller.items: slot -> zmq_pollitem_t
    len,         \* ZMQ_Poller.len: slots allocated
    count,       \* ZMQ_Poller.count: slots in use
    next,        \* ZMQ_Poller.next: where next_revents_idx resumes
    callbacks,   \* poller.lua: self.callbacks, a table with integer keys
    is_running,  \* poller.lua: self.is_running
    looping,     \* poller:start is on the Lua stack
    stack,       \* the running poller:poll calls, innermost last
    ready,       \* the kernel's and libzmq's view: conditions that hold
    fault        \* what went wrong in the poller itself

table == <<items, len, count, next>>
vars == <<items, len, count, next, callbacks, is_running, looping, stack,
          ready, fault>>

-----------------------------------------------------------------------------
(* The table of poll items.                                                *)

Item == [socket : Sockets \cup {NoSocket}, fd : Fds \cup {0},
         events : SUBSET Condition, revents : SUBSET Condition]

ZeroItem == [socket |-> NoSocket, fd |-> 0, events |-> {}, revents |-> {}]

SocketOf(h) == IF h \in Sockets THEN h ELSE NoSocket
FdOf(h) == IF h \in Sockets THEN 0 ELSE h

(* The handle an item was registered for.                                  *)
HandleOf(item) == IF item.socket = NoSocket THEN item.fd ELSE item.socket

Registered(h) == \E i \in 0 .. count - 1 : HandleOf(items[i]) = h

MinOf(S) == CHOOSE i \in S : \A j \in S : i <= j
MaxOf(S) == CHOOSE i \in S : \A j \in S : i >= j

(* A socket is found by its pointer, a descriptor by the fd field alone.   *)
Matches_FdOnly(item, h) == item.fd = FdOf(h)
Matches(item, h) == IF h \in Sockets THEN item.socket = h ELSE item.fd = h

Found(h) == {i \in 0 .. count - 1 : Matches(items[i], h)}

FindItem(h) == IF Found(h) = {} THEN -1 ELSE MinOf(Found(h))

(* The fields add and modify assign; revents is left as it is.             *)
Fill_KeepsEvents(item, h, ev) ==
    [socket |-> SocketOf(h), fd |-> FdOf(h),
     events |-> IF item.events = {} THEN ev ELSE item.events,
     revents |-> item.revents]
Fill(item, h, ev) ==
    [socket |-> SocketOf(h), fd |-> FdOf(h), events |-> ev,
     revents |-> item.revents]

(* poller_get_free_item hands out slot `count' as it stands.               *)
Grows == count + 1 >= len
LenAfterGet_NotUpdated == len
LenAfterGet == IF Grows THEN len + GrowBy ELSE len
ItemsAfterGet ==
    IF Grows
    THEN [i \in 0 .. len + GrowBy - 1 |->
            IF i < len THEN items[i] ELSE ZeroItem]
    ELSE items

(* Removing a slot moves the ones above it down and clears the last.       *)
ItemsWithout_TailKept(idx) ==
    [i \in DOMAIN items |->
        IF i >= idx /\ i < count - 1 THEN items[i + 1] ELSE items[i]]
ItemsWithout(idx) ==
    [i \in DOMAIN items |->
        IF i < idx THEN items[i]
        ELSE IF i < count - 1 THEN items[i + 1]
        ELSE ZeroItem]

(* What zmq_poll writes: revents of the slots in use.                      *)
PolledItems_AllButLast ==
    [i \in DOMAIN items |->
        IF i < count - 1
        THEN [items[i] EXCEPT
                !.revents = items[i].events \cap ready[HandleOf(items[i])]]
        ELSE items[i]]
PolledItems ==
    [i \in DOMAIN items |->
        IF i < count
        THEN [items[i] EXCEPT
                !.revents = items[i].events \cap ready[HandleOf(items[i])]]
        ELSE items[i]]

Signalled(its) == {i \in 0 .. count - 1 : its[i].revents # {}}

(* The slots poller_next_revents would still return.                       *)
Due == {i \in 0 .. next : items[i].revents # {}}

NextAfter_SameSlot(idx) == IF idx < 0 THEN -1 ELSE idx
NextAfter(idx) == IF idx < 0 THEN -1 ELSE idx - 1

-----------------------------------------------------------------------------
(* The callbacks table.                                                    *)

(* A callback is known by the call that installed it.                      *)
Callback == [handle : Handles, events : SUBSET Condition]
NoCallback == [handle |-> NoSocket, events |-> {}]

(* Lua's #t: any border of the table, 0 when t[1] is absent.               *)
Borders(t) == {n \in {0} \cup {k \in DOMAIN t : k > 0} : n + 1 \notin DOMAIN t}

SetCallback(t, id, cb) ==
    [k \in DOMAIN t \cup {id} |-> IF k = id THEN cb ELSE t[k]]

(* for i = id, n do t[i] = t[i+1] end                                      *)
ShiftCallbacks_NotAtAll(t, id, n) == [k \in DOMAIN t \ {n} |-> t[k]]
ShiftCallbacks_FromNext(t, id, n) ==
    [k \in {j \in DOMAIN t : j \notin id + 1 .. n}
             \cup {j \in id + 1 .. n : j + 1 \in DOMAIN t} |->
        IF k \in id + 1 .. n THEN t[k + 1] ELSE t[k]]
ShiftCallbacks(t, id, n) ==
    [k \in {j \in DOMAIN t : j \notin id .. n}
             \cup {j \in id .. n : j + 1 \in DOMAIN t} |->
        IF k \in id .. n THEN t[k + 1] ELSE t[k]]

-----------------------------------------------------------------------------
(* Control: who runs, and what the application may do.                     *)

Frame == [left : Nat, call : Callback \cup {NoCallback}, got : SUBSET Condition]

Top == stack[Len(stack)]
InPoll == stack # <<>>
InCallback == InPoll /\ Top.call # NoCallback
AppCode == InCallback \/ (~InPoll /\ ~looping)

SetTop(frame) == [stack EXCEPT ![Len(stack)] = frame]

(* A Lua error unwinds to a pcall of the application: in the callback of   *)
(* one of the d outermost frames, or below all of them.                    *)
Unwind(d) ==
    /\ stack' = SubSeq(stack, 1, d)
    /\ looping' = (looping /\ d > 0)

OwnedByOther(h) == InCallback /\ Top.call.handle # h /\ Registered(h)

MayChange(h) == OwnedByOther(h) => "others" \in Uses

MayPoll == /\ AppCode
           /\ InPoll => "nested" \in Uses
           /\ Len(stack) < MaxDepth

-----------------------------------------------------------------------------
Init ==
    /\ items = [i \in 0 .. InitLen - 1 |-> ZeroItem]
    /\ len = InitLen
    /\ count = 0
    /\ next = -1
    /\ callbacks = << >>
    /\ is_running = FALSE
    /\ looping = FALSE
    /\ stack = << >>
    /\ ready = [h \in Handles |-> {}]
    /\ fault = "none"

(* poller:add(h, ev, cb)                                                   *)
Add(h, ev) ==
    /\ AppCode
    /\ count < MaxItems
    /\ Registered(h) => "duplicate" \in Uses
    /\ items' = [ItemsAfterGet EXCEPT ![count] = Fill(@, h, ev)]
    /\ len' = LenAfterGet
    /\ count' = count + 1
    /\ callbacks' = SetCallback(callbacks, count, [handle |-> h, events |-> ev])
    /\ UNCHANGED <<next, is_running, looping, stack, ready, fault>>

(* poller:modify(s, ev, cb) on a socket: changes the item found, or takes  *)
(* a free one.                                                             *)
ModifySocket(s, ev) ==
    LET idx == FindItem(s) IN
    /\ AppCode
    /\ MayChange(s)
    /\ \/ /\ idx >= 0
          /\ items' = [items EXCEPT ![idx] = Fill(@, s, ev)]
          /\ callbacks' = SetCallback(callbacks, idx,
                                      [handle |-> s, events |-> ev])
          /\ UNCHANGED <<len, count>>
       \/ /\ idx < 0
          /\ count < MaxItems
          /\ items' = [ItemsAfterGet EXCEPT ![count] = Fill(@, s, ev)]
          /\ len' = LenAfterGet
          /\ count' = count + 1
          /\ callbacks' = SetCallback(callbacks, count,
                                      [handle |-> s, events |-> ev])
    /\ UNCHANGED <<next, is_running, looping, stack, ready, fault>>

(* poller:modify(fd, ev, cb) reads sock->skt of the NULL sock.             *)
ModifyFd(fd) ==
    /\ AppCode
    /\ "fdModify" \in Uses
    /\ fault' = "segv"
    /\ UNCHANGED <<table, callbacks, is_running, looping, stack, ready>>

(* poller:remove(h), which modify without events or callback also calls.   *)
(* The C item goes first; the Lua table follows unless the assertion       *)
(* id <= #callbacks fails.  An id of -1 shifts the whole Lua table.        *)
Remove(h) ==
    LET idx == FindItem(h) IN
    /\ AppCode
    /\ MayChange(h)
    /\ ~Registered(h) => "unregistered" \in Uses
    /\ IF idx >= 0
       THEN items' = ItemsWithout(idx) /\ count' = count - 1
       ELSE UNCHANGED <<items, count>>
    /\ \E n \in Borders(callbacks) :
          \/ /\ idx <= n
             /\ callbacks' = ShiftCallbacks(callbacks, idx, n)
             /\ UNCHANGED <<stack, looping, fault>>
          \/ /\ idx > n
             /\ fault' = "assert"
             /\ \E d \in 0 .. Len(stack) : Unwind(d)
             /\ UNCHANGED callbacks
    /\ UNCHANGED <<len, next, is_running, ready>>

(* zmq_poll returned the number of slots with events: the Lua loop will    *)
(* ask for as many.                                                        *)
BeginPoll ==
    LET n == Cardinality(Signalled(PolledItems)) IN
    /\ items' = PolledItems
    /\ next' = IF n > 0 THEN count - 1 ELSE -1
    /\ stack' = IF n > 0
                THEN Append(stack, [left |-> n, call |-> NoCallback, got |-> {}])
                ELSE stack

(* poller:poll(timeout) called by the application.                         *)
Poll ==
    /\ MayPoll
    /\ BeginPoll
    /\ UNCHANGED <<len, count, callbacks, is_running, looping, ready, fault>>

(* poll(-1) in poller:start: returns when there is something to serve.     *)
LoopPoll ==
    /\ looping /\ is_running /\ ~InPoll
    /\ Signalled(PolledItems) # {}
    /\ BeginPoll
    /\ UNCHANGED <<len, count, callbacks, is_running, looping, ready, fault>>

(* zmq_poll fails (a signal, a terminated context): poll returns nil, and  *)
(* start returns false.                                                    *)
PollFails ==
    /\ MayPoll \/ (looping /\ is_running /\ ~InPoll)
    /\ next' = -1
    /\ looping' = (looping /\ InPoll)
    /\ UNCHANGED <<items, len, count, callbacks, is_running, stack, ready, fault>>

(* One turn of the for loop of poller:poll: next_revents_idx walks down    *)
(* the table to a slot with events, and the callback of that slot runs.    *)
Dispatch ==
    LET idx == IF Due = {} THEN -1 ELSE MaxOf(Due)
        revents == IF Due = {} THEN {} ELSE items[idx].revents
    IN
    /\ InPoll /\ ~InCallback /\ Top.left > 0
    /\ next' = NextAfter(idx)
    /\ \/ /\ idx \in DOMAIN callbacks
          /\ stack' = SetTop([left |-> Top.left - 1, call |-> callbacks[idx],
                              got |-> revents])
          /\ UNCHANGED <<looping, fault>>
       \/ /\ idx \notin DOMAIN callbacks
          /\ fault' = "nil callback"
          /\ \E d \in 0 .. Len(stack) - 1 : Unwind(d)
    /\ UNCHANGED <<items, len, count, callbacks, is_running, ready>>

CallbackReturns ==
    /\ InCallback
    /\ stack' = SetTop([Top EXCEPT !.call = NoCallback, !.got = {}])
    /\ UNCHANGED <<table, callbacks, is_running, looping, ready, fault>>

CallbackRaises ==
    /\ InCallback
    /\ \E d \in 0 .. Len(stack) - 1 : Unwind(d)
    /\ UNCHANGED <<table, callbacks, is_running, ready, fault>>

(* The for loop is over: poll returns count.                               *)
PollReturns ==
    /\ InPoll /\ ~InCallback /\ Top.left = 0
    /\ stack' = SubSeq(stack, 1, Len(stack) - 1)
    /\ UNCHANGED <<table, callbacks, is_running, looping, ready, fault>>

(* poller:start() called outside callbacks.                                *)
Start ==
    /\ ~InPoll /\ ~looping
    /\ is_running' = TRUE
    /\ looping' = TRUE
    /\ UNCHANGED <<table, callbacks, stack, ready, fault>>

Stop ==
    /\ AppCode
    /\ is_running' = FALSE
    /\ UNCHANGED <<table, callbacks, looping, stack, ready, fault>>

StartReturns ==
    /\ looping /\ ~is_running /\ ~InPoll
    /\ looping' = FALSE
    /\ UNCHANGED <<table, callbacks, is_running, stack, ready, fault>>

(* Messages arrive, are read, peers come and go.                           *)
ReadinessChanges(h, c) ==
    /\ ready' = [ready EXCEPT ![h] = IF c \in @ THEN @ \ {c} ELSE @ \cup {c}]
    /\ UNCHANGED <<table, callbacks, is_running, looping, stack, fault>>

Next ==
    /\ fault # "segv"
    /\ \/ \E h \in Handles, ev \in EventMasks : Add(h, ev)
       \/ \E s \in Sockets, ev \in EventMasks : ModifySocket(s, ev)
       \/ \E fd \in Fds : ModifyFd(fd)
       \/ \E h \in Handles : Remove(h)
       \/ Poll
       \/ LoopPoll
       \/ PollFails
       \/ Dispatch
       \/ CallbackReturns
       \/ CallbackRaises
       \/ PollReturns
       \/ Start
       \/ Stop
       \/ StartReturns
       \/ \E h \in Handles, c \in Condition : ReadinessChanges(h, c)

Spec == Init /\ [][Next]_vars

(* The thread keeps running and every callback returns in the end; the     *)
(* application and the peers owe nothing.                                  *)
Fairness ==
    /\ WF_vars(LoopPoll)
    /\ WF_vars(Dispatch)
    /\ WF_vars(CallbackReturns)
    /\ WF_vars(PollReturns)
    /\ WF_vars(StartReturns)

FairSpec == Spec /\ Fairness

-----------------------------------------------------------------------------
(* Every variable has its type.                                            *)
TableType ==
    /\ len \in Nat
    /\ count \in Nat
    /\ next \in Int /\ next >= -1
    /\ items \in [0 .. len - 1 -> Item]

CallbacksType ==
    /\ DOMAIN callbacks \subseteq Int
    /\ \A k \in DOMAIN callbacks : callbacks[k] \in Callback

ControlType ==
    /\ is_running \in BOOLEAN
    /\ looping \in BOOLEAN
    /\ stack \in Seq(Frame)
    /\ ready \in [Handles -> SUBSET Condition]
    /\ fault \in {"none", "segv", "assert", "nil callback"}

TypeOK == TableType /\ CallbacksType /\ ControlType

(* Memory safety of poller.c, whatever the application does: the slots in  *)
(* use and the slot where next_revents resumes were allocated, also when a *)
(* callback removed items below it, and a slot handed out by get_free_item *)
(* or reached by a stale `next' carries no events of an earlier item.      *)
InBounds ==
    /\ count <= len
    /\ next < len
    /\ \A i \in count .. len - 1 : items[i] = ZeroItem

(* The Lua table and the C table are two arrays kept in step by index: the *)
(* callback in slot i is the one that was given for the item in slot i.    *)
Aligned ==
    /\ DOMAIN callbacks = 0 .. count - 1
    /\ \A i \in 0 .. count - 1 :
          callbacks[i] = [handle |-> HandleOf(items[i]),
                          events |-> items[i].events]

(* poller.lua shifts its table by the index poller.c found, whatever other *)
(* calls run below it: only the removal of a handle that is not registered *)
(* takes the tables out of step.                                           *)
StrayRemoval == \E h \in Handles : ~Registered(h) /\ Remove(h)

KeepsAligned == [][Aligned /\ ~StrayRemoval => Aligned']_vars

(* poller:poll loops as many times as zmq_poll reported items, while the   *)
(* callbacks change the table: the turns left are always the items that    *)
(* next_revents_idx will still find, none twice and none missing.          *)
ExactDue == InPoll => Top.left = Cardinality(Due)

(* A callback is called with events, and with events it was installed for. *)
GotOwnEvents == InCallback => Top.got # {} /\ Top.got \subseteq Top.call.events

(* poller:remove(h) unregisters h and no other handle.                     *)
RemoveOnlyNamed ==
    [][\A h \in Handles : Remove(h) =>
          \A g \in Handles \ {h} : Registered(g) = Registered(g)']_vars

(* With start() running, a handle that stays registered and ready has its  *)
(* callback run, whatever the other handles do.                            *)
Wanted(h) ==
    /\ looping
    /\ \E i \in 0 .. count - 1 :
          /\ HandleOf(items[i]) = h
          /\ items[i].events \cap ready[h] # {}
ReadyIsServed ==
    \A h \in Handles :
        Wanted(h) ~> (~Wanted(h) \/ (InCallback /\ Top.call.handle = h))

(* The poller implements Reactor.                                          *)
ItemOf(h) == CHOOSE i \in 0 .. count - 1 : HandleOf(items[i]) = h

R == INSTANCE Reactor WITH
        Handle   <- Handles,
        NoHandle <- NoSocket,
        interest <- [h \in Handles |->
                       IF Registered(h) THEN items[ItemOf(h)].events ELSE {}],
        due      <- IF InPoll THEN {HandleOf(items[i]) : i \in Due} ELSE {},
        active   <- IF InCallback THEN Top.call.handle ELSE NoSocket

(* A poll runs the callback of every handle found ready, once, unless it   *)
(* was unregistered meanwhile, and of no other handle.                     *)
ImplementsReactor == R!Spec
=============================================================================
