--------------------------- MODULE ZPollerProofs ---------------------------
(***************************************************************************)
(* Theorems about ZPoller, for every number of handles, table size and use *)
(* of the poller.                                                          *)
(***************************************************************************)
EXTENDS ZPoller, FiniteSetTheorems, SequenceTheorems, WellFoundedInduction,
        TLAPS

(* The table always has a free slot past the ones in use, unless nothing   *)
(* is in use.                                                              *)
Room == count < len \/ count = 0

TableInv == TableType /\ InBounds /\ Room

-----------------------------------------------------------------------------
(* Arithmetic: the extrema of slots chosen by MinOf and MaxOf exist.       *)
LEMMA LeastSlot ==
    ASSUME NEW n \in Int, NEW S \in SUBSET (0 .. n), S # {}
    PROVE  MinOf(S) \in S /\ \A j \in S : MinOf(S) <= j
<1>1. S \subseteq Nat
  OBVIOUS
<1>2. PICK m \in S : \A j \in S : <<j, m>> \notin OpToRel(<, Nat)
  BY <1>1, NatLessThanWellFounded, WFMin, Zenon
<1>3. \A j \in S : m <= j
  <2> SUFFICES ASSUME NEW j \in S
               PROVE  m <= j
    OBVIOUS
  <2>1. j \in Nat /\ m \in Nat
    BY <1>1
  <2>2. (j < m) => <<j, m>> \in OpToRel(<, Nat)
    BY <2>1 DEF OpToRel
  <2>3. ~(j < m)
    BY <1>2, <2>2, Zenon
  <2>4. QED
    BY <2>1, <2>3
<1>4. QED
  BY <1>3, Zenon DEF MinOf

LEMMA GreatestSlot ==
    ASSUME NEW n \in Int, NEW S \in SUBSET (0 .. n), S # {}
    PROVE  MaxOf(S) \in S /\ \A j \in S : MaxOf(S) >= j
<1> DEFINE T == {n - i : i \in S}
<1>1. T \in SUBSET (0 .. n) /\ T # {}
  <2>1. ASSUME NEW j \in T
        PROVE  j \in 0 .. n
    <3>1. PICK i \in S : j = n - i
      OBVIOUS
    <3>2. i \in 0 .. n
      OBVIOUS
    <3>3. QED
      BY <3>1, <3>2
  <2>2. PICK i \in S : TRUE
    OBVIOUS
  <2>3. n - i \in T
    OBVIOUS
  <2>4. QED
    BY <2>1, <2>3
<1>2. MinOf(T) \in T /\ \A j \in T : MinOf(T) <= j
  BY <1>1, LeastSlot
<1>3. PICK m \in S : MinOf(T) = n - m
  BY <1>2
<1>4. \A j \in S : m >= j
  <2> SUFFICES ASSUME NEW j \in S
               PROVE  m >= j
    OBVIOUS
  <2>1. n - j \in T
    OBVIOUS
  <2>2. n - m <= n - j
    BY <1>2, <1>3, <2>1
  <2>3. QED
    BY <2>2
<1>5. QED
  BY <1>4, Zenon DEF MaxOf

-----------------------------------------------------------------------------
(* The fields of an item.                                                  *)
LEMMA ItemFields ==
    ASSUME NEW it \in Item
    PROVE  /\ it.socket \in Sockets \cup {NoSocket}
           /\ it.fd \in Fds \cup {0}
           /\ it.fd \in Int
           /\ it.events \in SUBSET Condition
           /\ it.revents \in SUBSET Condition
<1>1. it.socket \in Sockets \cup {NoSocket}
  BY DEF Item
<1>2. it.fd \in Fds \cup {0}
  BY DEF Item
<1>3. it.events \in SUBSET Condition /\ it.revents \in SUBSET Condition
  BY DEF Item
<1>4. Fds \cup {0} \subseteq Int
  BY HandlesAssumption
<1>5. QED
  BY <1>1, <1>2, <1>3, <1>4

(* Lookups return a slot in use or -1, as the callers of                   *)
(* poller_find_sock_item and poller_find_fd_item assume.                   *)
LEMMA FindItemRange ==
    ASSUME count \in Nat, NEW h
    PROVE  /\ FindItem(h) \in -1 .. count - 1
           /\ FindItem(h) >= 0 => Matches(items[FindItem(h)], h)
           /\ FindItem(h) < 0 => Found(h) = {}
<1>1. CASE Found(h) = {}
  BY <1>1 DEF FindItem
<1>2. CASE Found(h) # {}
  <2>1. Found(h) \in SUBSET (0 .. count - 1)
    BY DEF Found
  <2>2. MinOf(Found(h)) \in Found(h)
    <3>1. count - 1 \in Int
      OBVIOUS
    <3>2. QED
      BY <1>2, <2>1, <3>1, LeastSlot
  <2>3. FindItem(h) \in Found(h)
    BY <1>2, <2>2 DEF FindItem
  <2>4. Matches(items[FindItem(h)], h)
    BY <2>3 DEF Found
  <2>5. QED
    BY <2>1, <2>3, <2>4
<1>3. QED
  BY <1>1, <1>2

(* A registered handle is found.                                           *)
LEMMA RegisteredIsFound ==
    ASSUME TableInv, NEW h \in Handles, Registered(h)
    PROVE  FindItem(h) >= 0
<1>1. PICK i \in 0 .. count - 1 : HandleOf(items[i]) = h
  BY DEF Registered
<1>2. Matches(items[i], h)
  <2>1. items[i] \in Item
    BY DEF TableInv, InBounds, TableType
  <2>2. items[i].socket \in Sockets \cup {NoSocket} /\ items[i].fd \in Int
    BY <2>1, ItemFields
  <2>3. QED
    BY <1>1, <2>2, HandlesAssumption DEF HandleOf, Matches, Handles
<1>3. i \in Found(h)
  BY <1>2 DEF Found
<1>4. count \in Nat
  BY DEF TableInv, TableType
<1>5. /\ FindItem(h) \in -1 .. count - 1
      /\ FindItem(h) < 0 => Found(h) = {}
  BY <1>4, FindItemRange
<1>6. QED
  BY <1>3, <1>4, <1>5

-----------------------------------------------------------------------------
(* What each operation on the table does to it.                            *)

(* A new item goes to slot `count' and leaves the others alone.            *)
LEMMA NewItem ==
    ASSUME TableInv, NEW h \in Handles, NEW ev \in SUBSET Condition,
           items' = [ItemsAfterGet EXCEPT ![count] = Fill(@, h, ev)],
           len' = LenAfterGet,
           count' = count + 1
    PROVE  /\ len' \in Nat /\ count' \in Nat
           /\ len <= len' /\ count' < len'
           /\ items' \in [0 .. len' - 1 -> Item]
           /\ \A i \in 0 .. count - 1 : items'[i] = items[i]
           /\ items'[count].socket = SocketOf(h)
           /\ items'[count].fd = FdOf(h)
           /\ items'[count].events = ev
           /\ \A i \in count' .. len' - 1 : items'[i] = ZeroItem
<1> USE TableAssumption DEF TableInv, InBounds, Room
<1>1. len \in Nat /\ count \in Nat /\ items \in [0 .. len - 1 -> Item]
  BY DEF TableType
<1>2. len' \in Nat /\ count' \in Nat /\ len <= len' /\ count' < len'
  BY <1>1 DEF LenAfterGet, Grows
<1>3. ZeroItem \in Item
  BY DEF ZeroItem, Item
<1>4. /\ ItemsAfterGet \in [0 .. len' - 1 -> Item]
      /\ \A i \in 0 .. count - 1 : ItemsAfterGet[i] = items[i]
      /\ \A i \in count .. len' - 1 : ItemsAfterGet[i] = ZeroItem
  <2>1. CASE Grows
    <3>1. /\ len' = len + GrowBy
          /\ ItemsAfterGet = [i \in 0 .. len' - 1 |->
                                IF i < len THEN items[i] ELSE ZeroItem]
      BY <1>1, <2>1 DEF ItemsAfterGet, LenAfterGet
    <3>2. QED
      BY <1>1, <1>2, <1>3, <3>1
  <2>2. CASE ~Grows
    BY <1>1, <1>2, <2>2 DEF ItemsAfterGet, LenAfterGet
  <2>3. QED
    BY <2>1, <2>2
<1>5. SocketOf(h) \in Sockets \cup {NoSocket} /\ FdOf(h) \in Fds \cup {0}
  BY HandlesAssumption DEF SocketOf, FdOf, Handles
<1>6. Fill(ItemsAfterGet[count], h, ev)
        = [socket |-> SocketOf(h), fd |-> FdOf(h), events |-> ev, revents |-> {}]
  <2>1. ItemsAfterGet[count] = ZeroItem
    BY <1>1, <1>2, <1>4
  <2>2. QED
    BY <2>1 DEF ZeroItem, Fill
<1>7. [socket |-> SocketOf(h), fd |-> FdOf(h),
       events |-> ev, revents |-> {}] \in Item
  BY <1>5 DEF Item
<1>8. items' \in [0 .. len' - 1 -> Item]
  BY <1>1, <1>2, <1>4, <1>6, <1>7
<1>9. items'[count] = [socket |-> SocketOf(h), fd |-> FdOf(h),
                       events |-> ev, revents |-> {}]
  BY <1>1, <1>2, <1>4, <1>6
<1>10. \A i \in 0 .. len' - 1 : i # count => items'[i] = ItemsAfterGet[i]
  BY <1>1, <1>2, <1>4, <1>6
<1>11. QED
  BY <1>1, <1>2, <1>4, <1>8, <1>9, <1>10

LEMMA NewItemKeepsTable ==
    ASSUME TableInv, NEW h \in Handles, NEW ev \in SUBSET Condition,
           items' = [ItemsAfterGet EXCEPT ![count] = Fill(@, h, ev)],
           len' = LenAfterGet,
           count' = count + 1,
           next' = next
    PROVE  TableType' /\ InBounds' /\ Room'
<1>1. /\ len' \in Nat /\ count' \in Nat
      /\ len <= len' /\ count' < len'
      /\ items' \in [0 .. len' - 1 -> Item]
      /\ \A i \in count' .. len' - 1 : items'[i] = ZeroItem
  BY NewItem
<1>2. next \in Int /\ next >= -1 /\ next < len /\ len \in Nat
  BY DEF TableInv, TableType, InBounds
<1>3. QED
  BY <1>1, <1>2 DEF TableType, InBounds, Room

(* Removing an item moves the items above it down by one slot.             *)
LEMMA RemovedItem ==
    ASSUME TableInv, NEW idx \in 0 .. count - 1,
           items' = ItemsWithout(idx), count' = count - 1, len' = len
    PROVE  /\ count' \in Nat /\ count' < len
           /\ items' \in [0 .. len - 1 -> Item]
           /\ \A i \in 0 .. count' - 1 :
                 items'[i] = IF i < idx THEN items[i] ELSE items[i + 1]
           /\ \A i \in count' .. len - 1 : items'[i] = ZeroItem
<1> USE DEF TableInv, InBounds, Room
<1>1. len \in Nat /\ count \in Nat /\ items \in [0 .. len - 1 -> Item]
  BY DEF TableType
<1>2. ZeroItem \in Item
  BY DEF ZeroItem, Item
<1>3. QED
  BY <1>1, <1>2 DEF ItemsWithout

(* zmq_poll writes revents of the slots in use and nothing else.           *)
LEMMA PolledTable ==
    ASSUME TableInv, items' = PolledItems
    PROVE  /\ items' \in [0 .. len - 1 -> Item]
           /\ \A i \in 0 .. count - 1 : /\ items'[i].socket = items[i].socket
                                        /\ items'[i].fd = items[i].fd
                                        /\ items'[i].events = items[i].events
           /\ \A i \in count .. len - 1 : items'[i] = ZeroItem
<1> USE DEF TableInv, InBounds, Room
<1>1. len \in Nat /\ count \in Nat /\ items \in [0 .. len - 1 -> Item]
  BY DEF TableType
<1>2. ASSUME NEW i \in 0 .. len - 1
      PROVE  /\ items'[i] \in Item
             /\ items'[i].socket = items[i].socket
             /\ items'[i].fd = items[i].fd
             /\ items'[i].events = items[i].events
             /\ i >= count => items'[i] = items[i]
  BY <1>1, <1>2, SMTT(30) DEF PolledItems, Item
<1>3. DOMAIN items' = 0 .. len - 1 /\ items' = [i \in DOMAIN items' |-> items'[i]]
  BY <1>1 DEF PolledItems
<1>4. QED
  BY <1>1, <1>2, <1>3

-----------------------------------------------------------------------------
(* What each operation does to the callbacks and to the stack.             *)

LEMMA SetCallbackType ==
    ASSUME CallbacksType, NEW id \in Int, NEW cb \in Callback,
           callbacks' = SetCallback(callbacks, id, cb)
    PROVE  CallbacksType'
BY DEF CallbacksType, SetCallback

LEMMA ShiftCallbacksType ==
    ASSUME CallbacksType, NEW id \in Int, NEW n \in Int,
           callbacks' = ShiftCallbacks(callbacks, id, n)
    PROVE  CallbacksType'
<1>1. DOMAIN callbacks' \subseteq Int
  BY DEF CallbacksType, ShiftCallbacks
<1>2. ASSUME NEW k \in DOMAIN callbacks'
      PROVE  callbacks'[k] \in Callback
  <2>1. CASE k \in id .. n
    BY <2>1 DEF CallbacksType, ShiftCallbacks
  <2>2. CASE k \notin id .. n
    BY <2>2 DEF CallbacksType, ShiftCallbacks
  <2>3. QED
    BY <2>1, <2>2
<1>3. QED
  BY <1>1, <1>2 DEF CallbacksType

LEMMA TopIsFrame ==
    ASSUME stack \in Seq(Frame), InPoll
    PROVE  /\ Len(stack) \in Nat \ {0}
           /\ Top \in Frame
           /\ \A f \in Frame : SetTop(f) \in Seq(Frame)
<1>1. Len(stack) \in Nat \ {0}
  BY EmptySeq DEF InPoll
<1>2. QED
  BY <1>1, ExceptSeq, ElementOfSeq DEF Top, SetTop

LEMMA UnwindType ==
    ASSUME stack \in Seq(Frame), looping \in BOOLEAN,
           NEW d \in 0 .. Len(stack), Unwind(d)
    PROVE  stack' \in Seq(Frame) /\ looping' \in BOOLEAN
<1>1. Len(stack) \in Nat
  BY LenProperties
<1>2. \A i \in 1 .. d : stack[i] \in Frame
  BY <1>1, ElementOfSeq
<1>3. SubSeq(stack, 1, d) \in Seq(Frame)
  BY <1>1, <1>2, SubSeqProperties
<1>4. QED
  BY <1>3 DEF Unwind

LEMMA BeginPollType ==
    ASSUME TableInv, stack \in Seq(Frame), BeginPoll
    PROVE  stack' \in Seq(Frame)
<1> DEFINE S == Signalled(PolledItems)
           n == Cardinality(S)
           f == [left |-> n, call |-> NoCallback, got |-> {}]
<1>1. IsFiniteSet(S)
  <2>1. count \in Nat
    BY DEF TableInv, TableType
  <2>2. IsFiniteSet(0 .. count - 1)
    BY <2>1, FS_Interval
  <2>3. S \in SUBSET (0 .. count - 1)
    BY DEF Signalled
  <2>4. QED
    BY <2>2, <2>3, FS_Subset
<1>2. n \in Nat
  BY <1>1, FS_CardinalityType
<1>3. f \in Frame
  BY <1>2 DEF Frame
<1>4. Append(stack, f) \in Seq(Frame)
  BY <1>3, AppendProperties
<1>5. stack' = Append(stack, f) \/ stack' = stack
  BY DEF BeginPoll
<1>6. QED
  BY <1>4, <1>5

-----------------------------------------------------------------------------
(* The inductive invariant.  Room is what makes `count <= len' survive an  *)
(* add: get_free_item writes the slot before it looks whether the table is *)
(* full.                                                                   *)
IInv == TypeOK /\ InBounds /\ Room

LEMMA IInvInit == Init => IInv
<1> SUFFICES ASSUME Init
             PROVE  IInv
  OBVIOUS
<1> USE DEF Init
<1>1. ZeroItem \in Item
  BY DEF ZeroItem, Item
<1>2. TableType /\ InBounds /\ Room
  BY <1>1, TableAssumption DEF TableType, InBounds, Room
<1>3. CallbacksType
  BY DEF CallbacksType
<1>4. ControlType
  BY EmptySeq DEF ControlType
<1>5. QED
  BY <1>2, <1>3, <1>4 DEF IInv, TypeOK

LEMMA IInvStep == IInv /\ [Next]_vars => IInv'
<1> SUFFICES ASSUME IInv, [Next]_vars
             PROVE  IInv'
  OBVIOUS
<1> USE DEF IInv, TypeOK
<1>t. TableInv
  BY DEF TableInv
<1>n. len \in Nat /\ count \in Nat /\ next \in Int /\ next >= -1 /\ next < len
  BY DEF TableType, InBounds
<1>m. \A ev \in EventMasks : ev \in SUBSET Condition
  BY EventsAssumption
<1>1. ASSUME NEW h \in Handles, NEW ev \in EventMasks, Add(h, ev)
      PROVE  IInv'
  <2>1. TableType' /\ InBounds' /\ Room'
    <3>1. ev \in SUBSET Condition
      BY <1>m
    <3>2. QED
      BY <1>1, <1>t, <3>1, NewItemKeepsTable DEF Add
  <2>2. [handle |-> h, events |-> ev] \in Callback
    BY <1>m DEF Callback
  <2>3. CallbacksType'
    BY <1>1, <1>n, <2>2, SetCallbackType DEF Add
  <2>4. ControlType'
    BY <1>1 DEF Add, ControlType
  <2>5. QED
    BY <2>1, <2>3, <2>4
<1>2. ASSUME NEW s \in Sockets, NEW ev \in EventMasks, ModifySocket(s, ev)
      PROVE  IInv'
  <2> DEFINE idx == FindItem(s)
  <2>1. idx \in -1 .. count - 1
    BY <1>n, FindItemRange
  <2>2. s \in Handles /\ SocketOf(s) = s /\ FdOf(s) = 0
    BY DEF Handles, SocketOf, FdOf
  <2>3. [handle |-> s, events |-> ev] \in Callback
    BY <1>m, <2>2 DEF Callback
  <2>4. ControlType'
    BY <1>2 DEF ModifySocket, ControlType
  <2>5. CASE idx >= 0
    <3>1. /\ items' = [items EXCEPT ![idx] = Fill(@, s, ev)]
          /\ callbacks' = SetCallback(callbacks, idx, [handle |-> s, events |-> ev])
          /\ UNCHANGED <<len, count, next>>
      BY <1>2, <2>1, <2>5 DEF ModifySocket
    <3>2. idx \in 0 .. len - 1 /\ items[idx] \in Item
      BY <1>n, <2>1, <2>5 DEF TableType, InBounds
    <3>3. Fill(items[idx], s, ev) \in Item
      BY <1>m, <2>2, <3>2, ItemFields DEF Fill, Item
    <3>4. TableType' /\ InBounds' /\ Room'
      BY <1>n, <2>1, <2>5, <3>1, <3>2, <3>3 DEF TableType, InBounds, Room
    <3>5. CallbacksType'
      BY <2>1, <2>3, <3>1, SetCallbackType
    <3>6. QED
      BY <2>4, <3>4, <3>5
  <2>6. CASE idx < 0
    <3>1. /\ items' = [ItemsAfterGet EXCEPT ![count] = Fill(@, s, ev)]
          /\ len' = LenAfterGet /\ count' = count + 1 /\ next' = next
          /\ callbacks' = SetCallback(callbacks, count, [handle |-> s, events |-> ev])
      BY <1>2, <2>1, <2>6 DEF ModifySocket
    <3>2. ev \in SUBSET Condition
      BY <1>m
    <3>3. TableType' /\ InBounds' /\ Room'
      BY <1>t, <2>2, <3>1, <3>2, NewItemKeepsTable
    <3>4. CallbacksType'
      BY <1>n, <2>3, <3>1, SetCallbackType
    <3>5. QED
      BY <2>4, <3>3, <3>4
  <2>7. QED
    BY <2>1, <2>5, <2>6
<1>3. ASSUME NEW fd \in Fds, ModifyFd(fd)
      PROVE  IInv'
  BY <1>3 DEF ModifyFd, table, TableType, CallbacksType, ControlType, InBounds, Room
<1>4. ASSUME NEW h \in Handles, Remove(h)
      PROVE  IInv'
  <2> DEFINE idx == FindItem(h)
  <2>1. idx \in -1 .. count - 1
    BY <1>n, FindItemRange
  <2>2. TableType' /\ InBounds' /\ Room'
    <3>1. UNCHANGED <<len, next>>
      BY <1>4 DEF Remove
    <3>2. CASE idx >= 0
      <4>1. items' = ItemsWithout(idx) /\ count' = count - 1
        BY <1>4, <3>2 DEF Remove
      <4>2. /\ count' \in Nat /\ count' < len
            /\ items' \in [0 .. len - 1 -> Item]
            /\ \A i \in count' .. len - 1 : items'[i] = ZeroItem
        <5>1. idx \in 0 .. count - 1
          BY <2>1, <3>2
        <5>2. QED
          BY <1>t, <3>1, <4>1, <5>1, RemovedItem
      <4>3. QED
        BY <1>n, <3>1, <4>2 DEF TableType, InBounds, Room
    <3>3. CASE ~(idx >= 0)
      <4>1. UNCHANGED <<items, count>>
        BY <1>4, <3>3 DEF Remove
      <4>2. QED
        BY <3>1, <4>1 DEF TableType, InBounds, Room
    <3>4. QED
      BY <3>2, <3>3
  <2>3. PICK n \in Borders(callbacks) :
           \/ /\ callbacks' = ShiftCallbacks(callbacks, idx, n)
              /\ UNCHANGED <<stack, looping, fault>>
           \/ /\ fault' = "assert"
              /\ \E d \in 0 .. Len(stack) : Unwind(d)
              /\ UNCHANGED callbacks
    BY <1>4 DEF Remove
  <2>4. n \in Int
    BY DEF Borders, CallbacksType
  <2>5. CallbacksType'
    <3>1. CASE callbacks' = ShiftCallbacks(callbacks, idx, n)
      BY <2>1, <2>4, <3>1, ShiftCallbacksType
    <3>2. CASE callbacks' = callbacks
      BY <3>2 DEF CallbacksType
    <3>3. QED
      BY <2>3, <3>1, <3>2
  <2>6. stack' \in Seq(Frame) /\ looping' \in BOOLEAN
    BY <2>3, UnwindType DEF ControlType
  <2>7. ControlType'
    BY <1>4, <2>3, <2>6 DEF Remove, ControlType
  <2>8. QED
    BY <2>2, <2>5, <2>7
<1>5. ASSUME BeginPoll, stack' \in Seq(Frame),
             UNCHANGED <<len, count, callbacks, is_running, looping, ready, fault>>
      PROVE  IInv'
  <2>1. TableType' /\ InBounds' /\ Room'
    BY <1>5, <1>t, <1>n, PolledTable DEF BeginPoll, TableType, InBounds, Room
  <2>2. CallbacksType' /\ ControlType'
    BY <1>5 DEF CallbacksType, ControlType
  <2>3. QED
    BY <2>1, <2>2
<1>6. CASE Poll \/ LoopPoll
  BY <1>5, <1>6, <1>t, BeginPollType DEF Poll, LoopPoll, ControlType
<1>7. CASE PollFails
  <2>1. TableType' /\ InBounds' /\ Room'
    BY <1>7, <1>n DEF PollFails, TableType, InBounds, Room
  <2>2. CallbacksType' /\ ControlType'
    BY <1>7 DEF PollFails, CallbacksType, ControlType
  <2>3. QED
    BY <2>1, <2>2
<1>8. CASE Dispatch
  <2> DEFINE idx == IF Due = {} THEN -1 ELSE MaxOf(Due)
             revents == IF Due = {} THEN {} ELSE items[idx].revents
  <2>1. Due = {} \/ MaxOf(Due) \in 0 .. next
    <3>1. Due \in SUBSET (0 .. next)
      BY DEF Due
    <3>2. QED
      BY <1>n, <3>1, GreatestSlot
  <2>2. revents \in SUBSET Condition
    BY <1>n, <2>1, ItemFields DEF TableType
  <2>3. /\ InPoll /\ Top.left > 0
        /\ next' = NextAfter(idx)
        /\ UNCHANGED <<items, len, count, callbacks, is_running, ready>>
    BY <1>8 DEF Dispatch
  <2>4. TableType' /\ InBounds' /\ Room'
    BY <1>n, <2>1, <2>3 DEF NextAfter, TableType, InBounds, Room
  <2>5. CallbacksType'
    BY <2>3 DEF CallbacksType
  <2>6. CASE /\ idx \in DOMAIN callbacks
             /\ stack' = SetTop([left |-> Top.left - 1, call |-> callbacks[idx],
                                 got |-> revents])
             /\ UNCHANGED <<looping, fault>>
    <3>1. stack \in Seq(Frame) /\ Top \in Frame
      BY <2>3, TopIsFrame DEF ControlType
    <3>2. Top.left \in Nat
      BY <3>1 DEF Frame
    <3>3. Top.left - 1 \in Nat
      BY <2>3, <3>2
    <3>4. callbacks[idx] \in Callback
      BY <2>6 DEF CallbacksType
    <3>5. [left |-> Top.left - 1, call |-> callbacks[idx], got |-> revents] \in Frame
      BY <2>2, <3>3, <3>4 DEF Frame
    <3>6. stack' \in Seq(Frame)
      BY <2>3, <2>6, <3>1, <3>5, TopIsFrame
    <3>7. ControlType'
      BY <2>3, <2>6, <3>6 DEF ControlType
    <3>8. QED
      BY <2>4, <2>5, <3>7
  <2>7. CASE /\ fault' = "nil callback"
             /\ \E d \in 0 .. Len(stack) - 1 : Unwind(d)
    <3>1. \E d \in 0 .. Len(stack) : Unwind(d)
      <4>1. Len(stack) \in Nat
        BY LenProperties DEF ControlType
      <4>2. PICK d \in 0 .. Len(stack) - 1 : Unwind(d)
        BY <2>7
      <4>3. d \in 0 .. Len(stack)
        BY <4>1
      <4>4. QED
        BY <4>2, <4>3
    <3>2. ControlType'
      BY <2>3, <2>7, <3>1, UnwindType DEF ControlType
    <3>3. QED
      BY <2>4, <2>5, <3>2
  <2>8. QED
    BY <1>8, <2>6, <2>7 DEF Dispatch
<1>9. CASE CallbackReturns
  <2>1. stack \in Seq(Frame) /\ InPoll /\ Top \in Frame
    BY <1>9, TopIsFrame DEF CallbackReturns, InCallback, ControlType
  <2>2. [Top EXCEPT !.call = NoCallback, !.got = {}] \in Frame
    BY <2>1 DEF Frame
  <2>3. stack' \in Seq(Frame)
    BY <1>9, <2>1, <2>2, TopIsFrame DEF CallbackReturns
  <2>4. QED
    BY <1>9, <2>3
    DEF CallbackReturns, table, TableType, CallbacksType, ControlType, InBounds, Room
<1>10. CASE CallbackRaises
  <2>1. \E d \in 0 .. Len(stack) : Unwind(d)
    <3>1. Len(stack) \in Nat
      BY LenProperties DEF ControlType
    <3>2. QED
      BY <1>10, <3>1 DEF CallbackRaises
  <2>2. stack' \in Seq(Frame) /\ looping' \in BOOLEAN
    BY <2>1, UnwindType DEF ControlType
  <2>3. QED
    BY <1>10, <2>2
    DEF CallbackRaises, table, TableType, CallbacksType, ControlType, InBounds, Room
<1>11. CASE PollReturns
  <2>1. stack \in Seq(Frame) /\ InPoll /\ Len(stack) \in Nat \ {0}
    BY <1>11, TopIsFrame DEF PollReturns, ControlType
  <2>2. \A i \in 1 .. Len(stack) - 1 : stack[i] \in Frame
    BY <2>1, ElementOfSeq
  <2>3. SubSeq(stack, 1, Len(stack) - 1) \in Seq(Frame)
    BY <2>1, <2>2, SubSeqProperties
  <2>4. QED
    BY <1>11, <2>3
    DEF PollReturns, table, TableType, CallbacksType, ControlType, InBounds, Room
<1>12. CASE Start \/ Stop \/ StartReturns
  BY <1>12 DEF Start, Stop, StartReturns, table, TableType, CallbacksType,
               ControlType, InBounds, Room
<1>13. ASSUME NEW h \in Handles, NEW c \in Condition, ReadinessChanges(h, c)
       PROVE  IInv'
  BY <1>13 DEF ReadinessChanges, table, TableType, CallbacksType, ControlType,
               InBounds, Room
<1>14. CASE UNCHANGED vars
  BY <1>14 DEF vars, TableType, CallbacksType, ControlType, InBounds, Room
<1>15. QED
  BY <1>1, <1>2, <1>3, <1>4, <1>6, <1>7, <1>8, <1>9, <1>10, <1>11, <1>12, <1>13,
     <1>14 DEF Next

(* Every variable keeps its type.                                          *)
THEOREM TypeCorrect == Spec => []TypeOK
<1>1. IInv => TypeOK
  BY DEF IInv
<1>2. QED
  BY IInvInit, IInvStep, <1>1, PTL DEF Spec

(* poller.c never reads or writes outside the table it allocated, and no   *)
(* slot past the ones in use holds events, in any use of the poller.       *)
THEOREM MemorySafe == Spec => []InBounds
<1>1. IInv => InBounds
  BY DEF IInv
<1>2. QED
  BY IInvInit, IInvStep, <1>1, PTL DEF Spec

-----------------------------------------------------------------------------
(* The two tables stay in step as long as the application removes only     *)
(* what it registered.                                                     *)

LEMMA NewItemAligned ==
    ASSUME TableInv, Aligned, NEW h \in Handles, NEW ev \in SUBSET Condition,
           items' = [ItemsAfterGet EXCEPT ![count] = Fill(@, h, ev)],
           len' = LenAfterGet,
           count' = count + 1,
           callbacks' = SetCallback(callbacks, count, [handle |-> h, events |-> ev])
    PROVE  Aligned'
<1>1. count \in Nat
  BY DEF TableInv, TableType
<1>2. /\ \A i \in 0 .. count - 1 : items'[i] = items[i]
      /\ items'[count].socket = SocketOf(h)
      /\ items'[count].fd = FdOf(h)
      /\ items'[count].events = ev
  BY NewItem
<1>3. HandleOf(items'[count]) = h
  BY <1>2, HandlesAssumption DEF HandleOf, SocketOf, FdOf, Handles
<1>4. DOMAIN callbacks' = 0 .. count' - 1
  BY <1>1 DEF SetCallback, Aligned
<1>5. ASSUME NEW i \in 0 .. count' - 1
      PROVE  callbacks'[i] = [handle |-> HandleOf(items'[i]),
                              events |-> items'[i].events]
  <2>1. CASE i = count
    BY <1>1, <1>2, <1>3, <2>1 DEF SetCallback
  <2>2. CASE i # count
    BY <1>1, <1>2, <2>2 DEF SetCallback, Aligned
  <2>3. QED
    BY <2>1, <2>2
<1>6. QED
  BY <1>4, <1>5 DEF Aligned

LEMMA ModifiedItemAligned ==
    ASSUME TableInv, Aligned, NEW s \in Sockets, NEW ev, NEW idx \in 0 .. count - 1,
           items' = [items EXCEPT ![idx] = Fill(@, s, ev)],
           count' = count,
           callbacks' = SetCallback(callbacks, idx, [handle |-> s, events |-> ev])
    PROVE  Aligned'
<1>1. idx \in 0 .. len - 1 /\ DOMAIN items = 0 .. len - 1 /\ count <= len
      /\ count \in Nat /\ len \in Nat
  BY DEF TableInv, TableType, InBounds
<1>2. items'[idx] = [socket |-> s, fd |-> 0, events |-> ev,
                     revents |-> items[idx].revents]
  BY <1>1 DEF Fill, SocketOf, FdOf
<1>3. HandleOf(items'[idx]) = s /\ items'[idx].events = ev
  BY <1>2, HandlesAssumption DEF HandleOf
<1>4. DOMAIN callbacks' = 0 .. count' - 1
  BY <1>1 DEF SetCallback, Aligned
<1>5. ASSUME NEW i \in 0 .. count' - 1
      PROVE  callbacks'[i] = [handle |-> HandleOf(items'[i]),
                              events |-> items'[i].events]
  <2>1. CASE i = idx
    BY <1>1, <1>3, <2>1 DEF SetCallback
  <2>2. CASE i # idx
    <3>1. items'[i] = items[i] /\ callbacks'[i] = callbacks[i]
      BY <1>1, <2>2 DEF SetCallback, Aligned
    <3>2. QED
      BY <3>1 DEF Aligned
  <2>3. QED
    BY <2>1, <2>2
<1>6. QED
  BY <1>4, <1>5 DEF Aligned

(* The Lua table in step has one border, its last index; so the assertion  *)
(* id <= #callbacks holds.                                                 *)
LEMMA AlignedBorder ==
    ASSUME count \in Nat \ {0}, Aligned
    PROVE  Borders(callbacks) = {count - 1}
<1>1. DOMAIN callbacks = 0 .. count - 1
  BY DEF Aligned
<1>2. count - 1 \in Borders(callbacks)
  BY <1>1 DEF Borders
<1>3. ASSUME NEW n \in Borders(callbacks)
      PROVE  n = count - 1
  BY <1>1 DEF Borders
<1>4. QED
  BY <1>2, <1>3

LEMMA RemovedItemAligned ==
    ASSUME TableInv, Aligned, NEW idx \in 0 .. count - 1,
           items' = ItemsWithout(idx), count' = count - 1, len' = len,
           callbacks' = ShiftCallbacks(callbacks, idx, count - 1)
    PROVE  Aligned'
<1>1. count \in Nat /\ DOMAIN callbacks = 0 .. count - 1
  BY DEF TableInv, TableType, Aligned
<1>2. \A i \in 0 .. count' - 1 :
         items'[i] = IF i < idx THEN items[i] ELSE items[i + 1]
  BY RemovedItem
<1>3. DOMAIN callbacks' = {j \in 0 .. count - 1 : j \notin idx .. count - 1}
                            \cup {j \in idx .. count - 1 : j + 1 \in 0 .. count - 1}
  BY <1>1 DEF ShiftCallbacks
<1>4. DOMAIN callbacks' = 0 .. count' - 1
  <2>1. \A j : j \in DOMAIN callbacks' => j \in 0 .. count' - 1
    BY <1>1, <1>3
  <2>2. \A j : j \in 0 .. count' - 1 => j \in DOMAIN callbacks'
    BY <1>1, <1>3
  <2>3. QED
    BY <2>1, <2>2
<1>5. ASSUME NEW i \in 0 .. count' - 1
      PROVE  callbacks'[i] = [handle |-> HandleOf(items'[i]),
                              events |-> items'[i].events]
  <2>1. CASE i < idx
    <3>1. callbacks'[i] = callbacks[i] /\ items'[i] = items[i]
          /\ i \in 0 .. count - 1
      BY <1>1, <1>2, <1>4, <2>1 DEF ShiftCallbacks
    <3>2. QED
      BY <3>1 DEF Aligned
  <2>2. CASE i >= idx
    <3>1. callbacks'[i] = callbacks[i + 1] /\ items'[i] = items[i + 1]
          /\ i + 1 \in 0 .. count - 1
      BY <1>1, <1>2, <1>4, <2>2 DEF ShiftCallbacks
    <3>2. QED
      BY <3>1 DEF Aligned
  <2>3. QED
    BY <1>1, <2>1, <2>2
<1>6. QED
  BY <1>4, <1>5 DEF Aligned

LEMMA AlignedStep ==
    ASSUME IInv, Aligned, [Next]_vars, ~StrayRemoval
    PROVE  Aligned'
<1>t. TableInv
  BY DEF IInv, TypeOK, TableInv
<1>n. count \in Nat
  BY DEF IInv, TypeOK, TableType
<1>m. \A ev \in EventMasks : ev \in SUBSET Condition
  BY EventsAssumption
<1>1. ASSUME NEW h \in Handles, NEW ev \in EventMasks, Add(h, ev)
      PROVE  Aligned'
  <2>1. ev \in SUBSET Condition
    BY <1>m
  <2>2. QED
    BY <1>1, <1>t, <2>1, NewItemAligned DEF Add
<1>2. ASSUME NEW s \in Sockets, NEW ev \in EventMasks, ModifySocket(s, ev)
      PROVE  Aligned'
  <2> DEFINE idx == FindItem(s)
  <2>1. idx \in -1 .. count - 1
    BY <1>n, FindItemRange
  <2>2. ev \in SUBSET Condition /\ s \in Handles
    BY <1>m DEF Handles
  <2>3. CASE idx >= 0
    <3>1. /\ items' = [items EXCEPT ![idx] = Fill(@, s, ev)]
          /\ callbacks' = SetCallback(callbacks, idx, [handle |-> s, events |-> ev])
          /\ count' = count
      BY <1>2, <2>1, <2>3 DEF ModifySocket
    <3>2. idx \in 0 .. count - 1
      BY <1>n, <2>1, <2>3
    <3>3. QED
      BY <1>t, <3>1, <3>2, ModifiedItemAligned
  <2>4. CASE idx < 0
    <3>1. /\ items' = [ItemsAfterGet EXCEPT ![count] = Fill(@, s, ev)]
          /\ len' = LenAfterGet /\ count' = count + 1
          /\ callbacks' = SetCallback(callbacks, count, [handle |-> s, events |-> ev])
      BY <1>2, <2>1, <2>4 DEF ModifySocket
    <3>2. QED
      BY <1>t, <2>2, <3>1, NewItemAligned
  <2>5. QED
    BY <2>1, <2>3, <2>4
<1>3. ASSUME NEW h \in Handles, Remove(h)
      PROVE  Aligned'
  <2> DEFINE idx == FindItem(h)
  <2>1. Registered(h)
    BY <1>3 DEF StrayRemoval
  <2>2. idx \in 0 .. count - 1
    <3>1. idx \in -1 .. count - 1
      BY <1>n, FindItemRange
    <3>2. idx >= 0
      BY <1>t, <2>1, RegisteredIsFound
    <3>3. QED
      BY <1>n, <3>1, <3>2
  <2>3. items' = ItemsWithout(idx) /\ count' = count - 1 /\ len' = len
    BY <1>3, <2>2 DEF Remove
  <2>4. Borders(callbacks) = {count - 1}
    <3>1. count \in Nat \ {0}
      BY <1>n, <2>2
    <3>2. QED
      BY <3>1, AlignedBorder
  <2>5. callbacks' = ShiftCallbacks(callbacks, idx, count - 1)
    <3>1. PICK n \in Borders(callbacks) :
             \/ callbacks' = ShiftCallbacks(callbacks, idx, n)
             \/ idx > n
      BY <1>3 DEF Remove
    <3>2. n = count - 1 /\ ~(idx > n)
      BY <1>n, <2>2, <2>4
    <3>3. QED
      BY <3>1, <3>2
  <2>6. QED
    BY <1>t, <2>2, <2>3, <2>5, RemovedItemAligned
<1>4. ASSUME BeginPoll, UNCHANGED <<count, callbacks>>
      PROVE  Aligned'
  <2>1. \A i \in 0 .. count - 1 : /\ items'[i].socket = items[i].socket
                                  /\ items'[i].fd = items[i].fd
                                  /\ items'[i].events = items[i].events
    BY <1>4, <1>t, PolledTable DEF BeginPoll
  <2>2. QED
    BY <1>4, <2>1 DEF Aligned, HandleOf
<1>5. CASE Poll \/ LoopPoll
  BY <1>4, <1>5 DEF Poll, LoopPoll
<1>6. CASE UNCHANGED <<items, count, callbacks>>
  BY <1>6 DEF Aligned, HandleOf
<1>7. ASSUME Next
      PROVE  \/ \E h \in Handles, ev \in EventMasks : Add(h, ev)
             \/ \E s \in Sockets, ev \in EventMasks : ModifySocket(s, ev)
             \/ \E h \in Handles : Remove(h)
             \/ Poll
             \/ LoopPoll
             \/ UNCHANGED <<items, count, callbacks>>
  BY <1>7 DEF Next, ModifyFd, PollFails, Dispatch, CallbackReturns, CallbackRaises,
              PollReturns, Start, Stop, StartReturns, ReadinessChanges, table
<1>8. CASE UNCHANGED vars
  BY <1>6, <1>8 DEF vars
<1>9. QED
  BY <1>1, <1>2, <1>3, <1>5, <1>6, <1>7, <1>8

(* poller.lua finds for a slot the callback that was given for the item    *)
(* poller.c holds there, with duplicates, nested polls and callbacks that  *)
(* change other handles, until a handle is removed that is not registered. *)
THEOREM CallbacksKeepAligned == Spec => KeepsAligned
<1>1. IInv /\ [Next]_vars => [Aligned /\ ~StrayRemoval => Aligned']_vars
  BY AlignedStep
<1>2. QED
  BY <1>1, IInvInit, IInvStep, PTL DEF Spec, KeepsAligned

(* So an application that only removes what it registered always gets the  *)
(* callback of the handle that is ready.                                   *)
THEOREM CallbacksAligned ==
    ASSUME "unregistered" \notin Uses
    PROVE  Spec => []Aligned
<1>1. Init => Aligned
  BY DEF Init, Aligned
<1>2. IInv /\ Aligned /\ [Next]_vars => Aligned'
  <2>1. ~StrayRemoval
    BY DEF StrayRemoval, Remove
  <2>2. QED
    BY <2>1, AlignedStep
<1>3. QED
  BY <1>1, <1>2, IInvInit, IInvStep, PTL DEF Spec

-----------------------------------------------------------------------------
(* remove finds the handle it is given.  A slot in use holds a socket or a *)
(* descriptor, never both; the two are told apart as long as no descriptor *)
(* is 0, which is what the fd field of a socket's item holds.              *)
Whole(it) == \/ it.socket \in Sockets /\ it.fd = 0
             \/ it.socket = NoSocket /\ it.fd \in Fds

Proper == \A i \in 0 .. count - 1 : Whole(items[i]) /\ items[i].events # {}

LEMMA WholeMatches ==
    ASSUME 0 \notin Fds, NEW it, Whole(it), NEW h \in Handles
    PROVE  /\ Matches(it, h) <=> HandleOf(it) = h
           /\ HandleOf(it) \in Handles
<1>1. \A x \in Fds : x \in Int
  BY HandlesAssumption
<1>2. CASE h \in Sockets
  BY <1>1, <1>2, HandlesAssumption DEF Whole, Matches, HandleOf, Handles
<1>3. CASE h \notin Sockets
  BY <1>1, <1>3, HandlesAssumption DEF Whole, Matches, HandleOf, Handles
<1>4. QED
  BY <1>2, <1>3

LEMMA SlotOf ==
    ASSUME 0 \notin Fds, TableInv, Proper, NEW h \in Handles
    PROVE  /\ Registered(h) => /\ FindItem(h) \in 0 .. count - 1
                               /\ HandleOf(items[FindItem(h)]) = h
           /\ ~Registered(h) => FindItem(h) = -1
<1>1. count \in Nat
  BY DEF TableInv, TableType
<1>2. /\ FindItem(h) \in -1 .. count - 1
      /\ FindItem(h) >= 0 => Matches(items[FindItem(h)], h)
  BY <1>1, FindItemRange
<1>3. CASE FindItem(h) >= 0
  <2>1. FindItem(h) \in 0 .. count - 1
    BY <1>1, <1>2, <1>3
  <2>2. HandleOf(items[FindItem(h)]) = h
    BY <1>2, <1>3, <2>1, WholeMatches DEF Proper
  <2>3. Registered(h)
    BY <2>1, <2>2 DEF Registered
  <2>4. QED
    BY <2>1, <2>2, <2>3
<1>4. CASE FindItem(h) < 0
  <2>1. ~Registered(h)
    BY <1>1, <1>2, <1>4, RegisteredIsFound
  <2>2. QED
    BY <1>1, <1>2, <1>4, <2>1
<1>5. QED
  BY <1>1, <1>2, <1>3, <1>4

(* What add and modify do: slot idx now holds h, and no other does.        *)
Placed(idx, h, ev) ==
    /\ count' \in Nat /\ count <= count' /\ idx \in 0 .. count' - 1
    /\ Whole(items'[idx]) /\ HandleOf(items'[idx]) = h
    /\ items'[idx].events = ev
    /\ idx < count => Matches(items[idx], h)
    /\ \A i \in 0 .. count' - 1 :
          i # idx => i \in 0 .. count - 1 /\ items'[i] = items[i]

LEMMA NewItemPlaced ==
    ASSUME TableInv, NEW h \in Handles, NEW ev \in SUBSET Condition,
           items' = [ItemsAfterGet EXCEPT ![count] = Fill(@, h, ev)],
           len' = LenAfterGet,
           count' = count + 1
    PROVE  Placed(count, h, ev)
<1>1. count \in Nat
  BY DEF TableInv, TableType
<1>2. /\ \A i \in 0 .. count - 1 : items'[i] = items[i]
      /\ items'[count].socket = SocketOf(h)
      /\ items'[count].fd = FdOf(h)
      /\ items'[count].events = ev
  BY NewItem
<1>3. Whole(items'[count]) /\ HandleOf(items'[count]) = h
  BY <1>2, HandlesAssumption DEF Whole, HandleOf, SocketOf, FdOf, Handles
<1>4. \A i \in 0 .. count' - 1 :
          i # count => i \in 0 .. count - 1 /\ items'[i] = items[i]
  BY <1>1, <1>2
<1>5. QED
  BY <1>1, <1>2, <1>3, <1>4 DEF Placed

LEMMA ModifiedItemPlaced ==
    ASSUME TableInv, NEW s \in Sockets, NEW ev, FindItem(s) >= 0,
           items' = [items EXCEPT ![FindItem(s)] = Fill(@, s, ev)],
           count' = count
    PROVE  Placed(FindItem(s), s, ev)
<1> DEFINE idx == FindItem(s)
<1>1. /\ count \in Nat /\ len \in Nat /\ count <= len
      /\ DOMAIN items = 0 .. len - 1
  BY DEF TableInv, TableType, InBounds
<1>2. idx \in 0 .. count - 1 /\ Matches(items[idx], s)
  BY <1>1, FindItemRange
<1> HIDE DEF idx
<1>3. items' = [items EXCEPT ![idx] = Fill(@, s, ev)]
  BY DEF idx
<1>4. idx \in DOMAIN items
  BY <1>1, <1>2
<1>5. items'[idx] = Fill(items[idx], s, ev)
  BY <1>3, <1>4
<1>6. Whole(items'[idx]) /\ HandleOf(items'[idx]) = s /\ items'[idx].events = ev
  BY <1>5, HandlesAssumption DEF Fill, SocketOf, FdOf, Whole, HandleOf
<1>7. \A i \in 0 .. count' - 1 : i # idx => items'[i] = items[i]
  BY <1>1, <1>3
<1>8. Placed(idx, s, ev)
  BY <1>1, <1>2, <1>6, <1>7 DEF Placed
<1>9. QED
  BY <1>8 DEF idx

LEMMA Placing ==
    ASSUME IInv, NEW h \in Handles, NEW ev \in EventMasks,
           Add(h, ev) \/ (h \in Sockets /\ ModifySocket(h, ev))
    PROVE  /\ Placed(count, h, ev) \/ Placed(FindItem(h), h, ev)
           /\ UNCHANGED <<next, stack>>
           /\ AppCode
<1>t. TableInv /\ count \in Nat
  BY DEF IInv, TypeOK, TableInv, TableType
<1>m. ev \in SUBSET Condition
  BY EventsAssumption
<1>1. CASE Add(h, ev)
  BY <1>1, <1>t, <1>m, NewItemPlaced DEF Add
<1>2. CASE h \in Sockets /\ ModifySocket(h, ev)
  <2>1. CASE /\ FindItem(h) >= 0
             /\ items' = [items EXCEPT ![FindItem(h)] = Fill(@, h, ev)]
             /\ UNCHANGED <<len, count>>
    BY <1>t, <1>2, <2>1, ModifiedItemPlaced DEF ModifySocket
  <2>2. CASE /\ items' = [ItemsAfterGet EXCEPT ![count] = Fill(@, h, ev)]
             /\ len' = LenAfterGet
             /\ count' = count + 1
    BY <1>t, <1>m, <1>2, <2>2, NewItemPlaced DEF ModifySocket
  <2>3. QED
    BY <1>2, <2>1, <2>2 DEF ModifySocket
<1>3. QED
  BY <1>1, <1>2

LEMMA ProperStep ==
    ASSUME IInv, Proper, [Next]_vars
    PROVE  Proper'
<1>t. TableInv /\ count \in Nat
  BY DEF IInv, TypeOK, TableInv, TableType
<1>1. ASSUME NEW h \in Handles, NEW ev \in EventMasks,
             Add(h, ev) \/ (h \in Sockets /\ ModifySocket(h, ev))
      PROVE  Proper'
  <2>1. PICK idx : Placed(idx, h, ev)
    BY <1>1, Placing
  <2>2. ev # {}
    BY EventsAssumption
  <2>3. QED
    BY <2>1, <2>2 DEF Placed, Proper
<1>2. ASSUME NEW h \in Handles, Remove(h)
      PROVE  Proper'
  <2> DEFINE idx == FindItem(h)
  <2>1. idx \in -1 .. count - 1
    BY <1>t, FindItemRange
  <2>2. CASE idx >= 0
    <3>1. /\ count' \in Nat
          /\ \A i \in 0 .. count' - 1 :
                items'[i] = IF i < idx THEN items[i] ELSE items[i + 1]
      BY <1>2, <1>t, <2>1, <2>2, RemovedItem DEF Remove
    <3>2. count' = count - 1
      BY <1>2, <2>2 DEF Remove
    <3>3. QED
      BY <1>t, <3>1, <3>2 DEF Proper
  <2>3. CASE idx < 0
    BY <1>2, <2>1, <2>3 DEF Remove, Proper
  <2>4. QED
    BY <2>1, <2>2, <2>3
<1>3. CASE Poll \/ LoopPoll
  <2>1. \A i \in 0 .. count - 1 : /\ items'[i].socket = items[i].socket
                                  /\ items'[i].fd = items[i].fd
                                  /\ items'[i].events = items[i].events
    BY <1>3, <1>t, PolledTable DEF Poll, LoopPoll, BeginPoll
  <2>2. QED
    BY <1>3, <2>1 DEF Poll, LoopPoll, Proper, Whole
<1>4. CASE UNCHANGED <<items, count>>
  BY <1>4 DEF Proper
<1>5. ASSUME Next
      PROVE  \/ \E h \in Handles, ev \in EventMasks : Add(h, ev)
             \/ \E s \in Sockets, ev \in EventMasks : ModifySocket(s, ev)
             \/ \E h \in Handles : Remove(h)
             \/ Poll
             \/ LoopPoll
             \/ UNCHANGED <<items, count>>
  BY <1>5 DEF Next, ModifyFd, PollFails, Dispatch, CallbackReturns, CallbackRaises,
              PollReturns, Start, Stop, StartReturns, ReadinessChanges, table
<1>6. CASE UNCHANGED vars
  BY <1>4, <1>6 DEF vars
<1>7. QED
  BY <1>1, <1>2, <1>3, <1>4, <1>5, <1>6 DEF Handles

LEMMA ProperInit == Init => Proper
BY DEF Init, Proper

(* After a removal the slots hold what they held but for the one removed.  *)
LEMMA RemovalSpares ==
    ASSUME 0 \notin Fds, IInv, Proper, NEW h \in Handles, Remove(h)
    PROVE  \A g \in Handles \ {h} : Registered(g) = Registered(g)'
<1>t. TableInv /\ count \in Nat
  BY DEF IInv, TypeOK, TableInv, TableType
<1> DEFINE idx == FindItem(h)
<1>1. CASE ~Registered(h)
  <2>1. idx = -1
    BY <1>1, <1>t, SlotOf
  <2>2. UNCHANGED <<items, count>>
    BY <2>1 DEF Remove
  <2>3. QED
    BY <2>2 DEF Registered
<1>2. CASE Registered(h)
  <2>1. idx \in 0 .. count - 1 /\ HandleOf(items[idx]) = h
    BY <1>2, <1>t, SlotOf
  <2> HIDE DEF idx
  <2>2. items' = ItemsWithout(idx) /\ count' = count - 1 /\ len' = len
    BY <2>1 DEF Remove, idx
  <2>3. \A i \in 0 .. count' - 1 :
            items'[i] = IF i < idx THEN items[i] ELSE items[i + 1]
    BY <1>t, <2>1, <2>2, RemovedItem
  <2> SUFFICES ASSUME NEW g \in Handles \ {h}
               PROVE  Registered(g) <=> Registered(g)'
    BY DEF Registered
  <2>4. ASSUME NEW i \in 0 .. count - 1, HandleOf(items[i]) = g
        PROVE  Registered(g)'
    <3>1. i # idx
      BY <2>1, <2>4
    <3>2. CASE i < idx
      <4>1. i \in 0 .. count' - 1 /\ items'[i] = items[i]
        BY <1>t, <2>1, <2>2, <2>3, <3>2
      <4>2. QED
        BY <2>4, <4>1 DEF Registered
    <3>3. CASE i > idx
      <4>1. i - 1 \in 0 .. count' - 1 /\ items'[i - 1] = items[i]
        BY <1>t, <2>1, <2>2, <2>3, <3>3
      <4>2. QED
        BY <2>4, <4>1 DEF Registered
    <3>4. QED
      BY <1>t, <2>1, <3>1, <3>2, <3>3
  <2>5. ASSUME NEW i \in 0 .. count' - 1, HandleOf(items'[i]) = g
        PROVE  Registered(g)
    <3>1. i \in 0 .. count - 1 /\ i + 1 \in 0 .. count - 1
          /\ items'[i] \in {items[i], items[i + 1]}
      BY <1>t, <2>2, <2>3
    <3>2. QED
      BY <2>5, <3>1 DEF Registered
  <2>6. QED
    BY <2>4, <2>5 DEF Registered
<1>3. QED
  BY <1>1, <1>2

(* poller:remove takes out the handle it is given and no other, whatever   *)
(* else is registered and whatever runs, unless a descriptor is 0.         *)
THEOREM RemoveSparesOthers ==
    ASSUME 0 \notin Fds
    PROVE  Spec => RemoveOnlyNamed
<1>1. IInv /\ Proper /\ [Next]_vars =>
        [\A h \in Handles : Remove(h) =>
            \A g \in Handles \ {h} : Registered(g) = Registered(g)']_vars
  BY RemovalSpares
<1>2. QED
  BY <1>1, IInvInit, IInvStep, ProperInit, ProperStep, PTL DEF Spec, RemoveOnlyNamed

-----------------------------------------------------------------------------
(* The simplest use: no poll inside a poll, no handle registered twice,    *)
(* and a callback removes or modifies its own handle only.                 *)
Simple == Uses \subseteq {"fdModify"} /\ 0 \notin Fds

Distinct ==
    \A i, j \in 0 .. count - 1 : HandleOf(items[i]) = HandleOf(items[j]) => i = j

(* The walk of next_revents_idx downwards: what it has still to visit is   *)
(* as zmq_poll left it, and the handle whose callback runs is behind it.   *)
Walking ==
    /\ next < count
    /\ \A i \in 0 .. next : items[i].revents \subseteq items[i].events
    /\ Top.left = Cardinality(Due)
    /\ InCallback =>
          /\ Top.got # {} /\ Top.got \subseteq Top.call.events
          /\ \A i \in 0 .. next : HandleOf(items[i]) # Top.call.handle

SimpleInv ==
    /\ Aligned /\ Proper /\ Distinct
    /\ Len(stack) <= 1
    /\ InPoll => Walking

LEMMA OneFrame ==
    ASSUME IInv, SimpleInv, InPoll
    PROVE  /\ stack = <<Top>> /\ Top \in Frame /\ Len(stack) = 1
           /\ Top.call \in Callback \cup {NoCallback}
           /\ Top.left \in Nat
           /\ \A f \in Frame : SetTop(f) = <<f>>
           /\ SubSeq(stack, 1, 0) = << >>
<1>1. stack \in Seq(Frame)
  BY DEF IInv, TypeOK, ControlType
<1>2. Len(stack) \in Nat \ {0} /\ Top \in Frame
  BY <1>1, TopIsFrame
<1>3. Len(stack) = 1
  <2> DEFINE n == Len(stack)
  <2>1. n <= 1 /\ n \in Nat \ {0}
    BY <1>2 DEF SimpleInv
  <2> HIDE DEF n
  <2>2. n = 1
    BY <2>1
  <2>3. QED
    BY <2>2 DEF n
<1>4. stack = <<Top>>
  BY <1>1, <1>3 DEF Top
<1> DEFINE t == Top
<1>5. stack = <<t>>
  BY <1>4
<1> HIDE DEF t
<1>6. \A f \in Frame : SetTop(f) = <<f>>
  BY <1>3, <1>5 DEF SetTop
<1>7. SubSeq(stack, 1, 0) = << >>
  BY <1>5
<1>8. QED
  BY <1>2, <1>3, <1>4, <1>6, <1>7 DEF Frame

LEMMA CallbackKnown ==
    /\ \A cb \in Callback : cb.handle \in Handles /\ cb # NoCallback
    /\ NoSocket \notin Handles
<1>1. NoSocket \notin Handles
  <2>1. \A x \in Fds : x \in Int
    BY HandlesAssumption
  <2>2. QED
    BY <2>1, HandlesAssumption DEF Handles
<1>2. QED
  BY <1>1 DEF Callback, NoCallback

(* A change of the table above the walk leaves the walk as it was.         *)
LEMMA WalkUndisturbed ==
    ASSUME IInv, SimpleInv, UNCHANGED <<next, stack>>, InPoll,
           next < count', \A i \in 0 .. next : items'[i] = items[i]
    PROVE  Walking' /\ Due' = Due
<1>1. Due' = Due
  BY DEF Due
<1>2. Walking
  BY DEF SimpleInv
<1>3. QED
  BY <1>1, <1>2 DEF Walking, InCallback, InPoll, Top

(* Adding or modifying a handle in the simplest use: a slot the walk has   *)
(* behind it.                                                              *)
LEMMA PlacingSimple ==
    ASSUME Simple, IInv, SimpleInv, NEW h \in Handles, NEW ev \in EventMasks,
           Add(h, ev) \/ (h \in Sockets /\ ModifySocket(h, ev))
    PROVE  /\ \E idx : /\ Placed(idx, h, ev)
                       /\ InPoll => idx > next
                       /\ \A i \in 0 .. count - 1 : i # idx => HandleOf(items[i]) # h
                       /\ idx \in Int
                       /\ idx < count => HandleOf(items[idx]) = h
           /\ UNCHANGED <<next, stack>>
<1>t. TableInv /\ count \in Nat /\ next \in Int
  BY DEF IInv, TypeOK, TableInv, TableType
<1>0. Proper /\ Distinct /\ (InPoll => next < count) /\ 0 \notin Fds
  BY DEF SimpleInv, Walking, Simple
<1>1. Placed(count, h, ev) \/ Placed(FindItem(h), h, ev)
  BY Placing
<1>2. UNCHANGED <<next, stack>>
  BY Placing
<1>3. CASE Registered(h)
  <2>1. h \in Sockets /\ ModifySocket(h, ev)
    BY <1>3 DEF Add, Simple
  <2> DEFINE idx == FindItem(h)
  <2>2. idx \in 0 .. count - 1 /\ HandleOf(items[idx]) = h
    BY <1>t, <1>0, <1>3, SlotOf
  <2>3. /\ items' = [items EXCEPT ![idx] = Fill(@, h, ev)]
        /\ count' = count
    BY <1>t, <2>1, <2>2 DEF ModifySocket
  <2>4. Placed(idx, h, ev)
    <3>1. FindItem(h) >= 0
      BY <1>t, <2>2
    <3>2. QED
      BY <1>t, <2>1, <2>3, <3>1, ModifiedItemPlaced
  <2>5. MayChange(h)
    BY <2>1 DEF ModifySocket
  <2>6. ASSUME InPoll
        PROVE  idx > next
    <3>1. InCallback
      BY <2>1, <2>6 DEF ModifySocket, AppCode
    <3>2. Top.call.handle = h
      BY <1>3, <2>5, <3>1 DEF MayChange, OwnedByOther, Simple
    <3>3. \A i \in 0 .. next : HandleOf(items[i]) # h
      BY <2>6, <3>1, <3>2 DEF SimpleInv, Walking
    <3>4. idx \notin 0 .. next
      BY <2>2, <3>3
    <3>5. QED
      BY <1>t, <2>2, <3>4
  <2>7. \A i \in 0 .. count - 1 : i # idx => HandleOf(items[i]) # h
    BY <1>0, <2>2 DEF Distinct
  <2>8. QED
    BY <1>2, <2>2, <2>4, <2>6, <2>7
<1>4. CASE ~Registered(h)
  <2>1. FindItem(h) = -1
    BY <1>t, <1>0, <1>4, SlotOf
  <2>2. Placed(count, h, ev)
    BY <1>1, <2>1 DEF Placed
  <2>3. \A i \in 0 .. count - 1 : HandleOf(items[i]) # h
    BY <1>4 DEF Registered
  <2>4. QED
    BY <1>t, <1>0, <1>2, <2>2, <2>3
<1>5. QED
  BY <1>3, <1>4

(* Removing a handle in the simplest use.                                  *)
LEMMA RemovingSimple ==
    ASSUME Simple, IInv, SimpleInv, NEW h \in Handles, Remove(h)
    PROVE  /\ Registered(h)
           /\ FindItem(h) \in 0 .. count - 1 /\ HandleOf(items[FindItem(h)]) = h
           /\ count' = count - 1
           /\ \A i \in 0 .. count' - 1 :
                 items'[i] = IF i < FindItem(h) THEN items[i] ELSE items[i + 1]
           /\ InPoll => FindItem(h) > next
           /\ UNCHANGED <<next, stack>>
<1>t. TableInv /\ count \in Nat /\ next \in Int
  BY DEF IInv, TypeOK, TableInv, TableType
<1>0. Proper /\ Distinct /\ Aligned /\ 0 \notin Fds
  BY DEF SimpleInv, Simple
<1> DEFINE idx == FindItem(h)
<1>1. Registered(h)
  BY DEF Remove, Simple
<1>2. idx \in 0 .. count - 1 /\ HandleOf(items[idx]) = h
  BY <1>t, <1>0, <1>1, SlotOf
<1>3. items' = ItemsWithout(idx) /\ count' = count - 1 /\ len' = len /\ next' = next
  BY <1>t, <1>2 DEF Remove
<1>4. \A i \in 0 .. count' - 1 :
          items'[i] = IF i < idx THEN items[i] ELSE items[i + 1]
  BY <1>t, <1>2, <1>3, RemovedItem
<1>5. stack' = stack
  <2>1. Borders(callbacks) = {count - 1}
    BY <1>t, <1>0, <1>2, AlignedBorder
  <2>2. \A n \in Borders(callbacks) : ~(idx > n)
    BY <1>t, <1>2, <2>1
  <2>3. QED
    BY <2>2 DEF Remove
<1>6. ASSUME InPoll
      PROVE  idx > next
  <2>1. InCallback /\ MayChange(h)
    BY <1>6 DEF Remove, AppCode
  <2>2. Top.call.handle = h
    BY <1>1, <2>1 DEF MayChange, OwnedByOther, Simple
  <2>3. \A i \in 0 .. next : HandleOf(items[i]) # h
    BY <1>6, <2>1, <2>2 DEF SimpleInv, Walking
  <2>4. idx \notin 0 .. next
    BY <1>2, <2>3
  <2>5. QED
    BY <1>t, <1>2, <2>4
<1>7. QED
  BY <1>1, <1>2, <1>3, <1>4, <1>5, <1>6

LEMMA SlotBelow ==
    ASSUME NEW n \in Int, NEW c \in Nat, n < c, NEW i \in 0 .. n
    PROVE  i \in 0 .. c - 1
OBVIOUS

(* A slot that is placed above the walk leaves the walk alone.             *)
LEMMA PlacedAbove ==
    ASSUME count \in Nat, next \in Int, next < count,
           NEW idx \in Int, idx > next, NEW h, NEW ev, Placed(idx, h, ev)
    PROVE  next < count' /\ \A i \in 0 .. next : items'[i] = items[i]
<1>1. count' \in Nat /\ count <= count'
  BY DEF Placed
<1>2. next < count'
  BY <1>1
<1>3. \A i \in 0 .. count' - 1 : i # idx => items'[i] = items[i]
  BY DEF Placed
<1>4. ASSUME NEW i \in 0 .. next
      PROVE  items'[i] = items[i]
  <2>1. i \in 0 .. count' - 1
    BY <1>1, <1>2, SlotBelow
  <2>2. i # idx
    OBVIOUS
  <2>3. QED
    BY <1>3, <2>1, <2>2
<1>5. QED
  BY <1>2, <1>4

LEMMA PlacingKeepsSimple ==
    ASSUME Simple, IInv, SimpleInv, NEW h \in Handles, NEW ev \in EventMasks,
           Add(h, ev) \/ (h \in Sockets /\ ModifySocket(h, ev))
    PROVE  Distinct' /\ Len(stack') <= 1 /\ (InPoll' => Walking')
<1>t. count \in Nat /\ next \in Int
  BY DEF IInv, TypeOK, TableType
<1>1. PICK idx : /\ Placed(idx, h, ev) /\ idx \in Int
                 /\ InPoll => idx > next
                 /\ \A i \in 0 .. count - 1 : i # idx => HandleOf(items[i]) # h
  BY PlacingSimple
<1>2. UNCHANGED <<next, stack>>
  BY PlacingSimple
<1>3. Distinct'
  BY <1>t, <1>1 DEF Placed, Distinct, SimpleInv
<1>4. ASSUME InPoll
      PROVE  Walking'
  <2>1. next < count
    BY <1>4 DEF SimpleInv, Walking
  <2>2. next < count' /\ \A i \in 0 .. next : items'[i] = items[i]
    BY <1>t, <1>1, <1>4, <2>1, PlacedAbove
  <2>3. QED
    BY <1>2, <1>4, <2>2, WalkUndisturbed
<1>5. QED
  BY <1>2, <1>3, <1>4 DEF SimpleInv, InPoll

LEMMA RemovingKeepsSimple ==
    ASSUME Simple, IInv, SimpleInv, NEW h \in Handles, Remove(h)
    PROVE  Distinct' /\ Len(stack') <= 1 /\ (InPoll' => Walking')
<1>t. count \in Nat /\ next \in Int
  BY DEF IInv, TypeOK, TableType
<1> DEFINE idx == FindItem(h)
<1>1. /\ idx \in 0 .. count - 1
      /\ count' = count - 1
      /\ \A i \in 0 .. count' - 1 :
            items'[i] = IF i < idx THEN items[i] ELSE items[i + 1]
      /\ InPoll => idx > next
      /\ UNCHANGED <<next, stack>>
  BY RemovingSimple
<1> HIDE DEF idx
<1>2. Distinct'
  <2> SUFFICES ASSUME NEW i \in 0 .. count' - 1, NEW j \in 0 .. count' - 1,
                      HandleOf(items'[i]) = HandleOf(items'[j])
               PROVE  i = j
    BY DEF Distinct
  <2> DEFINE from(k) == IF k < idx THEN k ELSE k + 1
  <2>1. /\ items'[i] = items[from(i)] /\ items'[j] = items[from(j)]
        /\ from(i) \in 0 .. count - 1 /\ from(j) \in 0 .. count - 1
    BY <1>t, <1>1
  <2>2. from(i) = from(j)
    BY <2>1 DEF SimpleInv, Distinct
  <2>3. QED
    BY <1>1, <2>2
<1>3. ASSUME InPoll
      PROVE  Walking'
  <2>1. next < count' /\ \A i \in 0 .. next : items'[i] = items[i]
    BY <1>t, <1>1, <1>3
  <2>2. QED
    BY <1>1, <1>3, <2>1, WalkUndisturbed
<1>4. QED
  BY <1>1, <1>2, <1>3 DEF SimpleInv, InPoll

(* A poll in the simplest use is the only one, and starts with as many     *)
(* turns as there are slots with events.                                   *)
LEMMA PollSimple ==
    ASSUME Simple, IInv, SimpleInv, Poll \/ LoopPoll
    PROVE  /\ ~InPoll /\ UNCHANGED count
           /\ \A i \in 0 .. count - 1 :
                 /\ HandleOf(items'[i]) = HandleOf(items[i])
                 /\ items'[i].events = items[i].events
                 /\ items'[i].revents \subseteq items[i].events
           /\ \/ stack' = stack
              \/ /\ next' = count - 1
                 /\ stack' = <<[left |-> Cardinality(Due'), call |-> NoCallback,
                                got |-> {}]>>
<1>t. TableInv /\ count \in Nat /\ len \in Nat /\ count <= len
      /\ items \in [0 .. len - 1 -> Item]
  BY DEF IInv, TypeOK, TableInv, TableType, InBounds
<1>1. ~InPoll /\ BeginPoll /\ UNCHANGED count
  BY DEF Poll, LoopPoll, MayPoll, Simple
<1>2. \A i \in 0 .. count - 1 :
          /\ HandleOf(items'[i]) = HandleOf(items[i])
          /\ items'[i].events = items[i].events
  BY <1>t, <1>1, PolledTable DEF BeginPoll, HandleOf
<1>3. \A i \in 0 .. count - 1 : items'[i].revents \subseteq items[i].events
  <2> SUFFICES ASSUME NEW i \in 0 .. count - 1
               PROVE  items'[i].revents \subseteq items[i].events
    OBVIOUS
  <2>1. i \in DOMAIN items /\ i < count /\ items[i] \in Item
    BY <1>t
  <2>2. items'[i] = [items[i] EXCEPT
                        !.revents = items[i].events \cap ready[HandleOf(items[i])]]
    BY <1>1, <2>1 DEF BeginPoll, PolledItems
  <2>3. items'[i].revents = items[i].events \cap ready[HandleOf(items[i])]
    BY <2>1, <2>2 DEF Item
  <2>4. QED
    BY <2>3
<1>4. CASE stack' # stack
  <2> DEFINE n == Cardinality(Signalled(PolledItems))
  <2>1. stack' = Append(stack, [left |-> n, call |-> NoCallback, got |-> {}])
        /\ next' = count - 1 /\ items' = PolledItems
    BY <1>1, <1>4 DEF BeginPoll
  <2>2. Due' = Signalled(PolledItems)
    BY <2>1 DEF Due, Signalled
  <2>3. stack = << >>
    BY <1>1 DEF InPoll
  <2>4. QED
    BY <1>1, <1>2, <1>3, <2>1, <2>2, <2>3
<1>5. QED
  BY <1>1, <1>2, <1>3, <1>4

LEMMA PollKeepsSimple ==
    ASSUME Simple, IInv, SimpleInv, Poll \/ LoopPoll
    PROVE  Distinct' /\ Len(stack') <= 1 /\ (InPoll' => Walking')
<1>t. count \in Nat
  BY DEF IInv, TypeOK, TableType
<1>1. /\ ~InPoll /\ UNCHANGED count
      /\ \A i \in 0 .. count - 1 :
            /\ HandleOf(items'[i]) = HandleOf(items[i])
            /\ items'[i].events = items[i].events
            /\ items'[i].revents \subseteq items[i].events
      /\ \/ stack' = stack
         \/ /\ next' = count - 1
            /\ stack' = <<[left |-> Cardinality(Due'), call |-> NoCallback, got |-> {}]>>
  BY PollSimple
<1>2. Distinct'
  BY <1>1 DEF SimpleInv, Distinct
<1>3. CASE stack' = stack
  BY <1>1, <1>2, <1>3 DEF SimpleInv, InPoll
<1>4. CASE /\ next' = count - 1
           /\ stack' = <<[left |-> Cardinality(Due'), call |-> NoCallback, got |-> {}]>>
  <2>1. Len(stack') = 1 /\ Top'.left = Cardinality(Due') /\ Top'.call = NoCallback
    BY <1>4 DEF Top
  <2>2. ~InCallback'
    BY <2>1 DEF InCallback
  <2>3. next' < count' /\ \A i \in 0 .. next' : items'[i].revents \subseteq items'[i].events
    BY <1>t, <1>1, <1>4
  <2>4. Walking'
    BY <2>1, <2>2, <2>3 DEF Walking
  <2>5. QED
    BY <1>2, <2>1, <2>4
<1>5. QED
  BY <1>1, <1>3, <1>4

(* One turn of the loop in the simplest use: the greatest slot due is      *)
(* served, with the callback that was given for it.                        *)
LEMMA DispatchSimple ==
    ASSUME IInv, SimpleInv, Dispatch
    PROVE  /\ InPoll /\ ~InCallback /\ UNCHANGED <<items, count, is_running>>
           /\ \E idx \in Due :
                 /\ idx \in 0 .. count - 1
                 /\ next' = idx - 1
                 /\ \A i \in Due : i <= idx
                 /\ stack' = <<[left |-> Top.left - 1, call |-> callbacks[idx],
                                got |-> items[idx].revents]>>
                 /\ callbacks[idx].handle = HandleOf(items[idx])
                 /\ callbacks[idx].events = items[idx].events
                 /\ callbacks[idx] # NoCallback
                 /\ [left |-> Top.left - 1, call |-> callbacks[idx],
                     got |-> items[idx].revents] \in Frame
<1>t. count \in Nat /\ next \in Int /\ next >= -1
  BY DEF IInv, TypeOK, TableType
<1>1. InPoll /\ ~InCallback /\ Top.left > 0
      /\ UNCHANGED <<items, count, is_running>>
  BY DEF Dispatch
<1>2. Walking /\ next < count /\ Top.left = Cardinality(Due) /\ Aligned
  BY <1>1 DEF SimpleInv, Walking
<1>3. Due # {}
  <2>1. Cardinality({}) = 0
    BY FS_EmptySet
  <2>2. QED
    BY <1>1, <1>2, <2>1
<1> DEFINE idx == MaxOf(Due)
<1>4. idx \in Due /\ \A i \in Due : i <= idx
  <2>1. Due \in SUBSET (0 .. next)
    BY DEF Due
  <2>2. idx \in Due /\ \A i \in Due : idx >= i
    BY <1>t, <1>3, <2>1, GreatestSlot
  <2>3. \A i \in Due : i \in Int
    BY <2>1
  <2>4. QED
    BY <2>2, <2>3
<1>5. idx \in 0 .. count - 1 /\ idx \in 0 .. next
  BY <1>t, <1>2, <1>4 DEF Due
<1> HIDE DEF idx
<1>6. /\ next' = idx - 1
      /\ \/ stack' = SetTop([left |-> Top.left - 1, call |-> callbacks[idx],
                             got |-> items[idx].revents])
         \/ idx \notin DOMAIN callbacks
  <2>1. idx = IF Due = {} THEN -1 ELSE MaxOf(Due)
    BY <1>3 DEF idx
  <2>2. NextAfter(idx) = idx - 1
    BY <1>t, <1>5 DEF NextAfter
  <2>3. items[idx].revents = IF Due = {} THEN {} ELSE items[idx].revents
    BY <1>3
  <2>4. QED
    BY <1>3, <2>1, <2>2, <2>3 DEF Dispatch
<1>7. idx \in DOMAIN callbacks
      /\ callbacks[idx] = [handle |-> HandleOf(items[idx]), events |-> items[idx].events]
  BY <1>2, <1>5 DEF Aligned
<1>8. callbacks[idx] \in Callback
  BY <1>7 DEF IInv, TypeOK, CallbacksType
<1> DEFINE f == [left |-> Top.left - 1, call |-> callbacks[idx],
                 got |-> items[idx].revents]
<1>9. f \in Frame
  <2>1. Top.left - 1 \in Nat
    BY <1>1, OneFrame
  <2>2. items[idx].revents \in SUBSET Condition
    <3>1. items[idx] \in Item
      BY <1>t, <1>5 DEF IInv, TypeOK, TableType, InBounds
    <3>2. QED
      BY <3>1, ItemFields
  <2>3. QED
    BY <1>8, <2>1, <2>2 DEF Frame
<1>10. stack' = <<f>>
  <2> HIDE DEF f
  <2>1. SetTop(f) = <<f>>
    BY <1>1, <1>9, OneFrame
  <2>2. QED
    BY <1>6, <1>7, <2>1 DEF f
<1>11. /\ callbacks[idx].handle = HandleOf(items[idx])
       /\ callbacks[idx].events = items[idx].events
       /\ callbacks[idx] # NoCallback
  BY <1>7, <1>8, CallbackKnown
<1>12. next' = idx - 1
  BY <1>6
<1>13. QED
  BY <1>1, <1>4, <1>5, <1>9, <1>10, <1>11, <1>12, Zenon

LEMMA DueFinite ==
    ASSUME IInv
    PROVE  IsFiniteSet(Due) /\ Due \subseteq 0 .. next
<1>1. next \in Int
  BY DEF IInv, TypeOK, TableType
<1>2. IsFiniteSet(0 .. next) /\ Due \subseteq 0 .. next
  BY <1>1, FS_Interval DEF Due
<1>3. QED
  BY <1>2, FS_Subset

(* The slots due after a turn: those but the one served.                   *)
LEMMA DueServed ==
    ASSUME IInv, NEW idx \in Due, items' = items, next' = idx - 1,
           \A i \in Due : i <= idx
    PROVE  Due' = Due \ {idx} /\ Cardinality(Due') = Cardinality(Due) - 1
<1>1. next \in Int /\ idx \in 0 .. next /\ IsFiniteSet(Due)
  BY DueFinite DEF IInv, TypeOK, TableType
<1>2. \A i \in Due' : i \in Due \ {idx}
  BY <1>1 DEF Due
<1>3. \A i \in Due \ {idx} : i \in Due'
  BY <1>1 DEF Due
<1>4. Due' = Due \ {idx}
  BY <1>2, <1>3
<1>5. Cardinality(Due \ {idx}) = Cardinality(Due) - 1
  BY <1>1, FS_RemoveElement
<1>6. QED
  BY <1>4, <1>5

LEMMA DispatchKeepsSimple ==
    ASSUME IInv, SimpleInv, Dispatch
    PROVE  Distinct' /\ Len(stack') <= 1 /\ (InPoll' => Walking')
<1>t. count \in Nat /\ next \in Int
  BY DEF IInv, TypeOK, TableType
<1>1. InPoll /\ UNCHANGED <<items, count>>
  BY DispatchSimple
<1>2. PICK idx \in Due :
         /\ idx \in 0 .. count - 1
         /\ next' = idx - 1
         /\ \A i \in Due : i <= idx
         /\ stack' = <<[left |-> Top.left - 1, call |-> callbacks[idx],
                        got |-> items[idx].revents]>>
         /\ callbacks[idx].handle = HandleOf(items[idx])
         /\ callbacks[idx].events = items[idx].events
  BY DispatchSimple
<1>3. Cardinality(Due') = Cardinality(Due) - 1
  BY <1>1, <1>2, DueServed
<1>4. Len(stack') = 1 /\ Top'.left = Top.left - 1 /\ Top'.call = callbacks[idx]
      /\ Top'.got = items[idx].revents
  BY <1>2 DEF Top
<1>5. idx \in 0 .. next /\ items[idx].revents # {}
  BY DEF Due
<1>6. Walking
  BY <1>1 DEF SimpleInv
<1>7. next' < count' /\ \A i \in 0 .. next' : i \in 0 .. next
  BY <1>t, <1>1, <1>2, <1>5
<1>8. \A i \in 0 .. next' : HandleOf(items'[i]) # Top'.call.handle
  <2> SUFFICES ASSUME NEW i \in 0 .. next'
               PROVE  HandleOf(items[i]) # HandleOf(items[idx])
    BY <1>1, <1>2, <1>4
  <2>1. i \in 0 .. count - 1 /\ i # idx
    BY <1>t, <1>2
  <2>2. QED
    BY <1>2, <2>1 DEF SimpleInv, Distinct
<1>9. Top'.got # {} /\ Top'.got \subseteq Top'.call.events
  BY <1>2, <1>4, <1>5, <1>6 DEF Walking
<1>10. Walking'
  BY <1>1, <1>3, <1>4, <1>6, <1>7, <1>8, <1>9 DEF Walking
<1>11. Distinct'
  BY <1>1 DEF SimpleInv, Distinct
<1>12. QED
  BY <1>4, <1>10, <1>11

(* The other steps return from a callback, leave the poll, or touch        *)
(* neither the table nor the poll.                                         *)
LEMMA OthersKeepSimple ==
    ASSUME Simple, IInv, SimpleInv,
           UNCHANGED <<items, count>>,
           \/ UNCHANGED <<next, stack>>
           \/ PollFails
           \/ CallbackReturns
           \/ InPoll /\ stack' = << >>
    PROVE  Distinct' /\ Len(stack') <= 1 /\ (InPoll' => Walking')
<1>1. Distinct'
  BY DEF SimpleInv, Distinct
<1>2. CASE UNCHANGED <<next, stack>>
  BY <1>1, <1>2 DEF SimpleInv, Walking, Due, InCallback, InPoll, Top
<1>3. CASE PollFails
  <2>1. ~InPoll /\ stack' = stack
    BY <1>3 DEF PollFails, MayPoll, Simple
  <2>2. QED
    BY <1>1, <2>1 DEF SimpleInv, InPoll
<1>4. CASE CallbackReturns
  <2> DEFINE f == [Top EXCEPT !.call = NoCallback, !.got = {}]
  <2>1. InPoll /\ stack' = SetTop(f) /\ next' = next
    BY <1>4 DEF CallbackReturns, InCallback, table
  <2>2. f \in Frame /\ f.left = Top.left /\ f.call = NoCallback
    BY <2>1, OneFrame DEF Frame
  <2> HIDE DEF f
  <2>3. stack' = <<f>>
    BY <2>1, <2>2, OneFrame
  <2>4. Len(stack') = 1 /\ Top' = f
    BY <2>3 DEF Top
  <2>5. ~InCallback'
    BY <2>2, <2>4 DEF InCallback
  <2>6. Walking'
    BY <2>1, <2>2, <2>4, <2>5 DEF SimpleInv, Walking, Due
  <2>7. QED
    BY <1>1, <2>4, <2>6
<1>5. CASE InPoll /\ stack' = << >>
  BY <1>1, <1>5 DEF InPoll
<1>6. QED
  BY <1>2, <1>3, <1>4, <1>5

(* An error, and the end of a poll, leave nothing on the stack.            *)
LEMMA LeavingSimple ==
    ASSUME IInv, SimpleInv, CallbackRaises \/ PollReturns
    PROVE  InPoll /\ stack' = << >>
<1>1. InPoll
  BY DEF CallbackRaises, PollReturns, InCallback
<1>2. Len(stack) = 1 /\ SubSeq(stack, 1, 0) = << >>
  BY <1>1, OneFrame
<1>3. \A d \in 0 .. Len(stack) - 1 : d = 0
  BY <1>2
<1>4. CASE CallbackRaises
  BY <1>1, <1>2, <1>3, <1>4 DEF CallbackRaises, Unwind
<1>5. CASE PollReturns
  BY <1>1, <1>2, <1>5 DEF PollReturns
<1>6. QED
  BY <1>4, <1>5

LEMMA SimpleInvStep == Simple /\ IInv /\ SimpleInv /\ [Next]_vars => SimpleInv'
<1> SUFFICES ASSUME Simple, IInv, SimpleInv, [Next]_vars
             PROVE  SimpleInv'
  OBVIOUS
<1>1. Aligned'
  <2>1. ~StrayRemoval
    BY DEF StrayRemoval, Remove, Simple
  <2>2. QED
    BY <2>1, AlignedStep DEF SimpleInv
<1>2. Proper'
  BY ProperStep DEF SimpleInv
<1> DEFINE Goal == Distinct' /\ Len(stack') <= 1 /\ (InPoll' => Walking')
<1> SUFFICES Goal
  BY <1>1, <1>2 DEF SimpleInv
<1>3. ASSUME NEW h \in Handles, NEW ev \in EventMasks,
             Add(h, ev) \/ (h \in Sockets /\ ModifySocket(h, ev))
      PROVE  Goal
  BY <1>3, PlacingKeepsSimple
<1>4. ASSUME NEW h \in Handles, Remove(h)
      PROVE  Goal
  BY <1>4, RemovingKeepsSimple
<1>5. CASE Poll \/ LoopPoll
  BY <1>5, PollKeepsSimple
<1>6. CASE Dispatch
  BY <1>6, DispatchKeepsSimple
<1>7. CASE CallbackReturns \/ PollFails
  BY <1>7, OthersKeepSimple DEF CallbackReturns, PollFails, table
<1>8. CASE CallbackRaises \/ PollReturns
  BY <1>8, LeavingSimple, OthersKeepSimple DEF CallbackRaises, PollReturns, table
<1>9. CASE \/ \E fd \in Fds : ModifyFd(fd)
           \/ Start \/ Stop \/ StartReturns
           \/ \E h \in Handles, c \in Condition : ReadinessChanges(h, c)
           \/ UNCHANGED vars
  <2>1. UNCHANGED <<items, count, next, stack>>
    BY <1>9 DEF ModifyFd, Start, Stop, StartReturns, ReadinessChanges, table, vars
  <2>2. QED
    BY <2>1, OthersKeepSimple
<1>10. QED
  BY <1>3, <1>4, <1>5, <1>6, <1>7, <1>8, <1>9 DEF Next, Handles

LEMMA SimpleInvInit == Init => SimpleInv
<1> SUFFICES ASSUME Init
             PROVE  SimpleInv
  OBVIOUS
<1>1. Aligned /\ Proper /\ Distinct /\ stack = << >>
  BY DEF Init, Aligned, Proper, Distinct
<1>2. QED
  BY <1>1 DEF SimpleInv, InPoll

LEMMA SimpleInductive ==
    ASSUME Simple
    PROVE  Spec => [](IInv /\ SimpleInv)
<1>1. IInv /\ SimpleInv /\ [Next]_vars => SimpleInv'
  BY SimpleInvStep
<1>2. QED
  BY <1>1, IInvInit, IInvStep, SimpleInvInit, PTL DEF Spec

(* However callbacks change the table under the loop of poller:poll, the   *)
(* turns it has left are as many as the slots next_revents_idx will find.  *)
THEOREM TurnsAreSlotsDue ==
    ASSUME Simple
    PROVE  Spec => []ExactDue
<1>1. SimpleInv => ExactDue
  BY DEF SimpleInv, Walking, ExactDue
<1>2. QED
  BY <1>1, SimpleInductive, PTL

(* A callback runs with the events of its own registration, although       *)
(* modify, add and remove leave or move old revents about the table.       *)
THEOREM EventsAreItsOwn ==
    ASSUME Simple
    PROVE  Spec => []GotOwnEvents
<1>1. SimpleInv => GotOwnEvents
  BY DEF SimpleInv, Walking, GotOwnEvents, InCallback
<1>2. QED
  BY <1>1, SimpleInductive, PTL

-----------------------------------------------------------------------------
(* The refinement.  What Reactor sees of the poller:                       *)
Asked == [h \in Handles |-> IF Registered(h) THEN items[ItemOf(h)].events ELSE {}]
DueHandles == IF InPoll THEN {HandleOf(items[i]) : i \in Due} ELSE {}
Active == IF InCallback THEN Top.call.handle ELSE NoSocket

(* A table without duplicates is a function from handles to masks.         *)
AskedIn(its, n) ==
    [h \in Handles |->
        IF \E i \in 0 .. n - 1 : HandleOf(its[i]) = h
        THEN its[CHOOSE i \in 0 .. n - 1 : HandleOf(its[i]) = h].events
        ELSE {}]

LEMMA AskedIsIn ==
    Asked = AskedIn(items, count) /\ Asked' = AskedIn(items', count')
BY DEF Asked, AskedIn, Registered, ItemOf

LEMMA AskedAt ==
    ASSUME NEW its, NEW n,
           \A i, j \in 0 .. n - 1 : HandleOf(its[i]) = HandleOf(its[j]) => i = j,
           NEW h \in Handles
    PROVE  /\ \A i \in 0 .. n - 1 :
                  HandleOf(its[i]) = h => AskedIn(its, n)[h] = its[i].events
           /\ (\A i \in 0 .. n - 1 : HandleOf(its[i]) # h) => AskedIn(its, n)[h] = {}
<1>1. ASSUME NEW i \in 0 .. n - 1, HandleOf(its[i]) = h
      PROVE  AskedIn(its, n)[h] = its[i].events
  <2> DEFINE k == CHOOSE j \in 0 .. n - 1 : HandleOf(its[j]) = h
  <2>1. k \in 0 .. n - 1 /\ HandleOf(its[k]) = h
    BY <1>1
  <2>2. k = i
    BY <1>1, <2>1
  <2>3. AskedIn(its, n)[h] = its[k].events
    BY <1>1 DEF AskedIn
  <2>4. QED
    BY <2>2, <2>3
<1>2. QED
  BY <1>1 DEF AskedIn

LEMMA PlacedIsAsked ==
    ASSUME NEW h \in Handles, NEW ev, NEW idx \in Int, count \in Nat,
           Placed(idx, h, ev), Distinct, Distinct',
           \A i \in 0 .. count - 1 : i # idx => HandleOf(items[i]) # h,
           idx < count => HandleOf(items[idx]) = h
    PROVE  Asked' = [Asked EXCEPT ![h] = ev]
<1>1. ASSUME NEW g \in Handles
      PROVE  AskedIn(items', count')[g] = IF g = h THEN ev ELSE AskedIn(items, count)[g]
  <2>0. /\ \A i, j \in 0 .. count - 1 : HandleOf(items[i]) = HandleOf(items[j]) => i = j
        /\ \A i, j \in 0 .. count' - 1 : HandleOf(items'[i]) = HandleOf(items'[j]) => i = j
    BY DEF Distinct
  <2>1. CASE g = h
    <3>1. idx \in 0 .. count' - 1 /\ HandleOf(items'[idx]) = h /\ items'[idx].events = ev
      BY DEF Placed
    <3>2. \A i \in 0 .. count' - 1 :
              HandleOf(items'[i]) = g => AskedIn(items', count')[g] = items'[i].events
      BY <2>0, AskedAt
    <3>3. QED
      BY <2>1, <3>1, <3>2
  <2>2. CASE g # h /\ \E i \in 0 .. count - 1 : HandleOf(items[i]) = g
    <3>1. PICK i \in 0 .. count - 1 : HandleOf(items[i]) = g
      BY <2>2
    <3>2. i # idx /\ i \in 0 .. count' - 1 /\ items'[i] = items[i]
      BY <2>2, <3>1 DEF Placed
    <3>3. QED
      BY <2>0, <2>2, <3>1, <3>2, AskedAt
  <2>3. CASE g # h /\ ~ \E i \in 0 .. count - 1 : HandleOf(items[i]) = g
    <3>1. \A i \in 0 .. count' - 1 : HandleOf(items'[i]) # g
      BY <2>3 DEF Placed
    <3>2. AskedIn(items', count')[g] = {}
      BY <2>0, <3>1, AskedAt
    <3>3. AskedIn(items, count)[g] = {}
      BY <2>0, <2>3, AskedAt
    <3>4. QED
      BY <2>3, <3>2, <3>3
  <2>4. QED
    BY <2>1, <2>2, <2>3
<1>2. AskedIn(items', count') = [AskedIn(items, count) EXCEPT ![h] = ev]
  BY <1>1 DEF AskedIn
<1>3. QED
  BY <1>2, AskedIsIn

LEMMA RemovedIsNotAsked ==
    ASSUME NEW h \in Handles, NEW idx \in 0 .. count - 1, count \in Nat,
           HandleOf(items[idx]) = h, count' = count - 1,
           \A i \in 0 .. count' - 1 :
               items'[i] = IF i < idx THEN items[i] ELSE items[i + 1],
           Distinct, Distinct'
    PROVE  Asked' = [Asked EXCEPT ![h] = {}]
<1>1. ASSUME NEW g \in Handles
      PROVE  AskedIn(items', count')[g] = IF g = h THEN {} ELSE AskedIn(items, count)[g]
  <2>0. /\ \A i, j \in 0 .. count - 1 : HandleOf(items[i]) = HandleOf(items[j]) => i = j
        /\ \A i, j \in 0 .. count' - 1 : HandleOf(items'[i]) = HandleOf(items'[j]) => i = j
    BY DEF Distinct
  <2> DEFINE from(k) == IF k < idx THEN k ELSE k + 1
  <2>1. \A i \in 0 .. count' - 1 : /\ items'[i] = items[from(i)]
                                   /\ from(i) \in 0 .. count - 1 /\ from(i) # idx
    OBVIOUS
  <2>2. CASE g = h
    <3>1. ASSUME NEW i \in 0 .. count' - 1, HandleOf(items'[i]) = g
          PROVE  FALSE
      <4>1. HandleOf(items[from(i)]) = HandleOf(items[idx])
        BY <2>1, <2>2, <3>1
      <4>2. from(i) \in 0 .. count - 1 /\ from(i) # idx
        BY <2>1
      <4> HIDE DEF from
      <4>3. QED
        BY <2>0, <4>1, <4>2
    <3>2. QED
      BY <2>0, <2>2, <3>1, AskedAt
  <2>3. CASE g # h /\ \E i \in 0 .. count - 1 : HandleOf(items[i]) = g
    <3>1. PICK i \in 0 .. count - 1 : HandleOf(items[i]) = g
      BY <2>3
    <3> DEFINE to == IF i < idx THEN i ELSE i - 1
    <3>2. i # idx
      BY <2>3, <3>1
    <3>3. to \in 0 .. count' - 1 /\ items'[to] = items[i]
      BY <3>2
    <3> HIDE DEF to
    <3>4. QED
      BY <2>0, <2>3, <3>1, <3>3, AskedAt
  <2>4. CASE g # h /\ ~ \E i \in 0 .. count - 1 : HandleOf(items[i]) = g
    <3>1. \A i \in 0 .. count' - 1 : HandleOf(items'[i]) # g
      BY <2>1, <2>4
    <3>2. AskedIn(items', count')[g] = {}
      BY <2>0, <3>1, AskedAt
    <3>3. AskedIn(items, count)[g] = {}
      BY <2>0, <2>4, AskedAt
    <3>4. QED
      BY <2>4, <3>2, <3>3
  <2>5. QED
    BY <2>2, <2>3, <2>4
<1>2. AskedIn(items', count') = [AskedIn(items, count) EXCEPT ![h] = {}]
  BY <1>1 DEF AskedIn
<1>3. QED
  BY <1>2, AskedIsIn

LEMMA SameAsked ==
    ASSUME count' = count, Distinct,
           \A i \in 0 .. count - 1 : /\ HandleOf(items'[i]) = HandleOf(items[i])
                                     /\ items'[i].events = items[i].events
    PROVE  Asked' = Asked
<1>1. ASSUME NEW g \in Handles
      PROVE  AskedIn(items', count')[g] = AskedIn(items, count)[g]
  <2>0. /\ \A i, j \in 0 .. count - 1 : HandleOf(items[i]) = HandleOf(items[j]) => i = j
        /\ \A i, j \in 0 .. count' - 1 : HandleOf(items'[i]) = HandleOf(items'[j]) => i = j
    BY DEF Distinct
  <2>1. CASE \E i \in 0 .. count - 1 : HandleOf(items[i]) = g
    <3>1. PICK i \in 0 .. count - 1 : HandleOf(items[i]) = g
      BY <2>1
    <3>2. AskedIn(items, count)[g] = items[i].events
      BY <2>0, <3>1, AskedAt
    <3>3. i \in 0 .. count' - 1 /\ HandleOf(items'[i]) = g
      BY <3>1
    <3>4. AskedIn(items', count')[g] = items'[i].events
      BY <2>0, <3>3, AskedAt
    <3>5. QED
      BY <3>2, <3>4
  <2>2. CASE ~ \E i \in 0 .. count - 1 : HandleOf(items[i]) = g
    <3>1. AskedIn(items, count)[g] = {}
      BY <2>0, <2>2, AskedAt
    <3>2. \A i \in 0 .. count' - 1 : HandleOf(items'[i]) # g
      BY <2>2
    <3>3. AskedIn(items', count')[g] = {}
      BY <2>0, <3>2, AskedAt
    <3>4. QED
      BY <3>1, <3>3
  <2>3. QED
    BY <2>1, <2>2
<1>2. AskedIn(items', count') = AskedIn(items, count)
  BY <1>1 DEF AskedIn
<1>3. QED
  BY <1>2, AskedIsIn
(* The steps of Reactor in terms of what it sees.                          *)
LEMMA ReactorSees ==
    /\ R!Init <=> Asked = [h \in Handles |-> {}] /\ DueHandles = {} /\ Active = NoSocket
    /\ \A h \in Handles, ev \in (SUBSET Condition) \ {{}} :
          /\ Active # NoSocket \/ DueHandles = {}
          /\ Asked' = [Asked EXCEPT ![h] = ev]
          /\ DueHandles' = DueHandles /\ Active' = Active
          => R!Next
    /\ \A h \in Handles :
          /\ Active # NoSocket \/ DueHandles = {}
          /\ Asked' = [Asked EXCEPT ![h] = {}]
          /\ DueHandles' = DueHandles \ {h} /\ Active' = Active
          => R!Next
    /\ /\ DueHandles = {} /\ Active = NoSocket
       /\ DueHandles' \subseteq {h \in Handles : Asked[h] # {}}
       /\ Asked' = Asked /\ Active' = Active
       => R!Next
    /\ \A h \in Handles :
          /\ Active = NoSocket /\ h \in DueHandles
          /\ Active' = h /\ DueHandles' = DueHandles \ {h}
          /\ Asked' = Asked
          => R!Next
    /\ /\ Active' = NoSocket /\ Asked' = Asked /\ DueHandles' = DueHandles
       => R!Next
    /\ /\ Active # NoSocket /\ Active' = NoSocket /\ DueHandles' = {}
       /\ Asked' = Asked
       => R!Next
    /\ UNCHANGED R!vars <=> UNCHANGED <<Asked, DueHandles, Active>>
<1>1. R!Init <=> Asked = [h \in Handles |-> {}] /\ DueHandles = {} /\ Active = NoSocket
  BY DEF R!Init, Asked, DueHandles, Active
<1>2. ASSUME NEW h \in Handles, NEW ev \in (SUBSET Condition) \ {{}},
             Active # NoSocket \/ DueHandles = {},
             Asked' = [Asked EXCEPT ![h] = ev],
             DueHandles' = DueHandles, Active' = Active
      PROVE  R!Next
  <2>1. R!Register(h, ev)
    BY <1>2 DEF R!Register, R!AppCode, Asked, DueHandles, Active
  <2>2. QED
    BY <2>1 DEF R!Next
<1>3. ASSUME NEW h \in Handles,
             Active # NoSocket \/ DueHandles = {},
             Asked' = [Asked EXCEPT ![h] = {}],
             DueHandles' = DueHandles \ {h}, Active' = Active
      PROVE  R!Next
  <2>1. R!Unregister(h)
    BY <1>3 DEF R!Unregister, R!AppCode, Asked, DueHandles, Active
  <2>2. QED
    BY <2>1 DEF R!Next
<1>4. ASSUME DueHandles = {}, Active = NoSocket,
             DueHandles' \subseteq {h \in Handles : Asked[h] # {}},
             Asked' = Asked, Active' = Active
      PROVE  R!Next
  <2> DEFINE D == DueHandles'
  <2>1. R!Poll(D)
    BY <1>4 DEF R!Poll, Asked, DueHandles, Active
  <2>2. D \in SUBSET R!Registered
    BY <1>4 DEF R!Registered, Asked
  <2> HIDE DEF D
  <2>3. QED
    BY <2>1, <2>2 DEF R!Next
<1>5. ASSUME NEW h \in Handles, Active = NoSocket, h \in DueHandles,
             Active' = h, DueHandles' = DueHandles \ {h}, Asked' = Asked
      PROVE  R!Next
  <2>1. R!Dispatch(h)
    BY <1>5 DEF R!Dispatch, Asked, DueHandles, Active
  <2>2. QED
    BY <2>1 DEF R!Next
<1>6. ASSUME Active' = NoSocket, Asked' = Asked, DueHandles' = DueHandles
      PROVE  R!Next
  <2>1. R!Return
    BY <1>6 DEF R!Return, Asked, DueHandles, Active
  <2>2. QED
    BY <2>1 DEF R!Next
<1>7. ASSUME Active # NoSocket, Active' = NoSocket, DueHandles' = {}, Asked' = Asked
      PROVE  R!Next
  <2>1. R!Abort
    BY <1>7 DEF R!Abort, Asked, DueHandles, Active
  <2>2. QED
    BY <2>1 DEF R!Next
<1>8. UNCHANGED R!vars <=> UNCHANGED <<Asked, DueHandles, Active>>
  BY DEF R!vars, Asked, DueHandles, Active
<1> HIDE DEF Asked, DueHandles, Active
<1>9. QED
  BY <1>1, <1>2, <1>3, <1>4, <1>5, <1>6, <1>7, <1>8

(* The control of the poller as Reactor sees it.                           *)
LEMMA AppCodeSeen ==
    ASSUME IInv, AppCode
    PROVE  Active # NoSocket \/ DueHandles = {}
<1>1. CASE InCallback
  <2>1. Top.call \in Callback
    <3>1. stack \in Seq(Frame) /\ InPoll
      BY <1>1 DEF IInv, TypeOK, ControlType, InCallback
    <3>2. Top \in Frame
      BY <3>1, TopIsFrame
    <3>3. QED
      BY <1>1, <3>2 DEF Frame, InCallback
  <2>2. QED
    BY <1>1, <2>1, CallbackKnown DEF Active
<1>2. CASE ~InPoll
  BY <1>2 DEF DueHandles
<1>3. QED
  BY <1>1, <1>2 DEF AppCode

LEMMA SameActive ==
    ASSUME stack' = stack
    PROVE  Active' = Active /\ InPoll' = InPoll
BY DEF Active, InCallback, InPoll, Top

(* What add and modify change is not due: the walk has it behind it.       *)
LEMMA PlacingLeavesDue ==
    ASSUME Simple, IInv, SimpleInv, NEW h \in Handles, NEW ev \in EventMasks,
           Add(h, ev) \/ (h \in Sockets /\ ModifySocket(h, ev))
    PROVE  DueHandles' = DueHandles
<1>t. count \in Nat /\ next \in Int
  BY DEF IInv, TypeOK, TableType
<1>1. PICK idx : /\ Placed(idx, h, ev) /\ idx \in Int
                 /\ InPoll => idx > next
  BY PlacingSimple
<1>2. UNCHANGED <<next, stack>>
  BY PlacingSimple
<1>3. CASE InPoll
  <2>1. next < count
    BY <1>3 DEF SimpleInv, Walking
  <2>2. next < count' /\ \A i \in 0 .. next : items'[i] = items[i]
    BY <1>t, <1>1, <1>3, <2>1, PlacedAbove
  <2>3. Due' = Due /\ Due \subseteq 0 .. next
    BY <1>2, <2>2 DEF Due
  <2>4. \A i \in Due : HandleOf(items'[i]) = HandleOf(items[i])
    BY <2>2, <2>3
  <2>5. InPoll'
    BY <1>2, <1>3, SameActive
  <2>6. QED
    BY <1>3, <2>3, <2>4, <2>5 DEF DueHandles
<1>4. CASE ~InPoll
  BY <1>2, <1>4, SameActive DEF DueHandles
<1>5. QED
  BY <1>3, <1>4

(* add and modify register a handle with Reactor.                          *)
LEMMA PlacingRegisters ==
    ASSUME Simple, IInv, SimpleInv, SimpleInv', NEW h \in Handles, NEW ev \in EventMasks,
           Add(h, ev) \/ (h \in Sockets /\ ModifySocket(h, ev))
    PROVE  R!Next
<1>1. PICK idx : /\ Placed(idx, h, ev) /\ idx \in Int
                 /\ \A i \in 0 .. count - 1 : i # idx => HandleOf(items[i]) # h
                 /\ idx < count => HandleOf(items[idx]) = h
  BY PlacingSimple
<1>2. stack' = stack
  BY PlacingSimple
<1>3. Asked' = [Asked EXCEPT ![h] = ev]
  <2>1. count \in Nat /\ Distinct /\ Distinct'
    BY DEF IInv, TypeOK, TableType, SimpleInv
  <2>2. QED
    BY <1>1, <2>1, PlacedIsAsked
<1>4. DueHandles' = DueHandles
  BY PlacingLeavesDue
<1>5. Active # NoSocket \/ DueHandles = {}
  BY AppCodeSeen DEF Add, ModifySocket
<1>6. ev \in (SUBSET Condition) \ {{}}
  BY EventsAssumption
<1>7. QED
  BY <1>2, <1>3, <1>4, <1>5, <1>6, SameActive, ReactorSees

(* remove unregisters one.                                                 *)
LEMMA RemovingUnregisters ==
    ASSUME Simple, IInv, SimpleInv, SimpleInv', NEW h \in Handles, Remove(h)
    PROVE  R!Next
<1>t. count \in Nat /\ next \in Int
  BY DEF IInv, TypeOK, TableType
<1> DEFINE idx == FindItem(h)
<1>1. /\ idx \in 0 .. count - 1 /\ HandleOf(items[idx]) = h
      /\ count' = count - 1
      /\ \A i \in 0 .. count' - 1 :
            items'[i] = IF i < idx THEN items[i] ELSE items[i + 1]
      /\ InPoll => idx > next
      /\ UNCHANGED <<next, stack>>
  BY RemovingSimple
<1> HIDE DEF idx
<1>2. Asked' = [Asked EXCEPT ![h] = {}]
  BY <1>t, <1>1, RemovedIsNotAsked DEF SimpleInv
<1>3. DueHandles' = DueHandles /\ h \notin DueHandles
  <2>1. CASE InPoll
    <3>1. next < count
      BY <2>1 DEF SimpleInv, Walking
    <3>2. \A i \in 0 .. next : items'[i] = items[i] /\ i # idx /\ i \in 0 .. count - 1
      BY <1>t, <1>1, <2>1, <3>1
    <3>3. Due' = Due /\ Due \subseteq 0 .. next
      BY <1>1, <3>2 DEF Due
    <3>4. \A i \in Due : /\ HandleOf(items'[i]) = HandleOf(items[i])
                         /\ HandleOf(items[i]) # h
      BY <1>1, <3>2, <3>3 DEF SimpleInv, Distinct
    <3>5. InPoll'
      BY <1>1, <2>1, SameActive
    <3>6. QED
      BY <2>1, <3>3, <3>4, <3>5 DEF DueHandles
  <2>2. CASE ~InPoll
    BY <1>1, <2>2, SameActive DEF DueHandles
  <2>3. QED
    BY <2>1, <2>2
<1>4. Active # NoSocket \/ DueHandles = {}
  BY AppCodeSeen DEF Remove
<1>5. DueHandles' = DueHandles \ {h}
  BY <1>3
<1>6. QED
  BY <1>1, <1>2, <1>4, <1>5, SameActive, ReactorSees

(* A poll makes registered handles due.                                    *)
LEMMA PollingPolls ==
    ASSUME Simple, IInv, SimpleInv, SimpleInv', Poll \/ LoopPoll
    PROVE  R!Next
<1>t. count \in Nat
  BY DEF IInv, TypeOK, TableType
<1>1. /\ ~InPoll /\ UNCHANGED count
      /\ \A i \in 0 .. count - 1 :
            /\ HandleOf(items'[i]) = HandleOf(items[i])
            /\ items'[i].events = items[i].events
            /\ items'[i].revents \subseteq items[i].events
      /\ \/ stack' = stack
         \/ /\ next' = count - 1
            /\ stack' = <<[left |-> Cardinality(Due'), call |-> NoCallback, got |-> {}]>>
  BY PollSimple
<1>2. Asked' = Asked
  BY <1>1, SameAsked DEF SimpleInv
<1>3. DueHandles = {} /\ Active = NoSocket
  BY <1>1 DEF DueHandles, Active, InCallback
<1>4. CASE stack' = stack
  <2>1. ~InPoll' /\ Active' = Active
    BY <1>1, <1>4, SameActive
  <2>2. DueHandles' = {}
    BY <2>1 DEF DueHandles
  <2>3. QED
    BY <1>2, <1>3, <2>1, <2>2, ReactorSees
<1>5. CASE /\ next' = count - 1
           /\ stack' = <<[left |-> Cardinality(Due'), call |-> NoCallback, got |-> {}]>>
  <2>1. Top'.call = NoCallback
    BY <1>5 DEF Top
  <2>2. Active' = NoSocket
    BY <2>1 DEF Active, InCallback
  <2>3. ASSUME NEW i \in Due'
        PROVE  HandleOf(items'[i]) \in {h \in Handles : Asked[h] # {}}
    <3>1. i \in 0 .. count - 1 /\ items'[i].revents # {}
      BY <1>5 DEF Due
    <3>2. items[i].events # {} /\ Whole(items[i])
      BY <1>1, <3>1 DEF SimpleInv, Proper
    <3> DEFINE g == HandleOf(items[i])
    <3>3. g \in Handles
      BY <3>2, CallbackKnown DEF Whole, HandleOf, Handles
    <3>4. \A k, j \in 0 .. count - 1 : HandleOf(items[k]) = HandleOf(items[j]) => k = j
      BY DEF SimpleInv, Distinct
    <3>5. AskedIn(items, count)[g] = items[i].events
      BY <3>1, <3>3, <3>4, AskedAt
    <3>6. Asked[g] # {} /\ HandleOf(items'[i]) = g
      BY <1>1, <3>1, <3>2, <3>5, AskedIsIn
    <3>7. QED
      BY <3>3, <3>6
  <2>4. DueHandles' \subseteq {h \in Handles : Asked[h] # {}}
    BY <2>3 DEF DueHandles
  <2>5. QED
    BY <1>2, <1>3, <2>2, <2>4, ReactorSees
<1>6. QED
  BY <1>1, <1>4, <1>5

(* A turn of the loop serves the handle of one slot.                       *)
LEMMA DispatchServes ==
    ASSUME Simple, IInv, SimpleInv, SimpleInv', Dispatch
    PROVE  R!Next
<1>1. InPoll /\ ~InCallback /\ UNCHANGED <<items, count>>
  BY DispatchSimple
<1>2. PICK idx \in Due :
         /\ idx \in 0 .. count - 1
         /\ next' = idx - 1
         /\ \A i \in Due : i <= idx
         /\ stack' = <<[left |-> Top.left - 1, call |-> callbacks[idx],
                        got |-> items[idx].revents]>>
         /\ callbacks[idx].handle = HandleOf(items[idx])
         /\ callbacks[idx] # NoCallback
  BY DispatchSimple
<1> DEFINE h == HandleOf(items[idx])
<1>3. h \in Handles
  BY <1>2, CallbackKnown DEF SimpleInv, Proper, Whole, HandleOf, Handles
<1>4. Top'.call = callbacks[idx] /\ InPoll'
  BY <1>2 DEF Top, InPoll
<1>5. Active' = h /\ Active = NoSocket
  BY <1>1, <1>2, <1>4 DEF Active, InCallback
<1>6. Due' = Due \ {idx}
  BY <1>1, <1>2, DueServed
<1>7. \A i \in Due : i \in 0 .. count - 1
  <2>1. next < count /\ count \in Nat /\ next \in Int
    BY <1>1 DEF SimpleInv, Walking, IInv, TypeOK, TableType
  <2>2. QED
    BY <2>1 DEF Due
<1>8. \A i \in Due \ {idx} : HandleOf(items[i]) # h
  BY <1>2, <1>7 DEF SimpleInv, Distinct
<1>9. DueHandles = {HandleOf(items[i]) : i \in Due}
      /\ DueHandles' = {HandleOf(items[i]) : i \in Due \ {idx}}
  BY <1>1, <1>4, <1>6 DEF DueHandles
<1>10. h \in DueHandles /\ DueHandles' = DueHandles \ {h}
  BY <1>8, <1>9
<1>11. Asked' = Asked
  BY <1>1, SameAsked DEF SimpleInv
<1> HIDE DEF h
<1>12. QED
  BY <1>3, <1>5, <1>10, <1>11, ReactorSees

(* A callback that returns is over; one that raises takes the poll along.  *)
LEMMA CallbackEnds ==
    ASSUME Simple, IInv, SimpleInv, CallbackReturns \/ CallbackRaises
    PROVE  R!Next
<1>1. InCallback /\ InPoll /\ UNCHANGED <<items, count, next>>
  BY DEF CallbackReturns, CallbackRaises, InCallback, table
<1>2. Asked' = Asked
  BY <1>1, SameAsked DEF SimpleInv
<1>3. CASE CallbackReturns
  <2> DEFINE f == [Top EXCEPT !.call = NoCallback, !.got = {}]
  <2>1. stack' = SetTop(f)
    BY <1>3 DEF CallbackReturns
  <2>2. f \in Frame /\ f.call = NoCallback
    BY <1>1, OneFrame DEF Frame
  <2> HIDE DEF f
  <2>3. stack' = <<f>>
    BY <1>1, <2>1, <2>2, OneFrame
  <2>4. Top' = f /\ InPoll'
    BY <2>3 DEF Top, InPoll
  <2>5. Active' = NoSocket
    BY <2>2, <2>4 DEF Active, InCallback
  <2>6. DueHandles' = DueHandles
    BY <1>1, <2>4 DEF DueHandles, Due
  <2>7. QED
    BY <1>2, <2>5, <2>6, ReactorSees
<1>4. CASE CallbackRaises
  <2>1. stack' = << >>
    BY <1>4, LeavingSimple
  <2>2. Active' = NoSocket /\ DueHandles' = {}
    BY <2>1 DEF Active, InCallback, InPoll, DueHandles
  <2>3. Active # NoSocket
    BY <1>1, AppCodeSeen, OneFrame, CallbackKnown DEF Active, InCallback
  <2>4. QED
    BY <1>2, <2>2, <2>3, ReactorSees
<1>5. QED
  BY <1>3, <1>4

(* What else happens shows nothing to Reactor.                             *)
LEMMA OthersStutter ==
    ASSUME Simple, IInv, SimpleInv,
           UNCHANGED <<items, count>>,
           UNCHANGED <<next, stack>> \/ PollFails \/ PollReturns
    PROVE  UNCHANGED R!vars
<1>1. Asked' = Asked
  BY SameAsked DEF SimpleInv
<1>2. CASE UNCHANGED <<next, stack>>
  <2>1. Active' = Active /\ InPoll' = InPoll /\ Due' = Due
    BY <1>2, SameActive DEF Due
  <2>2. DueHandles' = DueHandles
    BY <2>1 DEF DueHandles
  <2>3. QED
    BY <1>1, <2>1, <2>2, ReactorSees
<1>3. CASE PollFails
  <2>1. ~InPoll /\ stack' = stack
    BY <1>3 DEF PollFails, MayPoll, Simple
  <2>2. Active' = Active /\ ~InPoll'
    BY <2>1, SameActive
  <2>3. DueHandles' = DueHandles
    BY <2>1, <2>2 DEF DueHandles
  <2>4. QED
    BY <1>1, <2>2, <2>3, ReactorSees
<1>4. CASE PollReturns
  <2>1. InPoll /\ ~InCallback /\ Top.left = 0 /\ stack' = << >>
    BY <1>4, LeavingSimple DEF PollReturns
  <2>2. Due = {}
    <3>1. Cardinality(Due) = 0 /\ IsFiniteSet(Due)
      BY <2>1, DueFinite DEF SimpleInv, Walking
    <3>2. QED
      BY <3>1, FS_EmptySet
  <2>3. Active = NoSocket /\ DueHandles = {}
    BY <2>1, <2>2 DEF Active, DueHandles
  <2>4. Active' = NoSocket /\ DueHandles' = {}
    BY <2>1 DEF Active, InCallback, InPoll, DueHandles
  <2>5. QED
    BY <1>1, <2>3, <2>4, ReactorSees
<1>5. QED
  BY <1>2, <1>3, <1>4

LEMMA ReactorStep ==
    ASSUME Simple, IInv, SimpleInv, SimpleInv', [Next]_vars
    PROVE  [R!Next]_(R!vars)
<1> DEFINE Goal == R!Next \/ UNCHANGED R!vars
<1> SUFFICES Goal
  OBVIOUS
<1>1. ASSUME NEW h \in Handles, NEW ev \in EventMasks,
             Add(h, ev) \/ (h \in Sockets /\ ModifySocket(h, ev))
      PROVE  Goal
  BY <1>1, PlacingRegisters
<1>2. ASSUME NEW h \in Handles, Remove(h)
      PROVE  Goal
  BY <1>2, RemovingUnregisters
<1>3. CASE Poll \/ LoopPoll
  BY <1>3, PollingPolls
<1>4. CASE Dispatch
  BY <1>4, DispatchServes
<1>5. CASE CallbackReturns \/ CallbackRaises
  BY <1>5, CallbackEnds
<1>6. CASE PollFails \/ PollReturns
  BY <1>6, OthersStutter DEF PollFails, PollReturns, table
<1>7. CASE \/ \E fd \in Fds : ModifyFd(fd)
           \/ Start \/ Stop \/ StartReturns
           \/ \E h \in Handles, c \in Condition : ReadinessChanges(h, c)
           \/ UNCHANGED vars
  <2>1. UNCHANGED <<items, count, next, stack>>
    BY <1>7 DEF ModifyFd, Start, Stop, StartReturns, ReadinessChanges, table, vars
  <2>2. QED
    BY <2>1, OthersStutter
<1> HIDE DEF Goal
<1>8. QED
  BY <1>1, <1>2, <1>3, <1>4, <1>5, <1>6, <1>7 DEF Next, Handles

(* In the simplest use a poll runs the callback of every handle found      *)
(* ready, once, unless it was unregistered meanwhile, and of no other.     *)
THEOREM PollerImplementsReactor ==
    ASSUME Simple
    PROVE  Spec => ImplementsReactor
<1>1. Init => R!Init
  <2>1. Init => Asked = [h \in Handles |-> {}] /\ DueHandles = {} /\ Active = NoSocket
    BY DEF Init, Asked, Registered, DueHandles, Active, InCallback, InPoll
  <2>2. QED
    BY <2>1, ReactorSees
<1>2. IInv /\ SimpleInv /\ SimpleInv' /\ [Next]_vars => [R!Next]_(R!vars)
  BY ReactorStep
<1>3. QED
  BY <1>1, <1>2, SimpleInductive, PTL DEF Spec, R!Spec, ImplementsReactor
=============================================================================
