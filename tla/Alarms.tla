------------------------------- MODULE Alarms -------------------------------
(***************************************************************************)
(* What the event loop promises of its timed events.  An event is armed,   *)
(* becomes due in time, and its callback is called, never while it is      *)
(* still running.  When the callback returns, a one-shot event is disarmed *)
(* and another is armed anew, unless the callback disarmed it.             *)
(***************************************************************************)

CONSTANTS Event

VARIABLES armed,    \* events that wait for their time
          due,      \* armed events whose time has come
          oneshot,  \* events to disarm after the callback
          running   \* events whose callback runs

vars == <<armed, due, oneshot, running>>

Init == armed = {} /\ due = {} /\ oneshot = {} /\ running = {}

Arm(e) ==
    /\ armed' = armed \cup {e}
    /\ due' \in {due \cup {e}, due \ {e}}
    /\ oneshot' \in {oneshot \cup {e}, oneshot \ {e}}
    /\ UNCHANGED running

Disarm(e) ==
    /\ armed' = armed \ {e}
    /\ due' = due \ {e}
    /\ UNCHANGED <<oneshot, running>>

TimePasses ==
    /\ due' \in SUBSET armed
    /\ due \subseteq due'
    /\ UNCHANGED <<armed, oneshot, running>>

Call(e) ==
    /\ e \in due \ running
    /\ running' = running \cup {e}
    /\ UNCHANGED <<armed, due, oneshot>>

Return(e) ==
    /\ e \in running
    /\ running' = running \ {e}
    /\ IF e \in oneshot THEN armed' = armed \ {e} ELSE armed' = armed
    /\ due' \in IF e \in armed' THEN {due \cup {e}, due \ {e}} ELSE {due \ {e}}
    /\ UNCHANGED oneshot

(* An error in a callback ends it, and the callbacks that wait for it.     *)
Abort ==
    /\ running' \in SUBSET running
    /\ UNCHANGED <<armed, due, oneshot>>

Next ==
    \/ \E e \in Event : Arm(e) \/ Disarm(e) \/ Call(e) \/ Return(e)
    \/ TimePasses
    \/ Abort

Spec == Init /\ [][Next]_vars
=============================================================================
