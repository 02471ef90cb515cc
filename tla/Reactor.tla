------------------------------ MODULE Reactor ------------------------------
(***************************************************************************)
(* What a poller promises its application, whatever the table behind it    *)
(* looks like.  A handle is registered with a set of conditions; a poll    *)
(* finds some registered handles due; the callbacks of the due handles are *)
(* run one at a time and nothing else is run; the poll ends when no handle *)
(* is due.  A callback may register and unregister: an unregistered handle *)
(* is no longer due, and nothing but a poll makes a handle due.            *)
(***************************************************************************)

CONSTANTS Handle,     \* what can be registered
          Condition,  \* what can be waited for
          NoHandle    \* no callback is running

VARIABLES interest,   \* the conditions each handle is registered with
          due,        \* the handles the running poll has still to serve
          active      \* the handle whose callback is running

vars == <<interest, due, active>>

Registered == {h \in Handle : interest[h] # {}}

(* Application code runs outside polls and inside callbacks.               *)
AppCode == active # NoHandle \/ due = {}

Init ==
    /\ interest = [h \in Handle |-> {}]
    /\ due = {}
    /\ active = NoHandle

(* Registers a handle or changes what it waits for.                        *)
Register(h, ev) ==
    /\ AppCode
    /\ interest' = [interest EXCEPT ![h] = ev]
    /\ UNCHANGED <<due, active>>

Unregister(h) ==
    /\ AppCode
    /\ interest' = [interest EXCEPT ![h] = {}]
    /\ due' = due \ {h}
    /\ UNCHANGED active

Poll(D) ==
    /\ due = {} /\ active = NoHandle
    /\ due' = D
    /\ UNCHANGED <<interest, active>>

Dispatch(h) ==
    /\ active = NoHandle
    /\ h \in due
    /\ active' = h
    /\ due' = due \ {h}
    /\ UNCHANGED interest

Return ==
    /\ active' = NoHandle
    /\ UNCHANGED <<interest, due>>

(* An error raised by the callback ends the poll.                          *)
Abort ==
    /\ active # NoHandle
    /\ active' = NoHandle
    /\ due' = {}
    /\ UNCHANGED interest

Next ==
    \/ \E h \in Handle, ev \in (SUBSET Condition) \ {{}} : Register(h, ev)
    \/ \E h \in Handle : Unregister(h)
    \/ \E D \in SUBSET Registered : Poll(D)
    \/ \E h \in Handle : Dispatch(h)
    \/ Return
    \/ Abort

Spec == Init /\ [][Next]_vars
=============================================================================
