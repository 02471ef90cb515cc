----------------------------- MODULE Countdown -----------------------------
(***************************************************************************)
(* What a started monotonic timer promises the loops that wait on it.  It  *)
(* starts with its whole interval to go; from there the rest only falls,   *)
(* and stays at zero once it is there, until the timer is armed again or   *)
(* given another interval.                                                 *)
(***************************************************************************)
EXTENDS Naturals

CONSTANT Timers

VARIABLES armed,     \* timers that are started and have an interval
          interval,  \* the interval of an armed timer, otherwise 0
          rest       \* what rest() answers for an armed timer, otherwise 0

vars == <<armed, interval, rest>>

Init ==
    /\ armed = {}
    /\ interval = [t \in Timers |-> 0]
    /\ rest = [t \in Timers |-> 0]

(* The timer is started: all of the interval is to go.                     *)
Arm(t) ==
    /\ armed' = armed \cup {t}
    /\ interval'[t] \in Nat
    /\ interval' = [interval EXCEPT ![t] = interval'[t]]
    /\ rest' = [rest EXCEPT ![t] = interval'[t]]

(* A started timer is given its interval: some of it is over.              *)
Stretch(t) ==
    /\ armed' = armed \cup {t}
    /\ t \in armed => interval'[t] # interval[t]
    /\ interval'[t] \in Nat
    /\ interval' = [interval EXCEPT ![t] = interval'[t]]
    /\ rest'[t] \in 0 .. interval'[t]
    /\ rest' = [rest EXCEPT ![t] = rest'[t]]

Disarm(t) ==
    /\ armed' = armed \ {t}
    /\ interval' = [interval EXCEPT ![t] = 0]
    /\ rest' = [rest EXCEPT ![t] = 0]

(* Time takes from every rest; the timers it has run out of count no more. *)
TimePasses ==
    /\ armed' \subseteq armed
    /\ interval' = [t \in Timers |-> IF t \in armed' THEN interval[t] ELSE 0]
    /\ rest' \in [Timers -> Nat]
    /\ \A t \in Timers : rest'[t] <= rest[t]
    /\ \A t \in Timers \ armed' : rest'[t] = 0

Next ==
    \/ \E t \in Timers : Arm(t) \/ Stretch(t) \/ Disarm(t)
    \/ TimePasses

Spec == Init /\ [][Next]_vars
=============================================================================
