------------------------------- MODULE Timer -------------------------------
(***************************************************************************)
(* The timers of ztimer.c: a monotonic timer has an interval and counts    *)
(* from its start; an absolute timer has a deadline on the system clock.   *)
(*                                                                         *)
(* True time is `now', counted in units finer than a millisecond.  What    *)
(* the code sees of it is a reading, which depends on the build: a tick    *)
(* counter of limited width, a wide one, a performance counter, the        *)
(* monotonic clock of the system, or the system clock where there is no    *)
(* other.  The system clock can be set; the others only advance.  A call   *)
(* that raises changes nothing and is a stuttering step.                   *)
(***************************************************************************)
EXTENDS Integers

CONSTANTS Mon,        \* monotonic timers
          Abs,        \* absolute timers
          Ms,         \* units of time in a millisecond
          Period,     \* the tick counter runs from 0 to Period - 1
          Durations,  \* intervals given to monotonic timers
          Deadlines,  \* points of time given to absolute timers
          NoNumber,   \* the optional argument that is not given
          MaxTime,    \* bound: units of true time
          MaxUtc,     \* bound: units of the system clock
          Builds      \* the builds of the library

AllBuilds == {"tick", "tick64", "perf", "posix", "utc"}

ASSUME ClockAssumption ==
    /\ Ms \in Nat \ {0}
    /\ Period \in Nat \ {0}
    /\ MaxTime \in Nat /\ MaxUtc \in Nat
    /\ Builds \subseteq AllBuilds

ASSUME ArgumentsAssumption ==
    /\ Durations \subseteq Nat /\ Deadlines \subseteq Nat
    /\ NoNumber \notin Durations \cup Deadlines
    /\ Mon \cap Abs = {}

VARIABLES build,  \* how the library was built
          now,    \* true time
          utc,    \* the system clock, in the units of now
          mon,    \* the monotonic timers that were created
          abs,    \* the absolute timers that were created
          began   \* true time when a monotonic timer was started last

clocks == <<build, now, utc>>
vars == <<clocks, mon, abs, began>>

-----------------------------------------------------------------------------
(* The clocks.                                                             *)

(* The distance from s to e, as a signed number.                           *)
U64Delta(s, e) == IF e > s THEN e - s ELSE -(s - e)

GetUtcTime == utc \div Ms
GetUtcDelta(s, e) == U64Delta(s, e)
GetUtcElapsed(s) == GetUtcDelta(s, GetUtcTime)

(* A reading is in milliseconds, except that of the performance counter,   *)
(* whose counts are the units of true time.  The tick counter is a DWORD.  *)
TickReading_Wide == now \div Ms
TickReading == (now \div Ms) % Period
Tick64Reading == now \div Ms
PerfReading == now
PosixReading == IF build = "posix" THEN now \div Ms ELSE GetUtcTime

GetMonotonicTime ==
    CASE build = "tick" -> TickReading
      [] build = "tick64" -> Tick64Reading
      [] build = "perf" -> PerfReading
      [] build \in {"posix", "utc"} -> PosixReading

(* MAXDWORD is Period - 1.  A difference across the wrap loses one tick.   *)
TickDelta_NoWrap(s, e) == e - s
TickDelta(s, e) == IF s > e THEN ((Period - 1) - s) + e ELSE e - s
PerfDelta(s, e) == U64Delta(s, e) \div Ms

GetMonotonicDelta(s, e) ==
    CASE build = "tick" -> TickDelta(s, e)
      [] build = "perf" -> PerfDelta(s, e)
      [] build \in {"tick64", "posix", "utc"} -> U64Delta(s, e)

GetMonotonicElapsed(s) == GetMonotonicDelta(s, GetMonotonicTime)

-----------------------------------------------------------------------------
(* The objects.                                                            *)

TimerObject == [start : Nat, fire : Nat,
                closed : BOOLEAN, started : BOOLEAN, setted : BOOLEAN]

NewObject == [start |-> 0, fire |-> 0,
              closed |-> FALSE, started |-> FALSE, setted |-> FALSE]

(* Stores a fire time, when there is one.                                  *)
WithFire(timer, fire) ==
    IF fire = NoNumber THEN timer
    ELSE [timer EXCEPT !.fire = fire, !.setted = TRUE]

(* The timers whose methods do not raise "timer is closed".                *)
OpenMon == {t \in DOMAIN mon : ~mon[t].closed}
OpenAbs == {t \in DOMAIN abs : ~abs[t].closed}

StartedMon == {t \in OpenMon : mon[t].started}
StartedAbs == {t \in OpenAbs : abs[t].started}

(* rest() raises for a timer without a fire time.                          *)
ArmedMon == {t \in StartedMon : mon[t].setted}
ArmedAbs == {t \in StartedAbs : abs[t].setted}

(* What the methods that only look answer.                                 *)
MonElapsed(t) == GetMonotonicElapsed(mon[t].start)

MonRest_OnSystemClock(t) ==
    LET elapsed == GetUtcElapsed(mon[t].start)
    IN  IF elapsed >= mon[t].fire THEN 0 ELSE mon[t].fire - elapsed
MonRest(t) ==
    IF MonElapsed(t) >= mon[t].fire THEN 0
    ELSE mon[t].fire - MonElapsed(t)

AbsElapsed(t) == GetUtcElapsed(abs[t].start)

AbsRest_FromStart(t) ==
    LET rest == abs[t].fire - AbsElapsed(t)
    IN  IF rest <= 0 THEN 0 ELSE rest
AbsRest(t) ==
    LET rest == GetUtcDelta(GetUtcTime, abs[t].fire)
    IN  IF rest <= 0 THEN 0 ELSE rest

-----------------------------------------------------------------------------
(* The methods of a monotonic timer.                                       *)

Init ==
    /\ build \in Builds
    /\ now = 0 /\ utc = 0
    /\ mon = [t \in {} |-> NewObject]
    /\ abs = [t \in {} |-> NewObject]
    /\ began = [t \in Mon |-> 0]

(* A name takes a new object when the timer it had is closed.              *)
CreateMonotonic(t, fire) ==
    /\ t \notin OpenMon
    /\ mon' = [u \in DOMAIN mon \cup {t} |->
                  IF u = t THEN WithFire(NewObject, fire) ELSE mon[u]]
    /\ UNCHANGED <<clocks, abs, began>>

MonClose(t) ==
    /\ t \in OpenMon
    /\ mon' = [mon EXCEPT ![t].closed = TRUE]
    /\ UNCHANGED <<clocks, abs, began>>

(* A started timer is started anew.                                        *)
MonStart(t, fire) ==
    /\ t \in OpenMon
    /\ mon' = [mon EXCEPT ![t] =
                  WithFire([@ EXCEPT !.start = GetMonotonicTime,
                                     !.started = TRUE], fire)]
    /\ began' = [began EXCEPT ![t] = now]
    /\ UNCHANGED <<clocks, abs>>

MonSet(t, fire) ==
    /\ t \in OpenMon
    /\ mon' = [mon EXCEPT ![t] = WithFire(@, fire)]
    /\ UNCHANGED <<clocks, abs, began>>

MonReset(t) ==
    /\ t \in OpenMon
    /\ mon' = [mon EXCEPT ![t].setted = FALSE]
    /\ UNCHANGED <<clocks, abs, began>>

(* Answers MonElapsed(t).                                                  *)
MonStop(t) ==
    /\ t \in StartedMon
    /\ mon' = [mon EXCEPT ![t].started = FALSE]
    /\ UNCHANGED <<clocks, abs, began>>

-----------------------------------------------------------------------------
(* The methods of an absolute timer.                                       *)

CreateAbsolute(t, fire) ==
    /\ t \notin OpenAbs
    /\ abs' = [u \in DOMAIN abs \cup {t} |->
                  IF u = t THEN WithFire(NewObject, fire) ELSE abs[u]]
    /\ UNCHANGED <<clocks, mon, began>>

AbsClose(t) ==
    /\ t \in OpenAbs
    /\ abs' = [abs EXCEPT ![t].closed = TRUE]
    /\ UNCHANGED <<clocks, mon, began>>

AbsStart(t, fire) ==
    /\ t \in OpenAbs
    /\ abs' = [abs EXCEPT ![t] =
                  WithFire([@ EXCEPT !.start = GetUtcTime,
                                     !.started = TRUE], fire)]
    /\ UNCHANGED <<clocks, mon, began>>

AbsSet(t, fire) ==
    /\ t \in OpenAbs
    /\ abs' = [abs EXCEPT ![t] = WithFire(@, fire)]
    /\ UNCHANGED <<clocks, mon, began>>

AbsReset(t) ==
    /\ t \in OpenAbs
    /\ abs' = [abs EXCEPT ![t].setted = FALSE]
    /\ UNCHANGED <<clocks, mon, began>>

(* Answers AbsElapsed(t).                                                  *)
AbsStop(t) ==
    /\ t \in StartedAbs
    /\ abs' = [abs EXCEPT ![t].started = FALSE]
    /\ UNCHANGED <<clocks, mon, began>>

-----------------------------------------------------------------------------
(* Time.                                                                   *)

(* Some units pass, and the system clock advances with them.               *)
Pass(units) ==
    /\ now + units <= MaxTime /\ utc + units <= MaxUtc
    /\ now' = now + units
    /\ utc' = utc + units
    /\ UNCHANGED <<build, mon, abs, began>>

(* Time passes between two calls.                                          *)
Advance == \E units \in 1 .. Ms : Pass(units)

(* sleep(msecs), which a signal cuts short on the systems with nanosleep.  *)
Sleep(msecs) ==
    \E units \in 0 .. MaxTime :
        /\ units >= msecs * Ms \/ build \in {"posix", "utc"}
        /\ Pass(units)

SetClock ==
    /\ \E u \in 0 .. MaxUtc : u % Ms = 0 /\ utc' = u
    /\ UNCHANGED <<build, now, mon, abs, began>>

Next ==
    \/ \E t \in Mon :
        \/ \E d \in Durations \cup {NoNumber} :
              CreateMonotonic(t, d) \/ MonStart(t, d)
        \/ \E d \in Durations : MonSet(t, d)
        \/ MonReset(t) \/ MonStop(t) \/ MonClose(t)
    \/ \E t \in Abs :
        \/ \E p \in Deadlines \cup {NoNumber} :
              CreateAbsolute(t, p) \/ AbsStart(t, p)
        \/ \E p \in Deadlines : AbsSet(t, p)
        \/ AbsReset(t) \/ AbsStop(t) \/ AbsClose(t)
    \/ Advance
    \/ \E d \in Durations : Sleep(d)
    \/ SetClock

Spec == Init /\ [][Next]_vars

-----------------------------------------------------------------------------
(* Properties.                                                             *)

(* The variables have their types; a timer never holds a start the counter *)
(* of its build cannot show, nor starts before true time began.            *)
TypeOK ==
    /\ build \in Builds
    /\ now \in 0 .. MaxTime /\ utc \in 0 .. MaxUtc
    /\ DOMAIN mon \subseteq Mon /\ DOMAIN abs \subseteq Abs
    /\ \A t \in DOMAIN mon : mon[t] \in TimerObject
    /\ \A t \in DOMAIN abs : abs[t] \in TimerObject
    /\ build = "tick" => \A t \in DOMAIN mon : mon[t].start < Period
    /\ began \in [Mon -> 0 .. now]

(* The builds whose readings do not follow the system clock.               *)
Steady == build # "utc"

(* Ticks of the 32-bit counter since a timer was started, and whether the  *)
(* counter wrapped since then.  After a whole period nothing can be told.  *)
TicksSince(t) == (now \div Ms) - (began[t] \div Ms)
Wrapped(t) == build = "tick" /\ GetMonotonicTime < mon[t].start
Lost(t) == build = "tick" /\ TicksSince(t) >= Period

(* elapsed() of a started timer is within a millisecond of the true time   *)
(* since start(), whatever the system clock does, and one more behind it   *)
(* after the 32-bit counter wrapped (GetMonotonicDelta, ztimer.c:79-83).   *)
ElapsedIsTrue ==
    Steady =>
        \A t \in StartedMon :
            Lost(t) \/
            LET error == (MonElapsed(t) * Ms) - (now - began[t])
                slack == IF Wrapped(t) THEN Ms ELSE 0
            IN  -(Ms + slack) < error /\ error < Ms

(* Who waits for what rest() answered, finds rest() at zero: the loop of   *)
(* loop.lua:147-158 asks for the rest and polls that long.  After a wrap   *)
(* of the 32-bit counter it has to wait one millisecond more.              *)
MonWaitIsEnough(t) ==
    LET slack == IF Wrapped(t)' /\ ~Wrapped(t) THEN Ms ELSE 0
    IN  mon[t]' = mon[t] /\ ~Lost(t)'
        /\ now' - now >= (MonRest(t) * Ms) + slack
        => MonRest(t)' = 0

(* An absolute timer is waited for by the system clock.  A deadline that   *)
(* has passed stays passed until it is moved, even if the timer is stopped *)
(* and started again (luazmq_abstimer_rest, ztimer.c:425-437).             *)
AbsWaitIsEnough(t) ==
    t \in ArmedAbs' /\ abs[t].fire' = abs[t].fire
    /\ utc' - utc >= AbsRest(t) * Ms
    => AbsRest(t)' = 0

WaitIsEnough ==
    [][ /\ Steady => \A t \in ArmedMon : MonWaitIsEnough(t)
        /\ \A t \in ArmedAbs : AbsWaitIsEnough(t) ]_vars

(* With a steady counter, and within its period, a monotonic timer is the  *)
(* countdown that EventLoop takes it for: its rest grows only when it is   *)
(* armed, never with the system clock (loop.lua:50-102).                   *)
Sound == {t \in ArmedMon : Steady /\ ~Lost(t)}

Count == INSTANCE Countdown WITH
    Timers <- Mon,
    armed <- Sound,
    interval <- [t \in Mon |-> IF t \in Sound THEN mon[t].fire ELSE 0],
    rest <- [t \in Mon |-> IF t \in Sound THEN MonRest(t) ELSE 0]

ImplementsCountdown == Count!Spec
=============================================================================
