---------------------------- MODULE TimerProofs ----------------------------
(***************************************************************************)
(* What holds of the timers of ztimer.c for any number of timers, any      *)
(* intervals, any width of the tick counter and any unit of time: their    *)
(* types, and that elapsed() follows true time.                            *)
(***************************************************************************)
EXTENDS Timer, TLAPS

USE ClockAssumption, ArgumentsAssumption

(* The reading of the clock at a moment of true time, in the builds whose  *)
(* readings do not follow the system clock.                                *)
ReadingAt(moment) ==
    CASE build = "tick" -> (moment \div Ms) % Period
      [] build = "perf" -> moment
      [] build \in {"tick64", "posix"} -> moment \div Ms

(* A started timer holds the reading of the moment it was started at.      *)
StartsKept ==
    Steady => \A t \in DOMAIN mon :
                 mon[t].started => mon[t].start = ReadingAt(began[t])

IInv == TypeOK /\ StartsKept

-----------------------------------------------------------------------------
(* Arithmetic.                                                             *)

(* A number and its quotient.                                              *)
LEMMA Quotient ==
    ASSUME NEW n \in Nat, NEW d \in Nat \ {0}
    PROVE  /\ n \div d \in Nat /\ n % d \in 0 .. d - 1
           /\ n = (n \div d) * d + (n % d)
  <1>1. n % d \in 0 .. d - 1
    OBVIOUS
  <1>2. n = d * (n \div d) + (n % d)
    OBVIOUS
  <1>3. n \div d \in Int
    OBVIOUS
  <1>4. n \div d \in Nat
    BY <1>1, <1>2, <1>3
  <1> QED
    BY <1>1, <1>2, <1>4

(* The quotient is monotonic.                                              *)
LEMMA Monotonic ==
    ASSUME NEW m \in Nat, NEW n \in Nat, m <= n, NEW d \in Nat \ {0}
    PROVE  m \div d <= n \div d
  <1>1. /\ m \div d \in Nat /\ n \div d \in Nat
        /\ m = (m \div d) * d + (m % d) /\ m % d \in 0 .. d - 1
        /\ n = (n \div d) * d + (n % d) /\ n % d \in 0 .. d - 1
    BY Quotient
  <1>2. SUFFICES ASSUME m \div d > n \div d PROVE FALSE
    BY <1>1
  <1>3. (m \div d) * d >= (n \div d + 1) * d
    BY <1>1, <1>2
  <1>4. (n \div d + 1) * d = (n \div d) * d + d
    BY <1>1
  <1> QED
    BY <1>1, <1>3, <1>4

(* The quotients of two numbers differ by what the numbers differ, to less *)
(* than one.                                                               *)
LEMMA Rounding ==
    ASSUME NEW m \in Nat, NEW n \in Nat, NEW d \in Nat \ {0}
    PROVE  LET error == (n \div d - m \div d) * d - (n - m)
           IN  -d < error /\ error < d
  <1>1. /\ m \div d \in Nat /\ n \div d \in Nat
        /\ m = (m \div d) * d + (m % d) /\ m % d \in 0 .. d - 1
        /\ n = (n \div d) * d + (n % d) /\ n % d \in 0 .. d - 1
    BY Quotient
  <1>2. (n \div d - m \div d) * d = (n \div d) * d - (m \div d) * d
    BY <1>1
  <1> QED
    BY <1>1, <1>2

(* What a counter of ticks shows after n ticks.                            *)
Shown(n) == n % Period

(* Two counts less than a period apart: the difference of what is shown,   *)
(* which is one period less when the counter wrapped in between.           *)
LEMMA Residues ==
    ASSUME NEW a \in Nat, NEW b \in Nat, a <= b, b - a < Period
    PROVE  /\ Shown(a) \in 0 .. Period - 1 /\ Shown(b) \in 0 .. Period - 1
           /\ Shown(b) >= Shown(a) => Shown(b) - Shown(a) = b - a
           /\ Shown(b) < Shown(a) => Shown(b) - Shown(a) = b - a - Period
  <1> DEFINE p == Period
             qa == a \div p
             qb == b \div p
  <1>1. /\ qa \in Nat /\ qb \in Nat
        /\ a = qa * p + (a % p) /\ a % p \in 0 .. p - 1
        /\ b = qb * p + (b % p) /\ b % p \in 0 .. p - 1
    BY Quotient
  <1>2. qa <= qb
    BY Monotonic
  <1>3. qb < qa + 2
    <2> SUFFICES ASSUME qb >= qa + 2 PROVE FALSE
      BY <1>1
    <2>1. qb * p >= (qa + 2) * p
      BY <1>1
    <2>2. (qa + 2) * p = qa * p + p + p
      BY <1>1
    <2> QED
      BY <1>1, <2>1, <2>2
  <1>4. CASE qb = qa
    BY <1>1, <1>4 DEF Shown
  <1>5. CASE qb = qa + 1
    <2>1. qb * p = qa * p + p
      BY <1>1, <1>5
    <2> QED
      BY <1>1, <2>1 DEF Shown
  <1> HIDE DEF qa, qb
  <1>6. qb = qa \/ qb = qa + 1
    BY <1>1, <1>2, <1>3
  <1> QED
    BY <1>4, <1>5, <1>6

-----------------------------------------------------------------------------
(* The readings.                                                           *)

(* A reading of a steady build is the reading at the true time.            *)
LEMMA SteadyReading ==
    ASSUME TypeOK, Steady
    PROVE  GetMonotonicTime = ReadingAt(now)
  <1> build \in AllBuilds
    BY DEF TypeOK
  <1> QED
    BY DEF Steady, AllBuilds, GetMonotonicTime, ReadingAt, TickReading,
           Tick64Reading, PerfReading, PosixReading

(* Every reading is a number, that of the tick counter within its period.  *)
LEMMA ReadingType ==
    ASSUME TypeOK
    PROVE  /\ GetMonotonicTime \in Nat
           /\ build = "tick" => GetMonotonicTime < Period
           /\ GetUtcTime \in Nat
  <1>1. build \in AllBuilds /\ now \in Nat /\ utc \in Nat
    BY DEF TypeOK
  <1>2. now \div Ms \in Nat /\ utc \div Ms \in Nat
    BY <1>1, Quotient
  <1>3. (now \div Ms) % Period \in 0 .. Period - 1
    BY <1>2, Quotient
  <1> QED
    BY <1>1, <1>2, <1>3 DEF AllBuilds, GetMonotonicTime, TickReading,
       Tick64Reading, PerfReading, PosixReading, GetUtcTime

(* The fields of an object after a fire time was stored.                   *)
LEMMA FireStored ==
    ASSUME NEW o \in TimerObject,
           NEW d \in Durations \cup Deadlines \cup {NoNumber}
    PROVE  /\ WithFire(o, d) \in TimerObject
           /\ WithFire(o, d).started = o.started
           /\ WithFire(o, d).start = o.start
  BY DEF TimerObject, WithFire

-----------------------------------------------------------------------------
(* The invariant.                                                          *)

(* A step that gives the monotonic timer t the object o.                   *)
LEMMA MonStep ==
    ASSUME IInv, NEW t \in Mon, NEW o \in TimerObject,
           UNCHANGED <<clocks, abs>>,
           DOMAIN mon' = DOMAIN mon \cup {t}, mon'[t] = o,
           \A u \in DOMAIN mon \ {t} : mon'[u] = mon[u],
           began' \in [Mon -> 0 .. now],
           \A u \in Mon \ {t} : began'[u] = began[u],
           build = "tick" => o.start < Period,
           Steady /\ o.started => o.start = ReadingAt(began'[t])
    PROVE  IInv'
  <1>1. TypeOK'
    BY DEF IInv, TypeOK, clocks
  <1>2. StartsKept'
    <2> SUFFICES ASSUME Steady', NEW u \in DOMAIN mon', mon'[u].started
                 PROVE  mon'[u].start = ReadingAt(began[u])'
      BY DEF StartsKept
    <2>1. Steady /\ \A x : ReadingAt(x)' = ReadingAt(x')
      BY DEF Steady, clocks, ReadingAt
    <2>2. CASE u = t
      BY <2>1, <2>2 DEF clocks, ReadingAt
    <2>3. CASE u # t
      <3>1. u \in DOMAIN mon /\ u \in Mon
        BY <2>3 DEF IInv, TypeOK
      <3>2. mon[u].start = ReadingAt(began[u])
        BY <2>1, <2>3, <3>1 DEF IInv, StartsKept
      <3> QED
        BY <2>3, <3>1, <3>2 DEF clocks, ReadingAt
    <2> QED
      BY <2>2, <2>3
  <1> QED
    BY <1>1, <1>2 DEF IInv

(* A step that gives the absolute timer t the object o.                    *)
LEMMA AbsStep ==
    ASSUME IInv, NEW t \in Abs, NEW o \in TimerObject,
           UNCHANGED <<clocks, mon, began>>,
           DOMAIN abs' = DOMAIN abs \cup {t}, abs'[t] = o,
           \A u \in DOMAIN abs \ {t} : abs'[u] = abs[u]
    PROVE  IInv'
  BY DEF IInv, TypeOK, StartsKept, Steady, ReadingAt, clocks

(* A step of a clock.                                                      *)
LEMMA ClockStep ==
    ASSUME IInv, UNCHANGED <<build, mon, abs, began>>,
           now' \in now .. MaxTime, utc' \in 0 .. MaxUtc
    PROVE  IInv'
  <1>1. began' \in [Mon -> 0 .. now']
    <2>1. now \in Nat
      BY DEF IInv, TypeOK
    <2>2. 0 .. now \subseteq 0 .. now'
      BY <2>1
    <2> QED
      BY <2>2 DEF IInv, TypeOK
  <1>2. TypeOK'
    BY <1>1 DEF IInv, TypeOK
  <1>3. StartsKept'
    BY DEF IInv, StartsKept, Steady, ReadingAt
  <1> QED
    BY <1>2, <1>3 DEF IInv

LEMMA InitHolds == Init => IInv
  <1> SUFFICES ASSUME Init PROVE IInv
    OBVIOUS
  <1>1. DOMAIN mon = {} /\ DOMAIN abs = {}
    BY DEF Init
  <1> QED
    BY <1>1 DEF Init, IInv, TypeOK, StartsKept

(* The types of the objects in use.                                        *)
LEMMA Objects ==
    ASSUME TypeOK
    PROVE  /\ NewObject \in TimerObject /\ ~NewObject.started
           /\ NewObject.start = 0 /\ 0 < Period
           /\ \A t \in DOMAIN mon : mon[t] \in TimerObject
           /\ \A t \in DOMAIN abs : abs[t] \in TimerObject
           /\ \A t \in DOMAIN mon : build = "tick" => mon[t].start < Period
           /\ began \in [Mon -> 0 .. now] /\ now \in Nat
  BY DEF TypeOK, NewObject, TimerObject

LEMMA CreateMonotonicHolds ==
    ASSUME IInv, NEW t \in Mon, NEW d \in Durations \cup {NoNumber},
           CreateMonotonic(t, d)
    PROVE  IInv'
  <1> DEFINE o == WithFire(NewObject, d)
  <1>1. o \in TimerObject /\ ~o.started /\ o.start = 0
    BY Objects, FireStored DEF IInv
  <1>2. began \in [Mon -> 0 .. now] /\ 0 < Period
    BY Objects DEF IInv
  <1>3. /\ DOMAIN mon' = DOMAIN mon \cup {t} /\ mon'[t] = o
        /\ \A u \in DOMAIN mon \ {t} : mon'[u] = mon[u]
        /\ UNCHANGED <<clocks, abs, began>>
    BY DEF CreateMonotonic
  <1> HIDE DEF o
  <1> QED
    BY <1>1, <1>2, <1>3, MonStep

LEMMA MonStartHolds ==
    ASSUME IInv, NEW t \in Mon, NEW d \in Durations \cup {NoNumber},
           MonStart(t, d)
    PROVE  IInv'
  <1> DEFINE started == [mon[t] EXCEPT !.start = GetMonotonicTime,
                                       !.started = TRUE]
             o == WithFire(started, d)
  <1>1. t \in DOMAIN mon
    BY DEF MonStart, OpenMon
  <1>2. started \in TimerObject /\ started.start = GetMonotonicTime
    BY <1>1, Objects, ReadingType DEF IInv, TimerObject
  <1>3. o \in TimerObject /\ o.start = GetMonotonicTime
    <2> HIDE DEF started
    <2> QED
      BY <1>2, FireStored
  <1>4. /\ DOMAIN mon' = DOMAIN mon \cup {t} /\ mon'[t] = o
        /\ \A u \in DOMAIN mon \ {t} : mon'[u] = mon[u]
        /\ UNCHANGED <<clocks, abs>>
    BY <1>1 DEF MonStart
  <1>5. /\ began' \in [Mon -> 0 .. now] /\ began'[t] = now
        /\ \A u \in Mon \ {t} : began'[u] = began[u]
    BY Objects DEF IInv, MonStart
  <1>6. build = "tick" => o.start < Period
    BY <1>3, ReadingType DEF IInv
  <1>7. Steady /\ o.started => o.start = ReadingAt(began'[t])
    <2>1. Steady => GetMonotonicTime = ReadingAt(now)
      BY SteadyReading DEF IInv
    <2> HIDE DEF o
    <2> QED
      BY <1>3, <1>5, <2>1 DEF ReadingAt
  <1> HIDE DEF o
  <1> QED
    BY <1>3, <1>4, <1>5, <1>6, <1>7, MonStep

(* A step that leaves a timer what it holds about its start.               *)
LEMMA MonKeepsStart ==
    ASSUME IInv, NEW t \in DOMAIN mon, NEW o \in TimerObject,
           o.start = mon[t].start, o.started => mon[t].started,
           mon' = [mon EXCEPT ![t] = o],
           UNCHANGED <<clocks, abs, began>>
    PROVE  IInv'
  <1>1. t \in Mon /\ began \in [Mon -> 0 .. now]
    BY Objects DEF IInv, TypeOK
  <1>2. build = "tick" => o.start < Period
    BY Objects DEF IInv
  <1>3. Steady /\ o.started => o.start = ReadingAt(began'[t])
    BY DEF IInv, StartsKept, ReadingAt
  <1> QED
    BY <1>1, <1>2, <1>3, MonStep

LEMMA MonSetHolds ==
    ASSUME IInv, NEW t \in Mon, NEW d \in Durations, MonSet(t, d)
    PROVE  IInv'
  <1>1. t \in DOMAIN mon /\ mon[t] \in TimerObject
    BY Objects DEF IInv, MonSet, OpenMon
  <1> DEFINE o == WithFire(mon[t], d)
  <1>2. /\ o \in TimerObject /\ o.start = mon[t].start
        /\ o.started = mon[t].started
    BY <1>1, FireStored
  <1>3. mon' = [mon EXCEPT ![t] = o] /\ UNCHANGED <<clocks, abs, began>>
    BY DEF MonSet
  <1> HIDE DEF o
  <1> QED
    BY <1>1, <1>2, <1>3, MonKeepsStart

LEMMA MonResetHolds ==
    ASSUME IInv, NEW t \in Mon, MonReset(t)
    PROVE  IInv'
  <1> DEFINE o == [mon[t] EXCEPT !.setted = FALSE]
  <1>1. t \in DOMAIN mon /\ mon[t] \in TimerObject
    BY Objects DEF IInv, MonReset, OpenMon
  <1>2. /\ o \in TimerObject /\ o.start = mon[t].start
        /\ o.started = mon[t].started
    BY <1>1 DEF TimerObject
  <1>3. mon' = [mon EXCEPT ![t] = o] /\ UNCHANGED <<clocks, abs, began>>
    BY DEF MonReset
  <1> HIDE DEF o
  <1> QED
    BY <1>1, <1>2, <1>3, MonKeepsStart

LEMMA MonStopHolds ==
    ASSUME IInv, NEW t \in Mon, MonStop(t)
    PROVE  IInv'
  <1> DEFINE o == [mon[t] EXCEPT !.started = FALSE]
  <1>1. t \in DOMAIN mon /\ mon[t] \in TimerObject
    BY Objects DEF IInv, MonStop, StartedMon, OpenMon
  <1>2. o \in TimerObject /\ o.start = mon[t].start /\ ~o.started
    BY <1>1 DEF TimerObject
  <1>3. mon' = [mon EXCEPT ![t] = o] /\ UNCHANGED <<clocks, abs, began>>
    BY DEF MonStop
  <1> HIDE DEF o
  <1> QED
    BY <1>1, <1>2, <1>3, MonKeepsStart

LEMMA MonCloseHolds ==
    ASSUME IInv, NEW t \in Mon, MonClose(t)
    PROVE  IInv'
  <1> DEFINE o == [mon[t] EXCEPT !.closed = TRUE]
  <1>1. t \in DOMAIN mon /\ mon[t] \in TimerObject
    BY Objects DEF IInv, MonClose, OpenMon
  <1>2. /\ o \in TimerObject /\ o.start = mon[t].start
        /\ o.started = mon[t].started
    BY <1>1 DEF TimerObject
  <1>3. mon' = [mon EXCEPT ![t] = o] /\ UNCHANGED <<clocks, abs, began>>
    BY DEF MonClose
  <1> HIDE DEF o
  <1> QED
    BY <1>1, <1>2, <1>3, MonKeepsStart

(* Every method of an absolute timer gives one timer an object.            *)
LEMMA AbsHolds ==
    ASSUME IInv, NEW t \in Abs,
           \/ \E p \in Deadlines \cup {NoNumber} :
                 CreateAbsolute(t, p) \/ AbsStart(t, p)
           \/ \E p \in Deadlines : AbsSet(t, p)
           \/ AbsReset(t) \/ AbsStop(t) \/ AbsClose(t)
    PROVE  IInv'
  <1>0. /\ \A u \in DOMAIN abs : abs[u] \in TimerObject
        /\ t \in OpenAbs => t \in DOMAIN abs
        /\ StartedAbs \subseteq OpenAbs
    BY Objects DEF IInv, OpenAbs, StartedAbs
  <1>1. ASSUME NEW p \in Deadlines \cup {NoNumber}, CreateAbsolute(t, p)
        PROVE  IInv'
    <2> DEFINE o == WithFire(NewObject, p)
    <2>1. o \in TimerObject
      BY Objects, FireStored DEF IInv
    <2>2. /\ DOMAIN abs' = DOMAIN abs \cup {t} /\ abs'[t] = o
          /\ \A u \in DOMAIN abs \ {t} : abs'[u] = abs[u]
          /\ UNCHANGED <<clocks, mon, began>>
      BY <1>1 DEF CreateAbsolute
    <2> HIDE DEF o
    <2> QED
      BY <2>1, <2>2, AbsStep
  <1>2. ASSUME t \in DOMAIN abs, NEW o \in TimerObject,
               abs' = [abs EXCEPT ![t] = o],
               UNCHANGED <<clocks, mon, began>>
        PROVE  IInv'
    BY <1>2, AbsStep
  <1>3. ASSUME NEW p \in Deadlines \cup {NoNumber}, AbsStart(t, p)
        PROVE  IInv'
    <2> DEFINE begun == [abs[t] EXCEPT !.start = GetUtcTime,
                                       !.started = TRUE]
               o == WithFire(begun, p)
    <2>1. begun \in TimerObject
      BY <1>0, <1>3, ReadingType DEF IInv, AbsStart, TimerObject
    <2>2. o \in TimerObject
      <3> HIDE DEF begun
      <3> QED
        BY <2>1, FireStored
    <2>3. t \in DOMAIN abs /\ abs' = [abs EXCEPT ![t] = o]
          /\ UNCHANGED <<clocks, mon, began>>
      BY <1>0, <1>3 DEF AbsStart
    <2> HIDE DEF o
    <2> QED
      BY <1>2, <2>2, <2>3
  <1>4. ASSUME NEW p \in Deadlines, AbsSet(t, p)
        PROVE  IInv'
    <2> DEFINE o == WithFire(abs[t], p)
    <2>1. t \in DOMAIN abs /\ abs' = [abs EXCEPT ![t] = o]
          /\ UNCHANGED <<clocks, mon, began>>
      BY <1>0, <1>4 DEF AbsSet
    <2>2. o \in TimerObject
      BY <1>0, <2>1, FireStored
    <2> HIDE DEF o
    <2> QED
      BY <1>2, <2>1, <2>2
  <1>5. ASSUME AbsReset(t) PROVE IInv'
    <2> DEFINE o == [abs[t] EXCEPT !.setted = FALSE]
    <2>1. t \in DOMAIN abs /\ abs' = [abs EXCEPT ![t] = o]
          /\ UNCHANGED <<clocks, mon, began>>
      BY <1>0, <1>5 DEF AbsReset
    <2>2. o \in TimerObject
      BY <1>0, <2>1 DEF TimerObject
    <2> HIDE DEF o
    <2> QED
      BY <1>2, <2>1, <2>2
  <1>6. ASSUME AbsStop(t) PROVE IInv'
    <2> DEFINE o == [abs[t] EXCEPT !.started = FALSE]
    <2>1. t \in DOMAIN abs /\ abs' = [abs EXCEPT ![t] = o]
          /\ UNCHANGED <<clocks, mon, began>>
      BY <1>0, <1>6 DEF AbsStop
    <2>2. o \in TimerObject
      BY <1>0, <2>1 DEF TimerObject
    <2> HIDE DEF o
    <2> QED
      BY <1>2, <2>1, <2>2
  <1>7. ASSUME AbsClose(t) PROVE IInv'
    <2> DEFINE o == [abs[t] EXCEPT !.closed = TRUE]
    <2>1. t \in DOMAIN abs /\ abs' = [abs EXCEPT ![t] = o]
          /\ UNCHANGED <<clocks, mon, began>>
      BY <1>0, <1>7 DEF AbsClose
    <2>2. o \in TimerObject
      BY <1>0, <2>1 DEF TimerObject
    <2> HIDE DEF o
    <2> QED
      BY <1>2, <2>1, <2>2
  <1> QED
    BY <1>1, <1>3, <1>4, <1>5, <1>6, <1>7

(* Time only advances, whatever the system clock does.                     *)
LEMMA ClocksHold ==
    ASSUME IInv, Advance \/ (\E d \in Durations : Sleep(d)) \/ SetClock
    PROVE  IInv'
  <1>1. now \in 0 .. MaxTime /\ utc \in 0 .. MaxUtc
    BY DEF IInv, TypeOK
  <1>2. ASSUME NEW units \in Nat, Pass(units) PROVE IInv'
    BY <1>1, <1>2, ClockStep DEF Pass
  <1>3. CASE Advance
    BY <1>2, <1>3 DEF Advance
  <1>4. ASSUME NEW d \in Durations, Sleep(d) PROVE IInv'
    BY <1>2, <1>4 DEF Sleep
  <1>5. CASE SetClock
    BY <1>1, <1>5, ClockStep DEF SetClock
  <1> QED
    BY <1>3, <1>4, <1>5

LEMMA NextHolds == IInv /\ [Next]_vars => IInv'
  <1> SUFFICES ASSUME IInv, [Next]_vars PROVE IInv'
    OBVIOUS
  <1>1. ASSUME NEW t \in Mon,
               \/ \E d \in Durations \cup {NoNumber} :
                     CreateMonotonic(t, d) \/ MonStart(t, d)
               \/ \E d \in Durations : MonSet(t, d)
               \/ MonReset(t) \/ MonStop(t) \/ MonClose(t)
        PROVE  IInv'
    BY <1>1, CreateMonotonicHolds, MonStartHolds, MonSetHolds, MonResetHolds,
       MonStopHolds, MonCloseHolds
  <1>2. CASE UNCHANGED vars
    BY <1>2 DEF vars, clocks, IInv, TypeOK, StartsKept, Steady, ReadingAt
  <1> QED
    BY <1>1, <1>2, AbsHolds, ClocksHold DEF Next

LEMMA Invariance == Spec => []IInv
  BY InitHolds, NextHolds, PTL DEF Spec

-----------------------------------------------------------------------------
(* The theorems.                                                           *)

(* The variables keep their types: no timer holds a start that the counter *)
(* of its build cannot show (luazmq_montimer_start, luazmq_abstimer_start).*)
THEOREM TypeCorrect == Spec => []TypeOK
  <1>1. IInv => TypeOK
    BY DEF IInv
  <1> QED
    BY <1>1, Invariance, PTL

(* What elapsed() answers, where the reading at the start is kept.         *)
LEMMA Elapsed ==
    ASSUME IInv, Steady, NEW t \in StartedMon, ~Lost(t)
    PROVE  LET error == (MonElapsed(t) * Ms) - (now - began[t])
               slack == IF Wrapped(t) THEN Ms ELSE 0
           IN  -(Ms + slack) < error /\ error < Ms
  <1> DEFINE b == began[t]
             ticks == (now \div Ms) - (b \div Ms)
  <1>1. /\ t \in DOMAIN mon /\ mon[t].started /\ t \in Mon
        /\ b \in Nat /\ b <= now /\ now \in Nat
        /\ build \in {"tick", "tick64", "perf", "posix"}
    BY DEF IInv, TypeOK, StartedMon, OpenMon, AllBuilds, Steady
  <1>2. mon[t].start = ReadingAt(b) /\ GetMonotonicTime = ReadingAt(now)
    BY <1>1, SteadyReading DEF IInv, StartsKept
  <1>3. /\ now \div Ms \in Nat /\ b \div Ms \in Nat
        /\ b \div Ms <= now \div Ms
    BY <1>1, Quotient, Monotonic
  <1>4. -Ms < ticks * Ms - (now - b) /\ ticks * Ms - (now - b) < Ms
    BY <1>1, Rounding
  <1> HIDE DEF b
  <1>5. CASE build = "tick"
    <2> DEFINE s == (b \div Ms) % Period
               e == (now \div Ms) % Period
    <2>1. mon[t].start = s /\ GetMonotonicTime = e
      BY <1>2, <1>5 DEF ReadingAt
    <2>2. MonElapsed(t) = TickDelta(s, e) /\ (Wrapped(t) <=> e < s)
      BY <1>5, <2>1 DEF MonElapsed, GetMonotonicElapsed, GetMonotonicDelta,
         Wrapped
    <2>3. ticks < Period
      BY <1>1, <1>3, <1>5 DEF Lost, TicksSince, b
    <2>4. /\ s \in 0 .. Period - 1 /\ e \in 0 .. Period - 1
          /\ e >= s => e - s = ticks
          /\ e < s => e - s = ticks - Period
      <3> DEFINE m == b \div Ms
                 n == now \div Ms
      <3>1. m \in Nat /\ n \in Nat /\ m <= n /\ n - m < Period
        BY <1>3, <2>3
      <3>2. ticks = n - m /\ s = Shown(m) /\ e = Shown(n)
        BY DEF Shown
      <3> HIDE DEF m, n, s, e, ticks
      <3> QED
        BY <3>1, <3>2, Residues
    <2> HIDE DEF s, e
    <2>5. CASE e >= s
      <3>1. MonElapsed(t) = ticks /\ ~Wrapped(t)
        BY <2>2, <2>4, <2>5 DEF TickDelta
      <3> HIDE DEF ticks
      <3> QED
        BY <1>4, <3>1 DEF b
    <2>6. CASE e < s
      <3>1. MonElapsed(t) = ticks - 1 /\ Wrapped(t)
        BY <1>3, <2>2, <2>4, <2>6 DEF TickDelta
      <3>2. (ticks - 1) * Ms = ticks * Ms - Ms
        BY <1>3
      <3>3. ticks \in Int
        BY <1>3
      <3> HIDE DEF ticks
      <3>4. ticks * Ms \in Int
        BY <3>3
      <3> QED
        BY <1>1, <1>4, <3>1, <3>2, <3>4 DEF b
    <2> QED
      BY <2>4, <2>5, <2>6
  <1>6. CASE build = "perf"
    <2>1. MonElapsed(t) = PerfDelta(b, now) /\ ~Wrapped(t)
      BY <1>2, <1>6 DEF MonElapsed, GetMonotonicElapsed, GetMonotonicDelta,
         ReadingAt, Wrapped
    <2>2. U64Delta(b, now) = now - b
      BY <1>1 DEF U64Delta
    <2> DEFINE gone == now - b
    <2>3. gone \in Nat
      BY <1>1
    <2>4. /\ gone \div Ms \in Nat /\ gone % Ms \in 0 .. Ms - 1
          /\ gone = (gone \div Ms) * Ms + (gone % Ms)
      BY <2>3, Quotient
    <2>5. MonElapsed(t) = gone \div Ms
      BY <2>1, <2>2 DEF PerfDelta
    <2>6. gone = now - began[t]
      BY DEF b
    <2> DEFINE whole == gone \div Ms
               part == gone % Ms
    <2>7. /\ MonElapsed(t) = whole /\ gone = whole * Ms + part
          /\ whole \in Nat /\ part \in 0 .. Ms - 1
      BY <2>4, <2>5
    <2>8. whole * Ms \in Int
      BY <2>7
    <2> HIDE DEF gone, whole, part
    <2>9. MonElapsed(t) * Ms - (now - began[t]) = -part
      BY <2>3, <2>6, <2>7, <2>8
    <2> QED
      BY <2>1, <2>7, <2>9
  <1>7. CASE build \in {"tick64", "posix"}
    <2>1. MonElapsed(t) = U64Delta(b \div Ms, now \div Ms) /\ ~Wrapped(t)
      BY <1>2, <1>7 DEF MonElapsed, GetMonotonicElapsed, GetMonotonicDelta,
         ReadingAt, Wrapped
    <2>2. MonElapsed(t) = ticks
      BY <1>3, <2>1 DEF U64Delta
    <2> HIDE DEF ticks
    <2> QED
      BY <1>4, <2>1, <2>2 DEF b
  <1> QED
    BY <1>1, <1>5, <1>6, <1>7

(* elapsed() of a started timer follows true time, in every build that has *)
(* a steady clock, for any unit, any width of the tick counter, any        *)
(* intervals, and whatever the system clock does (ztimer.c:79-83,294-301). *)
THEOREM ElapsedFollowsTime == Spec => []ElapsedIsTrue
  <1>1. IInv => ElapsedIsTrue
    BY Elapsed DEF ElapsedIsTrue
  <1> QED
    BY <1>1, Invariance, PTL

-----------------------------------------------------------------------------
(* A monotonic timer is a countdown.                                       *)

Span == [t \in Mon |-> IF t \in Sound THEN mon[t].fire ELSE 0]
ToGo == [t \in Mon |-> IF t \in Sound THEN MonRest(t) ELSE 0]

LEMMA ArmCounts ==
    ASSUME NEW t \in Mon, Sound' = Sound \cup {t}, Span'[t] \in Nat,
           Span' = [Span EXCEPT ![t] = Span'[t]],
           ToGo' = [ToGo EXCEPT ![t] = Span'[t]]
    PROVE  Count!Next
  <1>1. Count!Arm(t)
    BY DEF Count!Arm, Span, ToGo
  <1> QED
    BY <1>1 DEF Count!Next

LEMMA StretchCounts ==
    ASSUME NEW t \in Mon, Sound' = Sound \cup {t}, Span'[t] \in Nat,
           t \in Sound => Span'[t] # Span[t],
           Span' = [Span EXCEPT ![t] = Span'[t]],
           ToGo'[t] \in 0 .. Span'[t],
           ToGo' = [ToGo EXCEPT ![t] = ToGo'[t]]
    PROVE  Count!Next
  <1>1. Count!Stretch(t)
    BY DEF Count!Stretch, Span, ToGo
  <1> QED
    BY <1>1 DEF Count!Next

LEMMA DisarmCounts ==
    ASSUME NEW t \in Mon, Sound' = Sound \ {t},
           Span' = [Span EXCEPT ![t] = 0], ToGo' = [ToGo EXCEPT ![t] = 0]
    PROVE  Count!Next
  <1>1. Count!Disarm(t)
    BY DEF Count!Disarm, Span, ToGo
  <1> QED
    BY <1>1 DEF Count!Next

(* What is elapsed is a number, at the wrap of the tick counter too.       *)
LEMMA ElapsedIsNatural ==
    ASSUME IInv, Steady, NEW t \in StartedMon
    PROVE  MonElapsed(t) \in Nat
  <1> DEFINE b == began[t]
  <1>1. /\ t \in DOMAIN mon /\ mon[t].started /\ t \in Mon
        /\ b \in Nat /\ b <= now /\ now \in Nat
        /\ build \in {"tick", "tick64", "perf", "posix"}
    BY DEF IInv, TypeOK, StartedMon, OpenMon, AllBuilds, Steady
  <1>2. mon[t].start = ReadingAt(b) /\ GetMonotonicTime = ReadingAt(now)
    BY <1>1, SteadyReading DEF IInv, StartsKept
  <1>3. /\ now \div Ms \in Nat /\ b \div Ms \in Nat
        /\ b \div Ms <= now \div Ms
    BY <1>1, Quotient, Monotonic
  <1> HIDE DEF b
  <1>4. CASE build = "tick"
    <2>1. /\ (b \div Ms) % Period \in 0 .. Period - 1
          /\ (now \div Ms) % Period \in 0 .. Period - 1
      BY <1>3, Quotient
    <2>2. MonElapsed(t) = TickDelta((b \div Ms) % Period, (now \div Ms) % Period)
      BY <1>2, <1>4 DEF ReadingAt, MonElapsed, GetMonotonicElapsed, GetMonotonicDelta
    <2> QED
      BY <2>1, <2>2 DEF TickDelta
  <1>5. CASE build = "perf"
    <2>1. MonElapsed(t) = U64Delta(b, now) \div Ms
      BY <1>2, <1>5 DEF ReadingAt, MonElapsed, GetMonotonicElapsed,
         GetMonotonicDelta, PerfDelta
    <2>2. U64Delta(b, now) \in Nat
      BY <1>1 DEF U64Delta
    <2> QED
      BY <2>1, <2>2, Quotient
  <1>6. CASE build \in {"tick64", "posix"}
    <2>1. MonElapsed(t) = U64Delta(b \div Ms, now \div Ms)
      BY <1>2, <1>6 DEF ReadingAt, MonElapsed, GetMonotonicElapsed, GetMonotonicDelta
    <2> QED
      BY <1>3, <2>1 DEF U64Delta
  <1> QED
    BY <1>1, <1>4, <1>5, <1>6

LEMMA SoundTimers ==
    ASSUME IInv
    PROVE  /\ Sound \subseteq StartedMon /\ Sound \subseteq Mon
           /\ \A t \in Sound :
                 /\ t \in DOMAIN mon /\ mon[t].fire \in Nat
                 /\ MonElapsed(t) \in Nat
                 /\ MonRest(t) \in 0 .. mon[t].fire
  <1>1. /\ Sound \subseteq StartedMon /\ Sound \subseteq Mon
        /\ \A t \in Sound : t \in DOMAIN mon /\ Steady
    BY DEF IInv, TypeOK, Sound, ArmedMon, StartedMon, OpenMon
  <1>2. \A t \in Sound : mon[t].fire \in Nat
    BY <1>1 DEF IInv, TypeOK, TimerObject
  <1>3. \A t \in Sound : MonElapsed(t) \in Nat
    BY <1>1, ElapsedIsNatural
  <1>4. \A t \in Sound : MonRest(t) \in 0 .. mon[t].fire
    BY <1>2, <1>3 DEF MonRest
  <1> QED
    BY <1>1, <1>2, <1>3, <1>4

(* A call on one timer leaves the countdowns of the others as they are.    *)
OnlyTimer(t) ==
    /\ UNCHANGED clocks
    /\ DOMAIN mon' = DOMAIN mon \cup {t}
    /\ \A u \in DOMAIN mon \ {t} : mon'[u] = mon[u]
    /\ \A u \in Mon \ {t} : began'[u] = began[u]

LEMMA OthersCountOn ==
    ASSUME IInv, NEW t \in Mon, OnlyTimer(t)
    PROVE  /\ Sound' \ {t} = Sound \ {t}
           /\ \A u \in Mon \ {t} : Span'[u] = Span[u] /\ ToGo'[u] = ToGo[u]
           /\ Span' = [Span EXCEPT ![t] = Span'[t]]
           /\ ToGo' = [ToGo EXCEPT ![t] = ToGo'[t]]
  <1>1. \A u \in Mon \ {t} : /\ u \in DOMAIN mon' <=> u \in DOMAIN mon
                             /\ u \in DOMAIN mon => mon'[u] = mon[u]
                             /\ began'[u] = began[u]
    BY DEF OnlyTimer
  <1>2. DOMAIN mon \subseteq Mon /\ DOMAIN mon' \subseteq Mon
    BY DEF IInv, TypeOK, OnlyTimer
  <1>3. build' = build /\ now' = now /\ utc' = utc
    BY DEF OnlyTimer, clocks
  <1>4. \A u \in Mon \ {t} : u \in Sound' <=> u \in Sound
    BY <1>1, <1>3 DEF Sound, ArmedMon, StartedMon, OpenMon, Steady, Lost, TicksSince
  <1>5. Sound \subseteq Mon /\ Sound' \subseteq Mon /\ Sound \subseteq DOMAIN mon
    BY <1>2 DEF Sound, ArmedMon, StartedMon, OpenMon
  <1>6. GetMonotonicTime' = GetMonotonicTime
    BY <1>3 DEF GetMonotonicTime, TickReading, Tick64Reading, PerfReading,
       PosixReading, GetUtcTime
  <1>7. \A u \in Sound \ {t} : /\ mon'[u].fire = mon[u].fire
                               /\ MonRest(u)' = MonRest(u)
    <2> SUFFICES ASSUME NEW u \in Sound \ {t}
                 PROVE  mon'[u].fire = mon[u].fire /\ MonRest(u)' = MonRest(u)
      OBVIOUS
    <2>1. mon'[u] = mon[u]
      BY <1>1, <1>5
    <2>2. MonElapsed(u)' = MonElapsed(u)
      BY <1>3, <1>6, <2>1 DEF MonElapsed, GetMonotonicElapsed, GetMonotonicDelta
    <2> QED
      BY <2>1, <2>2 DEF MonRest
  <1>8. \A u \in Mon \ {t} : Span'[u] = Span[u] /\ ToGo'[u] = ToGo[u]
    BY <1>4, <1>7 DEF Span, ToGo
  <1>9. /\ Span = [u \in Mon |-> Span[u]] /\ Span' = [u \in Mon |-> Span'[u]]
        /\ ToGo = [u \in Mon |-> ToGo[u]] /\ ToGo' = [u \in Mon |-> ToGo'[u]]
    BY DEF Span, ToGo
  <1> HIDE DEF Span, ToGo
  <1>10. Span' = [Span EXCEPT ![t] = Span'[t]] /\ ToGo' = [ToGo EXCEPT ![t] = ToGo'[t]]
    BY <1>8, <1>9
  <1>11. Sound' \ {t} = Sound \ {t}
    BY <1>4, <1>5
  <1> QED
    BY <1>8, <1>10, <1>11

(* A call that leaves the timer without a countdown.                       *)
LEMMA Disarming ==
    ASSUME IInv, NEW t \in Mon, OnlyTimer(t), t \notin Sound'
    PROVE  Count!Next
  <1>1. Sound' = Sound \ {t}
    BY OthersCountOn
  <1>2. Span'[t] = 0 /\ ToGo'[t] = 0
    BY DEF Span, ToGo
  <1> QED
    BY <1>1, <1>2, OthersCountOn, DisarmCounts

-----------------------------------------------------------------------------
(* Time only takes from what is to go.                                     *)

(* The difference of two readings of the tick counter.                     *)
LEMMA TicksBetween ==
    ASSUME NEW a \in Nat, NEW b \in Nat, a <= b, b - a < Period
    PROVE  TickDelta(Shown(a), Shown(b)) =
               IF Shown(b) < Shown(a) THEN b - a - 1 ELSE b - a
  <1>1. /\ Shown(a) \in 0 .. Period - 1 /\ Shown(b) \in 0 .. Period - 1
        /\ Shown(b) >= Shown(a) => Shown(b) - Shown(a) = b - a
        /\ Shown(b) < Shown(a) => Shown(b) - Shown(a) = b - a - Period
    BY Residues
  <1>2. Period \in Nat
    OBVIOUS
  <1>3. CASE Shown(b) < Shown(a)
    BY <1>1, <1>2, <1>3 DEF TickDelta
  <1>4. CASE ~(Shown(b) < Shown(a))
    BY <1>1, <1>2, <1>4 DEF TickDelta
  <1> QED
    BY <1>3, <1>4

LEMMA DeltaGrows ==
    ASSUME NEW b \in Nat, NEW m \in Nat, NEW n \in Nat, b <= m, m <= n,
           build \in {"tick", "tick64", "perf", "posix"},
           build = "tick" => (n \div Ms) - (b \div Ms) < Period
    PROVE  /\ GetMonotonicDelta(ReadingAt(b), ReadingAt(n)) \in Int
           /\ GetMonotonicDelta(ReadingAt(b), ReadingAt(m))
                  <= GetMonotonicDelta(ReadingAt(b), ReadingAt(n))
  <1> DEFINE x == b \div Ms
             y == m \div Ms
             z == n \div Ms
  <1>1. x \in Nat /\ y \in Nat /\ z \in Nat /\ x <= y /\ y <= z
    BY Quotient, Monotonic
  <1>2. CASE build = "tick"
    <2>1. /\ GetMonotonicDelta(ReadingAt(b), ReadingAt(m)) = TickDelta(Shown(x), Shown(y))
          /\ GetMonotonicDelta(ReadingAt(b), ReadingAt(n)) = TickDelta(Shown(x), Shown(z))
      BY <1>2 DEF GetMonotonicDelta, ReadingAt, Shown
    <2>2. z - x < Period
      BY <1>2
    <2> HIDE DEF x, y, z
    <2>3. y - x < Period
      BY <1>1, <2>2
    <2>4. /\ TickDelta(Shown(x), Shown(y)) \in {y - x, y - x - 1}
          /\ TickDelta(Shown(x), Shown(z)) \in {z - x, z - x - 1}
      BY <1>1, <2>2, <2>3, TicksBetween
    <2>5. CASE y = z
      BY <1>1, <2>1, <2>4, <2>5
    <2>6. CASE y < z
      BY <1>1, <2>1, <2>4, <2>6
    <2> QED
      BY <1>1, <2>5, <2>6
  <1>3. CASE build = "perf"
    <2>1. /\ U64Delta(b, m) = m - b /\ U64Delta(b, n) = n - b
          /\ m - b \in Nat /\ n - b \in Nat /\ m - b <= n - b
      BY DEF U64Delta
    <2>2. (m - b) \div Ms <= (n - b) \div Ms /\ (n - b) \div Ms \in Nat
      BY <2>1, Quotient, Monotonic
    <2> QED
      BY <1>3, <2>1, <2>2 DEF GetMonotonicDelta, PerfDelta, ReadingAt
  <1>4. CASE build \in {"tick64", "posix"}
    <2>1. /\ GetMonotonicDelta(ReadingAt(b), ReadingAt(m)) = U64Delta(x, y)
          /\ GetMonotonicDelta(ReadingAt(b), ReadingAt(n)) = U64Delta(x, z)
      BY <1>4 DEF GetMonotonicDelta, ReadingAt
    <2> HIDE DEF x, y, z
    <2> QED
      BY <1>1, <2>1 DEF U64Delta
  <1> QED
    BY <1>2, <1>3, <1>4

LEMMA TimeCounts ==
    ASSUME IInv, IInv', UNCHANGED <<build, mon, began>>, now <= now'
    PROVE  Count!Next
  <1>1. now \in Nat /\ now' \in Nat /\ Ms \in Nat \ {0}
    BY DEF IInv, TypeOK
  <1>2. /\ now \div Ms \in Nat /\ now' \div Ms \in Nat
        /\ now \div Ms <= now' \div Ms
    BY <1>1, Quotient, Monotonic
  <1>3. \A t \in Mon : began[t] \in Nat /\ began[t] <= now /\ began[t] \div Ms \in Nat
    <2>1. \A t \in Mon : began[t] \in 0 .. now
      BY DEF IInv, TypeOK
    <2> QED
      BY <1>1, <2>1, Quotient
  <1>4. Sound \subseteq Mon
    BY SoundTimers
  <1>5. \A t \in Mon : Lost(t) => Lost(t)'
    BY <1>2, <1>3 DEF Lost, TicksSince
  <1>6. Sound' \subseteq Sound
    <2>1. ArmedMon' = ArmedMon /\ (Steady' <=> Steady)
      BY DEF ArmedMon, StartedMon, OpenMon, Steady
    <2>2. ArmedMon \subseteq Mon
      BY DEF IInv, TypeOK, ArmedMon, StartedMon, OpenMon
    <2> QED
      BY <1>5, <2>1, <2>2 DEF Sound
  <1>7. ASSUME NEW t \in Sound'
        PROVE  MonElapsed(t) <= MonElapsed(t)' /\ MonElapsed(t)' \in Nat
               /\ MonElapsed(t) \in Nat
    <2> DEFINE b == began[t]
    <2>1. t \in Sound /\ t \in Mon /\ MonElapsed(t) \in Nat
      BY <1>4, <1>6, SoundTimers
    <2>2. Steady /\ Steady' /\ ~Lost(t)' /\ t \in DOMAIN mon /\ mon[t].started
          /\ build \in {"tick", "tick64", "perf", "posix"}
      BY <2>1 DEF Sound, ArmedMon, StartedMon, OpenMon, Steady, IInv, TypeOK, AllBuilds
    <2>3. mon[t].start = ReadingAt(b)
      BY <2>2 DEF IInv, StartsKept
    <2>4. GetMonotonicTime = ReadingAt(now)
      BY <2>2, SteadyReading DEF IInv
    <2>5. GetMonotonicTime' = ReadingAt(now')
      BY <2>2 DEF GetMonotonicTime, ReadingAt, TickReading, Tick64Reading,
         PerfReading, PosixReading
    <2>6. MonElapsed(t) = GetMonotonicDelta(ReadingAt(b), ReadingAt(now))
      BY <2>3, <2>4 DEF MonElapsed, GetMonotonicElapsed
    <2>7. MonElapsed(t)' = GetMonotonicDelta(ReadingAt(b), ReadingAt(now'))
      BY <2>3, <2>5 DEF MonElapsed, GetMonotonicElapsed, GetMonotonicDelta
    <2>8. build = "tick" => (now' \div Ms) - (b \div Ms) < Period
      BY <1>2, <1>3, <2>1, <2>2 DEF Lost, TicksSince
    <2>9. b \in Nat /\ b <= now
      BY <1>3, <2>1
    <2> HIDE DEF b
    <2>10. MonElapsed(t) <= MonElapsed(t)' /\ MonElapsed(t)' \in Int
      BY <1>1, <2>2, <2>6, <2>7, <2>8, <2>9, DeltaGrows
    <2> QED
      BY <2>1, <2>10
  <1>8. \A t \in Sound' : MonRest(t)' \in Nat /\ MonRest(t)' <= MonRest(t)
    <2> SUFFICES ASSUME NEW t \in Sound'
                 PROVE  MonRest(t)' \in Nat /\ MonRest(t)' <= MonRest(t)
      OBVIOUS
    <2>1. mon[t].fire \in Nat /\ MonRest(t) \in Nat
      BY <1>6, SoundTimers
    <2>2. MonRest(t)' = (IF MonElapsed(t)' >= mon[t].fire THEN 0
                         ELSE mon[t].fire - MonElapsed(t)')
      BY DEF MonRest
    <2>3. MonRest(t) = (IF MonElapsed(t) >= mon[t].fire THEN 0
                        ELSE mon[t].fire - MonElapsed(t))
      BY DEF MonRest
    <2> QED
      BY <1>7, <2>1, <2>2, <2>3
  <1>9. \A t \in Sound : MonRest(t) \in Nat
    BY SoundTimers
  <1>10. /\ Span' = [t \in Mon |-> IF t \in Sound' THEN Span[t] ELSE 0]
         /\ ToGo' \in [Mon -> Nat]
         /\ \A t \in Mon : ToGo'[t] <= ToGo[t]
         /\ \A t \in Mon \ Sound' : ToGo'[t] = 0
    <2>1. Span' = [t \in Mon |-> IF t \in Sound' THEN Span[t] ELSE 0]
      BY <1>6 DEF Span
    <2>2. /\ ToGo' \in [Mon -> Nat]
          /\ \A t \in Mon : ToGo'[t] <= ToGo[t]
          /\ \A t \in Mon \ Sound' : ToGo'[t] = 0
      BY <1>6, <1>8, <1>9 DEF ToGo
    <2> QED
      BY <2>1, <2>2
  <1>11. Count!TimePasses
    BY <1>6, <1>10 DEF Count!TimePasses, Span, ToGo
  <1> QED
    BY <1>11 DEF Count!Next

-----------------------------------------------------------------------------
(* Each method is a step of the countdown, or leaves it as it is.          *)

LEMMA ObjectReplaced ==
    ASSUME IInv, NEW t \in DOMAIN mon, NEW o, mon' = [mon EXCEPT ![t] = o],
           UNCHANGED clocks, \A u \in Mon \ {t} : began'[u] = began[u]
    PROVE  t \in Mon /\ OnlyTimer(t) /\ mon'[t] = o
  BY DEF OnlyTimer, IInv, TypeOK

LEMMA EndingCounts ==
    ASSUME IInv, NEW t \in Mon,
           \/ \E d \in Durations \cup {NoNumber} : CreateMonotonic(t, d)
           \/ MonReset(t) \/ MonStop(t) \/ MonClose(t)
    PROVE  Count!Next
  <1>1. ASSUME NEW d \in Durations \cup {NoNumber}, CreateMonotonic(t, d)
        PROVE  OnlyTimer(t) /\ t \notin Sound'
    <2>1. ~WithFire(NewObject, d).started
      BY Objects, FireStored DEF IInv
    <2>2. mon'[t] = WithFire(NewObject, d) /\ OnlyTimer(t)
      BY <1>1 DEF CreateMonotonic, OnlyTimer
    <2> QED
      BY <2>1, <2>2 DEF Sound, ArmedMon, StartedMon
  <1>2. CASE MonReset(t) \/ MonStop(t) \/ MonClose(t)
    <2>1. t \in DOMAIN mon /\ mon[t] \in TimerObject
      BY <1>2, Objects DEF IInv, MonReset, MonStop, MonClose, StartedMon, OpenMon
    <2>2. \E o : /\ mon' = [mon EXCEPT ![t] = o]
                 /\ o.closed \/ ~o.started \/ ~o.setted
      <3>1. /\ [mon[t] EXCEPT !.setted = FALSE].setted = FALSE
            /\ [mon[t] EXCEPT !.started = FALSE].started = FALSE
            /\ [mon[t] EXCEPT !.closed = TRUE].closed = TRUE
        BY <2>1 DEF TimerObject
      <3> DEFINE reset == [mon[t] EXCEPT !.setted = FALSE]
                 stopped == [mon[t] EXCEPT !.started = FALSE]
                 shut == [mon[t] EXCEPT !.closed = TRUE]
      <3>2. \/ mon' = [mon EXCEPT ![t] = reset]
            \/ mon' = [mon EXCEPT ![t] = stopped]
            \/ mon' = [mon EXCEPT ![t] = shut]
        BY <1>2 DEF MonReset, MonStop, MonClose
      <3>3. reset.setted = FALSE /\ stopped.started = FALSE /\ shut.closed = TRUE
        BY <3>1
      <3> HIDE DEF reset, stopped, shut
      <3> QED
        BY <3>2, <3>3
    <2>3. UNCHANGED <<clocks, began>>
      BY <1>2 DEF MonReset, MonStop, MonClose
    <2>4. OnlyTimer(t) /\ (mon'[t].closed \/ ~mon'[t].started \/ ~mon'[t].setted)
      BY <2>1, <2>2, <2>3, ObjectReplaced
    <2>5. t \notin Sound'
      BY <2>4 DEF Sound, ArmedMon, StartedMon, OpenMon
    <2> QED
      BY <2>4, <2>5, Disarming
  <1> QED
    BY <1>1, <1>2, Disarming

(* What a timer holds after a fire time was stored.                        *)
LEMMA FireSet ==
    ASSUME NEW o \in TimerObject, NEW d \in Durations
    PROVE  WithFire(o, d).fire = d
  BY DEF TimerObject, WithFire

LEMMA MonSetCounts ==
    ASSUME IInv, NEW t \in Mon, NEW d \in Durations, MonSet(t, d)
    PROVE  [Count!Next]_(Count!vars)
  <1> DEFINE o == WithFire(mon[t], d)
  <1>1. t \in DOMAIN mon /\ mon[t] \in TimerObject /\ d \in Nat
    BY Objects DEF IInv, MonSet, OpenMon
  <1>2. o.start = mon[t].start /\ o.started = mon[t].started /\ o.fire = d
    BY <1>1, FireStored, FireSet
  <1>3. mon' = [mon EXCEPT ![t] = o] /\ UNCHANGED <<clocks, began>> /\ t \in OpenMon
    BY DEF MonSet
  <1> HIDE DEF o
  <1>4. OnlyTimer(t) /\ mon'[t] = o
    BY <1>1, <1>3, ObjectReplaced
  <1>5. CASE t \notin Sound'
    BY <1>4, <1>5, Disarming
  <1>6. CASE t \in Sound'
    <2>1. t \in StartedMon /\ Steady
      BY <1>2, <1>3, <1>4, <1>6 DEF Sound, ArmedMon, StartedMon, OpenMon, Steady, clocks
    <2>2. MonElapsed(t) \in Nat
      BY <2>1, ElapsedIsNatural
    <2>3. GetMonotonicTime' = GetMonotonicTime
      BY <1>3 DEF clocks, GetMonotonicTime, TickReading, Tick64Reading,
         PerfReading, PosixReading, GetUtcTime
    <2>4. MonElapsed(t)' = MonElapsed(t)
      BY <1>2, <1>3, <1>4, <2>3 DEF clocks, MonElapsed, GetMonotonicElapsed, GetMonotonicDelta
    <2>5. MonRest(t)' = (IF MonElapsed(t) >= d THEN 0 ELSE d - MonElapsed(t))
      BY <1>2, <1>4, <2>4 DEF MonRest
    <2>6. Span'[t] = d /\ ToGo'[t] = MonRest(t)' /\ ToGo'[t] \in 0 .. d
      <3>1. Span'[t] = d /\ ToGo'[t] = MonRest(t)'
        BY <1>2, <1>4, <1>6 DEF Span, ToGo
      <3> QED
        BY <1>1, <2>2, <2>5, <3>1
    <2>7. Sound' = Sound \cup {t}
      BY <1>4, <1>6, OthersCountOn
    <2>8. CASE t \in Sound /\ Span[t] = d
      <3>1. mon[t].fire = d
        BY <2>8 DEF Span
      <3>2. ToGo[t] = MonRest(t) /\ MonRest(t) = MonRest(t)'
        BY <2>5, <2>8, <3>1 DEF ToGo, MonRest
      <3>3. Sound' = Sound /\ Span'[t] = Span[t] /\ ToGo'[t] = ToGo[t]
        BY <2>6, <2>7, <2>8, <3>2
      <3>4. Span' = [Span EXCEPT ![t] = Span[t]] /\ ToGo' = [ToGo EXCEPT ![t] = ToGo[t]]
        BY <1>4, <3>3, OthersCountOn
      <3>5. Span' = Span /\ ToGo' = ToGo
        BY <3>4 DEF Span, ToGo
      <3> QED
        BY <3>3, <3>5 DEF Count!vars, Span, ToGo
    <2>9. CASE t \in Sound => Span[t] # d
      BY <1>1, <1>4, <2>6, <2>7, <2>9, OthersCountOn, StretchCounts
    <2> QED
      BY <2>8, <2>9
  <1> QED
    BY <1>5, <1>6

(* The difference of a reading and itself.                                 *)
LEMMA NothingElapsed ==
    ASSUME NEW n \in Nat
    PROVE  TickDelta(n, n) = 0 /\ U64Delta(n, n) = 0 /\ PerfDelta(n, n) = 0
  <1>1. TickDelta(n, n) = 0
    BY DEF TickDelta
  <1>2. U64Delta(n, n) = 0
    <2> DEFINE delta == -(n - n)
    <2>1. delta \in Int /\ (n - n) + delta = 0
      <3>1. \A k \in Int : -k \in Int /\ k + (-k) = 0
        OBVIOUS
      <3>2. n - n \in Int
        OBVIOUS
      <3> QED
        BY <3>1, <3>2, Zenon
    <2>2. U64Delta(n, n) = delta
      BY DEF U64Delta
    <2> HIDE DEF delta
    <2> QED
      BY <2>1, <2>2
  <1>3. 0 \div Ms = 0
    OBVIOUS
  <1> QED
    BY <1>1, <1>2, <1>3 DEF PerfDelta

LEMMA MonStartCounts ==
    ASSUME IInv, IInv', NEW t \in Mon, NEW d \in Durations \cup {NoNumber},
           MonStart(t, d)
    PROVE  Count!Next
  <1> DEFINE started == [mon[t] EXCEPT !.start = GetMonotonicTime,
                                       !.started = TRUE]
             o == WithFire(started, d)
  <1>1. t \in DOMAIN mon
    BY DEF MonStart, OpenMon
  <1>2. started \in TimerObject /\ started.start = GetMonotonicTime
    BY <1>1, Objects, ReadingType DEF IInv, TimerObject
  <1>3. o.start = GetMonotonicTime
    <2> HIDE DEF started
    <2> QED
      BY <1>2, FireStored
  <1>4. mon' = [mon EXCEPT ![t] = o] /\ UNCHANGED clocks
    BY DEF MonStart
  <1>5. \A u \in Mon \ {t} : began'[u] = began[u]
    BY Objects DEF MonStart, IInv
  <1> HIDE DEF o
  <1>6. OnlyTimer(t) /\ mon'[t] = o
    BY <1>1, <1>4, <1>5, ObjectReplaced
  <1>7. CASE t \notin Sound'
    BY <1>6, <1>7, Disarming
  <1>8. CASE t \in Sound'
    <2>1. mon'[t].fire \in Nat
      BY <1>8 DEF IInv, TypeOK, TimerObject, Sound, ArmedMon, StartedMon, OpenMon
    <2>2. GetMonotonicTime' = GetMonotonicTime /\ build' = build
      BY <1>4 DEF clocks, GetMonotonicTime, TickReading, Tick64Reading,
         PerfReading, PosixReading, GetUtcTime
    <2>3. GetMonotonicTime \in Nat /\ build \in AllBuilds
      BY ReadingType DEF IInv, TypeOK
    <2>4. MonElapsed(t)' = GetMonotonicDelta(GetMonotonicTime, GetMonotonicTime)
      BY <1>3, <1>6, <2>2 DEF MonElapsed, GetMonotonicElapsed, GetMonotonicDelta
    <2>5. GetMonotonicDelta(GetMonotonicTime, GetMonotonicTime) = 0
      <3> QED
        BY <2>3, NothingElapsed DEF GetMonotonicDelta, AllBuilds
    <2>6. MonRest(t)' = mon'[t].fire
      <3>1. MonRest(t)' = (IF MonElapsed(t)' >= mon'[t].fire THEN 0
                           ELSE mon'[t].fire - MonElapsed(t)')
        BY DEF MonRest
      <3> QED
        BY <2>1, <2>4, <2>5, <3>1
    <2>7. Span'[t] = mon'[t].fire /\ ToGo'[t] = Span'[t]
      BY <1>8, <2>6 DEF Span, ToGo
    <2>8. Sound' = Sound \cup {t}
      BY <1>6, <1>8, OthersCountOn
    <2> QED
      BY <1>6, <2>1, <2>7, <2>8, OthersCountOn, ArmCounts
  <1> QED
    BY <1>7, <1>8

(* Where the counter is steady and within its period, the monotonic timers *)
(* of any build are countdowns: what is to go grows only by a call that    *)
(* arms the timer, whatever time passes between two readings, across the   *)
(* wrap of the counter and whatever the system clock is set to.            *)
THEOREM TimersImplementCountdown == Spec => ImplementsCountdown
  <1>1. Init => Count!Init
    <2> SUFFICES ASSUME Init PROVE Count!Init
      OBVIOUS
    <2>1. Sound = {}
      BY DEF Init, Sound, ArmedMon, StartedMon, OpenMon
    <2> QED
      BY <2>1 DEF Count!Init
  <1>2. IInv /\ IInv' /\ [Next]_vars => [Count!Next]_(Count!vars)
    <2> SUFFICES ASSUME IInv, IInv', [Next]_vars PROVE [Count!Next]_(Count!vars)
      OBVIOUS
    <2>1. ASSUME NEW t \in Mon,
                 \/ \E d \in Durations \cup {NoNumber} :
                       CreateMonotonic(t, d) \/ MonStart(t, d)
                 \/ \E d \in Durations : MonSet(t, d)
                 \/ MonReset(t) \/ MonStop(t) \/ MonClose(t)
          PROVE  [Count!Next]_(Count!vars)
      BY <2>1, EndingCounts, MonStartCounts, MonSetCounts
    <2>2. ASSUME UNCHANGED <<build, mon, began>>, now <= now'
          PROVE  [Count!Next]_(Count!vars)
      BY <2>2, TimeCounts
    <2>3. now \in Nat
      BY DEF IInv, TypeOK
    <2>4. ASSUME NEW t \in Abs,
                 \/ \E p \in Deadlines \cup {NoNumber} :
                       CreateAbsolute(t, p) \/ AbsStart(t, p)
                 \/ \E p \in Deadlines : AbsSet(t, p)
                 \/ AbsReset(t) \/ AbsStop(t) \/ AbsClose(t)
          PROVE  [Count!Next]_(Count!vars)
      <3>1. UNCHANGED <<clocks, mon, began>>
        BY <2>4 DEF CreateAbsolute, AbsStart, AbsSet, AbsReset, AbsStop, AbsClose
      <3> QED
        BY <2>2, <2>3, <3>1 DEF clocks
    <2>5. CASE Advance \/ (\E d \in Durations : Sleep(d)) \/ SetClock
      <3>1. UNCHANGED <<build, mon, began>>
        BY <2>5 DEF Advance, Sleep, Pass, SetClock
      <3>2. now <= now'
        BY <2>3, <2>5 DEF Advance, Sleep, Pass, SetClock
      <3> QED
        BY <2>2, <3>1, <3>2
    <2>6. CASE UNCHANGED vars
      BY <2>2, <2>3, <2>6 DEF vars, clocks
    <2> QED
      BY <2>1, <2>4, <2>5, <2>6 DEF Next
  <1> QED
    BY <1>1, <1>2, Invariance, PTL DEF Spec, Count!Spec, ImplementsCountdown

-----------------------------------------------------------------------------
(* Who waits long enough.                                                  *)

LEMMA QuotientAdds ==
    ASSUME NEW m \in Nat, NEW n \in Nat, NEW k \in Nat, n - m >= k * Ms
    PROVE  n \div Ms >= m \div Ms + k
  <1> DEFINE q == m \div Ms
             p == n \div Ms
  <1>1. /\ q \in Nat /\ m >= q * Ms /\ q * Ms \in Nat
        /\ p \in Nat /\ n < p * Ms + Ms /\ p * Ms \in Nat
    BY Quotient
  <1> HIDE DEF q, p
  <1>2. SUFFICES ASSUME p + 1 <= q + k PROVE FALSE
    BY <1>1 DEF q, p
  <1>3. (p + 1) * Ms <= (q + k) * Ms
    BY <1>1, <1>2
  <1>4. (p + 1) * Ms = p * Ms + Ms /\ (q + k) * Ms = q * Ms + k * Ms /\ k * Ms \in Nat
    BY <1>1
  <1> QED
    BY <1>1, <1>3, <1>4

(* After k milliseconds, and one more when the tick counter wrapped in     *)
(* them, k more are elapsed.                                               *)
LEMMA DeltaAdds ==
    ASSUME NEW b \in Nat, NEW m \in Nat, NEW n \in Nat, NEW k \in Nat, b <= m, m <= n,
           build \in {"tick", "tick64", "perf", "posix"},
           build = "tick" => (n \div Ms) - (b \div Ms) < Period,
           n - m >= k * Ms,
           build = "tick" /\ ReadingAt(n) < ReadingAt(b) /\ ~(ReadingAt(m) < ReadingAt(b))
               => n - m >= (k + 1) * Ms
    PROVE  GetMonotonicDelta(ReadingAt(b), ReadingAt(n))
               >= GetMonotonicDelta(ReadingAt(b), ReadingAt(m)) + k
  <1> DEFINE x == b \div Ms
             y == m \div Ms
             z == n \div Ms
  <1>1. x \in Nat /\ y \in Nat /\ z \in Nat /\ x <= y /\ y <= z /\ z >= y + k
    BY Quotient, Monotonic, QuotientAdds
  <1>2. CASE build = "tick"
    <2>1. /\ GetMonotonicDelta(ReadingAt(b), ReadingAt(m)) = TickDelta(Shown(x), Shown(y))
          /\ GetMonotonicDelta(ReadingAt(b), ReadingAt(n)) = TickDelta(Shown(x), Shown(z))
          /\ ReadingAt(b) = Shown(x) /\ ReadingAt(m) = Shown(y) /\ ReadingAt(n) = Shown(z)
      BY <1>2 DEF GetMonotonicDelta, ReadingAt, Shown
    <2>2. Shown(z) < Shown(x) /\ ~(Shown(y) < Shown(x)) => z >= y + (k + 1)
      <3>1. k + 1 \in Nat
        OBVIOUS
      <3>2. n - m >= (k + 1) * Ms => z >= y + (k + 1)
        BY <3>1, QuotientAdds
      <3> HIDE DEF x, y, z
      <3> QED
        BY <1>2, <2>1, <3>2
    <2>3. z - x < Period
      BY <1>2
    <2> HIDE DEF x, y, z
    <2>4. y - x < Period
      BY <1>1, <2>3
    <2>5. /\ TickDelta(Shown(x), Shown(y)) =
                 (IF Shown(y) < Shown(x) THEN y - x - 1 ELSE y - x)
          /\ TickDelta(Shown(x), Shown(z)) =
                 (IF Shown(z) < Shown(x) THEN z - x - 1 ELSE z - x)
      BY <1>1, <2>3, <2>4, TicksBetween
    <2> QED
      BY <1>1, <2>1, <2>2, <2>5
  <1>3. CASE build = "perf"
    <2>1. /\ U64Delta(b, m) = m - b /\ U64Delta(b, n) = n - b
          /\ m - b \in Nat /\ n - b \in Nat /\ (n - b) - (m - b) >= k * Ms
      <3>1. U64Delta(b, m) = m - b /\ U64Delta(b, n) = n - b
        BY DEF U64Delta
      <3>2. k * Ms \in Nat
        OBVIOUS
      <3> QED
        BY <3>1, <3>2
    <2>2. (n - b) \div Ms >= (m - b) \div Ms + k
      BY <2>1, QuotientAdds
    <2> QED
      BY <1>3, <2>1, <2>2 DEF GetMonotonicDelta, PerfDelta, ReadingAt
  <1>4. CASE build \in {"tick64", "posix"}
    <2>1. /\ GetMonotonicDelta(ReadingAt(b), ReadingAt(m)) = U64Delta(x, y)
          /\ GetMonotonicDelta(ReadingAt(b), ReadingAt(n)) = U64Delta(x, z)
      BY <1>4 DEF GetMonotonicDelta, ReadingAt
    <2> HIDE DEF x, y, z
    <2>2. U64Delta(x, y) = y - x /\ U64Delta(x, z) = z - x
      BY <1>1 DEF U64Delta
    <2> QED
      BY <1>1, <2>1, <2>2
  <1> QED
    BY <1>2, <1>3, <1>4

(* A step moves a monotonic timer or a clock, not both.                    *)
LEMMA OneMoves ==
    ASSUME IInv, [Next]_vars
    PROVE  \/ UNCHANGED <<build, mon, began>> /\ now <= now'
           \/ UNCHANGED clocks
  <1>1. now \in Nat
    BY DEF IInv, TypeOK
  <1>2. CASE Advance \/ (\E d \in Durations : Sleep(d)) \/ SetClock
    <2>1. UNCHANGED <<build, mon, began>>
      BY <1>2 DEF Advance, Sleep, Pass, SetClock
    <2>2. now <= now'
      BY <1>1, <1>2 DEF Advance, Sleep, Pass, SetClock
    <2> QED
      BY <2>1, <2>2
  <1>3. CASE ~(Advance \/ (\E d \in Durations : Sleep(d)) \/ SetClock)
    <2>1. UNCHANGED clocks
      BY <1>3 DEF Next, vars, CreateMonotonic, MonStart, MonSet, MonReset, MonStop,
         MonClose, CreateAbsolute, AbsStart, AbsSet, AbsReset, AbsStop, AbsClose
    <2> QED
      BY <2>1
  <1> QED
    BY <1>2, <1>3

LEMMA MonWaits ==
    ASSUME IInv, [Next]_vars, Steady, NEW t \in ArmedMon
    PROVE  MonWaitIsEnough(t)
  <1> DEFINE slack == IF Wrapped(t)' /\ ~Wrapped(t) THEN Ms ELSE 0
  <1> SUFFICES ASSUME mon[t]' = mon[t], ~Lost(t)', now' - now >= (MonRest(t) * Ms) + slack
               PROVE  MonRest(t)' = 0
    BY DEF MonWaitIsEnough
  <1>1. /\ t \in StartedMon /\ t \in DOMAIN mon /\ mon[t].started /\ mon[t].fire \in Nat
        /\ t \in Mon /\ build \in {"tick", "tick64", "perf", "posix"} /\ now \in Nat
        /\ began[t] \in 0 .. now
    BY DEF ArmedMon, StartedMon, OpenMon, IInv, TypeOK, TimerObject, Steady, AllBuilds
  <1>2. MonElapsed(t) \in Nat
    BY <1>1, ElapsedIsNatural
  <1>3. MonRest(t) \in Nat /\ MonElapsed(t) + MonRest(t) >= mon[t].fire
    BY <1>1, <1>2 DEF MonRest
  <1>4. MonRest(t)' = (IF MonElapsed(t)' >= mon[t].fire THEN 0
                       ELSE mon[t].fire - MonElapsed(t)')
    BY DEF MonRest
  <1>5. ASSUME MonElapsed(t)' \in Int, MonElapsed(t)' >= MonElapsed(t) + MonRest(t)
        PROVE  MonRest(t)' = 0
    BY <1>1, <1>2, <1>3, <1>4, <1>5
  <1>6. CASE UNCHANGED clocks
    <2>1. GetMonotonicTime' = GetMonotonicTime /\ build' = build /\ now' = now
      BY <1>6 DEF clocks, GetMonotonicTime, TickReading, Tick64Reading,
         PerfReading, PosixReading, GetUtcTime
    <2>2. MonElapsed(t)' = MonElapsed(t)
      BY <2>1 DEF MonElapsed, GetMonotonicElapsed, GetMonotonicDelta
    <2>3. MonRest(t) = 0
      <3>1. MonRest(t) * Ms + slack <= 0 /\ slack \in Nat
        BY <1>1, <1>3, <2>1
      <3> HIDE DEF slack
      <3>2. MonRest(t) >= 1 => MonRest(t) * Ms >= 1
        BY <1>3
      <3> QED
        BY <1>3, <3>1, <3>2
    <2> QED
      BY <1>2, <1>5, <2>2, <2>3
  <1>7. CASE UNCHANGED <<build, mon, began>> /\ now <= now'
    <2> DEFINE b == began[t]
               k == MonRest(t)
    <2>1. mon[t].start = ReadingAt(b) /\ GetMonotonicTime = ReadingAt(now)
      BY <1>1, SteadyReading DEF IInv, StartsKept
    <2>2. GetMonotonicTime' = ReadingAt(now')
      BY <1>1, <1>7 DEF GetMonotonicTime, ReadingAt, TickReading, Tick64Reading,
         PerfReading, PosixReading
    <2>3. MonElapsed(t) = GetMonotonicDelta(ReadingAt(b), ReadingAt(now))
      BY <2>1 DEF MonElapsed, GetMonotonicElapsed
    <2>4. MonElapsed(t)' = GetMonotonicDelta(ReadingAt(b), ReadingAt(now'))
      BY <1>7, <2>1, <2>2 DEF MonElapsed, GetMonotonicElapsed, GetMonotonicDelta
    <2>5. now' \in Nat /\ b \in Nat /\ b <= now
      BY <1>1, <1>7, NextHolds DEF IInv, TypeOK
    <2>6. build = "tick" => (now' \div Ms) - (b \div Ms) < Period
      <3>1. now' \div Ms \in Nat /\ b \div Ms \in Nat
        BY <2>5, Quotient
      <3> QED
        BY <1>7, <3>1 DEF Lost, TicksSince
    <2>7. k * Ms \in Nat /\ (k + 1) * Ms = k * Ms + Ms
      BY <1>3
    <2>8. now' - now >= k * Ms
      BY <1>1, <2>5, <2>7
    <2>9. build = "tick" /\ ReadingAt(now') < ReadingAt(b) /\ ~(ReadingAt(now) < ReadingAt(b))
              => now' - now >= (k + 1) * Ms
      <3>1. Wrapped(t) <=> build = "tick" /\ ReadingAt(now) < ReadingAt(b)
        BY <2>1 DEF Wrapped
      <3>2. Wrapped(t)' <=> build = "tick" /\ ReadingAt(now') < ReadingAt(b)
        BY <1>7, <2>1, <2>2 DEF Wrapped
      <3> QED
        BY <2>7, <3>1, <3>2
    <2>10. k \in Nat
      BY <1>3
    <2> HIDE DEF b, k, slack
    <2>11. MonElapsed(t)' >= MonElapsed(t) + k /\ MonElapsed(t)' \in Int
      <3>1. PICK m, n \in Nat : m = now /\ n = now'
        BY <1>1, <2>5
      <3>2. b \in Nat /\ b <= m /\ m <= n
        BY <1>7, <2>5, <3>1
      <3>3. build = "tick" => (n \div Ms) - (b \div Ms) < Period
        BY <2>6, <3>1
      <3>4. n - m >= k * Ms
        BY <2>8, <3>1
      <3>5. build = "tick" /\ ReadingAt(n) < ReadingAt(b) /\ ~(ReadingAt(m) < ReadingAt(b))
              => n - m >= (k + 1) * Ms
        BY <2>9, <3>1
      <3>6. GetMonotonicDelta(ReadingAt(b), ReadingAt(n)) \in Int
        BY <1>1, <3>1, <3>2, <3>3, DeltaGrows
      <3>7. GetMonotonicDelta(ReadingAt(b), ReadingAt(n))
              >= GetMonotonicDelta(ReadingAt(b), ReadingAt(m)) + k
        BY <1>1, <2>10, <3>1, <3>2, <3>3, <3>4, <3>5, DeltaAdds
      <3> QED
        BY <2>3, <2>4, <3>1, <3>6, <3>7
    <2> QED
      BY <1>5, <2>11 DEF k
  <1> QED
    BY <1>6, <1>7, OneMoves

LEMMA AbsWaits ==
    ASSUME IInv, IInv', NEW t \in ArmedAbs
    PROVE  AbsWaitIsEnough(t)
  <1> SUFFICES ASSUME t \in ArmedAbs', abs[t].fire' = abs[t].fire,
                      utc' - utc >= AbsRest(t) * Ms
               PROVE  AbsRest(t)' = 0
    BY DEF AbsWaitIsEnough
  <1> DEFINE f == abs[t].fire
             u == utc \div Ms
             v == utc' \div Ms
             k == AbsRest(t)
  <1>1. f \in Nat /\ utc \in Nat /\ utc' \in Nat
    BY DEF ArmedAbs, StartedAbs, OpenAbs, IInv, TypeOK, TimerObject
  <1>2. u \in Nat /\ v \in Nat
    BY <1>1, Quotient
  <1>3. /\ k = (IF U64Delta(u, f) <= 0 THEN 0 ELSE U64Delta(u, f))
        /\ AbsRest(t)' = (IF U64Delta(v, f) <= 0 THEN 0 ELSE U64Delta(v, f))
    BY DEF AbsRest, GetUtcDelta, GetUtcTime
  <1>4. utc' - utc >= k * Ms
    OBVIOUS
  <1> HIDE DEF f, k
  <1>5. k \in Nat
    <2> HIDE DEF u, v
    <2> QED
      BY <1>1, <1>2, <1>3 DEF U64Delta
  <1>6. v >= u + k
    BY <1>1, <1>4, <1>5, QuotientAdds
  <1> HIDE DEF u, v
  <1>7. f <= u + k
    BY <1>1, <1>2, <1>3 DEF U64Delta
  <1>8. f <= v
    BY <1>1, <1>2, <1>5, <1>6, <1>7
  <1>9. U64Delta(v, f) <= 0
    BY <1>1, <1>2, <1>8 DEF U64Delta
  <1> QED
    BY <1>3, <1>9

(* Who waits for what rest() answered, by the clock of the timer, finds it *)
(* at zero: the loop that polls for the rest of its first event does not   *)
(* find it a little short again and again (loop.lua:147-158), in any build *)
(* with a steady clock and for any intervals.                              *)
THEOREM WaitingSuffices == Spec => WaitIsEnough
  <1>1. IInv /\ IInv' /\ [Next]_vars =>
            [ /\ Steady => \A t \in ArmedMon : MonWaitIsEnough(t)
              /\ \A t \in ArmedAbs : AbsWaitIsEnough(t) ]_vars
    BY MonWaits, AbsWaits
  <1> QED
    BY <1>1, Invariance, PTL DEF Spec, WaitIsEnough

=============================================================================
