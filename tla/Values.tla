------------------------------- MODULE Values -------------------------------
(***************************************************************************)
(* What a user of message objects may think of them: each is a string of   *)
(* its own, editing one touches no other, and what was sent arrives as it  *)
(* was when it was sent, in order.                                         *)
(***************************************************************************)
EXTENDS Naturals, Sequences

CONSTANTS Names,      \* the messages
          Strings,    \* what can be written into a message
          Positions,  \* where it can be written
          Sizes,      \* sizes it can be given
          Undefined,  \* a byte nobody wrote
          NoValue     \* the value of a message that is not open

VARIABLES value,  \* the string of every message
          queue   \* the strings that were sent and not received

vars == <<value, queue>>

(* s written into v at position p; a gap between them is undefined.        *)
Overwrite(v, p, s) ==
    [i \in 1 .. (IF p + Len(s) - 1 > Len(v) THEN p + Len(s) - 1 ELSE Len(v)) |->
        IF i >= p /\ i < p + Len(s) THEN s[i - p + 1]
        ELSE IF i <= Len(v) THEN v[i] ELSE Undefined]

Resize(v, n) == [i \in 1 .. n |-> IF i <= Len(v) THEN v[i] ELSE Undefined]

Init == value = [m \in Names |-> NoValue] /\ queue = <<>>

New(m) ==
    /\ value[m] = NoValue
    /\ value' = [value EXCEPT ![m] = value'[m]]
    /\ UNCHANGED queue

Write(m, p, s) ==
    /\ value[m] # NoValue
    /\ value' = [value EXCEPT ![m] = Overwrite(@, p, s)]
    /\ UNCHANGED queue

SetSize(m, n) ==
    /\ value[m] # NoValue
    /\ value' = [value EXCEPT ![m] = Resize(@, n)]
    /\ UNCHANGED queue

Copy(dst, src) ==
    /\ value[src] # NoValue
    /\ value' = [value EXCEPT ![dst] = value[src]]
    /\ UNCHANGED queue

Move(dst, src) ==
    /\ value[src] # NoValue /\ dst # src
    /\ value' = [value EXCEPT ![dst] = value[src], ![src] = <<>>]
    /\ UNCHANGED queue

Send(m) ==
    /\ value[m] # NoValue
    /\ queue' = Append(queue, value[m])
    /\ value' = [value EXCEPT ![m] = <<>>]

Receive(m) ==
    /\ value[m] # NoValue /\ queue # <<>>
    /\ value' = [value EXCEPT ![m] = Head(queue)]
    /\ queue' = Tail(queue)

Close(m) ==
    /\ value' = [value EXCEPT ![m] = NoValue]
    /\ UNCHANGED queue

Next ==
    \/ \E m \in Names :
        \/ New(m) \/ Send(m) \/ Receive(m) \/ Close(m)
        \/ \E p \in Positions, s \in Strings : Write(m, p, s)
        \/ \E n \in Sizes : SetSize(m, n)
    \/ \E d, s \in Names : Copy(d, s) \/ Move(d, s)

Spec == Init /\ [][Next]_vars
=============================================================================
