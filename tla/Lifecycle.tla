----------------------------- MODULE Lifecycle -----------------------------
(***************************************************************************)
(* What lzmq promises about the life of its objects.  A context is created *)
(* and destroyed; a socket is opened in a context, tells its owner that it *)
(* is about to be closed, at most once and while its context still exists, *)
(* and is closed, once.  A context is gone only when its sockets are.      *)
(***************************************************************************)

CONSTANTS Context, Socket, NoContext

VARIABLES context,   \* Context -> "unborn", "open" or "closed"
          socket,    \* Socket -> "unborn", "open", "notified" or "closed"
          home       \* Socket -> its context

vars == <<context, socket, home>>

Init ==
    /\ context = [c \in Context |-> "unborn"]
    /\ socket = [s \in Socket |-> "unborn"]
    /\ home = [s \in Socket |-> NoContext]

CreateContext(c) ==
    /\ context[c] = "unborn"
    /\ context' = [context EXCEPT ![c] = "open"]
    /\ UNCHANGED <<socket, home>>

OpenSocket(s, c) ==
    /\ socket[s] = "unborn"
    /\ context[c] = "open"
    /\ socket' = [socket EXCEPT ![s] = "open"]
    /\ home' = [home EXCEPT ![s] = c]
    /\ UNCHANGED context

(* A constructor that fails leaves an object that is closed.               *)
CreateFails(c) ==
    /\ context[c] = "unborn"
    /\ context' = [context EXCEPT ![c] = "closed"]
    /\ UNCHANGED <<socket, home>>

OpenFails(s, c) ==
    /\ socket[s] = "unborn"
    /\ context[c] = "open"
    /\ socket' = [socket EXCEPT ![s] = "closed"]
    /\ home' = [home EXCEPT ![s] = c]
    /\ UNCHANGED context

NotifyOwner(s) ==
    /\ socket[s] = "open"
    /\ context[home[s]] = "open"
    /\ socket' = [socket EXCEPT ![s] = "notified"]
    /\ UNCHANGED <<context, home>>

CloseSocket(s) ==
    /\ socket[s] \in {"open", "notified"}
    /\ context[home[s]] = "open"
    /\ socket' = [socket EXCEPT ![s] = "closed"]
    /\ UNCHANGED <<context, home>>

DestroyContext(c) ==
    /\ context[c] = "open"
    /\ \A s \in Socket : home[s] = c => socket[s] = "closed"
    /\ context' = [context EXCEPT ![c] = "closed"]
    /\ UNCHANGED <<socket, home>>

Next ==
    \/ \E c \in Context : CreateContext(c) \/ CreateFails(c) \/ DestroyContext(c)
    \/ \E s \in Socket, c \in Context : OpenSocket(s, c) \/ OpenFails(s, c)
    \/ \E s \in Socket : NotifyOwner(s) \/ CloseSocket(s)

Spec == Init /\ [][Next]_vars
=============================================================================
