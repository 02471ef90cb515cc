------------------------------- MODULE Actors -------------------------------
(***************************************************************************)
(* Threads with pipes (impl/threads.lua, llthreads/ex.lua): a parent Lua   *)
(* state, child Lua states in threads of their own, and the one native     *)
(* context whose address the parent gives to every child.                  *)
(*                                                                         *)
(* What a child does is up to the application; here it receives from its   *)
(* pipe until it is told to stop or the receive fails, it may send to the  *)
(* parent before each receive, and it may end at any time.  zmq_ctx_term   *)
(* makes blocked calls fail with ETERM and waits for the sockets of the    *)
(* context, but not for a thread that has none yet.  The pipes are PAIR    *)
(* sockets and inproc, which is what make_pipe makes unless it is told     *)
(* otherwise, and have no timeouts.                                        *)
(***************************************************************************)
EXTENDS Naturals, Sequences, FiniteSets

CONSTANTS Actors,   \* names for the actors the parent makes, each once
          MaxQueue  \* messages a pipe holds in each direction

ASSUME QueueAssumption == MaxQueue \in Nat \ {0}

VARIABLES context,   \* "open", "stopping" in zmq_ctx_term, "gone"
          parent,    \* what the parent waits for: [op, who]
          made,      \* the actors in the order they were made
          thread,    \* where the thread of an actor is
          attached,  \* threads that were started attached
          joined,    \* threads that the parent has joined
          pipe,      \* the parent's end of the pipe is open
          socket,    \* the child's end of the pipe is open
          queue,     \* messages to the child
          replies,   \* how many messages to the parent wait
          asked,     \* threads that were told to stop
          early      \* the context was ended while a thread that was
                     \* started had no socket in it

child == <<thread, socket>>
parental == <<parent, made, attached, joined, pipe, asked, early>>
vars == <<context, parental, child, queue, replies>>

Waits(op, a) == [op |-> op, who |-> {a}]
Free == [op |-> "none", who |-> {}]
CanCall == parent = Free

Started == {a \in Actors : thread[a] \notin {"none", "new"}}
Alive == {a \in Started : thread[a] # "dead"}
Unconnected == {a \in Actors : thread[a] = "prelude"}

Init ==
    /\ context = "open"
    /\ parent = Free
    /\ made = <<>>
    /\ thread = [a \in Actors |-> "none"]
    /\ attached = {} /\ joined = {}
    /\ pipe = {} /\ socket = {}
    /\ queue = [a \in Actors |-> <<>>]
    /\ replies = [a \in Actors |-> 0]
    /\ asked = {} /\ early = FALSE

-----------------------------------------------------------------------------
(* The parent.                                                             *)

(* make_pipe and Threads.new.                                              *)
Fork(a) ==
    /\ CanCall /\ context = "open"
    /\ thread[a] = "none"
    /\ made' = Append(made, a)
    /\ pipe' = pipe \cup {a}
    /\ thread' = [thread EXCEPT ![a] = "new"]
    /\ UNCHANGED <<context, parent, socket, attached, joined, queue, replies,
                   asked, early>>

(* Detached unless the caller asks otherwise.                              *)
Start(a, isAttached) ==
    /\ CanCall
    /\ thread[a] = "new"
    /\ thread' = [thread EXCEPT ![a] = "prelude"]
    /\ attached' = IF isAttached THEN attached \cup {a} ELSE attached
    /\ early' = (early \/ context = "gone")
    /\ UNCHANGED <<context, parent, made, socket, joined, pipe, queue, replies,
                   asked>>

(* The pipe has a peer and takes another message.                          *)
Takes(a) == a \in socket /\ Len(queue[a]) < MaxQueue

Put(a, m) ==
    /\ queue' = [queue EXCEPT ![a] = Append(@, m)]
    /\ asked' = IF m = "stop" THEN asked \cup {a} ELSE asked

(* actor:send(), to a thread in any state: it waits until the child has    *)
(* connected and the pipe has room.                                        *)
Send(a, m) ==
    /\ CanCall
    /\ a \in pipe
    /\ IF Takes(a)
       THEN Put(a, m) /\ UNCHANGED parent
       ELSE parent' = Waits("send", a) /\ UNCHANGED <<queue, asked>>
    /\ UNCHANGED <<context, made, child, attached, joined, pipe, replies, early>>

(* Which message it was is decided here.                                   *)
SendReturns(a) ==
    /\ parent = Waits("send", a)
    /\ Takes(a)
    /\ \E m \in {"work", "stop"} : Put(a, m)
    /\ parent' = Free
    /\ UNCHANGED <<context, made, child, attached, joined, pipe, replies, early>>

(* actor:recv(), which waits for a message of the child.                   *)
Recv(a) ==
    /\ CanCall
    /\ a \in pipe
    /\ IF replies[a] > 0
       THEN replies' = [replies EXCEPT ![a] = @ - 1] /\ UNCHANGED parent
       ELSE parent' = Waits("recv", a) /\ UNCHANGED replies
    /\ UNCHANGED <<context, made, child, attached, joined, pipe, queue,
                   asked, early>>

RecvReturns(a) ==
    /\ parent = Waits("recv", a)
    /\ replies[a] > 0
    /\ replies' = [replies EXCEPT ![a] = @ - 1]
    /\ parent' = Free
    /\ UNCHANGED <<context, made, child, attached, joined, pipe, queue,
                   asked, early>>

(* The join of a thread that was never started, or of one that was joined, *)
(* fails and does not wait.                                                *)
Joinable == Started \ joined

ThreadJoin(a) ==
    /\ CanCall
    /\ a \in Joinable
    /\ parent' = Waits("join", a)
    /\ UNCHANGED <<context, made, child, attached, joined, pipe, queue, replies,
                   asked, early>>

(* actor:close().  What was sent is still received.                        *)
CloseActor_LingersNot(a) ==
    /\ CanCall
    /\ a \in pipe
    /\ pipe' = pipe \ {a}
    /\ queue' = [queue EXCEPT ![a] = <<>>]
    /\ parent' = IF a \in Joinable THEN Waits("join", a) ELSE parent
    /\ UNCHANGED <<context, made, child, attached, joined, replies, asked, early>>
CloseActor(a) ==
    /\ CanCall
    /\ a \in pipe
    /\ pipe' = pipe \ {a}
    /\ parent' = IF a \in Joinable THEN Waits("join", a) ELSE parent
    /\ UNCHANGED <<context, made, child, attached, joined, queue, replies,
                   asked, early>>

JoinReturns(a) ==
    /\ parent = Waits("join", a)
    /\ thread[a] = "dead"
    /\ parent' = Free
    /\ joined' = joined \cup {a}
    /\ UNCHANGED <<context, made, child, attached, pipe, queue, replies,
                   asked, early>>

(* ctx:destroy() closes the sockets of the parent and waits for the rest.  *)
Destroy ==
    /\ CanCall /\ context = "open"
    /\ context' = "stopping"
    /\ pipe' = {}
    /\ parent' = [op |-> "term", who |-> {}]
    /\ early' = (early \/ Unconnected # {})
    /\ UNCHANGED <<made, child, attached, joined, queue, replies, asked>>

(* zmq_ctx_term returns.                                                   *)
Terminated ==
    /\ context = "stopping"
    /\ pipe = {} /\ socket = {}
    /\ context' = "gone"
    /\ parent' = IF parent.op = "term" THEN Free
                 ELSE [op |-> "over", who |-> {}]
    /\ UNCHANGED <<made, child, attached, joined, pipe, queue, replies, asked,
                   early>>

(* The parent's Lua state ends, in the middle of its work perhaps: every   *)
(* object is finalized, the last made first.                               *)
Exit ==
    /\ CanCall
    /\ parent' = [op |-> "exit", who |-> {made[i] : i \in DOMAIN made}]
    /\ UNCHANGED <<context, made, child, attached, joined, pipe, queue, replies,
                   asked, early>>

(* A thread is newer than its pipe.  The finalizer of an attached thread   *)
(* joins it, of a detached one does not.                                   *)
FinalizeActor ==
    /\ parent.op = "exit" /\ parent.who # {}
    /\ \E i \in DOMAIN made :
        /\ made[i] \in parent.who
        /\ \A j \in DOMAIN made : made[j] \in parent.who => j <= i
        /\ made[i] \in attached \ joined => made[i] \notin Alive
        /\ parent' = [parent EXCEPT !.who = @ \ {made[i]}]
        /\ pipe' = pipe \ {made[i]}
    /\ UNCHANGED <<context, made, child, attached, joined, queue, replies,
                   asked, early>>

FinalizeContext ==
    /\ parent.op = "exit" /\ parent.who = {}
    /\ IF context = "open"
       THEN context' = "stopping" /\ UNCHANGED parent
       ELSE /\ context = "gone"
            /\ parent' = [op |-> "over", who |-> {}]
            /\ UNCHANGED context
    /\ early' = (early \/ Unconnected # {})
    /\ UNCHANGED <<made, child, attached, joined, pipe, queue, replies, asked>>

-----------------------------------------------------------------------------
(* A child.                                                                *)

(* The prelude makes a socket in the context it was given.                 *)
Connect(a) ==
    /\ thread[a] = "prelude"
    /\ context = "open"
    /\ thread' = [thread EXCEPT ![a] = "running"]
    /\ socket' = socket \cup {a}
    /\ UNCHANGED <<context, parental, queue, replies>>

(* No socket can be made, or a module is missing: zmq.assert and require   *)
(* raise, and the thread is over before its function was called.           *)
PreludeRaises_TriesAgain(a) ==
    /\ thread[a] = "prelude" /\ context = "open"
    /\ UNCHANGED vars
PreludeRaises(a) ==
    /\ thread[a] = "prelude"
    /\ thread' = [thread EXCEPT ![a] = "leaving"]
    /\ UNCHANGED <<context, parental, socket, queue, replies>>

(* pipe:recv(), which waits, or pipe:send() before it.                     *)
Calls(a, where) ==
    /\ thread[a] = "running"
    /\ thread' = [thread EXCEPT ![a] = where]
    /\ UNCHANGED <<context, parental, socket, queue, replies>>

CallRecv(a) == Calls(a, "receiving")
CallSend(a) == Calls(a, "sending")

Receives(a) ==
    /\ thread[a] = "receiving" /\ context = "open"
    /\ queue[a] # <<>>
    /\ thread' = [thread EXCEPT ![a] =
                     IF Head(queue[a]) = "stop" THEN "leaving" ELSE "running"]
    /\ queue' = [queue EXCEPT ![a] = Tail(@)]
    /\ UNCHANGED <<context, parental, socket, replies>>

(* A send waits for room, and for a peer: for ever when the parent has     *)
(* closed its end.                                                         *)
Sends(a) ==
    /\ thread[a] = "sending" /\ context = "open"
    /\ a \in pipe /\ replies[a] < MaxQueue
    /\ thread' = [thread EXCEPT ![a] = "running"]
    /\ replies' = [replies EXCEPT ![a] = @ + 1]
    /\ UNCHANGED <<context, parental, socket, queue>>

(* Either fails when the context is being ended.                           *)
CallFails(a) ==
    /\ thread[a] \in {"receiving", "sending"} /\ context # "open"
    /\ thread' = [thread EXCEPT ![a] = "leaving"]
    /\ UNCHANGED <<context, parental, socket, queue, replies>>

(* The function returns or raises by itself.                               *)
BodyEnds(a) == Calls(a, "leaving")

(* The child's Lua state is closed, and what is in it is finalized: its    *)
(* socket is closed, and its context object, which is DONT_DESTROY, gives  *)
(* up the native context without ending it (zcontext.c:256-266).           *)
StateCloses_EndsContext(a) ==
    /\ thread[a] = "leaving"
    /\ thread' = [thread EXCEPT ![a] = "dead"]
    /\ socket' = socket \ {a}
    /\ context' = IF socket \ {a} = {} /\ pipe = {} THEN "gone" ELSE context
    /\ UNCHANGED <<parental, queue, replies>>
StateCloses_KeepsSocket(a) ==
    /\ thread[a] = "leaving"
    /\ thread' = [thread EXCEPT ![a] = "dead"]
    /\ UNCHANGED <<context, parental, socket, queue, replies>>
StateCloses(a) ==
    /\ thread[a] = "leaving"
    /\ thread' = [thread EXCEPT ![a] = "dead"]
    /\ socket' = socket \ {a}
    /\ UNCHANGED <<context, parental, queue, replies>>

(* What a thread does when it is scheduled.  That it sends to the parent,  *)
(* or that its function ends, is for the application to decide, that it    *)
(* receives sooner or later is the contract of a thread with a pipe.       *)
ChildStep(a) ==
    \/ Connect(a) \/ PreludeRaises(a)
    \/ CallRecv(a) \/ Receives(a) \/ Sends(a) \/ CallFails(a)
    \/ StateCloses(a)

ParentStep ==
    \/ \E a \in Actors : SendReturns(a) \/ RecvReturns(a) \/ JoinReturns(a)
    \/ Terminated \/ FinalizeActor \/ FinalizeContext

Next ==
    \/ \E a \in Actors :
        \/ Fork(a) \/ \E att \in BOOLEAN : Start(a, att)
        \/ \E m \in {"work", "stop"} : Send(a, m)
        \/ Recv(a) \/ ThreadJoin(a) \/ CloseActor(a)
        \/ ChildStep(a) \/ CallSend(a) \/ BodyEnds(a)
    \/ Destroy \/ Exit
    \/ ParentStep

Spec == Init /\ [][Next]_vars
FairSpec ==
    /\ Spec
    /\ WF_vars(ParentStep)
    /\ \A a \in Actors : WF_vars(ChildStep(a))

-----------------------------------------------------------------------------
(* Properties.                                                             *)

(* The types; a child's socket is open while it can use it.                *)
TypeOK ==
    /\ context \in {"open", "stopping", "gone"}
    /\ parent.op \in {"none", "send", "recv", "join", "term", "exit", "over"}
    /\ parent.who \subseteq Actors
    /\ \A a \in Actors :
        /\ thread[a] \in {"none", "new", "prelude", "running", "receiving",
                          "sending", "leaving", "dead"}
        /\ thread[a] \in {"running", "receiving", "sending"} => a \in socket
        /\ a \in socket => a \in Alive
        /\ Len(queue[a]) <= MaxQueue
        /\ replies[a] \in 0 .. MaxQueue
    /\ attached \cup joined \cup asked \subseteq Started
    /\ pipe \subseteq {made[i] : i \in DOMAIN made}
    /\ early \in BOOLEAN

(* No thread uses the address of a context that is gone: zmq_ctx_term is   *)
(* held up by the sockets of the children, a child that ends leaves the    *)
(* context to the others, and only a thread that the context was ended     *)
(* upon before its prelude ran can find it gone (threads.lua:39).          *)
UsesLiveContext ==
    context = "gone" /\ ~early => \A a \in Alive : thread[a] = "leaving"

Waiting == parent.op \notin {"none", "over"}

(* A thread with no pipe (yet, or any more).                               *)
Absent(a) == thread[a] \in {"new", "leaving", "dead"}

(* A thread that waits for what only its parent could give it.             *)
Starves(a) == thread[a] = "receiving" /\ queue[a] = <<>>
Chokes(a) == thread[a] = "sending" /\ (a \notin pipe \/ replies[a] = MaxQueue)

(* The parent waits, or will, for the end of this thread.                  *)
JoinedOn(a) ==
    \/ parent = Waits("join", a)
    \/ parent.op = "exit" /\ a \in (parent.who \cap attached) \ joined

(* The ways to wait for each other.                                        *)
Stuck ==
    \E a \in Actors :
        \/ /\ parent = Waits("send", a) /\ ~Takes(a)
           /\ Absent(a) \/ Chokes(a)
        \/ /\ parent = Waits("recv", a) /\ replies[a] = 0
           /\ Absent(a) \/ Starves(a)
        \/ /\ JoinedOn(a)
           /\ (Starves(a) /\ a \notin asked) \/ Chokes(a)

(* Whatever the parent waits for comes, or never: a send or recv when the  *)
(* other end of the pipe is not there (a thread that was not started, one  *)
(* whose prelude raised, one that ended first) or when both ends send into *)
(* full pipes or both receive; a join or close, and the finalizer of an    *)
(* attached thread (the deadlock described in ex.lua:16-27), when the      *)
(* thread was not told to stop, or sends to a parent that reads no more.   *)
(* A thread that was told is waited for with success, although close()     *)
(* closes the pipe before the thread has read it, and destroy always is.   *)
WaitsEnd == Waiting ~> (~Waiting \/ []Stuck)

(* The end of the context reaches every child: once the parent is in       *)
(* destroy, all threads that were started end.                             *)
ChildrenEnd ==
    context = "stopping" ~> \A a \in Started : thread[a] = "dead"
=============================================================================
