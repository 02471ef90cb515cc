---------------------------- MODULE ActorsProofs ----------------------------
(***************************************************************************)
(* No thread uses a context that is gone, nobody is stuck, and the types,  *)
(* for any number of actors.                                               *)
(*                                                                         *)
(* zmq_ctx_term returns when no socket is open.  A thread that received or *)
(* ran its function has one; so the invariant has to say that a context in *)
(* zmq_ctx_term has no thread that is yet to connect, unless the parent    *)
(* ended it too early, and gets none: the parent is busy waiting.          *)
(* The types rest on which states of a thread leave its socket open.       *)
(*                                                                         *)
(* That what the parent waits for comes is a liveness property.  What is   *)
(* proved of it is that somebody who can end the wait has a step that is   *)
(* possible unless the two are stuck, that these steps come to an end, and *)
(* that what is stuck stays so.                                            *)
(***************************************************************************)
EXTENDS Actors, SequenceTheorems, WellFoundedInduction, TLAPS

HasSocket == \A a \in Actors : thread[a] \in {"running", "receiving", "sending"} => a \in socket

WaitsForContext == context = "stopping" => parent.op \in {"term", "exit"}

AllConnected ==
    context = "stopping" /\ ~early => Unconnected = {}

ThreadStates == {"none", "new", "prelude", "running", "receiving", "sending",
                 "leaving", "dead"}

ThreadType ==
    /\ thread \in [Actors -> ThreadStates]
    /\ context \in {"open", "stopping", "gone"}
    /\ early \in BOOLEAN

IInv ==
    /\ ThreadType
    /\ HasSocket
    /\ WaitsForContext
    /\ AllConnected
    /\ UsesLiveContext

(* The steps of a thread.                                                  *)
ChildMove(a) == ChildStep(a) \/ CallSend(a) \/ BodyEnds(a)

-----------------------------------------------------------------------------

LEMMA InitIInv == Init => IInv
BY DEF Init, IInv, ThreadType, ThreadStates, HasSocket, WaitsForContext, AllConnected,
       UsesLiveContext

(* The steps of the parent that leave context and threads as they are.     *)
LEMMA ParentKeeps ==
    ASSUME IInv, UNCHANGED <<context, thread, socket>>,
           early' = early, context = "stopping" => parent' = parent
    PROVE  IInv'
BY DEF IInv, ThreadType, ThreadStates, HasSocket, WaitsForContext, AllConnected,
       UsesLiveContext, Unconnected, Alive, Started

(* The steps of a child that are no start of a thread.                     *)
LEMMA ChildKeeps ==
    ASSUME IInv, NEW a \in Actors, NEW t \in {"running", "receiving", "sending",
                                              "leaving", "dead"},
           thread[a] # "dead", thread[a] # "none", thread[a] # "new",
           thread' = [thread EXCEPT ![a] = t],
           context' = context, parent' = parent, early' = early,
           context = "gone" /\ ~early => t \in {"leaving", "dead"},
           t \in {"running", "receiving", "sending"} => a \in socket',
           \A b \in Actors \ {a} : b \in socket => b \in socket'
    PROVE  IInv'
BY DEF IInv, ThreadType, ThreadStates, HasSocket, WaitsForContext, AllConnected,
       UsesLiveContext, Unconnected, Alive, Started

LEMMA StartKeeps ==
    ASSUME IInv, NEW a \in Actors, NEW att \in BOOLEAN, Start(a, att)
    PROVE  IInv'
BY DEF Start, CanCall, Free, IInv, ThreadType, ThreadStates, HasSocket, WaitsForContext,
       AllConnected, UsesLiveContext, Unconnected, Alive, Started

LEMMA ForkKeeps ==
    ASSUME IInv, NEW a \in Actors, Fork(a)
    PROVE  IInv'
BY DEF Fork, CanCall, Free, IInv, ThreadType, ThreadStates, HasSocket, WaitsForContext,
       AllConnected, UsesLiveContext, Unconnected, Alive, Started

(* When zmq_ctx_term returns, a thread that is alive has no socket, and    *)
(* has had its chance to connect: it is leaving.                           *)
LEMMA TerminatedKeeps ==
    ASSUME IInv, Terminated
    PROVE  IInv'
BY DEF Terminated, child, IInv, ThreadType, ThreadStates, HasSocket, WaitsForContext,
       AllConnected, UsesLiveContext, Unconnected, Alive, Started

LEMMA EndKeeps ==
    ASSUME IInv, Destroy \/ Exit \/ FinalizeContext
    PROVE  IInv'
<1> USE DEF child, IInv, ThreadType, ThreadStates, HasSocket, WaitsForContext, AllConnected,
            UsesLiveContext, Unconnected, Alive, Started
<1>1. CASE Destroy
  BY <1>1 DEF Destroy
<1>2. CASE Exit
  BY <1>2 DEF Exit, CanCall, Free
<1>3. CASE FinalizeContext
  BY <1>3 DEF FinalizeContext
<1> QED
  BY <1>1, <1>2, <1>3

LEMMA NextIInv == IInv /\ [Next]_vars => IInv'
<1> SUFFICES ASSUME IInv, [Next]_vars PROVE IInv'
  OBVIOUS
<1> USE DEF CanCall, Free, Waits, parental
<1>1. CASE UNCHANGED vars
  BY <1>1, ParentKeeps DEF vars, child
<1>2. ASSUME NEW a \in Actors, Fork(a) PROVE IInv'
  BY <1>2, ForkKeeps
<1>3. ASSUME NEW a \in Actors, NEW att \in BOOLEAN, Start(a, att) PROVE IInv'
  BY <1>3, StartKeeps
<1>4. ASSUME NEW a \in Actors,
             \/ \E m \in {"work", "stop"} : Send(a, m)
             \/ Recv(a) \/ ThreadJoin(a) \/ CloseActor(a)
      PROVE IInv'
  <2>1. /\ UNCHANGED <<context, thread, socket>> /\ early' = early
        /\ context = "stopping" => parent' = parent
    BY <1>4 DEF Send, Recv, ThreadJoin, CloseActor, child, IInv, WaitsForContext
  <2> QED BY <2>1, ParentKeeps
<1>5. ASSUME NEW a \in Actors, SendReturns(a) \/ RecvReturns(a) \/ JoinReturns(a)
      PROVE IInv'
  <2>1. /\ UNCHANGED <<context, thread, socket>> /\ early' = early
        /\ context = "stopping" => parent' = parent
    BY <1>5 DEF SendReturns, RecvReturns, JoinReturns, child, IInv, WaitsForContext
  <2> QED BY <2>1, ParentKeeps
<1>6. ASSUME NEW a \in Actors, ChildMove(a) PROVE IInv'
  <2>1. CASE Connect(a)
    BY <2>1, ChildKeeps DEF Connect
  <2>2. CASE PreludeRaises(a)
    BY <2>2, ChildKeeps DEF PreludeRaises
  <2>3. CASE CallRecv(a)
    BY <2>3, ChildKeeps DEF CallRecv, Calls, IInv, HasSocket,
       UsesLiveContext, Alive, Started
  <2>4. CASE CallSend(a)
    BY <2>4, ChildKeeps DEF CallSend, Calls, IInv, HasSocket,
       UsesLiveContext, Alive, Started
  <2>5. CASE Receives(a)
    BY <2>5, ChildKeeps DEF Receives, IInv, HasSocket
  <2>6. CASE Sends(a)
    BY <2>6, ChildKeeps DEF Sends, IInv, HasSocket
  <2>7. CASE CallFails(a)
    BY <2>7, ChildKeeps DEF CallFails
  <2>8. CASE BodyEnds(a)
    BY <2>8, ChildKeeps DEF BodyEnds, Calls
  <2>9. CASE StateCloses(a)
    BY <2>9, ChildKeeps DEF StateCloses
  <2> QED BY <1>6, <2>1, <2>2, <2>3, <2>4, <2>5, <2>6, <2>7, <2>8, <2>9
             DEF ChildMove, ChildStep
<1>7. CASE FinalizeActor
  BY <1>7 DEF FinalizeActor, child, IInv, ThreadType, ThreadStates, HasSocket,
     WaitsForContext, AllConnected, UsesLiveContext, Unconnected, Alive,
     Started
<1>8. CASE Terminated
  BY <1>8, TerminatedKeeps
<1>9. CASE Destroy \/ Exit \/ FinalizeContext
  BY <1>9, EndKeeps
<1> QED
  BY <1>1, <1>2, <1>3, <1>4, <1>5, <1>6, <1>7, <1>8, <1>9
     DEF Next, ParentStep, ChildMove

(* A thread never uses the context after it is gone, for any number of     *)
(* actors in any order of calls, unless the context was ended before the   *)
(* prelude of a thread had run (fork_starter, threads.lua:31-45).          *)
THEOREM LiveContext == Spec => []UsesLiveContext
<1>1. IInv => UsesLiveContext
  BY DEF IInv
<1> QED
  BY <1>1, InitIInv, NextIInv, PTL DEF Spec

-----------------------------------------------------------------------------
(* The types.                                                              *)

Messages == {"work", "stop"}

Parents == [op : {"none", "send", "recv", "join", "term", "exit", "over"},
            who : SUBSET Actors]

QueuesFit ==
    /\ queue \in [Actors -> Seq(Messages)]
    /\ \A a \in Actors : Len(queue[a]) <= MaxQueue

RepliesFit == replies \in [Actors -> 0 .. MaxQueue]

(* What is made is kept in the order of its making.                        *)
MadeFits == made \in Seq(Actors) /\ pipe \subseteq {made[i] : i \in DOMAIN made}

ThreadsFit ==
    /\ socket \subseteq Alive
    /\ attached \subseteq Started /\ joined \subseteq Started
    /\ asked \subseteq Started

TypeInv ==
    /\ IInv
    /\ parent \in Parents
    /\ QueuesFit /\ RepliesFit
    /\ MadeFits
    /\ ThreadsFit

LEMMA InitTypeInv == Init => TypeInv
<1> SUFFICES ASSUME Init PROVE TypeInv
  OBVIOUS
<1>1. parent \in Parents
  BY DEF Init, Free, Parents
<1>2. QueuesFit /\ RepliesFit
  <2>1. <<>> \in Seq(Messages) /\ Len(<<>>) = 0
    OBVIOUS
  <2> QED
    BY <2>1, QueueAssumption DEF Init, QueuesFit, RepliesFit
<1>3. MadeFits /\ ThreadsFit
  BY DEF Init, MadeFits, ThreadsFit
<1> QED
  BY <1>1, <1>2, <1>3, InitIInv DEF Init, TypeInv

(* A thread that was started stays so, and gives up its socket when it     *)
(* dies.                                                                   *)
LEMMA ThreadsKeepFitting ==
    ASSUME ThreadsFit, thread \in [Actors -> ThreadStates], thread' \in [Actors -> ThreadStates],
           \A a \in Started : thread'[a] \notin {"none", "new"},
           \A a \in socket' : a \in socket \/ a \in Alive',
           \A a \in socket' \cap socket : thread[a] # "dead" => thread'[a] # "dead",
           attached' \subseteq attached \cup Started',
           joined' \subseteq joined \cup Started,
           asked' \subseteq asked \cup Started
    PROVE  ThreadsFit'
BY DEF ThreadsFit, Started, Alive

LEMMA PipesKeepFitting ==
    ASSUME MadeFits, UNCHANGED made, pipe' \subseteq pipe
    PROVE  MadeFits'
BY DEF MadeFits

LEMMA ForkFits ==
    ASSUME TypeInv, NEW a \in Actors, Fork(a)
    PROVE  MadeFits'
<1>1. made \in Seq(Actors) /\ made' = Append(made, a) /\ pipe' = pipe \cup {a}
  BY DEF TypeInv, MadeFits, Fork
<1>2. /\ made' \in Seq(Actors) /\ Len(made') = Len(made) + 1
      /\ made'[Len(made) + 1] = a
      /\ \A i \in 1 .. Len(made) : made'[i] = made[i]
  BY <1>1, AppendProperties
<1>3. /\ Len(made) \in Nat /\ DOMAIN made = 1 .. Len(made)
      /\ DOMAIN made' = 1 .. Len(made) + 1
  BY <1>1, <1>2, LenProperties
<1>4. \A b \in pipe : \E i \in DOMAIN made' : b = made'[i]
  <2> SUFFICES ASSUME NEW b \in pipe PROVE \E i \in DOMAIN made' : b = made'[i]
    OBVIOUS
  <2>1. PICK i \in DOMAIN made : b = made[i]
    BY DEF TypeInv, MadeFits
  <2>2. i \in DOMAIN made' /\ made'[i] = b
    BY <1>2, <1>3, <2>1
  <2> QED
    BY <2>2
<1>5. Len(made) + 1 \in DOMAIN made'
  BY <1>3
<1> QED
  BY <1>1, <1>2, <1>4, <1>5 DEF MadeFits

LEMMA PutFits ==
    ASSUME TypeInv, NEW a \in Actors, NEW m \in Messages, Takes(a), Put(a, m)
    PROVE  QueuesFit' /\ asked' \subseteq asked \cup Started
<1>1. /\ queue' = [queue EXCEPT ![a] = Append(@, m)] /\ Len(queue[a]) < MaxQueue
      /\ queue[a] \in Seq(Messages)
  BY DEF Put, Takes, TypeInv, QueuesFit
<1>2. /\ Append(queue[a], m) \in Seq(Messages)
      /\ Len(Append(queue[a], m)) = Len(queue[a]) + 1 /\ Len(queue[a]) \in Nat
  BY <1>1, AppendProperties, LenProperties
<1>3. Len(Append(queue[a], m)) <= MaxQueue
  BY <1>1, <1>2, QueueAssumption
<1>4. a \in Started
  BY DEF Takes, TypeInv, ThreadsFit, Alive
<1> QED
  BY <1>1, <1>2, <1>3, <1>4 DEF TypeInv, QueuesFit, Put

LEMMA ReceivesFits ==
    ASSUME TypeInv, NEW a \in Actors, Receives(a)
    PROVE  QueuesFit'
<1>1. /\ queue' = [queue EXCEPT ![a] = Tail(@)] /\ queue[a] # <<>>
      /\ queue[a] \in Seq(Messages)
  BY DEF Receives, TypeInv, QueuesFit
<1>2. /\ Tail(queue[a]) \in Seq(Messages)
      /\ Len(Tail(queue[a])) = Len(queue[a]) - 1 /\ Len(queue[a]) \in Nat
  BY <1>1, HeadTailProperties, LenProperties
<1>3. Len(Tail(queue[a])) <= MaxQueue
  BY <1>2, QueueAssumption DEF TypeInv, QueuesFit
<1> QED
  BY <1>1, <1>2, <1>3 DEF TypeInv, QueuesFit

(* What a step of a thread is to the others.                               *)
LEMMA ChildMoves ==
    ASSUME TypeInv, NEW a \in Actors, ChildMove(a)
    PROVE  /\ UNCHANGED <<context, parent, made, attached, joined, pipe, asked,
                          early>>
           /\ thread[a] \in {"prelude", "running", "receiving", "sending",
                             "leaving"}
           /\ thread'[a] \in {"running", "receiving", "sending", "leaving",
                              "dead"}
           /\ \A b \in Actors \ {a} :
                /\ thread'[b] = thread[b] /\ queue'[b] = queue[b]
                /\ replies'[b] = replies[b] /\ (b \in socket' <=> b \in socket)
           /\ Alive' \subseteq Alive
<1> USE DEF ChildMove, ChildStep, CallSend, BodyEnds, Connect, PreludeRaises,
            CallRecv, Calls, Receives, Sends, CallFails, StateCloses
<1>1. /\ thread \in [Actors -> ThreadStates] /\ queue \in [Actors -> Seq(Messages)]
      /\ replies \in [Actors -> 0 .. MaxQueue]
  BY DEF TypeInv, IInv, ThreadType, QueuesFit, RepliesFit
<1>2. /\ UNCHANGED <<context, parent, made, attached, joined, pipe, asked, early>>
      /\ thread[a] \in {"prelude", "running", "receiving", "sending", "leaving"}
  BY DEF parental
<1>3. PICK t \in {"running", "receiving", "sending", "leaving", "dead"} :
        thread' = [thread EXCEPT ![a] = t]
  OBVIOUS
<1>4. queue' = queue \/ queue' = [queue EXCEPT ![a] = Tail(@)]
  OBVIOUS
<1>5. socket' \in {socket, socket \cup {a}, socket \ {a}}
  OBVIOUS
<1>6. replies' = replies \/ replies' = [replies EXCEPT ![a] = @ + 1]
  OBVIOUS
<1> HIDE DEF ChildMove
<1> QED
  BY <1>1, <1>2, <1>3, <1>4, <1>5, <1>6 DEF Alive, Started

LEMMA ChildFits ==
    ASSUME TypeInv, NEW a \in Actors, ChildMove(a)
    PROVE  QueuesFit' /\ RepliesFit' /\ MadeFits' /\ ThreadsFit'
<1> USE DEF ChildMove, ChildStep, CallSend, BodyEnds, Connect, PreludeRaises,
            CallRecv, Calls, Receives, Sends, CallFails, StateCloses
<1>1. /\ QueuesFit /\ RepliesFit /\ MadeFits /\ ThreadsFit
      /\ thread \in [Actors -> ThreadStates]
  BY DEF TypeInv, IInv, ThreadType
<1>2. thread' \in [Actors -> ThreadStates]
  <2>1. IInv'
    BY NextIInv DEF TypeInv, Next
  <2> QED
    BY <2>1 DEF IInv, ThreadType
<1>3. UNCHANGED <<made, pipe, attached, joined, asked>>
  BY ChildMoves
<1>4. QueuesFit'
  <2>1. CASE Receives(a)
    BY <2>1, ReceivesFits
  <2>2. CASE ~Receives(a)
    <3>1. queue' = queue
      BY <2>2
    <3> QED
      BY <1>1, <3>1 DEF QueuesFit
  <2> QED
    BY <2>1, <2>2
<1>5. RepliesFit'
  <2>1. CASE Sends(a)
    <3>1. replies[a] \in 0 .. MaxQueue /\ replies[a] < MaxQueue
          /\ replies' = [replies EXCEPT ![a] = @ + 1]
      BY <1>1, <2>1 DEF RepliesFit
    <3>2. replies[a] + 1 \in 0 .. MaxQueue
      BY <3>1, QueueAssumption
    <3> QED
      BY <1>1, <3>1, <3>2 DEF RepliesFit
  <2>2. CASE ~Sends(a)
    <3>1. replies' = replies
      BY <2>2
    <3> QED
      BY <1>1, <3>1 DEF RepliesFit
  <2> QED
    BY <2>1, <2>2
<1>6. ThreadsFit'
  <2>1. PICK t \in {"running", "receiving", "sending", "leaving", "dead"} :
          thread' = [thread EXCEPT ![a] = t] /\ (t = "dead" => socket' = socket \ {a})
    OBVIOUS
  <2>2. socket' \subseteq socket \/ Connect(a)
    OBVIOUS
  <2>3. Connect(a) => socket' = socket \cup {a} /\ a \in Alive'
    BY <1>1 DEF Connect, Alive, Started
  <2> HIDE DEF ChildMove
  <2> QED
    BY <1>1, <1>2, <1>3, <2>1, <2>2, <2>3, ThreadsKeepFitting DEF Started
<1> QED
  BY <1>1, <1>3, <1>4, <1>5, <1>6, PipesKeepFitting

LEMMA NextTypeInv == TypeInv /\ [Next]_vars => TypeInv'
<1> SUFFICES ASSUME TypeInv, [Next]_vars PROVE TypeInv'
  OBVIOUS
<1>1. IInv'
  BY NextIInv DEF TypeInv
<1>2. /\ parent \in Parents /\ QueuesFit /\ RepliesFit /\ MadeFits /\ ThreadsFit
      /\ thread \in [Actors -> ThreadStates] /\ thread' \in [Actors -> ThreadStates]
  BY <1>1 DEF TypeInv, IInv, ThreadType
<1> USE DEF child
<1>3. CASE UNCHANGED vars
  BY <1>1, <1>2, <1>3 DEF vars, parental, TypeInv, QueuesFit, RepliesFit, MadeFits,
     ThreadsFit, Alive, Started
<1>4. ASSUME NEW a \in Actors, Fork(a) PROVE TypeInv'
  <2>1. /\ UNCHANGED <<parent, queue, replies, socket, attached, joined, asked>>
        /\ thread[a] = "none" /\ thread' = [thread EXCEPT ![a] = "new"]
    BY <1>4 DEF Fork
  <2>2. ThreadsFit'
    BY <1>2, <2>1, ThreadsKeepFitting DEF Started
  <2> QED
    BY <1>1, <1>2, <1>4, <2>1, <2>2, ForkFits DEF TypeInv, QueuesFit, RepliesFit
<1>5. ASSUME NEW a \in Actors, NEW att \in BOOLEAN, Start(a, att) PROVE TypeInv'
  <2>1. /\ UNCHANGED <<parent, queue, replies, socket, joined, made, pipe, asked>>
        /\ attached' \subseteq attached \cup {a}
        /\ thread[a] = "new" /\ thread' = [thread EXCEPT ![a] = "prelude"]
    BY <1>5 DEF Start
  <2>2. ThreadsFit'
    BY <1>2, <2>1, ThreadsKeepFitting DEF Started
  <2> QED
    BY <1>1, <1>2, <2>1, <2>2, PipesKeepFitting DEF TypeInv, QueuesFit, RepliesFit
<1>6. ASSUME NEW a \in Actors,
             (\E m \in Messages : Send(a, m)) \/ SendReturns(a)
      PROVE  TypeInv'
  <2>1. /\ UNCHANGED <<thread, socket, attached, joined, made, pipe, replies>>
        /\ \/ UNCHANGED <<queue, asked>>
           \/ \E m \in Messages : Takes(a) /\ Put(a, m)
        /\ parent' \in {parent, [op |-> "send", who |-> {a}],
                        [op |-> "none", who |-> {}]}
    BY <1>6 DEF Send, SendReturns, Waits, Free, Messages
  <2>2. QueuesFit' /\ asked' \subseteq asked \cup Started
    BY <1>2, <2>1, PutFits DEF QueuesFit
  <2>3. ThreadsFit'
    BY <1>2, <2>1, <2>2, ThreadsKeepFitting DEF Started
  <2>4. parent' \in Parents
    BY <1>2, <2>1 DEF Parents
  <2> QED
    BY <1>1, <1>2, <2>1, <2>2, <2>3, <2>4, PipesKeepFitting DEF TypeInv, RepliesFit
<1>7. ASSUME NEW a \in Actors, Recv(a) \/ RecvReturns(a)
      PROVE  TypeInv'
  <2>1. /\ UNCHANGED <<thread, socket, attached, joined, made, pipe, queue, asked>>
        /\ \/ replies' = replies
           \/ replies[a] > 0 /\ replies' = [replies EXCEPT ![a] = @ - 1]
        /\ parent' \in {parent, [op |-> "recv", who |-> {a}],
                        [op |-> "none", who |-> {}]}
    BY <1>7 DEF Recv, RecvReturns, Waits, Free
  <2>2. RepliesFit'
    <3>1. replies[a] \in 0 .. MaxQueue
      BY <1>2 DEF RepliesFit
    <3>2. replies[a] > 0 => replies[a] - 1 \in 0 .. MaxQueue
      BY <3>1, QueueAssumption
    <3> QED
      BY <1>2, <2>1, <3>2 DEF RepliesFit
  <2>3. ThreadsFit'
    BY <1>2, <2>1, ThreadsKeepFitting DEF Started
  <2>4. parent' \in Parents
    BY <1>2, <2>1 DEF Parents
  <2> QED
    BY <1>1, <1>2, <2>1, <2>2, <2>3, <2>4, PipesKeepFitting DEF TypeInv, QueuesFit
<1>8. ASSUME NEW a \in Actors, ThreadJoin(a) \/ CloseActor(a) \/ JoinReturns(a)
      PROVE  TypeInv'
  <2>1. /\ UNCHANGED <<thread, socket, attached, made, queue, replies, asked>>
        /\ pipe' \subseteq pipe
        /\ parent' \in {parent, [op |-> "join", who |-> {a}],
                        [op |-> "none", who |-> {}]}
    BY <1>8 DEF ThreadJoin, CloseActor, JoinReturns, Waits, Free
  <2>2. joined' \subseteq joined \cup Started
    BY <1>8 DEF ThreadJoin, CloseActor, JoinReturns, Started
  <2>3. ThreadsFit'
    BY <1>2, <2>1, <2>2, ThreadsKeepFitting DEF Started
  <2>4. parent' \in Parents
    BY <1>2, <2>1 DEF Parents
  <2> QED
    BY <1>1, <1>2, <2>1, <2>3, <2>4, PipesKeepFitting
       DEF TypeInv, QueuesFit, RepliesFit
<1>9. CASE Destroy \/ Terminated \/ Exit \/ FinalizeActor \/ FinalizeContext
  <2>1. /\ UNCHANGED <<thread, socket, attached, joined, made, queue, replies, asked>>
        /\ pipe' \subseteq pipe
    BY <1>9 DEF Destroy, Terminated, Exit, FinalizeActor, FinalizeContext
  <2>2. parent' \in Parents
    <3>1. CASE Destroy \/ Terminated
      BY <1>2, <3>1 DEF Destroy, Terminated, Free, Parents
    <3>2. CASE Exit
      <4>1. \A i \in DOMAIN made : made[i] \in Actors
        BY <1>2, LenProperties DEF MadeFits
      <4> QED
        BY <3>2, <4>1 DEF Exit, Parents
    <3>3. CASE FinalizeActor
      <4>1. \E b : parent' = [parent EXCEPT !.who = @ \ {b}]
        BY <3>3 DEF FinalizeActor
      <4> QED
        BY <1>2, <4>1 DEF Parents
    <3>4. CASE FinalizeContext
      BY <1>2, <3>4 DEF FinalizeContext, Parents
    <3> QED
      BY <1>9, <3>1, <3>2, <3>3, <3>4
  <2>3. ThreadsFit'
    BY <1>2, <2>1, ThreadsKeepFitting DEF Started
  <2> QED
    BY <1>1, <1>2, <2>1, <2>2, <2>3, PipesKeepFitting
       DEF TypeInv, QueuesFit, RepliesFit
<1>10. ASSUME NEW a \in Actors, ChildMove(a) PROVE TypeInv'
  <2>1. parent' = parent
    BY <1>10, ChildMoves
  <2> QED
    BY <1>1, <1>2, <1>10, <2>1, ChildFits DEF TypeInv
<1> QED
  BY <1>3, <1>4, <1>5, <1>6, <1>7, <1>8, <1>9, <1>10
     DEF Next, ParentStep, ChildMove, Messages

(* The types; a child's end of the pipe is open only while its thread is   *)
(* alive and whenever the thread can use it, the pipe is never over its    *)
(* limit in either direction, and only threads that were started are told  *)
(* to stop or joined (threads.lua, ex.lua:100-180), for any number of      *)
(* actors and any length of a pipe.                                        *)
THEOREM TypesAreRight == Spec => []TypeOK
<1>1. TypeInv => TypeOK
  <2> SUFFICES ASSUME TypeInv PROVE TypeOK
    OBVIOUS
  <2>1. /\ parent.op \in {"none", "send", "recv", "join", "term", "exit", "over"}
        /\ parent.who \subseteq Actors
    BY DEF TypeInv, Parents
  <2>2. \A a \in Actors : replies[a] \in 0 .. MaxQueue
    BY DEF TypeInv, RepliesFit
  <2> QED
    BY <2>1, <2>2 DEF TypeInv, IInv, ThreadType, ThreadStates, HasSocket, QueuesFit,
       MadeFits, ThreadsFit, TypeOK
<1> QED
  BY <1>1, InitTypeInv, NextTypeInv, PTL DEF Spec

-----------------------------------------------------------------------------
(* What the parent waits for.                                              *)

ToldToStop(a) == \E i \in DOMAIN queue[a] : queue[a][i] = "stop"

GoneEmpty == context = "gone" => pipe = {} /\ socket = {}

(* close() waits with success for a thread that was told, for what was     *)
(* sent is still received.                                                 *)
AskedHear ==
    \A a \in asked : thread[a] \in {"leaving", "dead"} \/ ToldToStop(a)

PipesMade == \A a \in pipe : thread[a] # "none"

WaitsMeant ==
    /\ parent.op \in {"send", "recv"} => \E a \in pipe : parent.who = {a}
    /\ parent.op = "join" => \E a \in Started : parent.who = {a}

EndsInOrder ==
    /\ parent.op = "term" => context = "stopping" /\ pipe = {}
    /\ parent.op = "exit" =>
        /\ pipe \subseteq parent.who
        /\ parent.who \subseteq {made[i] : i \in DOMAIN made}
        /\ context = "stopping" => parent.who = {}

WaitInv ==
    /\ TypeInv
    /\ GoneEmpty /\ AskedHear /\ PipesMade /\ WaitsMeant /\ EndsInOrder

(* A message is received from the front, so that a thread that was told to *)
(* stop gets there; and it stops.                                          *)
LEMMA StopsStay ==
    ASSUME NEW q \in Seq({"work", "stop"}), q # <<>>, Head(q) # "stop",
           \E i \in DOMAIN q : q[i] = "stop"
    PROVE  \E i \in DOMAIN Tail(q) : Tail(q)[i] = "stop"
<1>1. PICK i \in 1 .. Len(q) : q[i] = "stop"
  BY LenProperties
<1>2. /\ Len(q) \in Nat /\ Len(Tail(q)) = Len(q) - 1
      /\ DOMAIN Tail(q) = 1 .. Len(q) - 1
      /\ Head(q) = q[1] /\ \A j \in 1 .. Len(q) - 1 : Tail(q)[j] = q[j + 1]
  BY HeadTailProperties, LenProperties
<1>3. i # 1
  BY <1>1, <1>2
<1>4. i - 1 \in 1 .. Len(q) - 1 /\ (i - 1) + 1 = i
  BY <1>1, <1>2, <1>3
<1> QED
  BY <1>1, <1>2, <1>4

LEMMA InitWaitInv == Init => WaitInv
BY InitTypeInv DEF Init, Free, WaitInv, GoneEmpty, AskedHear, PipesMade, WaitsMeant, EndsInOrder

(* The steps that send nothing and move no thread back.                    *)
LEMMA HearingKept ==
    ASSUME WaitInv, UNCHANGED <<queue, asked>>,
           \A a \in asked : thread[a] \in {"leaving", "dead"} => thread'[a] \in {"leaving", "dead"}
    PROVE  AskedHear'
BY DEF WaitInv, AskedHear, ToldToStop

LEMMA PutHears ==
    ASSUME WaitInv, NEW a \in Actors, NEW m \in Messages, Takes(a), Put(a, m), thread' = thread
    PROVE  AskedHear'
<1>1. /\ queue \in [Actors -> Seq(Messages)] /\ queue[a] \in Seq(Messages)
      /\ queue' = [queue EXCEPT ![a] = Append(@, m)]
      /\ asked' = IF m = "stop" THEN asked \cup {a} ELSE asked
  BY DEF Put, WaitInv, TypeInv, QueuesFit
<1>2. asked \subseteq Actors
  BY DEF WaitInv, TypeInv, ThreadsFit, Started
<1> DEFINE q == Append(queue[a], m)
<1>3. /\ DOMAIN q = 1 .. Len(queue[a]) + 1 /\ DOMAIN queue[a] = 1 .. Len(queue[a])
      /\ Len(queue[a]) \in Nat
      /\ q[Len(queue[a]) + 1] = m /\ \A i \in 1 .. Len(queue[a]) : q[i] = queue[a][i]
  BY <1>1, AppendProperties, LenProperties
<1>4. queue'[a] = q /\ \A b \in Actors \ {a} : queue'[b] = queue[b]
  BY <1>1
<1> HIDE DEF q
<1>5. ToldToStop(a) => \E i \in DOMAIN q : q[i] = "stop"
  <2> SUFFICES ASSUME NEW i \in DOMAIN queue[a], queue[a][i] = "stop"
               PROVE  \E j \in DOMAIN q : q[j] = "stop"
    BY DEF ToldToStop
  <2>1. i \in DOMAIN q /\ q[i] = "stop"
    BY <1>3
  <2> QED
    BY <2>1
<1>6. m = "stop" => \E i \in DOMAIN q : q[i] = "stop"
  <2>1. Len(queue[a]) + 1 \in DOMAIN q
    BY <1>3
  <2> QED
    BY <1>3, <2>1
<1>7. (ToldToStop(a) \/ m = "stop") => ToldToStop(a)'
  BY <1>4, <1>5, <1>6 DEF ToldToStop
<1>8. \A b \in Actors \ {a} : ToldToStop(b) => ToldToStop(b)'
  BY <1>4 DEF ToldToStop
<1>9. /\ \A b \in asked : thread[b] \in {"leaving", "dead"} \/ ToldToStop(b)
      /\ \A b \in asked' : b \in asked \/ (b = a /\ m = "stop")
  BY <1>1 DEF WaitInv, AskedHear
<1> HIDE DEF ToldToStop
<1> QED
  BY <1>2, <1>7, <1>8, <1>9, Zenon DEF AskedHear

LEMMA ChildHears ==
    ASSUME WaitInv, NEW a \in Actors, ChildMove(a)
    PROVE  AskedHear'
<1>1. /\ asked' = asked /\ asked \subseteq Actors
      /\ \A b \in Actors \ {a} : thread'[b] = thread[b] /\ queue'[b] = queue[b]
  BY ChildMoves DEF WaitInv, TypeInv, ThreadsFit, Started
<1>2. CASE Receives(a) /\ Head(queue[a]) # "stop"
  <2>1. /\ queue[a] \in Seq(Messages) /\ queue[a] # <<>> /\ queue'[a] = Tail(queue[a])
        /\ thread[a] = "receiving"
    BY <1>2 DEF Receives, WaitInv, TypeInv, QueuesFit
  <2>2. ToldToStop(a) => ToldToStop(a)'
    BY <1>2, <2>1, StopsStay DEF ToldToStop, Messages
  <2>3. \A b \in Actors \ {a} : ToldToStop(b) => ToldToStop(b)'
    BY <1>1 DEF ToldToStop
  <2> HIDE DEF ToldToStop
  <2>4. a \in asked => ToldToStop(a)
    BY <2>1 DEF WaitInv, AskedHear
  <2> QED
    BY <1>1, <2>2, <2>3, <2>4 DEF WaitInv, AskedHear
<1>3. CASE ~(Receives(a) /\ Head(queue[a]) # "stop")
  <2>1. thread \in [Actors -> ThreadStates]
    BY DEF WaitInv, TypeInv, IInv, ThreadType
  <2>2. \/ thread'[a] \in {"leaving", "dead"}
        \/ queue' = queue /\ thread[a] \notin {"leaving", "dead"}
    BY <1>3, <2>1 DEF ChildMove, ChildStep, CallSend, BodyEnds, Connect, PreludeRaises,
       CallRecv, Calls, Receives, Sends, CallFails, StateCloses
  <2>3. \A b \in Actors : queue'[b] = queue[b] => (ToldToStop(b) => ToldToStop(b)')
    BY DEF ToldToStop
  <2> HIDE DEF ToldToStop, ChildMove
  <2> QED
    BY <1>1, <2>2, <2>3 DEF WaitInv, AskedHear
<1> QED
  BY <1>2, <1>3

LEMMA NextWaitInv == WaitInv /\ [Next]_vars => WaitInv'
<1> SUFFICES ASSUME WaitInv, [Next]_vars PROVE WaitInv'
  OBVIOUS
<1>1. TypeInv'
  BY NextTypeInv DEF WaitInv
<1>2. /\ GoneEmpty /\ PipesMade /\ WaitsMeant /\ EndsInOrder /\ WaitsForContext
      /\ thread \in [Actors -> ThreadStates] /\ asked \subseteq Actors
      /\ pipe \subseteq {made[i] : i \in DOMAIN made} /\ made \in Seq(Actors)
      /\ pipe \subseteq Actors /\ parent \in Parents
      /\ socket \subseteq Started /\ TypeInv
  <2>1. made \in Seq(Actors) /\ pipe \subseteq {made[i] : i \in DOMAIN made}
    BY DEF WaitInv, TypeInv, MadeFits
  <2>2. pipe \subseteq Actors
    BY <2>1, LenProperties
  <2> QED
    BY <2>1, <2>2 DEF WaitInv, TypeInv, IInv, ThreadType, ThreadsFit, Started, Alive
<1> USE DEF child
<1>3. CASE UNCHANGED vars
  <2>1. AskedHear'
    BY <1>3, HearingKept DEF vars, parental
  <2> QED
    BY <1>1, <1>2, <1>3, <2>1 DEF vars, parental, WaitInv, GoneEmpty, PipesMade, WaitsMeant,
       EndsInOrder, Started
<1>4. ASSUME NEW a \in Actors, Fork(a) \/ \E att \in BOOLEAN : Start(a, att) PROVE WaitInv'
  <2>1. /\ UNCHANGED <<context, parent, socket, queue, asked>> /\ parent = Free
        /\ \/ context = "open" /\ pipe' = pipe \cup {a}
           \/ pipe' = pipe
        /\ \E t \in {"new", "prelude"} : thread' = [thread EXCEPT ![a] = t]
        /\ thread[a] \in {"none", "new"}
    BY <1>4 DEF Fork, Start, CanCall
  <2>2. AskedHear'
    BY <1>2, <2>1, HearingKept
  <2>3. GoneEmpty' /\ PipesMade' /\ WaitsMeant' /\ EndsInOrder'
    BY <1>2, <2>1 DEF GoneEmpty, PipesMade, WaitsMeant, EndsInOrder, Free
  <2> QED
    BY <1>1, <2>2, <2>3 DEF WaitInv
<1>5. ASSUME NEW a \in Actors, (\E m \in Messages : Send(a, m)) \/ SendReturns(a)
      PROVE  WaitInv'
  <2>1. /\ UNCHANGED <<context, thread, socket, pipe, made>>
        /\ \/ UNCHANGED <<queue, asked>>
           \/ \E m \in Messages : Takes(a) /\ Put(a, m)
        /\ \/ parent' \in {parent, [op |-> "none", who |-> {}]}
           \/ parent' = [op |-> "send", who |-> {a}] /\ a \in pipe
    BY <1>5 DEF Send, SendReturns, Waits, Free, Messages
  <2>2. AskedHear'
    BY <1>2, <2>1, HearingKept, PutHears
  <2>3. GoneEmpty' /\ PipesMade' /\ WaitsMeant' /\ EndsInOrder'
    BY <1>2, <2>1 DEF GoneEmpty, PipesMade, WaitsMeant, EndsInOrder, Started
  <2> QED
    BY <1>1, <2>2, <2>3 DEF WaitInv
<1>6. ASSUME NEW a \in Actors,
             Recv(a) \/ RecvReturns(a) \/ ThreadJoin(a) \/ CloseActor(a) \/ JoinReturns(a)
      PROVE  WaitInv'
  <2>1. /\ UNCHANGED <<context, thread, socket, queue, asked, made>>
        /\ \/ pipe' = pipe
           \/ pipe' \subseteq pipe /\ parent = Free
        /\ \/ parent' = parent
           \/ parent' = [op |-> "none", who |-> {}]
           \/ parent' = [op |-> "recv", who |-> {a}] /\ a \in pipe /\ pipe' = pipe
           \/ parent' = [op |-> "join", who |-> {a}] /\ a \in Started
    BY <1>6 DEF Recv, RecvReturns, ThreadJoin, CloseActor, JoinReturns, Waits, Free,
       CanCall, Joinable
  <2>2. AskedHear'
    BY <1>2, <2>1, HearingKept
  <2>3. GoneEmpty' /\ PipesMade' /\ WaitsMeant' /\ EndsInOrder'
    BY <1>2, <2>1 DEF GoneEmpty, PipesMade, WaitsMeant, EndsInOrder, Started, Free
  <2> QED
    BY <1>1, <2>2, <2>3 DEF WaitInv
<1>7. CASE Destroy \/ Terminated \/ Exit \/ FinalizeActor \/ FinalizeContext
  <2>1. UNCHANGED <<thread, socket, queue, asked, made>> /\ pipe' \subseteq pipe
    BY <1>7 DEF Destroy, Terminated, Exit, FinalizeActor, FinalizeContext
  <2>2. AskedHear'
    BY <1>2, <2>1, HearingKept
  <2>3. GoneEmpty' /\ PipesMade'
    BY <1>2, <1>7, <2>1 DEF GoneEmpty, PipesMade, Destroy, Terminated, Exit, FinalizeActor,
       FinalizeContext
  <2>4. WaitsMeant' /\ EndsInOrder'
    <3>1. CASE Destroy
      BY <1>2, <3>1 DEF Destroy, WaitsMeant, EndsInOrder
    <3>2. CASE Terminated
      BY <1>2, <3>2 DEF Terminated, WaitsMeant, EndsInOrder, Free, WaitsForContext
    <3>3. CASE Exit
      BY <1>2, <3>3 DEF Exit, WaitsMeant, EndsInOrder, WaitsForContext, CanCall, Free
    <3>4. CASE FinalizeActor
      <4>1. \E b : parent' = [parent EXCEPT !.who = @ \ {b}] /\ pipe' = pipe \ {b}
        BY <3>4 DEF FinalizeActor
      <4>2. parent.op = "exit" /\ parent'.op = "exit" /\ context' = context
        BY <1>2, <3>4, <4>1 DEF FinalizeActor, Parents
      <4> QED
        BY <1>2, <2>1, <4>1, <4>2 DEF WaitsMeant, EndsInOrder, Parents
    <3>5. CASE FinalizeContext
      BY <1>2, <3>5 DEF FinalizeContext, WaitsMeant, EndsInOrder
    <3> QED
      BY <1>7, <3>1, <3>2, <3>3, <3>4, <3>5
  <2> QED
    BY <1>1, <2>2, <2>3, <2>4 DEF WaitInv
<1>8. ASSUME NEW a \in Actors, ChildMove(a) PROVE WaitInv'
  <2>1. /\ UNCHANGED <<context, parent, pipe, made>>
        /\ thread[a] \notin {"none", "new"} /\ thread'[a] \notin {"none", "new"}
        /\ \A b \in Actors \ {a} : thread'[b] = thread[b] /\ (b \in socket' <=> b \in socket)
    BY <1>2, <1>8, ChildMoves
  <2>2. context = "gone" => socket' = {}
    BY <1>2, <1>8 DEF GoneEmpty, ChildMove, ChildStep, CallSend, BodyEnds, Connect, PreludeRaises,
       CallRecv, Calls, Receives, Sends, CallFails, StateCloses
  <2>3. AskedHear'
    BY <1>8, ChildHears
  <2>4. GoneEmpty' /\ PipesMade' /\ WaitsMeant' /\ EndsInOrder'
    BY <1>2, <2>1, <2>2 DEF GoneEmpty, PipesMade, WaitsMeant, EndsInOrder, Started
  <2> QED
    BY <1>1, <2>3, <2>4 DEF WaitInv
<1> QED
  BY <1>3, <1>4, <1>5, <1>6, <1>7, <1>8
     DEF Next, ParentStep, ChildMove, Messages

-----------------------------------------------------------------------------
(* Who can end a wait.                                                     *)

(* The thread has a step that ChildStep requires of it.                    *)
ChildCanStep(a) ==
    \/ thread[a] \in {"prelude", "running", "leaving"}
    \/ thread[a] \in {"receiving", "sending"} /\ context # "open"
    \/ thread[a] = "receiving" /\ queue[a] # <<>>
    \/ thread[a] = "sending" /\ ~Chokes(a)

CanFinalize ==
    \E i \in DOMAIN made :
        /\ made[i] \in parent.who
        /\ \A j \in DOMAIN made : made[j] \in parent.who => j <= i
        /\ made[i] \in attached \ joined => made[i] \notin Alive

ParentCanStep ==
    \/ \E a \in Actors :
        \/ parent = Waits("send", a) /\ Takes(a)
        \/ parent = Waits("recv", a) /\ replies[a] > 0
        \/ parent = Waits("join", a) /\ thread[a] = "dead"
    \/ context = "stopping" /\ pipe = {} /\ socket = {}
    \/ parent.op = "exit" /\ parent.who # {} /\ CanFinalize
    \/ parent.op = "exit" /\ parent.who = {} /\ context # "stopping"

(* The threads the parent waits for.                                       *)
Awaited ==
    IF context = "stopping" THEN socket
    ELSE IF parent.op = "exit" THEN parent.who \cap attached
    ELSE parent.who

NoDeadlock ==
    Waiting /\ ~Stuck => ParentCanStep \/ \E a \in Awaited : ChildCanStep(a)

(* Finalizers run from the last object made.                               *)
LEMMA LastOfMade ==
    ASSUME NEW s \in Seq(Actors), NEW S,
           S # {}, S \subseteq {s[i] : i \in DOMAIN s}
    PROVE  \E i \in DOMAIN s : s[i] \in S /\ \A j \in DOMAIN s : s[j] \in S => j <= i
<1> DEFINE above == {n \in Nat : \A j \in DOMAIN s : s[j] \in S => j <= n}
<1>1. DOMAIN s = 1 .. Len(s) /\ Len(s) \in Nat
  BY LenProperties
<1>2. Len(s) \in above
  BY <1>1
<1>3. PICK n \in above : \A k \in above : <<k, n>> \notin OpToRel(<, Nat)
  BY <1>2, WFMin, NatLessThanWellFounded, Zenon
<1>4. \A k \in above : ~ (k < n)
  BY <1>3, Zenon DEF OpToRel
<1>5. PICK i \in DOMAIN s : s[i] \in S
  OBVIOUS
<1>6. n \in Nat /\ 1 <= i /\ i <= n
  BY <1>1, <1>5
<1>7. \E j \in DOMAIN s : s[j] \in S /\ j = n
  <2>1. CASE \A j \in DOMAIN s : s[j] \in S => j # n
    <3>1. \A j \in DOMAIN s : s[j] \in S => j <= n - 1
      BY <1>1, <1>6, <2>1
    <3>2. n - 1 \in above
      BY <1>6, <3>1
    <3> QED
      BY <1>4, <1>6, <3>2
  <2> QED
    BY <2>1
<1> QED
  BY <1>7

(* A thread that somebody joins, and that is not stuck, can go on.         *)
LEMMA JoinedCanStep ==
    ASSUME WaitInv, ~Stuck, NEW a \in Actors, JoinedOn(a), a \in Alive
    PROVE  ChildCanStep(a)
<1>1. ~(Starves(a) /\ a \notin asked) /\ ~Chokes(a)
  BY DEF Stuck
<1>2. thread[a] \in {"prelude", "running", "receiving", "sending", "leaving"}
  BY DEF WaitInv, TypeInv, IInv, ThreadType, ThreadStates, Alive, Started
<1>3. Starves(a) => a \notin asked
  BY LenProperties DEF WaitInv, AskedHear, ToldToStop, Starves
<1> QED
  BY <1>1, <1>2, <1>3 DEF ChildCanStep, Starves

(* With zmq_ctx_term under way every open socket is that of a thread that  *)
(* can go on.                                                              *)
LEMMA TermCanStep ==
    ASSUME WaitInv, context = "stopping", pipe = {}
    PROVE  ParentCanStep \/ \E a \in Awaited : ChildCanStep(a)
<1>1. \A a \in socket : a \in Actors
                       /\ thread[a] \in {"prelude", "running", "receiving", "sending", "leaving"}
  BY DEF WaitInv, TypeInv, ThreadsFit, IInv, ThreadType, ThreadStates, Alive, Started
<1> QED
  BY <1>1 DEF ParentCanStep, ChildCanStep, Awaited

(* Nobody waits in a circle but where the pair is stuck: whatever the      *)
(* parent waits for - a peer that takes or sends a message, the end of a   *)
(* thread, the sockets of the children in zmq_ctx_term, the finalizers of  *)
(* its own state - either the wait can end now, or one of the threads it   *)
(* waits for has a step to make.  It holds for sends to actors in any      *)
(* state, started or not (threads.lua:61-93, ex.lua:16-27).                *)
THEOREM NobodyIsStuck == Spec => []NoDeadlock
<1>1. WaitInv => NoDeadlock
  <2> SUFFICES ASSUME WaitInv, Waiting, ~Stuck
               PROVE  ParentCanStep \/ \E a \in Awaited : ChildCanStep(a)
    BY DEF NoDeadlock
  <2>1. /\ parent \in Parents /\ WaitsMeant /\ EndsInOrder /\ PipesMade /\ HasSocket
        /\ WaitsForContext
        /\ thread \in [Actors -> ThreadStates] /\ queue \in [Actors -> Seq(Messages)]
        /\ replies \in [Actors -> 0 .. MaxQueue]
        /\ made \in Seq(Actors) /\ pipe \subseteq {made[i] : i \in DOMAIN made}
        /\ context \in {"open", "stopping", "gone"}
    BY DEF WaitInv, TypeInv, IInv, ThreadType, QueuesFit, RepliesFit, MadeFits
  <2>2. pipe \subseteq Actors
    BY <2>1, LenProperties
  <2>3. CASE parent.op = "send"
    <3>1. PICK a \in pipe : parent.who = {a}
      BY <2>1, <2>3 DEF WaitsMeant
    <3>2. a \in Actors /\ parent = Waits("send", a) /\ thread[a] # "none"
      BY <2>1, <2>2, <2>3, <3>1 DEF Waits, Parents, PipesMade
    <3>3. CASE Takes(a)
      BY <3>2, <3>3 DEF ParentCanStep
    <3>4. CASE ~Takes(a)
      <4>1. thread[a] \in {"prelude", "running", "receiving", "sending"} /\ ~Chokes(a)
        BY <2>1, <3>2, <3>4 DEF Stuck, Absent, ThreadStates
      <4>2. Len(<<>>) = 0 /\ 0 < MaxQueue
        BY QueueAssumption
      <4>3. thread[a] = "receiving" => queue[a] # <<>>
        BY <2>1, <3>2, <3>4, <4>2 DEF HasSocket, Takes
      <4>4. a \in Awaited
        BY <2>1, <2>3, <3>1 DEF Awaited, WaitsForContext
      <4> QED
        BY <4>1, <4>3, <4>4 DEF ChildCanStep
    <3> QED
      BY <3>3, <3>4
  <2>4. CASE parent.op = "recv"
    <3>1. PICK a \in pipe : parent.who = {a}
      BY <2>1, <2>4 DEF WaitsMeant
    <3>2. a \in Actors /\ parent = Waits("recv", a) /\ thread[a] # "none"
      BY <2>1, <2>2, <2>4, <3>1 DEF Waits, Parents, PipesMade
    <3>3. replies[a] \in 0 .. MaxQueue /\ 0 < MaxQueue /\ (replies[a] > 0 \/ replies[a] = 0)
      <4>1. replies[a] \in 0 .. MaxQueue
        BY <2>1, <3>2
      <4> QED
        BY <4>1, QueueAssumption
    <3>4. CASE replies[a] > 0
      BY <3>2, <3>4 DEF ParentCanStep
    <3>5. CASE replies[a] = 0
      <4>1. /\ thread[a] \in {"prelude", "running", "receiving", "sending"}
            /\ ~Starves(a)
        BY <2>1, <3>2, <3>5 DEF Stuck, Absent, ThreadStates
      <4>2. ~Chokes(a)
        BY <3>1, <3>3, <3>5 DEF Chokes
      <4>3. a \in Awaited
        BY <2>1, <2>4, <3>1 DEF Awaited, WaitsForContext
      <4> QED
        BY <4>1, <4>2, <4>3 DEF ChildCanStep, Starves
    <3> QED
      BY <3>3, <3>4, <3>5
  <2>5. CASE parent.op = "join"
    <3>1. PICK a \in Started : parent.who = {a}
      BY <2>1, <2>5 DEF WaitsMeant
    <3>2. a \in Actors /\ parent = Waits("join", a) /\ a \in Awaited
      BY <2>1, <2>5, <3>1 DEF Waits, Parents, Started, Awaited, WaitsForContext
    <3>3. CASE thread[a] = "dead"
      BY <3>2, <3>3 DEF ParentCanStep
    <3>4. CASE thread[a] # "dead"
      BY <3>1, <3>2, <3>4, JoinedCanStep DEF Alive, JoinedOn
    <3> QED
      BY <3>3, <3>4
  <2>6. CASE parent.op = "term"
    BY <2>1, <2>6, TermCanStep DEF EndsInOrder
  <2>7. CASE parent.op = "exit" /\ parent.who = {}
    <3>1. pipe = {}
      BY <2>1, <2>7 DEF EndsInOrder
    <3> QED
      BY <2>7, <3>1, TermCanStep DEF ParentCanStep
  <2>8. CASE parent.op = "exit" /\ parent.who # {}
    <3>1. parent.who \subseteq {made[i] : i \in DOMAIN made} /\ context # "stopping"
      BY <2>1, <2>8 DEF EndsInOrder
    <3>2. PICK i \in DOMAIN made :
            made[i] \in parent.who /\ \A j \in DOMAIN made : made[j] \in parent.who => j <= i
      BY <2>1, <2>8, <3>1, LastOfMade
    <3>3. CASE made[i] \in attached \ joined => made[i] \notin Alive
      BY <2>8, <3>2, <3>3 DEF ParentCanStep, CanFinalize
    <3>4. CASE made[i] \in attached \ joined /\ made[i] \in Alive
      <4>1. made[i] \in Actors /\ JoinedOn(made[i]) /\ made[i] \in Awaited
        BY <2>8, <3>1, <3>2, <3>4 DEF JoinedOn, Awaited, Alive, Started
      <4> QED
        BY <3>4, <4>1, JoinedCanStep
    <3> QED
      BY <3>3, <3>4
  <2> QED
    BY <2>1, <2>3, <2>4, <2>5, <2>6, <2>7, <2>8 DEF Waiting, Parents
<1> QED
  BY <1>1, InitWaitInv, NextWaitInv, PTL DEF Spec

-----------------------------------------------------------------------------
(* What is stuck stays so.                                                 *)

SendStuck(a) == parent = Waits("send", a) /\ ~Takes(a) /\ (Absent(a) \/ Chokes(a))
RecvStuck(a) == parent = Waits("recv", a) /\ replies[a] = 0 /\ (Absent(a) \/ Starves(a))
JoinStuck(a) == JoinedOn(a) /\ ((Starves(a) /\ a \notin asked) \/ Chokes(a))

LEMMA StuckIs == Stuck <=> \E a \in Actors : SendStuck(a) \/ RecvStuck(a) \/ JoinStuck(a)
BY DEF Stuck, SendStuck, RecvStuck, JoinStuck

(* A thread that waits for its parent has a socket in a context that is    *)
(* not being ended.                                                        *)
LEMMA StuckOpen ==
    ASSUME WaitInv, NEW a \in Actors, SendStuck(a) \/ RecvStuck(a) \/ JoinStuck(a),
           Starves(a) \/ Chokes(a)
    PROVE  context = "open"
<1>1. a \in socket
  BY DEF Starves, Chokes, WaitInv, TypeInv, IInv, HasSocket
<1>2. context # "gone"
  BY <1>1 DEF WaitInv, GoneEmpty
<1>3. context # "stopping"
  BY DEF SendStuck, RecvStuck, JoinStuck, JoinedOn, Waits, WaitInv, TypeInv, IInv,
     WaitsForContext, EndsInOrder
<1> QED
  BY <1>2, <1>3 DEF WaitInv, TypeInv, IInv, ThreadType

LEMMA ChildStaysStuck ==
    ASSUME WaitInv, NEW a \in Actors, SendStuck(a) \/ RecvStuck(a) \/ JoinStuck(a),
           NEW b \in Actors, ChildMove(b)
    PROVE  SendStuck(a)' \/ RecvStuck(a)' \/ JoinStuck(a)'
<1>1. /\ UNCHANGED <<parent, pipe, attached, joined, asked>>
      /\ \A c \in Actors \ {b} :
           /\ thread'[c] = thread[c] /\ queue'[c] = queue[c]
           /\ replies'[c] = replies[c] /\ (c \in socket' <=> c \in socket)
  BY ChildMoves DEF WaitInv
<1>2. CASE a # b
  BY <1>1, <1>2 DEF SendStuck, RecvStuck, JoinStuck, JoinedOn, Takes, Absent, Chokes, Starves,
     Waits
<1>3. CASE a = b
  <2>1. CASE Starves(a) \/ Chokes(a)
    <3>1. context = "open"
      BY <2>1, StuckOpen
    <3> QED
      BY <1>3, <2>1, <3>1 DEF Starves, Chokes, ChildMove, ChildStep, CallSend, BodyEnds, Connect,
         PreludeRaises, CallRecv, Calls, Receives, Sends, CallFails, StateCloses, WaitInv,
         TypeInv, RepliesFit
  <2>2. CASE ~(Starves(a) \/ Chokes(a))
    <3>1. Absent(a) /\ (SendStuck(a) \/ RecvStuck(a))
      BY <2>2 DEF SendStuck, RecvStuck, JoinStuck
    <3>2. /\ thread'[a] = "dead" /\ a \notin socket' /\ replies' = replies
      BY <1>3, <3>1 DEF Absent, ChildMove, ChildStep, CallSend, BodyEnds, Connect,
         PreludeRaises, CallRecv, Calls, Receives, Sends, CallFails, StateCloses, WaitInv,
         TypeInv, IInv, ThreadType
    <3> QED
      BY <1>1, <3>1, <3>2 DEF SendStuck, RecvStuck, Takes, Absent, Waits
  <2> QED
    BY <2>1, <2>2
<1> QED
  BY <1>2, <1>3

LEMMA ParentStaysStuck ==
    ASSUME WaitInv, NEW a \in Actors, SendStuck(a) \/ RecvStuck(a) \/ JoinStuck(a), ParentStep
    PROVE  JoinStuck(a)'
<1>1. parent.op \in {"send", "recv", "join"} => parent.who = {a}
  BY DEF SendStuck, RecvStuck, JoinStuck, JoinedOn, Waits
<1>2. parent.op \in {"send", "recv", "join", "exit"}
  BY DEF SendStuck, RecvStuck, JoinStuck, JoinedOn, Waits
<1>3. ASSUME NEW b \in Actors, SendReturns(b) \/ RecvReturns(b) \/ JoinReturns(b)
      PROVE  FALSE
  <2>1. b = a
    BY <1>1, <1>3 DEF SendReturns, RecvReturns, JoinReturns, Waits
  <2>2. ~SendReturns(a)
    BY DEF SendReturns, SendStuck, RecvStuck, JoinStuck, JoinedOn, Waits
  <2>3. ~RecvReturns(a)
    BY DEF RecvReturns, SendStuck, RecvStuck, JoinStuck, JoinedOn, Waits
  <2>4. ~JoinReturns(a)
    BY DEF JoinReturns, SendStuck, RecvStuck, JoinStuck, Starves, Chokes, Waits
  <2> QED
    BY <1>3, <2>1, <2>2, <2>3, <2>4
<1>4. ~Terminated
  <2>1. context = "stopping" => parent.op = "exit" /\ parent.who = {}
    BY <1>2 DEF WaitInv, TypeInv, IInv, WaitsForContext, EndsInOrder
  <2>2. parent.op = "exit" => a \in parent.who
    BY DEF SendStuck, RecvStuck, JoinStuck, JoinedOn, Waits
  <2> QED
    BY <2>1, <2>2 DEF Terminated
<1>5. ~FinalizeContext
  BY DEF FinalizeContext, SendStuck, RecvStuck, JoinStuck, JoinedOn, Waits
<1>6. PICK i \in DOMAIN made :
        /\ parent.op = "exit" /\ made[i] \in parent.who
        /\ made[i] \in attached \ joined => made[i] \notin Alive
        /\ parent' = [parent EXCEPT !.who = @ \ {made[i]}] /\ pipe' = pipe \ {made[i]}
        /\ UNCHANGED <<thread, socket, attached, joined, queue, replies, asked>>
  <2>1. FinalizeActor
    BY <1>3, <1>4, <1>5 DEF ParentStep
  <2> QED
    BY <2>1 DEF FinalizeActor, child
<1>7. a \in (parent.who \cap attached) \ joined /\ JoinStuck(a)
  BY <1>6 DEF SendStuck, RecvStuck, JoinStuck, JoinedOn, Waits
<1>8. a # made[i]
  BY <1>6, <1>7 DEF JoinStuck, Starves, Chokes, Alive, Started
<1>9. parent'.op = "exit" /\ a \in parent'.who
  BY <1>6, <1>7, <1>8 DEF WaitInv, TypeInv, Parents
<1> QED
  BY <1>6, <1>7, <1>9 DEF JoinStuck, JoinedOn, Starves, Chokes

(* The exceptions that WaitsEnd makes are not too wide: a pair that is     *)
(* stuck is so for good, whatever the other threads do and however the     *)
(* steps interleave, so that each of them is a wait that hangs             *)
(* (threads.lua:61-93, ex.lua:16-27).                                      *)
THEOREM StuckForGood == Spec => [][Stuck => Stuck']_vars
<1>1. WaitInv /\ [Next]_vars => [Stuck => Stuck']_vars
  <2> SUFFICES ASSUME WaitInv, Next, Stuck PROVE Stuck'
    OBVIOUS
  <2>1. PICK a \in Actors : SendStuck(a) \/ RecvStuck(a) \/ JoinStuck(a)
    BY StuckIs
  <2>2. ~CanCall
    BY <2>1 DEF SendStuck, RecvStuck, JoinStuck, JoinedOn, Waits, CanCall, Free
  <2>3. ParentStep \/ \E b \in Actors : ChildMove(b)
    BY <2>2 DEF Next, Fork, Start, Send, Recv, ThreadJoin, CloseActor, Destroy, Exit, ChildMove
  <2>4. SendStuck(a)' \/ RecvStuck(a)' \/ JoinStuck(a)'
    BY <2>1, <2>3, ChildStaysStuck, ParentStaysStuck
  <2> QED
    BY <2>4 DEF Stuck, SendStuck, RecvStuck, JoinStuck
<1> QED
  BY <1>1, InitWaitInv, NextWaitInv, PTL DEF Spec

-----------------------------------------------------------------------------
(* The steps that are made while the parent waits come to an end.          *)

(* What a thread can still do before the parent has to do something.       *)
Talk(a) == 2 * Len(queue[a]) + 2 * (MaxQueue - replies[a])

StepsLeft(a) ==
    CASE thread[a] = "prelude" -> Talk(a) + 4
      [] thread[a] = "running" -> Talk(a) + 3
      [] thread[a] \in {"receiving", "sending"} -> Talk(a) + 2
      [] thread[a] = "leaving" -> 1
      [] OTHER -> 0

(* The wait ends, or a step brings the end nearer.                         *)
CountsDown ==
    \/ parent'.op \in {"none", "over"}
    \/ \E a \in Actors :
        /\ StepsLeft(a) \in Nat /\ StepsLeft(a)' \in Nat /\ StepsLeft(a)' < StepsLeft(a)
        /\ \A b \in Actors \ {a} : StepsLeft(b)' = StepsLeft(b)
        /\ UNCHANGED <<parent, context>>
    \/ /\ \A a \in Actors : StepsLeft(a)' = StepsLeft(a)
       /\ \/ parent'.op = parent.op /\ UNCHANGED context
             /\ parent'.who \subseteq parent.who /\ parent'.who # parent.who
          \/ context = "open" /\ context' = "stopping" /\ UNCHANGED parent

LEMMA ChildCounts ==
    ASSUME WaitInv, NEW a \in Actors, ChildMove(a)
    PROVE  StepsLeft(a) \in Nat /\ StepsLeft(a)' \in Nat /\ StepsLeft(a)' < StepsLeft(a)
<1>1. /\ thread \in [Actors -> ThreadStates] /\ queue \in [Actors -> Seq(Messages)]
      /\ replies \in [Actors -> 0 .. MaxQueue] /\ TypeInv /\ TypeInv'
  BY NextTypeInv DEF WaitInv, TypeInv, IInv, ThreadType, QueuesFit, RepliesFit, Next, ChildMove
<1>2. Len(queue[a]) \in Nat /\ Len(queue'[a]) \in Nat
  BY <1>1, LenProperties DEF TypeInv, QueuesFit
<1>3. replies[a] \in 0 .. MaxQueue /\ replies'[a] \in 0 .. MaxQueue
  BY <1>1 DEF TypeInv, RepliesFit
<1>4. Talk(a) \in Nat /\ Talk(a)' \in Nat
  <2>1. \A n \in Nat, r \in 0 .. MaxQueue : 2 * n + 2 * (MaxQueue - r) \in Nat
    BY QueueAssumption
  <2> QED
    BY <1>2, <1>3, <2>1 DEF Talk
<1>5. CASE Receives(a)
  <2>1. /\ Len(queue'[a]) = Len(queue[a]) - 1 /\ replies'[a] = replies[a]
        /\ thread[a] = "receiving" /\ thread'[a] \in {"running", "leaving"}
    BY <1>1, <1>5, HeadTailProperties DEF Receives
  <2>2. Talk(a)' = Talk(a) - 2
    BY <1>2, <1>3, <2>1, QueueAssumption DEF Talk
  <2> QED
    BY <1>4, <2>1, <2>2 DEF StepsLeft
<1>6. CASE Sends(a)
  <2>1. /\ queue'[a] = queue[a] /\ replies'[a] = replies[a] + 1
        /\ thread[a] = "sending" /\ thread'[a] = "running"
    BY <1>1, <1>6 DEF Sends
  <2>2. Talk(a)' = Talk(a) - 2
    BY <1>2, <1>3, <2>1, QueueAssumption DEF Talk
  <2> QED
    BY <1>4, <2>1, <2>2 DEF StepsLeft
<1>7. CASE ~Receives(a) /\ ~Sends(a)
  <2>1. /\ queue' = queue /\ replies' = replies
        /\ \/ thread[a] = "prelude" /\ thread'[a] \in {"running", "leaving"}
           \/ thread[a] = "running" /\ thread'[a] \in {"receiving", "sending", "leaving"}
           \/ thread[a] \in {"receiving", "sending"} /\ thread'[a] = "leaving"
           \/ thread[a] = "leaving" /\ thread'[a] = "dead"
    BY <1>1, <1>7 DEF ChildMove, ChildStep, CallSend, BodyEnds, Connect, PreludeRaises,
       CallRecv, Calls, CallFails, StateCloses
  <2>2. Talk(a)' = Talk(a)
    BY <2>1 DEF Talk
  <2> QED
    BY <1>4, <2>1, <2>2 DEF StepsLeft
<1> QED
  BY <1>5, <1>6, <1>7

(* A parent that waits is not kept waiting by threads that go on for ever: *)
(* every step made meanwhile, by a thread or by the parent's finalizers,   *)
(* ends the wait or takes one of a finite number of steps off; a thread    *)
(* can read what is in its pipe and send what the pipe still takes, and no *)
(* more (threads.lua:61-93).                                               *)
THEOREM WaitsCountDown == Spec => [][Waiting => CountsDown]_vars
<1>1. WaitInv /\ [Next]_vars => [Waiting => CountsDown]_vars
  <2> SUFFICES ASSUME WaitInv, Next, Waiting PROVE CountsDown
    OBVIOUS
  <2>1. ~CanCall
    BY DEF Waiting, CanCall, Free
  <2>2. ParentStep \/ \E a \in Actors : ChildMove(a)
    BY <2>1 DEF Next, Fork, Start, Send, Recv, ThreadJoin, CloseActor, Destroy, Exit, ChildMove
  <2>3. ASSUME NEW a \in Actors, ChildMove(a) PROVE CountsDown
    <3>1. UNCHANGED <<parent, context>>
          /\ \A b \in Actors \ {a} : /\ thread'[b] = thread[b] /\ queue'[b] = queue[b]
                                      /\ replies'[b] = replies[b]
      BY <2>3, ChildMoves DEF WaitInv
    <3>2. \A b \in Actors \ {a} : StepsLeft(b)' = StepsLeft(b)
      BY <3>1 DEF StepsLeft, Talk
    <3>3. StepsLeft(a) \in Nat /\ StepsLeft(a)' \in Nat /\ StepsLeft(a)' < StepsLeft(a)
      BY <2>3, ChildCounts
    <3> QED
      BY <3>1, <3>2, <3>3 DEF CountsDown
  <2>4. CASE (\E a \in Actors : SendReturns(a) \/ RecvReturns(a) \/ JoinReturns(a)) \/ Terminated
    BY <2>4 DEF SendReturns, RecvReturns, JoinReturns, Terminated, Free, CountsDown
  <2>5. CASE FinalizeActor \/ FinalizeContext
    <3>1. UNCHANGED <<thread, queue, replies>>
      BY <2>5 DEF FinalizeActor, FinalizeContext, child
    <3>2. \A a \in Actors : StepsLeft(a)' = StepsLeft(a)
      BY <3>1 DEF StepsLeft, Talk
    <3>3. CASE FinalizeActor
      <4>1. \E b \in parent.who : parent' = [parent EXCEPT !.who = @ \ {b}]
        BY <3>3 DEF FinalizeActor
      <4>2. /\ parent'.op = parent.op /\ context' = context
            /\ parent'.who \subseteq parent.who /\ parent'.who # parent.who
        BY <3>3, <4>1 DEF FinalizeActor, WaitInv, TypeInv, Parents
      <4> QED
        BY <3>2, <4>2 DEF CountsDown
    <3>4. CASE FinalizeContext
      BY <3>2, <3>4 DEF FinalizeContext, CountsDown
    <3> QED
      BY <2>5, <3>3, <3>4
  <2> QED
    BY <2>2, <2>3, <2>4, <2>5 DEF ParentStep
<1> QED
  BY <1>1, InitWaitInv, NextWaitInv, PTL DEF Spec

=============================================================================
