------------------------------ MODULE TcpServer ------------------------------
(***************************************************************************)
(* net/Tcp/TcpServer at work: the Acceptor on the base loop, the thread    *)
(* pool, and the connections that pass between their loops.  A connection  *)
(* is kept to what these hand-overs touch, its state_, its channel and who *)
(* holds a pointer to it; module TcpConnection has the rest.               *)
(*                                                                         *)
(* Loop 0 is the base loop, the others are the pool's.  A loop passes      *)
(* through poll, the callbacks of its channels and then the functors it    *)
(* took, whose pointers it drops when the last of them has run.            *)
(***************************************************************************)
EXTENDS Naturals, Sequences, SequencesExt, FiniteSets

CONSTANTS
    MaxThreads,  \* bound on numThreads_
    MaxConns,    \* bound on the connections that arrive
    Programs     \* what the program and its surroundings do, as records of
                 \*   threads: numThreads_,
                 \*   arrivals: how many connections arrive,
                 \*   descriptors: limit for idleFd_, connections and others,
                 \*   others: how many of these other threads may open,
                 \*   idleOpens: can the constructor open "dev/null"?
                 \*   teardown: is the server destroyed "never", only when
                 \*             "quiet" (no connection is left), or "any" time?

ASSUME ProgramsAssumption ==
    /\ MaxThreads \in Nat /\ MaxConns \in Nat
    /\ Programs \subseteq
          [threads : 0..MaxThreads, arrivals : 0..MaxConns, descriptors : Nat \ {0},
           others : Nat, idleOpens : BOOLEAN, teardown : {"never", "quiet", "any"}]

Loop == 0..MaxThreads
Conn == 1..MaxConns

VARIABLES
    program,                                   \* which of Programs; it never changes
    numThreads, owner, cur, thread, loop, alive, quit, wakeup, loops, next, failed,
    listening, idleFd, backlog, shed,
    phase,        \* where each loop is in its pass
    queue,        \* pendingFunctors_ of each loop, behind those it has taken
    batch, ran,   \* how many it has taken, and run
    state,        \* state_ of each TcpConnection
    channel,      \* its channel: "new" to the poller, "reading", or "off"
    home,         \* its loop_
    connections,  \* connections_
    nextConnId,   \* nextConnId_
    arrived,      \* connections that have arrived
    others,       \* descriptors open in other threads
    stolen,       \* one of them took the place that idleFd_ had just left
    fault         \* "none", the assertion that failed, or "abort" (LOG_SYSFATAL)

Pool == INSTANCE EventLoopThreadPool
Acc == INSTANCE Acceptor

poolVars == <<numThreads, owner, cur, thread, loop, alive, quit, wakeup, loops, next, failed>>
accVars == <<listening, idleFd, backlog, shed>>
loopVars == <<phase, queue, batch, ran>>
connVars == <<state, channel, home, connections, nextConnId>>
envVars == <<arrived, others, stolen>>
vars == <<program, poolVars, accVars, loopVars, connVars, envVars, fault>>

Init ==
    /\ program \in Programs
    /\ Pool!Init /\ Acc!Init(program.idleOpens)
    /\ phase = [l \in Loop |-> "poll"] /\ queue = [l \in Loop |-> <<>>]
    /\ batch = [l \in Loop |-> 0] /\ ran = [l \in Loop |-> 0]
    /\ state = [c \in Conn |-> "KDisconnected"] /\ channel = [c \in Conn |-> "new"]
    /\ home = [c \in Conn |-> 0]
    /\ connections = {} /\ nextConnId = 1
    /\ arrived = 0 /\ others = 0 /\ stolen = FALSE
    /\ fault = "none"
-----------------------------------------------------------------------------
Destroyed == owner \in {"quit", "wakeup", "join", "done"}

\* Someone holds a TcpConnectionPtr: the map or a functor.
Alive(c) == c \in connections \/ \E l \in Loop : \E i \in DOMAIN queue[l] : queue[l][i].conn = c

Free ==
    LET used == (IF idleFd THEN 1 ELSE 0) + Cardinality({c \in Conn : Alive(c)}) + others
    IN  IF program.descriptors > used THEN program.descriptors - used ELSE 0

Task(op, c) == [op |-> op, conn |-> c]

\* queueInLoop: q with f pushed for loop l, whose eventfd is written.
Pushed(q, l, f) == [q EXCEPT ![l] = Append(@, f)]
Wake(l) == wakeup' = IF l = 0 THEN wakeup ELSE [wakeup EXCEPT ![l] = TRUE]

\* All of the pool but the eventfds.
poolButWakeup == <<numThreads, owner, cur, thread, loop, alive, quit, loops, next, failed>>

Running == fault = "none" /\ failed = "none"
-----------------------------------------------------------------------------
(* The TcpServer's user: setThreadNum(), start(), the destructor.          *)

SetThreadNum ==
    /\ Running /\ numThreads # program.threads
    /\ Pool!SetThreadNum(program.threads)
    /\ UNCHANGED <<program, accVars, loopVars, connVars, envVars, fault>>

\* start(): threadPool_->start() ...
Start ==
    /\ Running /\ numThreads = program.threads
    /\ Pool!Start
    /\ UNCHANGED <<program, accVars, loopVars, connVars, envVars, fault>>

\* ... then listen(), in place on the base loop's thread.
Listen ==
    /\ Running /\ owner = "deal" /\ ~listening
    /\ Acc!Listen
    /\ UNCHANGED <<program, poolVars, loopVars, connVars, envVars, fault>>

\* The steps of start() and of the pool's destructor.
OwnerStep ==
    /\ Running
    /\ Pool!OwnerStep
    /\ UNCHANGED <<program, accVars, loopVars, connVars, envVars, fault>>

\* ~TcpServer: connectDestroyed in place for a connection of the base loop,
\* else as a functor; the map goes, then the pool.
Destroy ==
    LET mine == {c \in connections : home[c] = 0}
        given(l) == LET s == SetToSeq({c \in connections : home[c] = l})
                    IN  [i \in DOMAIN s |-> Task("connectDestroyed", s[i])]
    IN
    /\ Running /\ listening /\ phase[0] = "poll"
    /\ \/ program.teardown = "any"
       \/ program.teardown = "quiet" /\ (program.threads = 0 \/ \A c \in Conn : ~Alive(c))
    /\ connections' = {}
    /\ queue' = [l \in Loop |-> IF l = 0 THEN queue[0] ELSE queue[l] \o given(l)]
    /\ wakeup' = [l \in Pool!T |-> wakeup[l] \/ given(l) # <<>>]
    /\ state' = [c \in Conn |-> IF c \in mine THEN "KDisconnected" ELSE state[c]]
    /\ channel' = [c \in Conn |-> IF c \in mine THEN "new" ELSE channel[c]]
    /\ Pool!Destroy
    /\ UNCHANGED <<program, accVars, phase, batch, ran, home, nextConnId, envVars, fault>>

\* The acceptor outlives the pool.
DestroyAcceptor ==
    /\ Running /\ owner = "done"
    /\ Acc!Destroy
    /\ UNCHANGED <<program, poolVars, loopVars, connVars, envVars, fault>>
-----------------------------------------------------------------------------
(* A pass of a loop.                                                       *)

\* The base loop polls once start() has returned, and again when the server is
\* gone; a connection that waits is always reported.
PollBase ==
    /\ Running /\ phase[0] = "poll"
    /\ (owner = "deal" /\ listening) \/ (owner = "done" /\ ~listening)
    /\ phase' = [phase EXCEPT ![0] = IF Acc!Pending THEN "accept" ELSE "handle"]
    /\ UNCHANGED <<program, poolVars, accVars, queue, batch, ran, connVars, envVars, fault>>

PollThread(t) ==
    /\ Running
    /\ Pool!PollWoken(t) \/ Pool!PollOther(t)
    /\ phase' = [phase EXCEPT ![t] = "handle"]
    /\ UNCHANGED <<program, accVars, queue, batch, ran, connVars, envVars, fault>>

\* threadFunc; ~EventLoop drops the functors that are left.
ThreadStep(t) ==
    /\ Running /\ phase[t] = "poll"
    /\ Pool!ThreadStep(t)
    /\ queue' = [queue EXCEPT ![t] = IF alive'[t] \/ ~alive[t] THEN @ ELSE <<>>]
    /\ UNCHANGED <<program, accVars, phase, batch, ran, connVars, envVars, fault>>

\* doPendingFunctors takes what is queued.
Swap(l) ==
    /\ Running /\ phase[l] = "handle"
    /\ batch' = [batch EXCEPT ![l] = Len(queue[l])]
    /\ phase' = [phase EXCEPT ![l] = IF queue[l] = <<>> THEN "poll" ELSE "run"]
    /\ UNCHANGED <<program, poolVars, accVars, queue, ran, connVars, envVars, fault>>
-----------------------------------------------------------------------------
(* The Acceptor's callback on the base loop.                               *)

AcceptStep ==
    /\ Running /\ phase[0] = "accept"
    /\ UNCHANGED <<program, batch, ran, envVars>>

\* ++nextConnId_: the next connection has another name.
NextName_same == nextConnId
NextName == nextConnId + 1

\* newConnection: runInLoop(connectEstablished) is a call for the base loop.
NewConnection(l) ==
    LET c == nextConnId IN
    /\ AcceptStep
    /\ Acc!Accept(Free)
    /\ Pool!Deal(l)
    /\ nextConnId' = NextName
    /\ connections' = connections \cup {c}
    /\ home' = [home EXCEPT ![c] = l]
    /\ state' = [state EXCEPT ![c] = IF l = 0 THEN "KConnected" ELSE "KConnecting"]
    /\ channel' = [channel EXCEPT ![c] = IF l = 0 THEN "reading" ELSE "new"]
    /\ queue' = IF l = 0 THEN queue ELSE Pushed(queue, l, Task("connectEstablished", c))
    /\ Wake(l)
    /\ phase' = [phase EXCEPT ![0] = "handle"]
    /\ UNCHANGED <<owner, cur, thread, loop, alive, quit, failed, fault>>

AcceptFails ==
    /\ AcceptStep
    /\ Acc!AcceptFails
    /\ phase' = [phase EXCEPT ![0] = "handle"]
    /\ UNCHANGED <<poolVars, queue, connVars, fault>>

\* ENFILE, ENOMEM and the like: LOG_SYSFATAL aborts.
AcceptFatal ==
    /\ AcceptStep
    /\ Acc!Pending
    /\ fault' = "abort"
    /\ UNCHANGED <<poolVars, accVars, phase, queue, connVars>>

Emfile ==
    /\ AcceptStep
    /\ Acc!Emfile(Free)
    /\ UNCHANGED <<poolVars, phase, queue, connVars, fault>>

Shed ==
    /\ AcceptStep
    /\ Acc!Shed(Free)
    /\ phase' = [phase EXCEPT ![0] = IF shed' = "no" THEN "handle" ELSE @]
    /\ UNCHANGED <<poolVars, queue, connVars, fault>>
-----------------------------------------------------------------------------
(* The connections, on their loops.                                        *)

\* What removeConnectionInLoop leaves in the connection's loop.
Farewell_none(q, c) == q
Farewell(q, c) == Pushed(q, home[c], Task("connectDestroyed", c))

\* handleClose: the peer has left.  removeConnection passes the connection on
\* to the base loop, where removeConnectionInLoop, if this is the base loop,
\* runs in place.
HandleClose(c) ==
    LET l == home[c] IN
    /\ Running /\ channel[c] = "reading" /\ phase[l] = "handle"
    /\ state' = [state EXCEPT ![c] = "KDisconnected"]
    /\ channel' = [channel EXCEPT ![c] = "off"]
    /\ IF l = 0
       THEN /\ fault' = IF c \in connections /\ ~Destroyed THEN "none" ELSE "removeConnectionInLoop"
            /\ connections' = connections \ {c}
            /\ queue' = Farewell(queue, c)
       ELSE /\ queue' = Pushed(queue, 0, Task("removeConnectionInLoop", c))
            /\ UNCHANGED <<connections, fault>>
    /\ UNCHANGED wakeup
    /\ UNCHANGED <<program, poolButWakeup, accVars, phase, batch, ran, home, nextConnId, envVars>>

\* The next functor of the batch is op, about c.  The last one ends the pass.
EndsBatch(l) == ran[l] + 1 = batch[l]
Run(l, op, c) ==
    /\ Running /\ phase[l] = "run"
    /\ queue[l][ran[l] + 1] = Task(op, c)
    /\ ran' = [ran EXCEPT ![l] = IF EndsBatch(l) THEN 0 ELSE @ + 1]
    /\ batch' = [batch EXCEPT ![l] = IF EndsBatch(l) THEN 0 ELSE @]
    /\ phase' = [phase EXCEPT ![l] = IF EndsBatch(l) THEN "poll" ELSE @]
    /\ UNCHANGED <<program, poolButWakeup, accVars, home, nextConnId, envVars>>

\* The queues after that: the vector is destroyed with its last functor.
Left(l) == [queue EXCEPT ![l] = IF EndsBatch(l) THEN SubSeq(@, batch[l] + 1, Len(@)) ELSE @]

ConnectEstablished(l, c) ==
    /\ Run(l, "connectEstablished", c)
    /\ fault' = IF state[c] = "KConnecting" THEN "none" ELSE "connectEstablished"
    /\ state' = [state EXCEPT ![c] = "KConnected"]
    /\ channel' = [channel EXCEPT ![c] = "reading"]
    /\ queue' = Left(l)
    /\ UNCHANGED <<wakeup, connections>>

\* Channel::remove() asserts that the poller knows the channel.
ConnectDestroyed(l, c) ==
    /\ Run(l, "connectDestroyed", c)
    /\ fault' = IF channel[c] = "off" \/ state[c] = "KConnected" THEN "none" ELSE "remove"
    /\ state' = [state EXCEPT ![c] = IF @ = "KConnected" THEN "KDisconnected" ELSE @]
    /\ channel' = [channel EXCEPT ![c] = "new"]
    /\ queue' = Left(l)
    /\ UNCHANGED <<wakeup, connections>>

\* Queued with the raw server by a connection of another loop.
RemoveConnectionInLoop(c) ==
    /\ Run(0, "removeConnectionInLoop", c)
    /\ fault' = IF c \in connections /\ ~Destroyed THEN "none" ELSE "removeConnectionInLoop"
    /\ connections' = connections \ {c}
    /\ queue' = Farewell(Left(0), c)
    /\ Wake(home[c])
    /\ UNCHANGED <<state, channel>>
-----------------------------------------------------------------------------
(* The surroundings.                                                       *)

Arrive ==
    /\ Running /\ arrived < program.arrivals
    /\ Acc!Arrive
    /\ arrived' = arrived + 1
    /\ UNCHANGED <<program, poolVars, loopVars, connVars, others, stolen, fault>>

OtherOpens ==
    /\ Running /\ others < program.others /\ Free > 0
    /\ others' = others + 1
    /\ stolen' = (stolen \/ shed # "no")
    /\ UNCHANGED <<program, poolVars, accVars, loopVars, connVars, arrived, fault>>

OtherCloses ==
    /\ Running /\ others > 0
    /\ others' = others - 1
    /\ UNCHANGED <<program, poolVars, accVars, loopVars, connVars, arrived, stolen, fault>>
-----------------------------------------------------------------------------
Functor(l) ==
    \E c \in Conn : \/ ConnectEstablished(l, c) \/ ConnectDestroyed(l, c)
                    \/ l = 0 /\ RemoveConnectionInLoop(c)

AcceptNext == (\E l \in Loop : NewConnection(l)) \/ Emfile

\* The accept that sheds takes a connection.
ShedTakes == Shed /\ shed = "accept" /\ idleFd'

BaseStep ==
    \/ SetThreadNum \/ Start \/ Listen \/ OwnerStep \/ DestroyAcceptor
    \/ PollBase \/ AcceptNext \/ AcceptFails \/ Shed \/ Swap(0) \/ Functor(0)

PoolStep(t) == ThreadStep(t) \/ Swap(t) \/ Functor(t)

Next ==
    \/ BaseStep \/ AcceptFatal \/ Destroy
    \/ \E t \in Pool!T : PoolStep(t) \/ PollThread(t)
    \/ \E c \in Conn : HandleClose(c)
    \/ Arrive \/ OtherOpens \/ OtherCloses

Spec == Init /\ [][Next]_vars

\* Threads run and poll returns when it is woken; no accept meets a passing error
\* every time.
Fairness ==
    /\ WF_vars(BaseStep) /\ SF_vars(AcceptNext) /\ SF_vars(ShedTakes)
    /\ \A t \in Pool!T : WF_vars(PoolStep(t)) /\ WF_vars(wakeup[t] /\ PollThread(t))

FairSpec == Spec /\ Fairness
-----------------------------------------------------------------------------
(* Properties.                                                             *)

\* Types of the variables.
TypeOK ==
    /\ program \in Programs /\ Pool!TypeOK /\ Acc!TypeOK
    /\ phase \in [Loop -> {"poll", "accept", "handle", "run"}]
    /\ queue \in [Loop -> Seq([op : {"connectEstablished", "connectDestroyed",
                                     "removeConnectionInLoop"}, conn : Conn])]
    /\ batch \in [Loop -> Nat] /\ \A l \in Loop : ran[l] \in 0..batch[l]
    /\ state \in [Conn -> {"KConnecting", "KConnected", "KDisconnected"}]
    /\ channel \in [Conn -> {"new", "reading", "off"}]
    /\ home \in [Conn -> Loop] /\ connections \subseteq Conn
    /\ nextConnId \in 1..(MaxConns + 1) /\ arrived \in 0..MaxConns
    /\ others \in Nat /\ stolen \in BOOLEAN

\* Whatever the order in which the loops take the hand-overs, no assertion of
\* the server or of a connection fails, the server's functors find it alive,
\* and the last pointer to a connection goes when it is KDisconnected and its
\* channel has left the poller (~TcpConnection, ~Channel).
NoAssertFails ==
    /\ fault \in {"none", "abort"}
    /\ \A c \in Conn : ~Alive(c) => state[c] = "KDisconnected" /\ channel[c] = "new"

\* The pool's loops exist while they can be dealt out or told to quit, and a
\* connection never outlives the EventLoop it was dealt to.
LoopsAlive ==
    /\ Pool!LoopsAlive
    /\ \A c \in Conn : Alive(c) /\ home[c] > 0 => alive[home[c]]

\* Between two calls of handleRead the reserve is there, however descriptors
\* ran out and other threads used theirs, unless one of them opened a
\* descriptor at the moment when the reserve was given up.
IdleKept ==
    listening /\ shed = "no" /\ program.idleOpens /\ ~stolen => idleFd

\* What connectionCallback_ has said of a connection: connectEstablished,
\* handleClose and connectDestroyed call it in the step that sets state_.
Said(c) ==
    IF nextConnId <= c THEN "nothing"
    ELSE CASE state[c] = "KConnecting" -> "nothing" [] state[c] = "KConnected" -> "up"
           [] state[c] = "KDisconnected" -> "down"

\* No user of this module sends.
Silent == [c \in Conn |-> <<>>]

CL == INSTANCE ConnectionLife
    WITH Conns <- Conn, exists <- [c \in Conn |-> Alive(c)], told <- [c \in Conn |-> Said(c)],
         accepted <- Silent, sent <- Silent

\* The connections of a server keep the promise of ConnectionLife: from
\* newConnection to the last connectDestroyed, over the loops that a connection
\* goes through, its user hears once of the start and after it once of the end,
\* somebody has a pointer to it all that time, and when the last pointer is gone
\* neither the map nor a functor gets hold of it again.
ImplementsLife == CL!Spec

\* Every connection that arrives is taken from the backlog, to be served or
\* shed, although no descriptor may ever be free again (the comment on
\* idleFd_: no endless reports of the same connection).
BacklogServed ==
    \A k \in Conn :
        arrived >= k ~> arrived - backlog >= k \/ stolen \/ Destroyed \/ ~Running

\* start() returns; the destructor of the pool returns if every thread had
\* come to its loop.
PoolReturns ==
    /\ <>(owner = "deal")
    /\ owner = "quit" /\ cur = 1 /\ (\A t \in 1..numThreads : thread[t] \in {"test", "poll"})
       ~> owner = "done" \/ ~Running
=============================================================================
