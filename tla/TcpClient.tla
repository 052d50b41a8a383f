------------------------------ MODULE TcpClient ------------------------------
(***************************************************************************)
(* net/Tcp/TcpClient: user threads dial the server with a blocking socket, *)
(* the loop retries after a refusal and makes the connection, and threads  *)
(* wait in connection() for it.  A connection is kept to its state_, its   *)
(* channel and who holds a pointer to it; module TcpConnection has the     *)
(* rest.                                                                   *)
(*                                                                         *)
(* The program calls connect() again only when it has been told that the   *)
(* last connection is down, by a thread or by the loop but not inside the  *)
(* callback that says so, and destroys the client on the loop's thread     *)
(* when no thread is in a call of it.                                      *)
(***************************************************************************)
EXTENDS Naturals, Sequences, FiniteSets

CONSTANTS
    Threads,      \* user threads other than the loop's
    MaxConnects,  \* bound on the calls of connect()
    Programs,     \* programs that use the client, as records of
                  \*   loopEnds: connections that the loop's thread may end, because
                  \*     the peer closes or a callback calls forceClose(),
                  \*   forces: how often threads call forceClose() on each one,
                  \*   leaves: is the client destroyed whatever is under way?
    None

Conn == 1..MaxConnects

ASSUME ClientAssumption ==
    /\ MaxConnects \in Nat \ {0} /\ None \notin 1..MaxConnects
    /\ Programs \subseteq [loopEnds : SUBSET Conn, forces : [Conn -> Nat], leaves : BOOLEAN]

VARIABLES
    program,     \* which of Programs runs; it never changes
    user,        \* each thread: "idle", "dialing", in connection(): "locking", "asleep",
                 \*   or in forceClose(), after its test: "store", "push"
    loop,        \* the loop: "idle", "dialing", or in newConnection: "establish"
    closing,     \* the connection whose handleClose is under way
    queue,       \* functors of the loop
    timers,      \* pending retry timers
    connects,    \* calls of connect()
    made,        \* connections made; the last one is this one
    connection,  \* connection_
    state,       \* state_ of each connection
    channel,     \* its channel: "new" to the poller, "reading", or "off"
    told,        \* what connectionCallback_ has said of it: "nothing", "up", "down",
                 \*   or "wrong" if it said one of them a second time
    held,        \* the pointer each thread got from connection()
    closes,      \* calls of forceClose() by threads that found it open
    client,      \* "alive" or "destroyed"
    fault        \* "none", the assertion that failed, "dangling" (a call of the
                 \*   destroyed client), or "abort" (LOG_FATAL)

connVars == <<made, connection, state, channel, told>>
holdVars == <<program, held, closes>>
vars == <<user, loop, closing, queue, timers, connects, connVars, holdVars, client, fault>>

Init ==
    /\ program \in Programs
    /\ user = [t \in Threads |-> "idle"] /\ loop = "idle" /\ closing = None
    /\ queue = <<>> /\ timers = 0 /\ connects = 0 /\ made = 0 /\ connection = None
    /\ state = [c \in Conn |-> "KDisconnected"] /\ channel = [c \in Conn |-> "new"]
    /\ told = [c \in Conn |-> "nothing"]
    /\ held = [t \in Threads |-> None] /\ closes = [c \in Conn |-> 0]
    /\ client = "alive" /\ fault = "none"
-----------------------------------------------------------------------------
\* A connection is destroyed with the last TcpConnectionPtr: of the client, of
\* a thread, of a functor, or of the function that works on it.
Alive(c) ==
    \/ connection = c \/ closing = c \/ (loop = "establish" /\ made = c)
    \/ \E t \in Threads : held[t] = c
    \/ \E i \in DOMAIN queue : queue[i] = [op |-> "forceClose", conn |-> c]

Open(c) == state[c] \in {"KConnected", "KDisconnecting"}

Running == fault = "none"
AtRest == Running /\ loop = "idle" /\ closing = None

\* newConnection, retryInLoop and removeConnection are bound to the raw this.
InClient == IF client = "alive" THEN "none" ELSE "dangling"

\* The program's discipline about connect().
MayConnect ==
    /\ client = "alive" /\ connects < MaxConnects /\ connects = made
    /\ \A c \in 1..made : state[c] = "KDisconnected"
-----------------------------------------------------------------------------
(* connect(), with retry().                                                *)

ThreadConnect(t) ==
    /\ Running /\ user[t] = "idle" /\ MayConnect
    /\ user' = [user EXCEPT ![t] = "dialing"]
    /\ connects' = connects + 1
    /\ UNCHANGED <<loop, closing, queue, timers, connVars, holdVars, client, fault>>

LoopConnect ==
    /\ AtRest /\ MayConnect
    /\ loop' = "dialing"
    /\ connects' = connects + 1
    /\ UNCHANGED <<user, closing, queue, timers, connVars, holdVars, client, fault>>

\* Success (or EISCONN, EINPROGRESS, EINTR) on a thread: runInLoop pushes.
ThreadDialed(t) ==
    /\ Running /\ user[t] = "dialing"
    /\ user' = [user EXCEPT ![t] = "idle"]
    /\ queue' = Append(queue, [op |-> "newConnection", conn |-> None])
    /\ UNCHANGED <<loop, closing, timers, connects, connVars, holdVars, client, fault>>

\* Refused, unreachable, timed out, ...: retry in three seconds.
ThreadRefused(t) ==
    /\ Running /\ user[t] = "dialing"
    /\ user' = [user EXCEPT ![t] = "idle"]
    /\ timers' = timers + 1
    /\ UNCHANGED <<loop, closing, queue, connects, connVars, holdVars, client, fault>>

LoopRefused ==
    /\ Running /\ loop = "dialing"
    /\ loop' = "idle"
    /\ timers' = timers + 1
    /\ UNCHANGED <<user, closing, queue, connects, connVars, holdVars, client, fault>>

\* Any other errno: LOG_FATAL.
DialFatal ==
    /\ Running
    /\ loop = "dialing" \/ \E t \in Threads : user[t] = "dialing"
    /\ fault' = "abort"
    /\ UNCHANGED <<user, loop, closing, queue, timers, connects, connVars, holdVars, client>>

Fired == timers - 1

RetryInLoop ==
    /\ AtRest /\ timers > 0
    /\ timers' = Fired
    /\ loop' = "dialing"
    /\ fault' = InClient
    /\ UNCHANGED <<user, closing, queue, connects, connVars, holdVars, client>>
-----------------------------------------------------------------------------
(* newConnection and connection().                                         *)

\* cond_.notify_all(): those asleep take the mutex again.
Notified_none == user
Notified == [t \in Threads |-> IF user[t] = "asleep" THEN "locking" ELSE user[t]]

\* newConnection up to the end of its critical section ...
Publish ==
    /\ made' = made + 1
    /\ state' = [state EXCEPT ![made + 1] = "KConnecting"]
    /\ connection' = made + 1
    /\ user' = Notified
    /\ loop' = "establish"
    /\ fault' = InClient
    /\ UNCHANGED <<closing, timers, connects, channel, told, holdVars, client>>

\* ... as a functor, or in place after a retry.
RunNewConnection ==
    /\ AtRest /\ queue # <<>> /\ Head(queue).op = "newConnection"
    /\ queue' = Tail(queue)
    /\ Publish

LoopDialed ==
    /\ Running /\ loop = "dialing"
    /\ Publish
    /\ UNCHANGED queue

\* ... and then conn->connectEstablished().
ConnectEstablished ==
    /\ Running /\ loop = "establish"
    /\ fault' = IF state[made] = "KConnecting" THEN "none" ELSE "connectEstablished"
    /\ state' = [state EXCEPT ![made] = "KConnected"]
    /\ channel' = [channel EXCEPT ![made] = "reading"]
    /\ told' = [told EXCEPT ![made] = IF @ = "nothing" THEN "up" ELSE "wrong"]
    /\ loop' = "idle"
    /\ UNCHANGED <<user, closing, queue, timers, connects, made, connection, holdVars, client>>

CallConnection(t) ==
    /\ Running /\ user[t] = "idle" /\ held[t] = None
    /\ client = "alive" /\ connects > 0
    /\ user' = [user EXCEPT ![t] = "locking"]
    /\ UNCHANGED <<loop, closing, queue, timers, connects, connVars, holdVars, client, fault>>

\* cond_.wait with its predicate, under the mutex.
Wait(t) ==
    /\ Running /\ user[t] = "locking"
    /\ user' = [user EXCEPT ![t] = IF connection = None THEN "asleep" ELSE "idle"]
    /\ held' = [held EXCEPT ![t] = connection]
    /\ UNCHANGED <<loop, closing, queue, timers, connects, connVars, program, closes, client, fault>>
-----------------------------------------------------------------------------
(* The end of a connection.                                                *)

\* handleClose: no longer connected, and the user is told.
HandleClose(c) ==
    /\ closing' = c
    /\ state' = [state EXCEPT ![c] = "KDisconnected"]
    /\ channel' = [channel EXCEPT ![c] = "off"]
    /\ told' = [told EXCEPT ![c] = IF @ = "up" THEN "down" ELSE "wrong"]

\* The channel reports that the peer has left.
PeerCloses(c) ==
    /\ AtRest /\ c \in program.loopEnds /\ channel[c] = "reading"
    /\ HandleClose(c)
    /\ fault' = IF Open(c) THEN "none" ELSE "handleClose"
    /\ UNCHANGED <<user, loop, queue, timers, connects, made, connection, holdVars, client>>

\* forceClose() has an effect only if the connection is up.
Forces(c) == Open(c)
ForceCloseTask(c) == [op |-> "forceClose", conn |-> c]

\* In a callback, on the loop's thread.  One such request is in the queue at a
\* time: a bound.
LoopForceClose(c) ==
    /\ AtRest /\ c \in program.loopEnds
    /\ Forces(c) /\ \A i \in DOMAIN queue : queue[i].conn # c
    /\ state' = [state EXCEPT ![c] = "KDisconnecting"]
    /\ queue' = Append(queue, ForceCloseTask(c))
    /\ UNCHANGED <<user, loop, closing, timers, connects, made, connection, channel, told,
                   holdVars, client, fault>>

\* On a thread that has the pointer: the test of state_ ...
ForceCloseTest(t) ==
    LET c == held[t] IN
    /\ Running /\ user[t] = "idle" /\ c # None
    /\ Forces(c) /\ closes[c] < program.forces[c]
    /\ user' = [user EXCEPT ![t] = "store"]
    /\ closes' = [closes EXCEPT ![c] = @ + 1]
    /\ UNCHANGED <<loop, closing, queue, timers, connects, connVars, program, held, client, fault>>

\* ... setState(KDisconnecting), whatever has happened since ...
ForceCloseStore(t) ==
    /\ Running /\ user[t] = "store"
    /\ user' = [user EXCEPT ![t] = "push"]
    /\ state' = [state EXCEPT ![held[t]] = "KDisconnecting"]
    /\ UNCHANGED <<loop, closing, queue, timers, connects, made, connection, channel, told,
                   holdVars, client, fault>>

\* ... and queueInLoop.
ForceClosePush(t) ==
    /\ Running /\ user[t] = "push"
    /\ user' = [user EXCEPT ![t] = "idle"]
    /\ queue' = Append(queue, ForceCloseTask(held[t]))
    /\ UNCHANGED <<loop, closing, timers, connects, connVars, holdVars, client, fault>>

\* forceCloseInLoop tests state_ again.
StillOpen_any(c) == TRUE
StillOpen(c) == Open(c)

RunForceClose ==
    LET c == Head(queue).conn IN
    /\ AtRest /\ queue # <<>> /\ Head(queue).op = "forceClose"
    /\ queue' = Tail(queue)
    /\ IF StillOpen(c) THEN HandleClose(c) ELSE UNCHANGED <<closing, state, channel, told>>
    /\ UNCHANGED <<user, loop, timers, connects, made, connection, holdVars, client, fault>>

\* removeConnection, the close callback: connection_.reset(), then
\* connectDestroyed() in place.
Reset_kept == connection
Reset == None

Destroyed_not == channel
Destroyed == [channel EXCEPT ![closing] = "new"]

RemoveConnection ==
    /\ Running /\ closing # None
    /\ connection' = Reset
    /\ channel' = Destroyed
    /\ closing' = None
    /\ fault' = InClient
    /\ UNCHANGED <<user, loop, queue, timers, connects, made, state, told, holdVars, client>>

Release(t) ==
    /\ Running /\ user[t] = "idle" /\ held[t] # None
    /\ held' = [held EXCEPT ![t] = None]
    /\ UNCHANGED <<user, loop, closing, queue, timers, connects, connVars, program, closes, client,
                   fault>>

\* ~TcpClient: forceClose() of the connection, if there is one, and connection_
\* goes.  A program that does not leave destroys it when nothing is under way.
Destroy ==
    /\ AtRest /\ client = "alive" /\ connects > 0
    /\ \A t \in Threads : user[t] \in {"idle", "store", "push"}
    /\ ~program.leaves => connection = None /\ queue = <<>> /\ timers = 0
    /\ client' = "destroyed" /\ connection' = None
    /\ IF connection # None /\ Forces(connection)
       THEN /\ state' = [state EXCEPT ![connection] = "KDisconnecting"]
            /\ queue' = Append(queue, ForceCloseTask(connection))
       ELSE UNCHANGED <<state, queue>>
    /\ UNCHANGED <<user, loop, closing, timers, connects, made, channel, told, holdVars, fault>>
-----------------------------------------------------------------------------
LoopStep ==
    \/ RetryInLoop \/ LoopDialed \/ LoopRefused \/ RunNewConnection
    \/ ConnectEstablished \/ RunForceClose \/ RemoveConnection

Next ==
    \/ LoopStep \/ LoopConnect \/ DialFatal \/ Destroy
    \/ \E t \in Threads :
         \/ ThreadConnect(t) \/ ThreadDialed(t) \/ ThreadRefused(t)
         \/ CallConnection(t) \/ Wait(t) \/ Release(t)
         \/ ForceCloseTest(t) \/ ForceCloseStore(t) \/ ForceClosePush(t)
    \/ \E c \in Conn : PeerCloses(c) \/ LoopForceClose(c)

Spec == Init /\ [][Next]_vars

\* Threads run, and a server that is dialled again and again answers in the end.
Fairness ==
    /\ WF_vars(LoopStep) /\ SF_vars(LoopDialed)
    /\ \A t \in Threads : WF_vars(ThreadDialed(t) \/ ThreadRefused(t)) /\ WF_vars(Wait(t))

FairSpec == Spec /\ Fairness
-----------------------------------------------------------------------------
(* Properties.                                                             *)

\* Types of the variables.
TypeOK ==
    /\ program \in Programs
    /\ user \in [Threads -> {"idle", "dialing", "locking", "asleep", "store", "push"}]
    /\ loop \in {"idle", "dialing", "establish"} /\ closing \in Conn \cup {None}
    /\ queue \in Seq([op : {"newConnection", "forceClose"}, conn : Conn \cup {None}])
    /\ timers \in 0..MaxConnects /\ connects \in 0..MaxConnects /\ made \in 0..connects
    /\ connection \in Conn \cup {None} /\ held \in [Threads -> Conn \cup {None}]
    /\ state \in [Conn -> {"KConnecting", "KConnected", "KDisconnecting", "KDisconnected"}]
    /\ channel \in [Conn -> {"new", "reading", "off"}]
    /\ told \in [Conn -> {"nothing", "up", "down", "wrong"}] /\ closes \in [Conn -> Nat]
    /\ client \in {"alive", "destroyed"}

\* What a program must respect for the properties below.  A thread that calls
\* forceClose() is the only one to end its connection, and calls it once: its
\* late store would bring back a connection that is down, and the second
\* removeConnection would drop the next one.  The client is destroyed when
\* nothing that is bound to it is pending.
Disciplined(p) ==
    /\ \A c \in Conn : p.forces[c] <= 1 /\ (c \in p.loopEnds => p.forces[c] = 0)
    /\ ~p.leaves

\* No assertion of a connection fails, no functor, timer or close callback finds
\* the client destroyed, and whoever drops the last pointer to it
\* does so when it is KDisconnected and its channel has left the poller: no
\* reconnection drops a connection that is still in use.  For programs that are
\* Disciplined, as the two properties after it.
NoAssertFails ==
    /\ fault \in {"none", "abort"}
    /\ \A c \in Conn : ~Alive(c) => state[c] = "KDisconnected" /\ channel[c] = "new"

\* connection() gives out the one connection that is not down; it can give one
\* that is down only while the loop is between handleClose and
\* removeConnection, also when a thread reconnects meanwhile.
ConnectionCurrent ==
    \A c \in Conn :
        /\ state[c] # "KDisconnected" => connection = c
        /\ connection = c /\ state[c] = "KDisconnected" => closing = c

\* No user of this module sends.
Silent == [c \in Conn |-> <<>>]

CL == INSTANCE ConnectionLife
    WITH Conns <- Conn, exists <- [c \in Conn |-> Alive(c)], told <- told,
         accepted <- Silent, sent <- Silent

\* The connections of a client, one after the other, keep the promise of
\* ConnectionLife: connectionCallback_ says of each once that it is up and after
\* it once that it is down, although the peer may close while a callback's
\* forceClose() is queued, threads hold what connection() gave them, and the
\* client reconnects; and a connection that was dropped does not come back.
ImplementsLife == CL!Spec

\* connect() leads to a connection through any number of retries, and
\* no thread stays in connection() while there is one: the notification is not
\* lost between its test and its sleep.
WaiterReturns ==
    /\ connects > made ~> connects = made \/ ~Running
    /\ <>[](connection # None /\ Running) => \A t \in Threads : []<>(user[t] # "asleep")
=============================================================================
