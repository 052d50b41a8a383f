--------------------------- MODULE TcpClientProofs ---------------------------
(***************************************************************************)
(* Theorems about TcpClient, for any number of user threads and of calls   *)
(* of connect(), and for all programs that are Disciplined: connection_ is *)
(* always the connection in use, no connection is dropped while it is in   *)
(* use, and its user is told once that it is up and once that it is down.  *)
(***************************************************************************)
EXTENDS TcpClient, SequenceTheorems, TLAPS

\* The programs keep to the rules of TcpClient.
AllDisciplined == \A p \in Programs : Disciplined(p)

\* The functors that make a connection.
NewConnections == {i \in DOMAIN queue : queue[i].op = "newConnection"}

\* At most one attempt to connect is under way, and it is in one place: with a
\* thread, with the loop, in a retry timer or in a functor.
OneAttempt ==
    /\ connects = made \/ connects = made + 1
    /\ timers = 0 \/ timers = 1
    /\ \A t, u \in Threads : user[t] = "dialing" /\ user[u] = "dialing" => t = u
    /\ \A i, j \in NewConnections : i = j
    /\ (\E t \in Threads : user[t] = "dialing") =>
           loop # "dialing" /\ timers = 0 /\ NewConnections = {} /\ connects = made + 1
    /\ loop = "dialing" => timers = 0 /\ NewConnections = {} /\ connects = made + 1
    /\ timers = 1 => NewConnections = {} /\ connects = made + 1
    /\ NewConnections # {} => connects = made + 1

\* A functor forceCloseInLoop names a connection, newConnection none.
QueueOK ==
    \A i \in DOMAIN queue : /\ queue[i].op = "forceClose" => queue[i].conn \in Conn
                            /\ queue[i].op = "newConnection" => queue[i].conn = None

\* Only the last connection made can be in use, and none is during an attempt;
\* what newConnection and handleClose have done so far.
LastOnly ==
    /\ connection # None => connection = made
    /\ connects = made + 1 => \A c \in Conn : state[c] = "KDisconnected"
    /\ \A c \in Conn : /\ channel[c] # "new" => connection = c
                       /\ channel[c] = "reading" => Open(c)
    /\ loop = "establish" =>
           made \in Conn /\ state[made] = "KConnecting" /\ channel[made] = "new"
    /\ closing # None => loop = "idle" /\ connection = closing /\ state[closing] = "KDisconnected"

NoFault == fault \in {"none", "abort"}

Core == TypeOK /\ OneAttempt /\ QueueOK /\ LastOnly /\ ConnectionCurrent /\ NoFault

\* The thread between the test and the push of forceClose() is the only one
\* there for its connection, which stays open: nothing else is about to close it.
Forcing(t) == user[t] \in {"store", "push"}
Closers ==
    /\ \A c \in Conn : closes[c] <= 1 /\ (c \in program.loopEnds => closes[c] = 0)
    /\ \A t \in Threads : Forcing(t) =>
           /\ held[t] \in Conn /\ Open(held[t]) /\ closes[held[t]] = 1
           /\ \A i \in DOMAIN queue : queue[i].conn # held[t]
    /\ \A t, u \in Threads : Forcing(t) /\ Forcing(u) /\ held[t] = held[u] => t = u
    /\ \A i \in DOMAIN queue : queue[i].op = "forceClose" =>
           queue[i].conn \in program.loopEnds \/ closes[queue[i].conn] = 1

\* Nothing is left to do for a client that was destroyed.
Gone ==
    client = "destroyed" =>
        /\ connection = None /\ queue = <<>> /\ timers = 0 /\ closing = None /\ loop = "idle"
        /\ \A t \in Threads : user[t] = "idle"

\* The callbacks so far agree with state_.
Saying(s) == IF s = "KConnecting" THEN "nothing" ELSE IF s = "KDisconnected" THEN "down" ELSE "up"
Telling == \A c \in Conn : told[c] = IF c <= made THEN Saying(state[c]) ELSE "nothing"

\* The inductive invariant.
Inv == Core /\ Closers /\ Gone /\ Telling /\ Disciplined(program)
-----------------------------------------------------------------------------
(* Facts about the queue of functors.                                      *)

Functor == [op : {"newConnection", "forceClose"}, conn : Conn \cup {None}]

\* The positions of the queue after a push.
LEMMA AppendFacts ==
    ASSUME NEW q \in Seq(Functor), NEW f \in Functor
    PROVE  /\ Append(q, f) \in Seq(Functor)
           /\ DOMAIN q = 1..Len(q) /\ Len(q) \in Nat
           /\ DOMAIN Append(q, f) = 1..(Len(q) + 1)
           /\ \A i \in 1..Len(q) : Append(q, f)[i] = q[i]
           /\ Append(q, f)[Len(q) + 1] = f
OBVIOUS

\* The positions of the queue after its first functor was taken.
LEMMA TailFacts ==
    ASSUME NEW q \in Seq(Functor), q # <<>>
    PROVE  /\ Tail(q) \in Seq(Functor)
           /\ Head(q) = q[1] /\ q[1] \in Functor /\ 1 \in DOMAIN q
           /\ \A i \in DOMAIN Tail(q) :
                  i \in Nat \ {0} /\ i + 1 \in DOMAIN q /\ Tail(q)[i] = q[i + 1]
<1>1. Len(q) \in Nat /\ Len(q) > 0 /\ DOMAIN q = 1..Len(q)
  BY EmptySeq
<1>2. Tail(q) \in Seq(Functor) /\ DOMAIN Tail(q) = 1..(Len(q) - 1)
  BY <1>1
<1>3. \A i \in 1..(Len(q) - 1) : Tail(q)[i] = q[i + 1]
  BY <1>1
<1> QED BY <1>1, <1>2, <1>3
-----------------------------------------------------------------------------
(* The core of the invariant is inductive.                                 *)

\* A client that was just constructed satisfies the invariant.
LEMMA InitInv == AllDisciplined /\ Init => Inv
<1> SUFFICES ASSUME AllDisciplined, Init PROVE Inv
  OBVIOUS
<1> USE ClientAssumption DEF Init
<1>1. TypeOK
  <2>1. queue \in Seq(Functor)
    OBVIOUS
  <2> QED BY <2>1 DEF TypeOK, Functor, Conn
<1>2. NewConnections = {}
  BY DEF NewConnections
<1>3. OneAttempt
  BY <1>2 DEF OneAttempt
<1>4. QueueOK /\ LastOnly /\ ConnectionCurrent /\ NoFault
  BY DEF QueueOK, LastOnly, ConnectionCurrent, NoFault, Conn
<1>5. Closers
  BY DEF Closers, Forcing
<1>6. Telling
  BY DEF Telling, Conn
<1>7. Gone /\ Disciplined(program)
  BY DEF Gone, AllDisciplined
<1> QED BY <1>1, <1>3, <1>4, <1>5, <1>6, <1>7 DEF Inv, Core

\* The client of a disciplined program goes when no connection is left.
LEMMA DestroyAtRest ==
    ASSUME Inv, Destroy
    PROVE  /\ connection = None /\ timers = 0 /\ \A t \in Threads : user[t] = "idle"
           /\ queue = <<>> /\ queue' = queue /\ state' = state /\ connection' = connection
<1>1. connection = None /\ timers = 0 /\ queue = <<>>
  BY DEF Inv, Disciplined, Destroy
<1>2. ASSUME NEW t \in Threads PROVE ~Forcing(t)
  <2>1. Forcing(t) => held[t] \in Conn /\ Open(held[t])
    BY DEF Inv, Closers
  <2>2. held[t] \in Conn /\ Open(held[t]) => connection \in Conn
    BY DEF Inv, Core, ConnectionCurrent, Open
  <2> QED BY <1>1, <2>1, <2>2, ClientAssumption DEF Conn
<1>3. \A t \in Threads : user[t] = "idle"
  BY <1>2 DEF Destroy, Forcing
<1>4. queue' = queue /\ state' = state /\ connection' = connection
  BY <1>1 DEF Destroy
<1> QED BY <1>1, <1>3, <1>4

\* What still calls the client finds it alive.
LEMMA ClientThere ==
    ASSUME Inv, queue # <<>> \/ timers > 0 \/ closing # None \/ loop # "idle"
    PROVE  client = "alive" /\ InClient = "none"
<1>1. client \in {"alive", "destroyed"} /\ timers \in Nat
  BY ClientAssumption DEF Inv, Core, TypeOK
<1>2. client = "alive"
  BY <1>1 DEF Inv, Gone
<1> QED BY <1>2 DEF InClient

\* connect() up to its answer, on a thread and on the loop, and what leaves
\* the queue alone.
LEMMA DialInv ==
    ASSUME Inv,
           \/ LoopConnect \/ LoopRefused \/ DialFatal \/ RetryInLoop \/ Destroy
           \/ \E t \in Threads : ThreadConnect(t) \/ ThreadRefused(t)
    PROVE  Core'
<1> USE ClientAssumption
<1>0. queue' = queue /\ made' = made /\ connection' = connection /\ state' = state
      /\ channel' = channel /\ closing' = closing /\ held' = held /\ told' = told
      /\ program' = program /\ closes' = closes
  BY DestroyAtRest DEF LoopConnect, LoopRefused, DialFatal, RetryInLoop, Destroy, ThreadConnect,
         ThreadRefused, connVars, holdVars
<1>1. NewConnections' = NewConnections /\ QueueOK' /\ ConnectionCurrent'
  BY <1>0 DEF Inv, Core, NewConnections, QueueOK, ConnectionCurrent
<1>2. MayConnect => NewConnections = {} /\ timers = 0 /\ loop # "dialing"
                    /\ \A t \in Threads : user[t] # "dialing"
  BY DEF MayConnect, Inv, Core, OneAttempt, TypeOK
<1>3. MayConnect => \A c \in Conn : state[c] = "KDisconnected"
  BY DEF MayConnect, Inv, Core, LastOnly, ConnectionCurrent, TypeOK, Conn
<1>4. CASE LoopConnect
  BY <1>0, <1>1, <1>2, <1>3, <1>4
     DEF LoopConnect, AtRest, Running, MayConnect, Inv, Core, TypeOK, OneAttempt, LastOnly, NoFault,
         Conn, Open
<1>5. CASE LoopRefused
  BY <1>0, <1>1, <1>5
     DEF LoopRefused, Running, Inv, Core, TypeOK, OneAttempt, LastOnly, NoFault, Conn, Open
<1>6. CASE DialFatal
  BY <1>0, <1>1, <1>6
     DEF DialFatal, Running, Inv, Core, TypeOK, OneAttempt, LastOnly, NoFault, Conn, Open
<1>7. CASE RetryInLoop
  <2>1. fault' = "none"
    BY <1>7, ClientThere DEF RetryInLoop
  <2> QED BY <1>0, <1>1, <1>7, <2>1
       DEF RetryInLoop, Fired, AtRest, Running, Inv, Core, TypeOK, OneAttempt, LastOnly, NoFault,
           Conn, Open
<1>8. CASE Destroy
  BY <1>0, <1>1, <1>8
     DEF Destroy, AtRest, Running, Inv, Core, TypeOK, OneAttempt, LastOnly, NoFault, Conn, Open
<1>9. ASSUME NEW t \in Threads, ThreadConnect(t) PROVE Core'
  BY <1>0, <1>1, <1>2, <1>3, <1>9
     DEF ThreadConnect, Running, MayConnect, Inv, Core, TypeOK, OneAttempt, LastOnly, NoFault, Conn,
         Open
<1>10. ASSUME NEW t \in Threads, ThreadRefused(t) PROVE Core'
  BY <1>0, <1>1, <1>10
     DEF ThreadRefused, Running, Inv, Core, TypeOK, OneAttempt, LastOnly, NoFault, Conn, Open
<1> QED BY <1>4, <1>5, <1>6, <1>7, <1>8, <1>9, <1>10

\* A thread's dial succeeds: the attempt moves to a functor.
LEMMA ThreadDialedInv ==
    ASSUME Inv, NEW t \in Threads, ThreadDialed(t)
    PROVE  Core'
<1> DEFINE f == [op |-> "newConnection", conn |-> None]
<1> USE ClientAssumption DEF ThreadDialed, connVars, holdVars
<1>1. queue \in Seq(Functor) /\ f \in Functor /\ queue' = Append(queue, f)
  BY DEF Inv, Core, TypeOK, Functor
<1>2. /\ queue' \in Seq(Functor) /\ Len(queue) \in Nat
      /\ DOMAIN queue = 1..Len(queue) /\ DOMAIN queue' = 1..(Len(queue) + 1)
      /\ \A i \in 1..Len(queue) : queue'[i] = queue[i]
      /\ queue'[Len(queue) + 1] = f
  BY <1>1, AppendFacts
<1> HIDE DEF f
<1>3. f.op = "newConnection" /\ f.conn = None
  BY DEF f
<1>4. NewConnections = {} /\ timers = 0 /\ loop # "dialing" /\ connects = made + 1
  BY DEF Inv, Core, OneAttempt
<1>5. \A i \in NewConnections' : i = Len(queue) + 1
  BY <1>2, <1>4 DEF NewConnections
<1>6. \A u \in Threads : user'[u] # "dialing"
  BY DEF Inv, Core, OneAttempt, TypeOK
<1>7. OneAttempt'
  BY <1>4, <1>5, <1>6 DEF OneAttempt
<1>8. QueueOK'
  BY <1>2, <1>3 DEF QueueOK, Inv, Core
<1>9. TypeOK'
  BY <1>2 DEF TypeOK, Inv, Core, Functor
<1>10. LastOnly' /\ ConnectionCurrent' /\ NoFault'
  BY DEF LastOnly, ConnectionCurrent, NoFault, Inv, Core, Open
<1> QED BY <1>7, <1>8, <1>9, <1>10 DEF Inv, Core

\* newConnection publishes the connection, as a functor or in place: the
\* attempt ends, and the one before it has been removed.
LEMMA PublishInv ==
    ASSUME Inv, RunNewConnection \/ LoopDialed
    PROVE  Core'
<1> USE ClientAssumption
<1>1. Publish /\ fault = "none" /\ closing = None
  BY DEF RunNewConnection, LoopDialed, AtRest, Running, Inv, Core, LastOnly, TypeOK
<1>0. InClient = "none"
  BY ClientThere DEF RunNewConnection, LoopDialed
<1>2. /\ connects = made + 1 /\ timers = 0 /\ queue' \in Seq(Functor) /\ NewConnections' = {}
      /\ QueueOK' /\ \A t \in Threads : user[t] # "dialing"
  <2>1. CASE RunNewConnection
    <3>1. queue \in Seq(Functor) /\ queue # <<>> /\ queue' = Tail(queue)
          /\ Head(queue).op = "newConnection"
      BY <2>1 DEF RunNewConnection, Inv, Core, TypeOK, Functor
    <3>2. /\ queue' \in Seq(Functor) /\ 1 \in NewConnections
          /\ \A i \in DOMAIN queue' :
                 i \in Nat \ {0} /\ i + 1 \in DOMAIN queue /\ queue'[i] = queue[i + 1]
      BY <3>1, TailFacts DEF NewConnections
    <3>3. \A i \in NewConnections' : i + 1 \in NewConnections
      BY <3>2 DEF NewConnections
    <3>4. \A i \in NewConnections' : i \in Nat \ {0}
      BY <3>2 DEF NewConnections
    <3>5. NewConnections' = {}
      BY <3>2, <3>3, <3>4 DEF Inv, Core, OneAttempt
    <3> QED BY <3>2, <3>5 DEF Inv, Core, OneAttempt, QueueOK
  <2>2. CASE LoopDialed
    BY <2>2 DEF LoopDialed, Inv, Core, OneAttempt, TypeOK, Functor, QueueOK, NewConnections
  <2> QED BY <2>1, <2>2
<1>3. \A c \in Conn : state[c] = "KDisconnected" /\ channel[c] = "new"
  BY <1>1, <1>2 DEF Inv, Core, LastOnly, ConnectionCurrent, TypeOK, Conn
<1>4. connection = None /\ made + 1 \in Conn
  <2>1. connection \notin Conn
    BY <1>1, <1>3 DEF Inv, Core, ConnectionCurrent, Conn
  <2>2. connection = None
    BY <2>1 DEF Inv, Core, TypeOK
  <2>3. made + 1 \in Conn
    BY <1>2 DEF Inv, Core, TypeOK, Conn
  <2> QED BY <2>2, <2>3
<1>5. /\ user' \in [Threads -> {"idle", "dialing", "locking", "asleep", "store", "push"}]
      /\ \A t \in Threads : user'[t] # "dialing"
  BY <1>1, <1>2 DEF Publish, Notified, Inv, Core, TypeOK
<1>6. state' = [state EXCEPT ![made + 1] = "KConnecting"] /\ made' = made + 1
      /\ connection' = made + 1 /\ loop' = "establish" /\ closing' = None
      /\ UNCHANGED <<timers, connects, channel, told, program, held, closes, client, fault>>
  BY <1>0, <1>1 DEF Publish, holdVars
<1>7. TypeOK'
  BY <1>2, <1>4, <1>5, <1>6 DEF TypeOK, Inv, Core, Functor, Conn
<1>8. OneAttempt'
  BY <1>2, <1>5, <1>6 DEF OneAttempt, Inv, Core, TypeOK
<1>9. LastOnly' /\ ConnectionCurrent' /\ NoFault'
  BY <1>1, <1>2, <1>3, <1>4, <1>6 DEF LastOnly, ConnectionCurrent, NoFault, Inv, Core, TypeOK, Open
<1> QED BY <1>2, <1>7, <1>8, <1>9 DEF Inv, Core

\* connectEstablished finds the connection KConnecting.
LEMMA EstablishInv == ASSUME Inv, ConnectEstablished PROVE Core'
<1> USE ClientAssumption DEF ConnectEstablished, holdVars
<1>1. made \in Conn /\ state[made] = "KConnecting" /\ connection = made /\ closing = None
  BY DEF Inv, Core, LastOnly, ConnectionCurrent, TypeOK
<1>2. connects = made
  BY <1>1 DEF Inv, Core, OneAttempt, LastOnly
<1>3. TypeOK'
  BY <1>1 DEF Inv, Core, TypeOK
<1>4. OneAttempt' /\ QueueOK'
  BY <1>2 DEF Inv, Core, OneAttempt, QueueOK, NewConnections, TypeOK
<1>5. LastOnly' /\ ConnectionCurrent'
  BY <1>1, <1>2 DEF Inv, Core, LastOnly, ConnectionCurrent, TypeOK, Open
<1>6. NoFault'
  BY <1>1 DEF NoFault
<1> QED BY <1>3, <1>4, <1>5, <1>6 DEF Inv, Core

\* connection() and the pointers it gives out.
LEMMA HoldInv ==
    ASSUME Inv, NEW t \in Threads, CallConnection(t) \/ Wait(t) \/ Release(t)
    PROVE  Core'
<1>1. TypeOK'
  BY DEF Inv, Core, TypeOK, CallConnection, Wait, Release, connVars, holdVars
<1>2. \A u \in Threads : user'[u] = "dialing" => user[u] = "dialing"
  BY DEF Inv, Core, TypeOK, CallConnection, Wait, Release, connVars, holdVars
<1>3. UNCHANGED <<loop, closing, queue, timers, connects, connVars, client, fault>>
  BY DEF CallConnection, Wait, Release, connVars, holdVars
<1>4. OneAttempt' /\ QueueOK'
  BY <1>2, <1>3 DEF Inv, Core, OneAttempt, QueueOK, NewConnections, connVars
<1>5. LastOnly' /\ ConnectionCurrent' /\ NoFault'
  BY <1>3 DEF Inv, Core, LastOnly, ConnectionCurrent, NoFault, connVars, Open
<1> QED BY <1>1, <1>4, <1>5 DEF Inv, Core

\* handleClose of a connection in use, whatever it does to the queue.
LEMMA HandleCloseInv ==
    ASSUME Inv, AtRest, NEW c \in Conn, Open(c), HandleClose(c),
           UNCHANGED <<user, loop, timers, connects, made, connection, holdVars, client>>,
           fault' = "none",
           queue' \in Seq(Functor), NewConnections' = {}, QueueOK'
    PROVE  Core'
<1> USE ClientAssumption DEF HandleClose, holdVars
<1>1. connection = c /\ made = c /\ connects = made
  BY DEF Inv, Core, Open, ConnectionCurrent, LastOnly, OneAttempt, Conn
<1>2. TypeOK'
  BY DEF Inv, Core, TypeOK, Functor
<1>3. OneAttempt'
  BY <1>1 DEF Inv, Core, OneAttempt
<1>4. LastOnly' /\ ConnectionCurrent' /\ NoFault'
  BY <1>1 DEF Inv, Core, LastOnly, ConnectionCurrent, NoFault, TypeOK, AtRest, Conn, Open
<1> QED BY <1>2, <1>3, <1>4 DEF Inv, Core

\* While a connection is in use nothing is under way to make another.
LEMMA OpenNoAttempt ==
    ASSUME Inv, NEW c \in Conn, Open(c)
    PROVE  NewConnections = {} /\ connects = made /\ connection = c
BY DEF Inv, Core, Open, OneAttempt, LastOnly, ConnectionCurrent

\* The peer closes.
LEMMA PeerClosesInv == ASSUME Inv, NEW c \in Conn, PeerCloses(c) PROVE Core'
<1>0. Open(c) /\ fault' = "none"
  BY DEF PeerCloses, Inv, Core, LastOnly
<1>1. queue' = queue /\ NewConnections' = {} /\ QueueOK'
  BY <1>0, OpenNoAttempt DEF PeerCloses, Inv, Core, NewConnections, QueueOK
<1>2. queue' \in Seq(Functor)
  BY <1>1 DEF Inv, Core, TypeOK, Functor
<1> QED BY <1>0, <1>1, <1>2, HandleCloseInv DEF PeerCloses

\* forceClose() on the loop's thread.
LEMMA LoopForceCloseInv == ASSUME Inv, NEW c \in Conn, LoopForceClose(c) PROVE Core'
<1> DEFINE f == ForceCloseTask(c)
<1> USE ClientAssumption DEF LoopForceClose, Forces, holdVars
<1>1. f \in Functor /\ f.conn = c /\ queue \in Seq(Functor) /\ queue' = Append(queue, f)
      /\ f.op = "forceClose"
  BY DEF Inv, Core, TypeOK, Functor, ForceCloseTask
<1>2. NewConnections = {} /\ connects = made /\ connection = c
  BY OpenNoAttempt
<1> HIDE DEF f
<1>3. /\ queue' \in Seq(Functor) /\ Len(queue) \in Nat
      /\ DOMAIN queue = 1..Len(queue) /\ DOMAIN queue' = 1..(Len(queue) + 1)
      /\ \A i \in 1..Len(queue) : queue'[i] = queue[i]
      /\ queue'[Len(queue) + 1] = f
  BY <1>1, AppendFacts
<1>4. NewConnections' = {}
  BY <1>1, <1>2, <1>3 DEF NewConnections
<1>5. QueueOK'
  BY <1>1, <1>3 DEF QueueOK, Inv, Core
<1>6. TypeOK'
  BY <1>1, <1>3 DEF Inv, Core, TypeOK, Functor
<1>7. OneAttempt'
  BY <1>2, <1>4 DEF Inv, Core, OneAttempt
<1>8. LastOnly' /\ ConnectionCurrent' /\ NoFault'
  BY <1>1, <1>2 DEF Inv, Core, LastOnly, ConnectionCurrent, NoFault, TypeOK, Open
<1> QED BY <1>5, <1>6, <1>7, <1>8 DEF Core

\* The test of forceClose() on a thread changes nothing but the thread, and its
\* store finds the connection open still.
LEMMA ForceCloseStepInv ==
    ASSUME Inv, NEW t \in Threads, ForceCloseTest(t) \/ ForceCloseStore(t)
    PROVE  Core'
<1> USE ClientAssumption
<1>1. UNCHANGED <<loop, closing, queue, timers, connects, made, connection, channel, told, program,
                  held, client, fault>>
  BY DEF ForceCloseTest, ForceCloseStore, connVars, holdVars
<1>2. \A u \in Threads : user'[u] = "dialing" => user[u] = "dialing"
  BY DEF ForceCloseTest, ForceCloseStore, Inv, Core, TypeOK
<1>3. user' \in [Threads -> {"idle", "dialing", "locking", "asleep", "store", "push"}]
  <2>1. user' = [user EXCEPT ![t] = "store"] \/ user' = [user EXCEPT ![t] = "push"]
    BY DEF ForceCloseTest, ForceCloseStore
  <2> QED BY <2>1 DEF Inv, Core, TypeOK
<1>4. closes' \in [Conn -> Nat]
  <2>1. \/ closes' = closes
        \/ held[t] \in Conn /\ closes' = [closes EXCEPT ![held[t]] = closes[held[t]] + 1]
    BY DEF ForceCloseTest, ForceCloseStore, holdVars, Inv, Core, TypeOK
  <2>2. closes \in [Conn -> Nat]
    BY DEF Inv, Core, TypeOK
  <2> QED BY <2>1, <2>2
<1>5. OneAttempt' /\ QueueOK'
  BY <1>1, <1>2 DEF Inv, Core, OneAttempt, QueueOK, NewConnections
<1>6. CASE ForceCloseTest(t)
  <2>1. state' = state
    BY <1>6 DEF ForceCloseTest, connVars
  <2> QED BY <1>1, <1>3, <1>4, <1>5, <2>1
       DEF Inv, Core, TypeOK, LastOnly, ConnectionCurrent, NoFault, Open
<1>7. CASE ForceCloseStore(t)
  <2>1. held[t] \in Conn /\ Open(held[t]) /\ state' = [state EXCEPT ![held[t]] = "KDisconnecting"]
    BY <1>7 DEF ForceCloseStore, Inv, Closers, Forcing
  <2>2. connects = made /\ connection = held[t]
    BY <2>1, OpenNoAttempt
  <2>3. TypeOK'
    BY <1>1, <1>3, <1>4, <2>1 DEF Inv, Core, TypeOK
  <2>4. LastOnly' /\ ConnectionCurrent' /\ NoFault'
    BY <1>1, <2>1, <2>2 DEF Inv, Core, LastOnly, ConnectionCurrent, NoFault, TypeOK, Open
  <2> QED BY <1>5, <2>3, <2>4 DEF Core
<1> QED BY <1>6, <1>7

\* The push of forceClose().
LEMMA ForceClosePushInv == ASSUME Inv, NEW t \in Threads, ForceClosePush(t) PROVE Core'
<1> DEFINE f == ForceCloseTask(held[t])
<1> USE ClientAssumption DEF ForceClosePush, connVars, holdVars
<1>1. held[t] \in Conn /\ f \in Functor /\ f.conn = held[t] /\ f.op = "forceClose"
      /\ queue \in Seq(Functor) /\ queue' = Append(queue, f)
  BY DEF Inv, Core, TypeOK, Closers, Forcing, Functor, ForceCloseTask
<1> HIDE DEF f
<1>2. /\ queue' \in Seq(Functor) /\ Len(queue) \in Nat
      /\ DOMAIN queue = 1..Len(queue) /\ DOMAIN queue' = 1..(Len(queue) + 1)
      /\ \A i \in 1..Len(queue) : queue'[i] = queue[i]
      /\ queue'[Len(queue) + 1] = f
  BY <1>1, AppendFacts
<1>3. NewConnections' = NewConnections
  BY <1>1, <1>2 DEF NewConnections
<1>4. QueueOK'
  BY <1>1, <1>2 DEF QueueOK, Inv, Core
<1>5. TypeOK'
  BY <1>1, <1>2 DEF Inv, Core, TypeOK, Functor
<1>6. OneAttempt'
  <2>1. \A u \in Threads : user'[u] = "dialing" => user[u] = "dialing"
    BY DEF Inv, Core, TypeOK
  <2> QED BY <1>3, <2>1 DEF Inv, Core, OneAttempt
<1>7. LastOnly' /\ ConnectionCurrent' /\ NoFault'
  BY DEF Inv, Core, LastOnly, ConnectionCurrent, NoFault, TypeOK, Open
<1> QED BY <1>4, <1>5, <1>6, <1>7 DEF Core

\* forceCloseInLoop, of a connection in use or of one that is down already.
LEMMA RunForceCloseInv == ASSUME Inv, RunForceClose PROVE Core'
<1> DEFINE c == Head(queue).conn
<1>1. queue \in Seq(Functor) /\ queue # <<>> /\ queue' = Tail(queue)
      /\ Head(queue).op = "forceClose"
  BY DEF RunForceClose, Inv, Core, TypeOK, Functor
<1>2. /\ queue' \in Seq(Functor) /\ c \in Conn
      /\ \A i \in DOMAIN queue' :
             i \in Nat \ {0} /\ i + 1 \in DOMAIN queue /\ queue'[i] = queue[i + 1]
  BY <1>1, TailFacts DEF Inv, Core, QueueOK
<1>3. \A i \in NewConnections' : i \in Nat \ {0} /\ i + 1 \in NewConnections
  BY <1>2 DEF NewConnections
<1>4. QueueOK'
  BY <1>2 DEF QueueOK, Inv, Core
<1>5. CASE Open(c)
  <2>1. NewConnections' = {}
    BY <1>2, <1>3, <1>5, OpenNoAttempt
  <2>2. HandleClose(c) /\ AtRest /\ fault' = "none"
        /\ UNCHANGED <<user, loop, timers, connects, made, connection, holdVars, client>>
    BY <1>5 DEF RunForceClose, StillOpen, AtRest, Running
  <2> QED BY <1>2, <1>4, <1>5, <2>1, <2>2, HandleCloseInv
<1>6. CASE ~Open(c)
  <2>1. UNCHANGED <<user, loop, closing, timers, connects, made, connection, state, channel,
                    told, program, held, closes, client, fault>>
    BY <1>6 DEF RunForceClose, StillOpen, holdVars
  <2>2. (NewConnections = {} => NewConnections' = {})
        /\ \A i, j \in NewConnections' : i = j
    BY <1>3 DEF Inv, Core, OneAttempt
  <2>3. OneAttempt'
    BY <2>1, <2>2 DEF Inv, Core, OneAttempt
  <2>4. TypeOK' /\ LastOnly' /\ ConnectionCurrent' /\ NoFault'
    BY <1>2, <2>1 DEF Inv, Core, TypeOK, Functor, LastOnly, ConnectionCurrent, NoFault, Open
  <2> QED BY <1>4, <2>3, <2>4 DEF Inv, Core
<1> QED BY <1>5, <1>6

\* removeConnection resets connection_ when it is the connection that closes.
LEMMA RemoveInv == ASSUME Inv, RemoveConnection PROVE Core'
<1> USE ClientAssumption DEF RemoveConnection, Reset, Destroyed, holdVars
<1>1. closing \in Conn /\ connection = closing /\ state[closing] = "KDisconnected"
      /\ loop = "idle"
  BY DEF Inv, Core, LastOnly, TypeOK
<1>2. TypeOK'
  BY DEF Inv, Core, TypeOK
<1>3. OneAttempt' /\ QueueOK' /\ NoFault'
  BY ClientThere DEF Inv, Core, OneAttempt, QueueOK, NoFault, NewConnections
<1>4. LastOnly' /\ ConnectionCurrent'
  BY <1>1 DEF Inv, Core, LastOnly, ConnectionCurrent, TypeOK, Conn, Open
<1> QED BY <1>2, <1>3, <1>4 DEF Inv, Core

-----------------------------------------------------------------------------
(* Who closes, and who is left when the client goes.                       *)

StaysOpen(c) == state'[c] \in {"KConnected", "KDisconnecting"}

\* A step in which no thread begins a forceClose(), no connection that a thread
\* is closing closes, and no forceClose() is pushed.
LEMMA QuietClosers ==
    ASSUME Inv, program' = program, closes' = closes,
           \A t \in Threads : Forcing(t)' => Forcing(t) /\ held'[t] = held[t],
           \A t \in Threads : Forcing(t) => StaysOpen(held[t]),
           \A i \in DOMAIN queue' : \/ \E j \in DOMAIN queue : queue'[i] = queue[j]
                                    \/ queue'[i].op = "newConnection" /\ queue'[i].conn = None
    PROVE  Closers'
<1>1. \A c \in Conn : closes'[c] <= 1 /\ (c \in program'.loopEnds => closes'[c] = 0)
  BY DEF Inv, Closers
<1>2. ASSUME NEW t \in Threads, Forcing(t)'
      PROVE  /\ held'[t] \in Conn /\ Open(held[t])' /\ closes'[held'[t]] = 1
             /\ \A i \in DOMAIN queue' : queue'[i].conn # held'[t]
  <2>1. held[t] \in Conn /\ held'[t] = held[t] /\ closes[held[t]] = 1
        /\ \A i \in DOMAIN queue : queue[i].conn # held[t]
    BY <1>2 DEF Inv, Closers
  <2>2. None # held[t]
    BY <2>1, ClientAssumption DEF Conn
  <2> QED BY <1>2, <2>1, <2>2 DEF StaysOpen, Open
<1>3. \A t, u \in Threads : Forcing(t)' /\ Forcing(u)' /\ held'[t] = held'[u] => t = u
  BY DEF Inv, Closers
<1>4. \A i \in DOMAIN queue' : queue'[i].op = "forceClose" =>
          queue'[i].conn \in program'.loopEnds \/ closes'[queue'[i].conn] = 1
  BY DEF Inv, Closers
<1> QED BY <1>1, <1>2, <1>3, <1>4 DEF Closers

\* A functor that is taken off the queue leaves the others.
LEMMA TailOf ==
    ASSUME Inv, queue # <<>>, queue' = Tail(queue), NEW i \in DOMAIN queue'
    PROVE  \E j \in DOMAIN queue : queue'[i] = queue[j]
<1>1. queue \in Seq(Functor)
  BY DEF Inv, Core, TypeOK, Functor
<1> QED BY <1>1, TailFacts

\* A functor that is pushed is the last one.
LEMMA PushOf ==
    ASSUME Inv, NEW f \in Functor, queue' = Append(queue, f), NEW i \in DOMAIN queue'
    PROVE  queue'[i] = f \/ \E j \in DOMAIN queue : queue'[i] = queue[j]
<1>1. queue \in Seq(Functor)
  BY DEF Inv, Core, TypeOK, Functor
<1>2. /\ DOMAIN queue = 1..Len(queue) /\ Len(queue) \in Nat
      /\ DOMAIN Append(queue, f) = 1..(Len(queue) + 1)
      /\ \A k \in 1..Len(queue) : Append(queue, f)[k] = queue[k]
      /\ Append(queue, f)[Len(queue) + 1] = f
  BY <1>1, AppendFacts
<1>3. CASE i \in 1..Len(queue)
  BY <1>2, <1>3
<1>4. CASE i = Len(queue) + 1
  BY <1>2, <1>4
<1> QED BY <1>2, <1>3, <1>4

\* The steps of connect(), newConnection and connection().
LEMMA DialClosers ==
    ASSUME Inv,
           \/ LoopConnect \/ LoopRefused \/ DialFatal \/ RetryInLoop \/ Destroy
           \/ RunNewConnection \/ LoopDialed \/ ConnectEstablished \/ RemoveConnection
           \/ \E t \in Threads : \/ ThreadConnect(t) \/ ThreadRefused(t) \/ ThreadDialed(t)
                                 \/ CallConnection(t) \/ Wait(t) \/ Release(t)
           \/ UNCHANGED vars
    PROVE  Closers'
<1>1. program' = program /\ closes' = closes
  BY DEF LoopConnect, LoopRefused, DialFatal, RetryInLoop, Destroy, RunNewConnection, LoopDialed,
         Publish, ConnectEstablished, RemoveConnection, ThreadConnect, ThreadRefused, ThreadDialed,
         CallConnection, Wait, Release, vars, holdVars
<1>2. ASSUME NEW t \in Threads, Forcing(t)' PROVE Forcing(t) /\ held'[t] = held[t]
  <2>1. CASE RunNewConnection \/ LoopDialed
    BY <1>2, <2>1 DEF RunNewConnection, LoopDialed, Publish, Notified, Forcing, holdVars, Inv, Core,
                     TypeOK
  <2>2. CASE ConnectEstablished \/ RemoveConnection \/ LoopConnect \/ LoopRefused \/ DialFatal
             \/ RetryInLoop \/ Destroy \/ UNCHANGED vars
    BY <1>2, <2>2 DEF ConnectEstablished, RemoveConnection, LoopConnect, LoopRefused, DialFatal,
                     RetryInLoop, Destroy, vars, holdVars, Forcing
  <2>3. ASSUME NEW u \in Threads, \/ ThreadConnect(u) \/ ThreadRefused(u) \/ ThreadDialed(u)
                                  \/ CallConnection(u) \/ Wait(u) \/ Release(u)
        PROVE  Forcing(t) /\ held'[t] = held[t]
    BY <1>2, <2>3 DEF ThreadConnect, ThreadRefused, ThreadDialed, CallConnection, Wait, Release,
                     holdVars, Forcing, Inv, Core, TypeOK
  <2> QED BY <2>1, <2>2, <2>3
<1>3. ASSUME NEW c \in Conn, Open(c) PROVE StaysOpen(c)
  <2>1. CASE RunNewConnection \/ LoopDialed
    <3>1. connection = c
      BY <1>3, OpenNoAttempt
    <3>2. c = made /\ c \in Nat
      BY <3>1, ClientAssumption DEF Inv, Core, LastOnly, Conn
    <3>3. state' = [state EXCEPT ![made + 1] = "KConnecting"]
      BY <2>1 DEF RunNewConnection, LoopDialed, Publish
    <3> QED BY <1>3, <3>2, <3>3 DEF Open, StaysOpen, Inv, Core, TypeOK
  <2>2. CASE ConnectEstablished
    BY <1>3, <2>2 DEF ConnectEstablished, Open, StaysOpen, Inv, Core, TypeOK
  <2>3. CASE Destroy
    BY <1>3, <2>3, DestroyAtRest DEF Open, StaysOpen
  <2>4. CASE RemoveConnection \/ LoopConnect \/ LoopRefused \/ DialFatal \/ RetryInLoop
             \/ UNCHANGED vars
    BY <1>3, <2>4 DEF RemoveConnection, LoopConnect, LoopRefused, DialFatal, RetryInLoop, vars,
                     connVars, Open, StaysOpen
  <2>5. ASSUME NEW u \in Threads, \/ ThreadConnect(u) \/ ThreadRefused(u) \/ ThreadDialed(u)
                                  \/ CallConnection(u) \/ Wait(u) \/ Release(u)
        PROVE  StaysOpen(c)
    BY <1>3, <2>5 DEF ThreadConnect, ThreadRefused, ThreadDialed, CallConnection, Wait, Release,
                     connVars, Open, StaysOpen
  <2> QED BY <2>1, <2>2, <2>3, <2>4, <2>5
<1>4. \A t \in Threads : Forcing(t) => Open(held[t]) /\ held[t] \in Conn
  BY DEF Inv, Closers
<1>5. \A t \in Threads : Forcing(t) => StaysOpen(held[t])
  BY <1>3, <1>4
<1>6. ASSUME NEW i \in DOMAIN queue'
      PROVE  \/ \E j \in DOMAIN queue : queue'[i] = queue[j]
             \/ queue'[i].op = "newConnection" /\ queue'[i].conn = None
  <2> DEFINE f == [op |-> "newConnection", conn |-> None]
  <2>1. f \in Functor /\ f.op = "newConnection" /\ f.conn = None
    BY DEF Functor
  <2>2. CASE queue' = queue
    BY <2>2
  <2>3. CASE queue # <<>> /\ queue' = Tail(queue)
    BY <2>3, TailOf
  <2>4. CASE queue' = Append(queue, f)
    BY <2>1, <2>4, PushOf
  <2>5. queue' = queue \/ (queue # <<>> /\ queue' = Tail(queue)) \/ queue' = Append(queue, f)
    BY DestroyAtRest
       DEF LoopConnect, LoopRefused, DialFatal, RetryInLoop, Destroy, RunNewConnection, LoopDialed,
           Publish, ConnectEstablished, RemoveConnection, ThreadConnect, ThreadRefused, ThreadDialed,
           CallConnection, Wait, Release, vars
  <2> QED BY <2>2, <2>3, <2>4, <2>5
<1> QED BY <1>1, <1>2, <1>5, <1>6, QuietClosers

\* The end of a connection is not that of one which a thread is closing.
LEMMA CloseClosers ==
    ASSUME Inv, RunForceClose \/ \E c \in Conn : PeerCloses(c)
    PROVE  Closers'
<1>1. program' = program /\ closes' = closes /\ user' = user /\ held' = held
  BY DEF RunForceClose, PeerCloses, holdVars
<1>2. \A t \in Threads : Forcing(t)' => Forcing(t) /\ held'[t] = held[t]
  BY <1>1 DEF Forcing
<1>3. \A t \in Threads : Forcing(t) =>
          /\ held[t] \in Conn /\ Open(held[t]) /\ closes[held[t]] = 1
          /\ held[t] \notin program.loopEnds
          /\ \A i \in DOMAIN queue : queue[i].conn # held[t]
  BY DEF Inv, Closers
<1>4. CASE RunForceClose
  <2>1. queue \in Seq(Functor) /\ queue # <<>> /\ queue' = Tail(queue)
    BY <1>4 DEF RunForceClose, Inv, Core, TypeOK, Functor
  <2>2. Head(queue) = queue[1] /\ 1 \in DOMAIN queue
    BY <2>1, TailFacts
  <2>3. state' = state \/ state' = [state EXCEPT ![Head(queue).conn] = "KDisconnected"]
    BY <1>4 DEF RunForceClose, HandleClose
  <2>4. \A t \in Threads : Forcing(t) => StaysOpen(held[t])
    BY <1>3, <2>2, <2>3 DEF StaysOpen, Open, Inv, Core, TypeOK
  <2>5. \A i \in DOMAIN queue' : \E j \in DOMAIN queue : queue'[i] = queue[j]
    BY <2>1, TailOf
  <2> QED BY <1>1, <1>2, <2>4, <2>5, QuietClosers
<1>5. ASSUME NEW c \in Conn, PeerCloses(c) PROVE Closers'
  <2>1. state' = [state EXCEPT ![c] = "KDisconnected"] /\ c \in program.loopEnds /\ queue' = queue
    BY <1>5 DEF PeerCloses, HandleClose
  <2>2. \A t \in Threads : Forcing(t) => StaysOpen(held[t])
    BY <1>3, <2>1 DEF StaysOpen, Open, Inv, Core, TypeOK
  <2> QED BY <1>1, <1>2, <2>1, <2>2, QuietClosers
<1> QED BY <1>4, <1>5

\* forceClose() on the loop's thread is of a connection that no thread closes.
LEMMA LoopForceClosers == ASSUME Inv, NEW c \in Conn, LoopForceClose(c) PROVE Closers'
<1> DEFINE f == ForceCloseTask(c)
<1>1. /\ c \in program.loopEnds /\ queue' = Append(queue, f)
      /\ state' = [state EXCEPT ![c] = "KDisconnecting"]
      /\ program' = program /\ closes' = closes /\ user' = user /\ held' = held
  BY DEF LoopForceClose, holdVars
<1>2. f \in Functor /\ f.conn = c
  BY DEF Functor, ForceCloseTask
<1> HIDE DEF f
<1>3. \A i \in DOMAIN queue' : queue'[i] = f \/ \E j \in DOMAIN queue : queue'[i] = queue[j]
  BY <1>1, <1>2, PushOf
<1>4. ASSUME NEW t \in Threads, Forcing(t)'
      PROVE  /\ held'[t] \in Conn /\ Open(held[t])' /\ closes'[held'[t]] = 1
             /\ \A i \in DOMAIN queue' : queue'[i].conn # held'[t]
  <2>1. /\ held[t] \in Conn /\ Open(held[t]) /\ closes[held[t]] = 1 /\ closes[c] = 0
        /\ \A i \in DOMAIN queue : queue[i].conn # held[t]
    BY <1>1, <1>4 DEF Inv, Closers, Forcing
  <2>2. Open(held[t])'
    BY <1>1, <2>1 DEF Open, Inv, Core, TypeOK
  <2> QED BY <1>1, <1>2, <1>3, <2>1, <2>2
<1>5. \A i \in DOMAIN queue' : queue'[i].op = "forceClose" =>
          queue'[i].conn \in program'.loopEnds \/ closes'[queue'[i].conn] = 1
  BY <1>1, <1>2, <1>3 DEF Inv, Closers
<1>6. \A t, u \in Threads : Forcing(t)' /\ Forcing(u)' /\ held'[t] = held'[u] => t = u
  BY <1>1 DEF Inv, Closers, Forcing
<1>7. \A d \in Conn : closes'[d] <= 1 /\ (d \in program'.loopEnds => closes'[d] = 0)
  BY <1>1 DEF Inv, Closers
<1> QED BY <1>4, <1>5, <1>6, <1>7 DEF Closers

\* A thread that passes the test of forceClose() is the first to do so: the
\* program lets threads call it once, and the loop's thread not at all.
LEMMA TestClosers == ASSUME Inv, NEW t \in Threads, ForceCloseTest(t) PROVE Closers'
<1> DEFINE c == held[t]
<1>1. /\ c \in Conn /\ Open(c) /\ closes[c] < program.forces[c]
      /\ user' = [user EXCEPT ![t] = "store"] /\ closes' = [closes EXCEPT ![c] = closes[c] + 1]
      /\ program' = program /\ held' = held /\ state' = state /\ queue' = queue
  BY DEF ForceCloseTest, Forces, connVars, Inv, Core, TypeOK
<1>2. closes \in [Conn -> Nat] /\ program.forces[c] \in Nat
  <2>1. program \in [loopEnds : SUBSET Conn, forces : [Conn -> Nat], leaves : BOOLEAN]
    BY ClientAssumption DEF Inv, Core, TypeOK
  <2> QED BY <1>1, <2>1 DEF Inv, Core, TypeOK
<1>3. program.forces[c] <= 1 /\ (c \in program.loopEnds => program.forces[c] = 0)
  BY <1>1 DEF Inv, Disciplined
<1>4. closes[c] = 0 /\ c \notin program.loopEnds /\ closes'[c] = 1
      /\ \A d \in Conn : d # c => closes'[d] = closes[d]
  BY <1>1, <1>2, <1>3
<1>5. \A i \in DOMAIN queue : queue[i].conn # c
  <2> SUFFICES ASSUME NEW i \in DOMAIN queue, queue[i].conn = c PROVE FALSE
    OBVIOUS
  <2>0. queue \in Seq(Functor)
    BY DEF Inv, Core, TypeOK, Functor
  <2>1. queue[i] \in Functor
    BY <2>0
  <2>2. queue[i].op = "forceClose"
    BY <1>1, <2>1, ClientAssumption DEF Functor, Inv, Core, QueueOK, Conn
  <2> QED BY <1>4, <2>2 DEF Inv, Closers
<1>6. \A u \in Threads : u # t /\ Forcing(u)' => Forcing(u) /\ held[u] # c
  BY <1>1, <1>4 DEF Inv, Closers, Forcing, Core, TypeOK
<1>7. ASSUME NEW u \in Threads, Forcing(u)'
      PROVE  /\ held'[u] \in Conn /\ Open(held[u])' /\ closes'[held'[u]] = 1
             /\ \A i \in DOMAIN queue' : queue'[i].conn # held'[u]
  <2>1. CASE u = t
    BY <1>1, <1>4, <1>5, <2>1 DEF Open
  <2>2. CASE u # t
    BY <1>1, <1>4, <1>6, <1>7, <2>2 DEF Open, Inv, Closers
  <2> QED BY <2>1, <2>2
<1>8. \A u, v \in Threads : Forcing(u)' /\ Forcing(v)' /\ held'[u] = held'[v] => u = v
  <2> SUFFICES ASSUME NEW u \in Threads, NEW v \in Threads, Forcing(u)', Forcing(v)', held[u] = held[v]
               PROVE  u = v
    BY <1>1
  <2>1. CASE u # t /\ v # t
    BY <1>6, <2>1 DEF Inv, Closers
  <2>2. CASE u = t \/ v = t
    BY <1>6, <2>2
  <2> QED BY <2>1, <2>2
<1>9. ASSUME NEW i \in DOMAIN queue', queue'[i].op = "forceClose"
      PROVE  queue'[i].conn \in program'.loopEnds \/ closes'[queue'[i].conn] = 1
  <2>1. queue[i].conn \in Conn /\ (queue[i].conn \in program.loopEnds \/ closes[queue[i].conn] = 1)
    BY <1>1, <1>9 DEF Inv, Core, QueueOK, Closers
  <2> QED BY <1>1, <1>4, <1>5, <2>1
<1>10. \A d \in Conn : closes'[d] <= 1 /\ (d \in program'.loopEnds => closes'[d] = 0)
  BY <1>1, <1>4 DEF Inv, Closers
<1> QED BY <1>7, <1>8, <1>9, <1>10 DEF Closers

\* Its store finds the connection open, and its push ends the call.
LEMMA StoreClosers == ASSUME Inv, NEW t \in Threads, ForceCloseStore(t) PROVE Closers'
<1>1. /\ state' = [state EXCEPT ![held[t]] = "KDisconnecting"]
      /\ user' = [user EXCEPT ![t] = "push"] /\ Forcing(t)
      /\ program' = program /\ closes' = closes /\ held' = held /\ queue' = queue
  BY DEF ForceCloseStore, holdVars, Forcing
<1>2. \A u \in Threads : Forcing(u)' => Forcing(u) /\ held'[u] = held[u]
  BY <1>1 DEF Forcing, Inv, Core, TypeOK
<1>3. \A u \in Threads : Forcing(u) => StaysOpen(held[u])
  BY <1>1 DEF Inv, Closers, Core, TypeOK, Open, StaysOpen
<1> QED BY <1>1, <1>2, <1>3, QuietClosers

LEMMA PushClosers == ASSUME Inv, NEW t \in Threads, ForceClosePush(t) PROVE Closers'
<1> DEFINE f == ForceCloseTask(held[t])
<1>1. /\ Forcing(t) /\ queue' = Append(queue, f) /\ user' = [user EXCEPT ![t] = "idle"]
      /\ program' = program /\ closes' = closes /\ held' = held /\ state' = state
  BY DEF ForceClosePush, connVars, holdVars, Forcing
<1>2. held[t] \in Conn /\ closes[held[t]] = 1
  BY <1>1 DEF Inv, Closers
<1>3. f \in Functor /\ f.conn = held[t]
  BY <1>2 DEF Functor, ForceCloseTask
<1> HIDE DEF f
<1>4. \A i \in DOMAIN queue' : queue'[i] = f \/ \E j \in DOMAIN queue : queue'[i] = queue[j]
  BY <1>1, <1>3, PushOf
<1>5. \A u \in Threads : Forcing(u)' => Forcing(u) /\ u # t
  BY <1>1 DEF Forcing, Inv, Core, TypeOK
<1>6. ASSUME NEW u \in Threads, Forcing(u)'
      PROVE  /\ held'[u] \in Conn /\ Open(held[u])' /\ closes'[held'[u]] = 1
             /\ \A i \in DOMAIN queue' : queue'[i].conn # held'[u]
  <2>1. Forcing(u) /\ held[u] # held[t]
    BY <1>1, <1>5, <1>6 DEF Inv, Closers
  <2>2. /\ held[u] \in Conn /\ Open(held[u]) /\ closes[held[u]] = 1
        /\ \A i \in DOMAIN queue : queue[i].conn # held[u]
    BY <2>1 DEF Inv, Closers
  <2> QED BY <1>1, <1>3, <1>4, <2>1, <2>2 DEF Open
<1>7. \A u, v \in Threads : Forcing(u)' /\ Forcing(v)' /\ held'[u] = held'[v] => u = v
  BY <1>1, <1>5 DEF Inv, Closers
<1>8. \A i \in DOMAIN queue' : queue'[i].op = "forceClose" =>
          queue'[i].conn \in program'.loopEnds \/ closes'[queue'[i].conn] = 1
  BY <1>1, <1>2, <1>3, <1>4 DEF Inv, Closers
<1>9. \A d \in Conn : closes'[d] <= 1 /\ (d \in program'.loopEnds => closes'[d] = 0)
  BY <1>1 DEF Inv, Closers
<1> QED BY <1>6, <1>7, <1>8, <1>9 DEF Closers

\* A client is destroyed at rest, and nothing begins after it.
LEMMA GoneKept == ASSUME Inv, [Next]_vars PROVE Gone'
<1> SUFFICES ASSUME client' = "destroyed"
             PROVE  /\ connection' = None /\ queue' = <<>> /\ timers' = 0 /\ closing' = None
                    /\ loop' = "idle" /\ \A t \in Threads : user'[t] = "idle"
  BY DEF Gone
<1>1. CASE Destroy
  BY <1>1, DestroyAtRest DEF Destroy, AtRest
<1>2. CASE client = "destroyed"
  <2>1. /\ connection = None /\ queue = <<>> /\ timers = 0 /\ closing = None /\ loop = "idle"
        /\ \A t \in Threads : user[t] = "idle"
    BY <1>2 DEF Inv, Gone
  <2>2. \A c \in Conn : ~Open(c) /\ channel[c] # "reading"
    BY <2>1, ClientAssumption DEF Inv, Core, ConnectionCurrent, LastOnly, Open, Conn
  <2>3. ~LoopStep /\ ~LoopConnect /\ ~DialFatal /\ ~Destroy
    BY <1>2, <2>1 DEF LoopStep, RetryInLoop, LoopDialed, LoopRefused, RunNewConnection,
       ConnectEstablished, RunForceClose, RemoveConnection, LoopConnect, MayConnect, DialFatal, Destroy
  <2>4. \A c \in Conn : ~PeerCloses(c) /\ ~LoopForceClose(c)
    BY <2>2 DEF PeerCloses, LoopForceClose, Forces
  <2>5. \A t \in Threads : ~ThreadConnect(t) /\ ~ThreadDialed(t) /\ ~ThreadRefused(t)
                           /\ ~CallConnection(t) /\ ~Wait(t) /\ ~ForceCloseStore(t)
                           /\ ~ForceClosePush(t)
    BY <1>2, <2>1 DEF ThreadConnect, MayConnect, ThreadDialed, ThreadRefused, CallConnection, Wait,
                     ForceCloseStore, ForceClosePush
  <2>6. \A t \in Threads : ~ForceCloseTest(t)
    BY <2>2 DEF ForceCloseTest, Forces, Inv, Core, TypeOK
  <2>7. (\E t \in Threads : Release(t)) \/ UNCHANGED vars
    BY <2>3, <2>4, <2>5, <2>6 DEF Next
  <2> QED BY <2>1, <2>7 DEF Release, vars, connVars
<1>3. client = "destroyed" \/ Destroy
  BY DEF Next, LoopStep, RetryInLoop, LoopDialed, LoopRefused, RunNewConnection, Publish,
       ConnectEstablished, RunForceClose, RemoveConnection, LoopConnect, DialFatal, PeerCloses,
       LoopForceClose, ThreadConnect, ThreadDialed, ThreadRefused, CallConnection, Wait, Release,
       ForceCloseTest, ForceCloseStore, ForceClosePush, vars
<1> QED BY <1>1, <1>2, <1>3

-----------------------------------------------------------------------------
(* The connections of a client keep the promise of ConnectionLife.         *)

Was == {"KConnecting", "KConnected", "KDisconnecting", "KDisconnected"}

\* Nobody has a pointer to a connection that was not made yet.
Known == \A c \in Conn : Alive(c) => c <= made

\* What a step does to a connection: it may be made; it goes up, then down, and
\* the user is told; and once nobody has a pointer to it nobody gets one.
Goes(c) ==
    \/ state'[c] = state[c] /\ told'[c] = told[c]
    \/ Open(c) /\ state'[c] = "KDisconnecting" /\ told'[c] = told[c]
    \/ /\ state[c] = "KConnecting" /\ state'[c] = "KConnected"
       /\ told'[c] = IF told[c] = "nothing" THEN "up" ELSE "wrong"
    \/ /\ Open(c) /\ state'[c] = "KDisconnected"
       /\ told'[c] = IF told[c] = "up" THEN "down" ELSE "wrong"
Advances ==
    /\ made' \in {made, made + 1}
    /\ \A c \in Conn : /\ c # made + 1 \/ made' = made => Goes(c) /\ (Alive(c)' => Alive(c))
                       /\ c = made + 1 /\ made' # made =>
                              state'[c] = "KConnecting" /\ told'[c] = told[c]

\* Where a pointer can be after the step.
LEMMA AliveAfter ==
    ASSUME NEW c \in Conn, Alive(c)'
    PROVE  \/ connection' = c \/ closing' = c \/ (loop' = "establish" /\ made' = c)
           \/ \E t \in Threads : held'[t] = c
           \/ \E i \in DOMAIN queue' : queue'[i] = [op |-> "forceClose", conn |-> c]
BY DEF Alive

\* Steps that leave the pointers alone, but for functors that hold none.
LEMMA DialAdvances ==
    ASSUME Inv,
           \/ LoopConnect \/ LoopRefused \/ DialFatal \/ RetryInLoop \/ Destroy
           \/ \E t \in Threads : ThreadConnect(t) \/ ThreadRefused(t) \/ ThreadDialed(t)
    PROVE  Advances
<1>1. /\ made' = made /\ connection' = connection /\ state' = state /\ closing' = closing
      /\ held' = held /\ told' = told
  BY DestroyAtRest DEF LoopConnect, LoopRefused, DialFatal, RetryInLoop, Destroy, ThreadConnect,
         ThreadRefused, ThreadDialed, connVars, holdVars
<1>2. loop' = "establish" => loop = "establish"
  BY DEF LoopConnect, LoopRefused, DialFatal, RetryInLoop, Destroy, ThreadConnect,
         ThreadRefused, ThreadDialed
<1>3. ASSUME NEW c \in Conn, NEW i \in DOMAIN queue', queue'[i] = [op |-> "forceClose", conn |-> c]
      PROVE  \E j \in DOMAIN queue : queue[j] = [op |-> "forceClose", conn |-> c]
  <2>1. CASE queue' = queue
    BY <1>3, <2>1
  <2>2. CASE queue' = Append(queue, [op |-> "newConnection", conn |-> None])
    <3> DEFINE f == [op |-> "newConnection", conn |-> None]
    <3>1. queue \in Seq(Functor) /\ f \in Functor
      BY DEF Inv, Core, TypeOK, Functor
    <3>2. /\ DOMAIN queue = 1..Len(queue) /\ Len(queue) \in Nat
          /\ DOMAIN Append(queue, f) = 1..(Len(queue) + 1)
          /\ \A k \in 1..Len(queue) : Append(queue, f)[k] = queue[k]
          /\ Append(queue, f)[Len(queue) + 1] = f
      BY <3>1, AppendFacts
    <3>3. f.op # "forceClose" /\ [op |-> "forceClose", conn |-> c].op = "forceClose"
      OBVIOUS
    <3> HIDE DEF f
    <3>4. queue' = Append(queue, f)
      BY <2>2 DEF f
    <3>5. i \in 1..Len(queue)
      BY <1>3, <3>2, <3>3, <3>4
    <3> QED BY <1>3, <3>2, <3>4, <3>5
  <2>3. queue' = queue \/ queue' = Append(queue, [op |-> "newConnection", conn |-> None])
    BY DestroyAtRest DEF LoopConnect, LoopRefused, DialFatal, RetryInLoop, Destroy, ThreadConnect,
           ThreadRefused, ThreadDialed
  <2> QED BY <2>1, <2>2, <2>3
<1>4. \A c \in Conn : Alive(c)' => Alive(c)
  BY <1>1, <1>2, <1>3, AliveAfter DEF Alive
<1> QED BY <1>1, <1>4 DEF Advances, Goes

\* A functor that is taken off the queue leaves the others.
LEMMA TailAlive ==
    ASSUME Inv, queue # <<>>, queue' = Tail(queue), NEW c \in Conn, NEW i \in DOMAIN queue',
           queue'[i] = [op |-> "forceClose", conn |-> c]
    PROVE  \E j \in DOMAIN queue : queue[j] = [op |-> "forceClose", conn |-> c]
<1>1. queue \in Seq(Functor)
  BY DEF Inv, Core, TypeOK, Functor
<1>2. i + 1 \in DOMAIN queue /\ Tail(queue)[i] = queue[i + 1]
  BY <1>1, TailFacts
<1> QED BY <1>2

\* newConnection gives out pointers to the new connection only.
LEMMA PublishAdvances ==
    ASSUME Inv, RunNewConnection \/ LoopDialed
    PROVE  Advances
<1>1. Publish /\ (queue' = queue \/ (queue # <<>> /\ queue' = Tail(queue)))
  BY DEF RunNewConnection, LoopDialed
<1>2. /\ made' = made + 1 /\ connection' = made + 1 /\ closing' = closing /\ held' = held
      /\ state' = [state EXCEPT ![made + 1] = "KConnecting"] /\ told' = told
  BY <1>1 DEF Publish, holdVars
<1>3. ASSUME NEW c \in Conn, c # made + 1, Alive(c)' PROVE Alive(c)
  <2>1. \A i \in DOMAIN queue' : queue'[i] = [op |-> "forceClose", conn |-> c] =>
            \E j \in DOMAIN queue : queue[j] = [op |-> "forceClose", conn |-> c]
    BY <1>1, TailAlive
  <2> QED BY <1>2, <1>3, <2>1, AliveAfter DEF Alive
<1>4. \A c \in Conn : /\ c # made + 1 => state'[c] = state[c]
                      /\ c = made + 1 => state'[c] = "KConnecting"
  BY <1>2 DEF Inv, Core, TypeOK
<1>5. made' # made
  BY <1>2, ClientAssumption DEF Inv, Core, TypeOK
<1> QED BY <1>2, <1>3, <1>4, <1>5 DEF Advances, Goes

\* connectEstablished, connection() and the threads that drop their pointers.
LEMMA HoldAdvances ==
    ASSUME Inv, ConnectEstablished \/ \E t \in Threads : CallConnection(t) \/ Wait(t) \/ Release(t)
    PROVE  Advances
<1>1. /\ made' = made /\ connection' = connection /\ closing' = closing /\ queue' = queue
      /\ loop' = "establish" => loop = "establish"
  BY DEF ConnectEstablished, CallConnection, Wait, Release, connVars, holdVars
<1>2. \A t \in Threads : held'[t] = held[t] \/ held'[t] \in {None, connection}
  BY DEF ConnectEstablished, CallConnection, Wait, Release, holdVars, Inv, Core, TypeOK
<1>3. ASSUME NEW c \in Conn, Alive(c)' PROVE Alive(c)
  <2>1. c # None
    BY ClientAssumption DEF Conn
  <2> QED BY <1>1, <1>2, <1>3, <2>1, AliveAfter DEF Alive
<1>4. \A c \in Conn : Goes(c)
  <2>1. CASE ConnectEstablished
    BY <2>1 DEF ConnectEstablished, holdVars, Inv, Core, TypeOK, LastOnly, Goes
  <2>2. CASE \E t \in Threads : CallConnection(t) \/ Wait(t) \/ Release(t)
    BY <2>2 DEF CallConnection, Wait, Release, connVars, holdVars, Goes
  <2> QED BY <2>1, <2>2
<1> QED BY <1>1, <1>3, <1>4 DEF Advances

\* The end of a connection, which its client holds until then.
LEMMA CloseAdvances ==
    ASSUME Inv, RunForceClose \/ RemoveConnection \/ \E c \in Conn : PeerCloses(c)
    PROVE  Advances
<1>1. /\ made' = made /\ held' = held /\ connection' \in {connection, None}
      /\ loop' = loop /\ (queue' = queue \/ (queue # <<>> /\ queue' = Tail(queue)))
  BY DEF RunForceClose, RemoveConnection, PeerCloses, Reset, holdVars
<1>2. \/ state' = state /\ told' = told /\ closing' \in {closing, None}
      \/ \E d \in Conn : Open(d) /\ HandleClose(d)
  <2>1. CASE RunForceClose
    <3>1. queue # <<>> /\ Head(queue).op = "forceClose"
          /\ (IF Open(Head(queue).conn) THEN HandleClose(Head(queue).conn)
                                        ELSE UNCHANGED <<closing, state, channel, told>>)
      BY <2>1 DEF RunForceClose, StillOpen
    <3>2. Head(queue).conn \in Conn
      <4>1. queue \in Seq(Functor)
        BY DEF Inv, Core, TypeOK, Functor
      <4>2. Head(queue) = queue[1] /\ 1 \in DOMAIN queue
        BY <3>1, <4>1, TailFacts
      <4> QED BY <3>1, <4>2 DEF Inv, Core, QueueOK
    <3> QED BY <3>1, <3>2
  <2>2. CASE RemoveConnection
    BY <2>2 DEF RemoveConnection
  <2>3. CASE \E c \in Conn : PeerCloses(c)
    BY <2>3 DEF PeerCloses, Inv, Core, LastOnly
  <2> QED BY <2>1, <2>2, <2>3
<1>3. ASSUME NEW c \in Conn, Alive(c)' PROVE Alive(c)
  <2>1. c # None
    BY ClientAssumption DEF Conn
  <2>2. \A i \in DOMAIN queue' : queue'[i] = [op |-> "forceClose", conn |-> c] =>
            \E j \in DOMAIN queue : queue[j] = [op |-> "forceClose", conn |-> c]
    BY <1>1, TailAlive
  <2>3. closing' = c => closing = c \/ connection = c
    BY <1>2, <2>1, OpenNoAttempt DEF HandleClose
  <2> QED BY <1>1, <1>3, <2>1, <2>2, <2>3, AliveAfter DEF Alive
<1>4. \A c \in Conn : Goes(c)
  BY <1>2 DEF HandleClose, Goes, Inv, Core, TypeOK
<1> QED BY <1>1, <1>3, <1>4 DEF Advances

\* forceClose(): whoever calls it has the pointer that goes into the functor.
LEMMA ForceCloseAdvances ==
    ASSUME Inv, \/ \E c \in Conn : LoopForceClose(c)
                \/ \E t \in Threads : ForceCloseTest(t) \/ ForceCloseStore(t) \/ ForceClosePush(t)
    PROVE  Advances
<1>1. /\ made' = made /\ told' = told
      /\ UNCHANGED <<loop, closing, connection, held>>
  BY DEF LoopForceClose, ForceCloseTest, ForceCloseStore, ForceClosePush, connVars, holdVars
<1>2. state' = state \/ \E d \in Conn : Open(d) /\ state' = [state EXCEPT ![d] = "KDisconnecting"]
  BY DEF LoopForceClose, Forces, ForceCloseTest, ForceCloseStore, ForceClosePush, connVars,
         Inv, Closers, Forcing
<1>3. \/ queue' = queue
      \/ \E d \in Conn : Alive(d) /\ queue' = Append(queue, ForceCloseTask(d))
  <2>1. ASSUME NEW c \in Conn, LoopForceClose(c)
        PROVE  Alive(c) /\ queue' = Append(queue, ForceCloseTask(c))
    BY <2>1, OpenNoAttempt DEF LoopForceClose, Forces, Alive
  <2>2. ASSUME NEW t \in Threads, ForceClosePush(t)
        PROVE  /\ held[t] \in Conn /\ Alive(held[t])
               /\ queue' = Append(queue, ForceCloseTask(held[t]))
    BY <2>2 DEF ForceClosePush, Inv, Closers, Forcing, Alive
  <2>3. ASSUME NEW t \in Threads, ForceCloseTest(t) \/ ForceCloseStore(t)
        PROVE  queue' = queue
    BY <2>3 DEF ForceCloseTest, ForceCloseStore
  <2> QED BY <2>1, <2>2, <2>3
<1>4. ASSUME NEW c \in Conn, NEW i \in DOMAIN queue', queue'[i] = ForceCloseTask(c)
      PROVE  Alive(c) \/ \E j \in DOMAIN queue : queue[j] = ForceCloseTask(c)
  <2>1. CASE queue' = queue
    BY <1>4, <2>1
  <2>2. ASSUME NEW d \in Conn, Alive(d), queue' = Append(queue, ForceCloseTask(d))
        PROVE  Alive(c) \/ \E j \in DOMAIN queue : queue[j] = ForceCloseTask(c)
    <3>1. ForceCloseTask(d) \in Functor /\ (ForceCloseTask(c) = ForceCloseTask(d) => c = d)
      BY DEF ForceCloseTask, Functor
    <3>2. queue'[i] = ForceCloseTask(d) \/ \E j \in DOMAIN queue : queue'[i] = queue[j]
      BY <2>2, <3>1, PushOf
    <3> QED BY <1>4, <2>2, <3>1, <3>2
  <2> QED BY <1>3, <2>1, <2>2
<1>5. ASSUME NEW c \in Conn, Alive(c)' PROVE Alive(c)
  BY <1>1, <1>4, <1>5, AliveAfter DEF Alive, ForceCloseTask
<1>6. \A c \in Conn : Goes(c)
  BY <1>1, <1>2 DEF Goes, Inv, Core, TypeOK
<1> QED BY <1>1, <1>5, <1>6 DEF Advances

\* Every step.
LEMMA NextAdvances == Inv /\ [Next]_vars => Advances
<1> SUFFICES ASSUME Inv, [Next]_vars PROVE Advances
  OBVIOUS
<1>1. CASE LoopStep
  BY <1>1, DialAdvances, PublishAdvances, HoldAdvances, CloseAdvances DEF LoopStep
<1>2. CASE LoopConnect \/ DialFatal \/ Destroy
  BY <1>2, DialAdvances
<1>3. ASSUME NEW t \in Threads,
             \/ ThreadConnect(t) \/ ThreadDialed(t) \/ ThreadRefused(t)
             \/ CallConnection(t) \/ Wait(t) \/ Release(t)
             \/ ForceCloseTest(t) \/ ForceCloseStore(t) \/ ForceClosePush(t)
      PROVE  Advances
  BY <1>3, DialAdvances, HoldAdvances, ForceCloseAdvances
<1>4. CASE \E c \in Conn : PeerCloses(c) \/ LoopForceClose(c)
  BY <1>4, CloseAdvances, ForceCloseAdvances
<1>5. CASE UNCHANGED vars
  BY <1>5 DEF vars, connVars, holdVars, Advances, Goes, Alive
<1> QED BY <1>1, <1>2, <1>3, <1>4, <1>5 DEF Next

\* What the user was told follows the state.
LEMMA TellingKept == ASSUME Inv, Advances PROVE Telling'
<1> SUFFICES ASSUME NEW c \in Conn
             PROVE  told'[c] = IF c <= made' THEN Saying(state'[c]) ELSE "nothing"
  BY DEF Telling
<1>1. made \in Nat /\ c \in Nat /\ made' \in {made, made + 1} /\ state[c] \in Was
  BY ClientAssumption DEF Inv, Core, TypeOK, Conn, Advances, Was
<1>2. told[c] = IF c <= made THEN Saying(state[c]) ELSE "nothing"
  BY DEF Inv, Telling
<1>3. CASE c = made + 1 /\ made' # made
  BY <1>1, <1>2, <1>3 DEF Advances, Saying
<1>4. CASE c # made + 1 \/ made' = made
  <2>1. Goes(c) /\ (c <= made' <=> c <= made)
    BY <1>1, <1>4 DEF Advances
  <2>2. ~(c <= made) => state[c] = "KDisconnected"
    BY <1>1, ClientAssumption DEF Inv, Core, ConnectionCurrent, LastOnly, Conn
  <2> QED BY <1>1, <1>2, <2>1, <2>2 DEF Goes, Saying, Open, Was
<1> QED BY <1>3, <1>4

\* Every step of the client, of its loop, of the threads and of the peer
\* preserves the invariant.
LEMMA NextInv == Inv /\ [Next]_vars => Inv'
<1> SUFFICES ASSUME Inv, [Next]_vars PROVE Inv'
  OBVIOUS
<1>1. Gone' /\ Telling'
  BY GoneKept, NextAdvances, TellingKept
<1>2. program' = program
  BY DEF Next, LoopStep, RetryInLoop, LoopDialed, LoopRefused, RunNewConnection, Publish,
       ConnectEstablished, RunForceClose, RemoveConnection, LoopConnect, DialFatal, Destroy,
       PeerCloses, LoopForceClose, ThreadConnect, ThreadDialed, ThreadRefused, CallConnection, Wait,
       Release, ForceCloseTest, ForceCloseStore, ForceClosePush, vars, holdVars
<1>3. Disciplined(program)'
  BY <1>2 DEF Inv, Disciplined
<1>4. CASE LoopStep
  BY <1>1, <1>3, <1>4, DialInv, PublishInv, EstablishInv, RunForceCloseInv, RemoveInv, DialClosers,
     CloseClosers DEF LoopStep, Inv
<1>5. CASE LoopConnect \/ DialFatal \/ Destroy
  BY <1>1, <1>3, <1>5, DialInv, DialClosers DEF Inv
<1>6. ASSUME NEW t \in Threads,
             \/ ThreadConnect(t) \/ ThreadDialed(t) \/ ThreadRefused(t)
             \/ CallConnection(t) \/ Wait(t) \/ Release(t)
      PROVE  Inv'
  BY <1>1, <1>3, <1>6, DialInv, ThreadDialedInv, HoldInv, DialClosers DEF Inv
<1>7. ASSUME NEW t \in Threads, ForceCloseTest(t) \/ ForceCloseStore(t) \/ ForceClosePush(t)
      PROVE  Inv'
  BY <1>1, <1>3, <1>7, ForceCloseStepInv, ForceClosePushInv, TestClosers, StoreClosers, PushClosers
     DEF Inv
<1>8. ASSUME NEW c \in Conn, PeerCloses(c) \/ LoopForceClose(c) PROVE Inv'
  BY <1>1, <1>3, <1>8, PeerClosesInv, LoopForceCloseInv, CloseClosers, LoopForceClosers DEF Inv
<1>9. CASE UNCHANGED vars
  <2>1. Core'
    BY <1>9 DEF vars, connVars, holdVars, Inv, Core, TypeOK, OneAttempt, NewConnections, QueueOK,
                LastOnly, ConnectionCurrent, NoFault, Open
  <2> QED BY <1>1, <1>3, <1>9, <2>1, DialClosers DEF Inv
<1> QED BY <1>4, <1>5, <1>6, <1>7, <1>8, <1>9 DEF Next

\* The invariant holds, whichever of the disciplined programs runs.
THEOREM Invariance == AllDisciplined => (Spec => []Inv)
<1> SUFFICES ASSUME AllDisciplined PROVE Spec => []Inv
  OBVIOUS
<1>1. Init => Inv
  BY InitInv
<1> QED BY <1>1, NextInv, PTL DEF Spec

\* The variables of TcpClient keep their types; in particular the retry timers
\* never number more than one.
THEOREM TypeCorrect == AllDisciplined => (Spec => []TypeOK)
<1>1. Inv => TypeOK
  BY DEF Inv, Core
<1> QED BY Invariance, <1>1, PTL

\* connection_ is the one connection that is not down, and a connection that is
\* down stays in connection_ only until its removeConnection, if nobody but the
\* one thread that calls forceClose() on a connection ends it.
THEOREM ConnectionIsCurrent == AllDisciplined => (Spec => []ConnectionCurrent)
<1>1. Inv => ConnectionCurrent
  BY DEF Inv, Core
<1> QED BY Invariance, <1>1, PTL

\* No assertion of connectEstablished, of handleClose or of the destructor of a
\* connection fails, whichever thread drops the last pointer, and nothing that
\* is bound to the client runs after its destructor.
THEOREM AssertsNeverFail == AllDisciplined => (Spec => []NoAssertFails)
<1>1. Inv => NoAssertFails
  BY DEF Inv, Core, NoFault, LastOnly, ConnectionCurrent, NoAssertFails, Alive
<1> QED BY Invariance, <1>1, PTL

\* A connection not made yet has no pointer, and one that is not down has.
InOrder ==
    /\ made \in Nat
    /\ \A c \in Conn : /\ Alive(c) \in BOOLEAN /\ state[c] \in Was /\ c \in Nat
                       /\ told[c] = IF c <= made THEN Saying(state[c]) ELSE "nothing"
                       /\ made < c => ~Alive(c)
                       /\ c <= made /\ state[c] # "KDisconnected" => Alive(c)

LEMMA OrderFacts == Inv /\ Known => InOrder
<1> SUFFICES ASSUME Inv, Known PROVE InOrder
  OBVIOUS
<1>1. made \in Nat /\ Conn \subseteq Nat /\ \A c \in Conn : state[c] \in Was
  BY ClientAssumption DEF Inv, Core, TypeOK, Conn, Was
<1>2. \A c \in Conn : state[c] # "KDisconnected" => Alive(c)
  BY DEF Inv, Core, ConnectionCurrent, Alive
<1>3. \A c \in Conn : Alive(c) \in BOOLEAN
  BY DEF Alive
<1>4. \A c \in Conn : made < c => ~Alive(c)
  BY <1>1 DEF Known
<1> QED BY <1>1, <1>2, <1>3, <1>4 DEF InOrder, Inv, Telling

LEMMA KnownKept == Inv /\ Known /\ Advances => Known'
<1> SUFFICES ASSUME Inv, Known, Advances, NEW c \in Conn, Alive(c)' PROVE c <= made'
  BY DEF Known
<1>1. made \in Nat /\ c \in Nat /\ made' \in {made, made + 1}
  BY ClientAssumption DEF Inv, Core, TypeOK, Conn, Advances
<1>2. CASE c = made + 1 /\ made' # made
  BY <1>1, <1>2
<1>3. CASE c # made + 1 \/ made' = made
  <2>1. c <= made
    BY <1>3 DEF Advances, Known
  <2> QED BY <1>1, <2>1
<1> QED BY <1>2, <1>3

\* Each connection that the client of a disciplined program makes has the life
\* that ConnectionLife promises, whichever threads dial, wait for it and connect
\* again, and whether the peer, a callback or a thread ends it: up once, then down
\* once, and not gone before; and neither connection() nor a functor brings back
\* one that is gone.
THEOREM ClientImplementsLife == AllDisciplined => (Spec => ImplementsLife)
<1> SUFFICES ASSUME AllDisciplined PROVE Spec => ImplementsLife
  OBVIOUS
<1> DEFINE E == [c \in Conn |-> Alive(c)]
<1>1. Init => CL!Init /\ Known
  <2> SUFFICES ASSUME Init, NEW c \in Conn
               PROVE  E[c] \in BOOLEAN /\ told[c] = "nothing" /\ Silent[c] = <<>> /\ ~Alive(c)
    BY DEF CL!Init, Known
  <2>1. c # None
    BY ClientAssumption DEF Conn
  <2>2. ~Alive(c)
    BY <2>1 DEF Init, Alive
  <2> QED BY <2>2 DEF Alive, Silent, Init
<1>2. InOrder /\ InOrder' /\ Advances => CL!Next
  <2> SUFFICES ASSUME InOrder, InOrder', Advances, NEW c \in Conn
               PROVE  \/ CL!Make(c) \/ CL!Establish(c) \/ CL!Stream(c) \/ CL!Close(c) \/ CL!Destroy(c)
                      \/ CL!Rest(c)
    BY DEF CL!Next
  <2>1. /\ made \in Nat /\ made' \in Nat /\ c \in Nat
        /\ Alive(c) \in BOOLEAN /\ Alive(c)' \in BOOLEAN
        /\ state[c] \in Was /\ state'[c] \in Was
        /\ told[c] = IF c <= made THEN Saying(state[c]) ELSE "nothing"
        /\ told'[c] = IF c <= made' THEN Saying(state'[c]) ELSE "nothing"
        /\ made < c => ~Alive(c)
        /\ made' < c => ~Alive(c)'
        /\ c <= made /\ state[c] # "KDisconnected" => Alive(c)
        /\ c <= made' /\ state'[c] # "KDisconnected" => Alive(c)'
    BY DEF InOrder
  <2>2. /\ E[c] = Alive(c) /\ E'[c] = Alive(c)'
        /\ Silent[c] = <<>> /\ Silent'[c] = <<>>
    BY DEF Silent
  <2>3. CL!IsPrefix(<<>>, <<>>)
    BY DEF CL!IsPrefix
  <2>4. made' \in {made, made + 1}
    BY DEF Advances
  <2>5. CASE c <= made
    <3>1. c <= made' /\ Goes(c) /\ (Alive(c)' => Alive(c))
      BY <2>1, <2>4, <2>5 DEF Advances
    <3>2. told[c] = Saying(state[c]) /\ told'[c] = Saying(state'[c])
      BY <2>1, <2>5, <3>1
    <3>3. CASE state'[c] = state[c]
      BY <2>1, <2>2, <2>5, <3>1, <3>2, <3>3 DEF CL!Rest, CL!Destroy, Saying
    <3>4. CASE state[c] = "KConnecting" /\ state'[c] = "KConnected"
      BY <2>1, <2>2, <2>5, <3>1, <3>2, <3>4 DEF CL!Establish, Saying
    <3>5. CASE Open(c) /\ state'[c] = "KDisconnected"
      BY <2>1, <2>2, <2>3, <2>5, <3>1, <3>2, <3>5 DEF CL!Close, CL!Flows, Open, Saying
    <3>6. CASE Open(c) /\ state'[c] = "KDisconnecting"
      BY <2>1, <2>2, <2>5, <3>1, <3>2, <3>6 DEF CL!Rest, Open, Saying
    <3> QED BY <3>1, <3>3, <3>4, <3>5, <3>6 DEF Goes
  <2>6. CASE made < c /\ made' < c
    BY <2>1, <2>2, <2>6 DEF CL!Rest
  <2>7. CASE made < c /\ c <= made'
    <3>1. c = made + 1 /\ made' # made
      BY <2>1, <2>4, <2>7
    <3>2. state'[c] = "KConnecting"
      BY <3>1 DEF Advances
    <3>3. told[c] = "nothing" /\ told'[c] = "nothing" /\ ~Alive(c) /\ Alive(c)'
      BY <2>1, <2>7, <3>2 DEF Saying
    <3> QED BY <2>1, <2>2, <3>3 DEF CL!Make
  <2> QED BY <2>1, <2>5, <2>6, <2>7
<1>3. Spec => []Inv
  BY Invariance
<1> QED BY <1>1, <1>2, <1>3, NextAdvances, OrderFacts, KnownKept, PTL
        DEF Spec, ImplementsLife, CL!Spec
=============================================================================
