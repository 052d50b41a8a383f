---------------------------- MODULE TcpConnection ----------------------------
(***************************************************************************)
(* net/Tcp/TcpConnection: the life of one connection accepted by a         *)
(* TcpServer.  Three parties act on it: its I/O loop, the base loop that   *)
(* owns the connections_ map, and user threads that hold a                 *)
(* TcpConnectionPtr.                                                       *)
(*                                                                         *)
(* The I/O loop is used by its promise (module TaskQueue): functors run in *)
(* the order of the pushes; an iteration is poll, the callbacks of the     *)
(* channel, then the functors queued so far.  The poller is used by the    *)
(* promise of module EPollPoller: the kernel watches the channel exactly   *)
(* while its index_ is kAdded.                                             *)
(*                                                                         *)
(* client says what the program does with the connection: which calls its  *)
(* code makes, how the peer may leave and whether the server dies first.   *)
(* A failed assertion ends the program: failed then names the function.    *)
(*                                                                         *)
(* send() and startRead() of another thread queue the raw this.  A thread  *)
(* is taken to keep its pointer until these functors have run.             *)
(***************************************************************************)
EXTENDS Naturals, Sequences, SequencesExt

CONSTANTS
    Threads,        \* user threads other than the two loops'
    Messages,       \* payloads, each of MsgLen bytes and sent once
    MsgLen,
    HighWaterMark,  \* highWaterMark_
    Clients,        \* programs that use the connection, as records of
                    \*   loopCalls: calls made on the I/O loop's thread,
                    \*   threadCalls: calls that Threads make,
                    \*   peerEnds: how the peer may leave, "closed" (FIN) or "reset",
                    \*   serverDies: is the TcpServer destroyed while loops run?
                    \*   maxCloses: how often forceClose() is called at most
    None

ASSUME ConstantsAssumption ==
    /\ MsgLen \in Nat \ {0} /\ HighWaterMark \in Nat
    /\ Clients \subseteq
         [loopCalls : SUBSET {"send", "forceClose", "stopRead", "stopReadInFunctor",
                              "startRead"},
          threadCalls : SUBSET {"send", "forceClose", "startRead"},
          peerEnds : SUBSET {"closed", "reset"},
          serverDies : BOOLEAN,
          maxCloses : Nat]
    /\ None \notin Messages

VARIABLES
    client,        \* which of Clients the program is; it never changes
    state,         \* state_
    reading,       \* reading_
    events,        \* channel_->events_
    index,         \* channel_->index_
    outputBuffer,  \* outputBuffer_, a sequence of bytes
    sent,          \* bytes the kernel took, in order
    peer,          \* "open", or how it left
    io,            \* the I/O loop: "poll", "handle" (callbacks), "run" (functors)
    revents,       \* callbacks handleEventWithGuard still has to make
    functors,      \* functors of the I/O loop about this connection
    batch,         \* how many of them doPendingFunctors took
    owned,         \* connections_ holds the connection
    server,        \* "alive" or "destroyed"
    removals,      \* removeConnectionInLoop calls queued in the base loop
    held,          \* threads that hold a TcpConnectionPtr
    thread,        \* where each thread is inside forceClose()
    unsent,        \* messages not given to send() yet
    accepted,      \* bytes sendInLoop took charge of
    lost,          \* it dropped some after a fatal error
    up, down,      \* calls of connectionCallback_ with and without connected()
    closes,        \* calls of forceClose()
    failed         \* function whose assertion failed, or "none"

chanVars == <<reading, events, index>>
dataVars == <<outputBuffer, sent, accepted, lost>>
ownVars == <<owned, server, removals>>
userVars == <<held, thread, unsent, closes>>
vars == <<client, state, chanVars, dataVars, peer, io, revents, functors, batch,
          ownVars, userVars, up, down, failed>>

Task(op) == [op |-> op, msg |-> None]
Bytes(m) == [i \in 1..MsgLen |-> <<m, i>>]

\* TcpServer::newConnection has built the connection, put it in connections_
\* and pushed connectEstablished.
Init ==
    /\ client \in Clients
    /\ state = "KConnecting"
    /\ reading = TRUE
    /\ events = {}
    /\ index = "kNew"
    /\ outputBuffer = <<>> /\ sent = <<>> /\ accepted = <<>> /\ lost = FALSE
    /\ peer = "open"
    /\ io = "poll" /\ revents = {} /\ batch = 0
    /\ functors = <<Task("connectEstablished")>>
    /\ owned = TRUE /\ server = "alive" /\ removals = 0
    /\ held = {} /\ thread = [t \in Threads |-> "idle"]
    /\ unsent = Messages /\ closes = 0
    /\ up = 0 /\ down = 0
    /\ failed = "none"

\* Functors bound to shared_from_this() keep the object alive, functors bound
\* to the raw this do not.
Raw == {"send", "startRead"}
Strong(f) == f.op \notin Raw

\* Somebody has a shared_ptr to the connection: the map, a functor of either
\* loop, a thread, or the guard that handleEvent takes from tie_.
Alive ==
    \/ owned \/ removals > 0 \/ held # {} \/ revents # {}
    \/ \E i \in DOMAIN functors : Strong(functors[i])

Open == state \in {"KConnected", "KDisconnecting"}

\* What enableWriting(), disableWriting() and disableAll() leave in events_.
WritingOn_off == events
WritingOn == events \cup {"write"}
WritingOff_on == events
WritingOff == events \ {"write"}
AllOff_on == events
AllOff == {}

\* Channel::update() with events_ = ev, as EPollPoller::updateChannel does it:
\* index_ afterwards when it was i.
Updated(i, ev) == IF i = "kAdded" /\ ev = {} THEN "kDeleted" ELSE "kAdded"

SetEvents(ev) == events' = ev /\ index' = Updated(index, ev)
-----------------------------------------------------------------------------
(* Handlers; q is the queue of functors the handler starts from.           *)

\* sendInLoop: the outcome of the direct write: bytes taken, fatal or not.
\* The socket of a connection the peer reset fails with EPIPE, and whether
\* errno survives the logging before it is looked at again is left open.
WriteOutcomes(len) ==
    IF peer = "reset" THEN [n : {0}, fatal : BOOLEAN]
    ELSE [n : 0..len, fatal : {FALSE}]

\* May sendInLoop write at once, ahead of outputBuffer_?
DirectWrite_always == TRUE
DirectWrite == "write" \notin events /\ outputBuffer = <<>>

Remaining(bytes, n) == SubSeq(bytes, n + 1, Len(bytes))

SendInLoop(m, q) ==
    IF state = "KDisconnected"
    THEN functors' = q /\ UNCHANGED <<dataVars, events, index>>
    ELSE \E w \in IF DirectWrite THEN WriteOutcomes(MsgLen) ELSE [n : {0}, fatal : {FALSE}] :
         LET rest == Remaining(Bytes(m), w.n)
             keep == ~w.fatal /\ rest # <<>>
             old == Len(outputBuffer)
             high == keep /\ old + Len(rest) >= HighWaterMark /\ old < HighWaterMark
         IN  /\ accepted' = accepted \o Bytes(m)
             /\ sent' = sent \o SubSeq(Bytes(m), 1, w.n)
             /\ lost' = (lost \/ w.fatal)
             /\ outputBuffer' = IF keep THEN outputBuffer \o rest ELSE outputBuffer
             /\ functors' = q \o (IF rest = <<>> THEN <<Task("writeComplete")>> ELSE <<>>)
                              \o (IF high THEN <<Task("highWaterMark")>> ELSE <<>>)
             /\ IF keep /\ "write" \notin events
                THEN SetEvents(WritingOn) ELSE UNCHANGED <<events, index>>

\* handleClose, up to closeCallback_, which is TcpServer::removeConnection
\* bound to the raw server.  i is index_ before disableAll().
HandleCloseFrom(i) ==
    /\ failed' = IF ~Open THEN "handleClose"
                 ELSE IF server = "destroyed" THEN "removeConnection" ELSE "none"
    /\ state' = "KDisconnected"
    /\ events' = AllOff /\ index' = Updated(i, AllOff)
    /\ down' = down + 1
    /\ removals' = removals + 1

HandleClose == HandleCloseFrom(index)

NoClose == UNCHANGED <<state, events, index, down, removals, failed>>

ForceCloseInLoop_connected == IF state = "KConnected" THEN HandleClose ELSE NoClose
ForceCloseInLoop == IF Open THEN HandleClose ELSE NoClose
-----------------------------------------------------------------------------
(* The I/O loop.                                                           *)

\* Callbacks the kernel's report may lead to; epoll is level-triggered, so a
\* peer that left is reported.  EPOLLHUP comes without being asked for, and
\* without EPOLLIN only when reading is off.
Reported ==
    LET hup == IF peer = "reset" /\ "read" \notin events THEN {"close"} ELSE {}
        sure == IF peer = "open" THEN {} ELSE hup \cup (events \cap {"read"})
    IN  IF index = "kAdded" THEN {r \in SUBSET (events \cup hup) : sure \subseteq r} ELSE {{}}

Poll(r) ==
    /\ failed = "none" /\ io = "poll"
    /\ r \in Reported
    /\ r # {} \/ functors # <<>>
    /\ io' = "handle" /\ revents' = r
    /\ UNCHANGED <<client, state, chanVars, dataVars, peer, functors, batch, ownVars,
                   userVars, up, down, failed>>

\* handleEventWithGuard calls close, read and write callbacks in this order.
Turn(e) ==
    /\ failed = "none" /\ io = "handle"
    /\ e \in revents
    /\ e = "read" => "close" \notin revents
    /\ e = "write" => revents = {"write"}
    /\ revents' = revents \ {e}
    /\ UNCHANGED <<client, io, peer, reading, batch, owned, server, userVars, up>>

HandleHup ==
    /\ Turn("close")
    /\ HandleClose
    /\ UNCHANGED <<dataVars, functors>>

\* handleRead: once the peer has left, readFd returns 0 after the data still
\* there; before that it returns data, or an error that is only logged.
HandleReadClose ==
    /\ Turn("read")
    /\ peer # "open"
    /\ HandleClose
    /\ UNCHANGED <<dataVars, functors>>

HandleReadOther ==
    /\ Turn("read")
    /\ NoClose
    /\ UNCHANGED <<dataVars, functors>>

\* handleWrite writes n bytes of outputBuffer_; drained, it stops watching,
\* and finishes a forceClose() in progress.
HandleWrite(n) ==
    LET drained == n = Len(outputBuffer) IN
    /\ Turn("write")
    /\ "write" \in events /\ peer # "reset"
    /\ n \in 1..Len(outputBuffer)
    /\ outputBuffer' = SubSeq(outputBuffer, n + 1, Len(outputBuffer))
    /\ sent' = sent \o SubSeq(outputBuffer, 1, n)
    /\ functors' = IF drained THEN Append(functors, Task("writeComplete")) ELSE functors
    /\ IF drained /\ state = "KDisconnecting"
       THEN HandleCloseFrom(Updated(index, WritingOff))
       ELSE /\ IF drained THEN SetEvents(WritingOff) ELSE UNCHANGED <<events, index>>
            /\ UNCHANGED <<state, down, removals, failed>>
    /\ UNCHANGED <<accepted, lost>>

\* handleWrite after the channel was closed, or on a dead socket: only logs.
HandleWriteNothing ==
    /\ Turn("write")
    /\ "write" \notin events \/ peer = "reset"
    /\ NoClose
    /\ UNCHANGED <<dataVars, functors>>

\* doPendingFunctors takes what is queued.
Swap ==
    /\ failed = "none" /\ io = "handle" /\ revents = {}
    /\ batch' = Len(functors)
    /\ io' = IF functors = <<>> THEN "poll" ELSE "run"
    /\ UNCHANGED <<client, state, chanVars, dataVars, peer, revents, functors, ownVars,
                   userVars, up, down, failed>>

AfterFunctor_stuck == batch
AfterFunctor == batch - 1

\* The next functor of the batch is op.  A functor bound to the raw this of a
\* destroyed connection is undefined behaviour: the model stops there.
Run(op) ==
    /\ failed = "none" /\ io = "run"
    /\ functors # <<>> /\ Head(functors).op = op
    /\ Alive
    /\ batch' = AfterFunctor
    /\ io' = IF AfterFunctor = 0 THEN "poll" ELSE "run"
    /\ UNCHANGED <<client, peer, revents, owned, server, thread, unsent, closes>>

\* connectEstablished: the callback hands the pointer to the user.
ConnectEstablished ==
    /\ Run("connectEstablished")
    /\ failed' = IF state = "KConnecting" THEN "none" ELSE "connectEstablished"
    /\ state' = "KConnected"
    /\ SetEvents(events \cup {"read"})
    /\ up' = up + 1
    /\ held' = Threads
    /\ functors' = Tail(functors)
    /\ UNCHANGED <<reading, dataVars, removals, down>>

RunSend ==
    /\ Run("send")
    /\ SendInLoop(Head(functors).msg, Tail(functors))
    /\ UNCHANGED <<state, reading, removals, held, up, down, failed>>

RunForceClose ==
    /\ Run("forceClose")
    /\ ForceCloseInLoop
    /\ functors' = Tail(functors)
    /\ UNCHANGED <<reading, dataVars, held, up>>

\* startRead() binds stopReadInLoop, which is the one that enables reading.
StopReadInLoop_flag == reading' = TRUE /\ UNCHANGED <<events, index>>
StopReadInLoop ==
    IF ~reading \/ "read" \notin events
    THEN SetEvents(events \cup {"read"}) /\ reading' = TRUE
    ELSE UNCHANGED chanVars

RunStartRead ==
    /\ Run("startRead")
    /\ StopReadInLoop
    /\ functors' = Tail(functors)
    /\ UNCHANGED <<state, dataVars, removals, held, up, down, failed>>

\* The user's callbacks; what they call is UserCall below.
RunCallback ==
    /\ Run("writeComplete") \/ Run("highWaterMark")
    /\ functors' = Tail(functors)
    /\ UNCHANGED <<state, chanVars, dataVars, removals, held, up, down, failed>>

\* connectDestroyed tells the user if handleClose has not.
DestroyedCallback_always == down + 1
DestroyedCallback == IF state = "KConnected" THEN down + 1 ELSE down

\* connectDestroyed; Channel::remove() asserts that no event is enabled and
\* that the poller knows the channel.
ConnectDestroyed ==
    LET ev == IF state = "KConnected" THEN AllOff ELSE events IN
    /\ Run("connectDestroyed")
    /\ state' = IF state = "KConnected" THEN "KDisconnected" ELSE state
    /\ down' = DestroyedCallback
    /\ failed' = IF ev = {} /\ (state = "KConnected" \/ index # "kNew") THEN "none" ELSE "remove"
    /\ events' = ev /\ index' = "kNew"
    /\ functors' = Tail(functors)
    /\ UNCHANGED <<reading, dataVars, removals, held, up>>

IoStep ==
    \/ \E r \in SUBSET {"close", "read", "write"} : Poll(r)
    \/ HandleHup \/ HandleReadClose \/ HandleReadOther
    \/ (\E n \in 1..Len(outputBuffer) : HandleWrite(n)) \/ HandleWriteNothing
    \/ Swap \/ ConnectEstablished \/ RunSend \/ RunForceClose \/ RunStartRead
    \/ RunCallback \/ ConnectDestroyed
-----------------------------------------------------------------------------
(* User code on the I/O loop's thread: callbacks of this connection, of    *)
(* other channels or of timers.  It uses the connection from the callback  *)
(* that announces it to the one that says it is down.                      *)

UserCall(op) ==
    /\ failed = "none" /\ op \in client.loopCalls
    /\ up = 1 /\ down = 0
    /\ UNCHANGED <<client, peer, io, revents, batch, ownVars, held, thread, up, down, failed>>

UserSend(m) ==
    /\ UserCall("send")
    /\ m \in unsent /\ unsent' = unsent \ {m}
    /\ SendInLoop(m, functors)
    /\ UNCHANGED <<state, reading, closes>>

UserForceClose ==
    /\ UserCall("forceClose")
    /\ Open /\ closes < client.maxCloses
    /\ closes' = closes + 1
    /\ state' = "KDisconnecting"
    /\ functors' = Append(functors, Task("forceClose"))
    /\ UNCHANGED <<chanVars, dataVars, unsent>>

\* In any callback, or only in those that run as functors.
UserStopRead ==
    /\ UserCall("stopRead") \/ (UserCall("stopReadInFunctor") /\ io = "run")
    /\ reading \/ "read" \in events
    /\ SetEvents(events \ {"read"})
    /\ reading' = FALSE
    /\ UNCHANGED <<state, dataVars, functors, unsent, closes>>

UserStartRead ==
    /\ UserCall("startRead")
    /\ StopReadInLoop
    /\ UNCHANGED <<state, dataVars, functors, unsent, closes>>
-----------------------------------------------------------------------------
(* User threads.                                                           *)

ThreadStep(t) ==
    /\ failed = "none" /\ t \in held
    /\ UNCHANGED <<client, chanVars, dataVars, peer, io, revents, batch, ownVars, up, down, failed>>

ThreadSend(t, m) ==
    /\ ThreadStep(t)
    /\ "send" \in client.threadCalls /\ thread[t] = "idle"
    /\ m \in unsent /\ unsent' = unsent \ {m}
    /\ functors' = Append(functors, [op |-> "send", msg |-> m])
    /\ UNCHANGED <<state, held, thread, closes>>

\* One request to start reading is in the queue at a time: a bound.
ThreadStartRead(t) ==
    /\ ThreadStep(t)
    /\ "startRead" \in client.threadCalls /\ thread[t] = "idle"
    /\ \A i \in DOMAIN functors : functors[i].op # "startRead"
    /\ functors' = Append(functors, Task("startRead"))
    /\ UNCHANGED <<state, held, thread, unsent, closes>>

\* forceClose() reads state_, writes it, then pushes: three steps.
ThreadForceCloseTest(t) ==
    /\ ThreadStep(t)
    /\ "forceClose" \in client.threadCalls /\ thread[t] = "idle"
    /\ Open /\ closes < client.maxCloses
    /\ closes' = closes + 1
    /\ thread' = [thread EXCEPT ![t] = "store"]
    /\ UNCHANGED <<state, functors, held, unsent>>

ThreadForceCloseStore(t) ==
    /\ ThreadStep(t)
    /\ thread[t] = "store"
    /\ state' = "KDisconnecting"
    /\ thread' = [thread EXCEPT ![t] = "push"]
    /\ UNCHANGED <<functors, held, unsent, closes>>

ThreadForceClosePush(t) ==
    /\ ThreadStep(t)
    /\ thread[t] = "push"
    /\ functors' = Append(functors, Task("forceClose"))
    /\ thread' = [thread EXCEPT ![t] = "idle"]
    /\ UNCHANGED <<state, held, unsent, closes>>

\* The thread drops its pointer.
ThreadRelease(t) ==
    /\ ThreadStep(t)
    /\ thread[t] = "idle"
    /\ \A i \in DOMAIN functors : Strong(functors[i])
    /\ held' = held \ {t}
    /\ UNCHANGED <<state, functors, thread, unsent, closes>>
-----------------------------------------------------------------------------
(* The base loop, and the peer.                                            *)

\* What the server pushes to the connection's loop when it lets it go.
Farewell == <<Task("connectDestroyed")>>

\* removeConnectionInLoop, bound to the raw server, asserts that the map held
\* the connection.
RemoveConnectionInLoop ==
    /\ failed = "none" /\ removals > 0
    /\ failed' = IF server = "alive" /\ owned THEN "none" ELSE "removeConnectionInLoop"
    /\ owned' = FALSE
    /\ removals' = removals - 1
    /\ functors' = functors \o Farewell
    /\ UNCHANGED <<client, state, chanVars, dataVars, peer, io, revents, batch, server,
                   userVars, up, down>>

\* ~TcpServer hands every connection to its loop to be destroyed.
ServerDestroyed ==
    /\ failed = "none" /\ client.serverDies /\ server = "alive"
    /\ server' = "destroyed"
    /\ owned' = FALSE
    /\ functors' = IF owned THEN functors \o Farewell ELSE functors
    /\ UNCHANGED <<client, state, chanVars, dataVars, peer, io, revents, batch, removals,
                   userVars, up, down, failed>>

PeerLeaves ==
    /\ failed = "none" /\ peer = "open"
    /\ peer' \in client.peerEnds
    /\ UNCHANGED <<client, state, chanVars, dataVars, io, revents, functors, batch,
                   ownVars, userVars, up, down, failed>>
-----------------------------------------------------------------------------
Next ==
    \/ IoStep \/ RemoveConnectionInLoop \/ ServerDestroyed \/ PeerLeaves
    \/ UserForceClose \/ UserStopRead \/ UserStartRead
    \/ \E m \in Messages : UserSend(m) \/ \E t \in Threads : ThreadSend(t, m)
    \/ \E t \in Threads :
          \/ ThreadStartRead(t) \/ ThreadRelease(t)
          \/ ThreadForceCloseTest(t) \/ ThreadForceCloseStore(t) \/ ThreadForceClosePush(t)

Spec == Init /\ [][Next]_vars

\* The loops run; a peer that stays reads, so a channel that waits for room is
\* told of it; the data or the error before the end of file is finite;
\* threads finish their calls and drop their pointers.
Fairness ==
    /\ WF_vars(IoStep) /\ WF_vars(RemoveConnectionInLoop)
    /\ SF_vars(\E r \in SUBSET {"close", "read", "write"} : "write" \in r /\ Poll(r))
    /\ SF_vars(HandleReadClose)
    /\ \A t \in Threads : /\ WF_vars(ThreadForceCloseStore(t) \/ ThreadForceClosePush(t))
                         /\ WF_vars(ThreadRelease(t))

FairSpec == Spec /\ Fairness
-----------------------------------------------------------------------------
(* Properties.                                                             *)

Byte == Messages \X (1..MsgLen)
Op == {"connectEstablished", "connectDestroyed", "send", "forceClose", "startRead",
       "writeComplete", "highWaterMark"}

\* Types of the variables.
TypeOK ==
    /\ client \in Clients /\ state \in {"KConnecting", "KConnected", "KDisconnecting", "KDisconnected"}
    /\ reading \in BOOLEAN /\ lost \in BOOLEAN /\ owned \in BOOLEAN
    /\ events \in SUBSET {"read", "write"} /\ index \in {"kNew", "kAdded", "kDeleted"}
    /\ outputBuffer \in Seq(Byte) /\ sent \in Seq(Byte) /\ accepted \in Seq(Byte)
    /\ peer \in {"open", "closed", "reset"}
    /\ io \in {"poll", "handle", "run"} /\ batch \in 0..Len(functors)
    /\ revents \in SUBSET {"close", "read", "write"}
    /\ functors \in Seq([op : Op, msg : Messages \cup {None}])
    /\ server \in {"alive", "destroyed"} /\ removals \in Nat
    /\ held \in SUBSET Threads /\ thread \in [Threads -> {"idle", "store", "push"}]
    /\ unsent \in SUBSET Messages /\ closes \in 0..client.maxCloses
    /\ up \in Nat /\ down \in Nat

\* The peer gets the messages as one stream, in the order in which sendInLoop
\* took them, with no byte skipped or repeated where a direct write, a partial
\* write and outputBuffer_ meet; only a fatal error drops bytes.
StreamIntact ==
    /\ IsPrefix(sent, accepted)
    /\ ~lost => sent \o outputBuffer = accepted

\* The rules under which a program can use a connection accepted by a
\* TcpServer: another thread closes it at most once and only when nobody else
\* ends it, the server outlives connections that end by themselves, a thread
\* starts reading only on a connection that stays, and a connection that the
\* peer may reset stops reading only outside the channel's callbacks and is not
\* closed as well.
Disciplined(c) ==
    /\ "forceClose" \in c.threadCalls => c.peerEnds = {} /\ c.maxCloses <= 1
    /\ c.serverDies => c.peerEnds = {} /\ c.maxCloses = 0
    /\ "startRead" \in c.threadCalls => c.peerEnds = {} /\ c.maxCloses = 0 /\ ~c.serverDies
    /\ "reset" \in c.peerEnds =>
           /\ "stopRead" \notin c.loopCalls
           /\ "stopReadInFunctor" \in c.loopCalls => c.maxCloses = 0

\* While the connection is open the kernel is asked for EPOLLOUT exactly when
\* outputBuffer_ holds data: a missing request would strand the data, a left
\* over one would spin the loop (the comment in sendInLoop).
WriteInterest ==
    Open => /\ "write" \in events <=> outputBuffer # <<>>
            /\ "write" \in events => index = "kAdded"

\* reading_ is what the channel does while the connection is up, whichever
\* thread calls stopRead() and startRead().
ReadInterest == state = "KConnected" => (reading <=> "read" \in events)

\* The user hears of the connection once when it comes up and at most once
\* when it goes down, in this order, and both before it is destroyed: either
\* handleClose or connectDestroyed makes the second call, never both.
CallbacksPaired == down <= up /\ up <= 1 /\ (~Alive => down = up)

\* No assertion of TcpConnection, Channel::remove or TcpServer fails, no
\* callback of a destroyed TcpServer is called, and when the last pointer goes
\* the assertions of ~TcpConnection and ~Channel hold: the state is
\* KDisconnected and the poller has forgotten the channel.
NoAssertFails ==
    /\ failed = "none"
    /\ ~Alive => state = "KDisconnected" /\ index = "kNew"

\* What connectionCallback_ has said, the number of its calls included.
Said ==
    CASE up = 0 /\ down = 0 -> "nothing" [] up = 1 /\ down = 0 -> "up"
      [] up = 1 /\ down = 1 -> "down" [] OTHER -> "wrong"

CL == INSTANCE ConnectionLife
    WITH Conns <- {1}, exists <- <<Alive>>, told <- <<Said>>,
         accepted <- <<accepted>>, sent <- <<sent>>

\* A connection keeps the promise of ConnectionLife: the user is told once that
\* it is up and after it once that it is down, whichever of the peer, a thread,
\* the loop and the owner closes it first; send() and handleWrite extend one
\* stream, only in between; and the last TcpConnectionPtr goes after all that.
ImplementsLife == CL!Spec

\* A connection that is told to close is closed, taken from the map, removed
\* from the poller and destroyed in the end; so is one whose peer left, unless
\* it stops reading and does not hear of it.
ConnectionReleased ==
    /\ state = "KDisconnecting" ~> ~Alive
    /\ peer # "open" /\ up = 1 ~> ~Alive \/ ~reading

\* Data that could not be written at once is written later, unless the
\* connection goes down.
BacklogDrains == outputBuffer # <<>> ~> outputBuffer = <<>> \/ ~Open
=============================================================================
