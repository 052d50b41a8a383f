----------------------------- MODULE EPollPoller -----------------------------
(***************************************************************************)
(* net/channel/Channel, net/poller and the dispatch of EventLoop::loop:    *)
(* the registrations of the channels of one loop, in the program (events_, *)
(* index_, addedToLoop_, channels_) and in the kernel (the interest list   *)
(* of the epoll instance, which holds raw Channel pointers).               *)
(*                                                                         *)
(* The owners of channels are arbitrary: they may make any public call at  *)
(* any time on the loop's thread, in a callback or between two polls.  The *)
(* build keeps assert() on, so a failed assertion ends the program: failed *)
(* then names the function and nothing else happens.                       *)
(***************************************************************************)
EXTENDS Integers

CONSTANTS Channels,  \* addresses at which a Channel may live
          Fds,       \* file descriptors; the kernel reuses them after close
          None       \* no channel, no descriptor, no registration

Events == SUBSET {"read", "write"}
Registration == [ptr : Channels, events : Events]

ASSUME NoneAssumption == None \notin Channels \cup Fds \cup Registration

VARIABLES
    fd,              \* fd_ of each channel, None where no object lives
    events,          \* events_
    index,           \* index_
    addedToLoop,     \* addedToLoop_
    channels,        \* channels_: the Poller's map from descriptors
    epoll,           \* the kernel's interest list
    activeChannels,  \* activeChannels_ while eventHandling, empty otherwise
    todo,            \* those of activeChannels whose turn has not come yet
    current,         \* currentActiveChannel_
    eventHandling,   \* EventLoop::eventHandling_
    failed           \* the function whose assertion failed, or "none"

objVars == <<fd, events, index, addedToLoop, channels, epoll>>
loopVars == <<activeChannels, todo, current, eventHandling>>
vars == <<objVars, loopVars, failed>>

kNew_zero == 0
kNew == -1
kAdded == 1
kDeleted == 2

Init ==
    /\ fd = [c \in Channels |-> None]
    /\ events = [c \in Channels |-> {}]
    /\ index = [c \in Channels |-> -1]
    /\ addedToLoop = [c \in Channels |-> FALSE]
    /\ channels = [f \in Fds |-> None]
    /\ epoll = [f \in Fds |-> None]
    /\ activeChannels = {}
    /\ todo = {}
    /\ current = None
    /\ eventHandling = FALSE
    /\ failed = "none"

Alive(c) == fd[c] # None

\* The program's code runs on the loop thread: in the callback of the current
\* channel, or outside the dispatch (pending functors, code around loop()).
UserCode == failed = "none" /\ (eventHandling => current # None)

\* An assertion fails: abort().
Abort(function) == failed' = function /\ UNCHANGED <<objVars, loopVars>>
-----------------------------------------------------------------------------
(* The kernel.  A failing epoll_ctl leaves the list alone, and update()    *)
(* only logs it.                                                           *)

EpollCtl(op, f, c, ev) ==
    epoll' = [epoll EXCEPT ![f] =
        CASE op = "ADD" /\ @ = None -> [ptr |-> c, events |-> ev]
          [] op = "MOD" /\ @ # None -> [ptr |-> c, events |-> ev]
          [] op = "DEL" -> None
          [] OTHER -> @]
-----------------------------------------------------------------------------
(* Calls on a channel.                                                     *)

\* An owner opens a descriptor and builds a channel on it.
Construct(c, f) ==
    /\ UserCode
    /\ ~Alive(c)
    /\ \A d \in Channels : fd[d] # f
    /\ fd' = [fd EXCEPT ![c] = f]
    /\ events' = [events EXCEPT ![c] = {}]
    /\ index' = [index EXCEPT ![c] = -1]
    /\ addedToLoop' = [addedToLoop EXCEPT ![c] = FALSE]
    /\ UNCHANGED <<channels, epoll, loopVars, failed>>

\* The operation EPollPoller::updateChannel asks of the kernel.
CtlOp_newOnly(i, ev) == IF i = kNew THEN "ADD" ELSE IF ev = {} THEN "DEL" ELSE "MOD"
CtlOp(i, ev) ==
    IF i = kNew \/ i = kDeleted THEN "ADD" ELSE IF ev = {} THEN "DEL" ELSE "MOD"

\* updateChannel's assertions.
UpdateAsserts(c) ==
    /\ index[c] = kNew => channels[fd[c]] = None
    /\ index[c] = kDeleted => channels[fd[c]] = c

\* Channel::update() after events_ became ev.
Update(c, ev) ==
    LET op == CtlOp(index[c], ev) IN
    /\ UserCode
    /\ Alive(c)
    /\ failed' = IF UpdateAsserts(c) THEN "none" ELSE "updateChannel"
    /\ events' = [events EXCEPT ![c] = ev]
    /\ addedToLoop' = [addedToLoop EXCEPT ![c] = TRUE]
    /\ channels' = IF index[c] = kNew THEN [channels EXCEPT ![fd[c]] = c] ELSE channels
    /\ EpollCtl(op, fd[c], c, ev)
    /\ index' = [index EXCEPT ![c] = IF op = "DEL" THEN kDeleted ELSE kAdded]
    /\ UNCHANGED <<fd, loopVars>>

EnableReading(c) == Update(c, events[c] \cup {"read"})
DisableReading(c) == Update(c, events[c] \ {"read"})
EnableWriting(c) == Update(c, events[c] \cup {"write"})
DisableWriting(c) == Update(c, events[c] \ {"write"})
DisableAll(c) == Update(c, {})

\* EventLoop::removeChannel: while channels are handled, only the current one
\* or one that is not in the batch may leave.
RemoveInBatch_unchecked(c) == TRUE
RemoveInBatch(c) == eventHandling => current = c \/ c \notin activeChannels

IndexAfterRemove_deleted == kDeleted
IndexAfterRemove == kNew

\* Channel::remove().
Remove(c) ==
    /\ UserCode
    /\ Alive(c)
    /\ LET ok == events[c] = {} /\ RemoveInBatch(c) /\ channels[fd[c]] = c IN
       \/ ~ok /\ Abort("remove")
       \/ /\ ok
          /\ addedToLoop' = [addedToLoop EXCEPT ![c] = FALSE]
          /\ channels' = [channels EXCEPT ![fd[c]] = None]
          /\ IF index[c] = kAdded THEN EpollCtl("DEL", fd[c], c, {}) ELSE UNCHANGED epoll
          /\ index' = [index EXCEPT ![c] = IndexAfterRemove]
          /\ UNCHANGED <<fd, events, loopVars, failed>>

\* ~Channel, and then its owner closes the descriptor, which leaves epoll.
Destroy(c) ==
    /\ UserCode
    /\ Alive(c)
    /\ LET ok == current # c /\ ~addedToLoop[c] IN
       \/ ~ok /\ Abort("~Channel")
       \/ /\ ok
          /\ fd' = [fd EXCEPT ![c] = None]
          /\ epoll' = [epoll EXCEPT ![fd[c]] = None]
          /\ UNCHANGED <<events, index, addedToLoop, channels, loopVars, failed>>
-----------------------------------------------------------------------------
(* The loop.                                                               *)

\* epoll_wait reports some registered descriptors; EPOLLHUP and EPOLLERR are
\* reported even for a registration without events.
Poll(ready) ==
    /\ failed = "none" /\ ~eventHandling
    /\ \A f \in ready : epoll[f] # None
    /\ eventHandling' = TRUE
    /\ activeChannels' = {epoll[f].ptr : f \in ready}
    /\ todo' = activeChannels'
    /\ UNCHANGED <<objVars, current, failed>>

HandleEvent(c) ==
    /\ failed = "none" /\ eventHandling /\ current = None
    /\ c \in todo
    /\ todo' = todo \ {c}
    /\ current' = c
    /\ UNCHANGED <<objVars, activeChannels, eventHandling, failed>>

HandleEventReturns ==
    /\ failed = "none" /\ current # None
    /\ current' = None
    /\ UNCHANGED <<objVars, activeChannels, todo, eventHandling, failed>>

HandlingDone ==
    /\ failed = "none" /\ eventHandling /\ current = None /\ todo = {}
    /\ eventHandling' = FALSE
    /\ activeChannels' = {}
    /\ UNCHANGED <<objVars, todo, current, failed>>
-----------------------------------------------------------------------------
ChannelCall(c) ==
    \/ EnableReading(c) \/ DisableReading(c)
    \/ EnableWriting(c) \/ DisableWriting(c) \/ DisableAll(c)
    \/ Remove(c) \/ Destroy(c)
    \/ \E f \in Fds : Construct(c, f)

Next ==
    \/ \E c \in Channels : ChannelCall(c) \/ HandleEvent(c)
    \/ \E ready \in SUBSET Fds : Poll(ready)
    \/ HandleEventReturns \/ HandlingDone

Spec == Init /\ [][Next]_vars
-----------------------------------------------------------------------------
(* Properties.                                                             *)

\* Types of the variables.
TypeOK ==
    /\ fd \in [Channels -> Fds \cup {None}]
    /\ events \in [Channels -> Events]
    /\ index \in [Channels -> {kNew, kAdded, kDeleted}]
    /\ addedToLoop \in [Channels -> BOOLEAN]
    /\ channels \in [Fds -> Channels \cup {None}]
    /\ epoll \in [Fds -> Registration \cup {None}]
    /\ activeChannels \in SUBSET Channels
    /\ todo \in SUBSET activeChannels
    /\ current \in Channels \cup {None}
    /\ eventHandling \in BOOLEAN
    /\ failed \in {"none", "updateChannel", "remove", "~Channel"}

\* The kernel's list says what the program believes: a descriptor is watched
\* exactly when the live channel on it is kAdded, for the events of that
\* channel.  update() only logs a refused epoll_ctl, so nothing else would
\* notice a difference.
KernelAgrees ==
    \A f \in Fds : \A c \in Channels :
        /\ epoll[f] # None => fd[epoll[f].ptr] = f /\ index[epoll[f].ptr] = kAdded
        /\ fd[c] = f /\ index[c] = kAdded => epoll[f] = [ptr |-> c, events |-> events[c]]

\* No raw pointer outlives its channel: not in channels_, not in the kernel,
\* not in the part of activeChannels_ that loop() still has to call.  Owners
\* may misuse the calls; the assertions of removeChannel and ~Channel stop
\* every sequence of calls that would leave one behind.
NoDanglingPointer ==
    /\ \A f \in Fds : /\ channels[f] # None => fd[channels[f]] = f
                      /\ epoll[f] # None => fd[epoll[f].ptr] = f
    /\ \A c \in todo : Alive(c)
    /\ current # None => Alive(current)

\* The three records of a registration agree: addedToLoop_, index_ and
\* channels_ (so that hasChannel is addedToLoop_).
RecordsAgree ==
    \A c \in Channels : Alive(c) =>
        /\ addedToLoop[c] <=> index[c] # kNew
        /\ addedToLoop[c] <=> channels[fd[c]] = c
=============================================================================
