------------------------------ MODULE EventLoop ------------------------------
(***************************************************************************)
(* net/eventloop/EventLoop: one loop, the thread that owns it, and the     *)
(* other threads (Callers) that hand it functors or ask it to quit.        *)
(*                                                                         *)
(* A step of another thread is one visible access: the push under mutex_   *)
(* or the store to quit_, and then, separately, the write to the eventfd.  *)
(* What a callback of the user does while the loop runs it is a sequence   *)
(* of the same public calls, made on the loop's own thread.                *)
(* Channels other than wakeupChannel_ (sockets, the timerfd) are one       *)
(* abstract channel "io" whose callback is user code.                      *)
(***************************************************************************)
EXTENDS Naturals, Sequences

CONSTANTS Callers,   \* threads other than the loop's own
          Functors,  \* invocations of functors, each handed over once
          MaxQuits,  \* bound on the number of calls of quit()
          None       \* no functor is running

ASSUME ConstantsAssumption ==
    /\ MaxQuits \in Nat
    /\ None \notin Functors

VARIABLES
    pc,                      \* where the loop's own thread is
    quit,                    \* quit_
    callingPendingFunctors,  \* callingPendingFunctors_
    activeChannels,          \* activeChannels_ still to be handled
    currentActiveChannel,    \* TRUE while the callback of "io" runs
    pendingFunctors,         \* pendingFunctors_, guarded by mutex_
    functors,                \* the local vector of doPendingFunctors
    running,                 \* the functor of that vector being called
    wakeupFd,                \* the counter of the eventfd
    caller,                  \* "idle", or "wakeup": still has to write wakeupFd
    fresh, executed,         \* functors not handed over; functors started
    early,                   \* queued by the owner while loop() was not running
    quits                    \* calls of quit() so far

vars == <<pc, quit, callingPendingFunctors, activeChannels, currentActiveChannel,
          pendingFunctors, functors, running, wakeupFd, caller,
          fresh, executed, early, quits>>

loopVars == <<pc, callingPendingFunctors, activeChannels, currentActiveChannel,
              functors, running>>
callVars == <<quit, caller, quits>>
taskVars == <<pendingFunctors, fresh, executed, early>>

\* looping_ is TRUE exactly between the entry to loop() and its return.
Looping == pc # "idle"

\* Elements of a vector of functors.
Elems(s) == {s[i] : i \in 1..Len(s)}

Init_uninitialised == \* callingPendingFunctors_ left out of the constructor
    /\ pc = "idle" /\ quit = FALSE /\ callingPendingFunctors = None
    /\ activeChannels = {} /\ currentActiveChannel = FALSE
    /\ pendingFunctors = <<>> /\ functors = <<>> /\ running = None
    /\ wakeupFd = 0 /\ caller = [c \in Callers |-> "idle"] /\ quits = 0
    /\ fresh = Functors /\ executed = <<>> /\ early = {}

Init ==
    /\ pc = "idle"
    /\ quit = FALSE
    /\ callingPendingFunctors = FALSE
    /\ activeChannels = {}
    /\ currentActiveChannel = FALSE
    /\ pendingFunctors = <<>>
    /\ functors = <<>>
    /\ running = None
    /\ wakeupFd = 0
    /\ caller = [c \in Callers |-> "idle"]
    /\ fresh = Functors
    /\ executed = <<>>
    /\ early = {}
    /\ quits = 0

\* queueInLoop's condition for wakeup().
MustWakeup_others(inLoopThread) == ~inLoopThread
MustWakeup_flag(inLoopThread) == callingPendingFunctors
MustWakeup(inLoopThread) == ~inLoopThread \/ callingPendingFunctors

\* quit()'s condition for wakeup().
QuitMustWakeup_never(inLoopThread) == FALSE
QuitMustWakeup(inLoopThread) == ~inLoopThread

\* What the swap of doPendingFunctors leaves in pendingFunctors_.
AfterSwap_copy == pendingFunctors
AfterSwap == <<>>
-----------------------------------------------------------------------------
(* The owner thread inside loop().                                         *)

\* Entry of loop(): quit_ is cleared, whatever was requested before.
LoopStart ==
    /\ pc = "idle"
    /\ pc' = "check"
    /\ quit' = FALSE
    /\ UNCHANGED <<callingPendingFunctors, activeChannels,
                   currentActiveChannel, functors, running, wakeupFd, caller,
                   quits, taskVars>>

\* while (!quit_): leave loop(), or clear activeChannels_ and block in poll.
LoopTest ==
    /\ pc = "check"
    /\ pc' = IF quit THEN "idle" ELSE "poll"
    /\ UNCHANGED <<callingPendingFunctors, activeChannels,
                   currentActiveChannel, functors, running, wakeupFd,
                   callVars, taskVars>>

\* epoll_wait returns: wakeupFd is reported exactly when it is readable.
Poll(ready) ==
    /\ pc = "poll"
    /\ "wakeup" \in ready <=> wakeupFd > 0
    /\ pc' = "handle"
    /\ activeChannels' = ready
    /\ UNCHANGED <<callingPendingFunctors, currentActiveChannel, functors,
                   running, wakeupFd, callVars, taskVars>>

PollWoken == wakeupFd > 0 /\ \E io \in SUBSET {"io"} : Poll({"wakeup"} \cup io)

\* I/O is ready, kPollTimeMs elapsed, or epoll_wait failed: no channel then.
PollOther == wakeupFd = 0 /\ \E io \in SUBSET {"io"} : Poll(io)

\* The read callback of wakeupChannel_ empties the eventfd.
HandleRead ==
    /\ pc = "handle" /\ ~currentActiveChannel
    /\ "wakeup" \in activeChannels
    /\ activeChannels' = activeChannels \ {"wakeup"}
    /\ wakeupFd' = 0
    /\ UNCHANGED <<pc, callingPendingFunctors, currentActiveChannel, functors,
                   running, callVars, taskVars>>

HandleEventBegin ==
    /\ pc = "handle" /\ ~currentActiveChannel
    /\ "io" \in activeChannels
    /\ activeChannels' = activeChannels \ {"io"}
    /\ currentActiveChannel' = TRUE
    /\ UNCHANGED <<pc, callingPendingFunctors, functors, running, wakeupFd,
                   callVars, taskVars>>

HandleEventEnd ==
    /\ currentActiveChannel
    /\ currentActiveChannel' = FALSE
    /\ UNCHANGED <<pc, callingPendingFunctors, activeChannels, functors,
                   running, wakeupFd, callVars, taskVars>>

\* All channels handled: doPendingFunctors() raises its flag ...
DoPendingBegin ==
    /\ pc = "handle" /\ ~currentActiveChannel /\ activeChannels = {}
    /\ pc' = "swap"
    /\ callingPendingFunctors' = TRUE
    /\ UNCHANGED <<activeChannels, currentActiveChannel, functors, running,
                   wakeupFd, callVars, taskVars>>

\* ... and takes the whole vector under mutex_.
DoPendingSwap ==
    /\ pc = "swap"
    /\ pc' = "run"
    /\ functors' = pendingFunctors
    /\ pendingFunctors' = AfterSwap
    /\ early' = {}
    /\ UNCHANGED <<callingPendingFunctors, activeChannels,
                   currentActiveChannel, running, wakeupFd, fresh, executed,
                   callVars>>

FunctorBegin ==
    /\ pc = "run" /\ running = None /\ functors # <<>>
    /\ running' = Head(functors)
    /\ functors' = Tail(functors)
    /\ executed' = Append(executed, Head(functors))
    /\ UNCHANGED <<pc, callingPendingFunctors, activeChannels,
                   currentActiveChannel, pendingFunctors, wakeupFd, fresh,
                   early, callVars>>

FunctorEnd ==
    /\ running # None
    /\ running' = None
    /\ UNCHANGED <<pc, callingPendingFunctors, activeChannels,
                   currentActiveChannel, functors, wakeupFd, callVars,
                   taskVars>>

DoPendingEnd ==
    /\ pc = "run" /\ running = None /\ functors = <<>>
    /\ pc' = "check"
    /\ callingPendingFunctors' = FALSE
    /\ UNCHANGED <<activeChannels, currentActiveChannel, functors, running,
                   wakeupFd, callVars, taskVars>>
-----------------------------------------------------------------------------
(* Calls made on the owner thread: by its own code while loop() is not     *)
(* running, by the callback of a channel, or by a functor.                 *)

OnLoopThread == pc = "idle" \/ currentActiveChannel \/ running # None

QueueInLoopHere(f) ==
    /\ OnLoopThread
    /\ f \in fresh
    /\ fresh' = fresh \ {f}
    /\ pendingFunctors' = Append(pendingFunctors, f)
    /\ wakeupFd' = IF MustWakeup(TRUE) THEN wakeupFd + 1 ELSE wakeupFd
    /\ early' = IF Looping THEN early ELSE early \cup {f}
    /\ UNCHANGED <<loopVars, executed, callVars>>

\* runInLoop on the owner thread calls the functor in place.
RunInLoopHere(f) ==
    /\ OnLoopThread
    /\ f \in fresh
    /\ fresh' = fresh \ {f}
    /\ executed' = Append(executed, f)
    /\ UNCHANGED <<loopVars, pendingFunctors, wakeupFd, early, callVars>>

\* quit() on the owner thread needs no wakeup: loop() is not in poll.
QuitHere ==
    /\ OnLoopThread
    /\ quits < MaxQuits
    /\ quits' = quits + 1
    /\ quit' = TRUE
    /\ wakeupFd' = IF QuitMustWakeup(TRUE) THEN wakeupFd + 1 ELSE wakeupFd
    /\ UNCHANGED <<loopVars, caller, taskVars>>
-----------------------------------------------------------------------------
(* Calls made on another thread c.                                         *)

\* queueInLoop, and runInLoop which defers to it: push under mutex_ ...
QueueInLoop(c, f) ==
    /\ caller[c] = "idle"
    /\ f \in fresh
    /\ fresh' = fresh \ {f}
    /\ pendingFunctors' = Append(pendingFunctors, f)
    /\ caller' = [caller EXCEPT ![c] = IF MustWakeup(FALSE) THEN "wakeup" ELSE "idle"]
    /\ UNCHANGED <<loopVars, quit, wakeupFd, executed, early, quits>>

Quit(c) ==
    /\ caller[c] = "idle"
    /\ quits < MaxQuits
    /\ quits' = quits + 1
    /\ quit' = TRUE
    /\ caller' = [caller EXCEPT ![c] = IF QuitMustWakeup(FALSE) THEN "wakeup" ELSE "idle"]
    /\ UNCHANGED <<loopVars, wakeupFd, taskVars>>

\* ... then wakeup() writes 1 to the eventfd.
Wakeup(c) ==
    /\ caller[c] = "wakeup"
    /\ caller' = [caller EXCEPT ![c] = "idle"]
    /\ wakeupFd' = wakeupFd + 1
    /\ UNCHANGED <<loopVars, quit, quits, taskVars>>
-----------------------------------------------------------------------------
\* What the owner thread does by itself once it is in loop() and not blocked.
LoopStep ==
    \/ LoopTest \/ PollWoken
    \/ HandleRead \/ HandleEventBegin \/ HandleEventEnd
    \/ DoPendingBegin \/ DoPendingSwap \/ FunctorBegin \/ FunctorEnd \/ DoPendingEnd

UserCallHere == QuitHere \/ \E f \in Functors : QueueInLoopHere(f) \/ RunInLoopHere(f)

CallerStep(c) == Quit(c) \/ Wakeup(c) \/ \E f \in Functors : QueueInLoop(c, f)

Next ==
    \/ LoopStart \/ LoopStep \/ PollOther \/ UserCallHere
    \/ \E c \in Callers : CallerStep(c)

Spec == Init /\ [][Next]_vars

\* The scheduler runs every thread, and callbacks and functors return.
\* Nothing makes I/O arrive, and no property may lean on the poll timeout.
Fairness == WF_vars(LoopStep) /\ \A c \in Callers : WF_vars(Wakeup(c))

FairSpec == Spec /\ Fairness
-----------------------------------------------------------------------------
(* Properties.                                                             *)

PCs == {"idle", "check", "poll", "handle", "swap", "run"}

\* Types of the variables.
TypeOK ==
    /\ pc \in PCs
    /\ quit \in BOOLEAN
    /\ callingPendingFunctors \in BOOLEAN
    /\ activeChannels \in SUBSET {"wakeup", "io"}
    /\ currentActiveChannel \in BOOLEAN
    /\ pendingFunctors \in Seq(Functors)
    /\ functors \in Seq(Functors)
    /\ running \in Functors \cup {None}
    /\ wakeupFd \in Nat
    /\ caller \in [Callers -> {"idle", "wakeup"}]
    /\ fresh \in SUBSET Functors
    /\ executed \in Seq(Functors)
    /\ early \in SUBSET Functors
    /\ quits \in 0..MaxQuits

\* The eventfd is readable, or a thread is on its way to write it.
Announced == wakeupFd > 0 \/ \E c \in Callers : caller[c] = "wakeup"

\* The loop never blocks in epoll_wait on work it was handed: whenever it is
\* in poll and pendingFunctors_ holds a functor, the eventfd is readable or
\* about to be, although handleRead empties it while other threads push and
\* the owner itself pushes without writing it (queueInLoop's condition).
\* Functors the owner queued before loop() are not announced: see the README.
NoLostWakeup ==
    pc = "poll" /\ (\E f \in Elems(pendingFunctors) : f \notin early) => Announced

\* Likewise a request to quit: if quit_ is set and the loop blocks all the
\* same, the thread that set it has yet to write the eventfd, or has done so.
NoLostQuit == pc = "poll" /\ quit => Announced

\* The loop is a serial executor: functors run in the order of the pushes
\* under mutex_, once each, across swaps and nested calls of queueInLoop.
TQ == INSTANCE TaskQueue WITH queue <- functors \o pendingFunctors
SerialExecutor == TQ!Spec

\* A functor handed to a running loop is run without any help from I/O or
\* from the poll timeout, unless the loop is told to quit and leaves first.
EveryFunctorRuns ==
    \A f \in Functors :
        f \in Elems(pendingFunctors) /\ f \notin early
            ~> f \in Elems(executed) \/ ~Looping

\* quit() makes a loop that has started leave loop(), whichever thread calls it.
QuitTakesEffect == quit /\ Looping ~> ~Looping
=============================================================================
