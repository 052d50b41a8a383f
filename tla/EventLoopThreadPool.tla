------------------------- MODULE EventLoopThreadPool -------------------------
(***************************************************************************)
(* net/eventloop/EventLoopThread and EventLoopThreadPool: the owner thread *)
(* starts numThreads_ loop threads, deals connections out to their loops   *)
(* in turn, and destroys the pool.  Each EventLoop lives on the stack of   *)
(* its thread.  Of EventLoop itself only quit_, the eventfd and the shape  *)
(* of loop() are kept; module EventLoop has the rest.  Module TcpServer    *)
(* puts the pool to work: its next-state relation is made of these steps   *)
(* and its own, and its runs check the properties below.                   *)
(***************************************************************************)
EXTENDS Naturals, Sequences

CONSTANT MaxThreads  \* bound on numThreads_

T == 1..MaxThreads

VARIABLES
    numThreads, \* numThreads_
    owner,   \* the owner thread: the step of start() or ~EventLoopThread it is at
    cur,     \* the EventLoopThread it works on
    thread,  \* the step of threadFunc each loop thread is at
    loop,    \* loop_ is not null
    alive,   \* the EventLoop on the thread's stack exists
    quit,    \* its quit_
    wakeup,  \* its eventfd is readable
    loops,   \* loops_
    next,    \* next_
    failed   \* "none", or a null or dangling loop_ was used

poolVars == <<numThreads, loops, next>>
loopVars == <<thread, loop, alive, quit, wakeup>>
vars == <<owner, cur, loopVars, poolVars, failed>>

Init ==
    /\ numThreads = 0
    /\ owner = "setup" /\ cur = 1
    /\ thread = [t \in T |-> "none"]
    /\ loop = [t \in T |-> FALSE] /\ alive = [t \in T |-> FALSE]
    /\ quit = [t \in T |-> FALSE] /\ wakeup = [t \in T |-> FALSE]
    /\ loops = <<>> /\ next = 0
    /\ failed = "none"
-----------------------------------------------------------------------------
(* The owner thread, which runs the base loop: setThreadNum(), start(),    *)
(* getNextLoop(), then the destructor.                                     *)

At(pc) == failed = "none" /\ owner = pc

SetThreadNum(n) ==
    /\ At("setup")
    /\ numThreads' = n
    /\ UNCHANGED <<owner, cur, loopVars, loops, next, failed>>

\* start() without threads: the base loop does everything.
Start ==
    /\ At("setup")
    /\ owner' = IF numThreads = 0 THEN "deal" ELSE "spawn"
    /\ UNCHANGED <<cur, loopVars, poolVars, failed>>

Spawn ==
    /\ At("spawn")
    /\ thread' = [thread EXCEPT ![cur] = "construct"]
    /\ owner' = "wait"
    /\ UNCHANGED <<cur, loop, alive, quit, wakeup, poolVars, failed>>

\* cond_.wait tests its predicate first; asleep, it needs a notification.
Wait_noTest ==
    /\ At("wait")
    /\ owner' = "asleep"
    /\ UNCHANGED <<cur, loopVars, poolVars, failed>>
Wait_skip ==
    /\ At("wait")
    /\ owner' = "push"
    /\ UNCHANGED <<cur, loopVars, poolVars, failed>>
Wait ==
    /\ At("wait")
    /\ owner' = IF loop[cur] THEN "push" ELSE "asleep"
    /\ UNCHANGED <<cur, loopVars, poolVars, failed>>

\* startLoop returns; start() goes on with the next thread.
PushLoop ==
    /\ At("push")
    /\ loops' = Append(loops, cur)
    /\ owner' = IF cur = numThreads THEN "deal" ELSE "spawn"
    /\ cur' = IF cur = numThreads THEN 1 ELSE cur + 1
    /\ UNCHANGED <<loopVars, numThreads, next, failed>>

Following == IF next + 1 = numThreads THEN 0 ELSE next + 1

\* getNextLoop returns l; 0 is the base loop.
Deal(l) ==
    /\ At("deal")
    /\ l = IF numThreads = 0 THEN 0 ELSE loops[next + 1]
    /\ next' = IF numThreads = 0 THEN next ELSE Following
    /\ UNCHANGED <<numThreads, loops>>

\* The destructor, when the server has queued its last functors (and written
\* the eventfds of their loops).
Destroy ==
    /\ At("deal")
    /\ owner' = IF numThreads = 0 THEN "done" ELSE "quit"
    /\ UNCHANGED <<cur, thread, loop, alive, quit, poolVars, failed>>

\* loop_->quit(): the store to quit_ ...
Quit ==
    /\ At("quit")
    /\ failed' = IF loop[cur] THEN "none" ELSE "null"
    /\ quit' = [quit EXCEPT ![cur] = TRUE]
    /\ owner' = "wakeup"
    /\ UNCHANGED <<cur, thread, loop, alive, wakeup, poolVars>>

\* ... and then the eventfd of the same object.
Wakeup ==
    /\ At("wakeup")
    /\ failed' = IF alive[cur] THEN "none" ELSE "dangling"
    /\ wakeup' = [wakeup EXCEPT ![cur] = TRUE]
    /\ owner' = "join"
    /\ UNCHANGED <<cur, thread, loop, alive, quit, poolVars>>

Join ==
    /\ At("join") /\ thread[cur] = "done"
    /\ owner' = IF cur = numThreads THEN "done" ELSE "quit"
    /\ cur' = IF cur = numThreads THEN cur ELSE cur + 1
    /\ UNCHANGED <<loopVars, poolVars, failed>>
-----------------------------------------------------------------------------
(* threadFunc.                                                             *)

Step(t, from, to) ==
    /\ failed = "none" /\ thread[t] = from
    /\ thread' = [thread EXCEPT ![t] = to]
    /\ UNCHANGED <<cur, poolVars, failed>>

Construct(t) ==
    /\ Step(t, "construct", "publish")
    /\ alive' = [alive EXCEPT ![t] = TRUE]
    /\ UNCHANGED <<owner, loop, quit, wakeup>>

Publish(t) ==
    /\ Step(t, "publish", "enter")
    /\ loop' = [loop EXCEPT ![t] = TRUE]
    /\ owner' = IF owner = "asleep" /\ cur = t THEN "wait" ELSE owner
    /\ UNCHANGED <<alive, quit, wakeup>>

\* loop() begins with quit_ = false.
EnterLoop(t) ==
    /\ Step(t, "enter", "test")
    /\ quit' = [quit EXCEPT ![t] = FALSE]
    /\ UNCHANGED <<owner, loop, alive, wakeup>>

TestQuit(t) ==
    /\ Step(t, "test", IF quit[t] THEN "leave" ELSE "poll")
    /\ UNCHANGED <<owner, loop, alive, quit, wakeup>>

PollWoken(t) ==
    /\ wakeup[t]
    /\ Step(t, "poll", "test")
    /\ wakeup' = [wakeup EXCEPT ![t] = FALSE]
    /\ UNCHANGED <<owner, loop, alive, quit>>

\* I/O or the poll timeout; a readable eventfd would be reported.
PollOther(t) ==
    /\ ~wakeup[t]
    /\ Step(t, "poll", "test")
    /\ UNCHANGED <<owner, loop, alive, quit, wakeup>>

Leave(t) ==
    /\ Step(t, "leave", "unwind")
    /\ loop' = [loop EXCEPT ![t] = FALSE]
    /\ UNCHANGED <<owner, alive, quit, wakeup>>

\* ~EventLoop: the object on the stack is gone.
Unwind(t) ==
    /\ Step(t, "unwind", "done")
    /\ alive' = [alive EXCEPT ![t] = FALSE]
    /\ UNCHANGED <<owner, loop, quit, wakeup>>
-----------------------------------------------------------------------------
OwnerStep == Spawn \/ Wait \/ PushLoop \/ Quit \/ Wakeup \/ Join

\* What a thread does besides waiting in poll.
ThreadStep(t) == Construct(t) \/ Publish(t) \/ EnterLoop(t) \/ TestQuit(t) \/ Leave(t) \/ Unwind(t)
-----------------------------------------------------------------------------
\* Types of the variables.
TypeOK ==
    /\ owner \in {"setup", "spawn", "wait", "asleep", "push", "deal", "quit", "wakeup",
                  "join", "done"}
    /\ numThreads \in 0..MaxThreads /\ cur \in 1..(MaxThreads + 1)
    /\ loops \in Seq(T) /\ next \in Nat /\ (numThreads > 0 => next < numThreads)
    /\ thread \in [T -> {"none", "construct", "publish", "enter", "test", "poll",
                         "leave", "unwind", "done"}]
    /\ loop \in [T -> BOOLEAN] /\ alive \in [T -> BOOLEAN]
    /\ quit \in [T -> BOOLEAN] /\ wakeup \in [T -> BOOLEAN]
    /\ failed \in {"none", "null", "dangling"}

\* A loop in loops_ is the live object of its thread until quit() is called on
\* it, although its thread may not have entered loop() yet: getNextLoop returns
\* no stale pointer, and the destructor finds loop_ set.
LoopsAlive ==
    \A i \in DOMAIN loops :
        \/ owner = "deal"
        \/ owner = "quit" /\ loops[i] >= cur
        \/ owner \in {"wakeup", "join"} /\ loops[i] > cur
        => loop[loops[i]] /\ alive[loops[i]]
=============================================================================
