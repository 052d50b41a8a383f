----------------------------- MODULE TimerQueue -----------------------------
(***************************************************************************)
(* net/timer/TimerQueue of one loop: the sets timers_, activeTimers_ and   *)
(* cancelingTimers_, the timerfd that stands for the earliest timer, the   *)
(* Timer objects on the heap, whose addresses are reused, and the TimerIds *)
(* (address and sequence number) the program keeps to cancel them.         *)
(*                                                                         *)
(* Expirations are read on the wall clock, which may be set; the timerfd   *)
(* counts on CLOCK_MONOTONIC.  A tick is any unit of at least the 100      *)
(* microseconds of howMuchTimeFromNow.                                     *)
(***************************************************************************)
EXTENDS Naturals, Sequences, FiniteSets

CONSTANTS
    Addrs,      \* addresses of Timer objects: a set of numbers
    MaxTimers,  \* bound on the calls of addTimer
    MaxTime,    \* the wall clock stops here: a bound
    Intervals,  \* intervals given to addTimer, 0 for a timer that runs once
    Programs,   \* programs that use the queue, as records of
                \*   foreign: do other threads call addTimer?
                \*   jumps: how often the wall clock is set at most
    None

ASSUME ConstantsAssumption ==
    /\ Addrs \subseteq Nat /\ None \notin Nat /\ 0 \notin Addrs
    /\ MaxTimers \in Nat /\ MaxTime \in Nat /\ Intervals \subseteq Nat
    /\ Programs \subseteq [foreign : BOOLEAN, jumps : Nat]
    /\ None \notin [seq : Nat, expiration : Nat, interval : Nat]

VARIABLES
    program,          \* which of Programs runs; it never changes
    life,             \* "alive", or "destroyed" with the loop
    heap,             \* what lives at each address: a timer, or None
    seqs,             \* s_numCreated_
    timers,           \* timers_: entries <<expiration, address>>
    activeTimers,     \* activeTimers_: <<address, sequence>>
    cancelingTimers,  \* cancelingTimers_
    calling,          \* callingExpiredTimers_
    expired,          \* the vector of handleRead, in the order of timers_
    pos,              \* how many of them were called
    running,          \* the timer being called, or None
    now,              \* the time handleRead took; 0 outside handleRead
    clock,            \* the wall clock
    jumps,            \* how often it was set
    timerfd,          \* ticks until the timerfd fires, 0: readable, None: off
    functors,         \* addTimerInLoop calls queued by other threads
    leaked,           \* timers of such calls that the destroyed loop dropped
    adder,            \* another thread inside addTimer: its timer, or None
    issued,           \* TimerIds that addTimer returned
    cancelled         \* TimerIds cancelled while waiting or being called

setVars == <<timers, activeTimers, cancelingTimers>>
callVars == <<calling, expired, pos, running, now>>
timeVars == <<clock, jumps>>
threadVars == <<functors, adder>>
sysVars == <<program, life, leaked>>
vars == <<sysVars, heap, seqs, setVars, callVars, timeVars, timerfd, threadVars,
          issued, cancelled>>

Init ==
    /\ program \in Programs /\ life = "alive" /\ leaked = {}
    /\ heap = [a \in Addrs |-> None] /\ seqs = 0
    /\ timers = {} /\ activeTimers = {} /\ cancelingTimers = {}
    /\ calling = FALSE /\ expired = <<>> /\ pos = 0 /\ running = None /\ now = 0
    /\ clock = 0 /\ jumps = 0
    /\ timerfd = None
    /\ functors = <<>> /\ adder = None
    /\ issued = {} /\ cancelled = {}

IdOf(a) == <<a, heap[a].seq>>

\* The order of std::pair<Timestamp, Timer*>.
Before(e, f) == e[1] < f[1] \/ (e[1] = f[1] /\ e[2] < f[2])
Earliest(ts) == CHOOSE e \in ts : \A f \in ts : e = f \/ Before(e, f)

\* User code runs on the loop thread: in a timer's callback or elsewhere.
UserCode == life = "alive" /\ (calling => running # None)
-----------------------------------------------------------------------------
(* The timerfd.                                                            *)

\* howMuchTimeFromNow: never 0, which would disarm the timerfd.
HowMuchTimeFromNow_signed(when) == when - clock
HowMuchTimeFromNow(when) == IF when > clock THEN when - clock ELSE 1

\* timerfd_settime, where 0 means off.
Settime(ticks) == IF ticks = 0 THEN None ELSE ticks
ResetTimerfd(when) == Settime(HowMuchTimeFromNow(when))

\* Monotonic time passes, and the wall clock with it; the loop may be busy.
Tick ==
    /\ life = "alive"
    /\ clock < MaxTime \/ (timerfd # None /\ timerfd > 0)
    /\ clock' = IF clock < MaxTime THEN clock + 1 ELSE clock
    /\ timerfd' = IF timerfd = None \/ timerfd = 0 THEN timerfd ELSE timerfd - 1
    /\ UNCHANGED <<sysVars, heap, seqs, setVars, callVars, jumps, threadVars, issued, cancelled>>

\* Somebody sets the wall clock.
Jump(c) ==
    /\ life = "alive" /\ jumps < program.jumps
    /\ jumps' = jumps + 1
    /\ clock' = c
    /\ UNCHANGED <<sysVars, heap, seqs, setVars, callVars, timerfd, threadVars, issued, cancelled>>
-----------------------------------------------------------------------------
(* addTimer.                                                               *)

\* new Timer: a free address and a new sequence number.
New(a, when, interval) ==
    /\ seqs < MaxTimers
    /\ heap[a] = None
    /\ heap' = [heap EXCEPT ![a] = [seq |-> seqs, expiration |-> when, interval |-> interval]]
    /\ seqs' = seqs + 1

\* insert's verdict: does the timer expire before all others?
EarliestChanged_first(when) == timers = {}
EarliestChanged(when) == timers = {} \/ when < Earliest(timers)[1]

\* addTimerInLoop for the timer t at address a.
AddTimerInLoop(a, t) ==
    /\ timers' = timers \cup {<<t.expiration, a>>}
    /\ activeTimers' = activeTimers \cup {<<a, t.seq>>}
    /\ timerfd' = IF EarliestChanged(t.expiration) THEN ResetTimerfd(t.expiration) ELSE timerfd
    /\ UNCHANGED cancelingTimers

\* addTimer on the loop thread.
AddTimer(a, when, interval) ==
    /\ UserCode
    /\ New(a, when, interval)
    /\ AddTimerInLoop(a, heap'[a])
    /\ issued' = issued \cup {<<a, seqs>>}
    /\ UNCHANGED <<sysVars, callVars, timeVars, threadVars, cancelled>>

\* addTimer on another thread: allocate and push ...
AddTimerForeign(a, when, interval) ==
    /\ life = "alive" /\ program.foreign /\ adder = None
    /\ New(a, when, interval)
    /\ functors' = Append(functors, a)
    /\ adder' = [addr |-> a, seq |-> seqs]
    /\ UNCHANGED <<sysVars, setVars, callVars, timeVars, timerfd, issued, cancelled>>

\* ... then read the sequence number of the object for the TimerId.  If it is
\* gone by now the thread reads freed memory: the old number, or the number of
\* the timer that lives there now.
AddTimerReturns ==
    /\ adder # None
    /\ issued' = issued \cup
         {<<adder.addr, IF heap[adder.addr] = None THEN adder.seq ELSE heap[adder.addr].seq>>}
    /\ adder' = None
    /\ UNCHANGED <<sysVars, heap, seqs, setVars, callVars, timeVars, timerfd, functors, cancelled>>

\* The loop runs the functor.
RunAddTimerInLoop ==
    /\ life = "alive" /\ ~calling /\ functors # <<>>
    /\ AddTimerInLoop(Head(functors), heap[Head(functors)])
    /\ functors' = Tail(functors)
    /\ UNCHANGED <<sysVars, heap, seqs, callVars, timeVars, adder, issued, cancelled>>
-----------------------------------------------------------------------------
(* cancel.                                                                 *)

\* The timers handleRead is calling, as TimerIds.
Batch == {IdOf(expired[i]) : i \in DOMAIN expired}

\* They are not in activeTimers_: remember that one is to be cancelled.
Remembered_never(id) == cancelingTimers
Remembered(id) == IF calling THEN cancelingTimers \cup {id} ELSE cancelingTimers

\* delete: what is left at the address.
Deleted_leak(a) == heap[a]
Deleted(a) == None

\* cancelInLoop on the loop thread, with any TimerId issued so far.
Cancel(id) ==
    /\ UserCode
    /\ id \in issued
    /\ IF id \in activeTimers
       THEN /\ timers' = timers \ {<<heap[id[1]].expiration, id[1]>>}
            /\ activeTimers' = activeTimers \ {id}
            /\ heap' = [heap EXCEPT ![id[1]] = Deleted(id[1])]
            /\ UNCHANGED cancelingTimers
       ELSE /\ cancelingTimers' = Remembered(id)
            /\ UNCHANGED <<sysVars, timers, activeTimers, heap>>
    /\ cancelled' = IF id \in activeTimers \cup Batch THEN cancelled \cup {id} ELSE cancelled
    /\ UNCHANGED <<sysVars, seqs, callVars, timeVars, timerfd, threadVars, issued>>
-----------------------------------------------------------------------------
(* handleRead.                                                             *)

\* getExpired: the entries up to and including time t.
Due(t) == {e \in timers : e[1] <= t}

\* getExpired erases the same timers from activeTimers_.
Deactivated_none(due) == {}
Deactivated(due) == {IdOf(e[2]) : e \in due}

\* s lists the entries of due in the order of timers_.
Sorted(s, due) ==
    /\ \A e \in due : \E i \in DOMAIN s : s[i] = e
    /\ \A i, j \in DOMAIN s : i < j => Before(s[i], s[j])

\* handleRead up to the first callback.
HandleRead ==
    LET due == Due(clock) IN
    /\ ~calling /\ timerfd = 0
    /\ timerfd' = None
    /\ now' = clock
    /\ \E s \in [1..Cardinality(due) -> due] :
          Sorted(s, due) /\ expired' = [i \in DOMAIN s |-> s[i][2]]
    /\ pos' = 0
    /\ timers' = timers \ due
    /\ activeTimers' = activeTimers \ Deactivated(due)
    /\ cancelingTimers' = {}
    /\ calling' = TRUE
    /\ UNCHANGED <<sysVars, heap, seqs, running, timeVars, threadVars, issued, cancelled>>

RunTimer ==
    /\ calling /\ running = None /\ pos < Len(expired)
    /\ pos' = pos + 1
    /\ running' = expired[pos + 1]
    /\ UNCHANGED <<sysVars, heap, seqs, setVars, calling, expired, now, timeVars, timerfd, threadVars, issued, cancelled>>

TimerReturns ==
    /\ running # None
    /\ running' = None
    /\ UNCHANGED <<sysVars, heap, seqs, setVars, calling, expired, pos, now, timeVars, timerfd, threadVars, issued, cancelled>>

\* reset: repeating timers that were not cancelled start again from now, the
\* others are deleted; the timerfd is set to the earliest one, if there is one
\* and its time is valid (not 0).
Restarted(a) == heap[a].interval > 0 /\ IdOf(a) \notin cancelingTimers

Rearmed_kept(ts) == timerfd
Rearmed(ts) ==
    IF ts # {} /\ Earliest(ts)[1] > 0 THEN ResetTimerfd(Earliest(ts)[1]) ELSE timerfd

Reset ==
    LET batch == {id[1] : id \in Batch}
        again == {a \in batch : Restarted(a)}
    IN  /\ calling /\ running = None /\ pos = Len(expired)
        /\ calling' = FALSE /\ expired' = <<>> /\ pos' = 0 /\ now' = 0
        /\ heap' = [a \in Addrs |->
              IF a \in again THEN [heap[a] EXCEPT !.expiration = now + heap[a].interval]
              ELSE IF a \in batch THEN Deleted(a) ELSE heap[a]]
        /\ timers' = timers \cup {<<now + heap[a].interval, a>> : a \in again}
        /\ activeTimers' = activeTimers \cup {IdOf(a) : a \in again}
        /\ timerfd' = Rearmed(timers')
        /\ UNCHANGED <<sysVars, seqs, cancelingTimers, running, timeVars, threadVars, issued, cancelled>>
-----------------------------------------------------------------------------
\* ~TimerQueue, when the loop is destroyed: the waiting timers are deleted.
\* Functors pushed since the loop last took its functors were never run and go
\* with it: they hold a Timer* that nobody deletes.
Dropped == {functors[i] : i \in DOMAIN functors}

Destruct ==
    /\ life = "alive" /\ ~calling
    /\ life' = "destroyed"
    /\ leaked' = Dropped /\ functors' = <<>>
    /\ heap' = [a \in Addrs |-> IF \E e \in timers : e[2] = a THEN Deleted(a) ELSE heap[a]]
    /\ timers' = {} /\ activeTimers' = {} /\ cancelingTimers' = {}
    /\ timerfd' = None
    /\ UNCHANGED <<program, seqs, callVars, timeVars, adder, issued, cancelled>>
-----------------------------------------------------------------------------
QueueStep == HandleRead \/ RunTimer \/ TimerReturns \/ Reset \/ RunAddTimerInLoop

Next ==
    \/ QueueStep \/ Tick \/ AddTimerReturns \/ Destruct
    \/ \E c \in 0..MaxTime : Jump(c)
    \/ \E id \in issued : Cancel(id)
    \/ \E a \in Addrs, when \in 0..MaxTime, i \in Intervals :
          AddTimer(a, when, i) \/ AddTimerForeign(a, when, i)

Spec == Init /\ [][Next]_vars

\* Time passes, the loop runs, callbacks return.
Fairness == WF_vars(QueueStep) /\ WF_vars(Tick)

FairSpec == Spec /\ Fairness
-----------------------------------------------------------------------------
(* Properties.                                                             *)

Ids == Addrs \X (0..MaxTimers)
Timer == [seq : 0..MaxTimers, expiration : Nat, interval : Intervals]

\* Types of the variables.
TypeOK ==
    /\ program \in Programs /\ life \in {"alive", "destroyed"} /\ leaked \in SUBSET Addrs
    /\ heap \in [Addrs -> Timer \cup {None}] /\ seqs \in 0..MaxTimers
    /\ timers \in SUBSET (Nat \X Addrs)
    /\ activeTimers \in SUBSET Ids /\ cancelingTimers \in SUBSET Ids
    /\ calling \in BOOLEAN /\ expired \in Seq(Addrs) /\ pos \in 0..Len(expired)
    /\ running \in Addrs \cup {None} /\ now \in 0..MaxTime
    /\ clock \in 0..MaxTime /\ jumps \in 0..program.jumps
    /\ timerfd \in Nat \cup {None}
    /\ functors \in Seq(Addrs) /\ adder \in [addr : Addrs, seq : 0..MaxTimers] \cup {None}
    /\ issued \in SUBSET Ids /\ cancelled \in SUBSET Ids

\* timers_ and activeTimers_ hold the same live timers, under their current
\* expiration and sequence number: the sizes that six assertions compare, and
\* the erase(...) = 1 of cancelInLoop and getExpired.
SetsAgree ==
    LET live == {e[2] : e \in timers} IN
    /\ \A a \in live : heap[a] # None
    /\ timers = {<<heap[a].expiration, a>> : a \in live}
    /\ activeTimers = {IdOf(a) : a \in live}

\* Every Timer has exactly one owner: timers_, the vector of handleRead, or an
\* addTimerInLoop functor.  None is deleted twice, the vector holds no pointer to
\* a deleted timer while callbacks cancel others, and none leaks but those whose
\* functor the destroyed loop dropped.
OneOwner ==
    \A a \in Addrs :
        LET n == Cardinality({e \in timers : e[2] = a})
                 + Cardinality({i \in DOMAIN expired : expired[i] = a})
                 + Cardinality({i \in DOMAIN functors : functors[i] = a})
        IN  n = IF heap[a] = None \/ a \in leaked THEN 0 ELSE 1

\* Outside handleRead a waiting timer means a timerfd that is armed or
\* readable, also after the earliest timer was cancelled or the clock was set;
\* and as long as nobody sets the clock, it fires no later than the earliest
\* timer expires, or at the next tick if that is past.
ArmedInTime ==
    ~calling /\ timers # {} =>
        /\ timerfd # None
        /\ jumps = 0 /\ clock < MaxTime =>
              timerfd <= 1 \/ clock + timerfd <= Earliest(timers)[1]

\* Once handleRead is over, no timer that was cancelled while it waited, or
\* while it or another of its batch was called, waits again.
CancelledStaysOut == ~calling => cancelled \cap activeTimers = {}

\* A timer waiting for a time that the clock reaches is called or cancelled.
Waiting(s) == \E id \in activeTimers : id[2] = s /\ heap[id[1]].expiration <= MaxTime
TimerFires == \A s \in 0..(MaxTimers - 1) : Waiting(s) ~> ~Waiting(s)
=============================================================================
