-------------------------- MODULE TimerQueueProofs --------------------------
(***************************************************************************)
(* Theorems about TimerQueue, for any number of timers, addresses and      *)
(* intervals, any clock and any program: timers_ and activeTimers_ agree,  *)
(* every Timer has one owner, cancelled timers stay out, and the timerfd   *)
(* is armed for the earliest timer.                                        *)
(***************************************************************************)
EXTENDS TimerQueue, SequenceTheorems, FiniteSetTheorems, TLAPS

\* Who owns the timer at address a: timers_, the vector of handleRead, or a
\* functor, queued or dropped.
Listed(a) == \E e \in timers : e[2] = a
Called(a) == \E i \in DOMAIN expired : expired[i] = a
Queued(a) == a \in leaked \/ \E i \in DOMAIN functors : functors[i] = a

\* Functors are dropped with the loop, all of them.
DroppedAtEnd == /\ life = "alive" => leaked = {}
                /\ life # "alive" => functors = <<>>

Distinct(q) == \A i, j \in DOMAIN q : q[i] = q[j] => i = j

\* OneOwner without counting.
Owners ==
    /\ \A a \in Addrs :
          /\ heap[a] # None <=> Listed(a) \/ Called(a) \/ Queued(a)
          /\ ~(Listed(a) /\ Called(a)) /\ ~(Listed(a) /\ Queued(a)) /\ ~(Called(a) /\ Queued(a))
    /\ Distinct(expired) /\ Distinct(functors)

\* SetsAgree, entry by entry.
Agree ==
    /\ \A e \in timers : e[1] = heap[e[2]].expiration /\ IdOf(e[2]) \in activeTimers
    /\ \A id \in activeTimers : Listed(id[1]) /\ id = IdOf(id[1])

\* handleRead holds timers only while it calls them.
Calls ==
    /\ ~calling => expired = <<>> /\ pos = 0 /\ running = None
    /\ IsFiniteSet(timers)

\* A cancelled timer is deleted, or it is in the batch and remembered.
Cancelled ==
    /\ \A a \in Addrs : heap[a] # None => heap[a].seq < seqs
    /\ \A id \in cancelled :
          /\ id[2] < seqs
          /\ heap[id[1]] # None /\ heap[id[1]].seq = id[2] =>
                 Called(id[1]) /\ id \in cancelingTimers

\* ArmedInTime without the choice of the earliest timer.  In handleRead only a
\* timer of time 0 needs a timerfd that is set already: reset() takes that time
\* for an invalid one.
Armed ==
    /\ ~calling /\ timers # {} =>
          /\ timerfd # None
          /\ jumps = 0 /\ clock < MaxTime =>
                timerfd <= 1 \/ \A e \in timers : clock + timerfd <= e[1]
    /\ calling /\ (\E e \in timers : e[1] = 0) => timerfd \in {0, 1}

\* The inductive invariant.
Inv == TypeOK /\ Owners /\ Agree /\ Calls /\ Cancelled /\ Armed
-----------------------------------------------------------------------------
(* Facts about timers and their order.                                     *)

\* A timer is not None, and has the fields of its type.
LEMMA TimerFacts ==
    ASSUME TypeOK, NEW a \in Addrs, heap[a] # None
    PROVE  /\ heap[a] \in Timer /\ heap[a].seq \in 0..MaxTimers
           /\ heap[a].expiration \in Nat /\ heap[a].interval \in Intervals
           /\ heap[a].interval \in Nat
           /\ IdOf(a) \in Ids /\ IdOf(a)[1] = a /\ IdOf(a)[2] = heap[a].seq
<1>1. heap[a] \in Timer
  BY DEF TypeOK
<1> QED BY <1>1, ConstantsAssumption DEF Timer, IdOf, Ids

\* What new Timer puts on the heap.
LEMMA NewFacts ==
    ASSUME TypeOK, seqs < MaxTimers, NEW when \in 0..MaxTime, NEW i \in Intervals
    PROVE  /\ [seq |-> seqs, expiration |-> when, interval |-> i] \in Timer
           /\ [seq |-> seqs, expiration |-> when, interval |-> i] # None
           /\ when \in Nat /\ seqs + 1 \in 0..MaxTimers /\ seqs \in 0..MaxTimers
BY ConstantsAssumption DEF TypeOK, Timer

\* The entries of timers_.
LEMMA EntryFacts ==
    ASSUME TypeOK, NEW e \in timers
    PROVE  e[1] \in Nat /\ e[2] \in Addrs /\ e = <<e[1], e[2]>> /\ Listed(e[2])
BY DEF TypeOK, Listed

\* A set of numbers that is not empty has a least one.
LEMMA LeastExists ==
    ASSUME NEW S \in SUBSET Nat, S # {}
    PROVE  \E x \in S : \A y \in S : x <= y
<1>1. IsWellFoundedOn(OpToRel(<, Nat), Nat)
  BY NatLessThanWellFounded
<1>2. \E x \in S : \A y \in S : ~(<<y, x>> \in OpToRel(<, Nat))
  BY <1>1, WFMin
<1>3. PICK x \in S : \A y \in S : ~(<<y, x>> \in OpToRel(<, Nat))
  BY <1>2
<1>4. \A y \in S : ~(y < x)
  BY <1>3 DEF OpToRel
<1> QED BY <1>4

\* timers_.begin() is an entry, and none is before it.
LEMMA EarliestFacts ==
    ASSUME NEW ts \in SUBSET (Nat \X Addrs), ts # {}
    PROVE  /\ Earliest(ts) \in ts /\ Earliest(ts)[1] \in Nat
           /\ \A e \in ts : Earliest(ts)[1] <= e[1]
<1> USE ConstantsAssumption
<1>1. PICK t \in {e[1] : e \in ts} : \A u \in {e[1] : e \in ts} : t <= u
  <2>1. {e[1] : e \in ts} \in SUBSET Nat /\ {e[1] : e \in ts} # {}
    OBVIOUS
  <2> QED BY <2>1, LeastExists
<1> DEFINE as == {a \in Addrs : <<t, a>> \in ts}
<1>2. as \in SUBSET Nat /\ as # {}
  <2>1. PICK e \in ts : e[1] = t
    BY <1>1
  <2>2. e = <<t, e[2]>> /\ e[2] \in Addrs
    BY <2>1
  <2> QED BY <2>2
<1>3. PICK a \in as : \A b \in as : a <= b
  BY <1>2, LeastExists
<1>4. <<t, a>> \in ts
  BY <1>3
<1>5. \A f \in ts : <<t, a>> = f \/ Before(<<t, a>>, f)
  <2> SUFFICES ASSUME NEW f \in ts, <<t, a>> # f PROVE Before(<<t, a>>, f)
    OBVIOUS
  <2>1. f[1] \in Nat /\ f[2] \in Addrs /\ f = <<f[1], f[2]>> /\ t <= f[1] /\ t \in Nat
        /\ a \in Nat /\ f[2] \in Nat
    <3>1. f[1] \in Nat /\ f[2] \in Addrs /\ f = <<f[1], f[2]>>
      OBVIOUS
    <3>2. t <= f[1]
      BY <1>1
    <3>3. t \in Nat
      BY <1>1
    <3>4. a \in Nat /\ f[2] \in Nat
      BY <1>3, <3>1
    <3> QED BY <3>1, <3>2, <3>3, <3>4
  <2>2. CASE t < f[1]
    BY <2>2 DEF Before
  <2>3. CASE t = f[1]
    <3>1. f[2] \in as
      BY <2>1, <2>3
    <3>2. a <= f[2] /\ a # f[2]
      BY <1>3, <2>1, <2>3, <3>1
    <3> QED BY <2>1, <2>3, <3>2 DEF Before
  <2> QED BY <2>1, <2>2, <2>3
<1>6. Earliest(ts) \in ts /\ \A f \in ts : Earliest(ts) = f \/ Before(Earliest(ts), f)
  BY <1>4, <1>5 DEF Earliest
<1>7. \A e \in ts : e[1] \in Nat
  OBVIOUS
<1> QED BY <1>6, <1>7 DEF Before

\* resetTimerfd arms the timerfd: for the time asked for, or for the next tick.
LEMMA ResetTimerfdFacts ==
    ASSUME TypeOK, NEW when \in Nat
    PROVE  /\ ResetTimerfd(when) \in Nat /\ ResetTimerfd(when) # None
           /\ ResetTimerfd(when) = 1 \/ clock + ResetTimerfd(when) = when
           /\ when = 0 => ResetTimerfd(when) = 1
BY ConstantsAssumption DEF TypeOK, ResetTimerfd, Settime, HowMuchTimeFromNow

\* insert and resetTimerfd keep the timerfd in time for every timer.
LEMMA InsertArmed ==
    ASSUME Inv, NEW when \in Nat, NEW a \in Addrs,
           timers' = timers \cup {<<when, a>>},
           timerfd' = IF EarliestChanged(when) THEN ResetTimerfd(when) ELSE timerfd,
           calling' = calling, jumps' = jumps, clock' = clock
    PROVE  Armed' /\ timerfd' \in Nat \cup {None}
<1>0. TypeOK /\ clock \in Nat /\ timerfd \in Nat \cup {None} /\ None \notin Nat
      /\ timers \in SUBSET (Nat \X Addrs)
  BY ConstantsAssumption DEF Inv, TypeOK
<1>1. /\ ResetTimerfd(when) \in Nat /\ ResetTimerfd(when) # None
      /\ ResetTimerfd(when) = 1 \/ clock + ResetTimerfd(when) = when
      /\ when = 0 => ResetTimerfd(when) = 1
  BY <1>0, ResetTimerfdFacts
<1>2. \A e \in timers : e[1] \in Nat
  BY <1>0
<1>3. CASE EarliestChanged(when)
  <2>1. timerfd' = ResetTimerfd(when)
    BY <1>3
  <2>2. \A e \in timers : when < e[1]
    <3>1. CASE timers = {}
      BY <3>1
    <3>2. CASE timers # {} /\ when < Earliest(timers)[1]
      BY <3>2, <1>0, <1>2, EarliestFacts
    <3> QED BY <3>1, <3>2, <1>3 DEF EarliestChanged
  <2>3. \A e \in timers' : when <= e[1]
    BY <1>2, <2>2
  <2>4. (\E e \in timers' : e[1] = 0) => when = 0
    BY <2>3
  <2> QED BY <1>0, <1>1, <2>1, <2>3, <2>4 DEF Armed
<1>4. CASE ~EarliestChanged(when)
  <2>1. timers # {} /\ timerfd' = timerfd
    BY <1>4 DEF EarliestChanged
  <2>2. PICK e0 \in timers : e0[1] <= when /\ \A e \in timers : e0[1] <= e[1]
    <3>1. ~(when < Earliest(timers)[1])
      BY <1>4 DEF EarliestChanged
    <3>2. Earliest(timers) \in timers /\ Earliest(timers)[1] \in Nat
          /\ \A e \in timers : Earliest(timers)[1] <= e[1]
      BY <1>0, <2>1, EarliestFacts
    <3>3. Earliest(timers)[1] <= when
      BY <3>1, <3>2
    <3> QED BY <3>2, <3>3
  <2>3. ASSUME \A e \in timers : clock + timerfd <= e[1], timerfd \in Nat
        PROVE  \A e \in timers' : clock + timerfd <= e[1]
    BY <2>2, <2>3, <1>0, <1>2
  <2>4. (\E e \in timers' : e[1] = 0) => \E e \in timers : e[1] = 0
    BY <2>2, <1>2
  <2> QED BY <1>0, <2>1, <2>3, <2>4 DEF Inv, Armed
<1> QED BY <1>3, <1>4
-----------------------------------------------------------------------------
(* Inv is inductive.                                                       *)

\* An empty queue satisfies it.
LEMMA InitInv == Init => Inv
<1> SUFFICES ASSUME Init PROVE Inv
  OBVIOUS
<1> USE ConstantsAssumption DEF Init
<1>1. <<>> \in Seq(Addrs) /\ Len(<<>>) = 0 /\ DOMAIN <<>> = {}
  BY EmptySeq
<1>2. TypeOK
  <2>1. program.jumps \in Nat
    OBVIOUS
  <2>2. heap \in [Addrs -> Timer \cup {None}]
    OBVIOUS
  <2>3. MaxTimers \in Nat /\ MaxTime \in Nat
    OBVIOUS
  <2>4. pos \in 0..Len(expired) /\ now \in 0..MaxTime /\ clock \in 0..MaxTime
        /\ jumps \in 0..program.jumps /\ seqs \in 0..MaxTimers
    BY <1>1, <2>1, <2>3
  <2> QED BY <1>1, <2>2, <2>4 DEF TypeOK
<1>3. Owners
  <2>1. \A a \in Addrs : heap[a] = None /\ ~Listed(a) /\ ~Called(a) /\ ~Queued(a)
    BY <1>1 DEF Listed, Called, Queued
  <2>2. Distinct(expired) /\ Distinct(functors)
    BY <1>1 DEF Distinct
  <2> QED BY <2>1, <2>2 DEF Owners
<1>4. Agree /\ Cancelled /\ Armed
  BY DEF Agree, Cancelled, Armed
<1>5. Calls
  BY FS_EmptySet DEF Calls
<1> QED BY <1>2, <1>3, <1>4, <1>5 DEF Inv

\* Steps that leave the timers and their owners alone.
LEMMA OwnersKept ==
    ASSUME Inv, UNCHANGED <<heap, timers, activeTimers, expired, functors, leaked>>
    PROVE  Owners' /\ Agree' /\ IsFiniteSet(timers)'
BY DEF Inv, Owners, Agree, Calls, Listed, Called, Queued, Distinct, IdOf

LEMMA CancelledKept ==
    ASSUME Inv, UNCHANGED <<heap, seqs, cancelled, cancelingTimers, expired>>
    PROVE  Cancelled'
BY DEF Inv, Cancelled, Called

\* Time passes, and somebody sets the clock.
LEMMA ClockInv ==
    ASSUME Inv, Tick \/ \E c \in 0..MaxTime : Jump(c)
    PROVE  Inv'
<1> USE DEF sysVars, setVars, callVars, threadVars
<1>1. /\ UNCHANGED <<program, life, leaked, heap, seqs, setVars, callVars, threadVars, issued, cancelled>>
  BY DEF Tick, Jump
<1>2. Owners' /\ Agree' /\ Calls'
  BY <1>1, OwnersKept DEF Inv, Calls
<1>3. Cancelled'
  BY <1>1, CancelledKept
<1>4. program.jumps \in Nat /\ MaxTime \in Nat /\ clock \in 0..MaxTime /\ jumps \in 0..program.jumps
      /\ timerfd \in Nat \cup {None} /\ None \notin Nat /\ timers \in SUBSET (Nat \X Addrs)
  BY ConstantsAssumption DEF Inv, TypeOK
<1>5. clock' \in 0..MaxTime /\ jumps' \in 0..program.jumps /\ timerfd' \in Nat \cup {None}
  <2>1. CASE Tick
    BY <1>4, <2>1 DEF Tick, timeVars
  <2>2. ASSUME NEW c \in 0..MaxTime, Jump(c)
        PROVE  clock' \in 0..MaxTime /\ jumps' \in 0..program.jumps /\ timerfd' = timerfd
    BY <1>4, <2>2 DEF Jump
  <2> QED BY <1>4, <2>1, <2>2
<1>6. TypeOK'
  BY <1>1, <1>5 DEF Inv, TypeOK
<1>7. Armed'
  <2>1. CASE Tick
    <3>1. /\ jumps' = jumps
          /\ clock' = IF clock < MaxTime THEN clock + 1 ELSE clock
          /\ timerfd' = IF timerfd = None \/ timerfd = 0 THEN timerfd ELSE timerfd - 1
      BY <2>1 DEF Tick
    <3>2. timerfd # None => timerfd \in Nat /\ timerfd' \in Nat /\ timerfd' <= timerfd
      BY <1>4, <3>1
    <3>3. clock < MaxTime /\ timerfd \in Nat /\ timerfd > 1 => clock' + timerfd' = clock + timerfd
      BY <1>4, <3>1
    <3>4. clock' < MaxTime => clock < MaxTime
      BY <1>4, <3>1
    <3>5. timerfd \in Nat /\ timerfd <= 1 => timerfd' <= 1
      BY <1>4, <3>2
    <3>6. timerfd \in {0, 1} => timerfd' \in {0, 1}
      BY <1>4, <3>1
    <3>7. ASSUME ~calling, timers # {}
          PROVE  /\ timerfd' # None
                 /\ jumps' = 0 /\ clock' < MaxTime =>
                      timerfd' <= 1 \/ \A e \in timers : clock' + timerfd' <= e[1]
      <4>1. timerfd \in Nat /\ timerfd' \in Nat
        BY <3>7, <3>2, <1>4 DEF Inv, Armed
      <4>2. ASSUME jumps' = 0, clock' < MaxTime, timerfd > 1
            PROVE  \A e \in timers : clock' + timerfd' <= e[1]
        BY <3>1, <3>3, <3>4, <3>7, <4>1, <4>2 DEF Inv, Armed
      <4> QED BY <4>1, <4>2, <3>5, <1>4
    <3> QED BY <1>1, <3>6, <3>7 DEF Inv, Armed
  <2>2. ASSUME NEW c \in 0..MaxTime, Jump(c)
        PROVE  Armed'
    <3>1. jumps' # 0 /\ timerfd' = timerfd
      BY <1>4, <2>2 DEF Jump
    <3> QED BY <1>1, <3>1 DEF Inv, Armed
  <2> QED BY <2>1, <2>2
<1> QED BY <1>2, <1>3, <1>6, <1>7 DEF Inv

\* The loop goes through its batch, and another thread gets its TimerId.
LEMMA CallInv ==
    ASSUME Inv, RunTimer \/ TimerReturns \/ AddTimerReturns
    PROVE  Inv'
<1> USE DEF sysVars, setVars, callVars, threadVars, timeVars
<1>1. UNCHANGED <<program, life, leaked, heap, seqs, setVars, calling, expired, now, timeVars, timerfd, functors,
                  cancelled>>
  BY DEF RunTimer, TimerReturns, AddTimerReturns
<1>2. Owners' /\ Agree' /\ Cancelled'
  BY <1>1, OwnersKept, CancelledKept
<1>3. Armed'
  BY <1>1 DEF Inv, Armed
<1>4. Calls'
  BY <1>1, OwnersKept DEF Inv, Calls, RunTimer, TimerReturns, AddTimerReturns
<1>5. TypeOK'
  <2>1. CASE RunTimer
    <3>1. expired \in Seq(Addrs) /\ Len(expired) \in Nat /\ pos \in 0..Len(expired)
      BY LenProperties DEF Inv, TypeOK
    <3>2. pos + 1 \in 1..Len(expired)
      BY <3>1, <2>1 DEF RunTimer
    <3>3. expired[pos + 1] \in Addrs
      BY <3>1, <3>2, ElementOfSeq
    <3> QED BY <2>1, <3>2, <3>3, <1>1 DEF RunTimer, Inv, TypeOK
  <2>2. CASE TimerReturns
    BY <2>2, <1>1 DEF TimerReturns, Inv, TypeOK
  <2>3. CASE AddTimerReturns
    <3>1. adder.addr \in Addrs /\ adder.seq \in 0..MaxTimers
      BY <2>3 DEF AddTimerReturns, Inv, TypeOK
    <3>2. heap[adder.addr] # None => heap[adder.addr].seq \in 0..MaxTimers
      BY <3>1, TimerFacts DEF Inv
    <3>3. issued' \in SUBSET Ids /\ adder' = None
      BY <2>3, <3>1, <3>2 DEF AddTimerReturns, Ids, Inv, TypeOK
    <3> QED BY <2>3, <3>3, <1>1 DEF AddTimerReturns, Inv, TypeOK
  <2> QED BY <2>1, <2>2, <2>3
<1> QED BY <1>2, <1>3, <1>4, <1>5 DEF Inv

\* addTimer on the loop thread.
LEMMA AddTimerInv ==
    ASSUME Inv, NEW a \in Addrs, NEW when \in 0..MaxTime, NEW i \in Intervals, AddTimer(a, when, i)
    PROVE  Inv'
<1> USE DEF sysVars, setVars, callVars, threadVars, timeVars
<1> DEFINE t == [seq |-> seqs, expiration |-> when, interval |-> i]
<1>1. /\ heap[a] = None /\ seqs < MaxTimers /\ heap' = [heap EXCEPT ![a] = t] /\ seqs' = seqs + 1
      /\ AddTimerInLoop(a, heap'[a])
      /\ issued' = issued \cup {<<a, seqs>>}
      /\ UNCHANGED <<program, life, leaked, callVars, timeVars, threadVars, cancelled>>
  BY DEF AddTimer, New
<1>2. t \in Timer /\ t # None /\ when \in Nat /\ seqs + 1 \in 0..MaxTimers /\ seqs \in 0..MaxTimers
  BY <1>1, NewFacts DEF Inv
<1>3. t.seq = seqs /\ t.expiration = when
  OBVIOUS
<1> HIDE DEF t
<1>4. heap \in [Addrs -> Timer \cup {None}]
  BY DEF Inv, TypeOK
<1>5. heap'[a] = t /\ \A b \in Addrs : b # a => heap'[b] = heap[b]
  BY <1>1, <1>4
<1>6. /\ timers' = timers \cup {<<when, a>>} /\ activeTimers' = activeTimers \cup {<<a, seqs>>}
      /\ timerfd' = IF EarliestChanged(when) THEN ResetTimerfd(when) ELSE timerfd
      /\ cancelingTimers' = cancelingTimers
  BY <1>1, <1>3, <1>5 DEF AddTimerInLoop
<1>7. Armed' /\ timerfd' \in Nat \cup {None}
  BY <1>1, <1>2, <1>6, InsertArmed
<1>8. ~Listed(a) /\ ~Called(a) /\ ~Queued(a)
  BY <1>1 DEF Inv, Owners
<1>9. \A b \in Addrs : /\ Listed(b)' <=> Listed(b) \/ b = a
                       /\ Called(b)' <=> Called(b)
                       /\ Queued(b)' <=> Queued(b)
  <2>1. <<when, a>>[2] = a
    OBVIOUS
  <2>2. \A b \in Addrs : Listed(b)' <=> Listed(b) \/ b = a
    BY <1>6, <2>1 DEF Listed
  <2>3. \A b \in Addrs : (Called(b)' <=> Called(b)) /\ (Queued(b)' <=> Queued(b))
    BY <1>1 DEF Called, Queued
  <2> QED BY <2>2, <2>3
<1>10. TypeOK'
  <2>1. heap' \in [Addrs -> Timer \cup {None}]
    BY <1>1, <1>2, <1>4
  <2>2. timers' \in SUBSET (Nat \X Addrs)
    BY <1>2, <1>6 DEF Inv, TypeOK
  <2>3. activeTimers' \in SUBSET Ids /\ issued' \in SUBSET Ids
    BY <1>1, <1>2, <1>6 DEF Inv, TypeOK, Ids
  <2> QED BY <1>1, <1>2, <1>6, <1>7, <2>1, <2>2, <2>3 DEF Inv, TypeOK
<1>11. Owners'
  <2>1. Distinct(expired)' /\ Distinct(functors)'
    BY <1>1 DEF Inv, Owners, Distinct
  <2> QED BY <1>1, <1>2, <1>5, <1>8, <1>9, <2>1 DEF Inv, Owners
<1>12. Agree'
  <2>1. ASSUME NEW e \in timers
        PROVE  /\ e[2] \in Addrs /\ e[2] # a /\ heap'[e[2]] = heap[e[2]]
               /\ IdOf(e[2])' = IdOf(e[2])
    BY <1>5, <1>8, EntryFacts DEF Inv, IdOf
  <2>2. ASSUME NEW e \in timers'
        PROVE  e[1] = heap'[e[2]].expiration /\ IdOf(e[2])' \in activeTimers'
    <3>1. CASE e \in timers
      BY <3>1, <2>1, <1>6 DEF Inv, Agree
    <3>2. CASE e = <<when, a>>
      BY <3>2, <1>3, <1>5, <1>6 DEF IdOf
    <3> QED BY <3>1, <3>2, <1>6, <2>2
  <2>3. ASSUME NEW id \in activeTimers'
        PROVE  Listed(id[1])' /\ id = IdOf(id[1])'
    <3>1. CASE id \in activeTimers
      <4>1. Listed(id[1]) /\ id = IdOf(id[1]) /\ id[1] \in Addrs
        BY <3>1 DEF Inv, Agree, TypeOK, Ids
      <4>2. id[1] # a
        BY <4>1, <1>8
      <4> QED BY <4>1, <4>2, <1>5, <1>9 DEF IdOf
    <3>2. CASE id = <<a, seqs>>
      BY <3>2, <1>3, <1>5, <1>9 DEF IdOf
    <3> QED BY <3>1, <3>2, <1>6, <2>3
  <2> QED BY <2>2, <2>3 DEF Agree
<1>13. Calls'
  BY <1>1, <1>6, FS_AddElement DEF Inv, Calls
<1>14. Cancelled'
  <2>1. \A b \in Addrs : heap'[b] # None => heap'[b].seq < seqs'
    <3> SUFFICES ASSUME NEW b \in Addrs, heap'[b] # None PROVE heap'[b].seq < seqs'
      OBVIOUS
    <3>1. CASE b = a
      BY <3>1, <1>1, <1>2, <1>3, <1>5
    <3>2. CASE b # a
      <4>1. heap[b].seq < seqs /\ heap[b].seq \in 0..MaxTimers
        BY <3>2, <1>5, TimerFacts DEF Inv, Cancelled
      <4> QED BY <4>1, <3>2, <1>1, <1>2, <1>5
    <3> QED BY <3>1, <3>2
  <2>2. ASSUME NEW id \in cancelled
        PROVE  /\ id[2] < seqs'
               /\ heap'[id[1]] # None /\ heap'[id[1]].seq = id[2] =>
                      Called(id[1])' /\ id \in cancelingTimers'
    <3>1. id[2] < seqs /\ id[1] \in Addrs /\ id[2] \in 0..MaxTimers
      BY DEF Inv, Cancelled, TypeOK, Ids
    <3>2. id[2] < seqs' /\ id[2] # seqs
      BY <3>1, <1>1, <1>2
    <3>3. CASE id[1] = a
      BY <3>2, <3>3, <1>3, <1>5
    <3>4. CASE id[1] # a
      BY <3>1, <3>2, <3>4, <1>5, <1>6, <1>9 DEF Inv, Cancelled
    <3> QED BY <3>3, <3>4
  <2> QED BY <1>1, <2>1, <2>2 DEF Cancelled
<1> QED BY <1>7, <1>10, <1>11, <1>12, <1>13, <1>14 DEF Inv

\* addTimer on another thread, up to the push.
LEMMA AddTimerForeignInv ==
    ASSUME Inv, NEW a \in Addrs, NEW when \in 0..MaxTime, NEW i \in Intervals,
           AddTimerForeign(a, when, i)
    PROVE  Inv'
<1> USE DEF sysVars, setVars, callVars, threadVars, timeVars
<1> DEFINE t == [seq |-> seqs, expiration |-> when, interval |-> i]
<1>1. /\ heap[a] = None /\ seqs < MaxTimers /\ heap' = [heap EXCEPT ![a] = t] /\ seqs' = seqs + 1
      /\ functors' = Append(functors, a) /\ adder' = [addr |-> a, seq |-> seqs]
      /\ UNCHANGED <<program, life, leaked, setVars, callVars, timeVars, timerfd, issued, cancelled>>
  BY DEF AddTimerForeign, New
<1>2. t \in Timer /\ t # None /\ when \in Nat /\ seqs + 1 \in 0..MaxTimers /\ seqs \in 0..MaxTimers
  BY <1>1, NewFacts DEF Inv
<1>3. t.seq = seqs
  OBVIOUS
<1> HIDE DEF t
<1>4. heap \in [Addrs -> Timer \cup {None}] /\ functors \in Seq(Addrs)
  BY DEF Inv, TypeOK
<1>5. heap'[a] = t /\ \A b \in Addrs : b # a => heap'[b] = heap[b]
  BY <1>1, <1>4
<1>6. ~Listed(a) /\ ~Called(a) /\ ~Queued(a)
  BY <1>1 DEF Inv, Owners
<1>7. /\ functors' \in Seq(Addrs) /\ DOMAIN functors = 1..Len(functors) /\ Len(functors) \in Nat
      /\ DOMAIN functors' = 1..(Len(functors) + 1)
      /\ \A j \in 1..Len(functors) : functors'[j] = functors[j]
      /\ functors'[Len(functors) + 1] = a
  BY <1>1, <1>4, AppendProperties, LenProperties
<1>8. \A b \in Addrs : /\ Listed(b)' <=> Listed(b)
                       /\ Called(b)' <=> Called(b)
                       /\ Queued(b)' <=> Queued(b) \/ b = a
  <2>1. \A b \in Addrs : Queued(b)' <=> Queued(b) \/ b = a
    BY <1>1, <1>7 DEF Queued
  <2> QED BY <1>1, <2>1 DEF Listed, Called
<1>9. TypeOK'
  <2>1. heap' \in [Addrs -> Timer \cup {None}]
    BY <1>1, <1>2, <1>4
  <2> QED BY <1>1, <1>2, <1>7, <2>1 DEF Inv, TypeOK
<1>10. Owners'
  <2>1. Distinct(functors')
    <3> SUFFICES ASSUME NEW j \in 1..(Len(functors) + 1), NEW k \in 1..(Len(functors) + 1),
                        functors'[j] = functors'[k]
                 PROVE  j = k
      BY <1>7 DEF Distinct
    <3>1. CASE j \in 1..Len(functors) /\ k \in 1..Len(functors)
      BY <3>1, <1>7 DEF Inv, Owners, Distinct
    <3>2. CASE j = Len(functors) + 1 /\ k \in 1..Len(functors)
      BY <3>2, <1>6, <1>7 DEF Queued
    <3>3. CASE k = Len(functors) + 1 /\ j \in 1..Len(functors)
      BY <3>3, <1>6, <1>7 DEF Queued
    <3> QED BY <3>1, <3>2, <3>3, <1>7
  <2>2. Distinct(expired)'
    BY <1>1 DEF Inv, Owners, Distinct
  <2> QED BY <1>1, <1>2, <1>5, <1>6, <1>8, <2>1, <2>2 DEF Inv, Owners
<1>11. Agree'
  <2>1. ASSUME NEW b \in Addrs, Listed(b)
        PROVE  b # a /\ heap'[b] = heap[b] /\ IdOf(b)' = IdOf(b) /\ Listed(b)'
    BY <2>1, <1>5, <1>6, <1>8 DEF IdOf
  <2>2. ASSUME NEW e \in timers'
        PROVE  e[1] = heap'[e[2]].expiration /\ IdOf(e[2])' \in activeTimers'
    <3>1. e \in timers /\ e[2] \in Addrs /\ Listed(e[2])
      BY <1>1, EntryFacts DEF Inv
    <3> QED BY <3>1, <2>1, <1>1 DEF Inv, Agree
  <2>3. ASSUME NEW id \in activeTimers'
        PROVE  Listed(id[1])' /\ id = IdOf(id[1])'
    <3>1. id \in activeTimers /\ id[1] \in Addrs /\ Listed(id[1]) /\ id = IdOf(id[1])
      BY <1>1 DEF Inv, Agree, TypeOK, Ids
    <3> QED BY <3>1, <2>1
  <2> QED BY <2>2, <2>3 DEF Agree
<1>12. Calls' /\ Armed'
  BY <1>1 DEF Inv, Calls, Armed
<1>13. Cancelled'
  <2>1. \A b \in Addrs : heap'[b] # None => heap'[b].seq < seqs'
    <3> SUFFICES ASSUME NEW b \in Addrs, heap'[b] # None PROVE heap'[b].seq < seqs'
      OBVIOUS
    <3>1. CASE b = a
      BY <3>1, <1>1, <1>2, <1>3, <1>5
    <3>2. CASE b # a
      <4>1. heap[b].seq < seqs /\ heap[b].seq \in 0..MaxTimers
        BY <3>2, <1>5, TimerFacts DEF Inv, Cancelled
      <4> QED BY <4>1, <3>2, <1>1, <1>2, <1>5
    <3> QED BY <3>1, <3>2
  <2>2. ASSUME NEW id \in cancelled
        PROVE  /\ id[2] < seqs'
               /\ heap'[id[1]] # None /\ heap'[id[1]].seq = id[2] =>
                      Called(id[1])' /\ id \in cancelingTimers'
    <3>1. id[2] < seqs /\ id[1] \in Addrs /\ id[2] \in 0..MaxTimers
      BY DEF Inv, Cancelled, TypeOK, Ids
    <3>2. id[2] < seqs' /\ id[2] # seqs
      BY <3>1, <1>1, <1>2
    <3>3. CASE id[1] = a
      BY <3>2, <3>3, <1>3, <1>5
    <3>4. CASE id[1] # a
      BY <3>1, <3>2, <3>4, <1>1, <1>5, <1>8 DEF Inv, Cancelled
    <3> QED BY <3>3, <3>4
  <2> QED BY <1>1, <2>1, <2>2 DEF Cancelled
<1> QED BY <1>9, <1>10, <1>11, <1>12, <1>13 DEF Inv

\* The loop runs an addTimerInLoop functor.
LEMMA RunAddTimerInLoopInv ==
    ASSUME Inv, DroppedAtEnd, RunAddTimerInLoop
    PROVE  Inv'
<1> USE DEF sysVars, setVars, callVars, threadVars, timeVars
<1> DEFINE a == Head(functors)
<1>0. leaked = {}
  BY DEF DroppedAtEnd, RunAddTimerInLoop
<1>1. /\ ~calling /\ functors # <<>> /\ AddTimerInLoop(a, heap[a]) /\ functors' = Tail(functors)
      /\ UNCHANGED <<program, life, leaked, heap, seqs, callVars, timeVars, adder, issued, cancelled>>
  BY DEF RunAddTimerInLoop
<1>2. /\ functors \in Seq(Addrs) /\ Len(functors) \in Nat /\ DOMAIN functors = 1..Len(functors)
      /\ 1 \in DOMAIN functors /\ a = functors[1] /\ a \in Addrs
      /\ functors' \in Seq(Addrs) /\ DOMAIN functors' = 1..(Len(functors) - 1)
      /\ \A j \in 1..(Len(functors) - 1) : functors'[j] = functors[j + 1]
  <2>1. functors \in Seq(Addrs)
    BY DEF Inv, TypeOK
  <2>2. Len(functors) \in Nat /\ DOMAIN functors = 1..Len(functors) /\ Len(functors) # 0
    BY <1>1, <2>1, LenProperties, EmptySeq
  <2>3. /\ a \in Addrs /\ Tail(functors) \in Seq(Addrs) /\ Len(Tail(functors)) = Len(functors) - 1
        /\ \A j \in 1..Len(Tail(functors)) : Tail(functors)[j] = functors[j + 1]
    BY <1>1, <2>1, HeadTailProperties
  <2>4. DOMAIN Tail(functors) = 1..Len(Tail(functors))
    BY <2>3, LenProperties
  <2>5. a = functors[1]
    BY <2>1, <1>1
  <2> QED BY <1>1, <2>1, <2>2, <2>3, <2>4, <2>5
<1> HIDE DEF a
<1>3. Queued(a)
  BY <1>2 DEF Queued
<1>4. ~Listed(a) /\ ~Called(a) /\ heap[a] # None
  BY <1>2, <1>3 DEF Inv, Owners
<1>5. heap[a].expiration \in Nat /\ IdOf(a) \in Ids /\ IdOf(a)[1] = a
  BY <1>2, <1>4, TimerFacts DEF Inv
<1>6. /\ timers' = timers \cup {<<heap[a].expiration, a>>} /\ activeTimers' = activeTimers \cup {IdOf(a)}
      /\ timerfd' = IF EarliestChanged(heap[a].expiration) THEN ResetTimerfd(heap[a].expiration)
                    ELSE timerfd
      /\ cancelingTimers' = cancelingTimers
  BY <1>1 DEF AddTimerInLoop, IdOf
<1>7. Armed' /\ timerfd' \in Nat \cup {None}
  BY <1>1, <1>2, <1>5, <1>6, InsertArmed
<1>8. \A b \in Addrs : /\ Listed(b)' <=> Listed(b) \/ b = a
                       /\ Called(b)' <=> Called(b)
                       /\ Queued(b)' <=> Queued(b) /\ b # a
  <2>1. <<heap[a].expiration, a>>[2] = a
    OBVIOUS
  <2>2. \A b \in Addrs : Listed(b)' <=> Listed(b) \/ b = a
    BY <1>6, <2>1 DEF Listed
  <2>3. \A b \in Addrs : Called(b)' <=> Called(b)
    BY <1>1 DEF Called
  <2>4. ASSUME NEW b \in Addrs, Queued(b)' PROVE Queued(b) /\ b # a
    <3>1. PICK j \in 1..(Len(functors) - 1) : functors'[j] = b
      BY <1>0, <1>1, <1>2, <2>4 DEF Queued
    <3>2. j + 1 \in DOMAIN functors /\ functors[j + 1] = b /\ j + 1 # 1
      BY <1>2, <3>1
    <3> QED BY <1>2, <3>2 DEF Inv, Owners, Distinct, Queued
  <2>5. ASSUME NEW b \in Addrs, Queued(b), b # a PROVE Queued(b)'
    <3>1. PICK j \in DOMAIN functors : functors[j] = b
      BY <1>0, <2>5 DEF Queued
    <3>2. j # 1
      BY <2>5, <3>1, <1>2
    <3>3. j - 1 \in 1..(Len(functors) - 1) /\ (j - 1) + 1 = j
      BY <1>2, <3>1, <3>2
    <3> QED BY <1>2, <3>1, <3>3 DEF Queued
  <2> QED BY <2>2, <2>3, <2>4, <2>5
<1>9. TypeOK'
  <2>1. timers' \in SUBSET (Nat \X Addrs)
    BY <1>2, <1>5, <1>6 DEF Inv, TypeOK
  <2>2. activeTimers' \in SUBSET Ids
    BY <1>5, <1>6 DEF Inv, TypeOK
  <2> QED BY <1>1, <1>2, <1>6, <1>7, <2>1, <2>2 DEF Inv, TypeOK
<1>10. Owners'
  <2>1. Distinct(functors')
    <3> SUFFICES ASSUME NEW j \in 1..(Len(functors) - 1), NEW k \in 1..(Len(functors) - 1),
                        functors'[j] = functors'[k]
                 PROVE  j = k
      BY <1>2 DEF Distinct
    <3>1. j + 1 \in DOMAIN functors /\ k + 1 \in DOMAIN functors
      BY <1>2
    <3>2. functors[j + 1] = functors[k + 1]
      BY <1>2
    <3>3. j + 1 = k + 1
      BY <3>1, <3>2 DEF Inv, Owners, Distinct
    <3> QED BY <3>3
  <2>2. Distinct(expired)'
    BY <1>1 DEF Inv, Owners, Distinct
  <2> QED BY <1>1, <1>3, <1>4, <1>8, <2>1, <2>2 DEF Inv, Owners
<1>11. Agree'
  <2>1. \A b : IdOf(b)' = IdOf(b)
    BY <1>1 DEF IdOf
  <2>2. ASSUME NEW e \in timers'
        PROVE  e[1] = heap'[e[2]].expiration /\ IdOf(e[2])' \in activeTimers'
    <3>1. CASE e \in timers
      BY <3>1, <2>1, <1>1, <1>6 DEF Inv, Agree
    <3>2. CASE e = <<heap[a].expiration, a>>
      BY <3>2, <2>1, <1>1, <1>6
    <3> QED BY <3>1, <3>2, <1>6, <2>2
  <2>3. ASSUME NEW id \in activeTimers'
        PROVE  Listed(id[1])' /\ id = IdOf(id[1])'
    <3>1. CASE id \in activeTimers
      <4>1. Listed(id[1]) /\ id = IdOf(id[1]) /\ id[1] \in Addrs
        BY <3>1 DEF Inv, Agree, TypeOK, Ids
      <4> QED BY <4>1, <1>8, <2>1
    <3>2. CASE id = IdOf(a)
      BY <3>2, <1>2, <1>5, <1>8, <2>1
    <3> QED BY <3>1, <3>2, <1>6, <2>3
  <2> QED BY <2>2, <2>3 DEF Agree
<1>12. Calls'
  BY <1>1, <1>6, FS_AddElement DEF Inv, Calls
<1>13. Cancelled'
  BY <1>1, <1>6, CancelledKept
<1> QED BY <1>7, <1>9, <1>10, <1>11, <1>12, <1>13 DEF Inv

\* cancel of a timer that waits: it is deleted.
LEMMA CancelWaitingInv ==
    ASSUME Inv, NEW id \in issued, Cancel(id), id \in activeTimers
    PROVE  Inv'
<1> USE DEF sysVars, setVars, callVars, threadVars, timeVars
<1> DEFINE a == id[1]
<1>1. /\ timers' = timers \ {<<heap[a].expiration, a>>} /\ activeTimers' = activeTimers \ {id}
      /\ heap' = [heap EXCEPT ![a] = None] /\ cancelled' = cancelled \cup {id}
      /\ UNCHANGED <<program, life, leaked, cancelingTimers, seqs, callVars, timeVars, timerfd, threadVars, issued>>
  BY DEF Cancel, Deleted
<1>2. Listed(a) /\ id = IdOf(a) /\ a \in Addrs /\ id \in Ids /\ id[2] = heap[a].seq
  <2>1. Listed(a) /\ id = IdOf(a) /\ id \in Ids
    BY DEF Inv, Agree, TypeOK
  <2> QED BY <2>1 DEF Ids, IdOf
<1> HIDE DEF a
<1>3. ~Called(a) /\ ~Queued(a) /\ heap[a] # None
  BY <1>2 DEF Inv, Owners
<1>4. heap'[a] = None /\ \A b \in Addrs : b # a => heap'[b] = heap[b]
  BY <1>1, <1>2 DEF Inv, TypeOK
<1>5. \A e \in timers : e \in timers' <=> e[2] # a
  <2> SUFFICES ASSUME NEW e \in timers PROVE e \in timers' <=> e[2] # a
    OBVIOUS
  <2>1. e = <<e[1], e[2]>> /\ e[1] = heap[e[2]].expiration
    BY EntryFacts DEF Inv, Agree
  <2>2. e = <<heap[a].expiration, a>> <=> e[2] = a
    BY <2>1
  <2> QED BY <2>2, <1>1
<1>6. \A b \in Addrs : /\ Listed(b)' <=> Listed(b) /\ b # a
                       /\ Called(b)' <=> Called(b)
                       /\ Queued(b)' <=> Queued(b)
  <2>1. \A b \in Addrs : Listed(b)' <=> Listed(b) /\ b # a
    BY <1>1, <1>5 DEF Listed
  <2> QED BY <1>1, <2>1 DEF Called, Queued
<1>7. TypeOK'
  <2>1. heap' \in [Addrs -> Timer \cup {None}]
    BY <1>1, <1>2 DEF Inv, TypeOK
  <2>2. timers' \in SUBSET (Nat \X Addrs) /\ activeTimers' \in SUBSET Ids /\ cancelled' \in SUBSET Ids
    BY <1>1, <1>2 DEF Inv, TypeOK
  <2> QED BY <1>1, <2>1, <2>2 DEF Inv, TypeOK
<1>8. Owners'
  <2>1. Distinct(expired)' /\ Distinct(functors)'
    BY <1>1 DEF Inv, Owners, Distinct
  <2> QED BY <1>3, <1>4, <1>6, <2>1 DEF Inv, Owners
<1>9. Agree'
  <2>1. ASSUME NEW b \in Addrs, b # a PROVE heap'[b] = heap[b] /\ IdOf(b)' = IdOf(b)
    BY <2>1, <1>4 DEF IdOf
  <2>2. ASSUME NEW e \in timers'
        PROVE  e[1] = heap'[e[2]].expiration /\ IdOf(e[2])' \in activeTimers'
    <3>1. e \in timers /\ e[2] \in Addrs /\ e[2] # a
      BY <1>1, <1>5, EntryFacts DEF Inv
    <3>2. e[1] = heap[e[2]].expiration /\ IdOf(e[2]) \in activeTimers /\ heap[e[2]] # None
      BY <3>1, EntryFacts DEF Inv, Agree, Owners
    <3>3. IdOf(e[2]) # id
      BY <3>1, <3>2, <1>2, TimerFacts DEF Inv, a
    <3> QED BY <3>1, <3>2, <3>3, <2>1, <1>1
  <2>3. ASSUME NEW i \in activeTimers'
        PROVE  Listed(i[1])' /\ i = IdOf(i[1])'
    <3>1. i \in activeTimers /\ i # id /\ i[1] \in Addrs /\ Listed(i[1]) /\ i = IdOf(i[1])
      BY <1>1 DEF Inv, Agree, TypeOK, Ids
    <3>2. i[1] # a
      BY <3>1, <1>2
    <3> QED BY <3>1, <3>2, <2>1, <1>6
  <2> QED BY <2>2, <2>3 DEF Agree
<1>10. Calls'
  <2>1. IsFiniteSet(timers')
    BY <1>1, FS_Subset DEF Inv, Calls
  <2> QED BY <1>1, <2>1 DEF Inv, Calls
<1>11. Cancelled'
  <2>1. \A b \in Addrs : heap'[b] # None => b # a /\ heap'[b] = heap[b]
    BY <1>4
  <2>2. \A b \in Addrs : heap'[b] # None => heap'[b].seq < seqs'
    BY <1>1, <2>1 DEF Inv, Cancelled
  <2>3. ASSUME NEW i \in cancelled'
        PROVE  /\ i[2] < seqs'
               /\ heap'[i[1]] # None /\ heap'[i[1]].seq = i[2] =>
                      Called(i[1])' /\ i \in cancelingTimers'
    <3>1. CASE i = id
      <4>1. i[2] < seqs'
        BY <3>1, <1>1, <1>2, <1>3 DEF Inv, Cancelled
      <4>2. heap'[i[1]] = None
        BY <3>1, <1>4 DEF a
      <4> QED BY <4>1, <4>2
    <3>2. CASE i \in cancelled
      <4>1. i[1] \in Addrs
        BY <3>2 DEF Inv, TypeOK, Ids
      <4> QED BY <3>2, <4>1, <2>1, <1>1, <1>6 DEF Inv, Cancelled
    <3> QED BY <3>1, <3>2, <1>1, <2>3
  <2> QED BY <2>2, <2>3 DEF Cancelled
<1>12. Armed'
  <2>1. timers' \subseteq timers
    BY <1>1
  <2> QED BY <2>1, <1>1 DEF Inv, Armed
<1> QED BY <1>7, <1>8, <1>9, <1>10, <1>11, <1>12 DEF Inv

\* cancel of any other timer: it is remembered while handleRead runs.
LEMMA CancelOtherInv ==
    ASSUME Inv, NEW id \in issued, Cancel(id), id \notin activeTimers
    PROVE  Inv'
<1> USE DEF sysVars, setVars, callVars, threadVars, timeVars
<1>1. /\ cancelingTimers' = IF calling THEN cancelingTimers \cup {id} ELSE cancelingTimers
      /\ cancelled' = IF id \in Batch THEN cancelled \cup {id} ELSE cancelled
      /\ UNCHANGED <<program, life, leaked, heap, timers, activeTimers, seqs, callVars, timeVars, timerfd,
                     threadVars, issued>>
  BY DEF Cancel, Remembered
<1>2. id \in Ids
  BY DEF Inv, TypeOK
<1>3. Owners' /\ Agree' /\ Calls' /\ Armed'
  <2>1. Owners' /\ Agree' /\ IsFiniteSet(timers)'
    BY <1>1, OwnersKept
  <2> QED BY <1>1, <2>1 DEF Inv, Calls, Armed
<1>4. TypeOK'
  <2>1. cancelingTimers' \in SUBSET Ids /\ cancelled' \in SUBSET Ids
    BY <1>1, <1>2 DEF Inv, TypeOK
  <2> QED BY <1>1, <2>1 DEF Inv, TypeOK
<1>5. ASSUME id \in Batch
      PROVE  calling /\ Called(id[1]) /\ id[2] < seqs
  <2>1. PICK i \in DOMAIN expired : id = IdOf(expired[i])
    BY <1>5 DEF Batch
  <2>2. expired[i] \in Addrs /\ Called(expired[i])
    BY <2>1, ElementOfSeq, LenProperties DEF Inv, TypeOK, Called
  <2>3. heap[expired[i]] # None /\ heap[expired[i]].seq < seqs
    BY <2>2 DEF Inv, Owners, Cancelled
  <2>4. id[1] = expired[i] /\ id[2] = heap[expired[i]].seq
    BY <2>1 DEF IdOf
  <2>5. calling
    BY <2>1, EmptySeq DEF Inv, Calls
  <2> QED BY <2>2, <2>3, <2>4, <2>5
<1>6. Cancelled'
  <2>1. \A b : Called(b)' <=> Called(b)
    BY <1>1 DEF Called
  <2>2. ASSUME NEW i \in cancelled'
        PROVE  /\ i[2] < seqs'
               /\ heap'[i[1]] # None /\ heap'[i[1]].seq = i[2] =>
                      Called(i[1])' /\ i \in cancelingTimers'
    <3>1. CASE i \in cancelled
      BY <3>1, <2>1, <1>1 DEF Inv, Cancelled
    <3>2. CASE i = id /\ id \in Batch
      BY <3>2, <2>1, <1>1, <1>5
    <3> QED BY <3>1, <3>2, <1>1, <2>2
  <2> QED BY <1>1, <2>2 DEF Inv, Cancelled
<1> QED BY <1>3, <1>4, <1>6 DEF Inv

\* Two entries for the same timer are the same entry.
LEMMA EntryUnique ==
    ASSUME Inv, NEW e \in timers, NEW f \in timers, e[2] = f[2]
    PROVE  e = f
BY EntryFacts DEF Inv, Agree

\* The entries of due, sorted, make a vector of distinct timers.
LEMMA SortedFacts ==
    ASSUME Inv, NEW due \in SUBSET timers, NEW s \in [1..Cardinality(due) -> due], Sorted(s, due)
    PROVE  LET v == [i \in DOMAIN s |-> s[i][2]] IN
           /\ v \in Seq(Addrs) /\ Distinct(v)
           /\ \A a : (\E i \in DOMAIN v : v[i] = a) <=> \E e \in due : e[2] = a
<1> DEFINE v == [i \in DOMAIN s |-> s[i][2]]
           n == Cardinality(due)
<1>1. n \in Nat
  BY FS_Subset, FS_CardinalityType DEF Inv, Calls
<1>2. DOMAIN s = 1..n /\ DOMAIN v = 1..n
  OBVIOUS
<1>3. \A i \in 1..n : /\ s[i] \in due /\ s[i] \in timers /\ v[i] = s[i][2]
                      /\ s[i][1] \in Nat /\ s[i][2] \in Addrs /\ s[i][2] \in Nat
  <2> SUFFICES ASSUME NEW i \in 1..n
               PROVE  /\ s[i] \in due /\ s[i] \in timers /\ v[i] = s[i][2]
                      /\ s[i][1] \in Nat /\ s[i][2] \in Addrs /\ s[i][2] \in Nat
    OBVIOUS
  <2>1. s[i] \in due /\ s[i] \in timers /\ v[i] = s[i][2]
    OBVIOUS
  <2> QED BY <2>1, EntryFacts, ConstantsAssumption DEF Inv
<1>4. v \in Seq(Addrs)
  <2>1. v \in [1..n -> Addrs]
    BY <1>3
  <2> QED BY <1>1, <2>1, SeqDef
<1>5. Distinct(v)
  <2> SUFFICES ASSUME NEW i \in 1..n, NEW j \in 1..n, v[i] = v[j], i # j PROVE FALSE
    BY <1>2 DEF Distinct
  <2>1. s[i] = s[j]
    BY <1>3, EntryUnique
  <2>2. ~Before(s[i], s[j]) /\ ~Before(s[j], s[i])
    BY <1>3, <2>1 DEF Before
  <2>3. i < j \/ j < i
    BY <1>1
  <2> QED BY <1>2, <2>2, <2>3 DEF Sorted
<1>6. ASSUME NEW a PROVE (\E i \in DOMAIN v : v[i] = a) <=> \E e \in due : e[2] = a
  <2>1. ASSUME NEW i \in DOMAIN v, v[i] = a PROVE \E e \in due : e[2] = a
    BY <1>2, <1>3, <2>1
  <2>2. ASSUME NEW e \in due, e[2] = a PROVE \E i \in DOMAIN v : v[i] = a
    <3>1. PICK i \in DOMAIN s : s[i] = e
      BY DEF Sorted
    <3>2. i \in DOMAIN v /\ v[i] = a
      BY <1>2, <1>3, <2>2, <3>1
    <3> QED BY <3>2
  <2> QED BY <2>1, <2>2
<1> QED BY <1>4, <1>5, <1>6

\* handleRead up to the first callback.
LEMMA HandleReadInv ==
    ASSUME Inv, HandleRead
    PROVE  Inv'
<1> USE DEF sysVars, setVars, callVars, threadVars, timeVars
<1> DEFINE due == Due(clock)
<1>1. /\ ~calling /\ timerfd' = None /\ now' = clock /\ pos' = 0 /\ timers' = timers \ due
      /\ activeTimers' = activeTimers \ Deactivated(due) /\ cancelingTimers' = {} /\ calling' = TRUE
      /\ UNCHANGED <<program, life, leaked, heap, seqs, running, timeVars, threadVars, issued, cancelled>>
  BY DEF HandleRead
<1>2. due \in SUBSET timers /\ \A e \in timers : e \in due <=> e[1] <= clock
  BY DEF Due
<1>3. PICK s \in [1..Cardinality(due) -> due] :
          Sorted(s, due) /\ expired' = [i \in DOMAIN s |-> s[i][2]]
  BY DEF HandleRead
<1> HIDE DEF due
<1>4. /\ expired' \in Seq(Addrs) /\ Distinct(expired')
      /\ \A a : Called(a)' <=> \E e \in due : e[2] = a
  <2> DEFINE v == [i \in DOMAIN s |-> s[i][2]]
  <2>1. /\ v \in Seq(Addrs) /\ Distinct(v)
        /\ \A a : (\E i \in DOMAIN v : v[i] = a) <=> \E e \in due : e[2] = a
    BY <1>2, <1>3, SortedFacts
  <2>2. expired' = v
    BY <1>3
  <2> HIDE DEF v
  <2>3. \A a : Called(a)' <=> \E i \in DOMAIN v : v[i] = a
    BY <2>2 DEF Called
  <2> QED BY <2>1, <2>2, <2>3
<1>5. \A a : ~Called(a)
  BY <1>1, EmptySeq DEF Inv, Calls, Called
<1>6. \A a : /\ Listed(a)' <=> Listed(a) /\ ~Called(a)'
             /\ Called(a)' => Listed(a)
             /\ Queued(a)' <=> Queued(a)
  <2>1. \A a : Called(a)' => Listed(a)
    BY <1>2, <1>4 DEF Listed
  <2>2. ASSUME NEW a, Listed(a)' PROVE Listed(a) /\ ~Called(a)'
    <3>1. PICK e \in timers : e \notin due /\ e[2] = a
      BY <2>2, <1>1 DEF Listed
    <3>2. \A f \in due : f[2] # a
      BY <3>1, <1>2, EntryUnique
    <3> QED BY <3>1, <3>2, <1>4 DEF Listed
  <2>3. ASSUME NEW a, Listed(a), ~Called(a)' PROVE Listed(a)'
    BY <2>3, <1>1, <1>4 DEF Listed
  <2>4. \A a : Queued(a)' <=> Queued(a)
    BY <1>1 DEF Queued
  <2> QED BY <2>1, <2>2, <2>3, <2>4
<1>7. TypeOK'
  <2>1. timers' \in SUBSET (Nat \X Addrs) /\ activeTimers' \in SUBSET Ids /\ cancelingTimers' \in SUBSET Ids
    BY <1>1 DEF Inv, TypeOK
  <2>2. pos' \in 0..Len(expired')
    BY <1>1, <1>4, LenProperties
  <2> QED BY <1>1, <1>4, <2>1, <2>2 DEF Inv, TypeOK
<1>8. Owners'
  <2>1. Distinct(functors)'
    BY <1>1 DEF Inv, Owners, Distinct
  <2>2. \A a \in Addrs : /\ heap[a] # None <=> Listed(a) \/ Queued(a)
                         /\ ~(Listed(a) /\ Queued(a))
    BY <1>5 DEF Inv, Owners
  <2> QED BY <1>1, <1>4, <1>6, <2>1, <2>2 DEF Owners
<1>9. Agree'
  <2>1. \A b : IdOf(b)' = IdOf(b)
    BY <1>1 DEF IdOf
  <2>2. ASSUME NEW e \in timers'
        PROVE  e[1] = heap'[e[2]].expiration /\ IdOf(e[2])' \in activeTimers'
    <3>1. e \in timers /\ e \notin due /\ e[1] = heap[e[2]].expiration /\ IdOf(e[2]) \in activeTimers
      BY <1>1 DEF Inv, Agree
    <3>2. ASSUME NEW f \in due, IdOf(e[2]) = IdOf(f[2]) PROVE FALSE
      <4>1. e[2] = f[2]
        BY <3>2 DEF IdOf
      <4> QED BY <4>1, <3>1, <1>2, EntryUnique
    <3>3. IdOf(e[2]) \notin Deactivated(due)
      BY <3>2 DEF Deactivated
    <3> QED BY <3>1, <3>3, <2>1, <1>1
  <2>3. ASSUME NEW id \in activeTimers'
        PROVE  Listed(id[1])' /\ id = IdOf(id[1])'
    <3>1. id \in activeTimers /\ id \notin Deactivated(due) /\ Listed(id[1]) /\ id = IdOf(id[1])
      BY <1>1 DEF Inv, Agree
    <3>2. ~Called(id[1])'
      BY <3>1, <1>4 DEF Deactivated
    <3> QED BY <3>1, <3>2, <1>6, <2>1
  <2> QED BY <2>2, <2>3 DEF Agree
<1>10. Calls'
  BY <1>1, FS_Subset DEF Inv, Calls
<1>11. Cancelled'
  BY <1>1, <1>5 DEF Inv, Cancelled
<1>12. Armed'
  <2>1. \A e \in timers' : e[1] # 0
    <3> SUFFICES ASSUME NEW e \in timers' PROVE e[1] # 0
      OBVIOUS
    <3>1. e \in timers /\ ~(e[1] <= clock)
      BY <1>1, <1>2
    <3>2. e[1] \in Nat /\ clock \in Nat
      BY <3>1, EntryFacts DEF Inv, TypeOK
    <3> QED BY <3>1, <3>2
  <2> QED BY <1>1, <2>1 DEF Armed
<1> QED BY <1>7, <1>8, <1>9, <1>10, <1>11, <1>12 DEF Inv

\* The loop is destroyed, and the waiting timers with it.
LEMMA DestructInv ==
    ASSUME Inv, DroppedAtEnd, Destruct
    PROVE  Inv'
<1> USE DEF sysVars, setVars, callVars, threadVars, timeVars
<1>1. /\ ~calling /\ leaked = {} /\ leaked' = Dropped /\ functors' = <<>>
      /\ heap' = [a \in Addrs |-> IF Listed(a) THEN None ELSE heap[a]]
      /\ timers' = {} /\ activeTimers' = {} /\ cancelingTimers' = {} /\ timerfd' = None
      /\ UNCHANGED <<program, seqs, callVars, timeVars, adder, issued, cancelled>>
  BY DEF Destruct, Deleted, Listed, DroppedAtEnd
<1>2. \A a : ~Called(a) /\ ~Called(a)' /\ ~Listed(a)' /\ (Queued(a)' <=> Queued(a))
  <2>1. expired = <<>> /\ expired' = <<>>
    BY <1>1 DEF Inv, Calls
  <2>2. \A a : a \in Dropped <=> \E i \in DOMAIN functors : functors[i] = a
    BY DEF Dropped
  <2>3. \A a : Queued(a)' <=> Queued(a)
    BY <1>1, <2>2, EmptySeq DEF Queued
  <2> QED BY <1>1, <2>1, <2>3, EmptySeq DEF Listed, Called
<1>3. \A a \in Addrs : heap'[a] # None => heap'[a] = heap[a]
  BY <1>1
<1>4. TypeOK'
  <2>1. heap' \in [Addrs -> Timer \cup {None}]
    BY <1>1 DEF Inv, TypeOK
  <2>2. Dropped \in SUBSET Addrs
    BY DEF Inv, TypeOK, Dropped
  <2>3. functors' \in Seq(Addrs)
    BY <1>1, EmptySeq
  <2>4. life' \in {"alive", "destroyed"}
    BY DEF Destruct
  <2> QED BY <1>1, <2>1, <2>2, <2>3, <2>4 DEF Inv, TypeOK
<1>5. Owners'
  <2>1. Distinct(expired)' /\ Distinct(functors)'
    BY <1>1, EmptySeq DEF Inv, Owners, Distinct
  <2>2. \A a \in Addrs : heap'[a] # None <=> Queued(a)'
    BY <1>1, <1>2 DEF Inv, Owners
  <2> QED BY <1>2, <2>1, <2>2 DEF Owners
<1>6. Agree' /\ Armed'
  BY <1>1 DEF Agree, Armed
<1>7. Calls'
  BY <1>1, FS_EmptySet DEF Inv, Calls
<1>8. Cancelled'
  <2>1. \A id \in cancelled : id[1] \in Addrs
    BY DEF Inv, TypeOK, Ids
  <2> QED BY <1>1, <1>2, <1>3, <2>1 DEF Inv, Cancelled
<1> QED BY <1>4, <1>5, <1>6, <1>7, <1>8 DEF Inv

\* reset: repeating timers that were not cancelled wait again, the others are
\* deleted.
LEMMA ResetInv ==
    ASSUME Inv, Reset
    PROVE  Inv'
<1> USE DEF sysVars, setVars, callVars, threadVars, timeVars
<1> DEFINE batch == {id[1] : id \in Batch}
           again == {a \in batch : Restarted(a)}
           due(a) == now + heap[a].interval
<1>1. /\ calling /\ running = None
      /\ calling' = FALSE /\ expired' = <<>> /\ pos' = 0 /\ now' = 0
      /\ heap' = [a \in Addrs |->
            IF a \in again THEN [heap[a] EXCEPT !.expiration = due(a)]
            ELSE IF a \in batch THEN None ELSE heap[a]]
      /\ timers' = timers \cup {<<due(a), a>> : a \in again}
      /\ activeTimers' = activeTimers \cup {IdOf(a) : a \in again}
      /\ timerfd' = Rearmed(timers')
      /\ UNCHANGED <<program, life, leaked, seqs, cancelingTimers, running, timeVars, threadVars, issued, cancelled>>
  BY DEF Reset, Deleted
<1>2. \A a : a \in batch <=> Called(a)
  <2>1. \A i \in DOMAIN expired : IdOf(expired[i])[1] = expired[i]
    BY DEF IdOf
  <2>2. batch = {expired[i] : i \in DOMAIN expired}
    BY <2>1 DEF Batch
  <2> QED BY <2>2 DEF Called
<1>3. \A a \in batch : a \in Addrs
  <2>1. expired \in Seq(Addrs)
    BY DEF Inv, TypeOK
  <2> QED BY <1>2, <2>1, ElementOfSeq, LenProperties DEF Called
<1>4. \A a \in again : a \in batch /\ heap[a].interval > 0 /\ IdOf(a) \notin cancelingTimers
  BY DEF Restarted
<1> HIDE DEF batch, again
<1>5. ASSUME NEW a \in again
      PROVE  /\ a \in Addrs /\ a \in batch /\ Called(a) /\ heap[a] # None /\ heap[a] \in Timer
             /\ due(a) \in Nat /\ due(a) > 0 /\ IdOf(a) \in Ids
  <2>1. a \in batch /\ a \in Addrs /\ Called(a)
    BY <1>2, <1>3, <1>4
  <2>2. heap[a] # None
    BY <2>1 DEF Inv, Owners
  <2>3. heap[a] \in Timer /\ heap[a].interval \in Nat /\ IdOf(a) \in Ids
    BY <2>1, <2>2, TimerFacts DEF Inv
  <2>4. now \in Nat
    BY ConstantsAssumption DEF Inv, TypeOK
  <2>5. heap[a].interval > 0
    BY <1>4
  <2> QED BY <2>1, <2>2, <2>3, <2>4, <2>5
<1>6. ASSUME NEW a \in again
      PROVE  /\ heap'[a] \in Timer /\ heap'[a] # None /\ heap'[a].expiration = due(a)
             /\ heap'[a].seq = heap[a].seq /\ IdOf(a)' = IdOf(a)
  <2>1. heap'[a] = [heap[a] EXCEPT !.expiration = due(a)]
    BY <1>1, <1>5
  <2>2. heap[a] \in Timer /\ due(a) \in Nat
    BY <1>5
  <2>3. /\ heap'[a] \in Timer /\ heap'[a].expiration = due(a) /\ heap'[a].seq = heap[a].seq
    BY <2>1, <2>2 DEF Timer
  <2>4. heap'[a] # None
    <3>1. 0..MaxTimers \subseteq Nat /\ Intervals \subseteq Nat
      BY ConstantsAssumption
    <3>2. heap'[a] \in [seq : Nat, expiration : Nat, interval : Nat]
      BY <2>3, <3>1 DEF Timer
    <3> QED BY <3>2, ConstantsAssumption
  <2> QED BY <2>3, <2>4 DEF IdOf
<1>7. ASSUME NEW a \in Addrs, a \notin again
      PROVE  heap'[a] = IF a \in batch THEN None ELSE heap[a]
  BY <1>1, <1>7
<1>8. \A a \in Addrs : /\ Listed(a)' <=> Listed(a) \/ a \in again
                       /\ ~Called(a)'
                       /\ Queued(a)' <=> Queued(a)
  <2>1. \A a \in again : <<due(a), a>>[2] = a
    OBVIOUS
  <2>2. \A a \in Addrs : Listed(a)' <=> Listed(a) \/ a \in again
    BY <1>1, <2>1 DEF Listed
  <2>3. \A a \in Addrs : ~Called(a)'
    BY <1>1, EmptySeq DEF Called
  <2>4. \A a \in Addrs : Queued(a)' <=> Queued(a)
    BY <1>1 DEF Queued
  <2> QED BY <2>2, <2>3, <2>4
<1>9. timers' \in SUBSET (Nat \X Addrs) /\ activeTimers' \in SUBSET Ids
  <2>1. \A a \in again : <<due(a), a>> \in Nat \X Addrs
    BY <1>5
  <2>2. \A a \in again : IdOf(a) \in Ids
    BY <1>5
  <2> QED BY <1>1, <2>1, <2>2 DEF Inv, TypeOK
<1>10. /\ timers' # {} => timerfd' \in Nat
       /\ timerfd' \in Nat \cup {None}
       /\ timers' # {} => timerfd' <= 1 \/ \A e \in timers' : clock + timerfd' <= e[1]
  <2> DEFINE first == Earliest(timers')
  <2>1. CASE timers' # {} /\ first[1] > 0
    <3>1. first[1] \in Nat /\ \A e \in timers' : first[1] <= e[1]
      BY <2>1, <1>9, EarliestFacts
    <3>2. timerfd' = ResetTimerfd(first[1])
      BY <2>1, <1>1 DEF Rearmed
    <3>3. timerfd' \in Nat /\ (timerfd' = 1 \/ clock + timerfd' = first[1])
      BY <3>1, <3>2, ResetTimerfdFacts DEF Inv
    <3>4. \A e \in timers' : e[1] \in Nat
      BY <1>9
    <3>5. clock \in Nat
      BY DEF Inv, TypeOK
    <3> HIDE DEF first
    <3> QED BY <3>1, <3>3, <3>4, <3>5
  <2>2. CASE timers' # {} /\ ~(first[1] > 0)
    <3>1. first \in timers' /\ first[1] \in Nat
      BY <2>2, <1>9, EarliestFacts
    <3>2. timerfd' = timerfd /\ first[1] = 0
      BY <2>2, <3>1, <1>1 DEF Rearmed
    <3> HIDE DEF first
    <3>3. \A a \in again : <<due(a), a>>[1] # 0
      BY <1>5
    <3>4. first \in timers
      BY <3>1, <3>2, <3>3, <1>1
    <3>5. timerfd \in {0, 1}
      BY <3>2, <3>4, <1>1 DEF Inv, Armed
    <3> QED BY <3>2, <3>5
  <2>3. CASE timers' = {}
    BY <2>3, <1>1 DEF Rearmed, Inv, TypeOK
  <2> QED BY <2>1, <2>2, <2>3
<1>11. TypeOK'
  <2>1. heap' \in [Addrs -> Timer \cup {None}]
    <3>1. heap \in [Addrs -> Timer \cup {None}]
      BY DEF Inv, TypeOK
    <3>2. \A a \in Addrs : heap'[a] \in Timer \cup {None}
      BY <3>1, <1>6, <1>7
    <3>3. heap' = [a \in Addrs |-> heap'[a]]
      BY <1>1
    <3> QED BY <3>2, <3>3
  <2>2. expired' \in Seq(Addrs) /\ pos' \in 0..Len(expired') /\ now' \in 0..MaxTime
    BY <1>1, EmptySeq, ConstantsAssumption
  <2> QED BY <1>1, <1>9, <1>10, <2>1, <2>2 DEF Inv, TypeOK
<1>12. Owners'
  <2>1. Distinct(expired)'
    BY <1>1, EmptySeq DEF Distinct
  <2>2. Distinct(functors)'
    BY <1>1 DEF Inv, Owners, Distinct
  <2>3. ASSUME NEW a \in Addrs
        PROVE  /\ heap'[a] # None <=> Listed(a)' \/ Called(a)' \/ Queued(a)'
               /\ ~(Listed(a)' /\ Queued(a)')
    <3>1. CASE a \in again
      BY <3>1, <1>5, <1>6, <1>8 DEF Inv, Owners
    <3>2. CASE a \notin again /\ a \in batch
      BY <3>2, <1>2, <1>7, <1>8 DEF Inv, Owners
    <3>3. CASE a \notin batch
      BY <3>3, <1>2, <1>4, <1>7, <1>8 DEF Inv, Owners
    <3> QED BY <3>1, <3>2, <3>3
  <2> QED BY <1>8, <2>1, <2>2, <2>3 DEF Owners
<1>13. Agree'
  <2>1. ASSUME NEW a \in Addrs, Listed(a)
        PROVE  heap'[a] = heap[a] /\ IdOf(a)' = IdOf(a)
    <3>1. a \notin batch /\ a \notin again
      BY <2>1, <1>2, <1>4 DEF Inv, Owners
    <3>2. heap'[a] = heap[a]
      BY <3>1, <1>7
    <3> QED BY <3>2 DEF IdOf
  <2>2. ASSUME NEW e \in timers'
        PROVE  e[1] = heap'[e[2]].expiration /\ IdOf(e[2])' \in activeTimers'
    <3>1. CASE e \in timers
      <4>1. e[2] \in Addrs /\ Listed(e[2])
        BY <3>1, EntryFacts DEF Inv
      <4>2. e[1] = heap[e[2]].expiration /\ IdOf(e[2]) \in activeTimers
        BY <3>1 DEF Inv, Agree
      <4> QED BY <4>1, <4>2, <2>1, <1>1
    <3>2. ASSUME NEW a \in again, e = <<due(a), a>>
          PROVE  e[1] = heap'[e[2]].expiration /\ IdOf(e[2])' \in activeTimers'
      <4>1. e[1] = due(a) /\ e[2] = a
        BY <3>2
      <4> QED BY <4>1, <1>1, <1>6
    <3> QED BY <3>1, <3>2, <1>1, <2>2
  <2>3. ASSUME NEW id \in activeTimers'
        PROVE  Listed(id[1])' /\ id = IdOf(id[1])'
    <3>1. CASE id \in activeTimers
      <4>1. Listed(id[1]) /\ id = IdOf(id[1]) /\ id[1] \in Addrs
        BY <3>1 DEF Inv, Agree, TypeOK, Ids
      <4> QED BY <4>1, <2>1, <1>8
    <3>2. ASSUME NEW a \in again, id = IdOf(a)
          PROVE  Listed(id[1])' /\ id = IdOf(id[1])'
      <4>1. id[1] = a
        BY <3>2 DEF IdOf
      <4> QED BY <3>2, <4>1, <1>5, <1>6, <1>8
    <3> QED BY <3>1, <3>2, <1>1, <2>3
  <2> QED BY <2>2, <2>3 DEF Agree
<1>14. Calls'
  <2> DEFINE I == {i \in DOMAIN expired : expired[i] \in again}
             f == [i \in I |-> <<due(expired[i]), expired[i]>>]
             new == {<<due(a), a>> : a \in again}
  <2>1. IsFiniteSet(I)
    <3>1. DOMAIN expired = 1..Len(expired) /\ Len(expired) \in Nat
      BY LenProperties DEF Inv, TypeOK
    <3>2. IsFiniteSet(1..Len(expired))
      BY <3>1, FS_Interval
    <3> QED BY <3>1, <3>2, FS_Subset
  <2>2. f \in Surjection(I, new)
    <3>1. \A a \in again : \E i \in DOMAIN expired : expired[i] = a
      BY <1>5 DEF Called
    <3>2. f \in [I -> new]
      OBVIOUS
    <3>3. \A e \in new : \E i \in I : f[i] = e
      BY <3>1
    <3> QED BY <3>2, <3>3 DEF Surjection
  <2>3. IsFiniteSet(new)
    BY <2>1, <2>2, FS_Surjection
  <2>4. timers' = timers \cup new
    BY <1>1
  <2> HIDE DEF new
  <2>5. IsFiniteSet(timers')
    BY <2>3, <2>4, FS_Union DEF Inv, Calls
  <2> QED BY <2>5, <1>1 DEF Calls
<1>15. Cancelled'
  <2>1. ASSUME NEW a \in Addrs, heap'[a] # None
        PROVE  /\ heap[a] # None /\ heap'[a].seq = heap[a].seq
               /\ a \in again \/ a \notin batch
    BY <2>1, <1>5, <1>6, <1>7
  <2>2. \A a \in Addrs : heap'[a] # None => heap'[a].seq < seqs'
    BY <2>1, <1>1 DEF Inv, Cancelled
  <2>3. ASSUME NEW id \in cancelled
        PROVE  /\ id[2] < seqs'
               /\ ~(heap'[id[1]] # None /\ heap'[id[1]].seq = id[2])
    <3>1. id[2] < seqs' /\ id[1] \in Addrs /\ id = <<id[1], id[2]>>
      BY <1>1 DEF Inv, Cancelled, TypeOK, Ids
    <3>2. ASSUME heap'[id[1]] # None, heap'[id[1]].seq = id[2] PROVE FALSE
      <4>1. /\ heap[id[1]] # None /\ heap[id[1]].seq = id[2]
            /\ id[1] \in again \/ id[1] \notin batch
        BY <2>1, <3>1, <3>2
      <4>2. Called(id[1]) /\ id \in cancelingTimers
        BY <4>1 DEF Inv, Cancelled
      <4>3. id[1] \in again
        BY <4>1, <4>2, <1>2
      <4>4. id = IdOf(id[1])
        BY <3>1, <4>1 DEF IdOf
      <4> QED BY <4>2, <4>3, <4>4, <1>4
    <3> QED BY <3>1, <3>2
  <2> QED BY <1>1, <2>2, <2>3 DEF Cancelled
<1>16. Armed'
  BY <1>1, <1>10, ConstantsAssumption DEF Armed
<1> QED BY <1>11, <1>12, <1>13, <1>14, <1>15, <1>16 DEF Inv

\* Every step keeps the invariant.
LEMMA NextInv == Inv /\ DroppedAtEnd /\ [Next]_vars => Inv'
<1> SUFFICES ASSUME Inv, DroppedAtEnd, [Next]_vars PROVE Inv'
  OBVIOUS
<1>1. CASE UNCHANGED vars
  <2>1. UNCHANGED <<heap, seqs, timers, activeTimers, cancelingTimers, expired, functors, leaked,
                    cancelled>>
    BY <1>1 DEF vars, sysVars, setVars, callVars, threadVars
  <2>2. Owners' /\ Agree' /\ IsFiniteSet(timers)' /\ Cancelled'
    BY <2>1, OwnersKept, CancelledKept
  <2>3. Calls' /\ Armed' /\ TypeOK'
    BY <1>1, <2>2 DEF Inv, Calls, Armed, TypeOK, vars, sysVars, setVars, callVars, threadVars, timeVars
  <2> QED BY <2>2, <2>3 DEF Inv
<1>2. CASE QueueStep
  BY <1>2, HandleReadInv, CallInv, ResetInv, RunAddTimerInLoopInv DEF QueueStep
<1>3. CASE Tick \/ \E c \in 0..MaxTime : Jump(c)
  BY <1>3, ClockInv
<1>4. CASE AddTimerReturns
  BY <1>4, CallInv
<1>5. CASE Destruct
  BY <1>5, DestructInv
<1>6. CASE \E id \in issued : Cancel(id)
  BY <1>6, CancelWaitingInv, CancelOtherInv
<1>7. CASE \E a \in Addrs, when \in 0..MaxTime, i \in Intervals :
              AddTimer(a, when, i) \/ AddTimerForeign(a, when, i)
  BY <1>7, AddTimerInv, AddTimerForeignInv
<1> QED BY <1>1, <1>2, <1>3, <1>4, <1>5, <1>6, <1>7 DEF Next
-----------------------------------------------------------------------------
(* The theorems.                                                           *)

\* The loop drops functors only when it goes, and keeps none then.
THEOREM DropsAtEnd == Spec => []DroppedAtEnd
<1>1. Init => DroppedAtEnd
  BY DEF Init, DroppedAtEnd
<1>2. DroppedAtEnd /\ [Next]_vars => DroppedAtEnd'
  <2> SUFFICES ASSUME DroppedAtEnd, [Next]_vars PROVE DroppedAtEnd'
    OBVIOUS
  <2>1. \/ life' = "destroyed" /\ functors' = <<>>
        \/ UNCHANGED <<life, leaked>> /\ (life = "alive" \/ functors' = functors)
    BY DEF Next, QueueStep, HandleRead, RunTimer, TimerReturns, Reset, RunAddTimerInLoop, Tick,
           AddTimerReturns, Destruct, Jump, Cancel, AddTimer, AddTimerForeign, vars, sysVars,
           threadVars
  <2> QED BY <2>1 DEF DroppedAtEnd
<1> QED BY <1>1, <1>2, PTL DEF Spec

\* The inductive invariant holds in every reachable state.
THEOREM InvHolds == Spec => []Inv
<1>1. Init => Inv
  BY InitInv
<1>2. Inv /\ DroppedAtEnd /\ [Next]_vars => Inv'
  BY NextInv
<1> QED BY <1>1, <1>2, DropsAtEnd, PTL DEF Spec

\* Types of the variables, for any constants.
THEOREM TypeCorrect == Spec => []TypeOK
<1>1. Inv => TypeOK
  BY DEF Inv
<1> QED BY <1>1, InvHolds, PTL

\* timers_ and activeTimers_ hold the same live timers in every reachable
\* state: the assertions on their sizes in insert, cancelInLoop and getExpired
\* cannot fail.
THEOREM SetsStayAgreed == Spec => []SetsAgree
<1>1. Inv => SetsAgree
  <2> SUFFICES ASSUME Inv PROVE SetsAgree
    OBVIOUS
  <2> DEFINE live == {e[2] : e \in timers}
  <2>1. \A a : a \in live <=> Listed(a)
    BY DEF Listed
  <2>2. \A a \in live : heap[a] # None /\ <<heap[a].expiration, a>> \in timers /\ IdOf(a) \in activeTimers
    <3> SUFFICES ASSUME NEW e \in timers
                 PROVE  /\ heap[e[2]] # None /\ <<heap[e[2]].expiration, e[2]>> \in timers
                        /\ IdOf(e[2]) \in activeTimers
      OBVIOUS
    <3>1. e[2] \in Addrs /\ e = <<e[1], e[2]>> /\ Listed(e[2])
      BY EntryFacts DEF Inv
    <3> QED BY <3>1 DEF Inv, Owners, Agree
  <2>3. \A e \in timers : e[2] \in live /\ e = <<heap[e[2]].expiration, e[2]>>
    BY EntryFacts DEF Inv, Agree
  <2>4. \A id \in activeTimers : id[1] \in live /\ id = IdOf(id[1])
    BY <2>1 DEF Inv, Agree
  <2> HIDE DEF live
  <2>5. timers = {<<heap[a].expiration, a>> : a \in live}
    BY <2>2, <2>3
  <2>6. activeTimers = {IdOf(a) : a \in live}
    BY <2>2, <2>4
  <2> QED BY <2>2, <2>5, <2>6 DEF SetsAgree, live
<1> QED BY <1>1, InvHolds, PTL

\* Every Timer on the heap has exactly one owner in every reachable state:
\* none is deleted twice or used after it was deleted, and none leaks but those
\* whose functors went with the loop.
THEOREM OwnersStayUnique == Spec => []OneOwner
<1>1. Inv /\ DroppedAtEnd => OneOwner
  <2> SUFFICES ASSUME Inv, DroppedAtEnd, NEW a \in Addrs
               PROVE  Cardinality({e \in timers : e[2] = a})
                      + Cardinality({i \in DOMAIN expired : expired[i] = a})
                      + Cardinality({i \in DOMAIN functors : functors[i] = a})
                      = IF heap[a] = None \/ a \in leaked THEN 0 ELSE 1
    BY DEF OneOwner
  <2>1. Cardinality({e \in timers : e[2] = a}) = IF Listed(a) THEN 1 ELSE 0
    <3>1. CASE Listed(a)
      <4>1. PICK e \in timers : e[2] = a
        BY <3>1 DEF Listed
      <4>2. {f \in timers : f[2] = a} = {e}
        BY <4>1, EntryUnique
      <4> QED BY <3>1, <4>2, FS_Singleton
    <3>2. CASE ~Listed(a)
      <4>1. {e \in timers : e[2] = a} = {}
        BY <3>2 DEF Listed
      <4> QED BY <3>2, <4>1, FS_EmptySet
    <3> QED BY <3>1, <3>2
  <2>2. Cardinality({i \in DOMAIN expired : expired[i] = a}) = IF Called(a) THEN 1 ELSE 0
    <3>1. CASE Called(a)
      <4>1. PICK i \in DOMAIN expired : expired[i] = a
        BY <3>1 DEF Called
      <4>2. {j \in DOMAIN expired : expired[j] = a} = {i}
        BY <4>1 DEF Inv, Owners, Distinct
      <4> QED BY <3>1, <4>2, FS_Singleton
    <3>2. CASE ~Called(a)
      <4>1. {i \in DOMAIN expired : expired[i] = a} = {}
        BY <3>2 DEF Called
      <4> QED BY <3>2, <4>1, FS_EmptySet
    <3> QED BY <3>1, <3>2
  <2>3. Cardinality({i \in DOMAIN functors : functors[i] = a})
        = IF Queued(a) /\ a \notin leaked THEN 1 ELSE 0
    <3>1. CASE Queued(a) /\ a \notin leaked
      <4>1. PICK i \in DOMAIN functors : functors[i] = a
        BY <3>1 DEF Queued
      <4>2. {j \in DOMAIN functors : functors[j] = a} = {i}
        BY <4>1 DEF Inv, Owners, Distinct
      <4> QED BY <3>1, <4>2, FS_Singleton
    <3>2. CASE ~Queued(a) \/ a \in leaked
      <4>1. {i \in DOMAIN functors : functors[i] = a} = {}
        BY <3>2, EmptySeq DEF Queued, DroppedAtEnd, Inv, TypeOK
      <4> QED BY <3>2, <4>1, FS_EmptySet
    <3> QED BY <3>1, <3>2
  <2>4. /\ heap[a] # None <=> Listed(a) \/ Called(a) \/ Queued(a)
        /\ ~(Listed(a) /\ Called(a)) /\ ~(Listed(a) /\ Queued(a)) /\ ~(Called(a) /\ Queued(a))
    BY DEF Inv, Owners
  <2>5. a \in leaked => Queued(a)
    BY DEF Queued
  <2> QED BY <2>1, <2>2, <2>3, <2>4, <2>5
<1> QED BY <1>1, InvHolds, DropsAtEnd, PTL

\* Outside handleRead the timerfd is armed whenever a timer waits, and as long
\* as nobody sets the clock it fires in time for the earliest one.
THEOREM StaysArmedInTime == Spec => []ArmedInTime
<1>1. Inv => ArmedInTime
  <2> SUFFICES ASSUME Inv, ~calling, timers # {}
               PROVE  /\ timerfd # None
                      /\ jumps = 0 /\ clock < MaxTime =>
                            timerfd <= 1 \/ clock + timerfd <= Earliest(timers)[1]
    BY DEF ArmedInTime
  <2>1. Earliest(timers) \in timers
    BY EarliestFacts DEF Inv, TypeOK
  <2> QED BY <2>1 DEF Inv, Armed
<1> QED BY <1>1, InvHolds, PTL

\* Once handleRead is over, no cancelled timer waits.
THEOREM CancelledNeverWaits == Spec => []CancelledStaysOut
<1>1. Inv => CancelledStaysOut
  <2> SUFFICES ASSUME Inv, ~calling, NEW id \in cancelled, id \in activeTimers PROVE FALSE
    BY DEF CancelledStaysOut
  <2>1. Listed(id[1]) /\ id = IdOf(id[1]) /\ id[1] \in Addrs
    BY DEF Inv, Agree, TypeOK, Ids
  <2>2. heap[id[1]] # None /\ heap[id[1]].seq = id[2] /\ ~Called(id[1])
    BY <2>1 DEF Inv, Owners, IdOf
  <2> QED BY <2>2 DEF Inv, Cancelled
<1> QED BY <1>1, InvHolds, PTL
=============================================================================
