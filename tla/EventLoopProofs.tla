-------------------------- MODULE EventLoopProofs --------------------------
(***************************************************************************)
(* Theorems about EventLoop, for any number of threads, functors and       *)
(* calls of quit(): the loop never sleeps on work or on a request to quit, *)
(* and it implements the serial executor TaskQueue.                        *)
(***************************************************************************)
EXTENDS EventLoop, SequenceTheorems, TLAPS

\* The flags agree with the place the owner thread is at.
Control ==
    /\ callingPendingFunctors <=> pc \in {"swap", "run"}
    /\ running # None => pc = "run"
    /\ currentActiveChannel => pc = "handle"
    /\ pc # "run" => functors = <<>>

\* Between the swap and the next poll, and while loop() is not running, every
\* functor but the early ones is announced.  While channels are handled the
\* eventfd may be drained: the swap that follows takes those functors.
WorkAnnounced ==
    pc \in {"idle", "check", "poll", "run"}
        /\ (\E f \in Elems(pendingFunctors) : f \notin early) => Announced

\* The inductive invariant.
Inv == TypeOK /\ Control /\ WorkAnnounced /\ NoLostQuit

-----------------------------------------------------------------------------
(* Facts about vectors of functors.                                        *)

\* push_back adds exactly the functor it is given.
LEMMA ElemsAppend ==
    ASSUME NEW S, NEW s \in Seq(S), NEW e \in S
    PROVE  Elems(Append(s, e)) = Elems(s) \cup {e}
BY DEF Elems

\* The empty vector has no elements.
LEMMA ElemsEmpty == Elems(<<>>) = {}
BY DEF Elems

\* Taking the first functor of a vector that has a second one behind it.
LEMMA ConcatHeadTail ==
    ASSUME NEW S, NEW s \in Seq(S), NEW t \in Seq(S), s # <<>>
    PROVE  /\ s \o t # <<>>
           /\ Head(s \o t) = Head(s)
           /\ Tail(s \o t) = Tail(s) \o t
<1>1. Len(s) > 0 /\ Len(s \o t) = Len(s) + Len(t) /\ s \o t \in Seq(S)
  BY EmptySeq, ConcatProperties
<1>2. s \o t # <<>> /\ Head(s \o t) = Head(s)
  BY <1>1
<1>3. Tail(s) \in Seq(S) /\ Len(Tail(s)) = Len(s) - 1
  BY <1>1
<1>4. Tail(s \o t) \in Seq(S) /\ Tail(s) \o t \in Seq(S)
  BY <1>1, <1>3
<1>5. Len(Tail(s \o t)) = Len(Tail(s) \o t)
  BY <1>1, <1>3
<1>6. \A i \in 1..Len(Tail(s \o t)) : Tail(s \o t)[i] = (Tail(s) \o t)[i]
  BY <1>1, <1>3
<1>7. Tail(s \o t) = Tail(s) \o t
  BY <1>4, <1>5, <1>6, SeqEqual
<1> QED BY <1>2, <1>7

\* Appending to the second of two vectors appends to their concatenation.
LEMMA ConcatAppend ==
    ASSUME NEW S, NEW s \in Seq(S), NEW t \in Seq(S), NEW e \in S
    PROVE  s \o Append(t, e) = Append(s \o t, e)
<1>1. s \o Append(t, e) \in Seq(S) /\ Append(s \o t, e) \in Seq(S)
  OBVIOUS
<1>2. Len(s \o Append(t, e)) = Len(Append(s \o t, e))
  OBVIOUS
<1>3. \A i \in 1..Len(s \o Append(t, e)) :
          (s \o Append(t, e))[i] = Append(s \o t, e)[i]
  OBVIOUS
<1> QED BY <1>1, <1>2, <1>3, SeqEqual

-----------------------------------------------------------------------------
(* The invariant is inductive.                                             *)

\* The constructor establishes it.
LEMMA InitInv == Init => Inv
<1> SUFFICES ASSUME Init PROVE Inv
  OBVIOUS
<1> USE DEF Init
<1>1. TypeOK
  <2>1. <<>> \in Seq(Functors) /\ 0 \in 0..MaxQuits
    BY ConstantsAssumption
  <2>2. caller \in [Callers -> {"idle", "wakeup"}]
    OBVIOUS
  <2> QED BY <2>1, <2>2 DEF TypeOK, PCs
<1>2. Control /\ NoLostQuit
  BY DEF Control, NoLostQuit
<1>3. WorkAnnounced
  BY ElemsEmpty DEF WorkAnnounced
<1> QED BY <1>1, <1>2, <1>3 DEF Inv

\* loop() entered, its test, and the return of poll.
LEMMA LoopInv ==
    ASSUME Inv, LoopStart \/ LoopTest \/ PollWoken \/ PollOther
    PROVE  Inv'
<1> USE DEF Inv, TypeOK, PCs, Control, WorkAnnounced, NoLostQuit, Announced,
            loopVars, callVars, taskVars
<1>1. CASE LoopStart
  BY <1>1 DEF LoopStart
<1>2. CASE LoopTest
  BY <1>2 DEF LoopTest
<1>3. CASE PollWoken
  BY <1>3 DEF PollWoken, Poll
<1>4. CASE PollOther
  BY <1>4 DEF PollOther, Poll
<1> QED BY <1>1, <1>2, <1>3, <1>4

\* The callbacks of channels, the eventfd's included.
LEMMA HandleInv ==
    ASSUME Inv, HandleRead \/ HandleEventBegin \/ HandleEventEnd
    PROVE  Inv'
<1> USE DEF Inv, TypeOK, PCs, Control, WorkAnnounced, NoLostQuit, Announced,
            loopVars, callVars, taskVars
<1>1. CASE HandleRead
  BY <1>1 DEF HandleRead
<1>2. CASE HandleEventBegin
  BY <1>2 DEF HandleEventBegin
<1>3. CASE HandleEventEnd
  BY <1>3 DEF HandleEventEnd
<1> QED BY <1>1, <1>2, <1>3

\* doPendingFunctors.
LEMMA DoPendingInv ==
    ASSUME Inv,
           DoPendingBegin \/ DoPendingSwap \/ FunctorBegin \/ FunctorEnd \/ DoPendingEnd
    PROVE  Inv'
<1> USE DEF Inv, TypeOK, PCs, Control, WorkAnnounced, NoLostQuit, Announced,
            loopVars, callVars, taskVars
<1>1. CASE DoPendingBegin
  BY <1>1 DEF DoPendingBegin
<1>2. CASE DoPendingSwap
  BY <1>2, ElemsEmpty DEF DoPendingSwap, AfterSwap
<1>3. CASE FunctorBegin
  BY <1>3, HeadTailProperties DEF FunctorBegin
<1>4. CASE FunctorEnd
  BY <1>4 DEF FunctorEnd
<1>5. CASE DoPendingEnd
  BY <1>5 DEF DoPendingEnd
<1> QED BY <1>1, <1>2, <1>3, <1>4, <1>5

\* Calls made on the owner thread.
LEMMA UserCallInv ==
    ASSUME Inv, UserCallHere
    PROVE  Inv'
<1> USE DEF Inv, TypeOK, PCs, Control, WorkAnnounced, NoLostQuit, Announced,
            loopVars, callVars, taskVars
<1>1. CASE QuitHere
  BY <1>1, ConstantsAssumption DEF QuitHere, OnLoopThread, QuitMustWakeup
<1>2. ASSUME NEW f \in Functors, QueueInLoopHere(f)
      PROVE  Inv'
  <2>1. Elems(pendingFunctors') = Elems(pendingFunctors) \cup {f}
    BY <1>2, ElemsAppend DEF QueueInLoopHere
  <2>2. TypeOK' /\ Control' /\ NoLostQuit'
    BY <1>2 DEF QueueInLoopHere, MustWakeup, OnLoopThread
  <2>3. pc = "run" => Announced'
    BY <1>2 DEF QueueInLoopHere, MustWakeup
  <2>4. pc = "idle" => WorkAnnounced'
    BY <1>2, <2>1 DEF QueueInLoopHere, Looping, MustWakeup
  <2>5. pc \in {"idle", "handle", "run"}
    BY <1>2 DEF QueueInLoopHere, OnLoopThread
  <2>6. WorkAnnounced'
    BY <1>2, <2>3, <2>4, <2>5 DEF QueueInLoopHere
  <2> QED BY <2>2, <2>6
<1>3. ASSUME NEW f \in Functors, RunInLoopHere(f)
      PROVE  Inv'
  BY <1>3 DEF RunInLoopHere
<1> QED BY <1>1, <1>2, <1>3 DEF UserCallHere

\* Calls made on another thread: the push or the store is not announced by
\* the eventfd yet, but by the thread that is about to write it.
LEMMA CallerInv ==
    ASSUME Inv, NEW c \in Callers, CallerStep(c)
    PROVE  Inv'
<1> USE DEF Inv, TypeOK, PCs, Control, WorkAnnounced, NoLostQuit, Announced,
            loopVars, callVars, taskVars
<1>1. CASE Quit(c)
  BY <1>1, ConstantsAssumption DEF Quit, QuitMustWakeup
<1>2. CASE Wakeup(c)
  BY <1>2 DEF Wakeup
<1>3. ASSUME NEW f \in Functors, QueueInLoop(c, f)
      PROVE  Inv'
  BY <1>3 DEF QueueInLoop, MustWakeup
<1> QED BY <1>1, <1>2, <1>3 DEF CallerStep

\* Every step preserves it.
LEMMA NextInv == Inv /\ [Next]_vars => Inv'
<1> SUFFICES ASSUME Inv, [Next]_vars PROVE Inv'
  OBVIOUS
<1>1. CASE Next
  BY <1>1, LoopInv, HandleInv, DoPendingInv, UserCallInv, CallerInv DEF Next, LoopStep
<1>2. CASE UNCHANGED vars
  BY <1>2 DEF vars, Inv, TypeOK, Control, WorkAnnounced, NoLostQuit, Announced
<1> QED BY <1>1, <1>2

\* Inv holds in every state that the loop and its callers can reach.
THEOREM Invariance == Spec => []Inv
BY InitInv, NextInv, PTL DEF Spec

\* Type correctness: every variable keeps its type, for any number of
\* threads and functors.
THEOREM TypeCorrect == Spec => []TypeOK
<1>1. Inv => TypeOK BY DEF Inv
<1> QED BY <1>1, Invariance, PTL

\* The loop never blocks in epoll_wait on functors that queueInLoop accepted,
\* however pushes, eventfd writes and handleRead interleave.
THEOREM WakeupNeverLost == Spec => []NoLostWakeup
<1>1. Inv => NoLostWakeup BY DEF Inv, WorkAnnounced, NoLostWakeup
<1> QED BY <1>1, Invariance, PTL

\* The loop never blocks in epoll_wait on a request to quit that nobody is
\* going to announce.
THEOREM QuitNeverLost == Spec => []NoLostQuit
<1>1. Inv => NoLostQuit BY DEF Inv
<1> QED BY <1>1, Invariance, PTL

-----------------------------------------------------------------------------
(* The loop implements TaskQueue.                                          *)

\* A step of the loop is a step of the serial executor or changes nothing of it.
LEMMA StepSimulation ==
    ASSUME Inv, Next
    PROVE  TQ!Next \/ UNCHANGED TQ!vars
<1> USE DEF Inv, TypeOK, Control, TQ!vars, loopVars, callVars, taskVars
<1>1. CASE FunctorBegin
  <2>1. /\ functors \o pendingFunctors # <<>>
        /\ Head(functors \o pendingFunctors) = Head(functors)
        /\ Tail(functors \o pendingFunctors) = Tail(functors) \o pendingFunctors
    BY <1>1, ConcatHeadTail DEF FunctorBegin
  <2>2. TQ!Execute
    BY <1>1, <2>1 DEF FunctorBegin, TQ!Execute
  <2> QED BY <2>2 DEF TQ!Next
<1>2. CASE DoPendingSwap
  <2>1. functors = <<>> /\ functors' = pendingFunctors /\ pendingFunctors' = <<>>
    BY <1>2 DEF DoPendingSwap, AfterSwap
  <2>2. <<>> \o pendingFunctors = pendingFunctors /\ pendingFunctors \o <<>> = pendingFunctors
    BY ConcatEmptySeq
  <2>3. (functors \o pendingFunctors)' = functors \o pendingFunctors
    BY <2>1, <2>2
  <2> QED BY <1>2, <2>3 DEF DoPendingSwap, AfterSwap
<1>3. ASSUME NEW f \in Functors,
             QueueInLoopHere(f) \/ \E c \in Callers : QueueInLoop(c, f)
      PROVE  TQ!Next
  <2>1. /\ f \in fresh /\ fresh' = fresh \ {f}
        /\ functors' = functors /\ executed' = executed
        /\ pendingFunctors' = Append(pendingFunctors, f)
    BY <1>3 DEF QueueInLoopHere, QueueInLoop
  <2>2. functors \o Append(pendingFunctors, f) = Append(functors \o pendingFunctors, f)
    BY ConcatAppend
  <2>3. TQ!Submit(f)
    BY <2>1, <2>2 DEF TQ!Submit
  <2> QED BY <2>3 DEF TQ!Next
<1>4. ASSUME NEW f \in Functors, RunInLoopHere(f)
      PROVE  TQ!Next
  <2>1. TQ!RunNow(f)
    BY <1>4 DEF RunInLoopHere, TQ!RunNow
  <2> QED BY <2>1 DEF TQ!Next
<1>5. CASE LoopStart \/ LoopTest \/ PollWoken \/ PollOther
  BY <1>5 DEF LoopStart, LoopTest, PollWoken, PollOther, Poll
<1>6. CASE HandleRead \/ HandleEventBegin \/ HandleEventEnd
  BY <1>6 DEF HandleRead, HandleEventBegin, HandleEventEnd
<1>7. CASE DoPendingBegin \/ FunctorEnd \/ DoPendingEnd
  BY <1>7 DEF DoPendingBegin, FunctorEnd, DoPendingEnd
<1>8. CASE QuitHere \/ \E c \in Callers : Quit(c) \/ Wakeup(c)
  BY <1>8 DEF QuitHere, Quit, Wakeup
<1> QED BY <1>1, <1>2, <1>3, <1>4, <1>5, <1>6, <1>7, <1>8
        DEF Next, LoopStep, UserCallHere, CallerStep

\* The loop of EventLoop.cc is a serial executor: functors are started in the
\* order of the pushes under mutex_, once each, whatever the threads do.
THEOREM LoopImplementsTaskQueue == Spec => SerialExecutor
<1>1. Init => TQ!Init
  BY ConcatEmptySeq DEF Init, TQ!Init
<1>2. Inv /\ [Next]_vars => [TQ!Next]_(TQ!vars)
  <2> SUFFICES ASSUME Inv, [Next]_vars PROVE TQ!Next \/ UNCHANGED TQ!vars
    OBVIOUS
  <2>1. CASE Next
    BY <2>1, StepSimulation
  <2>2. CASE UNCHANGED vars
    BY <2>2 DEF vars, TQ!vars
  <2> QED BY <2>1, <2>2
<1> QED BY <1>1, <1>2, Invariance, PTL DEF Spec, SerialExecutor, TQ!Spec
=============================================================================
