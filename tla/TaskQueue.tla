------------------------------ MODULE TaskQueue ------------------------------
(***************************************************************************)
(* What an EventLoop promises the code that hands it work: a serial        *)
(* executor.  Functors handed over with queueInLoop run one at a time, in  *)
(* the order in which they were accepted, each at most once.  A functor    *)
(* given to runInLoop by the loop's own thread runs at once, ahead of the  *)
(* queue.                                                                  *)
(***************************************************************************)
EXTENDS Sequences

CONSTANT Functors    \* the invocations that may be handed over

VARIABLES fresh,     \* functors not handed over yet
          queue,     \* accepted, not started yet
          executed   \* started, in the order in which they were started

vars == <<fresh, queue, executed>>

Init ==
    /\ fresh = Functors
    /\ queue = <<>>
    /\ executed = <<>>

Submit(f) ==
    /\ f \in fresh
    /\ fresh' = fresh \ {f}
    /\ queue' = Append(queue, f)
    /\ UNCHANGED executed

Execute ==
    /\ queue # <<>>
    /\ queue' = Tail(queue)
    /\ executed' = Append(executed, Head(queue))
    /\ UNCHANGED fresh

RunNow(f) ==
    /\ f \in fresh
    /\ fresh' = fresh \ {f}
    /\ executed' = Append(executed, f)
    /\ UNCHANGED queue

Next ==
    \/ Execute
    \/ \E f \in Functors : Submit(f) \/ RunNow(f)

Spec == Init /\ [][Next]_vars
=============================================================================
