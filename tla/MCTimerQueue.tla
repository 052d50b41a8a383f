---------------------------- MODULE MCTimerQueue ----------------------------
(* Instances of TimerQueue for TLC: the programs that use it.              *)
EXTENDS TimerQueue

\* Another thread adds timers too; or the wall clock is set once.
MCPrograms == {[foreign |-> TRUE, jumps |-> 0], [foreign |-> FALSE, jumps |-> 1]}
=============================================================================
