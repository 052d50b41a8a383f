---------------------------- MODULE MCEventLoop ----------------------------
(* Instance of EventLoop for TLC: two other threads, three functors.       *)
EXTENDS EventLoop
=============================================================================
