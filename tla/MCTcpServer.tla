----------------------------- MODULE MCTcpServer -----------------------------
(* Small instances of TcpServer.                                           *)
EXTENDS TcpServer

\* Descriptors run out, in one loop and in a pool, while other threads open and
\* close theirs; a busy single loop and an idle pool are torn down.
MCPrograms ==
    { [threads |-> 0, arrivals |-> 3, descriptors |-> 3, others |-> 1,
       idleOpens |-> TRUE, teardown |-> "quiet"],
      [threads |-> 2, arrivals |-> 3, descriptors |-> 3, others |-> 1,
       idleOpens |-> TRUE, teardown |-> "quiet"] }

\* The working directory has no dev/: idleFd_ is -1 from the start.
NoIdlePrograms ==
    { [threads |-> 0, arrivals |-> 2, descriptors |-> 1, others |-> 0,
       idleOpens |-> FALSE, teardown |-> "never"] }

\* The server is destroyed while a connection of the pool is up.
TeardownPrograms ==
    { [threads |-> 1, arrivals |-> 1, descriptors |-> 2, others |-> 0,
       idleOpens |-> TRUE, teardown |-> "any"] }
=============================================================================
