----------------------------- MODULE MCTcpClient -----------------------------
(* Instances of TcpClient for TLC: the programs that use it.               *)
EXTENDS TcpClient

\* The loop's side ends the connections in loopEnds, a thread the others.
Ended(loopEnds) == [loopEnds |-> loopEnds, leaves |-> FALSE,
                    forces |-> [c \in Conn |-> IF c \in loopEnds THEN 0 ELSE 1]]

\* One side ends them all, or they take turns.
MCPrograms == {Ended({}), Ended(Conn), Ended({1}), Ended({2})}

\* A thread ends a connection that the peer may end too.
MCRacing == [loopEnds |-> Conn, forces |-> [c \in Conn |-> 1], leaves |-> FALSE]

\* The client is destroyed while it is connected, as in examples/cli.cc.
MCLeaving == [loopEnds |-> Conn, forces |-> [c \in Conn |-> 0], leaves |-> TRUE]

\* The programs of the run keep to the rules, the other two do not.
ASSUME RulesAssumption ==
    /\ \A p \in MCPrograms : Disciplined(p)
    /\ ~Disciplined(MCRacing) /\ ~Disciplined(MCLeaving)
=============================================================================
