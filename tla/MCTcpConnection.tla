-------------------------- MODULE MCTcpConnection --------------------------
(* Instances of TcpConnection for TLC: the programs that use it.           *)
EXTENDS TcpConnection

\* The I/O loop's callbacks send and close, other threads send, the peer may go.
Closer == [loopCalls |-> {"send", "forceClose"}, threadCalls |-> {"send"},
           peerEnds |-> {"closed", "reset"}, serverDies |-> FALSE, maxCloses |-> 2]

\* Another thread is the only one that ends the connection.
ForeignCloser == [loopCalls |-> {"send"}, threadCalls |-> {"send", "forceClose"},
                  peerEnds |-> {}, serverDies |-> FALSE, maxCloses |-> 1]

\* Reading is stopped and started from both sides.
FlowController == [loopCalls |-> {"send", "stopRead", "startRead"},
                   threadCalls |-> {"send", "startRead"},
                   peerEnds |-> {}, serverDies |-> FALSE, maxCloses |-> 0]

\* One thread does it all, and may close the connection while reading is off.
LoopSide == [loopCalls |-> {"send", "forceClose", "stopRead", "startRead"},
             threadCalls |-> {}, peerEnds |-> {}, serverDies |-> FALSE, maxCloses |-> 2]

\* The peer leaves a connection that may not be reading; reading is stopped by
\* functors only, as highWaterMarkCallback_ is.
Stopper == [loopCalls |-> {"send", "stopReadInFunctor", "startRead"}, threadCalls |-> {},
            peerEnds |-> {"closed", "reset"}, serverDies |-> FALSE, maxCloses |-> 0]

\* The server is destroyed while the connection is in use.
DyingServer == [loopCalls |-> {"send"}, threadCalls |-> {"send"},
                peerEnds |-> {}, serverDies |-> TRUE, maxCloses |-> 0]

MCClients == {Closer, ForeignCloser, FlowController, LoopSide, Stopper, DyingServer}

\* Another thread closes a connection whose peer may close it too.
MCRacingClients == {[loopCalls |-> {}, threadCalls |-> {"forceClose"},
                     peerEnds |-> {"closed"}, serverDies |-> FALSE, maxCloses |-> 1]}

\* Reading is stopped on a connection that is closed and reset by its peer.
MCStoppingClients == {[loopCalls |-> {"stopRead", "forceClose"}, threadCalls |-> {},
                       peerEnds |-> {"reset"}, serverDies |-> FALSE, maxCloses |-> 1]}

\* The programs of the passing run keep to the rules, the other two do not.
ASSUME RulesAssumption ==
    /\ \A c \in MCClients : Disciplined(c)
    /\ \A c \in MCRacingClients \cup MCStoppingClients : ~Disciplined(c)
=============================================================================
