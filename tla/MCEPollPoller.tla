--------------------------- MODULE MCEPollPoller ---------------------------
(* Instances of EPollPoller for TLC.                                       *)
EXTENDS EPollPoller, TLC

\* Addresses and descriptors are interchangeable.
Symmetry == Permutations(Channels) \cup Permutations(Fds)
=============================================================================
