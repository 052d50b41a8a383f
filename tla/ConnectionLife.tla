--------------------------- MODULE ConnectionLife ---------------------------
(***************************************************************************)
(* What TcpConnections promise the program that uses them, whoever makes   *)
(* them and whichever loops and threads work on them.  The program is told *)
(* once that a connection is up and, after that, once that it is down.     *)
(* Between the two, and at no other time, bytes are accepted for sending   *)
(* and go out to the peer, as one stream that starts with the first byte   *)
(* accepted.  The object is there from before the first call until after   *)
(* the second, and once it is gone it does not come back.                  *)
(***************************************************************************)
EXTENDS Sequences, SequencesExt

CONSTANT Conns

VARIABLES           \* of each connection:
    exists,         \* somebody has a pointer to it
    told,           \* what connectionCallback_ said last: "nothing", "up", "down"
    accepted,       \* bytes accepted for sending, in order
    sent            \* bytes that went out, in order

vars == <<exists, told, accepted, sent>>

Init ==
    \A c \in Conns :
        /\ exists[c] \in BOOLEAN /\ told[c] = "nothing"
        /\ accepted[c] = <<>> /\ sent[c] = <<>>

\* Made, and announced at once if its loop is the one that makes it.
Make(c) ==
    /\ ~exists[c] /\ told[c] = "nothing"
    /\ exists'[c] /\ told'[c] \in {"nothing", "up"}
    /\ accepted'[c] = accepted[c] /\ sent'[c] = sent[c]

Establish(c) ==
    /\ exists[c] /\ told[c] = "nothing"
    /\ exists'[c] /\ told'[c] = "up"
    /\ accepted'[c] = accepted[c] /\ sent'[c] = sent[c]

\* More of what was accepted, and nothing else, may go out.
Flows(c) == IsPrefix(sent[c], sent'[c]) /\ IsPrefix(sent'[c], accepted'[c])

Stream(c) ==
    /\ exists[c] /\ told[c] = "up"
    /\ exists'[c] /\ told'[c] = "up"
    /\ IsPrefix(accepted[c], accepted'[c]) /\ Flows(c)

\* The last bytes may go out in the step that closes the connection, and the
\* last pointer may go with it.
Close(c) ==
    /\ exists[c] /\ told[c] = "up"
    /\ exists'[c] \in BOOLEAN /\ told'[c] = "down"
    /\ accepted'[c] = accepted[c] /\ Flows(c)

Destroy(c) ==
    /\ exists[c] /\ told[c] = "down"
    /\ ~exists'[c] /\ told'[c] = "down"
    /\ accepted'[c] = accepted[c] /\ sent'[c] = sent[c]

Rest(c) ==
    /\ exists'[c] = exists[c] /\ told'[c] = told[c]
    /\ accepted'[c] = accepted[c] /\ sent'[c] = sent[c]

\* One step may concern several connections: a loop lets go of all the functors
\* it took at once, and the destructor of a server takes leave of them all.
Next ==
    \A c \in Conns :
        Make(c) \/ Establish(c) \/ Stream(c) \/ Close(c) \/ Destroy(c) \/ Rest(c)

Spec == Init /\ [][Next]_vars
=============================================================================
