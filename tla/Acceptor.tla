------------------------------- MODULE Acceptor -------------------------------
(***************************************************************************)
(* net/acceptor/Acceptor with sockets::accept: the listening socket and    *)
(* idleFd_, the descriptor kept in reserve for the time when the process   *)
(* has no other left.  The kernel keeps arriving connections in the        *)
(* backlog until accept takes them.  free is how many descriptors the      *)
(* process can still open.  Module TcpServer runs the steps on the base    *)
(* loop; other threads open and close descriptors between them.            *)
(***************************************************************************)
EXTENDS Naturals

VARIABLES
    listening, \* listening_, and the channel watches the socket
    idleFd,    \* idleFd_ is an open descriptor, not -1
    backlog,   \* connections that wait in the kernel
    shed       \* how far handleRead is in its answer to EMFILE

vars == <<listening, idleFd, backlog, shed>>

\* The constructor opens "dev/null", a relative path: opens says whether the
\* working directory lets it.  It goes on either way.
Init(opens) ==
    /\ listening = FALSE /\ backlog = 0 /\ shed = "no"
    /\ idleFd = opens

Listen ==
    /\ listening' = TRUE
    /\ UNCHANGED <<idleFd, backlog, shed>>

Arrive ==
    /\ listening
    /\ backlog' = backlog + 1
    /\ UNCHANGED <<listening, idleFd, shed>>
-----------------------------------------------------------------------------
(* handleRead.                                                             *)

Pending == listening /\ backlog > 0 /\ shed = "no"

Accept(free) ==
    /\ Pending /\ free > 0
    /\ backlog' = backlog - 1
    /\ UNCHANGED <<listening, idleFd, shed>>

\* EAGAIN, EINTR, EPROTO, EPERM: logged and left to the next report;
\* ECONNABORTED also uses up the connection.
AcceptFails ==
    /\ Pending
    /\ backlog' \in {backlog, backlog - 1}
    /\ UNCHANGED <<listening, idleFd, shed>>

\* EMFILE: close(idleFd_) ...
Emfile(free) ==
    /\ Pending /\ free = 0
    /\ idleFd' = FALSE /\ shed' = "accept"
    /\ UNCHANGED <<listening, backlog>>

\* ... idleFd_ = accept(), which fails when the room is taken again ...
ShedAccept_none(free) ==
    /\ shed = "accept" /\ shed' = "close"
    /\ UNCHANGED <<listening, backlog, idleFd>>
ShedAccept(free) ==
    /\ shed = "accept" /\ shed' = "close"
    /\ idleFd' = (free > 0)
    /\ backlog' = IF free > 0 THEN backlog - 1 ELSE backlog
    /\ UNCHANGED listening

\* ... or meets a passing error ...
ShedAcceptFails(free) ==
    /\ shed = "accept" /\ shed' = "close" /\ free > 0
    /\ idleFd' = FALSE
    /\ backlog' \in {backlog, backlog - 1}
    /\ UNCHANGED listening

\* ... close(idleFd_) ...
ShedClose ==
    /\ shed = "close" /\ shed' = "open"
    /\ idleFd' = FALSE
    /\ UNCHANGED <<listening, backlog>>

\* ... and idleFd_ = open("/dev/null").
Reopen_never(free) ==
    /\ shed = "open" /\ shed' = "no"
    /\ UNCHANGED <<listening, backlog, idleFd>>
Reopen(free) ==
    /\ shed = "open" /\ shed' = "no"
    /\ idleFd' = (free > 0)
    /\ UNCHANGED <<listening, backlog>>

Shed(free) == ShedAccept(free) \/ ShedAcceptFails(free) \/ ShedClose \/ Reopen(free)

\* ~Acceptor, and the listening socket with it.
Destroy ==
    /\ listening
    /\ listening' = FALSE /\ idleFd' = FALSE /\ backlog' = 0
    /\ UNCHANGED shed

\* Types of the variables.
TypeOK ==
    /\ listening \in BOOLEAN /\ idleFd \in BOOLEAN /\ backlog \in Nat
    /\ shed \in {"no", "accept", "close", "open"}
=============================================================================
