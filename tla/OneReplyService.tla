--------------------------- MODULE OneReplyService ---------------------------
(***************************************************************************)
(* What the request-and-reply servers of 06-network promise, without       *)
(* sockets and threads: each connection is accepted, heard, answered once  *)
(* and closed, in this order; one that is never heard may be closed        *)
(* unanswered, one that has been heard may not.                            *)
(***************************************************************************)
CONSTANT Client

VARIABLE conn   \* how far the connection of each client has come

Stages == {"none", "open", "heard", "replied", "closed"}

Init == conn = [c \in Client |-> "none"]

Move(c, from, to) == conn[c] \in from /\ conn' = [conn EXCEPT ![c] = to]

Next == \E c \in Client :
    \/ Move(c, {"none"}, "open")
    \/ Move(c, {"open"}, "heard")
    \/ Move(c, {"heard"}, "replied")
    \/ Move(c, {"open", "replied"}, "closed")

Spec == Init /\ [][Next]_conn
=============================================================================
