----------------------------- MODULE EchoService -----------------------------
(***************************************************************************)
(* What the echo servers of 06-network promise, without descriptors,       *)
(* events and the loop over them: what was received from a client is sent  *)
(* back to it before more is received, and its connection is closed only   *)
(* when it has ended it and has everything back.  A client that sends more *)
(* than its connection holds, or that resets it, may lose the rest.        *)
(***************************************************************************)
EXTENDS Integers

CONSTANTS
    Client,
    Capacity   \* units a connection holds until its client reads them

VARIABLES
    conn,      \* the connection of each client
    running    \* the server has not returned

\* sent: units the client has sent; heard: those the server has received;
\* returned: those it has sent back.
\* end: whether the client will send no more, or has broken the connection.
Unused == [stage |-> "new", sent |-> 0, heard |-> 0, returned |-> 0, end |-> "none"]
Over == [Unused EXCEPT !.stage = "closed"]

Init == conn = [c \in Client |-> Unused] /\ running = TRUE

At(c, stage) == conn[c].stage = stage
Becomes(c, x) == conn' = [conn EXCEPT ![c] = x]

Holds(c) == conn[c].sent <= Capacity

----------------------------------------------------------------------------
(* A client. *)

Send(c) ==
    /\ ~At(c, "closed") /\ conn[c].end = "none"
    /\ Becomes(c, [conn[c] EXCEPT !.sent = @ + 1])

End(c) ==
    /\ ~At(c, "closed") /\ conn[c].end = "none"
    /\ Becomes(c, [conn[c] EXCEPT !.end = "ended"])

Break(c) == ~At(c, "closed") /\ Becomes(c, [conn[c] EXCEPT !.end = "reset"])

(* The server. *)

Open(c) == At(c, "new") /\ Becomes(c, [conn[c] EXCEPT !.stage = "open"])

Refuse(c) == At(c, "new") /\ Becomes(c, Over)

Hear(c) ==
    /\ At(c, "open")
    /\ Holds(c) /\ conn[c].end # "reset" => conn[c].returned = conn[c].heard
    /\ \E k \in 1 .. conn[c].sent - conn[c].heard :
          Becomes(c, [conn[c] EXCEPT !.heard = @ + k])

Return(c) ==
    /\ At(c, "open") /\ conn[c].end # "reset"
    /\ \E k \in 1 .. conn[c].heard - conn[c].returned :
          /\ Holds(c) => k = conn[c].heard - conn[c].returned
          /\ Becomes(c, [conn[c] EXCEPT !.returned = @ + k])

Close(c) ==
    /\ At(c, "open")
    /\ \/ /\ conn[c].end = "ended" /\ conn[c].heard = conn[c].sent
          /\ Holds(c) => conn[c].returned = conn[c].sent
       \/ conn[c].end = "reset"
    /\ Becomes(c, Over)

\* The server returns, and with it ends every connection it has accepted.
Stop ==
    /\ running /\ running' = FALSE
    /\ conn' = [c \in Client |-> IF At(c, "open") THEN Over ELSE conn[c]]

ClientMove(c) == Send(c) \/ End(c) \/ Break(c)
ServerMove(c) == Open(c) \/ Refuse(c) \/ Hear(c) \/ Return(c) \/ Close(c)

Next ==
    \/ \E c \in Client : ClientMove(c) /\ UNCHANGED running
    \/ \E c \in Client : ServerMove(c) /\ running /\ UNCHANGED running
    \/ Stop

Spec == Init /\ [][Next]_<<conn, running>>
=============================================================================
