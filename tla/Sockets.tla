------------------------------ MODULE Sockets ------------------------------
(***************************************************************************)
(* What the servers of 06-network use of the operating system: a listening *)
(* TCP socket, the descriptors of its connections, and the clients at the  *)
(* other end.  None of this is code of the repository; the system calls    *)
(* behave as on Linux, and a client may do what client.c or any other      *)
(* program with a socket may: connect, send, shut down, read, close, abort *)
(* (SO_LINGER of 0), die.                                                  *)
(*                                                                         *)
(* Data is counted, not kept: a message is one unit.  What a client does   *)
(* arrives at once, except that the answer to data it can no longer        *)
(* receive, a RST, may take its time.                                      *)
(***************************************************************************)
EXTENDS Integers, Sequences, FiniteSets, Functions

CONSTANTS
    Client,      \* the clients; each connects at most once
    MaxSends,    \* messages a client sends at most
    Backlog,     \* connections listen queues
    MaxFd,       \* descriptors the server may have for connections
    SendBuffer   \* units a connection holds until its client reads them

ASSUME BoundsAssumption ==
    /\ MaxSends \in Nat /\ Backlog \in Nat \ {0} /\ MaxFd \in Nat \ {0}
    /\ SendBuffer \in Nat \ {0}

VARIABLES
    backlog,  \* the connections the server has not accepted
    table,    \* the client at the other end of each descriptor in use
    sock,     \* the connection of each client
    killed    \* SIGPIPE has ended the server

network == <<backlog, table, sock, killed>>

Fd == 0 .. MaxFd - 1

\* stage: of the connection, as the server sees it.
\* sent, inbox: messages the client has sent, and those recv has not returned.
\* unread: units sent to the client that it has not read.
\* fin: the client will send no more; gone: it has closed its socket.
\* err: what a RST has done to the server's socket.  ECONNRESET is an error that
\* the next recv or send reports, once; EPIPE is what remains then, and what a RST
\* after a FIN leaves at once.
Socket == [stage : {"out", "queued", "open", "closed"}, sent : 0 .. MaxSends,
           inbox : 0 .. MaxSends, unread : 0 .. SendBuffer, fin : BOOLEAN,
           gone : BOOLEAN, err : {"none", "ECONNRESET", "EPIPE"}]

Fresh(stage) == [stage |-> stage, sent |-> 0, inbox |-> 0, unread |-> 0,
                 fin |-> FALSE, gone |-> FALSE, err |-> "none"]

NetworkInit ==
    /\ backlog = <<>>
    /\ table = [fd \in {} |-> 0]
    /\ sock = [c \in Client |-> Fresh("out")]
    /\ killed = FALSE

NetworkType ==
    /\ backlog \in Seq(Client) /\ Len(backlog) <= Backlog
    /\ DOMAIN table \subseteq Fd /\ Range(table) \subseteq Client
    /\ sock \in [Client -> Socket]
    /\ killed \in BOOLEAN

----------------------------------------------------------------------------
(* The clients. *)

Connect(c) ==
    /\ sock[c].stage = "out" /\ Len(backlog) < Backlog
    /\ backlog' = Append(backlog, c)
    /\ sock' = [sock EXCEPT ![c].stage = "queued"]
    /\ UNCHANGED <<table, killed>>

Connected(c) == sock[c].stage \in {"queued", "open"} /\ ~sock[c].gone

ClientSend(c) ==
    /\ Connected(c) /\ ~sock[c].fin /\ sock[c].sent < MaxSends
    /\ sock' = [sock EXCEPT ![c].sent = @ + 1, ![c].inbox = @ + 1]

ClientShutdown(c) ==
    /\ Connected(c) /\ ~sock[c].fin
    /\ sock' = [sock EXCEPT ![c].fin = TRUE]

ClientRead(c) ==
    /\ Connected(c) /\ sock[c].unread > 0
    /\ sock' = [sock EXCEPT ![c].unread = 0]

\* A RST reaches the server's socket: what is on its way to the client is lost, and
\* what the server has received stays readable.
Reset(c) == sock' = [sock EXCEPT ![c].gone = TRUE, ![c].unread = 0,
                                 ![c].err = IF sock[c].fin THEN "EPIPE" ELSE "ECONNRESET"]

\* A client closes its socket, or dies: it sends a FIN, or a RST if there are
\* replies it has received and not read.
ClientClose(c) ==
    /\ Connected(c)
    /\ \/ sock' = [sock EXCEPT ![c].gone = TRUE, ![c].fin = TRUE]
       \/ sock[c].unread > 0 /\ Reset(c)

\* A client with SO_LINGER set to 0 sends a RST whenever it closes.
ClientAbort(c) == Connected(c) /\ Reset(c)

\* The RST that answers a reply to a closed socket.
PeerReset(c) ==
    /\ sock[c].stage = "open" /\ sock[c].gone /\ sock[c].unread > 0
    /\ sock[c].fin /\ sock[c].err = "none"
    /\ Reset(c)

ClientStep(c) ==
    \/ Connect(c)
    \/ /\ \/ ClientSend(c) \/ ClientShutdown(c) \/ ClientRead(c)
          \/ ClientClose(c) \/ ClientAbort(c) \/ PeerReset(c)
       /\ UNCHANGED <<backlog, table, killed>>

----------------------------------------------------------------------------
(* The system calls of the server. *)

FreeFd == Fd \ DOMAIN table

\* accept returns the lowest free descriptor; it fails without one.
Accept(fd) ==
    /\ backlog # <<>>
    /\ fd \in FreeFd /\ \A g \in FreeFd : fd <= g
    /\ table' = [g \in DOMAIN table \cup {fd} |-> IF g = fd THEN Head(backlog) ELSE table[g]]
    /\ sock' = [sock EXCEPT ![Head(backlog)].stage = "open"]
    /\ backlog' = Tail(backlog)
    /\ UNCHANGED killed

\* accept and close in one step, for a connection there is no room for.
AcceptAndClose ==
    /\ backlog # <<>> /\ FreeFd # {}
    /\ sock' = [sock EXCEPT ![Head(backlog)] = Fresh("closed")]
    /\ backlog' = Tail(backlog)
    /\ UNCHANGED <<table, killed>>

\* close of descriptors; one that is not in use is EBADF.  What the socket held is
\* gone.
Close(D) ==
    /\ table' = Restrict(table, DOMAIN table \ D)
    /\ sock' = [c \in Client |-> IF \E fd \in D \cap DOMAIN table : table[fd] = c
                                 THEN Fresh("closed") ELSE sock[c]]
    /\ UNCHANGED <<backlog, killed>>

\* The server's process ends: the kernel closes all it had, and resets the
\* connections it has not accepted.
CloseAll ==
    /\ backlog' = <<>>
    /\ table' = [fd \in {} |-> 0]
    /\ sock' = [c \in Client |-> IF sock[c].stage = "out" THEN sock[c] ELSE Fresh("closed")]
    /\ UNCHANGED killed

\* What recv on a connection finds: queued data comes before the end of the
\* stream, and the end of the stream before an error.
AtEnd(c) == sock[c].fin \/ sock[c].err = "EPIPE"
RecvOutcome(c) == CASE sock[c].inbox > 0 -> "data"
                    [] sock[c].inbox = 0 /\ AtEnd(c) -> "eof"
                    [] sock[c].inbox = 0 /\ ~AtEnd(c) /\ sock[c].err = "ECONNRESET" -> "error"
                    [] OTHER -> "EAGAIN"

\* recv takes n of the messages there are.
RecvData(c, n) ==
    /\ n \in 1 .. sock[c].inbox
    /\ sock' = [sock EXCEPT ![c].inbox = @ - n]
    /\ UNCHANGED <<backlog, table, killed>>

RecvSome(c) == \E n \in 1 .. MaxSends : RecvData(c, n)

\* recv finds the end, or reports the error, which is then forgotten.
RecvEof(c) == RecvOutcome(c) = "eof" /\ UNCHANGED network
RecvError(c) ==
    /\ RecvOutcome(c) = "error"
    /\ sock' = [sock EXCEPT ![c].err = "EPIPE"]
    /\ UNCHANGED <<backlog, table, killed>>

\* How many of n units a socket that does not block takes.
Sendable(c, n) == IF sock[c].unread + n <= SendBuffer THEN n ELSE SendBuffer - sock[c].unread

\* send of n units, on a socket that does not block when the buffer is full.  A
\* RST makes the first send fail and the next one, or the first after a FIN,
\* raise SIGPIPE, which no server ignores.
SendUnits(c, n) ==
    /\ \/ /\ sock[c].err = "none"
          /\ sock' = [sock EXCEPT ![c].unread = @ + Sendable(c, n)]
          /\ UNCHANGED killed
       \/ /\ sock[c].err = "ECONNRESET"
          /\ sock' = [sock EXCEPT ![c].err = "EPIPE"]
          /\ UNCHANGED killed
       \/ /\ sock[c].err = "EPIPE"
          /\ killed' = TRUE
          /\ UNCHANGED sock
    /\ UNCHANGED <<backlog, table>>

\* send of a reply of one unit.
SendReply(c) == SendUnits(c, 1)

\* The server has something to do for c: accept it, or receive.
Pending(c) == \/ sock[c].stage = "queued"
              \/ sock[c].stage = "open" /\ RecvOutcome(c) # "EAGAIN"

\* The events poll reports for a connection.
Events(c) == {e \in {"POLLIN", "POLLHUP"} :
    \/ e = "POLLIN" /\ RecvOutcome(c) # "EAGAIN"
    \/ e = "POLLHUP" /\ sock[c].err # "none"}
=============================================================================
