-------------------------- MODULE NonblockingServer --------------------------
(***************************************************************************)
(* The first poll server (06-network/04-nonblocking): one thread and a     *)
(* table of slots like PollServer, but one connection is accepted per      *)
(* poll, one recv is made per slot, and what it returns is echoed.  Each   *)
(* system call is a step, so that clients act between any two of them.     *)
(***************************************************************************)
EXTENDS Sockets

CONSTANT MAX_CLIENTS

ASSUME MaxClientsAssumption == MAX_CLIENTS \in Nat \ {0}

VARIABLES
    fds,         \* fds[i].fd of each slot from 1: a descriptor, or -1
    revents,     \* fds[i].revents
    phase,       \* where main is
    i,           \* the slot the loop is at
    bytes_read,  \* what the last recv returned
    echoed       \* history: units of each client that send has taken

server == <<fds, revents, phase, i, bytes_read, echoed>>
vars == <<network, server>>

Slot == 1 .. MAX_CLIENTS
NoFd == -1

Running == ~killed /\ phase # "exit"

\* fds[].revents is not initialized.
Init ==
    /\ NetworkInit
    /\ fds = [s \in Slot |-> NoFd]
    /\ revents \in [Slot -> SUBSET {"POLLIN", "POLLHUP"}]
    /\ phase = "poll"
    /\ i = 1
    /\ bytes_read = 0
    /\ echoed = [c \in Client |-> 0]

----------------------------------------------------------------------------
\* What poll stores for a slot; it clears the revents of those without a
\* descriptor.
Polled(s) == IF fds[s] = NoFd THEN {} ELSE Events(table[fds[s]])

\* Mutant: the loop ends one slot too late.
LoopPastEnd(k) ==
    LET rest == {s \in k .. MAX_CLIENTS + 1 :
                    s = MAX_CLIENTS + 1 \/ (fds'[s] # NoFd /\ revents'[s] # {})}
    IN  IF rest = {} THEN phase' = "poll" /\ i' = 1
        ELSE phase' = "recv" /\ i' \in rest /\ \A s \in rest : i' <= s

\* The loop goes on from slot k to the next one in use that poll reported, or back
\* to poll.  (It makes no system call for the others.)
LoopFrom(k) ==
    LET rest == {s \in k .. MAX_CLIENTS : fds'[s] # NoFd /\ revents'[s] # {}}
    IN  IF rest = {} THEN phase' = "poll" /\ i' = 1
        ELSE phase' = "recv" /\ i' \in rest /\ \A s \in rest : i' <= s

\* Once recv and send are done: the check for a broken connection, and the rest
\* of the slots.
BodyDone ==
    IF "POLLHUP" \in revents[i] THEN phase' = "hup" /\ i' = i ELSE LoopFrom(i + 1)

\* Mutant: the loop over the slots starts with the second one.
PollSkipsSlot ==
    /\ phase = "poll" /\ ~killed
    /\ backlog # <<>> \/ \E s \in Slot : Polled(s) # {}
    /\ revents' = [s \in Slot |-> Polled(s)]
    /\ UNCHANGED <<network, fds, bytes_read, echoed>>
    /\ IF backlog # <<>> THEN phase' = "accept" /\ i' = 1 ELSE LoopFrom(2)

\* poll returns once some descriptor is ready.
Poll ==
    /\ phase = "poll" /\ ~killed
    /\ backlog # <<>> \/ \E s \in Slot : Polled(s) # {}
    /\ revents' = [s \in Slot |-> Polled(s)]
    /\ UNCHANGED <<network, fds, bytes_read, echoed>>
    /\ IF backlog # <<>> THEN phase' = "accept" /\ i' = 1 ELSE LoopFrom(1)

\* poll fails, by EINTR as well: main closes server_fd and returns, and the
\* system closes the rest.
PollFails ==
    /\ phase = "poll" /\ ~killed
    /\ Close(DOMAIN table)
    /\ phase' = "exit"
    /\ UNCHANGED <<fds, revents, i, bytes_read, echoed>>

\* One accept: the connection gets the first free slot, or is closed.
AcceptOne ==
    /\ phase = "accept" /\ ~killed
    /\ \/ \E s \in Slot, new \in Fd :
             /\ fds[s] = NoFd /\ \A t \in 1 .. s - 1 : fds[t] # NoFd
             /\ Accept(new)
             /\ fds' = [fds EXCEPT ![s] = new]
       \/ (\A s \in Slot : fds[s] # NoFd) /\ AcceptAndClose /\ UNCHANGED fds
    /\ UNCHANGED <<revents, bytes_read, echoed>>
    /\ LoopFrom(1)

\* accept fails, for whatever reason.
AcceptFails ==
    /\ phase = "accept" /\ ~killed
    /\ UNCHANGED <<network, fds, revents, bytes_read, echoed>>
    /\ LoopFrom(1)

Peer == table[fds[i]]

RecvSomeOf(c) == \E k \in 1 .. MaxSends : RecvData(c, k) /\ bytes_read' = k

\* Mutant: the end of the stream keeps its slot.
RecvKeepsSlot ==
    /\ phase = "recv" /\ ~killed
    /\ UNCHANGED <<fds, revents, echoed>>
    /\ \/ RecvSomeOf(Peer) /\ phase' = "send" /\ i' = i
       \/ /\ RecvOutcome(Peer) \in {"eof", "error"}
          /\ Close({fds[i]})
          /\ bytes_read' = 0
          /\ BodyDone

\* Mutant: whoever has shut down is taken for gone.
RecvSeesFin ==
    /\ phase = "recv" /\ ~killed
    /\ UNCHANGED <<revents, echoed>>
    /\ \/ ~sock[Peer].fin /\ RecvSomeOf(Peer) /\ phase' = "send" /\ UNCHANGED <<fds, i>>
       \/ /\ sock[Peer].fin \/ RecvOutcome(Peer) = "error"
          /\ Close({fds[i]})
          /\ fds' = [fds EXCEPT ![i] = NoFd]
          /\ bytes_read' = 0
          /\ BodyDone

\* recv on a descriptor poll reported, once whatever is left.  (It is readable:
\* poll reports none that is only broken.)
Recv ==
    /\ phase = "recv" /\ ~killed
    /\ UNCHANGED <<revents, echoed>>
    /\ \/ RecvSomeOf(Peer) /\ phase' = "send" /\ UNCHANGED <<fds, i>>
       \/ /\ RecvOutcome(Peer) \in {"eof", "error"}
          /\ Close({fds[i]})
          /\ fds' = [fds EXCEPT ![i] = NoFd]
          /\ bytes_read' = 0
          /\ BodyDone

\* What recv returned is sent back, or as much of it as the buffer has room for.
Echo ==
    /\ phase = "send" /\ ~killed
    /\ SendUnits(Peer, bytes_read)
    /\ echoed' = [echoed EXCEPT ![Peer] = IF sock[Peer].err = "none"
                                          THEN @ + Sendable(Peer, bytes_read) ELSE @]
    /\ bytes_read' = 0
    /\ UNCHANGED <<fds, revents>>
    /\ BodyDone

\* The end of the loop's body: a descriptor poll reported broken is closed; when
\* recv has closed it, fds[i].fd is -1 and close does nothing.
Hangup ==
    /\ phase = "hup" /\ ~killed
    /\ Close({fds[i]})
    /\ fds' = [fds EXCEPT ![i] = NoFd]
    /\ UNCHANGED <<revents, bytes_read, echoed>>
    /\ LoopFrom(i + 1)

ServerStep == Poll \/ AcceptOne \/ AcceptFails \/ Recv \/ Echo \/ Hangup

Next == ServerStep \/ PollFails \/ \E c \in Client : ClientStep(c) /\ UNCHANGED server

\* The server's thread runs as long as it can, and accept does not fail forever
\* on a connection it could accept; clients owe nothing.
Spec == Init /\ [][Next]_vars /\ WF_vars(ServerStep) /\ SF_vars(AcceptOne)
----------------------------------------------------------------------------
(* Properties. *)

\* Every variable has its type.
TypeOK ==
    /\ NetworkType
    /\ fds \in [Slot -> Fd \cup {NoFd}]
    /\ revents \in [Slot -> SUBSET {"POLLIN", "POLLHUP"}]
    /\ phase \in {"poll", "accept", "recv", "send", "hup", "exit"}
    /\ i \in Slot
    /\ bytes_read \in 0 .. MaxSends
    /\ echoed \in [Client -> Nat]

\* At every step of the loop, each slot in use names an open connection of its
\* own and each open connection has a slot: closing and freeing the slot go
\* together on every path, also between poll and the use of its results.
SlotsMatchConnections == phase # "exit" =>
    /\ {fds[s] : s \in Slot} \ {NoFd} = DOMAIN table
    /\ \A s, t \in Slot : fds[s] = fds[t] /\ fds[s] # NoFd => s = t

\* A connection that has a slot is closed only when its client has ended it and
\* all it had sent has been received and sent back, or when it is reset.  (A client
\* that sends more than its connection holds loses the rest: EchoesAll.)
ClosedAfterEcho == [][\A c \in Client :
    sock[c].stage = "open" /\ sock'[c].stage = "closed" =>
        \/ sock[c].fin /\ sock[c].inbox = 0
           /\ (sock[c].sent <= SendBuffer => echoed[c] = sock[c].sent)
        \/ sock[c].err # "none" \/ phase' = "exit"]_vars

\* The server keeps the promise of EchoService to every client at once.
Conn(c) ==
    [stage |-> IF sock[c].stage \in {"open", "closed"} THEN sock[c].stage ELSE "new",
     sent |-> sock[c].sent, heard |-> sock[c].sent - sock[c].inbox,
     returned |-> IF sock[c].stage = "closed" THEN 0 ELSE echoed[c],
     end |-> IF sock[c].err # "none" THEN "reset" ELSE IF sock[c].fin THEN "ended" ELSE "none"]

Service == INSTANCE EchoService WITH
    Capacity <- SendBuffer, running <- phase # "exit", conn <- [c \in Client |-> Conn(c)]

ImplementsEcho == Service!Spec

\* One accept per poll and one recv per slot and poll are enough: whatever the
\* other clients do or do not do, and however often accept fails, a connection in
\* the queue leaves it, what a client has sent is read, and a connection its
\* client has ended is closed.
NobodyWaitsForever == \A c \in Client : Pending(c) ~> ~Pending(c) \/ ~Running

\* server.c:138: what has been received is sent back to the client.  A client
\* that does not read while it sends loses what does not fit into the buffer.
EchoesAll == phase = "poll" => \A c \in Client :
    sock[c].stage = "open" /\ sock[c].err = "none" => echoed[c] = sock[c].sent - sock[c].inbox
=============================================================================
