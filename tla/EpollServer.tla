----------------------------- MODULE EpollServer -----------------------------
(***************************************************************************)
(* The epoll echo server (06-network/06-epoll, and the same code in        *)
(* 07-tcp-deep/01-stream): one thread that asks epoll_wait which           *)
(* descriptors are ready and goes through the events it got, accepting     *)
(* until nothing is queued, and receiving and echoing until nothing is     *)
(* left.  The events are as old as the epoll_wait that returned them.      *)
(***************************************************************************)
EXTENDS Sockets

VARIABLES
    interest,  \* the client descriptors registered with epfd
    events,    \* the descriptors of the events not yet dealt with
    phase,     \* where main is
    active_fd, \* the descriptor of the event the loop is at
    n,         \* what the last recv returned
    echoed     \* history: units of each client that send has taken

server == <<interest, events, phase, active_fd, n, echoed>>
vars == <<network, server>>

Listener == -1   \* server_fd
NoFd == -2

Init ==
    /\ NetworkInit
    /\ interest = {}
    /\ events = {}
    /\ phase = "wait"
    /\ active_fd = NoFd
    /\ n = 0
    /\ echoed = [c \in Client |-> 0]

----------------------------------------------------------------------------
\* The descriptors that are ready, at most MAX_EVENTS of them (64, never so
\* many here).
Ready == {fd \in interest : Events(table[fd]) # {}} \cup {l \in {Listener} : backlog # <<>>}

EpollWait ==
    /\ phase = "wait" /\ ~killed
    /\ Ready # {}
    /\ events' = Ready
    /\ phase' = "next"
    /\ UNCHANGED <<network, interest, active_fd, n, echoed>>

\* epoll_wait fails other than by EINTR: main closes server_fd and epfd and
\* returns, and the system closes the rest.
EpollWaitFails ==
    /\ phase = "wait" /\ ~killed
    /\ Close(interest)
    /\ interest' = {}
    /\ phase' = "exit"
    /\ UNCHANGED <<events, active_fd, n, echoed>>

\* The loop over the events goes on, in whatever order epoll_wait gave them, or
\* back to epoll_wait.
NextEvent ==
    /\ phase = "next" /\ ~killed
    /\ \/ \E fd \in events :
             /\ active_fd' = fd
             /\ events' = events \ {fd}
             /\ phase' = IF fd = Listener THEN "accept" ELSE "recv"
       \/ /\ events = {}
          /\ phase' = "wait"
          /\ UNCHANGED <<events, active_fd>>
    /\ UNCHANGED <<network, interest, n, echoed>>

EventDone == phase' = "next" /\ active_fd' = NoFd /\ n' = 0

\* Mutant: the result of epoll_ctl is not looked at.
AcceptUnregistered ==
    /\ phase = "accept" /\ ~killed
    /\ \E fd \in Fd : Accept(fd) /\ interest' \in {interest, interest \cup {fd}}
    /\ UNCHANGED <<events, phase, active_fd, n, echoed>>

\* One turn of the accept loop: the connection is registered, or closed when
\* epoll_ctl fails.
AcceptOne ==
    /\ phase = "accept" /\ ~killed
    /\ \/ \E fd \in Fd : Accept(fd) /\ interest' = interest \cup {fd}
       \/ AcceptAndClose /\ UNCHANGED interest
    /\ UNCHANGED <<events, phase, active_fd, n, echoed>>

\* accept returns -1: nothing is queued, or it fails for whatever reason.
AcceptEnds ==
    /\ phase = "accept" /\ ~killed
    /\ EventDone
    /\ UNCHANGED <<network, interest, events, echoed>>

Peer == table[active_fd]

RecvMore ==
    /\ phase = "recv" /\ ~killed
    /\ \E k \in 1 .. MaxSends : RecvData(Peer, k) /\ n' = k
    /\ phase' = "send"
    /\ UNCHANGED <<interest, events, active_fd, echoed>>

\* Mutant: the end is taken as soon as the client has shut down.
EndSeenEarly ==
    /\ phase = "recv" /\ ~killed
    /\ sock[Peer].fin \/ RecvOutcome(Peer) = "error"
    /\ interest' = interest \ {active_fd}
    /\ Close({active_fd})
    /\ EventDone
    /\ UNCHANGED <<events, echoed>>

\* Mutant: the descriptor is closed only when recv fails.
EndNotClosed ==
    /\ phase = "recv" /\ ~killed
    /\ RecvOutcome(Peer) \in {"eof", "error"}
    /\ interest' = interest \ {active_fd}
    /\ UNCHANGED network
    /\ EventDone
    /\ UNCHANGED <<events, echoed>>

\* Mutant: the loop is not left.
EndWithoutBreak ==
    /\ phase = "recv" /\ ~killed
    /\ RecvOutcome(Peer) \in {"eof", "error"}
    /\ interest' = interest \ {active_fd}
    /\ Close({active_fd})
    /\ UNCHANGED <<events, phase, active_fd, n, echoed>>

\* recv finds the end of the stream or an error.
RecvEnd ==
    /\ phase = "recv" /\ ~killed
    /\ RecvOutcome(Peer) \in {"eof", "error"}
    /\ interest' = interest \ {active_fd}
    /\ Close({active_fd})
    /\ EventDone
    /\ UNCHANGED <<events, echoed>>

RecvAgain ==
    /\ phase = "recv" /\ ~killed
    /\ RecvOutcome(Peer) = "EAGAIN"
    /\ EventDone
    /\ UNCHANGED <<network, interest, events, echoed>>

\* Mutant: only one unit is sent back.
EchoOne ==
    /\ phase = "send" /\ ~killed
    /\ SendUnits(Peer, 1)
    /\ echoed' = [echoed EXCEPT ![Peer] = @ + 1]
    /\ phase' = "recv"
    /\ n' = 0
    /\ UNCHANGED <<interest, events, active_fd>>

\* What recv returned is sent back, or as much of it as the buffer has room for.
Echo ==
    /\ phase = "send" /\ ~killed
    /\ SendUnits(Peer, n)
    /\ echoed' = [echoed EXCEPT ![Peer] = IF sock[Peer].err = "none" THEN @ + Sendable(Peer, n)
                                          ELSE @]
    /\ phase' = "recv"
    /\ n' = 0
    /\ UNCHANGED <<interest, events, active_fd>>

ServerStep ==
    \/ EpollWait \/ NextEvent \/ AcceptOne \/ AcceptEnds
    \/ RecvMore \/ RecvEnd \/ RecvAgain \/ Echo

Next == ServerStep \/ EpollWaitFails \/ \E c \in Client : ClientStep(c) /\ UNCHANGED server

\* The server's thread runs as long as it can, and accept does not fail forever
\* on a connection it could accept; clients owe nothing.
Spec == Init /\ [][Next]_vars /\ WF_vars(ServerStep) /\ SF_vars(AcceptOne)
----------------------------------------------------------------------------
(* Properties. *)

Running == ~killed /\ phase # "exit"

\* Every variable has its type, and no event or registration outlives its
\* descriptor: the loop never uses a number that has been closed.
TypeOK ==
    /\ NetworkType
    /\ interest \subseteq DOMAIN table
    /\ events \subseteq interest \cup {Listener}
    /\ phase \in {"wait", "next", "accept", "recv", "send", "exit"}
    /\ active_fd \in interest \cup {Listener, NoFd}
    /\ n \in 0 .. MaxSends
    /\ echoed \in [Client -> Nat]

\* Every open connection is registered with epoll: none is open and unheard.
AllRegistered == interest = DOMAIN table

\* The server closes a connection only when its client has ended it and has been
\* sent back all it had sent, so a client that shuts down and then reads, as the
\* one of 01-stream does, gets everything before the end.  (Exempt are a connection
\* that is reset or that epoll_ctl refuses, and a client that sends more than its
\* connection holds: the 15 bytes of client.c are far less.)
ClosedAfterEcho == [][\A c \in Client :
    sock[c].stage = "open" /\ sock'[c].stage = "closed" =>
        \/ sock[c].fin /\ sock[c].inbox = 0
           /\ (sock[c].sent <= SendBuffer => echoed[c] = sock[c].sent)
        \/ sock[c].err # "none" \/ phase' = "exit"]_vars

\* Whatever the other clients do or do not do, and however often accept fails, no
\* client waits forever: a connection in the queue leaves it, what a client has
\* sent is read, and a connection the client has ended is closed.
NobodyWaitsForever == \A c \in Client : Pending(c) ~> ~Pending(c) \/ ~Running

\* Whenever the server waits, every unit it has received it has sent back, unless
\* the client has sent more than its connection holds.
EchoedAll == phase = "wait" => \A c \in Client :
    sock[c].stage = "open" /\ sock[c].err = "none" /\ sock[c].sent <= SendBuffer =>
        echoed[c] = sock[c].sent - sock[c].inbox

\* The server keeps the promise of EchoService to every client at once: nothing is
\* received before what came earlier went back, nothing is sent back twice or
\* unasked, and no connection ends early.
Conn(c) ==
    [stage |-> IF sock[c].stage \in {"open", "closed"} THEN sock[c].stage ELSE "new",
     sent |-> sock[c].sent, heard |-> sock[c].sent - sock[c].inbox,
     returned |-> IF sock[c].stage = "closed" THEN 0 ELSE echoed[c],
     end |-> IF sock[c].err # "none" THEN "reset" ELSE IF sock[c].fin THEN "ended" ELSE "none"]

Service == INSTANCE EchoService WITH
    Capacity <- SendBuffer, running <- phase # "exit", conn <- [c \in Client |-> Conn(c)]

ImplementsEcho == Service!Spec
=============================================================================
