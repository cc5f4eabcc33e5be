----------------------------- MODULE PollServer -----------------------------
(***************************************************************************)
(* The poll server (06-network/05-poll): one thread, a table of            *)
(* MAX_CLIENTS slots, and a loop that asks poll which descriptors are      *)
(* ready, accepts what is queued, and then walks through the slots.  Each  *)
(* system call is a step, so that clients act between any two of them: the *)
(* revents of a slot are as old as the poll that stored them.              *)
(***************************************************************************)
EXTENDS Sockets

CONSTANT MAX_CLIENTS

ASSUME MaxClientsAssumption == MAX_CLIENTS \in Nat \ {0}

VARIABLES
    fds,      \* fds[i].fd of each slot: a descriptor, or -1
    revents,  \* fds[i].revents
    phase,    \* where main is
    i,        \* the slot the loop is at
    fd        \* the loop's copy of fds[i].fd

server == <<fds, revents, phase, i, fd>>
vars == <<network, server>>

Slot == 1 .. MAX_CLIENTS
NoFd == -1

Running == ~killed /\ phase # "exit"

\* fds[].revents is not initialized.
Init ==
    /\ NetworkInit
    /\ fds = [s \in Slot |-> NoFd]
    /\ revents \in [Slot -> SUBSET {"POLLIN", "POLLHUP"}]
    /\ phase = "poll"
    /\ i = 1
    /\ fd = NoFd

----------------------------------------------------------------------------
\* Mutant: revents is stored for the slots in use only.
PollStoresSome(s) == IF fds[s] = NoFd THEN revents[s] ELSE Events(table[fds[s]])

\* What poll stores for a slot; it clears the revents of those without a
\* descriptor.
Polled(s) == IF fds[s] = NoFd THEN {} ELSE Events(table[fds[s]])

\* Mutant: the loop ends one slot too late.
LoopPastEnd(k) ==
    LET rest == {s \in k .. MAX_CLIENTS + 1 :
                    s = MAX_CLIENTS + 1 \/ (fds'[s] # NoFd /\ revents'[s] # {})}
    IN  IF rest = {} THEN phase' = "poll" /\ i' = 1
        ELSE phase' = "recv" /\ i' \in rest /\ \A s \in rest : i' <= s

\* The loop goes on from slot k to the next one in use that poll reported, or back
\* to poll.  (It makes no system call for the others.)
LoopFrom(k) ==
    LET rest == {s \in k .. MAX_CLIENTS : fds'[s] # NoFd /\ revents'[s] # {}}
    IN  IF rest = {} THEN phase' = "poll" /\ i' = 1
        ELSE phase' = "recv" /\ i' \in rest /\ \A s \in rest : i' <= s

\* Once recv and send are done: the check for a broken connection, and the rest
\* of the slots.
BodyDone ==
    IF "POLLHUP" \in revents[i] THEN phase' = "hup" /\ i' = i /\ fd' = fds[i]
    ELSE LoopFrom(i + 1) /\ fd' = NoFd

\* poll returns once some descriptor is ready.
Poll ==
    /\ phase = "poll" /\ ~killed
    /\ backlog # <<>> \/ \E s \in Slot : Polled(s) # {}
    /\ revents' = [s \in Slot |-> Polled(s)]
    /\ UNCHANGED <<network, fds, fd>>
    /\ IF backlog # <<>> THEN phase' = "accept" /\ i' = 1 ELSE LoopFrom(1)

\* poll fails other than by EINTR: main leaves the loop, closes every
\* descriptor and returns.
PollFails ==
    /\ phase = "poll" /\ ~killed
    /\ Close({fds[s] : s \in Slot})
    /\ phase' = "exit"
    /\ UNCHANGED <<fds, revents, i, fd>>

\* One turn of the accept loop: a connection gets the first free slot, or is
\* closed.
AcceptOne ==
    /\ phase = "accept" /\ ~killed
    /\ \/ \E s \in Slot, new \in Fd :
             /\ fds[s] = NoFd /\ \A t \in 1 .. s - 1 : fds[t] # NoFd
             /\ Accept(new)
             /\ fds' = [fds EXCEPT ![s] = new]
       \/ (\A s \in Slot : fds[s] # NoFd) /\ AcceptAndClose /\ UNCHANGED fds
    /\ UNCHANGED <<revents, phase, i, fd>>

\* accept returns -1: nothing is queued, or it fails for whatever reason.
AcceptEnds ==
    /\ phase = "accept" /\ ~killed
    /\ UNCHANGED <<network, fds, revents, fd>>
    /\ LoopFrom(1)

\* Mutant: the slot of a connection that ended keeps its descriptor.
RecvKeepsSlot ==
    /\ phase = "recv" /\ ~killed
    /\ UNCHANGED <<fds, revents>>
    /\ \/ RecvSome(table[fds[i]]) /\ phase' = "send" /\ fd' = fds[i] /\ i' = i
       \/ /\ RecvOutcome(table[fds[i]]) \in {"eof", "error"}
          /\ Close({fds[i]})
          /\ BodyDone

\* Mutant: n = 0 is not told from EAGAIN.
RecvIgnoresEnd ==
    /\ phase = "recv" /\ ~killed
    /\ UNCHANGED revents
    /\ \/ /\ RecvSome(table[fds[i]])
          /\ phase' = "send" /\ fd' = fds[i]
          /\ UNCHANGED <<fds, i>>
       \/ /\ RecvOutcome(table[fds[i]]) = "error"
          /\ Close({fds[i]})
          /\ fds' = [fds EXCEPT ![i] = NoFd]
          /\ BodyDone
       \/ /\ RecvOutcome(table[fds[i]]) = "eof"
          /\ UNCHANGED <<network, fds>>
          /\ BodyDone

\* recv on a descriptor poll reported: poll reports none that is not readable.
Recv ==
    /\ phase = "recv" /\ ~killed
    /\ UNCHANGED revents
    /\ \/ /\ RecvSome(table[fds[i]])
          /\ phase' = "send" /\ fd' = fds[i]
          /\ UNCHANGED <<fds, i>>
       \/ /\ RecvOutcome(table[fds[i]]) \in {"eof", "error"}
          /\ Close({fds[i]})
          /\ fds' = [fds EXCEPT ![i] = NoFd]
          /\ BodyDone
       \/ /\ RecvOutcome(table[fds[i]]) = "EAGAIN"
          /\ UNCHANGED <<network, fds>>
          /\ BodyDone

Send ==
    /\ phase = "send" /\ ~killed
    /\ SendReply(table[fd])
    /\ UNCHANGED <<fds, revents>>
    /\ BodyDone

\* The end of the loop's body: a descriptor poll reported broken is closed, also
\* when recv has already closed it.
Hangup ==
    /\ phase = "hup" /\ ~killed
    /\ Close({fd})
    /\ fds' = [fds EXCEPT ![i] = NoFd]
    /\ UNCHANGED revents
    /\ LoopFrom(i + 1) /\ fd' = NoFd

ServerStep == Poll \/ AcceptOne \/ AcceptEnds \/ Recv \/ Send \/ Hangup

Next == ServerStep \/ PollFails \/ \E c \in Client : ClientStep(c) /\ UNCHANGED server

\* The server's thread runs as long as it can, and accept does not fail forever
\* on a connection it could accept; clients owe nothing.
Spec == Init /\ [][Next]_vars /\ WF_vars(ServerStep) /\ SF_vars(AcceptOne)
----------------------------------------------------------------------------
(* Properties. *)

\* Every variable has its type.
TypeOK ==
    /\ NetworkType
    /\ fds \in [Slot -> Fd \cup {NoFd}]
    /\ revents \in [Slot -> SUBSET {"POLLIN", "POLLHUP"}]
    /\ phase \in {"poll", "accept", "recv", "send", "hup", "exit"}
    /\ i \in Slot
    /\ fd \in Fd \cup {NoFd}

\* Whenever the loop is about to poll, each open connection has exactly one
\* slot and each slot in use names an open connection: nothing leaks, no slot
\* is stale though its descriptor number may be in use again.  When main has
\* returned nothing is open.
SlotsMatchConnections ==
    /\ phase = "poll" =>
          /\ {fds[s] : s \in Slot} \ {NoFd} = DOMAIN table
          /\ \A s, t \in Slot : fds[s] = fds[t] /\ fds[s] # NoFd => s = t
    /\ phase = "exit" => table = <<>>

\* A connection is closed only after its client has ended it, or at once when
\* all the slots are taken: the second close of a descriptor (server.c:246) and
\* revents that are older than the connection in their slot never hit a
\* connection of somebody else.
ClosedOnlyWhenOver == [][\A c \in Client :
    sock[c].stage # "closed" /\ sock'[c].stage = "closed" =>
        \/ sock[c].fin \/ sock[c].err # "none"
        \/ sock[c].stage = "queued" /\ \A s \in Slot : fds[s] # NoFd
        \/ phase' = "exit"]_vars

\* Whatever the other clients do or do not do, and however often accept fails, no
\* client waits forever: a connection in the queue leaves it, what a client has
\* sent is read, and a connection the client has ended is closed.
NobodyWaitsForever == \A c \in Client : Pending(c) ~> ~Pending(c) \/ ~Running

=============================================================================
