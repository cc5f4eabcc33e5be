--------------------------- MODULE BlockingServer ---------------------------
(***************************************************************************)
(* The servers of one thread that blocks in every call.  One of them       *)
(* (02-blocking-server) serves one client after the other: it receives     *)
(* once, answers and closes.  The others serve one connection and return:  *)
(* 01-tcp-basic as the above; 07-tcp-deep/02-close-states receives until   *)
(* the end and closes without a word; 07-tcp-deep/03-half-close receives   *)
(* until the end and answers then, on a connection that is open in one     *)
(* direction only.                                                         *)
(***************************************************************************)
EXTENDS Clients

VARIABLES
    program,    \* which of the servers this is
    phase,      \* where main is
    client_fd,  \* main's local variable
    answered    \* history: the clients that have been sent an answer

server == <<program, phase, client_fd, answered>>
vars == <<network, clients, server>>

NoFd == -1
Peer == table[client_fd]

OneConnection == {"tcp_basic", "close_states", "half_close"}

Init ==
    /\ NetworkInit /\ ClientsInit
    /\ program \in OneConnection \cup {"blocking"}
    /\ phase = "accept"
    /\ client_fd = NoFd
    /\ answered = {}

\* The server is at a place in its code.
At(ph) == phase = ph /\ ~killed

----------------------------------------------------------------------------
\* accept blocks while the queue is empty.
MainAccept ==
    /\ At("accept")
    /\ \E fd \in Fd : Accept(fd) /\ client_fd' = fd
    /\ phase' = "recv"
    /\ UNCHANGED <<program, answered>>

\* The programs of one connection give up; 02-blocking-server tries again.
AcceptFails ==
    /\ At("accept") /\ program \in OneConnection
    /\ phase' = "exit"
    /\ UNCHANGED <<network, program, client_fd, answered>>

\* recv blocks until there is data, the end of the stream or an error.
Received(next) == RecvSome(Peer) /\ phase' = next
Ended(next) == RecvEof(Peer) /\ phase' = next
Failed(next) == RecvError(Peer) /\ phase' = next
RecvBy(prog) == At("recv") /\ program = prog /\ UNCHANGED <<program, client_fd, answered>>

\* Mutant: n = 0 is taken for a message, as in 01-tcp-basic/server.c.
RecvAnswersEnd == RecvBy("blocking") /\ (Received("send") \/ Ended("send") \/ Failed("send"))

\* Mutant: the way out of a failed recv forgets the descriptor.
RecvLeaks ==
    /\ At("recv") /\ program = "blocking"
    /\ \/ Received("send") /\ UNCHANGED client_fd
       \/ (Ended("accept") \/ Failed("accept")) /\ client_fd' = NoFd
    /\ UNCHANGED <<program, answered>>

\* 02-blocking-server
Recv == RecvBy("blocking") /\ (Received("send") \/ Ended("close") \/ Failed("close"))

\* 01-tcp-basic: n = 0 is a message like any other.
RecvOnce ==
    /\ RecvBy("tcp_basic")
    /\ Received("send") \/ Ended("send") \/ Failed("close")

\* Mutant: the end does not end the loop.
RecvForever == RecvBy("close_states") /\ (Received("recv") \/ Ended("recv"))

\* 02-close-states: after the end it sleeps before it closes; after an error it
\* leaves the connection to the end of the process.
RecvUntilEnd ==
    /\ RecvBy("close_states")
    /\ Received("recv") \/ Ended("close") \/ Failed("exit")

\* Mutant: one read is taken for all the client has to say.
ReadOnce == RecvBy("half_close") /\ (Received("send") \/ Ended("send") \/ Failed("send"))

\* 03-half-close
ReadUntilEnd == RecvBy("half_close") /\ (Received("recv") \/ Ended("send") \/ Failed("send"))

----------------------------------------------------------------------------
Answer(next) ==
    /\ At("send")
    /\ SendReply(Peer)
    /\ answered' = answered \cup {Peer}
    /\ phase' = next
    /\ UNCHANGED <<program, client_fd>>

\* 02-blocking-server
Send == program = "blocking" /\ Answer("close")

\* 01-tcp-basic
SendHello == program = "tcp_basic" /\ Answer("close")

\* Mutant: the server reads on after its answer.
SendThenRead == program = "half_close" /\ Answer("recv")

\* 03-half-close, which then sleeps before it closes.
SendAfterEnd == program = "half_close" /\ Answer("close")

CloseClient ==
    /\ At("close")
    /\ Close({client_fd})
    /\ phase' = IF program = "blocking" THEN "accept" ELSE "exit"
    /\ client_fd' = NoFd
    /\ UNCHANGED <<program, answered>>

\* close of the listening socket, and the end of main.
ExitMain ==
    /\ At("exit")
    /\ CloseAll
    /\ phase' = "end"
    /\ client_fd' = NoFd
    /\ UNCHANGED <<program, answered>>

ServerStep ==
    \/ MainAccept \/ AcceptFails
    \/ Recv \/ RecvOnce \/ RecvUntilEnd \/ ReadUntilEnd
    \/ Send \/ SendHello \/ SendAfterEnd
    \/ CloseClient \/ ExitMain

\* The server's process has not ended.
Listening == phase # "end" /\ ~killed

ScriptStep(c) == ClientCall(c, Listening, answered) /\ UNCHANGED server

FreeStep(c) == Listening /\ ClientStep(c) /\ UNCHANGED <<server, clients>>

\* The answer to data a client can no longer receive is its kernel's.
KernelStep(c) == PeerReset(c) /\ UNCHANGED <<backlog, table, killed, server, clients>>

Next == \/ ServerStep /\ UNCHANGED clients
        \/ \E c \in Scripted : ScriptStep(c) \/ KernelStep(c)
        \/ \E c \in Client \ Scripted : FreeStep(c)

\* The server's thread and the client programs run as long as they can; the
\* other clients owe nothing.
Spec == /\ Init /\ [][Next]_vars /\ WF_vars(ServerStep /\ UNCHANGED clients)
        /\ \A c \in Scripted : WF_vars(ScriptStep(c))
----------------------------------------------------------------------------
(* Properties. *)

\* Every variable has its type, and main holds the one connection that is open:
\* a single descriptor serves all clients because no path leaks it.
TypeOK ==
    /\ NetworkType /\ ClientsType
    /\ program \in OneConnection \cup {"blocking"}
    /\ phase \in {"accept", "recv", "send", "close", "exit", "end"}
    /\ client_fd \in Fd \cup {NoFd}
    /\ answered \subseteq Client
    /\ DOMAIN table = (IF client_fd = NoFd THEN {} ELSE {client_fd})

\* None of the client programs can make recv or send fail: the one RST that is in
\* their power answers a reply, after which a server neither reads the connection
\* nor sends on it.  Any client can by an abort: recv fails then, and
\* 03-half-close still says that it received everything and 02-close-states does
\* not close.  But SIGPIPE takes a client that has ended its side before it
\* aborts, since a server reads before it sends and the one error that leaves is
\* used up by recv or by the only send.  03-half-close sends after a recv that
\* failed: there the abort is enough.
OnlyAbortsAreFelt ==
    /\ phase \in {"recv", "send"} /\ Peer \in Scripted => sock[Peer].err = "none"
    /\ killed => Peer \notin Scripted /\ (sock[Peer].fin \/ program = "half_close")

\* A connection closed with data unread is reset, and the answer may be lost
\* with it.  The servers that receive once do so to a client that sends more
\* than the one message of client.c; the others never do.
GracefulClose ==
    [][\A c \in Client :
          sock[c].stage = "open" /\ sock'[c].stage = "closed" /\ sock[c].inbox > 0 =>
              program \in {"blocking", "tcp_basic"} /\ sock[c].sent > 1]_vars

\* 02-blocking-server keeps the promise of OneReplyService: who has been heard
\* is answered, once, and then closed; who ends without a word is closed without
\* an answer.
Progress(c) == CASE sock[c].stage \in {"out", "queued"} -> "none"
                 [] sock[c].stage = "closed" -> "closed"
                 [] sock[c].stage = "open" /\ c \in answered -> "replied"
                 [] sock[c].stage = "open" /\ c \notin answered ->
                        IF sock[c].sent > sock[c].inbox THEN "heard" ELSE "open"

Service == INSTANCE OneReplyService WITH
    conn <- [c \in Client |-> IF program = "blocking" THEN Progress(c) ELSE "none"]

ImplementsOneReply == Service!Spec

\* recv at line 72 of 02-blocking-server blocks the only thread, so a client
\* that stays silent makes all others wait.  Nothing else does: if no client is
\* silent forever on its open connection and none ends the server by SIGPIPE,
\* every connection in the queue is closed in the end, and that of a blocking
\* server is served before.
Silent(c) == sock[c].stage = "open" /\ RecvOutcome(c) = "EAGAIN"

OnlySilenceDelays ==
    (\A c \in Client : []<>~Silent(c)) =>
        \A c \in Client : sock[c].stage = "queued" ~> sock[c].stage = "closed" \/ killed

\* client.c waits for an answer before it ends its direction, and the servers
\* that read until the end wait for that end: these two wait for each other.
Suits(c) == script[c] = "client" => program \in {"blocking", "tcp_basic"}

\* Every other pair of programs comes to its end, unless other clients are silent
\* forever or end the server by SIGPIPE; and a client that has been accepted and
\* reads gets its answer, from 03-half-close after it has shut down its own
\* direction.
PairsFinish == \A c \in Scripted : Suits(c) =>
    /\ (\A d \in Client \ {c} : []<>~Silent(d)) => <>(Over(c) \/ killed)
    /\ (sock[c].stage = "open" /\ script[c] # "close_states" /\ program # "close_states")
           ~> c \in got
=============================================================================
