------------------------------- MODULE Clients -------------------------------
(***************************************************************************)
(* The client programs of 06-network, as the system calls they make.  All  *)
(* of them connect to port 8080, so that each may meet any server.  The    *)
(* clients outside Scripted are the unrestricted ones of Sockets.          *)
(***************************************************************************)
EXTENDS Sockets

CONSTANT Scripted   \* the clients that run a program of the repository

ASSUME ScriptedAssumption == Scripted \subseteq Client

VARIABLES
    script,  \* the program of each of them
    at,      \* the call it makes next
    got      \* history: the clients whose read has returned an answer

clients == <<script, at, got>>

\* client.c of 01, 02 and 03, and those of 07-tcp-deep/02 and 03.
client == <<"connect", "send", "read", "close">>

close_states_client == <<"connect", "send", "close">>

\* Mutant: without the shutdown.
half_close_forgets == <<"connect", "send", "send", "read", "close">>

half_close_client == <<"connect", "send", "send", "shutdown", "read", "close">>

Program == [client |-> client, close_states |-> close_states_client,
            half_close |-> half_close_client]

Calls(c) == Program[script[c]]
Over(c) == at[c] > Len(Calls(c))
Makes(c, call) == ~Over(c) /\ Calls(c)[at[c]] = call

ClientsInit ==
    /\ script \in [Scripted -> DOMAIN Program]
    /\ at = [c \in Scripted |-> 1]
    /\ got = {}

ClientsType ==
    /\ script \in [Scripted -> DOMAIN Program]
    /\ \A c \in Scripted : at[c] \in 1 .. Len(Calls(c)) + 1
    /\ got \subseteq Scripted

----------------------------------------------------------------------------
Continue(c) == at' = [at EXCEPT ![c] = @ + 1]
Exit(c) == at' = [at EXCEPT ![c] = Len(Calls(c)) + 1]

\* connect waits for room in the queue; without a listening server it is refused.
CallConnect(c, listening) ==
    /\ Makes(c, "connect")
    /\ \/ listening /\ Connect(c) /\ Continue(c)
       \/ ~listening /\ Exit(c) /\ UNCHANGED network
    /\ UNCHANGED got

\* send on a connection the server has answered and closed is lost; on one that
\* was reset before it was accepted it fails, which client.c notices, and the
\* second time raises SIGPIPE.
CallSend(c, answered) ==
    /\ Makes(c, "send")
    /\ \/ ClientSend(c) /\ Continue(c)
       \/ ~Connected(c) /\ UNCHANGED sock /\ Continue(c)
       \/ ~Connected(c) /\ UNCHANGED sock /\ c \notin answered /\ Exit(c)
    /\ UNCHANGED <<backlog, table, killed, got>>

CallShutdown(c) ==
    /\ Makes(c, "shutdown")
    /\ ClientShutdown(c) \/ (~Connected(c) /\ UNCHANGED sock)
    /\ Continue(c)
    /\ UNCHANGED <<backlog, table, killed, got>>

\* read blocks until there is an answer, or the server has closed: an answer
\* sent before the close still comes first.
CallRead(c, answered) ==
    /\ Makes(c, "read")
    /\ \/ ClientRead(c)
       \/ ~Connected(c) /\ UNCHANGED sock
    /\ got' = IF c \in answered THEN got \cup {c} ELSE got
    /\ Continue(c)
    /\ UNCHANGED <<backlog, table, killed>>

CallClose(c) ==
    /\ Makes(c, "close")
    /\ ClientClose(c) \/ (~Connected(c) /\ UNCHANGED sock)
    /\ Continue(c)
    /\ UNCHANGED <<backlog, table, killed, got>>

\* A step of c's program, or the kernel's on its behalf.
ClientCall(c, listening, answered) ==
    /\ \/ CallConnect(c, listening) \/ CallSend(c, answered) \/ CallShutdown(c)
       \/ CallRead(c, answered) \/ CallClose(c)
    /\ UNCHANGED script
=============================================================================
