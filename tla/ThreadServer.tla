---------------------------- MODULE ThreadServer ----------------------------
(***************************************************************************)
(* The server with one thread per connection                               *)
(* (06-network/03-thread-per-connection).  main accepts, stores the        *)
(* descriptor in a heap cell of its own, and creates a detached thread     *)
(* that reads the cell, frees it, and blocks in recv.  Each connection     *)
(* gets one answer.  The threads share the heap and the descriptors, whose *)
(* numbers the system gives out again as soon as they are closed.          *)
(***************************************************************************)
EXTENDS Sockets

CONSTANTS
    Address,   \* the heap cells malloc has
    Thread     \* the threads pthread_create has

VARIABLES
    phase,      \* where main is
    client_fd,  \* main's local variable
    arg,        \* main's local variable
    heap,       \* what each allocated cell holds
    worker,     \* handle_client in each thread that runs
    answered    \* history: the clients that have been sent an answer

mainVars == <<phase, client_fd, arg>>
vars == <<network, mainVars, heap, worker, answered>>

NoFd == -1
NoAddress == 0

\* malloc does not return NULL when it succeeds.
ASSUME AddressAssumption == NoAddress \notin Address

\* conn is history: the connection the thread was created for.
Worker == [pc : {"start", "free", "recv", "send", "close"}, arg : Address,
           client_fd : Fd \cup {NoFd}, conn : Client]

Init ==
    /\ NetworkInit
    /\ phase = "accept"
    /\ client_fd = NoFd
    /\ arg = NoAddress
    /\ heap = [a \in {} |-> NoFd]
    /\ worker = [t \in {} |-> NoFd]
    /\ answered = {}

Put(f, x, v) == [y \in DOMAIN f \cup {x} |-> IF y = x THEN v ELSE f[y]]
Without(f, x) == Restrict(f, DOMAIN f \ {x})

----------------------------------------------------------------------------
(* main *)

BackToAccept ==
    /\ phase' = "accept"
    /\ client_fd' = NoFd
    /\ arg' = NoAddress

\* Mutant: main joins the thread it has created.
AcceptAfterJoin ==
    /\ phase = "accept" /\ ~killed
    /\ worker = <<>>
    /\ \E fd \in Fd : Accept(fd) /\ client_fd' = fd
    /\ phase' = "malloc"
    /\ UNCHANGED <<arg, heap, worker, answered>>

\* accept blocks while the queue is empty.  (When it fails the loop calls it
\* again.)
MainAccept ==
    /\ phase = "accept" /\ ~killed
    /\ \E fd \in Fd : Accept(fd) /\ client_fd' = fd
    /\ phase' = "malloc"
    /\ UNCHANGED <<arg, heap, worker, answered>>

\* Mutant: one cell for all threads, the race of the comment at server.c:132.
MallocShared ==
    /\ phase = "malloc" /\ ~killed
    /\ arg' = CHOOSE a \in Address : TRUE
    /\ heap' = Put(heap, arg', client_fd)
    /\ phase' = "create"
    /\ UNCHANGED <<network, client_fd, worker, answered>>

\* Mutant: malloc's result is not looked at.
MallocUnchecked ==
    /\ phase = "malloc" /\ ~killed
    /\ \E a \in (Address \ DOMAIN heap) \cup {NoAddress} : arg' = a /\ heap' = Put(heap, a, client_fd)
    /\ phase' = "create"
    /\ UNCHANGED <<network, client_fd, worker, answered>>

\* malloc and the assignment to the new cell, or the way out without memory.
MainMalloc ==
    /\ phase = "malloc" /\ ~killed
    /\ \/ /\ \E a \in Address \ DOMAIN heap : arg' = a /\ heap' = Put(heap, a, client_fd)
          /\ phase' = "create"
          /\ UNCHANGED <<network, client_fd>>
       \/ Close({client_fd}) /\ BackToAccept /\ UNCHANGED heap
    /\ UNCHANGED <<worker, answered>>

\* Mutant: without a thread only the descriptor is given back.
CreateLeaks ==
    /\ phase = "create" /\ ~killed
    /\ \/ /\ \E t \in Thread \ DOMAIN worker :
                worker' = Put(worker, t, [pc |-> "start", arg |-> arg, client_fd |-> NoFd,
                                          conn |-> table[client_fd]])
          /\ UNCHANGED <<network, heap>>
       \/ Close({client_fd}) /\ UNCHANGED <<heap, worker>>
    /\ BackToAccept
    /\ UNCHANGED answered

\* pthread_create and pthread_detach, or the way out without a thread.
MainCreate ==
    /\ phase = "create" /\ ~killed
    /\ \/ /\ \E t \in Thread \ DOMAIN worker :
                worker' = Put(worker, t, [pc |-> "start", arg |-> arg, client_fd |-> NoFd,
                                          conn |-> table[client_fd]])
          /\ UNCHANGED <<network, heap>>
       \/ Close({client_fd}) /\ heap' = Without(heap, arg) /\ UNCHANGED worker
    /\ BackToAccept
    /\ UNCHANGED answered

MainStep == MainAccept \/ MainMalloc \/ MainCreate

----------------------------------------------------------------------------
(* handle_client in thread t *)

At(t, pc) == t \in DOMAIN worker /\ worker[t].pc = pc /\ ~killed

ReadArg(t) ==
    /\ At(t, "start")
    /\ worker' = [worker EXCEPT ![t].client_fd = heap[worker[t].arg], ![t].pc = "free"]
    /\ UNCHANGED <<network, mainVars, heap, answered>>

FreeArg(t) ==
    /\ At(t, "free")
    /\ heap' = Without(heap, worker[t].arg)
    /\ worker' = [worker EXCEPT ![t].pc = "recv"]
    /\ UNCHANGED <<network, mainVars, answered>>

Peer(t) == table[worker[t].client_fd]

\* Mutant: recv's result is not looked at.
RecvUnchecked(t) ==
    /\ At(t, "recv")
    /\ \/ RecvSome(Peer(t))
       \/ RecvEof(Peer(t)) \/ RecvError(Peer(t))
    /\ worker' = [worker EXCEPT ![t].pc = "send"]
    /\ UNCHANGED <<mainVars, heap, answered>>

\* recv blocks until there is data, the end of the stream or an error.
Recv(t) ==
    /\ At(t, "recv")
    /\ \/ /\ RecvSome(Peer(t))
          /\ worker' = [worker EXCEPT ![t].pc = "send"]
       \/ /\ RecvEof(Peer(t)) \/ RecvError(Peer(t))
          /\ worker' = [worker EXCEPT ![t].pc = "close"]
    /\ UNCHANGED <<mainVars, heap, answered>>

\* Mutant: the thread goes on to the next message of its client.
SendLoops(t) ==
    /\ At(t, "send")
    /\ SendReply(Peer(t))
    /\ worker' = [worker EXCEPT ![t].pc = "recv"]
    /\ answered' = answered \cup {Peer(t)}
    /\ UNCHANGED <<mainVars, heap>>

Send(t) ==
    /\ At(t, "send")
    /\ SendReply(Peer(t))
    /\ worker' = [worker EXCEPT ![t].pc = "close"]
    /\ answered' = answered \cup {Peer(t)}
    /\ UNCHANGED <<mainVars, heap>>

\* The thread closes its descriptor and ends.
CloseAndEnd(t) ==
    /\ At(t, "close")
    /\ Close({worker[t].client_fd})
    /\ worker' = Without(worker, t)
    /\ UNCHANGED <<mainVars, heap, answered>>

WorkerStep(t) == ReadArg(t) \/ FreeArg(t) \/ Recv(t) \/ Send(t) \/ CloseAndEnd(t)

Next ==
    \/ MainStep
    \/ \E t \in Thread : WorkerStep(t)
    \/ \E c \in Client : ClientStep(c) /\ UNCHANGED <<mainVars, heap, worker, answered>>

\* Every thread runs as long as it can; clients owe nothing.
Spec == Init /\ [][Next]_vars /\ WF_vars(MainStep) /\ \A t \in Thread : WF_vars(WorkerStep(t))
----------------------------------------------------------------------------
(* Properties. *)

\* Every variable has its type.
TypeOK ==
    /\ NetworkType
    /\ phase \in {"accept", "malloc", "create"}
    /\ client_fd \in Fd \cup {NoFd}
    /\ arg \in Address \cup {NoAddress}
    /\ DOMAIN heap \subseteq Address /\ Range(heap) \subseteq Fd
    /\ DOMAIN worker \subseteq Thread /\ Range(worker) \subseteq Worker
    /\ answered \subseteq Client

\* A thread reads the descriptor main stored for it, however late it starts and
\* however many connections main has accepted since, and until it closes that
\* descriptor it is the one of the connection it was created for.
OwnConnection == \A t \in DOMAIN worker :
    LET fd == IF worker[t].pc = "start" THEN heap[worker[t].arg] ELSE worker[t].client_fd
    IN  /\ worker[t].pc = "start" => worker[t].arg \in DOMAIN heap
        /\ fd \in DOMAIN table /\ table[fd] = worker[t].conn

\* Every open connection and every heap cell has one owner, main or a thread,
\* that will close or free it: nothing leaks on any path of main, and nothing
\* is freed twice.
OneOwner ==
    /\ \A fd \in DOMAIN table :
          (IF fd = client_fd THEN 1 ELSE 0)
              + Cardinality({t \in DOMAIN worker : worker[t].conn = table[fd]}) = 1
    /\ \A a \in DOMAIN heap :
          (IF a = arg THEN 1 ELSE 0)
              + Cardinality({t \in DOMAIN worker : worker[t].arg = a
                                                   /\ worker[t].pc \in {"start", "free"}}) = 1

\* An answer goes to a client that has sent something, and no client gets a
\* second one.
AnswersOnce == [][\A c \in Client : sock'[c].unread > sock[c].unread =>
    sock[c].sent > sock[c].inbox /\ c \notin answered]_vars

\* The server keeps the promise of OneReplyService for all connections at once:
\* who has been heard is answered and then closed, who ends without a word, or
\* gets no memory or thread, is closed without an answer.
Progress(c) == CASE sock[c].stage \in {"out", "queued"} -> "none"
                 [] sock[c].stage = "closed" -> "closed"
                 [] sock[c].stage = "open" /\ c \in answered -> "replied"
                 [] sock[c].stage = "open" /\ c \notin answered ->
                        IF sock[c].sent > sock[c].inbox THEN "heard" ELSE "open"

Service == INSTANCE OneReplyService WITH conn <- [c \in Client |-> Progress(c)]

ImplementsOneReply == Service!Spec

\* SIGPIPE has ended the server, with all its threads: a client had ended its side
\* and then aborted, before the only send on its connection.
EndedByPeer == killed /\ \E d \in Client : sock[d].stage = "open" /\ sock[d].fin /\ sock[d].err = "EPIPE"

\* server.c:29: a recv that blocks blocks its own thread only.  Every client that
\* has sent something, ended its side or aborted is accepted, answered if it was
\* heard, and closed, whatever the other clients do not do.  The one thing a client
\* can do to the others is to end the server, and that takes a message, a shutdown
\* and an abort: an abort alone fails the recv of its own thread, or its send.
EveryClientServed == \A c \in Client :
    /\ sock[c].stage \in {"queued", "open"}
    /\ RecvOutcome(c) # "EAGAIN"
    ~> sock[c].stage = "closed" \/ EndedByPeer
=============================================================================
