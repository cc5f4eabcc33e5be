------------------------- MODULE BlockingServer_proof -------------------------
(***************************************************************************)
(* Proofs about BlockingServer, for any number of clients, scripted or     *)
(* not, and of messages, and each of its server programs.                  *)
(***************************************************************************)
EXTENDS BlockingServer, Sockets_proof

\* main has a connection between accept and close, which 02-close-states leaves
\* out when recv fails; and 02-blocking-server never ends.
MainOK ==
    /\ phase \in {"recv", "send", "close"} => client_fd # NoFd
    /\ client_fd # NoFd => \/ phase \in {"recv", "send", "close"}
                           \/ phase = "exit" /\ program = "close_states"
    /\ phase \in {"exit", "end"} => program \in OneConnection

ReceivesOnce == {"blocking", "tcp_basic"}

\* The client has sent nothing that main has not received, and will not.
ReadToEnd(c) == sock[c].inbox = 0 /\ (sock[c].fin \/ sock[c].err # "none")

\* How far main has come with connection c.  It has not been answered before the
\* answer; before recv returns it has not been heard by the programs that receive
\* once; and afterwards it has been read to its end or heard by one of those.  An
\* error that a recv has reported keeps main from a send, but for 03-half-close.
ServedOK(c) ==
    /\ phase \in {"recv", "send"} => c \notin answered
    /\ phase = "recv" /\ program \in ReceivesOnce => sock[c].sent = sock[c].inbox
    /\ phase = "send" /\ program = "blocking" => sock[c].sent > sock[c].inbox
    /\ phase = "close" /\ program = "blocking" =>
          c \in answered \/ sock[c].sent = sock[c].inbox
    /\ phase \in {"send", "close", "exit"} =>
          ReadToEnd(c) \/ (program \in ReceivesOnce /\ sock[c].sent > sock[c].inbox)
    /\ phase \in {"recv", "send"} /\ sock[c].err = "EPIPE" =>
          sock[c].fin \/ (phase = "send" /\ program = "half_close")

Unheard(c) ==
    /\ sock[c].sent = sock[c].inbox /\ c \notin answered
    /\ sock[c].err = "EPIPE" => sock[c].fin

\* No RST has come from the client, nor can one before it is sent something.
Untouched(c) == sock[c].unread = 0 /\ sock[c].err = "none"

KilledOK ==
    /\ phase = "close" /\ Peer \notin Scripted
    /\ sock[Peer].fin \/ program = "half_close"

IInv ==
    /\ TypeOK /\ NetworkInv /\ DOMAIN at = Scripted
    /\ MainOK
    /\ client_fd # NoFd => ServedOK(Peer)
    /\ \A c \in Client : sock[c].stage \in {"out", "queued"} => Unheard(c)
    /\ \A c \in Scripted : c \in answered \/ Untouched(c)
    /\ killed => KilledOK

USE BoundsAssumption, ScriptedAssumption DEF Fd, NoFd
----------------------------------------------------------------------------
\* What the invariant says of the types of the variables.
LEMMA Types ==
    ASSUME IInv
    PROVE  /\ program \in {"tcp_basic", "close_states", "half_close", "blocking"}
           /\ phase \in {"accept", "recv", "send", "close", "exit", "end"}
           /\ client_fd \in Fd \cup {NoFd} /\ answered \subseteq Client
           /\ client_fd = NoFd => DOMAIN table = {}
           /\ client_fd # NoFd => /\ DOMAIN table = {client_fd} /\ Peer \in Client
                                  /\ sock[Peer].stage = "open" /\ ServedOK(Peer)
           /\ \A c \in Client : sock[c].stage = "open" => client_fd # NoFd /\ c = Peer
           /\ \A c \in Client :
                 /\ sock[c].stage \in {"out", "queued", "open", "closed"}
                 /\ sock[c].sent \in Nat /\ sock[c].inbox \in Nat /\ sock[c].unread \in Nat
<1>1. /\ program \in {"tcp_basic", "close_states", "half_close", "blocking"}
      /\ phase \in {"accept", "recv", "send", "close", "exit", "end"}
      /\ client_fd \in Fd \cup {NoFd} /\ answered \subseteq Client
      /\ DOMAIN table = (IF client_fd = NoFd THEN {} ELSE {client_fd})
  BY DEF IInv, TypeOK, OneConnection
<1>2. /\ \A f \in DOMAIN table : table[f] \in Client /\ sock[table[f]].stage = "open"
      /\ \A c \in Client : sock[c].stage = "open" => \E f \in DOMAIN table : table[f] = c
  BY NetworkFields DEF IInv, NetworkInv, WellConnected
<1>3. \A c \in Client : sock[c] \in Socket
  BY NetworkFields DEF IInv, NetworkInv
<1>4. \A c \in Client : /\ sock[c].stage \in {"out", "queued", "open", "closed"}
                        /\ sock[c].sent \in Nat /\ sock[c].inbox \in Nat /\ sock[c].unread \in Nat
  BY <1>3 DEF Socket
<1>5. client_fd # NoFd => ServedOK(Peer)
  BY DEF IInv
<1> QED BY <1>1, <1>2, <1>4, <1>5 DEF Peer

LEMMA InitInv == Init => IInv
<1> SUFFICES ASSUME Init PROVE IInv
  OBVIOUS
<1>1. NetworkInv /\ DOMAIN table = {} /\ ~killed
  BY NetworkInitInv DEF Init, NetworkInit
<1>2. ClientsType
  <2>1. \A c \in Scripted : Len(Calls(c)) \in Nat
    BY DEF Init, ClientsInit, Calls, Program, client, close_states_client, half_close_client
  <2> QED BY <2>1 DEF Init, ClientsInit, ClientsType
<1>3. TypeOK /\ client_fd = NoFd /\ phase = "accept"
  BY <1>1, <1>2 DEF Init, NetworkInv, TypeOK
<1>4. \A c \in Client : Unheard(c) /\ Untouched(c)
  BY FreshSound DEF Init, NetworkInit, Fresh, Unheard, Untouched
<1>5. DOMAIN at = Scripted
  BY DEF Init, ClientsInit
<1> QED BY <1>1, <1>3, <1>4, <1>5 DEF IInv, MainOK

\* The rest of the invariant after a step of main.
LEMMA StepInv ==
    ASSUME IInv, UNCHANGED <<clients, program>>, NetworkInv', killed' => KilledOK',
           phase' \in {"accept", "recv", "send", "close", "exit", "end"},
           client_fd' \in Fd \cup {NoFd}, answered' \subseteq Client,
           DOMAIN table' = (IF client_fd' = NoFd THEN {} ELSE {client_fd'}),
           MainOK', client_fd' # NoFd => ServedOK(Peer)',
           \A c \in Client : sock'[c].stage \in {"out", "queued"} =>
               sock'[c] = sock[c] /\ (c \in answered' => c \in answered),
           answered \subseteq answered',
           \A c \in Client : Untouched(c) => Untouched(c)' \/ c \in answered'
    PROVE  IInv'
<1>1. ClientsType' /\ DOMAIN at' = Scripted
  BY DEF IInv, TypeOK, ClientsType, clients, Calls
<1>2. TypeOK'
  BY <1>1 DEF NetworkInv, IInv, TypeOK
<1>3. \A c \in Client : sock'[c].stage \in {"out", "queued"} => Unheard(c)'
  BY DEF IInv, Unheard
<1> QED BY <1>1, <1>2, <1>3 DEF IInv

----------------------------------------------------------------------------
(* The steps of main. *)

LEMMA AcceptInvariant == IInv /\ MainAccept /\ UNCHANGED clients => IInv'
<1> SUFFICES ASSUME IInv, MainAccept, UNCHANGED clients PROVE IInv'
  OBVIOUS
<1>1. PICK f \in Fd : Accept(f) /\ client_fd' = f
  BY DEF MainAccept
<1>2. /\ phase = "accept" /\ phase' = "recv" /\ UNCHANGED <<program, answered>>
      /\ client_fd = NoFd
  BY DEF MainAccept, At, IInv, MainOK
<1>3. PICK c \in Client : table'[f] = c /\ Opened(c)
  BY <1>1, AcceptInv DEF IInv
<1>4. /\ NetworkInv' /\ ~killed' /\ DOMAIN table' = DOMAIN table \cup {f}
  BY <1>1, AcceptInv DEF IInv, MainAccept, At
<1>5. Unheard(c)
  BY <1>3 DEF IInv, Opened
<1>6. ServedOK(c)' /\ Peer' = c
  BY <1>1, <1>2, <1>3, <1>5 DEF ServedOK, Unheard, Opened, Peer
<1>7. MainOK'
  BY <1>1, <1>2 DEF MainOK
<1>8. client_fd' \in Fd /\ client_fd' # NoFd /\ DOMAIN table' = {client_fd'}
  BY <1>1, <1>2, <1>4, Types
<1>9. \A d \in Client : Untouched(d) => Untouched(d)'
  BY <1>3 DEF Opened, Untouched
<1> QED BY <1>1, <1>2, <1>3, <1>4, <1>6, <1>7, <1>8, <1>9, StepInv, Types DEF Opened

LEMMA AcceptFailsInv == IInv /\ AcceptFails /\ UNCHANGED clients => IInv'
<1> SUFFICES ASSUME IInv, AcceptFails, UNCHANGED clients PROVE IInv'
  OBVIOUS
<1>1. /\ phase' = "exit" /\ UNCHANGED <<backlog, table, sock, killed, program, client_fd, answered>>
      /\ ~killed /\ program \in OneConnection /\ client_fd = NoFd
  BY DEF AcceptFails, At, IInv, MainOK, network
<1>2. NetworkInv' /\ ~killed'
  BY <1>1 DEF IInv, NetworkInv, NetworkType, WellConnected, SocketSound
<1>3. MainOK'
  BY <1>1 DEF MainOK
<1>4. \A d \in Client : Untouched(d) => Untouched(d)'
  BY <1>1 DEF Untouched
<1> QED BY <1>1, <1>2, <1>3, <1>4, StepInv, Types

Receives == Recv \/ RecvOnce \/ RecvUntilEnd \/ ReadUntilEnd

AfterError == CASE program = "half_close" -> "send"
                [] program = "close_states" -> "exit"
                [] OTHER -> "close"

\* What recv does to the connection and where main goes on: data makes a program
\* that receives once answer and another one receive again; the end makes the two
\* with an answer for everybody answer and the others close; an error, which is
\* gone then, keeps all but 03-half-close from an answer.
LEMMA RecvEffect ==
    ASSUME IInv, Receives
    PROVE  \E c \in Client :
             /\ c = Peer /\ phase = "recv" /\ sock[c].stage = "open" /\ ServedOK(c) /\ ~killed
             /\ UNCHANGED <<program, client_fd, answered, table, killed>> /\ NetworkInv'
             /\ \A d \in Client \ {c} : sock'[d] = sock[d]
             /\ sock'[c].stage = "open" /\ sock'[c].sent = sock[c].sent
             /\ sock'[c].unread = sock[c].unread /\ sock'[c].fin = sock[c].fin
             /\ \/ /\ sock'[c].inbox < sock[c].inbox /\ sock'[c].err = sock[c].err
                   /\ phase' = IF program \in ReceivesOnce THEN "send" ELSE "recv"
                \/ /\ sock'[c] = sock[c] /\ sock[c].fin /\ sock[c].inbox = 0
                   /\ phase' = IF program \in {"blocking", "close_states"} THEN "close" ELSE "send"
                \/ /\ sock'[c].inbox = 0 /\ sock[c].inbox = 0
                   /\ sock[c].err = "ECONNRESET" /\ sock'[c].err = "EPIPE"
                   /\ phase' = AfterError
<1>1. /\ phase = "recv" /\ UNCHANGED <<program, client_fd, answered>> /\ client_fd # NoFd /\ ~killed
  BY DEF Receives, Recv, RecvOnce, RecvUntilEnd, ReadUntilEnd, RecvBy, At, IInv, MainOK
<1>2. PICK c \in Client : c = Peer /\ sock[c].stage = "open" /\ ServedOK(c)
  BY <1>1, Types
<1>3. \/ RecvSome(c) /\ phase' = IF program \in ReceivesOnce THEN "send" ELSE "recv"
      \/ /\ RecvEof(c)
         /\ phase' = IF program \in {"blocking", "close_states"} THEN "close" ELSE "send"
      \/ RecvError(c) /\ phase' = AfterError
  BY <1>2 DEF Receives, Recv, RecvOnce, RecvUntilEnd, ReadUntilEnd, RecvBy, Received,
              Ended, Failed, ReceivesOnce, AfterError
<1>4. ASSUME NEW k \in 1 .. MaxSends, RecvData(c, k)
      PROVE  /\ NetworkInv' /\ UNCHANGED <<table, killed>>
             /\ \A d \in Client \ {c} : sock'[d] = sock[d]
             /\ sock'[c].stage = "open" /\ sock'[c].sent = sock[c].sent
             /\ sock'[c].unread = sock[c].unread /\ sock'[c].fin = sock[c].fin
             /\ sock'[c].inbox < sock[c].inbox /\ sock'[c].err = sock[c].err
  <2>1. NetworkInv /\ k \in Int /\ sock[c].inbox \in Nat
    BY Types DEF IInv
  <2>2. /\ NetworkInv' /\ UNCHANGED <<table, killed>>
        /\ \A d \in Client \ {c} : sock'[d] = sock[d]
        /\ sock'[c].stage = "open" /\ sock'[c].sent = sock[c].sent
        /\ sock'[c].unread = sock[c].unread /\ sock'[c].fin = sock[c].fin
        /\ sock'[c].inbox = sock[c].inbox - k /\ sock'[c].err = sock[c].err
    BY <1>2, <1>4, <2>1, RecvDataInv
  <2> QED BY <2>1, <2>2
<1>5. CASE RecvSome(c) /\ phase' = IF program \in ReceivesOnce THEN "send" ELSE "recv"
  BY <1>1, <1>2, <1>4, <1>5 DEF RecvSome
<1>6. CASE /\ RecvEof(c)
           /\ phase' = IF program \in {"blocking", "close_states"} THEN "close" ELSE "send"
  <2>1. NetworkInv' /\ UNCHANGED <<table, killed>> /\ sock[c].inbox = 0
    BY <1>2, <1>6, RecvOverInv DEF IInv
  <2>2. sock' = sock /\ sock[c].fin
    BY <1>1, <1>2, <1>6, <2>1 DEF RecvEof, network, RecvOutcome, AtEnd, ServedOK
  <2> QED BY <1>1, <1>2, <1>6, <2>1, <2>2
<1>7. CASE RecvError(c) /\ phase' = AfterError
  BY <1>1, <1>2, <1>7, RecvErrorInv DEF IInv
<1> QED BY <1>3, <1>5, <1>6, <1>7

LEMMA RecvInv == IInv /\ Receives /\ UNCHANGED clients => IInv'
<1> SUFFICES ASSUME IInv, Receives, UNCHANGED clients PROVE IInv'
  OBVIOUS
<1>1. PICK c \in Client :
         /\ c = Peer /\ phase = "recv" /\ sock[c].stage = "open" /\ ServedOK(c) /\ ~killed
         /\ UNCHANGED <<program, client_fd, answered, table, killed>> /\ NetworkInv'
         /\ \A d \in Client \ {c} : sock'[d] = sock[d]
         /\ sock'[c].stage = "open" /\ sock'[c].sent = sock[c].sent
         /\ sock'[c].unread = sock[c].unread /\ sock'[c].fin = sock[c].fin
         /\ \/ /\ sock'[c].inbox < sock[c].inbox /\ sock'[c].err = sock[c].err
               /\ phase' = IF program \in ReceivesOnce THEN "send" ELSE "recv"
            \/ /\ sock'[c] = sock[c] /\ sock[c].fin /\ sock[c].inbox = 0
               /\ phase' = IF program \in {"blocking", "close_states"} THEN "close" ELSE "send"
            \/ /\ sock'[c].inbox = 0 /\ sock[c].inbox = 0
               /\ sock[c].err = "ECONNRESET" /\ sock'[c].err = "EPIPE"
               /\ phase' = AfterError
  BY RecvEffect
<1>2. client_fd # NoFd
  BY <1>1 DEF IInv, MainOK
<1>3. /\ sock[c].sent \in Nat /\ sock[c].inbox \in Nat
      /\ sock'[c].inbox \in Nat
  <2>1. sock'[c] \in Socket
    BY <1>1 DEF NetworkInv, NetworkType
  <2> QED BY <2>1, Types DEF Socket
<1>4. ServedOK(c)' /\ Peer' = c /\ MainOK' /\ phase' \in {"recv", "send", "close", "exit"}
  <2>1. CASE /\ sock'[c].inbox < sock[c].inbox /\ sock'[c].err = sock[c].err
             /\ phase' = IF program \in ReceivesOnce THEN "send" ELSE "recv"
    BY <1>1, <1>2, <1>3, <2>1 DEF ServedOK, ReadToEnd, Peer, ReceivesOnce, MainOK
  <2>2. CASE /\ sock'[c] = sock[c] /\ sock[c].fin /\ sock[c].inbox = 0
             /\ phase' = IF program \in {"blocking", "close_states"} THEN "close" ELSE "send"
    BY <1>1, <1>2, <1>3, <2>2 DEF ServedOK, ReadToEnd, Peer, ReceivesOnce, MainOK
  <2>3. CASE /\ sock'[c].inbox = 0 /\ sock[c].inbox = 0
             /\ sock[c].err = "ECONNRESET" /\ sock'[c].err = "EPIPE"
             /\ phase' = AfterError
    <3>1. \/ program = "half_close" /\ phase' = "send"
          \/ program = "close_states" /\ phase' = "exit"
          \/ program \in {"blocking", "tcp_basic"} /\ phase' = "close"
      BY <2>3, Types DEF AfterError
    <3> QED BY <1>1, <1>2, <1>3, <2>3, <3>1 DEF ServedOK, ReadToEnd, Peer, ReceivesOnce, MainOK,
                                                OneConnection
  <2> QED BY <1>1, <2>1, <2>2, <2>3
<1>5. \A d \in Client : Untouched(d) => Untouched(d)'
  BY <1>1 DEF Untouched
<1> QED BY <1>1, <1>2, <1>4, <1>5, StepInv, Types

Answers == Send \/ SendHello \/ SendAfterEnd

\* What the answer does: it is the only one, and the end of the server if a RST
\* has left no error for it to report.
LEMMA AnswerEffect ==
    ASSUME IInv, Answers
    PROVE  \E c \in Client :
             /\ c = Peer /\ phase = "send" /\ phase' = "close" /\ sock[c].stage = "open"
             /\ ServedOK(c) /\ UNCHANGED <<program, client_fd, table>> /\ NetworkInv'
             /\ answered' = answered \cup {c} /\ (killed' => sock[c].err = "EPIPE")
             /\ \A d \in Client \ {c} : sock'[d] = sock[d]
             /\ sock'[c].stage = "open" /\ sock'[c].sent = sock[c].sent
             /\ sock'[c].inbox = sock[c].inbox /\ sock'[c].fin = sock[c].fin
             /\ sock[c].err # "none" => sock'[c].err # "none"
<1>1. /\ ~killed /\ phase = "send" /\ phase' = "close" /\ UNCHANGED <<program, client_fd>>
      /\ SendReply(Peer) /\ answered' = answered \cup {Peer} /\ client_fd # NoFd
  BY DEF Answers, Send, SendHello, SendAfterEnd, Answer, At, IInv, MainOK
<1>2. PICK c \in Client : c = Peer /\ sock[c].stage = "open" /\ ServedOK(c)
  BY <1>1, Types
<1>3. SendUnits(c, 1) /\ NetworkInv
  BY <1>1, <1>2 DEF SendReply, IInv
<1>4. /\ NetworkInv' /\ UNCHANGED table
      /\ sock'[c].stage = sock[c].stage /\ sock'[c].sent = sock[c].sent
      /\ sock'[c].inbox = sock[c].inbox /\ sock'[c].fin = sock[c].fin
      /\ sock[c].err # "none" => sock'[c].err # "none"
      /\ \A d \in Client \ {c} : sock'[d] = sock[d]
  BY <1>2, <1>3, SendUnitsInv
<1>5. killed' => sock[c].err = "EPIPE"
  BY <1>1, <1>3 DEF SendUnits
<1> QED BY <1>1, <1>2, <1>4, <1>5

LEMMA AnswerInv == IInv /\ Answers /\ UNCHANGED clients => IInv'
<1> SUFFICES ASSUME IInv, Answers, UNCHANGED clients PROVE IInv'
  OBVIOUS
<1>1. PICK c \in Client :
         /\ c = Peer /\ phase = "send" /\ phase' = "close" /\ sock[c].stage = "open"
         /\ ServedOK(c) /\ UNCHANGED <<program, client_fd, table>> /\ NetworkInv'
         /\ answered' = answered \cup {c} /\ (killed' => sock[c].err = "EPIPE")
         /\ \A d \in Client \ {c} : sock'[d] = sock[d]
         /\ sock'[c].stage = "open" /\ sock'[c].sent = sock[c].sent
         /\ sock'[c].inbox = sock[c].inbox /\ sock'[c].fin = sock[c].fin
         /\ sock[c].err # "none" => sock'[c].err # "none"
  BY AnswerEffect
<1>2. client_fd # NoFd
  BY <1>1 DEF IInv, MainOK
<1>3. ServedOK(c)' /\ Peer' = c
  BY <1>1 DEF ServedOK, ReadToEnd, Peer
<1>4. MainOK'
  BY <1>1, <1>2 DEF MainOK
<1>5. killed' => KilledOK'
  <2> SUFFICES ASSUME killed' PROVE KilledOK'
    OBVIOUS
  <2>1. c \notin answered /\ sock[c].err = "EPIPE" /\ (sock[c].fin \/ program = "half_close")
    BY <1>1 DEF ServedOK
  <2>2. c \notin Scripted
    BY <2>1 DEF IInv, Untouched
  <2> QED BY <1>1, <1>3, <2>1, <2>2 DEF KilledOK
<1>6. \A d \in Client : Untouched(d) => Untouched(d)' \/ d \in answered'
  BY <1>1 DEF Untouched
<1> QED BY <1>1, <1>2, <1>3, <1>4, <1>5, <1>6, StepInv, Types

\* The close of the connection, the only one there is.
LEMMA CloseEffect ==
    ASSUME IInv, CloseClient
    PROVE  \E c \in Client :
             /\ c = Peer /\ phase = "close" /\ Closed(c) /\ ServedOK(c) /\ client_fd' = NoFd
             /\ phase' = IF program = "blocking" THEN "accept" ELSE "exit"
             /\ UNCHANGED <<program, answered, killed>> /\ NetworkInv' /\ DOMAIN table' = {}
             /\ ~killed
<1>1. /\ ~killed /\ phase = "close" /\ Close({client_fd}) /\ client_fd' = NoFd /\ client_fd # NoFd
      /\ phase' = IF program = "blocking" THEN "accept" ELSE "exit"
      /\ UNCHANGED <<program, answered>>
  BY DEF CloseClient, At, IInv, MainOK
<1>2. NetworkInv /\ client_fd \in DOMAIN table /\ DOMAIN table = {client_fd}
  BY <1>1, Types DEF IInv
<1>3. PICK c \in Client : c = table[client_fd] /\ Closed(c)
  BY <1>1, <1>2, CloseOneInv
<1>4. NetworkInv' /\ DOMAIN table' = DOMAIN table \ {client_fd} /\ UNCHANGED killed
  BY <1>1, <1>2, CloseOneInv
<1>5. c = Peer /\ ServedOK(c) /\ DOMAIN table' = {}
  BY <1>1, <1>2, <1>3, <1>4, Types DEF Peer
<1> QED BY <1>1, <1>3, <1>4, <1>5

LEMMA CloseInvariant == IInv /\ CloseClient /\ UNCHANGED clients => IInv'
<1> SUFFICES ASSUME IInv, CloseClient, UNCHANGED clients PROVE IInv'
  OBVIOUS
<1>1. PICK c \in Client :
         /\ phase = "close" /\ Closed(c) /\ client_fd' = NoFd
         /\ phase' = IF program = "blocking" THEN "accept" ELSE "exit"
         /\ UNCHANGED <<program, answered, killed>> /\ NetworkInv' /\ DOMAIN table' = {}
         /\ ~killed
  BY CloseEffect
<1>2. MainOK'
  BY <1>1, Types DEF MainOK, OneConnection
<1>3. \A d \in Client : sock'[d].stage \in {"out", "queued"} => sock'[d] = sock[d]
  BY <1>1, FreshSound DEF Closed
<1>4. \A d \in Client : Untouched(d) => Untouched(d)'
  BY <1>1 DEF Closed, Fresh, Untouched
<1> QED BY <1>1, <1>2, <1>3, <1>4, StepInv, Types

\* At the end of the process nothing is open, but what 02-close-states has left
\* after an error.
LEMMA ExitInv ==
    ASSUME IInv, ExitMain, UNCHANGED clients
    PROVE  IInv' /\ \A d \in Client : sock[d].stage = "open" => sock[d].inbox = 0
<1>1. /\ phase = "exit" /\ CloseAll /\ phase' = "end" /\ client_fd' = NoFd
      /\ UNCHANGED <<program, answered>> /\ program \in OneConnection /\ ~killed
  BY DEF ExitMain, At, IInv, MainOK
<1>2. /\ NetworkInv' /\ UNCHANGED killed /\ DOMAIN table' = {}
      /\ \A d \in Client : sock'[d] = IF sock[d].stage = "out" THEN sock[d] ELSE Fresh("closed")
  BY <1>1, CloseAllInv DEF IInv
<1>3. \A d \in Client : sock'[d].stage \in {"out", "queued"} => sock'[d] = sock[d]
  BY <1>2, FreshSound
<1>4. MainOK' /\ ~killed'
  BY <1>1, <1>2 DEF MainOK
<1>5. \A d \in Client : Untouched(d) => Untouched(d)'
  BY <1>2 DEF Fresh, Untouched
<1>6. IInv'
  BY <1>1, <1>2, <1>3, <1>4, <1>5, StepInv, Types
<1>7. \A d \in Client : sock[d].stage = "open" => ServedOK(d) /\ program = "close_states"
  BY <1>1, Types DEF IInv, MainOK
<1> QED BY <1>1, <1>6, <1>7 DEF ServedOK, ReadToEnd, ReceivesOnce

----------------------------------------------------------------------------
(* The steps of the clients. *)

\* Every program has a finite number of calls.
LEMMA CallsFinite ==
    ASSUME ClientsType, NEW c \in Scripted
    PROVE  Len(Calls(c)) \in Nat /\ script[c] \in DOMAIN Program /\ at[c] \in Nat
<1>1. script[c] \in {"client", "close_states", "half_close"}
  BY DEF ClientsType, Program
<1>2. Len(Calls(c)) \in Nat
  BY <1>1 DEF Calls, Program, client, close_states_client, half_close_client
<1> QED BY <1>2 DEF ClientsType

\* The programs of the clients keep to their calls, and what they do to the
\* connections is what any client may do.
LEMMA ScriptEffect ==
    ASSUME NetworkInv, ClientsType, DOMAIN at = Scripted, NEW c \in Scripted,
           NEW listening \in BOOLEAN, NEW ans, ClientCall(c, listening, ans)
    PROVE  /\ NetworkInv' /\ UNCHANGED <<table, killed>> /\ \A d \in Client : ClientEffect(d)
           /\ ClientsType' /\ DOMAIN at' = Scripted
           /\ \A d \in Scripted : Untouched(d) => Untouched(d)'
<1>1. c \in Client /\ ~Over(c) /\ (Continue(c) \/ Exit(c)) /\ UNCHANGED script
      /\ got' \in {got, got \cup {c}}
  BY DEF ClientCall, CallConnect, CallSend, CallShutdown, CallRead, CallClose, Makes
<1>2. ClientsType' /\ DOMAIN at' = Scripted
  <2>1. \A d \in Scripted : Len(Calls(d)) \in Nat /\ Calls(d)' = Calls(d)
                            /\ at[d] \in 1 .. Len(Calls(d)) + 1
    BY <1>1, CallsFinite DEF ClientsType, Calls
  <2>2. at[c] <= Len(Calls(c))
    BY <1>1, <2>1 DEF Over
  <2>3. DOMAIN at' = Scripted /\ at'[c] \in 1 .. Len(Calls(c)) + 1
        /\ \A d \in Scripted \ {c} : at'[d] = at[d]
    BY <1>1, <2>1, <2>2 DEF Continue, Exit
  <2>4. \A d \in Scripted : at'[d] \in 1 .. Len(Calls(d)') + 1
    BY <2>1, <2>3
  <2> QED BY <1>1, <2>3, <2>4 DEF ClientsType
<1>3. ClientStep(c) \/ UNCHANGED network
  BY DEF ClientCall, CallConnect, CallSend, CallShutdown, CallRead, CallClose, ClientStep, network
<1>4. ASSUME Untouched(c) PROVE Untouched(c)'
  <2>1. \/ UNCHANGED sock \/ Connect(c) \/ ClientSend(c) \/ ClientShutdown(c)
        \/ sock' = [sock EXCEPT ![c].gone = TRUE, ![c].fin = TRUE]
    <3>1. ~(sock[c].unread > 0)
      BY <1>4 DEF Untouched
    <3> QED BY <3>1 DEF ClientCall, CallConnect, CallSend, CallShutdown, CallRead, CallClose,
                        ClientRead, ClientClose, network
  <2>2. DOMAIN sock = Client /\ sock[c] \in Socket
    BY <1>1, NetworkFields DEF NetworkInv
  <2>3. sock'[c].unread = sock[c].unread /\ sock'[c].err = sock[c].err
    BY <1>1, <2>1, <2>2 DEF Connect, ClientSend, ClientShutdown, Socket
  <2> QED BY <1>4, <2>3 DEF Untouched
<1>5. CASE ClientStep(c)
  <2>1. \A d \in Client \ {c} : sock'[d] = sock[d]
    BY <1>1, <1>5, ClientStepCases
  <2>2. \A d \in Scripted : Untouched(d) => Untouched(d)'
    BY <1>4, <2>1 DEF Untouched
  <2> QED BY <1>1, <1>2, <1>5, <2>2, ClientStepInv
<1>6. CASE UNCHANGED network
  <2>1. NetworkInv' /\ UNCHANGED <<table, killed, sock>>
    BY <1>6 DEF NetworkInv, NetworkType, WellConnected, network, SocketSound
  <2>2. \A d \in Client : ClientEffect(d)
    <3>1. \A d \in Client : /\ sock[d].sent \in Nat /\ sock[d].inbox \in Nat
                            /\ sock[d].unread \in Nat
      BY NetworkFields DEF NetworkInv, Socket
    <3> QED BY <2>1, <3>1 DEF ClientEffect
  <2>3. \A d \in Scripted : Untouched(d) => Untouched(d)'
    BY <2>1 DEF Untouched
  <2> QED BY <1>2, <2>1, <2>2, <2>3
<1> QED BY <1>3, <1>5, <1>6

ClientsStep == \/ \E c \in Scripted : ScriptStep(c) \/ KernelStep(c)
               \/ \E c \in Client \ Scripted : FreeStep(c)

\* Scripted or free, a client leaves main alone; and a scripted one cannot reset
\* its connection before it has been sent something.
LEMMA ClientsEffect ==
    ASSUME IInv, ClientsStep
    PROVE  /\ NetworkInv' /\ UNCHANGED <<table, killed, program, phase, client_fd, answered>>
           /\ \A d \in Client : ClientEffect(d)
           /\ ClientsType' /\ DOMAIN at' = Scripted
           /\ \A d \in Scripted : Untouched(d) => Untouched(d)'
<1>1. NetworkInv /\ ClientsType /\ DOMAIN at = Scripted
  BY DEF IInv, TypeOK
<1>2. ASSUME NEW c \in Scripted, ScriptStep(c)
      PROVE  /\ NetworkInv' /\ UNCHANGED <<table, killed>> /\ \A d \in Client : ClientEffect(d)
             /\ ClientsType' /\ DOMAIN at' = Scripted /\ UNCHANGED server
             /\ \A d \in Scripted : Untouched(d) => Untouched(d)'
  <2>1. ClientCall(c, Listening, answered) /\ Listening \in BOOLEAN /\ UNCHANGED server
    BY <1>2 DEF ScriptStep, Listening
  <2> QED BY <1>1, <2>1, ScriptEffect
<1>3. ASSUME NEW c \in Client, ClientStep(c), UNCHANGED <<server, clients>>
      PROVE  /\ NetworkInv' /\ UNCHANGED <<table, killed>> /\ \A d \in Client : ClientEffect(d)
             /\ ClientsType' /\ DOMAIN at' = Scripted /\ UNCHANGED server
             /\ \A d \in Client \ {c} : sock'[d] = sock[d]
  <2>1. ClientsType' /\ DOMAIN at' = Scripted
    BY <1>1, <1>3 DEF clients, ClientsType, Calls
  <2> QED BY <1>1, <1>3, <2>1, ClientStepInv, ClientStepCases
<1>4. ASSUME NEW c \in Scripted, KernelStep(c)
      PROVE  /\ c \in Client /\ ClientStep(c) /\ UNCHANGED <<server, clients>>
             /\ ~Untouched(c)
  <2>1. ~(sock[c].unread = 0)
    BY <1>4 DEF KernelStep, PeerReset
  <2> QED BY <1>4, <2>1 DEF KernelStep, ClientStep, Untouched
<1>5. ASSUME NEW c \in Client \ Scripted, FreeStep(c)
      PROVE  ClientStep(c) /\ UNCHANGED <<server, clients>>
  BY <1>5 DEF FreeStep
<1>6. ASSUME NEW c \in Scripted, KernelStep(c)
      PROVE  \A d \in Scripted : Untouched(d) => Untouched(d)'
  BY <1>3, <1>4, <1>6 DEF Untouched
<1>7. ASSUME NEW c \in Client \ Scripted, FreeStep(c)
      PROVE  \A d \in Scripted : Untouched(d) => Untouched(d)'
  BY <1>3, <1>5, <1>7 DEF Untouched
<1>8. CASE \E c \in Scripted : ScriptStep(c)
  BY <1>2, <1>8 DEF server
<1>9. CASE \E c \in Scripted : KernelStep(c)
  <2>1. PICK c \in Scripted : KernelStep(c)
    BY <1>9
  <2> QED BY <1>3, <1>4, <1>6, <2>1 DEF server
<1>10. CASE \E c \in Client \ Scripted : FreeStep(c)
  <2>1. PICK c \in Client \ Scripted : FreeStep(c)
    BY <1>10
  <2> QED BY <1>3, <1>5, <1>7, <2>1 DEF server
<1> QED BY <1>8, <1>9, <1>10 DEF ClientsStep

LEMMA ClientsInv == IInv /\ ClientsStep => IInv'
<1> SUFFICES ASSUME IInv, ClientsStep PROVE IInv'
  OBVIOUS
<1>1. /\ NetworkInv' /\ UNCHANGED <<table, killed, program, phase, client_fd, answered>>
      /\ \A d \in Client : ClientEffect(d)
      /\ ClientsType' /\ DOMAIN at' = Scripted
      /\ \A d \in Scripted : Untouched(d) => Untouched(d)'
  BY ClientsEffect
<1>2. \A d \in Client : /\ sock'[d].sent \in Nat /\ sock'[d].inbox \in Nat
                        /\ sock'[d].unread \in Nat
  BY <1>1 DEF NetworkInv, NetworkType, Socket
<1>3. TypeOK'
  BY <1>1 DEF IInv, TypeOK, NetworkInv
<1>4. MainOK' /\ Peer' = Peer
  BY <1>1 DEF IInv, MainOK, Peer
<1>5. ASSUME NEW c \in Client, ServedOK(c) PROVE ServedOK(c)'
  <2>1. /\ ClientEffect(c) /\ sock[c].sent \in Nat /\ sock[c].inbox \in Nat
        /\ sock'[c].sent \in Nat /\ sock'[c].inbox \in Nat
    BY <1>1, <1>2, Types
  <2>2. /\ sock[c].sent = sock[c].inbox => sock'[c].sent = sock'[c].inbox
        /\ sock[c].sent > sock[c].inbox => sock'[c].sent > sock'[c].inbox
    BY <2>1 DEF ClientEffect
  <2>3. ReadToEnd(c) => ReadToEnd(c)'
    BY <2>1 DEF ClientEffect, ReadToEnd
  <2>4. sock'[c].err = "EPIPE" => sock'[c].fin \/ sock[c].err = "EPIPE"
    BY <2>1 DEF ClientEffect
  <2>5. sock[c].fin => sock'[c].fin
    BY <2>1 DEF ClientEffect
  <2> QED BY <1>1, <1>5, <2>2, <2>3, <2>4, <2>5 DEF ServedOK
<1>6. client_fd' # NoFd => ServedOK(Peer)'
  <2>1. client_fd # NoFd => Peer \in Client /\ ServedOK(Peer)
    BY Types
  <2>2. ASSUME client_fd # NoFd PROVE ServedOK(Peer)'
    <3>1. PICK c \in Client : c = Peer /\ ServedOK(c)
      BY <2>1, <2>2
    <3>2. ServedOK(c)'
      BY <1>5, <3>1
    <3>3. c = Peer'
      BY <1>4, <3>1
    <3> QED BY <3>2, <3>3 DEF ServedOK, ReadToEnd
  <2> QED BY <1>1, <2>2
<1>7. \A d \in Client : sock'[d].stage \in {"out", "queued"} => Unheard(d)'
  <2> SUFFICES ASSUME NEW d \in Client, sock'[d].stage \in {"out", "queued"} PROVE Unheard(d)'
    OBVIOUS
  <2>1. ClientEffect(d) /\ Unheard(d) /\ sock[d].sent \in Nat /\ sock[d].inbox \in Nat
    BY <1>1, Types DEF IInv, ClientEffect
  <2> QED BY <1>1, <1>2, <2>1 DEF Unheard, ClientEffect
<1>8. \A d \in Scripted : d \in answered' \/ Untouched(d)'
  BY <1>1 DEF IInv
<1>9. killed' => KilledOK'
  <2> SUFFICES ASSUME killed PROVE KilledOK'
    BY <1>1
  <2>1. KilledOK /\ client_fd # NoFd
    BY DEF IInv, MainOK, KilledOK
  <2>2. ClientEffect(Peer)
    BY <1>1, <2>1, Types
  <2>3. sock[Peer].fin => sock'[Peer].fin
    BY <2>2 DEF ClientEffect
  <2> QED BY <1>1, <1>4, <2>1, <2>3 DEF KilledOK
<1> QED BY <1>1, <1>3, <1>4, <1>6, <1>7, <1>8, <1>9 DEF IInv

LEMMA NextInv == IInv /\ [Next]_vars => IInv'
<1> SUFFICES ASSUME IInv, [Next]_vars PROVE IInv'
  OBVIOUS
<1>1. CASE ServerStep /\ UNCHANGED clients
  BY <1>1, AcceptInvariant, AcceptFailsInv, RecvInv, AnswerInv, CloseInvariant, ExitInv
     DEF ServerStep, Receives, Answers
<1>2. CASE ClientsStep
  BY <1>2, ClientsInv
<1>3. CASE UNCHANGED vars
  BY <1>3 DEF vars, server, network, clients, IInv, TypeOK, NetworkInv, NetworkType, WellConnected,
              SocketSound, ClientsType, Calls, MainOK, ServedOK, ReadToEnd, Unheard,
              Untouched, KilledOK, Peer
<1> QED BY <1>1, <1>2, <1>3 DEF Next, ClientsStep

----------------------------------------------------------------------------
(* Theorems. *)

\* The invariant holds in every reachable state.
THEOREM Invariant == Spec => []IInv
  BY InitInv, NextInv, PTL DEF Spec

\* Every variable keeps its type, and main holds the only descriptor in use: no
\* path of the four programs leaks one.
THEOREM TypeCorrect == Spec => []TypeOK
<1>1. IInv => TypeOK
  BY DEF IInv
<1> QED BY <1>1, Invariant, PTL

\* A client program never makes recv or send fail, and SIGPIPE ends a server only
\* by the abort of another client: one that has ended its side before, or whose
\* failed recv 03-half-close has overlooked.
THEOREM OnlyAbortsAreFeltAlways == Spec => []OnlyAbortsAreFelt
<1>1. IInv => OnlyAbortsAreFelt
  <2> SUFFICES ASSUME IInv PROVE OnlyAbortsAreFelt
    OBVIOUS
  <2>1. ASSUME phase \in {"recv", "send"}, Peer \in Scripted PROVE sock[Peer].err = "none"
    <3>1. ServedOK(Peer)
      BY <2>1, Types DEF IInv, MainOK
    <3>2. Peer \notin answered
      BY <2>1, <3>1 DEF ServedOK
    <3> QED BY <2>1, <3>2 DEF IInv, Untouched
  <2>2. killed => Peer \notin Scripted /\ (sock[Peer].fin \/ program = "half_close")
    BY DEF IInv, KilledOK
  <2> QED BY <2>1, <2>2 DEF OnlyAbortsAreFelt
<1> QED BY <1>1, Invariant, PTL

\* Only the programs that receive once ever reset a connection by closing it with
\* data unread, and then its client has sent more than one message.
THEOREM GracefulCloseAlways == Spec => GracefulClose
<1> DEFINE Graceful == \A c \in Client :
          sock[c].stage = "open" /\ sock'[c].stage = "closed" /\ sock[c].inbox > 0 =>
              program \in {"blocking", "tcp_basic"} /\ sock[c].sent > 1
<1>1. IInv /\ [Next]_vars => Graceful
  <2> SUFFICES ASSUME IInv, [Next]_vars, NEW c \in Client, sock[c].stage = "open",
                      sock'[c].stage = "closed", sock[c].inbox > 0
               PROVE  program \in {"blocking", "tcp_basic"} /\ sock[c].sent > 1
    OBVIOUS
  <2>1. CASE AcceptFails \/ UNCHANGED vars
    BY <2>1 DEF AcceptFails, vars, network
  <2>2. CASE MainAccept
    <3>1. PICK d \in Client : Opened(d)
      BY <2>2, AcceptInv DEF IInv, MainAccept
    <3> QED BY <3>1 DEF Opened
  <2>3. CASE Receives \/ Answers
    <3>1. PICK d \in Client : /\ sock'[d].stage = "open"
                              /\ \A e \in Client \ {d} : sock'[e] = sock[e]
      BY <2>3, RecvEffect, AnswerEffect
    <3> QED BY <3>1
  <2>4. CASE CloseClient
    <3>1. phase = "close" /\ ServedOK(c)
      BY <2>4, CloseEffect DEF Closed
    <3>2. sock[c].inbox \in Nat /\ sock[c].sent \in Nat
      BY Types
    <3> QED BY <3>1, <3>2 DEF ServedOK, ReadToEnd, ReceivesOnce
  <2>5. CASE ExitMain /\ UNCHANGED clients
    <3>1. sock[c].inbox = 0
      BY <2>5, ExitInv
    <3> QED BY <3>1
  <2>6. CASE ClientsStep
    BY <2>6, ClientsEffect DEF ClientEffect
  <2> QED BY <2>1, <2>2, <2>3, <2>4, <2>5, <2>6 DEF Next, ServerStep, Receives, Answers, ClientsStep
<1> QED BY <1>1, Invariant, PTL DEF Spec, GracefulClose
----------------------------------------------------------------------------
(* The refinement: a step of 02-blocking-server moves one connection of the   *)
(* service, or none; the other programs show the service nothing.             *)

Shown == [c \in Client |-> IF program = "blocking" THEN Progress(c) ELSE "none"]

\* Progress without CASE, before and after a step.
LEMMA ProgressIs ==
    ASSUME IInv, IInv', NEW c \in Client
    PROVE  /\ Progress(c) = IF sock[c].stage \in {"out", "queued"} THEN "none"
                            ELSE IF sock[c].stage = "closed" THEN "closed"
                            ELSE IF c \in answered THEN "replied"
                            ELSE IF sock[c].sent > sock[c].inbox THEN "heard" ELSE "open"
           /\ Progress(c)' = IF sock'[c].stage \in {"out", "queued"} THEN "none"
                             ELSE IF sock'[c].stage = "closed" THEN "closed"
                             ELSE IF c \in answered' THEN "replied"
                             ELSE IF sock'[c].sent > sock'[c].inbox THEN "heard" ELSE "open"
<1>1. /\ sock[c].stage \in {"out", "queued", "open", "closed"}
      /\ sock'[c].stage \in {"out", "queued", "open", "closed"}
  BY DEF IInv, NetworkInv, NetworkType, Socket
<1> QED BY <1>1 DEF Progress

\* A step that changes the connection of one client only.
LEMMA OneMoves ==
    ASSUME IInv, IInv', program = "blocking", UNCHANGED program, NEW c \in Client,
           \A d \in Client \ {c} : sock'[d] = sock[d],
           answered' \in {answered, answered \cup {c}},
           \/ Progress(c) = "none" /\ Progress(c)' = "open"
           \/ Progress(c) = "open" /\ Progress(c)' = "heard"
           \/ Progress(c) = "heard" /\ Progress(c)' = "replied"
           \/ Progress(c) \in {"open", "replied"} /\ Progress(c)' = "closed"
    PROVE  Service!Next
<1>1. \A d \in Client \ {c} : Progress(d)' = Progress(d)
  BY ProgressIs
<1>2. Shown' = [Shown EXCEPT ![c] = Progress(c)']
  BY <1>1 DEF Shown
<1>3. Shown[c] = Progress(c)
  BY DEF Shown
<1>4. \/ Shown[c] \in {"none"} /\ Shown' = [Shown EXCEPT ![c] = "open"]
      \/ Shown[c] \in {"open"} /\ Shown' = [Shown EXCEPT ![c] = "heard"]
      \/ Shown[c] \in {"heard"} /\ Shown' = [Shown EXCEPT ![c] = "replied"]
      \/ Shown[c] \in {"open", "replied"} /\ Shown' = [Shown EXCEPT ![c] = "closed"]
  BY <1>2, <1>3
<1> QED BY <1>4 DEF Service!Next, Service!Move, Shown

\* No connection moves while sent - inbox, answered and the stages stay.
LEMMA NoneMoves ==
    ASSUME IInv, IInv', UNCHANGED <<program, answered>>,
           \A d \in Client : sock'[d] = sock[d] \/ ClientEffect(d)
    PROVE  UNCHANGED Shown
<1> SUFFICES ASSUME NEW c \in Client PROVE Progress(c)' = Progress(c)
  BY DEF Shown
<1>1. CASE sock'[c] = sock[c]
  BY <1>1, ProgressIs
<1>2. CASE ClientEffect(c)
  <2>1. /\ sock[c].sent \in Nat /\ sock[c].inbox \in Nat
        /\ sock'[c].sent \in Nat /\ sock'[c].inbox \in Nat
    BY DEF IInv, NetworkInv, NetworkType, Socket
  <2>2. sock'[c].sent > sock'[c].inbox <=> sock[c].sent > sock[c].inbox
    BY <1>2, <2>1 DEF ClientEffect
  <2> QED BY <1>2, <2>2, ProgressIs DEF ClientEffect
<1> QED BY <1>1, <1>2

\* Every step of main of 02-blocking-server.
LEMMA MainMoves ==
    ASSUME IInv, IInv', program = "blocking", ServerStep
    PROVE  Service!Next \/ UNCHANGED Shown
<1>1. CASE MainAccept
  <2>1. PICK c \in Client : Opened(c)
    BY <1>1, AcceptInv DEF IInv, MainAccept
  <2>2. UNCHANGED <<program, answered>> /\ Unheard(c)
    BY <1>1, <2>1 DEF MainAccept, IInv, Opened
  <2>3. Progress(c) = "none" /\ Progress(c)' = "open"
    BY <2>1, <2>2, ProgressIs, Types DEF Opened, Unheard
  <2> QED BY <2>1, <2>2, <2>3, OneMoves DEF Opened
<1>2. CASE Receives
  <2>1. PICK c \in Client :
           /\ phase = "recv" /\ sock[c].stage = "open" /\ ServedOK(c)
           /\ UNCHANGED <<program, answered>>
           /\ \A d \in Client \ {c} : sock'[d] = sock[d]
           /\ sock'[c].stage = "open" /\ sock'[c].sent = sock[c].sent
           /\ sock'[c].inbox < sock[c].inbox \/ sock'[c].inbox = sock[c].inbox
    BY <1>2, RecvEffect
  <2>2. CASE sock'[c].inbox = sock[c].inbox
    <3>1. \A d \in Client : Progress(d)' = Progress(d)
      BY <2>1, <2>2, ProgressIs
    <3> QED BY <2>1, <3>1 DEF Shown
  <2>3. CASE sock'[c].inbox < sock[c].inbox
    <3>1. sock[c].sent = sock[c].inbox /\ c \notin answered
      BY <2>1 DEF ServedOK, ReceivesOnce
    <3>2. /\ sock[c].sent \in Nat /\ sock[c].inbox \in Nat /\ sock'[c].inbox \in Nat
      BY DEF IInv, NetworkInv, NetworkType, Socket
    <3>3. ~(sock[c].sent > sock[c].inbox) /\ sock'[c].sent > sock'[c].inbox
      BY <2>1, <2>3, <3>1, <3>2
    <3>4. Progress(c) = "open" /\ Progress(c)' = "heard"
      BY <2>1, <3>1, <3>3, ProgressIs
    <3> QED BY <2>1, <3>4, OneMoves
  <2> QED BY <2>1, <2>2, <2>3
<1>3. CASE Answers
  <2>1. PICK c \in Client :
           /\ phase = "send" /\ sock[c].stage = "open" /\ ServedOK(c) /\ UNCHANGED program
           /\ answered' = answered \cup {c} /\ sock'[c].stage = "open"
           /\ \A d \in Client \ {c} : sock'[d] = sock[d]
    BY <1>3, AnswerEffect
  <2>2. Progress(c) = "heard" /\ Progress(c)' = "replied"
    BY <2>1, ProgressIs DEF ServedOK
  <2> QED BY <2>1, <2>2, OneMoves
<1>4. CASE CloseClient
  <2>1. PICK c \in Client : /\ phase = "close" /\ Closed(c) /\ ServedOK(c)
                            /\ UNCHANGED <<program, answered>>
    BY <1>4, CloseEffect
  <2>2. sock'[c].stage = "closed" /\ sock[c].stage = "open"
    BY <2>1, FreshSound DEF Closed
  <2>3. c \in answered \/ sock[c].sent = sock[c].inbox
    BY <2>1 DEF ServedOK
  <2>4. Progress(c) \in {"open", "replied"} /\ Progress(c)' = "closed"
    BY <2>2, <2>3, ProgressIs, Types
  <2> QED BY <2>1, <2>4, OneMoves DEF Closed
<1>5. ~(AcceptFails \/ ExitMain)
  BY DEF AcceptFails, ExitMain, At, IInv, MainOK, OneConnection
<1> QED BY <1>1, <1>2, <1>3, <1>4, <1>5 DEF ServerStep, Receives, Answers

LEMMA Refines == IInv /\ IInv' /\ [Next]_vars => [Service!Next]_Shown
<1> SUFFICES ASSUME IInv, IInv', [Next]_vars PROVE Service!Next \/ UNCHANGED Shown
  OBVIOUS
<1>1. CASE ServerStep /\ program = "blocking"
  BY <1>1, MainMoves
<1>2. CASE ServerStep /\ program # "blocking"
  <2>1. UNCHANGED program
    BY <1>2 DEF ServerStep, MainAccept, AcceptFails, Recv, RecvOnce, RecvUntilEnd, ReadUntilEnd,
                RecvBy, Send, SendHello, SendAfterEnd, Answer, CloseClient, ExitMain
  <2> QED BY <1>2, <2>1 DEF Shown
<1>3. CASE ClientsStep
  BY <1>3, ClientsEffect, NoneMoves
<1>4. CASE UNCHANGED vars
  BY <1>4, NoneMoves DEF vars, server, network
<1> QED BY <1>1, <1>2, <1>3, <1>4 DEF Next, ClientsStep

\* 02-blocking-server keeps the promise of OneReplyService to every client: heard,
\* answered once, closed, in this order, one client after the other.
THEOREM BlockingImplementsOneReply == Spec => ImplementsOneReply
<1>1. Init => Service!Init
  <2> SUFFICES ASSUME Init, NEW c \in Client PROVE Progress(c) = "none"
    BY DEF Service!Init
  <2> QED BY FreshSound DEF Init, NetworkInit, Progress
<1>2. IInv /\ IInv' /\ [Next]_vars =>
          [Service!Next]_([c \in Client |-> IF program = "blocking" THEN Progress(c) ELSE "none"])
  BY Refines DEF Shown
<1> QED BY <1>1, <1>2, Invariant, PTL DEF Spec, ImplementsOneReply, Service!Spec
=============================================================================
