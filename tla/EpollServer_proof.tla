--------------------------- MODULE EpollServer_proof ---------------------------
(***************************************************************************)
(* Proofs about EpollServer, for any number of clients, descriptors and    *)
(* messages, and any buffer.                                               *)
(***************************************************************************)
EXTENDS EpollServer, Sockets_proof

\* The places of main: an event is at work only in its own turn, and is not in
\* the list any more then.
PlaceOK ==
    /\ phase \in {"wait", "next", "exit"} => active_fd = NoFd
    /\ phase \in {"wait", "exit"} => events = {}
    /\ phase = "accept" => active_fd = Listener
    /\ phase \in {"recv", "send"} => active_fd \in interest \ events

IInv ==
    /\ TypeOK /\ NetworkInv
    /\ AllRegistered
    /\ PlaceOK

\* What has been received from c and not sent back yet.
InHand(c) == IF phase = "send" /\ Peer = c THEN n ELSE 0

\* No more goes back than was received, so that a client has no more to read than
\* that, and no less while its buffer has room for all it has sent.
EchoOK(c) ==
    /\ sock[c].stage \in {"out", "queued"} => echoed[c] = 0 /\ sock[c].sent = sock[c].inbox
    /\ sock[c].stage = "open" =>
          /\ sock[c].unread <= echoed[c]
          /\ echoed[c] + InHand(c) <= sock[c].sent - sock[c].inbox
          /\ sock[c].err = "none" /\ sock[c].sent <= SendBuffer =>
                echoed[c] + InHand(c) = sock[c].sent - sock[c].inbox

EchoInv == \A c \in Client : EchoOK(c)

USE BoundsAssumption DEF Fd, NoFd, Listener
----------------------------------------------------------------------------
\* What the invariant says of the types of the variables.
LEMMA Types ==
    ASSUME IInv
    PROVE  /\ interest = DOMAIN table /\ interest \subseteq Fd
           /\ events \subseteq interest \cup {Listener}
           /\ phase \in {"wait", "next", "accept", "recv", "send", "exit"}
           /\ active_fd \in interest \cup {Listener, NoFd}
           /\ n \in 0 .. MaxSends /\ echoed \in [Client -> Nat]
           /\ \A f \in interest : table[f] \in Client /\ sock[table[f]].stage = "open"
<1>1. /\ DOMAIN table \subseteq Fd
      /\ \A f \in DOMAIN table : table[f] \in Client /\ sock[table[f]].stage = "open"
  BY NetworkFields DEF IInv, NetworkInv, WellConnected
<1> QED BY <1>1 DEF IInv, TypeOK, AllRegistered

\* The counters of a socket.
LEMMA Counters ==
    ASSUME NetworkInv, NEW c \in Client
    PROVE  /\ sock[c].stage \in {"out", "queued", "open", "closed"}
           /\ sock[c].err \in {"none", "ECONNRESET", "EPIPE"}
           /\ sock[c].sent \in 0 .. MaxSends /\ sock[c].inbox \in 0 .. MaxSends
           /\ sock[c].unread \in 0 .. SendBuffer
  BY DEF NetworkInv, NetworkType, Socket

LEMMA InitInv == Init => IInv /\ EchoInv
<1> SUFFICES ASSUME Init PROVE IInv /\ EchoInv
  OBVIOUS
<1>1. NetworkInv /\ DOMAIN table = {} /\ interest = {} /\ events = {} /\ phase = "wait"
  BY NetworkInitInv DEF Init, NetworkInit
<1>2. TypeOK
  BY <1>1 DEF Init, NetworkInv, TypeOK
<1>3. \A c \in Client : EchoOK(c)
  BY FreshSound DEF Init, NetworkInit, Fresh, EchoOK
<1> QED BY <1>1, <1>2, <1>3 DEF Init, IInv, AllRegistered, PlaceOK, EchoInv

\* Steps that make no system call on a connection.
LEMMA UnchangedNetwork ==
    ASSUME NetworkInv, UNCHANGED network
    PROVE  NetworkInv' /\ UNCHANGED <<table, sock>>
  BY DEF NetworkInv, NetworkType, WellConnected, network, SocketSound

----------------------------------------------------------------------------
(* The steps of main. *)

LEMMA WaitInv == IInv /\ EpollWait => IInv'
<1> SUFFICES ASSUME IInv, EpollWait PROVE IInv'
  OBVIOUS
<1>1. /\ phase = "wait" /\ events' = Ready /\ phase' = "next" /\ UNCHANGED network
      /\ UNCHANGED <<interest, active_fd, n, echoed>>
  BY DEF EpollWait
<1>2. NetworkInv' /\ UNCHANGED table
  BY <1>1, UnchangedNetwork DEF IInv
<1>3. Ready \subseteq interest \cup {Listener}
  BY DEF Ready
<1>4. TypeOK'
  BY <1>1, <1>2, <1>3, Types DEF TypeOK, NetworkInv
<1> QED BY <1>1, <1>2, <1>4 DEF IInv, AllRegistered, PlaceOK

LEMMA WaitFailsInv == IInv /\ EpollWaitFails => IInv'
<1> SUFFICES ASSUME IInv, EpollWaitFails PROVE IInv'
  OBVIOUS
<1>1. /\ phase = "wait" /\ Close(interest) /\ interest' = {} /\ phase' = "exit"
      /\ UNCHANGED <<events, active_fd, n, echoed>> /\ events = {} /\ active_fd = NoFd
  BY DEF EpollWaitFails, IInv, PlaceOK
<1>2. NetworkInv' /\ DOMAIN table' = DOMAIN table \ interest
  BY <1>1, CloseInv DEF IInv
<1>3. AllRegistered'
  BY <1>1, <1>2, Types DEF AllRegistered
<1>4. TypeOK'
  BY <1>1, <1>2, Types DEF TypeOK, NetworkInv
<1> QED BY <1>1, <1>2, <1>3, <1>4 DEF IInv, PlaceOK

LEMMA NextEventInv == IInv /\ NextEvent => IInv'
<1> SUFFICES ASSUME IInv, NextEvent PROVE IInv'
  OBVIOUS
<1>1. phase = "next" /\ UNCHANGED network /\ UNCHANGED <<interest, n, echoed>> /\ active_fd = NoFd
  BY DEF NextEvent, IInv, PlaceOK
<1>2. NetworkInv' /\ UNCHANGED table
  BY <1>1, UnchangedNetwork DEF IInv
<1>3. \/ /\ active_fd' \in events /\ events' = events \ {active_fd'}
         /\ phase' = IF active_fd' = Listener THEN "accept" ELSE "recv"
      \/ events' = {} /\ phase' = "wait" /\ active_fd' = NoFd
  BY <1>1 DEF NextEvent
<1>4. TypeOK'
  BY <1>1, <1>2, <1>3, Types DEF TypeOK, NetworkInv
<1>5. PlaceOK'
  BY <1>1, <1>3, Types DEF PlaceOK
<1> QED BY <1>1, <1>2, <1>4, <1>5 DEF IInv, AllRegistered

LEMMA AcceptOneInv == IInv /\ AcceptOne => IInv'
<1> SUFFICES ASSUME IInv, AcceptOne PROVE IInv'
  OBVIOUS
<1>1. /\ phase = "accept" /\ UNCHANGED <<events, phase, active_fd, n, echoed>>
      /\ active_fd = Listener
  BY DEF AcceptOne, IInv, PlaceOK
<1>2. ASSUME NEW f \in Fd, Accept(f), interest' = interest \cup {f}
      PROVE  IInv'
  <2>1. NetworkInv' /\ DOMAIN table' = DOMAIN table \cup {f}
    BY <1>2, AcceptInv DEF IInv
  <2>2. TypeOK' /\ AllRegistered'
    BY <1>1, <1>2, <2>1, Types DEF TypeOK, NetworkInv, AllRegistered
  <2> QED BY <1>1, <2>1, <2>2 DEF IInv, PlaceOK
<1>3. CASE AcceptAndClose /\ UNCHANGED interest
  <2>1. NetworkInv' /\ UNCHANGED table
    BY <1>3, AcceptAndCloseInv DEF IInv
  <2>2. TypeOK' /\ AllRegistered'
    BY <1>1, <1>3, <2>1, Types DEF TypeOK, NetworkInv, AllRegistered
  <2> QED BY <1>1, <2>1, <2>2 DEF IInv, PlaceOK
<1> QED BY <1>2, <1>3 DEF AcceptOne

\* An accept or recv that finds nothing more ends the event.
LEMMA EndsInv == IInv /\ (AcceptEnds \/ RecvAgain) => IInv'
<1> SUFFICES ASSUME IInv, AcceptEnds \/ RecvAgain PROVE IInv'
  OBVIOUS
<1>1. /\ UNCHANGED network /\ UNCHANGED <<interest, events, echoed>>
      /\ phase' = "next" /\ active_fd' = NoFd /\ n' = 0
  BY DEF AcceptEnds, RecvAgain, EventDone
<1>2. NetworkInv' /\ UNCHANGED table
  BY <1>1, UnchangedNetwork DEF IInv
<1>3. TypeOK'
  BY <1>1, <1>2, Types DEF TypeOK, NetworkInv
<1> QED BY <1>1, <1>2, <1>3 DEF IInv, AllRegistered, PlaceOK

\* What a recv that returns data does.
LEMMA RecvMoreEffect ==
    ASSUME IInv, RecvMore
    PROVE  \E c \in Client :
             /\ phase = "recv" /\ phase' = "send" /\ c = Peer /\ sock[c].stage = "open"
             /\ NetworkInv' /\ UNCHANGED <<table, interest, events, active_fd, echoed>>
             /\ n' \in 1 .. MaxSends /\ sock'[c].inbox = sock[c].inbox - n'
             /\ sock'[c].stage = sock[c].stage /\ sock'[c].sent = sock[c].sent
             /\ sock'[c].unread = sock[c].unread /\ sock'[c].err = sock[c].err
             /\ sock'[c].fin = sock[c].fin
             /\ \A d \in Client \ {c} : sock'[d] = sock[d]
<1>1. /\ phase = "recv" /\ phase' = "send" /\ UNCHANGED <<interest, events, active_fd, echoed>>
      /\ active_fd \in interest
  BY DEF RecvMore, IInv, PlaceOK
<1>2. PICK c \in Client : c = Peer /\ sock[c].stage = "open"
  BY <1>1, Types DEF Peer
<1>3. PICK k \in 1 .. MaxSends : RecvData(c, k) /\ n' = k
  BY <1>2 DEF RecvMore
<1>4. NetworkInv /\ k \in Int
  BY DEF IInv
<1>5. /\ NetworkInv' /\ UNCHANGED table /\ sock'[c].inbox = sock[c].inbox - k
      /\ sock'[c].stage = sock[c].stage /\ sock'[c].sent = sock[c].sent
      /\ sock'[c].unread = sock[c].unread /\ sock'[c].err = sock[c].err
      /\ sock'[c].fin = sock[c].fin
      /\ \A d \in Client \ {c} : sock'[d] = sock[d]
  BY <1>2, <1>3, <1>4, RecvDataInv
<1> QED BY <1>1, <1>2, <1>3, <1>5

LEMMA RecvMoreInv == IInv /\ RecvMore => IInv'
<1> SUFFICES ASSUME IInv, RecvMore PROVE IInv'
  OBVIOUS
<1>1. /\ phase = "recv" /\ phase' = "send" /\ NetworkInv'
      /\ UNCHANGED <<table, interest, events, active_fd, echoed>> /\ n' \in 1 .. MaxSends
  BY RecvMoreEffect
<1>2. TypeOK'
  BY <1>1, Types DEF TypeOK, NetworkInv
<1> QED BY <1>1, <1>2 DEF IInv, AllRegistered, PlaceOK

\* What the end of a connection does.
LEMMA RecvEndEffect ==
    ASSUME IInv, RecvEnd
    PROVE  \E c \in Client :
             /\ phase = "recv" /\ phase' = "next" /\ c = Peer /\ Closed(c)
             /\ RecvOutcome(c) \in {"eof", "error"}
             /\ NetworkInv' /\ DOMAIN table' = interest'
             /\ interest' = interest \ {active_fd} /\ active_fd \notin events
             /\ UNCHANGED <<events, echoed>> /\ active_fd' = NoFd /\ n' = 0
<1>1. /\ phase = "recv" /\ phase' = "next" /\ active_fd \in interest \ events
      /\ RecvOutcome(Peer) \in {"eof", "error"} /\ interest' = interest \ {active_fd}
      /\ Close({active_fd}) /\ UNCHANGED <<events, echoed>> /\ active_fd' = NoFd /\ n' = 0
  BY DEF RecvEnd, EventDone, IInv, PlaceOK
<1>2. NetworkInv /\ active_fd \in DOMAIN table
  BY <1>1, Types DEF IInv
<1>3. PICK c \in Client : c = table[active_fd] /\ Closed(c)
  BY <1>1, <1>2, CloseOneInv
<1>4. NetworkInv' /\ DOMAIN table' = DOMAIN table \ {active_fd}
  BY <1>1, <1>2, CloseOneInv
<1> QED BY <1>1, <1>3, <1>4, Types DEF Peer

LEMMA RecvEndInv == IInv /\ RecvEnd => IInv'
<1> SUFFICES ASSUME IInv, RecvEnd PROVE IInv'
  OBVIOUS
<1>1. /\ phase' = "next" /\ NetworkInv' /\ DOMAIN table' = interest'
      /\ interest' = interest \ {active_fd} /\ active_fd \notin events
      /\ UNCHANGED <<events, echoed>> /\ active_fd' = NoFd /\ n' = 0
  BY RecvEndEffect
<1>2. events' \subseteq interest' \cup {Listener}
  BY <1>1, Types
<1>3. TypeOK' /\ AllRegistered'
  BY <1>1, <1>2, Types DEF TypeOK, NetworkInv, AllRegistered
<1> QED BY <1>1, <1>3 DEF IInv, PlaceOK

\* What the echo of a message does.
LEMMA EchoEffect ==
    ASSUME IInv, Echo
    PROVE  \E c \in Client :
             /\ phase = "send" /\ c = Peer /\ sock[c].stage = "open" /\ phase' = "recv"
             /\ NetworkInv' /\ UNCHANGED <<table, interest, events, active_fd>> /\ n' = 0
             /\ Sendable(c, n) \in Nat
             /\ sock'[c].unread = IF sock[c].err = "none" THEN sock[c].unread + Sendable(c, n)
                                  ELSE sock[c].unread
             /\ sock'[c].err = IF sock[c].err = "none" THEN "none" ELSE "EPIPE"
             /\ sock'[c].stage = sock[c].stage /\ sock'[c].sent = sock[c].sent
             /\ sock'[c].inbox = sock[c].inbox /\ sock'[c].fin = sock[c].fin
             /\ \A d \in Client \ {c} : sock'[d] = sock[d]
             /\ echoed' = [echoed EXCEPT ![c] = IF sock[c].err = "none"
                                                THEN @ + Sendable(c, n) ELSE @]
<1>1. /\ phase = "send" /\ active_fd \in interest /\ phase' = "recv" /\ n' = 0
      /\ UNCHANGED <<interest, events, active_fd>>
  BY DEF Echo, IInv, PlaceOK
<1>2. PICK c \in Client : c = Peer /\ sock[c].stage = "open"
  BY <1>1, Types DEF Peer
<1>3. SendUnits(c, n) /\ NetworkInv /\ n \in Nat
  BY <1>1, <1>2, Types DEF Echo, IInv
<1>4. /\ NetworkInv' /\ UNCHANGED table /\ Sendable(c, n) \in Nat
      /\ sock'[c].unread = IF sock[c].err = "none" THEN sock[c].unread + Sendable(c, n)
                           ELSE sock[c].unread
      /\ sock'[c].err = IF sock[c].err = "none" THEN "none" ELSE "EPIPE"
      /\ sock'[c].stage = sock[c].stage /\ sock'[c].sent = sock[c].sent
      /\ sock'[c].inbox = sock[c].inbox /\ sock'[c].fin = sock[c].fin
      /\ \A d \in Client \ {c} : sock'[d] = sock[d]
  BY <1>2, <1>3, SendUnitsInv
<1>5. echoed' = [echoed EXCEPT ![c] = IF sock[c].err = "none"
                                      THEN @ + Sendable(c, n) ELSE @]
  BY <1>2 DEF Echo
<1> QED BY <1>1, <1>2, <1>4, <1>5

LEMMA EchoStepInv == IInv /\ Echo => IInv'
<1> SUFFICES ASSUME IInv, Echo PROVE IInv'
  OBVIOUS
<1>1. PICK c \in Client :
         /\ phase = "send" /\ phase' = "recv"
         /\ NetworkInv' /\ UNCHANGED <<table, interest, events, active_fd>> /\ n' = 0
         /\ Sendable(c, n) \in Nat
         /\ echoed' = [echoed EXCEPT ![c] = IF sock[c].err = "none"
                                            THEN @ + Sendable(c, n) ELSE @]
  BY EchoEffect
<1>2. echoed' \in [Client -> Nat]
  BY <1>1, Types
<1>3. TypeOK'
  BY <1>1, <1>2, Types DEF TypeOK, NetworkInv
<1> QED BY <1>1, <1>3 DEF IInv, AllRegistered, PlaceOK

LEMMA ClientInv == ASSUME IInv, NEW c \in Client, ClientStep(c), UNCHANGED server PROVE IInv'
<1>1. NetworkInv' /\ UNCHANGED table
  BY ClientStepInv DEF IInv
<1>2. TypeOK'
  BY <1>1 DEF IInv, TypeOK, NetworkInv, server
<1> QED BY <1>1, <1>2 DEF IInv, AllRegistered, PlaceOK, server

LEMMA NextInv == IInv /\ [Next]_vars => IInv'
<1> SUFFICES ASSUME IInv, [Next]_vars PROVE IInv'
  OBVIOUS
<1>1. CASE ServerStep
  BY <1>1, WaitInv, NextEventInv, AcceptOneInv, EndsInv, RecvMoreInv, RecvEndInv, EchoStepInv
     DEF ServerStep
<1>2. CASE EpollWaitFails
  BY <1>2, WaitFailsInv
<1>3. ASSUME NEW c \in Client, ClientStep(c), UNCHANGED server PROVE IInv'
  BY <1>3, ClientInv
<1>4. CASE UNCHANGED vars
  BY <1>4 DEF vars, server, network, IInv, TypeOK, NetworkInv, NetworkType, WellConnected,
              SocketSound, AllRegistered, PlaceOK
<1> QED BY <1>1, <1>2, <1>3, <1>4 DEF Next

----------------------------------------------------------------------------
(* What is echoed. *)

\* A step that is not recv or send and leaves c's connection alone.
LEMMA QuietOK ==
    ASSUME EchoInv, NEW c \in Client, sock'[c] = sock[c], echoed'[c] = echoed[c],
           InHand(c)' = InHand(c)
    PROVE  EchoOK(c)'
  BY DEF EchoInv, EchoOK

\* Only while it is sent back is anything in hand.
LEMMA InHandIs ==
    ASSUME NEW c \in Client
    PROVE  /\ phase # "send" => InHand(c) = 0
           /\ phase' # "send" => InHand(c)' = 0
           /\ Peer # c => InHand(c) = 0
           /\ Peer' # c => InHand(c)' = 0
  BY DEF InHand

LEMMA LocalEcho ==
    ASSUME IInv, EchoInv, EpollWait \/ NextEvent \/ AcceptEnds \/ RecvAgain, NEW c \in Client
    PROVE  EchoOK(c)'
<1>1. UNCHANGED <<sock, echoed>> /\ phase # "send" /\ phase' # "send"
  BY DEF EpollWait, NextEvent, AcceptEnds, RecvAgain, EventDone, network
<1> QED BY <1>1, QuietOK, InHandIs

LEMMA WaitFailsEcho == ASSUME IInv, EchoInv, EpollWaitFails, NEW c \in Client PROVE EchoOK(c)'
<1>1. UNCHANGED echoed /\ phase = "wait" /\ phase' = "exit" /\ Close(interest)
  BY DEF EpollWaitFails
<1>2. sock'[c] = sock[c] \/ sock'[c].stage = "closed"
  BY <1>1, FreshSound DEF Close
<1>3. CASE sock'[c] = sock[c]
  BY <1>1, <1>3, QuietOK, InHandIs
<1>4. CASE sock'[c].stage = "closed"
  BY <1>4 DEF EchoOK
<1> QED BY <1>2, <1>3, <1>4

LEMMA AcceptEcho == ASSUME IInv, EchoInv, AcceptOne, NEW c \in Client PROVE EchoOK(c)'
<1>1. /\ phase = "accept" /\ UNCHANGED echoed /\ UNCHANGED phase
      /\ (\E new \in Fd : Accept(new)) \/ AcceptAndClose
  BY DEF AcceptOne
<1>2. phase' # "send" /\ InHand(c) = 0 /\ InHand(c)' = 0
  BY <1>1, InHandIs
<1>3. PICK d \in Client : Opened(d) \/ Refused(d)
  BY <1>1, AcceptInv, AcceptAndCloseInv DEF IInv
<1>4. CASE c # d
  BY <1>1, <1>2, <1>3, <1>4, QuietOK DEF Opened, Refused
<1>5. CASE c = d /\ Opened(c)
  <2>1. echoed[c] = 0 /\ sock[c].sent = sock[c].inbox
    BY <1>5 DEF EchoInv, EchoOK, Opened
  <2>2. sock[c].sent \in Nat
    BY Counters DEF IInv
  <2> QED BY <1>1, <1>2, <1>5, <2>1, <2>2 DEF EchoOK, Opened
<1>6. CASE c = d /\ Refused(c)
  BY <1>6, FreshSound DEF EchoOK, Refused
<1> QED BY <1>3, <1>4, <1>5, <1>6

LEMMA RecvMoreEcho == ASSUME IInv, EchoInv, RecvMore, NEW c \in Client PROVE EchoOK(c)'
<1>1. PICK d \in Client :
         /\ phase = "recv" /\ phase' = "send" /\ d = Peer /\ sock[d].stage = "open"
         /\ UNCHANGED <<table, active_fd, echoed>>
         /\ n' \in 1 .. MaxSends /\ sock'[d].inbox = sock[d].inbox - n'
         /\ sock'[d].stage = sock[d].stage /\ sock'[d].sent = sock[d].sent
         /\ sock'[d].unread = sock[d].unread /\ sock'[d].err = sock[d].err
         /\ \A e \in Client \ {d} : sock'[e] = sock[e]
  BY RecvMoreEffect
<1>2. Peer' = d /\ InHand(c) = 0
  BY <1>1, InHandIs DEF Peer
<1>3. CASE c = d
  <2>1. InHand(c)' = n'
    BY <1>1, <1>2, <1>3 DEF InHand
  <2>2. echoed[c] \in Nat /\ sock[c].sent \in Nat /\ sock[c].inbox \in Nat
    BY Types, Counters DEF IInv
  <2> QED BY <1>1, <1>2, <1>3, <2>1, <2>2 DEF EchoInv, EchoOK
<1>4. CASE c # d
  BY <1>1, <1>2, <1>4, QuietOK, InHandIs
<1> QED BY <1>3, <1>4

LEMMA RecvEndEcho == ASSUME IInv, EchoInv, RecvEnd, NEW c \in Client PROVE EchoOK(c)'
<1>1. PICK d \in Client : phase = "recv" /\ phase' = "next" /\ Closed(d) /\ UNCHANGED echoed
  BY RecvEndEffect
<1>2. CASE c = d
  BY <1>1, <1>2, FreshSound DEF Closed, EchoOK
<1>3. CASE c # d
  BY <1>1, <1>3, QuietOK, InHandIs DEF Closed
<1> QED BY <1>2, <1>3

\* send takes everything there is in hand if the buffer has room for all the client
\* has sent, since it cannot have been sent more than that.
LEMMA SendEcho ==
    ASSUME IInv, EchoInv, Echo, NEW c \in Client
    PROVE  EchoOK(c)'
<1>1. PICK d \in Client :
         /\ phase = "send" /\ d = Peer /\ sock[d].stage = "open" /\ phase' = "recv"
         /\ Sendable(d, n) \in Nat
         /\ sock'[d].unread = IF sock[d].err = "none" THEN sock[d].unread + Sendable(d, n)
                              ELSE sock[d].unread
         /\ sock'[d].err = IF sock[d].err = "none" THEN "none" ELSE "EPIPE"
         /\ sock'[d].stage = sock[d].stage /\ sock'[d].sent = sock[d].sent
         /\ sock'[d].inbox = sock[d].inbox
         /\ \A e \in Client \ {d} : sock'[e] = sock[e]
         /\ echoed' = [echoed EXCEPT ![d] = IF sock[d].err = "none"
                                            THEN @ + Sendable(d, n) ELSE @]
  BY EchoEffect
<1>2. phase' # "send" /\ InHand(c)' = 0
  BY <1>1, InHandIs
<1>3. CASE c # d
  BY <1>1, <1>2, <1>3, QuietOK, InHandIs, Types
<1>4. CASE c = d
  <2>1. /\ echoed[c] \in Nat /\ n \in Nat /\ sock[c].sent \in 0 .. MaxSends
        /\ sock[c].inbox \in Nat /\ sock[c].unread \in Nat
    BY Types, Counters DEF IInv
  <2>2. InHand(c) = n
    BY <1>1, <1>4 DEF InHand
  <2>3. /\ sock[c].unread <= echoed[c] /\ echoed[c] + n <= sock[c].sent - sock[c].inbox
        /\ sock[c].err = "none" /\ sock[c].sent <= SendBuffer =>
              echoed[c] + n = sock[c].sent - sock[c].inbox
    BY <1>1, <1>4, <2>2 DEF EchoInv, EchoOK
  <2>4. /\ Sendable(c, n) <= n
        /\ sock[c].err = "none" /\ sock[c].sent <= SendBuffer => Sendable(c, n) = n
    BY <1>1, <1>4, <2>1, <2>3 DEF Sendable
  <2>5. echoed'[c] = IF sock[c].err = "none" THEN echoed[c] + Sendable(c, n) ELSE echoed[c]
    BY <1>1, <1>4, Types
  <2> QED BY <1>1, <1>2, <1>4, <2>1, <2>3, <2>4, <2>5 DEF EchoOK
<1> QED BY <1>3, <1>4

LEMMA ClientEcho ==
    ASSUME IInv, IInv', EchoInv, NEW d \in Client, ClientStep(d), UNCHANGED server, NEW c \in Client
    PROVE  EchoOK(c)'
<1>1. UNCHANGED table /\ ClientEffect(c)
  BY ClientStepInv DEF IInv
<1>2. UNCHANGED <<phase, active_fd, n, echoed>>
  BY DEF server
<1>3. InHand(c)' = InHand(c)
  BY <1>1, <1>2 DEF InHand, Peer
<1>4. /\ echoed[c] \in Nat /\ sock[c].sent \in Nat /\ sock[c].inbox \in Nat /\ sock[c].unread \in Nat
      /\ sock'[c].sent \in Nat /\ sock'[c].inbox \in Nat /\ sock'[c].unread \in Nat
  <2>1. echoed[c] \in Nat
    BY Types
  <2>2. sock[c].sent \in Nat /\ sock[c].inbox \in Nat /\ sock[c].unread \in Nat
    BY Counters DEF IInv
  <2>3. sock'[c] \in Socket
    BY DEF IInv, NetworkInv, NetworkType
  <2> QED BY <2>1, <2>2, <2>3 DEF Socket
<1>5. CASE sock'[c].stage \in {"out", "queued"}
  BY <1>1, <1>2, <1>4, <1>5 DEF EchoInv, EchoOK, ClientEffect
<1>6. CASE sock'[c].stage = "open"
  BY <1>1, <1>2, <1>3, <1>4, <1>6 DEF EchoInv, EchoOK, ClientEffect
<1>7. CASE sock'[c].stage = "closed"
  BY <1>7 DEF EchoOK
<1>8. sock'[c].stage \in {"out", "queued", "open", "closed"}
  BY DEF IInv, NetworkInv, NetworkType, Socket
<1> QED BY <1>5, <1>6, <1>7, <1>8

LEMMA EchoNext == IInv /\ IInv' /\ EchoInv /\ [Next]_vars => EchoInv'
<1> SUFFICES ASSUME IInv, IInv', EchoInv, [Next]_vars, NEW c \in Client
             PROVE  EchoOK(c)'
  BY DEF EchoInv
<1>1. CASE ServerStep
  BY <1>1, LocalEcho, AcceptEcho, RecvMoreEcho, RecvEndEcho, SendEcho DEF ServerStep
<1>2. CASE EpollWaitFails
  BY <1>2, WaitFailsEcho
<1>3. ASSUME NEW d \in Client, ClientStep(d), UNCHANGED server PROVE EchoOK(c)'
  BY <1>3, ClientEcho
<1>4. CASE UNCHANGED vars
  BY <1>4 DEF vars, server, network, EchoInv, EchoOK, InHand, Peer
<1> QED BY <1>1, <1>2, <1>3, <1>4 DEF Next

----------------------------------------------------------------------------
(* Theorems. *)

\* The invariant holds in every reachable state.
THEOREM Invariant == Spec => []IInv
<1>1. Init => IInv
  BY InitInv
<1> QED BY <1>1, NextInv, PTL DEF Spec

\* No event and no registration outlives its descriptor: the loop never uses a
\* number that has been closed.
THEOREM TypeCorrect == Spec => []TypeOK
<1>1. IInv => TypeOK
  BY DEF IInv
<1> QED BY <1>1, Invariant, PTL

\* Every open connection is registered, at every place of the loop.
THEOREM AllRegisteredAlways == Spec => []AllRegistered
<1>1. IInv => AllRegistered
  BY DEF IInv
<1> QED BY <1>1, Invariant, PTL

\* What is received and what goes back agree in every reachable state.
LEMMA EchoAlways == Spec => []EchoInv
<1>1. IInv /\ IInv' /\ EchoInv /\ [Next]_vars => EchoInv'
  BY EchoNext
<1>2. Init => EchoInv
  BY InitInv
<1> QED BY <1>1, <1>2, Invariant, PTL DEF Spec

\* Whenever the server waits, it has sent back everything it has received, unless
\* the client has sent more than its connection holds.
THEOREM EchoedAllAlways == Spec => []EchoedAll
<1>1. IInv /\ EchoInv => EchoedAll
  <2> SUFFICES ASSUME IInv, EchoInv, phase = "wait", NEW c \in Client, sock[c].stage = "open",
                      sock[c].err = "none", sock[c].sent <= SendBuffer
               PROVE  echoed[c] = sock[c].sent - sock[c].inbox
    BY DEF EchoedAll
  <2>1. InHand(c) = 0 /\ echoed[c] \in Nat
    BY InHandIs, Types
  <2> QED BY <2>1 DEF EchoInv, EchoOK
<1> QED BY <1>1, EchoAlways, Invariant, PTL

\* When recv finds the end of a connection, nothing of it is left to send back.
LEMMA EndIsDue ==
    ASSUME IInv, EchoInv, NEW c \in Client, phase = "recv", sock[c].stage = "open",
           RecvOutcome(c) \in {"eof", "error"}
    PROVE  \/ sock[c].fin /\ sock[c].inbox = 0
              /\ (sock[c].err = "none" /\ sock[c].sent <= SendBuffer => echoed[c] = sock[c].sent)
           \/ sock[c].err # "none"
<1>1. sock[c].inbox \in Nat /\ echoed[c] \in Nat /\ sock[c].sent \in Nat /\ InHand(c) = 0
  BY Types, Counters, InHandIs DEF IInv
<1>2. (sock[c].fin /\ sock[c].inbox = 0) \/ sock[c].err # "none"
  BY <1>1 DEF RecvOutcome, AtEnd
<1>3. sock[c].err = "none" /\ sock[c].sent <= SendBuffer /\ sock[c].inbox = 0 =>
         echoed[c] = sock[c].sent
  BY <1>1 DEF EchoInv, EchoOK
<1> QED BY <1>2, <1>3

\* Whose open connection a step closes.
LEMMA CloseIsDue ==
    ASSUME IInv, EchoInv, [Next]_vars, NEW c \in Client,
           sock[c].stage = "open", sock'[c].stage = "closed"
    PROVE  \/ sock[c].fin /\ sock[c].inbox = 0
              /\ (sock[c].sent <= SendBuffer => echoed[c] = sock[c].sent)
           \/ sock[c].err # "none" \/ phase' = "exit"
<1>1. CASE EpollWait \/ NextEvent \/ AcceptEnds \/ RecvAgain \/ UNCHANGED vars
  BY <1>1 DEF EpollWait, NextEvent, AcceptEnds, RecvAgain, vars, network
<1>2. CASE EpollWaitFails
  BY <1>2 DEF EpollWaitFails
<1>3. CASE AcceptOne
  <2>1. PICK d \in Client : Opened(d) \/ Refused(d)
    BY <1>3, AcceptInv, AcceptAndCloseInv DEF IInv, AcceptOne
  <2> QED BY <2>1 DEF Opened, Refused
<1>4. CASE RecvMore \/ Echo
  <2>1. PICK d \in Client : /\ sock'[d].stage = sock[d].stage
                            /\ \A e \in Client \ {d} : sock'[e] = sock[e]
    BY <1>4, RecvMoreEffect, EchoEffect
  <2> QED BY <2>1
<1>5. CASE RecvEnd
  <2>1. PICK d \in Client : phase = "recv" /\ Closed(d) /\ RecvOutcome(d) \in {"eof", "error"}
    BY <1>5, RecvEndEffect
  <2>2. c = d
    BY <2>1 DEF Closed
  <2> QED BY <2>1, <2>2, EndIsDue
<1>6. ASSUME NEW d \in Client, ClientStep(d) PROVE FALSE
  BY <1>6, ClientStepInv DEF IInv, ClientEffect
<1> QED BY <1>1, <1>2, <1>3, <1>4, <1>5, <1>6 DEF Next, ServerStep

\* A connection is closed only when its client has ended it and all it had sent was
\* received and, if its buffer has room for it, sent back; or when it is reset.
THEOREM ClosedAfterEchoAlways == Spec => ClosedAfterEcho
<1> DEFINE Due == \A c \in Client :
               sock[c].stage = "open" /\ sock'[c].stage = "closed" =>
                   \/ sock[c].fin /\ sock[c].inbox = 0
                      /\ (sock[c].sent <= SendBuffer => echoed[c] = sock[c].sent)
                   \/ sock[c].err # "none" \/ phase' = "exit"
<1>1. IInv /\ EchoInv /\ [Next]_vars => Due
  BY CloseIsDue
<1> QED BY <1>1, EchoAlways, Invariant, PTL DEF Spec, ClosedAfterEcho

----------------------------------------------------------------------------
(* The promise of EchoService. *)

Conns == [c \in Client |-> Conn(c)]

\* What is sent back and received of a connection, as EchoService counts it.
LEMMA ConnIs ==
    ASSUME IInv, EchoInv, NEW c \in Client
    PROVE  /\ Conn(c).stage = "open" <=> sock[c].stage = "open"
           /\ Conn(c).stage = "closed" <=> sock[c].stage = "closed"
           /\ Conn(c).stage = "new" <=> sock[c].stage \in {"out", "queued"}
           /\ Conn(c).sent = sock[c].sent /\ Conn(c).heard = sock[c].sent - sock[c].inbox
           /\ sock[c].stage # "closed" => Conn(c).returned = echoed[c]
           /\ Conn(c).end = "reset" <=> sock[c].err # "none"
           /\ Conn(c).end = "ended" <=> sock[c].err = "none" /\ sock[c].fin
           /\ Conn(c).end = "none" <=> sock[c].err = "none" /\ ~sock[c].fin
  BY Counters DEF IInv, Conn

\* One connection of the service becomes x.
LEMMA OneBecomes ==
    ASSUME NEW c \in Client, NEW x, Conn(c)' = x,
           \A d \in Client \ {c} : sock'[d] = sock[d] /\ echoed'[d] = echoed[d]
    PROVE  Conns' = [Conns EXCEPT ![c] = x] /\ Conns[c] = Conn(c)
<1>1. \A d \in Client \ {c} : Conn(d)' = Conn(d)
  BY DEF Conn
<1> QED BY <1>1 DEF Conns

\* A connection that is closed keeps nothing.
LEMMA ClosedConn ==
    ASSUME NEW c \in Client, sock'[c] = Fresh("closed")
    PROVE  Conn(c)' = Service!Over
<1>1. /\ sock'[c].stage = "closed" /\ sock'[c].sent = 0 /\ sock'[c].inbox = 0
      /\ ~sock'[c].fin /\ sock'[c].err = "none"
  BY DEF Fresh
<1> QED BY <1>1 DEF Conn, Service!Over, Service!Unused

LEMMA AcceptMoves ==
    ASSUME IInv, EchoInv, AcceptOne
    PROVE  Service!Next
<1>1. phase = "accept" /\ UNCHANGED <<phase, echoed>>
  BY DEF AcceptOne
<1>2. PICK c \in Client : Opened(c) \/ Refused(c)
  BY AcceptInv, AcceptAndCloseInv DEF IInv, AcceptOne
<1>3. Conn(c).stage = "new" /\ \A d \in Client \ {c} : sock'[d] = sock[d]
  BY <1>2, ConnIs DEF Opened, Refused
<1>4. CASE Opened(c)
  <2>1. Conn(c)' = [Conn(c) EXCEPT !.stage = "open"]
    BY <1>1, <1>4 DEF Opened, Conn
  <2>2. Conns' = [Conns EXCEPT ![c] = [Conn(c) EXCEPT !.stage = "open"]] /\ Conns[c] = Conn(c)
    BY <1>1, <1>3, <2>1, OneBecomes
  <2>3. Service!Open(c)
    BY <1>3, <2>2 DEF Service!Open, Service!At, Service!Becomes, Conns
  <2> QED BY <1>1, <2>3 DEF Service!Next, Service!ServerMove
<1>5. CASE Refused(c)
  <2>1. Conn(c)' = Service!Over
    BY <1>5, ClosedConn DEF Refused
  <2>2. Conns' = [Conns EXCEPT ![c] = Service!Over] /\ Conns[c] = Conn(c)
    BY <1>1, <1>3, <2>1, OneBecomes
  <2>3. Service!Refuse(c)
    BY <1>3, <2>2 DEF Service!Refuse, Service!At, Service!Becomes, Conns
  <2> QED BY <1>1, <2>3 DEF Service!Next, Service!ServerMove
<1> QED BY <1>2, <1>4, <1>5

LEMMA RecvMoreMoves == ASSUME IInv, EchoInv, RecvMore PROVE Service!Next
<1>1. PICK c \in Client :
         /\ phase = "recv" /\ phase' = "send" /\ sock[c].stage = "open" /\ UNCHANGED echoed
         /\ n' \in 1 .. MaxSends /\ NetworkInv'
         /\ sock'[c].inbox = sock[c].inbox - n'
         /\ sock'[c].stage = sock[c].stage /\ sock'[c].sent = sock[c].sent
         /\ sock'[c].err = sock[c].err /\ sock'[c].fin = sock[c].fin
         /\ \A d \in Client \ {c} : sock'[d] = sock[d]
  BY RecvMoreEffect
<1>2. sock[c].sent \in Nat /\ sock[c].inbox \in Nat /\ echoed[c] \in Nat /\ InHand(c) = 0
  BY <1>1, Types, Counters, InHandIs DEF IInv
<1> sock'[c].inbox \in Nat
  BY <1>1 DEF NetworkInv, NetworkType, Socket
<1>3. Conn(c)' = [Conn(c) EXCEPT !.heard = @ + n']
  BY <1>1, <1>2 DEF Conn
<1>4. n' \in 1 .. Conn(c).sent - Conn(c).heard
  BY <1>1, <1>2, ConnIs
<1>5. Conn(c).sent <= SendBuffer /\ Conn(c).end # "reset" => Conn(c).returned = Conn(c).heard
  BY <1>1, <1>2, ConnIs DEF EchoInv, EchoOK
<1>6. /\ Conns' = [Conns EXCEPT ![c] = [Conn(c) EXCEPT !.heard = @ + n']]
      /\ Conns[c] = Conn(c)
  BY <1>1, <1>3, OneBecomes
<1>7. Service!Hear(c)
  BY <1>1, <1>4, <1>5, <1>6, ConnIs
     DEF Service!Hear, Service!At, Service!Becomes, Service!Holds, Conns
<1> QED BY <1>1, <1>7 DEF Service!Next, Service!ServerMove

LEMMA RecvEndMoves == ASSUME IInv, EchoInv, RecvEnd PROVE Service!Next
<1>1. PICK c \in Client : /\ phase = "recv" /\ phase' = "next" /\ Closed(c) /\ UNCHANGED echoed
                          /\ RecvOutcome(c) \in {"eof", "error"}
  BY RecvEndEffect
<1>2. sock[c].stage = "open" /\ \A d \in Client \ {c} : sock'[d] = sock[d]
  BY <1>1 DEF Closed
<1>3. Conns' = [Conns EXCEPT ![c] = Service!Over] /\ Conns[c] = Conn(c)
  BY <1>1, <1>2, ClosedConn, OneBecomes DEF Closed
<1>4. \/ /\ Conn(c).end = "ended" /\ Conn(c).heard = Conn(c).sent
         /\ Conn(c).sent <= SendBuffer => Conn(c).returned = Conn(c).sent
      \/ Conn(c).end = "reset"
  <2>1. sock[c].sent \in Nat
    BY Counters DEF IInv
  <2> QED BY <1>1, <1>2, <2>1, EndIsDue, ConnIs
<1>5. Service!Close(c)
  BY <1>2, <1>3, <1>4, ConnIs DEF Service!Close, Service!At, Service!Becomes, Service!Holds, Conns
<1> QED BY <1>1, <1>5 DEF Service!Next, Service!ServerMove

\* A send that takes nothing, or fails, is no step of the service.
LEMMA EchoMoves == ASSUME IInv, EchoInv, Echo PROVE Service!Next \/ UNCHANGED Conns
<1>1. PICK c \in Client :
         /\ phase = "send" /\ c = Peer /\ sock[c].stage = "open" /\ phase' = "recv"
         /\ Sendable(c, n) \in Nat
         /\ sock'[c].err = IF sock[c].err = "none" THEN "none" ELSE "EPIPE"
         /\ sock'[c].stage = sock[c].stage /\ sock'[c].sent = sock[c].sent
         /\ sock'[c].inbox = sock[c].inbox /\ sock'[c].fin = sock[c].fin
         /\ \A d \in Client \ {c} : sock'[d] = sock[d]
         /\ echoed' = [echoed EXCEPT ![c] = IF sock[c].err = "none"
                                            THEN @ + Sendable(c, n) ELSE @]
  BY EchoEffect
<1> DEFINE k == IF sock[c].err = "none" THEN Sendable(c, n) ELSE 0
<1>2. /\ sock[c].sent \in Nat /\ sock[c].inbox \in Nat /\ sock[c].unread \in Nat
      /\ echoed[c] \in Nat /\ n \in Nat /\ InHand(c) = n /\ k \in Nat
  BY <1>1, Types, Counters DEF IInv, InHand
<1>3. echoed'[c] = echoed[c] + k /\ \A d \in Client \ {c} : echoed'[d] = echoed[d]
  BY <1>1, <1>2, Types
<1>4. Conn(c)' = [Conn(c) EXCEPT !.returned = @ + k]
  BY <1>1, <1>2, <1>3 DEF Conn
<1>5. Conns' = [Conns EXCEPT ![c] = [Conn(c) EXCEPT !.returned = @ + k]] /\ Conns[c] = Conn(c)
  BY <1>1, <1>3, <1>4, OneBecomes
<1>6. /\ sock[c].unread <= echoed[c] /\ echoed[c] + n <= sock[c].sent - sock[c].inbox
      /\ sock[c].err = "none" /\ sock[c].sent <= SendBuffer =>
            echoed[c] + n = sock[c].sent - sock[c].inbox
  BY <1>1, <1>2 DEF EchoInv, EchoOK
<1>7. CASE k = 0
  <2>1. Conn(c)' = Conn(c)
    BY <1>2, <1>4, <1>7, ConnIs, <1>1 DEF Conn
  <2> QED BY <1>5, <2>1, <1>4 DEF Conns
<1>8. CASE k # 0
  <2>1. k = Sendable(c, n) /\ sock[c].err = "none"
    BY <1>8
  <2>2. k <= n /\ (sock[c].sent <= SendBuffer => k = n)
    BY <1>2, <1>6, <2>1 DEF Sendable
  <2>3. /\ k \in 1 .. Conn(c).heard - Conn(c).returned /\ Conn(c).end # "reset"
        /\ Conn(c).sent <= SendBuffer => k = Conn(c).heard - Conn(c).returned
    BY <1>1, <1>2, <1>6, <1>8, <2>1, <2>2, ConnIs
  <2> HIDE DEF k
  <2>4. Service!Return(c)
    BY <1>1, <1>5, <2>3, ConnIs
       DEF Service!Return, Service!At, Service!Becomes, Service!Holds, Conns
  <2> QED BY <1>1, <2>4 DEF Service!Next, Service!ServerMove
<1> QED BY <1>7, <1>8

\* When main returns, each open connection is over.
LEMMA WaitFailsMoves == ASSUME IInv, EchoInv, EpollWaitFails PROVE Service!Next
<1>1. phase = "wait" /\ phase' = "exit" /\ Close(interest) /\ UNCHANGED echoed
  BY DEF EpollWaitFails
<1>2. ASSUME NEW c \in Client
      PROVE  Conn(c)' = IF Conn(c).stage = "open" THEN Service!Over ELSE Conn(c)
  <2>1. CASE sock[c].stage = "open"
    <3>1. \E f \in interest \cap DOMAIN table : table[f] = c
      BY <2>1, Types DEF IInv, NetworkInv, WellConnected
    <3>2. sock'[c] = Fresh("closed")
      BY <1>1, <3>1 DEF Close
    <3> QED BY <2>1, <3>2, ClosedConn, ConnIs
  <2>2. CASE sock[c].stage # "open"
    <3>1. \A f \in interest \cap DOMAIN table : table[f] # c
      BY <2>2, Types
    <3>2. sock'[c] = sock[c]
      BY <1>1, <3>1 DEF Close
    <3> QED BY <1>1, <2>2, <3>2, ConnIs DEF Conn
  <2> QED BY <2>1, <2>2
<1>3. Conns' = [c \in Client |-> IF Conn(c).stage = "open" THEN Service!Over ELSE Conn(c)]
  BY <1>2 DEF Conns
<1>4. Service!Stop
  BY <1>1, <1>3 DEF Service!Stop, Service!At, Conns
<1> QED BY <1>4 DEF Service!Next

LEMMA ClientMoves ==
    ASSUME IInv, EchoInv, NEW c \in Client, ClientStep(c), UNCHANGED server
    PROVE  Service!Next \/ UNCHANGED Conns
<1>1. UNCHANGED <<phase, echoed>> /\ \A d \in Client \ {c} : sock'[d] = sock[d]
  BY ClientStepCases DEF IInv, server
<1>2. sock[c].sent \in Nat /\ sock[c].inbox \in Nat
  BY Counters DEF IInv
<1> DEFINE x == Conn(c)'
<1>3. Conns' = [Conns EXCEPT ![c] = x] /\ Conns[c] = Conn(c)
  BY <1>1, OneBecomes
<1>4. \/ x = Conn(c)
      \/ /\ Conn(c).stage # "closed" /\ Conn(c).end = "none"
         /\ x = [Conn(c) EXCEPT !.sent = @ + 1]
      \/ /\ Conn(c).stage # "closed" /\ Conn(c).end = "none"
         /\ x = [Conn(c) EXCEPT !.end = "ended"]
      \/ Conn(c).stage # "closed" /\ x = [Conn(c) EXCEPT !.end = "reset"]
  <2>1. CASE /\ \/ sock'[c].stage = sock[c].stage
                \/ sock[c].stage = "out" /\ sock'[c].stage = "queued"
             /\ sock'[c].sent = sock[c].sent /\ sock'[c].inbox = sock[c].inbox
             /\ sock'[c].fin = sock[c].fin /\ sock'[c].err = sock[c].err
    BY <1>1, <2>1 DEF Conn
  <2>2. CASE /\ sock'[c].stage = sock[c].stage /\ sock[c].stage \in {"queued", "open"}
             /\ sock'[c].sent = sock[c].sent + 1 /\ sock'[c].inbox = sock[c].inbox + 1
             /\ ~sock[c].fin /\ ~sock'[c].fin /\ sock[c].err = "none" /\ sock'[c].err = "none"
    BY <1>1, <1>2, <2>2 DEF Conn
  <2>3. CASE /\ sock'[c].stage = sock[c].stage /\ sock[c].stage \in {"queued", "open"}
             /\ sock'[c].sent = sock[c].sent /\ sock'[c].inbox = sock[c].inbox
             /\ ~sock[c].fin /\ sock'[c].fin /\ sock[c].err = "none" /\ sock'[c].err = "none"
    BY <1>1, <2>3 DEF Conn
  <2>4. CASE /\ sock'[c].stage = sock[c].stage /\ sock[c].stage \in {"queued", "open"}
             /\ sock'[c].sent = sock[c].sent /\ sock'[c].inbox = sock[c].inbox
             /\ sock'[c].fin = sock[c].fin /\ sock'[c].err # "none"
    BY <1>1, <2>4 DEF Conn
  <2> QED BY <2>1, <2>2, <2>3, <2>4, ClientStepCases DEF IInv
<1> HIDE DEF x
<1>5. UNCHANGED Conns \/ Service!ClientMove(c)
  BY <1>3, <1>4 DEF Service!ClientMove, Service!Send, Service!End, Service!Break, Service!At,
                    Service!Becomes, Conns
<1> QED BY <1>1, <1>5 DEF Service!Next

\* Each step of the program is one of the service or none.
LEMMA Refines ==
    IInv /\ EchoInv /\ [Next]_vars => [Service!Next]_<<Conns, phase # "exit">>
<1> SUFFICES ASSUME IInv, EchoInv, [Next]_vars
             PROVE  Service!Next \/ UNCHANGED <<Conns, phase # "exit">>
  OBVIOUS
<1>1. CASE EpollWait \/ NextEvent \/ AcceptEnds \/ RecvAgain \/ UNCHANGED vars
  <2>1. UNCHANGED <<sock, echoed>> /\ (phase # "exit")' = (phase # "exit")
    BY <1>1 DEF EpollWait, NextEvent, AcceptEnds, RecvAgain, EventDone, vars, network, server
  <2>2. \A c \in Client : Conn(c)' = Conn(c)
    BY <2>1 DEF Conn
  <2> QED BY <2>1, <2>2 DEF Conns
<1>2. CASE Echo
  <2>1. (phase # "exit")' = (phase # "exit")
    BY <1>2 DEF Echo
  <2> QED BY <1>2, <2>1, EchoMoves
<1>3. ASSUME NEW c \in Client, ClientStep(c), UNCHANGED server
      PROVE  Service!Next \/ UNCHANGED <<Conns, phase # "exit">>
  BY <1>3, ClientMoves DEF server
<1> QED BY <1>1, <1>2, <1>3, AcceptMoves, RecvMoreMoves, RecvEndMoves, WaitFailsMoves
        DEF Next, ServerStep

\* The server keeps the promise of EchoService to all clients at once, whatever they
\* do and however small the buffers are.
THEOREM EpollImplementsEcho == Spec => ImplementsEcho
<1>1. Init => Service!Init
  <2> SUFFICES ASSUME Init PROVE Conns = [c \in Client |-> Service!Unused] /\ phase # "exit"
    BY DEF Service!Init, Conns
  <2>1. ASSUME NEW c \in Client PROVE Conn(c) = Service!Unused
    <3>1. /\ sock[c].stage = "out" /\ sock[c].sent = 0 /\ sock[c].inbox = 0
          /\ ~sock[c].fin /\ sock[c].err = "none" /\ echoed[c] = 0
      BY DEF Init, NetworkInit, Fresh
    <3> QED BY <3>1 DEF Conn, Service!Unused
  <2> QED BY <2>1 DEF Conns, Init
<1>2. IInv /\ EchoInv /\ [Next]_vars
      => [Service!Next]_<<[c \in Client |-> Conn(c)], phase # "exit">>
  BY Refines DEF Conns
<1> QED BY <1>1, <1>2, EchoAlways, Invariant, PTL DEF Spec, ImplementsEcho, Service!Spec
=============================================================================
