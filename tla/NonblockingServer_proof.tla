------------------------ MODULE NonblockingServer_proof ------------------------
(***************************************************************************)
(* Proofs about NonblockingServer, for any number of clients, slots,       *)
(* descriptors and messages, and any buffer.                               *)
(***************************************************************************)
EXTENDS NonblockingServer, Sockets_proof

\* Each slot in use has an open connection, and each open connection a slot.
Matched ==
    /\ \A s \in Slot : fds[s] # NoFd => fds[s] \in DOMAIN table
    /\ \A f \in DOMAIN table : \E s \in Slot : fds[s] = f

OneSlot == \A s, t \in Slot : fds[s] = fds[t] /\ fds[s] # NoFd => s = t

\* What poll has stored of a broken connection is still true of the connection
\* that is in the slot now.
Fresher(s) == "POLLHUP" \in revents[s] /\ fds[s] # NoFd => sock[table[fds[s]]].err # "none"

\* The places of the loop.  An empty slot has no revents when accept fills it.
PlaceOK ==
    /\ phase = "accept" => \A s \in Slot : fds[s] = NoFd => revents[s] = {}
    /\ phase \in {"accept", "recv", "send", "hup"} => \A s \in Slot : Fresher(s)
    /\ phase \in {"recv", "send"} => fds[i] # NoFd
    /\ phase = "hup" => "POLLHUP" \in revents[i]

IInv ==
    /\ TypeOK /\ NetworkInv
    /\ phase # "exit" => Matched
    /\ OneSlot
    /\ PlaceOK

\* What has been received from c and not sent back yet.
InHand(c) == IF phase = "send" /\ Peer = c THEN bytes_read ELSE 0

\* No more goes back than was received, so that a client has no more to read than
\* that, and no less while its buffer has room for all it has sent.
EchoOK(c) ==
    /\ sock[c].stage \in {"out", "queued"} => echoed[c] = 0 /\ sock[c].sent = sock[c].inbox
    /\ phase # "exit" /\ sock[c].stage = "open" =>
          /\ sock[c].unread <= echoed[c]
          /\ echoed[c] + InHand(c) <= sock[c].sent - sock[c].inbox
          /\ sock[c].err = "none" /\ sock[c].sent <= SendBuffer =>
                echoed[c] + InHand(c) = sock[c].sent - sock[c].inbox

EchoInv == \A c \in Client : EchoOK(c)

USE BoundsAssumption, MaxClientsAssumption DEF Fd, NoFd, Slot
----------------------------------------------------------------------------
\* What the invariant says of the types of the variables.
LEMMA Types ==
    ASSUME IInv
    PROVE  /\ fds \in [Slot -> Fd \cup {NoFd}]
           /\ revents \in [Slot -> SUBSET {"POLLIN", "POLLHUP"}]
           /\ phase \in {"poll", "accept", "recv", "send", "hup", "exit"}
           /\ i \in Slot /\ bytes_read \in 0 .. MaxSends /\ echoed \in [Client -> Nat]
           /\ NoFd \notin DOMAIN table /\ DOMAIN table \subseteq Fd
           /\ \A f \in DOMAIN table : table[f] \in Client /\ sock[table[f]].stage = "open"
           /\ phase # "exit" => \A s \in Slot : fds[s] # NoFd =>
                 fds[s] \in DOMAIN table /\ table[fds[s]] \in Client /\ sock[table[fds[s]]].stage = "open"
<1>1. /\ DOMAIN table \subseteq Fd
      /\ \A f \in DOMAIN table : table[f] \in Client /\ sock[table[f]].stage = "open"
  BY NetworkFields DEF IInv, NetworkInv, WellConnected
<1>2. NoFd \notin DOMAIN table
  BY <1>1
<1> QED BY <1>1, <1>2 DEF IInv, TypeOK, Matched

\* The counters of a socket.
LEMMA Counters ==
    ASSUME NetworkInv, NEW c \in Client
    PROVE  /\ sock[c].stage \in {"out", "queued", "open", "closed"}
           /\ sock[c].err \in {"none", "ECONNRESET", "EPIPE"}
           /\ sock[c].sent \in 0 .. MaxSends /\ sock[c].inbox \in 0 .. MaxSends
           /\ sock[c].unread \in 0 .. SendBuffer
  BY DEF NetworkInv, NetworkType, Socket

LEMMA InitInv == Init => IInv
<1> SUFFICES ASSUME Init PROVE IInv
  OBVIOUS
<1>1. NetworkInv /\ DOMAIN table = {}
  BY NetworkInitInv DEF Init, NetworkInit
<1>2. TypeOK /\ phase = "poll"
  BY <1>1 DEF Init, NetworkInv, TypeOK
<1>3. Matched /\ OneSlot
  BY <1>1 DEF Init, Matched, OneSlot
<1> QED BY <1>1, <1>2, <1>3 DEF IInv, PlaceOK

\* Where the loop goes on from slot k: to a slot in use that poll reported, or to
\* poll.
LEMMA LoopGoesOn ==
    ASSUME NEW k \in 1 .. MAX_CLIENTS + 1, LoopFrom(k)
    PROVE  /\ phase' \in {"poll", "recv"} /\ i' \in Slot
           /\ phase' = "recv" => fds'[i'] # NoFd /\ revents'[i'] # {}
  BY DEF LoopFrom

LEMMA BodyGoesOn ==
    ASSUME IInv, phase # "exit", BodyDone
    PROVE  /\ i' \in Slot
           /\ \/ phase' = "hup" /\ i' = i /\ "POLLHUP" \in revents[i]
              \/ /\ phase' \in {"poll", "recv"}
                 /\ phase' = "recv" => fds'[i'] # NoFd
<1>1. i + 1 \in 1 .. MAX_CLIENTS + 1
  BY Types
<1> QED BY <1>1, LoopGoesOn, Types DEF BodyDone

\* The rest of the invariant after a step that leaves the slots and descriptors
\* alone and takes no error from a socket.
LEMMA SlotsStay ==
    ASSUME IInv, NetworkInv', phase # "exit", UNCHANGED <<fds, table>>,
           \A c \in Client : sock[c].err # "none" => sock'[c].err # "none"
    PROVE  /\ Matched' /\ OneSlot'
           /\ \A s \in Slot : UNCHANGED revents /\ Fresher(s) => Fresher(s)'
  BY Types DEF IInv, Matched, OneSlot, Fresher

\* The slot of a connection that is closed is emptied.
LEMMA SlotClosed ==
    ASSUME IInv, phase # "exit", NEW s \in Slot, fds[s] # NoFd, Close({fds[s]}),
           fds' = [fds EXCEPT ![s] = NoFd], UNCHANGED revents
    PROVE  /\ NetworkInv' /\ UNCHANGED killed
           /\ Matched' /\ OneSlot' /\ fds[s] \notin DOMAIN table'
           /\ \A t \in Slot : Fresher(t) => Fresher(t)'
           /\ \A c \in Client : sock'[c] = sock[c] \/ c = table[fds[s]]
<1>1. PICK f \in DOMAIN table : f = fds[s]
  BY Types
<1>2. /\ NetworkInv' /\ UNCHANGED killed
      /\ DOMAIN table' = DOMAIN table \ {f}
      /\ \A g \in DOMAIN table' : table'[g] = table[g]
  BY <1>1, CloseOneInv DEF IInv
<1>3. PICK c \in Client : c = table[f] /\ Closed(c)
  BY <1>1, CloseOneInv DEF IInv
<1>4. /\ fds'[s] = NoFd /\ \A t \in Slot \ {s} : fds'[t] = fds[t] /\ (fds[t] # NoFd => fds[t] # f)
  BY <1>1, Types DEF IInv, OneSlot
<1>5. Matched'
  BY <1>1, <1>2, <1>4, Types DEF IInv, Matched
<1>6. OneSlot'
  BY <1>4 DEF IInv, OneSlot
<1>7. ASSUME NEW t \in Slot, Fresher(t) PROVE Fresher(t)'
  <2>1. CASE t = s
    BY <1>4, <2>1 DEF Fresher
  <2>2. CASE t # s /\ fds[t] # NoFd
    <3>1. table[fds[t]] # c /\ table[fds[t]] \in Client /\ fds[t] \in DOMAIN table'
      BY <1>1, <1>2, <1>3, <1>4, <2>2, Types DEF IInv, NetworkInv, WellConnected
    <3> QED BY <1>2, <1>3, <1>4, <1>7, <2>2, <3>1 DEF Fresher, Closed
  <2> QED BY <1>4, <2>1, <2>2 DEF Fresher
<1> QED BY <1>1, <1>2, <1>3, <1>5, <1>6, <1>7 DEF Closed

----------------------------------------------------------------------------
(* The steps of main. *)

LEMMA PollInv == IInv /\ Poll => IInv'
<1> SUFFICES ASSUME IInv, Poll PROVE IInv'
  OBVIOUS
<1>1. /\ phase = "poll" /\ revents' = [s \in Slot |-> Polled(s)]
      /\ UNCHANGED <<backlog, table, sock, killed, fds, bytes_read, echoed>>
      /\ (phase' = "accept" /\ i' = 1) \/ LoopFrom(1)
  BY DEF Poll, network
<1>2. NetworkInv'
  BY <1>1 DEF IInv, NetworkInv, NetworkType, WellConnected, SocketSound
<1>3. /\ phase' \in {"accept", "poll", "recv"} /\ i' \in Slot
      /\ phase' = "recv" => fds'[i'] # NoFd
  BY <1>1, LoopGoesOn
<1>4. \A s \in Slot : revents'[s] = Polled(s) /\ Polled(s) \in SUBSET {"POLLIN", "POLLHUP"}
  BY <1>1 DEF Polled, Events
<1>5. TypeOK'
  BY <1>1, <1>2, <1>3, <1>4, Types DEF TypeOK, NetworkInv
<1>6. Matched' /\ OneSlot'
  BY <1>1 DEF IInv, Matched, OneSlot
<1>7. \A s \in Slot : Fresher(s)' /\ (fds'[s] = NoFd => revents'[s] = {})
  BY <1>1, <1>4 DEF Fresher, Polled, Events
<1> QED BY <1>2, <1>3, <1>5, <1>6, <1>7 DEF IInv, PlaceOK

LEMMA PollFailsInv == IInv /\ PollFails => IInv'
<1> SUFFICES ASSUME IInv, PollFails PROVE IInv'
  OBVIOUS
<1>1. /\ phase = "poll" /\ Close(DOMAIN table) /\ phase' = "exit"
      /\ UNCHANGED <<fds, revents, i, bytes_read, echoed>>
  BY DEF PollFails
<1>2. NetworkInv'
  BY <1>1, CloseInv DEF IInv
<1>3. TypeOK'
  BY <1>1, <1>2, Types DEF TypeOK, NetworkInv
<1>4. OneSlot'
  BY <1>1 DEF IInv, OneSlot
<1> QED BY <1>1, <1>2, <1>3, <1>4 DEF IInv, PlaceOK

LEMMA AcceptOneInv == IInv /\ AcceptOne => IInv'
<1> SUFFICES ASSUME IInv, AcceptOne PROVE IInv'
  OBVIOUS
<1>1. phase = "accept" /\ UNCHANGED <<revents, bytes_read, echoed>> /\ LoopFrom(1)
  BY DEF AcceptOne
<1>2. /\ phase' \in {"poll", "recv"} /\ i' \in Slot
      /\ phase' = "recv" => fds'[i'] # NoFd
  BY <1>1, LoopGoesOn
<1>3. ASSUME NEW s \in Slot, NEW new \in Fd, fds[s] = NoFd, Accept(new),
             fds' = [fds EXCEPT ![s] = new]
      PROVE  IInv'
  <2>1. PICK c \in Client : table'[new] = c /\ Opened(c)
    BY <1>3, AcceptInv DEF IInv
  <2>2. /\ NetworkInv' /\ new \in Fd \ DOMAIN table /\ DOMAIN table' = DOMAIN table \cup {new}
        /\ \A g \in DOMAIN table : table'[g] = table[g]
    BY <1>3, AcceptInv DEF IInv
  <2>3. fds'[s] = new /\ \A t \in Slot \ {s} : fds'[t] = fds[t] /\ fds[t] # new
    BY <1>1, <1>3, <2>2, Types
  <2>4. TypeOK'
    BY <1>1, <1>2, <1>3, <2>2, Types DEF TypeOK, NetworkInv
  <2>5. Matched'
    <3>1. \A f \in DOMAIN table : \E t \in Slot \ {s} : fds[t] = f
      BY <1>1, <1>3, Types DEF IInv, Matched
    <3>2. \A t \in Slot : fds'[t] # NoFd => fds'[t] \in DOMAIN table'
      BY <1>1, <2>2, <2>3, Types
    <3>3. \A f \in DOMAIN table' : \E t \in Slot : fds'[t] = f
      BY <2>2, <2>3, <3>1
    <3> QED BY <3>2, <3>3 DEF Matched
  <2>6. OneSlot'
    BY <2>3 DEF IInv, OneSlot
  <2>7. ASSUME NEW t \in Slot
        PROVE  Fresher(t)'
    <3>1. CASE t = s
      BY <1>1, <1>3, <2>3, <3>1 DEF IInv, PlaceOK, Fresher
    <3>2. CASE t # s
      <4>1. Fresher(t) /\ (fds[t] = NoFd => revents[t] = {})
        BY <1>1 DEF IInv, PlaceOK
      <4>2. fds[t] # NoFd => /\ table[fds[t]] # c /\ table[fds[t]] \in Client
                             /\ fds[t] \in DOMAIN table
        BY <1>1, <2>1, Types DEF Opened
      <4> QED BY <1>1, <2>1, <2>2, <2>3, <3>2, <4>1, <4>2 DEF Fresher, Opened
    <3> QED BY <3>1, <3>2
  <2> QED BY <1>2, <2>2, <2>4, <2>5, <2>6, <2>7 DEF IInv, PlaceOK
<1>4. CASE AcceptAndClose /\ UNCHANGED fds
  <2>1. NetworkInv' /\ UNCHANGED table
    BY <1>4, AcceptAndCloseInv DEF IInv
  <2>2. PICK c \in Client : Refused(c)
    BY <1>4, AcceptAndCloseInv DEF IInv
  <2>3. TypeOK'
    BY <1>1, <1>2, <1>4, <2>1, Types DEF TypeOK, NetworkInv
  <2>4. Matched' /\ OneSlot'
    BY <1>1, <1>4, <2>1 DEF IInv, Matched, OneSlot
  <2>5. ASSUME NEW s \in Slot PROVE Fresher(s)'
    <3>1. Fresher(s)
      BY <1>1 DEF IInv, PlaceOK
    <3>2. fds[s] # NoFd => table[fds[s]] # c /\ table[fds[s]] \in Client
      BY <1>1, <2>2, Types DEF Refused
    <3> QED BY <1>1, <1>4, <2>1, <2>2, <3>1, <3>2 DEF Fresher, Refused
  <2> QED BY <1>2, <2>1, <2>3, <2>4, <2>5 DEF IInv, PlaceOK
<1> QED BY <1>3, <1>4 DEF AcceptOne

LEMMA AcceptFailsInv == IInv /\ AcceptFails => IInv'
<1> SUFFICES ASSUME IInv, AcceptFails PROVE IInv'
  OBVIOUS
<1>1. /\ phase = "accept" /\ UNCHANGED <<backlog, table, sock, killed, fds, revents, bytes_read, echoed>>
      /\ LoopFrom(1)
  BY DEF AcceptFails, network
<1>2. NetworkInv'
  BY <1>1 DEF IInv, NetworkInv, NetworkType, WellConnected, SocketSound
<1>3. /\ phase' \in {"poll", "recv"} /\ i' \in Slot
      /\ phase' = "recv" => fds'[i'] # NoFd
  BY <1>1, LoopGoesOn
<1>4. TypeOK'
  BY <1>1, <1>2, <1>3, Types DEF TypeOK, NetworkInv
<1>5. Matched' /\ OneSlot' /\ \A s \in Slot : Fresher(s)'
  BY <1>1, <1>2, SlotsStay DEF IInv, PlaceOK
<1> QED BY <1>2, <1>3, <1>4, <1>5 DEF IInv, PlaceOK

\* The end of the body of the loop, after recv or send.
LEMMA BodyDoneInv ==
    ASSUME IInv, BodyDone, NetworkInv', phase \in {"recv", "send"},
           fds' \in [Slot -> Fd \cup {NoFd}], UNCHANGED revents,
           bytes_read' \in 0 .. MaxSends, echoed' \in [Client -> Nat],
           Matched', OneSlot', \A s \in Slot : Fresher(s) => Fresher(s)'
    PROVE  IInv' /\ phase' \in {"poll", "recv", "hup"}
<1>1. /\ i' \in Slot
      /\ \/ phase' = "hup" /\ i' = i /\ "POLLHUP" \in revents[i]
         \/ /\ phase' \in {"poll", "recv"}
            /\ phase' = "recv" => fds'[i'] # NoFd
  BY BodyGoesOn
<1>2. TypeOK'
  BY <1>1, Types DEF TypeOK, NetworkInv
<1>3. \A s \in Slot : Fresher(s)'
  BY DEF IInv, PlaceOK
<1>4. PlaceOK'
  BY <1>1, <1>3, Types DEF PlaceOK
<1> QED BY <1>1, <1>2, <1>4 DEF IInv

LEMMA RecvInv == IInv /\ Recv => IInv'
<1> SUFFICES ASSUME IInv, Recv PROVE IInv'
  OBVIOUS
<1>1. /\ phase = "recv" /\ fds[i] # NoFd /\ UNCHANGED <<revents, echoed>> /\ i \in Slot
  BY Types DEF Recv, IInv, PlaceOK
<1>2. PICK c \in Client : c = Peer /\ sock[c].stage = "open"
  BY <1>1, Types DEF Peer
<1>3. ASSUME NEW k \in 1 .. MaxSends, RecvData(c, k), bytes_read' = k, phase' = "send",
             UNCHANGED <<fds, i>>
      PROVE  IInv'
  <2>1. NetworkInv /\ k \in Int
    BY DEF IInv
  <2>2. /\ NetworkInv' /\ UNCHANGED table /\ sock'[c].err = sock[c].err
        /\ \A d \in Client \ {c} : sock'[d] = sock[d]
    BY <1>2, <1>3, <2>1, RecvDataInv
  <2>3. Matched' /\ OneSlot' /\ \A s \in Slot : Fresher(s)'
    BY <1>1, <1>3, <2>2, SlotsStay DEF IInv, PlaceOK
  <2>4. TypeOK'
    BY <1>1, <1>3, <2>2, Types DEF TypeOK, NetworkInv
  <2> QED BY <1>1, <1>3, <2>2, <2>3, <2>4 DEF IInv, PlaceOK
<1>4. CASE Close({fds[i]}) /\ fds' = [fds EXCEPT ![i] = NoFd] /\ BodyDone /\ bytes_read' = 0
  <2>1. /\ NetworkInv' /\ Matched' /\ OneSlot' /\ \A s \in Slot : Fresher(s) => Fresher(s)'
    BY <1>1, <1>4, SlotClosed
  <2>2. fds' \in [Slot -> Fd \cup {NoFd}] /\ bytes_read' \in 0 .. MaxSends
    BY <1>1, <1>4, Types
  <2> QED BY <1>1, <1>4, <2>1, <2>2, BodyDoneInv, Types
<1> QED BY <1>2, <1>3, <1>4 DEF Recv, RecvSomeOf

\* What the echo of a message does.
LEMMA EchoEffect ==
    ASSUME IInv, Echo
    PROVE  \E c \in Client :
             /\ phase = "send" /\ c = Peer /\ sock[c].stage = "open" /\ BodyDone
             /\ NetworkInv' /\ UNCHANGED <<table, fds, revents>> /\ bytes_read' = 0
             /\ Sendable(c, bytes_read) \in Nat
             /\ sock'[c].unread = IF sock[c].err = "none" THEN sock[c].unread + Sendable(c, bytes_read)
                                  ELSE sock[c].unread
             /\ sock'[c].err = IF sock[c].err = "none" THEN "none" ELSE "EPIPE"
             /\ sock'[c].stage = sock[c].stage /\ sock'[c].sent = sock[c].sent
             /\ sock'[c].inbox = sock[c].inbox /\ sock'[c].fin = sock[c].fin
             /\ \A d \in Client \ {c} : sock'[d] = sock[d]
             /\ echoed' = [echoed EXCEPT ![c] = IF sock[c].err = "none"
                                                THEN @ + Sendable(c, bytes_read) ELSE @]
<1>1. /\ phase = "send" /\ fds[i] # NoFd /\ i \in Slot /\ BodyDone /\ bytes_read' = 0
      /\ UNCHANGED <<fds, revents>>
  BY Types DEF Echo, IInv, PlaceOK
<1>2. PICK c \in Client : c = Peer /\ sock[c].stage = "open"
  BY <1>1, Types DEF Peer
<1>3. SendUnits(c, bytes_read) /\ NetworkInv /\ bytes_read \in Nat
  BY <1>1, <1>2, Types DEF Echo, IInv
<1>4. /\ NetworkInv' /\ UNCHANGED table /\ Sendable(c, bytes_read) \in Nat
      /\ sock'[c].unread = IF sock[c].err = "none" THEN sock[c].unread + Sendable(c, bytes_read)
                           ELSE sock[c].unread
      /\ sock'[c].err = IF sock[c].err = "none" THEN "none" ELSE "EPIPE"
      /\ sock'[c].stage = sock[c].stage /\ sock'[c].sent = sock[c].sent
      /\ sock'[c].inbox = sock[c].inbox /\ sock'[c].fin = sock[c].fin
      /\ \A d \in Client \ {c} : sock'[d] = sock[d]
  BY <1>2, <1>3, SendUnitsInv
<1>5. echoed' = [echoed EXCEPT ![c] = IF sock[c].err = "none"
                                      THEN @ + Sendable(c, bytes_read) ELSE @]
  BY <1>2 DEF Echo
<1> QED BY <1>1, <1>2, <1>4, <1>5

LEMMA EchoStepInv == IInv /\ Echo => IInv'
<1> SUFFICES ASSUME IInv, Echo PROVE IInv'
  OBVIOUS
<1>1. PICK c \in Client :
         /\ phase = "send" /\ BodyDone
         /\ NetworkInv' /\ UNCHANGED <<table, fds, revents>> /\ bytes_read' = 0
         /\ Sendable(c, bytes_read) \in Nat
         /\ sock'[c].err = IF sock[c].err = "none" THEN "none" ELSE "EPIPE"
         /\ \A d \in Client \ {c} : sock'[d] = sock[d]
         /\ echoed' = [echoed EXCEPT ![c] = IF sock[c].err = "none"
                                            THEN @ + Sendable(c, bytes_read) ELSE @]
  BY EchoEffect
<1>2. Matched' /\ OneSlot' /\ \A s \in Slot : Fresher(s) => Fresher(s)'
  BY <1>1, SlotsStay
<1>3. echoed' \in [Client -> Nat] /\ bytes_read' \in 0 .. MaxSends
  BY <1>1, Types
<1>4. fds' \in [Slot -> Fd \cup {NoFd}]
  BY <1>1, Types
<1> QED BY <1>1, <1>2, <1>3, <1>4, BodyDoneInv

\* The close of a broken connection, or of nothing when recv has emptied the slot.
LEMMA HangupEffect ==
    ASSUME IInv, Hangup
    PROVE  /\ NetworkInv' /\ Matched' /\ OneSlot'
           /\ \A s \in Slot : Fresher(s) => Fresher(s)'
           /\ \A c \in Client : sock'[c] = sock[c] \/ (fds[i] # NoFd /\ c = table[fds[i]])
<1>1. /\ phase = "hup" /\ Close({fds[i]}) /\ fds' = [fds EXCEPT ![i] = NoFd]
      /\ UNCHANGED revents /\ i \in Slot
  BY Types DEF Hangup
<1>2. CASE fds[i] # NoFd
  BY <1>1, <1>2, SlotClosed
<1>3. CASE fds[i] = NoFd
  <2>1. NoFd \notin DOMAIN table /\ fds' = fds /\ Close({NoFd})
    BY <1>1, <1>3, Types
  <2>2. /\ NetworkInv' /\ DOMAIN table' = DOMAIN table \ {NoFd}
        /\ \A g \in DOMAIN table' : table'[g] = table[g]
        /\ \A d \in Client : (\A f \in {NoFd} \cap DOMAIN table : table[f] # d) => sock'[d] = sock[d]
    <3>1. NetworkInv
      BY DEF IInv
    <3> HIDE DEF NoFd
    <3> QED BY <2>1, <3>1, CloseInv
  <2>3. \A d \in Client : sock'[d] = sock[d]
    BY <2>1, <2>2
  <2>4. Matched' /\ OneSlot'
    BY <1>1, <2>1, <2>2 DEF IInv, Matched, OneSlot
  <2>5. \A s \in Slot : Fresher(s) => Fresher(s)'
    BY <1>1, <2>1, <2>2, <2>3, Types DEF Fresher
  <2> QED BY <2>2, <2>3, <2>4, <2>5
<1> QED BY <1>2, <1>3

LEMMA HangupInv == IInv /\ Hangup => IInv'
<1> SUFFICES ASSUME IInv, Hangup PROVE IInv'
  OBVIOUS
<1>1. /\ phase = "hup" /\ fds' = [fds EXCEPT ![i] = NoFd]
      /\ UNCHANGED <<revents, bytes_read, echoed>> /\ LoopFrom(i + 1) /\ i \in Slot
  BY Types DEF Hangup
<1>2. /\ phase' \in {"poll", "recv"} /\ i' \in Slot
      /\ phase' = "recv" => fds'[i'] # NoFd
  BY <1>1, LoopGoesOn
<1>3. NetworkInv' /\ Matched' /\ OneSlot' /\ \A s \in Slot : Fresher(s) => Fresher(s)'
  BY HangupEffect
<1>4. TypeOK'
  BY <1>1, <1>2, <1>3, Types DEF TypeOK, NetworkInv
<1> QED BY <1>1, <1>2, <1>3, <1>4 DEF IInv, PlaceOK

LEMMA ClientInv == ASSUME IInv, NEW c \in Client, ClientStep(c), UNCHANGED server PROVE IInv'
<1>1. NetworkInv' /\ UNCHANGED <<table, killed>> /\ \A d \in Client : ClientEffect(d)
  BY ClientStepInv DEF IInv
<1>2. UNCHANGED <<fds, revents, phase, i, bytes_read, echoed, table>>
  BY <1>1 DEF server
<1>3. TypeOK'
  BY <1>1, <1>2, Types DEF TypeOK, NetworkInv
<1>4. (phase # "exit" => Matched') /\ OneSlot'
  BY <1>2 DEF IInv, Matched, OneSlot
<1>5. \A s \in Slot : phase # "exit" /\ Fresher(s) => Fresher(s)'
  BY <1>1, <1>2, Types DEF Fresher, ClientEffect
<1> QED BY <1>1, <1>2, <1>3, <1>4, <1>5 DEF IInv, PlaceOK

LEMMA NextInv == IInv /\ [Next]_vars => IInv'
<1> SUFFICES ASSUME IInv, [Next]_vars PROVE IInv'
  OBVIOUS
<1>1. CASE ServerStep
  BY <1>1, PollInv, AcceptOneInv, AcceptFailsInv, RecvInv, EchoStepInv, HangupInv DEF ServerStep
<1>2. CASE PollFails
  BY <1>2, PollFailsInv
<1>3. ASSUME NEW c \in Client, ClientStep(c), UNCHANGED server PROVE IInv'
  BY <1>3, ClientInv
<1>4. CASE UNCHANGED vars
  BY <1>4 DEF vars, server, network, IInv, TypeOK, NetworkInv, NetworkType, WellConnected,
              SocketSound, Matched, OneSlot, PlaceOK, Fresher
<1> QED BY <1>1, <1>2, <1>3, <1>4 DEF Next

----------------------------------------------------------------------------
(* What is echoed. *)

LEMMA EchoInit == Init => EchoInv
<1> SUFFICES ASSUME Init, NEW c \in Client PROVE EchoOK(c)
  BY DEF EchoInv
<1> QED BY FreshSound DEF Init, NetworkInit, Fresh, EchoOK

\* A step that is not recv or send and leaves c's connection alone.
LEMMA QuietOK ==
    ASSUME EchoInv, NEW c \in Client, sock'[c] = sock[c], echoed'[c] = echoed[c],
           phase # "exit", InHand(c)' = InHand(c)
    PROVE  EchoOK(c)'
  BY DEF EchoInv, EchoOK

\* Only while it is sent back is anything in hand.
LEMMA InHandIs ==
    ASSUME NEW c \in Client
    PROVE  /\ phase # "send" => InHand(c) = 0
           /\ phase' # "send" => InHand(c)' = 0
           /\ Peer # c => InHand(c) = 0
           /\ Peer' # c => InHand(c)' = 0
  BY DEF InHand

LEMMA PollEcho == ASSUME IInv, EchoInv, Poll \/ AcceptFails, NEW c \in Client PROVE EchoOK(c)'
<1>1. /\ phase \in {"poll", "accept"} /\ UNCHANGED <<sock, echoed>>
      /\ phase' = "accept" \/ LoopFrom(1)
  BY DEF Poll, AcceptFails, network
<1>2. phase' # "send"
  BY <1>1, LoopGoesOn
<1> QED BY <1>1, <1>2, QuietOK, InHandIs

LEMMA PollFailsEcho == ASSUME IInv, EchoInv, PollFails, NEW c \in Client PROVE EchoOK(c)'
<1>1. UNCHANGED echoed /\ phase' = "exit" /\ Close(DOMAIN table)
  BY DEF PollFails
<1>2. sock'[c] = sock[c] \/ sock'[c].stage = "closed"
  BY <1>1, FreshSound DEF Close
<1> QED BY <1>1, <1>2 DEF EchoInv, EchoOK

LEMMA AcceptEcho == ASSUME IInv, EchoInv, AcceptOne, NEW c \in Client PROVE EchoOK(c)'
<1>1. /\ phase = "accept" /\ UNCHANGED echoed /\ LoopFrom(1)
      /\ (\E new \in Fd : Accept(new)) \/ AcceptAndClose
  BY DEF AcceptOne
<1>2. phase' # "send" /\ InHand(c) = 0 /\ InHand(c)' = 0
  BY <1>1, LoopGoesOn, InHandIs
<1>3. PICK d \in Client : Opened(d) \/ Refused(d)
  BY <1>1, AcceptInv, AcceptAndCloseInv DEF IInv
<1>4. CASE c # d
  BY <1>1, <1>2, <1>3, <1>4, QuietOK DEF Opened, Refused
<1>5. CASE c = d /\ Opened(c)
  <2>1. echoed[c] = 0 /\ sock[c].sent = sock[c].inbox
    BY <1>5 DEF EchoInv, EchoOK, Opened
  <2>2. sock[c].sent \in Nat
    BY Counters DEF IInv
  <2> QED BY <1>1, <1>2, <1>5, <2>1, <2>2 DEF EchoOK, Opened
<1>6. CASE c = d /\ Refused(c)
  BY <1>6, FreshSound DEF EchoOK, Refused
<1> QED BY <1>3, <1>4, <1>5, <1>6

\* What recv does: it takes data, or it finds an end and the connection is closed.
LEMMA RecvEffect ==
    ASSUME IInv, Recv
    PROVE  /\ phase = "recv" /\ phase' # "exit" /\ UNCHANGED echoed
           /\ \E c \in Client : sock[c].stage = "open" /\
                 \/ /\ phase' = "send" /\ Peer' = c /\ bytes_read' \in 1 .. MaxSends
                    /\ sock'[c].inbox = sock[c].inbox - bytes_read' /\ sock'[c].inbox \in Nat
                    /\ sock'[c].stage = sock[c].stage /\ sock'[c].sent = sock[c].sent
                    /\ sock'[c].unread = sock[c].unread /\ sock'[c].err = sock[c].err
                    /\ sock'[c].fin = sock[c].fin
                    /\ \A d \in Client \ {c} : sock'[d] = sock[d]
                 \/ phase' # "send" /\ Closed(c) /\ RecvOutcome(c) \in {"eof", "error"}
<1>1. phase = "recv" /\ fds[i] # NoFd /\ UNCHANGED <<revents, echoed>> /\ i \in Slot
  BY Types DEF Recv, IInv, PlaceOK
<1>2. PICK c \in Client : c = Peer /\ sock[c].stage = "open"
  BY <1>1, Types DEF Peer
<1>3. CASE RecvSomeOf(c) /\ phase' = "send" /\ UNCHANGED <<fds, i>>
  <2>1. PICK k \in 1 .. MaxSends : RecvData(c, k) /\ bytes_read' = k
    BY <1>3 DEF RecvSomeOf
  <2>2. NetworkInv /\ k \in Int
    BY DEF IInv
  <2>3. /\ NetworkInv' /\ UNCHANGED table /\ sock'[c].inbox = sock[c].inbox - k
        /\ sock'[c].stage = sock[c].stage /\ sock'[c].sent = sock[c].sent
        /\ sock'[c].unread = sock[c].unread /\ sock'[c].err = sock[c].err
        /\ sock'[c].fin = sock[c].fin
        /\ \A d \in Client \ {c} : sock'[d] = sock[d]
    BY <1>2, <2>1, <2>2, RecvDataInv
  <2>4. Peer' = c
    BY <1>2, <1>3, <2>3 DEF Peer
  <2>5. sock'[c].inbox \in Nat
    BY <2>3 DEF NetworkInv, NetworkType, Socket
  <2> QED BY <1>1, <1>2, <1>3, <2>1, <2>3, <2>4, <2>5
<1>4. CASE RecvOutcome(c) \in {"eof", "error"} /\ Close({fds[i]}) /\ BodyDone
  <2>1. NetworkInv /\ fds[i] \in DOMAIN table /\ table[fds[i]] = c
    BY <1>1, <1>2, Types DEF IInv, Peer
  <2>2. Closed(c)
    BY <1>4, <2>1, CloseOneInv
  <2>3. phase' \notin {"send", "exit"}
    BY <1>1, <1>4, BodyGoesOn
  <2> QED BY <1>1, <1>2, <1>4, <2>2, <2>3
<1> QED BY <1>1, <1>2, <1>3, <1>4 DEF Recv

LEMMA RecvEcho == ASSUME IInv, EchoInv, Recv, NEW c \in Client PROVE EchoOK(c)'
<1>1. phase = "recv" /\ UNCHANGED echoed /\ InHand(c) = 0
  BY RecvEffect, InHandIs
<1>2. PICK d \in Client : sock[d].stage = "open" /\
         \/ /\ phase' = "send" /\ Peer' = d /\ bytes_read' \in 1 .. MaxSends
            /\ sock'[d].inbox = sock[d].inbox - bytes_read' /\ sock'[d].inbox \in Nat
            /\ sock'[d].stage = sock[d].stage /\ sock'[d].sent = sock[d].sent
            /\ sock'[d].unread = sock[d].unread /\ sock'[d].err = sock[d].err
            /\ \A e \in Client \ {d} : sock'[e] = sock[e]
         \/ phase' # "send" /\ Closed(d)
  BY RecvEffect
<1>3. CASE c # d
  BY <1>1, <1>2, <1>3, QuietOK, InHandIs DEF Closed
<1>4. CASE c = d /\ phase' = "send"
  <2>1. InHand(c)' = bytes_read'
    BY <1>2, <1>4 DEF InHand
  <2>2. echoed[c] \in Nat /\ sock[c].sent \in Nat /\ sock[c].inbox \in Nat
    BY Types, Counters DEF IInv
  <2> QED BY <1>1, <1>2, <1>4, <2>1, <2>2 DEF EchoInv, EchoOK
<1>5. CASE c = d /\ phase' # "send"
  BY <1>2, <1>5, FreshSound DEF Closed, EchoOK
<1> QED BY <1>3, <1>4, <1>5

\* send takes everything there is in hand if the buffer has room for all the client
\* has sent, since it cannot have been sent more than that.
LEMMA SendEcho ==
    ASSUME IInv, EchoInv, Echo, NEW c \in Client
    PROVE  EchoOK(c)'
<1>1. PICK d \in Client :
         /\ phase = "send" /\ d = Peer /\ sock[d].stage = "open" /\ BodyDone
         /\ Sendable(d, bytes_read) \in Nat
         /\ sock'[d].unread = IF sock[d].err = "none" THEN sock[d].unread + Sendable(d, bytes_read)
                              ELSE sock[d].unread
         /\ sock'[d].err = IF sock[d].err = "none" THEN "none" ELSE "EPIPE"
         /\ sock'[d].stage = sock[d].stage /\ sock'[d].sent = sock[d].sent
         /\ sock'[d].inbox = sock[d].inbox
         /\ \A e \in Client \ {d} : sock'[e] = sock[e]
         /\ echoed' = [echoed EXCEPT ![d] = IF sock[d].err = "none"
                                            THEN @ + Sendable(d, bytes_read) ELSE @]
  BY EchoEffect
<1>2. phase' # "send" /\ InHand(c)' = 0
  BY <1>1, BodyGoesOn, InHandIs
<1>3. CASE c # d
  BY <1>1, <1>2, <1>3, QuietOK, InHandIs, Types
<1>4. CASE c = d
  <2>1. /\ echoed[c] \in Nat /\ bytes_read \in Nat /\ sock[c].sent \in 0 .. MaxSends
        /\ sock[c].inbox \in Nat /\ sock[c].unread \in Nat
    BY Types, Counters DEF IInv
  <2>2. InHand(c) = bytes_read
    BY <1>1, <1>4 DEF InHand
  <2>3. /\ sock[c].unread <= echoed[c] /\ echoed[c] + bytes_read <= sock[c].sent - sock[c].inbox
        /\ sock[c].err = "none" /\ sock[c].sent <= SendBuffer =>
              echoed[c] + bytes_read = sock[c].sent - sock[c].inbox
    BY <1>1, <1>4, <2>2 DEF EchoInv, EchoOK
  <2>4. /\ Sendable(c, bytes_read) <= bytes_read
        /\ sock[c].err = "none" /\ sock[c].sent <= SendBuffer =>
              Sendable(c, bytes_read) = bytes_read
    BY <1>1, <1>4, <2>1, <2>3 DEF Sendable
  <2>5. echoed'[c] = IF sock[c].err = "none" THEN echoed[c] + Sendable(c, bytes_read) ELSE echoed[c]
    BY <1>1, <1>4, Types
  <2> QED BY <1>1, <1>2, <1>4, <2>1, <2>3, <2>4, <2>5 DEF EchoOK
<1> QED BY <1>3, <1>4

LEMMA HangupEcho == ASSUME IInv, EchoInv, Hangup, NEW c \in Client PROVE EchoOK(c)'
<1>1. /\ phase = "hup" /\ UNCHANGED echoed /\ LoopFrom(i + 1) /\ i \in Slot /\ Close({fds[i]})
  BY Types DEF Hangup
<1>2. phase' # "send"
  BY <1>1, LoopGoesOn
<1>3. sock'[c] = sock[c] \/ sock'[c].stage = "closed"
  BY <1>1, FreshSound DEF Close
<1>4. CASE sock'[c] = sock[c]
  BY <1>1, <1>2, <1>4, QuietOK, InHandIs
<1>5. CASE sock'[c].stage = "closed"
  BY <1>5 DEF EchoOK
<1> QED BY <1>3, <1>4, <1>5

LEMMA ClientEcho ==
    ASSUME IInv, IInv', EchoInv, NEW d \in Client, ClientStep(d), UNCHANGED server, NEW c \in Client
    PROVE  EchoOK(c)'
<1>1. UNCHANGED table /\ ClientEffect(c)
  BY ClientStepInv DEF IInv
<1>2. UNCHANGED <<fds, phase, i, bytes_read, echoed>>
  BY DEF server
<1>3. InHand(c)' = InHand(c)
  BY <1>1, <1>2 DEF InHand, Peer
<1>4. /\ echoed[c] \in Nat /\ sock[c].sent \in Nat /\ sock[c].inbox \in Nat /\ sock[c].unread \in Nat
      /\ sock'[c].sent \in Nat /\ sock'[c].inbox \in Nat /\ sock'[c].unread \in Nat
  <2>1. echoed[c] \in Nat
    BY Types
  <2>2. sock[c].sent \in Nat /\ sock[c].inbox \in Nat /\ sock[c].unread \in Nat
    BY Counters DEF IInv
  <2>3. sock'[c] \in Socket
    BY DEF IInv, NetworkInv, NetworkType
  <2> QED BY <2>1, <2>2, <2>3 DEF Socket
<1>5. CASE sock'[c].stage \in {"out", "queued"}
  BY <1>1, <1>2, <1>4, <1>5 DEF EchoInv, EchoOK, ClientEffect
<1>6. CASE sock'[c].stage = "open"
  BY <1>1, <1>2, <1>3, <1>4, <1>6 DEF EchoInv, EchoOK, ClientEffect
<1>7. CASE sock'[c].stage = "closed"
  BY <1>7 DEF EchoOK
<1>8. sock'[c].stage \in {"out", "queued", "open", "closed"}
  BY DEF IInv, NetworkInv, NetworkType, Socket
<1> QED BY <1>5, <1>6, <1>7, <1>8

LEMMA EchoNext == IInv /\ IInv' /\ EchoInv /\ [Next]_vars => EchoInv'
<1> SUFFICES ASSUME IInv, IInv', EchoInv, [Next]_vars, NEW c \in Client
             PROVE  EchoOK(c)'
  BY DEF EchoInv
<1>1. CASE ServerStep
  BY <1>1, PollEcho, AcceptEcho, RecvEcho, SendEcho, HangupEcho DEF ServerStep
<1>2. CASE PollFails
  BY <1>2, PollFailsEcho
<1>3. ASSUME NEW d \in Client, ClientStep(d), UNCHANGED server PROVE EchoOK(c)'
  BY <1>3, ClientEcho
<1>4. CASE UNCHANGED vars
  BY <1>4 DEF vars, server, network, EchoInv, EchoOK, InHand, Peer
<1> QED BY <1>1, <1>2, <1>3, <1>4 DEF Next

----------------------------------------------------------------------------
(* Theorems. *)

\* The invariant holds in every reachable state.
THEOREM Invariant == Spec => []IInv
  BY InitInv, NextInv, PTL DEF Spec

\* Every variable keeps its type, for any number of slots and clients.
THEOREM TypeCorrect == Spec => []TypeOK
<1>1. IInv => TypeOK
  BY DEF IInv
<1> QED BY <1>1, Invariant, PTL

\* At every place of the loop the slots and the open connections match one to
\* one: closing a descriptor and freeing its slot go together on every path.
THEOREM SlotsMatchAlways == Spec => []SlotsMatchConnections
<1>1. IInv => SlotsMatchConnections
  <2> SUFFICES ASSUME IInv, phase # "exit"
               PROVE  /\ \A f : f \in {fds[s] : s \in Slot} \ {NoFd} <=> f \in DOMAIN table
                      /\ OneSlot
    BY DEF SlotsMatchConnections, OneSlot
  <2>1. \A s \in Slot : fds[s] # NoFd => fds[s] \in DOMAIN table
    BY DEF IInv, Matched
  <2>2. \A f \in DOMAIN table : f # NoFd /\ \E s \in Slot : fds[s] = f
    BY Types DEF IInv, Matched
  <2> QED BY <2>1, <2>2 DEF IInv
<1> QED BY <1>1, Invariant, PTL

\* What is received and what goes back agree in every reachable state.
LEMMA EchoAlways == Spec => []EchoInv
<1>1. IInv /\ IInv' /\ EchoInv /\ [Next]_vars => EchoInv'
  BY EchoNext
<1> QED BY <1>1, EchoInit, Invariant, PTL DEF Spec

\* When recv finds the end of a connection, nothing of it is left to send back.
LEMMA EndIsDue ==
    ASSUME IInv, EchoInv, NEW c \in Client, phase = "recv", sock[c].stage = "open",
           RecvOutcome(c) \in {"eof", "error"}
    PROVE  \/ sock[c].fin /\ sock[c].inbox = 0
              /\ (sock[c].err = "none" /\ sock[c].sent <= SendBuffer => echoed[c] = sock[c].sent)
           \/ sock[c].err # "none"
<1>1. sock[c].inbox \in Nat /\ echoed[c] \in Nat /\ sock[c].sent \in Nat /\ InHand(c) = 0
  BY Types, Counters, InHandIs DEF IInv
<1>2. (sock[c].fin /\ sock[c].inbox = 0) \/ sock[c].err # "none"
  BY <1>1 DEF RecvOutcome, AtEnd
<1>3. sock[c].err = "none" /\ sock[c].sent <= SendBuffer /\ sock[c].inbox = 0 =>
         echoed[c] = sock[c].sent
  BY <1>1 DEF EchoInv, EchoOK
<1> QED BY <1>2, <1>3

\* close of a descriptor that poll has reported broken, if recv has not closed it.
LEMMA HangupCloses ==
    ASSUME IInv, Hangup
    PROVE  \/ UNCHANGED sock
           \/ \E c \in Client : sock[c].err # "none" /\ Closed(c)
<1>1. /\ phase = "hup" /\ "POLLHUP" \in revents[i] /\ Fresher(i) /\ i \in Slot
      /\ Close({fds[i]})
  BY Types DEF Hangup, IInv, PlaceOK
<1>2. CASE fds[i] = NoFd
  <2>1. \A c \in Client : sock'[c] = sock[c]
    BY <1>2, HangupEffect
  <2>2. DOMAIN sock = Client /\ sock' = [c \in Client |-> sock'[c]]
    BY <1>1, NetworkFields DEF Close, IInv, NetworkInv
  <2> QED BY <2>1, <2>2, NetworkFields DEF IInv, NetworkInv, NetworkType
<1>3. CASE fds[i] # NoFd
  <2>1. NetworkInv /\ fds[i] \in DOMAIN table
    BY <1>1, <1>3, Types DEF IInv
  <2>2. PICK c \in Client : c = table[fds[i]] /\ Closed(c)
    BY <1>1, <2>1, CloseOneInv
  <2> QED BY <1>1, <1>3, <2>2 DEF Fresher
<1> QED BY <1>2, <1>3

\* Whose open connection a step closes.
LEMMA CloseIsDue ==
    ASSUME IInv, EchoInv, [Next]_vars, NEW c \in Client,
           sock[c].stage = "open", sock'[c].stage = "closed"
    PROVE  \/ sock[c].fin /\ sock[c].inbox = 0
              /\ (sock[c].sent <= SendBuffer => echoed[c] = sock[c].sent)
           \/ sock[c].err # "none" \/ phase' = "exit"
<1>1. CASE Poll \/ AcceptFails \/ UNCHANGED vars
  BY <1>1 DEF Poll, AcceptFails, vars, network
<1>2. CASE PollFails
  BY <1>2 DEF PollFails
<1>3. CASE AcceptOne
  <2>1. PICK d \in Client : Opened(d) \/ Refused(d)
    BY <1>3, AcceptInv, AcceptAndCloseInv DEF IInv, AcceptOne
  <2> QED BY <2>1 DEF Opened, Refused
<1>4. CASE Recv
  <2>1. PICK d \in Client :
           \/ /\ sock'[d].stage = sock[d].stage
              /\ \A e \in Client \ {d} : sock'[e] = sock[e]
           \/ phase = "recv" /\ Closed(d) /\ RecvOutcome(d) \in {"eof", "error"}
    BY <1>4, RecvEffect
  <2>2. c = d /\ phase = "recv" /\ RecvOutcome(c) \in {"eof", "error"}
    BY <2>1 DEF Closed
  <2> QED BY <2>2, EndIsDue
<1>5. CASE Echo
  <2>1. PICK d \in Client : /\ sock'[d].stage = sock[d].stage
                            /\ \A e \in Client \ {d} : sock'[e] = sock[e]
    BY <1>5, EchoEffect
  <2> QED BY <2>1
<1>6. CASE Hangup
  BY <1>6, HangupCloses DEF Closed
<1>7. ASSUME NEW d \in Client, ClientStep(d) PROVE FALSE
  BY <1>7, ClientStepInv DEF IInv, ClientEffect
<1> QED BY <1>1, <1>2, <1>3, <1>4, <1>5, <1>6, <1>7 DEF Next, ServerStep

\* A connection is closed only when its client has ended it and all it had sent was
\* received and, if its buffer has room for it, sent back; or when it is reset.
\* (Of what does not fit, units are lost: see EchoesAll.)
THEOREM ClosedAfterEchoAlways == Spec => ClosedAfterEcho
<1> DEFINE Due == \A c \in Client :
               sock[c].stage = "open" /\ sock'[c].stage = "closed" =>
                   \/ sock[c].fin /\ sock[c].inbox = 0
                      /\ (sock[c].sent <= SendBuffer => echoed[c] = sock[c].sent)
                   \/ sock[c].err # "none" \/ phase' = "exit"
<1>1. IInv /\ EchoInv /\ [Next]_vars => Due
  BY CloseIsDue
<1> QED BY <1>1, EchoAlways, Invariant, PTL DEF Spec, ClosedAfterEcho

----------------------------------------------------------------------------
(* The promise of EchoService. *)

Conns == [c \in Client |-> Conn(c)]

\* What is sent back and received of a connection, as EchoService counts it.
LEMMA ConnIs ==
    ASSUME IInv, EchoInv, NEW c \in Client
    PROVE  /\ Conn(c).stage = "open" <=> sock[c].stage = "open"
           /\ Conn(c).stage = "closed" <=> sock[c].stage = "closed"
           /\ Conn(c).stage = "new" <=> sock[c].stage \in {"out", "queued"}
           /\ Conn(c).sent = sock[c].sent /\ Conn(c).heard = sock[c].sent - sock[c].inbox
           /\ sock[c].stage # "closed" => Conn(c).returned = echoed[c]
           /\ Conn(c).end = "reset" <=> sock[c].err # "none"
           /\ Conn(c).end = "ended" <=> sock[c].err = "none" /\ sock[c].fin
           /\ Conn(c).end = "none" <=> sock[c].err = "none" /\ ~sock[c].fin
  BY Counters DEF IInv, Conn

\* One connection of the service becomes x.
LEMMA OneBecomes ==
    ASSUME NEW c \in Client, NEW x, Conn(c)' = x,
           \A d \in Client \ {c} : sock'[d] = sock[d] /\ echoed'[d] = echoed[d]
    PROVE  Conns' = [Conns EXCEPT ![c] = x] /\ Conns[c] = Conn(c)
<1>1. \A d \in Client \ {c} : Conn(d)' = Conn(d)
  BY DEF Conn
<1> QED BY <1>1 DEF Conns

\* A connection that is closed keeps nothing.
LEMMA ClosedConn ==
    ASSUME NEW c \in Client, sock'[c] = Fresh("closed")
    PROVE  Conn(c)' = Service!Over
<1>1. /\ sock'[c].stage = "closed" /\ sock'[c].sent = 0 /\ sock'[c].inbox = 0
      /\ ~sock'[c].fin /\ sock'[c].err = "none"
  BY DEF Fresh
<1> QED BY <1>1 DEF Conn, Service!Over, Service!Unused

LEMMA AcceptMoves ==
    ASSUME IInv, EchoInv, AcceptOne
    PROVE  Service!Next
<1>1. phase = "accept" /\ phase' # "exit" /\ UNCHANGED echoed
  BY LoopGoesOn DEF AcceptOne
<1>2. PICK c \in Client : Opened(c) \/ Refused(c)
  BY AcceptInv, AcceptAndCloseInv DEF IInv, AcceptOne
<1>3. Conn(c).stage = "new" /\ \A d \in Client \ {c} : sock'[d] = sock[d]
  BY <1>2, ConnIs DEF Opened, Refused
<1>4. CASE Opened(c)
  <2>1. Conn(c)' = [Conn(c) EXCEPT !.stage = "open"]
    BY <1>1, <1>4 DEF Opened, Conn
  <2>2. Conns' = [Conns EXCEPT ![c] = [Conn(c) EXCEPT !.stage = "open"]] /\ Conns[c] = Conn(c)
    BY <1>1, <1>3, <2>1, OneBecomes
  <2>3. Service!Open(c)
    BY <1>3, <2>2 DEF Service!Open, Service!At, Service!Becomes, Conns
  <2> QED BY <1>1, <2>3 DEF Service!Next, Service!ServerMove
<1>5. CASE Refused(c)
  <2>1. Conn(c)' = Service!Over
    BY <1>5, ClosedConn DEF Refused
  <2>2. Conns' = [Conns EXCEPT ![c] = Service!Over] /\ Conns[c] = Conn(c)
    BY <1>1, <1>3, <2>1, OneBecomes
  <2>3. Service!Refuse(c)
    BY <1>3, <2>2 DEF Service!Refuse, Service!At, Service!Becomes, Conns
  <2> QED BY <1>1, <2>3 DEF Service!Next, Service!ServerMove
<1> QED BY <1>2, <1>4, <1>5

LEMMA RecvMoves == ASSUME IInv, EchoInv, Recv PROVE Service!Next
<1>1. phase = "recv" /\ phase' # "exit" /\ UNCHANGED echoed
  BY RecvEffect
<1>2. PICK c \in Client : sock[c].stage = "open" /\
         \/ /\ phase' = "send" /\ bytes_read' \in 1 .. MaxSends
            /\ sock'[c].inbox = sock[c].inbox - bytes_read' /\ sock'[c].inbox \in Nat
            /\ sock'[c].stage = sock[c].stage /\ sock'[c].sent = sock[c].sent
            /\ sock'[c].err = sock[c].err /\ sock'[c].fin = sock[c].fin
            /\ \A d \in Client \ {c} : sock'[d] = sock[d]
         \/ phase' # "send" /\ Closed(c) /\ RecvOutcome(c) \in {"eof", "error"}
  BY RecvEffect
<1>3. /\ sock[c].sent \in Nat /\ sock[c].inbox \in Nat /\ echoed[c] \in Nat /\ InHand(c) = 0
      /\ \A d \in Client \ {c} : sock'[d] = sock[d]
  BY <1>1, <1>2, Types, Counters, InHandIs DEF IInv, Closed
<1>4. CASE phase' = "send"
  <2>1. Conn(c)' = [Conn(c) EXCEPT !.heard = @ + bytes_read']
    BY <1>1, <1>2, <1>3, <1>4 DEF Conn
  <2>2. bytes_read' \in 1 .. Conn(c).sent - Conn(c).heard
    BY <1>2, <1>3, <1>4, ConnIs
  <2>3. Conn(c).sent <= SendBuffer /\ Conn(c).end # "reset" => Conn(c).returned = Conn(c).heard
    BY <1>1, <1>2, <1>3, ConnIs DEF EchoInv, EchoOK
  <2>4. /\ Conns' = [Conns EXCEPT ![c] = [Conn(c) EXCEPT !.heard = @ + bytes_read']]
        /\ Conns[c] = Conn(c)
    BY <1>1, <1>3, <2>1, OneBecomes
  <2>5. Service!Hear(c)
    BY <1>2, <2>2, <2>3, <2>4, ConnIs
       DEF Service!Hear, Service!At, Service!Becomes, Service!Holds, Conns
  <2> QED BY <1>1, <2>5 DEF Service!Next, Service!ServerMove
<1>5. CASE phase' # "send"
  <2>1. Conns' = [Conns EXCEPT ![c] = Service!Over] /\ Conns[c] = Conn(c)
    BY <1>1, <1>2, <1>3, <1>5, ClosedConn, OneBecomes DEF Closed
  <2>2. \/ /\ Conn(c).end = "ended" /\ Conn(c).heard = Conn(c).sent
           /\ Conn(c).sent <= SendBuffer => Conn(c).returned = Conn(c).sent
        \/ Conn(c).end = "reset"
    BY <1>1, <1>2, <1>3, <1>5, EndIsDue, ConnIs
  <2>3. Service!Close(c)
    BY <1>2, <2>1, <2>2, ConnIs
       DEF Service!Close, Service!At, Service!Becomes, Service!Holds, Conns
  <2> QED BY <1>1, <2>3 DEF Service!Next, Service!ServerMove
<1> QED BY <1>4, <1>5

LEMMA HangupMoves == ASSUME IInv, EchoInv, Hangup PROVE Service!Next \/ UNCHANGED Conns
<1>1. phase = "hup" /\ phase' # "exit" /\ UNCHANGED echoed
  BY LoopGoesOn, Types DEF Hangup
<1>2. CASE UNCHANGED sock
  BY <1>1, <1>2 DEF Conns, Conn
<1>3. ASSUME NEW c \in Client, sock[c].err # "none", Closed(c) PROVE Service!Next
  <2>1. Conns' = [Conns EXCEPT ![c] = Service!Over] /\ Conns[c] = Conn(c)
    BY <1>1, <1>3, ClosedConn, OneBecomes DEF Closed
  <2>2. Service!Close(c)
    BY <1>3, <2>1, ConnIs DEF Closed, Service!Close, Service!At, Service!Becomes, Conns
  <2> QED BY <1>1, <2>2 DEF Service!Next, Service!ServerMove
<1> QED BY <1>2, <1>3, HangupCloses

\* A send that takes nothing, or fails, is no step of the service.
LEMMA EchoMoves == ASSUME IInv, EchoInv, Echo PROVE Service!Next \/ UNCHANGED Conns
<1>1. PICK c \in Client :
         /\ phase = "send" /\ c = Peer /\ sock[c].stage = "open" /\ BodyDone
         /\ Sendable(c, bytes_read) \in Nat
         /\ sock'[c].err = IF sock[c].err = "none" THEN "none" ELSE "EPIPE"
         /\ sock'[c].stage = sock[c].stage /\ sock'[c].sent = sock[c].sent
         /\ sock'[c].inbox = sock[c].inbox /\ sock'[c].fin = sock[c].fin
         /\ \A d \in Client \ {c} : sock'[d] = sock[d]
         /\ echoed' = [echoed EXCEPT ![c] = IF sock[c].err = "none"
                                            THEN @ + Sendable(c, bytes_read) ELSE @]
  BY EchoEffect
<1>2. phase' # "exit"
  BY <1>1, BodyGoesOn
<1> DEFINE k == IF sock[c].err = "none" THEN Sendable(c, bytes_read) ELSE 0
<1>3. /\ sock[c].sent \in Nat /\ sock[c].inbox \in Nat /\ sock[c].unread \in Nat
      /\ echoed[c] \in Nat /\ bytes_read \in Nat /\ InHand(c) = bytes_read /\ k \in Nat
  BY <1>1, Types, Counters DEF IInv, InHand
<1>4. echoed'[c] = echoed[c] + k /\ \A d \in Client \ {c} : echoed'[d] = echoed[d]
  BY <1>1, <1>3, Types
<1>5. Conn(c)' = [Conn(c) EXCEPT !.returned = @ + k]
  BY <1>1, <1>3, <1>4 DEF Conn
<1>6. Conns' = [Conns EXCEPT ![c] = [Conn(c) EXCEPT !.returned = @ + k]] /\ Conns[c] = Conn(c)
  BY <1>1, <1>4, <1>5, OneBecomes
<1>7. /\ sock[c].unread <= echoed[c] /\ echoed[c] + bytes_read <= sock[c].sent - sock[c].inbox
      /\ sock[c].err = "none" /\ sock[c].sent <= SendBuffer =>
            echoed[c] + bytes_read = sock[c].sent - sock[c].inbox
  BY <1>1, <1>3 DEF EchoInv, EchoOK
<1>8. CASE k = 0
  <2>1. Conn(c)' = Conn(c)
    BY <1>3, <1>5, <1>8, ConnIs, <1>1 DEF Conn
  <2> QED BY <1>6, <2>1, <1>5 DEF Conns
<1>9. CASE k # 0
  <2>1. k = Sendable(c, bytes_read) /\ sock[c].err = "none"
    BY <1>9
  <2>2. k <= bytes_read /\ (sock[c].sent <= SendBuffer => k = bytes_read)
    BY <1>3, <1>7, <2>1 DEF Sendable
  <2>3. /\ k \in 1 .. Conn(c).heard - Conn(c).returned /\ Conn(c).end # "reset"
        /\ Conn(c).sent <= SendBuffer => k = Conn(c).heard - Conn(c).returned
    BY <1>1, <1>3, <1>7, <1>9, <2>1, <2>2, ConnIs
  <2> HIDE DEF k
  <2>4. Service!Return(c)
    BY <1>1, <1>6, <2>3, ConnIs
       DEF Service!Return, Service!At, Service!Becomes, Service!Holds, Conns
  <2> QED BY <1>1, <1>2, <2>4 DEF Service!Next, Service!ServerMove
<1> QED BY <1>8, <1>9

\* When main returns, each open connection is over.
LEMMA PollFailsMoves == ASSUME IInv, EchoInv, PollFails PROVE Service!Next
<1>1. phase = "poll" /\ phase' = "exit" /\ Close(DOMAIN table) /\ UNCHANGED echoed
  BY DEF PollFails
<1>2. ASSUME NEW c \in Client
      PROVE  Conn(c)' = IF Conn(c).stage = "open" THEN Service!Over ELSE Conn(c)
  <2>1. CASE sock[c].stage = "open"
    <3>1. \E f \in DOMAIN table \cap DOMAIN table : table[f] = c
      BY <2>1, Types DEF IInv, NetworkInv, WellConnected
    <3>2. sock'[c] = Fresh("closed")
      BY <1>1, <3>1 DEF Close
    <3> QED BY <2>1, <3>2, ClosedConn, ConnIs
  <2>2. CASE sock[c].stage # "open"
    <3>1. \A f \in DOMAIN table \cap DOMAIN table : table[f] # c
      BY <2>2, Types
    <3>2. sock'[c] = sock[c]
      BY <1>1, <3>1 DEF Close
    <3> QED BY <1>1, <2>2, <3>2, ConnIs DEF Conn
  <2> QED BY <2>1, <2>2
<1>3. Conns' = [c \in Client |-> IF Conn(c).stage = "open" THEN Service!Over ELSE Conn(c)]
  BY <1>2 DEF Conns
<1>4. Service!Stop
  BY <1>1, <1>3 DEF Service!Stop, Service!At, Conns
<1> QED BY <1>4 DEF Service!Next

LEMMA ClientMoves ==
    ASSUME IInv, EchoInv, NEW c \in Client, ClientStep(c), UNCHANGED server
    PROVE  Service!Next \/ UNCHANGED Conns
<1>1. UNCHANGED <<phase, echoed>> /\ \A d \in Client \ {c} : sock'[d] = sock[d]
  BY ClientStepCases DEF IInv, server
<1>2. sock[c].sent \in Nat /\ sock[c].inbox \in Nat
  BY Counters DEF IInv
<1> DEFINE x == Conn(c)'
<1>3. Conns' = [Conns EXCEPT ![c] = x] /\ Conns[c] = Conn(c)
  BY <1>1, OneBecomes
<1>4. \/ x = Conn(c)
      \/ /\ Conn(c).stage # "closed" /\ Conn(c).end = "none"
         /\ x = [Conn(c) EXCEPT !.sent = @ + 1]
      \/ /\ Conn(c).stage # "closed" /\ Conn(c).end = "none"
         /\ x = [Conn(c) EXCEPT !.end = "ended"]
      \/ Conn(c).stage # "closed" /\ x = [Conn(c) EXCEPT !.end = "reset"]
  <2>1. CASE /\ \/ sock'[c].stage = sock[c].stage
                \/ sock[c].stage = "out" /\ sock'[c].stage = "queued"
             /\ sock'[c].sent = sock[c].sent /\ sock'[c].inbox = sock[c].inbox
             /\ sock'[c].fin = sock[c].fin /\ sock'[c].err = sock[c].err
    BY <1>1, <2>1 DEF Conn
  <2>2. CASE /\ sock'[c].stage = sock[c].stage /\ sock[c].stage \in {"queued", "open"}
             /\ sock'[c].sent = sock[c].sent + 1 /\ sock'[c].inbox = sock[c].inbox + 1
             /\ ~sock[c].fin /\ ~sock'[c].fin /\ sock[c].err = "none" /\ sock'[c].err = "none"
    BY <1>1, <1>2, <2>2 DEF Conn
  <2>3. CASE /\ sock'[c].stage = sock[c].stage /\ sock[c].stage \in {"queued", "open"}
             /\ sock'[c].sent = sock[c].sent /\ sock'[c].inbox = sock[c].inbox
             /\ ~sock[c].fin /\ sock'[c].fin /\ sock[c].err = "none" /\ sock'[c].err = "none"
    BY <1>1, <2>3 DEF Conn
  <2>4. CASE /\ sock'[c].stage = sock[c].stage /\ sock[c].stage \in {"queued", "open"}
             /\ sock'[c].sent = sock[c].sent /\ sock'[c].inbox = sock[c].inbox
             /\ sock'[c].fin = sock[c].fin /\ sock'[c].err # "none"
    BY <1>1, <2>4 DEF Conn
  <2> QED BY <2>1, <2>2, <2>3, <2>4, ClientStepCases DEF IInv
<1> HIDE DEF x
<1>5. UNCHANGED Conns \/ Service!ClientMove(c)
  BY <1>3, <1>4 DEF Service!ClientMove, Service!Send, Service!End, Service!Break, Service!At,
                    Service!Becomes, Conns
<1> QED BY <1>1, <1>5 DEF Service!Next

\* Each step of the program is one of the service or none.
LEMMA Refines ==
    IInv /\ EchoInv /\ [Next]_vars => [Service!Next]_<<Conns, phase # "exit">>
<1> SUFFICES ASSUME IInv, EchoInv, [Next]_vars
             PROVE  Service!Next \/ UNCHANGED <<Conns, phase # "exit">>
  OBVIOUS
<1>1. CASE Poll \/ AcceptFails \/ UNCHANGED vars
  <2>1. UNCHANGED <<sock, echoed>> /\ (phase # "exit")' = (phase # "exit")
    BY <1>1, LoopGoesOn DEF Poll, AcceptFails, vars, network, server
  <2>2. \A c \in Client : Conn(c)' = Conn(c)
    BY <2>1 DEF Conn
  <2> QED BY <2>1, <2>2 DEF Conns
<1>2. CASE Echo \/ Hangup
  <2>1. (phase # "exit")' = (phase # "exit")
    BY <1>2, BodyGoesOn, LoopGoesOn, Types DEF Echo, Hangup
  <2> QED BY <1>2, <2>1, EchoMoves, HangupMoves
<1>3. ASSUME NEW c \in Client, ClientStep(c), UNCHANGED server
      PROVE  Service!Next \/ UNCHANGED <<Conns, phase # "exit">>
  BY <1>3, ClientMoves DEF server
<1> QED BY <1>1, <1>2, <1>3, AcceptMoves, RecvMoves, PollFailsMoves DEF Next, ServerStep

\* The server keeps the promise of EchoService to all clients at once, whatever they
\* do and however small the buffers are.
THEOREM NonblockingImplementsEcho == Spec => ImplementsEcho
<1>1. Init => Service!Init
  <2> SUFFICES ASSUME Init PROVE Conns = [c \in Client |-> Service!Unused] /\ phase # "exit"
    BY DEF Service!Init, Conns
  <2>1. ASSUME NEW c \in Client PROVE Conn(c) = Service!Unused
    <3>1. /\ sock[c].stage = "out" /\ sock[c].sent = 0 /\ sock[c].inbox = 0
          /\ ~sock[c].fin /\ sock[c].err = "none" /\ echoed[c] = 0
      BY DEF Init, NetworkInit, Fresh
    <3> QED BY <3>1 DEF Conn, Service!Unused
  <2> QED BY <2>1 DEF Conns, Init
<1>2. IInv /\ EchoInv /\ [Next]_vars
      => [Service!Next]_<<[c \in Client |-> Conn(c)], phase # "exit">>
  BY Refines DEF Conns
<1> QED BY <1>1, <1>2, EchoAlways, Invariant, PTL DEF Spec, ImplementsEcho, Service!Spec
=============================================================================
