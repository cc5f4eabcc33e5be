--------------------------- MODULE PollServer_proof ---------------------------
(***************************************************************************)
(* Proofs about PollServer, for any number of clients, slots, descriptors  *)
(* and messages.                                                           *)
(***************************************************************************)
EXTENDS PollServer, Sockets_proof

\* Each slot in use has an open connection, and each open connection a slot.
Matched ==
    /\ \A s \in Slot : fds[s] # NoFd => fds[s] \in DOMAIN table
    /\ \A f \in DOMAIN table : \E s \in Slot : fds[s] = f

OneSlot == \A s, t \in Slot : fds[s] = fds[t] /\ fds[s] # NoFd => s = t

\* What poll has stored of a broken connection is still true of the connection
\* that is in the slot now.
Fresher(s) == "POLLHUP" \in revents[s] /\ fds[s] # NoFd => sock[table[fds[s]]].err # "none"

\* The places of the loop.  An empty slot has no revents while the accept loop
\* fills it; at the end of the body a slot that recv has emptied leaves a number
\* behind in fd that is not in use.
PlaceOK ==
    /\ phase = "accept" => \A s \in Slot : fds[s] = NoFd => revents[s] = {}
    /\ phase \in {"accept", "recv", "send", "hup"} => \A s \in Slot : Fresher(s)
    /\ phase = "recv" => fds[i] # NoFd
    /\ phase = "send" => fd = fds[i] /\ fd # NoFd
    /\ phase = "hup" => /\ "POLLHUP" \in revents[i]
                        /\ fds[i] = fd \/ (fds[i] = NoFd /\ fd \notin DOMAIN table)

IInv ==
    /\ TypeOK /\ NetworkInv
    /\ phase # "exit" => Matched
    /\ phase = "exit" => table = <<>>
    /\ OneSlot
    /\ PlaceOK

USE BoundsAssumption, MaxClientsAssumption DEF Fd, NoFd, Slot
----------------------------------------------------------------------------
\* What the invariant says of the types of the variables.
LEMMA Types ==
    ASSUME IInv
    PROVE  /\ fds \in [Slot -> Fd \cup {NoFd}]
           /\ revents \in [Slot -> SUBSET {"POLLIN", "POLLHUP"}]
           /\ phase \in {"poll", "accept", "recv", "send", "hup", "exit"}
           /\ i \in Slot /\ fd \in Fd \cup {NoFd}
           /\ NoFd \notin DOMAIN table /\ DOMAIN table \subseteq Fd
           /\ \A f \in DOMAIN table : table[f] \in Client /\ sock[table[f]].stage = "open"
           /\ phase # "exit" => \A s \in Slot : fds[s] # NoFd =>
                 fds[s] \in DOMAIN table /\ table[fds[s]] \in Client /\ sock[table[fds[s]]].stage = "open"
<1>1. /\ DOMAIN table \subseteq Fd
      /\ \A f \in DOMAIN table : table[f] \in Client /\ sock[table[f]].stage = "open"
  BY NetworkFields DEF IInv, NetworkInv, WellConnected
<1>2. NoFd \notin DOMAIN table
  BY <1>1
<1> QED BY <1>1, <1>2 DEF IInv, TypeOK, Matched

\* Without a descriptor in use there is no table.
LEMMA EmptyTable ==
    ASSUME NEW D, Close(D), DOMAIN table \ D = {}
    PROVE  table' = <<>>
  BY DEF Close, Restrict

LEMMA InitInv == Init => IInv
<1> SUFFICES ASSUME Init PROVE IInv
  OBVIOUS
<1>1. NetworkInv /\ DOMAIN table = {}
  BY NetworkInitInv DEF Init, NetworkInit
<1>2. TypeOK /\ phase = "poll"
  BY <1>1 DEF Init, NetworkInv, TypeOK
<1>3. Matched /\ OneSlot
  BY <1>1 DEF Init, Matched, OneSlot
<1> QED BY <1>1, <1>2, <1>3 DEF IInv, PlaceOK

\* Where the loop goes on from slot k: to a slot in use that poll reported, or to
\* poll.
LEMMA LoopGoesOn ==
    ASSUME NEW k \in 1 .. MAX_CLIENTS + 1, LoopFrom(k)
    PROVE  /\ phase' \in {"poll", "recv"} /\ i' \in Slot
           /\ phase' = "recv" => fds'[i'] # NoFd /\ revents'[i'] # {}
  BY DEF LoopFrom

LEMMA BodyGoesOn ==
    ASSUME IInv, phase # "exit", BodyDone
    PROVE  /\ i' \in Slot
           /\ \/ /\ phase' = "hup" /\ i' = i /\ fd' = fds[i] /\ "POLLHUP" \in revents[i]
              \/ /\ phase' \in {"poll", "recv"} /\ fd' = NoFd
                 /\ phase' = "recv" => fds'[i'] # NoFd
<1>1. i + 1 \in 1 .. MAX_CLIENTS + 1
  BY Types
<1> QED BY <1>1, LoopGoesOn, Types DEF BodyDone

\* The rest of the invariant after a step that leaves the slots and descriptors
\* alone and takes no error from a socket.
LEMMA SlotsStay ==
    ASSUME IInv, NetworkInv', phase # "exit", UNCHANGED <<fds, table>>,
           \A c \in Client : sock[c].err # "none" => sock'[c].err # "none"
    PROVE  /\ Matched' /\ OneSlot'
           /\ \A s \in Slot : UNCHANGED revents /\ Fresher(s) => Fresher(s)'
  BY Types DEF IInv, Matched, OneSlot, Fresher

\* The slot of a connection that is closed is emptied.
LEMMA SlotClosed ==
    ASSUME IInv, phase # "exit", NEW s \in Slot, fds[s] # NoFd, Close({fds[s]}),
           fds' = [fds EXCEPT ![s] = NoFd], UNCHANGED revents
    PROVE  /\ NetworkInv' /\ UNCHANGED killed
           /\ Matched' /\ OneSlot' /\ fds[s] \notin DOMAIN table'
           /\ \A t \in Slot : Fresher(t) => Fresher(t)'
           /\ \A c \in Client : sock'[c] = sock[c] \/ c = table[fds[s]]
<1>1. PICK f \in DOMAIN table : f = fds[s]
  BY Types
<1>2. /\ NetworkInv' /\ UNCHANGED killed
      /\ DOMAIN table' = DOMAIN table \ {f}
      /\ \A g \in DOMAIN table' : table'[g] = table[g]
  BY <1>1, CloseOneInv DEF IInv
<1>3. PICK c \in Client : c = table[f] /\ Closed(c)
  BY <1>1, CloseOneInv DEF IInv
<1>4. /\ fds'[s] = NoFd /\ \A t \in Slot \ {s} : fds'[t] = fds[t] /\ (fds[t] # NoFd => fds[t] # f)
  BY <1>1, Types DEF IInv, OneSlot
<1>5. Matched'
  BY <1>1, <1>2, <1>4, Types DEF IInv, Matched
<1>6. OneSlot'
  BY <1>4 DEF IInv, OneSlot
<1>7. ASSUME NEW t \in Slot, Fresher(t) PROVE Fresher(t)'
  <2>1. CASE t = s
    BY <1>4, <2>1 DEF Fresher
  <2>2. CASE t # s /\ fds[t] # NoFd
    <3>1. table[fds[t]] # c /\ table[fds[t]] \in Client /\ fds[t] \in DOMAIN table'
      BY <1>1, <1>2, <1>3, <1>4, <2>2, Types DEF IInv, NetworkInv, WellConnected
    <3> QED BY <1>2, <1>3, <1>4, <1>7, <2>2, <3>1 DEF Fresher, Closed
  <2> QED BY <1>4, <2>1, <2>2 DEF Fresher
<1> QED BY <1>1, <1>2, <1>3, <1>5, <1>6, <1>7 DEF Closed

----------------------------------------------------------------------------
(* The steps of main. *)

LEMMA PollInv == IInv /\ Poll => IInv'
<1> SUFFICES ASSUME IInv, Poll PROVE IInv'
  OBVIOUS
<1>1. /\ phase = "poll" /\ revents' = [s \in Slot |-> Polled(s)]
      /\ UNCHANGED <<backlog, table, sock, killed, fds, fd>>
      /\ (phase' = "accept" /\ i' = 1) \/ LoopFrom(1)
  BY DEF Poll, network
<1>2. NetworkInv'
  BY <1>1 DEF IInv, NetworkInv, NetworkType, WellConnected, SocketSound
<1>3. /\ phase' \in {"accept", "poll", "recv"} /\ i' \in Slot
      /\ phase' = "recv" => fds'[i'] # NoFd
  BY <1>1, LoopGoesOn
<1>4. \A s \in Slot : revents'[s] = Polled(s) /\ Polled(s) \in SUBSET {"POLLIN", "POLLHUP"}
  BY <1>1 DEF Polled, Events
<1>5. TypeOK'
  BY <1>1, <1>2, <1>3, <1>4, Types DEF TypeOK, NetworkInv
<1>6. Matched' /\ OneSlot'
  BY <1>1 DEF IInv, Matched, OneSlot
<1>7. \A s \in Slot : Fresher(s)' /\ (fds'[s] = NoFd => revents'[s] = {})
  BY <1>1, <1>4 DEF Fresher, Polled, Events
<1> QED BY <1>2, <1>3, <1>5, <1>6, <1>7 DEF IInv, PlaceOK

LEMMA PollFailsInv == IInv /\ PollFails => IInv'
<1> SUFFICES ASSUME IInv, PollFails PROVE IInv'
  OBVIOUS
<1> DEFINE D == {fds[s] : s \in Slot}
<1>1. /\ phase = "poll" /\ Close(D) /\ phase' = "exit" /\ UNCHANGED <<fds, revents, i, fd>>
  BY DEF PollFails
<1>2. NetworkInv'
  BY <1>1, CloseInv DEF IInv
<1>3. TypeOK'
  BY <1>1, <1>2, Types DEF TypeOK, NetworkInv
<1>4. DOMAIN table \ D = {}
  BY <1>1 DEF IInv, Matched
<1>5. table' = <<>>
  <2> HIDE DEF D
  <2> QED BY <1>1, <1>4, EmptyTable
<1>6. OneSlot'
  BY <1>1 DEF IInv, OneSlot
<1> QED BY <1>1, <1>2, <1>3, <1>5, <1>6 DEF IInv, PlaceOK

LEMMA AcceptOneInv == IInv /\ AcceptOne => IInv'
<1> SUFFICES ASSUME IInv, AcceptOne PROVE IInv'
  OBVIOUS
<1>1. phase = "accept" /\ UNCHANGED <<revents, phase, i, fd>>
  BY DEF AcceptOne
<1>2. ASSUME NEW s \in Slot, NEW new \in Fd, fds[s] = NoFd, Accept(new),
             fds' = [fds EXCEPT ![s] = new]
      PROVE  IInv'
  <2>1. PICK c \in Client : table'[new] = c /\ Opened(c)
    BY <1>2, AcceptInv DEF IInv
  <2>2. /\ NetworkInv' /\ new \in Fd \ DOMAIN table /\ DOMAIN table' = DOMAIN table \cup {new}
        /\ \A g \in DOMAIN table : table'[g] = table[g]
    BY <1>2, AcceptInv DEF IInv
  <2>3. fds'[s] = new /\ \A t \in Slot \ {s} : fds'[t] = fds[t] /\ fds[t] # new
    BY <1>1, <1>2, <2>2, Types
  <2>4. TypeOK'
    BY <1>1, <1>2, <2>2, Types DEF TypeOK, NetworkInv
  <2>5. Matched'
    <3>1. \A f \in DOMAIN table : \E t \in Slot \ {s} : fds[t] = f
      BY <1>1, <1>2, Types DEF IInv, Matched
    <3>2. \A t \in Slot : fds'[t] # NoFd => fds'[t] \in DOMAIN table'
      BY <1>1, <2>2, <2>3, Types
    <3>3. \A f \in DOMAIN table' : \E t \in Slot : fds'[t] = f
      BY <2>2, <2>3, <3>1
    <3> QED BY <3>2, <3>3 DEF Matched
  <2>6. OneSlot'
    BY <2>3 DEF IInv, OneSlot
  <2>7. ASSUME NEW t \in Slot
        PROVE  Fresher(t)' /\ (fds'[t] = NoFd => revents'[t] = {})
    <3>1. CASE t = s
      BY <1>1, <1>2, <2>3, <3>1 DEF IInv, PlaceOK, Fresher
    <3>2. CASE t # s
      <4>1. Fresher(t) /\ (fds[t] = NoFd => revents[t] = {})
        BY <1>1 DEF IInv, PlaceOK
      <4>2. fds[t] # NoFd => /\ table[fds[t]] # c /\ table[fds[t]] \in Client
                             /\ fds[t] \in DOMAIN table
        BY <1>1, <2>1, Types DEF Opened
      <4> QED BY <1>1, <2>1, <2>2, <2>3, <3>2, <4>1, <4>2 DEF Fresher, Opened
    <3> QED BY <3>1, <3>2
  <2> QED BY <1>1, <2>2, <2>4, <2>5, <2>6, <2>7 DEF IInv, PlaceOK
<1>3. CASE AcceptAndClose /\ UNCHANGED fds
  <2>1. NetworkInv' /\ UNCHANGED table
    BY <1>3, AcceptAndCloseInv DEF IInv
  <2>2. PICK c \in Client : Refused(c)
    BY <1>3, AcceptAndCloseInv DEF IInv
  <2>3. TypeOK'
    BY <1>1, <1>3, <2>1, Types DEF TypeOK, NetworkInv
  <2>4. Matched' /\ OneSlot'
    BY <1>1, <1>3, <2>1 DEF IInv, Matched, OneSlot
  <2>5. ASSUME NEW s \in Slot PROVE Fresher(s)'
    <3>1. Fresher(s)
      BY <1>1 DEF IInv, PlaceOK
    <3>2. fds[s] # NoFd => table[fds[s]] # c /\ table[fds[s]] \in Client
      BY <1>1, <2>2, Types DEF Refused
    <3> QED BY <1>1, <1>3, <2>1, <2>2, <3>1, <3>2 DEF Fresher, Refused
  <2> QED BY <1>1, <1>3, <2>1, <2>3, <2>4, <2>5 DEF IInv, PlaceOK
<1> QED BY <1>2, <1>3 DEF AcceptOne

LEMMA AcceptEndsInv == IInv /\ AcceptEnds => IInv'
<1> SUFFICES ASSUME IInv, AcceptEnds PROVE IInv'
  OBVIOUS
<1>1. /\ phase = "accept" /\ UNCHANGED <<backlog, table, sock, killed, fds, revents, fd>>
      /\ LoopFrom(1)
  BY DEF AcceptEnds, network
<1>2. NetworkInv'
  BY <1>1 DEF IInv, NetworkInv, NetworkType, WellConnected, SocketSound
<1>3. /\ phase' \in {"poll", "recv"} /\ i' \in Slot
      /\ phase' = "recv" => fds'[i'] # NoFd
  BY <1>1, LoopGoesOn
<1>4. TypeOK'
  BY <1>1, <1>2, <1>3, Types DEF TypeOK, NetworkInv
<1>5. Matched' /\ OneSlot' /\ \A s \in Slot : Fresher(s)'
  BY <1>1, <1>2, SlotsStay DEF IInv, PlaceOK
<1> QED BY <1>2, <1>3, <1>4, <1>5 DEF IInv, PlaceOK

\* The end of the body of the loop, after recv or send.
LEMMA BodyDoneInv ==
    ASSUME IInv, BodyDone, NetworkInv', phase \in {"recv", "send"},
           fds' \in [Slot -> Fd \cup {NoFd}], UNCHANGED revents,
           Matched', OneSlot', \A s \in Slot : Fresher(s) => Fresher(s)',
           fds[i] # NoFd,
           UNCHANGED fds \/ (fds'[i] = NoFd /\ fds[i] \notin DOMAIN table')
    PROVE  IInv'
<1>1. /\ i' \in Slot
      /\ \/ /\ phase' = "hup" /\ i' = i /\ fd' = fds[i] /\ "POLLHUP" \in revents[i]
         \/ /\ phase' \in {"poll", "recv"} /\ fd' = NoFd
            /\ phase' = "recv" => fds'[i'] # NoFd
  BY BodyGoesOn
<1>2. TypeOK'
  BY <1>1, Types DEF TypeOK, NetworkInv
<1>3. \A s \in Slot : Fresher(s)'
  BY DEF IInv, PlaceOK
<1>4. PlaceOK'
  BY <1>1, <1>3, Types DEF PlaceOK
<1> QED BY <1>1, <1>2, <1>4 DEF IInv

LEMMA RecvInv == IInv /\ Recv => IInv'
<1> SUFFICES ASSUME IInv, Recv PROVE IInv'
  OBVIOUS
<1>1. phase = "recv" /\ fds[i] # NoFd /\ UNCHANGED revents /\ i \in Slot
  BY Types DEF Recv, IInv, PlaceOK
<1>2. PICK c \in Client : c = table[fds[i]] /\ sock[c].stage = "open"
  BY <1>1, Types
<1>3. ASSUME NEW k \in 1 .. MaxSends, RecvData(c, k), phase' = "send", fd' = fds[i],
             UNCHANGED <<fds, i>>
      PROVE  IInv'
  <2>1. NetworkInv /\ k \in Int
    BY DEF IInv
  <2>2. /\ NetworkInv' /\ UNCHANGED table /\ sock'[c].err = sock[c].err
        /\ \A d \in Client \ {c} : sock'[d] = sock[d]
    BY <1>2, <1>3, <2>1, RecvDataInv
  <2>3. Matched' /\ OneSlot' /\ \A s \in Slot : Fresher(s)'
    BY <1>1, <1>3, <2>2, SlotsStay DEF IInv, PlaceOK
  <2>4. TypeOK'
    BY <1>1, <1>3, <2>2, Types DEF TypeOK, NetworkInv
  <2> QED BY <1>1, <1>3, <2>2, <2>3, <2>4 DEF IInv, PlaceOK
<1>4. CASE Close({fds[i]}) /\ fds' = [fds EXCEPT ![i] = NoFd] /\ BodyDone
  <2>1. /\ NetworkInv' /\ Matched' /\ OneSlot' /\ fds[i] \notin DOMAIN table'
        /\ \A s \in Slot : Fresher(s) => Fresher(s)'
    BY <1>1, <1>4, SlotClosed
  <2>2. fds' \in [Slot -> Fd \cup {NoFd}] /\ fds'[i] = NoFd
    BY <1>1, <1>4, Types
  <2> QED BY <1>1, <1>4, <2>1, <2>2, BodyDoneInv
<1>5. CASE UNCHANGED <<network, fds>> /\ BodyDone
  <2>1. NetworkInv' /\ UNCHANGED <<table, sock>>
    BY <1>5 DEF IInv, NetworkInv, NetworkType, WellConnected, network, SocketSound
  <2>2. Matched' /\ OneSlot' /\ \A s \in Slot : Fresher(s) => Fresher(s)'
    BY <1>1, <1>5, <2>1, SlotsStay
  <2> QED BY <1>1, <1>5, <2>1, <2>2, BodyDoneInv, Types
<1> QED BY <1>2, <1>3, <1>4, <1>5 DEF Recv, RecvSome

LEMMA SendInv == IInv /\ Send => IInv'
<1> SUFFICES ASSUME IInv, Send PROVE IInv'
  OBVIOUS
<1>1. /\ phase = "send" /\ fd = fds[i] /\ fds[i] # NoFd /\ UNCHANGED <<fds, revents>>
      /\ i \in Slot /\ BodyDone
  BY Types DEF Send, IInv, PlaceOK
<1>2. PICK c \in Client : c = table[fds[i]] /\ sock[c].stage = "open"
  BY <1>1, Types
<1>3. SendUnits(c, 1) /\ NetworkInv
  BY <1>1, <1>2 DEF Send, SendReply, IInv
<1>4. /\ NetworkInv' /\ UNCHANGED table
      /\ sock'[c].err = IF sock[c].err = "none" THEN "none" ELSE "EPIPE"
      /\ \A d \in Client \ {c} : sock'[d] = sock[d]
  BY <1>2, <1>3, SendUnitsInv
<1>5. Matched' /\ OneSlot' /\ \A s \in Slot : Fresher(s) => Fresher(s)'
  BY <1>1, <1>4, SlotsStay
<1> QED BY <1>1, <1>4, <1>5, BodyDoneInv, Types

LEMMA HangupInv == IInv /\ Hangup => IInv'
<1> SUFFICES ASSUME IInv, Hangup PROVE IInv'
  OBVIOUS
<1>1. /\ phase = "hup" /\ Close({fd}) /\ fds' = [fds EXCEPT ![i] = NoFd] /\ UNCHANGED revents
      /\ LoopFrom(i + 1) /\ fd' = NoFd /\ i \in Slot
      /\ fds[i] = fd \/ (fds[i] = NoFd /\ fd \notin DOMAIN table)
  BY Types DEF Hangup, IInv, PlaceOK
<1>2. /\ phase' \in {"poll", "recv"} /\ i' \in Slot
      /\ phase' = "recv" => fds'[i'] # NoFd
  BY <1>1, LoopGoesOn
<1>3. NetworkInv' /\ Matched' /\ OneSlot' /\ \A s \in Slot : Fresher(s) => Fresher(s)'
  <2>1. CASE fds[i] # NoFd
    BY <1>1, <2>1, SlotClosed
  <2>2. CASE fds[i] = NoFd
    <3>1. fd \notin DOMAIN table /\ fds' = fds
      BY <1>1, <2>2, Types
    <3>2. /\ NetworkInv' /\ DOMAIN table' = DOMAIN table \ {fd}
          /\ \A g \in DOMAIN table' : table'[g] = table[g]
          /\ \A d \in Client : (\A f \in {fd} \cap DOMAIN table : table[f] # d) => sock'[d] = sock[d]
      <4>1. NetworkInv /\ Close({fd})
        BY <1>1 DEF IInv
      <4> QED BY <4>1, CloseInv
    <3>3. Matched' /\ OneSlot'
      BY <1>1, <3>1, <3>2 DEF IInv, Matched, OneSlot
    <3>4. \A s \in Slot : Fresher(s) => Fresher(s)'
      BY <1>1, <3>1, <3>2, Types DEF Fresher
    <3> QED BY <3>2, <3>3, <3>4
  <2> QED BY <2>1, <2>2
<1>4. TypeOK'
  BY <1>1, <1>2, <1>3, Types DEF TypeOK, NetworkInv
<1> QED BY <1>1, <1>2, <1>3, <1>4 DEF IInv, PlaceOK

LEMMA ClientInv == ASSUME IInv, NEW c \in Client, ClientStep(c), UNCHANGED server PROVE IInv'
<1>1. NetworkInv' /\ UNCHANGED <<table, killed>> /\ \A d \in Client : ClientEffect(d)
  BY ClientStepInv DEF IInv
<1>2. UNCHANGED <<fds, revents, phase, i, fd, table>>
  BY <1>1 DEF server
<1>3. TypeOK'
  BY <1>1, <1>2, Types DEF TypeOK, NetworkInv
<1>4. (phase # "exit" => Matched') /\ OneSlot'
  BY <1>2 DEF IInv, Matched, OneSlot
<1>5. \A s \in Slot : phase # "exit" /\ Fresher(s) => Fresher(s)'
  BY <1>1, <1>2, Types DEF Fresher, ClientEffect
<1> QED BY <1>1, <1>2, <1>3, <1>4, <1>5 DEF IInv, PlaceOK

LEMMA NextInv == IInv /\ [Next]_vars => IInv'
<1> SUFFICES ASSUME IInv, [Next]_vars PROVE IInv'
  OBVIOUS
<1>1. CASE ServerStep
  BY <1>1, PollInv, AcceptOneInv, AcceptEndsInv, RecvInv, SendInv, HangupInv DEF ServerStep
<1>2. CASE PollFails
  BY <1>2, PollFailsInv
<1>3. ASSUME NEW c \in Client, ClientStep(c), UNCHANGED server PROVE IInv'
  BY <1>3, ClientInv
<1>4. CASE UNCHANGED vars
  BY <1>4 DEF vars, server, network, IInv, TypeOK, NetworkInv, NetworkType, WellConnected,
              SocketSound, Matched, OneSlot, PlaceOK, Fresher
<1> QED BY <1>1, <1>2, <1>3, <1>4 DEF Next
----------------------------------------------------------------------------
(* Theorems. *)

\* The invariant holds in every reachable state.
THEOREM Invariant == Spec => []IInv
  BY InitInv, NextInv, PTL DEF Spec

\* Every variable keeps its type, for any number of slots and clients: the loop
\* never leaves the table.
THEOREM TypeCorrect == Spec => []TypeOK
<1>1. IInv => TypeOK
  BY DEF IInv
<1> QED BY <1>1, Invariant, PTL

\* Between two turns of the loop the slots and the open connections match one to
\* one, whatever has been accepted and closed in whatever order; and nothing is
\* open once main has returned.
THEOREM SlotsMatchAlways == Spec => []SlotsMatchConnections
<1>1. IInv => SlotsMatchConnections
  <2> SUFFICES ASSUME IInv PROVE SlotsMatchConnections
    OBVIOUS
  <2>1. phase = "poll" => {fds[s] : s \in Slot} \ {NoFd} = DOMAIN table
    <3> SUFFICES ASSUME phase = "poll"
                 PROVE  \A f : f \in {fds[s] : s \in Slot} \ {NoFd} <=> f \in DOMAIN table
      OBVIOUS
    <3>1. \A s \in Slot : fds[s] # NoFd => fds[s] \in DOMAIN table
      BY DEF IInv, Matched
    <3>2. \A f \in DOMAIN table : f # NoFd /\ \E s \in Slot : fds[s] = f
      BY Types DEF IInv, Matched
    <3> QED BY <3>1, <3>2
  <2> QED BY <2>1 DEF IInv, OneSlot, SlotsMatchConnections
<1> QED BY <1>1, Invariant, PTL

\* What a step that closes connections was allowed to close: the one in the slot
\* the loop is at, which recv or poll found ended; the head of the queue when all
\* slots are taken; or all, when main returns.
LEMMA CloseIsDue ==
    ASSUME IInv, [Next]_vars, NEW c \in Client,
           sock[c].stage # "closed", sock'[c].stage = "closed"
    PROVE  \/ sock[c].fin \/ sock[c].err # "none"
           \/ sock[c].stage = "queued" /\ \A s \in Slot : fds[s] # NoFd
           \/ phase' = "exit"
<1>1. CASE Poll \/ AcceptEnds \/ UNCHANGED vars
  BY <1>1 DEF Poll, AcceptEnds, vars, network
<1>2. CASE PollFails
  BY <1>2 DEF PollFails
<1>3. CASE AcceptOne
  <2>1. ASSUME NEW new \in Fd, Accept(new) PROVE FALSE
    <3>1. PICK d \in Client : Opened(d)
      BY <2>1, AcceptInv DEF IInv
    <3> QED BY <3>1 DEF Opened
  <2>2. CASE AcceptAndClose /\ \A s \in Slot : fds[s] # NoFd
    <3>1. PICK d \in Client : Refused(d)
      BY <2>2, AcceptAndCloseInv DEF IInv
    <3> QED BY <2>2, <3>1 DEF Refused
  <2> QED BY <1>3, <2>1, <2>2 DEF AcceptOne
<1>4. CASE Recv
  <2>1. phase = "recv" /\ fds[i] # NoFd /\ i \in Slot
    BY <1>4, Types DEF Recv, IInv, PlaceOK
  <2>2. PICK d \in Client : d = table[fds[i]] /\ sock[d].stage = "open"
    BY <2>1, Types
  <2>3. ASSUME NEW k \in 1 .. MaxSends, RecvData(d, k) PROVE FALSE
    <3>1. NetworkInv /\ k \in Int
      BY DEF IInv
    <3>2. sock'[d].stage = sock[d].stage /\ \A e \in Client \ {d} : sock'[e] = sock[e]
      BY <2>2, <2>3, <3>1, RecvDataInv
    <3> QED BY <3>2
  <2>4. CASE UNCHANGED network
    BY <2>4 DEF network
  <2>5. CASE /\ RecvOutcome(d) \in {"eof", "error"} /\ Close({fds[i]})
             /\ fds' = [fds EXCEPT ![i] = NoFd]
    <3>1. sock[d].fin \/ sock[d].err # "none"
      <4>1. sock[d].inbox \in Nat
        BY DEF IInv, NetworkInv, NetworkType, Socket
      <4> QED BY <2>5, <4>1 DEF RecvOutcome, AtEnd
    <3>2. c = d
      BY <1>4, <2>1, <2>2, <2>5, SlotClosed DEF Recv
    <3> QED BY <3>1, <3>2
  <2> QED BY <1>4, <2>2, <2>3, <2>4, <2>5 DEF Recv, RecvSome
<1>5. CASE Send
  <2>1. phase = "send" /\ fd = fds[i] /\ fds[i] # NoFd /\ i \in Slot
    BY <1>5, Types DEF Send, IInv, PlaceOK
  <2>2. PICK d \in Client : d = table[fd] /\ sock[d].stage = "open"
    BY <2>1, Types
  <2>3. SendUnits(d, 1) /\ NetworkInv
    BY <1>5, <2>2 DEF Send, SendReply, IInv
  <2>4. sock'[d].stage = sock[d].stage /\ \A e \in Client \ {d} : sock'[e] = sock[e]
    BY <2>2, <2>3, SendUnitsInv
  <2> QED BY <2>4
<1>6. CASE Hangup
  <2>1. /\ phase = "hup" /\ Close({fd}) /\ fds' = [fds EXCEPT ![i] = NoFd] /\ i \in Slot
        /\ "POLLHUP" \in revents[i] /\ Fresher(i) /\ UNCHANGED revents
        /\ fds[i] = fd \/ (fds[i] = NoFd /\ fd \notin DOMAIN table)
    BY <1>6, Types DEF Hangup, IInv, PlaceOK
  <2>2. CASE fds[i] = NoFd /\ fd \notin DOMAIN table
    <3>1. \A d \in Client : (\A f \in {fd} \cap DOMAIN table : table[f] # d) => sock'[d] = sock[d]
      <4>1. NetworkInv /\ Close({fd})
        BY <2>1 DEF IInv
      <4> QED BY <4>1, CloseInv
    <3>2. sock'[c] = sock[c]
      BY <2>2, <3>1
    <3> QED BY <3>2
  <2>3. CASE fds[i] # NoFd
    <3>1. sock'[c] = sock[c] \/ c = table[fds[i]]
      BY <2>1, <2>3, SlotClosed
    <3> QED BY <2>1, <2>3, <3>1 DEF Fresher
  <2> QED BY <2>1, <2>2, <2>3, Types
<1>7. ASSUME NEW d \in Client, ClientStep(d) PROVE FALSE
  BY <1>7, ClientStepInv DEF IInv, ClientEffect
<1> QED BY <1>1, <1>2, <1>3, <1>4, <1>5, <1>6, <1>7 DEF Next, ServerStep

\* Neither the second close of a descriptor nor revents that are older than the
\* connection in their slot ever end a connection that goes on.
THEOREM ClosedOnlyWhenOverAlways == Spec => ClosedOnlyWhenOver
<1> DEFINE Due == \A c \in Client :
               sock[c].stage # "closed" /\ sock'[c].stage = "closed" =>
                   \/ sock[c].fin \/ sock[c].err # "none"
                   \/ sock[c].stage = "queued" /\ \A s \in Slot : fds[s] # NoFd
                   \/ phase' = "exit"
<1>1. IInv /\ [Next]_vars => Due
  BY CloseIsDue
<1> QED BY <1>1, Invariant, PTL DEF Spec, ClosedOnlyWhenOver
=============================================================================
