---------------------------- MODULE Sockets_proof ----------------------------
(***************************************************************************)
(* What the system calls of Sockets keep, for any number of clients,       *)
(* descriptors, queued connections and messages: one lemma per call, cited *)
(* by the proofs about the servers instead of its definition.              *)
(***************************************************************************)
EXTENDS Sockets, TLAPS

\* A connection has a descriptor exactly while it is open, one of its own, and a
\* place in the queue, one of its own, only before.
WellConnected ==
    /\ \A f, g \in DOMAIN table : table[f] = table[g] => f = g
    /\ \A c \in Client : sock[c].stage = "open" <=> \E f \in DOMAIN table : table[f] = c
    /\ \A k \in 1 .. Len(backlog) : sock[backlog[k]].stage = "queued"
    /\ \A j, k \in 1 .. Len(backlog) : backlog[j] = backlog[k] => j = k

\* A socket has no past before it is connected and none after it is closed; only
\* data that was sent is queued; an error is left by a client that is gone, and one
\* that is still to be reported by a client that had not ended its side.
SocketSound(s) ==
    /\ s.inbox <= s.sent
    /\ s.stage \in {"out", "closed"} => s = Fresh(s.stage)
    /\ s.stage = "queued" => s.unread = 0
    /\ s.err # "none" => s.gone
    /\ s.err = "ECONNRESET" => ~s.fin

NetworkInv ==
    /\ NetworkType
    /\ WellConnected
    /\ \A c \in Client : SocketSound(sock[c])

USE BoundsAssumption DEF Fd
----------------------------------------------------------------------------
\* The fields of a fresh socket.
LEMMA FreshSound ==
    ASSUME NEW st \in {"out", "queued", "open", "closed"}
    PROVE  Fresh(st) \in Socket /\ SocketSound(Fresh(st)) /\ Fresh(st).stage = st
  BY DEF Fresh, Socket, SocketSound

LEMMA NetworkInitInv == NetworkInit => NetworkInv
<1> SUFFICES ASSUME NetworkInit PROVE NetworkInv
  OBVIOUS
<1>1. backlog = <<>> /\ DOMAIN table = {} /\ sock = [c \in Client |-> Fresh("out")] /\ killed = FALSE
  BY DEF NetworkInit
<1>2. \A c \in Client : sock[c] = Fresh("out") /\ sock[c] \in Socket /\ SocketSound(sock[c])
                        /\ sock[c].stage = "out"
  BY <1>1, FreshSound
<1>3. NetworkType
  <2>1. backlog \in Seq(Client) /\ Len(backlog) <= Backlog
    BY <1>1
  <2>2. sock \in [Client -> Socket]
    BY <1>1, <1>2
  <2>3. Range(table) = {}
    BY <1>1 DEF Range
  <2> QED BY <1>1, <2>1, <2>2, <2>3 DEF NetworkType
<1>4. WellConnected
  BY <1>1, <1>2 DEF WellConnected
<1> QED BY <1>2, <1>3, <1>4 DEF NetworkInv

\* What NetworkType says of the parts of the state.
LEMMA NetworkFields ==
    ASSUME NetworkType
    PROVE  /\ backlog \in Seq(Client) /\ Len(backlog) \in Nat /\ Len(backlog) <= Backlog
           /\ DOMAIN table \subseteq Fd /\ \A f \in DOMAIN table : table[f] \in Client
           /\ DOMAIN sock = Client /\ \A c \in Client : sock[c] \in Socket
           /\ killed \in BOOLEAN
  BY DEF NetworkType, Range

----------------------------------------------------------------------------
(* The parts of a socket that a step changes. *)

\* One socket changes and its connection stays where it was.
LEMMA ChangeSocket ==
    ASSUME NetworkInv, NEW c \in Client, NEW s \in Socket,
           SocketSound(s), s.stage = sock[c].stage,
           sock' = [sock EXCEPT ![c] = s], UNCHANGED <<backlog, table>>, killed' \in BOOLEAN
    PROVE  NetworkInv' /\ sock'[c] = s /\ \A d \in Client \ {c} : sock'[d] = sock[d]
<1>1. /\ backlog \in Seq(Client) /\ Len(backlog) \in Nat
      /\ DOMAIN table \subseteq Fd /\ \A f \in DOMAIN table : table[f] \in Client
      /\ DOMAIN sock = Client
  BY NetworkFields DEF NetworkInv
<1>2. sock'[c] = s /\ \A d \in Client \ {c} : sock'[d] = sock[d]
  BY <1>1
<1>3. NetworkType'
  BY DEF NetworkInv, NetworkType
<1>4. \A d \in Client : sock'[d].stage = sock[d].stage
  BY <1>2
<1>5. WellConnected'
  <2>1. \A k \in 1 .. Len(backlog) : backlog[k] \in Client
    BY <1>1
  <2> QED BY <1>1, <1>4, <2>1 DEF NetworkInv, WellConnected
<1>6. (\A d \in Client : SocketSound(sock[d]))'
  BY <1>2 DEF NetworkInv, SocketSound
<1> QED BY <1>2, <1>3, <1>5, <1>6 DEF NetworkInv

\* recv takes n messages from the queue and nothing else.
LEMMA RecvDataInv ==
    ASSUME NetworkInv, NEW c \in Client, NEW k \in Int, RecvData(c, k), sock[c].stage = "open"
    PROVE  /\ NetworkInv' /\ UNCHANGED <<backlog, table, killed>>
           /\ k \in 1 .. MaxSends
           /\ sock'[c] = [sock[c] EXCEPT !.inbox = @ - k]
           /\ sock'[c].inbox = sock[c].inbox - k
           /\ sock'[c].stage = sock[c].stage /\ sock'[c].sent = sock[c].sent
           /\ sock'[c].unread = sock[c].unread /\ sock'[c].fin = sock[c].fin
           /\ sock'[c].gone = sock[c].gone /\ sock'[c].err = sock[c].err
           /\ \A d \in Client \ {c} : sock'[d] = sock[d]
<1> DEFINE s == [sock[c] EXCEPT !.inbox = @ - k]
<1>1. sock[c] \in Socket /\ SocketSound(sock[c]) /\ killed \in BOOLEAN
  BY NetworkFields DEF NetworkInv
<1>2. /\ k \in 1 .. sock[c].inbox /\ UNCHANGED <<backlog, table, killed>>
      /\ sock' = [sock EXCEPT ![c] = s]
  BY DEF RecvData
<1>3. /\ s.inbox = sock[c].inbox - k
      /\ s.stage = sock[c].stage /\ s.sent = sock[c].sent /\ s.unread = sock[c].unread
      /\ s.fin = sock[c].fin /\ s.gone = sock[c].gone /\ s.err = sock[c].err
  BY <1>1 DEF Socket
<1>4. s \in Socket /\ k \in 1 .. MaxSends
  BY <1>1, <1>2 DEF Socket
<1>5. SocketSound(s)
  BY <1>1, <1>2, <1>3, <1>4 DEF SocketSound, Socket
<1>6. NetworkInv' /\ sock'[c] = s /\ \A d \in Client \ {c} : sock'[d] = sock[d]
  BY <1>1, <1>2, <1>3, <1>4, <1>5, ChangeSocket
<1> QED BY <1>2, <1>3, <1>4, <1>6

\* send fills the buffer of the connection, or advances its error, or ends the
\* server, which takes an error that a RST has left.
LEMMA SendUnitsInv ==
    ASSUME NetworkInv, NEW c \in Client, NEW k \in Nat, SendUnits(c, k), sock[c].stage = "open"
    PROVE  /\ NetworkInv' /\ UNCHANGED <<backlog, table>>
           /\ Sendable(c, k) \in Nat
           /\ sock'[c].unread = IF sock[c].err = "none" THEN sock[c].unread + Sendable(c, k)
                                ELSE sock[c].unread
           /\ sock'[c].err = IF sock[c].err = "none" THEN "none" ELSE "EPIPE"
           /\ sock'[c].stage = sock[c].stage /\ sock'[c].sent = sock[c].sent
           /\ sock'[c].inbox = sock[c].inbox /\ sock'[c].fin = sock[c].fin
           /\ sock'[c].gone = sock[c].gone
           /\ sock[c].err = "none" => UNCHANGED killed
           /\ \A d \in Client \ {c} : sock'[d] = sock[d]
<1>1. sock[c] \in Socket /\ SocketSound(sock[c]) /\ killed \in BOOLEAN /\ DOMAIN sock = Client
  BY NetworkFields DEF NetworkInv
<1>2. UNCHANGED <<backlog, table>>
  BY DEF SendUnits
<1>3. Sendable(c, k) \in Nat /\ sock[c].unread + Sendable(c, k) \in 0 .. SendBuffer
  BY <1>1 DEF Sendable, Socket
<1>4. CASE sock[c].err = "none"
  <2> DEFINE s == [sock[c] EXCEPT !.unread = @ + Sendable(c, k)]
  <2>1. sock' = [sock EXCEPT ![c] = s] /\ UNCHANGED killed
    BY <1>4 DEF SendUnits
  <2>2. /\ s.unread = sock[c].unread + Sendable(c, k) /\ s.inbox = sock[c].inbox
        /\ s.stage = sock[c].stage /\ s.sent = sock[c].sent /\ s.err = "none"
        /\ s.fin = sock[c].fin /\ s.gone = sock[c].gone
    BY <1>1, <1>4 DEF Socket
  <2>3. s \in Socket
    BY <1>1, <1>3 DEF Socket
  <2>4. SocketSound(s)
    BY <1>1, <2>2 DEF SocketSound
  <2>5. NetworkInv' /\ sock'[c] = s /\ \A d \in Client \ {c} : sock'[d] = sock[d]
    BY <1>1, <1>2, <2>1, <2>2, <2>3, <2>4, ChangeSocket
  <2> QED BY <1>2, <1>3, <1>4, <2>1, <2>2, <2>5
<1>5. CASE sock[c].err = "ECONNRESET"
  <2> DEFINE s == [sock[c] EXCEPT !.err = "EPIPE"]
  <2>1. sock' = [sock EXCEPT ![c] = s] /\ UNCHANGED killed
    BY <1>5 DEF SendUnits
  <2>2. /\ s.unread = sock[c].unread /\ s.inbox = sock[c].inbox
        /\ s.stage = sock[c].stage /\ s.sent = sock[c].sent /\ s.err = "EPIPE"
        /\ s.fin = sock[c].fin /\ s.gone = sock[c].gone
    BY <1>1 DEF Socket
  <2>3. s \in Socket
    BY <1>1 DEF Socket
  <2>4. SocketSound(s)
    BY <1>1, <1>5, <2>2 DEF SocketSound
  <2>5. NetworkInv' /\ sock'[c] = s /\ \A d \in Client \ {c} : sock'[d] = sock[d]
    BY <1>1, <1>2, <2>1, <2>2, <2>3, <2>4, ChangeSocket
  <2> QED BY <1>2, <1>3, <1>5, <2>1, <2>2, <2>5
<1>6. CASE sock[c].err = "EPIPE"
  <2>1. sock' = sock /\ killed' = TRUE
    BY <1>6 DEF SendUnits
  <2>2. NetworkInv'
    BY <1>2, <2>1 DEF NetworkInv, NetworkType, WellConnected, SocketSound
  <2> QED BY <1>2, <1>3, <1>6, <2>1, <2>2
<1> QED BY <1>1, <1>4, <1>5, <1>6 DEF Socket

----------------------------------------------------------------------------
(* The clients. *)

\* A RST leaves the connection where it is, with an error, and takes no data from
\* the server.
LEMMA ResetInv ==
    ASSUME NetworkInv, NEW c \in Client, sock[c].stage \in {"queued", "open"},
           Reset(c), UNCHANGED <<backlog, table, killed>>
    PROVE  /\ NetworkInv' /\ \A d \in Client \ {c} : sock'[d] = sock[d]
           /\ sock'[c].stage = sock[c].stage /\ sock'[c].sent = sock[c].sent
           /\ sock'[c].inbox = sock[c].inbox /\ sock'[c].fin = sock[c].fin
           /\ sock'[c].unread = 0 /\ sock'[c].gone = TRUE
           /\ sock'[c].err = IF sock[c].fin THEN "EPIPE" ELSE "ECONNRESET"
<1> DEFINE e == IF sock[c].fin THEN "EPIPE" ELSE "ECONNRESET"
           s == [[[sock[c] EXCEPT !.gone = TRUE] EXCEPT !.unread = 0] EXCEPT !.err = e]
<1>1. /\ sock[c] \in Socket /\ SocketSound(sock[c]) /\ killed \in BOOLEAN
      /\ sock \in [Client -> Socket]
  BY NetworkFields DEF NetworkInv, NetworkType
<1>2. sock' = [sock EXCEPT ![c] = s]
  BY <1>1 DEF Reset
<1>3. /\ s.stage = sock[c].stage /\ s.sent = sock[c].sent /\ s.inbox = sock[c].inbox
      /\ s.unread = 0 /\ s.fin = sock[c].fin /\ s.gone = TRUE /\ s.err = e
  BY <1>1 DEF Socket
<1>4. s \in Socket
  <2>1. \A r \in Socket : [r EXCEPT !.gone = TRUE] \in Socket
    BY DEF Socket
  <2>2. \A r \in Socket : [r EXCEPT !.unread = 0] \in Socket
    BY DEF Socket
  <2>3. \A r \in Socket, x \in {"ECONNRESET", "EPIPE"} : [r EXCEPT !.err = x] \in Socket
    BY DEF Socket
  <2> QED BY <1>1, <2>1, <2>2, <2>3
<1>5. SocketSound(s)
  BY <1>1, <1>3 DEF SocketSound
<1> HIDE DEF s
<1>6. NetworkInv' /\ sock'[c] = s /\ \A d \in Client \ {c} : sock'[d] = sock[d]
  BY <1>1, <1>2, <1>3, <1>4, <1>5, ChangeSocket
<1> QED BY <1>3, <1>6

\* recv reports the error that a RST has left, and forgets it.
LEMMA RecvErrorInv ==
    ASSUME NetworkInv, NEW c \in Client, RecvError(c), sock[c].stage = "open"
    PROVE  /\ NetworkInv' /\ UNCHANGED <<backlog, table, killed>>
           /\ \A d \in Client \ {c} : sock'[d] = sock[d]
           /\ sock[c].err = "ECONNRESET" /\ ~sock[c].fin /\ sock[c].inbox = 0
           /\ sock'[c].stage = sock[c].stage /\ sock'[c].sent = sock[c].sent
           /\ sock'[c].inbox = sock[c].inbox /\ sock'[c].fin = sock[c].fin
           /\ sock'[c].unread = sock[c].unread /\ sock'[c].gone = sock[c].gone
           /\ sock'[c].err = "EPIPE"
<1> DEFINE s == [sock[c] EXCEPT !.err = "EPIPE"]
<1>1. /\ sock[c] \in Socket /\ SocketSound(sock[c]) /\ killed \in BOOLEAN
      /\ sock \in [Client -> Socket]
  BY NetworkFields DEF NetworkInv, NetworkType
<1>2. /\ sock' = [sock EXCEPT ![c] = s] /\ UNCHANGED <<backlog, table, killed>>
      /\ sock[c].err = "ECONNRESET" /\ ~sock[c].fin /\ sock[c].inbox = 0
  BY <1>1 DEF RecvError, RecvOutcome, AtEnd, Socket
<1>3. /\ s.stage = sock[c].stage /\ s.sent = sock[c].sent /\ s.inbox = sock[c].inbox
      /\ s.unread = sock[c].unread /\ s.fin = sock[c].fin /\ s.gone = sock[c].gone
      /\ s.err = "EPIPE"
  BY <1>1 DEF Socket
<1>4. s \in Socket
  BY <1>1 DEF Socket
<1>5. SocketSound(s)
  BY <1>1, <1>2, <1>3 DEF SocketSound
<1> HIDE DEF s
<1>6. NetworkInv' /\ sock'[c] = s /\ \A d \in Client \ {c} : sock'[d] = sock[d]
  BY <1>1, <1>2, <1>3, <1>4, <1>5, ChangeSocket
<1> QED BY <1>2, <1>3, <1>6

\* recv returns no data: the connection stays as it was but for the error.
LEMMA RecvOverInv ==
    ASSUME NetworkInv, NEW c \in Client, RecvEof(c) \/ RecvError(c), sock[c].stage = "open"
    PROVE  /\ NetworkInv' /\ UNCHANGED <<backlog, table, killed>>
           /\ \A d \in Client \ {c} : sock'[d] = sock[d]
           /\ sock[c].inbox = 0
           /\ sock'[c].stage = sock[c].stage /\ sock'[c].sent = sock[c].sent
           /\ sock'[c].inbox = sock[c].inbox /\ sock'[c].fin = sock[c].fin
           /\ sock'[c].unread = sock[c].unread /\ sock'[c].gone = sock[c].gone
<1>1. CASE RecvEof(c)
  <2>1. UNCHANGED <<backlog, table, sock, killed>> /\ RecvOutcome(c) = "eof"
    BY <1>1 DEF RecvEof, network
  <2>2. NetworkInv'
    BY <2>1 DEF NetworkInv, NetworkType, WellConnected, SocketSound
  <2>3. sock[c].inbox = 0
    BY <2>1 DEF RecvOutcome, NetworkInv, NetworkType, Socket
  <2> QED BY <2>1, <2>2, <2>3
<1>2. CASE RecvError(c)
  BY <1>2, RecvErrorInv
<1> QED BY <1>1, <1>2

\* Steps of client c that do not connect.
Talk(c) ==
    \/ ClientSend(c) \/ ClientShutdown(c) \/ ClientRead(c)
    \/ ClientClose(c) \/ ClientAbort(c) \/ PeerReset(c)

\* A client sends, shuts down, reads or closes on its own connection; it never
\* takes back data it has sent, nor adds to what it has been sent.
LEMMA TalkInv ==
    ASSUME NetworkInv, NEW c \in Client, Talk(c), UNCHANGED <<backlog, table, killed>>
    PROVE  /\ NetworkInv'
           /\ \A d \in Client \ {c} : sock'[d] = sock[d]
           /\ sock'[c].stage = sock[c].stage
           /\ sock[c].stage \in {"queued", "open"}
           /\ sock'[c].sent - sock'[c].inbox = sock[c].sent - sock[c].inbox
           /\ sock'[c].inbox >= sock[c].inbox /\ sock'[c].sent >= sock[c].sent
           /\ sock'[c].unread <= sock[c].unread
           /\ sock[c].fin => sock'[c].fin /\ sock'[c].inbox = sock[c].inbox
           /\ sock[c].gone => sock'[c].gone
           /\ sock[c].err # "none" => sock'[c].err = sock[c].err /\ sock'[c].inbox = sock[c].inbox
           /\ sock[c].err = "none" /\ sock'[c].err = "EPIPE" => sock'[c].fin
<1>1. /\ sock[c] \in Socket /\ SocketSound(sock[c]) /\ killed' \in BOOLEAN
      /\ sock \in [Client -> Socket]
  BY NetworkFields DEF NetworkInv, NetworkType
<1>2. ASSUME NEW s \in Socket, sock' = [sock EXCEPT ![c] = s], SocketSound(s),
             s.stage = sock[c].stage
      PROVE  /\ NetworkInv' /\ sock'[c] = s /\ \A d \in Client \ {c} : sock'[d] = sock[d]
  BY <1>1, <1>2, ChangeSocket
<1>8. ASSUME sock[c].stage \in {"queued", "open"}, Reset(c), sock[c].err = "none"
      PROVE  /\ NetworkInv' /\ \A d \in Client \ {c} : sock'[d] = sock[d]
             /\ sock'[c].stage = sock[c].stage
             /\ sock'[c].sent - sock'[c].inbox = sock[c].sent - sock[c].inbox
             /\ sock'[c].inbox >= sock[c].inbox /\ sock'[c].sent >= sock[c].sent
             /\ sock'[c].unread <= sock[c].unread
             /\ sock[c].fin => sock'[c].fin /\ sock'[c].inbox = sock[c].inbox
             /\ sock[c].gone => sock'[c].gone
             /\ sock'[c].err = "EPIPE" => sock'[c].fin
  <2>1. sock[c].sent \in Nat /\ sock[c].inbox \in Nat /\ sock[c].unread \in Nat
    BY <1>1 DEF Socket
  <2>2. /\ NetworkInv' /\ \A d \in Client \ {c} : sock'[d] = sock[d]
        /\ sock'[c].stage = sock[c].stage /\ sock'[c].sent = sock[c].sent
        /\ sock'[c].inbox = sock[c].inbox /\ sock'[c].fin = sock[c].fin
        /\ sock'[c].unread = 0 /\ sock'[c].gone = TRUE
        /\ sock'[c].err = IF sock[c].fin THEN "EPIPE" ELSE "ECONNRESET"
    BY <1>8, ResetInv
  <2> QED BY <2>1, <2>2
<1>3. CASE ClientSend(c)
  <2> DEFINE s == [sock[c] EXCEPT !.sent = @ + 1, !.inbox = @ + 1]
  <2>1. /\ sock' = [sock EXCEPT ![c] = s] /\ sock[c].stage \in {"queued", "open"}
        /\ ~sock[c].fin /\ ~sock[c].gone /\ sock[c].err = "none" /\ sock[c].sent < MaxSends
    BY <1>1, <1>3 DEF ClientSend, Connected, SocketSound
  <2>2. /\ s.stage = sock[c].stage /\ s.sent = sock[c].sent + 1 /\ s.inbox = sock[c].inbox + 1
        /\ s.unread = sock[c].unread /\ s.fin = sock[c].fin /\ s.gone = sock[c].gone
        /\ s.err = sock[c].err
    BY <1>1 DEF Socket
  <2>3. s \in Socket
    <3>1. sock[c].inbox + 1 \in 0 .. MaxSends /\ sock[c].sent + 1 \in 0 .. MaxSends
      BY <1>1, <2>1 DEF Socket, SocketSound
    <3> QED BY <1>1, <3>1 DEF Socket
  <2>4. SocketSound(s)
    BY <1>1, <2>1, <2>2 DEF SocketSound, Socket
  <2> HIDE DEF s
  <2>5. NetworkInv' /\ sock'[c] = s /\ \A d \in Client \ {c} : sock'[d] = sock[d]
    BY <1>2, <2>1, <2>2, <2>3, <2>4
  <2> QED BY <1>1, <2>1, <2>2, <2>5 DEF Socket
<1>4. CASE ClientShutdown(c)
  <2> DEFINE s == [sock[c] EXCEPT !.fin = TRUE]
  <2>1. sock' = [sock EXCEPT ![c] = s] /\ sock[c].stage \in {"queued", "open"} /\ ~sock[c].gone
    BY <1>1, <1>4 DEF ClientShutdown, Connected
  <2>2. /\ s.stage = sock[c].stage /\ s.sent = sock[c].sent /\ s.inbox = sock[c].inbox
        /\ s.unread = sock[c].unread /\ s.fin = TRUE /\ s.gone = sock[c].gone
        /\ s.err = sock[c].err
    BY <1>1 DEF Socket
  <2>3. s \in Socket
    BY <1>1 DEF Socket
  <2>4. SocketSound(s)
    BY <1>1, <2>1, <2>2 DEF SocketSound
  <2> HIDE DEF s
  <2>5. NetworkInv' /\ sock'[c] = s /\ \A d \in Client \ {c} : sock'[d] = sock[d]
    BY <1>2, <2>1, <2>2, <2>3, <2>4
  <2> QED BY <1>1, <2>1, <2>2, <2>5 DEF Socket
<1>5. CASE ClientRead(c)
  <2> DEFINE s == [sock[c] EXCEPT !.unread = 0]
  <2>1. sock' = [sock EXCEPT ![c] = s] /\ sock[c].stage \in {"queued", "open"} /\ ~sock[c].gone
    BY <1>1, <1>5 DEF ClientRead, Connected
  <2>2. /\ s.stage = sock[c].stage /\ s.sent = sock[c].sent /\ s.inbox = sock[c].inbox
        /\ s.unread = 0 /\ s.fin = sock[c].fin /\ s.gone = sock[c].gone
        /\ s.err = sock[c].err
    BY <1>1 DEF Socket
  <2>3. s \in Socket
    BY <1>1 DEF Socket
  <2>4. SocketSound(s)
    BY <1>1, <2>1, <2>2 DEF SocketSound
  <2> HIDE DEF s
  <2>5. NetworkInv' /\ sock'[c] = s /\ \A d \in Client \ {c} : sock'[d] = sock[d]
    BY <1>2, <2>1, <2>2, <2>3, <2>4
  <2> QED BY <1>1, <2>1, <2>2, <2>5 DEF Socket
<1>6. CASE ClientClose(c)
  <2>1. sock[c].stage \in {"queued", "open"} /\ ~sock[c].gone /\ sock[c].err = "none"
    BY <1>1, <1>6 DEF ClientClose, Connected, SocketSound
  <2>2. CASE sock' = [sock EXCEPT ![c].gone = TRUE, ![c].fin = TRUE]
    <3> DEFINE s == [[sock[c] EXCEPT !.gone = TRUE] EXCEPT !.fin = TRUE]
    <3>1. sock' = [sock EXCEPT ![c] = s]
      BY <1>1, <2>2
    <3>2. /\ s.stage = sock[c].stage /\ s.sent = sock[c].sent /\ s.inbox = sock[c].inbox
          /\ s.unread = sock[c].unread /\ s.fin = TRUE /\ s.gone = TRUE
          /\ s.err = sock[c].err
      BY <1>1 DEF Socket
    <3>3. s \in Socket
      BY <1>1 DEF Socket
    <3>4. SocketSound(s)
      BY <1>1, <2>1, <3>2 DEF SocketSound
    <3> HIDE DEF s
    <3>5. NetworkInv' /\ sock'[c] = s /\ \A d \in Client \ {c} : sock'[d] = sock[d]
      BY <1>2, <3>1, <3>2, <3>3, <3>4
    <3> QED BY <1>1, <2>1, <3>2, <3>5 DEF Socket
  <2>3. CASE Reset(c)
    BY <1>8, <2>1, <2>3
  <2> QED BY <1>6, <2>2, <2>3 DEF ClientClose
<1>7. CASE ClientAbort(c) \/ PeerReset(c)
  <2>1. sock[c].stage \in {"queued", "open"} /\ sock[c].err = "none" /\ Reset(c)
    BY <1>1, <1>7 DEF ClientAbort, PeerReset, Connected, SocketSound
  <2> QED BY <1>8, <2>1
<1> QED BY <1>3, <1>4, <1>5, <1>6, <1>7 DEF Talk

\* connect puts the client's fresh connection at the end of the queue.
LEMMA ConnectInv ==
    ASSUME NetworkInv, NEW c \in Client, Connect(c)
    PROVE  /\ NetworkInv' /\ UNCHANGED <<table, killed>>
           /\ \A d \in Client \ {c} : sock'[d] = sock[d]
           /\ sock[c] = Fresh("out") /\ sock'[c] = Fresh("queued")
<1>1. /\ sock[c] \in Socket /\ SocketSound(sock[c]) /\ killed \in BOOLEAN
      /\ sock \in [Client -> Socket] /\ backlog \in Seq(Client) /\ Len(backlog) \in Nat
      /\ DOMAIN table \subseteq Fd /\ \A f \in DOMAIN table : table[f] \in Client
  BY NetworkFields DEF NetworkInv, NetworkType
<1>2. /\ sock[c].stage = "out" /\ Len(backlog) < Backlog /\ backlog' = Append(backlog, c)
      /\ sock' = [sock EXCEPT ![c].stage = "queued"] /\ UNCHANGED <<table, killed>>
  BY DEF Connect
<1>3. sock[c] = Fresh("out")
  BY <1>1, <1>2 DEF SocketSound
<1>4. sock'[c] = Fresh("queued") /\ \A d \in Client \ {c} : sock'[d] = sock[d]
  <2>1. sock'[c] = [Fresh("out") EXCEPT !.stage = "queued"]
    BY <1>1, <1>2, <1>3
  <2>2. sock'[c] = Fresh("queued")
    BY <2>1 DEF Fresh
  <2> QED BY <1>1, <1>2, <2>2
<1>5. Fresh("queued") \in Socket /\ SocketSound(Fresh("queued")) /\ Fresh("queued").stage = "queued"
  BY FreshSound
<1>6. sock' \in [Client -> Socket]
  BY <1>1, <1>2, <1>4, <1>5
<1>7. /\ backlog' \in Seq(Client) /\ Len(backlog') = Len(backlog) + 1
      /\ \A k \in 1 .. Len(backlog) : backlog'[k] = backlog[k] /\ backlog[k] \in Client
      /\ backlog'[Len(backlog) + 1] = c
  BY <1>1, <1>2
<1>8. NetworkType'
  BY <1>2, <1>6, <1>7 DEF NetworkInv, NetworkType
<1>9. \A k \in 1 .. Len(backlog) : backlog[k] # c
  BY <1>2 DEF NetworkInv, WellConnected
<1>10. WellConnected'
  <2>1. \A d \in Client : sock'[d].stage = "open" <=> sock[d].stage = "open"
    BY <1>2, <1>4, <1>5
  <2>2. \A k \in 1 .. Len(backlog') : sock'[backlog'[k]].stage = "queued"
    BY <1>1, <1>4, <1>5, <1>7, <1>9 DEF NetworkInv, WellConnected
  <2>3. \A j, k \in 1 .. Len(backlog') : backlog'[j] = backlog'[k] => j = k
    BY <1>1, <1>7, <1>9 DEF NetworkInv, WellConnected
  <2> QED BY <1>1, <1>2, <2>1, <2>2, <2>3 DEF NetworkInv, WellConnected
<1>11. (\A d \in Client : SocketSound(sock[d]))'
  BY <1>4, <1>5 DEF NetworkInv, SocketSound
<1> QED BY <1>2, <1>3, <1>4, <1>8, <1>10, <1>11 DEF NetworkInv

----------------------------------------------------------------------------
(* accept and close. *)

\* What is left of the queue without its head.
LEMMA TailOfBacklog ==
    ASSUME NetworkInv, backlog # <<>>
    PROVE  /\ Head(backlog) \in Client /\ sock[Head(backlog)].stage = "queued"
           /\ Tail(backlog) \in Seq(Client) /\ Len(Tail(backlog)) = Len(backlog) - 1
           /\ \A k \in 1 .. Len(Tail(backlog)) :
                 /\ Tail(backlog)[k] \in Client /\ Tail(backlog)[k] # Head(backlog)
                 /\ sock[Tail(backlog)[k]].stage = "queued"
           /\ \A j, k \in 1 .. Len(Tail(backlog)) : Tail(backlog)[j] = Tail(backlog)[k] => j = k
<1>1. backlog \in Seq(Client) /\ Len(backlog) \in Nat
  BY NetworkFields DEF NetworkInv
<1>2. /\ Head(backlog) = backlog[1] /\ Len(backlog) >= 1
      /\ Tail(backlog) \in Seq(Client) /\ Len(Tail(backlog)) = Len(backlog) - 1
      /\ \A k \in 1 .. Len(Tail(backlog)) : Tail(backlog)[k] = backlog[k + 1]
  BY <1>1
<1> QED BY <1>1, <1>2 DEF NetworkInv, WellConnected

\* The connection of c is accepted, or closed at once, and no other changes.
Opened(c) ==
    /\ sock[c].stage = "queued" /\ sock'[c].stage = "open"
    /\ sock'[c].sent = sock[c].sent /\ sock'[c].inbox = sock[c].inbox
    /\ sock'[c].unread = 0 /\ sock'[c].err = sock[c].err /\ sock'[c].fin = sock[c].fin
    /\ \A d \in Client \ {c} : sock'[d] = sock[d]

Refused(c) ==
    /\ sock[c].stage = "queued" /\ sock'[c] = Fresh("closed")
    /\ \A d \in Client \ {c} : sock'[d] = sock[d]

\* accept opens the first connection of the queue under a descriptor nobody has.
LEMMA AcceptInv ==
    ASSUME NetworkInv, NEW f, Accept(f)
    PROVE  /\ NetworkInv' /\ UNCHANGED killed
           /\ f \in Fd \ DOMAIN table /\ DOMAIN table' = DOMAIN table \cup {f}
           /\ \A g \in DOMAIN table : table'[g] = table[g]
           /\ \E c \in Client : table'[f] = c /\ Opened(c)
<1> DEFINE c == Head(backlog)
           s == [sock[c] EXCEPT !.stage = "open"]
<1>1. /\ backlog # <<>> /\ f \in Fd \ DOMAIN table /\ UNCHANGED killed
      /\ table' = [g \in DOMAIN table \cup {f} |-> IF g = f THEN c ELSE table[g]]
      /\ sock' = [sock EXCEPT ![c] = s] /\ backlog' = Tail(backlog)
  BY DEF Accept, FreeFd
<1>2. /\ c \in Client /\ sock[c].stage = "queued" /\ sock[c] \in Socket /\ SocketSound(sock[c])
      /\ sock \in [Client -> Socket] /\ killed \in BOOLEAN
      /\ DOMAIN table \subseteq Fd /\ \A g \in DOMAIN table : table[g] \in Client
      /\ Len(backlog) <= Backlog /\ Len(backlog) \in Nat
  BY <1>1, TailOfBacklog, NetworkFields DEF NetworkInv, NetworkType
<1>3. /\ s.stage = "open" /\ s.sent = sock[c].sent /\ s.inbox = sock[c].inbox
      /\ s.unread = sock[c].unread /\ s.fin = sock[c].fin /\ s.gone = sock[c].gone
      /\ s.err = sock[c].err /\ s.unread = 0
  BY <1>2 DEF Socket, SocketSound
<1>4. s \in Socket
  BY <1>2 DEF Socket
<1>5. SocketSound(s)
  BY <1>2, <1>3 DEF SocketSound
<1>6. sock'[c] = s /\ \A d \in Client \ {c} : sock'[d] = sock[d]
  BY <1>1, <1>2
<1>7. /\ DOMAIN table' = DOMAIN table \cup {f}
      /\ table'[f] = c /\ \A g \in DOMAIN table : table'[g] = table[g]
  BY <1>1
<1>8. NetworkType'
  <2>1. backlog' \in Seq(Client) /\ Len(backlog') <= Backlog
    BY <1>1, <1>2, TailOfBacklog
  <2>2. DOMAIN table' \subseteq Fd /\ Range(table') \subseteq Client
    BY <1>1, <1>2, <1>7 DEF Range
  <2>3. sock' \in [Client -> Socket]
    BY <1>1, <1>2, <1>4
  <2> QED BY <1>1, <1>2, <2>1, <2>2, <2>3 DEF NetworkType
<1>9. \A g \in DOMAIN table : table[g] # c
  BY <1>2 DEF NetworkInv, WellConnected
<1>10. WellConnected'
  <2>1. \A g, h \in DOMAIN table' : table'[g] = table'[h] => g = h
    BY <1>7, <1>9 DEF NetworkInv, WellConnected
  <2>2. \A d \in Client : sock'[d].stage = "open" <=> \E g \in DOMAIN table' : table'[g] = d
    <3> SUFFICES ASSUME NEW d \in Client
                 PROVE  sock'[d].stage = "open" <=> \E g \in DOMAIN table' : table'[g] = d
      OBVIOUS
    <3>1. CASE d = c
      BY <1>3, <1>6, <1>7, <3>1
    <3>2. CASE d # c
      <4>1. sock[d].stage = "open" <=> \E g \in DOMAIN table : table[g] = d
        BY DEF NetworkInv, WellConnected
      <4> QED BY <1>6, <1>7, <3>2, <4>1
    <3> QED BY <3>1, <3>2
  <2>3. /\ \A k \in 1 .. Len(backlog') : sock'[backlog'[k]].stage = "queued"
        /\ \A j, k \in 1 .. Len(backlog') : backlog'[j] = backlog'[k] => j = k
    BY <1>1, <1>6, TailOfBacklog
  <2> QED BY <2>1, <2>2, <2>3 DEF WellConnected
<1>11. (\A d \in Client : SocketSound(sock[d]))'
  <2>1. \A d \in Client : SocketSound(sock'[d])
    BY <1>5, <1>6 DEF NetworkInv
  <2> QED BY <2>1
<1>12. Opened(c)
  BY <1>2, <1>3, <1>6 DEF Opened
<1> QED BY <1>1, <1>2, <1>7, <1>8, <1>10, <1>11, <1>12 DEF NetworkInv

\* accept and close leave the other connections alone.
LEMMA AcceptAndCloseInv ==
    ASSUME NetworkInv, AcceptAndClose
    PROVE  /\ NetworkInv' /\ UNCHANGED <<table, killed>>
           /\ \E c \in Client : Refused(c)
<1> DEFINE c == Head(backlog)
<1>1. /\ backlog # <<>> /\ UNCHANGED <<table, killed>>
      /\ sock' = [sock EXCEPT ![c] = Fresh("closed")] /\ backlog' = Tail(backlog)
  BY DEF AcceptAndClose
<1>2. /\ c \in Client /\ sock[c].stage = "queued"
      /\ sock \in [Client -> Socket] /\ killed \in BOOLEAN
      /\ Len(backlog) <= Backlog /\ Len(backlog) \in Nat
      /\ \A g \in DOMAIN table : table[g] \in Client
  BY <1>1, TailOfBacklog, NetworkFields DEF NetworkInv, NetworkType
<1>3. /\ Fresh("closed") \in Socket /\ SocketSound(Fresh("closed"))
      /\ Fresh("closed").stage = "closed"
  BY FreshSound
<1>4. sock'[c] = Fresh("closed") /\ \A d \in Client \ {c} : sock'[d] = sock[d]
  BY <1>1, <1>2
<1>5. NetworkType'
  <2>1. backlog' \in Seq(Client) /\ Len(backlog') <= Backlog
    BY <1>1, <1>2, TailOfBacklog
  <2>2. sock' \in [Client -> Socket]
    BY <1>1, <1>2, <1>3
  <2> QED BY <1>1, <2>1, <2>2 DEF NetworkInv, NetworkType
<1>6. WellConnected'
  <2>1. \A d \in Client : sock'[d].stage = "open" <=> sock[d].stage = "open"
    BY <1>2, <1>3, <1>4
  <2>2. /\ \A k \in 1 .. Len(backlog') : sock'[backlog'[k]].stage = "queued"
        /\ \A j, k \in 1 .. Len(backlog') : backlog'[j] = backlog'[k] => j = k
    BY <1>1, <1>4, TailOfBacklog
  <2> QED BY <1>1, <2>1, <2>2 DEF NetworkInv, WellConnected
<1>7. (\A d \in Client : SocketSound(sock[d]))'
  BY <1>3, <1>4 DEF NetworkInv, SocketSound
<1>8. Refused(c)
  BY <1>2, <1>4 DEF Refused
<1> QED BY <1>1, <1>2, <1>5, <1>6, <1>7, <1>8 DEF NetworkInv

\* close frees the descriptors and ends their connections, and no other.
LEMMA CloseInv ==
    ASSUME NetworkInv, NEW D, Close(D)
    PROVE  /\ NetworkInv' /\ UNCHANGED <<backlog, killed>>
           /\ DOMAIN table' = DOMAIN table \ D
           /\ \A g \in DOMAIN table' : table'[g] = table[g]
           /\ \A f \in D \cap DOMAIN table : sock'[table[f]] = Fresh("closed")
           /\ \A d \in Client : (\A f \in D \cap DOMAIN table : table[f] # d) => sock'[d] = sock[d]
<1>1. /\ table' = Restrict(table, DOMAIN table \ D) /\ UNCHANGED <<backlog, killed>>
      /\ sock' = [c \in Client |-> IF \E f \in D \cap DOMAIN table : table[f] = c
                                   THEN Fresh("closed") ELSE sock[c]]
  BY DEF Close
<1>2. /\ DOMAIN table \subseteq Fd /\ \A g \in DOMAIN table : table[g] \in Client
      /\ sock \in [Client -> Socket] /\ backlog \in Seq(Client) /\ Len(backlog) \in Nat
  BY NetworkFields DEF NetworkInv, NetworkType
<1>3. /\ Fresh("closed") \in Socket /\ SocketSound(Fresh("closed"))
      /\ Fresh("closed").stage = "closed"
  BY FreshSound
<1>4. DOMAIN table' = DOMAIN table \ D /\ \A g \in DOMAIN table' : table'[g] = table[g]
  BY <1>1 DEF Restrict
<1>5. /\ \A f \in D \cap DOMAIN table : sock'[table[f]] = Fresh("closed")
      /\ \A d \in Client : (\A f \in D \cap DOMAIN table : table[f] # d) => sock'[d] = sock[d]
  BY <1>1, <1>2
<1>6. \A d \in Client : sock'[d] = sock[d] \/ sock'[d] = Fresh("closed")
  BY <1>1
<1>7. NetworkType'
  <2>1. sock' \in [Client -> Socket]
    BY <1>1, <1>2, <1>3
  <2>2. DOMAIN table' \subseteq Fd /\ Range(table') \subseteq Client
    BY <1>2, <1>4 DEF Range
  <2> QED BY <1>1, <2>1, <2>2 DEF NetworkInv, NetworkType
<1>8. WellConnected'
  <2>1. \A g, h \in DOMAIN table' : table'[g] = table'[h] => g = h
    BY <1>4 DEF NetworkInv, WellConnected
  <2>2. ASSUME NEW d \in Client
        PROVE  sock'[d].stage = "open" <=> \E g \in DOMAIN table' : table'[g] = d
    <3>1. CASE \E f \in D \cap DOMAIN table : table[f] = d
      BY <1>3, <1>4, <1>5, <3>1 DEF NetworkInv, WellConnected
    <3>2. CASE \A f \in D \cap DOMAIN table : table[f] # d
      BY <1>4, <1>5, <3>2 DEF NetworkInv, WellConnected
    <3> QED BY <3>1, <3>2
  <2>3. \A k \in 1 .. Len(backlog) : /\ sock'[backlog[k]].stage = "queued"
    <3> SUFFICES ASSUME NEW k \in 1 .. Len(backlog) PROVE sock'[backlog[k]].stage = "queued"
      OBVIOUS
    <3>1. backlog[k] \in Client /\ sock[backlog[k]].stage = "queued"
      BY <1>2 DEF NetworkInv, WellConnected
    <3>2. \A f \in D \cap DOMAIN table : table[f] # backlog[k]
      BY <3>1 DEF NetworkInv, WellConnected
    <3> QED BY <1>5, <3>1, <3>2
  <2>4. \A j, k \in 1 .. Len(backlog) : backlog[j] = backlog[k] => j = k
    BY DEF NetworkInv, WellConnected
  <2>5. backlog' = backlog
    BY <1>1
  <2> QED BY <2>1, <2>2, <2>3, <2>4, <2>5 DEF WellConnected
<1>9. (\A d \in Client : SocketSound(sock[d]))'
  <2>1. \A d \in Client : SocketSound(sock'[d])
    BY <1>3, <1>6 DEF NetworkInv
  <2> QED BY <2>1
<1> QED BY <1>1, <1>4, <1>5, <1>7, <1>8, <1>9 DEF NetworkInv

\* The open connection of c is closed and no other changes.
Closed(c) ==
    /\ sock[c].stage = "open" /\ sock'[c] = Fresh("closed")
    /\ \A d \in Client \ {c} : sock'[d] = sock[d]

\* close of one descriptor ends its connection.
LEMMA CloseOneInv ==
    ASSUME NetworkInv, NEW f \in DOMAIN table, Close({f})
    PROVE  /\ NetworkInv' /\ UNCHANGED <<backlog, killed>>
           /\ DOMAIN table' = DOMAIN table \ {f}
           /\ \A g \in DOMAIN table' : table'[g] = table[g]
           /\ \E c \in Client : c = table[f] /\ Closed(c)
<1>1. /\ NetworkInv' /\ UNCHANGED <<backlog, killed>>
      /\ DOMAIN table' = DOMAIN table \ {f}
      /\ \A g \in DOMAIN table' : table'[g] = table[g]
  BY CloseInv
<1>2. {f} \cap DOMAIN table = {f}
  OBVIOUS
<1>3. sock' = [c \in Client |-> IF c = table[f] THEN Fresh("closed") ELSE sock[c]]
  BY <1>2 DEF Close
<1>4. table[f] \in Client /\ sock[table[f]].stage = "open"
  BY NetworkFields DEF NetworkInv, WellConnected
<1>5. Closed(table[f])
  BY <1>3, <1>4 DEF Closed
<1> QED BY <1>1, <1>4, <1>5

\* The end of the process closes every connection there is.
LEMMA CloseAllInv ==
    ASSUME NetworkInv, CloseAll
    PROVE  /\ NetworkInv' /\ UNCHANGED killed /\ backlog' = <<>> /\ DOMAIN table' = {}
           /\ \A d \in Client : sock'[d] = IF sock[d].stage = "out" THEN sock[d]
                                           ELSE Fresh("closed")
<1>1. /\ backlog' = <<>> /\ DOMAIN table' = {} /\ UNCHANGED killed
      /\ sock' = [c \in Client |-> IF sock[c].stage = "out" THEN sock[c] ELSE Fresh("closed")]
  BY DEF CloseAll
<1>2. /\ Fresh("closed") \in Socket /\ SocketSound(Fresh("closed"))
      /\ Fresh("closed").stage = "closed"
  BY FreshSound
<1>3. sock \in [Client -> Socket] /\ \A d \in Client : SocketSound(sock[d])
  BY DEF NetworkInv, NetworkType
<1>4. NetworkType'
  <2>1. sock' \in [Client -> Socket]
    BY <1>1, <1>2, <1>3
  <2>2. Range(table') = {}
    BY <1>1 DEF Range
  <2>3. backlog' \in Seq(Client) /\ Len(backlog') <= Backlog
    BY <1>1
  <2> QED BY <1>1, <2>1, <2>2, <2>3 DEF NetworkInv, NetworkType
<1>5. WellConnected'
  <2>1. \A d \in Client : sock'[d].stage # "open"
    BY <1>1, <1>2
  <2> QED BY <1>1, <2>1 DEF WellConnected
<1>6. (\A d \in Client : SocketSound(sock[d]))'
  <2>1. \A d \in Client : sock'[d] = sock[d] \/ sock'[d] = Fresh("closed")
    BY <1>1
  <2>2. \A d \in Client : SocketSound(sock'[d])
    BY <1>2, <1>3, <2>1
  <2> QED BY <2>2
<1> QED BY <1>1, <1>4, <1>5, <1>6 DEF NetworkInv

----------------------------------------------------------------------------
\* What a client's step may do to a connection: put it into the queue, add data,
\* take answers, end the client's direction, and once leave an error, which is not
\* reported if the client had ended its side.
ClientEffect(d) ==
    /\ \/ sock'[d].stage = sock[d].stage
       \/ sock[d].stage = "out" /\ sock'[d].stage = "queued"
    /\ sock'[d].sent - sock'[d].inbox = sock[d].sent - sock[d].inbox
    /\ sock'[d].inbox >= sock[d].inbox /\ sock'[d].sent >= sock[d].sent
    /\ sock'[d].unread <= sock[d].unread
    /\ sock[d].fin => sock'[d].fin /\ sock'[d].inbox = sock[d].inbox
    /\ sock[d].err # "none" => sock'[d].err = sock[d].err /\ sock'[d].inbox = sock[d].inbox
    /\ sock[d].err = "none" /\ sock'[d].err = "EPIPE" => sock'[d].fin

\* The step of any client, connecting or not, has such an effect on each.
LEMMA ClientStepInv ==
    ASSUME NetworkInv, NEW c \in Client, ClientStep(c)
    PROVE  NetworkInv' /\ UNCHANGED <<table, killed>> /\ \A d \in Client : ClientEffect(d)
<1>1. \A d \in Client : /\ sock[d].sent \in Nat /\ sock[d].inbox \in Nat
                        /\ sock[d].unread \in Nat
  BY NetworkFields DEF NetworkInv, Socket
<1>2. \A d \in Client : sock'[d] = sock[d] => ClientEffect(d)
  BY <1>1 DEF ClientEffect
<1>3. CASE Connect(c)
  <2>1. /\ NetworkInv' /\ UNCHANGED <<table, killed>>
        /\ \A d \in Client \ {c} : sock'[d] = sock[d]
        /\ sock[c] = Fresh("out") /\ sock'[c] = Fresh("queued")
    BY <1>3, ConnectInv
  <2>2. /\ sock[c].stage = "out" /\ sock'[c].stage = "queued"
        /\ sock'[c].sent = 0 /\ sock[c].sent = 0 /\ sock'[c].inbox = 0 /\ sock[c].inbox = 0
        /\ sock'[c].unread = 0 /\ sock[c].unread = 0 /\ ~sock[c].fin
        /\ sock[c].err = "none" /\ sock'[c].err = "none"
    BY <2>1 DEF Fresh
  <2>3. ClientEffect(c)
    BY <2>2 DEF ClientEffect
  <2> QED BY <1>2, <2>1, <2>3
<1>4. CASE Talk(c) /\ UNCHANGED <<backlog, table, killed>>
  <2>1. NetworkInv' /\ \A d \in Client \ {c} : sock'[d] = sock[d]
    BY <1>4, TalkInv
  <2>2. ClientEffect(c)
    BY <1>4, TalkInv DEF ClientEffect
  <2> QED BY <1>2, <1>4, <2>1, <2>2
<1> QED BY <1>3, <1>4 DEF ClientStep, Talk

\* What a step of a client changes of the fields that say what its server has yet
\* to do for it.
LEMMA ClientStepCases ==
    ASSUME NetworkInv, NEW c \in Client, ClientStep(c)
    PROVE  /\ \A d \in Client \ {c} : sock'[d] = sock[d]
           /\ \/ /\ \/ sock'[c].stage = sock[c].stage
                    \/ sock[c].stage = "out" /\ sock'[c].stage = "queued"
                 /\ sock'[c].sent = sock[c].sent /\ sock'[c].inbox = sock[c].inbox
                 /\ sock'[c].fin = sock[c].fin /\ sock'[c].err = sock[c].err
              \/ /\ sock'[c].stage = sock[c].stage /\ sock[c].stage \in {"queued", "open"}
                 /\ sock'[c].sent = sock[c].sent + 1 /\ sock'[c].inbox = sock[c].inbox + 1
                 /\ ~sock[c].fin /\ ~sock'[c].fin /\ sock[c].err = "none" /\ sock'[c].err = "none"
              \/ /\ sock'[c].stage = sock[c].stage /\ sock[c].stage \in {"queued", "open"}
                 /\ sock'[c].sent = sock[c].sent /\ sock'[c].inbox = sock[c].inbox
                 /\ ~sock[c].fin /\ sock'[c].fin /\ sock[c].err = "none" /\ sock'[c].err = "none"
              \/ /\ sock'[c].stage = sock[c].stage /\ sock[c].stage \in {"queued", "open"}
                 /\ sock'[c].sent = sock[c].sent /\ sock'[c].inbox = sock[c].inbox
                 /\ sock'[c].fin = sock[c].fin /\ sock'[c].err # "none"
<1>1. /\ sock \in [Client -> Socket] /\ sock[c] \in Socket /\ SocketSound(sock[c])
      /\ Connected(c) => sock[c].err = "none"
  BY NetworkFields DEF NetworkInv, NetworkType, SocketSound, Connected
<1>2. CASE Connect(c)
  BY <1>1, <1>2 DEF Connect, Socket
<1>3. CASE ClientSend(c)
  BY <1>1, <1>3 DEF ClientSend, Connected, Socket
<1>4. CASE ClientShutdown(c)
  BY <1>1, <1>4 DEF ClientShutdown, Connected, Socket
<1>5. CASE ClientRead(c)
  BY <1>1, <1>5 DEF ClientRead, Socket
<1>8. ASSUME sock[c].stage \in {"queued", "open"}, Reset(c)
      PROVE  /\ \A d \in Client \ {c} : sock'[d] = sock[d]
             /\ sock'[c].stage = sock[c].stage
             /\ sock'[c].sent = sock[c].sent /\ sock'[c].inbox = sock[c].inbox
             /\ sock'[c].fin = sock[c].fin /\ sock'[c].err # "none"
  BY <1>1, <1>8 DEF Reset, Socket
<1>6. CASE ClientClose(c)
  <2>1. sock[c].stage \in {"queued", "open"} /\ sock[c].err = "none"
    BY <1>1, <1>6 DEF ClientClose, Connected
  <2>2. CASE Reset(c)
    BY <1>8, <2>1, <2>2
  <2>3. CASE sock' = [sock EXCEPT ![c].gone = TRUE, ![c].fin = TRUE]
    BY <1>1, <2>1, <2>3 DEF Socket
  <2> QED BY <1>6, <2>2, <2>3 DEF ClientClose
<1>7. CASE ClientAbort(c) \/ PeerReset(c)
  <2>1. sock[c].stage \in {"queued", "open"} /\ Reset(c)
    BY <1>7 DEF ClientAbort, PeerReset, Connected
  <2> QED BY <1>8, <2>1
<1> QED BY <1>2, <1>3, <1>4, <1>5, <1>6, <1>7 DEF ClientStep
=============================================================================
