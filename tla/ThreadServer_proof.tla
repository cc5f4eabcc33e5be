-------------------------- MODULE ThreadServer_proof --------------------------
(***************************************************************************)
(* Proofs about ThreadServer, for any number of clients, threads, heap     *)
(* cells, descriptors and messages.                                        *)
(***************************************************************************)
EXTENDS ThreadServer, Sockets_proof, FiniteSetTheorems

\* A client that has not been heard: nothing received from it, nothing sent to it.
Unheard(c) == sock[c].sent = sock[c].inbox /\ sock[c].unread = 0 /\ c \notin answered

\* What main holds at each place of its loop.
MainOK ==
    /\ phase = "accept" => client_fd = NoFd /\ arg = NoAddress
    /\ phase = "malloc" => client_fd \in DOMAIN table /\ arg = NoAddress
    /\ phase = "create" => /\ client_fd \in DOMAIN table
                           /\ arg \in DOMAIN heap /\ heap[arg] = client_fd
    /\ client_fd # NoFd => Unheard(table[client_fd])

\* The descriptor a thread works for: in its cell, then in its local variable.
FdOf(t) == IF worker[t].pc = "start" THEN heap[worker[t].arg] ELSE worker[t].client_fd

\* Before it has freed its cell.
HasCell(t) == worker[t].pc \in {"start", "free"}

\* How far a thread has come with its connection.
WorkerOK(t) ==
    /\ HasCell(t) => worker[t].arg \in DOMAIN heap
    /\ FdOf(t) \in DOMAIN table /\ table[FdOf(t)] = worker[t].conn
    /\ worker[t].pc \in {"start", "free", "recv"} => Unheard(worker[t].conn)
    /\ worker[t].pc = "send" => /\ sock[worker[t].conn].sent > sock[worker[t].conn].inbox
                                /\ sock[worker[t].conn].unread = 0
                                /\ worker[t].conn \notin answered
    /\ worker[t].pc = "close" => \/ worker[t].conn \in answered
                                 \/ sock[worker[t].conn].sent = sock[worker[t].conn].inbox

\* No two threads, nor main and a thread, have a connection or a cell in common.
Distinct ==
    /\ \A t, u \in DOMAIN worker : worker[t].conn = worker[u].conn => t = u
    /\ \A t, u \in DOMAIN worker :
          HasCell(t) /\ HasCell(u) /\ worker[t].arg = worker[u].arg => t = u
    /\ client_fd # NoFd => \A t \in DOMAIN worker : worker[t].conn # table[client_fd]
    /\ arg # NoAddress => \A t \in DOMAIN worker : HasCell(t) => worker[t].arg # arg

\* Every open connection and every cell is somebody's.
Covered ==
    /\ \A fd \in DOMAIN table : fd = client_fd \/ \E t \in DOMAIN worker : worker[t].conn = table[fd]
    /\ \A a \in DOMAIN heap : a = arg \/ \E t \in DOMAIN worker : HasCell(t) /\ worker[t].arg = a

IInv ==
    /\ TypeOK /\ NetworkInv
    /\ MainOK
    /\ \A t \in DOMAIN worker : WorkerOK(t)
    /\ Distinct
    /\ Covered
    /\ \A c \in Client : sock[c].stage \in {"out", "queued"} => Unheard(c)

USE BoundsAssumption, AddressAssumption DEF Fd, NoFd, NoAddress
----------------------------------------------------------------------------
\* What the invariant says of the types of the variables.
LEMMA Types ==
    ASSUME IInv
    PROVE  /\ phase \in {"accept", "malloc", "create"}
           /\ client_fd \in Fd \cup {NoFd} /\ arg \in Address \cup {NoAddress}
           /\ DOMAIN heap \subseteq Address /\ \A a \in DOMAIN heap : heap[a] \in Fd
           /\ DOMAIN worker \subseteq Thread
           /\ \A t \in DOMAIN worker :
                 /\ worker[t] \in Worker
                 /\ worker[t].pc \in {"start", "free", "recv", "send", "close"}
                 /\ worker[t].arg \in Address /\ worker[t].client_fd \in Fd \cup {NoFd}
                 /\ worker[t].conn \in Client /\ sock[worker[t].conn].stage = "open"
           /\ answered \subseteq Client
           /\ DOMAIN table \subseteq Fd
           /\ \A fd \in DOMAIN table : table[fd] \in Client /\ sock[table[fd]].stage = "open"
           /\ \A c \in Client : /\ sock[c].sent \in Nat /\ sock[c].inbox \in Nat
                                /\ sock[c].unread \in Nat
<1>1. /\ phase \in {"accept", "malloc", "create"}
      /\ client_fd \in Fd \cup {NoFd} /\ arg \in Address \cup {NoAddress}
      /\ DOMAIN heap \subseteq Address /\ \A a \in DOMAIN heap : heap[a] \in Fd
      /\ DOMAIN worker \subseteq Thread /\ \A t \in DOMAIN worker : worker[t] \in Worker
      /\ answered \subseteq Client
  BY DEF IInv, TypeOK, Range
<1>2. \A t \in DOMAIN worker :
         /\ worker[t].pc \in {"start", "free", "recv", "send", "close"}
         /\ worker[t].arg \in Address /\ worker[t].client_fd \in Fd \cup {NoFd}
         /\ worker[t].conn \in Client
  BY <1>1 DEF Worker
<1>3. /\ DOMAIN table \subseteq Fd /\ \A fd \in DOMAIN table : table[fd] \in Client
      /\ \A c \in Client : sock[c] \in Socket
  BY NetworkFields DEF IInv, NetworkInv
<1>4. \A fd \in DOMAIN table : sock[table[fd]].stage = "open"
  BY <1>3 DEF IInv, NetworkInv, WellConnected
<1>5. \A t \in DOMAIN worker : sock[worker[t].conn].stage = "open"
  BY <1>4 DEF IInv, WorkerOK
<1>6. \A c \in Client : sock[c].sent \in Nat /\ sock[c].inbox \in Nat /\ sock[c].unread \in Nat
  BY <1>3 DEF Socket
<1> QED BY <1>1, <1>2, <1>3, <1>4, <1>5, <1>6

\* A function with one more or one fewer argument.
LEMMA PutFun ==
    ASSUME NEW f, NEW x, NEW v
    PROVE  /\ DOMAIN Put(f, x, v) = DOMAIN f \cup {x} /\ Put(f, x, v)[x] = v
           /\ \A y \in DOMAIN f : y # x => Put(f, x, v)[y] = f[y]
  BY DEF Put

LEMMA WithoutFun ==
    ASSUME NEW f, NEW x
    PROVE  /\ DOMAIN Without(f, x) = DOMAIN f \ {x}
           /\ \A y \in DOMAIN f : y # x => Without(f, x)[y] = f[y]
  BY DEF Without, Restrict

\* The rest of TypeOK after a step, from the ranges of heap and worker.
LEMMA TypesNext ==
    ASSUME NetworkInv', phase' \in {"accept", "malloc", "create"},
           client_fd' \in Fd \cup {NoFd}, arg' \in Address \cup {NoAddress},
           DOMAIN heap' \subseteq Address, \A a \in DOMAIN heap' : heap'[a] \in Fd,
           DOMAIN worker' \subseteq Thread, \A t \in DOMAIN worker' : worker'[t] \in Worker,
           answered' \subseteq Client
    PROVE  TypeOK'
  BY DEF NetworkInv, TypeOK, Range

LEMMA InitInv == Init => IInv
<1> SUFFICES ASSUME Init PROVE IInv
  OBVIOUS
<1>1. NetworkInv /\ DOMAIN table = {}
  BY NetworkInitInv DEF Init, NetworkInit
<1>2. /\ phase = "accept" /\ client_fd = NoFd /\ arg = NoAddress /\ DOMAIN heap = {}
      /\ DOMAIN worker = {} /\ answered = {}
  BY DEF Init
<1>3. TypeOK
  BY <1>1, <1>2 DEF NetworkInv, TypeOK, Range
<1>4. MainOK
  BY <1>1, <1>2 DEF MainOK
<1>5. \A c \in Client : Unheard(c)
  BY <1>2 DEF Init, NetworkInit, Fresh, Unheard
<1> QED BY <1>1, <1>2, <1>3, <1>4, <1>5 DEF IInv, Distinct, Covered

----------------------------------------------------------------------------
(* main *)

LEMMA MainAcceptInv == IInv /\ MainAccept => IInv'
<1> SUFFICES ASSUME IInv, MainAccept PROVE IInv'
  OBVIOUS
<1>1. PICK f \in Fd : Accept(f) /\ client_fd' = f
  BY DEF MainAccept
<1>2. /\ phase = "accept" /\ phase' = "malloc" /\ UNCHANGED <<arg, heap, worker, answered>>
      /\ client_fd = NoFd /\ arg = NoAddress
  BY DEF MainAccept, IInv, MainOK
<1>3. PICK c \in Client : table'[f] = c /\ Opened(c)
  BY <1>1, AcceptInv DEF IInv
<1>4. /\ NetworkInv' /\ f \in Fd \ DOMAIN table /\ DOMAIN table' = DOMAIN table \cup {f}
      /\ \A g \in DOMAIN table : table'[g] = table[g]
  BY <1>1, AcceptInv DEF IInv
<1>5. TypeOK'
  BY <1>1, <1>2, <1>4, Types, TypesNext
<1>6. Unheard(c)'
  BY <1>2, <1>3 DEF IInv, Unheard, Opened
<1>7. \A t \in DOMAIN worker : worker[t].conn # c /\ sock'[worker[t].conn] = sock[worker[t].conn]
  BY <1>3, Types DEF Opened
<1>8. MainOK'
  BY <1>1, <1>2, <1>3, <1>4, <1>6, Types DEF MainOK
<1>9. \A t \in DOMAIN worker : WorkerOK(t)'
  BY <1>2, <1>4, <1>7, Types DEF IInv, WorkerOK, FdOf, HasCell, Unheard
<1>10. Distinct'
  BY <1>1, <1>2, <1>3, <1>7 DEF IInv, Distinct, HasCell
<1>11. Covered'
  <2>1. \A fd \in DOMAIN table : fd # client_fd
    BY <1>2, Types
  <2> QED BY <1>1, <1>2, <1>4, <2>1 DEF IInv, Covered, HasCell
<1>12. \A d \in Client : sock'[d].stage \in {"out", "queued"} => Unheard(d)'
  BY <1>2, <1>3 DEF IInv, Unheard, Opened
<1> QED BY <1>2, <1>4, <1>5, <1>8, <1>9, <1>10, <1>11, <1>12 DEF IInv

\* main closes the connection it holds, with or without a cell for it: the
\* threads do not notice.
LEMMA MainClosesInv ==
    ASSUME IInv, client_fd # NoFd, Close({client_fd}), BackToAccept,
           DOMAIN heap' = DOMAIN heap \ {arg},
           \A a \in DOMAIN heap' : heap'[a] = heap[a],
           UNCHANGED <<worker, answered>>
    PROVE  IInv'
<1>1. client_fd \in DOMAIN table
  BY Types DEF IInv, MainOK
<1>2. PICK c \in Client : c = table[client_fd] /\ Closed(c)
  BY <1>1, CloseOneInv DEF IInv
<1>3. /\ NetworkInv' /\ DOMAIN table' = DOMAIN table \ {client_fd}
      /\ \A g \in DOMAIN table' : table'[g] = table[g]
  BY <1>1, CloseOneInv DEF IInv
<1>4. phase' = "accept" /\ client_fd' = NoFd /\ arg' = NoAddress
  BY DEF BackToAccept
<1>5. TypeOK'
  BY <1>3, <1>4, Types, TypesNext
<1>6. \A t \in DOMAIN worker : worker[t].conn # c /\ sock'[worker[t].conn] = sock[worker[t].conn]
  BY <1>1, <1>2, Types DEF IInv, Distinct, Closed
<1>7. \A t \in DOMAIN worker : HasCell(t) => worker[t].arg # arg
  BY Types DEF IInv, Distinct
<1>8. \A t \in DOMAIN worker : FdOf(t) # client_fd
  BY <1>1, <1>2, <1>6 DEF IInv, WorkerOK
<1>9. \A t \in DOMAIN worker : WorkerOK(t)'
  BY <1>3, <1>6, <1>7, <1>8, Types DEF IInv, WorkerOK, FdOf, HasCell, Unheard
<1>10. Distinct'
  BY <1>4 DEF IInv, Distinct, HasCell
<1>11. Covered'
  BY <1>1, <1>2, <1>3, <1>4, Types DEF IInv, Covered, HasCell
<1>12. \A d \in Client : sock'[d].stage \in {"out", "queued"} => Unheard(d)'
  BY <1>2, FreshSound DEF IInv, Unheard, Closed
<1>13. MainOK'
  BY <1>4 DEF MainOK
<1> QED BY <1>3, <1>5, <1>9, <1>10, <1>11, <1>12, <1>13 DEF IInv

LEMMA MainMallocInv == IInv /\ MainMalloc => IInv'
<1> SUFFICES ASSUME IInv, MainMalloc PROVE IInv'
  OBVIOUS
<1>1. /\ phase = "malloc" /\ client_fd \in DOMAIN table /\ arg = NoAddress
      /\ UNCHANGED <<worker, answered>>
  BY DEF MainMalloc, IInv, MainOK
<1>2. ASSUME NEW a \in Address \ DOMAIN heap, arg' = a, heap' = Put(heap, a, client_fd),
             phase' = "create", UNCHANGED <<network, client_fd>>
      PROVE  IInv'
  <2>1. /\ DOMAIN heap' = DOMAIN heap \cup {a} /\ heap'[a] = client_fd
        /\ \A b \in DOMAIN heap : heap'[b] = heap[b]
    BY <1>2 DEF Put
  <2>2. NetworkInv' /\ UNCHANGED <<table, sock>>
    BY <1>2 DEF IInv, NetworkInv, NetworkType, WellConnected, network, SocketSound
  <2>3. TypeOK'
    BY <1>1, <1>2, <2>1, <2>2, Types, TypesNext
  <2>4. MainOK'
    BY <1>1, <1>2, <2>1, <2>2 DEF IInv, MainOK, Unheard
  <2>5. \A t \in DOMAIN worker : WorkerOK(t)'
    BY <1>1, <2>1, <2>2, Types DEF IInv, WorkerOK, FdOf, HasCell, Unheard
  <2>6. \A t \in DOMAIN worker : HasCell(t) => worker[t].arg # a
    BY <1>2 DEF IInv, WorkerOK
  <2>7. Distinct'
    BY <1>1, <1>2, <2>2, <2>6 DEF IInv, Distinct, HasCell
  <2>8. Covered'
    BY <1>1, <1>2, <2>1, <2>2, Types DEF IInv, Covered, HasCell
  <2>9. \A d \in Client : sock'[d].stage \in {"out", "queued"} => Unheard(d)'
    BY <1>1, <2>2 DEF IInv, Unheard
  <2> QED BY <1>1, <2>2, <2>3, <2>4, <2>5, <2>7, <2>8, <2>9 DEF IInv
<1>3. CASE Close({client_fd}) /\ BackToAccept /\ UNCHANGED heap
  <2>1. arg \notin DOMAIN heap /\ client_fd # NoFd
    BY <1>1, Types
  <2>2. DOMAIN heap' = DOMAIN heap \ {arg} /\ \A a \in DOMAIN heap' : heap'[a] = heap[a]
    BY <1>3, <2>1
  <2> QED BY <1>1, <1>3, <2>1, <2>2, MainClosesInv
<1> QED BY <1>2, <1>3 DEF MainMalloc

LEMMA MainCreateInv == IInv /\ MainCreate => IInv'
<1> SUFFICES ASSUME IInv, MainCreate PROVE IInv'
  OBVIOUS
<1>1. /\ phase = "create" /\ client_fd \in DOMAIN table
      /\ arg \in DOMAIN heap /\ heap[arg] = client_fd
      /\ BackToAccept /\ UNCHANGED answered /\ client_fd # NoFd /\ arg # NoAddress
  BY Types DEF MainCreate, IInv, MainOK
<1>2. ASSUME NEW t \in Thread \ DOMAIN worker,
             worker' = Put(worker, t, [pc |-> "start", arg |-> arg, client_fd |-> NoFd,
                                       conn |-> table[client_fd]]),
             UNCHANGED <<network, heap>>
      PROVE  IInv'
  <2>1. /\ DOMAIN worker' = DOMAIN worker \cup {t}
        /\ worker'[t] = [pc |-> "start", arg |-> arg, client_fd |-> NoFd,
                         conn |-> table[client_fd]]
        /\ \A u \in DOMAIN worker : worker'[u] = worker[u]
    BY <1>2 DEF Put
  <2>2. NetworkInv' /\ UNCHANGED <<table, sock>>
    BY <1>2 DEF IInv, NetworkInv, NetworkType, WellConnected, network, SocketSound
  <2>3. phase' = "accept" /\ client_fd' = NoFd /\ arg' = NoAddress
    BY <1>1 DEF BackToAccept
  <2>4. /\ worker'[t] \in Worker /\ worker'[t].pc = "start" /\ worker'[t].arg = arg
        /\ worker'[t].conn = table[client_fd]
    BY <1>1, <2>1, Types DEF Worker
  <2>5. TypeOK'
    BY <1>1, <1>2, <2>1, <2>2, <2>3, <2>4, Types, TypesNext
  <2>6. MainOK'
    BY <2>3 DEF MainOK
  <2>7. WorkerOK(t)'
    BY <1>1, <1>2, <2>2, <2>4 DEF IInv, MainOK, WorkerOK, FdOf, HasCell, Unheard
  <2>8. \A u \in DOMAIN worker : WorkerOK(u)'
    BY <1>1, <1>2, <2>1, <2>2 DEF IInv, WorkerOK, FdOf, HasCell, Unheard
  <2>9. Distinct'
    BY <1>1, <1>2, <2>1, <2>2, <2>3, <2>4 DEF IInv, Distinct, HasCell
  <2>10. Covered'
    BY <1>1, <1>2, <2>1, <2>2, <2>3, <2>4, Types DEF IInv, Covered, HasCell
  <2>11. \A d \in Client : sock'[d].stage \in {"out", "queued"} => Unheard(d)'
    BY <1>1, <2>2 DEF IInv, Unheard
  <2> QED BY <2>1, <2>2, <2>5, <2>6, <2>7, <2>8, <2>9, <2>10, <2>11 DEF IInv
<1>3. CASE Close({client_fd}) /\ heap' = Without(heap, arg) /\ UNCHANGED worker
  <2>1. DOMAIN heap' = DOMAIN heap \ {arg} /\ \A a \in DOMAIN heap' : heap'[a] = heap[a]
    BY <1>3, WithoutFun
  <2> QED BY <1>1, <1>3, <2>1, MainClosesInv
<1> QED BY <1>2, <1>3 DEF MainCreate

----------------------------------------------------------------------------
(* handle_client *)

\* Thread t goes on to another place and keeps its connection; what the other
\* threads and main rely on stays as it was.
LEMMA GoOnInv ==
    ASSUME IInv, NEW t \in DOMAIN worker, NEW pc \in {"free", "recv", "send", "close"},
           NEW fd \in Fd, fd = FdOf(t),
           worker' = [worker EXCEPT ![t] = [@ EXCEPT !.client_fd = fd, !.pc = pc]],
           UNCHANGED <<mainVars, table>>, NetworkInv',
           heap' = IF worker[t].pc = "free" THEN Without(heap, worker[t].arg) ELSE heap,
           worker[t].pc = "start" <=> pc = "free",
           answered' \in {answered, answered \cup {worker[t].conn}},
           sock'[worker[t].conn].stage = "open",
           \A d \in Client \ {worker[t].conn} : sock'[d] = sock[d],
           pc \in {"free", "recv"} => /\ sock'[worker[t].conn].sent = sock'[worker[t].conn].inbox
                                      /\ sock'[worker[t].conn].unread = 0
                                      /\ worker[t].conn \notin answered',
           pc = "send" => /\ sock'[worker[t].conn].sent > sock'[worker[t].conn].inbox
                          /\ sock'[worker[t].conn].unread = 0
                          /\ worker[t].conn \notin answered',
           pc = "close" => \/ worker[t].conn \in answered'
                           \/ sock'[worker[t].conn].sent = sock'[worker[t].conn].inbox
    PROVE  IInv'
<1>1. /\ DOMAIN worker' = DOMAIN worker /\ \A u \in DOMAIN worker \ {t} : worker'[u] = worker[u]
      /\ worker'[t] = [worker[t] EXCEPT !.client_fd = fd, !.pc = pc]
  OBVIOUS
<1>2. /\ worker'[t].pc = pc /\ worker'[t].arg = worker[t].arg
      /\ worker'[t].client_fd = fd /\ worker'[t].conn = worker[t].conn /\ worker'[t] \in Worker
  <2>1. worker[t] \in Worker
    BY Types
  <2> QED BY <1>1, <2>1 DEF Worker
<1>3. \A u \in DOMAIN worker : worker'[u].conn = worker[u].conn /\ worker'[u].arg = worker[u].arg
  BY <1>1, <1>2
<1>4. UNCHANGED <<phase, client_fd, arg, table>>
  BY DEF mainVars
<1>5. /\ DOMAIN heap' = DOMAIN heap \ {a \in {worker[t].arg} : worker[t].pc = "free"}
      /\ \A a \in DOMAIN heap' : heap'[a] = heap[a]
  BY DEF Without, Restrict
<1>6. \A u \in DOMAIN worker \ {t} :
         /\ worker[u].conn # worker[t].conn
         /\ HasCell(u) /\ HasCell(t) => worker[u].arg # worker[t].arg
  BY DEF IInv, Distinct
<1>7. client_fd # NoFd => table[client_fd] # worker[t].conn /\ table[client_fd] \in Client
  BY Types DEF IInv, Distinct, MainOK
<1>8. arg # NoAddress /\ HasCell(t) => worker[t].arg # arg
  BY DEF IInv, Distinct
<1>9. TypeOK'
  BY <1>1, <1>2, <1>4, <1>5, Types, TypesNext
<1>10. MainOK'
  <2>1. client_fd # NoFd => Unheard(table[client_fd])'
    BY <1>4, <1>7 DEF IInv, MainOK, Unheard
  <2>2. phase = "create" => arg \in DOMAIN heap'
    BY <1>5, <1>8, Types DEF IInv, MainOK, HasCell
  <2> QED BY <1>4, <1>5, <2>1, <2>2 DEF IInv, MainOK
<1>11. WorkerOK(t)'
  <2>1. pc = "free" => worker[t].arg \in DOMAIN heap'
    BY <1>5 DEF IInv, WorkerOK, HasCell
  <2>2. fd \in DOMAIN table /\ table[fd] = worker[t].conn
    BY DEF IInv, WorkerOK
  <2> QED BY <1>2, <1>4, <2>1, <2>2 DEF WorkerOK, FdOf, HasCell, Unheard
<1>12. \A u \in DOMAIN worker \ {t} : WorkerOK(u)'
  <2> SUFFICES ASSUME NEW u \in DOMAIN worker \ {t} PROVE WorkerOK(u)'
    OBVIOUS
  <2>1. worker'[u] = worker[u] /\ sock'[worker[u].conn] = sock[worker[u].conn] /\ WorkerOK(u)
    BY <1>1, <1>6, Types DEF IInv
  <2>2. worker[u].conn \in answered' <=> worker[u].conn \in answered
    BY <1>6
  <2>3. HasCell(u) => worker[u].arg \in DOMAIN heap' /\ heap'[worker[u].arg] = heap[worker[u].arg]
    BY <1>5, <1>6, <2>1 DEF HasCell, WorkerOK
  <2> QED BY <1>4, <2>1, <2>2, <2>3 DEF WorkerOK, FdOf, HasCell, Unheard
<1>13. \A u \in DOMAIN worker : HasCell(u)' => HasCell(u)
  BY <1>1, <1>2, Types DEF HasCell
<1>14. Distinct'
  BY <1>1, <1>3, <1>4, <1>13 DEF IInv, Distinct
<1>15. Covered'
  <2>1. \A f \in DOMAIN table' : f = client_fd' \/ \E u \in DOMAIN worker' : worker'[u].conn = table'[f]
    BY <1>1, <1>3, <1>4 DEF IInv, Covered
  <2>2. ASSUME NEW a \in DOMAIN heap'
        PROVE  a = arg' \/ \E u \in DOMAIN worker' : HasCell(u)' /\ worker'[u].arg = a
    <3>1. CASE a = arg
      BY <1>4, <3>1
    <3>2. ASSUME NEW u \in DOMAIN worker, HasCell(u), worker[u].arg = a
          PROVE  \E v \in DOMAIN worker' : HasCell(v)' /\ worker'[v].arg = a
      <4>1. HasCell(u)'
        BY <1>1, <1>2, <1>5, <3>2 DEF HasCell
      <4> QED BY <1>1, <1>3, <3>2, <4>1
    <3> QED BY <1>5, <3>1, <3>2 DEF IInv, Covered
  <2> QED BY <2>1, <2>2 DEF Covered
<1>16. \A d \in Client : sock'[d].stage \in {"out", "queued"} => Unheard(d)'
  BY DEF IInv, Unheard
<1> QED BY <1>1, <1>9, <1>10, <1>11, <1>12, <1>14, <1>15, <1>16 DEF IInv

LEMMA ReadArgInv == ASSUME IInv, NEW t \in Thread, ReadArg(t) PROVE IInv'
<1>1. /\ t \in DOMAIN worker /\ worker[t].pc = "start"
      /\ UNCHANGED <<network, mainVars, heap, answered>>
      /\ worker' = [worker EXCEPT ![t].client_fd = heap[worker[t].arg], ![t].pc = "free"]
  BY DEF ReadArg, At
<1>2. PICK fd \in Fd : fd = FdOf(t) /\ fd = heap[worker[t].arg]
  BY <1>1, Types DEF IInv, WorkerOK, FdOf, HasCell
<1>3. worker' = [worker EXCEPT ![t] = [@ EXCEPT !.client_fd = fd, !.pc = "free"]]
  BY <1>1, <1>2
<1>4. NetworkInv' /\ UNCHANGED <<table, sock>>
  BY <1>1 DEF IInv, NetworkInv, NetworkType, WellConnected, network, SocketSound
<1>5. /\ sock'[worker[t].conn].stage = "open"
      /\ sock'[worker[t].conn].sent = sock'[worker[t].conn].inbox
      /\ sock'[worker[t].conn].unread = 0 /\ worker[t].conn \notin answered'
  BY <1>1, <1>4, Types DEF IInv, WorkerOK, Unheard
<1> QED BY <1>1, <1>2, <1>3, <1>4, <1>5, GoOnInv DEF Unheard

\* Past "start" a thread's local variable is its descriptor.
LEMMA PeerIsOwn ==
    ASSUME IInv, NEW t \in DOMAIN worker, worker[t].pc # "start"
    PROVE  /\ Peer(t) = worker[t].conn /\ worker[t].conn \in Client
           /\ sock[worker[t].conn].stage = "open"
           /\ FdOf(t) = worker[t].client_fd /\ FdOf(t) \in DOMAIN table /\ FdOf(t) \in Fd
  BY Types DEF IInv, WorkerOK, FdOf, Peer

LEMMA FreeArgInv == ASSUME IInv, NEW t \in Thread, FreeArg(t) PROVE IInv'
<1>1. /\ t \in DOMAIN worker /\ worker[t].pc = "free"
      /\ UNCHANGED <<network, mainVars, answered>> /\ heap' = Without(heap, worker[t].arg)
      /\ worker' = [worker EXCEPT ![t].pc = "recv"]
  BY DEF FreeArg, At
<1>2. PICK fd \in Fd : fd = FdOf(t) /\ fd = worker[t].client_fd
  BY <1>1, PeerIsOwn
<1>3. worker' = [worker EXCEPT ![t] = [@ EXCEPT !.client_fd = fd, !.pc = "recv"]]
  <2>1. worker[t] \in Worker
    BY <1>1, Types
  <2>2. [worker[t] EXCEPT !.pc = "recv"] = [worker[t] EXCEPT !.client_fd = fd, !.pc = "recv"]
    BY <1>2, <2>1 DEF Worker
  <2> QED BY <1>1, <2>2
<1>4. NetworkInv' /\ UNCHANGED <<table, sock>>
  BY <1>1 DEF IInv, NetworkInv, NetworkType, WellConnected, network, SocketSound
<1>5. /\ sock'[worker[t].conn].stage = "open"
      /\ sock'[worker[t].conn].sent = sock'[worker[t].conn].inbox
      /\ sock'[worker[t].conn].unread = 0 /\ worker[t].conn \notin answered'
  BY <1>1, <1>4, Types DEF IInv, WorkerOK, Unheard
<1> QED BY <1>1, <1>2, <1>3, <1>4, <1>5, GoOnInv

LEMMA RecvInv == ASSUME IInv, NEW t \in Thread, Recv(t) PROVE IInv'
<1>1. t \in DOMAIN worker /\ worker[t].pc = "recv" /\ UNCHANGED <<mainVars, heap, answered>>
  BY DEF Recv, At
<1>2. PICK fd \in Fd : fd = FdOf(t) /\ fd = worker[t].client_fd
  BY <1>1, PeerIsOwn
<1>3. PICK c \in Client : c = worker[t].conn /\ c = Peer(t) /\ sock[c].stage = "open"
  BY <1>1, PeerIsOwn
<1>4. Unheard(c) /\ c \notin answered'
  BY <1>1, <1>3 DEF IInv, WorkerOK, Unheard
<1>5. ASSUME NEW pc \in {"send", "close"}, worker' = [worker EXCEPT ![t].pc = pc]
      PROVE  worker' = [worker EXCEPT ![t] = [@ EXCEPT !.client_fd = fd, !.pc = pc]]
  <2>1. worker[t] \in Worker
    BY <1>1, Types
  <2>2. [worker[t] EXCEPT !.pc = pc] = [worker[t] EXCEPT !.client_fd = fd, !.pc = pc]
    BY <1>2, <2>1 DEF Worker
  <2> QED BY <1>5, <2>2
<1>6. CASE RecvSome(c) /\ worker' = [worker EXCEPT ![t].pc = "send"]
  <2>1. PICK k \in 1 .. MaxSends : RecvData(c, k)
    BY <1>6 DEF RecvSome
  <2>2. /\ NetworkInv' /\ UNCHANGED table
        /\ sock'[c].inbox = sock[c].inbox - k
        /\ sock'[c].stage = sock[c].stage /\ sock'[c].sent = sock[c].sent
        /\ sock'[c].unread = sock[c].unread
        /\ \A d \in Client \ {c} : sock'[d] = sock[d]
    <3>1. NetworkInv /\ k \in Int
      BY DEF IInv
    <3> QED BY <1>3, <2>1, <3>1, RecvDataInv
  <2>3. sock'[c].sent > sock'[c].inbox /\ sock'[c].unread = 0
    BY <1>4, <2>2, Types DEF Unheard
  <2>4. worker' = [worker EXCEPT ![t] = [@ EXCEPT !.client_fd = fd, !.pc = "send"]]
    BY <1>5, <1>6
  <2> QED BY <1>1, <1>2, <1>3, <1>4, <2>2, <2>3, <2>4, GoOnInv
<1>7. CASE (RecvEof(c) \/ RecvError(c)) /\ worker' = [worker EXCEPT ![t].pc = "close"]
  <2>1. /\ NetworkInv' /\ UNCHANGED table /\ \A d \in Client \ {c} : sock'[d] = sock[d]
        /\ sock'[c].stage = sock[c].stage /\ sock'[c].sent = sock[c].sent
        /\ sock'[c].inbox = sock[c].inbox
    BY <1>3, <1>7, RecvOverInv DEF IInv
  <2>2. worker' = [worker EXCEPT ![t] = [@ EXCEPT !.client_fd = fd, !.pc = "close"]]
    BY <1>5, <1>7
  <2>3. sock'[c].sent = sock'[c].inbox /\ sock'[c].stage = "open"
    BY <1>3, <1>4, <2>1 DEF Unheard
  <2> QED BY <1>1, <1>2, <1>3, <2>1, <2>2, <2>3, GoOnInv
<1> QED BY <1>3, <1>6, <1>7 DEF Recv

\* What a thread's send does: an answer to a client that has none.
LEMMA SendEffect ==
    ASSUME IInv, NEW t \in Thread, Send(t)
    PROVE  \E c \in Client :
             /\ t \in DOMAIN worker /\ worker[t].pc = "send" /\ c = worker[t].conn
             /\ sock[c].stage = "open" /\ sock'[c].stage = "open"
             /\ sock[c].sent > sock[c].inbox /\ c \notin answered
             /\ sock'[c].sent = sock[c].sent /\ sock'[c].inbox = sock[c].inbox
             /\ NetworkInv' /\ UNCHANGED <<table, mainVars, heap>>
             /\ sock'[c].fin = sock[c].fin /\ SendUnits(c, 1)
             /\ answered' = answered \cup {c}
             /\ worker' = [worker EXCEPT ![t].pc = "close"]
             /\ \A d \in Client \ {c} : sock'[d] = sock[d]
<1>1. /\ t \in DOMAIN worker /\ worker[t].pc = "send" /\ SendReply(Peer(t))
      /\ UNCHANGED <<mainVars, heap>> /\ answered' = answered \cup {Peer(t)}
      /\ worker' = [worker EXCEPT ![t].pc = "close"]
  BY DEF Send, At
<1>2. PICK c \in Client : c = worker[t].conn /\ c = Peer(t) /\ sock[c].stage = "open"
  BY <1>1, PeerIsOwn
<1>3. sock[c].sent > sock[c].inbox /\ sock[c].unread = 0 /\ c \notin answered
  BY <1>1, <1>2 DEF IInv, WorkerOK
<1>4. SendUnits(c, 1)
  BY <1>1, <1>2 DEF SendReply
<1>5. /\ NetworkInv' /\ UNCHANGED table /\ sock'[c].stage = sock[c].stage
      /\ sock'[c].sent = sock[c].sent /\ sock'[c].inbox = sock[c].inbox
      /\ sock'[c].fin = sock[c].fin
      /\ \A d \in Client \ {c} : sock'[d] = sock[d]
  BY <1>2, <1>4, SendUnitsInv DEF IInv
<1> QED BY <1>1, <1>2, <1>3, <1>4, <1>5

LEMMA SendInv == ASSUME IInv, NEW t \in Thread, Send(t) PROVE IInv'
<1>1. PICK c \in Client :
         /\ t \in DOMAIN worker /\ worker[t].pc = "send" /\ c = worker[t].conn
         /\ sock[c].stage = "open" /\ sock'[c].stage = "open"
         /\ sock[c].sent > sock[c].inbox /\ c \notin answered
         /\ sock'[c].sent = sock[c].sent /\ sock'[c].inbox = sock[c].inbox
         /\ NetworkInv' /\ UNCHANGED <<table, mainVars, heap>>
         /\ answered' = answered \cup {c}
         /\ worker' = [worker EXCEPT ![t].pc = "close"]
         /\ \A d \in Client \ {c} : sock'[d] = sock[d]
  BY SendEffect
<1>2. PICK fd \in Fd : fd = FdOf(t) /\ fd = worker[t].client_fd
  BY <1>1, PeerIsOwn
<1>3. worker' = [worker EXCEPT ![t] = [@ EXCEPT !.client_fd = fd, !.pc = "close"]]
  <2>1. worker[t] \in Worker
    BY <1>1, Types
  <2>2. [worker[t] EXCEPT !.pc = "close"] = [worker[t] EXCEPT !.client_fd = fd, !.pc = "close"]
    BY <1>2, <2>1 DEF Worker
  <2> QED BY <1>1, <2>2
<1> QED BY <1>1, <1>2, <1>3, GoOnInv

LEMMA CloseAndEndInv == ASSUME IInv, NEW t \in Thread, CloseAndEnd(t) PROVE IInv'
<1>1. /\ t \in DOMAIN worker /\ worker[t].pc = "close" /\ Close({worker[t].client_fd})
      /\ worker' = Without(worker, t) /\ UNCHANGED <<phase, client_fd, arg, heap, answered>>
  BY DEF CloseAndEnd, At, mainVars
<1>2. PICK fd \in DOMAIN table : fd = worker[t].client_fd /\ table[fd] = worker[t].conn
  BY <1>1, PeerIsOwn DEF Peer
<1>3. PICK c \in Client : c = table[fd] /\ Closed(c)
  BY <1>1, <1>2, CloseOneInv DEF IInv
<1>4. /\ NetworkInv' /\ DOMAIN table' = DOMAIN table \ {fd}
      /\ \A g \in DOMAIN table' : table'[g] = table[g]
  BY <1>1, <1>2, CloseOneInv DEF IInv
<1>5. /\ DOMAIN worker' = DOMAIN worker \ {t} /\ \A u \in DOMAIN worker' : worker'[u] = worker[u]
  BY <1>1, WithoutFun
<1>6. TypeOK'
  BY <1>1, <1>4, <1>5, Types, TypesNext
<1>7. \A u \in DOMAIN worker' : /\ worker[u].conn # c /\ FdOf(u) # fd
                               /\ sock'[worker[u].conn] = sock[worker[u].conn]
  <2> SUFFICES ASSUME NEW u \in DOMAIN worker'
               PROVE  /\ worker[u].conn # c /\ FdOf(u) # fd
                      /\ sock'[worker[u].conn] = sock[worker[u].conn]
    OBVIOUS
  <2>1. worker[u].conn # c /\ worker[u].conn \in Client
    BY <1>1, <1>2, <1>3, <1>5, Types DEF IInv, Distinct
  <2>2. FdOf(u) # fd
    BY <1>3, <1>5, <2>1 DEF IInv, WorkerOK
  <2> QED BY <1>3, <2>1, <2>2 DEF Closed
<1>8. MainOK'
  <2>1. client_fd # NoFd => /\ client_fd \in DOMAIN table' /\ table[client_fd] \in Client
                            /\ table[client_fd] # c
    BY <1>1, <1>2, <1>3, <1>4, Types DEF IInv, MainOK, Distinct
  <2>2. client_fd # NoFd => Unheard(table[client_fd])'
    BY <1>1, <1>3, <1>4, <2>1 DEF IInv, MainOK, Unheard, Closed
  <2>3. phase # "accept" => client_fd # NoFd
    BY Types DEF IInv, MainOK
  <2> QED BY <1>1, <2>1, <2>2, <2>3 DEF IInv, MainOK
<1>9. \A u \in DOMAIN worker' : WorkerOK(u)'
  BY <1>1, <1>4, <1>5, <1>7 DEF IInv, WorkerOK, FdOf, HasCell, Unheard
<1>10. Distinct'
  <2>1. client_fd # NoFd => table'[client_fd] = table[client_fd]
    <3>1. client_fd # NoFd => client_fd \in DOMAIN table /\ table[client_fd] # worker[t].conn
      BY <1>1, Types DEF IInv, MainOK, Distinct
    <3> QED BY <1>2, <1>4, <3>1
  <2> QED BY <1>1, <1>5, <2>1 DEF IInv, Distinct, HasCell
<1>11. Covered'
  <2>1. \A f \in DOMAIN table' : f = client_fd' \/ \E u \in DOMAIN worker' : worker'[u].conn = table'[f]
    <3> SUFFICES ASSUME NEW f \in DOMAIN table', f # client_fd
                 PROVE  \E u \in DOMAIN worker' : worker'[u].conn = table'[f]
      BY <1>1
    <3>1. PICK u \in DOMAIN worker : worker[u].conn = table[f]
      BY <1>4 DEF IInv, Covered
    <3>2. u # t
      BY <1>2, <1>4, <3>1 DEF IInv, NetworkInv, WellConnected
    <3> QED BY <1>4, <1>5, <3>1, <3>2
  <2>2. ~HasCell(t)
    BY <1>1 DEF HasCell
  <2>3. \A a \in DOMAIN heap' : a = arg' \/ \E u \in DOMAIN worker' : HasCell(u)' /\ worker'[u].arg = a
    BY <1>1, <1>5, <2>2 DEF IInv, Covered, HasCell
  <2> QED BY <2>1, <2>3 DEF Covered
<1>12. \A d \in Client : sock'[d].stage \in {"out", "queued"} => Unheard(d)'
  BY <1>1, <1>3, FreshSound DEF IInv, Unheard, Closed
<1> QED BY <1>4, <1>6, <1>8, <1>9, <1>10, <1>11, <1>12 DEF IInv

----------------------------------------------------------------------------
\* A client's step takes nothing from main or a thread.
LEMMA ClientInv ==
    ASSUME IInv, NEW c \in Client, ClientStep(c), UNCHANGED <<mainVars, heap, worker, answered>>
    PROVE  IInv'
<1>1. NetworkInv' /\ UNCHANGED <<table, killed>> /\ \A d \in Client : ClientEffect(d)
  BY ClientStepInv DEF IInv
<1>2. UNCHANGED <<phase, client_fd, arg, heap, worker, answered, table>>
  BY <1>1 DEF mainVars
<1>3. TypeOK'
  BY <1>1, <1>2, Types, TypesNext
<1>4. \A d \in Client : /\ sock'[d].sent \in Nat /\ sock'[d].inbox \in Nat
                        /\ sock'[d].unread \in Nat
  BY <1>1 DEF NetworkInv, NetworkType, Socket
<1>5. \A d \in Client : Unheard(d) => Unheard(d)'
  BY <1>1, <1>2, <1>4, Types DEF Unheard, ClientEffect
<1>6. MainOK'
  BY <1>2, <1>5, Types DEF IInv, MainOK
<1>7. \A t \in DOMAIN worker : WorkerOK(t)'
  <2> SUFFICES ASSUME NEW t \in DOMAIN worker PROVE WorkerOK(t)'
    OBVIOUS
  <2>1. WorkerOK(t) /\ worker[t].conn \in Client
    BY Types DEF IInv
  <2>2. /\ Unheard(worker[t].conn) => Unheard(worker[t].conn)'
        /\ sock[worker[t].conn].sent > sock[worker[t].conn].inbox
              => sock'[worker[t].conn].sent > sock'[worker[t].conn].inbox
        /\ sock[worker[t].conn].unread = 0 => sock'[worker[t].conn].unread = 0
        /\ sock[worker[t].conn].sent = sock[worker[t].conn].inbox
              => sock'[worker[t].conn].sent = sock'[worker[t].conn].inbox
    <3>1. PICK d \in Client : d = worker[t].conn
      BY <2>1
    <3>2. ClientEffect(d) /\ sock[d].sent \in Nat /\ sock[d].inbox \in Nat /\ sock[d].unread \in Nat
      BY <1>1, Types
    <3>3. sock'[d].sent \in Nat /\ sock'[d].inbox \in Nat /\ sock'[d].unread \in Nat
      BY <1>4
    <3> QED BY <1>5, <3>1, <3>2, <3>3 DEF ClientEffect
  <2> QED BY <1>2, <2>1, <2>2 DEF WorkerOK, FdOf, HasCell
<1>8. Distinct' /\ Covered'
  BY <1>2 DEF IInv, Distinct, Covered, HasCell
<1>9. \A d \in Client : sock'[d].stage \in {"out", "queued"} => Unheard(d)'
  BY <1>1, <1>5 DEF IInv, ClientEffect
<1> QED BY <1>1, <1>2, <1>3, <1>6, <1>7, <1>8, <1>9 DEF IInv

LEMMA NextInv == IInv /\ [Next]_vars => IInv'
<1> SUFFICES ASSUME IInv, [Next]_vars PROVE IInv'
  OBVIOUS
<1>1. CASE MainStep
  BY <1>1, MainAcceptInv, MainMallocInv, MainCreateInv DEF MainStep
<1>2. ASSUME NEW t \in Thread, WorkerStep(t) PROVE IInv'
  BY <1>2, ReadArgInv, FreeArgInv, RecvInv, SendInv, CloseAndEndInv DEF WorkerStep
<1>3. ASSUME NEW c \in Client, ClientStep(c), UNCHANGED <<mainVars, heap, worker, answered>>
      PROVE  IInv'
  BY <1>3, ClientInv
<1>4. CASE UNCHANGED vars
  BY <1>4 DEF vars, mainVars, network, IInv, TypeOK, NetworkInv, NetworkType, WellConnected,
              SocketSound, MainOK, WorkerOK, FdOf, HasCell, Distinct, Covered, Unheard
<1> QED BY <1>1, <1>2, <1>3, <1>4 DEF Next

----------------------------------------------------------------------------
(* Theorems. *)

\* The invariant holds in every reachable state.
THEOREM Invariant == Spec => []IInv
  BY InitInv, NextInv, PTL DEF Spec

\* Every variable keeps its type, for any number of threads and clients.
THEOREM TypeCorrect == Spec => []TypeOK
<1>1. IInv => TypeOK
  BY DEF IInv
<1> QED BY <1>1, Invariant, PTL

\* However late a thread starts, the cell main has filled for it still holds the
\* descriptor of its connection, and that number is nobody else's until the
\* thread closes it.
THEOREM OwnConnectionAlways == Spec => []OwnConnection
<1>1. IInv => OwnConnection
  <2> SUFFICES ASSUME IInv, NEW t \in DOMAIN worker
               PROVE  /\ worker[t].pc = "start" => worker[t].arg \in DOMAIN heap
                      /\ FdOf(t) \in DOMAIN table /\ table[FdOf(t)] = worker[t].conn
    BY DEF OwnConnection, FdOf
  <2> QED BY DEF IInv, WorkerOK, HasCell
<1> QED BY <1>1, Invariant, PTL

\* A set of threads with at most one member.
LEMMA AtMostOne ==
    ASSUME NEW S, \A t, u \in S : t = u
    PROVE  Cardinality(S) = IF S = {} THEN 0 ELSE 1
<1>1. CASE S = {}
  BY <1>1, FS_EmptySet
<1>2. ASSUME NEW t \in S PROVE Cardinality(S) = 1
  <2>1. S = {t}
    OBVIOUS
  <2> QED BY <2>1, FS_Singleton
<1> QED BY <1>1, <1>2

\* Nothing leaks and nothing is closed or freed twice: each open connection and
\* each allocated cell has exactly one owner that will give it back.
THEOREM OneOwnerAlways == Spec => []OneOwner
<1>1. IInv => OneOwner
  <2> SUFFICES ASSUME IInv PROVE OneOwner
    OBVIOUS
  <2>1. ASSUME NEW fd \in DOMAIN table
        PROVE  (IF fd = client_fd THEN 1 ELSE 0)
                   + Cardinality({t \in DOMAIN worker : worker[t].conn = table[fd]}) = 1
    <3> DEFINE S == {t \in DOMAIN worker : worker[t].conn = table[fd]}
    <3>1. \A t, u \in S : t = u
      BY DEF IInv, Distinct
    <3>2. fd = client_fd <=> S = {}
      BY Types DEF IInv, Distinct, Covered
    <3>3. Cardinality(S) = IF S = {} THEN 0 ELSE 1
      <4> HIDE DEF S
      <4> QED BY <3>1, AtMostOne
    <3> QED BY <3>2, <3>3
  <2>2. ASSUME NEW a \in DOMAIN heap
        PROVE  (IF a = arg THEN 1 ELSE 0)
                   + Cardinality({t \in DOMAIN worker : worker[t].arg = a
                                                        /\ worker[t].pc \in {"start", "free"}}) = 1
    <3> DEFINE S == {t \in DOMAIN worker : worker[t].arg = a /\ worker[t].pc \in {"start", "free"}}
    <3>1. \A t, u \in S : t = u
      BY DEF IInv, Distinct, HasCell
    <3>2. a = arg <=> S = {}
      BY Types DEF IInv, Distinct, Covered, HasCell
    <3>3. Cardinality(S) = IF S = {} THEN 0 ELSE 1
      <4> HIDE DEF S
      <4> QED BY <3>1, AtMostOne
    <3> QED BY <3>2, <3>3
  <2> QED BY <2>1, <2>2 DEF OneOwner
<1> QED BY <1>1, Invariant, PTL

\* A step that is no answer gives no client more to read.
LEMMA OnlySendAnswers ==
    ASSUME IInv, [Next]_vars, \A t \in Thread : ~Send(t), NEW c \in Client
    PROVE  sock'[c].unread <= sock[c].unread
<1>1. \A d \in Client : sock[d].unread \in Nat /\ Fresh("closed").unread = 0
  BY Types DEF Fresh
<1>2. CASE UNCHANGED sock
  BY <1>1, <1>2
<1>3. ASSUME NEW d \in Client, Opened(d) \/ Closed(d) PROVE sock'[c].unread <= sock[c].unread
  <2>1. sock'[d].unread = 0
    BY <1>1, <1>3 DEF Opened, Closed
  <2>2. d # c => sock'[c] = sock[c]
    BY <1>3 DEF Opened, Closed
  <2> QED BY <1>1, <2>1, <2>2
<1>4. CASE MainAccept
  <2>1. PICK f \in Fd : Accept(f)
    BY <1>4 DEF MainAccept
  <2>2. PICK d \in Client : Opened(d)
    BY <2>1, AcceptInv DEF IInv
  <2> QED BY <1>3, <2>2
<1>5. CASE MainMalloc \/ MainCreate
  <2>1. CASE UNCHANGED network
    BY <1>2, <2>1 DEF network
  <2>2. CASE Close({client_fd})
    <3>1. client_fd \in DOMAIN table
      BY <1>5 DEF MainMalloc, MainCreate, IInv, MainOK
    <3>2. PICK d \in Client : Closed(d)
      BY <2>2, <3>1, CloseOneInv DEF IInv
    <3> QED BY <1>3, <3>2
  <2> QED BY <1>5, <2>1, <2>2 DEF MainMalloc, MainCreate
<1>6. ASSUME NEW t \in Thread, WorkerStep(t) PROVE sock'[c].unread <= sock[c].unread
  <2>1. CASE ReadArg(t) \/ FreeArg(t)
    BY <1>2, <2>1 DEF ReadArg, FreeArg, network
  <2>2. CASE Recv(t)
    <3>1. /\ t \in DOMAIN worker /\ worker[t].pc = "recv"
          /\ RecvSome(Peer(t)) \/ RecvEof(Peer(t)) \/ RecvError(Peer(t))
      BY <2>2 DEF Recv, At
    <3>2. CASE RecvEof(Peer(t)) \/ RecvError(Peer(t))
      <4>1. PICK d \in Client : d = Peer(t) /\ sock[d].stage = "open"
        BY <3>1, PeerIsOwn
      <4>2. sock'[d].unread = sock[d].unread /\ \A e \in Client \ {d} : sock'[e] = sock[e]
        BY <3>2, <4>1, RecvOverInv DEF IInv
      <4> QED BY <1>1, <4>2
    <3>3. ASSUME NEW k \in 1 .. MaxSends, RecvData(Peer(t), k)
          PROVE  sock'[c].unread <= sock[c].unread
      <4>1. PICK d \in Client : d = Peer(t) /\ sock[d].stage = "open"
        BY <3>1, PeerIsOwn
      <4>2. NetworkInv /\ k \in Int
        BY DEF IInv
      <4>3. sock'[d].unread = sock[d].unread /\ \A e \in Client \ {d} : sock'[e] = sock[e]
        BY <3>3, <4>1, <4>2, RecvDataInv
      <4> QED BY <1>1, <4>3
    <3> QED BY <3>1, <3>2, <3>3 DEF RecvSome
  <2>3. CASE CloseAndEnd(t)
    <3>1. /\ t \in DOMAIN worker /\ worker[t].pc = "close" /\ Close({worker[t].client_fd})
      BY <2>3 DEF CloseAndEnd, At
    <3>2. worker[t].client_fd \in DOMAIN table
      BY <3>1, PeerIsOwn
    <3>3. PICK d \in Client : Closed(d)
      BY <3>1, <3>2, CloseOneInv DEF IInv
    <3> QED BY <1>3, <3>3
  <2> QED BY <1>6, <2>1, <2>2, <2>3 DEF WorkerStep
<1>7. ASSUME NEW d \in Client, ClientStep(d) PROVE sock'[c].unread <= sock[c].unread
  BY <1>7, ClientStepInv DEF IInv, ClientEffect
<1> QED BY <1>2, <1>4, <1>5, <1>6, <1>7 DEF Next, MainStep, vars, network

\* A client is sent an answer only after it has been heard, and never a second
\* one.
THEOREM AnswersOnceAlways == Spec => AnswersOnce
<1> DEFINE Answered == \A c \in Client : sock'[c].unread > sock[c].unread =>
               sock[c].sent > sock[c].inbox /\ c \notin answered
<1>1. IInv /\ IInv' /\ [Next]_vars => Answered
  <2> SUFFICES ASSUME IInv, IInv', [Next]_vars, NEW c \in Client, sock'[c].unread > sock[c].unread
               PROVE  sock[c].sent > sock[c].inbox /\ c \notin answered
    OBVIOUS
  <2>1. sock[c].unread \in Nat /\ sock'[c].unread \in Nat
    BY Types DEF IInv, NetworkInv, NetworkType, Socket
  <2>2. PICK t \in Thread : Send(t)
    BY <2>1, OnlySendAnswers
  <2>3. PICK d \in Client : /\ sock[d].sent > sock[d].inbox /\ d \notin answered
                            /\ \A e \in Client \ {d} : sock'[e] = sock[e]
    BY <2>2, SendEffect
  <2>4. c = d
    BY <2>1, <2>3
  <2> QED BY <2>3, <2>4
<1> QED BY <1>1, Invariant, PTL DEF Spec, AnswersOnce
----------------------------------------------------------------------------
(* The refinement: a step of the server moves one connection of the service, *)
(* or none.                                                                  *)

\* Progress without CASE, before and after a step.
LEMMA ProgressIs ==
    ASSUME IInv, IInv', NEW c \in Client
    PROVE  /\ Progress(c) = IF sock[c].stage \in {"out", "queued"} THEN "none"
                            ELSE IF sock[c].stage = "closed" THEN "closed"
                            ELSE IF c \in answered THEN "replied"
                            ELSE IF sock[c].sent > sock[c].inbox THEN "heard" ELSE "open"
           /\ Progress(c)' = IF sock'[c].stage \in {"out", "queued"} THEN "none"
                             ELSE IF sock'[c].stage = "closed" THEN "closed"
                             ELSE IF c \in answered' THEN "replied"
                             ELSE IF sock'[c].sent > sock'[c].inbox THEN "heard" ELSE "open"
<1>1. /\ sock[c].stage \in {"out", "queued", "open", "closed"}
      /\ sock'[c].stage \in {"out", "queued", "open", "closed"}
  BY DEF IInv, NetworkInv, NetworkType, Socket
<1> QED BY <1>1 DEF Progress

\* A step that changes the connection of one client only.
LEMMA OneMoves ==
    ASSUME IInv, IInv', NEW c \in Client, \A d \in Client \ {c} : sock'[d] = sock[d],
           answered' \in {answered, answered \cup {c}},
           \/ Progress(c) = "none" /\ Progress(c)' = "open"
           \/ Progress(c) = "open" /\ Progress(c)' = "heard"
           \/ Progress(c) = "heard" /\ Progress(c)' = "replied"
           \/ Progress(c) \in {"open", "replied"} /\ Progress(c)' = "closed"
    PROVE  Service!Next
<1> DEFINE conn == [d \in Client |-> Progress(d)]
<1>1. \A d \in Client \ {c} : Progress(d)' = Progress(d)
  BY ProgressIs
<1>2. conn' = [conn EXCEPT ![c] = Progress(c)']
  BY <1>1
<1>3. conn[c] = Progress(c)
  OBVIOUS
<1>4. \/ conn[c] \in {"none"} /\ conn' = [conn EXCEPT ![c] = "open"]
      \/ conn[c] \in {"open"} /\ conn' = [conn EXCEPT ![c] = "heard"]
      \/ conn[c] \in {"heard"} /\ conn' = [conn EXCEPT ![c] = "replied"]
      \/ conn[c] \in {"open", "replied"} /\ conn' = [conn EXCEPT ![c] = "closed"]
  BY <1>2, <1>3
<1> QED BY <1>4 DEF Service!Next, Service!Move

\* No connection moves while sent - inbox, answered and the stages stay.
LEMMA NoneMoves ==
    ASSUME IInv, IInv', UNCHANGED answered,
           \A d \in Client : sock'[d] = sock[d] \/ ClientEffect(d)
    PROVE  UNCHANGED [c \in Client |-> Progress(c)]
<1> SUFFICES ASSUME NEW c \in Client PROVE Progress(c)' = Progress(c)
  OBVIOUS
<1>1. CASE sock'[c] = sock[c]
  BY <1>1, ProgressIs
<1>2. CASE ClientEffect(c)
  <2>1. /\ sock[c].sent \in Nat /\ sock[c].inbox \in Nat
        /\ sock'[c].sent \in Nat /\ sock'[c].inbox \in Nat
    BY DEF IInv, NetworkInv, NetworkType, Socket
  <2>2. sock'[c].sent > sock'[c].inbox <=> sock[c].sent > sock[c].inbox
    BY <1>2, <2>1 DEF ClientEffect
  <2> QED BY <1>2, <2>2, ProgressIs DEF ClientEffect
<1> QED BY <1>1, <1>2

\* close moves the connection of a descriptor that main or a thread holds.
LEMMA CloseMoves ==
    ASSUME IInv, IInv', NEW f \in DOMAIN table, Close({f}), UNCHANGED answered,
           \/ table[f] \in answered
           \/ sock[table[f]].sent = sock[table[f]].inbox
    PROVE  Service!Next
<1>1. PICK c \in Client : c = table[f] /\ Closed(c)
  BY CloseOneInv DEF IInv
<1>2. sock'[c].stage = "closed" /\ sock[c].stage = "open"
  BY <1>1, FreshSound DEF Closed
<1>3. Progress(c) \in {"open", "replied"} /\ Progress(c)' = "closed"
  BY <1>1, <1>2, ProgressIs, Types
<1> QED BY <1>1, <1>3, OneMoves DEF Closed

LEMMA MainMoves ==
    ASSUME IInv, IInv', MainStep
    PROVE  Service!Next \/ UNCHANGED [c \in Client |-> Progress(c)]
<1>1. CASE MainAccept
  <2>1. PICK f \in Fd : Accept(f)
    BY <1>1 DEF MainAccept
  <2>2. PICK c \in Client : Opened(c)
    BY <2>1, AcceptInv DEF IInv
  <2>3. UNCHANGED answered
    BY <1>1 DEF MainAccept
  <2>4. Unheard(c)
    BY <2>2 DEF IInv, Opened
  <2>5. Progress(c) = "none" /\ Progress(c)' = "open"
    BY <2>2, <2>3, <2>4, ProgressIs, Types DEF Opened, Unheard
  <2> QED BY <2>2, <2>3, <2>5, OneMoves DEF Opened
<1>2. CASE MainMalloc \/ MainCreate
  <2>1. UNCHANGED answered /\ (UNCHANGED network \/ Close({client_fd}))
    BY <1>2 DEF MainMalloc, MainCreate
  <2>2. CASE UNCHANGED network
    BY <2>1, <2>2, NoneMoves DEF network
  <2>3. CASE Close({client_fd})
    <3>1. client_fd \in DOMAIN table /\ Unheard(table[client_fd])
      BY <1>2, Types DEF MainMalloc, MainCreate, IInv, MainOK
    <3> QED BY <2>1, <2>3, <3>1, CloseMoves DEF Unheard
  <2> QED BY <2>1, <2>2, <2>3
<1> QED BY <1>1, <1>2 DEF MainStep

LEMMA WorkerMoves ==
    ASSUME IInv, IInv', NEW t \in Thread, WorkerStep(t)
    PROVE  Service!Next \/ UNCHANGED [c \in Client |-> Progress(c)]
<1>1. CASE ReadArg(t) \/ FreeArg(t)
  <2>1. UNCHANGED <<sock, answered>>
    BY <1>1 DEF ReadArg, FreeArg, network
  <2> QED BY <2>1, NoneMoves
<1>2. CASE Recv(t)
  <2>1. /\ t \in DOMAIN worker /\ worker[t].pc = "recv" /\ UNCHANGED answered
        /\ RecvSome(Peer(t)) \/ RecvEof(Peer(t)) \/ RecvError(Peer(t))
    BY <1>2 DEF Recv, At
  <2>2. CASE RecvEof(Peer(t)) \/ RecvError(Peer(t))
    <3>1. PICK c \in Client : c = Peer(t) /\ sock[c].stage = "open"
      BY <2>1, PeerIsOwn
    <3>2. /\ sock'[c].stage = sock[c].stage /\ sock'[c].sent = sock[c].sent
          /\ sock'[c].inbox = sock[c].inbox
          /\ \A d \in Client \ {c} : sock'[d] = sock[d]
      BY <2>2, <3>1, RecvOverInv DEF IInv
    <3>3. \A d \in Client : Progress(d)' = Progress(d)
      BY <2>1, <3>1, <3>2, ProgressIs
    <3> QED BY <3>3
  <2>3. ASSUME NEW k \in 1 .. MaxSends, RecvData(Peer(t), k)
        PROVE  Service!Next
    <3>1. PICK c \in Client : c = Peer(t) /\ c = worker[t].conn /\ sock[c].stage = "open"
      BY <2>1, PeerIsOwn
    <3>2. Unheard(c)
      BY <2>1, <3>1 DEF IInv, WorkerOK
    <3>3. NetworkInv /\ k \in Int /\ RecvData(c, k)
      BY <2>3, <3>1 DEF IInv
    <3>4. /\ sock'[c].inbox = sock[c].inbox - k /\ sock'[c].sent = sock[c].sent
          /\ sock'[c].stage = sock[c].stage /\ \A e \in Client \ {c} : sock'[e] = sock[e]
      BY <3>1, <3>3, RecvDataInv
    <3>5. sock'[c].sent > sock'[c].inbox
      BY <3>2, <3>4, Types DEF Unheard
    <3>6. Progress(c) = "open" /\ Progress(c)' = "heard"
      BY <2>1, <3>1, <3>2, <3>4, <3>5, ProgressIs, Types DEF Unheard
    <3> QED BY <2>1, <3>4, <3>6, OneMoves
  <2> QED BY <2>1, <2>2, <2>3 DEF RecvSome
<1>3. CASE Send(t)
  <2>1. PICK c \in Client : /\ sock[c].stage = "open" /\ sock'[c].stage = "open"
                            /\ sock[c].sent > sock[c].inbox /\ c \notin answered
                            /\ answered' = answered \cup {c}
                            /\ \A d \in Client \ {c} : sock'[d] = sock[d]
    BY <1>3, SendEffect
  <2>2. Progress(c) = "heard" /\ Progress(c)' = "replied"
    BY <2>1, ProgressIs
  <2> QED BY <2>1, <2>2, OneMoves
<1>4. CASE CloseAndEnd(t)
  <2>1. /\ t \in DOMAIN worker /\ worker[t].pc = "close" /\ UNCHANGED answered
        /\ Close({worker[t].client_fd})
    BY <1>4 DEF CloseAndEnd, At
  <2>2. worker[t].client_fd \in DOMAIN table /\ table[worker[t].client_fd] = worker[t].conn
    BY <2>1, PeerIsOwn DEF Peer
  <2>3. \/ worker[t].conn \in answered
        \/ sock[worker[t].conn].sent = sock[worker[t].conn].inbox
    BY <2>1 DEF IInv, WorkerOK
  <2> QED BY <2>1, <2>2, <2>3, CloseMoves
<1> QED BY <1>1, <1>2, <1>3, <1>4 DEF WorkerStep

LEMMA Refines == IInv /\ IInv' /\ [Next]_vars => [Service!Next]_([c \in Client |-> Progress(c)])
<1> SUFFICES ASSUME IInv, IInv', [Next]_vars
             PROVE  Service!Next \/ UNCHANGED [c \in Client |-> Progress(c)]
  OBVIOUS
<1>1. CASE MainStep
  BY <1>1, MainMoves
<1>2. ASSUME NEW t \in Thread, WorkerStep(t)
      PROVE  Service!Next \/ UNCHANGED [c \in Client |-> Progress(c)]
  BY <1>2, WorkerMoves
<1>3. ASSUME NEW c \in Client, ClientStep(c), UNCHANGED answered
      PROVE  UNCHANGED [d \in Client |-> Progress(d)]
  BY <1>3, ClientStepInv, NoneMoves DEF IInv
<1>4. CASE UNCHANGED vars
  BY <1>4, NoneMoves DEF vars, network
<1> QED BY <1>1, <1>2, <1>3, <1>4 DEF Next

\* All the threads together keep the promise of OneReplyService to every client:
\* heard, answered once, closed, in this order.
THEOREM ThreadsImplementOneReply == Spec => ImplementsOneReply
<1>1. Init => Service!Init
  <2> SUFFICES ASSUME Init, NEW c \in Client PROVE Progress(c) = "none"
    BY DEF Service!Init
  <2> QED BY FreshSound DEF Init, NetworkInit, Progress
<1> QED BY <1>1, Refines, Invariant, PTL DEF Spec, ImplementsOneReply, Service!Spec

----------------------------------------------------------------------------
(* What it takes to end the server.                                         *)

\* The connections that no thread is about to close.
InUse(c) == \A t \in DOMAIN worker : worker[t].conn = c => worker[t].pc # "close"

\* Until a thread is done with it, a connection on which the next send would raise
\* SIGPIPE is one whose client has ended its side: an error that a recv reports
\* sends the thread to its close.
EndInv ==
    /\ \A c \in Client : InUse(c) /\ sock[c].err = "EPIPE" => sock[c].fin
    /\ killed => EndedByPeer

\* A step that leaves the errors alone, or clears them, and gives no connection
\* that is about to be closed back to a thread.
LEMMA ErrorsStay ==
    ASSUME EndInv, UNCHANGED killed, ~killed,
           \A c \in Client : InUse(c)' => InUse(c) \/ sock'[c].err # "EPIPE",
           \A c \in Client : \/ sock'[c].err = sock[c].err /\ sock'[c].fin = sock[c].fin
                             \/ sock'[c].err # "EPIPE"
    PROVE  EndInv'
  BY DEF EndInv

LEMMA EndMain == ASSUME IInv, IInv', EndInv, MainStep PROVE EndInv'
<1>1. ~killed
  BY DEF MainStep, MainAccept, MainMalloc, MainCreate
<1>2. DOMAIN worker \subseteq DOMAIN worker' /\ \A t \in DOMAIN worker : worker'[t] = worker[t]
  <2>1. CASE UNCHANGED worker
    BY <2>1
  <2>2. ASSUME NEW t \in Thread \ DOMAIN worker, NEW w, worker' = Put(worker, t, w)
        PROVE  DOMAIN worker \subseteq DOMAIN worker' /\ \A u \in DOMAIN worker : worker'[u] = worker[u]
    BY <2>2 DEF Put
  <2> QED BY <2>1, <2>2 DEF MainStep, MainAccept, MainMalloc, MainCreate
<1>3. \A c \in Client : InUse(c)' => InUse(c)
  BY <1>2 DEF InUse
<1>4. CASE \E f \in Fd : Accept(f)
  <2>1. UNCHANGED killed /\ \E c \in Client : Opened(c)
    BY <1>4, AcceptInv DEF IInv
  <2> QED BY <1>1, <1>3, <2>1, ErrorsStay DEF Opened
<1>5. CASE UNCHANGED network
  BY <1>1, <1>3, <1>5, ErrorsStay DEF network
<1>6. CASE client_fd \in DOMAIN table /\ Close({client_fd})
  <2>1. UNCHANGED killed /\ \E c \in Client : Closed(c)
    BY <1>6, CloseOneInv DEF IInv
  <2>2. Fresh("closed").err = "none"
    BY DEF Fresh
  <2> QED BY <1>1, <1>3, <2>1, <2>2, ErrorsStay DEF Closed
<1>7. phase \in {"malloc", "create"} => client_fd \in DOMAIN table
  BY DEF IInv, MainOK
<1> QED BY <1>4, <1>5, <1>6, <1>7 DEF MainStep, MainAccept, MainMalloc, MainCreate

LEMMA EndWorker == ASSUME IInv, IInv', EndInv, NEW t \in Thread, WorkerStep(t) PROVE EndInv'
<1>1. t \in DOMAIN worker /\ ~killed
  BY DEF WorkerStep, ReadArg, FreeArg, Recv, Send, CloseAndEnd, At
<1>2. ASSUME NEW v, worker' = [worker EXCEPT ![t] = v], v.conn = worker[t].conn, worker[t].pc # "close"
      PROVE  \A c \in Client : InUse(c)' => InUse(c)
  BY <1>1, <1>2 DEF InUse
<1>3. worker[t] \in Worker
  BY <1>1, Types
<1>4. CASE ReadArg(t) \/ FreeArg(t)
  <2>1. UNCHANGED <<sock, killed>> /\ worker[t].pc # "close"
    BY <1>4 DEF ReadArg, FreeArg, At, network
  <2>2. \E v : worker' = [worker EXCEPT ![t] = v] /\ v.conn = worker[t].conn
    <3>1. CASE ReadArg(t)
      <4> DEFINE v == [[worker[t] EXCEPT !.client_fd = heap[worker[t].arg]] EXCEPT !.pc = "free"]
      <4>1. worker' = [worker EXCEPT ![t] = v] /\ v.conn = worker[t].conn
        BY <1>1, <1>3, <3>1 DEF ReadArg, Worker
      <4> QED BY <4>1
    <3>2. CASE FreeArg(t)
      <4> DEFINE v == [worker[t] EXCEPT !.pc = "recv"]
      <4>1. worker' = [worker EXCEPT ![t] = v] /\ v.conn = worker[t].conn
        BY <1>1, <1>3, <3>2 DEF FreeArg, Worker
      <4> QED BY <4>1
    <3> QED BY <1>4, <3>1, <3>2
  <2> QED BY <1>1, <1>2, <2>1, <2>2, ErrorsStay
<1>5. CASE Recv(t)
  <2>1. worker[t].pc = "recv"
    BY <1>5 DEF Recv, At
  <2>2. PICK c \in Client : c = Peer(t) /\ c = worker[t].conn /\ sock[c].stage = "open"
    BY <1>1, <2>1, PeerIsOwn
  <2>3. PICK pc \in {"send", "close"} : worker' = [worker EXCEPT ![t].pc = pc]
    BY <1>5 DEF Recv
  <2>4. \A d \in Client : InUse(d)' => InUse(d)
    <3> DEFINE v == [worker[t] EXCEPT !.pc = pc]
    <3>1. worker' = [worker EXCEPT ![t] = v] /\ v.conn = worker[t].conn
      BY <1>3, <2>3 DEF Worker
    <3> QED BY <1>2, <2>1, <3>1
  <2>5. CASE RecvSome(c)
    <3>1. PICK k \in 1 .. MaxSends : RecvData(c, k)
      BY <2>5 DEF RecvSome
    <3>2. NetworkInv /\ k \in Int
      BY DEF IInv
    <3>3. /\ UNCHANGED killed /\ sock'[c].err = sock[c].err /\ sock'[c].fin = sock[c].fin
          /\ \A d \in Client \ {c} : sock'[d] = sock[d]
      BY <2>2, <3>1, <3>2, RecvDataInv
    <3> QED BY <1>1, <2>4, <3>3, ErrorsStay
  <2>6. CASE RecvEof(c)
    BY <1>1, <2>4, <2>6, ErrorsStay DEF RecvEof, network
  <2>7. CASE RecvError(c) /\ pc = "close"
    <3>1. UNCHANGED killed /\ \A d \in Client \ {c} : sock'[d] = sock[d]
      BY <2>2, <2>7, RecvErrorInv DEF IInv
    <3>2. ~InUse(c)'
      <4>1. t \in DOMAIN worker' /\ worker'[t].pc = "close" /\ worker'[t].conn = c
        BY <1>1, <1>3, <2>2, <2>3, <2>7 DEF Worker
      <4> QED BY <4>1 DEF InUse
    <3> QED BY <1>1, <2>4, <3>1, <3>2 DEF EndInv
  <2>8. \/ RecvSome(c) \/ RecvEof(c)
        \/ RecvError(c) /\ worker' = [worker EXCEPT ![t].pc = "close"]
    BY <1>5, <2>2 DEF Recv
  <2>9. worker' = [worker EXCEPT ![t].pc = "close"] => pc = "close"
    BY <1>1, <1>3, <2>3 DEF Worker
  <2> QED BY <2>5, <2>6, <2>7, <2>8, <2>9
<1>6. CASE Send(t)
  <2>1. PICK c \in Client :
           /\ worker[t].pc = "send" /\ c = worker[t].conn /\ sock'[c].stage = "open"
           /\ sock'[c].fin = sock[c].fin /\ SendUnits(c, 1)
           /\ worker' = [worker EXCEPT ![t].pc = "close"]
           /\ \A d \in Client \ {c} : sock'[d] = sock[d]
    BY <1>6, SendEffect
  <2>2. \A d \in Client : InUse(d)' => InUse(d)
    <3> DEFINE v == [worker[t] EXCEPT !.pc = "close"]
    <3>1. worker' = [worker EXCEPT ![t] = v] /\ v.conn = worker[t].conn
      BY <1>3, <2>1 DEF Worker
    <3> QED BY <1>2, <2>1, <3>1
  <2>3. ~InUse(c)'
    <3>1. t \in DOMAIN worker' /\ worker'[t].pc = "close" /\ worker'[t].conn = c
      BY <1>1, <1>3, <2>1 DEF Worker
    <3> QED BY <3>1 DEF InUse
  <2>4. InUse(c)
    BY <1>1, <2>1 DEF IInv, Distinct, InUse
  <2>5. killed' => EndedByPeer'
    <3>1. CASE sock[c].err = "EPIPE"
      <4>1. sock[c].fin /\ UNCHANGED sock
        BY <2>1, <2>4, <3>1 DEF EndInv, SendUnits
      <4> QED BY <2>1, <3>1, <4>1 DEF EndedByPeer
    <3>2. CASE sock[c].err # "EPIPE"
      <4>1. UNCHANGED killed
        BY <2>1, <3>2 DEF SendUnits
      <4> QED BY <1>1, <4>1
    <3> QED BY <3>1, <3>2
  <2> QED BY <2>1, <2>2, <2>3, <2>5 DEF EndInv
<1>7. CASE CloseAndEnd(t)
  <2>1. /\ worker[t].pc = "close" /\ Close({worker[t].client_fd}) /\ worker' = Without(worker, t)
    BY <1>7 DEF CloseAndEnd, At
  <2>2. worker[t].client_fd \in DOMAIN table /\ table[worker[t].client_fd] = worker[t].conn
    BY <1>1, <2>1, PeerIsOwn DEF Peer
  <2>3. UNCHANGED killed /\ \E c \in Client : c = worker[t].conn /\ Closed(c)
    BY <2>1, <2>2, CloseOneInv DEF IInv
  <2>4. DOMAIN worker' = DOMAIN worker \ {t} /\ \A u \in DOMAIN worker' : worker'[u] = worker[u]
    BY <2>1, WithoutFun
  <2>5. Fresh("closed").err = "none"
    BY DEF Fresh
  <2>6. \A c \in Client : InUse(c)' => InUse(c) \/ sock'[c].err # "EPIPE"
    BY <2>3, <2>4, <2>5 DEF InUse, Closed
  <2> QED BY <1>1, <2>3, <2>5, <2>6, ErrorsStay DEF Closed
<1> QED BY <1>4, <1>5, <1>6, <1>7 DEF WorkerStep

LEMMA EndClient ==
    ASSUME IInv, EndInv, NEW c \in Client, ClientStep(c),
           UNCHANGED <<mainVars, heap, worker, answered>>
    PROVE  EndInv'
<1>1. UNCHANGED killed /\ \A d \in Client : ClientEffect(d)
  BY ClientStepInv DEF IInv
<1>2. \A d \in Client : InUse(d)' <=> InUse(d)
  BY DEF InUse
<1>3. \A d \in Client : InUse(d)' /\ sock'[d].err = "EPIPE" => sock'[d].fin
  BY <1>1, <1>2 DEF EndInv, ClientEffect
<1>4. EndedByPeer => EndedByPeer'
  BY <1>1 DEF EndedByPeer, ClientEffect
<1> QED BY <1>1, <1>3, <1>4 DEF EndInv

\* A client ends the server only by ending its own side and aborting then: an abort
\* alone costs its own thread a recv or a send.
THEOREM OnlyEndedPeersEnd == Spec => [](killed => EndedByPeer)
<1>1. Init => EndInv
  BY DEF Init, NetworkInit, Fresh, EndInv
<1>2. IInv /\ IInv' /\ EndInv /\ [Next]_vars => EndInv'
  <2> SUFFICES ASSUME IInv, IInv', EndInv, [Next]_vars PROVE EndInv'
    OBVIOUS
  <2>1. CASE UNCHANGED vars
    BY <2>1 DEF vars, network, EndInv, InUse, EndedByPeer
  <2> QED BY <2>1, EndMain, EndWorker, EndClient DEF Next
<1>3. EndInv => (killed => EndedByPeer)
  BY DEF EndInv
<1> QED BY <1>1, <1>2, <1>3, Invariant, PTL DEF Spec
=============================================================================
