# TLA+ models of cs-lab

cs-lab is a collection of small C programs in two families: `mini-db`, a storage
engine built up from file I/O to a heap file of slotted pages, and
`linux-process-lab`, programs about processes, threads and, most of all, TCP
servers in every classical design.  This directory models the programs that have
state worth relating: the page layers on a file, the slotted page and the heap
file; the servers with one blocking thread (four of them), a thread per connection,
`poll` (two of them) and `epoll`; and the client programs.

Paths below are relative to `src/`; `net/` stands for
`linux-process-lab/06-network/`.

## The parts of the system

| Part | State | Operations | Modules |
|---|---|---|---|
| slotted page, `mini-db/03-slotted-page/page.c` | header (`slot_count`, `free_start`, `free_end`), slot directory, bytes | `page_init`, `page_insert`, `page_get`, `page_delete`, `page_compact` | `SlottedPage`, `SlottedPage_proof`, `RecordStore` |
| heap file, `mini-db/04-heap-file/` | the file's pages, an open descriptor, a page buffer per call | `heap_open/close/insert/get/delete`, `page_read/write/allocate` | `HeapFile`, `HeapFile_proof` |
| page layers on a file: `mini-db/01-file-io`, `02-disk-manager`, `page_read`, `page_write` and `page_allocate` of `04-heap-file/page.c` | the file, what of it is on the disk | open, close, read, write, allocate, `fsync` | `PageFile`, `HeapFile_proof` (last part) |
| sockets (kernel) | queue of `listen`, descriptor table, data and FIN/RST of each connection | `accept`, `recv`, `send`, `close`, `poll`; connect, send, shutdown, read, close, abort | `Sockets`, `Sockets_proof` |
| client programs: `client.c` of `net/01`-`03` (one program), of `net/07-tcp-deep/02-close-states` and `03-half-close` | the next call | connect, send, shutdown, read, close | `Clients` |
| blocking servers: `net/02-blocking-server`, `net/01-tcp-basic`, `net/07-tcp-deep/02-close-states`, `03-half-close` | one connection at a time | accept, recv, send, close, exit | `BlockingServer`, `BlockingServer_proof`, `OneReplyService` |
| thread per connection, `net/03-thread-per-connection` | main's locals, heap cells, a thread per connection | main's loop, `handle_client` | `ThreadServer`, `ThreadServer_proof`, `OneReplyService` |
| first poll server, `net/04-nonblocking` | slots with `fd` and `revents`, echo buffer | one accept per poll, one recv and echo per slot | `NonblockingServer`, `NonblockingServer_proof`, `EchoService` |
| poll server, `net/05-poll` | slots with `fd` and `revents` | accept until none is queued, one recv and reply per slot | `PollServer`, `PollServer_proof` |
| epoll server, `net/06-epoll` and `net/07-tcp-deep/01-stream` (same code) | registered descriptors, fetched events | accept until none is queued, recv and echo until `EAGAIN` | `EpollServer`, `EpollServer_proof`, `EchoService` |

The heap file calls the page functions on a private buffer between a read and a
write of the file; its copy of `page.c` is that of the slotted page, with
`page_read`, `page_write` and `page_allocate` added; `PageFile` is about these
three, and about those of 01 and 02, which do the same otherwise.  The servers share no code
with it, nor with one another: they interact with clients through the kernel
only, and that is why all of them extend `Sockets`.

What is hard in these parts:

- the page: `page_compact` moves records inside the array it reads from, in slot
  order, which is not offset order once a slot was reused; space is checked twice,
  with and without a new slot;
- the heap file: a call is several system calls, any of which may fail, and the
  process may die between two of them; one failure, that of the `lseek` that
  counts the pages, looks like an empty file;
- the page layers: a write may be cut short, so that the size of the file is no
  multiple of a page; without `fsync` the disk lags behind;
- clients and servers meet in any pairing, since all use port 8080: each pair must
  agree on who speaks and who ends first, or both wait forever;
- the servers: clients act between any two system calls; `revents` and events
  are stale when used; descriptor numbers are reused at once; a slot, a heap cell
  and a descriptor must be given back together on every path; a slow or silent
  client must not delay the others; a client may leave, or abort, before its answer.

`PROJECT.json` lists these hazards one by one, at the line where each bites.

## The modules

### `RecordStore`, `SlottedPage`

`RecordStore` is what a page promises: a function from slot numbers to records,
to which a step adds one record or from which it removes one.

`SlottedPage` is `page.c`.  `page` is the buffer: the header's three fields, the
directory (`slot[s].offset`, `slot[s].length`, length 0 for a deleted record) and
the bytes, each of them the k-th byte of a record or zero.  A call is one action,
except that `page_compact` takes one step per iteration of its loop (`cursor`,
`new_free_start`), because the hazard is inside it: `EnterCompact`, `CompactSlot`
(skip a deleted slot or `memmove` a live one), `CompactReturns` (back to the
caller, which for `page_insert` checks the space again).  `contents` is history:
what each slot was given.  `scrambled` is history too: a compaction has started
with records out of slot order.  `uint16_t` fields are numbers up to 65535; that
none of them wraps is part of the type theorem.

### `HeapFile`

The page functions are those of `SlottedPage` on the buffer `page`
(`P == INSTANCE SlottedPage`).  `disk` is the file: for each page number its bytes and history.
`heap_insert` is `InsertCall`, then for each page `ScanRead`, `TryInsert` and,
when it succeeds, `InsertWrite` and `InsertReturns`; when all refuse, `Allocate`.
`heap_delete` is `DeleteCall`, `DeleteSlot`, `DeleteWrite`.  Each system call may
fail, which ends the call with -1, except in `heap_page_count`: when its `lseek`
fails it returns 0, `heap_insert` goes on as if the file were empty, skips the loop
and allocates.  So `page_count`, what the call has counted, is `PagesInFile` or 0.
`Crash` may come between any two system calls.  `acked` records what callers have
been told, and `strays` which pages were allocated by calls that had miscounted.  What the model leaves out: a system call on the file happens as a
whole or not at all, and the crash is the process's, not the machine's (for both
see `PageFile`); one process has the file open; calls on a closed heap return -1
and change nothing; a record too long for a page is rejected and changes nothing.

### `PageFile`

One action per call, for each of the three programs (`program`): they share `file`,
the parts as they are read, and `stable`, those a loss of power would leave.  A write
puts out `k` of the `Parts` of a page; `Writeback` is the kernel moving any part to
the disk, `PowerLoss` makes the file what is on the disk.  `promised` is history: the
content of each page whose last call succeeded.  A call that was cut short
withdraws the promise for its page, and so does a loss of power, except in
01-file-io, where `FileWrite` and `Fsync` are steps of their own and the promise is
made after the second.

The programs differ in `page_allocate`.  02 writes the new page at
`page_id * PAGE_SIZE`, in the place of whatever an earlier call has left of a page:
`DiskManagerAllocate` may promise a page of zeros.  04 appends at the end of the
file: after a call that was cut short, the page it names is made of the old piece
and a part of the new page, and every later allocation is shifted likewise.
`HeapAllocate` therefore promises only that the page is new and can be read.
`heap_insert` overwrites it at once, which is what makes its inserts right (`HeapWrite`,
`ReadsBack`); a crash between the two calls leaves a page that `page_init` has not
made.  02's allocation done in 04's way is a mutant of `ReadsBack`, and fails.

### `Sockets`

External: Linux sockets as the servers use them.  Data is counted, not kept.
`accept` returns the lowest free descriptor.  `recv`
returns queued data before the end of the stream and that before an error.
`poll` is exact at the time of the call.  A client connects
once, sends up to `MaxSends` units, shuts down, reads, closes, at any time or
never; the client programs are among its behaviours.  It resets the connection in
three ways (`Reset`): by closing with replies unread, by its kernel's
answer to a reply it has closed its socket to, which may take its time
(`PeerReset`), and by an abort, a close with `SO_LINGER` of 0, at any time, before it
has sent anything or
while it is still in the queue (`ClientAbort`).  Data received before the RST stays
readable.  A RST on a connection the client had not ended makes the next `recv` or
`send` fail (`ECONNRESET`), once; the `send` after that one, or the first after a
RST that follows a FIN (`EPIPE`), raises SIGPIPE, which no server here ignores or
masks, and the process ends (`killed`).  Clients
are finite in what they send, so a server that loops while there is data always
comes to an end of it; that a client who never stops could hold such a loop is a
hazard of `EpollServer` these runs cannot show.

### `Clients`

The client programs as sequences of calls; a client in `Scripted` runs one of them
(`script`, `at`), the others are those of `Sockets`.  `Call...` says what each call
does on a connection that is open, that the server has closed, or that was
reset because the server ended before it accepted; `read` blocks until one
of these is decided.  `got` is history: whose read returned an answer.

### The servers

`BlockingServer` has four programs: the loop of 02-blocking-server, and the three
that serve one connection and return.  They share `MainAccept`, `CloseClient` and
`ExitMain`; each has its own receive and send.  `sleep` is the time that may pass
before any step.

Each server is its main loop, one action per system call, with the local
variables that live across calls; start-up (socket, bind, listen) is before
`Init`.  `phase` is the place in the loop.  `fds`, `revents`, `i`, `fd`,
`client_fd`, `arg`, `events` are the variables of that name.  The loop over the
slots of the poll servers goes from one reported descriptor to the next in one
step (`LoopFrom`): what it does between them involves no system call, so that
nobody else can tell.  Uninitialized
memory, the `revents` of a fresh `struct pollfd` array, is an arbitrary value.
Failures of `malloc`, `pthread_create`, `epoll_ctl`, `poll` and `epoll_wait` are
nondeterministic; failures of `fcntl` are left out.  `answered` and `echoed` are
history.

`OneReplyService` is what the two request-and-reply servers promise, with neither
sockets nor threads: accepted, heard, answered once, closed; who was heard is not
closed unanswered.  `BlockingServer` (as 02-blocking-server) and `ThreadServer`
implement it under the same mapping (`Progress`).

`EchoService` is what the two echo servers promise: units a client has sent
(`sent`) are received (`heard`) and sent back (`returned`), all of them before more
are received, and a connection is closed when its client has ended it and has
everything back.  A reset excuses the server, and so does its return.  A client that
sends more than its connection holds (`Capacity`) may be sent back less, but never
more than was received; the promise to everyone else stays.  `EpollServer` and
`NonblockingServer` implement it under the same mapping (`Conn`), where `heard` is
what has left the kernel's queue and `returned` is `echoed`.  The wait for events, an
`accept` that finds no connection or fails, a `send` that takes nothing and what a
client reads are stutters.  `ClosedAfterEcho` says of the program's own variables what the
service's `Close` says of its own; it is proved, and the runs check `ImplementsEcho`.

## The runs

| Run | Instance | States | Shows |
|---|---|---|---|
| `MCSlottedPage` | page of 22 bytes, records of 0, 1, 2 bytes | 29 151 | layout sound at every step, records readable until a compaction meets records out of slot order, `page_insert` refuses only a full page, `RecordStore` implemented while not scrambled |
| `MCSlottedPageSurvive` | the same | violation | **finding**: a compaction overwrites a live record |
| `MCHeapFile` | 2 pages of 16 bytes, records of 1, 6 (the most) and 7 bytes | 134 289 | an acknowledged record stays readable through failures and crashes; a call that has counted the pages appends one only when all are full, and at most one page beside those of miscounting calls is unused; each step on the file is one of the store |
| `MCHeapFileEmpty` | with a record of no bytes | violation | **finding**: `heap_insert` of an empty record appends a page and fails |
| `MCPageFile` | 3 programs, pages of 2 parts, room for 5 parts | 206 916 | what a successful call wrote is read back whatever calls were cut short, after `fsync` even when power was lost; `page_allocate` never names a page in use |
| `MCBlockingServer` | 4 servers, 3 client programs and 2 free clients, 2 messages, 1 descriptor | 270 862 | no client program makes `recv` or `send` fail, and SIGPIPE takes an abort by another client; connections are closed in order; `OneReplyService`; only a silent client delays the others; each pair of programs that does not wait for each other finishes, with the answer |
| `MCThreadServer` | 2 clients, 2 messages, 2 threads, cells, descriptors | 166 157 | each thread serves its own connection, one owner for each cell and descriptor, one answer, `OneReplyService`, nobody waits for another, and only a shutdown and an abort before the answer end the server |
| `MCNonblockingServer` | 3 clients of 2, 1 and no messages, buffers for 1, 2 slots | 310 114 | slots agree with connections at every step; `EchoService`: the echo before the next `recv` and the close, and all of it unless the client sent too much; nobody waits forever |
| `MCNonblockingEcho` | buffer for 1 of 2 messages | violation | **finding**: the result of `send` is ignored and an echo is lost |
| `MCPollServer` | 3 clients, 2 slots | 409 597 | slots agree with connections at `poll`, nobody's connection is closed for another's sake, nobody waits forever |
| `MCPollServerSurvives` | 1 slot, 2 messages | violation | **finding**: SIGPIPE ends the server |
| `MCEpollServer` | 2 clients, 3 messages, buffers for 2 | 234 457 | no event outlives its descriptor, every open connection is registered, everything received is echoed before the close unless a client sent too much, `EchoService`, nobody waits forever |

Each property of a passing run has a mutant in `PROJECT.json`: a slip in the code
(a dropped check, a leak on an error path, a loop left too early) that makes the
run fail on that property.  The mutated operators stand before the definition
they replace, commented "Mutant".

**Bounds.**  Two and a half pages of two parts are the least with which a piece of
a page lies behind a page in use and 04 still has room to append behind it; one
write of a page then fills the disk.  The two values of data are interchangeable.
A page of 22 bytes has 16 for records and slots: up to three slots,
reuse of a slot by a shorter and by a longer record, compactions on insert with
success and with refusal, and records out of slot order all occur.  Pages of 16
bytes hold one longest record or two short ones, so that a two-page file has a
full page, a page with a hole, an unused page, and no page left.  `LiveView`
identifies states that differ in bytes no live record covers, which are written
before they are read; in `MCSlottedPage` it also leaves out the value of the last
call, on which no step depends.  Three clients on two slots, or on one
descriptor, are the least with which a number or a slot is reused while another
connection is open and one is refused.  `MCPollServer` gives each of the three one
message; `MCNonblockingServer` gives one of them two, with a buffer for one, so that it
receives a part of an echo, one of them one, and one none (`FewMessages`); the other
runs give two, the least with which data arrives after a recv.  `MCEpollServer`
gives three, with buffers for two: one client can overflow its buffer, and be sent a part of an echo, while the other is still
owed all of its own.  In the other runs `SendBuffer` holds all a client can send
unless the run is about its overflow.  A closed socket keeps nothing of its past, so that states
differ in live connections only.

**Deadlock** is checked for the page and the heap file, and not for the servers:
clients are finite, and a server whose clients are done, or that was killed or
has returned, rightly waits.

**Fairness.**  Weak fairness on the server's thread, for `ThreadServer` on `main`
and on each thread, and on each client program: the scheduler runs a thread that
can run, and a blocked system call is a disabled action.  Other clients have none: they may stop at any point.
A server that calls `accept` in its loop
adds strong fairness of a successful `accept`: it may fail any number of times,
for want of descriptors or memory or because the connection was aborted, but not
forever.  Without it a connection stays in the queue, which the code cannot help;
that the loop goes on meanwhile is part of `NobodyWaitsForever`.  The blocking
server can be delayed by clients, and the property says by which:
`OnlySilenceDelays` assumes that no client is silent forever on its open
connection, and `PairsFinish` that no other client is.  `PairsFinish` leaves out the
pairs that wait for each other (`Suits`): `client.c` sends once and waits for an
answer, 02-close-states and 03-half-close wait for the end of its direction.  In
`MCThreadServer` there is a descriptor and a thread per client; without them a connection waits for silent ones.  `poll` and `epoll_wait` failing
is possible at any time and never fair; `NobodyWaitsForever` exempts a server
that has returned and one that SIGPIPE has ended, as `OnlySilenceDelays` and
`PairsFinish` do.  `EveryClientServed` exempts the latter only if a client that had
ended its side and then aborted is on an open connection (`EndedByPeer`); that no
other client can end that server is proved.

## Findings

1. `page_compact` (`page.c:139`) overwrites live records once a slot has been
   reused: insert a, insert b, delete a, insert c into slot 0 behind b, compact.
   Slot 0 is moved first, to the front, onto b.  `test_page.c` and `test_heap.c`
   say that records not deleted stay; their compaction tests store equal bytes.
2. `heap_insert` with length 0 (`heap_file.c:113`) appends a page although none
   is full, and fails; each call grows the file.
3. The poll server sends without `MSG_NOSIGNAL` (`05-poll/server.c:206`): a
   client that leaves early ends the server and everyone's connection, though
   comments say that ends and errors of peers are handled.
4. The non-blocking server ignores what `send` returns (`04-nonblocking:140`): an
   echo that does not fit into the buffer is lost.

A failed `lseek` in `heap_page_count` (`heap_file.c:37`) is a second way to append a
page to a file with room, beside finding 2: the file is taken for empty.  It is in
the model, and the disjunct `page_count # PagesInFile` of `GrowsOnlyWhenFull` is there
for it; without it TLC finds an insert, and a second one that counts no pages and
appends one.  What is stored stays sound.

## The proofs

TLC checks the instances above; the theorems below are proved by TLAPS for every
value of the constants their modules' assumptions allow.  Every safety invariant,
action property and refinement of the passing runs is one of them.  Each is proved
from an inductive invariant (`IInv`, `FileInv` for the page layers), which TLC
found to hold on the run's instance before it was proved.

| Module | Invariants | Action properties and refinements |
|---|---|---|
| `SlottedPage_proof` | `TypeCorrect`, `LayoutAlwaysSound`, `CompactionAlwaysSound`, `RecordsIntact` | `RefusedWhenFull`, `PageImplementsRecordStore` |
| `HeapFile_proof` | `TypeCorrect`, `DiskAlwaysSound`, `AckedAlwaysReadable`, `UnusedPagesNeverPileUp` | `OnlyFullFilesGrow`, `HeapFileImplementsRecordStore` |
| `HeapFile_proof`, last part: `PageFile` | `PagesTypeCorrect`, `PagesReadBack` | `PagesAllocatedFresh` |
| `ThreadServer_proof` | `TypeCorrect`, `OwnConnectionAlways`, `OneOwnerAlways`, `OnlyEndedPeersEnd` | `AnswersOnceAlways`, `ThreadsImplementOneReply` |
| `PollServer_proof` | `TypeCorrect`, `SlotsMatchAlways` | `ClosedOnlyWhenOverAlways` |
| `NonblockingServer_proof` | `TypeCorrect`, `SlotsMatchAlways` | `ClosedAfterEchoAlways`, `NonblockingImplementsEcho` |
| `EpollServer_proof` | `TypeCorrect`, `AllRegisteredAlways`, `EchoedAllAlways` | `ClosedAfterEchoAlways`, `EpollImplementsEcho` |
| `BlockingServer_proof` | `TypeCorrect`, `OnlyAbortsAreFeltAlways` | `GracefulCloseAlways`, `BlockingImplementsOneReply` |

**Assumptions.**  On the constants only: a page has room for its header and one
slot and at most 65535 bytes, lengths are `uint16_t`s, placeholders (`NoRecord`,
`NoAddress`) are not values, `MAX_CLIENTS` is positive, and a page is written in
at least one part; the bounds of `Sockets` are natural numbers and what its
`BoundsAssumption` says, and scripted clients are clients.
One further hypothesis, `NoEmptyRecord`, stands in `UnusedPagesNeverPileUp` and
`OnlyFullFilesGrow`: an empty record makes the file grow (finding 2,
`MCHeapFileEmpty`).  Both properties leave out the calls that miscounted; the others hold with them.  The theorems about echoes need none: they are about every size
of buffer, and promise all of an echo to each client that has sent no more than
its connection holds (finding 4, `MCNonblockingEcho`, is about the others).

**The page.**  None of `LayoutSound`, `CompactionSound` and
`IntactUnlessScrambled` is inductive alone.  `IInv` adds to them: `Recorded`,
each slot has the length of the record history says it holds; a pending request
is not empty; and, while not scrambled, `BytesIntact`, the bytes of each live
slot are its record's, and `InOrder`, the records `page_compact` has yet to move
are in slot order and start at or above the place the next one goes to.
`InOrder` is what makes the `memmove` of one record miss the others; finding 1
shows that `RecordsIntact` needs its condition.  The lemmas follow the code: what
`Place` (memcpy and slot) and `MoveRecord` do to a sound page, then entering,
iterating and leaving the loop, then one lemma per action.

**The heap file.**  Its buffer is a page of `SlottedPage`, so that the lemmas of
`SlottedPage_proof` are cited as `SP!...`; the lemmas `Same...` say that `HeapFile`'s
`P` is the same module.  `DiskSound` and `AckedReadable` say nothing of the
buffer that the next `page_write` puts into the file.  `IInv` therefore relates
the two at each place of a call: before the page function the buffer is the page
it was read from (`Copied`); after `page_insert` it has one more live slot than
that page, or has refused (`Tried`); after `page_delete` one fewer (`Emptied`).
Every page is an image as calls may leave it (`ImageOK`) and holds what was
acknowledged (`AckedStored`).  A crash loses the buffer and leaves both.

That a call which has counted the pages appends only when all are full needs
`GrowInv` on top: the pages the loop has passed are full (`PassedFull`), and a copy
that is being compacted still has as many free bytes in all as its page
(`RefusalFull`), so that its refusal means the page is full.  The loop ends at the
last page only if `page_count` is the true one; a call that counted 0 passes none, and
the property says nothing of it.  A record that was refused by an unused page would
be longer than any that `heap_insert` admits; hence at most one page is unused
(`OneUnused`), beside `strays`.

**The page layers.**  A promised page is in the file part by part (`Holds`), and
in 01-file-io on the disk, to which fsync has copied the file; that is why a loss
of power keeps it.  A write into one page misses all others because pages have no
part in common (`PagesApart`), and an append misses what is before the end
(`AllKept`); the page 04 names begins at the end of the file or before it, and
ends at the new end or before that.

**The servers.**  `Sockets_proof` has one lemma per system call, which the five
others cite.  Its invariant `NetworkInv` says that open connections and
descriptors match one to one, that the queue holds each waiting connection once
(`WellConnected`), and what the fields of a connection can be at each stage
(`SocketSound`).  On top of it:

- threads: main and each thread hold what they will give back (`MainOK`,
  `WorkerOK`), no two hold the same (`Distinct`), and nothing is held by nobody
  (`Covered`).  `OneOwner` is the last two; it is not inductive without the first,
  since only a thread's place says whether it has freed its cell.
- both poll servers: slots and descriptors match (`Matched`, `OneSlot`), and
  `revents`, however old, is right about a `POLLHUP` of the connection that is in
  the slot now (`Fresher`).  It is so because accept only fills a slot whose
  `revents` is empty, `recv` empties a slot before its number is free, and no connection
  recovers from an error.  In 05 the local `fd` may be a number that was closed
  a moment ago, which the invariant says is then not in use.
- the two echo servers (`EchoOK`): what went back, with what main has in hand, is
  no more than was received, so that a client has no more to read than that; and it
  is exactly that for a client that has sent no more than its buffer holds, because
  an echo then always fits.  `EpollServer` adds that the event
  at work has left the list, so that closing its descriptor leaves no event of it.
- blocking servers: at each place, what the client of the open connection has been
  read and sent, and whether an error has been used up (`ServedOK`).  A client
  program that has not been answered has nothing unread and cannot have been reset
  (`Untouched`).  For any client, the servers that read to the end leave it with
  nothing to receive (`ReadToEnd`), and a process ended by SIGPIPE was at its
  only `send` (`KilledOK`).
- threads again, for `OnlyEndedPeersEnd` (`EndInv`): a socket whose `send` would raise
  SIGPIPE is that of a client which had ended its side, unless its thread has
  done with `recv` and `send`; it stays open when the process is gone.

An action property is proved from the same invariant: one lemma says what a step
may close (`CloseIsDue`, `CloseEffect`), and the property follows for each case.
For the refinements a step moves one connection of the service or none
(`OneMoves`, `NoneMoves`; for the echo servers `OneBecomes`), or one record of the
store (`InsertStores`, `DeleteStores`).  That `recv` is a step of `EchoService` is
`EchoOK` where nothing is in hand; that `send` is one, `EchoOK` with what it takes; and
that a close is due, both with what `recv` has found (`EndIsDue`).

**Only model-checked:** liveness, which the prover does not handle, that is
`NobodyWaitsForever`, `EveryClientServed`, `OnlySilenceDelays` and `PairsFinish`.

## Not modelled, and why

- Short writes and losses of power below `HeapFile`: 04 neither repairs nor syncs,
  and promises nothing for them; `PageFile` says what is left of a page then.
- Start-up of the servers (socket, bind, listen), which ends the program when it
  fails; `client.c` of `07-tcp-deep/01-stream`, a client of `Sockets`.
- `03-thread/thread.c`, two threads that each execute `count++` without a lock and
  print what they see: nothing is promised of the value.
  `condition-variable/producer_consumer.c`: one hand-over under a mutex, with the
  condition in a loop, in a few dozen states: a signal before the wait is seen in
  `has_data`, a wakeup without one finds it 0 and waits again.
- fork, exec and Java thread programs: a call and a print-out, no state to
  relate.  The Spring controllers: an atomic counter, a loop until a deadline.
  `07-java-nio` does not compile, so there is no program to model.
