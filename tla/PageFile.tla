------------------------------ MODULE PageFile ------------------------------
(***************************************************************************)
(* The pages of a file under mini-db: 01-file-io, 02-disk-manager and the  *)
(* page functions of 04-heap-file, which differ in how they allocate a     *)
(* page and in whether they call fsync.                                    *)
(*                                                                         *)
(* A write may be cut short (a full disk, a limit, a signal): a page is    *)
(* written in Parts.  The kernel keeps them, puts them on the disk in any  *)
(* order, and fsync waits for that; when the machine loses its power, the  *)
(* file is what was on the disk.                                           *)
(***************************************************************************)
EXTENDS Integers, Sequences, Functions

CONSTANTS
    Parts,      \* the units in which a page is written
    Room,       \* the units the disk has room for
    Data        \* what callers write into pages

ASSUME SizesAssumption == Parts \in Nat \ {0} /\ Room \in Nat

VARIABLES
    program,    \* which of the programs this is
    is_open,    \* it has the file open
    file,       \* the parts of the file, as they are read
    stable,     \* those on the disk
    writing,    \* the page_write of 01 that has written and not yet synced
    allocated,  \* the page_id that page_allocate has just returned
    promised    \* history: the content of each page whose last call succeeded

pagesVars == <<program, is_open, file, stable, writing, allocated, promised>>

Programs == {"file_io", "disk_manager", "heap_file"}

Zero == <<"zero", 0>>
Part == {Zero, <<"header", 1>>} \cup (Data \X (1 .. Parts))

\* A page of data, one of zeros, and what page_init makes of it.
DataPage(d) == [k \in 1 .. Parts |-> <<d, k>>]
ZeroPage == [k \in 1 .. Parts |-> Zero]
EmptyPage == [ZeroPage EXCEPT ![1] = <<"header", 1>>]

PageId == 0 .. Room \div Parts
None == -1
new_page_id == Len(file) \div Parts   \* of the next page, by page_allocate

Put(f, p, v) == [q \in DOMAIN f \cup {p} |-> IF q = p THEN v ELSE f[q]]
Drop(f, p) == Restrict(f, DOMAIN f \ {p})

PagesInit ==
    /\ program \in Programs
    /\ is_open = FALSE
    /\ file = <<>> /\ stable = <<>>
    /\ writing = <<>>
    /\ allocated = None
    /\ promised = [p \in {} |-> ZeroPage]

----------------------------------------------------------------------------
(* The file system. *)

\* The parts of f with those of page behind the first start; what is between is
\* a hole.
Written(f, start, page) ==
    LET end == start + Len(page)
    IN [i \in 1 .. IF Len(f) > end THEN Len(f) ELSE end |->
           IF i \in start + 1 .. end THEN page[i - start]
           ELSE IF i <= Len(f) THEN f[i] ELSE Zero]

\* write stops after k parts, which its caller sees.
WritePart(start, page, k) ==
    /\ start + k <= Room
    /\ file' = IF k = 0 THEN file ELSE Written(file, start, SubSeq(page, 1, k))
    /\ UNCHANGED stable

\* read gives what there is of a page.
ReadFrom(f, p) ==
    LET end == (p + 1) * Parts
    IN SubSeq(f, p * Parts + 1, IF end <= Len(f) THEN end ELSE Len(f))

\* page_read: 01-file-io takes a piece of a page, the others return -1 then.
PageRead(p) == IF program = "file_io" \/ (p + 1) * Parts <= Len(file)
               THEN ReadFrom(file, p) ELSE <<>>

Open ==
    /\ ~is_open /\ is_open' = TRUE
    /\ allocated' = None
    /\ UNCHANGED <<program, file, stable, writing, promised>>

\* The process closes the file, exits or dies.
Gone == is_open' = FALSE /\ writing' = <<>>
CloseFile ==
    /\ is_open /\ Gone
    /\ allocated' = None
    /\ UNCHANGED <<program, file, stable, promised>>

Writeback ==
    /\ \E i \in DOMAIN file : stable' = Written(stable, i - 1, <<file[i]>>)
    /\ allocated' = None
    /\ UNCHANGED <<program, is_open, file, writing, promised>>

\* Only 01-file-io promises anything beyond it.
PowerLoss ==
    /\ file' = stable
    /\ promised' = IF program = "file_io" THEN promised ELSE <<>>
    /\ allocated' = None
    /\ Gone /\ UNCHANGED <<program, stable>>

----------------------------------------------------------------------------
Calling(prog) == is_open /\ program = prog /\ UNCHANGED program

\* Mutant: the number of bytes written is not compared with PAGE_SIZE.
PromisedUnchecked(p, page, k) == Put(promised, p, page)

\* page_write and page_allocate return -1 when fewer parts than a page went out.
Promised(p, page, k) == CASE k = Parts -> Put(promised, p, page)
                          [] k \in 1 .. Parts - 1 -> Drop(promised, p)
                          [] k = 0 -> promised

PageWrite(p, d, k) ==
    /\ WritePart(p * Parts, DataPage(d), k)
    /\ promised' = Promised(p, DataPage(d), k)
    /\ allocated' = None
    /\ UNCHANGED <<is_open, writing>>

Returned(k) == IF k = Parts THEN new_page_id ELSE None

\* 02-disk-manager
DiskManagerWrite(p, d, k) == Calling("disk_manager") /\ PageWrite(p, d, k)

\* Mutant: the page goes to the end of the file, as in 04.
AllocateAtEnd(k) ==
    /\ Calling("disk_manager")
    /\ WritePart(Len(file), ZeroPage, k)
    /\ promised' = Promised(new_page_id, ZeroPage, k)
    /\ allocated' = Returned(k)
    /\ UNCHANGED <<is_open, writing>>

\* Mutant: the division rounds up, and the id is that of the last page.
AllocateLast(k) ==
    /\ Calling("disk_manager")
    /\ LET id == (Len(file) + Parts - 1) \div Parts - 1
       IN /\ id >= 0
          /\ WritePart(id * Parts, ZeroPage, k)
          /\ promised' = Promised(id, ZeroPage, k)
          /\ allocated' = IF k = Parts THEN id ELSE None
    /\ UNCHANGED <<is_open, writing>>

\* The new page begins where the last whole one ends, so that it takes the
\* place of what an earlier call has written of a page.
DiskManagerAllocate(k) ==
    /\ Calling("disk_manager")
    /\ WritePart(new_page_id * Parts, ZeroPage, k)
    /\ promised' = Promised(new_page_id, ZeroPage, k)
    /\ allocated' = Returned(k)
    /\ UNCHANGED <<is_open, writing>>

\* 04-heap-file writes the pages there are.
HeapWrite(p, d, k) == Calling("heap_file") /\ p < new_page_id /\ PageWrite(p, d, k)

\* It appends wherever the file ends.  The page it names is the one it appends
\* only if that is the end of a page; nothing is promised of its content but
\* that it stays until the page_write that follows.
HeapAllocate(k) ==
    /\ Calling("heap_file")
    /\ WritePart(Len(file), EmptyPage, k)
    /\ promised' = IF k = Parts THEN Put(promised, new_page_id, ReadFrom(file', new_page_id))
                   ELSE promised
    /\ allocated' = Returned(k)
    /\ UNCHANGED <<is_open, writing>>

\* 01-file-io: page_write syncs before it returns, and exits when it fails.
FileWrite(p, d, k) ==
    /\ Calling("file_io") /\ writing = <<>>
    /\ WritePart(p * Parts, DataPage(d), k)
    /\ promised' = IF k = 0 THEN promised ELSE Drop(promised, p)
    /\ IF k = Parts THEN writing' = <<p, d>> /\ UNCHANGED is_open ELSE Gone
    /\ allocated' = None

\* Mutant: page_write returns without fsync.
FsyncSkipped ==
    /\ Calling("file_io") /\ writing # <<>>
    /\ promised' = Put(promised, writing[1], DataPage(writing[2]))
    /\ writing' = <<>>
    /\ UNCHANGED <<is_open, file, stable, allocated>>

Fsync ==
    /\ Calling("file_io") /\ writing # <<>>
    /\ stable' = file
    /\ promised' = Put(promised, writing[1], DataPage(writing[2]))
    /\ writing' = <<>>
    /\ UNCHANGED <<is_open, file, allocated>>

PagesNext ==
    \/ Open \/ CloseFile \/ Writeback \/ PowerLoss \/ Fsync
    \/ \E k \in 0 .. Parts : DiskManagerAllocate(k) \/ HeapAllocate(k)
    \/ \E p \in PageId, d \in Data, k \in 0 .. Parts :
          DiskManagerWrite(p, d, k) \/ HeapWrite(p, d, k) \/ FileWrite(p, d, k)

PagesSpec == PagesInit /\ [][PagesNext]_pagesVars
----------------------------------------------------------------------------
(* Properties. *)

\* Every variable has its type, and a page that was promised is wholly in the
\* file.
PagesTypeOK ==
    /\ program \in Programs /\ is_open \in BOOLEAN
    /\ file \in Seq(Part) /\ Len(file) <= Room
    /\ stable \in Seq(Part) /\ Len(stable) <= Len(file)
    /\ writing = <<>> \/ writing \in PageId \X Data
    /\ allocated \in {None} \cup PageId
    /\ DOMAIN promised \subseteq 0 .. new_page_id - 1

\* page_read returns what the last successful call has put into a page, whatever
\* calls on other pages were cut short, and after a restart; in 01-file-io, even
\* after a loss of power.  In 02-disk-manager an allocated page is one of zeros,
\* though an earlier page_allocate may have left a piece of a page.
ReadsBack == \A p \in DOMAIN promised : PageRead(p) = promised[p]

\* page_allocate returns the id of a page that can be read and that no successful
\* call has named before.
AllocatesFresh == [][allocated' # None => allocated' \in DOMAIN promised' \ DOMAIN promised]_pagesVars
=============================================================================
