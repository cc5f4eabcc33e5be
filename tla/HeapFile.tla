------------------------------ MODULE HeapFile ------------------------------
(***************************************************************************)
(* The heap file of mini-db (04-heap-file): records in the slotted pages   *)
(* of one file, named by RIDs <<page_id, slot_id>>.                        *)
(*                                                                         *)
(* Every call works on a copy of one page at a time, in a buffer on the    *)
(* stack: read it, run page_insert or page_delete on it, write it back.    *)
(* The buffer is the page of SlottedPage, whose actions are the steps of   *)
(* page_insert and page_delete here.  One process has the file open.  A    *)
(* system call may fail, which ends the call with -1, except that a failed *)
(* lseek of heap_page_count counts no pages; and the process may crash     *)
(* between any two system calls and be restarted on the file.  page_write  *)
(* and page_allocate happen as a whole or not at all.                      *)
(***************************************************************************)
EXTENDS Integers, FiniteSets, Functions

CONSTANTS
    PAGE_SIZE, Record, Length, NoRecord,   \* of SlottedPage
    MaxPages                               \* pages the disk has room for

ASSUME MaxPagesAssumption == MaxPages \in Nat

VARIABLES
    page, pc, cursor, new_free_start, request, ret, contents, scrambled,  \* the buffer
    disk,        \* the file: for each page its bytes and its history variables
    opened,      \* heap->fd is the descriptor of the file, not -1
    op,          \* where the call in progress is
    record,      \* the record heap_insert is to store
    page_count,  \* the pages heap_insert has counted
    page_id,     \* the page in the buffer or, in heap_insert's loop, the next to read
    slot_id,     \* the slot heap_delete is to empty, or that heap_insert has filled
    acked,       \* history: the record of each RID that heap_insert has returned,
                 \* until heap_delete removes it
    strays       \* history: the pages allocated by calls that had counted none

buffer == <<page, pc, cursor, new_free_start, request, ret, contents, scrambled>>
vars == <<buffer, disk, opened, op, record, page_count, page_id, slot_id, acked, strays>>

P == INSTANCE SlottedPage

\* As SlottedPage assumes them.
ASSUME PageSizeAssumption == PAGE_SIZE \in (P!HeaderSize + P!SlotSize) .. P!MaxUInt16
ASSUME LengthAssumption == Length \in [Record -> P!UInt16]
ASSUME NoRecordAssumption == NoRecord \notin Record

RID == Nat \X Nat

\* The number of pages, which heap_page_count returns unless its lseek fails.
PagesInFile == Cardinality(DOMAIN disk)

\* Mutant: the slot of the record is not counted.
max_record_size_without_slot == PAGE_SIZE - P!HeaderSize

max_record_size == PAGE_SIZE - P!HeaderSize - P!SlotSize

Image == [page |-> page, contents |-> contents, scrambled |-> scrambled]
EmptyImage == [page |-> P!EmptyPage, contents |-> [s \in 0 .. -1 |-> NoRecord],
               scrambled |-> FALSE]

\* heap_get with a buffer of any size, when no system call fails: the record, or
\* NoRecord for -1.
HeapGet(rid) ==
    IF opened /\ rid[1] \in 0 .. PagesInFile - 1
    THEN P!ReadBack(disk[rid[1]].page, rid[2]) ELSE NoRecord

----------------------------------------------------------------------------
Init ==
    /\ P!Init
    /\ disk = [p \in {} |-> EmptyImage]
    /\ opened = FALSE
    /\ op = "idle"
    /\ record = NoRecord
    /\ page_count = 0
    /\ page_id = 0
    /\ slot_id = 0
    /\ acked = [rid \in {} |-> NoRecord]
    /\ strays = {}

\* The buffer gets an image; no call of page.c is running on it.
Load(image) ==
    /\ page' = image.page
    /\ contents' = image.contents
    /\ scrambled' = image.scrambled
    /\ P!Return(0)

\* A call returns to its caller, and its locals are gone.
Finish ==
    /\ op' = "idle"
    /\ record' = NoRecord
    /\ page_count' = 0
    /\ page_id' = 0
    /\ slot_id' = 0
    /\ Load(EmptyImage)

\* A call returns -1 with nothing written since it started.
Fail == Finish /\ UNCHANGED <<disk, opened, acked, strays>>

heap_open ==
    /\ op = "idle" /\ ~opened
    /\ opened' = TRUE
    /\ UNCHANGED <<buffer, disk, op, record, page_count, page_id, slot_id, acked, strays>>

heap_close ==
    /\ op = "idle" /\ opened
    /\ opened' = FALSE
    /\ UNCHANGED <<buffer, disk, op, record, page_count, page_id, slot_id, acked, strays>>

\* The process dies: the file stays as the last system call left it.
Crash ==
    /\ opened
    /\ Finish
    /\ opened' = FALSE
    /\ UNCHANGED <<disk, acked, strays>>

----------------------------------------------------------------------------
(* heap_insert *)

\* It rejects a record no page can hold, and counts the pages of the file: none if
\* lseek fails.  On a closed heap it counts 0 and page_allocate fails.
InsertCall(r) ==
    /\ op = "idle"
    /\ opened /\ Length[r] <= max_record_size
    /\ op' = "scan"
    /\ record' = r
    /\ page_count' \in {PagesInFile, 0}
    /\ page_id' = 0
    /\ UNCHANGED <<buffer, disk, opened, slot_id, acked, strays>>

\* Mutant: page_read's -1 goes unnoticed, and the buffer is used as it is.
ScanReadUnchecked ==
    /\ op = "scan" /\ page_id < page_count
    /\ \/ Load(disk[page_id])
       \/ UNCHANGED buffer
    /\ op' = "try"
    /\ UNCHANGED <<disk, opened, record, page_count, page_id, slot_id, acked, strays>>

\* page_read of the next page of the loop.
ScanRead ==
    /\ op = "scan" /\ page_id < page_count
    /\ \/ /\ Load(disk[page_id])
          /\ op' = "try"
          /\ UNCHANGED <<disk, opened, record, page_count, page_id, slot_id, acked, strays>>
       \/ Fail

\* page_allocate writes an empty page as page p, if the disk has room; then page_init
\* clears the buffer.
page_allocate(p) ==
    /\ PagesInFile < MaxPages
    /\ disk' = P!Put(disk, p, EmptyImage)
    /\ page_id' = p
    /\ strays' = IF page_count = PagesInFile THEN strays ELSE strays \cup {p}
    /\ Load(EmptyImage)
    /\ op' = "try_new"
    /\ UNCHANGED <<opened, record, page_count, slot_id, acked>>

\* Mutant: the id of the new page is that of the one after it.
AllocateHole == op = "scan" /\ page_id = page_count /\ page_allocate(PagesInFile + 1)

\* Mutant: the loop stops before the last page.
AllocateEarly == op = "scan" /\ page_id + 1 >= page_count /\ page_allocate(PagesInFile)

\* All pages counted have refused the record: page_allocate appends one.
Allocate ==
    /\ op = "scan" /\ page_id = page_count
    /\ page_allocate(PagesInFile) \/ Fail

\* page_insert on the buffer: its first step, and the steps of page_compact.
TryInsert ==
    /\ op \in {"try", "try_new"}
    /\ P!PageInsert(record)
    /\ op' = IF op = "try" THEN "tried" ELSE "tried_new"
    /\ UNCHANGED <<disk, opened, record, page_count, page_id, slot_id, acked, strays>>

Compact ==
    /\ P!CompactStep
    /\ UNCHANGED <<disk, opened, op, record, page_count, page_id, slot_id, acked, strays>>

\* page_insert returned -1: the loop goes on, or the call fails.
Refused ==
    /\ op \in {"tried", "tried_new"} /\ pc = "idle" /\ ret = -1
    /\ \/ /\ op = "tried"
          /\ op' = "scan"
          /\ page_id' = page_id + 1
          /\ Load(EmptyImage)
          /\ UNCHANGED <<disk, opened, record, page_count, slot_id, acked, strays>>
       \/ op = "tried_new" /\ Fail

\* Mutant: page_write to page 0.
InsertWritesFirst ==
    /\ op \in {"tried", "tried_new"} /\ pc = "idle" /\ ret # -1
    /\ disk' = [disk EXCEPT ![0] = Image]
    /\ slot_id' = ret
    /\ op' = "written"
    /\ UNCHANGED <<buffer, opened, record, page_count, page_id, acked, strays>>

\* page_insert returned a slot: page_write.
InsertWrite ==
    /\ op \in {"tried", "tried_new"} /\ pc = "idle" /\ ret # -1
    /\ \/ /\ disk' = [disk EXCEPT ![page_id] = Image]
          /\ slot_id' = ret
          /\ op' = "written"
          /\ UNCHANGED <<buffer, opened, record, page_count, page_id, acked, strays>>
       \/ Fail

\* heap_insert returns 0 and the RID.
InsertReturns ==
    /\ op = "written"
    /\ acked' = P!Put(acked, <<page_id, slot_id>>, record)
    /\ Finish
    /\ UNCHANGED <<disk, opened, strays>>

----------------------------------------------------------------------------
(* heap_delete *)

\* It checks the page_id, which is not below the count if that failed, and reads
\* the page.
DeleteCall(p, s) ==
    /\ op = "idle" /\ opened
    /\ p < PagesInFile
    /\ \/ /\ Load(disk[p])
          /\ op' = "delete"
          /\ page_id' = p
          /\ slot_id' = s
          /\ UNCHANGED <<disk, opened, record, page_count, acked, strays>>
       \/ Fail

\* page_delete on the buffer.
DeleteSlot ==
    /\ op = "delete"
    /\ \/ /\ P!DeleteLive(slot_id)
          /\ op' = "deleted"
          /\ UNCHANGED <<disk, opened, record, page_count, page_id, slot_id, acked, strays>>
       \/ slot_id \notin P!Live(page) /\ Fail

\* page_write; heap_delete returns 0 and the RID is gone.
DeleteWrite ==
    /\ op = "deleted"
    /\ \/ /\ disk' = [disk EXCEPT ![page_id] = Image]
          /\ acked' = Restrict(acked, DOMAIN acked \ {<<page_id, slot_id>>})
          /\ Finish
          /\ UNCHANGED <<opened, strays>>
       \/ Fail

----------------------------------------------------------------------------
heap_insert ==
    \/ \E r \in Record : InsertCall(r)
    \/ ScanRead \/ Allocate \/ TryInsert \/ Compact \/ Refused \/ InsertWrite \/ InsertReturns

heap_delete ==
    \/ \E p \in DOMAIN disk : \E s \in 0 .. disk[p].page.slot_count : DeleteCall(p, s)
    \/ DeleteSlot \/ DeleteWrite

Next == heap_open \/ heap_close \/ heap_insert \/ heap_delete \/ Crash

Spec == Init /\ [][Next]_vars
----------------------------------------------------------------------------
(* Properties. *)

\* Every variable has its type, and every page of the file that of a page.
TypeOK ==
    /\ P!TypeOK
    /\ DOMAIN disk = 0 .. PagesInFile - 1 /\ PagesInFile <= MaxPages
    /\ \A p \in DOMAIN disk :
          /\ P!PageType(disk[p].page)
          /\ disk[p].contents \in [P!SlotId(disk[p].page) -> Record \cup {NoRecord}]
          /\ disk[p].scrambled \in BOOLEAN
    /\ opened \in BOOLEAN
    /\ op \in {"idle", "scan", "try", "try_new", "tried", "tried_new", "written",
              "delete", "deleted"}
    /\ record \in Record \cup {NoRecord}
    /\ page_count \in {PagesInFile, 0} \/ op \in {"try_new", "tried_new", "written"}
    /\ page_id \in 0 .. PagesInFile
    /\ slot_id \in Nat
    /\ DOMAIN acked \subseteq RID /\ Range(acked) \subseteq Record
    /\ strays \subseteq DOMAIN disk

\* A page of the file is never left half-changed: its layout is sound whatever
\* calls failed or died.
DiskSound == \A p \in DOMAIN disk : P!PageOK(disk[p].page)

\* heap_get finds every record under the RID that heap_insert returned for it,
\* until heap_delete has removed it: after other inserts and deletes in its
\* page, after failed calls, and after a crash and a heap_open.  (Not in a page
\* that page_compact has scrambled: see SlottedPage.)
AckedReadable == opened => \A rid \in DOMAIN acked :
    disk[rid[1]].scrambled \/ HeapGet(rid) = P!Content(acked[rid])

\* The record does not fit between the slots and the live records of the page,
\* however these are arranged.
FullFor(pg, r) == \E id \in 0 .. pg.slot_count :
    /\ P!ReusableSlot(pg, id)
    /\ P!NeededSpace(pg, r, id) > pg.free_end - P!HeaderSize
                                   - Cardinality(P!Bytes(pg, P!SlotId(pg)))

Grows == PagesInFile' > PagesInFile
AllFull == \A p \in DOMAIN disk : FullFor(disk[p].page, record)

\* heap_file.c:104: a page is allocated once all pages are full.  A call that has
\* counted the pages allocates one only when it has tried them all and none has
\* room, even after page_compact.  When lseek fails in heap_page_count, heap_insert
\* takes the file for empty, and appends to it though it has room.
GrowsOnlyWhenFull == [][Grows => AllFull \/ page_count # PagesInFile]_vars

\* A call that fails or dies between page_allocate and page_write leaves an
\* unused page, which the next heap_insert finds: they never pile up, but for
\* those of calls that have counted no pages where there are some.
AtMostOneUnusedPage ==
    Cardinality({p \in DOMAIN disk \ strays : disk[p].page.slot_count = 0}) <= 1

\* The file as a map from RIDs to records.
LiveRID == UNION {{p} \X P!Live(disk[p].page) : p \in DOMAIN disk}
Store == INSTANCE RecordStore WITH
    Slot <- (0 .. MaxPages - 1) \X (0 .. PAGE_SIZE \div P!SlotSize),
    Value <- {P!Content(r) : r \in Record},
    store <- [rid \in LiveRID |-> P!ReadBack(disk[rid[1]].page, rid[2])],
    damaged <- \E p \in DOMAIN disk : disk[p].scrambled

\* Each system call on the file adds one record, removes one, or leaves all as
\* they were, whatever happened to the buffer in between.
ImplementsRecordStore == Store!Spec
=============================================================================
