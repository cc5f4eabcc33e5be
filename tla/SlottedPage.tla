---------------------------- MODULE SlottedPage ----------------------------
(***************************************************************************)
(* The slotted page of mini-db (page.c, the same code in 03-slotted-page   *)
(* and 04-heap-file): a page of PAGE_SIZE bytes whose header is followed   *)
(* by the records, growing up from free_start, and whose slot directory    *)
(* grows down from the end of the page to free_end.                        *)
(*                                                                         *)
(* The page is one buffer in memory and one call runs at a time.  Every    *)
(* call is one step, except that page_compact, which moves the records one *)
(* at a time over the buffer it reads from, takes one step per iteration   *)
(* of its loop: what each iteration overwrites is what can go wrong in it. *)
(*                                                                         *)
(* The header and the slots are kept in fields of their own beside the     *)
(* bytes they occupy: PageOK says that the records stay out of those bytes *)
(* (free_start <= free_end), so no write through one view is ever read     *)
(* through the other.  Arithmetic is unbounded: TypeOK bounds every        *)
(* uint16_t field by 65535, so no assignment of the code wraps.            *)
(***************************************************************************)
EXTENDS Integers, FiniteSets

CONSTANTS
    PAGE_SIZE,   \* bytes in a page
    Record,      \* the records a caller may ask to store
    Length,      \* the length in bytes of each record
    NoRecord     \* the absence of a record

HeaderSize == 6  \* sizeof(PageHeader): three uint16_t
SlotSize == 4    \* sizeof(Slot): two uint16_t
MaxUInt16 == 65535
UInt16 == 0 .. MaxUInt16

\* A page holds its header and one slot, and its size fits free_end.
ASSUME PageSizeAssumption == PAGE_SIZE \in (HeaderSize + SlotSize) .. MaxUInt16
ASSUME LengthAssumption == Length \in [Record -> UInt16]
ASSUME NoRecordAssumption == NoRecord \notin Record

VARIABLES
    page,            \* the buffer: header fields, slots and bytes
    pc,              \* "idle", or "compact" inside page_compact's loop
    cursor,          \* slot_id of page_compact's loop
    new_free_start,  \* where page_compact puts the next live record
    request,         \* the record of the page_insert that compacts, if one does
    ret,             \* what the last call returned
    contents,        \* history: the record last stored in each slot, until deleted
    scrambled        \* history: page_compact has run on a page that is not Ordered

vars == <<page, pc, cursor, new_free_start, request, ret, contents, scrambled>>

----------------------------------------------------------------------------
(* The layout of a page. *)

Zero == <<>>                              \* a byte that memset cleared
Byte == {Zero} \cup (Record \X UInt16)    \* <<r, k>> is the k-th byte of record r
Address == 0 .. PAGE_SIZE - 1
Slot == [offset : UInt16, length : UInt16]

SlotId(pg) == 0 .. pg.slot_count - 1
Live(pg) == {s \in SlotId(pg) : pg.slot[s].length # 0}
Extent(pg, s) == pg.slot[s].offset .. pg.slot[s].offset + pg.slot[s].length - 1

\* page_init
EmptyPage == [slot_count |-> 0, free_start |-> HeaderSize, free_end |-> PAGE_SIZE,
              slot |-> [s \in 0 .. -1 |-> [offset |-> 0, length |-> 0]],
              data |-> [a \in Address |-> Zero]]

\* page_get: the bytes copied to the caller's buffer, or NoRecord when it
\* returns -1.
PageGet(pg, s, buffer_size) ==
    IF s \in Live(pg) /\ buffer_size >= pg.slot[s].length
    THEN [k \in 0 .. pg.slot[s].length - 1 |-> pg.data[pg.slot[s].offset + k]]
    ELSE NoRecord

\* What a caller reads from slot s with a buffer no record can exceed.
ReadBack(pg, s) == PageGet(pg, s, MaxUInt16)

Content(r) == [k \in 0 .. Length[r] - 1 |-> <<r, k>>]

----------------------------------------------------------------------------
(* The parts of page_insert and page_compact. *)

\* Mutant: the loop takes the first slot, deleted or not.
ReusesAnySlot(pg, id) == id = 0

\* The loop that looks for a deleted slot stops at id, or at slot_count.
ReusableSlot(pg, id) ==
    /\ id \in 0 .. pg.slot_count
    /\ \A s \in 0 .. id - 1 : pg.slot[s].length # 0
    /\ id < pg.slot_count => pg.slot[id].length = 0

\* Mutant: the new slot is not counted.
NeedsNoSlot(pg, r, id) == Length[r]

NeededSpace(pg, r, id) == Length[r] + (IF id < pg.slot_count THEN 0 ELSE SlotSize)

Fits(pg, r, id) == pg.free_end - pg.free_start >= NeededSpace(pg, r, id)

\* f with the value v at i, inside its domain or just past it.
Put(f, i, v) == [j \in DOMAIN f \cup {i} |-> IF j = i THEN v ELSE f[j]]

\* Mutant: the slot is filled, and the header left as it is.
PlaceWithoutCount(pg, r, id) ==
    [pg EXCEPT !.slot = Put(pg.slot, id, [offset |-> pg.free_start, length |-> Length[r]])]

\* The record is copied to free_start and the slot id describes it.
Place(pg, r, id) ==
    [slot_count |-> IF id < pg.slot_count THEN pg.slot_count ELSE pg.slot_count + 1,
     free_start |-> pg.free_start + Length[r],
     free_end |-> IF id < pg.slot_count THEN pg.free_end ELSE pg.free_end - SlotSize,
     slot |-> Put(pg.slot, id, [offset |-> pg.free_start, length |-> Length[r]]),
     data |-> [a \in Address |->
                  IF a \in pg.free_start .. pg.free_start + Length[r] - 1
                  THEN <<r, a - pg.free_start>> ELSE pg.data[a]]]

\* Mutant: slot->offset is not updated.
MoveBytesOnly(pg, s, dst) ==
    [pg EXCEPT !.data = [a \in Address |->
        IF a \in dst .. dst + pg.slot[s].length - 1
        THEN pg.data[pg.slot[s].offset + (a - dst)] ELSE pg.data[a]]]

\* memmove of the record of slot s down to address dst.
MoveRecord(pg, s, dst) ==
    LET src == pg.slot[s].offset
        len == pg.slot[s].length
    IN  [pg EXCEPT !.slot = Put(pg.slot, s, [offset |-> dst, length |-> len]),
                   !.data = [a \in Address |->
                                IF a \in dst .. dst + len - 1
                                THEN pg.data[src + (a - dst)] ELSE pg.data[a]]]

\* The live records lie in the order of their slots.
Ordered(pg) == \A s, t \in Live(pg) : s < t => pg.slot[s].offset < pg.slot[t].offset

----------------------------------------------------------------------------
Init ==
    /\ page = EmptyPage
    /\ pc = "idle"
    /\ cursor = 0
    /\ new_free_start = HeaderSize
    /\ request = NoRecord
    /\ ret = 0
    /\ contents = [s \in 0 .. -1 |-> NoRecord]
    /\ scrambled = FALSE

\* The caller gets r; whatever page_compact had in its locals is gone.
Return(r) ==
    /\ ret' = r
    /\ pc' = "idle"
    /\ cursor' = 0
    /\ new_free_start' = HeaderSize
    /\ request' = NoRecord

\* page_insert ends by placing r in slot id of pg and returning id.
Store(pg, r, id) ==
    /\ page' = Place(pg, r, id)
    /\ contents' = Put(contents, id, r)
    /\ Return(id)

\* Mutant: the loop starts at slot 1.
EnterCompactLate(r) ==
    /\ pc' = "compact"
    /\ cursor' = IF page.slot_count = 0 THEN 0 ELSE 1
    /\ new_free_start' = HeaderSize
    /\ request' = r
    /\ scrambled' = (scrambled \/ ~Ordered(page))
    /\ UNCHANGED <<page, ret, contents>>

\* page_compact is entered, called by page_insert(r) or (NoRecord) by itself.
EnterCompact(r) ==
    /\ pc' = "compact"
    /\ cursor' = 0
    /\ new_free_start' = HeaderSize
    /\ request' = r
    /\ scrambled' = (scrambled \/ ~Ordered(page))
    /\ UNCHANGED <<page, ret, contents>>

\* page_insert of an empty record.
InsertEmpty(r) ==
    /\ pc = "idle"
    /\ Length[r] = 0
    /\ Return(-1)
    /\ UNCHANGED <<page, contents, scrambled>>

\* page_insert when the record fits as the page is.
InsertFast(r) ==
    /\ pc = "idle"
    /\ Length[r] # 0
    /\ \E id \in 0 .. page.slot_count :
        /\ ReusableSlot(page, id)
        /\ Fits(page, r, id)
        /\ Store(page, r, id)
    /\ UNCHANGED scrambled

\* page_insert when the gap is too small: it calls page_compact.
InsertCompacts(r) ==
    /\ pc = "idle"
    /\ Length[r] # 0
    /\ \E id \in 0 .. page.slot_count : ReusableSlot(page, id) /\ ~Fits(page, r, id)
    /\ EnterCompact(r)

\* page_compact called by the user of the page.
PageCompact == pc = "idle" /\ EnterCompact(NoRecord)

\* One iteration of page_compact's loop: a deleted slot is skipped, a live
\* record moves down to new_free_start.
CompactSlot ==
    /\ pc = "compact"
    /\ cursor < page.slot_count
    /\ IF page.slot[cursor].length = 0
       THEN UNCHANGED <<page, new_free_start>>
       ELSE /\ page' = MoveRecord(page, cursor, new_free_start)
            /\ new_free_start' = new_free_start + page.slot[cursor].length
    /\ cursor' = cursor + 1
    /\ UNCHANGED <<pc, request, ret, contents, scrambled>>

\* Mutant: header->free_start is not updated.
CompactedInVain == page

\* The page that page_compact leaves when its loop is over.
Compacted == [page EXCEPT !.free_start = new_free_start]

\* page_compact returns, to its own caller or to page_insert, which checks the
\* space again (the lengths, hence the slot it chose, are as before the call).
CompactReturns ==
    /\ pc = "compact"
    /\ cursor = page.slot_count
    /\ \/ /\ request = NoRecord
          /\ page' = Compacted
          /\ Return(0)
          /\ UNCHANGED contents
       \/ /\ request # NoRecord
          /\ \E id \in 0 .. page.slot_count :
              /\ ReusableSlot(Compacted, id)
              /\ \/ Fits(Compacted, request, id) /\ Store(Compacted, request, id)
                 \/ /\ ~Fits(Compacted, request, id)
                    /\ page' = Compacted
                    /\ Return(-1)
                    /\ UNCHANGED contents
    /\ UNCHANGED scrambled

\* page_delete of a slot that holds a record, and of any other.
DeleteLive(s) ==
    /\ pc = "idle"
    /\ s \in Live(page)
    /\ page' = [page EXCEPT !.slot[s].length = 0]
    /\ contents' = [contents EXCEPT ![s] = NoRecord]
    /\ Return(0)
    /\ UNCHANGED scrambled

DeleteMissing(s) ==
    /\ pc = "idle"
    /\ s \notin Live(page)
    /\ Return(-1)
    /\ UNCHANGED <<page, contents, scrambled>>

PageInsert(r) == InsertEmpty(r) \/ InsertFast(r) \/ InsertCompacts(r)
PageDelete(s) == DeleteLive(s) \/ DeleteMissing(s)
CompactStep == CompactSlot \/ CompactReturns

Next ==
    \/ \E r \in Record : PageInsert(r)
    \/ \E s \in 0 .. page.slot_count : PageDelete(s)
    \/ PageCompact
    \/ CompactStep

Spec == Init /\ [][Next]_vars
----------------------------------------------------------------------------
(* Properties. *)

\* The value of a page: one slot for each of its slot ids, one byte for each
\* of its addresses.
PageType(pg) ==
    pg \in [slot_count : UInt16, free_start : UInt16, free_end : UInt16,
            slot : [SlotId(pg) -> Slot], data : [Address -> Byte]]

\* Every variable has its type; the uint16_t fields of page.h hold what
\* unbounded arithmetic computes.
TypeOK ==
    /\ PageType(page)
    /\ pc \in {"idle", "compact"}
    /\ cursor \in SlotId(page) \cup {page.slot_count}
    /\ new_free_start \in UInt16
    /\ request \in Record \cup {NoRecord}
    /\ ret \in {-1} \cup UInt16
    /\ contents \in [SlotId(page) -> Record \cup {NoRecord}]
    /\ scrambled \in BOOLEAN

\* The slot directory fills the page from free_end to its end, and the gap
\* between the records and the directory is not negative.
HeaderOK(pg) ==
    /\ pg.free_end = PAGE_SIZE - SlotSize * pg.slot_count
    /\ HeaderSize <= pg.free_start /\ pg.free_start <= pg.free_end

\* The records of slots S lie between address lo and address hi.
Within(pg, S, lo, hi) ==
    \A s \in S \cap Live(pg) :
        lo <= pg.slot[s].offset /\ pg.slot[s].offset + pg.slot[s].length <= hi

\* No two records of slots S share a byte.
Disjoint(pg, S) ==
    \A s, t \in S \cap Live(pg) : s # t =>
        \/ pg.slot[s].offset + pg.slot[s].length <= pg.slot[t].offset
        \/ pg.slot[t].offset + pg.slot[t].length <= pg.slot[s].offset

\* A page no call is working on: the header is consistent, the records lie
\* between the header and free_start, and no two overlap.
PageOK(pg) ==
    /\ HeaderOK(pg)
    /\ Within(pg, SlotId(pg), HeaderSize, pg.free_start)
    /\ Disjoint(pg, SlotId(pg))

\* Between calls the layout is sound, after any sequence of inserts, reuses of
\* slots, deletes and compactions: page_compact gives back every byte of a
\* deleted record and never a byte of a live one.
LayoutSound == pc = "idle" => PageOK(page)

\* No byte from the header up to address hi is outside the records of slots S.
Packed(pg, S, hi) ==
    \A i \in HeaderSize .. hi - 1 : \E s \in S \cap Live(pg) : i \in Extent(pg, s)

\* The slots page_compact has dealt with when its loop is at slot c, and the
\* others.
Moved(c) == 0 .. c - 1
Pending(pg, c) == c .. pg.slot_count - 1

Bytes(pg, S) == UNION {Extent(pg, s) : s \in S \cap Live(pg)}

\* The loop is at slot c and puts the next record at address n: the moved
\* records fill the page up to n, and what the others hold still fits between n
\* and free_start.
LoopLayout(pg, c, n) ==
    /\ HeaderOK(pg)
    /\ HeaderSize <= n
    /\ Within(pg, Moved(c), HeaderSize, n)
    /\ Disjoint(pg, Moved(c))
    /\ Packed(pg, Moved(c), n)
    /\ Within(pg, Pending(pg, c), HeaderSize, pg.free_start)
    /\ Disjoint(pg, Pending(pg, c))
    /\ n + Cardinality(Bytes(pg, Pending(pg, c))) <= pg.free_start

\* Inside page_compact, on any page, even while it copies records over one
\* another, new_free_start never runs into the slot directory or past a
\* uint16_t, and no two moved records overlap.
CompactionSound == pc = "compact" => LoopLayout(page, cursor, new_free_start)

\* page_get returns, for each slot, exactly what was last stored in it.
Intact == \A s \in SlotId(page) :
    ReadBack(page, s) = IF contents[s] = NoRecord THEN NoRecord
                        ELSE Content(contents[s])

\* Every record survives every call on the page, at each step of page_compact
\* too, as long as page_compact is never entered on a page whose records do
\* not lie in the order of their slots.
IntactUnlessScrambled == ~scrambled => Intact

\* test_heap.c:162 and test_page.c:90 say that the records that were not
\* deleted stay as they are.  page_compact does not keep that promise: it moves
\* records in the order of their slots, so a record that a reused slot put
\* above its neighbours is copied over a neighbour not yet moved.
RecordsSurvive == pc = "idle" => Intact

\* The step in which page_insert(r) gives up for want of space.
InsertFails(r) == pc = "compact" /\ request = r /\ pc' = "idle" /\ ret' = -1

\* page_insert refuses a record only if it cannot be stored: every byte is in a
\* live record or in a gap too small for the record and the slot it needs.
RefusedOnlyWhenFull == [][
    \A r \in Record : InsertFails(r) =>
        /\ Packed(page', SlotId(page'), page'.free_start)
        /\ \E id \in 0 .. page.slot_count :
              ReusableSlot(page, id) /\ ~Fits(page', r, id)]_vars

----------------------------------------------------------------------------
(* What a page promises: RecordStore, where a record is what page_get copies. *)

RS == INSTANCE RecordStore WITH
    Slot <- 0 .. PAGE_SIZE,
    Value <- {Content(r) : r \in Record},
    store <- [s \in Live(page) |-> ReadBack(page, s)],
    damaged <- scrambled

\* Each step of the page adds one record in a free slot, removes one, or leaves
\* every record readable as it was, until a compaction scrambles the page.
ImplementsRecordStore == RS!Spec
=============================================================================
