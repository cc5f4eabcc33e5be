--------------------------- MODULE HeapFile_proof ---------------------------
(***************************************************************************)
(* Proofs about HeapFile, for any size of page and disk, and any records.  *)
(* The buffer of a call is a page of SlottedPage: what is proved of that   *)
(* page in SlottedPage_proof is cited here as SP!...                       *)
(*                                                                         *)
(* The last part is about the page layers (PageFile), a state machine of   *)
(* its own: no theorem is about both.                                      *)
(***************************************************************************)
EXTENDS HeapFile, PageFile, FiniteSetTheorems, TLAPS

SP == INSTANCE SlottedPage_proof

\* A page of the file with its history, as a call may leave it.
ImageOK(image) ==
    /\ image = [page |-> image.page, contents |-> image.contents, scrambled |-> image.scrambled]
    /\ SP!PageType(image.page) /\ SP!PageOK(image.page)
    /\ image.contents \in [SP!SlotId(image.page) -> Record \cup {NoRecord}]
    /\ image.scrambled \in BOOLEAN
    /\ SP!Recorded(image.page, image.contents)
    /\ ~image.scrambled => SP!BytesIntact(image.page, image.contents)

\* page_insert has been called on the copy of page old: it is compacting, has
\* refused the record, or has put it where old has none.
Tried(old) ==
    /\ old.scrambled => scrambled
    /\ pc = "compact" => request = record /\ contents = old.contents
    /\ pc = "idle" /\ ret # -1 =>
          /\ ret \notin SP!Live(old.page)
          /\ SP!Live(page) = SP!Live(old.page) \cup {ret}
          /\ contents = SP!Put(old.contents, ret, record)

\* page_delete has emptied a slot of the copy of page old.
Emptied(old) ==
    /\ slot_id \in SP!Live(old.page)
    /\ SP!Live(page) = SP!Live(old.page) \ {slot_id}
    /\ page.slot_count = old.page.slot_count
    /\ contents = [old.contents EXCEPT ![slot_id] = NoRecord]
    /\ scrambled = old.scrambled

Inserting == {"scan", "try", "try_new", "tried", "tried_new", "written"}
Copied == {"try", "try_new", "delete"}
InPage == {"try", "try_new", "tried", "tried_new", "written", "delete", "deleted"}

\* Where the call is, and what its buffer has to do with the page it came from.
CallOK ==
    /\ op \in Inserting \cup {"idle", "delete", "deleted"}
    /\ record \in Record \cup {NoRecord} /\ page_id \in 0 .. PagesInFile /\ slot_id \in Nat
    /\ page_count \in 0 .. PagesInFile
    /\ op \in {"try_new", "tried_new", "written"} \/ page_count \in {PagesInFile, 0}
    /\ op \notin {"tried", "tried_new"} => pc = "idle"
    /\ op \in Inserting => record \in Record /\ Length[record] <= max_record_size
    /\ op \in InPage => page_id \in DOMAIN disk
    /\ op \in Copied => Image = disk[page_id]
    /\ op \in {"tried", "tried_new"} => Tried(disk[page_id])
    /\ op = "written" => /\ slot_id \in DOMAIN disk[page_id].contents
                         /\ disk[page_id].contents[slot_id] = record
    /\ op = "deleted" => Emptied(disk[page_id])

\* The file holds what has been acknowledged.
AckedStored == \A rid \in DOMAIN acked :
    /\ rid[1] \in DOMAIN disk
    /\ rid[2] \in DOMAIN disk[rid[1]].contents
    /\ disk[rid[1]].contents[rid[2]] = acked[rid]

FileOK ==
    /\ PagesInFile \in Nat /\ PagesInFile <= MaxPages /\ DOMAIN disk = 0 .. PagesInFile - 1
    /\ \A p \in DOMAIN disk : ImageOK(disk[p])
    /\ opened \in BOOLEAN
    /\ DOMAIN acked \subseteq RID /\ Range(acked) \subseteq Record
    /\ strays \subseteq DOMAIN disk
    /\ AckedStored

IInv == FileOK /\ CallOK /\ SP!IInv

\* page_compact, run for an insert, has made pg of page old, is at slot c and puts
\* the next record at n.  It has changed no length, and the room it has made so
\* far is that of the bytes it has left out.
Compacting(old, pg, c, n) ==
    /\ pg.slot_count = old.slot_count /\ pg.free_end = old.free_end
    /\ \A s \in SP!SlotId(old) : pg.slot[s].length = old.slot[s].length
    /\ n + Cardinality(SP!Bytes(old, SP!Pending(old, c)))
          = SP!HeaderSize + Cardinality(SP!Bytes(old, SP!SlotId(old)))

\* The pages that the loop of heap_insert has left behind are full,
PassedFull == op \in {"scan", "try", "tried"} =>
    \A p \in DOMAIN disk : p < page_id => FullFor(disk[p].page, record)

\* and so is the one whose copy has just refused the record.
RefusalFull == op = "tried" =>
    /\ pc = "compact" => Compacting(disk[page_id].page, page, cursor, new_free_start)
    /\ pc = "idle" /\ ret = -1 => FullFor(disk[page_id].page, record)

\* No two pages are unused, but for those of calls that had counted none.
OneUnused == \A p, q \in DOMAIN disk \ strays :
    disk[p].page.slot_count = 0 /\ disk[q].page.slot_count = 0 => p = q

GrowInv == PassedFull /\ RefusalFull /\ OneUnused

----------------------------------------------------------------------------
(* P of HeapFile and SP are the same module. *)

LEMMA SameSizes ==
    /\ P!HeaderSize = SP!HeaderSize /\ P!SlotSize = SP!SlotSize
    /\ P!MaxUInt16 = SP!MaxUInt16 /\ P!UInt16 = SP!UInt16
  BY DEF P!HeaderSize, SP!HeaderSize, P!SlotSize, SP!SlotSize, P!MaxUInt16, SP!MaxUInt16,
         P!UInt16, SP!UInt16

LEMMA SameCardinality == \A S : SP!Cardinality(S) = Cardinality(S)
  BY DEF SP!Cardinality, Cardinality

\* What SlottedPage_proof assumes of the constants.
LEMMA Assumed == SP!PageSizeAssumption /\ SP!LengthAssumption /\ SP!NoRecordAssumption
  BY PageSizeAssumption, LengthAssumption, NoRecordAssumption, SameSizes

\* A number whose value is never needed.
LEMMA MaxNat == SP!MaxUInt16 \in Nat
  BY DEF SP!MaxUInt16

LEMMA SamePage ==
    ASSUME NEW pg
    PROVE  /\ P!PageType(pg) <=> SP!PageType(pg)
           /\ P!PageOK(pg) <=> SP!PageOK(pg)
           /\ P!SlotId(pg) = SP!SlotId(pg)
           /\ P!Live(pg) = SP!Live(pg)
  BY DEF P!PageType, SP!PageType, P!SlotId, SP!SlotId, P!UInt16, SP!UInt16, P!MaxUInt16,
         SP!MaxUInt16, P!Slot, SP!Slot, P!Address, SP!Address, P!Byte, SP!Byte, P!Zero, SP!Zero,
         P!PageOK, SP!PageOK, P!HeaderOK, SP!HeaderOK, P!HeaderSize, SP!HeaderSize, P!SlotSize,
         SP!SlotSize, P!Within, SP!Within, P!Disjoint, SP!Disjoint, P!Live, SP!Live

LEMMA SameContent ==
    /\ \A pg, s : P!ReadBack(pg, s) = SP!ReadBack(pg, s)
    /\ \A r : P!Content(r) = SP!Content(r)
    /\ \A f, i, v : P!Put(f, i, v) = SP!Put(f, i, v)
    /\ P!EmptyPage = SP!EmptyPage
  BY DEF P!ReadBack, SP!ReadBack, P!PageGet, SP!PageGet, P!Live, SP!Live, P!SlotId, SP!SlotId,
         P!MaxUInt16, SP!MaxUInt16, P!Content, SP!Content, P!Put, SP!Put, P!EmptyPage, SP!EmptyPage,
         P!HeaderSize, SP!HeaderSize, P!Address, SP!Address, P!Zero, SP!Zero

LEMMA SameRoom ==
    ASSUME NEW pg
    PROVE  /\ \A id : P!ReusableSlot(pg, id) <=> SP!ReusableSlot(pg, id)
           /\ \A r, id : P!NeededSpace(pg, r, id) = SP!NeededSpace(pg, r, id)
           /\ \A S : P!Bytes(pg, S) = SP!Bytes(pg, S)
           /\ P!HeaderSize = SP!HeaderSize /\ P!SlotSize = SP!SlotSize
  BY DEF P!ReusableSlot, SP!ReusableSlot, P!NeededSpace, SP!NeededSpace, P!Bytes, SP!Bytes,
         P!Extent, SP!Extent, P!Live, SP!Live, P!SlotId, SP!SlotId, P!HeaderSize, SP!HeaderSize,
         P!SlotSize, SP!SlotSize

\* The steps of page.c that HeapFile takes.
LEMMA SameCalls ==
    /\ P!Init <=> SP!Init
    /\ P!TypeOK <=> SP!TypeOK
    /\ \A n : P!Return(n) <=> SP!Return(n)
    /\ \A r : P!PageInsert(r) <=> SP!PageInsert(r)
    /\ P!CompactStep <=> SP!CompactStep
    /\ \A s : P!DeleteLive(s) <=> SP!DeleteLive(s)
<1>1. P!Init <=> SP!Init
  BY SameContent DEF P!Init, SP!Init, P!HeaderSize, SP!HeaderSize
<1>2. P!TypeOK <=> SP!TypeOK
  BY DEF P!TypeOK, SP!TypeOK, P!PageType, SP!PageType, P!SlotId, SP!SlotId, P!UInt16, SP!UInt16,
         P!MaxUInt16, SP!MaxUInt16, P!Slot, SP!Slot, P!Address, SP!Address, P!Byte, SP!Byte,
         P!Zero, SP!Zero
<1>3. \A n : P!Return(n) <=> SP!Return(n)
  BY DEF P!Return, SP!Return, P!HeaderSize, SP!HeaderSize
<1>4. \A pg, r, id : /\ P!Fits(pg, r, id) <=> SP!Fits(pg, r, id)
                     /\ P!Place(pg, r, id) = SP!Place(pg, r, id)
                     /\ P!MoveRecord(pg, r, id) = SP!MoveRecord(pg, r, id)
                     /\ P!ReusableSlot(pg, id) <=> SP!ReusableSlot(pg, id)
  BY DEF P!Fits, SP!Fits, P!NeededSpace, SP!NeededSpace, P!SlotSize, SP!SlotSize, P!Place, SP!Place,
         P!Put, SP!Put, P!Address, SP!Address, P!MoveRecord, SP!MoveRecord, P!ReusableSlot,
         SP!ReusableSlot
<1>5. \A pg, r, id : P!Store(pg, r, id) <=> SP!Store(pg, r, id)
  BY <1>3, <1>4, SameContent DEF P!Store, SP!Store
<1>6. \A r : P!EnterCompact(r) <=> SP!EnterCompact(r)
  BY SamePage DEF P!EnterCompact, SP!EnterCompact, P!Ordered, SP!Ordered, P!HeaderSize, SP!HeaderSize
<1>7. \A r : P!PageInsert(r) <=> SP!PageInsert(r)
  BY <1>3, <1>4, <1>5, <1>6
     DEF P!PageInsert, SP!PageInsert, P!InsertEmpty, SP!InsertEmpty, P!InsertFast, SP!InsertFast,
         P!InsertCompacts, SP!InsertCompacts
<1>8. P!CompactStep <=> SP!CompactStep
  BY <1>3, <1>4, <1>5
     DEF P!CompactStep, SP!CompactStep, P!CompactSlot, SP!CompactSlot, P!CompactReturns,
         SP!CompactReturns, P!Compacted, SP!Compacted
<1>9. \A s : P!DeleteLive(s) <=> SP!DeleteLive(s)
  BY <1>3, SamePage DEF P!DeleteLive, SP!DeleteLive
<1> QED BY <1>1, <1>2, <1>3, <1>7, <1>8, <1>9
LEMMA SameType == P!TypeOK <=> SP!TypeOK
  BY SameCalls

LEMMA SameTypeNext == P!TypeOK' <=> SP!TypeOK'
  BY SameType, PTL
----------------------------------------------------------------------------
(* The buffer. *)

USE DEF SP!HeaderSize, SP!SlotSize, SP!UInt16


\* page_init leaves a page that may be written.
LEMMA EmptyImageOK == ImageOK(EmptyImage) /\ SP!Live(EmptyImage.page) = {}
<1>1. /\ EmptyImage.page = SP!EmptyPage /\ EmptyImage.scrambled = FALSE
      /\ EmptyImage.contents = [s \in 0 .. -1 |-> NoRecord]
  BY SameContent DEF EmptyImage
<1>2. /\ SP!PageType(SP!EmptyPage) /\ SP!PageOK(SP!EmptyPage) /\ SP!SlotId(SP!EmptyPage) = {}
  BY Assumed, SP!EmptyPageType
<1>3. SP!Live(SP!EmptyPage) = {}
  BY <1>2 DEF SP!Live
<1>4. EmptyImage.contents \in [{} -> Record \cup {NoRecord}]
  <2>1. 0 .. -1 = {}
    OBVIOUS
  <2> QED BY <1>1, <2>1
<1>5. EmptyImage = [page |-> EmptyImage.page, contents |-> EmptyImage.contents,
                    scrambled |-> EmptyImage.scrambled]
  BY DEF EmptyImage
<1> QED BY <1>1, <1>2, <1>3, <1>4, <1>5 DEF ImageOK, SP!Recorded, SP!BytesIntact

\* A buffer that holds such a page satisfies the invariant of SlottedPage,
LEMMA LoadInv ==
    ASSUME NEW image, ImageOK(image), Load(image)
    PROVE  SP!IInv' /\ pc' = "idle" /\ Image' = image
<1>1. /\ page' = image.page /\ contents' = image.contents /\ scrambled' = image.scrambled
      /\ ret' = 0 /\ pc' = "idle" /\ cursor' = 0 /\ new_free_start' = SP!HeaderSize
      /\ request' = NoRecord
  BY SameCalls DEF Load, SP!Return
<1>2. SP!TypeOK'
  <2>1. 0 \in SP!SlotId(page') \cup {page'.slot_count}
    <3>1. page'.slot_count \in SP!UInt16
      BY <1>1, Assumed, SP!PageFields DEF ImageOK
    <3> QED BY <3>1, MaxNat DEF SP!SlotId
  <2>2. SP!HeaderSize \in SP!UInt16 /\ 0 \in SP!UInt16
    BY Assumed, MaxNat
  <2> QED BY <1>1, <2>1, <2>2 DEF SP!TypeOK, ImageOK
<1>3. SP!LayoutSound' /\ SP!CompactionSound'
  BY <1>1 DEF SP!LayoutSound, SP!CompactionSound, ImageOK
<1>4. SP!Recorded(page', contents') /\ (~scrambled' => SP!BytesIntact(page', contents'))
  BY <1>1 DEF ImageOK
<1>5. Image' = image
  BY <1>1 DEF ImageOK, Image
<1> QED BY <1>1, <1>2, <1>3, <1>4, <1>5 DEF SP!IInv

\* and a buffer that satisfies it between calls holds such a page.
LEMMA BufferOK ==
    ASSUME SP!IInv, pc = "idle"
    PROVE  ImageOK(Image)
  BY DEF ImageOK, Image, SP!IInv, SP!TypeOK, SP!LayoutSound

\* The live slots are those with contents.
LEMMA LiveSlots ==
    ASSUME NEW pg, NEW c, SP!Recorded(pg, c)
    PROVE  SP!Live(pg) = {s \in SP!SlotId(pg) : c[s] # NoRecord}
  BY DEF SP!Live, SP!Recorded

\* heap_get of a page reads the contents of its live slots.
LEMMA ReadContent ==
    ASSUME NEW image, ImageOK(image), ~image.scrambled, NEW s \in SP!Live(image.page)
    PROVE  SP!ReadBack(image.page, s) = SP!Content(image.contents[s])
<1> DEFINE pg == image.page
           len == pg.slot[s].length
<1>1. s \in SP!SlotId(pg) /\ len # 0 /\ len \in SP!UInt16
  BY Assumed, SP!PageFields DEF ImageOK, SP!Live
<1>2. len = Length[image.contents[s]]
  BY <1>1 DEF ImageOK, SP!Recorded
<1>3. \A k \in 0 .. len - 1 : pg.data[pg.slot[s].offset + k] = <<image.contents[s], k>>
  BY DEF ImageOK, SP!BytesIntact
<1>4. SP!ReadBack(pg, s) = [k \in 0 .. len - 1 |-> pg.data[pg.slot[s].offset + k]]
  BY <1>1, MaxNat DEF SP!ReadBack, SP!PageGet
<1>5. SP!Content(image.contents[s]) = [k \in 0 .. len - 1 |-> <<image.contents[s], k>>]
  BY <1>2 DEF SP!Content
<1> HIDE DEF len
<1> QED BY <1>3, <1>4, <1>5
----------------------------------------------------------------------------
(* The calls of page.c on the buffer. *)

\* A buffer that stays keeps the invariant.
LEMMA BufferKept == SP!IInv /\ UNCHANGED buffer => SP!IInv'
<1> SUFFICES ASSUME SP!IInv, UNCHANGED buffer PROVE SP!IInv'
  OBVIOUS
<1>1. UNCHANGED SP!vars
  BY DEF buffer, SP!vars
<1> QED BY <1>1, Assumed, SP!NextInv

\* The record r has been put into a free slot.
Stores(r) ==
    /\ ret' # -1 /\ ret' \notin SP!Live(page) /\ ret' \in SP!SlotId(page')
    /\ SP!Live(page') = SP!Live(page) \cup {ret'}
    /\ contents' = SP!Put(contents, ret', r)

\* The call of Store that ends a page_insert.
LEMMA StoreStores ==
    ASSUME NEW pg, SP!PageType(pg), NEW r \in Record, Length[r] # 0, NEW id \in 0 .. pg.slot_count,
           SP!ReusableSlot(pg, id), SP!Store(pg, r, id), SP!Live(pg) = SP!Live(page)
    PROVE  Stores(r) /\ pc' = "idle"
<1>1. /\ page' = SP!Place(pg, r, id) /\ contents' = SP!Put(contents, id, r) /\ ret' = id
      /\ pc' = "idle"
  BY DEF SP!Store, SP!Return
<1>2. /\ SP!Live(page') = SP!Live(pg) \cup {id} /\ SP!SlotId(page') = SP!SlotId(pg) \cup {id}
  BY <1>1, Assumed, SP!PlaceLive, SP!PlaceSlotId
<1>3. pg.slot_count \in SP!UInt16
  BY Assumed, SP!PageFields
<1>4. id # -1 /\ id \notin SP!Live(pg)
  BY <1>3, MaxNat DEF SP!Live, SP!ReusableSlot, SP!SlotId
<1> QED BY <1>1, <1>2, <1>4 DEF Stores

\* page_insert: an empty record is refused, and one that does not fit as the page
\* is waits for page_compact.
LEMMA InsertEffect ==
    ASSUME SP!IInv, NEW r \in Record, P!PageInsert(r)
    PROVE  /\ SP!IInv' /\ (scrambled => scrambled')
           /\ \/ pc' = "idle" /\ ret' = -1 /\ Length[r] = 0
              \/ pc' = "idle" /\ Stores(r)
              \/ /\ pc' = "compact" /\ request' = r /\ UNCHANGED <<page, contents>>
                 /\ cursor' = 0 /\ new_free_start' = SP!HeaderSize
                 /\ \E id \in 0 .. page.slot_count :
                       SP!ReusableSlot(page, id) /\ ~SP!Fits(page, r, id)
<1>1. SP!PageInsert(r) /\ SP!PageType(page)
  BY SameCalls DEF SP!IInv, SP!TypeOK
<1>2. SP!IInv'
  BY <1>1, Assumed, SP!NextInv DEF SP!Next
<1>3. CASE SP!InsertEmpty(r)
  BY <1>2, <1>3 DEF SP!InsertEmpty, SP!Return
<1>4. CASE SP!InsertFast(r)
  <2>1. PICK id \in 0 .. page.slot_count : SP!ReusableSlot(page, id) /\ SP!Store(page, r, id)
    BY <1>4 DEF SP!InsertFast
  <2>2. Length[r] # 0 /\ UNCHANGED scrambled
    BY <1>4 DEF SP!InsertFast
  <2>3. Stores(r) /\ pc' = "idle"
    BY <1>1, <2>1, <2>2, StoreStores
  <2> QED BY <1>2, <2>2, <2>3
<1>5. CASE SP!InsertCompacts(r)
  BY <1>2, <1>5 DEF SP!InsertCompacts, SP!EnterCompact
<1> QED BY <1>1, <1>3, <1>4, <1>5 DEF SP!PageInsert

\* A step of page_compact, and what page_insert does when it is back.
LEMMA CompactEffect ==
    ASSUME SP!IInv, P!CompactStep
    PROVE  /\ SP!IInv' /\ UNCHANGED scrambled
           /\ \/ pc' = "compact" /\ UNCHANGED <<request, contents>>
              \/ pc' = "idle" /\ ret' = -1
              \/ pc' = "idle" /\ request # NoRecord /\ Stores(request)
              \/ request = NoRecord
<1>1. SP!CompactStep /\ SP!PageType(page) /\ pc = "compact"
  BY SameCalls DEF SP!IInv, SP!TypeOK, SP!CompactStep, SP!CompactSlot, SP!CompactReturns
<1>2. SP!IInv'
  BY <1>1, Assumed, SP!NextInv DEF SP!Next
<1>3. CASE SP!CompactSlot
  BY <1>1, <1>2, <1>3 DEF SP!CompactSlot
<1>4. CASE SP!CompactReturns
  <2>1. cursor = page.slot_count /\ UNCHANGED scrambled
    BY <1>4 DEF SP!CompactReturns
  <2>2. CASE request = NoRecord
    BY <1>2, <2>1, <2>2
  <2>3. ASSUME request # NoRecord, NEW id \in 0 .. page.slot_count,
               SP!ReusableSlot(SP!Compacted, id), SP!Store(SP!Compacted, request, id)
        PROVE  Stores(request) /\ pc' = "idle"
    <3>1. request \in Record /\ Length[request] # 0
      BY <2>3 DEF SP!IInv, SP!TypeOK
    <3>2. /\ SP!PageType(SP!Compacted) /\ SP!Live(SP!Compacted) = SP!Live(page)
          /\ SP!Compacted.slot_count = page.slot_count
      BY <1>1, <2>1, Assumed, SP!CompactedInv
    <3> QED BY <2>3, <3>1, <3>2, StoreStores
  <2>4. CASE SP!Return(-1)
    BY <1>2, <2>1, <2>4 DEF SP!Return
  <2> QED BY <1>2, <1>4, <2>1, <2>2, <2>3, <2>4 DEF SP!CompactReturns
<1> QED BY <1>1, <1>3, <1>4 DEF SP!CompactStep

\* page_delete of a live slot.
LEMMA DeleteEffect ==
    ASSUME SP!IInv, NEW s, P!DeleteLive(s)
    PROVE  /\ SP!IInv' /\ pc' = "idle" /\ UNCHANGED scrambled
           /\ s \in SP!Live(page) /\ SP!Live(page') = SP!Live(page) \ {s}
           /\ page'.slot_count = page.slot_count
           /\ contents' = [contents EXCEPT ![s] = NoRecord]
<1>1. SP!DeleteLive(s) /\ SP!PageType(page)
  BY SameCalls DEF SP!IInv, SP!TypeOK
<1>2. SP!IInv'
  BY <1>1, Assumed, SP!DeleteInv
<1>3. /\ s \in SP!Live(page) /\ page' = [page EXCEPT !.slot[s].length = 0]
      /\ contents' = [contents EXCEPT ![s] = NoRecord] /\ pc' = "idle" /\ UNCHANGED scrambled
  BY <1>1 DEF SP!DeleteLive, SP!Return
<1>4. SP!Live(page') = SP!Live(page) \ {s} /\ page'.slot_count = page.slot_count
  BY <1>1, <1>3, Assumed, SP!DeleteFields
<1> QED BY <1>2, <1>3, <1>4
----------------------------------------------------------------------------
(* The steps of the heap file. *)

\* The file stays.
LEMMA FileKept == FileOK /\ UNCHANGED <<disk, acked, strays>> /\ opened' \in BOOLEAN => FileOK'
  BY DEF FileOK, AckedStored, PagesInFile

\* A call returns.
LEMMA FinishInv == IInv /\ Finish /\ FileOK' => IInv'
<1> SUFFICES ASSUME IInv, Finish, FileOK' PROVE IInv'
  OBVIOUS
<1>1. /\ op' = "idle" /\ record' = NoRecord /\ page_count' = 0 /\ page_id' = 0 /\ slot_id' = 0
      /\ Load(EmptyImage)
  BY DEF Finish
<1>2. SP!IInv' /\ pc' = "idle"
  BY <1>1, EmptyImageOK, LoadInv
<1>3. CallOK'
  BY <1>1, <1>2 DEF CallOK, FileOK, Inserting, InPage, Copied
<1> QED BY <1>2, <1>3 DEF IInv

LEMMA InitInv == Init => IInv
<1> SUFFICES ASSUME Init PROVE IInv
  OBVIOUS
<1>1. SP!IInv
  BY Assumed, SameCalls, SP!InitInv DEF Init
<1>2. DOMAIN disk = {} /\ PagesInFile = 0 /\ DOMAIN acked = {} /\ Range(acked) = {}
  BY FS_EmptySet DEF Init, PagesInFile, Range
<1>3. FileOK
  <2>1. 0 .. 0 - 1 = {} /\ 0 <= MaxPages
    BY MaxPagesAssumption
  <2> QED BY <1>2, <2>1 DEF Init, FileOK, AckedStored
<1>4. CallOK
  BY <1>2, SameCalls DEF Init, SP!Init, CallOK, Inserting, InPage, Copied
<1> QED BY <1>1, <1>3, <1>4 DEF IInv

\* heap_open, heap_close, and the crash of the process.
LEMMA OpenInv == IInv /\ (heap_open \/ heap_close \/ Crash) => IInv'
<1> SUFFICES ASSUME IInv, heap_open \/ heap_close \/ Crash PROVE IInv'
  OBVIOUS
<1>1. FileOK'
  BY FileKept DEF IInv, heap_open, heap_close, Crash
<1>2. CASE Crash
  BY <1>1, <1>2, FinishInv DEF Crash
<1>3. CASE heap_open \/ heap_close
  <2>1. UNCHANGED <<buffer, disk, op, record, page_count, page_id, slot_id>> /\ op = "idle"
    BY <1>3 DEF heap_open, heap_close
  <2>2. SP!IInv'
    BY <2>1, BufferKept DEF IInv
  <2>3. CallOK'
    BY <2>1 DEF IInv, CallOK, Inserting, InPage, Copied, PagesInFile, buffer
  <2> QED BY <1>1, <2>2, <2>3 DEF IInv
<1> QED BY <1>2, <1>3

LEMMA FailInv == IInv /\ Fail => IInv'
<1> SUFFICES ASSUME IInv, Fail PROVE IInv'
  OBVIOUS
<1>1. FileOK'
  BY FileKept DEF IInv, Fail, FileOK
<1> QED BY <1>1, FinishInv DEF Fail

LEMMA InsertCallInv == \A r \in Record : IInv /\ InsertCall(r) => IInv'
<1> SUFFICES ASSUME IInv, NEW r \in Record, InsertCall(r) PROVE IInv'
  OBVIOUS
<1>1. /\ UNCHANGED <<buffer, disk, opened, slot_id, acked, strays>> /\ op = "idle" /\ op' = "scan"
      /\ record' = r /\ page_count' \in {PagesInFile, 0} /\ page_id' = 0
      /\ Length[r] <= max_record_size
  BY DEF InsertCall
<1>2. FileOK' /\ SP!IInv'
  BY <1>1, FileKept, BufferKept DEF IInv, FileOK
<1>3. CallOK'
  BY <1>1, <1>2 DEF IInv, CallOK, FileOK, Inserting, InPage, Copied, buffer, max_record_size
<1> QED BY <1>2, <1>3 DEF IInv

\* A page of the file is read into the buffer.
LEMMA ReadInv ==
    ASSUME IInv, NEW p \in DOMAIN disk, Load(disk[p]), op' \in {"try", "delete"}, page_id' = p,
           slot_id' \in Nat, op' = "try" => op = "scan", op' = "delete" => op = "idle",
           UNCHANGED <<disk, opened, record, page_count, acked, strays>>
    PROVE  IInv'
<1>1. ImageOK(disk[p]) /\ p \in 0 .. PagesInFile
  BY DEF IInv, FileOK
<1>2. SP!IInv' /\ pc' = "idle" /\ Image' = disk[p]
  BY <1>1, LoadInv
<1>3. FileOK'
  BY FileKept DEF IInv, FileOK
<1>4. CallOK'
  BY <1>1, <1>2 DEF IInv, CallOK, Inserting, InPage, Copied, PagesInFile, max_record_size
<1> QED BY <1>2, <1>3, <1>4 DEF IInv

LEMMA ScanReadInv == IInv /\ ScanRead => IInv'
<1> SUFFICES ASSUME IInv, ScanRead PROVE IInv'
  OBVIOUS
<1>1. page_id \in DOMAIN disk
  BY DEF IInv, CallOK, FileOK, ScanRead
<1>2. CASE Fail
  BY <1>2, FailInv
<1>3. CASE /\ Load(disk[page_id]) /\ op' = "try"
           /\ UNCHANGED <<disk, opened, record, page_count, page_id, slot_id, acked, strays>>
  <2>1. op = "scan" /\ slot_id \in Nat
    BY DEF ScanRead, IInv, CallOK
  <2> QED BY <1>1, <1>3, <2>1, ReadInv
<1> QED BY <1>2, <1>3 DEF ScanRead

LEMMA DeleteCallInv ==
    ASSUME IInv, NEW p \in DOMAIN disk, NEW s \in Nat, DeleteCall(p, s)
    PROVE  IInv'
<1>1. CASE Fail
  BY <1>1, FailInv
<1>2. CASE /\ Load(disk[p]) /\ op' = "delete" /\ page_id' = p /\ slot_id' = s
           /\ UNCHANGED <<disk, opened, record, page_count, acked, strays>>
  BY <1>2, ReadInv DEF DeleteCall
<1> QED BY <1>1, <1>2 DEF DeleteCall
\* A page is appended: PagesInFile counts it.
LEMMA AppendPage ==
    ASSUME FileOK, page_allocate(PagesInFile)
    PROVE  FileOK' /\ PagesInFile' = PagesInFile + 1 /\ PagesInFile \in DOMAIN disk'
           /\ disk'[PagesInFile] = EmptyImage /\ \A p \in DOMAIN disk : disk'[p] = disk[p]
<1> DEFINE n == PagesInFile
<1>1. /\ n \in Nat /\ DOMAIN disk = 0 .. n - 1 /\ MaxPages \in Nat
      /\ n < MaxPages /\ UNCHANGED <<opened, acked>> /\ strays' \subseteq strays \cup {n}
  BY MaxPagesAssumption DEF FileOK, page_allocate
<1>2. /\ DOMAIN disk' = DOMAIN disk \cup {n} /\ disk'[n] = EmptyImage
      /\ \A p \in DOMAIN disk : p # n => disk'[p] = disk[p]
  BY SameContent DEF SP!Put, page_allocate
<1>3. n \notin DOMAIN disk
  BY <1>1
<1>4. IsFiniteSet(DOMAIN disk)
  <2>1. n - 1 \in Int
    BY <1>1
  <2> HIDE DEF n
  <2> QED BY <1>1, <2>1, FS_Interval
<1>5. PagesInFile' = n + 1
  BY <1>2, <1>3, <1>4, FS_AddElement DEF PagesInFile
<1>6. DOMAIN disk' = 0 .. PagesInFile' - 1
  <2> HIDE DEF n
  <2>1. 0 .. (n + 1) - 1 = (0 .. n - 1) \cup {n}
    BY <1>1
  <2> QED BY <1>1, <1>2, <1>5, <2>1
<1>7. PagesInFile' \in Nat /\ PagesInFile' <= MaxPages
  BY <1>1, <1>5
<1>8. \A p \in DOMAIN disk' : ImageOK(disk'[p])
  BY <1>2, <1>3, EmptyImageOK DEF FileOK
<1>9. AckedStored' /\ strays' \subseteq DOMAIN disk'
  BY <1>1, <1>2, <1>3 DEF FileOK, AckedStored
<1> QED BY <1>1, <1>2, <1>3, <1>5, <1>6, <1>7, <1>8, <1>9 DEF FileOK

LEMMA AllocateInv == IInv /\ Allocate => IInv'
<1> SUFFICES ASSUME IInv, Allocate PROVE IInv'
  OBVIOUS
<1>1. CASE Fail
  BY <1>1, FailInv
<1>2. CASE page_allocate(PagesInFile)
  <2>1. /\ page_id' = PagesInFile /\ UNCHANGED <<record, page_count, slot_id>> /\ op' = "try_new"
        /\ Load(EmptyImage) /\ op = "scan"
    BY <1>2 DEF page_allocate, Allocate
  <2>2. /\ FileOK' /\ PagesInFile' = PagesInFile + 1 /\ PagesInFile \in DOMAIN disk'
        /\ disk'[PagesInFile] = EmptyImage
    BY <1>2, AppendPage DEF IInv
  <2>3. SP!IInv' /\ pc' = "idle" /\ Image' = EmptyImage
    BY <2>1, EmptyImageOK, LoadInv
  <2>4. page_id' \in 0 .. PagesInFile' /\ page_count' \in 0 .. PagesInFile'
    BY <2>1, <2>2 DEF IInv, FileOK, CallOK
  <2>5. CallOK'
    BY <2>1, <2>2, <2>3, <2>4 DEF IInv, CallOK, Inserting, InPage, Copied, max_record_size
  <2> QED BY <2>2, <2>3, <2>5 DEF IInv
<1> QED BY <1>1, <1>2 DEF Allocate

\* What the copy that page_insert or page_delete works on has in common with its
\* page.
LEMMA PageOfCall ==
    ASSUME IInv, op \in InPage
    PROVE  /\ page_id \in DOMAIN disk /\ ImageOK(disk[page_id])
           /\ op \in Copied => /\ page = disk[page_id].page /\ contents = disk[page_id].contents
                               /\ scrambled = disk[page_id].scrambled
  BY DEF IInv, CallOK, FileOK, Image, Copied, ImageOK

LEMMA TryInsertInv == IInv /\ TryInsert => IInv'
<1> SUFFICES ASSUME IInv, TryInsert PROVE IInv'
  OBVIOUS
<1>1. /\ op \in {"try", "try_new"} /\ P!PageInsert(record)
      /\ op' = IF op = "try" THEN "tried" ELSE "tried_new"
      /\ UNCHANGED <<disk, opened, record, page_count, page_id, slot_id, acked, strays>>
  BY DEF TryInsert
<1>2. /\ record \in Record /\ SP!IInv
      /\ page = disk[page_id].page /\ contents = disk[page_id].contents
      /\ scrambled = disk[page_id].scrambled
  BY <1>1, PageOfCall DEF IInv, CallOK, InPage, Copied, Inserting
<1>3. /\ SP!IInv' /\ (scrambled => scrambled')
      /\ \/ pc' = "idle" /\ ret' = -1
         \/ pc' = "idle" /\ Stores(record)
         \/ pc' = "compact" /\ request' = record /\ UNCHANGED contents
  BY <1>1, <1>2, InsertEffect
<1>4. Tried(disk[page_id])'
  BY <1>1, <1>2, <1>3 DEF Tried, Stores
<1>5. FileOK'
  BY <1>1, FileKept DEF IInv, FileOK
<1>6. CallOK'
  BY <1>1, <1>4 DEF IInv, CallOK, Inserting, InPage, Copied, PagesInFile, max_record_size
<1> QED BY <1>3, <1>5, <1>6 DEF IInv

LEMMA CompactInv == IInv /\ Compact => IInv'
<1> SUFFICES ASSUME IInv, Compact PROVE IInv'
  OBVIOUS
<1>1. /\ P!CompactStep
      /\ UNCHANGED <<disk, opened, op, record, page_count, page_id, slot_id, acked, strays>>
  BY DEF Compact
<1>2. pc = "compact"
  BY <1>1, SameCalls DEF SP!CompactStep, SP!CompactSlot, SP!CompactReturns
<1>3. op \in {"tried", "tried_new"} /\ record \in Record /\ Tried(disk[page_id])
  BY <1>2 DEF IInv, CallOK, Inserting
<1>4. request = record /\ contents = disk[page_id].contents /\ record # NoRecord
  BY <1>2, <1>3, NoRecordAssumption DEF Tried
<1>5. /\ SP!IInv' /\ UNCHANGED scrambled
      /\ \/ pc' = "compact" /\ UNCHANGED <<request, contents>>
         \/ pc' = "idle" /\ ret' = -1
         \/ pc' = "idle" /\ Stores(record)
  BY <1>1, <1>4, CompactEffect DEF IInv
<1>6. SP!Live(page) = SP!Live(disk[page_id].page)
  <2>1. SP!Recorded(page, contents) /\ contents \in [SP!SlotId(page) -> Record \cup {NoRecord}]
    BY DEF IInv, SP!IInv, SP!TypeOK
  <2>2. /\ SP!Recorded(disk[page_id].page, contents)
        /\ contents \in [SP!SlotId(disk[page_id].page) -> Record \cup {NoRecord}]
    BY <1>3, <1>4, PageOfCall DEF ImageOK, InPage
  <2>3. SP!SlotId(page) = SP!SlotId(disk[page_id].page)
    BY <2>1, <2>2
  <2> QED BY <2>1, <2>2, <2>3, LiveSlots
<1>7. Tried(disk[page_id])'
  BY <1>1, <1>3, <1>4, <1>5, <1>6 DEF Tried, Stores
<1>8. FileOK'
  BY <1>1, FileKept DEF IInv, FileOK
<1>9. CallOK'
  BY <1>1, <1>3, <1>7 DEF IInv, CallOK, Inserting, InPage, Copied, PagesInFile, max_record_size
<1> QED BY <1>5, <1>8, <1>9 DEF IInv

LEMMA RefusedInv == IInv /\ Refused => IInv'
<1> SUFFICES ASSUME IInv, Refused PROVE IInv'
  OBVIOUS
<1>1. CASE Fail
  BY <1>1, FailInv
<1>2. CASE /\ op = "tried" /\ op' = "scan" /\ page_id' = page_id + 1 /\ Load(EmptyImage)
           /\ UNCHANGED <<disk, opened, record, page_count, slot_id, acked, strays>>
  <2>1. SP!IInv' /\ pc' = "idle"
    BY <1>2, EmptyImageOK, LoadInv
  <2>2. FileOK'
    BY <1>2, FileKept DEF IInv, FileOK
  <2>3. page_id' \in 0 .. PagesInFile' /\ PagesInFile' = PagesInFile
    BY <1>2 DEF IInv, CallOK, FileOK, InPage, PagesInFile
  <2>4. CallOK'
    BY <1>2, <2>1, <2>3 DEF IInv, CallOK, Inserting, InPage, Copied, max_record_size
  <2> QED BY <2>1, <2>2, <2>4 DEF IInv
<1> QED BY <1>1, <1>2 DEF Refused
\* The buffer of a call is written back to its page.
LEMMA WriteBack ==
    ASSUME IInv, page_id \in DOMAIN disk, pc = "idle", disk' = [disk EXCEPT ![page_id] = Image]
    PROVE  /\ ImageOK(disk'[page_id]) /\ disk'[page_id] = Image
           /\ disk'[page_id].page = page /\ disk'[page_id].contents = contents
           /\ disk'[page_id].scrambled = scrambled
           /\ DOMAIN disk' = DOMAIN disk /\ PagesInFile' = PagesInFile
           /\ \A p \in DOMAIN disk : /\ p # page_id => disk'[p] = disk[p]
                                     /\ ImageOK(disk'[p])
<1>1. ImageOK(Image)
  BY BufferOK DEF IInv
<1>2. /\ DOMAIN disk' = DOMAIN disk /\ disk'[page_id] = Image
      /\ \A p \in DOMAIN disk : p # page_id => disk'[p] = disk[p]
  OBVIOUS
<1>3. PagesInFile' = PagesInFile
  BY <1>2 DEF PagesInFile
<1> QED BY <1>1, <1>2, <1>3 DEF Image, IInv, FileOK

LEMMA InsertWriteInv == IInv /\ InsertWrite => IInv'
<1> SUFFICES ASSUME IInv, InsertWrite PROVE IInv'
  OBVIOUS
<1>1. CASE Fail
  BY <1>1, FailInv
<1>2. CASE /\ disk' = [disk EXCEPT ![page_id] = Image] /\ slot_id' = ret /\ op' = "written"
           /\ UNCHANGED <<buffer, opened, record, page_count, page_id, acked, strays>>
  <2>1. /\ op \in {"tried", "tried_new"} /\ pc = "idle" /\ ret # -1
        /\ page_id \in DOMAIN disk /\ Tried(disk[page_id]) /\ record \in Record
        /\ record \in Record /\ Length[record] <= max_record_size
    BY DEF InsertWrite, IInv, CallOK, Inserting, InPage
  <2>2. /\ disk'[page_id].contents = contents
        /\ DOMAIN disk' = DOMAIN disk /\ PagesInFile' = PagesInFile
        /\ \A p \in DOMAIN disk : /\ p # page_id => disk'[p] = disk[p]
                                  /\ ImageOK(disk'[p])
    BY <1>2, <2>1, WriteBack
  <2>3. /\ contents = SP!Put(disk[page_id].contents, ret, record)
        /\ ret \notin SP!Live(disk[page_id].page)
    BY <2>1 DEF Tried
  <2>4. /\ DOMAIN contents = DOMAIN disk[page_id].contents \cup {ret} /\ contents[ret] = record
        /\ \A s \in DOMAIN disk[page_id].contents : s # ret =>
               contents[s] = disk[page_id].contents[s]
    BY <2>3 DEF SP!Put
  <2>5. \A s \in DOMAIN disk[page_id].contents : s = ret => disk[page_id].contents[s] \notin Record
    <3>1. /\ SP!Recorded(disk[page_id].page, disk[page_id].contents)
          /\ DOMAIN disk[page_id].contents = SP!SlotId(disk[page_id].page)
      BY <2>1 DEF IInv, FileOK, ImageOK
    <3> QED BY <2>3, <3>1, NoRecordAssumption, LiveSlots
  <2>6. AckedStored'
    <3>1. \A rid \in DOMAIN acked : acked[rid] \in Record
      BY DEF IInv, FileOK, Range
    <3> QED BY <1>2, <2>2, <2>4, <2>5, <3>1 DEF IInv, FileOK, AckedStored
  <2>7. FileOK'
    BY <1>2, <2>2, <2>6 DEF IInv, FileOK
  <2>8. SP!IInv' /\ pc' = "idle"
    BY <1>2, <2>1, BufferKept DEF IInv, buffer
  <2>9. ret \in Nat
    <3>1. ret \in {-1} \cup 0 .. SP!MaxUInt16
      BY DEF IInv, SP!IInv, SP!TypeOK
    <3> QED BY <2>1, <3>1, MaxNat
  <2>10. CallOK'
    BY <1>2, <2>1, <2>2, <2>4, <2>8, <2>9 DEF IInv, CallOK, Inserting, InPage, Copied, max_record_size
  <2> QED BY <2>7, <2>8, <2>10 DEF IInv
<1> QED BY <1>1, <1>2 DEF InsertWrite

LEMMA InsertReturnsInv == IInv /\ InsertReturns => IInv'
<1> SUFFICES ASSUME IInv, InsertReturns PROVE IInv'
  OBVIOUS
<1> DEFINE rid == <<page_id, slot_id>>
<1>1. /\ acked' = SP!Put(acked, rid, record) /\ Finish /\ UNCHANGED <<disk, opened, strays>>
      /\ op = "written"
  BY SameContent DEF InsertReturns
<1>2. /\ page_id \in DOMAIN disk /\ page_id \in Nat /\ slot_id \in Nat /\ record \in Record
      /\ slot_id \in DOMAIN disk[page_id].contents
      /\ disk[page_id].contents[slot_id] = record
  BY <1>1 DEF IInv, CallOK, FileOK, Inserting, InPage
<1>3. /\ DOMAIN acked' = DOMAIN acked \cup {rid} /\ acked'[rid] = record
      /\ \A x \in DOMAIN acked : x # rid => acked'[x] = acked[x]
  BY <1>1 DEF SP!Put
<1>4. rid \in RID /\ rid[1] = page_id /\ rid[2] = slot_id
  BY <1>2 DEF RID
<1> HIDE DEF rid
<1>5. DOMAIN acked' \subseteq RID /\ Range(acked') \subseteq Record
  BY <1>2, <1>3, <1>4 DEF IInv, FileOK, Range
<1>6. AckedStored'
  BY <1>1, <1>2, <1>3, <1>4 DEF IInv, FileOK, AckedStored
<1>7. FileOK'
  BY <1>1, <1>5, <1>6 DEF IInv, FileOK, PagesInFile
<1> QED BY <1>1, <1>7, FinishInv

LEMMA DeleteSlotInv == IInv /\ DeleteSlot => IInv'
<1> SUFFICES ASSUME IInv, DeleteSlot PROVE IInv'
  OBVIOUS
<1>1. CASE Fail
  BY <1>1, FailInv
<1>2. CASE /\ P!DeleteLive(slot_id) /\ op' = "deleted"
           /\ UNCHANGED <<disk, opened, record, page_count, page_id, slot_id, acked, strays>>
  <2>1. op = "delete"
    BY DEF DeleteSlot
  <2>2. /\ SP!IInv /\ page = disk[page_id].page /\ contents = disk[page_id].contents
        /\ scrambled = disk[page_id].scrambled
    BY <2>1, PageOfCall DEF IInv, InPage, Copied
  <2>3. /\ SP!IInv' /\ pc' = "idle" /\ UNCHANGED scrambled
        /\ slot_id \in SP!Live(page) /\ SP!Live(page') = SP!Live(page) \ {slot_id}
        /\ page'.slot_count = page.slot_count
        /\ contents' = [contents EXCEPT ![slot_id] = NoRecord]
    BY <1>2, <2>2, DeleteEffect
  <2>4. Emptied(disk[page_id])'
    BY <1>2, <2>2, <2>3 DEF Emptied
  <2>5. FileOK'
    BY <1>2, FileKept DEF IInv, FileOK
  <2>6. CallOK'
    BY <1>2, <2>1, <2>3, <2>4 DEF IInv, CallOK, Inserting, InPage, Copied, PagesInFile
  <2> QED BY <2>3, <2>5, <2>6 DEF IInv
<1> QED BY <1>1, <1>2 DEF DeleteSlot

LEMMA DeleteWriteInv == IInv /\ DeleteWrite => IInv'
<1> SUFFICES ASSUME IInv, DeleteWrite PROVE IInv'
  OBVIOUS
<1>1. CASE Fail
  BY <1>1, FailInv
<1>2. CASE /\ disk' = [disk EXCEPT ![page_id] = Image] /\ Finish /\ UNCHANGED <<opened, strays>>
           /\ acked' = Restrict(acked, DOMAIN acked \ {<<page_id, slot_id>>})
  <2>1. /\ op = "deleted" /\ pc = "idle" /\ page_id \in DOMAIN disk /\ Emptied(disk[page_id])
    BY DEF DeleteWrite, IInv, CallOK, InPage
  <2>2. /\ disk'[page_id].contents = contents
        /\ DOMAIN disk' = DOMAIN disk /\ PagesInFile' = PagesInFile
        /\ \A p \in DOMAIN disk : /\ p # page_id => disk'[p] = disk[p]
                                  /\ ImageOK(disk'[p])
    BY <1>2, <2>1, WriteBack
  <2>3. /\ DOMAIN contents = DOMAIN disk[page_id].contents
        /\ \A s \in DOMAIN contents : s # slot_id => contents[s] = disk[page_id].contents[s]
    BY <2>1 DEF Emptied
  <2>4. /\ DOMAIN acked' = DOMAIN acked \ {<<page_id, slot_id>>}
        /\ \A rid \in DOMAIN acked' : acked'[rid] = acked[rid] /\ rid \in DOMAIN acked
    BY <1>2 DEF Restrict
  <2>5. ASSUME NEW rid \in DOMAIN acked'
        PROVE  /\ rid[1] \in DOMAIN disk' /\ rid[2] \in DOMAIN disk'[rid[1]].contents
               /\ disk'[rid[1]].contents[rid[2]] = acked'[rid]
    <3>1. /\ rid \in Nat \X Nat /\ rid # <<page_id, slot_id>> /\ acked'[rid] = acked[rid]
          /\ rid[1] \in DOMAIN disk /\ rid[2] \in DOMAIN disk[rid[1]].contents
          /\ disk[rid[1]].contents[rid[2]] = acked[rid]
      BY <2>4, <2>5 DEF IInv, FileOK, AckedStored, RID
    <3>2. rid[1] # page_id \/ rid[2] # slot_id
      BY <3>1
    <3> QED BY <2>2, <2>3, <3>1, <3>2
  <2>6. DOMAIN acked' \subseteq RID /\ Range(acked') \subseteq Record
    BY <2>4 DEF IInv, FileOK, Range
  <2>7. FileOK'
    BY <1>2, <2>2, <2>5, <2>6 DEF IInv, FileOK, AckedStored
  <2> QED BY <1>2, <2>7, FinishInv
<1> QED BY <1>1, <1>2 DEF DeleteWrite

LEMMA NextInv == IInv /\ [Next]_vars => IInv'
<1> SUFFICES ASSUME IInv, [Next]_vars PROVE IInv'
  OBVIOUS
<1>1. CASE heap_open \/ heap_close \/ Crash
  BY <1>1, OpenInv
<1>2. CASE heap_insert
  BY <1>2, InsertCallInv, ScanReadInv, AllocateInv, TryInsertInv, CompactInv, RefusedInv,
     InsertWriteInv, InsertReturnsInv DEF heap_insert
<1>3. ASSUME NEW p \in DOMAIN disk, NEW s \in 0 .. disk[p].page.slot_count, DeleteCall(p, s)
      PROVE  IInv'
  <2>1. s \in Nat
    <3>1. disk[p].page.slot_count \in SP!UInt16
      BY Assumed, SP!PageFields DEF IInv, FileOK, ImageOK
    <3> QED BY <3>1, MaxNat
  <2> QED BY <1>3, <2>1, DeleteCallInv
<1>4. CASE DeleteSlot \/ DeleteWrite
  BY <1>4, DeleteSlotInv, DeleteWriteInv
<1>5. CASE UNCHANGED vars
  <2>1. UNCHANGED <<buffer, disk, opened, op, record, page_count, page_id, slot_id, acked, strays>>
    BY <1>5 DEF vars
  <2>2. FileOK' /\ SP!IInv'
    BY <2>1, FileKept, BufferKept DEF IInv, FileOK
  <2>3. CallOK'
    BY <2>1 DEF IInv, CallOK, Inserting, InPage, Copied, PagesInFile, max_record_size, buffer, Image,
                Tried, Emptied
  <2> QED BY <2>2, <2>3 DEF IInv
<1> QED BY <1>1, <1>2, <1>3, <1>4, <1>5 DEF Next, heap_delete
----------------------------------------------------------------------------
(* Theorems. *)

\* The invariant holds in every reachable state.
THEOREM Invariant == Spec => []IInv
  BY InitInv, NextInv, PTL DEF Spec

\* Every variable keeps its type, and the file consists of pages.
THEOREM TypeCorrect == Spec => []TypeOK
<1>1. IInv => TypeOK
  <2> SUFFICES ASSUME IInv PROVE TypeOK
    OBVIOUS
  <2>1. P!TypeOK
    BY SameType DEF IInv, SP!IInv
  <2>2. \A p \in DOMAIN disk :
           /\ P!PageType(disk[p].page)
           /\ disk[p].contents \in [P!SlotId(disk[p].page) -> Record \cup {NoRecord}]
           /\ disk[p].scrambled \in BOOLEAN
    BY SamePage DEF IInv, FileOK, ImageOK
  <2> QED BY <2>1, <2>2 DEF IInv, FileOK, CallOK, TypeOK, Inserting
<1> QED BY <1>1, Invariant, PTL

\* Whatever calls succeed, fail or die, each page of the file has a sound layout.
THEOREM DiskAlwaysSound == Spec => []DiskSound
<1>1. IInv => DiskSound
  BY SamePage DEF IInv, FileOK, ImageOK, DiskSound
<1> QED BY <1>1, Invariant, PTL

\* heap_get finds each record that heap_insert has acknowledged and heap_delete
\* has not removed, unless page_compact has scrambled its page.
THEOREM AckedAlwaysReadable == Spec => []AckedReadable
<1>1. IInv => AckedReadable
  <2> SUFFICES ASSUME IInv, opened, NEW rid \in DOMAIN acked, ~disk[rid[1]].scrambled
               PROVE  HeapGet(rid) = P!Content(acked[rid])
    BY DEF AckedReadable
  <2> DEFINE image == disk[rid[1]]
  <2>1. /\ rid[1] \in 0 .. PagesInFile - 1 /\ ImageOK(image)
        /\ rid[2] \in DOMAIN image.contents /\ image.contents[rid[2]] = acked[rid]
        /\ acked[rid] \in Record
    BY DEF IInv, FileOK, AckedStored, Range
  <2>2. rid[2] \in SP!Live(image.page)
    <3>1. SP!Recorded(image.page, image.contents) /\ rid[2] \in SP!SlotId(image.page)
      BY <2>1 DEF ImageOK
    <3> HIDE DEF image
    <3> QED BY <2>1, <3>1, NoRecordAssumption, LiveSlots
  <2>3. SP!ReadBack(image.page, rid[2]) = SP!Content(image.contents[rid[2]])
    BY <2>1, <2>2, ReadContent
  <2> QED BY <2>1, <2>3, SameContent DEF HeapGet
<1> QED BY <1>1, Invariant, PTL

----------------------------------------------------------------------------
(* Pages are not wasted, as long as heap_page_count does not fail and nobody    *)
(* inserts an empty record: page_insert refuses that one on every page, however *)
(* empty.                                                                       *)

NoEmptyRecord == \A r \in Record : Length[r] # 0

\* Into an empty page goes every record that heap_insert accepts.
LEMMA FullNotEmpty ==
    ASSUME NEW pg, SP!PageType(pg), SP!PageOK(pg), NEW r \in Record,
           Length[r] <= max_record_size, FullFor(pg, r)
    PROVE  pg.slot_count # 0
<1> SUFFICES ASSUME pg.slot_count = 0 PROVE FALSE
  OBVIOUS
<1>1. SP!SlotId(pg) = {} /\ SP!Bytes(pg, SP!SlotId(pg)) = {}
  BY DEF SP!SlotId, SP!Bytes
<1>2. Cardinality(SP!Bytes(pg, SP!SlotId(pg))) = 0
  BY <1>1, FS_EmptySet
<1>3. pg.free_end = PAGE_SIZE /\ PAGE_SIZE \in Int
  BY Assumed, MaxNat DEF SP!PageOK, SP!HeaderOK
<1>4. PICK id \in 0 .. 0 : SP!NeededSpace(pg, r, id) > pg.free_end - SP!HeaderSize - 0
  BY <1>2, SameRoom, SamePage DEF FullFor
<1>5. SP!NeededSpace(pg, r, id) = Length[r] + SP!SlotSize
  BY <1>4 DEF SP!NeededSpace
<1>6. Length[r] \in Int /\ max_record_size = PAGE_SIZE - SP!HeaderSize - SP!SlotSize
  BY Assumed, SameRoom, MaxNat DEF max_record_size
<1> QED BY <1>3, <1>4, <1>5, <1>6

LEMMA CompactSlotKeeps ==
    ASSUME SP!IInv, SP!CompactSlot, NEW old, SP!PageType(old), SP!PageOK(old),
           Compacting(old, page, cursor, new_free_start)
    PROVE  Compacting(old, page', cursor', new_free_start')
<1>1. /\ SP!PageType(page) /\ new_free_start \in SP!UInt16 /\ old.slot_count \in SP!UInt16
      /\ page.slot_count = old.slot_count /\ cursor' = cursor + 1
      /\ page.slot[cursor].length \in SP!UInt16
      /\ cursor \in SP!SlotId(old) /\ SP!SlotId(page) = SP!SlotId(old)
  <2>1. /\ SP!PageType(page) /\ page.slot_count = old.slot_count /\ old.slot_count \in SP!UInt16
        /\ new_free_start \in SP!UInt16
    BY Assumed, SP!PageFields DEF SP!IInv, SP!TypeOK, Compacting
  <2>2. cursor \in SP!SlotId(page) \cup {page.slot_count} /\ cursor < page.slot_count
        /\ cursor' = cursor + 1
    BY DEF SP!IInv, SP!TypeOK, SP!CompactSlot
  <2>3. cursor \in SP!SlotId(page)
    BY <2>1, <2>2, MaxNat
  <2>4. SP!SlotId(page) = SP!SlotId(old)
    BY <2>1 DEF SP!SlotId
  <2> QED BY <2>1, <2>2, <2>3, <2>4, Assumed, SP!PageFields
<1>2. page.slot[cursor].length = old.slot[cursor].length
  BY <1>1 DEF Compacting
<1> DEFINE all == Cardinality(SP!Bytes(old, SP!Pending(old, cursor)))
           rest == Cardinality(SP!Bytes(old, SP!Pending(old, cursor + 1)))
           total == Cardinality(SP!Bytes(old, SP!SlotId(old)))
<1>3. CASE page.slot[cursor].length = 0
  <2>1. page' = page /\ new_free_start' = new_free_start
    BY <1>3 DEF SP!CompactSlot
  <2>2. cursor \notin SP!Live(old)
    BY <1>2, <1>3 DEF SP!Live
  <2>3. SP!Pending(old, cursor) = SP!Pending(old, cursor + 1) \cup {cursor}
    BY <1>1, MaxNat DEF SP!Pending, SP!SlotId
  <2>4. SP!Pending(old, cursor) \cap SP!Live(old) = SP!Pending(old, cursor + 1) \cap SP!Live(old)
    BY <2>2, <2>3
  <2>5. all = rest
    BY <2>4 DEF SP!Bytes
  <2> QED BY <1>1, <2>1, <2>5 DEF Compacting
<1>4. CASE page.slot[cursor].length # 0
  <2> DEFINE len == page.slot[cursor].length
  <2>1. page' = SP!MoveRecord(page, cursor, new_free_start) /\ new_free_start' = new_free_start + len
    BY <1>4 DEF SP!CompactSlot
  <2>2. cursor \in SP!Live(page) /\ cursor \in SP!Live(old)
    BY <1>1, <1>2, <1>4 DEF SP!Live
  <2>3. /\ page'.slot_count = page.slot_count /\ page'.free_end = page.free_end
        /\ \A s \in SP!SlotId(page) : page'.slot[s].length = page.slot[s].length
    BY <1>1, <2>1, <2>2, Assumed, SP!MoveRecordFields
  <2>4. all = len + rest /\ rest \in Nat
    <3>1. SP!Pending(old, cursor) \subseteq SP!SlotId(old)
      BY <1>1, MaxNat DEF SP!Pending, SP!SlotId
    <3>2. /\ SP!Disjoint(old, SP!Pending(old, cursor))
          /\ SP!Within(old, SP!Pending(old, cursor), SP!HeaderSize, old.free_start)
      BY <3>1 DEF SP!PageOK, SP!Disjoint, SP!Within
    <3>3. all = old.slot[cursor].length + rest /\ rest \in Nat
      BY <2>2, <3>2, Assumed, SP!PendingBytes, SameCardinality
    <3> QED BY <1>2, <3>3
  <2>5. new_free_start + all = SP!HeaderSize + total
    BY DEF Compacting
  <2>6. new_free_start \in Nat /\ len \in Nat
    BY <1>1, MaxNat
  <2> HIDE DEF all, rest, total, len
  <2>7. new_free_start' + rest = SP!HeaderSize + total
    BY <2>1, <2>4, <2>5, <2>6
  <2>8. /\ page'.slot_count = old.slot_count /\ page'.free_end = old.free_end
        /\ \A s \in SP!SlotId(old) : page'.slot[s].length = old.slot[s].length
    BY <1>1, <2>3 DEF Compacting
  <2> QED BY <1>1, <2>7, <2>8 DEF Compacting, rest, total
<1> QED BY <1>3, <1>4

\* page_insert gives up only after page_compact has made all the room there is.
LEMMA RefusedFull ==
    ASSUME SP!IInv, SP!CompactReturns, request \in Record, ret' = -1,
           NEW old, SP!PageType(old), SP!PageOK(old),
           Compacting(old, page, cursor, new_free_start)
    PROVE  FullFor(old, request)
<1>1. /\ SP!PageType(page) /\ new_free_start \in SP!UInt16 /\ request # NoRecord
      /\ cursor = page.slot_count /\ page.slot_count \in SP!UInt16
  BY Assumed, NoRecordAssumption, SP!PageFields DEF SP!IInv, SP!TypeOK, SP!CompactReturns
<1>2. /\ SP!Compacted.free_start = new_free_start /\ SP!Compacted.slot_count = page.slot_count
      /\ SP!Compacted.free_end = page.free_end /\ SP!Compacted.slot = page.slot
  BY <1>1, Assumed, SP!SetFreeStartType DEF SP!Compacted
<1>3. PICK id \in 0 .. page.slot_count :
         /\ SP!ReusableSlot(SP!Compacted, id)
         /\ SP!Store(SP!Compacted, request, id) \/ ~SP!Fits(SP!Compacted, request, id)
  BY <1>1 DEF SP!CompactReturns
<1>4. ~SP!Fits(SP!Compacted, request, id)
  <2>1. id # -1
    BY <1>1, MaxNat
  <2> QED BY <1>3, <2>1 DEF SP!Store, SP!Return
<1>5. /\ page.slot_count = old.slot_count /\ page.free_end = old.free_end
      /\ \A s \in SP!SlotId(old) : page.slot[s].length = old.slot[s].length
  BY DEF Compacting
<1>6. SP!ReusableSlot(old, id) /\ id \in 0 .. old.slot_count
  <2>1. \A s \in 0 .. id - 1 : s \in SP!SlotId(old)
    BY <1>1, <1>5, MaxNat DEF SP!SlotId
  <2>2. id < old.slot_count => id \in SP!SlotId(old)
    BY <1>1, <1>5, MaxNat DEF SP!SlotId
  <2> QED BY <1>2, <1>3, <1>5, <2>1, <2>2 DEF SP!ReusableSlot
<1> DEFINE total == Cardinality(SP!Bytes(old, SP!SlotId(old)))
           need == SP!NeededSpace(old, request, id)
<1>7. new_free_start = SP!HeaderSize + total
  <2>1. SP!Pending(old, cursor) = {}
    BY <1>1, <1>5, MaxNat DEF SP!Pending
  <2>2. Cardinality(SP!Bytes(old, SP!Pending(old, cursor))) = 0
    <3>1. SP!Bytes(old, {}) = {}
      BY DEF SP!Bytes
    <3> QED BY <2>1, <3>1, FS_EmptySet
  <2>3. new_free_start + 0 = SP!HeaderSize + total
    BY <2>2 DEF Compacting
  <2> QED BY <1>1, <2>3, MaxNat
<1>8. ~(old.free_end - new_free_start >= need)
  BY <1>2, <1>4, <1>5 DEF SP!Fits, SP!NeededSpace
<1>9. total \in Int /\ need \in Int /\ old.free_end \in Int
  <2>1. old.free_end \in Int /\ Length[request] \in Int
    BY Assumed, SP!PageFields, MaxNat
  <2>2. need \in Int
    BY <2>1 DEF SP!NeededSpace
  <2>3. total \in Int
    BY Assumed, SP!EnterLayout, SameCardinality
  <2> QED BY <2>1, <2>2, <2>3
<1> HIDE DEF total, need
<1>10. need > old.free_end - SP!HeaderSize - total
  BY <1>1, <1>7, <1>8, <1>9
<1> QED BY <1>6, <1>10, SameRoom, SamePage DEF FullFor, need, total

----------------------------------------------------------------------------
(* The steps of the heap file. *)

\* Outside the loop of heap_insert, with the file as it was.
LEMMA GrowKept ==
    ASSUME GrowInv, op' \notin {"scan", "try", "tried"}, UNCHANGED <<disk, strays>>
    PROVE  GrowInv'
  BY DEF GrowInv, PassedFull, RefusalFull, OneUnused

\* The steps of heap_open, heap_close, heap_delete and of a call that ends.
LEMMA QuietGrow ==
    ASSUME IInv, GrowInv,
           \/ heap_open \/ heap_close \/ Crash \/ Fail \/ InsertReturns \/ DeleteSlot
           \/ \E p \in DOMAIN disk : \E s \in 0 .. disk[p].page.slot_count : DeleteCall(p, s)
    PROVE  GrowInv'
  BY GrowKept DEF heap_open, heap_close, Crash, Fail, InsertReturns, DeleteSlot, DeleteCall, Finish

LEMMA InsertCallGrow == \A r \in Record : IInv /\ GrowInv /\ InsertCall(r) => GrowInv'
<1> SUFFICES ASSUME IInv, GrowInv, NEW r \in Record, InsertCall(r) PROVE GrowInv'
  OBVIOUS
<1>1. op' = "scan" /\ page_id' = 0 /\ UNCHANGED <<disk, strays>>
  BY DEF InsertCall
<1>2. \A p \in DOMAIN disk : ~(p < 0)
  BY DEF IInv, FileOK
<1> QED BY <1>1, <1>2 DEF GrowInv, PassedFull, RefusalFull, OneUnused

LEMMA ScanReadGrow == IInv /\ GrowInv /\ ScanRead => GrowInv'
<1> SUFFICES ASSUME IInv, GrowInv, ScanRead PROVE GrowInv'
  OBVIOUS
<1>1. CASE Fail
  BY <1>1, QuietGrow
<1>2. CASE op' = "try" /\ UNCHANGED <<disk, strays, record, page_id>>
  BY <1>2 DEF ScanRead, GrowInv, PassedFull, RefusalFull, OneUnused
<1> QED BY <1>1, <1>2 DEF ScanRead

\* A page is allocated when all pages are full, or have not been counted.
LEMMA AllocateFull ==
    ASSUME IInv, GrowInv, Allocate
    PROVE  AllFull \/ page_count # PagesInFile
<1> SUFFICES ASSUME page_count = PagesInFile PROVE AllFull
  OBVIOUS
<1>1. op = "scan" /\ page_id = PagesInFile
  BY DEF Allocate
<1>2. \A p \in DOMAIN disk : p < page_id
  BY <1>1 DEF IInv, FileOK
<1> QED BY <1>1, <1>2 DEF GrowInv, PassedFull, AllFull

LEMMA AllocateGrow == IInv /\ GrowInv /\ Allocate => GrowInv'
<1> SUFFICES ASSUME IInv, GrowInv, Allocate PROVE GrowInv'
  OBVIOUS
<1>1. CASE Fail
  BY <1>1, QuietGrow
<1>2. CASE page_allocate(PagesInFile)
  <2>1. AllFull => \A p \in DOMAIN disk : disk[p].page.slot_count # 0
    <3> SUFFICES ASSUME AllFull, NEW p \in DOMAIN disk PROVE disk[p].page.slot_count # 0
      OBVIOUS
    <3>1. SP!PageType(disk[p].page) /\ SP!PageOK(disk[p].page)
      BY DEF IInv, FileOK, ImageOK
    <3>2. record \in Record /\ Length[record] <= max_record_size
      BY DEF Allocate, IInv, CallOK, Inserting
    <3> QED BY <3>1, <3>2, FullNotEmpty DEF AllFull
  <2>2. /\ DOMAIN disk' = DOMAIN disk \cup {PagesInFile}
        /\ \A p \in DOMAIN disk : disk'[p] = disk[p]
    <3>1. DOMAIN disk' = DOMAIN disk \cup {PagesInFile}
      BY <1>2, SameContent DEF page_allocate, SP!Put
    <3> QED BY <1>2, <3>1, AppendPage DEF IInv
  <2>3. /\ page_count = PagesInFile => strays' = strays
        /\ page_count # PagesInFile => strays' = strays \cup {PagesInFile}
        /\ op' = "try_new"
    BY <1>2 DEF page_allocate
  <2>4. OneUnused'
    <3>1. CASE page_count = PagesInFile
      BY <2>1, <2>2, <2>3, <3>1, AllocateFull DEF OneUnused
    <3>2. CASE page_count # PagesInFile
      BY <2>2, <2>3, <3>2 DEF GrowInv, OneUnused
    <3> QED BY <3>1, <3>2
  <2> QED BY <2>3, <2>4 DEF GrowInv, PassedFull, RefusalFull
<1> QED BY <1>1, <1>2 DEF Allocate

LEMMA TryInsertGrow == NoEmptyRecord /\ IInv /\ GrowInv /\ TryInsert => GrowInv'
<1> SUFFICES ASSUME NoEmptyRecord, IInv, GrowInv, TryInsert PROVE GrowInv'
  OBVIOUS
<1>1. P!PageInsert(record) /\ UNCHANGED <<disk, strays, record, page_id>>
  BY DEF TryInsert
<1>2. CASE op = "try_new"
  BY <1>1, <1>2, GrowKept DEF TryInsert
<1>3. CASE op = "try"
  <2>1. op' = "tried"
    BY <1>3 DEF TryInsert
  <2>2. /\ record \in Record /\ Length[record] # 0 /\ SP!IInv
        /\ page = disk[page_id].page /\ SP!PageType(page)
    BY <1>3, PageOfCall DEF IInv, CallOK, InPage, Copied, Inserting, NoEmptyRecord, ImageOK
  <2>3. \/ pc' = "idle" /\ ret' # -1
        \/ /\ pc' = "compact" /\ page' = page /\ cursor' = 0 /\ new_free_start' = SP!HeaderSize
    BY <1>1, <2>2, InsertEffect DEF Stores
  <2>4. Compacting(page, page, 0, SP!HeaderSize)
    <3>1. SP!Pending(page, 0) = SP!SlotId(page)
      BY DEF SP!Pending, SP!SlotId
    <3> QED BY <3>1 DEF Compacting
  <2>5. RefusalFull'
    BY <1>1, <2>2, <2>3, <2>4 DEF RefusalFull
  <2> QED BY <1>1, <1>3, <2>1, <2>5 DEF GrowInv, PassedFull, OneUnused
<1> QED BY <1>2, <1>3 DEF TryInsert

LEMMA CompactGrow == IInv /\ GrowInv /\ Compact => GrowInv'
<1> SUFFICES ASSUME IInv, GrowInv, Compact PROVE GrowInv'
  OBVIOUS
<1>1. SP!CompactStep /\ UNCHANGED <<disk, strays, op, record, page_id>>
  BY SameCalls DEF Compact
<1>2. pc = "compact"
  BY <1>1 DEF SP!CompactStep, SP!CompactSlot, SP!CompactReturns
<1>3. /\ op \in {"tried", "tried_new"} /\ record \in Record /\ request = record /\ SP!IInv
  BY <1>2 DEF IInv, CallOK, Inserting, Tried
<1>4. CASE op = "tried_new"
  BY <1>1, <1>4, GrowKept
<1>5. CASE op = "tried"
  <2>1. PICK old : old = disk[page_id].page
    OBVIOUS
  <2>2. /\ SP!PageType(old) /\ SP!PageOK(old) /\ Compacting(old, page, cursor, new_free_start)
    BY <1>2, <1>5, <2>1, PageOfCall DEF GrowInv, RefusalFull, InPage, ImageOK
  <2>3. pc' = "compact" => Compacting(old, page', cursor', new_free_start')
    <3>1. CASE SP!CompactSlot
      BY <1>3, <2>2, <3>1, CompactSlotKeeps
    <3>2. CASE SP!CompactReturns
      BY <3>2 DEF SP!CompactReturns, SP!Store, SP!Return
    <3> QED BY <1>1, <3>1, <3>2 DEF SP!CompactStep
  <2>4. pc' = "idle" /\ ret' = -1 => FullFor(old, record)
    <3>1. CASE SP!CompactSlot
      BY <3>1 DEF SP!CompactSlot
    <3>2. CASE SP!CompactReturns
      BY <1>3, <2>2, <3>2, RefusedFull
    <3> QED BY <1>1, <3>1, <3>2 DEF SP!CompactStep
  <2>5. RefusalFull'
    BY <1>1, <2>1, <2>3, <2>4 DEF RefusalFull
  <2> QED BY <1>1, <2>5 DEF GrowInv, PassedFull, OneUnused
<1> QED BY <1>3, <1>4, <1>5

LEMMA RefusedGrow == IInv /\ GrowInv /\ Refused => GrowInv'
<1> SUFFICES ASSUME IInv, GrowInv, Refused PROVE GrowInv'
  OBVIOUS
<1>1. CASE Fail
  BY <1>1, QuietGrow
<1>2. CASE /\ op = "tried" /\ op' = "scan" /\ page_id' = page_id + 1
           /\ UNCHANGED <<disk, strays, record>>
  <2>1. FullFor(disk[page_id].page, record)
    BY <1>2 DEF Refused, GrowInv, RefusalFull
  <2>2. \A p \in DOMAIN disk : p < page_id + 1 => p < page_id \/ p = page_id
    BY DEF IInv, FileOK, CallOK
  <2>3. \A p \in DOMAIN disk : p < page_id + 1 => FullFor(disk[p].page, record)
    BY <1>2, <2>1, <2>2 DEF GrowInv, PassedFull
  <2> QED BY <1>2, <2>3 DEF GrowInv, PassedFull, RefusalFull, OneUnused
<1> QED BY <1>1, <1>2 DEF Refused

LEMMA WriteGrow == IInv /\ GrowInv /\ (InsertWrite \/ DeleteWrite) => GrowInv'
<1> SUFFICES ASSUME IInv, GrowInv, InsertWrite \/ DeleteWrite PROVE GrowInv'
  OBVIOUS
<1>1. CASE Fail
  BY <1>1, QuietGrow
<1>2. CASE /\ disk' = [disk EXCEPT ![page_id] = Image] /\ op' \in {"written", "idle"}
           /\ UNCHANGED strays
  <2>1. \/ op \in {"tried", "tried_new"} /\ pc = "idle" /\ ret # -1
        \/ op = "deleted" /\ pc = "idle"
    BY DEF InsertWrite, DeleteWrite, IInv, CallOK
  <2>2. page_id \in DOMAIN disk /\ ImageOK(disk[page_id])
    BY <2>1, PageOfCall DEF InPage
  <2>3. /\ disk'[page_id].page = page /\ DOMAIN disk' = DOMAIN disk
        /\ \A p \in DOMAIN disk : p # page_id => disk'[p] = disk[p]
    BY <1>2, <2>1, <2>2, WriteBack
  <2>4. page.slot_count = 0 => disk[page_id].page.slot_count = 0
    <3>1. CASE op \in {"tried", "tried_new"} /\ ret # -1
      <4>1. ret \in SP!SlotId(page)
        BY <2>1, <3>1 DEF IInv, CallOK, Tried, SP!Live
      <4> QED BY <4>1 DEF SP!SlotId
    <3>2. CASE op = "deleted"
      BY <3>2 DEF IInv, CallOK, Emptied
    <3> QED BY <2>1, <3>1, <3>2
  <2>5. OneUnused'
    BY <1>2, <2>2, <2>3, <2>4 DEF GrowInv, OneUnused
  <2> QED BY <1>2, <2>5 DEF GrowInv, PassedFull, RefusalFull
<1> QED BY <1>1, <1>2 DEF InsertWrite, DeleteWrite, Finish

LEMMA GrowNext == NoEmptyRecord /\ IInv /\ GrowInv /\ [Next]_vars => GrowInv'
<1> SUFFICES ASSUME NoEmptyRecord, IInv, GrowInv, [Next]_vars PROVE GrowInv'
  OBVIOUS
<1>1. CASE heap_open \/ heap_close \/ Crash
  BY <1>1, QuietGrow
<1>2. CASE heap_insert
  BY <1>2, InsertCallGrow, ScanReadGrow, AllocateGrow, TryInsertGrow, CompactGrow, RefusedGrow,
     WriteGrow, QuietGrow DEF heap_insert
<1>3. CASE heap_delete
  BY <1>3, WriteGrow, QuietGrow DEF heap_delete
<1>4. CASE UNCHANGED vars
  BY <1>4 DEF vars, buffer, GrowInv, PassedFull, RefusalFull, OneUnused
<1> QED BY <1>1, <1>2, <1>3, <1>4 DEF Next

LEMMA GrowInit == Init => GrowInv
  BY DEF Init, GrowInv, PassedFull, RefusalFull, OneUnused

LEMMA GrowInvariant == ASSUME NoEmptyRecord PROVE Spec => [](IInv /\ GrowInv)
<1>1. Init => IInv /\ GrowInv
  BY InitInv, GrowInit
<1>2. (IInv /\ GrowInv) /\ [Next]_vars => (IInv /\ GrowInv)'
  BY NextInv, GrowNext
<1> QED BY <1>1, <1>2, PTL DEF Spec

\* The pages that failed and dead calls leave unused never pile up, but for those
\* that were appended to pages nobody had counted.
THEOREM UnusedPagesNeverPileUp ==
    ASSUME NoEmptyRecord PROVE Spec => []AtMostOneUnusedPage
<1>1. GrowInv => AtMostOneUnusedPage
  <2> SUFFICES ASSUME GrowInv PROVE AtMostOneUnusedPage
    OBVIOUS
  <2> DEFINE unused == {p \in DOMAIN disk \ strays : disk[p].page.slot_count = 0}
  <2>1. \A p, q \in unused : p = q
    BY DEF GrowInv, OneUnused
  <2>2. CASE unused = {}
    BY <2>2, FS_EmptySet DEF AtMostOneUnusedPage
  <2>3. CASE unused # {}
    <3>1. PICK p : unused = {p}
      BY <2>1, <2>3
    <3>2. Cardinality(unused) = 1
      <4> HIDE DEF unused
      <4> QED BY <3>1, FS_Singleton
    <3> QED BY <3>2 DEF AtMostOneUnusedPage
  <2> QED BY <2>2, <2>3
<1> QED BY <1>1, GrowInvariant, PTL

\* Only Allocate makes the file longer.
LEMMA FileGrows ==
    ASSUME IInv, [Next]_vars, Grows
    PROVE  Allocate
<1>1. PagesInFile \in Nat /\ PagesInFile' > PagesInFile
  BY DEF IInv, FileOK, Grows
<1>2. ASSUME UNCHANGED disk PROVE FALSE
  BY <1>1, <1>2 DEF PagesInFile
<1>3. CASE heap_open \/ heap_close \/ Crash \/ UNCHANGED vars
  BY <1>2, <1>3 DEF heap_open, heap_close, Crash, vars
<1>4. CASE InsertWrite \/ DeleteWrite
  <2>1. CASE Fail
    BY <1>2, <2>1 DEF Fail
  <2>2. CASE disk' = [disk EXCEPT ![page_id] = Image]
    <3>1. DOMAIN disk' = DOMAIN disk
      BY <2>2
    <3> QED BY <1>1, <3>1 DEF PagesInFile
  <2> QED BY <1>4, <2>1, <2>2 DEF InsertWrite, DeleteWrite
<1>5. CASE heap_insert
  BY <1>2, <1>4, <1>5 DEF heap_insert, InsertCall, ScanRead, Fail, TryInsert, Compact, Refused,
                          InsertReturns
<1>6. CASE heap_delete
  BY <1>2, <1>4, <1>6 DEF heap_delete, DeleteCall, DeleteSlot, Fail
<1> QED BY <1>3, <1>5, <1>6 DEF Next

\* A call that has counted the pages allocates one only when the record fits on
\* none of them.
THEOREM OnlyFullFilesGrow ==
    ASSUME NoEmptyRecord PROVE Spec => GrowsOnlyWhenFull
<1>1. IInv /\ GrowInv /\ [Next]_vars =>
          (Grows => AllFull \/ page_count # PagesInFile)
  BY FileGrows, AllocateFull
<1> QED BY <1>1, GrowInvariant, PTL DEF Spec, GrowsOnlyWhenFull

----------------------------------------------------------------------------
(* The heap file implements RecordStore. *)

\* The store that the file maps to, and its damage.
Stored == [rid \in LiveRID |-> P!ReadBack(disk[rid[1]].page, rid[2])]
Damaged == \E p \in DOMAIN disk : disk[p].scrambled

\* While there is no damage, the store holds the contents of the slots.
StoredIsContents ==
    Stored = [rid \in LiveRID |-> SP!Content(disk[rid[1]].contents[rid[2]])]

LEMMA LiveRIDs ==
    /\ \A p \in DOMAIN disk : \A s \in SP!Live(disk[p].page) :
          <<p, s>> \in LiveRID /\ <<p, s>>[1] = p /\ <<p, s>>[2] = s
    /\ \A rid \in LiveRID : /\ rid = <<rid[1], rid[2]>> /\ rid[1] \in DOMAIN disk
                            /\ rid[2] \in SP!Live(disk[rid[1]].page)
  BY SamePage DEF LiveRID

LEMMA LiveRIDsNext ==
    /\ \A p \in DOMAIN disk' : \A s \in SP!Live(disk'[p].page) :
          <<p, s>> \in LiveRID' /\ <<p, s>>[1] = p /\ <<p, s>>[2] = s
    /\ \A rid \in LiveRID' : /\ rid = <<rid[1], rid[2]>> /\ rid[1] \in DOMAIN disk'
                             /\ rid[2] \in SP!Live(disk'[rid[1]].page)
  BY SamePage DEF LiveRID

LEMMA StoreContents == IInv /\ ~Damaged => StoredIsContents
<1> SUFFICES ASSUME IInv, ~Damaged, NEW rid \in LiveRID
             PROVE  P!ReadBack(disk[rid[1]].page, rid[2])
                       = SP!Content(disk[rid[1]].contents[rid[2]])
  BY DEF StoredIsContents, Stored
<1>1. PICK image : image = disk[rid[1]]
  OBVIOUS
<1>2. ImageOK(image) /\ ~image.scrambled /\ rid[2] \in SP!Live(image.page)
  BY <1>1, LiveRIDs DEF IInv, FileOK, Damaged
<1>3. SP!ReadBack(image.page, rid[2]) = SP!Content(image.contents[rid[2]])
  BY <1>2, ReadContent
<1> QED BY <1>1, <1>3, SameContent

LEMMA StoreContentsNext == (IInv /\ ~Damaged)' => StoredIsContents'
  BY StoreContents, PTL

\* A step that leaves the live slots of all pages and what they hold.
LEMMA StoreKept ==
    ASSUME IInv, IInv', ~Damaged, ~Damaged', LiveRID' = LiveRID,
           \A rid \in LiveRID :
              disk'[rid[1]].contents[rid[2]] = disk[rid[1]].contents[rid[2]]
    PROVE  Stored' = Stored
<1>1. Stored = [rid \in LiveRID |-> SP!Content(disk[rid[1]].contents[rid[2]])]
  BY StoreContents DEF StoredIsContents
<1>2. Stored' = [rid \in LiveRID' |-> SP!Content(disk'[rid[1]].contents[rid[2]])]
  BY StoreContentsNext DEF StoredIsContents
<1> QED BY <1>1, <1>2

\* The slots that a RID can name.
LEMMA SlotBound ==
    ASSUME NEW pg, SP!PageType(pg), SP!PageOK(pg), NEW s \in SP!Live(pg)
    PROVE  s \in 0 .. PAGE_SIZE \div P!SlotSize
<1>1. /\ pg.slot_count \in Nat /\ pg.free_end \in Nat /\ pg.free_start \in Nat /\ PAGE_SIZE \in Nat
      /\ s \in 0 .. pg.slot_count - 1
  BY Assumed, SP!PageFields, MaxNat DEF SP!Live, SP!SlotId
<1>2. pg.free_end = PAGE_SIZE - 4 * pg.slot_count /\ 0 <= pg.free_end
  BY <1>1 DEF SP!PageOK, SP!HeaderOK
<1>3. 4 * s <= PAGE_SIZE /\ s \in Nat
  BY <1>1, <1>2
<1>4. s <= PAGE_SIZE \div 4
  BY <1>1, <1>3
<1> QED BY <1>1, <1>3, <1>4, SameSizes

\* The page_write of heap_insert inserts the record into the store.
LEMMA InsertStores ==
    ASSUME IInv, IInv', InsertWrite, ~Fail, ~Damaged'
    PROVE  /\ Damaged' = Damaged
           /\ \E rid \in (0 .. MaxPages - 1) \X (0 .. PAGE_SIZE \div P!SlotSize),
                 v \in {P!Content(r) : r \in Record} :
                   /\ rid \notin DOMAIN Stored
                   /\ Stored' = [t \in DOMAIN Stored \cup {rid} |->
                                    IF t = rid THEN v ELSE Stored[t]]
<1> DEFINE new == <<page_id, ret>>
<1>1. PICK old : old = disk[page_id]
  OBVIOUS
<1>2. /\ op \in {"tried", "tried_new"} /\ pc = "idle" /\ ret # -1 /\ record \in Record
      /\ disk' = [disk EXCEPT ![page_id] = Image] /\ page_id \in DOMAIN disk
      /\ Tried(old) /\ ImageOK(old)
  BY <1>1, PageOfCall DEF InsertWrite, IInv, CallOK, InPage, Inserting
<1>3. /\ ImageOK(disk'[page_id]) /\ disk'[page_id].page = page
      /\ disk'[page_id].contents = contents /\ disk'[page_id].scrambled = scrambled
      /\ DOMAIN disk' = DOMAIN disk /\ \A p \in DOMAIN disk : p # page_id => disk'[p] = disk[p]
  BY <1>2, WriteBack
<1>4. /\ ret \notin SP!Live(old.page) /\ SP!Live(page) = SP!Live(old.page) \cup {ret}
      /\ contents = SP!Put(old.contents, ret, record) /\ (old.scrambled => scrambled)
  BY <1>2 DEF Tried
<1>5. ~Damaged /\ Damaged' = Damaged
  BY <1>1, <1>3, <1>4 DEF Damaged
<1>6. /\ contents[ret] = record
      /\ \A s \in SP!Live(old.page) : contents[s] = old.contents[s]
  BY <1>2, <1>4 DEF SP!Put, ImageOK, SP!Live
<1>7. new \notin LiveRID /\ new[1] = page_id /\ new[2] = ret
  BY <1>1, <1>4, LiveRIDs
<1>8. LiveRID' = LiveRID \cup {new}
  <2>1. ASSUME NEW rid \in LiveRID' PROVE rid \in LiveRID \cup {new}
    BY <1>1, <1>3, <1>4, LiveRIDs, LiveRIDsNext
  <2>2. ASSUME NEW rid \in LiveRID PROVE rid \in LiveRID'
    BY <1>1, <1>3, <1>4, LiveRIDs, LiveRIDsNext
  <2>3. new \in LiveRID'
    BY <1>2, <1>3, <1>4, LiveRIDsNext
  <2> QED BY <2>1, <2>2, <2>3
<1>9. /\ disk'[new[1]].contents[new[2]] = record
      /\ \A rid \in LiveRID :
            disk'[rid[1]].contents[rid[2]] = disk[rid[1]].contents[rid[2]]
  BY <1>1, <1>3, <1>6, <1>7, LiveRIDs
<1>10. new \in (0 .. MaxPages - 1) \X (0 .. PAGE_SIZE \div P!SlotSize)
  <2>1. page_id \in 0 .. MaxPages - 1
    BY <1>2, MaxPagesAssumption DEF IInv, FileOK
  <2>2. ret \in 0 .. PAGE_SIZE \div P!SlotSize
    BY <1>3, <1>4, SlotBound DEF ImageOK
  <2> QED BY <2>1, <2>2
<1> HIDE DEF new
<1>11. Stored = [rid \in LiveRID |-> SP!Content(disk[rid[1]].contents[rid[2]])]
  BY <1>5, StoreContents DEF StoredIsContents
<1>12. Stored' = [rid \in LiveRID' |-> SP!Content(disk'[rid[1]].contents[rid[2]])]
  BY StoreContentsNext DEF StoredIsContents
<1>13. Stored' = [t \in DOMAIN Stored \cup {new} |->
                     IF t = new THEN SP!Content(record) ELSE Stored[t]]
  BY <1>7, <1>8, <1>9, <1>11, <1>12
<1>14. new \notin DOMAIN Stored
  BY <1>7, <1>11
<1>15. SP!Content(record) \in {P!Content(r) : r \in Record}
  BY <1>2, SameContent
<1> QED BY <1>5, <1>10, <1>13, <1>14, <1>15

\* The page_write of heap_delete deletes it.
LEMMA DeleteStores ==
    ASSUME IInv, IInv', DeleteWrite, ~Fail, ~Damaged'
    PROVE  /\ Damaged' = Damaged
           /\ \E rid \in (0 .. MaxPages - 1) \X (0 .. PAGE_SIZE \div P!SlotSize) :
                   /\ rid \in DOMAIN Stored
                   /\ Stored' = [t \in DOMAIN Stored \ {rid} |-> Stored[t]]
<1> DEFINE gone == <<page_id, slot_id>>
<1>1. PICK old : old = disk[page_id]
  OBVIOUS
<1>2. /\ op = "deleted" /\ pc = "idle"
      /\ disk' = [disk EXCEPT ![page_id] = Image] /\ page_id \in DOMAIN disk
      /\ Emptied(old) /\ ImageOK(old)
  BY <1>1, PageOfCall DEF DeleteWrite, IInv, CallOK, InPage
<1>3. /\ disk'[page_id].page = page
      /\ disk'[page_id].contents = contents /\ disk'[page_id].scrambled = scrambled
      /\ DOMAIN disk' = DOMAIN disk /\ \A p \in DOMAIN disk : p # page_id => disk'[p] = disk[p]
  BY <1>2, WriteBack
<1>4. /\ slot_id \in SP!Live(old.page) /\ SP!Live(page) = SP!Live(old.page) \ {slot_id}
      /\ contents = [old.contents EXCEPT ![slot_id] = NoRecord] /\ scrambled = old.scrambled
  BY <1>2 DEF Emptied
<1>5. ~Damaged /\ Damaged' = Damaged
  BY <1>1, <1>3, <1>4 DEF Damaged
<1>6. \A s \in SP!Live(page) : contents[s] = old.contents[s]
  BY <1>2, <1>4 DEF ImageOK, SP!Live
<1>7. gone \in LiveRID /\ gone[1] = page_id /\ gone[2] = slot_id
  BY <1>1, <1>2, <1>4, LiveRIDs
<1>8. LiveRID' = LiveRID \ {gone}
  <2>1. ASSUME NEW rid \in LiveRID' PROVE rid \in LiveRID /\ rid # gone
    BY <1>1, <1>3, <1>4, LiveRIDs, LiveRIDsNext
  <2>2. ASSUME NEW rid \in LiveRID, rid # gone PROVE rid \in LiveRID'
    BY <1>1, <1>3, <1>4, <2>2, LiveRIDs, LiveRIDsNext
  <2> QED BY <2>1, <2>2
<1>9. \A rid \in LiveRID' : disk'[rid[1]].contents[rid[2]] = disk[rid[1]].contents[rid[2]]
  BY <1>1, <1>3, <1>6, LiveRIDsNext
<1>10. gone \in (0 .. MaxPages - 1) \X (0 .. PAGE_SIZE \div P!SlotSize)
  <2>1. page_id \in 0 .. MaxPages - 1
    BY <1>2, MaxPagesAssumption DEF IInv, FileOK
  <2>2. slot_id \in 0 .. PAGE_SIZE \div P!SlotSize
    BY <1>2, <1>4, SlotBound DEF ImageOK
  <2> QED BY <2>1, <2>2
<1> HIDE DEF gone
<1>11. Stored = [rid \in LiveRID |-> SP!Content(disk[rid[1]].contents[rid[2]])]
  BY <1>5, StoreContents DEF StoredIsContents
<1>12. Stored' = [rid \in LiveRID' |-> SP!Content(disk'[rid[1]].contents[rid[2]])]
  BY StoreContentsNext DEF StoredIsContents
<1>13. Stored' = [t \in DOMAIN Stored \ {gone} |-> Stored[t]]
  BY <1>8, <1>9, <1>11, <1>12
<1> QED BY <1>5, <1>7, <1>10, <1>11, <1>13

\* page_allocate adds a page without records.
LEMMA AllocateKeeps ==
    ASSUME IInv, Allocate, ~Fail
    PROVE  /\ Damaged' = Damaged /\ LiveRID' = LiveRID
           /\ \A rid \in LiveRID : disk'[rid[1]] = disk[rid[1]]
<1>1. page_allocate(PagesInFile)
  BY DEF Allocate
<1>2. /\ DOMAIN disk' = DOMAIN disk \cup {PagesInFile} /\ disk'[PagesInFile] = EmptyImage
      /\ \A p \in DOMAIN disk : disk'[p] = disk[p]
  <2>1. DOMAIN disk' = DOMAIN disk \cup {PagesInFile}
    BY <1>1, SameContent DEF page_allocate, SP!Put
  <2> QED BY <1>1, <2>1, AppendPage DEF IInv
<1>3. ~EmptyImage.scrambled /\ SP!Live(EmptyImage.page) = {}
  BY EmptyImageOK DEF EmptyImage
<1>4. Damaged' = Damaged
  BY <1>2, <1>3 DEF Damaged
<1>5. LiveRID' = LiveRID
  <2>1. ASSUME NEW rid \in LiveRID' PROVE rid \in LiveRID
    BY <1>2, <1>3, LiveRIDs, LiveRIDsNext
  <2>2. ASSUME NEW rid \in LiveRID PROVE rid \in LiveRID'
    BY <1>2, LiveRIDs, LiveRIDsNext
  <2> QED BY <2>1, <2>2
<1> QED BY <1>2, <1>4, <1>5, LiveRIDs

\* A step of the heap file is a step of the store or changes nothing of it.
LEMMA Refines == IInv /\ IInv' /\ [Next]_vars => [Store!Next]_(Store!storeVars)
<1> SUFFICES ASSUME IInv, IInv', [Next]_vars, ~Damaged'
             PROVE  \/ Stored' = Stored /\ Damaged' = Damaged
                    \/ /\ Damaged' = Damaged
                       /\ \E rid \in (0 .. MaxPages - 1) \X (0 .. PAGE_SIZE \div P!SlotSize),
                             v \in {P!Content(r) : r \in Record} :
                               /\ rid \notin DOMAIN Stored
                               /\ Stored' = [t \in DOMAIN Stored \cup {rid} |->
                                                IF t = rid THEN v ELSE Stored[t]]
                    \/ /\ Damaged' = Damaged
                       /\ \E rid \in (0 .. MaxPages - 1) \X (0 .. PAGE_SIZE \div P!SlotSize) :
                               /\ rid \in DOMAIN Stored
                               /\ Stored' = [t \in DOMAIN Stored \ {rid} |-> Stored[t]]
  BY DEF Store!Next, Store!storeVars, Store!Insert, Store!Delete, Store!Damage, Stored, Damaged
<1>1. CASE UNCHANGED disk
  BY <1>1 DEF Stored, Damaged, LiveRID
<1>2. CASE InsertWrite /\ ~Fail
  BY <1>2, InsertStores
<1>3. CASE DeleteWrite /\ ~Fail
  BY <1>3, DeleteStores
<1>4. CASE Allocate /\ ~Fail
  <2>1. /\ Damaged' = Damaged /\ LiveRID' = LiveRID
        /\ \A rid \in LiveRID : disk'[rid[1]] = disk[rid[1]]
    BY <1>4, AllocateKeeps
  <2> QED BY <2>1, StoreKept
<1>5. CASE Fail
  BY <1>1, <1>5 DEF Fail
<1>6. CASE heap_open \/ heap_close \/ Crash \/ UNCHANGED vars
  BY <1>1, <1>6 DEF heap_open, heap_close, Crash, vars
<1>7. CASE heap_insert
  BY <1>1, <1>2, <1>4, <1>5, <1>7 DEF heap_insert, InsertCall, ScanRead, TryInsert, Compact,
                                      Refused, InsertReturns
<1>8. CASE heap_delete
  BY <1>1, <1>3, <1>5, <1>8 DEF heap_delete, DeleteCall, DeleteSlot
<1> QED BY <1>6, <1>7, <1>8 DEF Next

\* The heap file is a store of records: each step inserts one, deletes one, or
\* leaves all as they were, until page_compact has scrambled a page.
THEOREM HeapFileImplementsRecordStore == Spec => ImplementsRecordStore
<1>1. Init => Store!Init
  <2> SUFFICES ASSUME Init PROVE Store!Init
    OBVIOUS
  <2>1. DOMAIN disk = {} /\ LiveRID = {}
    BY DEF Init, LiveRID
  <2> QED BY <2>1 DEF Store!Init
<1> QED BY <1>1, Refines, Invariant, PTL DEF Spec, ImplementsRecordStore, Store!Spec

----------------------------------------------------------------------------
(* The page layers (PageFile), for any size of page and disk.               *)

\* Page p of f is there, and its parts are those of x.
Holds(f, p, x) ==
    (p + 1) * Parts <= Len(f) /\ \A k \in 1 .. Parts : f[p * Parts + k] = x[k]

\* What is promised of a page is what the file holds of it; in 01-file-io the disk
\* holds it too, and the file the page that has been written and not yet synced.
PromiseInv ==
    /\ \A p \in DOMAIN promised : promised[p] \in [1 .. Parts -> Part]
                                  /\ Holds(file, p, promised[p])
    /\ program = "file_io" => \A p \in DOMAIN promised : Holds(stable, p, promised[p])
    /\ writing # <<>> => program = "file_io" /\ Holds(file, writing[1], DataPage(writing[2]))
    /\ program = "file_io" => allocated = None

FileInv == PagesTypeOK /\ PromiseInv

\* What the invariant says of the types of the variables.
LEMMA FileTypes ==
    ASSUME FileInv
    PROVE  /\ file \in Seq(Part) /\ Len(file) \in Nat /\ Len(file) <= Room
           /\ stable \in Seq(Part) /\ Len(stable) \in Nat /\ Len(stable) <= Len(file)
           /\ DOMAIN promised \subseteq Nat
  BY DEF FileInv, PagesTypeOK

----------------------------------------------------------------------------
(* Pages and parts. *)

LEMMA MulMono == \A a, b, c \in Nat : a <= b => a * c <= b * c
  OBVIOUS

\* The pages that begin and end within n parts are those before n \div Parts.
LEMMA WholePages ==
    ASSUME NEW n \in Nat, NEW a \in Nat
    PROVE  /\ n \div Parts \in Nat /\ (n \div Parts) * Parts <= n
           /\ a * Parts <= n <=> a <= n \div Parts
<1> DEFINE q == n \div Parts
<1>1. Parts \in Nat \ {0}
  BY SizesAssumption
<1>2. q \in Nat /\ q * Parts <= n /\ n < (q + 1) * Parts
  BY <1>1
<1> HIDE DEF q
<1>3. a <= q => a * Parts <= q * Parts
  BY <1>1, <1>2, MulMono
<1>4. q + 1 <= a => (q + 1) * Parts <= a * Parts
  BY <1>1, <1>2, MulMono
<1>5. a * Parts \in Nat /\ q * Parts \in Nat /\ (q + 1) * Parts \in Nat
  BY <1>1, <1>2
<1> QED BY <1>2, <1>3, <1>4, <1>5 DEF q

\* The first part of a page and of the next one.
LEMMA PageEnds ==
    ASSUME NEW p \in Nat
    PROVE  /\ p * Parts \in Nat /\ (p + 1) * Parts = p * Parts + Parts
           /\ Parts \in Nat /\ Parts # 0
<1>1. Parts \in Nat \ {0}
  BY SizesAssumption
<1> QED BY <1>1

\* Two pages have no part in common.
LEMMA PagesApart ==
    ASSUME NEW p \in Nat, NEW q \in Nat, p # q, NEW k \in 1 .. Parts
    PROVE  q * Parts + k < p * Parts + 1 \/ p * Parts + Parts < q * Parts + k
<1>1. /\ p * Parts \in Nat /\ (p + 1) * Parts = p * Parts + Parts
      /\ q * Parts \in Nat /\ (q + 1) * Parts = q * Parts + Parts /\ Parts \in Nat
  BY PageEnds
<1>2. CASE p < q
  <2>1. (p + 1) * Parts <= q * Parts
    BY <1>1, <1>2, MulMono
  <2> QED BY <1>1, <2>1
<1>3. CASE q < p
  <2>1. (q + 1) * Parts <= p * Parts
    BY <1>1, <1>3, MulMono
  <2> QED BY <1>1, <2>1
<1> QED BY <1>2, <1>3

\* The ids of pages that are there.
LEMMA HeldIds ==
    ASSUME NEW f \in Seq(Part), NEW S \in SUBSET Nat,
           \A p \in S : (p + 1) * Parts <= Len(f)
    PROVE  S \subseteq 0 .. (Len(f) \div Parts) - 1
<1> SUFFICES ASSUME NEW p \in S PROVE p \in 0 .. (Len(f) \div Parts) - 1
  OBVIOUS
<1>1. p + 1 \in Nat /\ Len(f) \in Nat
  OBVIOUS
<1>2. p + 1 <= Len(f) \div Parts /\ Len(f) \div Parts \in Nat
  BY <1>1, WholePages
<1> QED BY <1>2

\* page_read of a page that is there returns its parts.
LEMMA ReadHeld ==
    ASSUME NEW f \in Seq(Part), NEW p \in Nat, (p + 1) * Parts <= Len(f)
    PROVE  ReadFrom(f, p) = [k \in 1 .. Parts |-> f[p * Parts + k]]
<1>1. /\ p * Parts \in Nat /\ (p + 1) * Parts = p * Parts + Parts /\ Parts \in Nat
  BY PageEnds
<1> DEFINE s == p * Parts
<1>2. ReadFrom(f, p) = SubSeq(f, s + 1, s + Parts)
  BY <1>1 DEF ReadFrom
<1> HIDE DEF s
<1>3. SubSeq(f, s + 1, s + Parts) = [k \in 1 .. Parts |-> f[s + k]]
  BY <1>1 DEF s
<1> QED BY <1>2, <1>3 DEF s

LEMMA ReadHolds ==
    ASSUME NEW f \in Seq(Part), NEW p \in Nat, NEW x \in [1 .. Parts -> Part],
           Holds(f, p, x)
    PROVE  ReadFrom(f, p) = x
<1>1. ReadFrom(f, p) = [k \in 1 .. Parts |-> f[p * Parts + k]]
  BY ReadHeld DEF Holds
<1> QED BY <1>1 DEF Holds

\* A page that was read from the file is one.
LEMMA ReadPage ==
    ASSUME NEW f \in Seq(Part), NEW p \in Nat, (p + 1) * Parts <= Len(f)
    PROVE  /\ ReadFrom(f, p) \in [1 .. Parts -> Part]
           /\ Holds(f, p, ReadFrom(f, p))
<1>1. ReadFrom(f, p) = [k \in 1 .. Parts |-> f[p * Parts + k]]
  BY ReadHeld
<1>2. \A k \in 1 .. Parts : f[p * Parts + k] \in Part
  <2>1. /\ p * Parts \in Nat /\ (p + 1) * Parts = p * Parts + Parts /\ Parts \in Nat
    BY PageEnds
  <2> QED BY <2>1
<1> QED BY <1>1, <1>2 DEF Holds

\* The pages that programs write.
LEMMA PagesWritten ==
    /\ \A d \in Data : DataPage(d) \in [1 .. Parts -> Part]
    /\ ZeroPage \in [1 .. Parts -> Part] /\ EmptyPage \in [1 .. Parts -> Part]
  BY DEF DataPage, ZeroPage, EmptyPage, Part, Zero

----------------------------------------------------------------------------
(* Writing. *)

\* What f has become after a write of x behind its first start parts.
LEMMA WrittenSeq ==
    ASSUME NEW f \in Seq(Part), NEW start \in Nat, NEW x \in Seq(Part)
    PROVE  LET w == Written(f, start, x)
           IN  /\ w \in Seq(Part)
               /\ Len(w) = IF Len(f) > start + Len(x) THEN Len(f) ELSE start + Len(x)
               /\ \A i \in 1 .. Len(f) : i < start + 1 \/ start + Len(x) < i => w[i] = f[i]
               /\ \A i \in 1 .. Len(x) : w[start + i] = x[i]
<1> DEFINE n == IF Len(f) > start + Len(x) THEN Len(f) ELSE start + Len(x)
           e(i) == IF i \in start + 1 .. start + Len(x) THEN x[i - start]
                   ELSE IF i <= Len(f) THEN f[i] ELSE Zero
<1>1. Written(f, start, x) = [i \in 1 .. n |-> e(i)]
  BY DEF Written
<1>2. n \in Nat /\ Len(x) \in Nat /\ Len(f) \in Nat
  OBVIOUS
<1>3. \A i \in 1 .. n : e(i) \in Part
  <2>1. Zero \in Part
    BY DEF Part
  <2> QED BY <1>2, <2>1
<1>4. \A i \in 1 .. Len(f) : i < start + 1 \/ start + Len(x) < i => i \in 1 .. n /\ e(i) = f[i]
  BY <1>2
<1>5. \A i \in 1 .. Len(x) : start + i \in 1 .. n /\ e(start + i) = x[i]
  BY <1>2
<1> HIDE DEF n, e
<1>6. [i \in 1 .. n |-> e(i)] \in Seq(Part) /\ Len([i \in 1 .. n |-> e(i)]) = n
  BY <1>2, <1>3
<1> QED BY <1>1, <1>4, <1>5, <1>6 DEF n

\* What a write that stops after k parts does to the file.
LEMMA WriteEffect ==
    ASSUME FileInv, NEW start \in Nat, NEW x \in [1 .. Parts -> Part],
           NEW k \in 0 .. Parts, WritePart(start, x, k)
    PROVE  /\ file' \in Seq(Part) /\ Len(file') <= Room /\ Len(file) <= Len(file')
           /\ k # 0 => start + k <= Len(file')
           /\ \A i \in 1 .. Len(file) : i < start + 1 \/ start + k < i => file'[i] = file[i]
           /\ k # 0 => \A i \in 1 .. k : file'[start + i] = x[i]
           /\ stable' = stable
<1>1. /\ start + k <= Room /\ stable' = stable
      /\ file' = IF k = 0 THEN file ELSE Written(file, start, SubSeq(x, 1, k))
  BY DEF WritePart
<1>2. file \in Seq(Part) /\ Len(file) \in Nat /\ Len(file) <= Room
  BY FileTypes
<1>3. CASE k = 0
  BY <1>1, <1>2, <1>3
<1>4. CASE k # 0
  <2>1. Parts \in Nat /\ k \in Nat
    BY SizesAssumption
  <2>2. x \in Seq(Part) /\ Len(x) = Parts
    BY <2>1
  <2>3. /\ SubSeq(x, 1, k) \in Seq(Part) /\ Len(SubSeq(x, 1, k)) = k
        /\ \A i \in 1 .. k : SubSeq(x, 1, k)[i] = x[i]
    BY <2>1, <2>2
  <2> DEFINE y == SubSeq(x, 1, k)
  <2> HIDE DEF y
  <2>4. y \in Seq(Part) /\ Len(y) = k /\ \A i \in 1 .. k : y[i] = x[i]
    BY <2>3 DEF y
  <2>5. file' = Written(file, start, y)
    BY <1>1, <1>4 DEF y
  <2>6. /\ file' \in Seq(Part)
        /\ Len(file') = IF Len(file) > start + k THEN Len(file) ELSE start + k
        /\ \A i \in 1 .. Len(file) : i < start + 1 \/ start + k < i => file'[i] = file[i]
        /\ \A i \in 1 .. k : file'[start + i] = y[i]
    BY <1>2, <2>4, <2>5, WrittenSeq
  <2> QED BY <1>1, <1>2, <2>1, <2>4, <2>6
<1> QED BY <1>3, <1>4

\* A write into one page leaves the others,
LEMMA OthersKept ==
    ASSUME FileInv, NEW p \in Nat, NEW x \in [1 .. Parts -> Part],
           NEW k \in 0 .. Parts, WritePart(p * Parts, x, k),
           NEW q \in Nat, p # q, NEW y, Holds(file, q, y)
    PROVE  Holds(file', q, y)
<1>1. /\ p * Parts \in Nat /\ q * Parts \in Nat /\ (q + 1) * Parts = q * Parts + Parts
      /\ Parts \in Nat
  BY PageEnds
<1>2. /\ Len(file') \in Nat /\ Len(file) \in Nat /\ Len(file) <= Len(file')
      /\ \A i \in 1 .. Len(file) :
            i < p * Parts + 1 \/ p * Parts + k < i => file'[i] = file[i]
  <2>1. /\ file' \in Seq(Part) /\ Len(file) <= Len(file')
        /\ \A i \in 1 .. Len(file) :
              i < p * Parts + 1 \/ p * Parts + k < i => file'[i] = file[i]
    BY <1>1, WriteEffect
  <2> QED BY <2>1, FileTypes
<1>3. ASSUME NEW l \in 1 .. Parts PROVE file'[q * Parts + l] = file[q * Parts + l]
  <2>1. q * Parts + l < p * Parts + 1 \/ p * Parts + Parts < q * Parts + l
    BY PagesApart
  <2>2. q * Parts + l \in 1 .. Len(file)
    BY <1>1, <1>2 DEF Holds
  <2> QED BY <1>1, <1>2, <2>1, <2>2
<1>4. (q + 1) * Parts <= Len(file')
  BY <1>1, <1>2 DEF Holds
<1> QED BY <1>3, <1>4 DEF Holds

\* and so does one behind the end of the file.
LEMMA AllKept ==
    ASSUME FileInv, NEW x \in [1 .. Parts -> Part],
           NEW k \in 0 .. Parts, WritePart(Len(file), x, k),
           NEW q \in Nat, NEW y, Holds(file, q, y)
    PROVE  Holds(file', q, y)
<1>1. /\ q * Parts \in Nat /\ (q + 1) * Parts = q * Parts + Parts /\ Parts \in Nat
  BY PageEnds
<1>2. /\ Len(file') \in Nat /\ Len(file) \in Nat /\ Len(file) <= Len(file')
      /\ \A i \in 1 .. Len(file) :
            i < Len(file) + 1 \/ Len(file) + k < i => file'[i] = file[i]
  <2>1. Len(file) \in Nat
    BY FileTypes
  <2> QED BY <2>1, WriteEffect
<1>3. \A l \in 1 .. Parts : q * Parts + l \in 1 .. Len(file)
  BY <1>1, <1>2 DEF Holds
<1>4. \A l \in 1 .. Parts : file'[q * Parts + l] = file[q * Parts + l]
  BY <1>2, <1>3
<1>5. (q + 1) * Parts <= Len(file')
  BY <1>1, <1>2 DEF Holds
<1> QED BY <1>4, <1>5 DEF Holds

\* A page that has been written whole is there.
LEMMA WholeHeld ==
    ASSUME FileInv, NEW p \in Nat, NEW x \in [1 .. Parts -> Part],
           WritePart(p * Parts, x, Parts)
    PROVE  Holds(file', p, x)
<1>1. p * Parts \in Nat /\ (p + 1) * Parts = p * Parts + Parts /\ Parts \in Nat /\ Parts # 0
  BY PageEnds
<1>2. Parts \in 0 .. Parts
  BY <1>1
<1> QED BY <1>1, <1>2, WriteEffect DEF Holds

\* Put and Drop.
LEMMA PutDomain ==
    \A f, p, v : DOMAIN Put(f, p, v) = DOMAIN f \cup {p}
  BY DEF Put

LEMMA PutField ==
    \A f, p, v : /\ Put(f, p, v)[p] = v
                 /\ \A q \in DOMAIN f : q # p => Put(f, p, v)[q] = f[q]
  BY DEF Put

LEMMA DropDomain ==
    \A f, p : DOMAIN Drop(f, p) = DOMAIN f \ {p}
  BY DEF Drop, Restrict

LEMMA DropField ==
    \A f, p : \A q \in DOMAIN f : q # p => Drop(f, p)[q] = f[q]
  BY DEF Drop, Restrict

\* What calls have promised after a write into page p.
LEMMA PromisedHeld ==
    ASSUME FileInv, NEW p \in Nat, NEW x \in [1 .. Parts -> Part],
           NEW k \in 0 .. Parts, WritePart(p * Parts, x, k),
           DOMAIN promised' \subseteq Nat,
           \A q \in DOMAIN promised' : q # p => q \in DOMAIN promised /\ promised'[q] = promised[q],
           p \in DOMAIN promised' =>
              \/ k = Parts /\ promised'[p] = x
              \/ k = 0 /\ p \in DOMAIN promised /\ promised'[p] = promised[p]
    PROVE  \A q \in DOMAIN promised' : /\ promised'[q] \in [1 .. Parts -> Part]
                                       /\ Holds(file', q, promised'[q])
<1> SUFFICES ASSUME NEW q \in DOMAIN promised'
             PROVE  promised'[q] \in [1 .. Parts -> Part] /\ Holds(file', q, promised'[q])
  OBVIOUS
<1>1. CASE q # p
  <2>1. /\ promised'[q] = promised[q] /\ promised[q] \in [1 .. Parts -> Part]
        /\ Holds(file, q, promised[q])
    BY <1>1 DEF FileInv, PromiseInv
  <2> QED BY <1>1, <2>1, OthersKept
<1>2. CASE q = p /\ k = Parts /\ promised'[p] = x
  BY <1>2, WholeHeld
<1>3. CASE q = p /\ k = 0 /\ p \in DOMAIN promised /\ promised'[p] = promised[p]
  <2>1. file' = file
    BY <1>3 DEF WritePart
  <2> QED BY <1>3, <2>1 DEF FileInv, PromiseInv
<1> QED BY <1>1, <1>2, <1>3

\* The promise of PageFile!Promised is such a promise.
LEMMA PromisedCases ==
    ASSUME FileInv, NEW p \in Nat, NEW x, NEW k \in 0 .. Parts,
           promised' = Promised(p, x, k)
    PROVE  /\ DOMAIN promised' \subseteq Nat
           /\ \A q \in DOMAIN promised' : q # p => q \in DOMAIN promised /\ promised'[q] = promised[q]
           /\ p \in DOMAIN promised' =>
                 \/ k = Parts /\ promised'[p] = x
                 \/ k = 0 /\ p \in DOMAIN promised /\ promised'[p] = promised[p]
<1>1. Parts \in Nat \ {0} /\ DOMAIN promised \subseteq Nat
  BY FileTypes, SizesAssumption
<1>2. CASE k = Parts
  <2>1. promised' = Put(promised, p, x)
    BY <1>1, <1>2 DEF Promised
  <2>2. DOMAIN promised' = DOMAIN promised \cup {p}
    BY <2>1, PutDomain
  <2>3. promised'[p] = x /\ \A q \in DOMAIN promised : q # p => promised'[q] = promised[q]
    BY <2>1, PutField
  <2> QED BY <1>1, <1>2, <2>2, <2>3
<1>3. CASE k \in 1 .. Parts - 1
  <2>1. promised' = Drop(promised, p)
    BY <1>1, <1>3 DEF Promised
  <2>2. /\ DOMAIN promised' = DOMAIN promised \ {p}
        /\ \A q \in DOMAIN promised : q # p => promised'[q] = promised[q]
    BY <2>1, DropDomain, DropField
  <2> QED BY <1>1, <2>2
<1>4. CASE k = 0
  <2>1. promised' = promised
    BY <1>1, <1>4 DEF Promised
  <2> QED BY <1>1, <1>4, <2>1
<1> QED BY <1>1, <1>2, <1>3, <1>4

\* The type invariant after a call.
LEMMA FileTypeNext ==
    ASSUME FileInv, file' \in Seq(Part), Len(file') <= Room, Len(stable') <= Len(file'),
           stable' \in Seq(Part), UNCHANGED program, is_open' \in BOOLEAN,
           writing' = <<>> \/ writing' \in PageId \X Data,
           allocated' \in {None} \cup PageId,
           DOMAIN promised' \subseteq Nat,
           \A q \in DOMAIN promised' : (q + 1) * Parts <= Len(file')
    PROVE  PagesTypeOK'
<1>1. DOMAIN promised' \subseteq 0 .. (Len(file') \div Parts) - 1
  BY HeldIds
<1> QED BY <1>1 DEF FileInv, PagesTypeOK, new_page_id

----------------------------------------------------------------------------
(* The calls. *)

LEMMA FileInit == PagesInit => FileInv
<1> SUFFICES ASSUME PagesInit PROVE FileInv
  OBVIOUS
<1>1. /\ program \in Programs /\ is_open = FALSE /\ file = <<>> /\ stable = <<>>
      /\ writing = <<>> /\ allocated = None /\ DOMAIN promised = {}
  BY DEF PagesInit
<1>2. Room \in Nat
  BY SizesAssumption
<1>3. file \in Seq(Part) /\ Len(file) = 0 /\ stable \in Seq(Part) /\ Len(stable) = 0
  <2>1. <<>> \in Seq(Part) /\ Len(<<>>) = 0
    OBVIOUS
  <2> QED BY <1>1, <2>1
<1>4. PagesTypeOK
  <2>1. None \in {None} \cup PageId /\ FALSE \in BOOLEAN
    OBVIOUS
  <2>2. DOMAIN promised \subseteq 0 .. new_page_id - 1
    BY <1>1
  <2>3. Len(file) <= Room /\ Len(stable) <= Len(file)
    BY <1>2, <1>3
  <2>4. is_open \in BOOLEAN /\ allocated \in {None} \cup PageId
    BY <1>1, <2>1
  <2> QED BY <1>1, <1>3, <2>2, <2>3, <2>4, Zenon DEF PagesTypeOK
<1>5. PromiseInv
  BY <1>1 DEF PromiseInv
<1> QED BY <1>4, <1>5 DEF FileInv

LEMMA OpenCloseFile == FileInv /\ (Open \/ CloseFile) => FileInv'
<1> SUFFICES ASSUME FileInv, Open \/ CloseFile PROVE FileInv'
  OBVIOUS
<1>1. /\ UNCHANGED <<program, file, stable, promised>> /\ allocated' = None
      /\ is_open' \in BOOLEAN /\ (writing' = writing \/ writing' = <<>>)
  BY DEF Open, CloseFile, Gone
<1> QED BY <1>1 DEF FileInv, PagesTypeOK, PromiseInv, new_page_id

\* The kernel writes a part of the file to the disk: a page that the disk held as
\* the file does, it still holds.
LEMMA WritebackFile == FileInv /\ Writeback => FileInv'
<1> SUFFICES ASSUME FileInv, Writeback PROVE FileInv'
  OBVIOUS
<1>1. PICK i \in DOMAIN file : stable' = Written(stable, i - 1, <<file[i]>>)
  BY DEF Writeback
<1>2. UNCHANGED <<program, is_open, file, writing, promised>> /\ allocated' = None
  BY DEF Writeback
<1>3. /\ file \in Seq(Part) /\ Len(file) \in Nat /\ stable \in Seq(Part)
      /\ Len(stable) \in Nat /\ Len(stable) <= Len(file) /\ DOMAIN promised \subseteq Nat
  BY FileTypes
<1>4. i \in 1 .. Len(file) /\ i - 1 \in Nat /\ file[i] \in Part
  BY <1>3
<1>5. PICK one : one = <<file[i]>>
  OBVIOUS
<1> DEFINE n == i - 1
<1> HIDE DEF n
<1>6. one \in Seq(Part) /\ Len(one) = 1 /\ one[1] = file[i]
  BY <1>4, <1>5
<1>7. /\ stable' \in Seq(Part)
      /\ Len(stable') = IF Len(stable) > n + 1 THEN Len(stable) ELSE n + 1
      /\ \A j \in 1 .. Len(stable) : j < n + 1 \/ n + 1 < j => stable'[j] = stable[j]
      /\ stable'[n + 1] = file[i]
  <2>1. stable' = Written(stable, n, one) /\ n \in Nat
    BY <1>1, <1>4, <1>5 DEF n
  <2>2. /\ stable' \in Seq(Part)
        /\ Len(stable') = IF Len(stable) > n + Len(one) THEN Len(stable) ELSE n + Len(one)
        /\ \A j \in 1 .. Len(stable) : j < n + 1 \/ n + Len(one) < j => stable'[j] = stable[j]
        /\ \A j \in 1 .. Len(one) : stable'[n + j] = one[j]
    <3> DEFINE w == Written(stable, n, one)
    <3> HIDE DEF w
    <3>1. /\ w \in Seq(Part)
          /\ Len(w) = IF Len(stable) > n + Len(one) THEN Len(stable) ELSE n + Len(one)
          /\ \A j \in 1 .. Len(stable) : j < n + 1 \/ n + Len(one) < j => w[j] = stable[j]
          /\ \A j \in 1 .. Len(one) : w[n + j] = one[j]
      <4>1. stable \in Seq(Part) /\ one \in Seq(Part) /\ n \in Nat
        BY <1>3, <1>6, <2>1
      <4> QED BY <4>1, WrittenSeq DEF w
    <3>2. stable' = w
      BY <2>1 DEF w
    <3> QED BY <3>1, <3>2
  <2> QED BY <1>6, <2>2
<1>8. /\ Len(stable') <= Len(file') /\ Len(stable) <= Len(stable') /\ Len(stable') \in Nat
      /\ \A j \in 1 .. Len(stable) : j # i => stable'[j] = stable[j]
      /\ stable'[i] = file[i]
  BY <1>2, <1>3, <1>4, <1>7 DEF n
<1>9. ASSUME NEW q \in Nat, NEW x, Holds(file, q, x), Holds(stable, q, x)
      PROVE  Holds(stable', q, x)
  <2>1. q * Parts \in Nat /\ (q + 1) * Parts = q * Parts + Parts /\ Parts \in Nat
    BY PageEnds
  <2>2. \A l \in 1 .. Parts : q * Parts + l \in 1 .. Len(stable)
    BY <1>3, <1>9, <2>1 DEF Holds
  <2>3. \A l \in 1 .. Parts : stable'[q * Parts + l] = x[l]
    BY <1>8, <1>9, <2>2 DEF Holds
  <2>4. (q + 1) * Parts <= Len(stable')
    BY <1>3, <1>8, <1>9, <2>1 DEF Holds
  <2> QED BY <2>3, <2>4 DEF Holds
<1>10. PromiseInv'
  BY <1>2, <1>3, <1>9 DEF FileInv, PromiseInv
<1>11. PagesTypeOK'
  BY <1>2, <1>7, <1>8 DEF FileInv, PagesTypeOK, new_page_id
<1> QED BY <1>10, <1>11 DEF FileInv

\* The file is what was on the disk; only 01-file-io had promised that.
LEMMA PowerLossFile == FileInv /\ PowerLoss => FileInv'
<1> SUFFICES ASSUME FileInv, PowerLoss PROVE FileInv'
  OBVIOUS
<1>1. /\ file' = stable /\ UNCHANGED <<program, stable>> /\ allocated' = None
      /\ is_open' = FALSE /\ writing' = <<>>
      /\ promised' = IF program = "file_io" THEN promised ELSE <<>>
  BY DEF PowerLoss, Gone
<1>2. /\ file \in Seq(Part) /\ Len(file) \in Nat /\ stable \in Seq(Part)
      /\ Len(stable) \in Nat /\ Len(stable) <= Len(file) /\ DOMAIN promised \subseteq Nat
      /\ Len(file) <= Room /\ Room \in Nat
  BY FileTypes, SizesAssumption
<1>3. DOMAIN <<>> = {}
  OBVIOUS
<1>4. \A q \in DOMAIN promised' : /\ q \in Nat /\ promised'[q] \in [1 .. Parts -> Part]
                                  /\ Holds(stable, q, promised'[q]) /\ program = "file_io"
  BY <1>1, <1>2, <1>3 DEF FileInv, PromiseInv
<1>5. PromiseInv'
  BY <1>1, <1>4 DEF PromiseInv
<1>6. PagesTypeOK'
  <2>1. \A q \in DOMAIN promised' : (q + 1) * Parts <= Len(file')
    BY <1>1, <1>4 DEF Holds
  <2>2. DOMAIN promised' \subseteq Nat
    BY <1>4
  <2>3. /\ file' \in Seq(Part) /\ Len(file') <= Room /\ Len(stable') <= Len(file')
        /\ stable' \in Seq(Part)
    BY <1>1, <1>2
  <2> QED BY <1>1, <2>1, <2>2, <2>3, FileTypeNext
<1> QED BY <1>5, <1>6 DEF FileInv

\* The ids of pages that fit on the disk.
LEMMA NewPageId ==
    ASSUME NEW p \in Nat, (p + 1) * Parts <= Room
    PROVE  p \in PageId
<1>1. Room \in Nat /\ p + 1 \in Nat
  BY SizesAssumption
<1>2. p + 1 <= Room \div Parts /\ Room \div Parts \in Nat
  BY <1>1, WholePages
<1> QED BY <1>2 DEF PageId

\* A call of page_write or page_allocate of 02, or page_write of 04.
LEMMA PageWritten ==
    ASSUME FileInv, program # "file_io", NEW p \in Nat, NEW x \in [1 .. Parts -> Part],
           NEW k \in 0 .. Parts, NEW a, WritePart(p * Parts, x, k),
           promised' = Promised(p, x, k), UNCHANGED <<program, is_open, writing>>,
           allocated' = IF k = Parts THEN a ELSE None,
           a \in {p, None}
    PROVE  FileInv'
<1>1. p * Parts \in Nat /\ (p + 1) * Parts = p * Parts + Parts /\ Parts \in Nat /\ Parts # 0
  BY PageEnds
<1>2. /\ file' \in Seq(Part) /\ Len(file') <= Room /\ Len(file) <= Len(file')
      /\ k # 0 => p * Parts + k <= Len(file')
      /\ stable' = stable
  BY <1>1, WriteEffect
<1>3. /\ Len(file) \in Nat /\ Len(file') \in Nat /\ stable \in Seq(Part) /\ Len(stable) \in Nat
      /\ Len(stable) <= Len(file) /\ Room \in Nat
  BY <1>2, FileTypes, SizesAssumption
<1>4. /\ DOMAIN promised' \subseteq Nat
      /\ \A q \in DOMAIN promised' : q # p => q \in DOMAIN promised /\ promised'[q] = promised[q]
      /\ p \in DOMAIN promised' =>
            \/ k = Parts /\ promised'[p] = x
            \/ k = 0 /\ p \in DOMAIN promised /\ promised'[p] = promised[p]
  BY PromisedCases
<1>5. \A q \in DOMAIN promised' : /\ promised'[q] \in [1 .. Parts -> Part]
                                  /\ Holds(file', q, promised'[q])
  BY <1>4, PromisedHeld
<1>6. writing = <<>>
  BY DEF FileInv, PromiseInv
<1>7. PromiseInv'
  BY <1>5, <1>6 DEF PromiseInv
<1>8. allocated' \in {None} \cup PageId
  <2>1. k = Parts => (p + 1) * Parts <= Room
    BY <1>1, <1>2, <1>3
  <2> QED BY <2>1, NewPageId
<1>9. PagesTypeOK'
  <2>1. \A q \in DOMAIN promised' : (q + 1) * Parts <= Len(file')
    BY <1>5 DEF Holds
  <2>2. is_open' \in BOOLEAN /\ Len(stable') <= Len(file') /\ stable' \in Seq(Part)
    BY <1>2, <1>3 DEF FileInv, PagesTypeOK
  <2> QED BY <1>2, <1>4, <1>6, <1>8, <2>1, <2>2, FileTypeNext
<1> QED BY <1>7, <1>9 DEF FileInv

LEMMA DiskManagerFile ==
    ASSUME FileInv, NEW k \in 0 .. Parts,
           DiskManagerAllocate(k) \/ \E p \in PageId, d \in Data :
              DiskManagerWrite(p, d, k) \/ HeapWrite(p, d, k)
    PROVE  FileInv'
<1>1. CASE DiskManagerAllocate(k)
  <2>1. /\ program = "disk_manager" /\ WritePart(new_page_id * Parts, ZeroPage, k)
        /\ promised' = Promised(new_page_id, ZeroPage, k)
        /\ allocated' = IF k = Parts THEN new_page_id ELSE None
        /\ UNCHANGED <<program, is_open, writing>>
    BY <1>1 DEF DiskManagerAllocate, Calling, Returned
  <2>2. new_page_id \in Nat
    BY FileTypes, WholePages DEF new_page_id
  <2>3. ZeroPage \in [1 .. Parts -> Part]
    BY PagesWritten
  <2> QED BY <2>1, <2>2, <2>3, PageWritten
<1>2. ASSUME NEW p \in PageId, NEW d \in Data,
             DiskManagerWrite(p, d, k) \/ HeapWrite(p, d, k)
      PROVE  FileInv'
  <2>1. /\ program # "file_io" /\ WritePart(p * Parts, DataPage(d), k)
        /\ promised' = Promised(p, DataPage(d), k)
        /\ allocated' = IF k = Parts THEN None ELSE None
        /\ UNCHANGED <<program, is_open, writing>>
    BY <1>2 DEF DiskManagerWrite, HeapWrite, PageWrite, Calling
  <2>2. p \in Nat
    BY DEF PageId
  <2>3. DataPage(d) \in [1 .. Parts -> Part]
    BY PagesWritten
  <2> QED BY <2>1, <2>2, <2>3, PageWritten
<1> QED BY <1>1, <1>2

\* page_allocate of 04 appends at the end of the file: the page it names begins
\* there or before, and ends there or before the new end.
LEMMA HeapAllocateFile == ASSUME FileInv, NEW k \in 0 .. Parts, HeapAllocate(k)
                          PROVE  FileInv'
<1> DEFINE id == new_page_id
<1>1. /\ program = "heap_file" /\ WritePart(Len(file), EmptyPage, k)
      /\ promised' = IF k = Parts THEN Put(promised, id, ReadFrom(file', id)) ELSE promised
      /\ allocated' = IF k = Parts THEN id ELSE None
      /\ UNCHANGED <<program, is_open, writing>>
  BY DEF HeapAllocate, Calling, Returned
<1>2. /\ Len(file) \in Nat /\ stable \in Seq(Part) /\ Len(stable) \in Nat
      /\ Len(stable) <= Len(file) /\ Room \in Nat /\ DOMAIN promised \subseteq Nat
  BY FileTypes, SizesAssumption
<1>3. EmptyPage \in [1 .. Parts -> Part]
  BY PagesWritten
<1>4. /\ file' \in Seq(Part) /\ Len(file') <= Room /\ Len(file) <= Len(file')
      /\ k # 0 => Len(file) + k <= Len(file')
      /\ stable' = stable
  BY <1>1, <1>2, <1>3, WriteEffect
<1>5. id \in Nat /\ id * Parts <= Len(file)
  BY <1>2, WholePages DEF new_page_id
<1> HIDE DEF id
<1>6. k = Parts => (id + 1) * Parts <= Len(file') /\ (id + 1) * Parts <= Room
  <2>1. id * Parts \in Nat /\ (id + 1) * Parts = id * Parts + Parts /\ Parts \in Nat /\ Parts # 0
    BY <1>5, PageEnds
  <2>2. Len(file') \in Nat
    BY <1>4
  <2> QED BY <1>2, <1>4, <1>5, <2>1, <2>2
<1>7. k = Parts => /\ ReadFrom(file', id) \in [1 .. Parts -> Part]
                   /\ Holds(file', id, ReadFrom(file', id))
  BY <1>4, <1>5, <1>6, ReadPage
<1>8. ASSUME NEW q \in DOMAIN promised'
      PROVE  /\ q \in Nat /\ promised'[q] \in [1 .. Parts -> Part]
             /\ Holds(file', q, promised'[q])
  <2>1. CASE k = Parts /\ q = id
    <3>1. promised'[id] = ReadFrom(file', id)
      BY <1>1, <2>1, PutDomain, PutField
    <3> QED BY <1>5, <1>7, <2>1, <3>1
  <2>2. CASE ~(k = Parts /\ q = id)
    <3>1. q \in DOMAIN promised /\ promised'[q] = promised[q]
      <4>1. CASE k = Parts
        <5> DEFINE x == ReadFrom(file', id)
        <5> HIDE DEF x
        <5>1. promised' = Put(promised, id, x)
          BY <1>1, <4>1 DEF x
        <5>2. DOMAIN promised' = DOMAIN promised \cup {id}
          BY <5>1, PutDomain
        <5>3. \A r \in DOMAIN promised : r # id => promised'[r] = promised[r]
          BY <5>1, PutField
        <5> QED BY <2>2, <4>1, <5>2, <5>3
      <4> QED BY <1>1, <4>1
    <3>2. q \in Nat /\ promised[q] \in [1 .. Parts -> Part] /\ Holds(file, q, promised[q])
      BY <1>2, <3>1 DEF FileInv, PromiseInv
    <3> QED BY <1>1, <1>3, <3>1, <3>2, AllKept
  <2> QED BY <2>1, <2>2
<1>9. writing = <<>>
  BY <1>1 DEF FileInv, PromiseInv
<1>10. PromiseInv'
  BY <1>1, <1>8, <1>9 DEF PromiseInv
<1>11. allocated' \in {None} \cup PageId
  BY <1>1, <1>5, <1>6, NewPageId
<1>12. PagesTypeOK'
  <2>1. \A q \in DOMAIN promised' : (q + 1) * Parts <= Len(file')
    BY <1>8 DEF Holds
  <2>2. /\ is_open' \in BOOLEAN /\ Len(stable') <= Len(file') /\ stable' \in Seq(Part)
    BY <1>1, <1>2, <1>4 DEF FileInv, PagesTypeOK
  <2>3. DOMAIN promised' \subseteq Nat
    BY <1>8
  <2> QED BY <1>1, <1>4, <1>9, <1>11, <2>1, <2>2, <2>3, FileTypeNext
<1> QED BY <1>10, <1>12 DEF FileInv

\* page_write of 01 takes back what was promised of the page until it has synced.
LEMMA FileWriteFile ==
    ASSUME FileInv, NEW p \in PageId, NEW d \in Data, NEW k \in 0 .. Parts,
           FileWrite(p, d, k)
    PROVE  FileInv'
<1>1. /\ program = "file_io" /\ WritePart(p * Parts, DataPage(d), k)
      /\ promised' = IF k = 0 THEN promised ELSE Drop(promised, p)
      /\ \/ k = Parts /\ writing' = <<p, d>> /\ is_open' = is_open
         \/ writing' = <<>> /\ is_open' = FALSE
      /\ allocated' = None /\ UNCHANGED program
  BY DEF FileWrite, Calling, Gone
<1>2. p \in Nat /\ DataPage(d) \in [1 .. Parts -> Part]
  BY PagesWritten DEF PageId
<1>3. p * Parts \in Nat /\ Parts \in Nat /\ Parts # 0
  BY <1>2, PageEnds
<1>4. /\ file' \in Seq(Part) /\ Len(file') <= Room /\ Len(file) <= Len(file')
      /\ stable' = stable
  BY <1>1, <1>2, <1>3, WriteEffect
<1>5. /\ Len(file) \in Nat /\ Len(file') \in Nat /\ stable \in Seq(Part) /\ Len(stable) \in Nat
      /\ Len(stable) <= Len(file) /\ DOMAIN promised \subseteq Nat
  BY <1>4, FileTypes
<1>6. /\ DOMAIN promised' \subseteq Nat
      /\ \A q \in DOMAIN promised' : q \in DOMAIN promised /\ promised'[q] = promised[q]
      /\ p \in DOMAIN promised' => k = 0
  <2>1. CASE k = 0
    BY <1>1, <1>5, <2>1
  <2>2. CASE k # 0
    <3>1. promised' = Drop(promised, p)
      BY <1>1, <2>2
    <3>2. /\ DOMAIN promised' = DOMAIN promised \ {p}
          /\ \A q \in DOMAIN promised : q # p => promised'[q] = promised[q]
      BY <3>1, DropDomain, DropField
    <3> QED BY <1>5, <3>2
  <2> QED BY <2>1, <2>2
<1>7. \A q \in DOMAIN promised' : /\ promised'[q] \in [1 .. Parts -> Part]
                                  /\ Holds(file', q, promised'[q])
  BY <1>1, <1>2, <1>6, PromisedHeld
<1>8. \A q \in DOMAIN promised' : Holds(stable', q, promised'[q])
  BY <1>1, <1>4, <1>6 DEF FileInv, PromiseInv
<1>9. writing' # <<>> => Holds(file', writing'[1], DataPage(writing'[2]))
  <2>1. k = Parts => Holds(file', p, DataPage(d))
    BY <1>1, <1>2, WholeHeld
  <2> QED BY <1>1, <2>1
<1>10. PromiseInv'
  BY <1>1, <1>7, <1>8, <1>9 DEF PromiseInv
<1>11. PagesTypeOK'
  <2>1. \A q \in DOMAIN promised' : (q + 1) * Parts <= Len(file')
    BY <1>7 DEF Holds
  <2>2. Len(stable') <= Len(file') /\ stable' \in Seq(Part)
    BY <1>4, <1>5
  <2>3. is_open' \in BOOLEAN
    BY <1>1 DEF FileInv, PagesTypeOK
  <2>4. writing' = <<>> \/ writing' \in PageId \X Data
    BY <1>1
  <2> QED BY <1>1, <1>4, <1>6, <2>1, <2>2, <2>3, <2>4, FileTypeNext
<1> QED BY <1>10, <1>11 DEF FileInv

\* After fsync the disk holds the file.
LEMMA FsyncFile == FileInv /\ Fsync => FileInv'
<1> SUFFICES ASSUME FileInv, Fsync PROVE FileInv'
  OBVIOUS
<1> DEFINE p == writing[1]
           x == DataPage(writing[2])
<1>1. /\ program = "file_io" /\ writing # <<>> /\ stable' = file /\ writing' = <<>>
      /\ promised' = Put(promised, p, x) /\ UNCHANGED <<program, is_open, file, allocated>>
  BY DEF Fsync, Calling
<1>2. writing \in PageId \X Data /\ Holds(file, p, x)
  BY <1>1 DEF FileInv, PagesTypeOK, PromiseInv
<1>3. p \in Nat /\ x \in [1 .. Parts -> Part]
  BY <1>2, PagesWritten DEF PageId
<1>4. file \in Seq(Part) /\ Len(file) \in Nat /\ Len(file) <= Room /\ DOMAIN promised \subseteq Nat
  BY FileTypes
<1> HIDE DEF p, x
<1>5. \A q \in DOMAIN promised' : /\ q \in Nat /\ promised'[q] \in [1 .. Parts -> Part]
                                  /\ Holds(file, q, promised'[q])
  <2>1. DOMAIN promised' = DOMAIN promised \cup {p}
    BY <1>1, PutDomain
  <2>2. promised'[p] = x /\ \A q \in DOMAIN promised : q # p => promised'[q] = promised[q]
    BY <1>1, PutField
  <2>3. \A q \in DOMAIN promised : /\ promised[q] \in [1 .. Parts -> Part]
                                   /\ Holds(file, q, promised[q])
    BY DEF FileInv, PromiseInv
  <2> QED BY <1>2, <1>3, <1>4, <2>1, <2>2, <2>3
<1>6. PromiseInv'
  <2>1. allocated' = None
    BY <1>1 DEF FileInv, PromiseInv
  <2>2. \A q \in DOMAIN promised' : Holds(file', q, promised'[q]) /\ Holds(stable', q, promised'[q])
    BY <1>1, <1>5 DEF Holds
  <2> QED BY <1>1, <1>5, <2>1, <2>2 DEF PromiseInv
<1>7. PagesTypeOK'
  <2>1. \A q \in DOMAIN promised' : (q + 1) * Parts <= Len(file')
    BY <1>1, <1>5 DEF Holds
  <2>2. DOMAIN promised' \subseteq Nat
    BY <1>5
  <2>3. /\ is_open' \in BOOLEAN /\ Len(stable') <= Len(file')
        /\ allocated' \in {None} \cup PageId
    BY <1>1, <1>4 DEF FileInv, PagesTypeOK
  <2> QED BY <1>1, <1>4, <2>1, <2>2, <2>3, FileTypeNext
<1> QED BY <1>6, <1>7 DEF FileInv

LEMMA FileNext == FileInv /\ [PagesNext]_pagesVars => FileInv'
<1> SUFFICES ASSUME FileInv, [PagesNext]_pagesVars PROVE FileInv'
  OBVIOUS
<1>1. CASE Open \/ CloseFile \/ Writeback \/ PowerLoss \/ Fsync
  BY <1>1, OpenCloseFile, WritebackFile, PowerLossFile, FsyncFile
<1>2. ASSUME NEW k \in 0 .. Parts, DiskManagerAllocate(k) \/ HeapAllocate(k)
      PROVE  FileInv'
  BY <1>2, DiskManagerFile, HeapAllocateFile
<1>3. ASSUME NEW p \in PageId, NEW d \in Data, NEW k \in 0 .. Parts,
             DiskManagerWrite(p, d, k) \/ HeapWrite(p, d, k) \/ FileWrite(p, d, k)
      PROVE  FileInv'
  BY <1>3, DiskManagerFile, FileWriteFile
<1>4. CASE UNCHANGED pagesVars
  BY <1>4 DEF pagesVars, FileInv, PagesTypeOK, PromiseInv, new_page_id
<1> QED BY <1>1, <1>2, <1>3, <1>4 DEF PagesNext

LEMMA FileInvariant == PagesSpec => []FileInv
  BY FileInit, FileNext, PTL DEF PagesSpec

----------------------------------------------------------------------------
(* Theorems. *)

\* Every variable of the page layers keeps its type, and a page that was promised
\* is wholly in the file.
THEOREM PagesTypeCorrect == PagesSpec => []PagesTypeOK
<1>1. FileInv => PagesTypeOK
  BY DEF FileInv
<1> QED BY <1>1, FileInvariant, PTL

\* page_read returns what the last successful call has put into a page, after any
\* calls that were cut short, and in 01-file-io after a loss of power as well.
THEOREM PagesReadBack == PagesSpec => []ReadsBack
<1>1. FileInv => ReadsBack
  <2> SUFFICES ASSUME FileInv, NEW p \in DOMAIN promised PROVE PageRead(p) = promised[p]
    BY DEF ReadsBack
  <2>1. /\ p \in Nat /\ file \in Seq(Part) /\ promised[p] \in [1 .. Parts -> Part]
        /\ Holds(file, p, promised[p])
    BY FileTypes DEF FileInv, PromiseInv
  <2>2. ReadFrom(file, p) = promised[p]
    BY <2>1, ReadHolds
  <2> QED BY <2>1, <2>2 DEF PageRead, Holds
<1> QED BY <1>1, FileInvariant, PTL

\* page_allocate returns the id of a page that can be read and that no successful
\* call has named before.
THEOREM PagesAllocatedFresh == PagesSpec => AllocatesFresh
<1> DEFINE Fresh == allocated' # None => allocated' \in DOMAIN promised' \ DOMAIN promised
<1>1. FileInv /\ [PagesNext]_pagesVars => [Fresh]_pagesVars
  <2> SUFFICES ASSUME FileInv, PagesNext, allocated' # None
               PROVE  allocated' \in DOMAIN promised' \ DOMAIN promised
    OBVIOUS
  <2>1. new_page_id \notin DOMAIN promised
    BY FileTypes, WholePages DEF FileInv, PagesTypeOK, new_page_id
  <2>2. ASSUME NEW k \in 0 .. Parts, DiskManagerAllocate(k) \/ HeapAllocate(k)
        PROVE  allocated' \in DOMAIN promised' \ DOMAIN promised
    <3>1. k = Parts /\ allocated' = new_page_id
      BY <2>2 DEF DiskManagerAllocate, HeapAllocate, Returned
    <3>2. new_page_id \in DOMAIN promised'
      <4>1. PICK x : promised' = Put(promised, new_page_id, x)
        <5>1. Parts \in Nat \ {0}
          BY SizesAssumption
        <5> QED BY <2>2, <3>1, <5>1 DEF DiskManagerAllocate, HeapAllocate, Promised
      <4>2. DOMAIN promised' = DOMAIN promised \cup {new_page_id}
        BY <4>1, PutDomain
      <4> QED BY <4>2
    <3> QED BY <2>1, <3>1, <3>2
  <2>3. ASSUME Fsync PROVE FALSE
    BY <2>3 DEF Fsync, Calling, FileInv, PromiseInv
  <2> QED BY <2>2, <2>3 DEF PagesNext, Open, CloseFile, Writeback, PowerLoss,
                         DiskManagerWrite, HeapWrite, FileWrite, PageWrite
<1> HIDE DEF Fresh
<1>2. PagesSpec => [][Fresh]_pagesVars
  BY <1>1, FileInvariant, PTL DEF PagesSpec
<1> QED BY <1>2 DEF Fresh, AllocatesFresh
=============================================================================
