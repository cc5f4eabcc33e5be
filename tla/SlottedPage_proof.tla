------------------------- MODULE SlottedPage_proof -------------------------
(***************************************************************************)
(* Proofs about SlottedPage, for every page size, set of records and       *)
(* record lengths.                                                         *)
(***************************************************************************)
EXTENDS SlottedPage, FiniteSetTheorems, TLAPS

\* The contents c name the record each live slot of pg was given, and the slot
\* has its length.
Recorded(pg, c) == \A s \in SlotId(pg) :
    /\ c[s] = NoRecord => pg.slot[s].length = 0
    /\ c[s] # NoRecord => pg.slot[s].length = Length[c[s]] /\ Length[c[s]] # 0

\* The bytes of a live slot are those of its record.
BytesIntact(pg, c) == \A s \in Live(pg) : \A k \in 0 .. pg.slot[s].length - 1 :
    pg.data[pg.slot[s].offset + k] = <<c[s], k>>

\* The records that page_compact has yet to move lie in the order of their
\* slots, none of them below the place n where the next one goes.
InOrder(pg, c, n) == \A s \in Pending(pg, c) \cap Live(pg) :
    /\ n <= pg.slot[s].offset
    /\ \A t \in Pending(pg, c) \cap Live(pg) :
          s < t => pg.slot[s].offset + pg.slot[s].length <= pg.slot[t].offset

IInv ==
    /\ TypeOK
    /\ LayoutSound
    /\ CompactionSound
    /\ Recorded(page, contents)
    /\ request # NoRecord => Length[request] # 0
    /\ ~scrambled => /\ BytesIntact(page, contents)
                     /\ pc = "compact" => InOrder(page, cursor, new_free_start)

USE DEF HeaderSize, SlotSize, UInt16
----------------------------------------------------------------------------
\* MaxUInt16 is a number; its value is never needed.
LEMMA MaxUInt16Nat == MaxUInt16 \in Nat
  BY DEF MaxUInt16

(* The operations on one page. *)

\* page_init leaves a sound page without slots.
LEMMA EmptyPageType == PageType(EmptyPage) /\ PageOK(EmptyPage) /\ SlotId(EmptyPage) = {}
<1>1. /\ EmptyPage.slot_count = 0 /\ EmptyPage.free_start = HeaderSize
      /\ EmptyPage.free_end = PAGE_SIZE
      /\ EmptyPage.slot = [s \in 0 .. -1 |-> [offset |-> 0, length |-> 0]]
      /\ EmptyPage.data = [i \in Address |-> Zero]
  BY DEF EmptyPage
<1>2. SlotId(EmptyPage) = {}
  BY <1>1 DEF SlotId
<1>3. PageType(EmptyPage)
  <2>1. 0 .. -1 = {}
    OBVIOUS
  <2>2. EmptyPage.slot \in [{} -> Slot]
    BY <1>1, <2>1
  <2>3. EmptyPage.data \in [Address -> Byte]
    BY <1>1 DEF Byte
  <2>4. /\ EmptyPage.slot_count \in UInt16 /\ EmptyPage.free_start \in UInt16
        /\ EmptyPage.free_end \in UInt16
    BY <1>1, PageSizeAssumption, MaxUInt16Nat
  <2>5. EmptyPage = [slot_count |-> EmptyPage.slot_count, free_start |-> EmptyPage.free_start,
                     free_end |-> EmptyPage.free_end, slot |-> EmptyPage.slot,
                     data |-> EmptyPage.data]
    BY DEF EmptyPage
  <2> QED BY <1>2, <2>2, <2>3, <2>4, <2>5 DEF PageType
<1>4. HeaderOK(EmptyPage)
  BY <1>1, PageSizeAssumption, MaxUInt16Nat DEF HeaderOK
<1>5. Live(EmptyPage) = {}
  BY <1>2 DEF Live
<1>6. PageOK(EmptyPage)
  BY <1>4, <1>5 DEF PageOK, Within, Disjoint
<1> QED BY <1>2, <1>3, <1>6

\* What PageType says of each field.
LEMMA PageFields ==
    ASSUME NEW pg, PageType(pg)
    PROVE  /\ pg.slot_count \in UInt16 /\ pg.free_start \in UInt16 /\ pg.free_end \in UInt16
           /\ SlotId(pg) \subseteq UInt16
           /\ pg.slot \in [SlotId(pg) -> Slot]
           /\ \A s \in SlotId(pg) : /\ pg.slot[s].offset \in UInt16
                                    /\ pg.slot[s].length \in UInt16
           /\ pg.data \in [Address -> Byte]
<1>1. /\ pg.slot_count \in UInt16 /\ pg.free_start \in UInt16 /\ pg.free_end \in UInt16
      /\ pg.slot \in [SlotId(pg) -> Slot] /\ pg.data \in [Address -> Byte]
  BY DEF PageType
<1>2. SlotId(pg) \subseteq UInt16
  BY <1>1, MaxUInt16Nat DEF SlotId
<1>3. \A s \in SlotId(pg) : pg.slot[s].offset \in UInt16 /\ pg.slot[s].length \in UInt16
  BY <1>1 DEF Slot
<1> QED BY <1>1, <1>2, <1>3

\* An assignment to fields of a page keeps its type.
LEMMA SetSlotsType ==
    ASSUME NEW pg, PageType(pg), NEW f \in [SlotId(pg) -> Slot]
    PROVE  PageType([pg EXCEPT !.slot = f]) /\ SlotId([pg EXCEPT !.slot = f]) = SlotId(pg)
<1>1. [pg EXCEPT !.slot = f].slot_count = pg.slot_count
  BY DEF PageType
<1>2. SlotId([pg EXCEPT !.slot = f]) = SlotId(pg)
  BY <1>1 DEF SlotId
<1> QED BY <1>2 DEF PageType

\* free_start alone changes no slot and no byte.
LEMMA SetFreeStartType ==
    ASSUME NEW pg, PageType(pg), NEW n \in UInt16
    PROVE  LET q == [pg EXCEPT !.free_start = n]
           IN  /\ PageType(q)
               /\ SlotId(q) = SlotId(pg) /\ Live(q) = Live(pg)
               /\ q.free_start = n /\ q.slot_count = pg.slot_count
               /\ q.free_end = pg.free_end /\ q.slot = pg.slot /\ q.data = pg.data
<1> DEFINE q == [pg EXCEPT !.free_start = n]
<1>1. /\ q.free_start = n /\ q.slot_count = pg.slot_count
      /\ q.free_end = pg.free_end /\ q.slot = pg.slot /\ q.data = pg.data
  BY DEF PageType
<1>2. SlotId(q) = SlotId(pg)
  BY <1>1 DEF SlotId
<1>3. Live(q) = Live(pg)
  BY <1>1, <1>2 DEF Live
<1>4. PageType(q)
  BY <1>2 DEF PageType
<1> QED BY <1>1, <1>2, <1>3, <1>4

\* memmove of one record changes that record's offset and the bytes it goes to.
LEMMA MoveRecordFields ==
    ASSUME NEW pg, PageType(pg), NEW s \in Live(pg), NEW dst \in UInt16
    PROVE  LET q == MoveRecord(pg, s, dst)
           IN  /\ q.slot_count = pg.slot_count
               /\ q.free_start = pg.free_start
               /\ q.free_end = pg.free_end
               /\ SlotId(q) = SlotId(pg) /\ Live(q) = Live(pg)
               /\ q.slot[s].offset = dst /\ q.slot[s].length = pg.slot[s].length
               /\ \A t \in SlotId(pg) \ {s} : q.slot[t] = pg.slot[t]
               /\ \A i \in Address : q.data[i] =
                     IF i \in dst .. dst + pg.slot[s].length - 1
                     THEN pg.data[pg.slot[s].offset + (i - dst)] ELSE pg.data[i]
<1> DEFINE q == MoveRecord(pg, s, dst)
<1>1. s \in SlotId(pg) /\ DOMAIN pg.slot = SlotId(pg)
  BY DEF Live, PageType
<1>2. /\ q.slot_count = pg.slot_count /\ q.free_start = pg.free_start
      /\ q.free_end = pg.free_end
      /\ q.slot = Put(pg.slot, s, [offset |-> dst, length |-> pg.slot[s].length])
      /\ q.data = [i \in Address |->
                     IF i \in dst .. dst + pg.slot[s].length - 1
                     THEN pg.data[pg.slot[s].offset + (i - dst)] ELSE pg.data[i]]
  BY DEF MoveRecord, PageType
<1>3. SlotId(q) = SlotId(pg)
  BY <1>2 DEF SlotId
<1>4. /\ q.slot[s].offset = dst /\ q.slot[s].length = pg.slot[s].length
      /\ \A t \in SlotId(pg) \ {s} : q.slot[t] = pg.slot[t]
  BY <1>1, <1>2 DEF Put
<1>5. Live(q) = Live(pg)
  BY <1>1, <1>3, <1>4 DEF Live
<1> QED BY <1>2, <1>3, <1>4, <1>5

\* It leaves a page.
LEMMA MoveRecordType ==
    ASSUME NEW pg, PageType(pg), NEW s \in Live(pg), NEW dst \in UInt16,
           pg.slot[s].offset + pg.slot[s].length <= PAGE_SIZE
    PROVE  PageType(MoveRecord(pg, s, dst))
<1> DEFINE src == pg.slot[s].offset
           len == pg.slot[s].length
           f == Put(pg.slot, s, [offset |-> dst, length |-> len])
           d == [i \in Address |-> IF i \in dst .. dst + len - 1
                                  THEN pg.data[src + (i - dst)] ELSE pg.data[i]]
<1>1. /\ s \in SlotId(pg) /\ pg.slot \in [SlotId(pg) -> Slot] /\ pg.data \in [Address -> Byte]
      /\ src \in UInt16 /\ len \in UInt16
  BY PageFields DEF Live
<1>2. f \in [SlotId(pg) -> Slot]
  BY <1>1 DEF Put, Slot
<1>3. ASSUME NEW i \in Address, i \in dst .. dst + len - 1
      PROVE  src + (i - dst) \in Address
  <2> HIDE DEF src, len
  <2>1. 0 <= src + (i - dst) /\ src + (i - dst) < src + len
    BY <1>1, <1>3, MaxUInt16Nat DEF Address
  <2>2. src + len <= PAGE_SIZE
    BY DEF src, len
  <2> QED BY <1>1, <1>3, <2>1, <2>2, PageSizeAssumption, MaxUInt16Nat DEF Address
<1>4. d \in [Address -> Byte]
  BY <1>1, <1>3
<1>5. MoveRecord(pg, s, dst) = [pg EXCEPT !.slot = f, !.data = d]
  BY DEF MoveRecord
<1> HIDE DEF f, d
<1>6. [pg EXCEPT !.slot = f, !.data = d] \in
         [slot_count : UInt16, free_start : UInt16, free_end : UInt16,
          slot : [SlotId(pg) -> Slot], data : [Address -> Byte]]
  BY <1>2, <1>4 DEF PageType
<1>7. SlotId(MoveRecord(pg, s, dst)) = SlotId(pg)
  BY MoveRecordFields
<1> QED BY <1>5, <1>6, <1>7 DEF PageType

\* memcpy of a new record, and its slot.
LEMMA PlaceHeader ==
    ASSUME NEW pg, NEW r, NEW id
    PROVE  LET q == Place(pg, r, id)
           IN  /\ q.slot_count = IF id < pg.slot_count THEN pg.slot_count ELSE pg.slot_count + 1
               /\ q.free_start = pg.free_start + Length[r]
               /\ q.free_end = IF id < pg.slot_count THEN pg.free_end ELSE pg.free_end - SlotSize
  BY DEF Place

\* The new slot is the only one added.
LEMMA PlaceSlotId ==
    ASSUME NEW pg, PageType(pg), NEW r \in Record, NEW id \in 0 .. pg.slot_count
    PROVE  SlotId(Place(pg, r, id)) = SlotId(pg) \cup {id}
  BY PageFields DEF Place, SlotId

\* It has the record's place and length, and the other slots are as they were.
LEMMA PlaceSlot ==
    ASSUME NEW pg, PageType(pg), NEW r, NEW id
    PROVE  LET q == Place(pg, r, id)
           IN  /\ q.slot[id].offset = pg.free_start
               /\ q.slot[id].length = Length[r]
               /\ \A t \in SlotId(pg) : t # id => q.slot[t] = pg.slot[t]
  BY DEF Place, Put, PageType

\* It is live.
LEMMA PlaceLive ==
    ASSUME NEW pg, PageType(pg), NEW r \in Record, Length[r] # 0, NEW id \in 0 .. pg.slot_count
    PROVE  Live(Place(pg, r, id)) = Live(pg) \cup {id}
<1> DEFINE q == Place(pg, r, id)
<1>1. SlotId(q) = SlotId(pg) \cup {id}
  BY PlaceSlotId
<1>2. /\ q.slot[id].length = Length[r]
      /\ \A t \in SlotId(pg) : t # id => q.slot[t] = pg.slot[t]
  BY PlaceSlot
<1> HIDE DEF q
<1>3. Live(q) = Live(pg) \cup {id}
  BY <1>1, <1>2 DEF Live
<1> QED BY <1>3 DEF q

\* The record's bytes are written, the others are as they were.
LEMMA PlaceData ==
    ASSUME NEW pg, NEW r, NEW id
    PROVE  \A i \in Address : Place(pg, r, id).data[i] =
               IF i \in pg.free_start .. pg.free_start + Length[r] - 1
               THEN <<r, i - pg.free_start>> ELSE pg.data[i]
  BY DEF Place

\* When the record fits no field of the header wraps.
LEMMA PlaceType ==
    ASSUME NEW pg, PageType(pg), HeaderOK(pg), NEW r \in Record,
           NEW id \in 0 .. pg.slot_count, Fits(pg, r, id)
    PROVE  PageType(Place(pg, r, id)) /\ HeaderOK(Place(pg, r, id))
<1> DEFINE q == Place(pg, r, id)
           f == Put(pg.slot, id, [offset |-> pg.free_start, length |-> Length[r]])
<1>1. /\ pg.slot_count \in UInt16 /\ pg.free_start \in UInt16 /\ pg.free_end \in UInt16
      /\ pg.slot \in [SlotId(pg) -> Slot] /\ pg.data \in [Address -> Byte]
  BY PageFields
<1>2. Length[r] \in UInt16
  BY LengthAssumption
<1>3. SlotId(q) = SlotId(pg) \cup {id}
  BY PlaceSlotId
<1>4. f \in [SlotId(q) -> Slot]
  BY <1>1, <1>2, <1>3 DEF Put, Slot
<1>5. q.data \in [Address -> Byte]
  <2>1. ASSUME NEW i \in Address, i \in pg.free_start .. pg.free_start + Length[r] - 1
        PROVE  <<r, i - pg.free_start>> \in Byte
    <3>1. i - pg.free_start \in UInt16
      BY <1>1, <1>2, <2>1, MaxUInt16Nat
    <3> QED BY <3>1 DEF Byte
  <2> QED BY <1>1, <2>1 DEF Place
<1>6. /\ q.slot_count = IF id < pg.slot_count THEN pg.slot_count ELSE pg.slot_count + 1
      /\ q.free_start = pg.free_start + Length[r]
      /\ q.free_end = IF id < pg.slot_count THEN pg.free_end ELSE pg.free_end - SlotSize
  BY DEF Place
<1> HIDE DEF q
<1>7. HeaderOK(q)
  BY <1>1, <1>2, <1>6, PageSizeAssumption, MaxUInt16Nat DEF HeaderOK, Fits, NeededSpace
<1>8. q.slot_count \in UInt16 /\ q.free_start \in UInt16 /\ q.free_end \in UInt16
  BY <1>1, <1>2, <1>6, <1>7, PageSizeAssumption, MaxUInt16Nat DEF HeaderOK
<1>9. q = [slot_count |-> q.slot_count, free_start |-> q.free_start, free_end |-> q.free_end,
           slot |-> f, data |-> q.data]
  BY DEF Place, q
<1> HIDE DEF f
<1>10. PageType(q)
  BY <1>4, <1>5, <1>8, <1>9 DEF PageType
<1> QED BY <1>7, <1>10 DEF q

\* A record stored in a free slot of a sound page leaves a sound page.
LEMMA PlaceOK ==
    ASSUME NEW pg, PageType(pg), PageOK(pg), NEW r \in Record, Length[r] # 0,
           NEW id \in 0 .. pg.slot_count, ReusableSlot(pg, id), Fits(pg, r, id)
    PROVE  PageOK(Place(pg, r, id))
<1> DEFINE q == Place(pg, r, id)
<1>1. id \notin Live(pg)
  BY PageFields DEF Live, ReusableSlot, SlotId
<1>2. /\ q.slot[id].offset = pg.free_start /\ q.slot[id].length = Length[r]
      /\ \A t \in SlotId(pg) : t # id => q.slot[t] = pg.slot[t]
  BY PlaceSlot
<1>3. Live(q) = Live(pg) \cup {id} /\ SlotId(q) = SlotId(pg) \cup {id}
  BY PlaceLive, PlaceSlotId
<1>4. q.free_start = pg.free_start + Length[r] /\ Length[r] \in UInt16
  BY PlaceHeader, LengthAssumption
<1>5. HeaderOK(q)
  BY PlaceType DEF PageOK
<1>6. /\ \A s \in SlotId(pg) : pg.slot[s].offset \in UInt16 /\ pg.slot[s].length \in UInt16
      /\ pg.free_start \in UInt16
      /\ Live(pg) \subseteq SlotId(pg)
  BY PageFields DEF Live
<1>7. \A s \in Live(pg) : /\ HeaderSize <= pg.slot[s].offset
                          /\ pg.slot[s].offset + pg.slot[s].length <= pg.free_start
  BY <1>6 DEF PageOK, Within
<1> HIDE DEF q
<1>8. \A s \in Live(pg) : q.slot[s] = pg.slot[s]
  BY <1>1, <1>2, <1>6
<1>9. HeaderSize <= pg.free_start
  BY DEF PageOK, HeaderOK
<1>10. Within(q, SlotId(q), HeaderSize, q.free_start)
  BY <1>2, <1>3, <1>4, <1>6, <1>7, <1>8, <1>9, MaxUInt16Nat DEF Within
<1>11. Disjoint(q, SlotId(q))
  <2> SUFFICES ASSUME NEW s \in Live(q), NEW t \in Live(q), s # t
               PROVE  \/ q.slot[s].offset + q.slot[s].length <= q.slot[t].offset
                      \/ q.slot[t].offset + q.slot[t].length <= q.slot[s].offset
    BY DEF Disjoint
  <2>1. CASE s = id
    BY <1>2, <1>3, <1>7, <1>8, <2>1
  <2>2. CASE t = id
    BY <1>2, <1>3, <1>7, <1>8, <2>2
  <2>3. CASE s # id /\ t # id
    BY <1>3, <1>6, <1>8, <2>3 DEF PageOK, Disjoint
  <2> QED BY <2>1, <2>2, <2>3
<1>12. PageOK(q)
  BY <1>5, <1>10, <1>11 DEF PageOK
<1> QED BY <1>12 DEF q

\* It keeps the bytes of the others, and its own are those of the record.
LEMMA PlaceBytes ==
    ASSUME NEW pg, PageType(pg), PageOK(pg), NEW r \in Record, Length[r] # 0,
           NEW id \in 0 .. pg.slot_count, ReusableSlot(pg, id), Fits(pg, r, id),
           NEW c, DOMAIN c = SlotId(pg)
    PROVE  /\ Recorded(pg, c) => Recorded(Place(pg, r, id), Put(c, id, r))
           /\ BytesIntact(pg, c) => BytesIntact(Place(pg, r, id), Put(c, id, r))
<1> DEFINE q == Place(pg, r, id)
           d == Put(c, id, r)
<1>1. id \notin Live(pg)
  BY PageFields DEF Live, ReusableSlot, SlotId
<1>2. /\ q.slot[id].offset = pg.free_start /\ q.slot[id].length = Length[r]
      /\ \A t \in SlotId(pg) : t # id => q.slot[t] = pg.slot[t]
  BY PlaceSlot
<1>3. Live(q) = Live(pg) \cup {id} /\ SlotId(q) = SlotId(pg) \cup {id}
  BY PlaceLive, PlaceSlotId
<1>4. /\ \A s \in SlotId(pg) : pg.slot[s].offset \in UInt16 /\ pg.slot[s].length \in UInt16
      /\ pg.free_start \in UInt16 /\ pg.free_end \in UInt16 /\ pg.slot_count \in UInt16
      /\ Live(pg) \subseteq SlotId(pg)
      /\ Length[r] \in UInt16
  BY PageFields, LengthAssumption DEF Live
<1>5. d[id] = r /\ \A t \in SlotId(pg) : t # id => d[t] = c[t]
  BY DEF Put
<1>6. \A i \in Address : q.data[i] =
         IF i \in pg.free_start .. pg.free_start + Length[r] - 1
         THEN <<r, i - pg.free_start>> ELSE pg.data[i]
  BY PlaceData
<1>7. r # NoRecord
  BY NoRecordAssumption
<1>8. /\ HeaderSize <= pg.free_start /\ pg.free_start + Length[r] <= PAGE_SIZE
      /\ pg.free_start <= PAGE_SIZE
  BY <1>4, PageSizeAssumption, MaxUInt16Nat DEF PageOK, HeaderOK, Fits, NeededSpace
<1> HIDE DEF q, d
<1>9. ASSUME Recorded(pg, c)
      PROVE  Recorded(q, d)
  BY <1>2, <1>3, <1>5, <1>7, <1>9 DEF Recorded
<1>10. ASSUME BytesIntact(pg, c), NEW s \in Live(q), NEW k \in 0 .. q.slot[s].length - 1
       PROVE  q.data[q.slot[s].offset + k] = <<d[s], k>>
  <2>1. CASE s = id
    <3>0. k \in 0 .. Length[r] - 1
      BY <1>2, <1>10, <2>1
    <3>1. /\ pg.free_start + k \in pg.free_start .. pg.free_start + Length[r] - 1
          /\ pg.free_start + k \in Address
          /\ (pg.free_start + k) - pg.free_start = k
      BY <1>4, <1>8, <3>0, PageSizeAssumption, MaxUInt16Nat DEF Address
    <3> QED BY <1>2, <1>5, <1>6, <2>1, <3>1
  <2>2. CASE s # id
    <3> DEFINE i == pg.slot[s].offset + k
    <3>1. s \in Live(pg) /\ s \in SlotId(pg) /\ q.slot[s] = pg.slot[s] /\ d[s] = c[s]
      BY <1>2, <1>3, <1>4, <1>5, <2>2
    <3>2. pg.slot[s].offset + pg.slot[s].length <= pg.free_start
      BY <3>1 DEF PageOK, Within
    <3>3. i \in Address /\ i < pg.free_start
      BY <1>4, <1>8, <1>10, <3>1, <3>2, PageSizeAssumption, MaxUInt16Nat DEF Address
    <3>4. pg.data[i] = <<c[s], k>>
      BY <1>10, <3>1 DEF BytesIntact
    <3> HIDE DEF i
    <3>5. i \notin pg.free_start .. pg.free_start + Length[r] - 1
      BY <1>4, <3>3, MaxUInt16Nat DEF Address
    <3>6. q.data[i] = pg.data[i]
      BY <1>6, <3>3, <3>5
    <3> QED BY <3>1, <3>4, <3>6 DEF i
  <2> QED BY <2>1, <2>2
<1>11. BytesIntact(pg, c) => BytesIntact(q, d)
  BY <1>10 DEF BytesIntact
<1> QED BY <1>9, <1>11 DEF q, d
----------------------------------------------------------------------------
(* The loop of page_compact. *)

\* The records of slot c and of those after it: what they cover is what the
\* first one and the others cover.
LEMMA PendingBytes ==
    ASSUME NEW pg, PageType(pg), NEW c \in Live(pg), Disjoint(pg, Pending(pg, c)),
           Within(pg, Pending(pg, c), HeaderSize, pg.free_start)
    PROVE  /\ Cardinality(Bytes(pg, Pending(pg, c)))
                  = pg.slot[c].length + Cardinality(Bytes(pg, Pending(pg, c + 1)))
           /\ Cardinality(Bytes(pg, Pending(pg, c + 1))) \in Nat
           /\ pg.slot[c].offset + pg.slot[c].length <= pg.free_start
<1> DEFINE all == Bytes(pg, Pending(pg, c))
           rest == Bytes(pg, Pending(pg, c + 1))
           own == Extent(pg, c)
           off == pg.slot[c].offset
           len == pg.slot[c].length
<1>1. /\ pg.slot_count \in UInt16 /\ pg.free_start \in UInt16 /\ pg.free_end \in UInt16
      /\ \A s \in Live(pg) : pg.slot[s].offset \in UInt16 /\ pg.slot[s].length \in UInt16
      /\ Live(pg) \subseteq SlotId(pg)
  BY PageFields DEF Live
<1>2. c \in Pending(pg, c) /\ Pending(pg, c) = {c} \cup Pending(pg, c + 1)
  BY <1>1 DEF SlotId, Pending
<1>3. c \notin Pending(pg, c + 1)
  BY <1>1 DEF SlotId, Pending
<1>4. /\ \A s \in Pending(pg, c) \cap Live(pg) :
             HeaderSize <= pg.slot[s].offset /\ pg.slot[s].offset + pg.slot[s].length <= pg.free_start
  BY DEF Within
<1>5. all \subseteq HeaderSize .. pg.free_start - 1
  <2> SUFFICES ASSUME NEW s \in Pending(pg, c) \cap Live(pg), NEW i \in Extent(pg, s)
               PROVE  i \in HeaderSize .. pg.free_start - 1
    BY DEF Bytes
  <2> QED BY <1>1, <1>4, MaxUInt16Nat DEF Extent
<1>6. IsFiniteSet(all)
  <2> DEFINE lo == HeaderSize
             hi == pg.free_start - 1
  <2>1. IsFiniteSet(HeaderSize .. pg.free_start - 1)
    <3>1. lo \in Int /\ hi \in Int
      BY <1>1, MaxUInt16Nat
    <3> HIDE DEF lo, hi
    <3>2. IsFiniteSet(lo .. hi)
      BY <3>1, FS_Interval
    <3> QED BY <3>2 DEF lo, hi
  <2> QED BY <1>5, <2>1, FS_Subset
<1>7. own \subseteq all /\ rest \subseteq all /\ all = own \cup rest
  BY <1>2 DEF Bytes
<1>8. own \cap rest = {}
  <2> SUFFICES ASSUME NEW t \in Pending(pg, c + 1) \cap Live(pg), NEW i \in own, i \in Extent(pg, t)
               PROVE  FALSE
    BY DEF Bytes
  <2>1. t # c
    BY <1>3
  <2>2. \/ off + len <= pg.slot[t].offset
        \/ pg.slot[t].offset + pg.slot[t].length <= off
    BY <1>2, <2>1 DEF Disjoint
  <2> QED BY <1>1, <2>2, MaxUInt16Nat DEF Extent
<1>9. Cardinality(own) = len
  <2> DEFINE last == off + len - 1
  <2>1. off \in Int /\ last \in Int /\ len \in Int /\ len > 0
    BY <1>1, MaxUInt16Nat DEF Live
  <2>2. own = off .. last
    BY DEF Extent
  <2>3. last = off + len - 1
    OBVIOUS
  <2> HIDE DEF off, len, own, last
  <2>4. Cardinality(off .. last) = IF off > last THEN 0 ELSE last - off + 1
    BY <2>1, FS_Interval
  <2> QED BY <2>1, <2>2, <2>3, <2>4
<1>10. /\ Cardinality(all) = Cardinality(own) + Cardinality(rest)
       /\ Cardinality(rest) \in Nat
  <2>1. IsFiniteSet(own) /\ IsFiniteSet(rest)
    BY <1>6, <1>7, FS_Subset
  <2>2. /\ Cardinality(own \cup rest) = Cardinality(own) + Cardinality(rest) - Cardinality(own \cap rest)
        /\ Cardinality(own \cap rest) = 0
        /\ Cardinality(rest) \in Nat /\ Cardinality(own) \in Nat
    BY <1>8, <2>1, FS_Union, FS_EmptySet, FS_CardinalityType
  <2> QED BY <1>7, <2>2
<1>11. off + len <= pg.free_start
  BY <1>2, <1>4
<1> HIDE DEF all, rest, own
<1> QED BY <1>9, <1>10, <1>11 DEF all, rest

\* What a record moved by the loop finds: it lies below free_start, it has the
\* room it needs, and the bytes still to be moved are those of the others.
LEMMA MoveRoom ==
    ASSUME NEW pg, PageType(pg), NEW c \in Live(pg), NEW n \in UInt16, LoopLayout(pg, c, n)
    PROVE  /\ pg.slot[c].offset + pg.slot[c].length <= pg.free_start
           /\ pg.free_start <= PAGE_SIZE
           /\ n + pg.slot[c].length + Cardinality(Bytes(pg, Pending(pg, c + 1))) <= pg.free_start
           /\ Cardinality(Bytes(pg, Pending(pg, c + 1))) \in Nat
<1> DEFINE all == Cardinality(Bytes(pg, Pending(pg, c)))
           rest == Cardinality(Bytes(pg, Pending(pg, c + 1)))
           len == pg.slot[c].length
<1>1. /\ pg.slot_count \in UInt16 /\ pg.free_start \in UInt16 /\ pg.free_end \in UInt16
      /\ len \in UInt16
  BY PageFields DEF Live
<1>2. /\ all = len + rest /\ rest \in Nat
      /\ pg.slot[c].offset + pg.slot[c].length <= pg.free_start
  BY PendingBytes DEF LoopLayout
<1>3. n + all <= pg.free_start /\ pg.free_start <= PAGE_SIZE
  BY <1>1, PageSizeAssumption, MaxUInt16Nat DEF LoopLayout, HeaderOK
<1> HIDE DEF all, rest, len
<1>4. n + len + rest <= pg.free_start
  BY <1>1, <1>2, <1>3, MaxUInt16Nat
<1> QED BY <1>2, <1>3, <1>4 DEF rest, len

\* page_compact enters its loop on a sound page.
LEMMA EnterLayout ==
    ASSUME NEW pg, PageType(pg), PageOK(pg)
    PROVE  /\ LoopLayout(pg, 0, HeaderSize)
           /\ Cardinality(Bytes(pg, SlotId(pg))) \in Nat
           /\ Ordered(pg) => InOrder(pg, 0, HeaderSize)
<1>1. /\ pg.slot_count \in UInt16 /\ pg.free_start \in UInt16
      /\ \A s \in Live(pg) : /\ pg.slot[s].offset \in UInt16
                             /\ pg.slot[s].length \in UInt16
                             /\ pg.slot[s].length # 0
      /\ Live(pg) \subseteq SlotId(pg)
  BY PageFields DEF Live
<1>2. Moved(0) = {} /\ Pending(pg, 0) = SlotId(pg)
  BY DEF Moved, Pending, SlotId
<1>3. HeaderOK(pg) /\ Within(pg, SlotId(pg), HeaderSize, pg.free_start) /\ Disjoint(pg, SlotId(pg))
  BY DEF PageOK
<1>4. /\ HeaderSize + Cardinality(Bytes(pg, SlotId(pg))) <= pg.free_start
      /\ Cardinality(Bytes(pg, SlotId(pg))) \in Nat
  <2> DEFINE lo == HeaderSize
             hi == pg.free_start - 1
             all == Bytes(pg, SlotId(pg))
  <2>1. all \subseteq lo .. hi
    <3> SUFFICES ASSUME NEW s \in Live(pg), NEW i \in Extent(pg, s)
                 PROVE  i \in lo .. hi
      BY DEF Bytes
    <3>1. HeaderSize <= pg.slot[s].offset /\ pg.slot[s].offset + pg.slot[s].length <= pg.free_start
      BY <1>1, <1>3 DEF Within
    <3> QED BY <1>1, <3>1, MaxUInt16Nat DEF Extent
  <2>2. lo \in Int /\ hi \in Int /\ hi - lo + 1 = pg.free_start - HeaderSize /\ hi + 1 >= lo
    BY <1>1, <1>3, MaxUInt16Nat DEF HeaderOK
  <2> HIDE DEF lo, hi, all
  <2>3. IsFiniteSet(lo .. hi) /\ Cardinality(lo .. hi) = IF lo > hi THEN 0 ELSE hi - lo + 1
    BY <2>2, FS_Interval
  <2>4. Cardinality(all) <= Cardinality(lo .. hi) /\ IsFiniteSet(all)
    BY <2>1, <2>3, FS_Subset
  <2>5. Cardinality(all) \in Nat
    BY <2>4, FS_CardinalityType
  <2> QED BY <1>1, <2>2, <2>3, <2>4, <2>5, MaxUInt16Nat DEF all
<1>5. LoopLayout(pg, 0, HeaderSize)
  <2>1. Within(pg, {}, HeaderSize, HeaderSize) /\ Disjoint(pg, {}) /\ Packed(pg, {}, HeaderSize)
    BY DEF Within, Disjoint, Packed
  <2> QED BY <1>2, <1>3, <1>4, <2>1 DEF LoopLayout
<1>6. ASSUME Ordered(pg)
      PROVE  InOrder(pg, 0, HeaderSize)
  <2>1. \A s \in Live(pg) : HeaderSize <= pg.slot[s].offset
    BY <1>1, <1>3 DEF Within
  <2>2. ASSUME NEW s \in Live(pg), NEW t \in Live(pg), s < t
        PROVE  pg.slot[s].offset + pg.slot[s].length <= pg.slot[t].offset
    <3>1. s # t
      BY <1>1, <2>2 DEF SlotId
    <3>2. \/ pg.slot[s].offset + pg.slot[s].length <= pg.slot[t].offset
          \/ pg.slot[t].offset + pg.slot[t].length <= pg.slot[s].offset
      BY <1>1, <1>3, <3>1 DEF Disjoint
    <3>3. pg.slot[s].offset < pg.slot[t].offset
      BY <1>6, <2>2 DEF Ordered
    <3> QED BY <1>1, <3>2, <3>3, MaxUInt16Nat
  <2> QED BY <1>2, <2>1, <2>2 DEF InOrder
<1> QED BY <1>4, <1>5, <1>6

\* An iteration that skips a deleted slot.
LEMMA SkipLayout ==
    ASSUME NEW pg, PageType(pg), NEW c \in SlotId(pg), c \notin Live(pg), NEW n,
           LoopLayout(pg, c, n)
    PROVE  LoopLayout(pg, c + 1, n) /\ (InOrder(pg, c, n) => InOrder(pg, c + 1, n))
<1>1. /\ Moved(c + 1) \cap Live(pg) = Moved(c) \cap Live(pg)
      /\ Pending(pg, c + 1) \cap Live(pg) = Pending(pg, c) \cap Live(pg)
  BY PageFields, MaxUInt16Nat DEF Moved, Pending, SlotId, Live
<1> QED BY <1>1 DEF LoopLayout, Within, Disjoint, Packed, Bytes, InOrder

\* An iteration that moves a record.
LEMMA MoveLayout ==
    ASSUME NEW pg, PageType(pg), NEW c \in Live(pg), NEW n \in UInt16, LoopLayout(pg, c, n)
    PROVE  LoopLayout(MoveRecord(pg, c, n), c + 1, n + pg.slot[c].length)
<1> DEFINE q == MoveRecord(pg, c, n)
           len == pg.slot[c].length
<1>1. /\ pg.slot_count \in UInt16 /\ pg.free_start \in UInt16 /\ pg.free_end \in UInt16
      /\ \A s \in Live(pg) : pg.slot[s].offset \in UInt16 /\ pg.slot[s].length \in UInt16
      /\ Live(pg) \subseteq SlotId(pg) /\ SlotId(pg) \subseteq UInt16
      /\ len \in UInt16 /\ len # 0
  BY PageFields DEF Live
<1>2. /\ q.slot_count = pg.slot_count /\ q.free_start = pg.free_start /\ q.free_end = pg.free_end
      /\ Live(q) = Live(pg)
      /\ q.slot[c].offset = n /\ q.slot[c].length = len
      /\ \A t \in Live(pg) : t # c => q.slot[t] = pg.slot[t]
  BY <1>1, MoveRecordFields
<1> HIDE DEF q
<1>3. /\ Moved(c + 1) = Moved(c) \cup {c} /\ c \notin Moved(c)
      /\ Pending(pg, c) = Pending(pg, c + 1) \cup {c} /\ c \notin Pending(pg, c + 1)
      /\ Pending(q, c + 1) = Pending(pg, c + 1)
  BY <1>1, <1>2, MaxUInt16Nat DEF Moved, Pending, SlotId
<1>4. HeaderOK(q) /\ HeaderSize <= n + len
  BY <1>1, <1>2, MaxUInt16Nat DEF LoopLayout, HeaderOK
<1>5. \A s \in Moved(c) \cap Live(pg) :
         /\ q.slot[s] = pg.slot[s]
         /\ HeaderSize <= pg.slot[s].offset /\ pg.slot[s].offset + pg.slot[s].length <= n
  BY <1>2, <1>3 DEF LoopLayout, Within
<1>6. Within(q, Moved(c + 1), HeaderSize, n + len)
  <2> SUFFICES ASSUME NEW s \in Moved(c + 1) \cap Live(pg)
               PROVE  HeaderSize <= q.slot[s].offset /\ q.slot[s].offset + q.slot[s].length <= n + len
    BY <1>2 DEF Within
  <2>1. CASE s = c
    BY <1>1, <1>2, <2>1, MaxUInt16Nat DEF LoopLayout
  <2>2. CASE s # c
    BY <1>1, <1>3, <1>5, <2>2, MaxUInt16Nat
  <2> QED BY <2>1, <2>2
<1>7. Disjoint(q, Moved(c + 1))
  <2> SUFFICES ASSUME NEW s \in Moved(c + 1) \cap Live(pg), NEW t \in Moved(c + 1) \cap Live(pg), s # t
               PROVE  \/ q.slot[s].offset + q.slot[s].length <= q.slot[t].offset
                      \/ q.slot[t].offset + q.slot[t].length <= q.slot[s].offset
    BY <1>2 DEF Disjoint
  <2>1. CASE s = c
    BY <1>2, <1>3, <1>5, <2>1
  <2>2. CASE t = c
    BY <1>2, <1>3, <1>5, <2>2
  <2>3. CASE s # c /\ t # c
    BY <1>3, <1>5, <2>3 DEF LoopLayout, Disjoint
  <2> QED BY <2>1, <2>2, <2>3
<1>8. Packed(q, Moved(c + 1), n + len)
  <2> DEFINE hi == n + len
  <2> HIDE DEF hi
  <2> SUFFICES ASSUME NEW i \in HeaderSize .. hi - 1
               PROVE  \E s \in Moved(c + 1) \cap Live(q) : i \in Extent(q, s)
    BY DEF Packed, hi
  <2>1. CASE i < n
    <3>1. i \in HeaderSize .. n - 1
      BY <1>1, <2>1, MaxUInt16Nat
    <3>2. PICK s \in Moved(c) \cap Live(pg) : i \in Extent(pg, s)
      BY <3>1 DEF LoopLayout, Packed
    <3>3. i \in Extent(q, s) /\ s \in Moved(c + 1)
      BY <1>3, <1>5, <3>2 DEF Extent
    <3> QED BY <1>2, <3>2, <3>3
  <2>2. CASE i >= n
    <3>1. i \in Extent(q, c)
      BY <1>1, <1>2, <2>2, MaxUInt16Nat DEF Extent, hi
    <3> QED BY <1>2, <1>3, <3>1
  <2> QED BY <1>1, <2>1, <2>2, MaxUInt16Nat
<1>9. /\ Within(q, Pending(q, c + 1), HeaderSize, q.free_start)
      /\ Disjoint(q, Pending(q, c + 1))
  BY <1>2, <1>3 DEF LoopLayout, Within, Disjoint
<1>10. n + len + Cardinality(Bytes(q, Pending(q, c + 1))) <= q.free_start
  <2>1. Bytes(q, Pending(q, c + 1)) = Bytes(pg, Pending(pg, c + 1))
    BY <1>2, <1>3 DEF Bytes, Extent
  <2> QED BY <1>2, <2>1, MoveRoom
<1>11. LoopLayout(q, c + 1, n + len)
  BY <1>4, <1>6, <1>7, <1>8, <1>9, <1>10 DEF LoopLayout
<1> QED BY <1>11 DEF q

\* While the records are met in the order in which they lie, none is moved over
\* one not yet moved: all keep their bytes.
LEMMA MoveBytes ==
    ASSUME NEW pg, PageType(pg), NEW c \in Live(pg), NEW n \in UInt16, LoopLayout(pg, c, n),
           InOrder(pg, c, n), NEW f, BytesIntact(pg, f)
    PROVE  /\ InOrder(MoveRecord(pg, c, n), c + 1, n + pg.slot[c].length)
           /\ BytesIntact(MoveRecord(pg, c, n), f)
<1> DEFINE q == MoveRecord(pg, c, n)
           src == pg.slot[c].offset
           len == pg.slot[c].length
<1>1. /\ pg.slot_count \in UInt16 /\ pg.free_start \in UInt16 /\ pg.free_start <= PAGE_SIZE
      /\ \A s \in Live(pg) : pg.slot[s].offset \in UInt16 /\ pg.slot[s].length \in UInt16
      /\ Live(pg) \subseteq SlotId(pg) /\ SlotId(pg) \subseteq UInt16
      /\ src \in UInt16 /\ len \in UInt16 /\ src + len <= pg.free_start
  BY PageFields, MoveRoom DEF Live
<1>2. /\ q.slot_count = pg.slot_count /\ Live(q) = Live(pg)
      /\ q.slot[c].offset = n /\ q.slot[c].length = len
      /\ \A t \in Live(pg) : t # c => q.slot[t] = pg.slot[t]
  BY <1>1, MoveRecordFields
<1>3. \A i \in Address : q.data[i] = IF i \in n .. n + len - 1
                                    THEN pg.data[src + (i - n)] ELSE pg.data[i]
  BY MoveRecordFields
<1> HIDE DEF q
<1>4. /\ Pending(q, c + 1) = Pending(pg, c + 1) /\ Pending(pg, c + 1) \subseteq Pending(pg, c)
      /\ c \in Pending(pg, c) /\ \A t \in Pending(pg, c + 1) : c < t
      /\ \A t \in Live(pg) : t \in Moved(c) \/ t = c \/ t \in Pending(pg, c + 1)
  BY <1>1, <1>2, MaxUInt16Nat DEF Moved, Pending, SlotId
<1>5. n <= src /\ \A t \in Pending(pg, c + 1) \cap Live(pg) : src + len <= pg.slot[t].offset
  BY <1>4 DEF InOrder
<1>6. InOrder(q, c + 1, n + len)
  <2>1. \A s \in Pending(pg, c + 1) \cap Live(pg) :
           /\ q.slot[s] = pg.slot[s]
           /\ n + len <= pg.slot[s].offset
    BY <1>1, <1>2, <1>4, <1>5, MaxUInt16Nat
  <2>2. \A s, t \in Pending(pg, c + 1) \cap Live(pg) :
           s < t => pg.slot[s].offset + pg.slot[s].length <= pg.slot[t].offset
    BY <1>4 DEF InOrder
  <2> QED BY <1>2, <1>4, <2>1, <2>2 DEF InOrder
<1>7. ASSUME NEW s \in Live(pg), NEW k \in 0 .. q.slot[s].length - 1
      PROVE  q.data[q.slot[s].offset + k] = <<f[s], k>>
  <2>1. CASE s = c
    <3> DEFINE i == n + k
               j == src + k
    <3>1. k \in 0 .. len - 1
      BY <1>2, <1>7, <2>1
    <3>2. i \in Address /\ i \in n .. n + len - 1 /\ src + (i - n) = j
      BY <1>1, <1>5, <3>1, PageSizeAssumption, MaxUInt16Nat DEF Address
    <3>3. pg.data[j] = <<f[c], k>>
      BY <3>1 DEF BytesIntact
    <3> HIDE DEF i, j
    <3>4. q.data[i] = pg.data[j]
      BY <1>3, <3>2
    <3> QED BY <1>2, <2>1, <3>3, <3>4 DEF i
  <2>2. CASE s # c
    <3> DEFINE i == pg.slot[s].offset + k
    <3>1. q.slot[s] = pg.slot[s] /\ k \in 0 .. pg.slot[s].length - 1
      BY <1>2, <1>7, <2>2
    <3>2. pg.data[i] = <<f[s], k>>
      BY <3>1 DEF BytesIntact
    <3>3. i \in Address /\ i \notin n .. n + len - 1
      <4>1. CASE s \in Moved(c)
        <5>1. pg.slot[s].offset + pg.slot[s].length <= n
          BY <4>1 DEF LoopLayout, Within
        <5> QED BY <1>1, <1>5, <3>1, <5>1, PageSizeAssumption, MaxUInt16Nat DEF Address
      <4>2. CASE s \in Pending(pg, c + 1)
        <5>1. /\ src + len <= pg.slot[s].offset
              /\ pg.slot[s].offset + pg.slot[s].length <= pg.free_start
          BY <1>4, <1>5, <4>2 DEF LoopLayout, Within
        <5> QED BY <1>1, <1>5, <3>1, <5>1, PageSizeAssumption, MaxUInt16Nat DEF Address
      <4> QED BY <1>4, <2>2, <4>1, <4>2
    <3> HIDE DEF i
    <3>4. q.data[i] = pg.data[i]
      BY <1>3, <3>3
    <3> QED BY <3>1, <3>2, <3>4 DEF i
  <2> QED BY <2>1, <2>2
<1>8. BytesIntact(q, f)
  BY <1>2, <1>7 DEF BytesIntact
<1> QED BY <1>6, <1>8 DEF q

\* The loop is over: the page is sound, and every byte below free_start is in a
\* live record.
LEMMA FinishLayout ==
    ASSUME NEW pg, PageType(pg), NEW n, n \in UInt16, LoopLayout(pg, pg.slot_count, n)
    PROVE  LET q == [pg EXCEPT !.free_start = n]
           IN  PageOK(q) /\ Packed(q, SlotId(q), n)
<1> DEFINE q == [pg EXCEPT !.free_start = n]
<1>1. /\ SlotId(q) = SlotId(pg) /\ Live(q) = Live(pg)
      /\ q.free_start = n /\ q.slot_count = pg.slot_count
      /\ q.free_end = pg.free_end /\ q.slot = pg.slot
  BY SetFreeStartType
<1>2. pg.slot_count \in UInt16 /\ pg.free_start \in UInt16 /\ pg.free_end \in UInt16
  BY PageFields
<1> HIDE DEF q
<1>3. Moved(pg.slot_count) = SlotId(pg) /\ Pending(pg, pg.slot_count) = {}
  BY <1>2, MaxUInt16Nat DEF Moved, Pending, SlotId
<1>4. n <= pg.free_start
  <2>1. Bytes(pg, {}) = {}
    BY DEF Bytes
  <2> QED BY <1>2, <1>3, <2>1, FS_EmptySet, MaxUInt16Nat DEF LoopLayout
<1>5. HeaderOK(q)
  BY <1>1, <1>2, <1>4, PageSizeAssumption, MaxUInt16Nat DEF LoopLayout, HeaderOK
<1>6. Within(q, SlotId(q), HeaderSize, n) /\ Disjoint(q, SlotId(q)) /\ Packed(q, SlotId(q), n)
  BY <1>1, <1>3 DEF LoopLayout, Within, Disjoint, Packed, Extent
<1> QED BY <1>1, <1>5, <1>6 DEF PageOK, q
----------------------------------------------------------------------------
(* Every step of the page keeps the invariant. *)

\* The invariant holds of a page that page_init has made.
LEMMA InitInv == Init => IInv
<1> SUFFICES ASSUME Init PROVE IInv
  OBVIOUS
<1>1. PageType(page) /\ PageOK(page) /\ SlotId(page) = {} /\ page.slot_count = 0
  BY EmptyPageType DEF Init, EmptyPage
<1>2. TypeOK
  <2>1. contents \in [SlotId(page) -> Record \cup {NoRecord}]
    <3>1. 0 .. -1 = {}
      OBVIOUS
    <3> QED BY <1>1, <3>1 DEF Init
  <2>2. /\ pc = "idle" /\ cursor = 0 /\ new_free_start = HeaderSize
        /\ request = NoRecord /\ ret = 0 /\ scrambled = FALSE
    BY DEF Init
  <2>3. HeaderSize \in UInt16 /\ 0 \in UInt16
    BY PageSizeAssumption, MaxUInt16Nat
  <2> QED BY <1>1, <2>1, <2>2, <2>3 DEF TypeOK
<1>3. LayoutSound /\ CompactionSound
  BY <1>1 DEF Init, LayoutSound, CompactionSound
<1>4. Recorded(page, contents) /\ BytesIntact(page, contents)
  BY <1>1 DEF Recorded, BytesIntact, Live
<1> QED BY <1>2, <1>3, <1>4 DEF Init, IInv

\* The end of a page_insert that stores its record in pg, the page as it is or
\* compacted.
LEMMA StoreInv ==
    ASSUME IInv, NEW pg, PageType(pg), PageOK(pg), SlotId(pg) = SlotId(page),
           Recorded(pg, contents), ~scrambled => BytesIntact(pg, contents),
           NEW r \in Record, Length[r] # 0, NEW id \in 0 .. pg.slot_count,
           ReusableSlot(pg, id), Fits(pg, r, id), Store(pg, r, id), UNCHANGED scrambled
    PROVE  IInv'
<1>1. /\ page' = Place(pg, r, id) /\ contents' = Put(contents, id, r)
      /\ ret' = id /\ pc' = "idle" /\ cursor' = 0 /\ new_free_start' = HeaderSize
      /\ request' = NoRecord
  BY DEF Store, Return
<1>2. PageType(page') /\ PageOK(page')
  BY <1>1, PlaceType, PlaceOK DEF PageOK
<1>3. contents \in [SlotId(pg) -> Record \cup {NoRecord}] /\ DOMAIN contents = SlotId(pg)
  BY DEF IInv, TypeOK
<1>4. contents' \in [SlotId(page') -> Record \cup {NoRecord}]
  <2>1. SlotId(page') = SlotId(pg) \cup {id}
    BY <1>1, PlaceSlotId
  <2> QED BY <1>1, <1>3, <2>1 DEF Put
<1>5. TypeOK'
  <2>1. 0 \in SlotId(page') \cup {page'.slot_count}
    <3>1. page'.slot_count \in UInt16
      BY <1>2, PageFields
    <3> QED BY <3>1, MaxUInt16Nat DEF SlotId
  <2>2. id \in UInt16
    BY PageFields, MaxUInt16Nat
  <2>3. scrambled' \in BOOLEAN
    BY DEF IInv, TypeOK
  <2> QED BY <1>1, <1>2, <1>4, <2>1, <2>2, <2>3, PageSizeAssumption, MaxUInt16Nat DEF TypeOK
<1>6. LayoutSound' /\ CompactionSound'
  BY <1>1, <1>2 DEF LayoutSound, CompactionSound
<1>7. Recorded(page', contents') /\ (~scrambled' => BytesIntact(page', contents'))
  BY <1>1, <1>3, PlaceBytes
<1> QED BY <1>1, <1>5, <1>6, <1>7 DEF IInv

\* A call that returns without storing a record or deleting one.
LEMMA ReturnInv ==
    ASSUME IInv, NEW pg, PageType(pg), PageOK(pg),
           SlotId(pg) = SlotId(page), pg.slot_count = page.slot_count,
           Recorded(pg, contents), ~scrambled => BytesIntact(pg, contents),
           page' = pg, NEW r \in {-1, 0}, Return(r), UNCHANGED <<contents, scrambled>>
    PROVE  IInv'
<1>1. /\ ret' = r /\ pc' = "idle" /\ cursor' = 0 /\ new_free_start' = HeaderSize
      /\ request' = NoRecord
  BY DEF Return
<1>2. TypeOK'
  <2>1. 0 \in SlotId(page') \cup {page'.slot_count}
    <3>1. page'.slot_count \in UInt16
      BY PageFields
    <3> QED BY <3>1, MaxUInt16Nat DEF SlotId
  <2>2. contents' \in [SlotId(page') -> Record \cup {NoRecord}] /\ scrambled' \in BOOLEAN
    BY DEF IInv, TypeOK
  <2> QED BY <1>1, <2>1, <2>2, PageSizeAssumption, MaxUInt16Nat DEF TypeOK
<1>3. LayoutSound' /\ CompactionSound'
  BY <1>1 DEF LayoutSound, CompactionSound
<1> QED BY <1>1, <1>2, <1>3 DEF IInv

\* page_compact before its first iteration.
LEMMA EnterInv ==
    ASSUME IInv, pc = "idle", NEW r \in Record \cup {NoRecord}, r # NoRecord => Length[r] # 0,
           EnterCompact(r)
    PROVE  IInv'
<1>1. /\ pc' = "compact" /\ cursor' = 0 /\ new_free_start' = HeaderSize /\ request' = r
      /\ scrambled' = (scrambled \/ ~Ordered(page))
      /\ page' = page /\ ret' = ret /\ contents' = contents
  BY DEF EnterCompact
<1>2. PageType(page) /\ PageOK(page)
  BY DEF IInv, TypeOK, LayoutSound
<1>3. LoopLayout(page, 0, HeaderSize) /\ (Ordered(page) => InOrder(page, 0, HeaderSize))
  BY <1>2, EnterLayout
<1>4. TypeOK'
  <2>1. 0 \in SlotId(page) \cup {page.slot_count}
    <3>1. page.slot_count \in UInt16
      BY <1>2, PageFields
    <3> QED BY <3>1, MaxUInt16Nat DEF SlotId
  <2>2. scrambled' \in BOOLEAN
    BY <1>1
  <2>3. HeaderSize \in UInt16
    BY PageSizeAssumption, MaxUInt16Nat
  <2> QED BY <1>1, <2>1, <2>2, <2>3 DEF IInv, TypeOK
<1>5. LayoutSound' /\ CompactionSound'
  BY <1>1, <1>3 DEF LayoutSound, CompactionSound
<1>6. ~scrambled' => ~scrambled /\ Ordered(page)
  BY <1>1 DEF IInv, TypeOK
<1> QED BY <1>1, <1>3, <1>4, <1>5, <1>6 DEF IInv

\* The page that page_compact leaves, for whoever called it.
LEMMA CompactedInv ==
    ASSUME IInv, pc = "compact", cursor = page.slot_count
    PROVE  /\ PageType(Compacted) /\ PageOK(Compacted)
           /\ SlotId(Compacted) = SlotId(page) /\ Compacted.slot_count = page.slot_count
           /\ Compacted.slot = page.slot /\ Live(Compacted) = Live(page)
           /\ Compacted.free_start = new_free_start
           /\ Packed(Compacted, SlotId(Compacted), new_free_start)
           /\ Recorded(Compacted, contents)
           /\ ~scrambled => BytesIntact(Compacted, contents)
<1>1. PageType(page) /\ new_free_start \in UInt16 /\ LoopLayout(page, page.slot_count, new_free_start)
  BY DEF IInv, TypeOK, CompactionSound
<1>2. /\ PageType(Compacted)
      /\ SlotId(Compacted) = SlotId(page) /\ Compacted.slot_count = page.slot_count
      /\ Compacted.slot = page.slot /\ Compacted.data = page.data /\ Live(Compacted) = Live(page)
      /\ Compacted.free_start = new_free_start
  BY <1>1, SetFreeStartType DEF Compacted
<1>3. PageOK(Compacted) /\ Packed(Compacted, SlotId(Compacted), new_free_start)
  BY <1>1, FinishLayout DEF Compacted
<1>4. Recorded(Compacted, contents) /\ (~scrambled => BytesIntact(Compacted, contents))
  BY <1>2 DEF IInv, Recorded, BytesIntact
<1> QED BY <1>2, <1>3, <1>4

\* An iteration of page_compact.
LEMMA CompactSlotInv == IInv /\ CompactSlot => IInv'
<1> SUFFICES ASSUME IInv, CompactSlot PROVE IInv'
  OBVIOUS
<1>1. /\ pc = "compact" /\ pc' = pc /\ cursor' = cursor + 1
      /\ cursor < page.slot_count
      /\ request' = request /\ ret' = ret /\ contents' = contents /\ scrambled' = scrambled
  BY DEF CompactSlot
<1>2. /\ PageType(page) /\ new_free_start \in UInt16
      /\ LoopLayout(page, cursor, new_free_start)
      /\ page.slot_count \in UInt16 /\ cursor \in SlotId(page)
      /\ cursor + 1 \in SlotId(page) \cup {page.slot_count}
  <2>1. PageType(page) /\ page.slot_count \in UInt16
    BY PageFields DEF IInv, TypeOK
  <2>2. cursor \in SlotId(page)
    BY <1>1, <2>1, MaxUInt16Nat DEF IInv, TypeOK
  <2>3. cursor + 1 \in SlotId(page) \cup {page.slot_count}
    BY <2>1, <2>2, MaxUInt16Nat DEF SlotId
  <2> QED BY <1>1, <2>1, <2>2, <2>3 DEF IInv, TypeOK, CompactionSound
<1>3. CASE page.slot[cursor].length = 0
  <2>1. page' = page /\ new_free_start' = new_free_start
    BY <1>3 DEF CompactSlot
  <2>2. cursor \notin Live(page)
    BY <1>3 DEF Live
  <2>3. /\ LoopLayout(page, cursor + 1, new_free_start)
        /\ InOrder(page, cursor, new_free_start) => InOrder(page, cursor + 1, new_free_start)
    BY <1>2, <2>2, SkipLayout
  <2>4. TypeOK'
    BY <1>1, <1>2, <2>1 DEF IInv, TypeOK
  <2> QED BY <1>1, <2>1, <2>3, <2>4 DEF IInv, LayoutSound, CompactionSound
<1>4. CASE page.slot[cursor].length # 0
  <2> DEFINE len == page.slot[cursor].length
             q == MoveRecord(page, cursor, new_free_start)
  <2>1. page' = q /\ new_free_start' = new_free_start + len
    BY <1>4 DEF CompactSlot
  <2>2. cursor \in Live(page)
    BY <1>2, <1>4 DEF Live
  <2>3. /\ page.slot[cursor].offset + len <= page.free_start /\ page.free_start <= PAGE_SIZE
        /\ new_free_start + len <= PAGE_SIZE
        /\ len \in UInt16
    <3> DEFINE left == Cardinality(Bytes(page, Pending(page, cursor + 1)))
    <3>1. /\ page.slot[cursor].offset + len <= page.free_start /\ page.free_start <= PAGE_SIZE
          /\ new_free_start + len + left <= page.free_start /\ left \in Nat
      BY <1>2, <2>2, MoveRoom
    <3>2. len \in UInt16 /\ page.free_start \in UInt16
      BY <1>2, PageFields
    <3> HIDE DEF left, len
    <3>3. new_free_start + len <= PAGE_SIZE
      BY <1>2, <3>1, <3>2, PageSizeAssumption, MaxUInt16Nat
    <3> QED BY <3>1, <3>2, <3>3
  <2>4. new_free_start + len \in UInt16
    BY <1>2, <2>3, PageSizeAssumption, MaxUInt16Nat
  <2>5. PageType(q)
    <3>1. page.slot[cursor].offset + page.slot[cursor].length <= PAGE_SIZE
      BY <1>2, <2>3, PageFields, PageSizeAssumption, MaxUInt16Nat
    <3> QED BY <1>2, <2>2, <3>1, MoveRecordType
  <2>6. /\ SlotId(q) = SlotId(page) /\ q.slot_count = page.slot_count
        /\ q.slot[cursor].length = len
        /\ \A t \in SlotId(page) \ {cursor} : q.slot[t] = page.slot[t]
    BY <1>2, <2>2, MoveRecordFields
  <2>7. LoopLayout(q, cursor + 1, new_free_start + len)
    BY <1>2, <2>2, MoveLayout
  <2>8. ASSUME ~scrambled
        PROVE  BytesIntact(q, contents) /\ InOrder(q, cursor + 1, new_free_start + len)
    <3>1. BytesIntact(page, contents) /\ InOrder(page, cursor, new_free_start)
      BY <1>1, <2>8 DEF IInv
    <3> QED BY <1>2, <2>2, <3>1, MoveBytes
  <2> HIDE DEF q
  <2>9. TypeOK'
    BY <1>1, <1>2, <2>1, <2>4, <2>5, <2>6 DEF IInv, TypeOK
  <2>10. Recorded(q, contents)
    BY <2>6 DEF IInv, Recorded
  <2> QED BY <1>1, <2>1, <2>7, <2>8, <2>9, <2>10 DEF IInv, LayoutSound, CompactionSound
<1> QED BY <1>3, <1>4

\* page_delete clears one length and nothing else.
LEMMA DeleteFields ==
    ASSUME NEW pg, PageType(pg), NEW s \in Live(pg)
    PROVE  LET q == [pg EXCEPT !.slot[s].length = 0]
           IN  /\ PageType(q)
               /\ q.slot_count = pg.slot_count /\ q.free_start = pg.free_start
               /\ q.free_end = pg.free_end /\ q.data = pg.data
               /\ SlotId(q) = SlotId(pg) /\ Live(q) = Live(pg) \ {s}
               /\ q.slot[s].length = 0
               /\ \A t \in SlotId(pg) : t # s => q.slot[t] = pg.slot[t]
<1> DEFINE f == [pg.slot EXCEPT ![s] = [pg.slot[s] EXCEPT !.length = 0]]
           q == [pg EXCEPT !.slot = f]
<1>1. s \in SlotId(pg) /\ pg.slot \in [SlotId(pg) -> Slot]
  BY PageFields DEF Live
<1>2. [pg.slot[s] EXCEPT !.length = 0] \in Slot /\ [pg.slot[s] EXCEPT !.length = 0].length = 0
  BY <1>1, MaxUInt16Nat DEF Slot
<1>3. /\ f \in [SlotId(pg) -> Slot] /\ f[s].length = 0
      /\ \A t \in SlotId(pg) : t # s => f[t] = pg.slot[t]
  BY <1>1, <1>2
<1> HIDE DEF f
<1>4. /\ q.slot_count = pg.slot_count /\ q.free_start = pg.free_start
      /\ q.free_end = pg.free_end /\ q.data = pg.data /\ q.slot = f
  BY DEF PageType
<1>5. PageType(q) /\ SlotId(q) = SlotId(pg)
  BY <1>3, SetSlotsType
<1>6. Live(q) = Live(pg) \ {s}
  BY <1>1, <1>3, <1>4, <1>5 DEF Live
<1>7. [pg EXCEPT !.slot[s].length = 0] = q
  BY DEF f
<1> QED BY <1>3, <1>4, <1>5, <1>6, <1>7

\* page_delete of a live slot.
LEMMA DeleteInv == ASSUME IInv, NEW s, DeleteLive(s) PROVE IInv'
<1>1. /\ pc = "idle" /\ s \in Live(page) /\ page' = [page EXCEPT !.slot[s].length = 0]
      /\ contents' = [contents EXCEPT ![s] = NoRecord] /\ scrambled' = scrambled
      /\ ret' = 0 /\ pc' = "idle" /\ cursor' = 0 /\ new_free_start' = HeaderSize
      /\ request' = NoRecord
  BY DEF DeleteLive, Return
<1>2. PageType(page) /\ PageOK(page) /\ s \in SlotId(page)
  BY <1>1 DEF IInv, TypeOK, LayoutSound, Live
<1>3. /\ PageType(page')
      /\ page'.slot_count = page.slot_count /\ page'.free_start = page.free_start
      /\ page'.free_end = page.free_end /\ page'.data = page.data
      /\ SlotId(page') = SlotId(page) /\ Live(page') = Live(page) \ {s}
      /\ page'.slot[s].length = 0
      /\ \A t \in SlotId(page) : t # s => page'.slot[t] = page.slot[t]
  BY <1>1, <1>2, DeleteFields
<1>4. \A t \in Live(page') : t \in Live(page) /\ t # s /\ page'.slot[t] = page.slot[t]
  BY <1>3 DEF Live
<1>5. contents \in [SlotId(page) -> Record \cup {NoRecord}]
  BY DEF IInv, TypeOK
<1>6. /\ contents' \in [SlotId(page') -> Record \cup {NoRecord}]
      /\ contents'[s] = NoRecord /\ \A t \in SlotId(page) : t # s => contents'[t] = contents[t]
  BY <1>1, <1>2, <1>3, <1>5
<1>7. PageOK(page')
  <2>1. HeaderOK(page')
    BY <1>2, <1>3 DEF PageOK, HeaderOK
  <2>2. Within(page', SlotId(page'), HeaderSize, page'.free_start)
    BY <1>2, <1>3, <1>4 DEF PageOK, Within
  <2>3. Disjoint(page', SlotId(page'))
    BY <1>2, <1>3, <1>4 DEF PageOK, Disjoint
  <2> QED BY <2>1, <2>2, <2>3 DEF PageOK
<1>8. TypeOK'
  <2>1. 0 \in SlotId(page') \cup {page'.slot_count}
    <3>1. page'.slot_count \in UInt16
      BY <1>3, PageFields
    <3> QED BY <3>1, MaxUInt16Nat DEF SlotId
  <2>2. HeaderSize \in UInt16 /\ 0 \in UInt16
    BY PageSizeAssumption, MaxUInt16Nat
  <2>3. scrambled' \in BOOLEAN
    BY <1>1 DEF IInv, TypeOK
  <2> QED BY <1>1, <1>3, <1>6, <2>1, <2>2, <2>3 DEF TypeOK
<1>9. LayoutSound' /\ CompactionSound'
  BY <1>1, <1>7 DEF LayoutSound, CompactionSound
<1>10. Recorded(page', contents')
  BY <1>3, <1>6 DEF IInv, Recorded
<1>11. ~scrambled => BytesIntact(page', contents')
  <2> SUFFICES ASSUME ~scrambled, NEW t \in Live(page'), NEW k \in 0 .. page'.slot[t].length - 1
               PROVE  page'.data[page'.slot[t].offset + k] = <<contents'[t], k>>
    BY DEF BytesIntact
  <2>1. t \in Live(page) /\ page'.slot[t] = page.slot[t] /\ contents'[t] = contents[t]
    BY <1>4, <1>6 DEF Live
  <2> QED BY <1>3, <2>1 DEF IInv, BytesIntact
<1> QED BY <1>1, <1>8, <1>9, <1>10, <1>11 DEF IInv

\* Every step.
LEMMA NextInv == IInv /\ [Next]_vars => IInv'
<1> SUFFICES ASSUME IInv, [Next]_vars PROVE IInv'
  OBVIOUS
<1>1. pc = "idle" => /\ PageType(page) /\ PageOK(page) /\ Recorded(page, contents)
                     /\ ~scrambled => BytesIntact(page, contents)
  BY DEF IInv, TypeOK, LayoutSound
<1>2. ASSUME NEW r \in Record, InsertEmpty(r)
      PROVE  IInv'
  <2>1. page' = page /\ UNCHANGED <<contents, scrambled>> /\ Return(-1) /\ pc = "idle"
    BY <1>2 DEF InsertEmpty
  <2> QED BY <1>1, <2>1, ReturnInv
<1>3. ASSUME NEW r \in Record, InsertFast(r)
      PROVE  IInv'
  <2>1. PICK id \in 0 .. page.slot_count :
           ReusableSlot(page, id) /\ Fits(page, r, id) /\ Store(page, r, id)
    BY <1>3 DEF InsertFast
  <2>2. pc = "idle" /\ Length[r] # 0 /\ UNCHANGED scrambled
    BY <1>3 DEF InsertFast
  <2> QED BY <1>1, <2>1, <2>2, StoreInv
<1>4. ASSUME NEW r \in Record, InsertCompacts(r)
      PROVE  IInv'
  <2>1. pc = "idle" /\ Length[r] # 0 /\ EnterCompact(r)
    BY <1>4 DEF InsertCompacts
  <2> QED BY <2>1, EnterInv
<1>5. CASE PageCompact
  BY <1>5, EnterInv DEF PageCompact
<1>6. CASE CompactSlot
  BY <1>6, CompactSlotInv
<1>7. CASE CompactReturns
  <2>1. pc = "compact" /\ cursor = page.slot_count /\ UNCHANGED scrambled
    BY <1>7 DEF CompactReturns
  <2>2. /\ PageType(Compacted) /\ PageOK(Compacted)
        /\ SlotId(Compacted) = SlotId(page) /\ Compacted.slot_count = page.slot_count
        /\ Recorded(Compacted, contents) /\ (~scrambled => BytesIntact(Compacted, contents))
    BY <2>1, CompactedInv
  <2>3. CASE request = NoRecord /\ page' = Compacted /\ Return(0) /\ UNCHANGED contents
    BY <2>1, <2>2, <2>3, ReturnInv
  <2>4. ASSUME request # NoRecord, NEW id \in 0 .. page.slot_count, ReusableSlot(Compacted, id),
               Fits(Compacted, request, id), Store(Compacted, request, id)
        PROVE  IInv'
    <3>1. request \in Record /\ Length[request] # 0
      BY <2>4 DEF IInv, TypeOK
    <3> QED BY <2>1, <2>2, <2>4, <3>1, StoreInv
  <2>5. CASE page' = Compacted /\ Return(-1) /\ UNCHANGED contents
    BY <2>1, <2>2, <2>5, ReturnInv
  <2> QED BY <1>7, <2>3, <2>4, <2>5 DEF CompactReturns
<1>8. ASSUME NEW s, DeleteLive(s)
      PROVE  IInv'
  BY <1>8, DeleteInv
<1>9. ASSUME NEW s, DeleteMissing(s)
      PROVE  IInv'
  <2>1. page' = page /\ UNCHANGED <<contents, scrambled>> /\ Return(-1) /\ pc = "idle"
    BY <1>9 DEF DeleteMissing
  <2> QED BY <1>1, <2>1, ReturnInv
<1>10. CASE UNCHANGED vars
  BY <1>10 DEF vars, IInv, TypeOK, LayoutSound, CompactionSound
<1> QED BY <1>2, <1>3, <1>4, <1>5, <1>6, <1>7, <1>8, <1>9, <1>10
        DEF Next, PageInsert, PageDelete, CompactStep
----------------------------------------------------------------------------
(* Theorems. *)

\* The invariant holds in every reachable state.
THEOREM Invariant == Spec => []IInv
  BY InitInv, NextInv, PTL DEF Spec

\* Every variable keeps its type: in particular no uint16_t of page.h or page.c
\* is ever assigned a value it cannot hold, for any page size up to 65535.
THEOREM TypeCorrect == Spec => []TypeOK
<1>1. IInv => TypeOK
  BY DEF IInv
<1> QED BY <1>1, Invariant, PTL

\* Between calls the header is consistent and the records neither overlap nor
\* leave the space between the header and free_start.
THEOREM LayoutAlwaysSound == Spec => []LayoutSound
<1>1. IInv => LayoutSound
  BY DEF IInv
<1> QED BY <1>1, Invariant, PTL

\* page_compact's loop never writes past the free_start it started from.
THEOREM CompactionAlwaysSound == Spec => []CompactionSound
<1>1. IInv => CompactionSound
  BY DEF IInv
<1> QED BY <1>1, Invariant, PTL

\* What page_get reads from a slot whose bytes are intact.
LEMMA ReadBackContent ==
    ASSUME IInv, ~scrambled, NEW s \in SlotId(page)
    PROVE  /\ s \in Live(page) <=> contents[s] # NoRecord
           /\ s \in Live(page) => ReadBack(page, s) = Content(contents[s])
           /\ s \notin Live(page) => ReadBack(page, s) = NoRecord
<1>1. PageType(page) /\ page.slot[s].length \in UInt16 /\ page.slot[s].offset \in UInt16
  BY PageFields DEF IInv, TypeOK
<1>2. s \in Live(page) <=> contents[s] # NoRecord
  BY DEF IInv, Recorded, Live
<1>3. ASSUME s \in Live(page)
      PROVE  ReadBack(page, s) = Content(contents[s])
  <2> DEFINE len == page.slot[s].length
  <2>1. len = Length[contents[s]]
    BY <1>2, <1>3 DEF IInv, Recorded
  <2>2. \A k \in 0 .. len - 1 : page.data[page.slot[s].offset + k] = <<contents[s], k>>
    BY <1>3 DEF IInv, BytesIntact
  <2>3. ReadBack(page, s) = [k \in 0 .. len - 1 |-> page.data[page.slot[s].offset + k]]
    BY <1>1, <1>3, MaxUInt16Nat DEF ReadBack, PageGet
  <2>4. Content(contents[s]) = [k \in 0 .. len - 1 |-> <<contents[s], k>>]
    BY <2>1 DEF Content
  <2> HIDE DEF len
  <2> QED BY <2>2, <2>3, <2>4
<1>4. s \notin Live(page) => ReadBack(page, s) = NoRecord
  BY DEF ReadBack, PageGet
<1> QED BY <1>2, <1>3, <1>4

\* As long as no compaction has met records out of the order of their slots,
\* page_get returns what page_insert was given.
THEOREM RecordsIntact == Spec => []IntactUnlessScrambled
<1>1. IInv => IntactUnlessScrambled
  BY ReadBackContent DEF IntactUnlessScrambled, Intact
<1> QED BY <1>1, Invariant, PTL

\* page_insert gives up only when the record cannot be stored.
THEOREM RefusedWhenFull == Spec => RefusedOnlyWhenFull
<1> DEFINE Refusal == \A r \in Record : InsertFails(r) =>
              /\ Packed(page', SlotId(page'), page'.free_start)
              /\ \E id \in 0 .. page.slot_count : ReusableSlot(page, id) /\ ~Fits(page', r, id)
<1>1. IInv /\ [Next]_vars => Refusal
  <2> SUFFICES ASSUME IInv, [Next]_vars, NEW r \in Record, InsertFails(r)
               PROVE  /\ Packed(page', SlotId(page'), page'.free_start)
                      /\ \E id \in 0 .. page.slot_count :
                            ReusableSlot(page, id) /\ ~Fits(page', r, id)
    OBVIOUS
  <2>1. pc = "compact" /\ pc' = "idle" /\ request = r /\ ret' = -1
    BY DEF InsertFails
  <2>2. CompactReturns
    BY <2>1 DEF Next, PageInsert, PageDelete, CompactStep, InsertEmpty, InsertFast,
                InsertCompacts, PageCompact, CompactSlot, DeleteLive, DeleteMissing, vars
  <2>3. cursor = page.slot_count /\ request # NoRecord
    BY <2>1, <2>2, NoRecordAssumption DEF CompactReturns
  <2>4. PICK id \in 0 .. page.slot_count :
           /\ ReusableSlot(Compacted, id)
           /\ \/ Store(Compacted, request, id)
              \/ ~Fits(Compacted, request, id) /\ page' = Compacted
    BY <2>2, <2>3 DEF CompactReturns
  <2>5. PageType(page) /\ id # -1
    BY PageFields, MaxUInt16Nat DEF IInv, TypeOK
  <2>6. ~Fits(Compacted, r, id) /\ page' = Compacted
    BY <2>1, <2>4, <2>5 DEF Store, Return
  <2>7. /\ Packed(Compacted, SlotId(Compacted), new_free_start)
        /\ Compacted.free_start = new_free_start
        /\ Compacted.slot_count = page.slot_count /\ Compacted.slot = page.slot
    BY <2>1, <2>3, CompactedInv
  <2>8. ReusableSlot(page, id)
    BY <2>4, <2>7 DEF ReusableSlot
  <2> QED BY <2>6, <2>7, <2>8
<1> HIDE DEF Refusal
<1>2. Spec => [][Refusal]_vars
  BY <1>1, Invariant, PTL DEF Spec
<1> QED BY <1>2 DEF Refusal, RefusedOnlyWhenFull
----------------------------------------------------------------------------
(* A page implements RecordStore. *)

\* What the store of the refinement mapping holds.
Mapped == [s \in Live(page) |-> ReadBack(page, s)]

\* It holds the contents of the live slots, before and after a step.
MappedIsContents == Mapped = [s \in Live(page) |-> Content(contents[s])]

\* It does while no compaction has scrambled the page,
LEMMA MappedContents == IInv /\ ~scrambled => MappedIsContents
  BY ReadBackContent DEF Mapped, MappedIsContents, Live

\* and after a step as well.
LEMMA MappedContentsNext == (IInv /\ ~scrambled)' => MappedIsContents'
  BY MappedContents, PTL

\* A free slot below or at slot_count is a slot of the store.
LEMMA SlotBound ==
    ASSUME NEW pg, PageType(pg), HeaderOK(pg)
    PROVE  pg.slot_count \in 0 .. PAGE_SIZE /\ SlotId(pg) \subseteq 0 .. PAGE_SIZE
<1>1. pg.slot_count \in UInt16 /\ pg.free_start \in UInt16 /\ pg.free_end \in UInt16
  BY PageFields
<1>2. pg.slot_count \in 0 .. PAGE_SIZE
  BY <1>1, PageSizeAssumption, MaxUInt16Nat DEF HeaderOK
<1> QED BY <1>1, <1>2, PageSizeAssumption, MaxUInt16Nat DEF SlotId

\* A step that stores r in slot id inserts its content.
LEMMA StoreInserts ==
    ASSUME IInv, IInv', ~scrambled, ~scrambled', NEW pg, PageType(pg), PageOK(pg),
           SlotId(pg) = SlotId(page), Live(pg) = Live(page),
           NEW r \in Record, Length[r] # 0, NEW id \in 0 .. pg.slot_count,
           ReusableSlot(pg, id), Store(pg, r, id)
    PROVE  \E s \in 0 .. PAGE_SIZE, v \in {Content(x) : x \in Record} :
             /\ s \notin DOMAIN Mapped
             /\ Mapped' = [t \in DOMAIN Mapped \cup {s} |-> IF t = s THEN v ELSE Mapped[t]]
<1>1. page' = Place(pg, r, id) /\ contents' = Put(contents, id, r)
  BY DEF Store
<1>2. Mapped = [s \in Live(page) |-> Content(contents[s])]
  BY MappedContents DEF MappedIsContents
<1>3. Mapped' = [s \in Live(page') |-> Content(contents'[s])]
  BY MappedContentsNext DEF MappedIsContents
<1>4. Live(page') = Live(page) \cup {id}
  BY <1>1, PlaceLive
<1>5. id \notin Live(page)
  <2>1. id \notin Live(pg)
    BY PageFields DEF Live, ReusableSlot, SlotId
  <2> QED BY <2>1
<1>6. id \in 0 .. PAGE_SIZE
  <2>1. pg.slot_count \in 0 .. PAGE_SIZE
    BY SlotBound DEF PageOK
  <2> QED BY <2>1, PageSizeAssumption, MaxUInt16Nat
<1>7. contents'[id] = r /\ \A t \in Live(page) : contents'[t] = contents[t]
  <2>1. DOMAIN contents = SlotId(page) /\ Live(page) \subseteq SlotId(page)
    BY DEF IInv, TypeOK, Live
  <2> QED BY <1>1, <1>5, <2>1 DEF Put
<1>8. Mapped' = [t \in DOMAIN Mapped \cup {id} |-> IF t = id THEN Content(r) ELSE Mapped[t]]
  BY <1>2, <1>3, <1>4, <1>5, <1>7
<1> QED BY <1>2, <1>5, <1>6, <1>8

\* A step that keeps the live slots and their contents keeps the store.
LEMMA StoreKept ==
    ASSUME IInv, IInv', ~scrambled, ~scrambled',
           Live(page') = Live(page), contents' = contents
    PROVE  Mapped' = Mapped
  BY MappedContents, MappedContentsNext DEF MappedIsContents

\* A step of the page is a step of the store or changes nothing of it.
LEMMA Refines == IInv /\ IInv' /\ [Next]_vars => [RS!Next]_(RS!storeVars)
<1> SUFFICES ASSUME IInv, IInv', [Next]_vars PROVE [RS!Next]_(RS!storeVars)
  OBVIOUS
<1> DEFINE Inserts == \E s \in 0 .. PAGE_SIZE, v \in {Content(x) : x \in Record} :
             /\ s \notin DOMAIN Mapped
             /\ Mapped' = [t \in DOMAIN Mapped \cup {s} |-> IF t = s THEN v ELSE Mapped[t]]
           Deletes == \E s \in 0 .. PAGE_SIZE :
             /\ s \in DOMAIN Mapped
             /\ Mapped' = [t \in DOMAIN Mapped \ {s} |-> Mapped[t]]
<1>1. CASE scrambled'
  BY <1>1 DEF RS!Next, RS!Damage
<1>2. CASE ~scrambled'
  <2>1. ~scrambled /\ scrambled' = scrambled
    <3>1. scrambled => scrambled'
      BY DEF Next, PageInsert, PageDelete, CompactStep, InsertEmpty, InsertFast, InsertCompacts,
             PageCompact, EnterCompact, CompactSlot, CompactReturns, DeleteLive, DeleteMissing, vars
    <3> QED BY <1>2, <3>1 DEF IInv, TypeOK
  <2>2. PageType(page) /\ HeaderOK(page)
    BY DEF IInv, TypeOK, LayoutSound, CompactionSound, PageOK, LoopLayout
  <2>3. ASSUME NEW r \in Record, InsertFast(r)
        PROVE  Inserts
    <3>1. PICK id \in 0 .. page.slot_count : ReusableSlot(page, id) /\ Store(page, r, id)
      BY <2>3 DEF InsertFast
    <3>2. Length[r] # 0 /\ PageOK(page)
      BY <2>3 DEF InsertFast, IInv, LayoutSound
    <3> QED BY <1>2, <2>1, <2>2, <3>1, <3>2, StoreInserts
  <2>4. ASSUME NEW r \in Record \cup {NoRecord}, EnterCompact(r)
        PROVE  Mapped' = Mapped
    BY <1>2, <2>1, <2>4, StoreKept DEF EnterCompact
  <2>5. ASSUME CompactSlot
        PROVE  Mapped' = Mapped
    <3>1. Live(page') = Live(page)
      <4>1. CASE page.slot[cursor].length = 0
        BY <2>5, <4>1 DEF CompactSlot
      <4>2. CASE page.slot[cursor].length # 0
        <5>1. page' = MoveRecord(page, cursor, new_free_start)
          BY <2>5, <4>2 DEF CompactSlot
        <5>2. new_free_start \in UInt16 /\ page.slot_count \in UInt16
          BY <2>2, PageFields DEF IInv, TypeOK
        <5>3. cursor \in SlotId(page)
          BY <2>5, <5>2, MaxUInt16Nat DEF IInv, TypeOK, CompactSlot
        <5>4. cursor \in Live(page)
          BY <4>2, <5>3 DEF Live
        <5> QED BY <2>2, <5>1, <5>2, <5>4, MoveRecordFields
      <4> QED BY <4>1, <4>2
    <3>2. contents' = contents
      BY <2>5 DEF CompactSlot
    <3> QED BY <1>2, <2>1, <3>1, <3>2, StoreKept
  <2>6. ASSUME CompactReturns
        PROVE  Inserts \/ Mapped' = Mapped
    <3>1. /\ PageType(Compacted) /\ PageOK(Compacted)
          /\ SlotId(Compacted) = SlotId(page) /\ Live(Compacted) = Live(page)
          /\ Compacted.slot_count = page.slot_count
      BY <2>6, CompactedInv DEF CompactReturns
    <3>2. CASE page' = Compacted /\ UNCHANGED contents
      BY <1>2, <2>1, <3>1, <3>2, StoreKept
    <3>3. ASSUME request # NoRecord, NEW id \in 0 .. page.slot_count,
                 ReusableSlot(Compacted, id), Store(Compacted, request, id)
          PROVE  Inserts
      <4>1. request \in Record /\ Length[request] # 0
        BY <3>3 DEF IInv, TypeOK
      <4> QED BY <1>2, <2>1, <3>1, <3>3, <4>1, StoreInserts
    <3> QED BY <2>6, <3>2, <3>3 DEF CompactReturns
  <2>7. ASSUME NEW s, DeleteLive(s)
        PROVE  Deletes
    <3>1. /\ s \in Live(page) /\ page' = [page EXCEPT !.slot[s].length = 0]
          /\ contents' = [contents EXCEPT ![s] = NoRecord]
      BY <2>7 DEF DeleteLive
    <3>2. Live(page') = Live(page) \ {s}
      BY <2>2, <3>1, DeleteFields
    <3>3. s \in 0 .. PAGE_SIZE
      BY <2>2, <3>1, SlotBound DEF Live
    <3>4. \A t \in Live(page') : contents'[t] = contents[t]
      BY <3>1, <3>2 DEF IInv, TypeOK, Live
    <3>5. Mapped = [t \in Live(page) |-> Content(contents[t])]
      BY <2>1, MappedContents DEF MappedIsContents
    <3>6. Mapped' = [t \in Live(page') |-> Content(contents'[t])]
      BY <1>2, MappedContentsNext DEF MappedIsContents
    <3>7. Mapped' = [t \in DOMAIN Mapped \ {s} |-> Mapped[t]]
      BY <3>2, <3>4, <3>5, <3>6
    <3> QED BY <3>1, <3>3, <3>5, <3>7
  <2>8. ASSUME page' = page /\ contents' = contents
        PROVE  Mapped' = Mapped
    BY <1>2, <2>1, <2>8, StoreKept
  <2>9. Inserts \/ Deletes \/ Mapped' = Mapped
    BY <2>3, <2>4, <2>5, <2>6, <2>7, <2>8
       DEF Next, PageInsert, PageDelete, CompactStep, InsertEmpty, InsertCompacts,
           PageCompact, DeleteMissing, vars
  <2> QED BY <2>1, <2>9
          DEF RS!Next, RS!Insert, RS!Delete, RS!storeVars, Mapped
<1> QED BY <1>1, <1>2 DEF IInv, TypeOK

\* Seen through page_get, a page is a RecordStore until a compaction meets
\* records out of the order of their slots.
THEOREM PageImplementsRecordStore == Spec => ImplementsRecordStore
<1>1. Init => RS!Init
  <2> SUFFICES ASSUME Init PROVE RS!Init
    OBVIOUS
  <2>1. Live(page) = {} /\ scrambled = FALSE
    BY EmptyPageType DEF Init, Live
  <2> QED BY <2>1 DEF RS!Init
<1> QED BY <1>1, Refines, Invariant, PTL DEF Spec, ImplementsRecordStore, RS!Spec
=============================================================================
