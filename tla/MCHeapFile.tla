----------------------------- MODULE MCHeapFile -----------------------------
(***************************************************************************)
(* A disk with room for two pages of 16 bytes: a page holds one record of  *)
(* the greatest length heap_insert accepts, or two short ones.             *)
(***************************************************************************)
EXTENDS HeapFile, TLC

CONSTANTS none, a, b, c

\* b is as long as max_record_size, and c longer by one byte.
MCLength == [r \in Record |->
    CASE r = none -> 0 [] r = a -> 1 [] r = b -> PAGE_SIZE - 10 [] r = c -> PAGE_SIZE - 9]

\* As in MCSlottedPage: the bytes no live record covers do not matter.
Visible(pg) == [pg EXCEPT !.data = [i \in P!Bytes(pg, P!SlotId(pg)) |-> pg.data[i]]]

LiveView == <<[p \in DOMAIN disk |-> [disk[p] EXCEPT !.page = Visible(disk[p].page)]],
              Visible(page), pc, cursor, new_free_start, request, ret, contents, scrambled,
              opened, op, record, page_count, page_id, slot_id, acked, strays>>
=============================================================================
