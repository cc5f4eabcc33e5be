--------------------------- MODULE MCSlottedPage ---------------------------
(***************************************************************************)
(* A page of 22 bytes: 16 for records and slots, so that at most three     *)
(* slots fit, a deleted record is replaced by a shorter or a longer one,   *)
(* and most orders of inserts and deletes end in a compaction.             *)
(***************************************************************************)
EXTENDS SlottedPage, TLC

CONSTANTS none, a, b

MCLength == [r \in Record |-> CASE r = none -> 0 [] r = a -> 1 [] r = b -> 2]

LiveBytes == [i \in UNION {Extent(page, s) : s \in Live(page)} |-> page.data[i]]

\* What later steps depend on: not the bytes that no live record covers (they
\* are written before they are read), nor the value the last call returned.
LiveView == <<[page EXCEPT !.data = LiveBytes], pc, cursor, new_free_start, request,
              contents, scrambled>>
=============================================================================
