--------------------------- MODULE MCThreadServer ---------------------------
(***************************************************************************)
(* Two clients, each of them able to be slower than the other, with a      *)
(* thread, a heap cell and a descriptor for each.                          *)
(***************************************************************************)
EXTENDS ThreadServer
=============================================================================
