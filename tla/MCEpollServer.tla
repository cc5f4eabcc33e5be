--------------------------- MODULE MCEpollServer ---------------------------
(***************************************************************************)
(* Two clients that send up to three messages each, a descriptor for each, *)
(* and buffers that hold two of them.                                      *)
(***************************************************************************)
EXTENDS EpollServer
=============================================================================
