-------------------------- MODULE MCBlockingServer --------------------------
(***************************************************************************)
(* Two clients that do anything and one that runs a client program, with   *)
(* each of the servers: two are in the queue while the third is served, on *)
(* the one descriptor a server ever needs.                                 *)
(***************************************************************************)
EXTENDS BlockingServer
=============================================================================
