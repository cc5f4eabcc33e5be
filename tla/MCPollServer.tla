---------------------------- MODULE MCPollServer ----------------------------
(***************************************************************************)
(* More clients than slots: a slot and its descriptor number are used      *)
(* again, and a connection is refused.                                     *)
(***************************************************************************)
EXTENDS PollServer
=============================================================================
