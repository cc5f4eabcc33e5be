----------------------------- MODULE MCPageFile -----------------------------
(***************************************************************************)
(* Two pages that are written in two parts, by each of the programs.       *)
(***************************************************************************)
EXTENDS PageFile, TLC

Perms == Permutations(Data)
=============================================================================
