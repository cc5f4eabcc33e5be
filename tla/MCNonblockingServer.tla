------------------------ MODULE MCNonblockingServer ------------------------
(***************************************************************************)
(* More clients than slots, and a buffer that holds less than a client can *)
(* send: one client sends up to MaxSends messages, one at most one, and    *)
(* one comes and goes without a word.                                      *)
(***************************************************************************)
EXTENDS NonblockingServer

CONSTANTS
    Talkative,  \* the clients that may send MaxSends messages, not only one
    Mute        \* those that send none

ASSUME TempersAssumption == Talkative \subseteq Client /\ Mute \subseteq Client \ Talkative

FewMessages == /\ \A c \in Mute : sock[c].sent = 0
               /\ \A c \in Client \ Talkative : sock[c].sent <= 1

MCNext == Next /\ FewMessages'

\* What clients do not do is theirs to choose, and the server's fairness stays.
MCSpec == Init /\ [][MCNext]_vars /\ WF_vars(ServerStep) /\ SF_vars(AcceptOne)
=============================================================================
