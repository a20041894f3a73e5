------------------------------- MODULE MC_Net -------------------------------
(* Two objects and the two threads of a node started with -connect: added    *)
(* (threadopenaddedconnections) opens by address, connect                   *)
(* (threadopenconnections) by name, with a grant for a one-shot and without *)
(* one for -connect.                                                        *)
EXTENDS Net
CONSTANTS added, connect
MCNode == 1..2
MCOpener == {added, connect}
MCByName == {connect}
=============================================================================
