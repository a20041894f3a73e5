-------------------------- MODULE MC_BlockDownload --------------------------
EXTENDS BlockDownload

CONSTANTS g, a1, a2, p1, p2

\* A chain g - a1 - a2 longer than the window.
LineBlock == {g, a1, a2}
LineParent == a1 :> g @@ a2 :> a1

UnitProof == [b \in Block |-> 1]
=============================================================================
