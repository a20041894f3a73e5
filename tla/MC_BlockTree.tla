---------------------------- MODULE MC_BlockTree ----------------------------
EXTENDS BlockTree, TLC

CONSTANTS g, a1, a2, b1, b2, b3, p1, p2

\* Two branches of the same work: g - a1 - a2 and g - b1 - b2.
EvenBlock == {g, a1, a2, b1, b2}
EvenParent == a1 :> g @@ a2 :> a1 @@ b1 :> g @@ b2 :> b1

\* A longer second branch: g - a1 - a2 and g - b1 - b2 - b3.
LongBlock == {g, a1, a2, b1, b2, b3}
LongParent == a1 :> g @@ a2 :> a1 @@ b1 :> g @@ b2 :> b1 @@ b3 :> b2

\* b2 alone outweighs a1 and a2.
HeavyProof == [b \in Block |-> IF b = b2 THEN 2 ELSE 1]
AnyAddr == g :> 0 @@ a1 :> 1 @@ a2 :> 2 @@ b1 :> 3 @@ b2 :> 4 @@ b3 :> 5
AddrOfBlocks == [b \in Block |-> AnyAddr[b]]
TwoThreads == {p1, p2}
=============================================================================
