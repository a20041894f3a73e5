----------------------------- MODULE HeaderTree -----------------------------
(***************************************************************************)
(* Blocks as nodes of a tree (cblockindex: pprev, nheight, nchainwork).  A *)
(* block's hash commits to its parent and its proof of work, so both are   *)
(* constants; what the node knows of a block is state of other modules.    *)
(***************************************************************************)
EXTENDS Integers, FiniteSets

CONSTANTS
  Block,       \* every block a peer may ever send
  Genesis,
  Parent,      \* [Block \ {Genesis} -> Block]: hashprevblock
  Proof        \* [Block -> Nat]: getblockproof

ASSUME HeaderTreeAssumption ==
  /\ Genesis \in Block
  /\ Parent \in [Block \ {Genesis} -> Block]
  /\ Proof \in [Block -> Nat \ {0}]

\* A hash cannot be computed before the hash it commits to: going back from any
\* block never returns to it, and ends.
ASSUME TreeAssumption ==
  \A S \in (SUBSET Block) \ {{}} : \E b \in S : b = Genesis \/ Parent[b] \notin S

\* A block is one of its own ancestors, as in getancestor(nheight).
Ancestors[b \in Block] ==
  {b} \cup (IF b = Genesis THEN {} ELSE Ancestors[Parent[b]])
Height[b \in Block] == IF b = Genesis THEN 0 ELSE Height[Parent[b]] + 1
ChainWork[b \in Block] ==
  Proof[b] + (IF b = Genesis THEN 0 ELSE ChainWork[Parent[b]])

\* Highest and lowest of blocks of one branch.
Highest(S) == CHOOSE x \in S : \A y \in S : Height[y] <= Height[x]
Lowest(S) == CHOOSE x \in S : \A y \in S : Height[x] <= Height[y]

LastCommonAncestor(a, b) == Highest(Ancestors[a] \cap Ancestors[b])
=============================================================================
