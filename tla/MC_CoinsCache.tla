--------------------------- MODULE MC_CoinsCache ---------------------------
EXTENDS CoinsCache, TLC

CONSTANTS c1, c2

SomeCoins == {c1, c2}
SizeOf == c1 :> 1 @@ c2 :> 2 @@ Pruned :> 0
=============================================================================
