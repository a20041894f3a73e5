----------------------------- MODULE MC_TxRelay -----------------------------
EXTENDS TxRelay, TLC

CONSTANTS g, a1, a2, a3, b1, c1, e, f, ca1, ca2, ca3, cb1, cc1, t1, t2, t3, x1, y1, s1, p1, p2

\* Three branches on the settled chain g.
ForkBlock == {g, a1, a2, a3, b1, c1}
ForkParent == a1 :> g @@ a2 :> a1 @@ a3 :> a2 @@ b1 :> g @@ c1 :> g
UnitProof == [b \in Block |-> 1]

\* t1 and x1 spend the same coin, t2 spends t1 and a coin, t3 spends t1 and t2,
\* y1 spends x1 and the coin of t2, s1 spends a coin and a coinbase.
SomeTx == {e, f, ca1, ca2, ca3, cb1, cc1, t1, t2, t3, x1, y1, s1}
SomeInputs ==
  [t \in SomeTx |->
     CASE t = f -> {<<e, 0>>}
       [] t = t1 -> {<<f, 0>>}
       [] t = x1 -> {<<f, 0>>}
       [] t = t2 -> {<<f, 1>>, <<t1, 0>>}
       [] t = t3 -> {<<t1, 1>>, <<t2, 0>>}
       [] t = y1 -> {<<x1, 0>>, <<f, 1>>}
       [] t = s1 -> {<<ca1, 0>>, <<f, 2>>}
       [] OTHER -> {}]
SomeNOut == [t \in SomeTx |-> IF t = f THEN 3 ELSE IF t = t1 THEN 2 ELSE 1]
SomeBlockTxs ==
  g :> <<e, f>> @@ a1 :> <<ca1, t1>> @@ a2 :> <<ca2, t2>> @@ a3 :> <<ca3, s1>>
    @@ b1 :> <<cb1, x1>> @@ c1 :> <<cc1, t1, t2, t3>>
=============================================================================
