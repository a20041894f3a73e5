---------------------------- MODULE MC_FlushState ---------------------------
(***************************************************************************)
(* A branch of two blocks and a competing block.  p0 is an old coinbase     *)
(* with two outputs.  a1 spends one of them; a2 spends the other, both      *)
(* outputs of a transaction of a1, and an output made in a2 itself; b1      *)
(* spends both outputs of p0 at once.  Some outputs are unspendable.        *)
(***************************************************************************)
EXTENDS FlushState

CONSTANTS g, a1, a2, b1

MC_Block == {g, a1, a2, b1}
MC_Parent == (a1 :> g) @@ (a2 :> a1) @@ (b1 :> g)
MC_Proof == [b \in MC_Block |-> 1]

Coinbase(id, out) ==
  [id |-> id, fcoinbase |-> TRUE, vin |-> <<>>, vout |-> <<out, out + 1>>,
   unspendable |-> {out + 1}]
Tx(id, vin, vout, unspendable) ==
  [id |-> id, fcoinbase |-> FALSE, vin |-> vin, vout |-> vout,
   unspendable |-> unspendable]
Out(hash, n) == [hash |-> hash, n |-> n]

MC_Vtx ==
  (a1 :> << Coinbase("ca1", 11),
            Tx("t1", <<Out("p0", 1)>>, <<21, 22, 23>>, {22}) >>) @@
  (a2 :> << Coinbase("ca2", 13),
            Tx("t2", <<Out("t1", 3), Out("p0", 2)>>, <<31, 32>>, {}),
            Tx("t3", <<Out("t2", 2), Out("t1", 1)>>, <<33>>, {33}) >>) @@
  (b1 :> << Coinbase("cb1", 15),
            Tx("t4", <<Out("p0", 1), Out("p0", 2)>>, <<41>>, {}) >>)

MC_TxIds == {"p0", "ca1", "ca2", "cb1", "t1", "t2", "t3", "t4"}
MC_BaseCoins ==
  [x \in MC_TxIds |->
     IF x = "p0" THEN [fcoinbase |-> TRUE, nheight |-> 1, vout |-> <<1, 2>>]
                 ELSE NoCoins]
=============================================================================
