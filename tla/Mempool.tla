------------------------------ MODULE Mempool ------------------------------
(***************************************************************************)
(* The transaction memory pool (ctxmempool: maptx, mapnexttx) against the  *)
(* coins of the active chain: accepttomemorypool, and what connecttip and  *)
(* disconnecttip do to the pool.                                           *)
(*                                                                         *)
(* All of it runs under cs_main.  connecttip and disconnecttip go through  *)
(* the transactions of a block one by one; each is a step, during which no *)
(* other handler runs, because ctxmempool::cs is free in between and the   *)
(* maps must then be sound.  Policy (standardness, finality, fees,         *)
(* priority, rate limits) and scripts depend on time and settings: their   *)
(* verdict is a free input of each call.  Which block is connected is      *)
(* decided elsewhere (BlockTree); here it is any valid child of the tip.   *)
(***************************************************************************)
EXTENDS HeaderTree, Sequences, Functions

CONSTANTS
  Tx,
  NoTx,
  Coinbase,    \* coinbase transactions
  Inputs,      \* [Tx -> SUBSET OutPoint]: vin
  NOut,        \* [Tx -> Nat]: vout.size()
  BlockTxs,    \* [Block -> Seq(Tx)]: vtx; Genesis stands for the settled chain
  Maturity     \* coinbase_maturity

\* The outputs of a transaction, and coutpoint: a transaction and a number.
Outputs(t) == {t} \X (0 .. NOut[t] - 1)
OutPoint == UNION {Outputs(t) : t \in Tx}

ASSUME MempoolAssumption ==
  /\ NoTx \notin Tx
  /\ Coinbase \subseteq Tx
  /\ Inputs \in [Tx -> SUBSET OutPoint]
  /\ NOut \in [Tx -> Nat]
  /\ BlockTxs \in [Block -> Seq(Tx)]
  /\ \A b \in Block : /\ BlockTxs[b] # << >>
                      /\ \A i \in DOMAIN BlockTxs[b] : BlockTxs[b][i] \in Coinbase <=> i = 1
  /\ \A t \in Tx : Inputs[t] = {} <=> t \in Coinbase
  /\ Maturity \in Nat

VARIABLES
  tip,        \* pcoinstip's best block
  utxo,       \* the unspent outputs in pcoinstip
  pool,       \* keys of maptx
  mapNextTx,  \* mapnexttx: the pool transaction that spends an output, or NoTx
  handler,    \* who holds cs_main: "none", "connecttip", "disconnecttip"
  todo        \* the transactions of the block that are still to be gone through

chain == <<tip, utxo>>
vars  == <<tip, utxo, pool, mapNextTx, handler, todo>>

InBlock(b)   == Range(BlockTxs[b])
MadeBy(b)    == UNION {Outputs(t) : t \in InBlock(b)}
SpentBy(b)   == UNION {Inputs[t] : t \in InBlock(b)}

\* What the settled chain spends it has made, and a coinbase is not repeated in a
\* branch: contextualcheckblock wants it to begin with the height of its block.
ASSUME ChainAssumption ==
  /\ SpentBy(Genesis) \subseteq MadeBy(Genesis)
  /\ \A b \in Block : \A x \in Ancestors[b] \ {b} : BlockTxs[b][1] \notin InBlock(x)

Init ==
  /\ tip = Genesis
  /\ utxo = MadeBy(Genesis) \ SpentBy(Genesis)
  /\ pool = {}
  /\ mapNextTx = [o \in OutPoint |-> NoTx]
  /\ handler = "none"
  /\ todo = << >>

-----------------------------------------------------------------------------
\* havecoins: the transaction has unspent outputs, or it is in the pool.
HaveCoins(t) == Outputs(t) \cap utxo # {}
Known(t)     == t \in pool \/ HaveCoins(t)

\* Mutant: only the transactions are looked for, not their outputs.
AvailableTx(o) == Known(o[1])

\* haveinputs in a ccoinsviewmempool, for which no output of a transaction in
\* the pool is spent.
Available(o) ==
  IF o[1] \in pool THEN o \in Outputs(o[1]) ELSE o \in utxo

\* The height at which the chain that ends in b holds a transaction.
CoinHeight(t, b) == Height[CHOOSE x \in Ancestors[b] : t \in InBlock(x)]

\* A coinbase output of b's chain that a block of the given height may not spend.
Immature(o, b, height) ==
  o[1] \in Coinbase /\ height - CoinHeight(o[1], b) < Maturity

NextHeight == Height[tip] + 1
TooEarly(t) == \E o \in Inputs[t] : o \in utxo /\ Immature(o, tip, NextHeight)

\* The tests of accepttomemorypool that depend on the chain and the pool.
Acceptable(t) ==
  /\ t \notin Coinbase
  /\ t \notin pool
  /\ \A o \in Inputs[t] : mapNextTx[o] = NoTx
  /\ ~HaveCoins(t)
  /\ \A o \in Inputs[t] : Known(o[1]) /\ Available(o)
  /\ ~TooEarly(t)

AddUnchecked(t) ==
  /\ pool' = pool \cup {t}
  /\ mapNextTx' = [o \in OutPoint |-> IF o \in Inputs[t] THEN t ELSE mapNextTx[o]]

\* accepttomemorypool for a transaction of a peer, the wallet or an RPC, when
\* policy and scripts let it pass; a refusal leaves the pool alone.
AcceptToMemoryPool(t) ==
  /\ handler = "none"
  /\ Acceptable(t)
  /\ AddUnchecked(t)
  /\ UNCHANGED <<chain, handler, todo>>

-----------------------------------------------------------------------------
\* Mutant: the inputs of a removed transaction stay in mapnexttx.
ErasedNothing(next, gone) == next

\* mapnexttx without the inputs of the transactions in gone.
Erased(next, gone) ==
  [o \in OutPoint |-> IF \E t \in gone : o \in Inputs[t] THEN NoTx ELSE next[o]]

\* remove(..., frecursive): the roots that are in the pool p and, through
\* mapnexttx, all their descendants there.
Closed(C, p, next) ==
  \A t \in C : \A o \in Outputs(t) : next[o] \in p => next[o] \in C
Family(roots, p, next) ==
  {t \in p : \A C \in SUBSET p : roots \cap p \subseteq C /\ Closed(C, p, next) => t \in C}

TakeOut(gone) ==
  /\ pool' = pool \ gone
  /\ mapNextTx' = Erased(mapNextTx, gone)

\* Mutant: a transaction that is not in the pool has nothing to remove.
RootsInPool(t) == {t}

\* Where a recursive remove starts: a transaction that is not in the pool
\* still has its children removed.
Roots(t) == IF t \in pool THEN {t} ELSE {mapNextTx[o] : o \in Outputs(t)}

-----------------------------------------------------------------------------
\* connectblock: no overwriting of unspent transactions, and each input is
\* available and mature when its transaction's turn comes.
Valid(b) ==
  LET txs == BlockTxs[b]
  IN  /\ \A i \in DOMAIN txs : ~HaveCoins(txs[i])
      /\ \A i \in DOMAIN txs : \A o \in Inputs[txs[i]] :
           /\ o \in utxo \/ \E j \in 1 .. i - 1 : o \in Outputs(txs[j])
           /\ \A j \in 1 .. i - 1 : o \notin Inputs[txs[j]]
           /\ ~Immature(o, b, Height[b])

\* connecttip up to the flush of the coins.
ConnectTip(b) ==
  /\ handler = "none"
  /\ b # Genesis /\ Parent[b] = tip
  /\ Valid(b)
  /\ tip' = b
  /\ utxo' = (utxo \cup MadeBy(b)) \ SpentBy(b)
  /\ handler' = "connecttip" /\ todo' = BlockTxs[b]
  /\ UNCHANGED <<pool, mapNextTx>>

\* Mutant: what depends on a mined transaction is removed with it.
MinedWithFamily(t) == Family({t}, pool, mapNextTx)

\* What remove(tx, dummy, false) takes out.
Mined(t) == {t} \cap pool

\* removeforblock for the next transaction: it leaves the pool alone, the
\* transactions that spend its inputs leave with all their descendants.
RemoveForBlock ==
  /\ handler = "connecttip"
  /\ LET t         == Head(todo)
         rest      == pool \ Mined(t)
         next      == Erased(mapNextTx, Mined(t))
         conflicts == Family({next[o] : o \in Inputs[t]} \ {t}, rest, next)
     IN  /\ pool' = rest \ conflicts
         /\ mapNextTx' = Erased(next, conflicts)
  /\ todo' = Tail(todo)
  /\ handler' = IF Tail(todo) = << >> THEN "none" ELSE "connecttip"
  /\ UNCHANGED chain

\* disconnecttip up to the flush of the coins.
DisconnectTip ==
  /\ handler = "none"
  /\ tip # Genesis
  /\ tip' = Parent[tip]
  /\ utxo' = (utxo \cup SpentBy(tip)) \ MadeBy(tip)
  /\ handler' = "disconnecttip" /\ todo' = BlockTxs[tip]
  /\ UNCHANGED <<pool, mapNextTx>>

\* The next transaction of the disconnected block returns to the pool; if it
\* is refused, everything that depends on it is removed.
Resurrect(policy) ==
  /\ handler = "disconnecttip" /\ todo # << >>
  /\ LET t == Head(todo)
     IN  IF Acceptable(t) /\ policy THEN AddUnchecked(t)
         ELSE TakeOut(Family(Roots(t), pool, mapNextTx))
  /\ todo' = Tail(todo)
  /\ UNCHANGED <<chain, handler>>

\* Mutant: coinbases do not become immature again.
UnspendableMissing(t) ==
  \E o \in Inputs[t] : o[1] \notin pool /\ ~HaveCoins(o[1])

\* removecoinbasespends: transactions with an input that is neither made in
\* the pool nor an existing mature coin.
Unspendable(t) ==
  \E o \in Inputs[t] : /\ o[1] \notin pool
                       /\ ~HaveCoins(o[1]) \/ Immature(o, tip, NextHeight)
RemoveCoinbaseSpends ==
  /\ handler = "disconnecttip" /\ todo = << >>
  /\ TakeOut(Family({t \in pool : Unspendable(t)}, pool, mapNextTx))
  /\ handler' = "none"
  /\ UNCHANGED <<chain, todo>>

-----------------------------------------------------------------------------
Next ==
  \/ \E t \in Tx : AcceptToMemoryPool(t)
  \/ \E b \in Block : ConnectTip(b)
  \/ RemoveForBlock
  \/ DisconnectTip
  \/ \E policy \in BOOLEAN : Resurrect(policy)
  \/ RemoveCoinbaseSpends

Spec == Init /\ [][Next]_vars

-----------------------------------------------------------------------------
Confirmed == UNION {InBlock(b) : b \in Ancestors[tip]}

\* No coinbase is in the pool, the maps are over known transactions and outputs,
\* and connecttip runs only while transactions of its block are left.
TypeOK ==
  /\ tip \in Block
  /\ utxo \subseteq OutPoint
  /\ pool \subseteq Tx \ Coinbase
  /\ mapNextTx \in [OutPoint -> Tx \cup {NoTx}]
  /\ handler \in {"none", "connecttip", "disconnecttip"}
  /\ todo \in Seq(Tx)
  /\ handler = "connecttip" => todo # << >>

\* mapnexttx holds exactly the inputs of the transactions in maptx, each with
\* its one spender: no pointer dangles, and no two transactions of the pool
\* spend the same output, at any moment when ctxmempool::cs is free.
NextTxExact ==
  \A o \in OutPoint, t \in Tx : mapNextTx[o] = t <=> t \in pool /\ o \in Inputs[t]

\* What ctxmempool::check asserts between handlers, and removecoinbasespends
\* of the coins it looks up: each input of a transaction in the pool is an
\* output of another one or an unspent coin.
PoolSpendable ==
  todo = << >> => \A t \in pool : \A o \in Inputs[t] : Available(o)

\* Nothing in the pool spends a coinbase that the next block may not spend,
\* also after the chain became shorter.
PoolMature == handler = "none" => \A t \in pool : ~TooEarly(t)

\* A transaction is not in the pool and in the active chain at once, although
\* accepttomemorypool cannot look for confirmed transactions whose outputs are
\* all spent.
PoolUnconfirmed == handler = "none" => pool \cap Confirmed = {}

\* A transaction only leaves the pool when it is mined or cannot be mined any
\* more: an input is spent by the chain, immature, or made by a transaction
\* that is neither in the pool nor in the chain.
LossJustified ==
  [][\A t \in pool \ pool' :
       \/ t \in Confirmed'
       \/ \E o \in Inputs[t] : ~Available(o)' \/ (o \in utxo /\ Immature(o, tip, NextHeight))']_vars
=============================================================================
