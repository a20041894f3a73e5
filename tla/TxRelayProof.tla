---------------------------- MODULE TxRelayProof ----------------------------
(***************************************************************************)
(* Proofs about Mempool and TxRelay, for every set of transactions, blocks *)
(* and branches: the two maps of the pool agree at every moment, and what  *)
(* is in the pool can be spent when no handler runs; the tx message uses   *)
(* the pool only as Mempool allows, and the orphan maps stay exact and     *)
(* bounded.                                                                *)
(***************************************************************************)
EXTENDS TxRelay, HeaderTreeProof, FiniteSetTheorems

\* Each input of each transaction in the pool is made in the pool, or unspent,
\* or about to be dealt with: while a block is connected a transaction of the
\* block still to come spends it; while one is disconnected the transaction
\* that makes it is still to come back.
Owed ==
  \A t \in pool : \A o \in Inputs[t] :
    \/ o[1] \in pool
    \/ o \in utxo
    \/ handler = "connecttip" /\ \E i \in DOMAIN todo : o \in Inputs[todo[i]]
    \/ handler = "disconnecttip" /\ \E i \in DOMAIN todo : o[1] = todo[i]

\* While a block is connected, an output of a transaction still to come is
\* unspent or spent by a transaction that comes after it.
LaterSpends ==
  handler = "connecttip" =>
    \A i \in DOMAIN todo : \A o \in Outputs(todo[i]) :
      o \in utxo \/ \E j \in DOMAIN todo : j > i /\ o \in Inputs[todo[j]]

\* The inductive invariant.
Inv == TypeOK /\ NextTxExact /\ Owed /\ LaterSpends

\* What mapnexttx holds for a pool p.
Exact(p, next) ==
  \A o \in OutPoint, t \in Tx : next[o] = t <=> t \in p /\ o \in Inputs[t]

-----------------------------------------------------------------------------
\* An output belongs to the transaction that its first component names.
LEMMA OutPointFact ==
  ASSUME NEW o \in OutPoint
  PROVE  o[1] \in Tx /\ o \in Outputs(o[1])
BY DEF OutPoint, Outputs

\* Conversely the outputs of a transaction are outpoints that name it.
LEMMA OutputsFact ==
  ASSUME NEW t \in Tx, NEW o \in Outputs(t)
  PROVE  o \in OutPoint /\ o[1] = t
BY DEF OutPoint, Outputs

\* A recursive remove takes transactions of the pool, its roots among them,
\* and leaves none whose parent it takes.
LEMMA FamilyFact ==
  ASSUME NEW roots, NEW p, NEW next
  PROVE  /\ Family(roots, p, next) \subseteq p
         /\ roots \cap p \subseteq Family(roots, p, next)
         /\ \A t \in Family(roots, p, next) : \A o \in Outputs(t) :
              next[o] \in p => next[o] \in Family(roots, p, next)
<1>1. Family(roots, p, next) \subseteq p /\ roots \cap p \subseteq Family(roots, p, next)
  BY DEF Family
<1>2. ASSUME NEW t \in Family(roots, p, next), NEW o \in Outputs(t), next[o] \in p
      PROVE  next[o] \in Family(roots, p, next)
  <2>1. SUFFICES ASSUME NEW C \in SUBSET p, roots \cap p \subseteq C, Closed(C, p, next)
                 PROVE  next[o] \in C
    BY <1>2 DEF Family
  <2>2. t \in C
    BY <2>1 DEF Family
  <2>3. QED
    BY <1>2, <2>1, <2>2 DEF Closed
<1>3. QED
  BY <1>1, <1>2

\* Removing transactions of the pool and erasing their inputs keeps mapnexttx
\* exact.
LEMMA ErasedFact ==
  ASSUME NEW p \in SUBSET Tx, NEW next \in [OutPoint -> Tx \cup {NoTx}],
         Exact(p, next), NEW gone \in SUBSET p
  PROVE  /\ Erased(next, gone) \in [OutPoint -> Tx \cup {NoTx}]
         /\ Exact(p \ gone, Erased(next, gone))
BY MempoolAssumption DEF Erased, Exact

\* So does adding one whose inputs nothing in the pool spends.
LEMMA AddedFact ==
  ASSUME Inv, NEW t \in Tx, Acceptable(t), AddUnchecked(t)
  PROVE  /\ pool' \subseteq Tx \ Coinbase
         /\ mapNextTx' \in [OutPoint -> Tx \cup {NoTx}]
         /\ NextTxExact'
BY MempoolAssumption DEF Inv, TypeOK, NextTxExact, Acceptable, AddUnchecked

\* The pool's part of the invariant after a recursive remove.
LEMMA TakenOutFact ==
  ASSUME Inv, NEW roots, TakeOut(Family(roots, pool, mapNextTx))
  PROVE  /\ pool' \subseteq Tx \ Coinbase
         /\ mapNextTx' \in [OutPoint -> Tx \cup {NoTx}]
         /\ NextTxExact'
         /\ roots \cap pool' = {}
         /\ \A t \in pool' : \A o \in Inputs[t] : o[1] \in pool => o[1] \in pool'
<1> DEFINE gone == Family(roots, pool, mapNextTx)
<1>1. /\ pool \in SUBSET Tx /\ mapNextTx \in [OutPoint -> Tx \cup {NoTx}]
      /\ Exact(pool, mapNextTx)
  BY DEF Inv, TypeOK, NextTxExact, Exact
<1>2. /\ gone \subseteq pool /\ roots \cap pool \subseteq gone
      /\ \A t \in gone : \A o \in Outputs(t) : mapNextTx[o] \in pool => mapNextTx[o] \in gone
  BY FamilyFact
<1>3. pool' = pool \ gone /\ mapNextTx' = Erased(mapNextTx, gone)
  BY DEF TakeOut
<1> HIDE DEF gone
<1>4. Exact(pool', mapNextTx') /\ mapNextTx' \in [OutPoint -> Tx \cup {NoTx}]
  BY <1>1, <1>2, <1>3, ErasedFact
<1>5. ASSUME NEW t \in pool', NEW o \in Inputs[t], o[1] \in pool
      PROVE  o[1] \in pool'
  <2>1. t \in pool /\ t \in Tx /\ o \in OutPoint
    BY <1>1, <1>3, MempoolAssumption
  <2>2. mapNextTx[o] = t /\ o \in Outputs(o[1])
    BY <1>1, <2>1, OutPointFact DEF Exact
  <2>3. QED
    BY <1>2, <1>3, <1>5, <2>1, <2>2
<1>6. QED
  BY <1>1, <1>2, <1>3, <1>4, <1>5 DEF NextTxExact, Exact, Inv, TypeOK

-----------------------------------------------------------------------------
\* The pool starts out empty on the settled chain.
LEMMA InitInv == Init => Inv
<1> SUFFICES ASSUME Init PROVE Inv
  OBVIOUS
<1>1. MadeBy(Genesis) \subseteq OutPoint
  <2>1. InBlock(Genesis) \subseteq Tx
    BY MempoolAssumption, HeaderTreeAssumption DEF InBlock, Range
  <2>2. QED
    BY <2>1 DEF MadeBy, OutPoint
<1>2. TypeOK
  BY <1>1, HeaderTreeAssumption DEF Init, TypeOK
<1>3. NextTxExact
  BY MempoolAssumption DEF Init, NextTxExact
<1>4. QED
  BY <1>2, <1>3 DEF Inv, Init, Owed, LaterSpends

\* accepttomemorypool
LEMMA AcceptInv ==
  ASSUME Inv, NEW t \in Tx, AcceptToMemoryPool(t)
  PROVE  Inv'
<1>1. Acceptable(t) /\ AddUnchecked(t) /\ handler = "none"
  BY DEF AcceptToMemoryPool
<1>2. TypeOK' /\ NextTxExact'
  BY <1>1, AddedFact DEF AcceptToMemoryPool, Inv, TypeOK, chain
<1>3. Owed'
  <2>1. \A o \in Inputs[t] : o[1] \in pool \/ o \in utxo
    BY <1>1 DEF Acceptable, Available
  <2>2. \A u \in pool : \A o \in Inputs[u] : o[1] \in pool \/ o \in utxo
    BY <1>1 DEF Inv, Owed
  <2>3. pool' = pool \cup {t} /\ utxo' = utxo
    BY <1>1 DEF AddUnchecked, AcceptToMemoryPool, chain
  <2>4. QED
    BY <2>1, <2>2, <2>3 DEF Owed
<1>4. LaterSpends'
  BY <1>1 DEF LaterSpends, AcceptToMemoryPool
<1>5. QED
  BY <1>2, <1>3, <1>4 DEF Inv

\* The transactions of a block and what they make.
LEMMA BlockFact ==
  ASSUME NEW b \in Block
  PROVE  /\ BlockTxs[b] \in Seq(Tx)
         /\ MadeBy(b) \subseteq OutPoint /\ SpentBy(b) \subseteq OutPoint
         /\ \A o \in SpentBy(b) : \E i \in DOMAIN BlockTxs[b] : o \in Inputs[BlockTxs[b][i]]
         /\ \A o \in MadeBy(b) : \E i \in DOMAIN BlockTxs[b] : o[1] = BlockTxs[b][i]
         /\ \A i \in DOMAIN BlockTxs[b] : Outputs(BlockTxs[b][i]) \subseteq MadeBy(b)
<1>1. BlockTxs[b] \in Seq(Tx) /\ InBlock(b) \subseteq Tx
  BY MempoolAssumption DEF InBlock, Range
<1>2. MadeBy(b) \subseteq OutPoint /\ SpentBy(b) \subseteq OutPoint
  BY <1>1, MempoolAssumption DEF MadeBy, SpentBy, OutPoint
<1>3. \A o \in SpentBy(b) : \E i \in DOMAIN BlockTxs[b] : o \in Inputs[BlockTxs[b][i]]
  BY DEF SpentBy, InBlock, Range
<1>4. ASSUME NEW o \in MadeBy(b)
      PROVE  \E i \in DOMAIN BlockTxs[b] : o[1] = BlockTxs[b][i]
  <2>1. PICK t \in InBlock(b) : o \in Outputs(t)
    BY DEF MadeBy
  <2>2. o[1] = t
    BY <1>1, <2>1, OutputsFact
  <2>3. QED
    BY <2>1, <2>2 DEF InBlock, Range
<1>5. \A i \in DOMAIN BlockTxs[b] : Outputs(BlockTxs[b][i]) \subseteq MadeBy(b)
  BY DEF MadeBy, InBlock, Range
<1>6. QED
  BY <1>1, <1>2, <1>3, <1>4, <1>5

\* In a valid block no transaction comes twice, and an output made in the block
\* is spent in it only after it is made.
LEMMA ValidFact ==
  ASSUME NEW b \in Block, Valid(b),
         NEW i \in DOMAIN BlockTxs[b], NEW j \in DOMAIN BlockTxs[b],
         NEW o \in Outputs(BlockTxs[b][i]), o \in Inputs[BlockTxs[b][j]]
  PROVE  j > i
<1> DEFINE txs == BlockTxs[b]
<1>1. /\ txs \in Seq(Tx) /\ DOMAIN txs = 1 .. Len(txs) /\ Len(txs) \in Nat
      /\ \A k \in DOMAIN txs : txs[k] \in Tx /\ (txs[k] \in Coinbase <=> k = 1)
  BY MempoolAssumption
<1>2. /\ \A k \in DOMAIN txs : ~HaveCoins(txs[k])
      /\ \A k \in DOMAIN txs : \A p \in Inputs[txs[k]] :
           /\ p \in utxo \/ \E l \in 1 .. k - 1 : p \in Outputs(txs[l])
           /\ \A l \in 1 .. k - 1 : p \notin Inputs[txs[l]]
  BY DEF Valid
<1> HIDE DEF txs
<1>3. i \in DOMAIN txs /\ j \in DOMAIN txs /\ o \in Outputs(txs[i]) /\ o \in Inputs[txs[j]]
  BY DEF txs
<1>4. o \notin utxo
  BY <1>2, <1>3 DEF HaveCoins
<1>5. PICK k \in 1 .. j - 1 : o \in Outputs(txs[k])
  BY <1>2, <1>3, <1>4
<1>6. k \in DOMAIN txs /\ k < j /\ i \in Nat /\ j \in Nat /\ k \in Nat
  BY <1>1, <1>3, <1>5
<1>7. txs[k] = txs[i]
  BY <1>1, <1>3, <1>5, <1>6, OutputsFact
<1>8. k = i
  <2>1. CASE txs[i] \in Coinbase
    BY <1>1, <1>3, <1>6, <1>7, <2>1
  <2>2. CASE txs[i] \notin Coinbase
    <3>1. PICK p : p \in Inputs[txs[i]]
      BY <1>1, <1>3, <2>2, MempoolAssumption
    <3>2. ~(k \in 1 .. i - 1) /\ ~(i \in 1 .. k - 1)
      BY <1>2, <1>3, <1>6, <1>7, <3>1
    <3>3. QED
      BY <1>1, <1>3, <1>6, <3>2
  <2>3. QED
    BY <2>1, <2>2
<1>9. QED
  BY <1>6, <1>8

\* connecttip
LEMMA ConnectInv ==
  ASSUME Inv, NEW b \in Block, ConnectTip(b)
  PROVE  Inv'
<1>1. /\ handler = "none" /\ handler' = "connecttip" /\ todo' = BlockTxs[b] /\ Valid(b)
      /\ tip' = b /\ utxo' = (utxo \cup MadeBy(b)) \ SpentBy(b)
      /\ pool' = pool /\ mapNextTx' = mapNextTx
  BY DEF ConnectTip
<1>2. TypeOK'
  BY <1>1, BlockFact, MempoolAssumption DEF Inv, TypeOK
<1>3. NextTxExact'
  BY <1>1 DEF Inv, NextTxExact
<1>4. Owed'
  <2>1. \A t \in pool : \A o \in Inputs[t] : o[1] \in pool \/ o \in utxo
    BY <1>1 DEF Inv, Owed
  <2>2. \A o \in SpentBy(b) : \E i \in DOMAIN BlockTxs[b] : o \in Inputs[BlockTxs[b][i]]
    BY BlockFact
  <2>3. QED
    BY <1>1, <2>1, <2>2 DEF Owed
<1>5. LaterSpends'
  <2>1. SUFFICES ASSUME NEW i \in DOMAIN BlockTxs[b], NEW o \in Outputs(BlockTxs[b][i]),
                        o \notin utxo'
                 PROVE  \E j \in DOMAIN BlockTxs[b] : j > i /\ o \in Inputs[BlockTxs[b][j]]
    BY <1>1 DEF LaterSpends
  <2>2. o \in SpentBy(b)
    BY <1>1, <2>1, BlockFact
  <2>3. PICK j \in DOMAIN BlockTxs[b] : o \in Inputs[BlockTxs[b][j]]
    BY <2>2, BlockFact
  <2>4. j > i
    BY <1>1, <2>1, <2>3, ValidFact
  <2>5. QED
    BY <2>3, <2>4
<1>6. QED
  BY <1>2, <1>3, <1>4, <1>5 DEF Inv

\* The positions of the rest of a sequence.
LEMMA TailFact ==
  ASSUME NEW q \in Seq(Tx), q # << >>
  PROVE  /\ Tail(q) \in Seq(Tx) /\ Head(q) \in Tx /\ Head(q) = q[1] /\ 1 \in DOMAIN q
         /\ \A i \in DOMAIN Tail(q) : i + 1 \in DOMAIN q /\ Tail(q)[i] = q[i + 1] /\ i \in Nat
         /\ \A i \in DOMAIN q : i # 1 => i - 1 \in DOMAIN Tail(q) /\ Tail(q)[i - 1] = q[i]
         /\ DOMAIN q \subseteq Nat
OBVIOUS

\* disconnecttip
LEMMA DisconnectInv ==
  ASSUME Inv, DisconnectTip
  PROVE  Inv'
<1>1. /\ handler = "none" /\ handler' = "disconnecttip" /\ todo' = BlockTxs[tip]
      /\ tip \in Block /\ tip # Genesis /\ tip' = Parent[tip]
      /\ utxo' = (utxo \cup SpentBy(tip)) \ MadeBy(tip)
      /\ pool' = pool /\ mapNextTx' = mapNextTx
  BY DEF DisconnectTip, Inv, TypeOK
<1>2. TypeOK'
  BY <1>1, BlockFact, HeaderTreeAssumption DEF Inv, TypeOK
<1>3. NextTxExact' /\ LaterSpends'
  BY <1>1 DEF Inv, NextTxExact, LaterSpends
<1>4. Owed'
  <2>1. \A t \in pool : \A o \in Inputs[t] : o[1] \in pool \/ o \in utxo
    BY <1>1 DEF Inv, Owed
  <2>2. \A o \in MadeBy(tip) : \E i \in DOMAIN BlockTxs[tip] : o[1] = BlockTxs[tip][i]
    BY <1>1, BlockFact
  <2>3. QED
    BY <1>1, <2>1, <2>2 DEF Owed
<1>5. QED
  BY <1>2, <1>3, <1>4 DEF Inv

\* removeforblock, one transaction
LEMMA RemoveForBlockInv ==
  ASSUME Inv, RemoveForBlock
  PROVE  Inv'
<1> DEFINE x         == Head(todo)
           rest      == pool \ Mined(x)
           next      == Erased(mapNextTx, Mined(x))
           roots     == {next[o] : o \in Inputs[x]} \ {x}
           conflicts == Family(roots, rest, next)
<1>1. /\ handler = "connecttip" /\ todo # << >> /\ todo \in Seq(Tx)
      /\ pool \subseteq Tx \ Coinbase /\ mapNextTx \in [OutPoint -> Tx \cup {NoTx}]
      /\ Exact(pool, mapNextTx)
  BY DEF RemoveForBlock, Inv, TypeOK, NextTxExact, Exact
<1>2. /\ pool' = rest \ conflicts /\ mapNextTx' = Erased(next, conflicts)
      /\ todo' = Tail(todo) /\ utxo' = utxo /\ tip' = tip
      /\ handler' = IF Tail(todo) = << >> THEN "none" ELSE "connecttip"
  BY DEF RemoveForBlock, chain
<1>3. /\ Tail(todo) \in Seq(Tx) /\ x \in Tx /\ x = todo[1] /\ 1 \in DOMAIN todo
      /\ \A i \in DOMAIN Tail(todo) : i + 1 \in DOMAIN todo /\ Tail(todo)[i] = todo[i + 1] /\ i \in Nat
      /\ \A i \in DOMAIN todo : i # 1 => i - 1 \in DOMAIN Tail(todo) /\ Tail(todo)[i - 1] = todo[i]
      /\ DOMAIN todo \subseteq Nat
  BY <1>1, TailFact
<1>4. /\ Mined(x) \subseteq pool /\ rest \in SUBSET Tx
      /\ next \in [OutPoint -> Tx \cup {NoTx}] /\ Exact(rest, next)
  <2>1. Mined(x) \in SUBSET pool /\ pool \in SUBSET Tx
    BY <1>1 DEF Mined
  <2>2. QED
    BY <1>1, <2>1, ErasedFact
<1>5. /\ conflicts \subseteq rest /\ roots \cap rest \subseteq conflicts
      /\ \A t \in conflicts : \A o \in Outputs(t) : next[o] \in rest => next[o] \in conflicts
  BY FamilyFact
<1>6. x \notin rest
  BY DEF Mined
<1>7. rest \subseteq pool /\ \A u \in pool : u \in rest \/ u = x
  BY DEF Mined
<1>8. \A o \in Inputs[x] : next[o] = x \/ next[o] \in roots
  OBVIOUS
<1> HIDE DEF x, rest, next, roots, conflicts
<1>9. mapNextTx' \in [OutPoint -> Tx \cup {NoTx}] /\ Exact(pool', mapNextTx')
  BY <1>2, <1>4, <1>5, ErasedFact
<1>10. TypeOK' /\ NextTxExact'
  BY <1>1, <1>2, <1>3, <1>5, <1>7, <1>9 DEF Inv, TypeOK, NextTxExact, Exact
<1>11. LaterSpends'
  <2>1. SUFFICES ASSUME handler' = "connecttip", NEW i \in DOMAIN todo', NEW o \in Outputs(todo'[i]),
                        o \notin utxo'
                 PROVE  \E j \in DOMAIN todo' : j > i /\ o \in Inputs[todo'[j]]
    BY DEF LaterSpends
  <2>2. i + 1 \in DOMAIN todo /\ o \in Outputs(todo[i + 1]) /\ o \notin utxo /\ i \in Nat
    BY <1>2, <1>3, <2>1
  <2>3. PICK j \in DOMAIN todo : j > i + 1 /\ o \in Inputs[todo[j]]
    BY <1>1, <2>2 DEF Inv, LaterSpends
  <2>4. j \in Nat /\ j # 1 /\ j - 1 > i
    BY <1>3, <2>2, <2>3
  <2>5. j - 1 \in DOMAIN todo' /\ o \in Inputs[todo'[j - 1]]
    BY <1>2, <1>3, <2>3, <2>4
  <2>6. QED
    BY <2>4, <2>5
<1>12. Owed'
  <2>1. SUFFICES ASSUME NEW t \in pool', NEW o \in Inputs[t], o[1] \notin pool', o \notin utxo'
                 PROVE  handler' = "connecttip" /\ \E i \in DOMAIN todo' : o \in Inputs[todo'[i]]
    BY DEF Owed
  <2>2. t \in rest /\ t \notin conflicts /\ t \in pool /\ t \in Tx /\ o \in OutPoint
    BY <1>1, <1>2, <1>7, <2>1, MempoolAssumption
  <2>3. next[o] = t /\ o \in Outputs(o[1]) /\ o[1] \in Tx
    BY <1>4, <2>2, OutPointFact DEF Exact
  <2>4. o \notin Inputs[x]
    BY <1>5, <1>6, <1>8, <2>2, <2>3
  <2>5. \E i \in DOMAIN todo : i # 1 /\ o \in Inputs[todo[i]]
    <3>1. CASE o[1] \in pool
      <4>1. o[1] \notin rest
        BY <1>2, <1>5, <2>1, <2>2, <2>3
      <4>2. o[1] = x
        BY <1>7, <3>1, <4>1
      <4>3. o \in Outputs(todo[1])
        BY <1>3, <2>3, <4>2
      <4>4. PICK j \in DOMAIN todo : j > 1 /\ o \in Inputs[todo[j]]
        BY <1>1, <1>2, <1>3, <2>1, <4>3 DEF Inv, LaterSpends
      <4>5. QED
        BY <4>4
    <3>2. CASE o[1] \notin pool
      BY <1>1, <1>2, <1>3, <2>1, <2>2, <2>4, <3>2 DEF Inv, Owed
    <3>3. QED
      BY <3>1, <3>2
  <2>6. PICK i \in DOMAIN todo : i # 1 /\ o \in Inputs[todo[i]]
    BY <2>5
  <2>7. i - 1 \in DOMAIN todo' /\ o \in Inputs[todo'[i - 1]]
    BY <1>2, <1>3, <2>6
  <2>8. Tail(todo) # << >>
    BY <1>2, <2>7
  <2>9. QED
    BY <1>2, <2>7, <2>8
<1>13. QED
  BY <1>10, <1>11, <1>12 DEF Inv

\* Resurrection of one transaction of a disconnected block
LEMMA ResurrectInv ==
  ASSUME Inv, NEW policy \in BOOLEAN, Resurrect(policy)
  PROVE  Inv'
<1> DEFINE x == Head(todo)
<1>1. /\ handler = "disconnecttip" /\ todo # << >> /\ todo \in Seq(Tx)
      /\ pool \subseteq Tx \ Coinbase
      /\ handler' = handler /\ todo' = Tail(todo) /\ utxo' = utxo /\ tip' = tip
  BY DEF Resurrect, chain, Inv, TypeOK
<1>2. IF Acceptable(x) /\ policy THEN AddUnchecked(x)
      ELSE TakeOut(Family(Roots(x), pool, mapNextTx))
  BY DEF Resurrect
<1>3. /\ Tail(todo) \in Seq(Tx) /\ x \in Tx /\ x = todo[1] /\ 1 \in DOMAIN todo
      /\ \A i \in DOMAIN todo : i # 1 => i - 1 \in DOMAIN Tail(todo) /\ Tail(todo)[i - 1] = todo[i]
  BY <1>1, TailFact
<1> HIDE DEF x
<1>4. LaterSpends'
  BY <1>1 DEF LaterSpends
<1>5. ASSUME NEW t \in pool, NEW o \in Inputs[t], o[1] \notin pool, o \notin utxo, o[1] # x
      PROVE  \E i \in DOMAIN todo' : o[1] = todo'[i]
  <2>1. PICK i \in DOMAIN todo : o[1] = todo[i]
    BY <1>1, <1>5 DEF Inv, Owed
  <2>2. i # 1
    BY <1>3, <1>5, <2>1
  <2>3. QED
    BY <1>1, <1>3, <2>1, <2>2
<1>6. CASE Acceptable(x) /\ policy
  <2>1. Acceptable(x) /\ AddUnchecked(x)
    BY <1>2, <1>6
  <2>2. pool' \subseteq Tx \ Coinbase /\ mapNextTx' \in [OutPoint -> Tx \cup {NoTx}] /\ NextTxExact'
    BY <1>3, <2>1, AddedFact
  <2>3. TypeOK'
    BY <1>1, <1>3, <2>2 DEF Inv, TypeOK
  <2>4. pool' = pool \cup {x}
    BY <2>1 DEF AddUnchecked
  <2>5. \A o \in Inputs[x] : o[1] \in pool \/ o \in utxo
    BY <2>1 DEF Acceptable, Available
  <2>6. Owed'
    BY <1>1, <1>5, <2>4, <2>5 DEF Owed
  <2>7. QED
    BY <1>4, <2>2, <2>3, <2>6 DEF Inv
<1>7. CASE ~(Acceptable(x) /\ policy)
  <2>1. TakeOut(Family(Roots(x), pool, mapNextTx))
    BY <1>2, <1>7
  <2>2. /\ pool' \subseteq Tx \ Coinbase /\ mapNextTx' \in [OutPoint -> Tx \cup {NoTx}]
        /\ NextTxExact' /\ Roots(x) \cap pool' = {}
        /\ \A t \in pool' : \A o \in Inputs[t] : o[1] \in pool => o[1] \in pool'
    BY <2>1, TakenOutFact
  <2>3. TypeOK'
    BY <1>1, <1>3, <2>2 DEF Inv, TypeOK
  <2>4. pool' \subseteq pool
    BY <2>1 DEF TakeOut
  <2>5. ASSUME NEW t \in pool', NEW o \in Inputs[t], o[1] = x
        PROVE  o[1] \in pool'
    <3>1. t \in Tx /\ o \in OutPoint /\ t \in pool
      BY <1>1, <2>4, <2>5, MempoolAssumption
    <3>2. mapNextTx[o] = t /\ o \in Outputs(x)
      BY <2>5, <3>1, OutPointFact DEF Inv, NextTxExact
    <3>3. x \in pool
      BY <2>2, <2>5, <3>2 DEF Roots
    <3>4. QED
      BY <2>2, <2>5, <3>3
  <2>6. Owed'
    BY <1>1, <1>5, <2>2, <2>4, <2>5 DEF Owed
  <2>7. QED
    BY <1>4, <2>2, <2>3, <2>6 DEF Inv
<1>8. QED
  BY <1>6, <1>7

\* removecoinbasespends
LEMMA RemoveCoinbaseSpendsInv ==
  ASSUME Inv, RemoveCoinbaseSpends
  PROVE  Inv'
<1> DEFINE roots == {t \in pool : Unspendable(t)}
<1>1. /\ handler = "disconnecttip" /\ todo = << >> /\ handler' = "none" /\ todo' = todo
      /\ utxo' = utxo /\ tip' = tip
      /\ TakeOut(Family(roots, pool, mapNextTx))
  BY DEF RemoveCoinbaseSpends, chain
<1> HIDE DEF roots
<1>2. /\ pool' \subseteq Tx \ Coinbase /\ mapNextTx' \in [OutPoint -> Tx \cup {NoTx}]
      /\ NextTxExact'
      /\ \A t \in pool' : \A o \in Inputs[t] : o[1] \in pool => o[1] \in pool'
  BY <1>1, TakenOutFact
<1>3. pool' \subseteq pool
  BY <1>1 DEF TakeOut
<1>4. TypeOK' /\ LaterSpends'
  BY <1>1, <1>2 DEF Inv, TypeOK, LaterSpends
<1>5. Owed'
  BY <1>1, <1>2, <1>3 DEF Inv, Owed
<1>6. QED
  BY <1>2, <1>4, <1>5 DEF Inv

\* Every step of the pool keeps the invariant.
LEMMA NextInv == Inv /\ [Next]_vars => Inv'
<1> SUFFICES ASSUME Inv, [Next]_vars PROVE Inv'
  OBVIOUS
<1>1. ASSUME NEW t \in Tx, AcceptToMemoryPool(t) PROVE Inv'
  BY <1>1, AcceptInv
<1>2. ASSUME NEW b \in Block, ConnectTip(b) PROVE Inv'
  BY <1>2, ConnectInv
<1>3. ASSUME NEW policy \in BOOLEAN, Resurrect(policy) PROVE Inv'
  BY <1>3, ResurrectInv
<1>4. CASE UNCHANGED vars
  BY <1>4 DEF vars, Inv, TypeOK, NextTxExact, Owed, LaterSpends
<1>5. QED
  BY <1>1, <1>2, <1>3, <1>4, RemoveForBlockInv, DisconnectInv, RemoveCoinbaseSpendsInv DEF Next

-----------------------------------------------------------------------------
\* The invariant holds in every state of the pool.
THEOREM PoolInvariant == Spec => []Inv
<1>1. QED
  BY InitInv, NextInv, PTL DEF Spec

\* mapnexttx and maptx describe the same transactions, whatever is accepted,
\* mined, disconnected or refused: at most one transaction of the pool spends
\* an output, and no pointer in mapnexttx dangles.
THEOREM PoolMapsAgree == Spec => []NextTxExact
<1>1. Inv => NextTxExact
  BY DEF Inv
<1>2. QED
  BY <1>1, PoolInvariant, PTL

\* The assertions of ctxmempool::check and removecoinbasespends about inputs
\* hold for every block tree and every set of transactions.
THEOREM PoolAlwaysSpendable == Spec => []PoolSpendable
<1>1. Inv => PoolSpendable
  <2>1. SUFFICES ASSUME Inv, todo = << >>, NEW t \in pool, NEW o \in Inputs[t]
                 PROVE  Available(o)
    BY DEF PoolSpendable
  <2>2. o \in OutPoint
    BY <2>1, MempoolAssumption DEF Inv, TypeOK
  <2>3. o[1] \in pool \/ o \in utxo
    BY <2>1 DEF Inv, Owed
  <2>4. QED
    BY <2>2, <2>3, OutPointFact DEF Available
<1>2. QED
  BY <1>1, PoolInvariant, PTL

-----------------------------------------------------------------------------
(***************************************************************************)
(* The pool and the active chain.  ChainInv says that the chain is what the *)
(* coins say: every block spends what was made before, no transaction is in *)
(* two blocks, no output is spent twice, and the unspent outputs are        *)
(* outputs of the chain that it does not spend.                             *)
(***************************************************************************)
InChain(b) == UNION {InBlock(x) : x \in Ancestors[b]}

ChainInv ==
  /\ \A x \in Ancestors[tip] : \A o \in SpentBy(x) : o[1] \in InChain(x)
  /\ \A x, y \in Ancestors[tip] :
       x # y => InBlock(x) \cap InBlock(y) = {} /\ SpentBy(x) \cap SpentBy(y) = {}
  /\ \A x \in Ancestors[tip] : SpentBy(x) \cap utxo = {}
  /\ \A o \in utxo : o[1] \in InChain(tip)

\* Only while its block is being connected is a transaction in both.
MinedInv ==
  \A t \in pool \cap Confirmed :
    handler = "connecttip" /\ \E i \in DOMAIN todo : todo[i] = t

\* Only while a block is being disconnected does the pool spend too early.
MatureInv == handler # "disconnecttip" => \A t \in pool : ~TooEarly(t)

\* Transactions of a block, what they make and what they spend.
LEMMA InBlockFact ==
  ASSUME NEW b \in Block
  PROVE  /\ InBlock(b) \subseteq Tx
         /\ \A t : t \in InBlock(b) <=> \E i \in DOMAIN BlockTxs[b] : t = BlockTxs[b][i]
         /\ \A o : o \in MadeBy(b) <=> o \in OutPoint /\ o[1] \in InBlock(b)
         /\ \A o : o \in SpentBy(b) <=> \E t \in InBlock(b) : o \in Inputs[t]
         /\ SpentBy(b) \subseteq OutPoint
<1>1. InBlock(b) \subseteq Tx
  BY MempoolAssumption DEF InBlock, Range
<1>2. \A t : t \in InBlock(b) <=> \E i \in DOMAIN BlockTxs[b] : t = BlockTxs[b][i]
  BY DEF InBlock, Range
<1>3. \A o : o \in SpentBy(b) <=> \E t \in InBlock(b) : o \in Inputs[t]
  BY DEF SpentBy
<1>4. ASSUME NEW o PROVE o \in MadeBy(b) <=> o \in OutPoint /\ o[1] \in InBlock(b)
  <2>1. o \in MadeBy(b) <=> \E t \in InBlock(b) : o \in Outputs(t)
    BY DEF MadeBy
  <2>2. QED
    BY <1>1, <2>1, OutputsFact, OutPointFact
<1>5. SpentBy(b) \subseteq OutPoint
  BY <1>1, <1>3, MempoolAssumption
<1>6. QED
  BY <1>1, <1>2, <1>3, <1>4, <1>5

\* The chain of a block is its own transactions and those of its parent's chain.
LEMMA InChainFact ==
  ASSUME NEW b \in Block
  PROVE  /\ InBlock(b) \subseteq InChain(b)
         /\ InChain(Genesis) = InBlock(Genesis)
         /\ \A x \in Ancestors[b] : InBlock(x) \subseteq InChain(b) /\ InChain(x) \subseteq InChain(b)
         /\ b # Genesis => InChain(b) = InBlock(b) \cup InChain(Parent[b])
         /\ \A t \in InChain(b) : \E x \in Ancestors[b] : t \in InBlock(x)
<1>1. /\ b \in Ancestors[b] /\ Ancestors[Genesis] = {Genesis}
      /\ \A x \in Ancestors[b] : Ancestors[x] \subseteq Ancestors[b]
      /\ b # Genesis => Ancestors[b] = {b} \cup Ancestors[Parent[b]]
  BY Ancestry
<1>2. QED
  BY <1>1 DEF InChain

\* A transaction of the chain is in no valid block on top of it: the coinbase
\* is new, and of the other ones the first would spend what the chain has spent.
LEMMA NotAgain ==
  ASSUME TypeOK, ChainInv, NEW b \in Block \ {Genesis}, Parent[b] = tip, Valid(b)
  PROVE  InBlock(b) \cap InChain(tip) = {}
<1> DEFINE txs == BlockTxs[b]
           T == {i \in DOMAIN txs : txs[i] \in InChain(tip)}
<1>1. /\ tip \in Block /\ txs \in Seq(Tx) /\ txs # << >>
      /\ \A i \in DOMAIN txs : i \in Nat /\ txs[i] \in Tx /\ (txs[i] \in Coinbase <=> i = 1)
      /\ \A i, j \in DOMAIN txs : \A k \in 1 .. i - 1 : k \in DOMAIN txs /\ k < i
  BY MempoolAssumption DEF TypeOK
<1>2. SUFFICES ASSUME T # {} PROVE FALSE
  BY InBlockFact
<1>3. PICK i \in T : \A j \in T : i <= j
  <2>1. T \in SUBSET Nat
    BY <1>1
  <2> HIDE DEF T
  <2>2. QED
    BY <1>2, <2>1, LeastNat
<1>4. PICK x \in Ancestors[tip] : txs[i] \in InBlock(x)
  BY <1>1, InChainFact
<1>5. /\ x \in Block /\ x \in Ancestors[b] /\ x # b
  BY <1>1, <1>4, Ancestry
<1>6. i # 1
  BY <1>3, <1>4, <1>5, ChainAssumption
<1>7. PICK o : o \in Inputs[txs[i]]
  BY <1>1, <1>3, <1>6, MempoolAssumption
<1>8. o \in SpentBy(x)
  BY <1>4, <1>5, <1>7, InBlockFact
<1>9. o \notin utxo /\ o[1] \in InChain(tip)
  BY <1>1, <1>4, <1>8, InChainFact DEF ChainInv
<1>10. PICK k \in 1 .. i - 1 : o \in Outputs(txs[k])
  BY <1>3, <1>7, <1>9 DEF Valid
<1>11. k \in T /\ k < i
  BY <1>1, <1>3, <1>9, <1>10, OutputsFact
<1>12. QED
  BY <1>1, <1>3, <1>11

\* connecttip keeps ChainInv.
LEMMA ConnectChain ==
  ASSUME TypeOK, ChainInv, NEW b \in Block, ConnectTip(b)
  PROVE  ChainInv'
<1>1. /\ b # Genesis /\ Parent[b] = tip /\ Valid(b) /\ tip' = b /\ tip \in Block
      /\ utxo' = (utxo \cup MadeBy(b)) \ SpentBy(b) /\ utxo \subseteq OutPoint
  BY DEF ConnectTip, TypeOK
<1>2. InBlock(b) \cap InChain(tip) = {}
  BY <1>1, NotAgain
<1>3. /\ Ancestors[b] = {b} \cup Ancestors[tip] /\ b \notin Ancestors[tip]
      /\ InChain(b) = InBlock(b) \cup InChain(tip)
      /\ \A x \in Ancestors[tip] : x \in Block /\ InBlock(x) \subseteq InChain(tip)
                                   /\ InChain(x) \subseteq InChain(tip)
  BY <1>1, Ancestry, InChainFact
<1>4. \A o \in SpentBy(b) : o \in OutPoint /\ (o \in utxo \/ o[1] \in InBlock(b))
  <2>1. SUFFICES ASSUME NEW o \in SpentBy(b), o \notin utxo PROVE o[1] \in InBlock(b)
    BY InBlockFact
  <2>2. PICK i \in DOMAIN BlockTxs[b] : o \in Inputs[BlockTxs[b][i]]
    BY BlockFact
  <2>3. PICK k \in 1 .. i - 1 : o \in Outputs(BlockTxs[b][k])
    BY <1>1, <2>1, <2>2 DEF Valid
  <2>4. k \in DOMAIN BlockTxs[b] /\ BlockTxs[b][k] \in Tx
    BY <2>2, <2>3, BlockFact
  <2>5. QED
    BY <2>3, <2>4, OutputsFact, InBlockFact
<1>5. \A o \in SpentBy(b) : o[1] \in InChain(b)
  BY <1>3, <1>4 DEF ChainInv
<1>6. \A x \in Ancestors[tip] : SpentBy(b) \cap SpentBy(x) = {}
  BY <1>2, <1>3, <1>4 DEF ChainInv
<1>7. \A x \in Ancestors[tip] : InBlock(b) \cap InBlock(x) = {}
  BY <1>2, <1>3
<1>8. \A x \in Ancestors[b] : SpentBy(x) \cap utxo' = {}
  <2>1. ASSUME NEW x \in Ancestors[tip], NEW o \in SpentBy(x) PROVE o \notin utxo'
    <3>1. o \notin utxo /\ o[1] \in InChain(tip)
      BY <1>3 DEF ChainInv
    <3>2. o \notin MadeBy(b)
      BY <1>2, <3>1, InBlockFact
    <3>3. QED
      BY <1>1, <3>1, <3>2
  <2>2. QED
    BY <1>1, <1>3, <2>1
<1>9. \A o \in utxo' : o[1] \in InChain(b)
  BY <1>1, <1>3, InBlockFact DEF ChainInv
<1>10. QED
  BY <1>1, <1>3, <1>5, <1>6, <1>7, <1>8, <1>9 DEF ChainInv, InChain

\* So does disconnecttip.
LEMMA DisconnectChain ==
  ASSUME TypeOK, ChainInv, DisconnectTip
  PROVE  ChainInv'
<1> DEFINE p == Parent[tip]
<1>1. /\ tip \in Block /\ tip # Genesis /\ p \in Block /\ tip' = p
      /\ utxo' = (utxo \cup SpentBy(tip)) \ MadeBy(tip) /\ utxo \subseteq OutPoint
  BY HeaderTreeAssumption DEF DisconnectTip, TypeOK
<1> HIDE DEF p
<1>2. /\ Ancestors[tip] = {tip} \cup Ancestors[p] /\ tip \notin Ancestors[p]
      /\ tip \in Ancestors[tip]
      /\ InChain(tip) = InBlock(tip) \cup InChain(p)
  BY <1>1, Ancestry, InChainFact DEF p
<1>3. \A x \in Ancestors[p] : SpentBy(x) \cap utxo' = {}
  BY <1>1, <1>2 DEF ChainInv
<1>4. \A o \in utxo' : o[1] \in InChain(p)
  <2>1. SUFFICES ASSUME NEW o \in utxo' PROVE o[1] \in InChain(p)
    OBVIOUS
  <2>2. o \in OutPoint /\ o[1] \in InChain(tip)
    BY <1>1, <1>2, InBlockFact DEF ChainInv
  <2>3. o[1] \notin InBlock(tip)
    BY <1>1, <2>2, InBlockFact
  <2>4. QED
    BY <1>2, <2>2, <2>3
<1>5. QED
  BY <1>1, <1>2, <1>3, <1>4 DEF ChainInv, InChain

\* And the chain of the start.
LEMMA InitChain == Init => ChainInv
<1> SUFFICES ASSUME Init PROVE ChainInv
  OBVIOUS
<1>1. /\ Genesis \in Block /\ Ancestors[Genesis] = {Genesis}
      /\ InChain(Genesis) = InBlock(Genesis)
  BY HeaderTreeAssumption, Ancestry, InChainFact
<1>2. \A o \in SpentBy(Genesis) : o[1] \in InChain(Genesis)
  BY <1>1, ChainAssumption, InBlockFact
<1>3. \A o \in MadeBy(Genesis) : o[1] \in InChain(Genesis)
  BY <1>1, InBlockFact
<1>4. QED
  BY <1>1, <1>2, <1>3 DEF Init, ChainInv

\* What accepttomemorypool lets in is not in the chain, even if all outputs of
\* such a transaction are spent: its inputs are spent as well.
LEMMA AcceptedIsNew ==
  ASSUME Inv, ChainInv, pool \cap Confirmed = {}, NEW t \in Tx, Acceptable(t)
  PROVE  t \notin Confirmed
<1>1. SUFFICES ASSUME t \in Confirmed PROVE FALSE
  OBVIOUS
<1>2. tip \in Block /\ Confirmed = InChain(tip)
  BY DEF Inv, TypeOK, Confirmed, InChain
<1>3. PICK x \in Ancestors[tip] : t \in InBlock(x)
  BY <1>1, <1>2, InChainFact
<1>4. PICK o : o \in Inputs[t]
  BY MempoolAssumption DEF Acceptable
<1>5. x \in Block /\ o \in SpentBy(x)
  BY <1>2, <1>3, <1>4, Ancestry, InBlockFact
<1>6. o \notin utxo /\ o[1] \in InChain(tip)
  BY <1>2, <1>3, <1>5, InChainFact DEF ChainInv
<1>7. QED
  BY <1>2, <1>4, <1>6 DEF Acceptable, Available

\* Every step keeps MinedInv.
LEMMA MinedStep ==
  ASSUME Inv, ChainInv, MinedInv, [Next]_vars
  PROVE  MinedInv'
<1>1. tip \in Block /\ Confirmed = InChain(tip) /\ Confirmed' = InChain(tip')
  BY DEF Inv, TypeOK, Confirmed, InChain
<1>2. handler # "connecttip" => pool \cap Confirmed = {}
  BY DEF MinedInv
<1>3. ASSUME NEW t \in Tx, Acceptable(t), handler # "connecttip", tip' = tip,
             pool' \subseteq pool \cup {t}
      PROVE  MinedInv'
  BY <1>1, <1>2, <1>3, AcceptedIsNew DEF MinedInv
<1>4. ASSUME handler # "connecttip", tip' = tip, pool' \subseteq pool PROVE MinedInv'
  BY <1>1, <1>2, <1>4 DEF MinedInv
<1>5. ASSUME NEW t \in Tx, AcceptToMemoryPool(t) PROVE MinedInv'
  BY <1>3, <1>5 DEF AcceptToMemoryPool, AddUnchecked, chain
<1>6. ASSUME NEW b \in Block, ConnectTip(b) PROVE MinedInv'
  <2>1. /\ pool' = pool /\ pool \cap Confirmed = {} /\ handler' = "connecttip"
        /\ todo' = BlockTxs[b] /\ InChain(b) = InBlock(b) \cup InChain(tip) /\ tip' = b
    BY <1>2, <1>6, InChainFact DEF ConnectTip
  <2>2. QED
    BY <1>1, <2>1, InBlockFact DEF MinedInv
<1>7. CASE RemoveForBlock
  <2>1. /\ pool' \subseteq pool \ {Head(todo)} /\ tip' = tip /\ todo' = Tail(todo)
        /\ handler' = IF Tail(todo) = << >> THEN "none" ELSE "connecttip"
    BY <1>7 DEF RemoveForBlock, Mined, chain
  <2>2. todo \in Seq(Tx) /\ todo # << >>
    BY <1>7 DEF RemoveForBlock, Inv, TypeOK
  <2>3. SUFFICES ASSUME NEW t \in pool' \cap Confirmed'
                 PROVE  handler' = "connecttip" /\ \E i \in DOMAIN todo' : todo'[i] = t
    BY DEF MinedInv
  <2>4. PICK i \in DOMAIN todo : todo[i] = t
    BY <1>1, <2>1, <2>3 DEF MinedInv
  <2>5. i # 1 /\ i - 1 \in DOMAIN Tail(todo) /\ Tail(todo)[i - 1] = t
    BY <2>1, <2>2, <2>3, <2>4, TailFact
  <2>6. Tail(todo) # << >>
    BY <2>5
  <2>7. QED
    BY <2>1, <2>5, <2>6
<1>8. CASE DisconnectTip
  <2>1. pool' = pool /\ pool \cap Confirmed = {} /\ InChain(tip') \subseteq InChain(tip)
    BY <1>1, <1>2, <1>8, InChainFact DEF DisconnectTip
  <2>2. QED
    BY <1>1, <2>1 DEF MinedInv
<1>9. ASSUME NEW policy \in BOOLEAN, Resurrect(policy) PROVE MinedInv'
  <2>1. handler # "connecttip" /\ tip' = tip /\ Head(todo) \in Tx
    BY <1>9, TailFact DEF Resurrect, chain, Inv, TypeOK
  <2>2. CASE Acceptable(Head(todo)) /\ policy
    BY <1>3, <1>9, <2>1, <2>2 DEF Resurrect, AddUnchecked
  <2>3. CASE ~(Acceptable(Head(todo)) /\ policy)
    BY <1>4, <1>9, <2>1, <2>3 DEF Resurrect, TakeOut
  <2>4. QED
    BY <2>2, <2>3
<1>10. CASE RemoveCoinbaseSpends
  BY <1>4, <1>10 DEF RemoveCoinbaseSpends, TakeOut, chain
<1>11. CASE UNCHANGED vars
  BY <1>1, <1>11 DEF MinedInv, vars
<1>12. QED
  BY <1>5, <1>6, <1>7, <1>8, <1>9, <1>10, <1>11 DEF Next

\* The height of an unspent output does not change when a block is connected.
LEMMA CoinHeightFact ==
  ASSUME TypeOK, ChainInv, NEW b \in Block, ConnectTip(b), NEW o \in utxo
  PROVE  CoinHeight(o[1], b) = CoinHeight(o[1], tip) /\ CoinHeight(o[1], tip) \in Nat
<1>1. /\ tip \in Block /\ o \in OutPoint /\ Valid(b) /\ Ancestors[b] = {b} \cup Ancestors[tip]
      /\ Ancestors[tip] \subseteq Block
  BY Ancestry DEF ConnectTip, TypeOK
<1>2. o[1] \notin InBlock(b)
  <2>1. SUFFICES ASSUME o[1] \in InBlock(b) PROVE FALSE
    OBVIOUS
  <2>2. ~HaveCoins(o[1])
    BY <1>1, <2>1, InBlockFact DEF Valid
  <2>3. QED
    BY <1>1, <2>2, OutPointFact DEF HaveCoins
<1>3. \A x : (x \in Ancestors[b] /\ o[1] \in InBlock(x)) <=> (x \in Ancestors[tip] /\ o[1] \in InBlock(x))
  BY <1>1, <1>2
<1>4. CoinHeight(o[1], b) = CoinHeight(o[1], tip)
  BY <1>3 DEF CoinHeight
<1>5. \E x \in Ancestors[tip] : o[1] \in InBlock(x)
  BY <1>1, InChainFact DEF ChainInv
<1>6. CoinHeight(o[1], tip) \in Nat
  BY <1>1, <1>5, HeightDef DEF CoinHeight
<1>7. QED
  BY <1>4, <1>6

\* Every step keeps MatureInv.
LEMMA MatureStep ==
  ASSUME Inv, ChainInv, MatureInv, [Next]_vars
  PROVE  MatureInv'
<1>1. ASSUME UNCHANGED chain, handler # "disconnecttip",
             \A t \in pool' \ pool : ~TooEarly(t)
      PROVE  MatureInv'
  <2>1. \A t \in pool' : ~TooEarly(t)
    BY <1>1 DEF MatureInv
  <2>2. QED
    BY <1>1, <2>1 DEF MatureInv, TooEarly, Immature, NextHeight, CoinHeight, chain
<1>2. ASSUME NEW t \in Tx, AcceptToMemoryPool(t) PROVE MatureInv'
  BY <1>1, <1>2 DEF AcceptToMemoryPool, AddUnchecked, Acceptable
<1>3. ASSUME NEW b \in Block, ConnectTip(b) PROVE MatureInv'
  <2>1. handler = "none" /\ tip' = b /\ pool' = pool
    BY <1>3 DEF ConnectTip
  <2>2. SUFFICES ASSUME NEW t \in pool, NEW o \in Inputs[t], o \in utxo',
                        Immature(o, b, Height[b] + 1)
                 PROVE  FALSE
    BY <2>1 DEF MatureInv, TooEarly, Immature, NextHeight, CoinHeight
  <2>3. o \in OutPoint /\ o[1] \in Coinbase /\ o[1] \notin pool
    BY <2>2, MempoolAssumption DEF Inv, TypeOK, Immature
  <2>4. o \in utxo
    BY <2>1, <2>2, <2>3 DEF Inv, Owed
  <2>5. ~Immature(o, tip, Height[tip] + 1)
    BY <2>1, <2>2, <2>4 DEF MatureInv, TooEarly, NextHeight
  <2>6. Height[b] = Height[tip] + 1 /\ Height[tip] \in Nat
    BY <1>3, HeightDef DEF ConnectTip, Inv, TypeOK
  <2>7. CoinHeight(o[1], b) = CoinHeight(o[1], tip) /\ CoinHeight(o[1], tip) \in Nat
    BY <1>3, <2>4, CoinHeightFact DEF Inv
  <2>8. QED
    BY <2>2, <2>3, <2>5, <2>6, <2>7, MempoolAssumption DEF Immature
<1>4. CASE RemoveForBlock
  BY <1>1, <1>4 DEF RemoveForBlock
<1>5. ASSUME handler' = "disconnecttip" PROVE MatureInv'
  BY <1>5 DEF MatureInv
<1>6. CASE RemoveCoinbaseSpends
  <2>1. SUFFICES ASSUME NEW t \in pool', NEW o \in Inputs[t],
                        o \in utxo, Immature(o, tip, NextHeight)
                 PROVE  FALSE
    BY <1>6 DEF MatureInv, TooEarly, RemoveCoinbaseSpends, chain, Immature, NextHeight, CoinHeight
  <2>2. {u \in pool : Unspendable(u)} \cap pool' = {} /\ pool' \subseteq pool
    <3> DEFINE roots == {u \in pool : Unspendable(u)}
    <3>1. TakeOut(Family(roots, pool, mapNextTx))
      BY <1>6 DEF RemoveCoinbaseSpends
    <3> HIDE DEF roots
    <3>2. roots \cap pool' = {} /\ pool' \subseteq pool
      BY <3>1, TakenOutFact DEF TakeOut
    <3>3. QED
      BY <3>2 DEF roots
  <2>3. o[1] \notin pool
    BY <2>1 DEF Immature, Inv, TypeOK
  <2>4. Unspendable(t)
    BY <2>1, <2>3 DEF Unspendable
  <2>5. QED
    BY <2>1, <2>2, <2>4
<1>7. CASE UNCHANGED vars
  BY <1>7 DEF MatureInv, TooEarly, Immature, NextHeight, CoinHeight, vars
<1>8. QED
  BY <1>2, <1>3, <1>4, <1>5, <1>6, <1>7 DEF Next, DisconnectTip, Resurrect

\* The pool and the chain fit together in every state.
THEOREM PoolAndChain == Spec => [](ChainInv /\ MinedInv /\ MatureInv)
<1>1. Init => ChainInv /\ MinedInv /\ MatureInv
  BY InitChain DEF Init, MinedInv, MatureInv
<1>2. Inv /\ ChainInv /\ MinedInv /\ MatureInv /\ [Next]_vars => (ChainInv /\ MinedInv /\ MatureInv)'
  <2> SUFFICES ASSUME Inv, ChainInv, MinedInv, MatureInv, [Next]_vars
               PROVE  ChainInv'
    BY MinedStep, MatureStep
  <2>1. ASSUME UNCHANGED <<tip, utxo>> PROVE ChainInv'
    BY <2>1 DEF ChainInv
  <2>2. QED
    BY <2>1, ConnectChain, DisconnectChain
    DEF Next, vars, Inv, AcceptToMemoryPool, RemoveForBlock, Resurrect, RemoveCoinbaseSpends, chain
<1>3. QED
  BY <1>1, <1>2, PoolInvariant, PTL DEF Spec

\* No transaction is in the pool and in the active chain at once, for every
\* block tree in which coinbases are unique.
THEOREM PoolNeverConfirmed == Spec => []PoolUnconfirmed
<1>1. MinedInv => PoolUnconfirmed
  BY DEF MinedInv, PoolUnconfirmed
<1>2. QED
  BY <1>1, PoolAndChain, PTL

\* Nothing in the pool spends a coinbase before the next block may, however
\* short the chain has become.
THEOREM PoolAlwaysMature == Spec => []PoolMature
<1>1. MatureInv => PoolMature
  BY DEF MatureInv, PoolMature
<1>2. QED
  BY <1>1, PoolAndChain, PTL

-----------------------------------------------------------------------------
(***************************************************************************)
(* What leaves the pool.  Of the transactions that a handler still has to  *)
(* go through, TodoInv says that no two are the same; those of a block     *)
(* that is connected are in the chain, spend different outputs and come    *)
(* after what they spend; those of a block that is disconnected are        *)
(* neither in the pool nor in the chain that is left.                      *)
(***************************************************************************)
Differ(q) == \A i, j \in DOMAIN q : i # j => q[i] # q[j]

Ordered(q) ==
  \A i, j \in DOMAIN q :
    /\ i # j => Inputs[q[i]] \cap Inputs[q[j]] = {}
    /\ \A o \in Outputs(q[i]) : o \in Inputs[q[j]] => j > i

TodoInv ==
  /\ \A x \in Ancestors[tip] \ {Genesis} : Differ(BlockTxs[x])
  /\ handler # "none" => Differ(todo)
  /\ handler = "connecttip" =>
       Ordered(todo) /\ \A i \in DOMAIN todo : todo[i] \in InBlock(tip)
  /\ handler = "disconnecttip" =>
       \A i \in DOMAIN todo : todo[i] \notin pool /\ todo[i] \notin InChain(tip)

\* A transaction that a recursive remove takes, and did not start with, spends an
\* output of another one that it takes.
LEMMA FamilyParent ==
  ASSUME NEW roots, NEW p, NEW next, NEW t \in Family(roots, p, next), t \notin roots
  PROVE  \E u \in Family(roots, p, next) : \E o \in Outputs(u) : next[o] = t
<1>1. SUFFICES ASSUME \A u \in Family(roots, p, next) : \A o \in Outputs(u) : next[o] # t
               PROVE  FALSE
  OBVIOUS
<1> DEFINE C == Family(roots, p, next) \ {t}
<1>2. C \in SUBSET p /\ roots \cap p \subseteq C
  BY FamilyFact
<1>3. Closed(C, p, next)
  BY <1>1, FamilyFact DEF Closed
<1>4. t \in C
  BY <1>2, <1>3 DEF Family
<1>5. QED
  BY <1>4

\* It takes nothing outside of a closed set with its roots.
LEMMA FamilyLeast ==
  ASSUME NEW roots, NEW p, NEW next, NEW C \in SUBSET p,
         roots \cap p \subseteq C, Closed(C, p, next)
  PROVE  Family(roots, p, next) \subseteq C
BY DEF Family

\* The transactions of a valid block differ, and each output that they spend is
\* spent once and after it is made.
LEMMA ValidOrdered ==
  ASSUME NEW b \in Block, Valid(b)
  PROVE  Differ(BlockTxs[b]) /\ Ordered(BlockTxs[b])
<1> DEFINE txs == BlockTxs[b]
<1>1. /\ \A k \in DOMAIN txs : k \in Nat /\ k >= 1 /\ txs[k] \in Tx /\ (txs[k] \in Coinbase <=> k = 1)
      /\ DOMAIN txs \subseteq Nat
  BY MempoolAssumption
<1>2. \A i, j \in DOMAIN txs : i < j => Inputs[txs[i]] \cap Inputs[txs[j]] = {}
  <2> SUFFICES ASSUME NEW i \in DOMAIN txs, NEW j \in DOMAIN txs, i < j, NEW o \in Inputs[txs[j]],
                      o \in Inputs[txs[i]]
               PROVE  FALSE
    OBVIOUS
  <2>1. i \in 1 .. j - 1
    BY <1>1
  <2>2. \A k \in 1 .. j - 1 : o \notin Inputs[txs[k]]
    BY DEF Valid
  <2>3. QED
    BY <2>1, <2>2
<1>3. \A i, j \in DOMAIN txs : i # j => Inputs[txs[i]] \cap Inputs[txs[j]] = {}
  <2> HIDE DEF txs
  <2> SUFFICES ASSUME NEW i \in DOMAIN txs, NEW j \in DOMAIN txs, i # j
               PROVE  Inputs[txs[i]] \cap Inputs[txs[j]] = {}
    OBVIOUS
  <2>1. i < j \/ j < i
    BY <1>1
  <2>2. QED
    BY <1>2, <2>1
<1>4. \A i, j \in DOMAIN txs : \A o \in Outputs(txs[i]) : o \in Inputs[txs[j]] => j > i
  BY ValidFact
<1>5. Differ(txs)
  <2> HIDE DEF txs
  <2> SUFFICES ASSUME NEW i \in DOMAIN txs, NEW j \in DOMAIN txs, i # j, txs[i] = txs[j]
               PROVE  FALSE
    BY DEF Differ
  <2>1. Inputs[txs[i]] = {}
    BY <1>3
  <2>2. txs[i] \in Coinbase /\ txs[j] \in Coinbase
    BY <1>1, <2>1, MempoolAssumption
  <2>3. QED
    BY <1>1, <2>2
<1>6. QED
  BY <1>3, <1>4, <1>5 DEF Ordered

\* The rest of a sequence keeps both.
LEMMA TailOrdered ==
  ASSUME NEW q \in Seq(Tx), q # << >>
  PROVE  /\ Differ(q) => Differ(Tail(q)) /\ \A i \in DOMAIN Tail(q) : Tail(q)[i] # Head(q)
         /\ Ordered(q) => Ordered(Tail(q))
         /\ \A i \in DOMAIN Tail(q) : \E j \in DOMAIN q : Tail(q)[i] = q[j]
<1>1. /\ Head(q) = q[1] /\ 1 \in DOMAIN q
      /\ \A i \in DOMAIN Tail(q) : i + 1 \in DOMAIN q /\ Tail(q)[i] = q[i + 1] /\ i \in Nat /\ i # 0
  OBVIOUS
<1>2. ASSUME Differ(q), NEW i \in DOMAIN Tail(q)
      PROVE  /\ Tail(q)[i] # Head(q)
             /\ \A j \in DOMAIN Tail(q) : i # j => Tail(q)[i] # Tail(q)[j]
  <2>1. i + 1 # 1 /\ \A j \in DOMAIN Tail(q) : i # j => i + 1 # j + 1
    BY <1>1
  <2>2. QED
    BY <1>1, <1>2, <2>1 DEF Differ
<1>3. ASSUME Ordered(q), NEW i \in DOMAIN Tail(q), NEW j \in DOMAIN Tail(q)
      PROVE  /\ i # j => Inputs[Tail(q)[i]] \cap Inputs[Tail(q)[j]] = {}
             /\ \A o \in Outputs(Tail(q)[i]) : o \in Inputs[Tail(q)[j]] => j > i
  <2>1. /\ i # j => i + 1 # j + 1
        /\ j + 1 > i + 1 => j > i
    BY <1>1
  <2>2. /\ i + 1 # j + 1 => Inputs[q[i + 1]] \cap Inputs[q[j + 1]] = {}
        /\ \A o \in Outputs(q[i + 1]) : o \in Inputs[q[j + 1]] => j + 1 > i + 1
    BY <1>1, <1>3 DEF Ordered
  <2>3. QED
    BY <1>1, <2>1, <2>2
<1>4. QED
  BY <1>1, <1>2, <1>3 DEF Differ, Ordered

\* Every step keeps TodoInv.
LEMMA TodoStep ==
  ASSUME Inv, ChainInv, MinedInv, TodoInv, [Next]_vars
  PROVE  TodoInv'
<1>1. tip \in Block /\ Confirmed = InChain(tip)
  BY DEF Inv, TypeOK, Confirmed, InChain
<1>2. ASSUME handler' = "none", tip' = tip PROVE TodoInv'
  BY <1>2 DEF TodoInv
<1>3. ASSUME NEW b \in Block, ConnectTip(b) PROVE TodoInv'
  <2>1. /\ tip' = b /\ handler' = "connecttip" /\ todo' = BlockTxs[b] /\ Valid(b)
        /\ b # Genesis /\ Parent[b] = tip /\ Ancestors[b] = {b} \cup Ancestors[tip]
    BY <1>3, Ancestry DEF ConnectTip
  <2>2. Differ(BlockTxs[b]) /\ Ordered(BlockTxs[b])
    BY <2>1, ValidOrdered
  <2>3. \A i \in DOMAIN BlockTxs[b] : BlockTxs[b][i] \in InBlock(b)
    BY InBlockFact
  <2>4. QED
    BY <2>1, <2>2, <2>3 DEF TodoInv
<1>4. CASE DisconnectTip
  <2>1. /\ tip' = Parent[tip] /\ handler' = "disconnecttip" /\ todo' = BlockTxs[tip]
        /\ tip # Genesis /\ Ancestors[tip] = {tip} \cup Ancestors[tip'] /\ pool' = pool
        /\ handler = "none" /\ tip \in Ancestors[tip] /\ tip \notin Ancestors[tip'] /\ tip' \in Block
    BY <1>1, <1>4, Ancestry, HeaderTreeAssumption DEF DisconnectTip
  <2>2. ASSUME NEW t \in InBlock(tip) PROVE t \notin pool /\ t \notin InChain(tip')
    <3>1. t \notin pool
      BY <1>1, <2>1, <2>2, InChainFact DEF MinedInv
    <3>2. \A x \in Ancestors[tip'] : t \notin InBlock(x)
      BY <2>1, <2>2 DEF ChainInv
    <3>3. QED
      BY <2>1, <3>1, <3>2, InChainFact
  <2>3. \A i \in DOMAIN BlockTxs[tip] : BlockTxs[tip][i] \in InBlock(tip)
    BY <1>1, InBlockFact
  <2>4. QED
    BY <2>1, <2>2, <2>3 DEF TodoInv
<1>5. ASSUME handler # "none", handler' = handler, tip' = tip, todo # << >>, todo' = Tail(todo),
             pool' \subseteq pool \cup {Head(todo)}
      PROVE  TodoInv'
  <2>1. /\ Differ(Tail(todo)) /\ \A i \in DOMAIN Tail(todo) : Tail(todo)[i] # Head(todo)
        /\ Ordered(todo) => Ordered(Tail(todo))
        /\ \A i \in DOMAIN Tail(todo) : \E j \in DOMAIN todo : Tail(todo)[i] = todo[j]
    BY <1>5, TailOrdered DEF TodoInv, Inv, TypeOK
  <2>2. QED
    BY <1>5, <2>1 DEF TodoInv
<1>6. CASE RemoveForBlock
  <2>1. /\ handler = "connecttip" /\ handler' \in {"none", "connecttip"} /\ tip' = tip
        /\ todo' = Tail(todo) /\ pool' \subseteq pool /\ todo # << >>
    BY <1>6 DEF RemoveForBlock, chain, Inv, TypeOK
  <2>2. QED
    BY <1>2, <1>5, <2>1
<1>7. ASSUME NEW policy \in BOOLEAN, Resurrect(policy) PROVE TodoInv'
  <2>1. pool' \subseteq pool \cup {Head(todo)}
    BY <1>7 DEF Resurrect, AddUnchecked, TakeOut
  <2>2. QED
    BY <1>5, <1>7, <2>1 DEF Resurrect, chain
<1>8. CASE UNCHANGED vars
  BY <1>8 DEF TodoInv, vars
<1>9. QED
  BY <1>2, <1>3, <1>4, <1>6, <1>7, <1>8
  DEF Next, AcceptToMemoryPool, RemoveCoinbaseSpends, chain

\* Why a transaction may leave.
Justified(t) ==
  \/ t \in Confirmed'
  \/ \E o \in Inputs[t] : ~Available(o)' \/ (o \in utxo /\ Immature(o, tip, NextHeight))'

\* An input whose maker is not in the pool and that the chain has spent, or never
\* had, is one reason.
LEMMA Missing ==
  ASSUME NEW t, NEW o \in Inputs[t], o[1] \notin pool', o \notin utxo'
  PROVE  Justified(t)
BY DEF Justified, Available

\* While no block is connected, a recursive remove takes with a transaction only
\* those that depend on it.
LEMMA FamilyJustified ==
  ASSUME Inv, ChainInv, MinedInv, handler # "connecttip", UNCHANGED chain, NEW roots,
         TakeOut(Family(roots, pool, mapNextTx)), NEW t \in pool \ pool', t \notin roots
  PROVE  Justified(t)
<1> DEFINE gone == Family(roots, pool, mapNextTx)
<1>1. pool' = pool \ gone /\ gone \subseteq pool /\ t \in gone
  BY FamilyFact DEF TakeOut
<1>2. PICK u \in gone : \E o \in Outputs(u) : mapNextTx[o] = t
  BY <1>1, FamilyParent
<1>3. PICK o \in Outputs(u) : mapNextTx[o] = t
  BY <1>2
<1> HIDE DEF gone
<1>4. t \in Tx /\ u \in Tx /\ u \in pool /\ u \notin pool'
  BY <1>1, <1>2 DEF Inv, TypeOK
<1>5. o \in Inputs[t] /\ o[1] = u
  BY <1>3, <1>4, OutputsFact DEF Inv, NextTxExact
<1>6. o \notin utxo'
  <2>1. u \notin InChain(tip)
    BY <1>4 DEF MinedInv, Confirmed, InChain
  <2>2. QED
    BY <1>5, <2>1 DEF ChainInv, chain
<1>7. QED
  BY <1>4, <1>5, <1>6, Missing

\* removeforblock removes what is mined, and what conflicts with it.
LEMMA ConflictsJustified ==
  ASSUME Inv, ChainInv, MinedInv, TodoInv, RemoveForBlock, NEW t \in pool \ pool'
  PROVE  Justified(t)
<1> DEFINE x         == Head(todo)
           rest      == pool \ Mined(x)
           next      == Erased(mapNextTx, Mined(x))
           roots     == {next[o] : o \in Inputs[x]} \ {x}
           conflicts == Family(roots, rest, next)
<1>1. /\ handler = "connecttip" /\ todo # << >> /\ todo \in Seq(Tx) /\ tip \in Block
      /\ pool \subseteq Tx \ Coinbase /\ mapNextTx \in [OutPoint -> Tx \cup {NoTx}]
      /\ Exact(pool, mapNextTx) /\ Confirmed = InChain(tip)
  BY DEF RemoveForBlock, Inv, TypeOK, NextTxExact, Exact, Confirmed, InChain
<1>2. pool' = rest \ conflicts /\ utxo' = utxo /\ tip' = tip
  BY DEF RemoveForBlock, chain
<1>3. /\ x \in Tx /\ x = todo[1] /\ 1 \in DOMAIN todo /\ Ordered(todo)
      /\ \A i \in DOMAIN todo : todo[i] \in InBlock(tip) /\ i \in Nat /\ i >= 1
  BY <1>1, TailFact DEF TodoInv
<1>4. Mined(x) = {x} \cap pool /\ Mined(x) \in SUBSET pool /\ rest \in SUBSET Tx
  BY <1>1 DEF Mined
<1>5. next \in [OutPoint -> Tx \cup {NoTx}] /\ Exact(rest, next)
  BY <1>1, <1>4, ErasedFact
<1>6. conflicts \subseteq rest
  BY FamilyFact
<1>7. \A u \in roots : \E o \in Inputs[x] : next[o] = u
  OBVIOUS
<1>8. rest = pool \ {x}
  BY <1>4
<1>9. ASSUME NEW u \in conflicts, u \notin roots
      PROVE  \E v \in conflicts : \E o \in Outputs(v) : next[o] = u
  <2> HIDE DEF x, rest, next, roots
  <2> QED
    BY <1>9, FamilyParent
<1>10. ASSUME NEW C \in SUBSET rest, roots \cap rest \subseteq C, Closed(C, rest, next)
       PROVE  conflicts \subseteq C
  BY <1>10, FamilyLeast
<1> HIDE DEF x, rest, next, roots, conflicts
<1>11. x \in InBlock(tip) /\ tip \in Ancestors[tip] /\ InBlock(tip) \subseteq InChain(tip)
  BY <1>1, <1>3, Ancestry, InChainFact
\* What x spends is not unspent, and nothing in the pool but x makes it later.
<1>12. ASSUME NEW o \in Inputs[x] PROVE o \notin utxo /\ o[1] \notin rest
  <2>1. o \in SpentBy(tip) /\ o \in OutPoint
    BY <1>1, <1>3, <1>11, InBlockFact, MempoolAssumption
  <2>2. o \notin utxo /\ o[1] \in InChain(tip)
    BY <1>1, <1>11, <2>1 DEF ChainInv
  <2>3. ASSUME o[1] \in rest PROVE FALSE
    <3>1. PICK i \in DOMAIN todo : todo[i] = o[1]
      BY <1>1, <1>8, <2>2, <2>3 DEF MinedInv
    <3>2. o \in Outputs(todo[i]) /\ o \in Inputs[todo[1]]
      BY <1>3, <2>1, <3>1, OutPointFact
    <3>3. 1 > i
      BY <1>3, <3>2 DEF Ordered
    <3>4. QED
      BY <1>3, <3>3
  <2>4. QED
    BY <2>2, <2>3
<1>13. conflicts \cap InChain(tip) = {}
  <2> DEFINE C == rest \ InChain(tip)
  <2>1. roots \cap rest \subseteq C
    <3> SUFFICES ASSUME NEW u \in roots, u \in rest, u \in InChain(tip) PROVE FALSE
      OBVIOUS
    <3>1. PICK o \in Inputs[x] : next[o] = u
      BY <1>7
    <3>2. o \in Inputs[u] /\ u # x
      BY <1>3, <1>4, <1>5, <1>8, <3>1, MempoolAssumption DEF Exact
    <3>3. PICK i \in DOMAIN todo : todo[i] = u
      BY <1>1, <1>8 DEF MinedInv
    <3>4. i # 1
      BY <1>3, <3>2, <3>3
    <3>5. QED
      BY <1>3, <3>1, <3>2, <3>3, <3>4 DEF Ordered
  <2>2. Closed(C, rest, next)
    <3> SUFFICES ASSUME NEW c \in C, NEW o \in Outputs(c), next[o] \in rest, next[o] \in InChain(tip)
                 PROVE  FALSE
      BY DEF Closed
    <3>1. c \in Tx /\ next[o] \in Tx /\ o \in OutPoint /\ o[1] = c
      BY <1>4, OutputsFact
    <3>2. o \in Inputs[next[o]]
      BY <1>5, <3>1 DEF Exact
    <3>3. PICK y \in Ancestors[tip] : next[o] \in InBlock(y)
      BY <1>1, InChainFact
    <3>4. y \in Block /\ o \in SpentBy(y) /\ InChain(y) \subseteq InChain(tip)
      BY <1>1, <3>2, <3>3, Ancestry, InBlockFact, InChainFact
    <3>5. c \in InChain(tip)
      BY <3>1, <3>3, <3>4 DEF ChainInv
    <3>6. QED
      BY <3>5
  <2>3. C \in SUBSET rest
    OBVIOUS
  <2>4. conflicts \subseteq C
    <3> HIDE DEF C
    <3> QED
      BY <1>10, <2>1, <2>2, <2>3
  <2>5. QED
    BY <2>4
<1>14. CASE t = x
  BY <1>1, <1>2, <1>11, <1>14 DEF Justified, Confirmed, InChain
<1>15. CASE t \in roots /\ t # x
  <2>1. PICK o \in Inputs[x] : next[o] = t
    BY <1>7, <1>15
  <2>2. t \in Tx /\ t \in rest /\ o \in OutPoint
    BY <1>1, <1>3, <1>8, <1>15, MempoolAssumption
  <2>3. o \in Inputs[t]
    BY <1>5, <2>1, <2>2 DEF Exact
  <2>4. o[1] \notin pool' /\ o \notin utxo'
    BY <1>2, <1>12
  <2>5. QED
    BY <2>3, <2>4, Missing
<1>16. CASE t \notin roots /\ t # x
  <2>1. t \in conflicts
    BY <1>2, <1>8, <1>16
  <2>2. PICK v \in conflicts : \E o \in Outputs(v) : next[o] = t
    BY <1>9, <1>16, <2>1
  <2>3. PICK o \in Outputs(v) : next[o] = t
    BY <2>2
  <2>4. v \in Tx /\ t \in Tx /\ o \in OutPoint /\ o[1] = v
    BY <1>4, <1>6, <2>1, OutputsFact
  <2>5. o \in Inputs[t]
    BY <1>5, <2>3, <2>4 DEF Exact
  <2>6. o \notin utxo'
    BY <1>2, <1>13, <2>4 DEF ChainInv
  <2>7. o[1] \notin pool'
    BY <1>2, <2>4
  <2>8. QED
    BY <2>5, <2>6, <2>7, Missing
<1>17. QED
  BY <1>14, <1>15, <1>16

\* A transaction of a disconnected block that is refused takes along what depends
\* on it.
LEMMA RefusedJustified ==
  ASSUME Inv, ChainInv, MinedInv, TodoInv, NEW policy \in BOOLEAN, Resurrect(policy),
         NEW t \in pool \ pool'
  PROVE  Justified(t)
<1> DEFINE x == Head(todo)
<1>1. /\ handler = "disconnecttip" /\ todo # << >> /\ todo \in Seq(Tx) /\ UNCHANGED chain
      /\ pool \subseteq Tx \ Coinbase
  BY DEF Resurrect, Inv, TypeOK
<1>2. TakeOut(Family(Roots(x), pool, mapNextTx))
  BY DEF Resurrect, AddUnchecked
<1>3. x \in Tx /\ x \notin pool /\ x \notin InChain(tip)
  BY <1>1, TailFact DEF TodoInv
<1> HIDE DEF x
<1>4. CASE t \in Roots(x)
  <2>1. PICK o \in Outputs(x) : mapNextTx[o] = t
    BY <1>3, <1>4 DEF Roots
  <2>2. o \in OutPoint /\ o[1] = x /\ o \in Inputs[t]
    BY <1>1, <1>3, <2>1, OutputsFact DEF Inv, NextTxExact
  <2>3. o[1] \notin pool' /\ o \notin utxo'
    BY <1>1, <1>2, <1>3, <2>2 DEF TakeOut, ChainInv, chain
  <2>4. QED
    BY <2>2, <2>3, Missing
<1>5. CASE t \notin Roots(x)
  BY <1>1, <1>2, <1>5, FamilyJustified
<1>6. QED
  BY <1>4, <1>5

\* removecoinbasespends removes what spends an immature or missing coin, and what
\* depends on that.
LEMMA UnspendableJustified ==
  ASSUME Inv, ChainInv, MinedInv, RemoveCoinbaseSpends, NEW t \in pool \ pool'
  PROVE  Justified(t)
<1> DEFINE roots == {u \in pool : Unspendable(u)}
<1>1. handler # "connecttip" /\ UNCHANGED chain /\ TakeOut(Family(roots, pool, mapNextTx))
  BY DEF RemoveCoinbaseSpends
<1>2. pool' \subseteq pool
  BY <1>1 DEF TakeOut
<1>3. CASE t \in roots
  <2>1. PICK o \in Inputs[t] : o[1] \notin pool /\ (~HaveCoins(o[1]) \/ Immature(o, tip, NextHeight))
    BY <1>3 DEF Unspendable
  <2>2. CASE o \in utxo
    <3>1. o \in OutPoint
      BY <2>2 DEF Inv, TypeOK
    <3>2. HaveCoins(o[1])
      BY <2>2, <3>1, OutPointFact DEF HaveCoins
    <3>3. Immature(o, tip, NextHeight)
      BY <2>1, <3>2
    <3>4. (o \in utxo /\ Immature(o, tip, NextHeight))'
      BY <1>1, <2>2, <3>3 DEF chain, Immature, NextHeight, CoinHeight
    <3>5. QED
      BY <3>4 DEF Justified
  <2>3. CASE o \notin utxo
    BY <1>1, <1>2, <2>1, <2>3, Missing DEF chain
  <2>4. QED
    BY <2>2, <2>3
<1> HIDE DEF roots
<1>4. CASE t \notin roots
  BY <1>1, <1>4, FamilyJustified
<1>5. QED
  BY <1>3, <1>4

\* The handlers go through their blocks as TodoInv says.
THEOREM PoolTodo == Spec => []TodoInv
<1>1. Init => TodoInv
  <2> SUFFICES ASSUME Init PROVE TodoInv
    OBVIOUS
  <2>1. Ancestors[Genesis] = {Genesis}
    BY Ancestry, HeaderTreeAssumption
  <2>2. QED
    BY <2>1 DEF Init, TodoInv
<1>2. Inv /\ ChainInv /\ MinedInv /\ TodoInv /\ [Next]_vars => TodoInv'
  BY TodoStep
<1>3. QED
  BY <1>1, <1>2, PoolInvariant, PoolAndChain, PTL DEF Spec

\* The pool loses no transaction that could still be mined, through every
\* reorganisation and however transactions depend on each other.
THEOREM PoolLossJustified == Spec => LossJustified
<1>1. Inv /\ ChainInv /\ MinedInv /\ TodoInv /\ [Next]_vars =>
        [\A t \in pool \ pool' :
           \/ t \in Confirmed'
           \/ \E o \in Inputs[t] :
                ~Available(o)' \/ (o \in utxo /\ Immature(o, tip, NextHeight))']_vars
  <2> SUFFICES ASSUME Inv, ChainInv, MinedInv, TodoInv, Next, NEW t \in pool \ pool'
               PROVE  Justified(t)
    BY DEF Justified
  <2>1. ASSUME pool \subseteq pool' PROVE FALSE
    BY <2>1
  <2>2. CASE \E u \in Tx : AcceptToMemoryPool(u)
    BY <2>1, <2>2 DEF AcceptToMemoryPool, AddUnchecked
  <2>3. CASE (\E b \in Block : ConnectTip(b)) \/ DisconnectTip
    BY <2>1, <2>3 DEF ConnectTip, DisconnectTip
  <2>4. QED
    BY <2>2, <2>3, ConflictsJustified, RefusedJustified, UnspendableJustified DEF Next
<1>2. QED
  BY <1>1, PoolInvariant, PoolAndChain, PoolTodo, PTL DEF Spec, LossJustified

-----------------------------------------------------------------------------
\* cs_main is held by one handler at a time, the two maps of orphans describe
\* the same transactions, and there are never too many.
RelayInv ==
  /\ orphans \in [Tx -> Peer \cup {NoPeer}]
  /\ byPrev \in [Tx -> SUBSET Tx]
  /\ handler = "none" \/ work = << >>
  /\ OrphansIndexed
  /\ IsFiniteSet(Stored) /\ Cardinality(Stored) <= MaxOrphans

\* What the handler of the tx message knows of its own progress: only stored
\* orphans are tried, and only by a handler that runs.
HandlerInv ==
  /\ work \in Seq(Tx) /\ at \in 0 .. Len(work)
  /\ trying \subseteq Stored /\ erase \subseteq Tx /\ bad \subseteq Peer
  /\ work = << >> => trying = {}

\* Nothing is stored at the start.
LEMMA RelayInitInv == RelayInit => RelayInv
<1> SUFFICES ASSUME RelayInit PROVE RelayInv
  OBVIOUS
<1>1. Stored = {}
  BY DEF RelayInit, Stored
<1>2. IsFiniteSet(Stored) /\ Cardinality(Stored) <= MaxOrphans
  BY <1>1, FS_EmptySet, TxRelayAssumption
<1>3. OrphansIndexed
  BY <1>1 DEF RelayInit, OrphansIndexed
<1>4. QED
  BY <1>2, <1>3 DEF RelayInit, RelayInv, Init

\* Erasing orphans keeps the maps exact and the number small.
LEMMA ErasedOrphans ==
  ASSUME RelayInv, NEW gone \in SUBSET Tx, EraseOrphans(gone)
  PROVE  /\ orphans' \in [Tx -> Peer \cup {NoPeer}]
         /\ byPrev' \in [Tx -> SUBSET Tx]
         /\ OrphansIndexed'
         /\ IsFiniteSet(Stored') /\ Cardinality(Stored') <= MaxOrphans
<1>1. orphans' \in [Tx -> Peer \cup {NoPeer}] /\ Stored' = Stored \ gone
  BY DEF RelayInv, EraseOrphans, Stored
<1>2. byPrev' = [p \in Tx |-> byPrev[p] \ {t \in gone : p \in Parents(t)}]
  BY DEF EraseOrphans, Unindexed
<1>3. byPrev' \in [Tx -> SUBSET Tx]
  BY <1>2 DEF RelayInv
<1>4. OrphansIndexed'
  BY <1>1, <1>2 DEF RelayInv, OrphansIndexed, Parents
<1>5. IsFiniteSet(Stored') /\ Cardinality(Stored') <= Cardinality(Stored)
  BY <1>1, FS_Subset DEF RelayInv
<1>6. Cardinality(Stored) \in Nat /\ Cardinality(Stored') \in Nat
  BY <1>5, FS_CardinalityType DEF RelayInv
<1>7. QED
  BY <1>1, <1>3, <1>4, <1>5, <1>6, TxRelayAssumption DEF RelayInv

\* So does storing one and evicting the surplus.
LEMMA AddedOrphan ==
  ASSUME RelayInv, NEW n \in Peer, NEW t \in Tx, AddOrphanTx(n, t)
  PROVE  /\ orphans' \in [Tx -> Peer \cup {NoPeer}]
         /\ byPrev' \in [Tx -> SUBSET Tx]
         /\ OrphansIndexed'
         /\ IsFiniteSet(Stored') /\ Cardinality(Stored') <= MaxOrphans
<1> DEFINE all == Stored \cup {t}
<1>1. PICK gone \in Surplus(t) :
        /\ orphans' = [x \in Tx |-> IF x \in gone THEN NoPeer
                                    ELSE IF x = t /\ t \notin Stored THEN n ELSE orphans[x]]
        /\ byPrev' = [p \in Tx |-> IF p \in Parents(t) /\ t \notin gone
                                   THEN Unindexed(gone)[p] \cup {t} ELSE Unindexed(gone)[p]]
  BY DEF AddOrphanTx
<1>2. all \subseteq Tx /\ IsFiniteSet(all)
  BY FS_AddElement DEF RelayInv, Stored
<1>3. gone \subseteq all /\ Cardinality(all \ gone) <= MaxOrphans
  <2>1. CASE Cardinality(all) <= MaxOrphans
    <3>1. gone = {} /\ all \ gone = all
      BY <1>1, <2>1 DEF Surplus
    <3>2. QED
      BY <2>1, <3>1
  <2>2. CASE ~(Cardinality(all) <= MaxOrphans)
    BY <1>1, <2>2, TxRelayAssumption DEF Surplus
  <2>3. QED
    BY <2>1, <2>2
<1>4. Stored' = all \ gone
  BY <1>1, <1>2, TxRelayAssumption DEF RelayInv, Stored
<1>5. IsFiniteSet(Stored') /\ Cardinality(Stored') <= MaxOrphans
  BY <1>2, <1>3, <1>4, FS_Subset
<1>6. orphans' \in [Tx -> Peer \cup {NoPeer}]
  BY <1>1 DEF RelayInv
<1>7. Unindexed(gone) = [p \in Tx |-> byPrev[p] \ {x \in gone : p \in Parents(x)}]
  BY DEF Unindexed
<1>8. byPrev' \in [Tx -> SUBSET Tx]
  BY <1>1, <1>7 DEF RelayInv
<1>9. OrphansIndexed'
  <2>1. SUFFICES ASSUME NEW p \in Tx, NEW x \in Tx
                 PROVE  x \in byPrev'[p] <=> x \in Stored' /\ p \in Parents(x)
    BY DEF OrphansIndexed, Parents
  <2>2. x \in byPrev[p] <=> x \in Stored /\ p \in Parents(x)
    BY DEF RelayInv, OrphansIndexed
  <2>3. x \in byPrev'[p] <=> \/ p \in Parents(t) /\ t \notin gone /\ x = t
                             \/ x \in byPrev[p] /\ ~(x \in gone /\ p \in Parents(x))
    BY <1>1, <1>7
  <2>4. QED
    BY <1>4, <2>2, <2>3
<1>10. QED
  BY <1>5, <1>6, <1>8, <1>9

\* A step of the relay keeps its invariant and is a step of the pool, or
\* leaves the pool alone.
LEMMA RelayStep ==
  ASSUME RelayInv, HandlerInv, [RelayNext]_relayVars
  PROVE  RelayInv' /\ [Next]_vars
<1> DEFINE Same == UNCHANGED <<orphans, byPrev>>
<1>1. ASSUME Same, handler' = "none" \/ work' = << >> PROVE RelayInv'
  <2>1. Stored' = Stored
    BY <1>1 DEF Stored
  <2>2. QED
    BY <1>1, <2>1 DEF RelayInv, OrphansIndexed, Parents
<1>2. CASE UNCHANGED relayVars
  BY <1>1, <1>2 DEF relayVars, vars, orphanVars, handlerVars, RelayInv
<1>3. CASE Others
  BY <1>1, <1>3 DEF Others, orphanVars, handlerVars
<1>4. CASE NextParent
  BY <1>1, <1>4 DEF NextParent, vars, orphanVars, RelayInv
<1>5. CASE EraseQueued
  <2>1. EraseOrphans(erase) /\ work' = << >> /\ UNCHANGED vars
    BY <1>5 DEF EraseQueued
  <2>2. QED
    BY <2>1, ErasedOrphans DEF RelayInv, HandlerInv
<1>6. ASSUME NEW n \in Peer, EraseOrphansFor(n) PROVE RelayInv' /\ [Next]_vars
  <2>1. /\ EraseOrphans({t \in Tx : orphans[t] = n})
        /\ UNCHANGED vars /\ work' = work /\ handler' = handler
    BY <1>6 DEF EraseOrphansFor, handlerVars, vars
  <2>2. QED
    BY <2>1, ErasedOrphans DEF RelayInv
<1>7. ASSUME NEW n \in Peer, NEW t \in Tx, TxMessage(n, t) PROVE RelayInv' /\ [Next]_vars
  <2>1. CASE AcceptTx(t)
    <3>1. handler = "none" /\ handler' = handler /\ Same
      BY <1>7, <2>1 DEF TxMessage, Idle, AcceptTx, orphanVars
    <3>2. AcceptToMemoryPool(t)
      BY <2>1, <3>1 DEF AcceptTx, AcceptToMemoryPool
    <3>3. QED
      BY <1>1, <3>1, <3>2 DEF Next
  <2>2. CASE AddOrphanTx(n, t)
    <3>1. UNCHANGED vars /\ work' = work /\ handler' = handler
      BY <2>2 DEF AddOrphanTx, handlerVars, vars
    <3>2. QED
      BY <2>2, <3>1, AddedOrphan DEF RelayInv
  <2>3. QED
    BY <1>7, <2>1, <2>2 DEF TxMessage
<1>8. ASSUME NEW t \in trying, NEW policy \in BOOLEAN, NEW early \in BOOLEAN,
             NEW punish \in BOOLEAN, TryOrphan(t, policy, early, punish)
      PROVE  RelayInv' /\ [Next]_vars
  <2>1. handler = "none" /\ handler' = handler /\ Same /\ UNCHANGED <<chain, handler, todo>>
    BY <1>8 DEF TryOrphan, RelayInv, orphanVars
  <2>2. RelayInv'
    BY <1>1, <2>1
  <2>3. UNCHANGED poolVars \/ (Acceptable(t) /\ AddUnchecked(t))
    BY <1>8 DEF TryOrphan
  <2>4. [Next]_vars
    BY <1>8, <2>1, <2>3 DEF HandlerInv, Stored, AcceptToMemoryPool, Next, vars, poolVars, chain
  <2>5. QED
    BY <2>2, <2>4
<1>9. QED
  BY <1>2, <1>3, <1>4, <1>5, <1>6, <1>7, <1>8 DEF RelayNext

\* The handler of the tx message keeps track of its own work.
LEMMA HandlerStep ==
  ASSUME RelayInv, HandlerInv, [RelayNext]_relayVars
  PROVE  HandlerInv'
<1>1. CASE UNCHANGED relayVars \/ Others
  <2>1. UNCHANGED <<orphans, work, at, trying, erase, bad>>
    BY <1>1 DEF relayVars, orphanVars, handlerVars, Others
  <2>2. QED
    BY <2>1 DEF HandlerInv, Stored
<1>2. CASE NextParent
  <2>1. work[at + 1] \in Tx /\ at + 1 \in 0 .. Len(work)
    BY <1>2 DEF NextParent, HandlerInv
  <2>2. byPrev[work[at + 1]] \subseteq Stored
    BY <2>1 DEF RelayInv, OrphansIndexed
  <2>3. Stored' = Stored
    BY <1>2 DEF NextParent, orphanVars, Stored
  <2>4. QED
    BY <1>2, <2>1, <2>2, <2>3 DEF NextParent, HandlerInv
<1>3. CASE EraseQueued
  BY <1>3 DEF EraseQueued, AllTried, HandlerInv
<1>4. ASSUME NEW n \in Peer, EraseOrphansFor(n) PROVE HandlerInv'
  BY <1>4 DEF EraseOrphansFor, Idle, handlerVars, HandlerInv
<1>5. ASSUME NEW n \in Peer, NEW t \in Tx, TxMessage(n, t) PROVE HandlerInv'
  <2>1. CASE AddOrphanTx(n, t)
    BY <1>5, <2>1 DEF TxMessage, Idle, AddOrphanTx, handlerVars, HandlerInv
  <2>2. CASE AcceptTx(t)
    <3>1. /\ work' = <<t>> /\ at' = 1 /\ trying' = byPrev[t]
          /\ erase' = erase /\ bad' = bad /\ orphans' = orphans
      BY <2>2 DEF AcceptTx, orphanVars
    <3>2. byPrev[t] \subseteq Stored /\ Stored' = Stored
      BY <3>1 DEF RelayInv, OrphansIndexed, Stored
    <3>3. QED
      BY <3>1, <3>2 DEF HandlerInv
  <2>3. QED
    BY <1>5, <2>1, <2>2 DEF TxMessage
<1>6. ASSUME NEW t \in trying, NEW policy \in BOOLEAN, NEW early \in BOOLEAN,
             NEW punish \in BOOLEAN, TryOrphan(t, policy, early, punish)
      PROVE  HandlerInv'
  <2>1. t \in Tx /\ orphans[t] \in Peer
    BY DEF HandlerInv, RelayInv, Stored
  <2>2. /\ work # << >> /\ trying' = trying \ {t} /\ at' = at /\ orphans' = orphans
        /\ work' = work \/ work' = Append(work, t)
        /\ erase' \subseteq erase \cup {t} /\ bad' \subseteq bad \cup {orphans[t]}
    BY <1>6 DEF TryOrphan, orphanVars, WorkWith
  <2>3. Stored' = Stored
    BY <2>2 DEF Stored
  <2>4. work' \in Seq(Tx) /\ at' \in 0 .. Len(work') /\ work' # << >>
    BY <2>1, <2>2 DEF HandlerInv
  <2>5. QED
    BY <2>1, <2>2, <2>3, <2>4 DEF HandlerInv
<1>7. QED
  BY <1>1, <1>2, <1>3, <1>4, <1>5, <1>6 DEF RelayNext

\* While the handler runs, an orphan that could be accepted now because of what
\* the handler has accepted will still be tried.
TriedInv ==
  \A t \in Stored \ erase :
    /\ Acceptable(t) /\ orphans[t] \notin bad /\ t \notin trying
    /\ \E i \in DOMAIN work : work[i] \in Parents(t)
    => \E i \in DOMAIN work : i > at /\ work[i] \in Parents(t)

\* A transaction becomes acceptable only through a parent.
LEMMA StillRefused ==
  ASSUME NEW x \in Tx, NEW t \in Tx, x \notin Parents(t), AddUnchecked(x),
         UNCHANGED chain, Acceptable(t)'
  PROVE  Acceptable(t)
<1>1. utxo' = utxo /\ tip' = tip /\ pool' = pool \cup {x}
  BY DEF chain, AddUnchecked
<1>2. HaveCoins(t)' = HaveCoins(t) /\ TooEarly(t)' = TooEarly(t)
  BY <1>1 DEF HaveCoins, TooEarly, Immature, NextHeight, CoinHeight
<1>3. ASSUME NEW o \in Inputs[t]
      PROVE  mapNextTx[o] = NoTx /\ Known(o[1]) /\ Available(o)
  <2>1. o \in OutPoint /\ o[1] # x
    BY MempoolAssumption DEF Parents
  <2>2. mapNextTx'[o] = NoTx /\ Known(o[1])' /\ Available(o)'
    BY DEF Acceptable
  <2>3. mapNextTx[o] = NoTx
    BY <2>1, <2>2, MempoolAssumption DEF AddUnchecked
  <2>4. Known(o[1]) /\ Available(o)
    BY <1>1, <2>1, <2>2 DEF Known, HaveCoins, Available
  <2>5. QED
    BY <2>3, <2>4
<1>4. QED
  BY <1>1, <1>2, <1>3 DEF Acceptable

\* Every step of the relay keeps TriedInv.
LEMMA TriedStep ==
  ASSUME RelayInv, HandlerInv, TriedInv, [RelayNext]_relayVars
  PROVE  TriedInv'
<1>1. ASSUME work' = << >> PROVE TriedInv'
  BY <1>1 DEF TriedInv
<1>2. CASE UNCHANGED relayVars
  <2>1. UNCHANGED <<tip, utxo, pool, mapNextTx, orphans, work, at, trying, erase, bad>>
    BY <1>2 DEF relayVars, vars, orphanVars, handlerVars
  <2>2. QED
    BY <2>1 DEF TriedInv, Stored, Acceptable, Known, HaveCoins, Available, TooEarly, Immature,
                NextHeight, CoinHeight
<1>3. CASE NextParent
  <2>1. /\ UNCHANGED <<tip, utxo, pool, mapNextTx, orphans, work, erase, bad>>
        /\ at' = at + 1 /\ trying = {} /\ trying' = byPrev[work[at + 1]]
        /\ work \in Seq(Tx) /\ at \in Nat
    BY <1>3 DEF NextParent, vars, orphanVars, HandlerInv
  <2>2. Stored' = Stored /\ \A t : Acceptable(t)' = Acceptable(t)
    BY <2>1 DEF Stored, Acceptable, Known, HaveCoins, Available, TooEarly, Immature,
                NextHeight, CoinHeight
  <2>3. SUFFICES ASSUME NEW t \in Stored \ erase, Acceptable(t), orphans[t] \notin bad,
                        t \notin trying', \E i \in DOMAIN work : work[i] \in Parents(t)
                 PROVE  \E i \in DOMAIN work : i > at + 1 /\ work[i] \in Parents(t)
    BY <2>1, <2>2 DEF TriedInv
  <2>4. PICK i \in DOMAIN work : i > at /\ work[i] \in Parents(t)
    BY <2>1, <2>3 DEF TriedInv
  <2>5. i \in Nat /\ work[i] \in Tx /\ t \in Tx
    BY <2>1, <2>4 DEF Stored
  <2>6. i # at + 1
    BY <2>1, <2>3, <2>4, <2>5 DEF RelayInv, OrphansIndexed
  <2>7. QED
    BY <2>1, <2>4, <2>5, <2>6
<1>4. ASSUME NEW n \in Peer, NEW x \in Tx, AcceptTx(x) PROVE TriedInv'
  <2>1. work' = <<x>> /\ trying' = byPrev[x] /\ Stored' = Stored
    BY <1>4 DEF AcceptTx, orphanVars, Stored
  <2>2. SUFFICES ASSUME NEW t \in Stored, NEW i \in DOMAIN work', work'[i] \in Parents(t)
                 PROVE  t \in trying'
    BY <2>1 DEF TriedInv
  <2>3. x \in Parents(t) /\ t \in Tx
    BY <2>1, <2>2 DEF Stored
  <2>4. QED
    BY <2>1, <2>3 DEF RelayInv, OrphansIndexed
<1>5. ASSUME NEW x \in trying, NEW policy \in BOOLEAN, NEW early \in BOOLEAN,
             NEW punish \in BOOLEAN, TryOrphan(x, policy, early, punish)
      PROVE  TriedInv'
  <2>1. /\ x \in Tx /\ trying' = trying \ {x} /\ UNCHANGED <<tip, utxo, orphans, at>>
        /\ work \in Seq(Tx) /\ at \in 0 .. Len(work) /\ Stored' = Stored
    BY <1>5 DEF TryOrphan, chain, orphanVars, HandlerInv, Stored
  <2>2. ASSUME UNCHANGED <<poolVars, work>>, erase \subseteq erase', bad \subseteq bad',
               x \in erase' \/ orphans[x] \in bad' \/ ~Acceptable(x)
        PROVE  TriedInv'
    <3>1. \A t : Acceptable(t)' = Acceptable(t)
      BY <2>1, <2>2 DEF poolVars, Acceptable, Known, HaveCoins, Available, TooEarly, Immature,
                        NextHeight, CoinHeight
    <3>2. QED
      BY <2>1, <2>2, <3>1 DEF TriedInv
  <2>3. CASE Acceptable(x) /\ AddUnchecked(x) /\ work' = Append(work, x)
             /\ erase' = erase \cup {x} /\ bad' = bad
    <3>1. SUFFICES ASSUME NEW t \in Stored \ erase, t # x, Acceptable(t)', orphans[t] \notin bad,
                          t \notin trying, NEW i \in DOMAIN work', work'[i] \in Parents(t)
                   PROVE  \E j \in DOMAIN work' : j > at /\ work'[j] \in Parents(t)
      BY <2>1, <2>3 DEF TriedInv
    <3>2. /\ DOMAIN work' = DOMAIN work \cup {Len(work) + 1} /\ work'[Len(work) + 1] = x
          /\ \A j \in DOMAIN work : work'[j] = work[j]
      BY <2>1, <2>3
    <3>3. CASE x \in Parents(t)
      BY <2>1, <3>2, <3>3
    <3>4. CASE x \notin Parents(t)
      <4>1. Acceptable(t)
        BY <2>1, <2>3, <3>1, <3>4, StillRefused DEF Stored, chain
      <4>2. i \in DOMAIN work /\ work[i] \in Parents(t)
        BY <3>1, <3>2, <3>4
      <4>3. PICK j \in DOMAIN work : j > at /\ work[j] \in Parents(t)
        BY <3>1, <4>1, <4>2 DEF TriedInv
      <4>4. QED
        BY <3>2, <4>3
    <3>5. QED
      BY <3>3, <3>4
  <2>4. MissingInputs(x) => ~Acceptable(x)
    BY DEF MissingInputs, Acceptable, Parents
  <2>5. QED
    BY <1>5, <2>2, <2>3, <2>4 DEF TryOrphan, WorkWith
<1>6. QED
  BY <1>1, <1>2, <1>3, <1>4, <1>5
  DEF RelayNext, Others, EraseQueued, EraseOrphansFor, TxMessage, AddOrphanTx, Idle, handlerVars

-----------------------------------------------------------------------------
\* Both invariants hold in every state of the relay.
THEOREM RelayInvariant == RelaySpec => [](RelayInv /\ HandlerInv)
<1>1. RelayInit => HandlerInv
  BY DEF RelayInit, HandlerInv
<1>2. RelayInv /\ HandlerInv /\ [RelayNext]_relayVars => (RelayInv /\ HandlerInv)'
  BY RelayStep, HandlerStep
<1>3. QED
  BY <1>1, <1>2, RelayInitInv, PTL DEF RelaySpec

\* Whatever the tx message does with a transaction and its orphans, the pool
\* sees only accepttomemorypool: the relay implements the pool's specification.
THEOREM RelayImplementsPool == RelaySpec => Spec
<1>1. RelayInit => Init
  BY DEF RelayInit
<1>2. RelayInv /\ HandlerInv /\ [RelayNext]_relayVars => [Next]_vars
  BY RelayStep
<1>3. QED
  BY <1>1, <1>2, RelayInvariant, PTL DEF RelaySpec, Spec

\* With orphans, too, no output is spent twice in the pool and mapnexttx never
\* dangles.
THEOREM RelayMapsAgree == RelaySpec => []NextTxExact
BY RelayImplementsPool, PoolMapsAgree, PTL

\* With orphans, too, ctxmempool::check never fails on an input.
THEOREM RelayPoolSpendable == RelaySpec => []PoolSpendable
BY RelayImplementsPool, PoolAlwaysSpendable, PTL

\* maporphantransactionsbyprev lists exactly the stored orphans.
THEOREM RelayOrphansIndexed == RelaySpec => []OrphansIndexed
<1>1. RelayInv => OrphansIndexed
  BY DEF RelayInv
<1>2. QED
  BY <1>1, RelayInvariant, PTL

\* At most -maxorphantx orphans are stored, for every limit.
THEOREM RelayOrphansBounded == RelaySpec => []OrphansBounded
<1>1. RelayInv => OrphansBounded
  BY DEF RelayInv, OrphansBounded
<1>2. QED
  BY <1>1, RelayInvariant, PTL

\* With orphans, too, the pool holds nothing that the chain holds.
THEOREM RelayNeverConfirmed == RelaySpec => []PoolUnconfirmed
BY RelayImplementsPool, PoolNeverConfirmed, PTL

\* With orphans, too, the pool spends no coinbase too early.
THEOREM RelayAlwaysMature == RelaySpec => []PoolMature
BY RelayImplementsPool, PoolAlwaysMature, PTL

\* With orphans, too, the pool loses nothing that could still be mined.
THEOREM RelayLossJustified == RelaySpec => LossJustified
BY RelayImplementsPool, PoolLossJustified, PTL

\* The handler leaves no orphan behind that it could have accepted, in whatever
\* order the parents came and however many orphans depend on each other.
THEOREM RelayOrphansResolved == RelaySpec => []OrphansResolved
<1>1. RelayInit => TriedInv
  BY DEF RelayInit, TriedInv
<1>2. RelayInv /\ HandlerInv /\ TriedInv /\ [RelayNext]_relayVars => TriedInv'
  BY TriedStep
<1>3. HandlerInv /\ TriedInv => OrphansResolved
  <2>1. SUFFICES ASSUME HandlerInv, TriedInv, AllTried, NEW t \in Stored \ erase,
                        Parents(t) \cap Range(work) # {}, orphans[t] \notin bad, Acceptable(t)
                 PROVE  FALSE
    BY DEF OrphansResolved
  <2>2. \E i \in DOMAIN work : work[i] \in Parents(t)
    BY <2>1 DEF Range
  <2>3. PICK i \in DOMAIN work : i > at
    BY <2>1, <2>2 DEF TriedInv, AllTried
  <2>4. QED
    BY <2>1, <2>3 DEF AllTried, HandlerInv
<1>4. QED
  BY <1>1, <1>2, <1>3, RelayInvariant, PTL DEF RelaySpec

\* Every variable of pool and relay keeps its type.
THEOREM RelayTypes == RelaySpec => []RelayTypeOK
<1>1. Inv /\ RelayInv /\ HandlerInv => RelayTypeOK
  BY DEF Inv, RelayInv, HandlerInv, RelayTypeOK, Stored
<1>2. QED
  BY <1>1, RelayInvariant, RelayImplementsPool, PoolInvariant, PTL
=============================================================================
