----------------------------- MODULE BlockUndo ------------------------------
(***************************************************************************)
(* What connecting and disconnecting a block does to the coins: updatecoins *)
(* and the undo data it records (main.cpp, undo.h), applytxinundo and       *)
(* disconnectblock, over ccoins (coins.h).                                  *)
(*                                                                          *)
(* A view maps transaction ids to coins [fcoinbase, nheight, vout]; an      *)
(* output is a positive number that stands for its value and script, 0 is   *)
(* the null output.  Outputs count from 1.  nversion goes the way of        *)
(* nheight and is left out.                                                 *)
(***************************************************************************)
EXTENDS Integers, SequencesExt

\* A default-constructed or cleared ccoins.
NoCoins == [fcoinbase |-> FALSE, nheight |-> 0, vout |-> <<>>]

IsPruned(c) == \A i \in DOMAIN c.vout : c.vout[i] = 0
IsAvailable(c, n) == n \in DOMAIN c.vout /\ c.vout[n] # 0

\* operator==: "empty ccoins objects are always equal", a database does not keep
\* them, and whatever fills one sets its fields: in a view they are all NoCoins.
Normal(c) == IF IsPruned(c) THEN NoCoins ELSE c

\* cleanup(): spent outputs at the end of the array are dropped.
Cleanup(vout) ==
  SubSeq(vout, 1, Max({0} \cup {i \in DOMAIN vout : vout[i] # 0}))

\* clearunspendable(), for outputs that script.isunspendable().
ClearUnspendable(vout, unspendable) ==
  Cleanup([i \in DOMAIN vout |-> IF vout[i] \in unspendable THEN 0 ELSE vout[i]])

\* A transaction is [id, fcoinbase, vin, vout, unspendable]; vin is a sequence
\* of outpoints [hash, n].
FromTx(tx, height) ==
  Normal([fcoinbase |-> tx.fcoinbase, nheight |-> height,
          vout |-> ClearUnspendable(tx.vout, tx.unspendable)])

-----------------------------------------------------------------------------
\* Mutant: the undo record never carries the height.
SpendNoHeight(acc, in) ==
  LET c == acc.view[in.hash]
      left == Cleanup([c.vout EXCEPT ![in.n] = 0])
  IN  IF ~IsAvailable(c, in.n) THEN [acc EXCEPT !.ok = FALSE]
      ELSE [acc EXCEPT !.view[in.hash] = Normal([c EXCEPT !.vout = left]),
                       !.prevout = Append(@, [txout |-> c.vout[in.n],
                                              nheight |-> 0,
                                              fcoinbase |-> FALSE])]

\* One input: haveinputs, then updatecoins spends the output, and its undo record
\* has the transaction's height only if this was its last unspent output.
Spend(acc, in) ==
  LET c == acc.view[in.hash]
      left == Cleanup([c.vout EXCEPT ![in.n] = 0])
  IN  IF ~IsAvailable(c, in.n) THEN [acc EXCEPT !.ok = FALSE]
      ELSE [acc EXCEPT !.view[in.hash] = Normal([c EXCEPT !.vout = left]),
                       !.prevout = Append(@,
                          [txout |-> c.vout[in.n],
                           nheight |-> IF left = <<>> THEN c.nheight ELSE 0,
                           fcoinbase |-> left = <<>> /\ c.fcoinbase])]

\* The inputs of a transaction in order.
SpendInputs(view, vin, ok) ==
  LET after[k \in 0..Len(vin)] ==
        IF k = 0 THEN [view |-> view, prevout |-> <<>>, ok |-> ok]
                 ELSE Spend(after[k - 1], vin[k])
  IN  after[Len(vin)]

\* updatecoins: the inputs, then the new outputs.
UpdateCoins(acc, tx, height) ==
  LET spent == SpendInputs(acc.view, tx.vin, acc.ok)
  IN  [view |-> [spent.view EXCEPT ![tx.id] = FromTx(tx, height)],
       vtxundo |-> IF tx.fcoinbase THEN acc.vtxundo
                                   ELSE Append(acc.vtxundo, spent.prevout),
       ok |-> spent.ok]

\* "bad-txns-bip30": no transaction may overwrite one that is not fully spent.  (Two
\* blocks, far below any Genesis of this model, are exempt.)
Overwrites(view, vtx) == \E i \in DOMAIN vtx : ~IsPruned(view[vtx[i].id])

\* The part of connectblock that changes the view and collects blockundo; ok
\* tells whether every transaction is new and found its inputs.
ConnectCoins(view, vtx, height) ==
  LET after[i \in 0..Len(vtx)] ==
        IF i = 0 THEN [view |-> view, vtxundo |-> <<>>, ok |-> ~Overwrites(view, vtx)]
                 ELSE UpdateCoins(after[i - 1], vtx[i], height)
  IN  after[Len(vtx)]

-----------------------------------------------------------------------------
\* vout.resize(n): the new places hold null outputs.
Resize(vout, n) ==
  [i \in 1..Max({Len(vout), n}) |-> IF i \in DOMAIN vout THEN vout[i] ELSE 0]

\* applytxinundo, and whether it was clean.
ApplyTxInUndo(acc, in, undo) ==
  LET c == acc.view[in.hash]
      base == IF undo.nheight # 0
              THEN [NoCoins EXCEPT !.fcoinbase = undo.fcoinbase,
                                   !.nheight = undo.nheight]
              ELSE c
  IN  [view |-> [acc.view EXCEPT ![in.hash] =
         [base EXCEPT !.vout =
            Cleanup([Resize(base.vout, in.n) EXCEPT ![in.n] = undo.txout])]],
       clean |-> /\ acc.clean
                 /\ (undo.nheight # 0) = IsPruned(c)
                 /\ ~IsAvailable(base, in.n)]

\* The inputs of a transaction, the last one first.
RestoreInputs(removed, vin, prevout) ==
  LET before[k \in 0..Len(vin)] ==
        IF k = Len(vin) THEN removed
                        ELSE ApplyTxInUndo(before[k + 1], vin[k + 1], prevout[k + 1])
  IN  before[0]

\* One transaction of disconnectblock: the outputs have to be there unspent (the
\* unspendable ones were dropped when they were added) and are removed, then the
\* inputs are restored.
UndoTx(acc, tx, prevout, height) ==
  RestoreInputs([view |-> [acc.view EXCEPT ![tx.id] = NoCoins],
                 clean |-> acc.clean /\ acc.view[tx.id] = FromTx(tx, height)],
                tx.vin, prevout)

\* disconnectblock after the undo data was read: transactions in reverse order;
\* the first is the coinbase, which has no undo record.
DisconnectCoins(view, vtx, vtxundo, height) ==
  LET before[i \in 0..Len(vtx)] ==
        IF i = Len(vtx) THEN [view |-> view, clean |-> TRUE]
        ELSE UndoTx(before[i + 1], vtx[i + 1], IF i = 0 THEN <<>> ELSE vtxundo[i], height)
  IN  before[0]

\* blockundo fits the block: the two size checks of disconnectblock.
UndoFits(vtx, vtxundo) ==
  /\ Len(vtxundo) + 1 = Len(vtx)
  /\ \A i \in 2..Len(vtx) : Len(vtxundo[i - 1]) = Len(vtx[i].vin)

=============================================================================
