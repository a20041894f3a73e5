------------------------------ MODULE TxRelay ------------------------------
(***************************************************************************)
(* The tx message: a transaction enters the pool together with the orphans *)
(* that waited for it, or becomes an orphan itself (main.cpp:              *)
(* maporphantransactions, maporphantransactionsbyprev).  The handler holds *)
(* cs_main from beginning to end; while work is not empty it tries one     *)
(* orphan per step, and nothing else runs.                                 *)
(***************************************************************************)
EXTENDS Mempool

CONSTANTS
  Peer,
  NoPeer,
  MaxOrphans   \* -maxorphantx

ASSUME TxRelayAssumption == NoPeer \notin Peer /\ MaxOrphans \in Nat

VARIABLES
  orphans,   \* maporphantransactions: the peer a stored orphan came from
  byPrev,    \* maporphantransactionsbyprev
  work,      \* vworkqueue; empty when the handler does not run
  at,        \* the entry of work that is looked at
  trying,    \* the orphans of work[at] still to be tried
  erase,     \* verasequeue
  bad        \* setmisbehaving

orphanVars  == <<orphans, byPrev>>
handlerVars == <<work, at, trying, erase, bad>>
poolVars    == <<pool, mapNextTx>>
relayVars   == <<vars, orphanVars, handlerVars>>

Stored == {t \in Tx : orphans[t] # NoPeer}
Parents(t) == {o[1] : o \in Inputs[t]}

RelayInit ==
  /\ Init
  /\ orphans = [t \in Tx |-> NoPeer]
  /\ byPrev = [t \in Tx |-> {}]
  /\ work = << >> /\ at = 0 /\ trying = {} /\ erase = {} /\ bad = {}

\* fmissinginputs: the test after the ones for conflicts and known transactions.
MissingInputs(t) ==
  /\ t \notin Coinbase /\ t \notin pool
  /\ \A o \in Inputs[t] : mapNextTx[o] = NoTx
  /\ ~HaveCoins(t)
  /\ \E p \in Parents(t) : ~Known(p)

\* Mutant: only the first parent's set forgets the orphan.
UnindexedOnce(gone) ==
  [p \in Tx |-> byPrev[p] \ {t \in gone : p = CHOOSE q \in Parents(t) : TRUE}]

\* eraseorphantx
Unindexed(gone) == [p \in Tx |-> byPrev[p] \ {t \in gone : p \in Parents(t)}]
EraseOrphans(gone) ==
  /\ orphans' = [t \in Tx |-> IF t \in gone THEN NoPeer ELSE orphans[t]]
  /\ byPrev' = Unindexed(gone)

\* limitorphantxsize evicts random orphans, perhaps t itself.
Surplus(t) ==
  LET all == Stored \cup {t}
  IN  IF Cardinality(all) <= MaxOrphans THEN {{}}
      ELSE {S \in SUBSET all : Cardinality(all \ S) = MaxOrphans}

\* A transaction with unknown parents is kept, unless it is too big, and the
\* limit enforced.
AddOrphanTx(n, t) ==
  /\ MissingInputs(t)
  /\ \E gone \in Surplus(t) :
       /\ orphans' = [x \in Tx |-> IF x \in gone THEN NoPeer
                                   ELSE IF x = t /\ t \notin Stored THEN n ELSE orphans[x]]
       /\ byPrev' = [p \in Tx |-> IF p \in Parents(t) /\ t \notin gone
                                  THEN Unindexed(gone)[p] \cup {t} ELSE Unindexed(gone)[p]]
  /\ UNCHANGED <<vars, handlerVars>>

\* The message is accepted: its orphans are looked at next.
AcceptTx(t) ==
  /\ Acceptable(t)
  /\ AddUnchecked(t)
  /\ work' = <<t>> /\ at' = 1 /\ trying' = byPrev[t]
  /\ UNCHANGED <<chain, handler, todo, orphanVars, erase, bad>>

Idle == handler = "none" /\ work = << >>

TxMessage(n, t) ==
  /\ Idle
  /\ AcceptTx(t) \/ AddOrphanTx(n, t)

\* Mutant: the children of an accepted orphan are not looked for.
WorkOnly(t) == work

\* An accepted orphan goes to the end of vworkqueue.
WorkWith(t) == Append(work, t)

\* The orphan is tried; early says that it fails a test that comes before the
\* one for missing inputs, punish that the failure is held against its peer.
TryOrphan(t, policy, early, punish) ==
  /\ work # << >> /\ t \in trying
  /\ trying' = trying \ {t}
  /\ \/ /\ orphans[t] \in bad
        /\ UNCHANGED <<poolVars, work, erase, bad>>
     \/ /\ orphans[t] \notin bad
        /\ Acceptable(t) /\ policy
        /\ AddUnchecked(t)
        /\ work' = WorkWith(t)
        /\ erase' = erase \cup {t}
        /\ UNCHANGED bad
     \/ /\ orphans[t] \notin bad
        /\ MissingInputs(t) /\ ~early
        /\ UNCHANGED <<poolVars, work, erase, bad>>
     \/ /\ orphans[t] \notin bad
        /\ ~(Acceptable(t) /\ policy)
        /\ MissingInputs(t) => early
        /\ erase' = erase \cup {t}
        /\ bad' = IF punish THEN bad \cup {orphans[t]} ELSE bad
        /\ UNCHANGED <<poolVars, work>>
  /\ UNCHANGED <<chain, handler, todo, orphanVars, at>>

\* The next entry of vworkqueue.
NextParent ==
  /\ work # << >> /\ trying = {} /\ at < Len(work)
  /\ at' = at + 1
  /\ trying' = byPrev[work[at + 1]]
  /\ UNCHANGED <<vars, orphanVars, work, erase, bad>>

\* The end of the handler: what was accepted or refused is no orphan any more.
AllTried == work # << >> /\ trying = {} /\ at = Len(work)
EraseQueued ==
  /\ AllTried
  /\ EraseOrphans(erase)
  /\ work' = << >> /\ at' = 0 /\ erase' = {} /\ bad' = {}
  /\ UNCHANGED <<vars, trying>>

\* finalizenode
EraseOrphansFor(n) ==
  /\ Idle
  /\ EraseOrphans({t \in Tx : orphans[t] = n})
  /\ UNCHANGED <<vars, handlerVars>>

\* The other users of the pool.
Others == work = << >> /\ Next /\ UNCHANGED <<orphanVars, handlerVars>>

RelayNext ==
  \/ Others
  \/ NextParent \/ EraseQueued
  \/ \E n \in Peer : EraseOrphansFor(n) \/ \E t \in Tx : TxMessage(n, t)
  \/ \E t \in trying, policy, early, punish \in BOOLEAN :
       TryOrphan(t, policy, early, punish)

RelaySpec == RelayInit /\ [][RelayNext]_relayVars

-----------------------------------------------------------------------------
\* The types of the pool and of the tx handler's variables; one handler at a
\* time holds cs_main.
RelayTypeOK ==
  /\ TypeOK
  /\ orphans \in [Tx -> Peer \cup {NoPeer}]
  /\ byPrev \in [Tx -> SUBSET Tx]
  /\ work \in Seq(Tx) /\ at \in 0 .. Len(work) /\ trying \subseteq Tx /\ erase \subseteq Tx /\ bad \subseteq Peer
  /\ handler = "none" \/ work = << >>

\* Each stored orphan is in the set of every one of its parents and no other
\* transaction is in any: a set entry without an orphan would make
\* maporphantransactions[...] create an empty one.
OrphansIndexed == \A p, t \in Tx : t \in byPrev[p] <=> t \in Stored /\ p \in Parents(t)

\* The number of orphans is limited whenever the lock is free.
OrphansBounded == Idle => Cardinality(Stored) <= MaxOrphans

\* When the handler is done, no orphan is left behind that waited for one of
\* the transactions just accepted, has no unknown parent and was not sent by a
\* peer that misbehaved, in whatever order its parents came.
OrphansResolved ==
  AllTried =>
    \A t \in Stored \ erase :
      Parents(t) \cap Range(work) # {} => orphans[t] \in bad \/ ~Acceptable(t)
=============================================================================
