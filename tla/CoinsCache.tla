----------------------------- MODULE CoinsCache -----------------------------
(***************************************************************************)
(* The stack of coin views (coins.cpp, coins.h, txdb.cpp): the database    *)
(* ccoinsviewdb, the cache pcoinstip above it, and the short-lived cache   *)
(* that connecttip, disconnecttip and the block checks put on top.         *)
(*                                                                         *)
(* A cache is a record: the txids it has an entry for, their coins (Pruned *)
(* where there is none), and the entries flagged dirty and fresh.  A       *)
(* pruned ccoins, whatever is left in its other fields, is the one value   *)
(* Pruned, as operator== has it.  All of this runs under cs_main, so one   *)
(* call is one action; a crash can come between any two of them.           *)
(***************************************************************************)
EXTENDS Integers, FiniteSets

CONSTANTS
  Txid,
  Coins,     \* values of a ccoins with an unspent output
  Pruned,
  Hash,      \* block hashes
  NoHash,    \* the null hash
  Size       \* [Coins \cup {Pruned} -> Nat]: memusage::dynamicusage

ASSUME CoinsAssumption ==
  /\ Pruned \notin Coins
  /\ NoHash \notin Hash
  /\ Size \in [Coins \cup {Pruned} -> Nat]

Value == Coins \cup {Pruned}

VARIABLES
  db,        \* the records of ccoinsviewdb (an absent one is Pruned)
  dbBest,    \* its db_best_block record
  tip,       \* pcoinstip->cachecoins
  tipBest,   \* pcoinstip->hashblock
  tipUsage,  \* pcoinstip->cachedcoinsusage
  view,      \* cachecoins of the view on top
  viewBest,  \* its hashblock
  phase      \* "closed": no such view; "stamped": setbestblock was called after
             \* the last modification; "open": otherwise

vars == <<db, dbBest, tip, tipBest, tipUsage, view, viewBest, phase>>

NoEntries == [has |-> {}, coins |-> [t \in Txid |-> Pruned],
              dirty |-> {}, fresh |-> {}]

Init ==
  /\ db = [t \in Txid |-> Pruned] /\ dbBest = NoHash
  /\ tip = NoEntries /\ tipBest = NoHash /\ tipUsage = 0
  /\ view = NoEntries /\ viewBest = NoHash
  /\ phase = "closed"

-----------------------------------------------------------------------------
\* What a cache shows when it lies over the map below.
Shown(cache, below) ==
  [t \in Txid |-> IF t \in cache.has THEN cache.coins[t] ELSE below[t]]
TipShows  == Shown(tip, db)
ViewShows == Shown(view, TipShows)

\* getbestblock of pcoinstip and of the view.
TipBlock  == IF tipBest = NoHash THEN dbBest ELSE tipBest
ViewBlock == IF viewBest = NoHash THEN TipBlock ELSE viewBest

\* Mutant: what the parent has is taken for fresh whatever it is.
FetchedAlwaysFresh(cache, t, v) ==
  [has   |-> cache.has \cup {t},
   coins |-> [cache.coins EXCEPT ![t] = v],
   dirty |-> cache.dirty,
   fresh |-> cache.fresh \cup {t}]

\* A new entry with the value v that the parent returned.
Fetched(cache, t, v) ==
  [has   |-> cache.has \cup {t},
   coins |-> [cache.coins EXCEPT ![t] = v],
   dirty |-> cache.dirty,
   fresh |-> IF v = Pruned THEN cache.fresh \cup {t} ELSE cache.fresh]

\* fetchcoins of pcoinstip; the database has no pruned records.
TipFetch(t) ==
  IF t \in tip.has \/ db[t] = Pruned THEN tip ELSE Fetched(tip, t, db[t])
TipFetchUsage(t) ==
  tipUsage + (IF t \in tip.has \/ db[t] = Pruned THEN 0 ELSE Size[db[t]])

\* base->getcoins of the view, and whether it returned true.
Asked(t) == TipFetch(t).has
ReadThrough(t) ==
  /\ tip' = IF t \in view.has THEN tip ELSE TipFetch(t)
  /\ tipUsage' = IF t \in view.has THEN tipUsage ELSE TipFetchUsage(t)

-----------------------------------------------------------------------------
\* Reads of pcoinstip: accesscoins, havecoins, getcoins from the RPCs, the
\* memory pool and the inventory handling.
AccessTip(t) ==
  /\ phase = "closed"
  /\ tip' = TipFetch(t)
  /\ tipUsage' = TipFetchUsage(t)
  /\ UNCHANGED <<db, dbBest, tipBest, view, viewBest, phase>>

\* connecttip, disconnecttip, testblockvalidity or verifydb construct a view
\* over pcoinstip; the first thing that is asked of it is getbestblock.
OpenView ==
  /\ phase = "closed"
  /\ view' = NoEntries
  /\ tipBest' = TipBlock
  /\ viewBest' = TipBlock
  /\ phase' = "open"
  /\ UNCHANGED <<db, dbBest, tip, tipUsage>>

\* fetchcoins of the view: an entry the parent knows is copied.
AccessView(t) ==
  /\ phase # "closed"
  /\ ReadThrough(t)
  /\ view' = IF t \in view.has \/ t \notin Asked(t) THEN view
             ELSE Fetched(view, t, TipShows[t])
  /\ UNCHANGED <<db, dbBest, tipBest, viewBest, phase>>

\* The entry after ~ccoinsmodifier: dirty, or erased if it is fresh and pruned.
Written(cache, t, v, fresh) ==
  LET keep == ~(fresh /\ v = Pruned)
  IN  [has   |-> IF keep THEN cache.has \cup {t} ELSE cache.has \ {t},
       coins |-> [cache.coins EXCEPT ![t] = v],
       dirty |-> IF keep THEN cache.dirty \cup {t} ELSE cache.dirty \ {t},
       fresh |-> IF keep /\ fresh THEN cache.fresh \cup {t} ELSE cache.fresh \ {t}]

\* The fresh flag that modifycoins finds or sets on the entry of the view.
EntryFresh(t) ==
  \/ t \in view.fresh
  \/ t \notin view.has /\ (t \notin Asked(t) \/ TipShows[t] = Pruned)

\* modifycoins on the view, the modification to v, and the modifier's end.
ModifyCoins(t, v) ==
  /\ phase # "closed"
  /\ ReadThrough(t)
  /\ view' = Written(view, t, v, EntryFresh(t))
  /\ phase' = "open"
  /\ UNCHANGED <<db, dbBest, tipBest, viewBest>>

SetBestBlock(h) ==
  /\ phase = "open"
  /\ viewBest' = h
  /\ phase' = "stamped"
  /\ UNCHANGED <<db, dbBest, tip, tipBest, tipUsage, view>>

-----------------------------------------------------------------------------
\* batchwrite of pcoinstip on the view's entries: which of its entries go,
\* which take the view's coins, and which of those are new (and fresh).
Erased   == {t \in view.dirty \cap tip.fresh : view.coins[t] = Pruned}
MovedUp  == {t \in view.dirty \ tip.has : view.coins[t] # Pruned}
Replaced == (view.dirty \cap tip.has) \ Erased

BatchWrite ==
  [has   |-> (tip.has \ Erased) \cup MovedUp,
   coins |-> [t \in Txid |-> IF t \in Erased THEN Pruned
                             ELSE IF t \in Replaced \cup MovedUp THEN view.coins[t]
                             ELSE tip.coins[t]],
   dirty |-> (tip.dirty \ Erased) \cup Replaced \cup MovedUp,
   fresh |-> (tip.fresh \ Erased) \cup MovedUp]

\* dynamicusage of the entries S, summed: the number of the bytes they hold.
Bytes(coins, S) == UNION {{t} \X (1..Size[coins[t]]) : t \in S}
Usage(coins, S) == Cardinality(Bytes(coins, S))

\* Mutant: the usage of an erased entry is not given back.
BatchWriteUsageKept ==
  tipUsage + Usage(view.coins, Replaced \cup MovedUp) - Usage(tip.coins, Replaced)

BatchWriteUsage ==
  tipUsage + Usage(view.coins, Replaced \cup MovedUp)
           - Usage(tip.coins, Replaced \cup Erased)

\* view.flush() at the end of connecttip and disconnecttip.
FlushView ==
  /\ phase = "stamped"
  /\ tip' = BatchWrite
  /\ tipUsage' = BatchWriteUsage
  /\ tipBest' = viewBest
  /\ view' = NoEntries /\ viewBest' = NoHash
  /\ phase' = "closed"
  /\ UNCHANGED <<db, dbBest>>

\* The view goes out of scope without a flush: the block is invalid, or was
\* only to be checked (testblockvalidity, verifydb).
DropView ==
  /\ phase # "closed"
  /\ view' = NoEntries /\ viewBest' = NoHash
  /\ phase' = "closed"
  /\ UNCHANGED <<db, dbBest, tip, tipBest, tipUsage>>

\* Mutant: flush writes the coins and not the block they belong to.
FlushTipCoinsOnly ==
  /\ phase = "closed"
  /\ db' = [t \in Txid |-> IF t \in tip.dirty THEN tip.coins[t] ELSE db[t]]
  /\ dbBest' = dbBest
  /\ tip' = NoEntries /\ tipUsage' = 0
  /\ UNCHANGED <<tipBest, view, viewBest, phase>>

\* pcoinstip->flush() from flushstatetodisk: one LevelDB batch.
FlushTip ==
  /\ phase = "closed"
  /\ db' = [t \in Txid |-> IF t \in tip.dirty THEN tip.coins[t] ELSE db[t]]
  /\ dbBest' = TipBlock
  /\ tip' = NoEntries /\ tipUsage' = 0
  /\ UNCHANGED <<tipBest, view, viewBest, phase>>

\* The process dies and is started again.
Crash ==
  /\ tip' = NoEntries /\ tipBest' = NoHash /\ tipUsage' = 0
  /\ view' = NoEntries /\ viewBest' = NoHash
  /\ phase' = "closed"
  /\ UNCHANGED <<db, dbBest>>

Next ==
  \/ OpenView \/ FlushView \/ DropView \/ FlushTip \/ Crash
  \/ \E t \in Txid :
       \/ AccessTip(t)
       \/ AccessView(t)
       \/ \E v \in Value : ModifyCoins(t, v)
  \/ \E h \in Hash : SetBestBlock(h)

Spec == Init /\ [][Next]_vars

-----------------------------------------------------------------------------
CacheType == [has : SUBSET Txid, coins : [Txid -> Value],
              dirty : SUBSET Txid, fresh : SUBSET Txid]

\* Caches, database and hashes have their types, and a view that is gone has left
\* nothing behind.
TypeOK ==
  /\ db \in [Txid -> Value] /\ dbBest \in Hash \cup {NoHash}
  /\ tip \in CacheType /\ tipBest \in Hash \cup {NoHash}
  /\ view \in CacheType /\ viewBest \in Hash \cup {NoHash}
  /\ phase \in {"closed", "open", "stamped"}
  /\ phase = "closed" => view = NoEntries /\ viewBest = NoHash

\* coins.h on the flags: a fresh entry is absent or pruned in the parent view,
\* and one that is not dirty does not differ from the parent's.  They decide
\* what batchwrite may forget.
FlagsSound(cache, below) ==
  /\ cache.dirty \cup cache.fresh \subseteq cache.has
  /\ \A t \in cache.fresh : below[t] = Pruned
  /\ \A t \in cache.has \ cache.dirty : cache.coins[t] = below[t]
FlagsTellTheTruth == FlagsSound(tip, db) /\ FlagsSound(view, TipShows)

\* batchwrite's assertion: an entry that pcoinstip lacks and that is not pruned
\* is fresh in the view; and a pruned one that pcoinstip lacks is never there,
\* so that ignoring it loses nothing.
MoveUpIsFresh ==
  \A t \in view.dirty \ tip.has : view.coins[t] # Pruned /\ t \in view.fresh

\* selftest() of coins_tests.cpp: cachedcoinsusage is what a recount gives, on
\* which flushstatetodisk bases its decision to flush.
UsageExact == tipUsage = Usage(tip.coins, tip.has)

\* The views together are one map with transactions: reads and cache fills
\* change nothing that can be seen, a flush moves the whole working copy with
\* its block hash, and after a crash coins and best block are those of one
\* flush.
Abstract == INSTANCE UtxoSet WITH
  durable <- [coins |-> db, best |-> dbBest],
  current <- [coins |-> TipShows, best |-> TipBlock],
  working <- [coins |-> ViewShows, best |-> ViewBlock],
  phase   <- phase
ImplementsUtxoSet == Abstract!Spec
=============================================================================
