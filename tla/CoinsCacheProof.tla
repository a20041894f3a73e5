-------------------------- MODULE CoinsCacheProof --------------------------
(***************************************************************************)
(* CoinsCache keeps its flags truthful and implements UtxoSet, for any     *)
(* sets of txids, coins and block hashes.                                  *)
(***************************************************************************)
EXTENDS CoinsCache, FiniteSetTheorems, FunctionTheorems, TLAPS

\* The part of the inductive invariant that is no property of its own: what
\* the view holds and did not create is also held by pcoinstip (fetching goes
\* through its cache), and the view keeps no fresh entry that it has pruned.
ViewOverTip ==
  /\ view.has \ view.fresh \subseteq tip.has
  /\ \A t \in view.dirty \cap view.fresh : view.coins[t] # Pruned

\* A view that may be flushed has a best block of its own.
StampedHasBlock == phase = "stamped" => viewBest # NoHash

Core == TypeOK /\ FlagsTellTheTruth /\ ViewOverTip
Inv == Core /\ StampedHasBlock

-----------------------------------------------------------------------------
\* A cache without entries shows what is below it.
LEMMA EmptyShows ==
  ASSUME NEW below \in [Txid -> Value]
  PROVE  Shown(NoEntries, below) = below
  BY DEF Shown, NoEntries

\* What a cache shows is a map from txids to values.
LEMMA ShownType ==
  ASSUME NEW cache \in CacheType, NEW below \in [Txid -> Value]
  PROVE  Shown(cache, below) \in [Txid -> Value]
  BY DEF Shown, CacheType

\* The cache without entries has the type of a cache.
LEMMA EmptyType == NoEntries \in CacheType
  BY DEF NoEntries, CacheType, Value

\* Flags over an empty cache say nothing.
LEMMA EmptySound == \A below : FlagsSound(NoEntries, below)
  BY DEF NoEntries, FlagsSound

\* Copying the parent's value into a cache keeps its flags truthful and changes
\* nothing that it shows.
LEMMA FetchedSound ==
  ASSUME NEW cache \in CacheType, NEW below \in [Txid -> Value],
         FlagsSound(cache, below), NEW t \in Txid, t \notin cache.has
  PROVE  /\ Fetched(cache, t, below[t]) \in CacheType
         /\ FlagsSound(Fetched(cache, t, below[t]), below)
         /\ Shown(Fetched(cache, t, below[t]), below) = Shown(cache, below)
         /\ Fetched(cache, t, below[t]).has = cache.has \cup {t}
  <1> DEFINE c == Fetched(cache, t, below[t])
  <1>1. c \in CacheType
    BY DEF CacheType, Fetched
  <1>2. c.coins = [cache.coins EXCEPT ![t] = below[t]]
    BY DEF Fetched
  <1>3. /\ c.has = cache.has \cup {t}
        /\ c.dirty = cache.dirty
        /\ c.fresh = IF below[t] = Pruned THEN cache.fresh \cup {t} ELSE cache.fresh
    BY DEF Fetched
  <1>4. c.coins[t] = below[t] /\ \A u \in Txid \ {t} : c.coins[u] = cache.coins[u]
    BY <1>2 DEF CacheType
  <1>5. FlagsSound(c, below)
    BY <1>3, <1>4 DEF FlagsSound, CacheType
  <1>6. Shown(c, below) = Shown(cache, below)
    BY <1>3, <1>4 DEF Shown
  <1> QED
    BY <1>1, <1>3, <1>4, <1>5, <1>6

\* A read of pcoinstip fills its cache and changes nothing that it shows; a
\* txid it still has no entry for afterwards is unknown to the database.
LEMMA TipFetchSound ==
  ASSUME Inv, NEW t \in Txid
  PROVE  /\ TipFetch(t) \in CacheType
         /\ FlagsSound(TipFetch(t), db)
         /\ Shown(TipFetch(t), db) = TipShows
         /\ tip.has \subseteq TipFetch(t).has
         /\ t \notin TipFetch(t).has => TipShows[t] = Pruned
  <1>1. CASE t \in tip.has \/ db[t] = Pruned
    BY <1>1 DEF TipFetch, Inv, Core, TypeOK, FlagsTellTheTruth, TipShows, Shown
  <1>2. CASE t \notin tip.has /\ db[t] # Pruned
    <2>1. TipFetch(t) = Fetched(tip, t, db[t])
      BY <1>2 DEF TipFetch
    <2>2. tip \in CacheType /\ db \in [Txid -> Value] /\ FlagsSound(tip, db)
      BY DEF Inv, Core, TypeOK, FlagsTellTheTruth
    <2>3. /\ Fetched(tip, t, db[t]) \in CacheType
          /\ FlagsSound(Fetched(tip, t, db[t]), db)
          /\ Shown(Fetched(tip, t, db[t]), db) = Shown(tip, db)
          /\ Fetched(tip, t, db[t]).has = tip.has \cup {t}
      BY <1>2, <2>2, FetchedSound
    <2> QED
      BY <2>1, <2>3 DEF TipShows
  <1> QED
    BY <1>1, <1>2

\* Types of what the caches show.
LEMMA ShowTypes ==
  ASSUME TypeOK
  PROVE  TipShows \in [Txid -> Value] /\ ViewShows \in [Txid -> Value]
  BY ShownType DEF TypeOK, TipShows, ViewShows

\* modifycoins and the end of its modifier keep the flags truthful if the new
\* entry's fresh flag is; afterwards the cache shows v for t and what it showed
\* before for every other txid.
LEMMA WrittenSound ==
  ASSUME NEW cache \in CacheType, NEW below \in [Txid -> Value],
         FlagsSound(cache, below), NEW t \in Txid, NEW v \in Value,
         NEW fresh \in BOOLEAN, fresh => below[t] = Pruned
  PROVE  /\ Written(cache, t, v, fresh) \in CacheType
         /\ FlagsSound(Written(cache, t, v, fresh), below)
         /\ Shown(Written(cache, t, v, fresh), below)
              = [Shown(cache, below) EXCEPT ![t] = v]
  <1> DEFINE c == Written(cache, t, v, fresh)
             keep == ~(fresh /\ v = Pruned)
  <1>1. /\ c.has = IF keep THEN cache.has \cup {t} ELSE cache.has \ {t}
        /\ c.coins = [cache.coins EXCEPT ![t] = v]
        /\ c.dirty = IF keep THEN cache.dirty \cup {t} ELSE cache.dirty \ {t}
        /\ c.fresh = IF keep /\ fresh THEN cache.fresh \cup {t} ELSE cache.fresh \ {t}
    BY DEF Written
  <1>2. c \in CacheType
    BY DEF CacheType, Written
  <1>3. c.coins[t] = v /\ \A u \in Txid \ {t} : c.coins[u] = cache.coins[u]
    BY <1>1 DEF CacheType
  <1>4. FlagsSound(c, below)
    <2>1. c.dirty \cup c.fresh \subseteq c.has
      BY <1>1 DEF FlagsSound
    <2>2. \A u \in c.fresh : below[u] = Pruned
      BY <1>1 DEF FlagsSound
    <2>3. \A u \in c.has \ c.dirty : c.coins[u] = below[u]
      BY <1>1, <1>3 DEF FlagsSound, CacheType
    <2> QED
      BY <2>1, <2>2, <2>3 DEF FlagsSound
  <1>5. Shown(c, below) = [Shown(cache, below) EXCEPT ![t] = v]
    <2>1. (IF t \in c.has THEN c.coins[t] ELSE below[t]) = v
      BY <1>1, <1>3
    <2>2. \A u \in Txid \ {t} : u \in c.has <=> u \in cache.has
      BY <1>1
    <2> QED
      BY <1>3, <2>1, <2>2 DEF Shown
  <1> QED
    BY <1>2, <1>4, <1>5

-----------------------------------------------------------------------------
\* batchwrite of pcoinstip on the view's entries makes pcoinstip show what the
\* view showed, and its flags stay truthful.
LEMMA BatchWriteSound ==
  ASSUME Inv
  PROVE  /\ BatchWrite \in CacheType
         /\ FlagsSound(BatchWrite, db)
         /\ Shown(BatchWrite, db) = ViewShows
  <1> USE DEF Inv, Core
  <1> DEFINE c == BatchWrite
  <1>1. /\ tip \in CacheType /\ view \in CacheType /\ db \in [Txid -> Value]
        /\ FlagsSound(tip, db) /\ FlagsSound(view, TipShows) /\ ViewOverTip
    BY DEF TypeOK, FlagsTellTheTruth
  <1>2. /\ c.has = (tip.has \ Erased) \cup MovedUp
        /\ c.dirty = (tip.dirty \ Erased) \cup Replaced \cup MovedUp
        /\ c.fresh = (tip.fresh \ Erased) \cup MovedUp
        /\ \A t \in Txid : c.coins[t] = IF t \in Erased THEN Pruned
                             ELSE IF t \in Replaced \cup MovedUp THEN view.coins[t]
                             ELSE tip.coins[t]
    BY DEF BatchWrite
  <1>3. c \in CacheType
    BY <1>1 DEF BatchWrite, CacheType, Erased, Replaced, MovedUp, Value
  <1>4. \A t \in view.dirty \ tip.has : t \in view.fresh /\ view.coins[t] # Pruned
    BY <1>1 DEF ViewOverTip, FlagsSound
  <1>5. MovedUp = view.dirty \ tip.has
    BY <1>4 DEF MovedUp
  <1>6. \A t \in MovedUp : db[t] = Pruned
    <2> SUFFICES ASSUME NEW t \in MovedUp PROVE db[t] = Pruned
      OBVIOUS
    <2>1. t \in Txid /\ t \in view.fresh /\ t \notin tip.has
      BY <1>1, <1>4, <1>5 DEF CacheType
    <2>2. TipShows[t] = Pruned
      BY <1>1, <2>1 DEF FlagsSound
    <2> QED
      BY <2>1, <2>2 DEF TipShows, Shown
  <1>7. FlagsSound(c, db)
    <2>1. c.dirty \cup c.fresh \subseteq c.has
      BY <1>1, <1>2 DEF FlagsSound, Erased, Replaced, MovedUp
    <2>2. \A t \in c.fresh : db[t] = Pruned
      BY <1>1, <1>2, <1>6 DEF FlagsSound
    <2>3. \A t \in c.has \ c.dirty : c.coins[t] = db[t]
      <3> SUFFICES ASSUME NEW t \in c.has \ c.dirty PROVE c.coins[t] = db[t]
        OBVIOUS
      <3>1. t \in tip.has \ tip.dirty /\ t \notin Erased \cup Replaced \cup MovedUp /\ t \in Txid
        BY <1>1, <1>2 DEF CacheType
      <3> QED
        BY <1>1, <1>2, <3>1 DEF FlagsSound
    <2> QED
      BY <2>1, <2>2, <2>3 DEF FlagsSound
  <1>8. ASSUME NEW t \in Txid
        PROVE  (IF t \in c.has THEN c.coins[t] ELSE db[t])
                 = IF t \in view.has THEN view.coins[t]
                   ELSE IF t \in tip.has THEN tip.coins[t] ELSE db[t]
    <2>1. view.dirty \subseteq view.has
      BY <1>1 DEF FlagsSound
    <2>2. CASE t \in Erased
      <3>1. t \in view.has /\ view.coins[t] = Pruned /\ t \in tip.fresh /\ t \notin MovedUp
        BY <1>1, <2>1, <2>2 DEF Erased, MovedUp
      <3> QED
        BY <1>1, <1>2, <2>2, <3>1 DEF FlagsSound
    <2>3. CASE t \in Replaced \cup MovedUp
      <3>1. t \in view.has /\ t \notin Erased /\ t \in c.has
        BY <1>1, <1>2, <2>1, <2>3 DEF Erased, Replaced, MovedUp, FlagsSound
      <3> QED
        BY <1>2, <2>3, <3>1
    <2>4. CASE t \notin Erased \cup Replaced \cup MovedUp
      <3>1. t \notin view.dirty
        BY <1>5, <2>4 DEF Replaced
      <3>2. (t \in c.has <=> t \in tip.has) /\ c.coins[t] = tip.coins[t]
        BY <1>2, <2>4
      <3>3. t \in view.has => view.coins[t] = TipShows[t]
        BY <1>1, <3>1 DEF FlagsSound
      <3> QED
        BY <3>2, <3>3 DEF TipShows, Shown
    <2> QED
      BY <2>2, <2>3, <2>4
  <1>9. Shown(c, db) = ViewShows
    BY <1>8 DEF Shown, ViewShows, TipShows
  <1> QED
    BY <1>3, <1>7, <1>9

\* The LevelDB batch of pcoinstip's dirty entries leaves the database with what
\* pcoinstip showed.
LEMMA FlushTipShows ==
  ASSUME Inv
  PROVE  [t \in Txid |-> IF t \in tip.dirty THEN tip.coins[t] ELSE db[t]] = TipShows
  <1>1. FlagsSound(tip, db)
    BY DEF Inv, Core, FlagsTellTheTruth
  <1> QED
    BY <1>1 DEF FlagsSound, TipShows, Shown

-----------------------------------------------------------------------------
\* A read through the view: pcoinstip shows what it showed, with entries added.
LEMMA ReadThroughSound ==
  ASSUME Inv, NEW t \in Txid, ReadThrough(t), UNCHANGED db
  PROVE  /\ tip' \in CacheType
         /\ FlagsSound(tip', db')
         /\ TipShows' = TipShows
         /\ tip.has \subseteq tip'.has
         /\ t \notin view.has => tip'.has = Asked(t)
         /\ t \notin Asked(t) => TipShows[t] = Pruned
  <1>1. CASE t \in view.has
    BY <1>1, TipFetchSound DEF ReadThrough, Inv, Core, TypeOK, FlagsTellTheTruth, TipShows, Shown, Asked
  <1>2. CASE t \notin view.has
    BY <1>2, TipFetchSound DEF ReadThrough, TipShows, Asked
  <1> QED
    BY <1>1, <1>2

\* The invariant holds in the initial state.
LEMMA InitInv == Init => Inv
  <1> SUFFICES ASSUME Init PROVE Inv
    OBVIOUS
  <1>1. TypeOK
    BY EmptyType DEF Init, TypeOK, Value
  <1>2. FlagsTellTheTruth
    BY EmptySound DEF Init, FlagsTellTheTruth
  <1>3. ViewOverTip
    BY DEF Init, ViewOverTip, NoEntries
  <1>4. StampedHasBlock
    BY DEF Init, StampedHasBlock
  <1> QED
    BY <1>1, <1>2, <1>3, <1>4 DEF Inv, Core

\* Every step of the specification keeps the flags truthful.
LEMMA NextCore == Inv /\ [Next]_vars => Core'
  <1> SUFFICES ASSUME Inv, [Next]_vars PROVE Core'
    OBVIOUS
  <1>a. /\ TypeOK /\ ViewOverTip /\ FlagsSound(tip, db) /\ FlagsSound(view, TipShows)
        /\ TipShows \in [Txid -> Value]
    BY ShowTypes DEF Inv, Core, FlagsTellTheTruth
  <1>b. TipBlock \in Hash \cup {NoHash}
    BY <1>a DEF TypeOK, TipBlock
  <1>c. ASSUME view' = NoEntries, viewBest' = NoHash, TypeOK', FlagsSound(tip', db')
        PROVE  Core'
    <2>1. FlagsTellTheTruth'
      BY <1>c, EmptySound DEF FlagsTellTheTruth
    <2>2. ViewOverTip'
      BY <1>c DEF ViewOverTip, NoEntries
    <2> QED
      BY <1>c, <2>1, <2>2 DEF Inv, Core
  <1>1. ASSUME NEW t \in Txid, AccessTip(t) PROVE Core'
    <2>1. tip' \in CacheType /\ FlagsSound(tip', db')
      BY <1>1, TipFetchSound DEF AccessTip
    <2>2. TypeOK'
      BY <1>a, <1>1, <2>1 DEF AccessTip, TypeOK
    <2>3. view' = NoEntries /\ viewBest' = NoHash
      BY <1>a, <1>1 DEF AccessTip, TypeOK
    <2> QED
      BY <1>c, <2>1, <2>2, <2>3
  <1>2. ASSUME OpenView PROVE Core'
    <2>1. TypeOK'
      BY <1>a, <1>b, <1>2, EmptyType DEF OpenView, TypeOK
    <2>2. FlagsTellTheTruth'
      BY <1>a, <1>2, EmptySound DEF OpenView, FlagsTellTheTruth
    <2>3. ViewOverTip'
      BY <1>2 DEF OpenView, ViewOverTip, NoEntries
    <2> QED
      BY <2>1, <2>2, <2>3 DEF Inv, Core
  <1>3. ASSUME NEW t \in Txid, AccessView(t) PROVE Core'
    <2>1. /\ tip' \in CacheType /\ FlagsSound(tip', db') /\ TipShows' = TipShows
          /\ tip.has \subseteq tip'.has /\ (t \notin view.has => tip'.has = Asked(t))
      BY <1>3, ReadThroughSound DEF AccessView
    <2>2. CASE t \in view.has \/ t \notin Asked(t)
      <3>1. view' = view
        BY <1>3, <2>2 DEF AccessView
      <3>2. TypeOK'
        BY <1>a, <1>3, <2>1, <3>1 DEF AccessView, TypeOK
      <3>3. FlagsTellTheTruth'
        BY <1>a, <2>1, <3>1 DEF FlagsTellTheTruth
      <3>4. ViewOverTip'
        BY <1>a, <2>1, <3>1 DEF ViewOverTip
      <3> QED
        BY <3>2, <3>3, <3>4 DEF Inv, Core
    <2>3. CASE t \notin view.has /\ t \in Asked(t)
      <3>1. view' = Fetched(view, t, TipShows[t])
        BY <1>3, <2>3 DEF AccessView
      <3>2. view \in CacheType
        BY <1>a DEF TypeOK
      <3>3. view' \in CacheType /\ FlagsSound(view', TipShows) /\ view'.has = view.has \cup {t}
        BY <1>a, <2>3, <3>1, <3>2, FetchedSound
      <3>4. TypeOK'
        BY <1>a, <1>3, <2>1, <3>3 DEF AccessView, TypeOK
      <3>5. FlagsTellTheTruth'
        BY <2>1, <3>3 DEF FlagsTellTheTruth
      <3>6. ViewOverTip'
        <4>1. view'.dirty = view.dirty /\ view.fresh \subseteq view'.fresh
          BY <3>1 DEF Fetched
        <4>2. view'.has \ view'.fresh \subseteq tip'.has
          BY <1>a, <2>1, <2>3, <3>3, <4>1 DEF ViewOverTip
        <4>3. view'.fresh \subseteq view.fresh \cup {t} /\ t \notin view.dirty
          BY <1>a, <2>3, <3>1 DEF Fetched, FlagsSound
        <4>4. \A u \in Txid \ {t} : view'.coins[u] = view.coins[u]
          BY <3>1, <3>2 DEF Fetched, CacheType
        <4>5. view.dirty \subseteq Txid
          BY <3>2 DEF CacheType
        <4> QED
          BY <1>a, <4>1, <4>2, <4>3, <4>4, <4>5 DEF ViewOverTip
      <3> QED
        BY <3>4, <3>5, <3>6 DEF Inv, Core
    <2> QED
      BY <2>2, <2>3
  <1>4. ASSUME NEW t \in Txid, NEW v \in Value, ModifyCoins(t, v) PROVE Core'
    <2> DEFINE fr == EntryFresh(t)
    <2>1. /\ tip' \in CacheType /\ FlagsSound(tip', db') /\ TipShows' = TipShows
          /\ tip.has \subseteq tip'.has /\ (t \notin view.has => tip'.has = Asked(t))
          /\ t \notin Asked(t) => TipShows[t] = Pruned
      BY <1>4, ReadThroughSound DEF ModifyCoins
    <2>2. view' = Written(view, t, v, fr)
      BY <1>4 DEF ModifyCoins
    <2>3. fr \in BOOLEAN /\ (fr => TipShows[t] = Pruned)
      <3>1. t \in view.fresh => TipShows[t] = Pruned
        BY <1>a DEF FlagsSound
      <3>2. fr => TipShows[t] = Pruned
        BY <2>1, <3>1 DEF EntryFresh
      <3>3. fr \in BOOLEAN
        BY DEF EntryFresh
      <3> QED
        BY <3>2, <3>3
    <2>4. view \in CacheType
      BY <1>a DEF TypeOK
    <2>5. view' \in CacheType /\ FlagsSound(view', TipShows)
      <3> HIDE DEF fr
      <3> QED
        BY <1>a, <2>2, <2>3, <2>4, WrittenSound
    <2>6. TypeOK'
      BY <1>a, <1>4, <2>1, <2>5 DEF ModifyCoins, TypeOK
    <2>7. FlagsTellTheTruth'
      BY <2>1, <2>5 DEF FlagsTellTheTruth
    <2>8. ViewOverTip'
      <3> DEFINE keep == ~(fr /\ v = Pruned)
      <3>1. /\ view'.has = IF keep THEN view.has \cup {t} ELSE view.has \ {t}
            /\ view'.dirty = IF keep THEN view.dirty \cup {t} ELSE view.dirty \ {t}
            /\ view'.fresh = IF keep /\ fr THEN view.fresh \cup {t} ELSE view.fresh \ {t}
        <4> HIDE DEF fr
        <4> QED BY <2>2 DEF Written
      <3>2. view'.coins = [view.coins EXCEPT ![t] = v]
        BY <2>2 DEF Written
      <3>3. view'.coins[t] = v /\ \A u \in Txid \ {t} : view'.coins[u] = view.coins[u]
        BY <2>4, <3>2 DEF CacheType
      <3>4. view'.has \ view'.fresh \subseteq tip'.has
        <4>1. \A u \in (view'.has \ view'.fresh) \ {t} : u \in tip'.has
          BY <1>a, <2>1, <3>1 DEF ViewOverTip
        <4>2. ~fr => t \in tip'.has
          BY <1>a, <2>1 DEF ViewOverTip, EntryFresh
        <4>3. t \in view'.has \ view'.fresh => ~fr
          BY <3>1
        <4> QED
          BY <4>1, <4>2, <4>3
      <3>5. \A u \in view'.dirty \cap view'.fresh : view'.coins[u] # Pruned
        <4>1. view.dirty \subseteq Txid
          BY <2>4 DEF CacheType
        <4>2. t \in view'.dirty \cap view'.fresh => v # Pruned
          BY <3>1
        <4> QED
          BY <1>a, <3>1, <3>3, <4>1, <4>2 DEF ViewOverTip
      <3> QED
        BY <3>4, <3>5 DEF ViewOverTip
    <2> QED
      BY <2>6, <2>7, <2>8 DEF Inv, Core
  <1>5. ASSUME NEW h \in Hash, SetBestBlock(h) PROVE Core'
    <2>1. TypeOK'
      BY <1>a, <1>5 DEF SetBestBlock, TypeOK
    <2> QED
      BY <1>a, <1>5, <2>1 DEF SetBestBlock, Inv, Core, FlagsTellTheTruth, ViewOverTip, TipShows
  <1>6. ASSUME FlushView PROVE Core'
    <2>1. tip' \in CacheType /\ FlagsSound(tip', db')
      BY <1>6, BatchWriteSound DEF FlushView
    <2>2. TypeOK'
      BY <1>a, <1>6, <2>1, EmptyType DEF FlushView, TypeOK
    <2> QED
      BY <1>c, <1>6, <2>1, <2>2 DEF FlushView
  <1>7. ASSUME DropView PROVE Core'
    <2>1. TypeOK'
      BY <1>a, <1>7, EmptyType DEF DropView, TypeOK
    <2> QED
      BY <1>a, <1>c, <1>7, <2>1 DEF DropView
  <1>8. ASSUME FlushTip PROVE Core'
    <2>1. db' = TipShows
      BY <1>8, FlushTipShows DEF FlushTip
    <2>2. TypeOK'
      BY <1>a, <1>b, <1>8, <2>1, EmptyType DEF FlushTip, TypeOK
    <2>3. FlagsSound(tip', db')
      BY <1>8, EmptySound DEF FlushTip
    <2>4. view' = NoEntries /\ viewBest' = NoHash
      BY <1>a, <1>8 DEF FlushTip, TypeOK
    <2> QED
      BY <1>c, <2>2, <2>3, <2>4
  <1>9. ASSUME Crash PROVE Core'
    <2>1. TypeOK'
      BY <1>a, <1>9, EmptyType DEF Crash, TypeOK
    <2>2. FlagsSound(tip', db')
      BY <1>9, EmptySound DEF Crash
    <2> QED
      BY <1>c, <1>9, <2>1, <2>2 DEF Crash
  <1>10. ASSUME UNCHANGED vars PROVE Core'
    BY <1>10 DEF vars, Inv, Core, TypeOK, FlagsTellTheTruth, ViewOverTip, TipShows
  <1> QED
    BY <1>1, <1>2, <1>3, <1>4, <1>5, <1>6, <1>7, <1>8, <1>9, <1>10 DEF Next

\* A view is stamped with a real block only.
LEMMA NextStamped == StampedHasBlock /\ [Next]_vars => StampedHasBlock'
  BY CoinsAssumption DEF StampedHasBlock, Next, vars, AccessTip, OpenView, AccessView,
     ModifyCoins, SetBestBlock, FlushView, DropView, FlushTip, Crash

\* Every step keeps the invariant.
LEMMA NextInv == Inv /\ [Next]_vars => Inv'
  BY NextCore, NextStamped DEF Inv

\* The inductive invariant holds in every reachable state.
THEOREM Invariance == Spec => []Inv
  BY InitInv, NextInv, PTL DEF Spec

\* The three maps, the flags and the best blocks keep their types, and nothing
\* of a view survives its end.
THEOREM TypeCorrect == Spec => []TypeOK
  BY Invariance, PTL DEF Inv, Core

\* The dirty and fresh flags of both caches mean what coins.h says they mean,
\* whatever is read, modified, flushed, dropped or lost in a crash.
THEOREM FlagsAreTruthful == Spec => []FlagsTellTheTruth
  BY Invariance, PTL DEF Inv, Core

\* The assertion in batchwrite cannot fail, and the entries that batchwrite
\* ignores carry no information.
THEOREM BatchWriteAssertion == Spec => []MoveUpIsFresh
  <1>1. Inv => MoveUpIsFresh
    BY DEF Inv, Core, MoveUpIsFresh, ViewOverTip, FlagsTellTheTruth, FlagsSound
  <1> QED
    BY <1>1, Invariance, PTL

-----------------------------------------------------------------------------
\* The refinement mapping, in the names of UtxoSet.
Durable == [coins |-> db, best |-> dbBest]
Current == [coins |-> TipShows, best |-> TipBlock]
Working == [coins |-> ViewShows, best |-> ViewBlock]

\* Without a view, the working copy is the current one.
LEMMA ClosedWorking ==
  ASSUME TypeOK, phase = "closed"
  PROVE  Working = Current
  <1>1. ViewShows = TipShows
    BY ShowTypes, EmptyShows DEF TypeOK, ViewShows
  <1>2. ViewBlock = TipBlock
    BY DEF TypeOK, ViewBlock
  <1> QED
    BY <1>1, <1>2 DEF Working, Current

\* Initial states map to initial states.
LEMMA InitRefines == Init => Abstract!Init
  <1> SUFFICES ASSUME Init PROVE Abstract!Init
    OBVIOUS
  <1>1. TypeOK
    BY InitInv DEF Inv, Core
  <1>2. TipShows = db /\ ViewShows = db
    BY <1>1, EmptyShows DEF Init, TypeOK, TipShows, ViewShows
  <1>3. TipBlock = NoHash /\ ViewBlock = NoHash
    BY DEF Init, TipBlock, ViewBlock
  <1> QED
    BY <1>2, <1>3 DEF Init, Abstract!Init

\* Every step maps to a step of UtxoSet or to a stutter.
LEMMA NextRefines == Inv /\ Inv' /\ [Next]_vars => [Abstract!Next]_(Abstract!vars)
  <1> SUFFICES ASSUME Inv, Inv', [Next]_vars
               PROVE  Abstract!Next \/ UNCHANGED Abstract!vars
    OBVIOUS
  <1>a. /\ TypeOK /\ TypeOK' /\ FlagsSound(view, TipShows)
        /\ TipShows \in [Txid -> Value] /\ ViewShows \in [Txid -> Value]
    BY ShowTypes DEF Inv, Core, FlagsTellTheTruth
  <1>b. phase = "closed" => Working = Current
    BY <1>a, ClosedWorking
  <1>c. phase' = "closed" => Working' = Current'
    <2> SUFFICES ASSUME phase' = "closed" PROVE Working' = Current'
      OBVIOUS
    <2>1. view' = NoEntries /\ viewBest' = NoHash
      BY <1>a DEF TypeOK
    <2>2. ViewShows' = TipShows'
      BY <2>1 DEF ViewShows, TipShows, Shown, NoEntries
    <2>3. ViewBlock' = TipBlock'
      BY <2>1 DEF ViewBlock
    <2> QED
      BY <2>2, <2>3 DEF Working, Current
  <1>d. ASSUME Durable' = Durable, Current' = Current, Working' = Working, phase' = phase
        PROVE  UNCHANGED Abstract!vars
    BY <1>d DEF Abstract!vars, Durable, Current, Working
  <1>1. ASSUME NEW t \in Txid, AccessTip(t) PROVE UNCHANGED Abstract!vars
    <2>1. TipShows' = TipShows
      BY <1>1, TipFetchSound DEF AccessTip, TipShows
    <2>2. Current' = Current /\ Durable' = Durable /\ phase' = phase
      BY <1>1, <2>1 DEF AccessTip, Current, Durable, TipBlock
    <2>3. Working' = Working
      BY <1>b, <1>c, <1>1, <2>2 DEF AccessTip
    <2> QED
      BY <1>d, <2>2, <2>3
  <1>2. ASSUME OpenView PROVE Abstract!Open
    <2>1. TipBlock' = TipBlock
      BY <1>2 DEF OpenView, TipBlock
    <2>2. TipShows' = TipShows
      BY <1>2 DEF OpenView, TipShows
    <2>3. ViewShows' = TipShows
      BY <1>a, <1>2, <2>2, EmptyShows DEF OpenView, ViewShows
    <2>4. ViewBlock' = TipBlock
      BY <1>2, <2>1 DEF OpenView, ViewBlock
    <2>5. Working' = Current
      BY <2>3, <2>4 DEF Working, Current
    <2>6. Working' = Working
      BY <1>b, <1>2, <2>5 DEF OpenView
    <2>7. Current' = Current /\ Durable' = Durable
      BY <1>2, <2>1, <2>2 DEF OpenView, Current, Durable
    <2> QED
      BY <1>2, <2>6, <2>7 DEF OpenView, Abstract!Open, Current, Durable, Working
  <1>3. ASSUME NEW t \in Txid, AccessView(t) PROVE UNCHANGED Abstract!vars
    <2>1. TipShows' = TipShows
      BY <1>3, ReadThroughSound DEF AccessView
    <2>2. view \in CacheType
      BY <1>a DEF TypeOK
    <2>3. Shown(view', TipShows) = Shown(view, TipShows)
      BY <1>a, <1>3, <2>2, FetchedSound DEF AccessView
    <2>4. ViewShows' = ViewShows
      BY <2>1, <2>3 DEF ViewShows
    <2> QED
      BY <1>d, <1>3, <2>1, <2>4 DEF AccessView, Durable, Current, Working, TipBlock, ViewBlock
  <1>4. ASSUME NEW t \in Txid, NEW v \in Value, ModifyCoins(t, v) PROVE Abstract!Write(t, v)
    <2> DEFINE fr == EntryFresh(t)
    <2>1. TipShows' = TipShows /\ (t \notin Asked(t) => TipShows[t] = Pruned)
      BY <1>4, ReadThroughSound DEF ModifyCoins
    <2>2. view \in CacheType
      BY <1>a DEF TypeOK
    <2>3. fr => TipShows[t] = Pruned
      BY <1>a, <2>1 DEF FlagsSound, EntryFresh
    <2>4. fr \in BOOLEAN
      BY DEF EntryFresh
    <2>5. view' = Written(view, t, v, fr)
      BY <1>4 DEF ModifyCoins
    <2>6. Shown(view', TipShows) = [Shown(view, TipShows) EXCEPT ![t] = v]
      <3> HIDE DEF fr
      <3> QED
        BY <1>a, <2>2, <2>3, <2>4, <2>5, WrittenSound
    <2>7. ViewShows' = [ViewShows EXCEPT ![t] = v]
      BY <2>1, <2>6 DEF ViewShows
    <2>8. Working' = [Working EXCEPT !.coins = [Working.coins EXCEPT ![t] = v]]
      BY <1>4, <2>7 DEF ModifyCoins, Working, ViewBlock, TipBlock
    <2>9. Current' = Current /\ Durable' = Durable
      BY <1>4, <2>1 DEF ModifyCoins, Current, Durable, TipBlock
    <2> QED
      BY <1>4, <2>8, <2>9 DEF ModifyCoins, Abstract!Write, Current, Durable, Working
  <1>5. ASSUME NEW h \in Hash, SetBestBlock(h) PROVE Abstract!Stamp(h)
    <2>1. TipShows' = TipShows /\ ViewShows' = ViewShows /\ TipBlock' = TipBlock
      BY <1>5 DEF SetBestBlock, TipShows, ViewShows, TipBlock
    <2>2. ViewBlock' = h
      BY <1>5, CoinsAssumption DEF SetBestBlock, ViewBlock
    <2> QED
      BY <1>5, <2>1, <2>2 DEF SetBestBlock, Abstract!Stamp
  <1>6. ASSUME FlushView PROVE Abstract!Commit
    <2>1. TipShows' = ViewShows
      BY <1>6, BatchWriteSound DEF FlushView, TipShows
    <2>2. TipBlock' = ViewBlock
      BY <1>6 DEF FlushView, TipBlock, ViewBlock, Inv, StampedHasBlock
    <2>3. Current' = Working
      BY <2>1, <2>2 DEF Current, Working
    <2>4. Working' = Working /\ Durable' = Durable
      BY <1>c, <1>6, <2>3 DEF FlushView, Durable
    <2> QED
      BY <1>6, <2>3, <2>4 DEF FlushView, Abstract!Commit, Current, Durable, Working
  <1>7. ASSUME DropView PROVE Abstract!Abandon
    <2>1. Current' = Current /\ Durable' = Durable
      BY <1>7 DEF DropView, Current, Durable, TipShows, TipBlock
    <2>2. Working' = Current
      BY <1>c, <1>7, <2>1 DEF DropView
    <2> QED
      BY <1>7, <2>1, <2>2 DEF DropView, Abstract!Abandon, Current, Durable, Working
  <1>8. ASSUME FlushTip PROVE Abstract!Persist
    <2>1. db' = TipShows /\ dbBest' = TipBlock
      BY <1>8, FlushTipShows DEF FlushTip
    <2>2. TipShows' = TipShows
      BY <1>a, <1>8, <2>1, EmptyShows DEF FlushTip, TipShows
    <2>3. TipBlock' = TipBlock
      BY <1>8 DEF FlushTip, TipBlock
    <2>4. Current' = Current /\ Durable' = Current
      BY <2>1, <2>2, <2>3 DEF Current, Durable
    <2>5. Working' = Working
      BY <1>b, <1>c, <1>8, <2>4 DEF FlushTip
    <2> QED
      BY <1>8, <2>4, <2>5 DEF FlushTip, Abstract!Persist, Current, Durable, Working
  <1>9. ASSUME Crash PROVE Abstract!Crash
    <2>1. TipShows' = db /\ TipBlock' = dbBest
      BY <1>a, <1>9, EmptyShows DEF Crash, TypeOK, TipShows, TipBlock
    <2>2. Current' = Durable /\ Durable' = Durable
      BY <1>9, <2>1 DEF Crash, Current, Durable
    <2>3. Working' = Durable
      BY <1>c, <1>9, <2>2 DEF Crash
    <2> QED
      BY <1>9, <2>2, <2>3 DEF Crash, Abstract!Crash, Current, Durable, Working
  <1>10. ASSUME UNCHANGED vars PROVE UNCHANGED Abstract!vars
    BY <1>10 DEF vars, Abstract!vars, TipShows, ViewShows, TipBlock, ViewBlock
  <1> QED
    BY <1>1, <1>2, <1>3, <1>4, <1>5, <1>6, <1>7, <1>8, <1>9, <1>10 DEF Next, Abstract!Next, Value

\* The stack of caches implements one map with transactions and crashes: what
\* the flags let it skip, move or forget is never visible.
THEOREM Refinement == Spec => ImplementsUtxoSet
  BY InitRefines, NextRefines, Invariance, PTL DEF Spec, ImplementsUtxoSet, Abstract!Spec

-----------------------------------------------------------------------------
\* The bytes of one entry are as many as its size.
LEMMA EntryBytes ==
  ASSUME NEW t, NEW n \in Nat
  PROVE  IsFiniteSet({t} \X (1..n)) /\ Cardinality({t} \X (1..n)) = n
<1>1. IsFiniteSet({t}) /\ Cardinality({t}) = 1
  BY FS_Singleton
<1>2. IsFiniteSet(1..n) /\ Cardinality(1..n) = n
  BY FS_Interval
<1>3. IsFiniteSet({t} \X (1..n)) /\ Cardinality({t} \X (1..n)) = Cardinality({t}) * Cardinality(1..n)
  BY <1>1, <1>2, FS_Product
<1>4. QED
  BY <1>1, <1>2, <1>3

\* A byte belongs to an entry.
LEMMA BytesFact ==
  ASSUME NEW coins, NEW S
  PROVE  \A e : e \in Bytes(coins, S) <=> \E t \in S : e \in {t} \X (1..Size[coins[t]])
BY DEF Bytes

\* Finitely many entries have finitely many bytes.
LEMMA BytesFinite ==
  ASSUME NEW coins \in [Txid -> Value], NEW S \in SUBSET Txid, IsFiniteSet(S)
  PROVE  IsFiniteSet(Bytes(coins, S)) /\ Usage(coins, S) \in Nat
<1> DEFINE T == {{t} \X (1..Size[coins[t]]) : t \in S}
           f == [t \in S |-> {t} \X (1..Size[coins[t]])]
<1>1. f \in Surjection(S, T)
  <2>1. f \in [S -> T] /\ \A x \in T : \E t \in S : f[t] = x
    OBVIOUS
  <2>2. QED
    BY <2>1, Fun_IsSurj
<1>2. IsFiniteSet(T)
  <2> HIDE DEF f, T
  <2>1. QED
    BY <1>1, FS_Surjection
<1>3. \A x \in T : IsFiniteSet(x)
  <2>1. \A t \in S : Size[coins[t]] \in Nat
    BY CoinsAssumption DEF Value
  <2>2. \A t \in S : IsFiniteSet({t} \X (1..Size[coins[t]]))
    BY <2>1, EntryBytes
  <2>3. QED
    BY <2>2
<1>4. IsFiniteSet(UNION T)
  <2> HIDE DEF T
  <2>1. QED
    BY <1>2, <1>3, FS_UNION
<1>5. QED
  BY <1>4, FS_CardinalityType DEF Bytes, Usage

\* The usage of two disjoint sets of entries is the sum of both.
LEMMA UsageSum ==
  ASSUME NEW coins \in [Txid -> Value], NEW S \in SUBSET Txid, NEW T \in SUBSET Txid,
         IsFiniteSet(S), IsFiniteSet(T), S \cap T = {}
  PROVE  Usage(coins, S \cup T) = Usage(coins, S) + Usage(coins, T)
<1>1. Bytes(coins, S \cup T) = Bytes(coins, S) \cup Bytes(coins, T)
  BY BytesFact
<1>2. Bytes(coins, S) \cap Bytes(coins, T) = {}
  <2>1. SUFFICES ASSUME NEW e, e \in Bytes(coins, S), e \in Bytes(coins, T) PROVE FALSE
    OBVIOUS
  <2>2. PICK s \in S : e \in {s} \X (1..Size[coins[s]])
    BY <2>1, BytesFact
  <2>3. PICK t \in T : e \in {t} \X (1..Size[coins[t]])
    BY <2>1, BytesFact
  <2>4. e[1] = s /\ e[1] = t
    BY <2>2, <2>3
  <2>5. QED
    BY <2>4
<1>3. /\ IsFiniteSet(Bytes(coins, S)) /\ Usage(coins, S) \in Nat
      /\ IsFiniteSet(Bytes(coins, T)) /\ Usage(coins, T) \in Nat
  BY BytesFinite
<1>4. Cardinality(Bytes(coins, S) \cap Bytes(coins, T)) = 0
  BY <1>2, FS_EmptySet
<1>5. Cardinality(Bytes(coins, S \cup T)) =
        Cardinality(Bytes(coins, S)) + Cardinality(Bytes(coins, T))
          - Cardinality(Bytes(coins, S) \cap Bytes(coins, T))
  BY <1>1, <1>3, FS_Union
<1>6. QED
  BY <1>3, <1>4, <1>5 DEF Usage

\* Only the coins of the entries themselves matter.
LEMMA UsageSame ==
  ASSUME NEW S, NEW c, NEW d, \A t \in S : c[t] = d[t]
  PROVE  Usage(c, S) = Usage(d, S)
<1>1. \A e : e \in Bytes(c, S) <=> e \in Bytes(d, S)
  <2>1. \A e : e \in Bytes(c, S) <=> \E t \in S : e \in {t} \X (1..Size[c[t]])
    BY BytesFact
  <2>2. \A e : e \in Bytes(d, S) <=> \E t \in S : e \in {t} \X (1..Size[d[t]])
    BY BytesFact
  <2>3. \A t \in S : {t} \X (1..Size[c[t]]) = {t} \X (1..Size[d[t]])
    OBVIOUS
  <2>4. QED
    BY <2>1, <2>2, <2>3, Zenon
<1>2. Bytes(c, S) = Bytes(d, S)
  BY <1>1
<1>3. QED
  BY <1>2 DEF Usage

\* No entries, no bytes.
LEMMA UsageNone == \A coins : Usage(coins, {}) = 0
<1>1. \A coins : Bytes(coins, {}) = {}
  BY BytesFact
<1>2. QED
  BY <1>1, FS_EmptySet DEF Usage

\* A single entry.
LEMMA UsageOne ==
  ASSUME NEW coins \in [Txid -> Value], NEW t \in Txid
  PROVE  Usage(coins, {t}) = Size[coins[t]]
<1>1. Bytes(coins, {t}) = {t} \X (1..Size[coins[t]])
  BY BytesFact
<1>2. Size[coins[t]] \in Nat
  BY CoinsAssumption DEF Value
<1>3. QED
  BY <1>1, <1>2, EntryBytes DEF Usage

-----------------------------------------------------------------------------
\* The caches are finite maps, and the usage of pcoinstip is what a recount gives.
UsageInv == IsFiniteSet(tip.has) /\ IsFiniteSet(view.has) /\ UsageExact

\* fetchcoins of pcoinstip adds the bytes of the entry that it copies.
LEMMA TipFetchUsed ==
  ASSUME TypeOK, UsageInv, NEW t \in Txid
  PROVE  /\ IsFiniteSet(TipFetch(t).has)
         /\ TipFetchUsage(t) = Usage(TipFetch(t).coins, TipFetch(t).has)
<1>1. CASE t \in tip.has \/ db[t] = Pruned
  <2>1. TipFetch(t) = tip
    BY <1>1 DEF TipFetch
  <2>2. Usage(tip.coins, tip.has) \in Nat
    BY BytesFinite DEF TypeOK, UsageInv, CacheType
  <2>3. TipFetchUsage(t) = tipUsage + 0
    BY <1>1 DEF TipFetchUsage
  <2>4. QED
    BY <2>1, <2>2, <2>3 DEF UsageInv, UsageExact
<1>2. CASE ~(t \in tip.has \/ db[t] = Pruned)
  <2> DEFINE c == [tip.coins EXCEPT ![t] = db[t]]
  <2>1. TipFetch(t).has = tip.has \cup {t} /\ TipFetch(t).coins = c
    BY <1>2 DEF TipFetch, Fetched
  <2>2. /\ tip.coins \in [Txid -> Value] /\ tip.has \in SUBSET Txid /\ db[t] \in Value
        /\ c \in [Txid -> Value] /\ c[t] = db[t]
    BY DEF TypeOK, CacheType
  <2>3. \A u \in tip.has : c[u] = tip.coins[u]
    BY <1>2, <2>2
  <2> HIDE DEF c
  <2>4. Usage(c, tip.has) = tipUsage
    BY <2>3, UsageSame DEF UsageInv, UsageExact
  <2>5. Usage(c, {t}) = Size[db[t]]
    BY <2>2, UsageOne
  <2>6. IsFiniteSet({t}) /\ {t} \in SUBSET Txid /\ tip.has \cap {t} = {}
    BY <1>2, FS_Singleton
  <2>7. Usage(c, tip.has \cup {t}) = Usage(c, tip.has) + Usage(c, {t})
    BY <2>2, <2>6, UsageSum DEF UsageInv
  <2>8. TipFetchUsage(t) = tipUsage + Size[db[t]]
    BY <1>2 DEF TipFetchUsage
  <2>9. IsFiniteSet(tip.has \cup {t})
    BY <2>6, FS_Union DEF UsageInv
  <2>10. QED
    BY <2>1, <2>4, <2>5, <2>7, <2>8, <2>9
<1>3. QED
  BY <1>1, <1>2

\* batchwrite takes the bytes of the entries that it erases or overwrites from the
\* usage, and adds those of the coins it takes over.
LEMMA BatchWriteUsed ==
  ASSUME Core, UsageInv
  PROVE  /\ IsFiniteSet(BatchWrite.has)
         /\ BatchWriteUsage = Usage(BatchWrite.coins, BatchWrite.has)
<1> DEFINE c == BatchWrite.coins
           Out == Replaced \cup Erased
           In == Replaced \cup MovedUp
           Rest == tip.has \ Out
<1>1. /\ tip.coins \in [Txid -> Value] /\ tip.has \in SUBSET Txid
      /\ view.coins \in [Txid -> Value] /\ view.dirty \subseteq view.has
      /\ tip.fresh \subseteq tip.has /\ view.has \in SUBSET Txid
  BY DEF Core, TypeOK, CacheType, FlagsTellTheTruth, FlagsSound
<1>2. /\ Out \subseteq tip.has /\ In \subseteq view.has
      /\ BatchWrite.has = Rest \cup In /\ Rest \cap In = {}
      /\ tip.has = Rest \cup Out /\ Rest \cap Out = {}
  BY <1>1 DEF Replaced, Erased, MovedUp, BatchWrite
<1>3. c \in [Txid -> Value]
  BY <1>1, CoinsAssumption DEF BatchWrite, Value
<1>4. (\A t \in Rest : c[t] = tip.coins[t]) /\ (\A t \in In : c[t] = view.coins[t])
  <2>1. Rest \cap Erased = {} /\ Rest \cap (Replaced \cup MovedUp) = {} /\ In \cap Erased = {}
    BY <1>1 DEF Replaced, Erased, MovedUp
  <2>2. QED
    BY <1>1, <1>2, <2>1 DEF BatchWrite
<1> HIDE DEF c, Out, In, Rest
<1>5. IsFiniteSet(Rest) /\ IsFiniteSet(Out) /\ IsFiniteSet(In)
  BY <1>2, FS_Subset DEF UsageInv
<1>6. Rest \in SUBSET Txid /\ Out \in SUBSET Txid /\ In \in SUBSET Txid
  BY <1>1, <1>2
<1>7. Usage(c, Rest \cup In) = Usage(c, Rest) + Usage(c, In)
  BY <1>2, <1>3, <1>5, <1>6, UsageSum
<1>8. Usage(tip.coins, Rest \cup Out) = Usage(tip.coins, Rest) + Usage(tip.coins, Out)
  BY <1>1, <1>2, <1>5, <1>6, UsageSum
<1>9. Usage(c, Rest) = Usage(tip.coins, Rest) /\ Usage(c, In) = Usage(view.coins, In)
  BY <1>4, UsageSame
<1>10. /\ Usage(tip.coins, Rest) \in Nat /\ Usage(tip.coins, Out) \in Nat
       /\ Usage(view.coins, In) \in Nat
  BY <1>1, <1>5, <1>6, BytesFinite
<1>11. tipUsage = Usage(tip.coins, Rest \cup Out)
  BY <1>2 DEF UsageInv, UsageExact
<1>12. BatchWriteUsage = tipUsage + Usage(view.coins, In) - Usage(tip.coins, Out)
  BY DEF BatchWriteUsage, In, Out
<1>13. BatchWriteUsage = Usage(c, Rest \cup In)
  BY <1>7, <1>8, <1>9, <1>10, <1>11, <1>12
<1>14. IsFiniteSet(Rest \cup In)
  BY <1>5, FS_Union
<1>15. QED
  BY <1>2, <1>13, <1>14 DEF c

\* Every call keeps the account of pcoinstip.
LEMMA NextUsage == Core /\ UsageInv /\ [Next]_vars => UsageInv'
<1> SUFFICES ASSUME Core, UsageInv, [Next]_vars PROVE UsageInv'
  OBVIOUS
<1>t. TypeOK
  BY DEF Core
<1>e. NoEntries.has = {} /\ IsFiniteSet({}) /\ Usage(NoEntries.coins, {}) = 0
  BY UsageNone, FS_EmptySet DEF NoEntries
<1>u. ASSUME NEW cache, IsFiniteSet(cache.has), NEW t, NEW S, S \subseteq cache.has \cup {t}
      PROVE  IsFiniteSet(S)
  <2>1. IsFiniteSet(cache.has \cup {t})
    BY <1>u, FS_Union, FS_Singleton
  <2>2. QED
    BY <1>u, <2>1, FS_Subset
<1>1. ASSUME NEW t \in Txid, AccessTip(t) PROVE UsageInv'
  <2>1. tip' = TipFetch(t) /\ tipUsage' = TipFetchUsage(t) /\ view' = view
    BY <1>1 DEF AccessTip
  <2>2. QED
    BY <1>t, <2>1, TipFetchUsed DEF UsageInv, UsageExact
<1>2. ASSUME NEW t \in Txid, ReadThrough(t), view'.has \subseteq view.has \cup {t} PROVE UsageInv'
  <2>1. IsFiniteSet(view'.has)
    BY <1>2, <1>u DEF UsageInv
  <2>2. CASE t \in view.has
    BY <1>2, <2>1, <2>2 DEF ReadThrough, UsageInv, UsageExact
  <2>3. CASE t \notin view.has
    <3>1. tip' = TipFetch(t) /\ tipUsage' = TipFetchUsage(t)
      BY <1>2, <2>3 DEF ReadThrough
    <3>2. QED
      BY <1>t, <2>1, <3>1, TipFetchUsed DEF UsageInv, UsageExact
  <2>4. QED
    BY <2>2, <2>3
<1>3. ASSUME NEW t \in Txid, AccessView(t) PROVE UsageInv'
  BY <1>2, <1>3 DEF AccessView, Fetched
<1>4. ASSUME NEW t \in Txid, NEW v \in Value, ModifyCoins(t, v) PROVE UsageInv'
  BY <1>2, <1>4 DEF ModifyCoins, Written
<1>5. CASE FlushView
  BY <1>e, <1>5, BatchWriteUsed DEF FlushView, UsageInv, UsageExact
<1>6. CASE OpenView
  BY <1>e, <1>6 DEF OpenView, UsageInv, UsageExact
<1>7. CASE DropView
  BY <1>e, <1>7 DEF DropView, UsageInv, UsageExact
<1>8. CASE FlushTip
  BY <1>e, <1>8 DEF FlushTip, UsageInv, UsageExact
<1>9. CASE Crash
  BY <1>e, <1>9 DEF Crash, UsageInv, UsageExact
<1>10. ASSUME NEW h \in Hash, SetBestBlock(h) PROVE UsageInv'
  BY <1>10 DEF SetBestBlock, UsageInv, UsageExact
<1>11. CASE UNCHANGED vars
  BY <1>11 DEF vars, UsageInv, UsageExact
<1>12. QED
  BY <1>1, <1>3, <1>4, <1>5, <1>6, <1>7, <1>8, <1>9, <1>10, <1>11 DEF Next

\* selftest() of coins_tests.cpp, for caches of any size: cachedcoinsusage, which
\* the code adjusts where an entry is fetched, taken over, replaced or erased, is
\* what a recount gives.
THEOREM UsageAlwaysExact == Spec => []UsageExact
<1>1. Init => UsageInv
  BY UsageNone, FS_EmptySet DEF Init, UsageInv, UsageExact, NoEntries
<1>2. UsageInv => UsageExact
  BY DEF UsageInv
<1>3. Inv => Core
  BY DEF Inv
<1>4. QED
  BY <1>1, <1>2, <1>3, NextUsage, Invariance, PTL DEF Spec
=============================================================================
