----------------------------- MODULE BlockTree -----------------------------
(***************************************************************************)
(* The block index and the choice of the active chain (main.cpp, chain.h): *)
(* acceptblockheader, acceptblock, receivedblocktransactions,              *)
(* findmostworkchain, activatebestchain, invalidateblock, reconsiderblock, *)
(* pruning and loadblockindexdb.                                           *)
(*                                                                         *)
(* cs_main is the variable holder.  The handlers that keep it from their   *)
(* first to their last line are one action; activatebestchain, which takes *)
(* and releases it once per step, is split at every loop iteration, so     *)
(* several threads can be inside it at once.                               *)
(*                                                                         *)
(* pindexbestinvalid, pindexbestheader and the notifications feed nothing  *)
(* back into this state and are left out, as are disk and database errors  *)
(* other than a pruned block (they stop the node).                         *)
(***************************************************************************)
EXTENDS HeaderTree

CONSTANTS
  Addr,        \* [Block -> Nat]: pointer order, the last tie breaker
  BadBlock,    \* blocks that contextualcheckblock rejects
  BadConnect,  \* blocks that connectblock rejects
  Corrupt,     \* blocks whose stored transactions do not match their header
  Threads,     \* threads that call processnewblock or the block RPCs
  NoThread,
  MaxInvalidate, MaxReconsider,  \* bounds: number of calls of the two RPCs
  MaxRestart,  \* bound: number of restarts
  MaxPrune,    \* bound: number of pruned block files (0: not in prune mode)
  KeepBlocks   \* min_blocks_to_keep

ASSUME BlockTreeAssumption ==
  /\ Genesis \notin BadBlock \cup BadConnect \cup Corrupt
  /\ Addr \in [Block -> Nat]
  /\ \A a, b \in Block : Addr[a] = Addr[b] => a = b
  /\ NoThread \notin Threads
  /\ MaxInvalidate \in Nat /\ MaxReconsider \in Nat
  /\ MaxRestart \in Nat /\ MaxPrune \in Nat /\ KeepBlocks \in Nat

VARIABLES
  index,        \* mapblockindex
  failedValid,  \* block_failed_valid
  failedChild,  \* block_failed_child
  unsaved,      \* blocks whose block_failed_child is not in setdirtyblockindex
  processed,    \* ntx > 0, which is block_valid_transactions or better
  haveData,     \* block_have_data
  linked,       \* nchaintx # 0
  seq,          \* nsequenceid
  nextSeq,      \* nblocksequenceid
  candidates,   \* setblockindexcandidates
  unlinked,     \* mapblocksunlinked: number of pairs <<Parent[b], b>> in it
  fileOf,       \* nfile
  lastFile,     \* nlastblockfile
  tip,          \* chainactive.tip()
  holder,       \* the thread that holds cs_main between two actions
  pc,           \* where each thread is in activatebestchain
  mostWork,     \* pindexmostwork of each thread
  oldTip,       \* pindexoldtip of each thread
  invalidates,  \* number of invalidateblock calls
  reconsiders,  \* number of reconsiderblock calls
  restarts,     \* number of restarts
  pruned        \* number of files pruned

tree   == <<index, failedValid, failedChild, unsaved, processed, haveData, linked>>
order  == <<seq, nextSeq, fileOf, lastFile>>
locals == <<holder, pc, mostWork, oldTip>>
bounds == <<invalidates, reconsiders, restarts, pruned>>
vars   == <<tree, order, candidates, unlinked, tip, locals, bounds>>

Init ==
  /\ index = {Genesis}
  /\ failedValid = {} /\ failedChild = {} /\ unsaved = {}
  /\ processed = {Genesis} /\ haveData = {Genesis} /\ linked = {Genesis}
  /\ seq = [b \in Block |-> IF b = Genesis THEN 1 ELSE 0]
  /\ nextSeq = 2
  /\ candidates = {Genesis}
  /\ unlinked = [b \in Block |-> 0]
  /\ fileOf = [b \in Block |-> 0]
  /\ lastFile = 0
  /\ tip = Genesis
  /\ holder = NoThread
  /\ pc = [p \in Threads |-> "idle"]
  /\ mostWork = [p \in Threads |-> Genesis]
  /\ oldTip = [p \in Threads |-> Genesis]
  /\ invalidates = 0 /\ reconsiders = 0 /\ restarts = 0 /\ pruned = 0

-----------------------------------------------------------------------------
Failed == failedValid \cup failedChild            \* block_failed_mask
Active == Ancestors[tip]                          \* chainactive.contains
Descendants(b) == {c \in index : b \in Ancestors[c]}

\* cblockindexworkcomparator: a sorts before (is worse than) b.
WorseBy(s, a, b) ==
  \/ ChainWork[a] < ChainWork[b]
  \/ /\ ChainWork[a] = ChainWork[b]
     /\ s[a] > s[b] \/ (s[a] = s[b] /\ Addr[a] > Addr[b])
Worse(a, b) == WorseBy(seq, a, b)

\* Mutant: everything but the new tip goes, the target of the switch included.
PruneToTip(cs, t) == {t}

\* pruneblockindexcandidates for the tip t.
PruneCandidates(cs, t) == {c \in cs : ~Worse(c, t)}

\* acceptblockheader's verdict on a header that extends the index.
HeaderOk(b) ==
  IF b \in index THEN b \notin Failed
  ELSE Parent[b] \in index /\ Parent[b] \notin Failed

-----------------------------------------------------------------------------
\* A headers message delivers a new header.
AcceptHeader(b) ==
  /\ holder = NoThread
  /\ b \notin index
  /\ HeaderOk(b)
  /\ index' = index \cup {b}
  /\ UNCHANGED <<failedValid, failedChild, unsaved, processed, haveData, linked>>
  /\ UNCHANGED <<order, candidates, unlinked, tip, locals, bounds>>

(***************************************************************************)
(* receivedblocktransactions.  If the parent is linked, b and every block  *)
(* that mapblocksunlinked leads to from b become linked, in breadth-first  *)
(* order (blocks of one height in any order); otherwise b is added to      *)
(* mapblocksunlinked.  A pair that is there twice is followed twice, and   *)
(* the block keeps the last of the sequence numbers it is given.           *)
(***************************************************************************)
Waiting == {b \in Block : unlinked[b] > 0}

NowLinkedAlone(b) == {b}      \* Mutant: mapblocksunlinked is not followed.

NowLinked(b) ==
  {c \in Block : b \in Ancestors[c]
                 /\ Ancestors[c] \ Ancestors[b] \subseteq Waiting}

\* The visits of the breadth-first queue, and where in it each block's last
\* visit may come.
Visits(b) ==
  UNION {{c} \X (1 .. (IF c = b THEN 1 ELSE unlinked[c])) : c \in NowLinked(b)}
VisitsUpTo(V, h) == Cardinality({v \in V : Height[v[1]] <= h})
LastVisits(V, S) ==
  {f \in [S -> 1 .. Cardinality(V)] :
     /\ \A c, d \in S : c # d => f[c] # f[d]
     /\ \A c \in S : /\ f[c] > VisitsUpTo(V, Height[c] - 1)
                     /\ f[c] <= VisitsUpTo(V, Height[c])}

ReceivedBlockTransactions(b) ==
  /\ processed' = processed \cup {b}
  /\ haveData' = haveData \cup {b}
  /\ \/ /\ Parent[b] \in linked
        /\ LET new == NowLinked(b)
           IN  \E last \in LastVisits(Visits(b), new) :
                 /\ seq' = [c \in Block |-> IF c \in new
                                            THEN nextSeq + last[c] - 1
                                            ELSE seq[c]]
                 /\ nextSeq' = nextSeq + Cardinality(Visits(b))
                 /\ linked' = linked \cup new
                 /\ candidates' = candidates \cup
                                    {c \in new : ~WorseBy(seq', c, tip)}
                 /\ unlinked' = [c \in Block |-> IF c \in new \ {b} THEN 0
                                                 ELSE unlinked[c]]
     \/ /\ Parent[b] \notin linked
        /\ linked' = linked \ {b}
        /\ unlinked' = IF Parent[b] \in Failed THEN unlinked
                       ELSE [unlinked EXCEPT ![b] = @ + 1]
        /\ UNCHANGED <<seq, nextSeq, candidates>>

(***************************************************************************)
(* processnewblock up to the release of cs_main: acceptblockheader, then   *)
(* acceptblock.  A block is dropped when it is already there, or when it   *)
(* was not requested and is either a pruned one or of too little work; the *)
(* caller still goes on to activatebestchain.                              *)
(***************************************************************************)
\* Mutant: a block that is already on disk is processed again.
IgnoredUnlessRequested(b, requested) ==
  ~requested /\ ChainWork[b] <= ChainWork[tip]

Ignored(b, requested) ==
  \/ b \in haveData
  \/ ~requested /\ (b \in processed \/ ChainWork[b] <= ChainWork[tip])

ProcessNewBlock(p, b, requested) ==
  /\ pc[p] = "idle"
  /\ holder = NoThread
  /\ b # Genesis
  /\ HeaderOk(b)
  /\ index' = index \cup {b}
  /\ \/ /\ Ignored(b, requested)
        /\ pc' = [pc EXCEPT ![p] = "activate"]
        /\ UNCHANGED <<failedValid, processed, haveData, linked, order,
                       candidates, unlinked>>
     \/ /\ ~Ignored(b, requested)
        /\ b \in BadBlock
        /\ failedValid' = failedValid \cup {b}
        /\ UNCHANGED <<processed, haveData, linked, order, candidates,
                       unlinked, pc>>
     \/ /\ ~Ignored(b, requested)
        /\ b \notin BadBlock
        /\ lastFile' \in {lastFile, lastFile + (IF pruned < MaxPrune THEN 1 ELSE 0)}
        /\ fileOf' = [fileOf EXCEPT ![b] = lastFile']
        /\ ReceivedBlockTransactions(b)
        /\ pc' = [pc EXCEPT ![p] = "activate"]
        /\ UNCHANGED failedValid
  /\ UNCHANGED <<failedChild, unsaved, tip, holder, mostWork, oldTip, bounds>>

-----------------------------------------------------------------------------
\* Blocks between candidate c and the active chain, and those of them that
\* make c unusable.
Path(c) == Ancestors[c] \ Active
UnusableMissingOnly(c) == {x \in Path(c) : x \notin haveData}  \* Mutant.
Unusable(c) == {x \in Path(c) : x \in Failed \/ x \notin haveData}

Best(S) == CHOOSE c \in S : \A d \in S \ {c} : Worse(d, c)

\* activatebestchain returns; its locals are dead.
Leave(p) ==
  /\ pc' = [pc EXCEPT ![p] = "idle"]
  /\ mostWork' = [mostWork EXCEPT ![p] = Genesis]
  /\ oldTip' = [oldTip EXCEPT ![p] = Genesis]

\* findmostworkchain throws the best candidate out because of a failed or
\* missing block below it.
DropCandidate(c) ==
  LET bad   == Highest(Unusable(c))
      above == {x \in Path(c) : Height[x] > Height[bad]}
  IN  /\ Unusable(c) # {}
      /\ candidates' = candidates \ (above \cup {bad})
      /\ \/ /\ bad \in Failed
            /\ failedChild' = failedChild \cup above
            /\ unsaved' = unsaved \cup (above \ failedChild)
            /\ unlinked' = unlinked
         \/ /\ bad \notin Failed
            /\ unlinked' = [x \in Block |-> unlinked[x] + (IF x \in above THEN 1 ELSE 0)]
            /\ UNCHANGED <<failedChild, unsaved>>

\* One iteration of findmostworkchain, taking cs_main on the first one.
FindMostWorkChain(p) ==
  /\ \/ pc[p] = "activate" /\ holder = NoThread
     \/ pc[p] = "find" /\ holder = p
  /\ \/ /\ candidates # {}
        /\ DropCandidate(Best(candidates))
        /\ holder' = p
        /\ pc' = [pc EXCEPT ![p] = "find"]
        /\ UNCHANGED <<mostWork, oldTip>>
     \/ /\ candidates # {} => Best(candidates) = tip
        /\ holder' = NoThread
        /\ Leave(p)
        /\ UNCHANGED <<candidates, failedChild, unsaved, unlinked>>
     \/ /\ candidates # {}
        /\ Best(candidates) # tip
        /\ Unusable(Best(candidates)) = {}
        /\ holder' = p
        /\ pc' = [pc EXCEPT ![p] = "switch"]
        /\ mostWork' = [mostWork EXCEPT ![p] = Best(candidates)]
        /\ oldTip' = [oldTip EXCEPT ![p] = tip]
        /\ UNCHANGED <<candidates, failedChild, unsaved, unlinked>>
  /\ UNCHANGED <<index, failedValid, processed, haveData, linked, order, tip,
                 bounds>>

\* activatebestchainstep leaves the active chain's blocks above the fork.
DisconnectTip(p) ==
  /\ pc[p] = "switch"
  /\ tip \notin Ancestors[mostWork[p]]
  /\ tip \in haveData      \* readblockfromdisk
  /\ tip' = Parent[tip]
  /\ UNCHANGED <<tree, order, candidates, unlinked, locals, bounds>>

\* The next block towards mostWork.
NextToConnect(p) ==
  {b \in Ancestors[mostWork[p]] \ {Genesis} : Parent[b] = tip}

\* Mutant: an invalid block is neither marked nor dropped.
ConnectTipUnmarked(p) ==
  /\ pc[p] = "switch"
  /\ \E b \in NextToConnect(p) \cap haveData :
       /\ IF b \in BadConnect \cup Corrupt
          THEN /\ holder' = NoThread
               /\ pc' = [pc EXCEPT ![p] = "check"]
               /\ UNCHANGED <<candidates, tip>>
          ELSE /\ tip' = b
               /\ candidates' = PruneCandidates(candidates, b)
               /\ IF b = mostWork[p] \/ ChainWork[b] > ChainWork[oldTip[p]]
                  THEN holder' = NoThread /\ pc' = [pc EXCEPT ![p] = "check"]
                  ELSE UNCHANGED <<holder, pc>>
  /\ UNCHANGED <<index, failedValid, failedChild, unsaved, processed, haveData,
                 linked, order, unlinked, mostWork, oldTip, bounds>>

\* connecttip for it; the step ends, and cs_main is released, at the target, at
\* an invalid block, or once the node is in a better position than before.
ConnectTip(p) ==
  /\ pc[p] = "switch"
  /\ \E b \in NextToConnect(p) \cap haveData :
       /\ \/ /\ b \in BadConnect
             /\ failedValid' = failedValid \cup {b}
             /\ candidates' = candidates \ {b}
             /\ holder' = NoThread
             /\ pc' = [pc EXCEPT ![p] = "check"]
             /\ tip' = tip
          \/ /\ b \in Corrupt \ BadConnect     \* state.corruptionpossible()
             /\ holder' = NoThread
             /\ pc' = [pc EXCEPT ![p] = "check"]
             /\ UNCHANGED <<failedValid, candidates, tip>>
          \/ /\ b \notin BadConnect \cup Corrupt
             /\ tip' = b
             /\ candidates' = PruneCandidates(candidates, b)
             /\ IF b = mostWork[p] \/ ChainWork[b] > ChainWork[oldTip[p]]
                THEN holder' = NoThread /\ pc' = [pc EXCEPT ![p] = "check"]
                ELSE UNCHANGED <<holder, pc>>
             /\ failedValid' = failedValid
  /\ UNCHANGED <<index, failedChild, unsaved, processed, haveData, linked,
                 order, unlinked, mostWork, oldTip, bounds>>

\* abortnode: the next block to disconnect or to connect has been pruned.
AbortNode(p) ==
  /\ pc[p] = "switch"
  /\ \/ tip \notin Ancestors[mostWork[p]] /\ tip \notin haveData
     \/ \E b \in NextToConnect(p) : b \notin haveData
  /\ holder' = NoThread
  /\ pc' = [pc EXCEPT ![p] = "aborted"]
  /\ UNCHANGED <<tree, order, candidates, unlinked, tip, mostWork, oldTip,
                 bounds>>

\* Mutant: activatebestchain makes one step only.
CheckDoneOnce(p) ==
  /\ pc[p] = "check"
  /\ Leave(p)
  /\ UNCHANGED <<tree, order, candidates, unlinked, tip, holder, bounds>>

\* The loop condition of activatebestchain, read without cs_main.
CheckDone(p) ==
  /\ pc[p] = "check"
  /\ \/ /\ mostWork[p] = tip
        /\ Leave(p)
     \/ /\ mostWork[p] # tip
        /\ pc' = [pc EXCEPT ![p] = "activate"]
        /\ UNCHANGED <<mostWork, oldTip>>
  /\ UNCHANGED <<tree, order, candidates, unlinked, tip, holder, bounds>>

-----------------------------------------------------------------------------
\* The invalidateblock RPC: the block, and the active blocks down to it, fail;
\* every block at least as good as the new tip becomes a candidate again.
InvalidateDone(p, b, walk) ==
  /\ walk \subseteq haveData
  /\ failedChild' = failedChild \cup walk
  /\ unsaved' = unsaved \ (walk \cup {b})
  /\ tip' = IF b \in Active THEN Parent[b] ELSE tip
  /\ candidates' = (candidates \ (walk \cup {b})) \cup
       {x \in linked : /\ x \notin failedValid' \cup failedChild'
                       /\ ~Worse(x, tip')}
  /\ pc' = [pc EXCEPT ![p] = "activate"]

\* It stops half way at the first pruned block: disconnecttip has marked it but
\* cannot read it, abortnode stops the node, and the blocks from there down to b
\* stay in chainactive although b has failed.
InvalidateAborted(p, b, walk) ==
  /\ ~(walk \subseteq haveData)
  /\ LET stop   == Highest(walk \ haveData)
         marked == {x \in walk : Height[x] >= Height[stop]}
     IN  /\ failedChild' = failedChild \cup marked
         /\ unsaved' = unsaved \ (marked \cup {b})
         /\ tip' = stop
         /\ candidates' = candidates \ (marked \cup {b})
  /\ pc' = [pc EXCEPT ![p] = "aborted"]

InvalidateBlock(p, b) ==
  /\ pc[p] = "idle"
  /\ holder = NoThread
  /\ invalidates < MaxInvalidate
  /\ b \in index \ {Genesis}
  /\ failedValid' = failedValid \cup {b}
  /\ LET walk == {x \in Active : b \in Ancestors[x]}
     IN  InvalidateDone(p, b, walk) \/ InvalidateAborted(p, b, walk)
  /\ invalidates' = invalidates + 1
  /\ UNCHANGED <<index, processed, haveData, linked, order, unlinked, holder,
                 mostWork, oldTip, reconsiders, restarts, pruned>>

\* The reconsiderblock RPC: the flags of the block's failed descendants, itself
\* and its ancestors are cleared; only the former may become candidates.
ReconsiderBlock(p, b) ==
  /\ pc[p] = "idle"
  /\ holder = NoThread
  /\ reconsiders < MaxReconsider
  /\ b \in index
  /\ LET down == Descendants(b) \cap Failed
     IN  /\ failedValid' = failedValid \ (down \cup Ancestors[b])
         /\ failedChild' = failedChild \ (down \cup Ancestors[b])
         /\ unsaved' = unsaved \ (down \cup Ancestors[b])
         /\ candidates' = candidates \cup
              {x \in down \cap processed \cap linked : Worse(tip, x)}
  /\ pc' = [pc EXCEPT ![p] = "activate"]
  /\ reconsiders' = reconsiders + 1
  /\ UNCHANGED <<index, processed, haveData, linked, order, unlinked, tip,
                 holder, mostWork, oldTip, invalidates, restarts, pruned>>

\* findfilestoprune: a file with blocks in it, all of them old enough.  (Its
\* other guard, pruneafterheight, is larger than min_blocks_to_keep on every
\* network, so the subtraction below does not wrap.)
StoredIn(f) == {b \in haveData : fileOf[b] = f}
Prunable(f) ==
  /\ f < lastFile
  /\ StoredIn(f) # {}
  /\ \A b \in StoredIn(f) : Height[b] <= Height[tip] - KeepBlocks

\* pruneoneblockfile for the first such file, from flushstatetodisk; nfile is 0
\* in blocks without data, so pruning file 0 touches those as well.
PruneOneBlockFile(f) ==
  /\ holder # NoThread => pc[holder] = "switch"
  /\ pruned < MaxPrune
  /\ Height[tip] > KeepBlocks
  /\ Prunable(f)
  /\ \A g \in 0 .. (f - 1) : ~Prunable(g)
  /\ haveData' = haveData \ StoredIn(f)
  /\ LET touched == {b \in index : fileOf[b] = f}
     IN  /\ unlinked' = [b \in Block |-> IF b \in touched THEN 0 ELSE unlinked[b]]
         /\ unsaved' = unsaved \ touched
         /\ fileOf' = [b \in Block |-> IF b \in touched THEN 0 ELSE fileOf[b]]
  /\ pruned' = pruned + 1
  /\ UNCHANGED <<index, failedValid, failedChild, processed, linked, seq,
                 nextSeq, lastFile, candidates, tip, locals, invalidates, reconsiders,
                 restarts>>

\* A clean restart, with threads interrupted at the top of activatebestchain's
\* loop: loadblockindexdb rebuilds the memory-only state from what setdirty-
\* blockindex saved, and the import thread calls activatebestchain.  The node does
\* not start when cverifydb cannot read the newest blocks of the active chain
\* (the last two for -checkblocks=1, the least it accepts).
VerifyDb == \A b \in Active \ {Genesis} : Height[b] >= Height[tip] - 1 => b \in haveData

Restart(p) ==
  /\ holder = NoThread
  /\ VerifyDb
  /\ \A q \in Threads : pc[q] \in {"idle", "activate", "aborted"}
  /\ restarts < MaxRestart
  /\ seq' = [b \in Block |-> 0]
  /\ nextSeq' = 1
  /\ linked' = {b \in processed : Ancestors[b] \subseteq processed}
  /\ unlinked' = [b \in Block |->
                    IF b \in processed \ {Genesis} /\ Parent[b] \notin linked'
                    THEN 1 ELSE 0]
  /\ failedChild' = failedChild \ unsaved
  /\ unsaved' = {}
  /\ candidates' = {b \in linked' \ (failedValid \cup failedChild') :
                      ~WorseBy(seq', b, tip)}
  /\ pc' = [q \in Threads |-> IF q = p THEN "activate" ELSE "idle"]
  /\ mostWork' = [q \in Threads |-> Genesis]
  /\ oldTip' = [q \in Threads |-> Genesis]
  /\ restarts' = restarts + 1
  /\ UNCHANGED <<index, failedValid, processed, haveData, fileOf, lastFile,
                 tip, holder, invalidates, reconsiders, pruned>>

-----------------------------------------------------------------------------
Activate(p) ==
  \/ FindMostWorkChain(p) \/ DisconnectTip(p) \/ ConnectTip(p)
  \/ AbortNode(p) \/ CheckDone(p)

Next ==
  \/ \E b \in Block : AcceptHeader(b)
  \/ \E p \in Threads : Activate(p) \/ Restart(p)
  \/ \E p \in Threads, b \in Block :
       \/ \E requested \in BOOLEAN : ProcessNewBlock(p, b, requested)
       \/ InvalidateBlock(p, b)
       \/ ReconsiderBlock(p, b)
  \/ \E f \in 0 .. lastFile : PruneOneBlockFile(f)

Spec == Init /\ [][Next]_vars
FairSpec == Spec /\ \A p \in Threads : WF_vars(Activate(p))

-----------------------------------------------------------------------------
\* The index is a tree with its flags on known blocks: data is only kept of
\* processed blocks, and nchaintx is only set on those.
TypeOK ==
  /\ index \subseteq Block
  /\ \A b \in index \ {Genesis} : Parent[b] \in index
  /\ failedValid \subseteq index /\ failedChild \subseteq index
  /\ unsaved \subseteq failedChild
  /\ haveData \subseteq processed /\ processed \subseteq index
  /\ linked \subseteq processed
  /\ seq \in [Block -> Nat] /\ nextSeq \in Nat
  /\ candidates \subseteq index /\ unlinked \in [Block -> Nat]
  /\ fileOf \in [Block -> Nat] /\ lastFile \in Nat
  /\ tip \in index
  /\ holder \in Threads \cup {NoThread}
  /\ pc \in [Threads -> {"idle", "activate", "find", "switch", "check", "aborted"}]
  /\ mostWork \in [Threads -> Block] /\ oldTip \in [Threads -> Block]
  /\ invalidates \in 0 .. MaxInvalidate /\ reconsiders \in 0 .. MaxReconsider
  /\ restarts \in 0 .. MaxRestart
  /\ pruned \in 0 .. MaxPrune

\* checkblockindex can run: cs_main is free and the node is not shutting down.
NoAbort == \A p \in Threads : pc[p] # "aborted"
Unlocked == holder = NoThread /\ NoAbort
Quiet == \A p \in Threads : pc[p] = "idle"
InvalidParent(b) == Ancestors[b] \cap failedValid # {}
AllSeen(b) == Ancestors[b] \subseteq processed

\* No block that a validity check rejects is ever in chainactive, in the middle of
\* a reorganisation either, and a block that an operator rejected is there only
\* below a pruned one that invalidateblock marked and could not disconnect
\* (disconnecttip fails at main.cpp:2450, and the node is shutting down).
ActiveChainValid ==
  /\ Active \cap (BadBlock \cup BadConnect \cup Corrupt) = {}
  /\ Active \subseteq linked
  /\ \A x \in Active \cap Failed :
       \E y \in (Active \cap Failed) \ haveData : x \in Ancestors[y]

\* "all parents having had data (at some point) is equivalent to ... nchaintx
\* being set", and nsequenceid is only set on linked blocks.
LinksAreExact ==
  /\ \A b \in index : b \in linked <=> AllSeen(b)
  /\ \A b \in Block \ linked : seq[b] = 0

\* findmostworkchain's assertion: a candidate and its ancestors have nchaintx,
\* and the target of a switch stays a candidate until the switch ends.
CandidatesLinked ==
  /\ candidates \subseteq linked
  /\ \A p \in Threads : pc[p] = "switch" => mostWork[p] \in candidates

\* activatebestchain: "the result is either failure or an activated best
\* chain": once every call has returned, no chain that is complete and not
\* known to be invalid beats the active one, for any interleaving of calls.
Usable(b) == AllSeen(b) /\ Path(b) \subseteq haveData /\ Ancestors[b] \cap Failed = {}
BestChainActive == Quiet => \A b \in index : Usable(b) => ~Worse(tip, b)

\* The same for a node whose operator uses invalidateblock only, and not below
\* the blocks a pruning node keeps (a pruned tip that is received again counts as
\* the last of its height).
BestChainUntilReconsider ==
  reconsiders = 0 /\ (pruned = 0 \/ invalidates = 0) => BestChainActive

\* What must not be in setblockindexcandidates, and what must.
CandidatesNotWorse ==
  \A b \in candidates : ~Worse(b, tip) /\ AllSeen(b)
CandidatesComplete ==
  \A b \in index :
    ~Worse(b, tip) /\ AllSeen(b) /\ ~InvalidParent(b)
      /\ (Ancestors[b] \subseteq haveData \/ b = tip) => b \in candidates

\* "have_data should be equivalent to ntx > 0" until the first pruning, and "the
\* failed mask cannot be set for blocks without invalid parents".
FlagsConsistent ==
  /\ pruned = 0 => haveData = processed
  /\ \A b \in Failed : InvalidParent(b)

\* What must be in mapblocksunlinked, and what must not.
UnlinkedExact ==
  \A b \in index \ {Genesis} :
    /\ b \in haveData /\ ~AllSeen(b) /\ ~InvalidParent(b) => b \in Waiting
    /\ b \notin haveData => b \notin Waiting
    /\ Ancestors[b] \subseteq haveData => b \notin Waiting
    /\ b \in haveData /\ AllSeen(b) /\ ~(Ancestors[b] \subseteq haveData)
       /\ ~Worse(b, tip) /\ b \notin candidates /\ ~InvalidParent(b) => b \in Waiting

\* The assertions of checkblockindex, which is off by default: the flags, nchaintx
\* and nsequenceid, the candidates and the unlinked blocks are what the tree says,
\* whatever order blocks arrived in and whoever reorganised the chain.  One of
\* them, that every block as good as the tip is a candidate (3620), does not hold
\* while some activatebestchain is under way, though checkblockindex then runs at
\* 2424 and 2940, and is stated for the states in which none is.  Left out are the
\* assertions on the levels of block_valid_mask above "transactions" (3608-3611),
\* on nheight, nchainwork and pskip, which are constants here, and on undo data.
CheckBlockIndex ==
  /\ LinksAreExact
  /\ FlagsConsistent
  /\ CandidatesNotWorse
  /\ Unlocked => UnlinkedExact
  /\ Quiet => CandidatesComplete

\* The ordered set setblockindexcandidates is keyed by nsequenceid: no member
\* has its key changed under it.
KeysStable ==
  [][restarts' = restarts =>
       \A b \in candidates \cap candidates' : seq'[b] = seq[b]]_vars

\* Every call of activatebestchain returns.
ActivationEnds == \A p \in Threads : (pc[p] = "activate") ~> (pc[p] \in {"idle", "aborted"})
=============================================================================
