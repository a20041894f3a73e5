--------------------------- MODULE BlockTreeProof ----------------------------
(***************************************************************************)
(* Proofs about BlockTree, for every tree of blocks and any number of      *)
(* threads: no invalid block is ever active, findmostworkchain's assertion *)
(* holds, and without pruning the keys of setblockindexcandidates never    *)
(* change, the best chain wins and checkblockindex finds nothing.          *)
(***************************************************************************)
EXTENDS BlockTree, HeaderTreeProof

\* Blocks become linked from Genesis on, and only valid ones are processed.
LinkedInv ==
  /\ IsFiniteSet(index)
  /\ \A b \in linked : Ancestors[b] \subseteq linked
  /\ Waiting \subseteq processed
  /\ processed \cap BadBlock = {}
  /\ candidates \subseteq linked

\* A thread that switches holds cs_main, so nothing on its way to mostWork can
\* have failed since findmostworkchain looked at it.
SwitchInv ==
  \A p \in Threads :
    /\ pc[p] \in {"find", "switch"} => holder = p
    /\ pc[p] = "switch" => /\ mostWork[p] \in candidates
                           /\ Path(mostWork[p]) \cap Failed = {}

\* The flags of active blocks are saved: invalidateblock saves those it sets, and
\* findmostworkchain sets none of them.
SavedInv == Active \cap unsaved = {}

TreeInv == TypeOK /\ LinkedInv /\ ActiveChainValid /\ SwitchInv /\ SavedInv

\* In a node that does not prune, data is never lost and mapblocksunlinked holds
\* unlinked blocks only.
UnprunedInv == pruned = 0 /\ haveData = processed /\ Waiting \cap linked = {}

\* Blocks that could be the tip as far as the node knows, and blocks that
\* connectblock would accept as well.
Eligible(b) == b \in linked /\ Ancestors[b] \cap Failed = {}
Sound(b) == Eligible(b) /\ Ancestors[b] \cap (BadBlock \cup BadConnect \cup Corrupt) = {}

\* mapblocksunlinked: a block waits for a parent, and every processed block
\* whose parent is missing waits unless its parent has failed.
WaitInv ==
  /\ \A b \in Waiting : b # Genesis /\ Parent[b] \notin linked
  /\ \A b \in processed \ linked : b \in Waiting \/ Parent[b] \in Failed

\* An eligible block is a candidate unless a better candidate will not fail.
CoverInv ==
  \A b \in linked :
    Eligible(b) => b \in candidates \/ \E c \in candidates : Sound(c) /\ Worse(b, c)

\* A block worse than the tip is no candidate, and the target of a switch is the
\* best one.
KeepInv ==
  /\ \A c \in candidates : ~Worse(c, tip)
  /\ \A p \in Threads :
       pc[p] = "switch" => \A d \in candidates \ {mostWork[p]} : Worse(d, mostWork[p])

\* Either no eligible block is better than the tip or some thread will look again.
Pending(p) ==
  \/ pc[p] \in {"activate", "find", "switch", "aborted"}
  \/ pc[p] = "check" /\ mostWork[p] # tip
BestActive == \A b \in linked : Eligible(b) => ~Worse(tip, b)
PendInv == BestActive \/ \E p \in Threads : Pending(p)

\* Before any RPC: a flag of a child leads to the flag of a failed block, no block
\* is processed once it has failed, a block that does not wait will never be
\* linked, and only linked blocks are numbered.
ExactInv ==
  /\ \A b \in failedChild : InvalidParent(b)
  /\ Failed \cap processed \subseteq linked
  /\ \A b \in processed \ linked : b \in Waiting \/ Parent[b] \in Failed \ linked
  /\ \A b \in Block \ linked : seq[b] = 0

\* The choice of the chain in a node that does not prune.
ChoiceInv == WaitInv /\ CoverInv /\ PendInv
SelectInv ==
  /\ UnprunedInv
  /\ KeepInv
  /\ reconsiders = 0 => ChoiceInv
  /\ reconsiders = 0 /\ invalidates = 0 => ExactInv
-----------------------------------------------------------------------------
(* cblockindexworkcomparator *)

\* It is a strict total order, whatever the sequence numbers are.
LEMMA WorseOrder ==
  ASSUME NEW s \in [Block -> Nat],
         NEW a \in Block, NEW b \in Block, NEW c \in Block
  PROVE  /\ ~WorseBy(s, a, a)
         /\ a # b => WorseBy(s, a, b) \/ WorseBy(s, b, a)
         /\ WorseBy(s, a, b) => ~WorseBy(s, b, a)
         /\ WorseBy(s, a, b) /\ WorseBy(s, b, c) => WorseBy(s, a, c)
<1>1. /\ {s[a], s[b], s[c], Addr[a], Addr[b], Addr[c]} \subseteq Nat
      /\ Addr[a] = Addr[b] => a = b
      /\ {ChainWork[a], ChainWork[b], ChainWork[c]} \subseteq Nat
  BY BlockTreeAssumption, ChainWorkDef
<1>2. QED
  BY <1>1 DEF WorseBy

\* An ancestor is worse.
LEMMA AncestorWorse ==
  ASSUME NEW s \in [Block -> Nat], NEW b \in Block, NEW a \in Ancestors[b], a # b
  PROVE  WorseBy(s, a, b)
BY Growth DEF WorseBy

\* findmostworkchain takes the candidate from the end of a finite ordered set.
LEMMA BestIn ==
  ASSUME seq \in [Block -> Nat], NEW T \in SUBSET Block, IsFiniteSet(T), T # {}
  PROVE  Best(T) \in T /\ \A d \in T \ {Best(T)} : Worse(d, Best(T))
<1> DEFINE Top(X) == \E c \in X : \A d \in X \ {c} : Worse(d, c)
           U == {X \in SUBSET T : X # {} /\ ~Top(X)}
<1>1. Top(T)
  <2> SUFFICES ASSUME U # {} PROVE FALSE
    OBVIOUS
  <2>1. \A X \in U : IsFiniteSet(X)
    BY FS_Subset
  <2>2. PICK X \in U : \A Y \in U : Y \subseteq X => Y = X
    <3> HIDE DEF U
    <3> QED BY <2>1, SmallestSet
  <2>3. PICK x \in X : TRUE
    OBVIOUS
  <2>4. X \ {x} # {}
    BY <2>3
  <2>5. Top(X \ {x})
    <3>1. X \ {x} \notin U
      <4> HIDE DEF U
      <4> QED BY <2>2, <2>3
    <3>2. X \ {x} \in SUBSET T
      BY <2>2
    <3>3. QED
      BY <2>4, <3>1, <3>2
  <2>6. PICK m \in X \ {x} : \A d \in (X \ {x}) \ {m} : Worse(d, m)
    BY <2>5
  <2>7. x \in Block /\ m \in Block /\ \A d \in X : d \in Block
    BY <2>2, <2>3, <2>6
  <2>8. CASE Worse(x, m)
    BY <2>2, <2>6, <2>8
  <2>9. CASE Worse(m, x)
    <3>1. ASSUME NEW d \in X \ {x} PROVE Worse(d, x)
      BY <2>6, <2>7, <2>9, WorseOrder DEF Worse
    <3>2. QED
      BY <2>2, <2>3, <3>1
  <2>10. QED
    BY <2>3, <2>6, <2>7, <2>8, <2>9, WorseOrder DEF Worse
<1>2. QED
  BY <1>1 DEF Best

-----------------------------------------------------------------------------
\* The initial state has the block of Genesis only.
LEMMA InitInv == Init => TreeInv
<1> SUFFICES ASSUME Init PROVE TreeInv
  OBVIOUS
<1>1. Genesis \in Block /\ Ancestors[Genesis] = {Genesis}
  BY HeaderTreeAssumption, Ancestry
<1>2. TypeOK
  BY <1>1, BlockTreeAssumption DEF Init, TypeOK
<1>3. LinkedInv
  <2>1. IsFiniteSet(index)
    BY FS_Singleton DEF Init
  <2>2. Waiting = {}
    BY DEF Init, Waiting
  <2>3. QED
    BY <1>1, <2>1, <2>2, BlockTreeAssumption DEF Init, LinkedInv
<1>4. ActiveChainValid
  BY <1>1, BlockTreeAssumption DEF Init, ActiveChainValid, SavedInv, Active, Failed
<1>5. SwitchInv /\ SavedInv
  BY DEF Init, SwitchInv, SavedInv
<1>6. QED
  BY <1>2, <1>3, <1>4, <1>5 DEF TreeInv

\* A new header.
LEMMA AcceptHeaderInv ==
  ASSUME TreeInv, NEW b \in Block, AcceptHeader(b)
  PROVE  TreeInv'
<1>1. index' = index \cup {b} /\ Parent[b] \in index /\ b \notin index
  BY DEF AcceptHeader, HeaderOk
<1>2. /\ UNCHANGED <<failedValid, failedChild, unsaved, processed, haveData, linked>>
      /\ UNCHANGED <<order, candidates, unlinked, tip, locals, bounds>>
  BY DEF AcceptHeader
<1>3. TypeOK'
  BY <1>1, <1>2 DEF TreeInv, TypeOK, order, locals, bounds
<1>4. LinkedInv'
  <2>1. IsFiniteSet(index')
    BY <1>1, FS_AddElement DEF TreeInv, LinkedInv
  <2>2. QED
    BY <1>2, <2>1 DEF TreeInv, LinkedInv, Waiting
<1>5. ActiveChainValid' /\ SwitchInv' /\ SavedInv'
  BY <1>2 DEF TreeInv, ActiveChainValid, SavedInv, SwitchInv, Path, Active, Failed, locals
<1>6. QED
  BY <1>3, <1>4, <1>5 DEF TreeInv
-----------------------------------------------------------------------------
(* processnewblock *)

\* The blocks that receivedblocktransactions links are the new block and known
\* ones, and together with what was linked they lead back to Genesis.
LEMMA NowLinkedFact ==
  ASSUME TreeInv, NEW b \in Block \ {Genesis}, Parent[b] \in linked
  PROVE  /\ b \in NowLinked(b)
         /\ NowLinked(b) \subseteq {b} \cup Waiting
         /\ \A c \in linked \cup NowLinked(b) : Ancestors[c] \subseteq linked \cup NowLinked(b)
<1>1. b \in Ancestors[b] /\ Ancestors[b] = {b} \cup Ancestors[Parent[b]]
  BY Ancestry
<1>2. b \in NowLinked(b)
  BY <1>1 DEF NowLinked
<1>3. ASSUME NEW c \in NowLinked(b), c # b PROVE c \in Waiting
  <2>1. c \in Block /\ b \in Ancestors[c] /\ Ancestors[c] \ Ancestors[b] \subseteq Waiting
    BY DEF NowLinked
  <2>2. c \notin Ancestors[b]
    BY <1>3, <2>1, Antisymmetry
  <2>3. QED
    BY <2>1, <2>2, Ancestry
<1>4. ASSUME NEW c \in NowLinked(b), NEW x \in Ancestors[c]
      PROVE  x \in linked \cup NowLinked(b)
  <2>1. /\ c \in Block /\ b \in Ancestors[c] /\ x \in Block
        /\ Ancestors[c] \ Ancestors[b] \subseteq Waiting
    BY Ancestry DEF NowLinked
  <2>2. CASE x \in Ancestors[b]
    BY <1>1, <1>2, <2>2 DEF TreeInv, LinkedInv
  <2>3. CASE x \notin Ancestors[b]
    <3>1. b \in Ancestors[x]
      BY <2>1, <2>3, Comparable
    <3>2. Ancestors[x] \subseteq Ancestors[c]
      BY <2>1, Ancestry
    <3>3. QED
      BY <2>1, <3>1, <3>2 DEF NowLinked
  <2>4. QED
    BY <2>2, <2>3
<1>5. QED
  BY <1>2, <1>3, <1>4 DEF TreeInv, LinkedInv

\* A breadth-first search visits finitely many entries.
LEMMA VisitsFinite ==
  ASSUME TreeInv, NEW b \in Block \ {Genesis}, Parent[b] \in linked
  PROVE  Cardinality(Visits(b)) \in Nat
<1> DEFINE N == NowLinked(b)
           row(c) == {c} \X (1 .. (IF c = b THEN 1 ELSE unlinked[c]))
           rows == [c \in N |-> row(c)]
           Rows == {row(c) : c \in N}
<1>1. IsFiniteSet(N)
  <2>1. N \subseteq index \cup {b}
    BY NowLinkedFact DEF TreeInv, TypeOK, LinkedInv
  <2>2. IsFiniteSet(index \cup {b})
    BY FS_AddElement DEF TreeInv, LinkedInv
  <2>3. QED
    BY <2>1, <2>2, FS_Subset
<1>2. ASSUME NEW c \in N PROVE IsFiniteSet(row(c))
  <2> DEFINE m == IF c = b THEN 1 ELSE unlinked[c]
  <2>1. m \in Nat
    BY DEF NowLinked, TreeInv, TypeOK
  <2>2. IsFiniteSet({c})
    BY FS_Singleton
  <2>3. IsFiniteSet(1 .. m)
    <3> HIDE DEF m
    <3>1. 1 \in Int /\ m \in Int
      BY <2>1
    <3>2. QED
      BY <3>1, FS_Interval
  <2>4. QED
    BY <2>2, <2>3, FS_Product
<1>3. IsFiniteSet(Rows)
  <2>1. rows \in Surjection(N, Rows)
    BY DEF Surjection
  <2>2. QED
    BY <1>1, <2>1, FS_Surjection
<1>4. IsFiniteSet(UNION Rows)
  BY <1>2, <1>3, FS_UNION
<1>5. QED
  BY <1>4, FS_CardinalityType DEF Visits

\* receivedblocktransactions links and numbers known blocks only, and adds only
\* linked ones to the candidates.
LEMMA ReceivedFact ==
  ASSUME TreeInv, NEW b \in Block \ {Genesis}, ReceivedBlockTransactions(b)
  PROVE  /\ processed' = processed \cup {b} /\ haveData' = haveData \cup {b}
         /\ linked \subseteq linked' /\ linked' \subseteq processed'
         /\ \A c \in linked' : Ancestors[c] \subseteq linked'
         /\ candidates \subseteq candidates' /\ candidates' \subseteq linked'
         /\ seq' \in [Block -> Nat] /\ nextSeq' \in Nat
         /\ unlinked' \in [Block -> Nat] /\ Waiting' \subseteq Waiting \cup {b}
<1>1. processed' = processed \cup {b} /\ haveData' = haveData \cup {b}
  BY DEF ReceivedBlockTransactions
<1>2. CASE Parent[b] \in linked
  <2> DEFINE new == NowLinked(b)
  <2>1. PICK last \in LastVisits(Visits(b), new) :
          /\ seq' = [c \in Block |-> IF c \in new THEN nextSeq + last[c] - 1 ELSE seq[c]]
          /\ nextSeq' = nextSeq + Cardinality(Visits(b))
          /\ linked' = linked \cup new
          /\ candidates' = candidates \cup {c \in new : ~WorseBy(seq', c, tip)}
          /\ unlinked' = [c \in Block |-> IF c \in new \ {b} THEN 0 ELSE unlinked[c]]
    BY <1>2 DEF ReceivedBlockTransactions
  <2>2. Cardinality(Visits(b)) \in Nat /\ last \in [new -> 1 .. Cardinality(Visits(b))]
    BY <1>2, <2>1, VisitsFinite DEF LastVisits
  <2>3. seq' \in [Block -> Nat] /\ nextSeq' \in Nat
    BY <2>1, <2>2 DEF TreeInv, TypeOK
  <2>4. unlinked' \in [Block -> Nat] /\ Waiting' \subseteq Waiting
    BY <2>1 DEF TreeInv, TypeOK, Waiting
  <2>5. new \subseteq {b} \cup Waiting /\ \A c \in linked' : Ancestors[c] \subseteq linked'
    BY <1>2, <2>1, NowLinkedFact
  <2>6. linked' \subseteq processed' /\ candidates' \subseteq linked'
    BY <1>1, <2>1, <2>5 DEF TreeInv, LinkedInv, TypeOK
  <2>7. QED
    BY <1>1, <2>1, <2>3, <2>4, <2>5, <2>6
<1>3. CASE Parent[b] \notin linked
  <2>1. /\ linked' = linked \ {b}
        /\ unlinked' = IF Parent[b] \in Failed THEN unlinked ELSE [unlinked EXCEPT ![b] = @ + 1]
        /\ UNCHANGED <<seq, nextSeq, candidates>>
    BY <1>3 DEF ReceivedBlockTransactions
  <2>2. b \notin linked
    <3>1. Parent[b] \in Ancestors[b]
      BY Ancestry
    <3>2. QED
      BY <1>3, <3>1 DEF TreeInv, LinkedInv
  <2>3. unlinked' \in [Block -> Nat] /\ Waiting' \subseteq Waiting \cup {b}
    BY <2>1 DEF TreeInv, TypeOK, Waiting
  <2>4. QED
    BY <1>1, <2>1, <2>2, <2>3 DEF TreeInv, TypeOK, LinkedInv
<1>4. QED
  BY <1>2, <1>3

\* A block message.  The new block is not active, and if it is refused it is a
\* block that fails contextualcheckblock.
LEMMA ProcessNewBlockInv ==
  ASSUME TreeInv, NEW p \in Threads, NEW b \in Block, NEW requested \in BOOLEAN,
         ProcessNewBlock(p, b, requested)
  PROVE  TreeInv'
<1>1. /\ pc[p] = "idle" /\ holder = NoThread /\ b # Genesis /\ HeaderOk(b)
      /\ index' = index \cup {b}
      /\ UNCHANGED <<failedChild, unsaved, tip, holder, mostWork, oldTip, bounds>>
  BY DEF ProcessNewBlock
<1>2. Parent[b] \in index
  BY <1>1 DEF HeaderOk, TreeInv, TypeOK
<1>3. IsFiniteSet(index')
  BY <1>1, FS_AddElement DEF TreeInv, LinkedInv
<1>4. \A q \in Threads : pc[q] \notin {"find", "switch"}
  BY <1>1, BlockTreeAssumption DEF TreeInv, SwitchInv
<1>5. CASE /\ Ignored(b, requested)
           /\ pc' = [pc EXCEPT ![p] = "activate"]
           /\ UNCHANGED <<failedValid, processed, haveData, linked, order, candidates, unlinked>>
  <2>1. TypeOK'
    BY <1>1, <1>2, <1>5 DEF TreeInv, TypeOK, order, bounds
  <2>2. LinkedInv'
    BY <1>3, <1>5 DEF TreeInv, LinkedInv, Waiting
  <2>3. ActiveChainValid' /\ SwitchInv' /\ SavedInv'
    BY <1>1, <1>4, <1>5 DEF TreeInv, TypeOK, ActiveChainValid, SavedInv, SwitchInv, Path, Active, Failed
  <2>4. QED
    BY <2>1, <2>2, <2>3 DEF TreeInv
<1>6. CASE /\ ~Ignored(b, requested) /\ b \in BadBlock
           /\ failedValid' = failedValid \cup {b}
           /\ UNCHANGED <<processed, haveData, linked, order, candidates, unlinked, pc>>
  <2>1. TypeOK'
    BY <1>1, <1>2, <1>6 DEF TreeInv, TypeOK, order, bounds
  <2>2. LinkedInv'
    BY <1>3, <1>6 DEF TreeInv, LinkedInv, Waiting
  <2>3. ActiveChainValid' /\ SwitchInv' /\ SavedInv'
    <3>1. Active' = Active /\ Active \cap Failed' = Active \cap Failed
      BY <1>1, <1>6 DEF TreeInv, ActiveChainValid, Active, Failed
    <3>2. ActiveChainValid' /\ SavedInv'
      BY <1>1, <1>6, <3>1 DEF TreeInv, ActiveChainValid, SavedInv
    <3>3. SwitchInv'
      BY <1>1, <1>4, <1>6 DEF TreeInv, TypeOK, SwitchInv
    <3>4. QED
      BY <3>2, <3>3
  <2>4. QED
    BY <2>1, <2>2, <2>3 DEF TreeInv
<1>7. CASE /\ ~Ignored(b, requested) /\ b \notin BadBlock
           /\ lastFile' \in {lastFile, lastFile + (IF pruned < MaxPrune THEN 1 ELSE 0)}
           /\ fileOf' = [fileOf EXCEPT ![b] = lastFile']
           /\ ReceivedBlockTransactions(b)
           /\ pc' = [pc EXCEPT ![p] = "activate"]
           /\ UNCHANGED failedValid
  <2>1. /\ processed' = processed \cup {b} /\ haveData' = haveData \cup {b}
        /\ linked \subseteq linked' /\ linked' \subseteq processed'
        /\ \A c \in linked' : Ancestors[c] \subseteq linked'
        /\ candidates \subseteq candidates' /\ candidates' \subseteq linked'
        /\ seq' \in [Block -> Nat] /\ nextSeq' \in Nat
        /\ unlinked' \in [Block -> Nat] /\ Waiting' \subseteq Waiting \cup {b}
    BY <1>1, <1>7, ReceivedFact
  <2>2. lastFile' \in Nat /\ fileOf' \in [Block -> Nat]
    BY <1>7 DEF TreeInv, TypeOK
  <2>3. TypeOK'
    BY <1>1, <1>2, <1>7, <2>1, <2>2 DEF TreeInv, TypeOK, bounds
  <2>4. LinkedInv'
    BY <1>3, <1>7, <2>1 DEF TreeInv, LinkedInv
  <2>5. ActiveChainValid' /\ SwitchInv' /\ SavedInv'
    <3>1. b \notin Failed
      BY <1>1 DEF HeaderOk, TreeInv, TypeOK, Failed
    <3>2. Failed' = Failed /\ Active' = Active
      BY <1>1, <1>7 DEF Failed, Active
    <3>3. ActiveChainValid' /\ SavedInv'
      BY <1>1, <2>1, <3>1, <3>2 DEF TreeInv, ActiveChainValid, SavedInv
    <3>4. SwitchInv'
      BY <1>1, <1>4, <1>7 DEF TreeInv, TypeOK, SwitchInv
    <3>5. QED
      BY <3>3, <3>4
  <2>6. QED
    BY <2>3, <2>4, <2>5 DEF TreeInv
<1>8. QED
  BY <1>5, <1>6, <1>7 DEF ProcessNewBlock
-----------------------------------------------------------------------------
(* activatebestchain *)

\* A thread that may take the next step of findmostworkchain is the only one
\* inside the part of activatebestchain that holds cs_main.
LEMMA Alone ==
  ASSUME TreeInv, NEW p \in Threads, holder = NoThread \/ holder = p,
         NEW q \in Threads, q # p
  PROVE  pc[q] \notin {"find", "switch"}
BY BlockTreeAssumption DEF TreeInv, SwitchInv

\* The best candidate, and with it the way to it, is known and linked.
LEMMA BestCandidate ==
  ASSUME TreeInv, candidates # {}
  PROVE  /\ Best(candidates) \in candidates
         /\ \A d \in candidates \ {Best(candidates)} : Worse(d, Best(candidates))
         /\ Best(candidates) \in Block
         /\ Path(Best(candidates)) \subseteq linked
<1>1. candidates \in SUBSET Block /\ IsFiniteSet(candidates)
  BY FS_Subset DEF TreeInv, TypeOK, LinkedInv
<1>2. /\ Best(candidates) \in candidates
      /\ \A d \in candidates \ {Best(candidates)} : Worse(d, Best(candidates))
  BY <1>1, BestIn DEF TreeInv, TypeOK
<1>3. QED
  BY <1>1, <1>2 DEF TreeInv, LinkedInv, Path

\* One iteration of findmostworkchain.  What it marks as failed is off the
\* active chain, and what it chooses has no failed block below it.
LEMMA FindMostWorkChainInv ==
  ASSUME TreeInv, NEW p \in Threads, FindMostWorkChain(p)
  PROVE  TreeInv'
<1>1. /\ holder = NoThread \/ holder = p
      /\ UNCHANGED <<index, failedValid, processed, haveData, linked, order, tip, bounds>>
  BY DEF FindMostWorkChain
<1>2. \A q \in Threads \ {p} : pc[q] \notin {"find", "switch"}
  BY <1>1, Alone
<1> DEFINE c == Best(candidates)
<1>3. CASE /\ candidates # {}
           /\ DropCandidate(c)
           /\ holder' = p
           /\ pc' = [pc EXCEPT ![p] = "find"]
           /\ UNCHANGED <<mostWork, oldTip>>
  <2> DEFINE bad == Highest(Unusable(c))
             above == {x \in Path(c) : Height[x] > Height[bad]}
  <2>1. Path(c) \subseteq linked /\ c \in Block
    BY <1>3, BestCandidate
  <2> HIDE DEF c
  <2>2. above \subseteq linked /\ above \cap Active = {}
    BY <2>1 DEF Path
  <2>3. /\ candidates' \subseteq candidates
        /\ failedChild' = failedChild \/ failedChild' = failedChild \cup above
        /\ unsaved' \subseteq failedChild' /\ unsaved' \subseteq unsaved \cup above
        /\ unlinked' \in [Block -> Nat]
    BY <1>3 DEF DropCandidate, TreeInv, TypeOK
  <2>4. Waiting' \subseteq processed
    <3>1. Waiting' \subseteq Waiting \cup above
      BY <1>3 DEF DropCandidate, Waiting, TreeInv, TypeOK
    <3>2. QED
      BY <2>2, <3>1 DEF TreeInv, TypeOK, LinkedInv
  <2> HIDE DEF above
  <2>5. TypeOK'
    BY <1>1, <1>3, <2>2, <2>3 DEF TreeInv, TypeOK, order, bounds
  <2>6. LinkedInv'
    BY <1>1, <2>3, <2>4 DEF TreeInv, LinkedInv
  <2>7. ActiveChainValid' /\ SavedInv'
    <3>1. Active' = Active /\ Active \cap Failed' = Active \cap Failed
      BY <1>1, <2>2, <2>3 DEF Active, Failed
    <3>2. QED
      BY <1>1, <2>2, <2>3, <3>1 DEF TreeInv, ActiveChainValid, SavedInv
  <2>8. SwitchInv'
    BY <1>2, <1>3 DEF TreeInv, TypeOK, SwitchInv
  <2>9. QED
    BY <2>5, <2>6, <2>7, <2>8 DEF TreeInv
<1>4. CASE /\ holder' = NoThread
           /\ Leave(p)
           /\ UNCHANGED <<candidates, failedChild, unsaved, unlinked>>
  <2>1. Genesis \in Block
    BY HeaderTreeAssumption
  <2>2. TypeOK'
    BY <1>1, <1>4, <2>1 DEF TreeInv, TypeOK, order, bounds, Leave
  <2>3. LinkedInv' /\ ActiveChainValid' /\ SavedInv'
    BY <1>1, <1>4 DEF TreeInv, LinkedInv, ActiveChainValid, SavedInv, Active, Failed, Waiting
  <2>4. SwitchInv'
    BY <1>2, <1>4 DEF TreeInv, TypeOK, SwitchInv, Leave
  <2>5. QED
    BY <2>2, <2>3, <2>4 DEF TreeInv
<1>5. CASE /\ candidates # {}
           /\ Unusable(c) = {}
           /\ holder' = p
           /\ pc' = [pc EXCEPT ![p] = "switch"]
           /\ mostWork' = [mostWork EXCEPT ![p] = c]
           /\ oldTip' = [oldTip EXCEPT ![p] = tip]
           /\ UNCHANGED <<candidates, failedChild, unsaved, unlinked>>
  <2>1. c \in candidates /\ c \in Block
    BY <1>5, BestCandidate
  <2> HIDE DEF c
  <2>2. Path(c) \cap Failed = {}
    BY <1>5 DEF Unusable
  <2>3. TypeOK'
    BY <1>1, <1>5, <2>1 DEF TreeInv, TypeOK, order, bounds
  <2>4. LinkedInv' /\ ActiveChainValid' /\ SavedInv'
    BY <1>1, <1>5 DEF TreeInv, LinkedInv, ActiveChainValid, SavedInv, Active, Failed, Waiting
  <2>5. SwitchInv'
    <3>1. Failed' = Failed /\ Active' = Active
      BY <1>1, <1>5 DEF Active, Failed
    <3>2. mostWork'[p] = c /\ pc'[p] = "switch"
      BY <1>5 DEF TreeInv, TypeOK
    <3>3. \A q \in Threads : pc'[q] \in {"find", "switch"} => q = p
      BY <1>2, <1>5 DEF TreeInv, TypeOK
    <3>4. (Ancestors[mostWork'[p]] \ Active') \cap Failed' = {}
      BY <2>2, <3>1, <3>2 DEF Path
    <3>5. holder' = p /\ mostWork'[p] \in candidates'
      BY <1>5, <2>1, <3>2
    <3>6. QED
      BY <3>3, <3>4, <3>5 DEF SwitchInv, Path
  <2>6. QED
    BY <2>3, <2>4, <2>5 DEF TreeInv
<1>6. QED
  BY <1>3, <1>4, <1>5 DEF FindMostWorkChain

\* A block leaves the active chain.
LEMMA DisconnectTipInv ==
  ASSUME TreeInv, NEW p \in Threads, DisconnectTip(p)
  PROVE  TreeInv'
<1>1. /\ pc[p] = "switch" /\ tip \notin Ancestors[mostWork[p]] /\ tip' = Parent[tip]
      /\ UNCHANGED <<tree, order, candidates, unlinked, locals, bounds>>
  BY DEF DisconnectTip
<1>2. tip \in Block /\ tip # Genesis
  <2>1. mostWork[p] \in Block
    BY DEF TreeInv, TypeOK
  <2>2. QED
    BY <1>1, <2>1, Ancestry DEF TreeInv, TypeOK
<1>3. Ancestors[tip'] \subseteq Ancestors[tip]
  BY <1>1, <1>2, Ancestry
<1>4. TypeOK'
  BY <1>1, <1>2 DEF TreeInv, TypeOK, tree, order, locals, bounds
<1>5. LinkedInv' /\ SwitchInv'
  <2>1. LinkedInv'
    BY <1>1 DEF TreeInv, LinkedInv, tree, Waiting
  <2>2. Active = {tip} \cup Active'
    BY <1>1, <1>2, Ancestry DEF Active
  <2>3. \A q \in Threads : pc[q] = "switch" => q = p
    BY <1>1 DEF TreeInv, SwitchInv
  <2>4. Ancestors[mostWork[p]] \ Active' = Ancestors[mostWork[p]] \ Active
    BY <1>1, <2>2
  <2>5. Failed' = Failed /\ UNCHANGED <<holder, pc, mostWork, candidates>>
    BY <1>1 DEF Failed, tree, locals
  <2>6. QED
    BY <2>1, <2>3, <2>4, <2>5 DEF TreeInv, SwitchInv, Path
<1>6. ActiveChainValid' /\ SavedInv'
  <2>1. Active = {tip} \cup Active' /\ tip \in haveData
    BY <1>1, <1>2, Ancestry DEF Active, DisconnectTip
  <2>2. UNCHANGED <<linked, haveData, unsaved>> /\ Failed' = Failed
    BY <1>1 DEF Failed, tree
  <2>3. QED
    BY <2>1, <2>2 DEF TreeInv, ActiveChainValid, SavedInv
<1>7. QED
  BY <1>4, <1>5, <1>6 DEF TreeInv

\* A block joins the active chain, or is found to be invalid.  The blocks worse
\* than the new tip go from the candidates, and mostWork is not one of them.
LEMMA ConnectTipInv ==
  ASSUME TreeInv, NEW p \in Threads, ConnectTip(p)
  PROVE  TreeInv'
<1>1. pc[p] = "switch" /\ holder = p
  BY DEF ConnectTip, TreeInv, SwitchInv
<1>2. \A q \in Threads \ {p} : pc[q] \notin {"find", "switch"}
  BY <1>1, Alone
<1>3. UNCHANGED <<index, failedChild, unsaved, processed, haveData, linked,
                  order, unlinked, mostWork, oldTip, bounds>>
  BY DEF ConnectTip
<1>4. /\ mostWork[p] \in Block /\ mostWork[p] \in candidates /\ mostWork[p] \in linked
      /\ (Ancestors[mostWork[p]] \ Active) \cap Failed = {}
  BY <1>1 DEF TreeInv, SwitchInv, TypeOK, LinkedInv, Path
<1>5. PICK b \in NextToConnect(p) \cap haveData :
        \/ /\ b \in BadConnect
           /\ failedValid' = failedValid \cup {b}
           /\ candidates' = candidates \ {b}
           /\ holder' = NoThread
           /\ pc' = [pc EXCEPT ![p] = "check"]
           /\ tip' = tip
        \/ /\ b \in Corrupt \ BadConnect
           /\ holder' = NoThread
           /\ pc' = [pc EXCEPT ![p] = "check"]
           /\ UNCHANGED <<failedValid, candidates, tip>>
        \/ /\ b \notin BadConnect \cup Corrupt
           /\ tip' = b
           /\ candidates' = PruneCandidates(candidates, b)
           /\ IF b = mostWork[p] \/ ChainWork[b] > ChainWork[oldTip[p]]
              THEN holder' = NoThread /\ pc' = [pc EXCEPT ![p] = "check"]
              ELSE UNCHANGED <<holder, pc>>
           /\ failedValid' = failedValid
  BY DEF ConnectTip
<1>6. /\ b \in Ancestors[mostWork[p]] /\ b \in Block /\ b # Genesis /\ Parent[b] = tip
      /\ b \in linked /\ b \notin BadBlock /\ b \in index
      /\ Ancestors[b] = {b} \cup Active /\ b \notin Active
  <2>1. b \in Ancestors[mostWork[p]] /\ b # Genesis /\ Parent[b] = tip
    BY <1>5 DEF NextToConnect
  <2>2. b \in Block /\ Ancestors[b] = {b} \cup Active /\ b \notin Active
    BY <1>4, <2>1, Ancestry DEF Active
  <2>3. b \in linked
    BY <1>4, <2>1 DEF TreeInv, LinkedInv
  <2>4. QED
    BY <2>1, <2>2, <2>3 DEF TreeInv, TypeOK, LinkedInv
<1>7. CASE /\ b \in BadConnect
           /\ failedValid' = failedValid \cup {b}
           /\ candidates' = candidates \ {b}
           /\ holder' = NoThread
           /\ pc' = [pc EXCEPT ![p] = "check"]
           /\ tip' = tip
  <2>1. TypeOK'
    BY <1>3, <1>6, <1>7 DEF TreeInv, TypeOK, order, bounds
  <2>2. LinkedInv'
    BY <1>3, <1>7 DEF TreeInv, LinkedInv, Waiting
  <2>3. Active' = Active /\ Active \cap Failed' = Active \cap Failed
    BY <1>3, <1>6, <1>7 DEF Active, Failed
  <2>4. ActiveChainValid' /\ SavedInv'
    BY <1>3, <1>7, <2>3 DEF TreeInv, ActiveChainValid, SavedInv
  <2>5. SwitchInv'
    BY <1>2, <1>7 DEF TreeInv, TypeOK, SwitchInv
  <2>6. QED
    BY <2>1, <2>2, <2>4, <2>5 DEF TreeInv
<1>8. CASE /\ holder' = NoThread
           /\ pc' = [pc EXCEPT ![p] = "check"]
           /\ UNCHANGED <<failedValid, candidates, tip>>
  <2>1. TypeOK'
    BY <1>3, <1>8 DEF TreeInv, TypeOK, order, bounds
  <2>2. LinkedInv' /\ ActiveChainValid' /\ SavedInv'
    BY <1>3, <1>8 DEF TreeInv, LinkedInv, Waiting, ActiveChainValid, SavedInv, Active, Failed
  <2>3. SwitchInv'
    BY <1>2, <1>8 DEF TreeInv, TypeOK, SwitchInv
  <2>4. QED
    BY <2>1, <2>2, <2>3 DEF TreeInv
<1>9. CASE /\ b \notin BadConnect \cup Corrupt
           /\ tip' = b
           /\ candidates' = PruneCandidates(candidates, b)
           /\ IF b = mostWork[p] \/ ChainWork[b] > ChainWork[oldTip[p]]
              THEN holder' = NoThread /\ pc' = [pc EXCEPT ![p] = "check"]
              ELSE UNCHANGED <<holder, pc>>
           /\ failedValid' = failedValid
  <2>1. candidates' \subseteq candidates
    BY <1>9 DEF PruneCandidates
  <2>2. mostWork[p] \in candidates'
    <3>1. ~Worse(mostWork[p], b)
      BY <1>4, <1>6, AncestorWorse, WorseOrder DEF Worse, TreeInv, TypeOK
    <3>2. QED
      BY <1>4, <1>9, <3>1 DEF PruneCandidates
  <2>3. \/ holder' = NoThread /\ pc' = [pc EXCEPT ![p] = "check"]
        \/ UNCHANGED <<holder, pc>>
    BY <1>9
  <2>4. TypeOK'
    BY <1>3, <1>6, <1>9, <2>1, <2>3 DEF TreeInv, TypeOK, order, bounds
  <2>5. LinkedInv'
    BY <1>3, <2>1 DEF TreeInv, LinkedInv, Waiting
  <2>6. b \notin Failed
    BY <1>4, <1>6
  <2>7. ActiveChainValid' /\ SavedInv'
    <3>1. Active' = {b} \cup Active /\ Failed' = Failed /\ b \notin unsaved
      BY <1>3, <1>6, <1>9, <2>6 DEF Active, Failed, TreeInv, TypeOK
    <3>2. QED
      BY <1>3, <1>6, <1>9, <2>6, <3>1 DEF TreeInv, ActiveChainValid, SavedInv
  <2>8. SwitchInv'
    <3>1. Active' = {b} \cup Active /\ Failed' = Failed
      BY <1>3, <1>6, <1>9 DEF Active, Failed
    <3>2. (Ancestors[mostWork[p]] \ Active') \cap Failed' = {}
      BY <1>4, <3>1
    <3>3. QED
      BY <1>1, <1>2, <1>3, <1>4, <1>9, <2>2, <2>3, <3>2 DEF TreeInv, TypeOK, SwitchInv, Path
  <2>9. QED
    BY <2>4, <2>5, <2>7, <2>8 DEF TreeInv
<1>10. QED
  BY <1>5, <1>7, <1>8, <1>9

\* The node gives up, or a thread comes to the end of activatebestchain's loop.
LEMMA EndOfStepInv ==
  ASSUME TreeInv, NEW p \in Threads, AbortNode(p) \/ CheckDone(p)
  PROVE  TreeInv'
<1>1. UNCHANGED <<tree, order, candidates, unlinked, tip, bounds>>
  BY DEF AbortNode, CheckDone
<1>2. CASE AbortNode(p)
  <2>1. /\ pc[p] = "switch" /\ holder = p
        /\ holder' = NoThread /\ pc' = [pc EXCEPT ![p] = "aborted"]
        /\ UNCHANGED <<mostWork, oldTip>>
    BY <1>2 DEF AbortNode, TreeInv, SwitchInv
  <2>2. \A q \in Threads \ {p} : pc[q] \notin {"find", "switch"}
    BY <2>1, Alone
  <2>3. TypeOK'
    BY <1>1, <2>1 DEF TreeInv, TypeOK, tree, order, bounds
  <2>4. SwitchInv'
    BY <2>1, <2>2 DEF TreeInv, TypeOK, SwitchInv
  <2>5. LinkedInv' /\ ActiveChainValid' /\ SavedInv'
    BY <1>1 DEF TreeInv, LinkedInv, ActiveChainValid, SavedInv, Active, Failed, Waiting, tree
  <2>6. QED
    BY <2>3, <2>4, <2>5 DEF TreeInv
<1>3. CASE CheckDone(p)
  <2>1. /\ pc[p] = "check" /\ holder' = holder
        /\ \/ Leave(p)
           \/ pc' = [pc EXCEPT ![p] = "activate"] /\ UNCHANGED <<mostWork, oldTip>>
    BY <1>3 DEF CheckDone
  <2>2. Genesis \in Block
    BY HeaderTreeAssumption
  <2>3. TypeOK'
    BY <1>1, <2>1, <2>2 DEF TreeInv, TypeOK, tree, order, bounds, Leave
  <2>4. SwitchInv'
    BY <1>1, <2>1 DEF TreeInv, TypeOK, SwitchInv, Path, Active, Leave, tree, Failed
  <2>5. LinkedInv' /\ ActiveChainValid' /\ SavedInv'
    BY <1>1 DEF TreeInv, LinkedInv, ActiveChainValid, SavedInv, Active, Failed, Waiting, tree
  <2>6. QED
    BY <2>3, <2>4, <2>5 DEF TreeInv
<1>4. QED
  BY <1>2, <1>3
-----------------------------------------------------------------------------
(* The block RPCs, pruning and restarts *)

\* What both outcomes of invalidateblock leave alone.
LEMMA InvalidateFrame ==
  ASSUME TreeInv, NEW p \in Threads, NEW b \in Block, InvalidateBlock(p, b),
         NEW marked \in SUBSET Active,
         failedChild' = failedChild \cup marked,
         unsaved' = unsaved \ (marked \cup {b}),
         tip' \in Active,
         candidates' \subseteq candidates \cup linked,
         \E where \in {"activate", "aborted"} : pc' = [pc EXCEPT ![p] = where]
  PROVE  TypeOK' /\ LinkedInv' /\ SwitchInv' /\ SavedInv'
<1>1. /\ pc[p] = "idle" /\ holder = NoThread /\ invalidates < MaxInvalidate
      /\ b \in index \ {Genesis}
      /\ failedValid' = failedValid \cup {b}
      /\ invalidates' = invalidates + 1
      /\ UNCHANGED <<index, processed, haveData, linked, order, unlinked, holder,
                     mostWork, oldTip, reconsiders, restarts, pruned>>
  BY DEF InvalidateBlock
<1>2. Active \subseteq linked /\ Active \subseteq Block /\ tip \in Block
  BY Ancestry DEF TreeInv, TypeOK, ActiveChainValid, Active
<1>3. \A q \in Threads : pc[q] \notin {"find", "switch"}
  BY <1>1, BlockTreeAssumption DEF TreeInv, SwitchInv
<1>4. TypeOK'
  <2>1. tip' \in index /\ marked \subseteq index
    BY <1>2 DEF TreeInv, TypeOK
  <2>2. invalidates' \in 0 .. MaxInvalidate
    BY <1>1, BlockTreeAssumption DEF TreeInv, TypeOK
  <2>3. pc' \in [Threads -> {"idle", "activate", "find", "switch", "check", "aborted"}]
    BY DEF TreeInv, TypeOK
  <2>4. QED
    BY <1>1, <2>1, <2>2, <2>3 DEF TreeInv, TypeOK, LinkedInv, order
<1>5. LinkedInv'
  BY <1>1 DEF TreeInv, LinkedInv, Waiting
<1>6. SwitchInv'
  BY <1>1, <1>3 DEF SwitchInv, TreeInv, TypeOK
<1>7. SavedInv'
  <2>1. Active' \subseteq Active
    BY <1>2, Ancestry DEF Active
  <2>2. QED
    BY <2>1 DEF TreeInv, SavedInv
<1>8. QED
  BY <1>4, <1>5, <1>6, <1>7

\* invalidateblock disconnects every active block that it marks, or stops at a
\* pruned block that it has marked.
LEMMA InvalidateBlockInv ==
  ASSUME TreeInv, NEW p \in Threads, NEW b \in Block, InvalidateBlock(p, b)
  PROVE  TreeInv'
<1> DEFINE walk == {x \in Active : b \in Ancestors[x]}
<1>1. /\ b \in index \ {Genesis}
      /\ failedValid' = failedValid \cup {b}
      /\ InvalidateDone(p, b, walk) \/ InvalidateAborted(p, b, walk)
      /\ UNCHANGED <<linked, haveData>>
  BY DEF InvalidateBlock
<1>2. Active \subseteq linked /\ Active \subseteq Block /\ tip \in Block /\ tip \in Active
  BY Ancestry DEF TreeInv, TypeOK, ActiveChainValid, Active
<1>3. walk \subseteq Active
  OBVIOUS
<1>4. ASSUME InvalidateDone(p, b, walk) PROVE TreeInv'
  <2>1. /\ walk \subseteq haveData
        /\ failedChild' = failedChild \cup walk
        /\ unsaved' = unsaved \ (walk \cup {b})
        /\ tip' = IF b \in Active THEN Parent[b] ELSE tip
        /\ candidates' \subseteq candidates \cup linked
        /\ pc' = [pc EXCEPT ![p] = "activate"]
    BY <1>4 DEF InvalidateDone
  <2>2. /\ tip' \in Active /\ Active' \subseteq Active
        /\ Active' \cap (walk \cup {b}) = {} /\ Active \ walk \subseteq Active'
    <3>1. CASE b \in Active
      <4>1. tip' = Parent[b]
        BY <2>1, <3>1
      <4>2. /\ Ancestors[Parent[b]] \subseteq Ancestors[b] /\ Ancestors[b] \subseteq Active
            /\ b \notin Ancestors[Parent[b]] /\ Parent[b] \in Block
            /\ Ancestors[b] = {b} \cup Ancestors[Parent[b]]
            /\ Parent[b] \in Ancestors[Parent[b]]
        BY <1>1, <1>2, <3>1, Ancestry DEF Active
      <4>3. \A x \in Ancestors[Parent[b]] : b \notin Ancestors[x]
        BY <4>2, Ancestry
      <4>4. Active' = Ancestors[Parent[b]]
        BY <4>1 DEF Active
      <4>5. \A x \in Active : b \notin Ancestors[x] => x \in Ancestors[Parent[b]]
        BY <1>2, <3>1, <4>2, Comparable, Ancestry DEF Active
      <4>6. QED
        BY <4>1, <4>2, <4>3, <4>4, <4>5
    <3>2. CASE b \notin Active
      <4>1. tip' = tip /\ Active' = Active
        BY <2>1, <3>2 DEF Active
      <4>2. walk = {}
        BY <1>2, <3>2, Ancestry DEF Active
      <4>3. QED
        BY <1>2, <3>2, <4>1, <4>2
    <3>3. QED
      BY <3>1, <3>2
  <2> HIDE DEF walk
  <2>3. TypeOK' /\ LinkedInv' /\ SwitchInv' /\ SavedInv'
    BY <1>3, <2>1, <2>2, InvalidateFrame
  <2>4. ActiveChainValid'
    <3>1. Failed' = Failed \cup walk \cup {b}
      BY <1>1, <2>1 DEF Failed
    <3>2. ASSUME NEW x \in Active' \cap Failed'
          PROVE  \E y \in (Active' \cap Failed') \ haveData' : x \in Ancestors[y]
      <4>1. x \in Active \cap Failed
        BY <2>2, <3>1
      <4>2. PICK y \in (Active \cap Failed) \ haveData : x \in Ancestors[y]
        BY <4>1 DEF TreeInv, ActiveChainValid
      <4>3. y \in Active' /\ y \in Failed' /\ y \notin haveData'
        BY <1>1, <2>1, <2>2, <3>1, <4>2
      <4>4. QED
        BY <4>2, <4>3
    <3>3. Active' \cap (BadBlock \cup BadConnect \cup Corrupt) = {} /\ Active' \subseteq linked'
      BY <1>1, <2>2 DEF TreeInv, ActiveChainValid
    <3>4. QED
      BY <3>2, <3>3 DEF ActiveChainValid
  <2>5. QED
    BY <2>3, <2>4 DEF TreeInv
<1>5. ASSUME InvalidateAborted(p, b, walk) PROVE TreeInv'
  <2> DEFINE stop == Highest(walk \ haveData)
             marked == {x \in walk : Height[x] >= Height[stop]}
  <2>1. /\ ~(walk \subseteq haveData)
        /\ failedChild' = failedChild \cup marked
        /\ unsaved' = unsaved \ (marked \cup {b})
        /\ tip' = stop
        /\ candidates' \subseteq candidates \cup linked
        /\ pc' = [pc EXCEPT ![p] = "aborted"]
    BY <1>5 DEF InvalidateAborted
  <2>2. stop \in walk \ haveData
    <3>1. IsFiniteSet(walk \ haveData)
      BY <1>2, AncestorsFinite, FS_Subset DEF Active
    <3>2. walk \ haveData \in SUBSET Block /\ walk \ haveData # {}
      BY <1>2, <2>1
    <3> HIDE DEF walk
    <3>3. QED
      BY <3>1, <3>2, HighestIn
  <2>3. stop \in marked /\ marked \subseteq Active
    <3>1. Height[stop] \in Nat
      BY <1>2, <2>2, HeightDef
    <3>2. QED
      BY <2>2, <3>1
  <2>4. stop \in Active /\ stop \notin haveData
    BY <2>2
  <2> HIDE DEF stop, marked, walk
  <2>5. TypeOK' /\ LinkedInv' /\ SwitchInv' /\ SavedInv'
    BY <2>1, <2>3, <2>4, InvalidateFrame
  <2>6. Active' \subseteq Active /\ Active' = Ancestors[stop] /\ stop \in Active'
    BY <1>2, <2>1, <2>4, Ancestry DEF Active
  <2>7. stop \in Failed'
    BY <2>1, <2>3 DEF Failed
  <2>8. ActiveChainValid'
    BY <1>1, <2>4, <2>6, <2>7 DEF TreeInv, ActiveChainValid
  <2>9. QED
    BY <2>5, <2>8 DEF TreeInv
<1>6. QED
  BY <1>1, <1>4, <1>5

\* reconsiderblock only clears flags, and nobody is on the way to a block.
LEMMA ReconsiderBlockInv ==
  ASSUME TreeInv, NEW p \in Threads, NEW b \in Block, ReconsiderBlock(p, b)
  PROVE  TreeInv'
<1> DEFINE clear == (Descendants(b) \cap Failed) \cup Ancestors[b]
<1>1. /\ pc[p] = "idle" /\ holder = NoThread /\ reconsiders < MaxReconsider
      /\ failedValid' = failedValid \ clear
      /\ failedChild' = failedChild \ clear
      /\ unsaved' = unsaved \ clear
      /\ candidates' \subseteq candidates \cup linked
      /\ pc' = [pc EXCEPT ![p] = "activate"]
      /\ reconsiders' = reconsiders + 1
      /\ UNCHANGED <<index, processed, haveData, linked, order, unlinked, tip,
                     holder, mostWork, oldTip, invalidates, restarts, pruned>>
  BY DEF ReconsiderBlock
<1> HIDE DEF clear
<1>2. \A q \in Threads : pc[q] \notin {"find", "switch"}
  BY <1>1, BlockTreeAssumption DEF TreeInv, SwitchInv
<1>3. TypeOK'
  <2>1. reconsiders' \in 0 .. MaxReconsider
    BY <1>1, BlockTreeAssumption DEF TreeInv, TypeOK
  <2>2. QED
    BY <1>1, <2>1 DEF TreeInv, TypeOK, LinkedInv, order
<1>4. LinkedInv'
  BY <1>1 DEF TreeInv, LinkedInv, Waiting
<1>5. ActiveChainValid' /\ SavedInv'
  <2>1. Failed' = Failed \ clear /\ Active' = Active /\ linked' = linked /\ haveData' = haveData
    BY <1>1 DEF Failed, Active
  <2>2. Active \subseteq Block /\ tip \in Block
    BY Ancestry DEF TreeInv, TypeOK, Active
  <2>3. ASSUME NEW x \in Active \cap Failed', NEW y \in (Active \cap Failed) \ haveData,
               x \in Ancestors[y]
        PROVE  y \notin clear
    <3>1. x \in Failed /\ x \notin clear
      BY <2>1
    <3>2. y \in Block /\ x \in Block
      BY <2>2
    <3>3. CASE y \in Ancestors[b]
      BY <2>3, <3>1, <3>3, Ancestry DEF clear
    <3>4. CASE y \in Descendants(b)
      <4>1. b \in Ancestors[y]
        BY <3>4 DEF Descendants
      <4>2. x \in Ancestors[b] \/ b \in Ancestors[x]
        BY <2>3, <3>2, <4>1, Comparable
      <4>3. x \in index
        BY <3>1 DEF Failed, TreeInv, TypeOK
      <4>4. QED
        BY <3>1, <4>2, <4>3 DEF clear, Descendants
    <3>5. QED
      BY <3>3, <3>4 DEF clear
  <2>4. SavedInv'
    BY <1>1, <2>1 DEF TreeInv, SavedInv
  <2>5. ASSUME NEW x \in Active' \cap Failed'
        PROVE  \E y \in (Active' \cap Failed') \ haveData' : x \in Ancestors[y]
    <3>1. PICK y \in (Active \cap Failed) \ haveData : x \in Ancestors[y]
      BY <2>1 DEF TreeInv, ActiveChainValid
    <3>2. QED
      BY <2>1, <2>3, <3>1
  <2>6. QED
    BY <2>1, <2>4, <2>5 DEF TreeInv, ActiveChainValid
<1>6. SwitchInv'
  BY <1>1, <1>2 DEF SwitchInv, TreeInv, TypeOK
<1>7. QED
  BY <1>3, <1>4, <1>5, <1>6 DEF TreeInv

\* A block file goes; nchaintx stays.
LEMMA PruneOneBlockFileInv ==
  ASSUME TreeInv, NEW f \in 0 .. lastFile, PruneOneBlockFile(f)
  PROVE  TreeInv'
<1>1. /\ pruned < MaxPrune /\ pruned' = pruned + 1
      /\ haveData' \subseteq haveData
      /\ unlinked' \in [Block -> Nat] /\ fileOf' \in [Block -> Nat]
      /\ Waiting' \subseteq Waiting
      /\ unsaved' \subseteq unsaved
      /\ UNCHANGED <<index, failedValid, failedChild, processed, linked, seq,
                     nextSeq, lastFile, candidates, tip, locals, invalidates,
                     reconsiders, restarts>>
  BY DEF PruneOneBlockFile, TreeInv, TypeOK, Waiting
<1>2. TypeOK'
  <2>1. pruned' \in 0 .. MaxPrune
    BY <1>1, BlockTreeAssumption DEF TreeInv, TypeOK
  <2>2. QED
    BY <1>1, <2>1 DEF TreeInv, TypeOK, locals
<1>3. LinkedInv'
  BY <1>1 DEF TreeInv, LinkedInv
<1>4. ActiveChainValid' /\ SwitchInv' /\ SavedInv'
  BY <1>1 DEF TreeInv, ActiveChainValid, SavedInv, SwitchInv, Path, Active, Failed, locals
<1>5. QED
  BY <1>2, <1>3, <1>4 DEF TreeInv

\* loadblockindexdb links again whatever was linked.
LEMMA RestartLinks ==
  ASSUME TreeInv, NEW p \in Threads, Restart(p)
  PROVE  /\ linked \subseteq linked'
         /\ \A b \in linked' : b \in processed /\ Ancestors[b] \subseteq linked'
<1>1. linked' = {b \in processed : Ancestors[b] \subseteq processed}
  BY DEF Restart
<1>2. linked \subseteq linked'
  BY <1>1 DEF TreeInv, TypeOK, LinkedInv
<1>3. \A b \in linked' : b \in processed /\ Ancestors[b] \subseteq linked'
  BY <1>1, Ancestry DEF TreeInv, TypeOK
<1>4. QED
  BY <1>2, <1>3

\* A restart rebuilds the candidates from linked blocks; every thread starts anew.
LEMMA RestartInv ==
  ASSUME TreeInv, NEW p \in Threads, Restart(p)
  PROVE  TreeInv'
<1>1. /\ holder = NoThread /\ restarts < MaxRestart
      /\ seq' = [b \in Block |-> 0] /\ nextSeq' = 1
      /\ unlinked' = [b \in Block |-> IF b \in processed \ {Genesis} /\ Parent[b] \notin linked'
                                      THEN 1 ELSE 0]
      /\ failedChild' = failedChild \ unsaved /\ unsaved' = {}
      /\ candidates' \subseteq linked'
      /\ pc' = [q \in Threads |-> IF q = p THEN "activate" ELSE "idle"]
      /\ mostWork' = [q \in Threads |-> Genesis] /\ oldTip' = [q \in Threads |-> Genesis]
      /\ restarts' = restarts + 1
      /\ UNCHANGED <<index, failedValid, processed, haveData, fileOf, lastFile,
                     tip, holder, invalidates, reconsiders, pruned>>
  BY DEF Restart
<1>2. linked \subseteq linked' /\ \A b \in linked' : b \in processed /\ Ancestors[b] \subseteq linked'
  BY RestartLinks
<1>3. Genesis \in Block
  BY HeaderTreeAssumption
<1>4. TypeOK'
  <2>1. linked' \subseteq processed' /\ candidates' \subseteq index' /\ unsaved' \subseteq failedChild'
    BY <1>1, <1>2 DEF TreeInv, TypeOK
  <2>2. seq' \in [Block -> Nat] /\ nextSeq' \in Nat /\ unlinked' \in [Block -> Nat]
    BY <1>1
  <2>3. /\ pc' \in [Threads -> {"idle", "activate", "find", "switch", "check", "aborted"}]
        /\ mostWork' \in [Threads -> Block] /\ oldTip' \in [Threads -> Block]
    BY <1>1, <1>3
  <2>4. restarts' \in 0 .. MaxRestart
    BY <1>1, BlockTreeAssumption DEF TreeInv, TypeOK
  <2>5. QED
    BY <1>1, <2>1, <2>2, <2>3, <2>4 DEF TreeInv, TypeOK
<1>5. LinkedInv'
  <2>1. Waiting' \subseteq processed
    BY <1>1 DEF Waiting
  <2>2. QED
    BY <1>1, <1>2, <2>1 DEF TreeInv, LinkedInv
<1>6. ActiveChainValid' /\ SavedInv'
  <2>1. Active' = Active /\ Failed' \subseteq Failed /\ Active \cap Failed' = Active \cap Failed
    BY <1>1 DEF Active, Failed, TreeInv, SavedInv
  <2>2. QED
    BY <1>1, <1>2, <2>1 DEF TreeInv, ActiveChainValid, SavedInv
<1>7. SwitchInv'
  BY <1>1 DEF SwitchInv
<1>8. QED
  BY <1>4, <1>5, <1>6, <1>7 DEF TreeInv

\* Every step keeps the inductive invariant.
LEMMA NextInv == TreeInv /\ [Next]_vars => TreeInv'
<1> SUFFICES ASSUME TreeInv, [Next]_vars PROVE TreeInv'
  OBVIOUS
<1>1. CASE \E b \in Block : AcceptHeader(b)
  BY <1>1, AcceptHeaderInv
<1>2. ASSUME NEW p \in Threads, Activate(p) PROVE TreeInv'
  BY <1>2, FindMostWorkChainInv, DisconnectTipInv, ConnectTipInv, EndOfStepInv DEF Activate
<1>3. ASSUME NEW p \in Threads, Restart(p) PROVE TreeInv'
  BY <1>3, RestartInv
<1>4. ASSUME NEW p \in Threads, NEW b \in Block, NEW requested \in BOOLEAN,
             ProcessNewBlock(p, b, requested)
      PROVE  TreeInv'
  BY <1>4, ProcessNewBlockInv
<1>5. ASSUME NEW p \in Threads, NEW b \in Block, InvalidateBlock(p, b) \/ ReconsiderBlock(p, b)
      PROVE  TreeInv'
  BY <1>5, InvalidateBlockInv, ReconsiderBlockInv
<1>6. CASE \E f \in 0 .. lastFile : PruneOneBlockFile(f)
  BY <1>6, PruneOneBlockFileInv
<1>7. CASE UNCHANGED vars
  BY <1>7 DEF vars, tree, order, locals, bounds, TreeInv, TypeOK, LinkedInv,
              ActiveChainValid, SavedInv, SwitchInv, Path, Active, Failed, Waiting
<1>8. QED
  BY <1>1, <1>2, <1>3, <1>4, <1>5, <1>6, <1>7 DEF Next

\* The inductive invariant holds in every reachable state.
THEOREM TreeInvariance == Spec => []TreeInv
<1>1. Init => TreeInv
  BY InitInv
<1>2. TreeInv /\ [Next]_vars => TreeInv'
  BY NextInv
<1>3. QED
  BY <1>1, <1>2, PTL DEF Spec

\* The block index is a tree with its flags on known blocks.
THEOREM TypeCorrect == Spec => []TypeOK
<1>1. TreeInv => TypeOK
  BY DEF TreeInv
<1>2. QED
  BY <1>1, TreeInvariance, PTL

\* Whatever threads, RPCs, restarts and prunings do, and in the middle of a
\* reorganisation too, chainactive holds linked blocks that no check rejects, and
\* one that an operator rejected only below a pruned block at which invalidateblock
\* had to stop.
THEOREM ActiveAlwaysValid == Spec => []ActiveChainValid
<1>1. TreeInv => ActiveChainValid
  BY DEF TreeInv
<1>2. QED
  BY <1>1, TreeInvariance, PTL

\* findmostworkchain's assertion on nchaintx never fails, and the target of a
\* switch is a candidate until the switch ends.
THEOREM CandidatesAlwaysLinked == Spec => []CandidatesLinked
<1>1. TreeInv => CandidatesLinked
  BY DEF TreeInv, LinkedInv, SwitchInv, CandidatesLinked
<1>2. QED
  BY <1>1, TreeInvariance, PTL

-----------------------------------------------------------------------------
(* setblockindexcandidates is ordered by nsequenceid *)

\* Without pruning invalidateblock disconnects all it marks, so no active block and
\* no block on the way to mostWork has failed.
LEMMA CleanActive ==
  ASSUME TreeInv, haveData = processed
  PROVE  /\ Active \cap Failed = {}
         /\ \A p \in Threads : pc[p] = "switch" => Ancestors[mostWork[p]] \cap Failed = {}
<1>1. Active \subseteq haveData
  BY DEF TreeInv, TypeOK, ActiveChainValid
<1>2. Active \cap Failed = {}
  BY <1>1 DEF TreeInv, ActiveChainValid
<1>3. QED
  BY <1>2 DEF TreeInv, SwitchInv, Path

\* The same after a step.
LEMMA CleanActiveNext ==
  ASSUME TreeInv', haveData' = processed'
  PROVE  Active' \cap Failed' = {}
<1>1. Active' \subseteq haveData'
  BY DEF TreeInv, TypeOK, ActiveChainValid
<1>2. QED
  BY <1>1 DEF TreeInv, ActiveChainValid

\* Without pruning, findmostworkchain never finds a block without data: it adds
\* nothing to mapblocksunlinked, and drops only blocks above a failed one.
LEMMA DropIsFailed ==
  ASSUME TreeInv, UnprunedInv, candidates # {}, DropCandidate(Best(candidates))
  PROVE  /\ unlinked' = unlinked
         /\ \E bad \in Failed : \E above \in SUBSET linked :
              /\ \A x \in above : bad \in Ancestors[x]
              /\ candidates' = candidates \ (above \cup {bad})
              /\ failedChild' = failedChild \cup above
<1> DEFINE c == Best(candidates)
           bad == Highest(Unusable(c))
           above == {x \in Path(c) : Height[x] > Height[bad]}
<1>1. c \in Block /\ Path(c) \subseteq linked
  BY BestCandidate
<1>2. Unusable(c) \subseteq Failed
  BY <1>1 DEF Unusable, TreeInv, TypeOK, UnprunedInv
<1>3. Unusable(c) \in SUBSET Block /\ Unusable(c) # {}
  BY <1>1 DEF Unusable, TreeInv, TypeOK, DropCandidate
<1>4. IsFiniteSet(Unusable(c))
  <2>1. Unusable(c) \subseteq index
    BY <1>1 DEF Unusable, TreeInv, TypeOK
  <2>2. QED
    BY <2>1, FS_Subset DEF TreeInv, LinkedInv
<1>5. bad \in Unusable(c)
  BY <1>3, <1>4, HighestIn
<1>6. bad \in Failed /\ bad \in Ancestors[c] /\ bad \in Block
  BY <1>2, <1>3, <1>5 DEF Unusable, Path
<1>7. ASSUME NEW x \in above PROVE x \in linked /\ bad \in Ancestors[x]
  <2> HIDE DEF bad
  <2>1. x \in Ancestors[c] /\ x \in Block /\ Height[x] > Height[bad] /\ x \in linked
    BY <1>1, Ancestry DEF Path
  <2>2. ~(x \in Ancestors[bad])
    <3>1. Height[x] \in Nat /\ Height[bad] \in Nat
      BY <1>6, <2>1, HeightDef
    <3>2. QED
      BY <1>6, <2>1, <3>1, Growth
  <2>3. QED
    BY <1>1, <1>6, <2>1, <2>2, Comparable
<1>8. /\ unlinked' = unlinked
      /\ candidates' = candidates \ (above \cup {bad})
      /\ failedChild' = failedChild \cup above
  BY <1>6 DEF DropCandidate
<1>9. above \in SUBSET linked
  BY <1>7
<1> HIDE DEF c, bad, above
<1>10. QED
  BY <1>6, <1>7, <1>8, <1>9

\* A block that was not ignored is new, so it and the blocks that wait for it are
\* no candidates: receivedblocktransactions numbers new candidates only.
LEMMA ReceivedKeys ==
  ASSUME TreeInv, UnprunedInv, NEW b \in Block \ {Genesis}, b \notin haveData,
         ReceivedBlockTransactions(b)
  PROVE  /\ haveData' = processed' /\ Waiting' \cap linked' = {}
         /\ \A c \in linked : seq'[c] = seq[c]
<1>1. b \notin linked /\ b \notin Waiting /\ unlinked[b] = 0
  BY DEF TreeInv, TypeOK, LinkedInv, UnprunedInv, Waiting
<1>2. CASE Parent[b] \in linked
  <2> DEFINE new == NowLinked(b)
  <2>1. PICK last \in LastVisits(Visits(b), new) :
          /\ seq' = [c \in Block |-> IF c \in new THEN nextSeq + last[c] - 1 ELSE seq[c]]
          /\ linked' = linked \cup new
          /\ unlinked' = [c \in Block |-> IF c \in new \ {b} THEN 0 ELSE unlinked[c]]
    BY <1>2 DEF ReceivedBlockTransactions
  <2>2. new \subseteq {b} \cup Waiting
    BY <1>2, NowLinkedFact
  <2> HIDE DEF new
  <2>3. new \cap linked = {}
    BY <1>1, <2>2 DEF UnprunedInv
  <2>4. Waiting' \cap linked' = {}
    BY <1>1, <2>1, <2>3 DEF UnprunedInv, Waiting
  <2>5. \A c \in linked : seq'[c] = seq[c]
    BY <2>1, <2>3 DEF TreeInv, TypeOK
  <2>6. QED
    BY <2>4, <2>5 DEF ReceivedBlockTransactions, UnprunedInv
<1>3. CASE Parent[b] \notin linked
  <2>1. /\ linked' = linked \ {b} /\ seq' = seq
        /\ unlinked' = IF Parent[b] \in Failed THEN unlinked ELSE [unlinked EXCEPT ![b] = @ + 1]
    BY <1>3 DEF ReceivedBlockTransactions
  <2>2. Waiting' \subseteq Waiting \cup {b}
    BY <2>1 DEF Waiting, TreeInv, TypeOK
  <2>3. QED
    BY <2>1, <2>2 DEF ReceivedBlockTransactions, UnprunedInv
<1>4. QED
  BY <1>2, <1>3

\* One step of a node that does not prune.
LEMMA UnprunedStep ==
  ASSUME MaxPrune = 0, TreeInv, UnprunedInv, [Next]_vars
  PROVE  /\ UnprunedInv'
         /\ restarts' = restarts => \A c \in candidates \cap candidates' : seq'[c] = seq[c]
<1>1. CASE \E b \in Block : AcceptHeader(b)
  BY <1>1 DEF AcceptHeader, UnprunedInv, Waiting, order, bounds
<1>2. ASSUME NEW p \in Threads, FindMostWorkChain(p)
      PROVE  UnprunedInv' /\ seq' = seq
  <2>1. unlinked' = unlinked
    BY <1>2, DropIsFailed DEF FindMostWorkChain
  <2>2. QED
    BY <1>2, <2>1 DEF FindMostWorkChain, UnprunedInv, Waiting, order, bounds
<1>3. ASSUME NEW p \in Threads, DisconnectTip(p) \/ ConnectTip(p) \/ AbortNode(p) \/ CheckDone(p)
      PROVE  UnprunedInv' /\ seq' = seq
  <2>1. UNCHANGED <<processed, haveData, linked, unlinked, pruned, seq>>
    BY <1>3 DEF DisconnectTip, ConnectTip, AbortNode, CheckDone, tree, order, bounds
  <2>2. QED
    BY <2>1 DEF UnprunedInv, Waiting
<1>4. ASSUME NEW p \in Threads, Restart(p)
      PROVE  UnprunedInv' /\ restarts' # restarts
  <2>1. /\ UNCHANGED <<processed, haveData, pruned>>
        /\ restarts' = restarts + 1
        /\ unlinked' = [b \in Block |-> IF b \in processed \ {Genesis} /\ Parent[b] \notin linked'
                                        THEN 1 ELSE 0]
    BY <1>4 DEF Restart
  <2>2. \A b \in linked' : b \in Block /\ (b # Genesis => Parent[b] \in linked')
    BY <1>4, RestartLinks, Ancestry DEF TreeInv, TypeOK
  <2>3. Waiting' \cap linked' = {}
    BY <2>1, <2>2 DEF Waiting
  <2>4. QED
    BY <2>1, <2>3 DEF UnprunedInv, TreeInv, TypeOK
<1>5. ASSUME NEW p \in Threads, NEW b \in Block, NEW requested \in BOOLEAN,
             ProcessNewBlock(p, b, requested)
      PROVE  UnprunedInv' /\ \A c \in candidates : seq'[c] = seq[c]
  <2>1. b # Genesis /\ pruned' = pruned
    BY <1>5 DEF ProcessNewBlock, bounds
  <2>2. CASE UNCHANGED <<processed, haveData, linked, order, candidates, unlinked>>
    BY <2>1, <2>2 DEF UnprunedInv, Waiting, order
  <2>3. CASE ~Ignored(b, requested) /\ ReceivedBlockTransactions(b)
    BY <2>1, <2>3, ReceivedKeys DEF Ignored, UnprunedInv, TreeInv, LinkedInv
  <2>4. QED
    BY <1>5, <2>2, <2>3 DEF ProcessNewBlock
<1>6. ASSUME NEW p \in Threads, NEW b \in Block, InvalidateBlock(p, b) \/ ReconsiderBlock(p, b)
      PROVE  UnprunedInv' /\ seq' = seq
  BY <1>6 DEF InvalidateBlock, ReconsiderBlock, UnprunedInv, Waiting, order
<1>7. ~ \E f \in 0 .. lastFile : PruneOneBlockFile(f)
  BY DEF PruneOneBlockFile, UnprunedInv
<1>8. CASE UNCHANGED vars
  BY <1>8 DEF vars, tree, order, bounds, UnprunedInv, Waiting
<1>9. QED
  BY <1>1, <1>2, <1>3, <1>4, <1>5, <1>6, <1>7, <1>8 DEF Next, Activate

\* Of a node that does not prune: no member of setblockindexcandidates has the
\* nsequenceid that it is ordered by changed, so the ordered set stays one.
THEOREM KeysAlwaysStable == ASSUME MaxPrune = 0 PROVE Spec => KeysStable
<1>1. Init => UnprunedInv
  BY DEF Init, UnprunedInv, Waiting
<1>2. TreeInv /\ UnprunedInv /\ [Next]_vars => UnprunedInv'
  BY UnprunedStep
<1>3. TreeInv /\ UnprunedInv /\ [Next]_vars
        => [restarts' = restarts =>
              \A b \in candidates \cap candidates' : seq'[b] = seq[b]]_vars
  BY UnprunedStep
<1>4. QED
  BY <1>1, <1>2, <1>3, TreeInvariance, PTL DEF Spec, KeysStable

-----------------------------------------------------------------------------
(* The best chain is active *)

\* If every other candidate is worse than the tip, so is every eligible block.
LEMMA TopIsBest ==
  TreeInv /\ CoverInv /\ (\A d \in candidates \ {tip} : Worse(d, tip)) => BestActive
<1> SUFFICES ASSUME TreeInv, CoverInv, \A d \in candidates \ {tip} : Worse(d, tip),
                    NEW b \in linked, Eligible(b)
             PROVE  ~Worse(tip, b)
  BY DEF BestActive
<1>1. /\ seq \in [Block -> Nat] /\ tip \in Block /\ b \in Block
      /\ candidates \subseteq Block
  BY DEF TreeInv, TypeOK
<1>2. b = tip \/ Worse(b, tip)
  <2>1. b \in candidates \/ \E c \in candidates : Worse(b, c)
    BY DEF CoverInv
  <2>2. ASSUME NEW c \in candidates, Worse(b, c) PROVE Worse(b, tip)
    <3>1. c = tip \/ Worse(c, tip)
      OBVIOUS
    <3>2. c \in Block
      BY <1>1
    <3>3. QED
      BY <1>1, <2>2, <3>1, <3>2, WorseOrder DEF Worse
  <2>3. QED
    BY <2>1, <2>2
<1>3. QED
  BY <1>1, <1>2, WorseOrder DEF Worse

\* What changes neither nchaintx nor mapblocksunlinked keeps WaitInv.
LEMMA WaitKept ==
  ASSUME WaitInv, UNCHANGED <<processed, linked, unlinked>>, Failed \subseteq Failed'
  PROVE  WaitInv'
BY DEF WaitInv, Waiting

\* What loses only candidates that are not eligible keeps CoverInv.
LEMMA CoverKept ==
  ASSUME CoverInv, UNCHANGED <<linked, seq>>, Failed \subseteq Failed',
         \A c \in candidates : Eligible(c)' => c \in candidates',
         \A c \in candidates : Sound(c) => Sound(c)'
  PROVE  CoverInv'
<1> SUFFICES ASSUME NEW b \in linked, Eligible(b)'
             PROVE  b \in candidates' \/ \E c \in candidates' : Sound(c)' /\ Worse(b, c)'
  BY DEF CoverInv
<1>1. Eligible(b)
  BY DEF Eligible
<1>2. \A c \in candidates : Sound(c)' => c \in candidates'
  BY DEF Sound
<1>3. CASE b \in candidates
  BY <1>3
<1>4. CASE b \notin candidates
  <2>1. PICK c \in candidates : Sound(c) /\ Worse(b, c)
    BY <1>1, <1>4 DEF CoverInv
  <2>2. Sound(c)' /\ c \in candidates'
    BY <1>2, <2>1
  <2>3. Worse(b, c)'
    BY <2>1 DEF Worse
  <2>4. QED
    BY <2>2, <2>3
<1>5. QED
  BY <1>3, <1>4

\* invalidateblock and loadblockindexdb collect every candidate anew.
LEMMA CoverRebuilt ==
  ASSUME TreeInv', haveData' = processed',
         \A x \in linked' : x \notin Failed' /\ ~Worse(x, tip)' => x \in candidates'
  PROVE  CoverInv'
<1>1. /\ seq' \in [Block -> Nat] /\ tip' \in Block /\ linked' \subseteq Block
  BY DEF TreeInv, TypeOK
<1>2. tip' \in Active' /\ Active' = Ancestors[tip']
  BY <1>1, Ancestry DEF Active
<1>3. Sound(tip)' /\ tip' \notin Failed' /\ tip' \in linked'
  BY <1>2, CleanActiveNext DEF TreeInv, ActiveChainValid, Sound, Eligible
<1>4. tip' \in candidates'
  BY <1>1, <1>3, WorseOrder DEF Worse
<1>5. ASSUME NEW b \in linked', Eligible(b)'
      PROVE  b \in candidates' \/ Worse(b, tip)'
  <2>1. b \notin Failed'
    BY <1>1, <1>5, Ancestry DEF Eligible
  <2>2. QED
    BY <2>1
<1>6. QED
  BY <1>3, <1>4, <1>5 DEF CoverInv

\* Of a block that was just connected: it is Sound, and so is the candidate, which
\* pruneblockindexcandidates keeps, that it or a better one is.
LEMMA CoverPruned ==
  ASSUME TreeInv, CoverInv, NEW b \in linked, Sound(b),
         UNCHANGED <<linked, seq>>, Failed' = Failed,
         candidates' = PruneCandidates(candidates, b)
  PROVE  CoverInv'
<1>1. /\ seq \in [Block -> Nat] /\ b \in Block /\ candidates \subseteq Block
      /\ linked \subseteq Block
  BY DEF TreeInv, TypeOK
<1>2. \A x \in candidates : x \in candidates' \/ Worse(x, b)
  BY DEF PruneCandidates
<1>3. \A x \in candidates : Worse(b, x) \/ x = b => x \in candidates'
  BY <1>1, WorseOrder DEF PruneCandidates, Worse
<1>4. PICK k \in candidates' : Sound(k) /\ (k = b \/ Worse(b, k))
  BY <1>3 DEF CoverInv, Sound
<1>5. k \in Block
  BY <1>1, <1>4 DEF PruneCandidates
<1>6. ASSUME NEW x \in Block, Worse(x, b) PROVE Worse(x, k)
  BY <1>1, <1>4, <1>5, <1>6, WorseOrder DEF Worse
<1>7. ASSUME NEW d \in linked, Eligible(d)
      PROVE  d \in candidates' \/ \E c \in candidates' : Sound(c) /\ Worse(d, c)
  <2>0. d \in Block
    BY <1>1
  <2>1. CASE d \in candidates
    BY <1>2, <1>4, <1>6, <2>0, <2>1
  <2>2. CASE d \notin candidates
    <3>1. PICK c \in candidates : Sound(c) /\ Worse(d, c)
      BY <1>7, <2>2 DEF CoverInv
    <3>2. CASE c \in candidates'
      BY <3>1, <3>2
    <3>3. CASE Worse(c, b)
      <4>1. c \in Block /\ Worse(c, k)
        BY <1>1, <1>6, <3>3
      <4>2. Worse(d, k)
        BY <1>1, <1>5, <2>0, <3>1, <4>1, WorseOrder DEF Worse
      <4>3. QED
        BY <1>4, <4>2
    <3>4. QED
      BY <1>2, <3>2, <3>3
  <2>3. QED
    BY <2>1, <2>2
<1>8. \A c : (Sound(c) => Sound(c)') /\ (Eligible(c)' => Eligible(c))
  BY DEF Sound, Eligible
<1>9. \A x, c : Worse(x, c) => Worse(x, c)'
  BY DEF Worse
<1>10. QED
  BY <1>7, <1>8, <1>9 DEF CoverInv

\* What loses candidates only, under the same tip, keeps KeepInv.
LEMMA KeepKept ==
  ASSUME KeepInv, UNCHANGED <<tip, seq>>, candidates' \subseteq candidates,
         \A p \in Threads :
           pc'[p] = "switch" => pc[p] = "switch" /\ mostWork'[p] = mostWork[p]
  PROVE  KeepInv'
BY DEF KeepInv, Worse

\* What links, numbers and unlinks nothing keeps ExactInv if the new flags are
\* on linked blocks above a failed one.
LEMMA ExactKept ==
  ASSUME ExactInv, UNCHANGED <<processed, linked, unlinked, seq>>,
         Failed \subseteq Failed', Failed' \cap processed \subseteq linked,
         \A b \in failedChild' : InvalidParent(b)'
  PROVE  ExactInv'
BY DEF ExactInv, Waiting

\* A header, and a block that contextualcheckblock refuses: at most new flags on
\* blocks that are not processed.
LEMMA RefusedSelect ==
  ASSUME TreeInv, SelectInv, NEW b \in Block, b \notin processed,
         failedValid' = failedValid \/ (failedValid' = failedValid \cup {b} /\ b \in BadBlock),
         UNCHANGED <<failedChild, processed, haveData, linked, seq, candidates, unlinked,
                     tip, pc, mostWork>>
  PROVE  KeepInv' /\ (ChoiceInv => ChoiceInv') /\ (ExactInv => ExactInv')
<1>1. Failed \subseteq Failed' /\ Failed' \subseteq Failed \cup {b}
  BY DEF Failed
<1>2. KeepInv'
  BY KeepKept DEF SelectInv
<1>3. ASSUME ChoiceInv PROVE ChoiceInv'
  <2>1. WaitInv'
    BY <1>1, <1>3, WaitKept DEF ChoiceInv
  <2>2. \A c : Sound(c) => Sound(c)'
    BY DEF Sound, Eligible, Failed
  <2>3. CoverInv'
    BY <1>1, <1>3, <2>2, CoverKept DEF ChoiceInv
  <2>4. PendInv'
    BY <1>1, <1>3 DEF ChoiceInv, PendInv, BestActive, Pending, Eligible, Worse
  <2>5. QED
    BY <2>1, <2>3, <2>4 DEF ChoiceInv
<1>4. ASSUME ExactInv PROVE ExactInv'
  <2>1. Failed' \cap processed \subseteq linked
    BY <1>1, <1>4 DEF ExactInv
  <2>2. \A x \in failedChild' : InvalidParent(x)'
    BY <1>4 DEF ExactInv, InvalidParent
  <2>3. QED
    BY <1>1, <1>4, <2>1, <2>2, ExactKept
<1>5. QED
  BY <1>2, <1>3, <1>4

\* One iteration of findmostworkchain.
LEMMA FindSelect ==
  ASSUME TreeInv, SelectInv, NEW p \in Threads, FindMostWorkChain(p)
  PROVE  KeepInv' /\ (ChoiceInv => ChoiceInv') /\ (ExactInv => ExactInv')
<1>1. /\ holder = NoThread \/ holder = p
      /\ UNCHANGED <<index, failedValid, processed, haveData, linked, order, tip, bounds>>
  BY DEF FindMostWorkChain
<1>2. \A q \in Threads \ {p} : pc[q] \notin {"find", "switch"}
  BY <1>1, Alone
<1>3. seq' = seq /\ UnprunedInv /\ KeepInv
  BY <1>1 DEF order, SelectInv
<1>4. pc \in [Threads -> {"idle", "activate", "find", "switch", "check", "aborted"}]
  BY DEF TreeInv, TypeOK
<1>5. CASE /\ candidates # {}
           /\ DropCandidate(Best(candidates))
           /\ pc' = [pc EXCEPT ![p] = "find"]
           /\ UNCHANGED <<mostWork, oldTip>>
  <2>1. PICK bad \in Failed, above \in SUBSET linked :
               /\ unlinked' = unlinked
               /\ \A x \in above : bad \in Ancestors[x]
               /\ candidates' = candidates \ (above \cup {bad})
               /\ failedChild' = failedChild \cup above
    BY <1>3, <1>5, DropIsFailed
  <2>2. Failed' = Failed \cup above
    BY <1>1, <2>1 DEF Failed
  <2>3. KeepInv'
    BY <1>1, <1>2, <1>3, <1>4, <1>5, <2>1, KeepKept
  <2>4. ASSUME ChoiceInv PROVE ChoiceInv'
    <3>1. WaitInv'
      BY <1>1, <2>1, <2>2, <2>4, WaitKept DEF ChoiceInv
    <3>2. ASSUME NEW c \in candidates, Eligible(c)' PROVE c \in candidates'
      <4>1. c \in Ancestors[c] /\ bad \notin Ancestors[c]
        BY <2>2, <3>2, Ancestry DEF Eligible, TreeInv, TypeOK
      <4>2. QED
        BY <2>1, <4>1
    <3>3. ASSUME NEW c \in candidates, Sound(c) PROVE Sound(c)'
      <4>1. c \in Block /\ \A x \in Ancestors[c] : Ancestors[x] \subseteq Ancestors[c]
        BY Ancestry DEF TreeInv, TypeOK
      <4>2. Ancestors[c] \cap above = {}
        BY <2>1, <3>3, <4>1 DEF Sound, Eligible
      <4>3. QED
        BY <1>1, <2>2, <3>3, <4>2 DEF Sound, Eligible
    <3>4. CoverInv'
      BY <1>1, <1>3, <2>2, <2>4, <3>2, <3>3, CoverKept DEF ChoiceInv
    <3>5. PendInv'
      BY <1>4, <1>5 DEF PendInv, Pending
    <3>6. QED
      BY <3>1, <3>4, <3>5 DEF ChoiceInv
  <2>5. ASSUME ExactInv PROVE ExactInv'
    <3>1. bad \in Block /\ InvalidParent(bad)
      BY <2>5, Ancestry DEF ExactInv, InvalidParent, Failed, TreeInv, TypeOK
    <3>2. \A x \in above : Ancestors[bad] \subseteq Ancestors[x]
      BY <2>1, <3>1, Ancestry DEF TreeInv, TypeOK
    <3>3. \A x \in failedChild' : InvalidParent(x)'
      BY <1>1, <2>1, <2>5, <3>1, <3>2 DEF ExactInv, InvalidParent
    <3>4. Failed' \cap processed \subseteq linked
      BY <2>1, <2>2, <2>5 DEF ExactInv
    <3>5. QED
      BY <1>1, <1>3, <2>1, <2>2, <2>5, <3>3, <3>4, ExactKept
  <2>6. QED
    BY <2>3, <2>4, <2>5
<1>6. CASE UNCHANGED <<candidates, failedChild, unsaved, unlinked>>
  <2>1. UNCHANGED <<Failed, seq, linked, processed, unlinked, candidates, tip>>
    BY <1>1, <1>3, <1>6 DEF Failed
  <2>2. ChoiceInv => WaitInv' /\ CoverInv' /\ (BestActive => BestActive')
    BY <2>1 DEF ChoiceInv, WaitInv, Waiting, CoverInv, Sound, Eligible, Worse, BestActive
  <2>3. ExactInv => ExactInv'
    BY <1>1, <1>6, <2>1 DEF ExactInv, Waiting, InvalidParent
  <2>4. CASE (candidates = {} \/ Best(candidates) = tip) /\ Leave(p)
    <3>1. KeepInv'
      BY <1>2, <1>3, <1>4, <2>1, <2>4, KeepKept DEF Leave
    <3>2. \A d \in candidates \ {tip} : Worse(d, tip)
      BY <2>4, BestCandidate
    <3>3. ChoiceInv => BestActive
      BY <3>2, TopIsBest DEF ChoiceInv
    <3>4. QED
      BY <2>2, <2>3, <3>1, <3>3 DEF ChoiceInv, PendInv
  <2>5. CASE /\ candidates # {}
             /\ pc' = [pc EXCEPT ![p] = "switch"]
             /\ mostWork' = [mostWork EXCEPT ![p] = Best(candidates)]
    <3>1. mostWork'[p] = Best(candidates) /\ \A q \in Threads : pc'[q] = "switch" => q = p
      BY <1>2, <1>4, <2>5 DEF TreeInv, TypeOK
    <3>2. KeepInv'
      BY <1>3, <2>1, <2>5, <3>1, BestCandidate DEF KeepInv, Worse
    <3>3. PendInv'
      BY <1>4, <2>5 DEF PendInv, Pending
    <3>4. QED
      BY <2>2, <2>3, <3>2, <3>3 DEF ChoiceInv
  <2>6. QED
    BY <1>6, <2>4, <2>5, <1>5 DEF FindMostWorkChain
<1>7. QED
  BY <1>5, <1>6 DEF FindMostWorkChain

\* A block is disconnected: the new tip is worse than the old one.
LEMMA DisconnectSelect ==
  ASSUME TreeInv, SelectInv, NEW p \in Threads, DisconnectTip(p)
  PROVE  KeepInv' /\ (ChoiceInv => ChoiceInv') /\ (ExactInv => ExactInv')
<1>1. /\ pc[p] = "switch" /\ tip \notin Ancestors[mostWork[p]] /\ tip' = Parent[tip]
      /\ UNCHANGED <<tree, order, candidates, unlinked, locals, bounds>>
  BY DEF DisconnectTip
<1>2. /\ UNCHANGED <<failedValid, failedChild, processed, linked, seq, candidates,
                     unlinked, pc, mostWork>>
      /\ UNCHANGED Failed
  BY <1>1 DEF tree, order, locals, Failed
<1>3. tip \in Block /\ tip # Genesis /\ candidates \subseteq Block /\ seq \in [Block -> Nat]
  <2>1. mostWork[p] \in Block
    BY DEF TreeInv, TypeOK
  <2>2. QED
    BY <1>1, <2>1, Ancestry DEF TreeInv, TypeOK
<1>4. KeepInv'
  <2>1. tip' \in Block /\ Worse(tip', tip)
    BY <1>1, <1>3, Ancestry, AncestorWorse DEF Worse
  <2>2. \A c \in candidates : ~Worse(c, tip) => ~Worse(c, tip')
    BY <1>3, <2>1, WorseOrder DEF Worse
  <2>3. QED
    BY <1>2, <2>2 DEF SelectInv, KeepInv, Worse
<1>5. ChoiceInv => ChoiceInv'
  <2>1. ChoiceInv => WaitInv' /\ CoverInv'
    BY <1>2 DEF ChoiceInv, WaitInv, Waiting, CoverInv, Sound, Eligible, Worse
  <2>2. PendInv'
    BY <1>1, <1>2 DEF PendInv, Pending
  <2>3. QED
    BY <2>1, <2>2 DEF ChoiceInv
<1>6. ExactInv => ExactInv'
  BY <1>2 DEF ExactInv, Waiting, InvalidParent
<1>7. QED
  BY <1>4, <1>5, <1>6

\* A block is connected or found to be invalid.  The thread is done only if it
\* has arrived at the best candidate; otherwise it will look again.
LEMMA ConnectSelect ==
  ASSUME TreeInv, TreeInv', SelectInv, NEW p \in Threads, ConnectTip(p)
  PROVE  KeepInv' /\ (ChoiceInv => ChoiceInv') /\ (ExactInv => ExactInv')
<1>1. pc[p] = "switch" /\ holder = p
  BY DEF ConnectTip, TreeInv, SwitchInv
<1>2. \A q \in Threads \ {p} : pc[q] \notin {"find", "switch"}
  BY <1>1, Alone
<1>3. UNCHANGED <<failedChild, processed, linked, seq, unlinked, mostWork>>
  BY DEF ConnectTip, order
<1>4. pc \in [Threads -> {"idle", "activate", "find", "switch", "check", "aborted"}]
  BY DEF TreeInv, TypeOK
<1>5. PICK b \in NextToConnect(p) \cap haveData :
        \/ /\ b \in BadConnect
           /\ failedValid' = failedValid \cup {b}
           /\ candidates' = candidates \ {b}
           /\ pc' = [pc EXCEPT ![p] = "check"]
           /\ tip' = tip
        \/ /\ pc' = [pc EXCEPT ![p] = "check"]
           /\ UNCHANGED <<failedValid, candidates, tip>>
        \/ /\ tip' = b
           /\ candidates' = PruneCandidates(candidates, b)
           /\ IF b = mostWork[p] \/ ChainWork[b] > ChainWork[oldTip[p]]
              THEN pc' = [pc EXCEPT ![p] = "check"]
              ELSE pc' = pc
           /\ failedValid' = failedValid
  BY DEF ConnectTip
<1>6. /\ mostWork[p] \in linked /\ b \in Ancestors[mostWork[p]] /\ b \in linked
      /\ b \in Block /\ Parent[b] = tip /\ b # Genesis
  BY <1>1, <1>5, Ancestry DEF NextToConnect, TreeInv, TypeOK, LinkedInv, SwitchInv
<1>7. mostWork[p] # tip
  <2>1. b \notin Ancestors[tip]
    BY <1>6, Ancestry
  <2>2. QED
    BY <1>6, <2>1
<1>8. CASE /\ b \in BadConnect
           /\ failedValid' = failedValid \cup {b}
           /\ candidates' = candidates \ {b}
           /\ pc' = [pc EXCEPT ![p] = "check"]
           /\ tip' = tip
  <2>1. Failed' = Failed \cup {b}
    BY <1>3, <1>8 DEF Failed
  <2>2. KeepInv'
    BY <1>2, <1>3, <1>4, <1>8, KeepKept DEF SelectInv
  <2>3. ASSUME ChoiceInv PROVE ChoiceInv'
    <3>1. WaitInv'
      BY <1>3, <2>1, <2>3, WaitKept DEF ChoiceInv
    <3>2. \A c \in candidates : Eligible(c)' => c \in candidates'
      BY <1>6, <1>8, <2>1, Ancestry DEF Eligible
    <3>3. \A c \in candidates : Sound(c) => Sound(c)'
      BY <1>3, <1>8, <2>1 DEF Sound, Eligible
    <3>4. CoverInv'
      BY <1>3, <2>1, <2>3, <3>2, <3>3, CoverKept DEF ChoiceInv
    <3>5. PendInv'
      BY <1>3, <1>4, <1>7, <1>8 DEF PendInv, Pending
    <3>6. QED
      BY <3>1, <3>4, <3>5 DEF ChoiceInv
  <2>4. ASSUME ExactInv PROVE ExactInv'
    <3>1. \A x \in failedChild' : InvalidParent(x)'
      BY <1>3, <1>8, <2>4 DEF ExactInv, InvalidParent
    <3>2. Failed' \cap processed \subseteq linked
      BY <1>6, <2>1, <2>4 DEF ExactInv
    <3>3. QED
      BY <1>3, <2>1, <2>4, <3>1, <3>2, ExactKept
  <2>5. QED
    BY <2>2, <2>3, <2>4
<1>9. CASE /\ pc' = [pc EXCEPT ![p] = "check"]
           /\ UNCHANGED <<failedValid, candidates, tip>>
  <2>1. UNCHANGED Failed
    BY <1>3, <1>9 DEF Failed
  <2>2. KeepInv'
    BY <1>2, <1>3, <1>4, <1>9, KeepKept DEF SelectInv
  <2>3. ChoiceInv => WaitInv' /\ CoverInv'
    BY <1>3, <1>9, <2>1 DEF ChoiceInv, WaitInv, Waiting, CoverInv, Sound, Eligible, Worse
  <2>4. PendInv'
    BY <1>3, <1>4, <1>7, <1>9 DEF PendInv, Pending
  <2>5. ExactInv => ExactInv'
    BY <1>3, <1>9, <2>1 DEF ExactInv, Waiting, InvalidParent
  <2>6. QED
    BY <2>2, <2>3, <2>4, <2>5 DEF ChoiceInv
<1>10. CASE /\ tip' = b
            /\ candidates' = PruneCandidates(candidates, b)
            /\ IF b = mostWork[p] \/ ChainWork[b] > ChainWork[oldTip[p]]
               THEN pc' = [pc EXCEPT ![p] = "check"]
               ELSE pc' = pc
            /\ failedValid' = failedValid
  <2>1. UNCHANGED Failed
    BY <1>3, <1>10 DEF Failed
  <2>2. pc' = pc \/ pc' = [pc EXCEPT ![p] = "check"]
    BY <1>10
  <2>3. candidates' \subseteq candidates /\ \A c \in candidates' : ~Worse(c, b)
    BY <1>10 DEF PruneCandidates
  <2>4. KeepInv'
    <3>1. \A q \in Threads : pc'[q] = "switch" => pc[q] = "switch"
      BY <1>4, <2>2
    <3>2. \A q \in Threads : pc'[q] = "switch" =>
             \A d \in candidates' \ {mostWork'[q]} : Worse(d, mostWork'[q])
      BY <1>3, <2>3, <3>1 DEF SelectInv, KeepInv
    <3>3. QED
      BY <1>3, <1>10, <2>3, <3>2 DEF KeepInv, Worse
  <2>5. Sound(b)
    <3>1. haveData' = processed' /\ Active' = Ancestors[b] /\ linked' = linked
      BY <1>3, <1>10 DEF ConnectTip, SelectInv, UnprunedInv, Active
    <3>2. Active' \cap Failed' = {}
      BY <3>1, CleanActiveNext
    <3>3. QED
      BY <1>6, <2>1, <3>1, <3>2 DEF TreeInv, ActiveChainValid, Sound, Eligible
  <2>6. ASSUME ChoiceInv PROVE ChoiceInv'
    <3>1. WaitInv'
      BY <1>3, <2>1, <2>6, WaitKept DEF ChoiceInv
    <3>2. CoverInv'
      BY <1>3, <1>6, <1>10, <2>1, <2>5, <2>6, CoverPruned DEF ChoiceInv
    <3>3. CASE b # mostWork[p]
      <4>1. PendInv'
        BY <1>1, <1>3, <1>4, <1>10, <2>2, <3>3 DEF PendInv, Pending
      <4>2. QED
        BY <3>1, <3>2, <4>1 DEF ChoiceInv
    <3>4. CASE b = mostWork[p]
      <4>1. (\A d \in candidates \ {tip} : Worse(d, tip))'
        BY <1>1, <1>3, <1>10, <2>3, <3>4 DEF SelectInv, KeepInv, Worse
      <4>2. (TreeInv /\ CoverInv /\ (\A d \in candidates \ {tip} : Worse(d, tip)) => BestActive)'
        BY TopIsBest, PTL
      <4>3. BestActive'
        BY <3>2, <4>1, <4>2
      <4>4. QED
        BY <3>1, <3>2, <4>3 DEF ChoiceInv, PendInv
    <3>5. QED
      BY <3>3, <3>4
  <2>7. ExactInv => ExactInv'
    BY <1>3, <1>10, <2>1 DEF ExactInv, Waiting, InvalidParent
  <2>8. QED
    BY <2>4, <2>6, <2>7
<1>11. QED
  BY <1>5, <1>8, <1>9, <1>10

\* A thread that stops looking has reached its target; the others look on.
LEMMA EndOfStepSelect ==
  ASSUME TreeInv, SelectInv, NEW p \in Threads, AbortNode(p) \/ CheckDone(p)
  PROVE  KeepInv' /\ (ChoiceInv => ChoiceInv') /\ (ExactInv => ExactInv')
<1>1. UNCHANGED <<failedValid, failedChild, processed, linked, seq, candidates, unlinked, tip>>
  BY DEF AbortNode, CheckDone, tree, order
<1>2. UNCHANGED Failed
  BY <1>1 DEF Failed
<1>3. /\ pc \in [Threads -> {"idle", "activate", "find", "switch", "check", "aborted"}]
      /\ mostWork \in [Threads -> Block]
  BY DEF TreeInv, TypeOK
<1>4. \/ pc' = [pc EXCEPT ![p] = "aborted"] /\ mostWork' = mostWork
      \/ pc' = [pc EXCEPT ![p] = "activate"] /\ mostWork' = mostWork
      \/ /\ pc[p] = "check" /\ mostWork[p] = tip
         /\ pc' = [pc EXCEPT ![p] = "idle"] /\ mostWork' = [mostWork EXCEPT ![p] = Genesis]
  BY DEF AbortNode, CheckDone, Leave
<1>5. KeepInv'
  BY <1>1, <1>3, <1>4, KeepKept DEF SelectInv
<1>6. ChoiceInv => WaitInv' /\ CoverInv' /\ (BestActive => BestActive')
  BY <1>1, <1>2 DEF ChoiceInv, WaitInv, Waiting, CoverInv, Sound, Eligible, Worse, BestActive
<1>7. ASSUME NEW q \in Threads, Pending(q) PROVE \E r \in Threads : Pending(r)'
  <2>1. CASE q # p
    BY <1>1, <1>3, <1>4, <1>7, <2>1 DEF Pending
  <2>2. CASE q = p
    BY <1>1, <1>3, <1>4, <1>7, <2>2 DEF Pending
  <2>3. QED
    BY <2>1, <2>2
<1>8. ExactInv => ExactInv'
  BY <1>1, <1>2 DEF ExactInv, Waiting, InvalidParent
<1>9. QED
  BY <1>5, <1>6, <1>7, <1>8 DEF ChoiceInv, PendInv

\* receivedblocktransactions follows mapblocksunlinked to its end.
LEMMA NowLinkedAll ==
  ASSUME NEW b \in Block, NEW x \in Waiting, x # Genesis, Parent[x] \in NowLinked(b)
  PROVE  x \in NowLinked(b)
<1>1. x \in Block /\ Ancestors[x] = {x} \cup Ancestors[Parent[x]]
  BY Ancestry DEF Waiting
<1>2. QED
  BY <1>1 DEF NowLinked

\* A block is stored: it and the blocks that waited for it are linked and
\* numbered, and those that are no worse than the tip become candidates.
LEMMA ReceivedSelect ==
  ASSUME TreeInv, TreeInv', SelectInv, NEW b \in Block \ {Genesis},
         b \notin haveData, b \notin Failed, ReceivedBlockTransactions(b),
         UNCHANGED <<failedValid, failedChild, tip>>,
         \A q \in Threads : pc'[q] # "switch"
  PROVE  /\ KeepInv'
         /\ ChoiceInv => WaitInv' /\ CoverInv'
         /\ ExactInv => ExactInv'
<1>1. UNCHANGED Failed
  BY DEF Failed
<1>2. /\ seq \in [Block -> Nat] /\ seq' \in [Block -> Nat] /\ linked \subseteq Block
      /\ tip \in Block /\ unlinked \in [Block -> Nat] /\ candidates \subseteq linked
      /\ linked' \subseteq Block
  BY DEF TreeInv, TypeOK, LinkedInv
<1>3. b \notin linked /\ b \notin Waiting /\ b \notin processed
  BY DEF TreeInv, TypeOK, LinkedInv, SelectInv, UnprunedInv, Waiting
<1>4. \A c \in linked : seq'[c] = seq[c]
  BY ReceivedKeys DEF SelectInv
<1>5. \A c \in linked, d \in linked : Worse(c, d)' <=> Worse(c, d)
  BY <1>4 DEF Worse, WorseBy
<1>6. /\ processed' = processed \cup {b} /\ linked \subseteq linked'
      /\ candidates \subseteq candidates'
  BY ReceivedFact
<1>7. /\ tip \in linked /\ Sound(tip)
  <2>1. Active \cap Failed = {}
    BY CleanActive DEF SelectInv, UnprunedInv
  <2>2. QED
    BY <1>2, <2>1, Ancestry DEF TreeInv, ActiveChainValid, Active, Sound, Eligible
<1>8. \A c : Sound(c) => Sound(c)'
  BY <1>1, <1>6 DEF Sound, Eligible
<1>9. CASE Parent[b] \in linked
  <2> DEFINE new == NowLinked(b)
  <2>1. PICK last \in LastVisits(Visits(b), new) :
          /\ seq' = [c \in Block |-> IF c \in new THEN nextSeq + last[c] - 1 ELSE seq[c]]
          /\ linked' = linked \cup new
          /\ candidates' = candidates \cup {c \in new : ~WorseBy(seq', c, tip)}
          /\ unlinked' = [c \in Block |-> IF c \in new \ {b} THEN 0 ELSE unlinked[c]]
    BY <1>9 DEF ReceivedBlockTransactions
  <2>2. b \in new /\ new \subseteq {b} \cup Waiting
    BY <1>9, NowLinkedFact
  <2>3. \A x \in Waiting : x # Genesis /\ Parent[x] \in new => x \in new
    BY NowLinkedAll
  <2> HIDE DEF new
  <2>4. Waiting' = Waiting \ new
    BY <1>2, <1>3, <2>1, <2>2 DEF Waiting
  <2>5. KeepInv'
    <3>1. \A c \in candidates' : ~Worse(c, tip)'
      BY <1>2, <1>5, <1>7, <2>1 DEF SelectInv, KeepInv, Worse
    <3>2. QED
      BY <3>1 DEF KeepInv
  <2>6. ASSUME WaitInv PROVE WaitInv'
    <3>1. \A x \in Waiting' : x # Genesis /\ Parent[x] \notin linked'
      BY <2>1, <2>3, <2>4, <2>6 DEF WaitInv
    <3>2. \A x \in processed' \ linked' : x \in Waiting' \/ Parent[x] \in Failed'
      BY <1>1, <1>6, <2>1, <2>2, <2>4, <2>6 DEF WaitInv
    <3>3. QED
      BY <3>1, <3>2 DEF WaitInv
  <2>7. ASSUME CoverInv, NEW d \in linked', Eligible(d)'
        PROVE  d \in candidates' \/ \E c \in candidates' : Sound(c)' /\ Worse(d, c)'
    <3>1. CASE d \in linked
      <4>1. Eligible(d)
        BY <1>1, <2>7, <3>1 DEF Eligible
      <4>2. d \in candidates \/ \E c \in candidates : Sound(c) /\ Worse(d, c)
        BY <2>7, <3>1, <4>1 DEF CoverInv
      <4>3. QED
        BY <1>2, <1>5, <1>6, <1>8, <3>1, <4>2
    <3>2. CASE d \in new /\ Worse(d, tip)'
      <4>1. tip \in candidates \/ \E c \in candidates : Sound(c) /\ Worse(tip, c)
        BY <1>7, <2>7 DEF CoverInv, Sound
      <4>2. ASSUME NEW c \in candidates, Sound(c), Worse(tip, c) PROVE Worse(d, c)'
        <5>1. c \in Block /\ d \in Block /\ Worse(tip, c)'
          BY <1>2, <1>5, <1>7, <4>2, <2>7
        <5>2. QED
          BY <1>2, <3>2, <5>1, WorseOrder DEF Worse
      <4>3. QED
        BY <1>6, <1>7, <1>8, <3>2, <4>1, <4>2
    <3>3. CASE d \in new /\ ~Worse(d, tip)'
      BY <2>1, <3>3 DEF Worse
    <3>4. QED
      BY <2>1, <3>1, <3>2, <3>3
  <2>8. ASSUME ExactInv PROVE ExactInv'
    <3>1. \A x \in failedChild' : InvalidParent(x)'
      BY <2>8 DEF ExactInv, InvalidParent
    <3>2. Failed' \cap processed' \subseteq linked'
      BY <1>1, <1>6, <2>8 DEF ExactInv
    <3>3. \A x \in Failed \ linked : x \notin new
      BY <2>2, <2>8 DEF ExactInv, TreeInv, LinkedInv
    <3>4. \A x \in processed' \ linked' : x \in Waiting' \/ Parent[x] \in Failed' \ linked'
      BY <1>1, <1>6, <2>1, <2>2, <2>4, <2>8, <3>3 DEF ExactInv
    <3>5. \A x \in Block \ linked' : seq'[x] = 0
      BY <2>1, <2>8 DEF ExactInv
    <3>6. QED
      BY <3>1, <3>2, <3>4, <3>5 DEF ExactInv
  <2>9. QED
    BY <2>5, <2>6, <2>7, <2>8 DEF ChoiceInv, CoverInv
<1>10. CASE Parent[b] \notin linked
  <2>1. /\ linked' = linked /\ UNCHANGED <<seq, candidates>>
        /\ unlinked' = IF Parent[b] \in Failed THEN unlinked ELSE [unlinked EXCEPT ![b] = @ + 1]
    BY <1>3, <1>10 DEF ReceivedBlockTransactions
  <2>2. Waiting' = IF Parent[b] \in Failed THEN Waiting ELSE Waiting \cup {b}
    BY <1>2, <1>3, <2>1 DEF Waiting
  <2>3. KeepInv'
    BY <2>1 DEF SelectInv, KeepInv, Worse
  <2>4. WaitInv => WaitInv'
    BY <1>1, <1>6, <1>10, <2>1, <2>2 DEF WaitInv
  <2>5. CoverInv => CoverInv'
    BY <1>1, <2>1 DEF CoverInv, Sound, Eligible, Worse
  <2>6. ASSUME ExactInv PROVE ExactInv'
    <3>1. \A x \in processed' \ linked' : x \in Waiting' \/ Parent[x] \in Failed' \ linked'
      BY <1>1, <1>6, <1>10, <2>1, <2>2, <2>6 DEF ExactInv
    <3>2. Failed' \cap processed' \subseteq linked'
      BY <1>1, <1>6, <2>1, <2>6 DEF ExactInv
    <3>3. QED
      BY <2>1, <2>6, <3>1, <3>2 DEF ExactInv, InvalidParent
  <2>7. QED
    BY <2>3, <2>4, <2>5, <2>6 DEF ChoiceInv
<1>11. QED
  BY <1>9, <1>10

\* A block message; the thread that stored a block goes on to look for the best.
LEMMA ProcessSelect ==
  ASSUME TreeInv, TreeInv', SelectInv, NEW p \in Threads, NEW b \in Block,
         NEW requested \in BOOLEAN, ProcessNewBlock(p, b, requested)
  PROVE  KeepInv' /\ (ChoiceInv => ChoiceInv') /\ (ExactInv => ExactInv')
<1>1. /\ holder = NoThread /\ b # Genesis /\ HeaderOk(b)
      /\ UNCHANGED <<failedChild, unsaved, tip, holder, mostWork, oldTip, bounds>>
  BY DEF ProcessNewBlock
<1>2. /\ \A q \in Threads : pc[q] \notin {"find", "switch"}
      /\ pc \in [Threads -> {"idle", "activate", "find", "switch", "check", "aborted"}]
  BY <1>1, BlockTreeAssumption DEF TreeInv, SwitchInv, TypeOK
<1>3. b \notin Failed
  BY <1>1 DEF HeaderOk, Failed, TreeInv, TypeOK
<1>4. CASE /\ pc' = [pc EXCEPT ![p] = "activate"]
           /\ UNCHANGED <<failedValid, processed, haveData, linked, order, candidates, unlinked>>
  <2>1. UNCHANGED <<Failed, seq>>
    BY <1>1, <1>4 DEF Failed, order
  <2>2. KeepInv'
    BY <1>1, <1>2, <1>4, <2>1, KeepKept DEF SelectInv
  <2>3. ChoiceInv => WaitInv' /\ CoverInv'
    BY <1>4, <2>1 DEF ChoiceInv, WaitInv, Waiting, CoverInv, Sound, Eligible, Worse
  <2>4. PendInv'
    BY <1>2, <1>4 DEF PendInv, Pending
  <2>5. ExactInv => ExactInv'
    BY <1>1, <1>4, <2>1 DEF ExactInv, Waiting, InvalidParent
  <2>6. QED
    BY <2>2, <2>3, <2>4, <2>5 DEF ChoiceInv
<1>5. CASE /\ ~Ignored(b, requested) /\ b \in BadBlock
           /\ failedValid' = failedValid \cup {b}
           /\ UNCHANGED <<processed, haveData, linked, order, candidates, unlinked, pc>>
  <2>1. b \notin processed
    BY <1>5 DEF Ignored, SelectInv, UnprunedInv
  <2>2. QED
    BY <1>1, <1>5, <2>1, RefusedSelect DEF order
<1>6. CASE /\ ~Ignored(b, requested)
           /\ ReceivedBlockTransactions(b)
           /\ pc' = [pc EXCEPT ![p] = "activate"]
           /\ UNCHANGED failedValid
  <2>1. b \notin haveData
    BY <1>6 DEF Ignored
  <2>2. \A q \in Threads : pc'[q] # "switch"
    BY <1>2, <1>6
  <2>3. KeepInv' /\ (ChoiceInv => WaitInv' /\ CoverInv') /\ (ExactInv => ExactInv')
    BY <1>1, <1>3, <1>6, <2>1, <2>2, ReceivedSelect
  <2>4. PendInv'
    BY <1>2, <1>6 DEF PendInv, Pending
  <2>5. QED
    BY <2>3, <2>4 DEF ChoiceInv
<1>7. QED
  BY <1>4, <1>5, <1>6 DEF ProcessNewBlock

\* invalidateblock makes the old tip's ancestor the tip and collects candidates.
LEMMA InvalidateSelect ==
  ASSUME TreeInv, TreeInv', SelectInv, NEW p \in Threads, NEW b \in Block, InvalidateBlock(p, b)
  PROVE  KeepInv' /\ (ChoiceInv => ChoiceInv')
<1> DEFINE walk == {x \in Active : b \in Ancestors[x]}
<1>1. /\ holder = NoThread /\ b \in index \ {Genesis}
      /\ failedValid' = failedValid \cup {b} /\ failedChild' = failedChild \cup walk
      /\ tip' = IF b \in Active THEN Parent[b] ELSE tip
      /\ candidates' = (candidates \ (walk \cup {b})) \cup
           {x \in linked : x \notin failedValid' \cup failedChild' /\ ~Worse(x, tip')}
      /\ pc' = [pc EXCEPT ![p] = "activate"]
      /\ UNCHANGED <<processed, haveData, linked, order, unlinked>>
  <2>1. walk \subseteq haveData
    BY DEF TreeInv, TypeOK, ActiveChainValid, SelectInv, UnprunedInv
  <2>2. InvalidateDone(p, b, walk)
    BY <2>1 DEF InvalidateBlock, InvalidateAborted
  <2>3. QED
    BY <2>2 DEF InvalidateBlock, InvalidateDone
<1> HIDE DEF walk
<1>2. /\ \A q \in Threads : pc[q] \notin {"find", "switch"}
      /\ pc \in [Threads -> {"idle", "activate", "find", "switch", "check", "aborted"}]
  BY <1>1, BlockTreeAssumption DEF TreeInv, SwitchInv, TypeOK
<1>3. /\ seq' = seq /\ seq \in [Block -> Nat] /\ tip \in Block /\ tip' \in Block
      /\ candidates \subseteq Block
  BY <1>1 DEF order, TreeInv, TypeOK
<1>4. Failed \subseteq Failed' /\ Failed' = failedValid' \cup failedChild'
  BY <1>1 DEF Failed
<1>5. tip' = tip \/ Worse(tip', tip)
  <2>1. CASE b \in Active
    <3>1. tip' \in Ancestors[b] /\ b \in Ancestors[tip] /\ tip' = Parent[b]
      BY <1>1, <2>1, Ancestry DEF Active
    <3>2. tip' \in Ancestors[tip]
      BY <1>3, <3>1, Ancestry
    <3>3. QED
      BY <1>3, <3>2, AncestorWorse DEF Worse
  <2>2. CASE b \notin Active
    BY <1>1, <2>2
  <2>3. QED
    BY <2>1, <2>2
<1>6. KeepInv'
  <2>1. \A c \in candidates : ~Worse(c, tip')
    BY <1>3, <1>5, WorseOrder DEF SelectInv, KeepInv, Worse
  <2>2. \A c \in candidates' : ~Worse(c, tip)'
    BY <1>1, <1>3, <2>1 DEF Worse
  <2>3. QED
    BY <1>1, <1>2, <2>2 DEF KeepInv
<1>7. CoverInv'
  <2>1. \A x \in linked' : x \notin Failed' /\ ~Worse(x, tip)' => x \in candidates'
    BY <1>1, <1>3, <1>4 DEF Worse
  <2>2. haveData' = processed'
    BY <1>1 DEF SelectInv, UnprunedInv
  <2>3. QED
    BY <2>1, <2>2, CoverRebuilt
<1>8. ChoiceInv => WaitInv'
  BY <1>1, <1>4, WaitKept DEF ChoiceInv
<1>9. PendInv'
  BY <1>1, <1>2 DEF PendInv, Pending
<1>10. QED
  BY <1>6, <1>7, <1>8, <1>9 DEF ChoiceInv

\* reconsiderblock adds better blocks than the tip only.
LEMMA ReconsiderSelect ==
  ASSUME TreeInv, SelectInv, NEW p \in Threads, NEW b \in Block, ReconsiderBlock(p, b)
  PROVE  KeepInv'
<1>1. /\ holder = NoThread
      /\ candidates' \subseteq candidates \cup {x \in linked : Worse(tip, x)}
      /\ pc' = [pc EXCEPT ![p] = "activate"]
      /\ UNCHANGED <<tip, order>>
  BY DEF ReconsiderBlock
<1>2. /\ \A q \in Threads : pc[q] \notin {"find", "switch"}
      /\ pc \in [Threads -> {"idle", "activate", "find", "switch", "check", "aborted"}]
      /\ seq' = seq /\ seq \in [Block -> Nat] /\ tip \in Block /\ linked \subseteq Block
  BY <1>1, BlockTreeAssumption DEF TreeInv, SwitchInv, TypeOK, order
<1>3. \A c \in candidates' : ~Worse(c, tip)
  BY <1>1, <1>2, WorseOrder DEF SelectInv, KeepInv, Worse
<1>4. QED
  BY <1>1, <1>2, <1>3 DEF KeepInv, Worse

\* A restart forgets the numbers and collects links, waiting blocks and candidates.
LEMMA RestartSelect ==
  ASSUME TreeInv, TreeInv', SelectInv, NEW p \in Threads, Restart(p)
  PROVE  KeepInv' /\ (ChoiceInv => ChoiceInv') /\ (ExactInv => ExactInv')
<1>1. /\ seq' = [b \in Block |-> 0]
      /\ linked' = {b \in processed : Ancestors[b] \subseteq processed}
      /\ unlinked' = [b \in Block |-> IF b \in processed \ {Genesis} /\ Parent[b] \notin linked'
                                      THEN 1 ELSE 0]
      /\ failedChild' = failedChild \ unsaved
      /\ candidates' = {b \in linked' \ (failedValid \cup failedChild') : ~WorseBy(seq', b, tip)}
      /\ pc' = [q \in Threads |-> IF q = p THEN "activate" ELSE "idle"]
      /\ UNCHANGED <<failedValid, processed, tip>>
  BY DEF Restart
<1>2. Failed' = failedValid \cup failedChild' /\ Failed' \subseteq Failed
  BY <1>1 DEF Failed
<1>3. linked \subseteq linked'
  BY RestartLinks
<1>4. KeepInv'
  BY <1>1 DEF KeepInv, Worse
<1>5. ASSUME NEW b \in processed \ linked' PROVE b \in Waiting'
  <2>1. b \in Block /\ b # Genesis
    <3>1. Genesis \in Ancestors[tip] /\ Ancestors[tip] \subseteq linked
      BY Ancestry DEF TreeInv, TypeOK, ActiveChainValid, Active
    <3>2. QED
      BY <1>3, <3>1 DEF TreeInv, TypeOK
  <2>2. Ancestors[b] = {b} \cup Ancestors[Parent[b]]
    BY <2>1, Ancestry
  <2>3. Parent[b] \notin linked'
    BY <1>1, <2>2
  <2>4. QED
    BY <1>1, <2>1, <2>3 DEF Waiting
<1>6. WaitInv'
  <2>1. \A b \in Waiting' : b # Genesis /\ Parent[b] \notin linked'
    BY <1>1 DEF Waiting
  <2>2. QED
    BY <1>1, <1>5, <2>1 DEF WaitInv
<1>7. CoverInv'
  <2>1. \A x \in linked' : x \notin Failed' /\ ~Worse(x, tip)' => x \in candidates'
    BY <1>1, <1>2 DEF Worse
  <2>2. haveData' = processed'
    BY DEF Restart, SelectInv, UnprunedInv
  <2>3. QED
    BY <2>1, <2>2, CoverRebuilt
<1>8. PendInv'
  BY <1>1 DEF PendInv, Pending
<1>9. ASSUME ExactInv PROVE ExactInv'
  <2>1. \A b \in failedChild' : InvalidParent(b)'
    BY <1>1, <1>9 DEF ExactInv, InvalidParent
  <2>2. Failed' \cap processed' \subseteq linked'
    BY <1>1, <1>2, <1>3, <1>9 DEF ExactInv
  <2>3. QED
    BY <1>1, <1>5, <2>1, <2>2 DEF ExactInv
<1>10. QED
  BY <1>4, <1>6, <1>7, <1>8, <1>9 DEF ChoiceInv

\* The invariant of the choice holds initially and is kept by every step.
LEMMA InitSelect == Init => SelectInv
<1> SUFFICES ASSUME Init PROVE SelectInv
  OBVIOUS
<1>1. Genesis \in Block /\ Ancestors[Genesis] = {Genesis} /\ seq \in [Block -> Nat]
  BY HeaderTreeAssumption, Ancestry DEF Init
<1>2. ~Worse(Genesis, Genesis)
  BY <1>1, WorseOrder DEF Worse
<1>3. Waiting = {}
  BY DEF Init, Waiting
<1>4. UnprunedInv /\ KeepInv
  BY <1>2, <1>3 DEF Init, UnprunedInv, KeepInv
<1>5. WaitInv /\ CoverInv /\ PendInv
  BY <1>2, <1>3 DEF Init, WaitInv, CoverInv, PendInv, BestActive
<1>6. ExactInv
  BY DEF Init, ExactInv, Failed
<1>7. QED
  BY <1>4, <1>5, <1>6 DEF SelectInv, ChoiceInv

\* Without pruning, every step keeps what chain selection rests on.
LEMMA SelectStep ==
  ASSUME MaxPrune = 0, TreeInv, SelectInv, [Next]_vars
  PROVE  SelectInv'
<1>1. TreeInv' /\ UnprunedInv'
  BY NextInv, UnprunedStep DEF SelectInv
<1> DEFINE Kept == KeepInv' /\ (ChoiceInv => ChoiceInv') /\ (ExactInv => ExactInv')
<1>3. ASSUME Kept, UNCHANGED <<invalidates, reconsiders>> PROVE SelectInv'
  BY <1>1, <1>3 DEF SelectInv
<1>4. CASE \E b \in Block : AcceptHeader(b)
  <2>1. PICK b \in Block : AcceptHeader(b)
    BY <1>4
  <2>2. b \notin processed
    BY <2>1 DEF AcceptHeader, TreeInv, TypeOK
  <2>3. failedValid' = failedValid
    BY <2>1 DEF AcceptHeader
  <2>4. UNCHANGED <<failedChild, processed, haveData, linked, seq, candidates, unlinked,
                    tip, pc, mostWork>>
    BY <2>1 DEF AcceptHeader, order, locals
  <2>5. Kept
    BY <2>2, <2>3, <2>4, RefusedSelect
  <2>6. QED
    BY <1>3, <2>1, <2>5 DEF AcceptHeader, bounds
<1>5. ASSUME NEW p \in Threads, Activate(p)
      PROVE  Kept /\ UNCHANGED <<invalidates, reconsiders>>
  <2>1. Kept
    BY <1>1, <1>5, FindSelect, DisconnectSelect, ConnectSelect, EndOfStepSelect DEF Activate
  <2>2. UNCHANGED bounds
    BY <1>5 DEF Activate, FindMostWorkChain, DisconnectTip, ConnectTip, AbortNode, CheckDone
  <2>3. QED
    BY <2>1, <2>2 DEF bounds
<1>6. ASSUME NEW p \in Threads, Restart(p)
      PROVE  Kept /\ UNCHANGED <<invalidates, reconsiders>>
  <2>1. Kept
    BY <1>1, <1>6, RestartSelect
  <2>2. QED
    BY <1>6, <2>1 DEF Restart
<1>7. ASSUME NEW p \in Threads, NEW b \in Block, NEW requested \in BOOLEAN,
             ProcessNewBlock(p, b, requested)
      PROVE  Kept /\ UNCHANGED <<invalidates, reconsiders>>
  <2>1. Kept
    BY <1>1, <1>7, ProcessSelect
  <2>2. QED
    BY <1>7, <2>1 DEF ProcessNewBlock, bounds
<1>8. ASSUME NEW p \in Threads, NEW b \in Block, InvalidateBlock(p, b)
      PROVE  SelectInv'
  <2>1. KeepInv' /\ (ChoiceInv => ChoiceInv')
    BY <1>1, <1>8, InvalidateSelect
  <2>2. invalidates' = invalidates + 1 /\ reconsiders' = reconsiders /\ invalidates \in Nat
    BY <1>8 DEF InvalidateBlock, TreeInv, TypeOK
  <2>3. invalidates' # 0
    BY <2>2
  <2>4. QED
    BY <1>1, <2>1, <2>2, <2>3 DEF SelectInv
<1>9. ASSUME NEW p \in Threads, NEW b \in Block, ReconsiderBlock(p, b)
      PROVE  SelectInv'
  <2>1. KeepInv'
    BY <1>9, ReconsiderSelect
  <2>2. reconsiders' = reconsiders + 1 /\ reconsiders \in Nat
    BY <1>9 DEF ReconsiderBlock, TreeInv, TypeOK
  <2>3. reconsiders' # 0
    BY <2>2
  <2>4. QED
    BY <1>1, <2>1, <2>3 DEF SelectInv
<1>10. ~ \E f \in 0 .. lastFile : PruneOneBlockFile(f)
  BY DEF PruneOneBlockFile, SelectInv, UnprunedInv
<1>11. CASE UNCHANGED vars
  BY <1>11 DEF vars, tree, order, locals, bounds, SelectInv, UnprunedInv, KeepInv, ChoiceInv,
               WaitInv, CoverInv, PendInv, ExactInv, Waiting, Sound, Eligible, Worse,
               BestActive, Pending, Failed, InvalidParent
<1> HIDE DEF Kept
<1>12. ASSUME NEW p \in Threads, Activate(p) \/ Restart(p) PROVE SelectInv'
  BY <1>3, <1>5, <1>6, <1>12
<1>13. ASSUME NEW p \in Threads, NEW b \in Block,
              \/ \E requested \in BOOLEAN : ProcessNewBlock(p, b, requested)
              \/ InvalidateBlock(p, b)
              \/ ReconsiderBlock(p, b)
       PROVE  SelectInv'
  BY <1>3, <1>7, <1>8, <1>9, <1>13
<1>14. QED
  BY <1>4, <1>10, <1>11, <1>12, <1>13 DEF Next

\* A block whose ancestors have all been processed and have not failed is linked.
LEMMA UsableLinked ==
  ASSUME TreeInv, WaitInv, NEW b \in index, AllSeen(b), Ancestors[b] \cap Failed = {}
  PROVE  b \in linked
<1> SUFFICES ASSUME b \notin linked PROVE FALSE
  OBVIOUS
<1> DEFINE S == Ancestors[b] \ linked
<1>1. b \in Block /\ b \in S /\ S \in SUBSET Block
  BY Ancestry DEF TreeInv, TypeOK
<1>2. PICK x \in S : x = Genesis \/ Parent[x] \notin S
  BY <1>1, TreeAssumption
<1>3. Genesis \in linked
  BY Ancestry DEF TreeInv, TypeOK, ActiveChainValid, Active
<1>4. x # Genesis /\ x \in Block /\ Parent[x] \in Ancestors[x]
  BY <1>1, <1>2, <1>3, Ancestry
<1>5. Parent[x] \in Ancestors[b] /\ Parent[x] \in linked
  BY <1>1, <1>2, <1>4, Ancestry
<1>6. x \in processed
  BY <1>2 DEF AllSeen
<1>7. QED
  BY <1>2, <1>5, <1>6 DEF WaitInv

\* When every thread is idle, no usable block is better than the tip.
LEMMA ChoiceIsBest == TreeInv /\ ChoiceInv => BestChainActive
<1> SUFFICES ASSUME TreeInv, ChoiceInv, Quiet, NEW b \in index, Usable(b)
             PROVE  ~Worse(tip, b)
  BY DEF BestChainActive
<1>1. BestActive
  BY DEF ChoiceInv, PendInv, Pending, Quiet
<1>2. b \in linked
  BY UsableLinked DEF Usable, ChoiceInv
<1>3. QED
  BY <1>1, <1>2 DEF BestActive, Eligible, Usable

\* The invariants of an unpruned node without RPC calls imply the assertions.
LEMMA ExactIsChecked == TreeInv /\ UnprunedInv /\ KeepInv /\ ChoiceInv /\ ExactInv => CheckBlockIndex
<1> SUFFICES ASSUME TreeInv, UnprunedInv, KeepInv, ChoiceInv, ExactInv
             PROVE  CheckBlockIndex
  OBVIOUS
<1>1. \A b \in index : b \in Block /\ Ancestors[b] \subseteq Block /\ b \in Ancestors[b]
  BY Ancestry DEF TreeInv, TypeOK
<1>2. \A x \in Failed : x \in Block /\ InvalidParent(x)
  BY <1>1 DEF ExactInv, InvalidParent, Failed, TreeInv, TypeOK
<1>3. ASSUME NEW b \in index, NEW x \in Ancestors[b], x \in Failed PROVE InvalidParent(b)
  <2>1. Ancestors[x] \subseteq Ancestors[b]
    BY <1>1, Ancestry
  <2>2. QED
    BY <1>2, <1>3, <2>1 DEF InvalidParent
<1>4. ASSUME NEW b \in index PROVE b \in linked <=> AllSeen(b)
  <2>1. ASSUME AllSeen(b), b \notin linked PROVE FALSE
    <3> DEFINE S == Ancestors[b] \ linked
    <3>1. b \in S /\ S \in SUBSET Block
      BY <1>1, <2>1
    <3>2. PICK x \in S : x = Genesis \/ Parent[x] \notin S
      BY <3>1, TreeAssumption
    <3>3. Genesis \in linked
      BY Ancestry DEF TreeInv, TypeOK, ActiveChainValid, Active
    <3>4. x # Genesis /\ x \in Block /\ Parent[x] \in Ancestors[x]
      BY <3>1, <3>2, <3>3, Ancestry
    <3>5. Parent[x] \in linked
      BY <1>1, <3>1, <3>2, <3>4, Ancestry
    <3>6. x \in processed
      BY <2>1, <3>2 DEF AllSeen
    <3>7. QED
      BY <3>2, <3>5, <3>6 DEF ExactInv, WaitInv, ChoiceInv
  <2>2. b \in linked => AllSeen(b)
    BY DEF TreeInv, TypeOK, LinkedInv, AllSeen
  <2>3. QED
    BY <2>1, <2>2
<1>5. LinksAreExact
  BY <1>4 DEF LinksAreExact, ExactInv
<1>6. UnlinkedExact
  <2> SUFFICES ASSUME NEW b \in index \ {Genesis}
               PROVE  /\ b \in haveData /\ ~AllSeen(b) /\ ~InvalidParent(b) => b \in Waiting
                      /\ b \notin haveData => b \notin Waiting
                      /\ Ancestors[b] \subseteq haveData => b \notin Waiting
                      /\ AllSeen(b) => Ancestors[b] \subseteq haveData
    BY DEF UnlinkedExact
  <2>1. AllSeen(b) <=> Ancestors[b] \subseteq haveData
    BY DEF AllSeen, UnprunedInv
  <2>2. b \notin haveData => b \notin Waiting
    BY DEF UnprunedInv, TreeInv, LinkedInv
  <2>3. AllSeen(b) => b \notin Waiting
    BY <1>4 DEF UnprunedInv
  <2>4. Parent[b] \in Ancestors[b]
    BY <1>1, Ancestry
  <2>5. b \in haveData /\ ~AllSeen(b) /\ ~InvalidParent(b) => b \in Waiting
    BY <1>3, <1>4, <2>4 DEF UnprunedInv, ExactInv
  <2>6. QED
    BY <2>1, <2>2, <2>3, <2>5
<1>7. CandidatesNotWorse
  BY <1>4 DEF CandidatesNotWorse, KeepInv, TreeInv, LinkedInv, TypeOK
<1>8. FlagsConsistent
  BY <1>2 DEF FlagsConsistent, UnprunedInv
<1>9. Quiet => CandidatesComplete
  <2> SUFFICES ASSUME Quiet, NEW b \in index
               PROVE  ~Worse(b, tip) /\ AllSeen(b) /\ ~InvalidParent(b) => b \in candidates
    BY DEF CandidatesComplete
  <2>1. ASSUME ~Worse(b, tip), AllSeen(b), ~InvalidParent(b) PROVE b \in candidates
    <3>1. b \in linked /\ Eligible(b)
      BY <1>3, <1>4, <2>1 DEF Eligible
    <3>2. BestActive
      BY DEF ChoiceInv, PendInv, Pending, Quiet
    <3>3. tip \in Block /\ b \in Block /\ seq \in [Block -> Nat] /\ candidates \subseteq linked
      BY DEF TreeInv, TypeOK, LinkedInv
    <3>4. b = tip
      BY <2>1, <3>1, <3>2, <3>3, WorseOrder DEF BestActive, Worse
    <3>5. \A c \in candidates : Sound(c) => ~Worse(tip, c)
      BY <3>2, <3>3 DEF BestActive, Sound
    <3>6. QED
      BY <3>1, <3>4, <3>5 DEF ChoiceInv, CoverInv
  <2>2. QED
    BY <2>1
<1>10. QED
  BY <1>5, <1>6, <1>7, <1>8, <1>9 DEF CheckBlockIndex

\* The invariant of the choice, for a node that does not prune.
THEOREM SelectInvariance == ASSUME MaxPrune = 0 PROVE Spec => []SelectInv
<1>1. Init => SelectInv
  BY InitSelect
<1>2. TreeInv /\ SelectInv /\ [Next]_vars => SelectInv'
  BY SelectStep
<1>3. QED
  BY <1>1, <1>2, TreeInvariance, PTL DEF Spec

\* activatebestchain's promise for a node that does not prune, until somebody
\* calls reconsiderblock: whenever all calls have returned, no complete chain that
\* is not known to be invalid beats the active one, for any tree of blocks, order
\* of arrival, number of threads, invalidations and restarts.
THEOREM BestUntilReconsider == ASSUME MaxPrune = 0 PROVE Spec => []BestChainUntilReconsider
<1>1. TreeInv /\ SelectInv => BestChainUntilReconsider
  BY ChoiceIsBest DEF SelectInv, BestChainUntilReconsider
<1>2. QED
  BY <1>1, TreeInvariance, SelectInvariance, PTL

\* The same without a condition for a node on which nobody calls it.
THEOREM BestAlwaysActive ==
  ASSUME MaxPrune = 0, MaxReconsider = 0 PROVE Spec => []BestChainActive
<1>1. TreeInv /\ SelectInv => BestChainActive
  <2> SUFFICES ASSUME TreeInv, SelectInv PROVE BestChainActive
    OBVIOUS
  <2>1. reconsiders = 0
    BY DEF TreeInv, TypeOK
  <2>2. QED
    BY <2>1, ChoiceIsBest DEF SelectInv
<1>2. QED
  BY <1>1, TreeInvariance, SelectInvariance, PTL

\* The assertions of checkblockindex that CheckBlockIndex names never fail in a
\* node that does not prune and on which neither RPC is called: those on the flags,
\* on nchaintx and nsequenceid, and that no block worse than the tip or with a
\* missing ancestor is a candidate, in every state; those on mapblocksunlinked
\* whenever cs_main is free; and that every eligible block as good as the tip is a
\* candidate whenever no activatebestchain is under way.
THEOREM CheckBlockIndexHolds ==
  ASSUME MaxPrune = 0, MaxReconsider = 0, MaxInvalidate = 0 PROVE Spec => []CheckBlockIndex
<1>1. TreeInv /\ SelectInv => CheckBlockIndex
  <2> SUFFICES ASSUME TreeInv, SelectInv PROVE CheckBlockIndex
    OBVIOUS
  <2>1. reconsiders = 0 /\ invalidates = 0
    BY DEF TreeInv, TypeOK
  <2>2. QED
    BY <2>1, ExactIsChecked DEF SelectInv
<1>2. QED
  BY <1>1, TreeInvariance, SelectInvariance, PTL
=============================================================================
