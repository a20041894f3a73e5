------------------------- MODULE BlockDownloadProof -------------------------
(***************************************************************************)
(* Proofs about BlockDownload, for every block tree and any peers: the map *)
(* of requests and the lists of the peers agree, the counters count them,  *)
(* and the common block with a peer is complete.                           *)
(***************************************************************************)
EXTENDS BlockDownload, HeaderTreeProof, SequenceTheorems

\* The entries of a list that count for nblocksinflightvalidheaders.
ValidAt(q) == {i \in DOMAIN q : q[i].valid}

\* The list q is what the map own has for peer n.
Lists(q, own, n) ==
  /\ \A i, j \in DOMAIN q : q[i].hash = q[j].hash => i = j
  /\ \A b \in Block : own[b] = n <=> \E i \in DOMAIN q : q[i].hash = b

\* The peers that are counted are connected ones, and finitely many.
PeersCounted ==
  /\ IsFiniteSet(syncing) /\ IsFiniteSet(preferred)
  /\ nSync = Cardinality(syncing) /\ nPreferred = Cardinality(preferred)
  /\ \A n \in syncing \cup preferred : conn[n] \in {"ready", "closing"}

\* nqueuedvalidatedheaders covers the validated requests, also those that were
\* forgotten with their peer.
QueuedCovers == IsFiniteSet(AllValid) /\ nQueued >= Cardinality(AllValid)

\* The inductive invariant.
DownloadInv ==
  /\ TypeOK /\ InFlightExact /\ StallerOwes /\ PeersCounted /\ QueuedCovers
  /\ Complete(tip) /\ CommonIsComplete

-----------------------------------------------------------------------------
\* Appending a request.
LEMMA Appended ==
  ASSUME NEW q \in Seq(Requests), NEW e \in Requests
  PROVE  /\ Append(q, e) \in Seq(Requests) /\ Len(Append(q, e)) = Len(q) + 1
         /\ DOMAIN Append(q, e) = DOMAIN q \cup {Len(q) + 1} /\ Len(q) + 1 \notin DOMAIN q
         /\ Append(q, e)[Len(q) + 1] = e
         /\ \A i \in DOMAIN q : Append(q, e)[i] = q[i]
OBVIOUS

\* A request that is removed: the ones behind it move up.
LEMMA Removed ==
  ASSUME NEW q \in Seq(Requests), NEW p \in DOMAIN q
  PROVE  /\ RemoveAt(q, p) \in Seq(Requests) /\ Len(RemoveAt(q, p)) = Len(q) - 1
         /\ DOMAIN RemoveAt(q, p) = 1 .. Len(q) - 1
         /\ \A i \in 1 .. Len(q) - 1 :
              RemoveAt(q, p)[i] = IF i < p THEN q[i] ELSE q[i + 1]
<1> DEFINE a == SubSeq(q, 1, p - 1)
           c == SubSeq(q, p + 1, Len(q))
<1>1. Len(q) \in Nat /\ p \in 1 .. Len(q) /\ DOMAIN q = 1 .. Len(q)
  OBVIOUS
<1>2. /\ a \in Seq(Requests) /\ Len(a) = p - 1
      /\ \A i \in 1 .. p - 1 : a[i] = q[i]
  BY <1>1
<1>3. /\ c \in Seq(Requests) /\ Len(c) = Len(q) - p
      /\ \A i \in 1 .. Len(q) - p : c[i] = q[p + i]
  BY <1>1
<1>4. RemoveAt(q, p) = a \o c
  BY DEF RemoveAt
<1> HIDE DEF a, c
<1>5. /\ a \o c \in Seq(Requests) /\ Len(a \o c) = Len(q) - 1
      /\ DOMAIN (a \o c) = 1 .. Len(q) - 1
  <2>1. a \o c \in Seq(Requests) /\ Len(a \o c) = Len(a) + Len(c)
    BY <1>2, <1>3, ConcatProperties
  <2>2. Len(a \o c) = Len(q) - 1
    BY <1>1, <1>2, <1>3, <2>1
  <2>3. QED
    BY <2>1, <2>2
<1>6. ASSUME NEW i \in 1 .. Len(q) - 1
      PROVE  (a \o c)[i] = IF i < p THEN q[i] ELSE q[i + 1]
  <2>1. (a \o c)[i] = IF i <= p - 1 THEN a[i] ELSE c[i - (p - 1)]
    BY <1>1, <1>2, <1>3, ConcatProperties
  <2>2. CASE i < p
    BY <1>1, <1>2, <2>1, <2>2
  <2>3. CASE ~(i < p)
    <3>1. i - (p - 1) \in 1 .. Len(q) - p /\ p + (i - (p - 1)) = i + 1 /\ ~(i <= p - 1)
      BY <1>1, <2>3
    <3>2. QED
      BY <1>3, <2>1, <2>3, <3>1
  <2>4. QED
    BY <2>2, <2>3
<1>7. QED
  BY <1>4, <1>5, <1>6

\* The valid entries of a list are finitely many.
LEMMA ValidFinite ==
  ASSUME NEW q \in Seq(Requests)
  PROVE  IsFiniteSet(ValidAt(q)) /\ Cardinality(ValidAt(q)) \in Nat
<1>1. Len(q) \in Nat /\ IsFiniteSet(1 .. Len(q))
  BY FS_Interval
<1>2. ValidAt(q) \in SUBSET (1 .. Len(q))
  BY DEF ValidAt
<1>3. QED
  BY <1>1, <1>2, FS_Subset, FS_CardinalityType

\* What an appended request counts.
LEMMA AppendedCount ==
  ASSUME NEW q \in Seq(Requests), NEW e \in Requests, ~e.valid
  PROVE  ValidAt(Append(q, e)) = ValidAt(q)
BY Appended DEF ValidAt

\* What a removed request counted.
LEMMA RemovedCount ==
  ASSUME NEW q \in Seq(Requests), NEW p \in DOMAIN q
  PROVE  Cardinality(ValidAt(RemoveAt(q, p))) = Cardinality(ValidAt(q)) - Weight(q[p])
<1> DEFINE r == RemoveAt(q, p)
           S == ValidAt(q) \ {p}
           f == [i \in S |-> IF i < p THEN i ELSE i - 1]
<1>1. Len(q) \in Nat /\ p \in 1 .. Len(q) /\ DOMAIN q = 1 .. Len(q)
  OBVIOUS
<1>2. /\ DOMAIN r = 1 .. Len(q) - 1
      /\ \A i \in 1 .. Len(q) - 1 : r[i] = IF i < p THEN q[i] ELSE q[i + 1]
  BY Removed
<1> HIDE DEF r
<1>3. f \in [S -> ValidAt(r)]
  BY <1>1, <1>2 DEF ValidAt
<1>4. \A i, j \in S : f[i] = f[j] => i = j
  BY <1>1 DEF ValidAt
<1>5. ASSUME NEW j \in ValidAt(r) PROVE \E i \in S : f[i] = j
  <2>1. j \in 1 .. Len(q) - 1 /\ r[j].valid
    BY <1>2 DEF ValidAt
  <2>2. CASE j < p
    <3>1. j \in S
      BY <1>1, <1>2, <2>1, <2>2 DEF ValidAt
    <3>2. QED
      BY <2>2, <3>1
  <2>3. CASE ~(j < p)
    <3>1. j + 1 \in S /\ ~(j + 1 < p) /\ (j + 1) - 1 = j
      BY <1>1, <1>2, <2>1, <2>3 DEF ValidAt
    <3>2. QED
      BY <3>1
  <2>4. QED
    BY <2>2, <2>3
<1> HIDE DEF f, S
<1>6. ExistsBijection(S, ValidAt(r))
  <2>1. f \in Bijection(S, ValidAt(r))
    BY <1>3, <1>4, <1>5, Fun_IsBij
  <2>2. QED
    BY <2>1 DEF ExistsBijection
<1>7. IsFiniteSet(ValidAt(q)) /\ Cardinality(ValidAt(q)) \in Nat
  BY ValidFinite
<1>8. IsFiniteSet(S) /\ Cardinality(S) = Cardinality(ValidAt(q)) - Weight(q[p])
  <2>1. /\ IsFiniteSet(S)
        /\ Cardinality(S) = IF p \in ValidAt(q) THEN Cardinality(ValidAt(q)) - 1
                                                ELSE Cardinality(ValidAt(q))
    BY <1>7, FS_RemoveElement DEF S
  <2>2. p \in ValidAt(q) <=> q[p].valid
    BY DEF ValidAt
  <2>3. QED
    BY <1>7, <2>1, <2>2 DEF Weight
<1>9. QED
  BY <1>6, <1>8, FS_Bijection DEF r

\* A list of validated requests behind another.
LEMMA ConcatCount ==
  ASSUME NEW q \in Seq(Requests), NEW k \in Nat, NEW r \in Seq(Requests), Len(r) = k,
         \A i \in DOMAIN r : r[i].valid
  PROVE  Cardinality(ValidAt(q \o r)) = Cardinality(ValidAt(q)) + k
<1> DEFINE N == Len(q) + 1 .. Len(q) + k
<1>1. /\ Len(q) \in Nat /\ DOMAIN (q \o r) = 1 .. Len(q) + k
      /\ \A i \in 1 .. Len(q) : (q \o r)[i] = q[i]
      /\ \A i \in N : (q \o r)[i] = r[i - Len(q)] /\ i - Len(q) \in DOMAIN r
  OBVIOUS
<1>2. ValidAt(q \o r) = ValidAt(q) \cup N /\ ValidAt(q) \cap N = {}
  BY <1>1 DEF ValidAt
<1>3. IsFiniteSet(N) /\ Cardinality(N) = k
  <2>1. Len(q) + 1 \in Int /\ Len(q) + k \in Int
    BY <1>1
  <2>2. /\ IsFiniteSet(N)
        /\ Cardinality(N) = IF Len(q) + 1 > Len(q) + k THEN 0
                            ELSE (Len(q) + k) - (Len(q) + 1) + 1
    BY <2>1, FS_Interval
  <2>3. QED
    BY <1>1, <2>2
<1>4. IsFiniteSet(ValidAt(q)) /\ Cardinality(ValidAt(q)) \in Nat
  BY ValidFinite
<1> HIDE DEF N
<1>5. QED
  <2>1. /\ Cardinality(ValidAt(q) \cap N) = 0
        /\ Cardinality(ValidAt(q) \cup N) =
             Cardinality(ValidAt(q)) + Cardinality(N) - Cardinality(ValidAt(q) \cap N)
    BY <1>2, <1>3, <1>4, FS_Union, FS_EmptySet
  <2>2. QED
    BY <1>2, <1>3, <1>4, <2>1

-----------------------------------------------------------------------------
\* What findnextblockstodownload returns: missing blocks of one branch that
\* nobody was asked for, a common block that is complete, and a staller that
\* owes a block.
FoundInv(n, found) ==
  /\ found.common \in Block /\ Complete(found.common)
  /\ found.fetch \subseteq {x \in Block : owner[x] = NoPeer}
  /\ \E b \in Block : found.fetch \subseteq Ancestors[b]
  /\ found.staller # NoPeer => \E w \in Block : owner[w] = found.staller

\* The walk starts at a complete block.
LEMMA StartComplete ==
  ASSUME TypeOK, Complete(tip), CommonIsComplete, NEW n \in Peer, NEW target \in Block
  PROVE  WalkStart(n, target) \in Block /\ Complete(WalkStart(n, target))
<1> DEFINE h == IF Height[target] < Height[tip] THEN Height[target] ELSE Height[tip]
           guess == IF common[n] # NoBlock THEN common[n]
                    ELSE CHOOSE x \in Ancestors[tip] : Height[x] = h
           T == Ancestors[guess] \cap Ancestors[target]
<1>1. tip \in Block /\ Height[tip] \in Nat /\ Height[target] \in Nat
  BY HeightDef DEF TypeOK
<1>2. guess \in Block /\ Complete(guess)
  <2>1. CASE common[n] # NoBlock
    BY <2>1 DEF TypeOK, CommonIsComplete
  <2>2. CASE common[n] = NoBlock
    <3>1. h \in 0 .. Height[tip]
      BY <1>1
    <3>2. \E x \in Ancestors[tip] : Height[x] = h
      <4> HIDE DEF h
      <4> QED BY <1>1, <3>1, AncestorAt
    <3>3. guess \in Ancestors[tip]
      <4> HIDE DEF h
      <4> QED BY <2>2, <3>2
    <3> HIDE DEF guess
    <3>4. QED
      BY <1>1, <3>3, Ancestry DEF Complete
  <2>3. QED
    BY <2>1, <2>2
<1>3. WalkStart(n, target) = Highest(T)
  BY DEF WalkStart, LastCommonAncestor
<1> HIDE DEF guess
<1>4. T \in SUBSET Block /\ IsFiniteSet(T) /\ Genesis \in T
  <2>1. IsFiniteSet(Ancestors[guess]) /\ Genesis \in T /\ Ancestors[guess] \subseteq Block
    BY <1>2, AncestorsFinite, Ancestry
  <2>2. T \in SUBSET Ancestors[guess]
    OBVIOUS
  <2>3. QED
    BY <2>1, <2>2, FS_Subset
<1>5. Highest(T) \in T
  <2> HIDE DEF T
  <2> QED BY <1>4, HighestIn
<1>6. QED
  <2>1. Highest(T) \in Ancestors[guess]
    BY <1>5
  <2> HIDE DEF T
  <2>2. Highest(T) \in Block /\ Ancestors[Highest(T)] \subseteq Ancestors[guess]
    BY <1>2, <2>1, Ancestry
  <2>3. QED
    BY <1>2, <1>3, <2>2 DEF Complete

\* findnextblockstodownload
LEMMA FoundFact ==
  ASSUME TypeOK, Complete(tip), CommonIsComplete, NEW n \in Peer, NEW target \in Block,
         NEW count
  PROVE  FoundInv(n, FindNextBlocksToDownload(n, target, count))
<1> DEFINE start    == WalkStart(n, target)
           end      == Height[start] + Window
           walk     == {x \in Ancestors[target] \ Ancestors[start] : Height[x] <= end + 1}
           valid    == {x \in walk : Ancestors[x] \cap walk \cap failed = {}}
           missing  == {x \in valid : x \notin haveData /\ owner[x] = NoPeer}
           inWindow == {x \in missing : Height[x] <= end}
           fetch    == {x \in inWindow :
                          Cardinality({y \in inWindow : Height[y] < Height[x]}) < count}
           visited  == IF Cardinality(fetch) = count
                       THEN {x \in valid : \E y \in fetch : Height[x] <= Height[y]}
                       ELSE valid
           complete == {start} \cup {x \in visited : Shared(x)}
           waiting  == {x \in visited : x \notin haveData /\ owner[x] # NoPeer}
           stalled  == missing # {} /\ fetch = {} /\ waiting # {}
                         /\ owner[Lowest(waiting)] # n
           found    == FindNextBlocksToDownload(n, target, count)
<1>1. /\ found.common = Highest(complete) /\ found.fetch = fetch
      /\ found.staller = IF stalled THEN owner[Lowest(waiting)] ELSE NoPeer
  BY DEF FindNextBlocksToDownload
<1>2. start \in Block /\ Complete(start)
  BY StartComplete
<1>3. valid \subseteq Ancestors[target] /\ Ancestors[target] \subseteq Block
  BY Ancestry
<1>4. fetch \subseteq {x \in valid : owner[x] = NoPeer}
  OBVIOUS
<1> HIDE DEF start, valid, fetch
<1>5. visited \subseteq valid
  OBVIOUS
<1> HIDE DEF visited
<1>6. Highest(complete) \in complete
  <2>1. complete \in SUBSET (Ancestors[target] \cup {start})
    BY <1>3, <1>5
  <2>2. IsFiniteSet(Ancestors[target] \cup {start})
    BY AncestorsFinite, FS_AddElement
  <2>3. IsFiniteSet(complete)
    <3> HIDE DEF complete
    <3> QED BY <2>1, <2>2, FS_Subset
  <2>4. complete \in SUBSET Block /\ complete # {}
    BY <1>2, <1>3, <1>5
  <2> HIDE DEF complete
  <2>5. QED
    BY <2>3, <2>4, HighestIn
<1>7. Highest(complete) \in Block /\ Complete(Highest(complete))
  <2>1. \A x \in complete : x \in Block /\ Complete(x)
    BY <1>2, <1>3, <1>5 DEF Shared
  <2> HIDE DEF complete
  <2>2. QED
    BY <1>6, <2>1
<1>8. stalled => Lowest(waiting) \in Block
  <2>1. waiting \in SUBSET Block
    BY <1>3, <1>5
  <2>2. stalled => waiting # {}
    OBVIOUS
  <2> HIDE DEF waiting, stalled
  <2>3. QED
    BY <2>1, <2>2, LowestIn
<1> HIDE DEF complete, waiting, stalled, found
<1>9. QED
  BY <1>1, <1>3, <1>4, <1>7, <1>8 DEF FoundInv, found

-----------------------------------------------------------------------------
\* The pairs of AllValid.
LEMMA AllValidFact ==
  \A e : e \in AllValid <=> \E n \in Peer : \E i \in ValidAt(queue[n]) : e = <<n, i>>
BY DEF AllValid, ValidAt

\* As many pairs as places.
LEMMA PairCount ==
  ASSUME NEW n, NEW S, IsFiniteSet(S)
  PROVE  /\ IsFiniteSet({<<n, i>> : i \in S})
         /\ Cardinality({<<n, i>> : i \in S}) = Cardinality(S)
<1> DEFINE T == {<<n, i>> : i \in S}
           f == [i \in S |-> <<n, i>>]
<1>1. f \in [S -> T] /\ (\A i, j \in S : f[i] = f[j] => i = j) /\ (\A t \in T : \E i \in S : f[i] = t)
  OBVIOUS
<1> HIDE DEF T, f
<1>2. ExistsBijection(S, T)
  <2>1. f \in Bijection(S, T)
    BY <1>1, Fun_IsBij
  <2>2. QED
    BY <2>1 DEF ExistsBijection
<1>3. QED
  BY <1>2, FS_Bijection DEF T

\* When the list of one peer changes, the number of validated requests changes
\* as the peer's own.
LEMMA CountStep ==
  ASSUME TypeOK, QueuedCovers, NEW n \in Peer, NEW q \in Seq(Requests),
         queue' = [queue EXCEPT ![n] = q]
  PROVE  /\ IsFiniteSet(AllValid')
         /\ Cardinality(AllValid') =
              Cardinality(AllValid) - Cardinality(ValidAt(queue[n])) + Cardinality(ValidAt(q))
<1> DEFINE Mine == {<<n, i>> : i \in ValidAt(queue[n])}
           New  == {<<n, i>> : i \in ValidAt(q)}
           Rest == AllValid \ Mine
<1>1. queue \in [Peer -> Seq(Requests)] /\ queue'[n] = q /\ \A m \in Peer \ {n} : queue'[m] = queue[m]
  BY DEF TypeOK
<1>2. /\ IsFiniteSet(Mine) /\ Cardinality(Mine) = Cardinality(ValidAt(queue[n]))
      /\ IsFiniteSet(New) /\ Cardinality(New) = Cardinality(ValidAt(q))
  <2>1. IsFiniteSet(ValidAt(queue[n])) /\ IsFiniteSet(ValidAt(q))
    BY <1>1, ValidFinite
  <2>2. QED
    BY <2>1, PairCount
<1>3. \A e : e \in AllValid' <=> \E m \in Peer : \E i \in ValidAt(queue'[m]) : e = <<m, i>>
  BY DEF AllValid, ValidAt
<1>4. Mine \subseteq AllValid /\ Mine \cap Rest = {}
  BY <1>1, AllValidFact
<1>5. AllValid' = Rest \cup New /\ Rest \cap New = {}
  <2>1. \A e : e \in Rest <=> \E m \in Peer \ {n} : \E i \in ValidAt(queue[m]) : e = <<m, i>>
    BY AllValidFact
  <2> HIDE DEF Rest
  <2>2. Rest \cap New = {}
    BY <2>1
  <2>3. AllValid' \subseteq Rest \cup New
    BY <1>1, <1>3, <2>1
  <2>4. Rest \subseteq AllValid' /\ New \subseteq AllValid'
    BY <1>1, <1>3, <2>1
  <2>5. QED
    BY <2>2, <2>3, <2>4
<1> HIDE DEF Mine, New
<1>6. /\ IsFiniteSet(Rest) /\ Cardinality(Rest) = Cardinality(AllValid) - Cardinality(Mine)
  <2>1. AllValid \cap Mine = Mine
    BY <1>4
  <2>2. QED
    BY <2>1, FS_Difference DEF QueuedCovers
<1> HIDE DEF Rest
<1>7. /\ IsFiniteSet(Rest \cup New) /\ Cardinality(Rest \cap New) = 0
      /\ Cardinality(Rest \cup New) = Cardinality(Rest) + Cardinality(New) - Cardinality(Rest \cap New)
  BY <1>2, <1>5, <1>6, FS_Union, FS_EmptySet
<1>8. Cardinality(Rest) \in Nat /\ Cardinality(New) \in Nat /\ Cardinality(Mine) \in Nat
      /\ Cardinality(AllValid) \in Nat
  BY <1>2, <1>6, FS_CardinalityType DEF QueuedCovers
<1>9. QED
  BY <1>2, <1>5, <1>6, <1>7, <1>8

\* The invariant of the lists, with the names of this module.
LEMMA ExactFact ==
  InFlightExact <=>
    \A n \in Peer : /\ Lists(queue[n], owner, n)
                    /\ nBlocks[n] = Len(queue[n]) /\ nValid[n] = Cardinality(ValidAt(queue[n]))
BY DEF InFlightExact, Lists, ValidAt

\* The map and the lists agree again when the list of one peer and the map have
\* changed together.
LEMMA ListStep ==
  ASSUME TypeOK, InFlightExact, NEW n \in Peer, NEW q \in Seq(Requests),
         queue' = [queue EXCEPT ![n] = q], Lists(q, owner', n),
         \A b \in Block, m \in Peer \ {n} : owner'[b] = m <=> owner[b] = m,
         nBlocks'[n] = Len(q), nValid'[n] = Cardinality(ValidAt(q)),
         \A m \in Peer \ {n} : nBlocks'[m] = nBlocks[m] /\ nValid'[m] = nValid[m]
  PROVE  InFlightExact'
<1>1. /\ queue'[n] = q /\ nBlocks'[n] = Len(q) /\ nValid'[n] = Cardinality(ValidAt(q))
      /\ \A m \in Peer \ {n} :
           queue'[m] = queue[m] /\ nBlocks'[m] = nBlocks[m] /\ nValid'[m] = nValid[m]
  BY DEF TypeOK
<1>2. ASSUME NEW m \in Peer
      PROVE  /\ Lists(queue'[m], owner', m)
             /\ nBlocks'[m] = Len(queue'[m]) /\ nValid'[m] = Cardinality(ValidAt(queue'[m]))
  <2>1. CASE m = n
    BY <1>1, <2>1
  <2>2. CASE m # n
    <3>1. /\ Lists(queue[m], owner, m)
          /\ nBlocks[m] = Len(queue[m]) /\ nValid[m] = Cardinality(ValidAt(queue[m]))
      BY ExactFact
    <3>2. Lists(queue[m], owner', m)
      BY <2>2, <3>1 DEF Lists
    <3>3. QED
      BY <1>1, <2>2, <3>1, <3>2
  <2>3. QED
    BY <2>1, <2>2
<1>3. QED
  BY <1>2 DEF InFlightExact, Lists, ValidAt

\* A change of times only.
SameRequests(q, r) ==
  /\ r \in Seq(Requests) /\ DOMAIN r = DOMAIN q
  /\ \A i \in DOMAIN q : r[i].hash = q[i].hash /\ r[i].valid = q[i].valid

\* What the lists and the map have to do with each other does not depend on the
\* times.
LEMMA TimesStep ==
  ASSUME TypeOK, InFlightExact, QueuedCovers, UNCHANGED <<owner, nBlocks, nValid, nQueued>>,
         queue' \in [Peer -> Seq(Requests)],
         \A n \in Peer : SameRequests(queue[n], queue'[n])
  PROVE  InFlightExact' /\ QueuedCovers' /\ \A n \in Peer : queue[n] # << >> => queue'[n] # << >>
<1>1. \A n \in Peer : /\ DOMAIN queue'[n] = DOMAIN queue[n] /\ ValidAt(queue'[n]) = ValidAt(queue[n])
                      /\ \A i \in DOMAIN queue[n] : queue'[n][i].hash = queue[n][i].hash
  BY DEF SameRequests, ValidAt
<1>2. \A n \in Peer : Len(queue'[n]) = Len(queue[n]) /\ (queue[n] # << >> => queue'[n] # << >>)
  <2>1. SUFFICES ASSUME NEW n \in Peer
                 PROVE  Len(queue'[n]) = Len(queue[n]) /\ (queue[n] # << >> => queue'[n] # << >>)
    OBVIOUS
  <2>2. queue[n] \in Seq(Requests) /\ queue'[n] \in Seq(Requests)
    BY DEF TypeOK
  <2>3. QED
    BY <1>1, <2>2
<1>3. InFlightExact'
  <2>1. ASSUME NEW n \in Peer
        PROVE  /\ Lists(queue'[n], owner', n)
               /\ nBlocks'[n] = Len(queue'[n]) /\ nValid'[n] = Cardinality(ValidAt(queue'[n]))
    <3>1. /\ Lists(queue[n], owner, n)
          /\ nBlocks[n] = Len(queue[n]) /\ nValid[n] = Cardinality(ValidAt(queue[n]))
      BY ExactFact
    <3>2. Lists(queue'[n], owner', n)
      BY <1>1, <3>1 DEF Lists
    <3>3. QED
      BY <1>1, <1>2, <3>1, <3>2
  <2>2. QED
    BY <2>1 DEF InFlightExact, Lists, ValidAt
<1>4. AllValid' = AllValid
  <2>1. \A e : e \in AllValid' <=> \E m \in Peer : \E i \in ValidAt(queue'[m]) : e = <<m, i>>
    BY DEF AllValid, ValidAt
  <2>2. QED
    BY <1>1, <2>1, AllValidFact
<1>5. QED
  BY <1>2, <1>3, <1>4 DEF QueuedCovers

-----------------------------------------------------------------------------
\* What a step leaves alone stays right.
LEMMA Kept ==
  /\ InFlightExact /\ UNCHANGED <<queue, owner, nBlocks, nValid>> => InFlightExact'
  /\ QueuedCovers /\ UNCHANGED <<queue, nQueued>> => QueuedCovers'
  /\ StallerOwes /\ UNCHANGED <<queue, stalling>> => StallerOwes'
  /\ CommonIsComplete /\ UNCHANGED common /\ haveData \subseteq haveData' => CommonIsComplete'
  /\ Complete(tip) /\ UNCHANGED tip /\ haveData \subseteq haveData' => Complete(tip)'
<1>1. InFlightExact /\ UNCHANGED <<queue, owner, nBlocks, nValid>> => InFlightExact'
  BY DEF InFlightExact
<1>2. QueuedCovers /\ UNCHANGED <<queue, nQueued>> => QueuedCovers'
  BY DEF QueuedCovers, AllValid
<1>3. StallerOwes /\ UNCHANGED <<queue, stalling>> => StallerOwes'
  BY DEF StallerOwes
<1>4. CommonIsComplete /\ UNCHANGED common /\ haveData \subseteq haveData' => CommonIsComplete'
  BY DEF CommonIsComplete, Complete
<1>5. Complete(tip) /\ UNCHANGED tip /\ haveData \subseteq haveData' => Complete(tip)'
  BY DEF Complete
<1>6. QED
  BY <1>1, <1>2, <1>3, <1>4, <1>5

\* The node starts without peers and with Genesis.
LEMMA InitDownload == Init => DownloadInv
<1> SUFFICES ASSUME Init PROVE DownloadInv
  OBVIOUS
<1>1. TypeOK
  <2>1. << >> \in Seq(Requests)
    OBVIOUS
  <2>2. NotStalling \in NotStalling .. StallTimeout + 1 /\ 0 \in 0 .. MaxConnect
    BY BlockDownloadAssumption DEF NotStalling
  <2>3. QED
    BY <2>1, <2>2, HeaderTreeAssumption DEF Init, TypeOK
<1>2. AllValid = {}
  BY DEF AllValid, Init
<1>3. InFlightExact
  <2>1. \A n \in Peer : DOMAIN queue[n] = {} /\ Len(queue[n]) = 0 /\ ValidAt(queue[n]) = {}
    BY DEF Init, ValidAt
  <2>2. QED
    BY <2>1, FS_EmptySet, BlockDownloadAssumption DEF Init, InFlightExact
<1>4. StallerOwes /\ CommonIsComplete
  BY DEF Init, StallerOwes, CommonIsComplete
<1>5. PeersCounted /\ QueuedCovers
  BY <1>2, FS_EmptySet DEF Init, PeersCounted, QueuedCovers
<1>6. Complete(tip)
  BY Ancestry, HeaderTreeAssumption DEF Init, Complete
<1>7. QED
  BY <1>1, <1>3, <1>4, <1>5, <1>6 DEF DownloadInv

\* initializenode
LEMMA ConnectDownload ==
  ASSUME DownloadInv, NEW n \in Peer, Connect(n) PROVE DownloadInv'
<1>1. TypeOK'
  BY BlockDownloadAssumption DEF DownloadInv, TypeOK, Connect, chain, known, sync, inFlight
<1>2. PeersCounted'
  <2>1. n \notin syncing \cup preferred
    BY DEF DownloadInv, PeersCounted, Connect
  <2>2. \A m \in syncing \cup preferred : conn'[m] = conn[m]
    BY <2>1 DEF Connect, DownloadInv, TypeOK
  <2>3. QED
    BY <2>2 DEF DownloadInv, PeersCounted, Connect, sync
<1>3. QED
  BY <1>1, <1>2, Kept DEF DownloadInv, Connect, chain, known, sync, inFlight

\* The version message.
LEMMA VersionDownload ==
  ASSUME DownloadInv, NEW n \in Peer, Version(n) PROVE DownloadInv'
<1>1. n \notin syncing \cup preferred /\ conn \in [Peer -> {"none", "new", "ready", "closing"}]
  BY DEF DownloadInv, TypeOK, PeersCounted, Version
<1>2. /\ preferred' = IF n \in Preferable THEN preferred \cup {n} ELSE preferred
      /\ nPreferred' = IF n \in Preferable THEN nPreferred + 1 ELSE nPreferred
  <2>1. nPreferred \in Int
    BY DEF DownloadInv, TypeOK
  <2>2. preferred' = IF n \in Preferable THEN preferred \cup {n} ELSE preferred \ {n}
    BY DEF Version
  <2>3. nPreferred' = nPreferred - (IF n \in preferred THEN 1 ELSE 0)
                                 + (IF n \in Preferable THEN 1 ELSE 0)
    BY DEF Version
  <2>4. QED
    BY <1>1, <2>1, <2>2, <2>3
<1>3. TypeOK'
  BY <1>2 DEF DownloadInv, TypeOK, Version, chain, known, inFlight
<1>4. PeersCounted'
  <2>1. IsFiniteSet(preferred') /\ nPreferred' = Cardinality(preferred')
    BY <1>1, <1>2, FS_AddElement DEF DownloadInv, PeersCounted
  <2>2. \A m \in syncing \cup preferred' : conn'[m] \in {"ready", "closing"}
    BY <1>1, <1>2 DEF DownloadInv, PeersCounted, Version
  <2>3. QED
    BY <2>1, <2>2 DEF DownloadInv, PeersCounted, Version
<1>5. QED
  BY <1>3, <1>4, Kept DEF DownloadInv, Version, chain, known, inFlight

\* finalizenode
LEMMA FinalizeDownload ==
  ASSUME DownloadInv, NEW n \in Peer, FinalizeNode(n) PROVE DownloadInv'
<1>1. /\ << >> \in Seq(Requests) /\ Len(<< >>) = 0 /\ DOMAIN << >> = {}
      /\ ValidAt(<< >>) = {} /\ Cardinality(ValidAt(<< >>)) = 0
  BY FS_EmptySet DEF ValidAt
<1>2. NotStalling \in NotStalling .. StallTimeout + 1
  BY BlockDownloadAssumption DEF NotStalling
<1>3. TypeOK'
  BY <1>1, <1>2 DEF DownloadInv, TypeOK, FinalizeNode, OwnersWithout, chain
<1>4. InFlightExact'
  <2>1. \A b \in Block : owner'[b] = IF owner[b] = n THEN NoPeer ELSE owner[b]
    BY DEF FinalizeNode, OwnersWithout, DownloadInv, InFlightExact
  <2>2. Lists(<< >>, owner', n)
    BY <1>1, <2>1, BlockDownloadAssumption DEF Lists
  <2>3. \A b \in Block, m \in Peer \ {n} : owner'[b] = m <=> owner[b] = m
    BY <2>1, BlockDownloadAssumption
  <2>4. QED
    BY <1>1, <2>2, <2>3, ListStep DEF DownloadInv, TypeOK, FinalizeNode
<1>5. QueuedCovers'
  <2>1. /\ IsFiniteSet(AllValid')
        /\ Cardinality(AllValid') =
             Cardinality(AllValid) - Cardinality(ValidAt(queue[n])) + Cardinality(ValidAt(<< >>))
    BY <1>1, CountStep DEF DownloadInv, FinalizeNode
  <2>2. Cardinality(ValidAt(queue[n])) \in Nat /\ Cardinality(AllValid) \in Nat
    BY ValidFinite, FS_CardinalityType DEF DownloadInv, TypeOK, QueuedCovers
  <2>3. nQueued \in Int /\ nQueued >= Cardinality(AllValid) /\ nQueued' = nQueued
    BY DEF DownloadInv, TypeOK, QueuedCovers, FinalizeNode
  <2>4. QED
    BY <1>1, <2>1, <2>2, <2>3 DEF QueuedCovers
<1>6. StallerOwes'
  BY DEF DownloadInv, TypeOK, StallerOwes, FinalizeNode
<1>7. PeersCounted'
  <2>1. /\ IsFiniteSet(syncing') /\ nSync' = Cardinality(syncing')
        /\ IsFiniteSet(preferred') /\ nPreferred' = Cardinality(preferred')
    <3>1. Cardinality(syncing) \in Nat /\ Cardinality(preferred) \in Nat
      BY FS_CardinalityType DEF DownloadInv, PeersCounted
    <3>2. /\ IsFiniteSet(syncing) /\ nSync = Cardinality(syncing)
          /\ IsFiniteSet(preferred) /\ nPreferred = Cardinality(preferred)
      BY DEF DownloadInv, PeersCounted
    <3>3. /\ syncing' = syncing \ {n} /\ nSync' = nSync - (IF n \in syncing THEN 1 ELSE 0)
          /\ preferred' = preferred \ {n}
          /\ nPreferred' = nPreferred - (IF n \in preferred THEN 1 ELSE 0)
      BY DEF FinalizeNode
    <3>4. IsFiniteSet(syncing') /\ nSync' = Cardinality(syncing')
      BY <3>1, <3>2, <3>3, FS_RemoveElement
    <3>5. IsFiniteSet(preferred') /\ nPreferred' = Cardinality(preferred')
      BY <3>1, <3>2, <3>3, FS_RemoveElement
    <3>6. QED
      BY <3>4, <3>5
  <2>2. \A m \in syncing' \cup preferred' : conn'[m] \in {"ready", "closing"}
    BY DEF DownloadInv, PeersCounted, FinalizeNode, TypeOK
  <2>3. QED
    BY <2>1, <2>2 DEF PeersCounted
<1>8. CommonIsComplete'
  BY DEF DownloadInv, TypeOK, CommonIsComplete, Complete, FinalizeNode, chain
<1>9. QED
  BY <1>3, <1>4, <1>5, <1>6, <1>7, <1>8, Kept DEF DownloadInv, FinalizeNode, chain

\* What a peer is known to have are blocks.
LEMMA Availability ==
  ASSUME TypeOK, NEW n \in Peer, NEW idx \in SUBSET Block
  PROVE  /\ KnownBest(n, idx) \in Block \cup {NoBlock}
         /\ StillUnknown(n, idx) \in Block \cup {NoBlock}
         /\ \A b \in Block : Better(b, KnownBest(n, idx)) \in Block
BY DEF TypeOK, KnownBest, StillUnknown, Better

\* updateblockavailability
LEMMA AvailabilityStep ==
  ASSUME TypeOK, NEW n \in Peer, NEW idx \in SUBSET Block, NEW b \in Block,
         UpdateBlockAvailability(n, b, idx)
  PROVE  best' \in [Peer -> Block \cup {NoBlock}] /\ unknown' \in [Peer -> Block \cup {NoBlock}]
<1>1. /\ KnownBest(n, idx) \in Block \cup {NoBlock}
      /\ StillUnknown(n, idx) \in Block \cup {NoBlock}
      /\ Better(b, KnownBest(n, idx)) \in Block
  BY Availability
<1>2. best \in [Peer -> Block \cup {NoBlock}] /\ unknown \in [Peer -> Block \cup {NoBlock}]
  BY DEF TypeOK
<1>3. QED
  BY <1>1, <1>2 DEF UpdateBlockAvailability

\* An inv message.
LEMMA InvDownload ==
  ASSUME DownloadInv, NEW n \in Peer, NEW b \in Block, NEW recent \in BOOLEAN,
         Inv(n, b, recent)
  PROVE  DownloadInv'
<1> DEFINE e == Request(b, FALSE, nQueued)
           q == Append(queue[n], e)
<1>1. TypeOK
  BY DEF DownloadInv
<1>2. best' \in [Peer -> Block \cup {NoBlock}] /\ unknown' \in [Peer -> Block \cup {NoBlock}]
  BY <1>1, AvailabilityStep DEF Inv, TypeOK
<1>3. PeersCounted' /\ CommonIsComplete' /\ Complete(tip)'
  BY Kept DEF DownloadInv, PeersCounted, Inv, chain, sync
<1>4. CASE ~AskAtOnce(n, b, recent)
  <2>1. UNCHANGED <<queue, nBlocks, owner>>
    BY <1>4 DEF Inv
  <2>2. TypeOK'
    BY <1>1, <1>2, <2>1 DEF TypeOK, Inv, chain, sync
  <2>3. QED
    BY <1>3, <2>1, <2>2, Kept DEF DownloadInv, Inv
<1>5. CASE AskAtOnce(n, b, recent)
  <2>1. /\ queue' = [queue EXCEPT ![n] = q] /\ nBlocks' = [nBlocks EXCEPT ![n] = @ + 1]
        /\ owner' = [owner EXCEPT ![b] = n] /\ UNCHANGED <<nValid, nQueued, stalling>>
    BY <1>5 DEF Inv
  <2>2. queue[n] \in Seq(Requests) /\ e \in Requests /\ ~e.valid /\ e.hash = b
    <3>1. queue[n] \in Seq(Requests) /\ TimeoutBase + nQueued \in Int
      BY <1>1, BlockDownloadAssumption DEF TypeOK
    <3>2. e = [hash |-> b, valid |-> FALSE, left |-> TimeoutBase + nQueued]
      BY DEF Request
    <3> HIDE DEF e
    <3>3. QED
      BY <3>1, <3>2 DEF Requests
  <2> HIDE DEF e
  <2>3. /\ q \in Seq(Requests) /\ Len(q) = Len(queue[n]) + 1
        /\ DOMAIN q = DOMAIN queue[n] \cup {Len(queue[n]) + 1} /\ Len(queue[n]) + 1 \notin DOMAIN queue[n]
        /\ q[Len(queue[n]) + 1] = e
        /\ \A i \in DOMAIN queue[n] : q[i] = queue[n][i]
    BY <2>2, Appended
  <2>4. ValidAt(q) = ValidAt(queue[n])
    BY <2>2, AppendedCount
  <2> HIDE DEF q
  <2>5. TypeOK'
    <3>1. /\ queue' \in [Peer -> Seq(Requests)] /\ nBlocks' \in [Peer -> Int]
          /\ owner' \in [Block -> Peer \cup {NoPeer}]
      BY <1>1, <2>1, <2>3 DEF TypeOK
    <3>2. QED
      BY <1>1, <1>2, <2>1, <3>1 DEF TypeOK, Inv, chain, sync
  <2>6. InFlightExact'
    <3>1. /\ Lists(queue[n], owner, n) /\ nBlocks[n] = Len(queue[n])
          /\ nValid[n] = Cardinality(ValidAt(queue[n]))
      BY ExactFact DEF DownloadInv
    <3>2. owner[b] = NoPeer /\ NoPeer # n /\ owner'[b] = n /\ \A c \in Block \ {b} : owner'[c] = owner[c]
      BY <1>1, <1>5, <2>1, BlockDownloadAssumption DEF AskAtOnce, TypeOK
    <3>3. Lists(q, owner', n)
      <4>1. \A i \in DOMAIN queue[n] : queue[n][i].hash # b
        BY <3>1, <3>2 DEF Lists
      <4>2. \A i, j \in DOMAIN q : q[i].hash = q[j].hash => i = j
        BY <2>2, <2>3, <3>1, <4>1 DEF Lists
      <4>3. ASSUME NEW c \in Block PROVE owner'[c] = n <=> \E i \in DOMAIN q : q[i].hash = c
        BY <2>2, <2>3, <3>1, <3>2, <4>1 DEF Lists
      <4>4. QED
        BY <4>2, <4>3 DEF Lists
    <3>4. \A c \in Block, m \in Peer \ {n} : owner'[c] = m <=> owner[c] = m
      BY <3>2, BlockDownloadAssumption
    <3>5. /\ nBlocks'[n] = Len(q) /\ nValid'[n] = Cardinality(ValidAt(q))
          /\ \A m \in Peer \ {n} : nBlocks'[m] = nBlocks[m] /\ nValid'[m] = nValid[m]
      BY <1>1, <2>1, <2>3, <2>4, <3>1 DEF TypeOK
    <3>6. QED
      BY <1>1, <2>1, <2>3, <3>3, <3>4, <3>5, ListStep DEF DownloadInv
  <2>7. QueuedCovers'
    <3>1. /\ IsFiniteSet(AllValid')
          /\ Cardinality(AllValid') =
               Cardinality(AllValid) - Cardinality(ValidAt(queue[n])) + Cardinality(ValidAt(q))
      BY <1>1, <2>1, <2>3, CountStep DEF DownloadInv
    <3>2. Cardinality(ValidAt(queue[n])) \in Nat /\ Cardinality(AllValid) \in Nat
      BY <2>2, ValidFinite, FS_CardinalityType DEF DownloadInv, QueuedCovers
    <3>3. QED
      BY <2>1, <2>4, <3>1, <3>2 DEF DownloadInv, QueuedCovers
  <2>8. StallerOwes'
    <3>1. q # << >>
      BY <2>3
    <3>2. QED
      BY <1>1, <2>1, <3>1 DEF DownloadInv, StallerOwes, TypeOK
  <2>9. QED
    BY <1>3, <2>5, <2>6, <2>7, <2>8 DEF DownloadInv
<1>6. QED
  BY <1>4, <1>5

\* A headers message.
LEMMA HeadersDownload ==
  ASSUME DownloadInv, NEW n \in Peer, NEW b \in Block, NEW complete \in BOOLEAN,
         Headers(n, b, complete)
  PROVE  DownloadInv'
<1>1. TypeOK /\ index' = index \cup {b} /\ index' \in SUBSET Block
  BY DEF DownloadInv, TypeOK, Headers
<1>2. best' \in [Peer -> Block \cup {NoBlock}] /\ unknown' \in [Peer -> Block \cup {NoBlock}]
  <2>1. CASE complete
    <3>1. UpdateBlockAvailability(n, b, index')
      BY <2>1 DEF Headers
    <3>2. QED
      BY <1>1, <3>1, AvailabilityStep
  <2>2. CASE ~complete
    BY <1>1, <2>2 DEF Headers, TypeOK
  <2>3. QED
    BY <2>1, <2>2
<1>3. TypeOK'
  BY <1>1, <1>2 DEF TypeOK, Headers, sync, inFlight
<1>4. QED
  BY <1>3, Kept DEF DownloadInv, PeersCounted, Headers, sync, inFlight

\* activatebestchain
LEMMA ActivateDownload ==
  ASSUME DownloadInv, ActivateBestChain PROVE DownloadInv'
<1>1. tip' \in haveData /\ Complete(tip)'
  <2>1. PICK b \in index : Complete(b) /\ tip' = b
    BY DEF ActivateBestChain
  <2>2. b \in Ancestors[b]
    BY <2>1, Ancestry DEF DownloadInv, TypeOK
  <2>3. QED
    BY <2>1, <2>2 DEF Complete, ActivateBestChain
<1>2. TypeOK'
  BY <1>1 DEF DownloadInv, TypeOK, ActivateBestChain, known, sync, inFlight
<1>3. QED
  BY <1>1, <1>2, Kept DEF DownloadInv, PeersCounted, ActivateBestChain, known, sync, inFlight

\* The list and the counters of the peer that owes a block when it arrives.
LEMMA ReceivedDownload ==
  ASSUME DownloadInv, NEW b \in Block, MarkBlockAsReceived(b)
  PROVE  /\ InFlightExact' /\ QueuedCovers' /\ StallerOwes'
         /\ stalling' \in [Peer -> NotStalling .. StallTimeout + 1]
         /\ queue' \in [Peer -> Seq(Requests)]
         /\ nBlocks' \in [Peer -> Int] /\ nValid' \in [Peer -> Int]
         /\ owner' \in [Block -> Peer \cup {NoPeer}] /\ nQueued' \in Int
<1>1. TypeOK
  BY DEF DownloadInv
<1>2. CASE owner[b] = NoPeer
  <2>1. UNCHANGED inFlight
    BY <1>2 DEF MarkBlockAsReceived
  <2>2. QED
    BY <1>1, <2>1, Kept DEF inFlight, DownloadInv, TypeOK
<1>3. CASE owner[b] # NoPeer
  <2> DEFINE n == owner[b]
             p == Place(n, b)
             q == RemoveAt(queue[n], p)
             v == Weight(queue[n][p])
  <2>1. n \in Peer /\ n # NoPeer
    BY <1>1, <1>3 DEF TypeOK
  <2>2. /\ nQueued' = nQueued - v /\ nValid' = [nValid EXCEPT ![n] = @ - v]
        /\ queue' = [queue EXCEPT ![n] = q]
        /\ nBlocks' = [nBlocks EXCEPT ![n] = @ - 1]
        /\ stalling' = [stalling EXCEPT ![n] = NotStalling]
        /\ owner' = [owner EXCEPT ![b] = NoPeer]
    BY <1>3 DEF MarkBlockAsReceived, StallEnded
  <2>3. p \in DOMAIN queue[n] /\ queue[n][p].hash = b
    <3>1. \E i \in DOMAIN queue[n] : queue[n][i].hash = b
      BY <2>1 DEF DownloadInv, InFlightExact
    <3>2. QED
      BY <3>1 DEF Place
  <2> HIDE DEF p
  <2>4. queue[n] \in Seq(Requests) /\ v \in Int
    BY <1>1, <2>1 DEF TypeOK, Weight
  <2>5. /\ q \in Seq(Requests) /\ Len(q) = Len(queue[n]) - 1
        /\ DOMAIN q = 1 .. Len(queue[n]) - 1
        /\ \A i \in 1 .. Len(queue[n]) - 1 :
             q[i] = IF i < p THEN queue[n][i] ELSE queue[n][i + 1]
    BY <2>3, <2>4, Removed
  <2>6. Cardinality(ValidAt(q)) = Cardinality(ValidAt(queue[n])) - v
    BY <2>3, <2>4, RemovedCount
  <2> HIDE DEF q, v
  <2>7. /\ queue' \in [Peer -> Seq(Requests)] /\ owner' \in [Block -> Peer \cup {NoPeer}]
    BY <1>1, <2>1, <2>2, <2>5 DEF TypeOK
  <2>8. /\ nBlocks' \in [Peer -> Int] /\ nValid' \in [Peer -> Int] /\ nQueued' \in Int
    BY <1>1, <2>1, <2>2, <2>4 DEF TypeOK
  <2>9. stalling' \in [Peer -> NotStalling .. StallTimeout + 1]
    <3>1. NotStalling \in NotStalling .. StallTimeout + 1
      BY BlockDownloadAssumption DEF NotStalling
    <3>2. QED
      BY <1>1, <2>2, <3>1 DEF TypeOK
  <2>10. InFlightExact'
    <3>1. /\ Lists(queue[n], owner, n) /\ nBlocks[n] = Len(queue[n])
          /\ nValid[n] = Cardinality(ValidAt(queue[n]))
      BY <2>1, ExactFact DEF DownloadInv
    <3>2. owner'[b] = NoPeer /\ \A c \in Block \ {b} : owner'[c] = owner[c]
      BY <1>1, <2>2 DEF TypeOK
    <3>3. Lists(q, owner', n)
      <4>1. Len(queue[n]) \in Nat /\ p \in 1 .. Len(queue[n]) /\ DOMAIN queue[n] = 1 .. Len(queue[n])
        BY <2>3, <2>4
      <4>2. ASSUME NEW j \in DOMAIN q
            PROVE  LET i == IF j < p THEN j ELSE j + 1
                   IN  i \in DOMAIN queue[n] /\ i # p /\ q[j] = queue[n][i]
        <5>1. j \in 1 .. Len(queue[n]) - 1 /\ q[j] = IF j < p THEN queue[n][j] ELSE queue[n][j + 1]
          BY <2>5
        <5>2. QED
          BY <4>1, <5>1
      <4>3. ASSUME NEW i \in DOMAIN q, NEW j \in DOMAIN q, q[i].hash = q[j].hash PROVE i = j
        <5> DEFINE k == IF i < p THEN i ELSE i + 1
                   l == IF j < p THEN j ELSE j + 1
        <5>1. /\ k \in DOMAIN queue[n] /\ q[i] = queue[n][k]
              /\ l \in DOMAIN queue[n] /\ q[j] = queue[n][l]
          BY <4>2
        <5>2. k = l
          <6> HIDE DEF k, l
          <6> QED BY <3>1, <4>3, <5>1 DEF Lists
        <5>3. i \in Int /\ j \in Int /\ p \in Int
          BY <2>5, <4>1
        <5>4. QED
          BY <5>2, <5>3
      <4>4. ASSUME NEW j \in DOMAIN q PROVE q[j].hash # b
        <5> DEFINE l == IF j < p THEN j ELSE j + 1
        <5>1. l \in DOMAIN queue[n] /\ l # p /\ q[j] = queue[n][l]
          BY <4>2
        <5> HIDE DEF l
        <5>2. QED
          BY <2>3, <3>1, <5>1 DEF Lists
      <4>5. ASSUME NEW i \in DOMAIN queue[n], i # p
            PROVE  \E j \in DOMAIN q : q[j] = queue[n][i]
        <5>1. CASE i < p
          <6>1. i \in DOMAIN q /\ q[i] = queue[n][i]
            BY <2>5, <4>1, <5>1
          <6>2. QED
            BY <6>1
        <5>2. CASE ~(i < p)
          <6>1. i - 1 \in DOMAIN q /\ ~(i - 1 < p) /\ (i - 1) + 1 = i
            BY <2>5, <4>1, <4>5, <5>2
          <6>2. q[i - 1] = queue[n][i]
            BY <2>5, <6>1
          <6>3. QED
            BY <6>1, <6>2
        <5>3. QED
          BY <5>1, <5>2
      <4>6. ASSUME NEW c \in Block PROVE owner'[c] = n <=> \E i \in DOMAIN q : q[i].hash = c
        <5>1. CASE c = b
          BY <2>1, <3>2, <4>4, <5>1
        <5>2. CASE c # b
          BY <2>3, <3>1, <3>2, <4>2, <4>5, <5>2 DEF Lists
        <5>3. QED
          BY <5>1, <5>2
      <4>7. QED
        BY <4>3, <4>6 DEF Lists
    <3>4. \A c \in Block, m \in Peer \ {n} : owner'[c] = m <=> owner[c] = m
      BY <3>2, BlockDownloadAssumption
    <3>5. /\ nBlocks'[n] = Len(q) /\ nValid'[n] = Cardinality(ValidAt(q))
          /\ \A m \in Peer \ {n} : nBlocks'[m] = nBlocks[m] /\ nValid'[m] = nValid[m]
      BY <1>1, <2>1, <2>2, <2>5, <2>6, <3>1 DEF TypeOK
    <3> HIDE DEF n
    <3>6. QED
      BY <1>1, <2>1, <2>2, <2>5, <3>3, <3>4, <3>5, ListStep DEF DownloadInv
  <2>11. QueuedCovers'
    <3>1. /\ IsFiniteSet(AllValid')
          /\ Cardinality(AllValid') =
               Cardinality(AllValid) - Cardinality(ValidAt(queue[n])) + Cardinality(ValidAt(q))
      <4> HIDE DEF n
      <4> QED BY <1>1, <2>1, <2>2, <2>5, CountStep DEF DownloadInv
    <3>2. Cardinality(ValidAt(queue[n])) \in Nat /\ Cardinality(AllValid) \in Nat
      BY <2>4, ValidFinite, FS_CardinalityType DEF DownloadInv, QueuedCovers
    <3>3. nQueued \in Int /\ nQueued >= Cardinality(AllValid)
      BY <1>1 DEF TypeOK, DownloadInv, QueuedCovers
    <3>4. nQueued' >= Cardinality(AllValid')
      BY <2>2, <2>4, <2>6, <3>1, <3>2, <3>3
    <3>5. QED
      BY <3>1, <3>4 DEF QueuedCovers
  <2>12. StallerOwes'
    <3> HIDE DEF n
    <3> QED BY <1>1, <2>1, <2>2 DEF DownloadInv, StallerOwes, TypeOK
  <2>13. QED
    BY <2>7, <2>8, <2>9, <2>10, <2>11, <2>12
<1>4. QED
  BY <1>2, <1>3

\* A block message.
LEMMA BlockMessageDownload ==
  ASSUME DownloadInv, NEW n \in Peer, NEW b \in Block, NEW intact \in BOOLEAN,
         BlockMessage(n, b, intact)
  PROVE  DownloadInv'
<1>1. /\ InFlightExact' /\ QueuedCovers' /\ StallerOwes'
      /\ stalling' \in [Peer -> NotStalling .. StallTimeout + 1]
      /\ queue' \in [Peer -> Seq(Requests)]
      /\ nBlocks' \in [Peer -> Int] /\ nValid' \in [Peer -> Int]
      /\ owner' \in [Block -> Peer \cup {NoPeer}] /\ nQueued' \in Int
  BY ReceivedDownload DEF BlockMessage
<1>2. /\ index' \subseteq Block /\ failed' \subseteq index' /\ haveData' \subseteq index'
      /\ haveData \subseteq haveData'
  BY DEF DownloadInv, TypeOK, BlockMessage, Wanted
<1>3. TypeOK'
  BY <1>1, <1>2 DEF DownloadInv, TypeOK, BlockMessage, known, sync
<1>4. QED
  BY <1>1, <1>2, <1>3, Kept DEF DownloadInv, PeersCounted, BlockMessage, known, sync

\* Time passes.
LEMMA TickDownload ==
  ASSUME DownloadInv, Tick PROVE DownloadInv'
<1>1. TypeOK
  BY DEF DownloadInv
<1>2. ASSUME NEW n \in Peer
      PROVE  SameRequests(queue[n], queue'[n]) /\ stalling'[n] \in NotStalling .. StallTimeout + 1
             /\ (stalling[n] = NotStalling => stalling'[n] = NotStalling)
  <2> DEFINE q == queue[n]
             r == [i \in DOMAIN q |-> [q[i] EXCEPT !.left = IF @ < 0 THEN @ ELSE @ - 1]]
  <2>1. q \in Seq(Requests) /\ queue'[n] = r
    BY <1>1 DEF TypeOK, Tick
  <2> HIDE DEF q
  <2>2. ASSUME NEW i \in DOMAIN q
        PROVE  r[i] \in Requests /\ r[i].hash = q[i].hash /\ r[i].valid = q[i].valid
    <3> DEFINE l == IF q[i].left < 0 THEN q[i].left ELSE q[i].left - 1
    <3>1. q[i] \in Requests
      BY <2>1
    <3>2. r[i] = [q[i] EXCEPT !.left = l]
      OBVIOUS
    <3>3. l \in Int
      BY <3>1 DEF Requests
    <3> HIDE DEF l, r
    <3>4. r[i] = [hash |-> q[i].hash, valid |-> q[i].valid, left |-> l]
      BY <3>1, <3>2 DEF Requests
    <3>5. QED
      BY <3>1, <3>3, <3>4 DEF Requests
  <2>3. r \in Seq(Requests) /\ DOMAIN r = DOMAIN q
    <3>1. Len(q) \in Nat /\ DOMAIN q = 1 .. Len(q)
      BY <2>1
    <3>2. r \in [1 .. Len(q) -> Requests]
      BY <2>2, <3>1
    <3> HIDE DEF r
    <3>3. QED
      BY <3>1, <3>2
  <2>4. /\ stalling'[n] = IF stalling[n] \in {NotStalling, StallTimeout + 1}
                          THEN stalling[n] ELSE stalling[n] + 1
        /\ stalling[n] \in NotStalling .. StallTimeout + 1
    BY <1>1 DEF TypeOK, Tick
  <2> HIDE DEF r
  <2>5. SameRequests(queue[n], queue'[n])
    BY <2>1, <2>2, <2>3 DEF SameRequests, q
  <2>6. QED
    BY <2>4, <2>5, BlockDownloadAssumption DEF NotStalling
<1>3. /\ queue' \in [Peer -> Seq(Requests)] /\ stalling' \in [Peer -> NotStalling .. StallTimeout + 1]
  <2>1. /\ queue' = [n \in Peer |-> queue'[n]] /\ stalling' = [n \in Peer |-> stalling'[n]]
    BY DEF Tick
  <2>2. QED
    BY <1>2, <2>1 DEF SameRequests
<1>4. TypeOK'
  BY <1>1, <1>3 DEF TypeOK, Tick, chain, known, sync
<1>5. /\ InFlightExact' /\ QueuedCovers'
      /\ \A n \in Peer : queue[n] # << >> => queue'[n] # << >>
  BY <1>1, <1>2, <1>3, TimesStep DEF DownloadInv, Tick
<1>6. StallerOwes'
  BY <1>2, <1>5 DEF DownloadInv, StallerOwes
<1>7. QED
  BY <1>4, <1>5, <1>6, Kept DEF DownloadInv, PeersCounted, Tick, chain, known, sync

-----------------------------------------------------------------------------
\* The peer sync starts with is counted once.
LEMMA SyncDownload ==
  ASSUME DownloadInv, NEW n \in Peer, NEW recent \in BOOLEAN, conn[n] = "ready",
         StartSync(n, recent), UNCHANGED <<preferred, nPreferred>>,
         conn' = conn \/ conn' = [conn EXCEPT ![n] = "closing"]
  PROVE  /\ PeersCounted' /\ syncing' \subseteq Peer /\ nSync' \in Int
         /\ conn' \in [Peer -> {"none", "new", "ready", "closing"}]
<1>1. /\ TypeOK /\ IsFiniteSet(syncing) /\ nSync = Cardinality(syncing)
      /\ IsFiniteSet(preferred) /\ nPreferred = Cardinality(preferred)
      /\ \A m \in syncing \cup preferred : conn[m] \in {"ready", "closing"}
  BY DEF DownloadInv, PeersCounted
<1>2. \/ syncing' = syncing /\ nSync' = nSync
      \/ n \notin syncing /\ syncing' = syncing \cup {n} /\ nSync' = nSync + 1
  BY DEF StartSync
<1>3. IsFiniteSet(syncing') /\ nSync' = Cardinality(syncing')
  BY <1>1, <1>2, FS_AddElement
<1>4. syncing' \subseteq Peer /\ nSync' \in Int
  BY <1>1, <1>2 DEF TypeOK
<1>5. \A m \in syncing' \cup preferred' : conn'[m] \in {"ready", "closing"}
  <2>1. \A m \in syncing' \cup preferred' : m \in Peer /\ conn[m] \in {"ready", "closing"}
    BY <1>1, <1>2, <1>4 DEF TypeOK
  <2>2. \A m \in Peer : conn'[m] = conn[m] \/ conn'[m] = "closing"
    BY <1>1 DEF TypeOK
  <2>3. QED
    BY <2>1, <2>2
<1>6. conn' \in [Peer -> {"none", "new", "ready", "closing"}]
  BY <1>1 DEF TypeOK
<1>7. QED
  BY <1>1, <1>3, <1>4, <1>5, <1>6 DEF PeersCounted

\* A deadline that is moved changes nothing else.
LEMMA ReducedSame ==
  ASSUME TypeOK, NEW n \in Peer
  PROVE  SameRequests(queue[n], ReducedQueue(n))
<1> DEFINE q == queue[n]
           now == TimeoutBase + nQueued - nValid[n]
           r == [q EXCEPT ![1].left = now]
<1>1. q \in Seq(Requests) /\ now \in Int
  BY BlockDownloadAssumption DEF TypeOK
<1>2. ReducedQueue(n) = q \/ (q # << >> /\ ReducedQueue(n) = r)
  BY DEF ReducedQueue
<1>3. CASE ReducedQueue(n) = q
  BY <1>1, <1>3 DEF SameRequests
<1>4. CASE q # << >> /\ ReducedQueue(n) = r
  <2> HIDE DEF q, now
  <2>1. Len(q) \in Nat /\ DOMAIN q = 1 .. Len(q) /\ 1 \in DOMAIN q /\ q \in [1 .. Len(q) -> Requests]
    BY <1>1, <1>4
  <2>2. r = [q EXCEPT ![1] = [q[1] EXCEPT !.left = now]]
    OBVIOUS
  <2> HIDE DEF r
  <2>3. [q[1] EXCEPT !.left = now] = [hash |-> q[1].hash, valid |-> q[1].valid, left |-> now]
    <3>1. q[1] \in Requests
      BY <2>1
    <3>2. QED
      BY <3>1 DEF Requests
  <2>4. [hash |-> q[1].hash, valid |-> q[1].valid, left |-> now] \in Requests
    <3>1. q[1] \in Requests
      BY <2>1
    <3>2. QED
      BY <1>1, <3>1 DEF Requests
  <2>5. /\ r \in [1 .. Len(q) -> Requests]
        /\ r[1] = [hash |-> q[1].hash, valid |-> q[1].valid, left |-> now]
        /\ \A i \in DOMAIN q \ {1} : r[i] = q[i]
    BY <2>1, <2>2, <2>3, <2>4
  <2>6. r \in Seq(Requests) /\ DOMAIN r = DOMAIN q
    BY <2>1, <2>5
  <2>7. \A i \in DOMAIN q : r[i].hash = q[i].hash /\ r[i].valid = q[i].valid
    BY <2>5
  <2>8. QED
    BY <1>4, <2>6, <2>7 DEF SameRequests, q
<1>5. QED
  BY <1>2, <1>3, <1>4

\* Only the deadline is moved.
LEMMA ReducedDownload ==
  ASSUME DownloadInv, NEW n \in Peer, queue' = [queue EXCEPT ![n] = ReducedQueue(n)],
         UNCHANGED <<stalling, nBlocks, nValid, owner, nQueued>>
  PROVE  /\ InFlightExact' /\ QueuedCovers' /\ StallerOwes'
         /\ queue' \in [Peer -> Seq(Requests)]
<1>1. TypeOK /\ SameRequests(queue[n], ReducedQueue(n))
  BY ReducedSame DEF DownloadInv
<1>2. /\ queue' \in [Peer -> Seq(Requests)]
      /\ \A m \in Peer : SameRequests(queue[m], queue'[m])
  <2>1. queue \in [Peer -> Seq(Requests)] /\ ReducedQueue(n) \in Seq(Requests)
    BY <1>1 DEF TypeOK, SameRequests
  <2>2. queue' \in [Peer -> Seq(Requests)]
    BY <2>1
  <2>3. \A m \in Peer : queue'[m] = IF m = n THEN ReducedQueue(n) ELSE queue[m]
    BY <2>1
  <2>4. \A m \in Peer : SameRequests(queue[m], queue[m])
    BY <2>1 DEF SameRequests
  <2>5. QED
    BY <1>1, <2>2, <2>3, <2>4
<1>3. InFlightExact' /\ QueuedCovers' /\ \A m \in Peer : queue[m] # << >> => queue'[m] # << >>
  BY <1>1, <1>2, TimesStep DEF DownloadInv
<1>4. QED
  BY <1>2, <1>3 DEF DownloadInv, StallerOwes

\* The entries that markblockasinflight makes for the blocks of S.
RequestsFor(S, m) ==
  [i \in 1 .. Cardinality(S) |->
     Request(CHOOSE x \in S : Cardinality({y \in S : Height[y] < Height[x]}) = i - 1,
             TRUE, m + i - 1)]

\* The k entries of r ask for the blocks of S, once each.
AsksFor(S, k, r) ==
  /\ k \in Nat /\ r \in Seq(Requests) /\ Len(r) = k /\ DOMAIN r = 1 .. k
  /\ \A i \in DOMAIN r : r[i].valid /\ r[i].hash \in S
  /\ \A i, j \in DOMAIN r : r[i].hash = r[j].hash => i = j
  /\ \A x \in S : \E i \in DOMAIN r : r[i].hash = x

\* The requests for the blocks found: one each, in order of height.
LEMMA NewRequests ==
  ASSUME NEW b \in Block, NEW S \in SUBSET Ancestors[b], NEW m \in Int
  PROVE  AsksFor(S, Cardinality(S), RequestsFor(S, m))
<1> DEFINE rank(x) == Cardinality({y \in S : Height[y] < Height[x]})
           ith(i) == CHOOSE x \in S : rank(x) = i - 1
           k == Cardinality(S)
           r == [i \in 1 .. k |-> Request(ith(i), TRUE, m + i - 1)]
<1>1. /\ k \in Nat /\ \A x \in S : rank(x) \in 0 .. k - 1
      /\ \A x, z \in S : rank(x) = rank(z) => x = z
      /\ \A i \in 1 .. k : \E x \in S : rank(x) = i - 1
  BY Ranks
<1>2. S \subseteq Block
  BY Ancestry
<1> HIDE DEF rank
<1>3. \A i \in 1 .. k : ith(i) \in S /\ rank(ith(i)) = i - 1
  BY <1>1
<1> HIDE DEF ith, k
<1>4. DOMAIN r = 1 .. k
  OBVIOUS
<1>5. ASSUME NEW i \in 1 .. k
      PROVE  r[i] \in Requests /\ r[i].valid /\ r[i].hash = ith(i)
  <2> DEFINE l == TimeoutBase + (m + i - 1)
             e == r[i]
  <2>1. l \in Int /\ ith(i) \in Block
    BY <1>1, <1>2, <1>3, BlockDownloadAssumption
  <2>2. e = [hash |-> ith(i), valid |-> TRUE, left |-> l]
    BY DEF Request
  <2> HIDE DEF l, e
  <2>3. e \in Requests /\ e.valid /\ e.hash = ith(i)
    BY <2>1, <2>2 DEF Requests
  <2>4. QED
    BY <2>3 DEF e
<1> HIDE DEF r
<1>6. r \in [1 .. k -> Requests]
  <2>1. r = [i \in 1 .. k |-> r[i]]
    BY <1>4 DEF r
  <2>2. QED
    BY <1>5, <2>1
<1>7. r \in Seq(Requests) /\ Len(r) = k
  BY <1>1, <1>6
<1>8. \A i, j \in 1 .. k : ith(i) = ith(j) => i = j
  BY <1>1, <1>3
<1>9. ASSUME NEW x \in S PROVE \E i \in 1 .. k : ith(i) = x
  <2>1. rank(x) + 1 \in 1 .. k /\ (rank(x) + 1) - 1 = rank(x)
    BY <1>1
  <2>2. ith(rank(x) + 1) = x
    BY <1>1, <1>3, <2>1
  <2>3. QED
    BY <2>1, <2>2
<1>10. QED
  <2>1. /\ \A i \in DOMAIN r : r[i].valid /\ r[i].hash \in S
        /\ \A i, j \in DOMAIN r : r[i].hash = r[j].hash => i = j
        /\ \A x \in S : \E i \in DOMAIN r : r[i].hash = x
    BY <1>4, <1>3, <1>5, <1>8, <1>9
  <2>2. r = RequestsFor(S, m)
    BY DEF RequestsFor, r, k, ith, rank
  <2>3. QED
    BY <1>1, <1>4, <1>7, <2>1, <2>2 DEF k, AsksFor

\* What sendmessages is told to ask for.
LEMMA ToDownloadFact ==
  ASSUME DownloadInv, NEW n \in Peer
  PROVE  LET found == ToDownload(n)
         IN  /\ found.common \in Block \cup {NoBlock}
             /\ found.common # NoBlock => Complete(found.common)
             /\ \E b \in Block : found.fetch \in SUBSET Ancestors[b]
             /\ \A x \in found.fetch : owner[x] = NoPeer
             /\ found.staller # NoPeer => \E w \in Block : owner[w] = found.staller
<1> DEFINE target == KnownBest(n, index)
           early == target = NoBlock \/ ChainWork[target] < ChainWork[tip]
           found == ToDownload(n)
<1>1. TypeOK /\ Complete(tip) /\ CommonIsComplete /\ target \in Block \cup {NoBlock}
  BY Availability DEF DownloadInv, TypeOK
<1>2. CASE early
  <2>1. found = [common |-> common[n], fetch |-> {}, staller |-> NoPeer]
    BY <1>2 DEF ToDownload
  <2>2. common[n] \in Block \cup {NoBlock} /\ (common[n] # NoBlock => Complete(common[n]))
    BY <1>1 DEF TypeOK, CommonIsComplete
  <2> HIDE DEF found
  <2>3. {} \in SUBSET Ancestors[Genesis] /\ Genesis \in Block
    BY HeaderTreeAssumption
  <2>4. QED
    BY <2>1, <2>2, <2>3 DEF found
<1>3. CASE ~early
  <2>1. target \in Block /\ found = FindNextBlocksToDownload(n, target, MaxInTransit - nBlocks[n])
    BY <1>1, <1>3 DEF ToDownload
  <2>2. FoundInv(n, found)
    BY <1>1, <2>1, FoundFact
  <2> HIDE DEF found
  <2>3. QED
    BY <2>2 DEF FoundInv, found
<1>4. QED
  BY <1>2, <1>3

\* getdata for the blocks found.
LEMMA RequestDownload ==
  ASSUME DownloadInv, NEW n \in Peer, RequestBlocks(n)
  PROVE  /\ InFlightExact' /\ QueuedCovers' /\ StallerOwes'
         /\ stalling' \in [Peer -> NotStalling .. StallTimeout + 1]
         /\ queue' \in [Peer -> Seq(Requests)]
         /\ nBlocks' \in [Peer -> Int] /\ nValid' \in [Peer -> Int]
         /\ owner' \in [Block -> Peer \cup {NoPeer}] /\ nQueued' \in Int
         /\ best' \in [Peer -> Block \cup {NoBlock}]
         /\ unknown' \in [Peer -> Block \cup {NoBlock}]
         /\ common' \in [Peer -> Block \cup {NoBlock}]
         /\ \A m \in Peer : common'[m] # NoBlock => Complete(common'[m])
<1> DEFINE found == ToDownload(n)
           S == found.fetch
           k == Cardinality(S)
           r == RequestsFor(S, nQueued)
           h == ReducedQueue(n)
           q == h \o r
<1>1. TypeOK /\ SameRequests(queue[n], h)
  BY ReducedSame DEF DownloadInv
<1>2. /\ best' = [best EXCEPT ![n] = KnownBest(n, index)]
      /\ unknown' = [unknown EXCEPT ![n] = StillUnknown(n, index)]
      /\ common' = [common EXCEPT ![n] = found.common]
      /\ queue' = [queue EXCEPT ![n] = q]
      /\ owner' = [b \in Block |-> IF b \in S THEN n ELSE owner[b]]
      /\ nBlocks' = [nBlocks EXCEPT ![n] = @ + k]
      /\ nValid' = [nValid EXCEPT ![n] = @ + k]
      /\ nQueued' = nQueued + k
      /\ stalling' = [m \in Peer |->
                        IF m = found.staller /\ nBlocks'[n] = 0 /\ stalling[m] = NotStalling
                        THEN 0 ELSE stalling[m]]
  BY DEF RequestBlocks, RequestsFor
<1>3. /\ found.common \in Block \cup {NoBlock}
      /\ found.common # NoBlock => Complete(found.common)
      /\ \E b \in Block : S \in SUBSET Ancestors[b]
      /\ \A x \in S : owner[x] = NoPeer
      /\ found.staller # NoPeer => \E w \in Block : owner[w] = found.staller
  BY ToDownloadFact
<1> HIDE DEF found, h
<1>4. /\ k \in Nat /\ r \in Seq(Requests) /\ Len(r) = k /\ DOMAIN r = 1 .. k
      /\ \A i \in DOMAIN r : r[i].valid /\ r[i].hash \in S
      /\ \A i, j \in DOMAIN r : r[i].hash = r[j].hash => i = j
      /\ \A x \in S : \E i \in DOMAIN r : r[i].hash = x
  <2>1. PICK b \in Block : S \in SUBSET Ancestors[b]
    BY <1>3
  <2>2. nQueued \in Int
    BY <1>1 DEF TypeOK
  <2>3. AsksFor(S, k, r)
    BY <2>1, <2>2, NewRequests
  <2> HIDE DEF r, k, S
  <2>4. QED
    BY <2>3 DEF AsksFor
<1> HIDE DEF r, k
<1>5. S \subseteq Block
  <2>1. PICK b \in Block : S \in SUBSET Ancestors[b]
    BY <1>3
  <2>2. QED
    BY <2>1, Ancestry
<1> HIDE DEF S
<1>6. /\ queue[n] \in Seq(Requests) /\ h \in Seq(Requests) /\ Len(h) = Len(queue[n])
      /\ DOMAIN h = DOMAIN queue[n] /\ ValidAt(h) = ValidAt(queue[n])
      /\ \A i \in DOMAIN h : h[i].hash = queue[n][i].hash
  <2>1. queue[n] \in Seq(Requests) /\ h \in Seq(Requests) /\ DOMAIN h = DOMAIN queue[n]
    BY <1>1 DEF TypeOK, SameRequests
  <2>2. Len(h) = Len(queue[n])
    BY <2>1
  <2>3. QED
    BY <1>1, <2>1, <2>2 DEF SameRequests, ValidAt
<1>7. /\ q \in Seq(Requests) /\ Len(q) = Len(queue[n]) + k
      /\ Cardinality(ValidAt(q)) = Cardinality(ValidAt(queue[n])) + k
  <2>1. q \in Seq(Requests) /\ Len(q) = Len(h) + Len(r)
    <3>1. h \in Seq(Requests) /\ r \in Seq(Requests)
      BY <1>4, <1>6
    <3>2. QED
      BY ONLY <3>1
  <2>2. Cardinality(ValidAt(q)) = Cardinality(ValidAt(h)) + k
    BY <1>4, <1>6, ConcatCount
  <2>3. QED
    BY <1>4, <1>6, <2>1, <2>2
<1>8. /\ DOMAIN q = 1 .. Len(h) + k /\ Len(h) \in Nat /\ DOMAIN h = 1 .. Len(h)
      /\ \A i \in 1 .. Len(h) : q[i] = h[i]
      /\ \A i \in 1 .. Len(h) + k : i > Len(h) => q[i] = r[i - Len(h)]
  BY <1>4, <1>6, <1>7
<1> HIDE DEF q
<1>9. /\ Lists(queue[n], owner, n) /\ nBlocks[n] = Len(queue[n])
      /\ nValid[n] = Cardinality(ValidAt(queue[n]))
  BY ExactFact DEF DownloadInv
<1>10. \A b \in Block : owner'[b] = IF b \in S THEN n ELSE owner[b]
  BY <1>2
<1>11. Lists(q, owner', n)
  <2>1. \A i \in DOMAIN h : h[i].hash \notin S
    BY <1>3, <1>5, <1>6, <1>9, BlockDownloadAssumption DEF Lists
  <2>2. ASSUME NEW i \in DOMAIN q
        PROVE  \/ i \in DOMAIN h /\ q[i] = h[i]
               \/ i - Len(h) \in DOMAIN r /\ q[i] = r[i - Len(h)]
    BY <1>4, <1>8
  <2>3. ASSUME NEW i \in DOMAIN q, NEW j \in DOMAIN q, q[i].hash = q[j].hash PROVE i = j
    <3>1. i \in Int /\ j \in Int /\ Len(h) \in Int
      BY <1>8
    <3>2. CASE i \in DOMAIN h /\ q[i] = h[i] /\ j \in DOMAIN h /\ q[j] = h[j]
      BY <1>6, <1>9, <2>3, <3>2 DEF Lists
    <3>3. CASE /\ i - Len(h) \in DOMAIN r /\ q[i] = r[i - Len(h)]
               /\ j - Len(h) \in DOMAIN r /\ q[j] = r[j - Len(h)]
      <4>1. i - Len(h) = j - Len(h)
        BY <1>4, <2>3, <3>3
      <4>2. QED
        BY <3>1, <4>1
    <3>4. CASE i \in DOMAIN h /\ q[i] = h[i] /\ j - Len(h) \in DOMAIN r /\ q[j] = r[j - Len(h)]
      BY <1>4, <2>1, <2>3, <3>4
    <3>5. CASE j \in DOMAIN h /\ q[j] = h[j] /\ i - Len(h) \in DOMAIN r /\ q[i] = r[i - Len(h)]
      BY <1>4, <2>1, <2>3, <3>5
    <3>6. QED
      BY <2>2, <3>2, <3>3, <3>4, <3>5
  <2>4. \A i \in DOMAIN h : i \in DOMAIN q /\ q[i] = h[i]
    BY <1>4, <1>8
  <2>5. ASSUME NEW i \in DOMAIN r PROVE \E j \in DOMAIN q : q[j] = r[i]
    <3>1. i + Len(h) \in 1 .. Len(h) + k /\ i + Len(h) > Len(h) /\ (i + Len(h)) - Len(h) = i
      BY <1>4, <1>8
    <3>2. QED
      BY <1>8, <3>1
  <2>6. ASSUME NEW b \in Block PROVE owner'[b] = n <=> \E i \in DOMAIN q : q[i].hash = b
    <3>1. CASE b \in S
      BY <1>4, <1>10, <2>5, <3>1
    <3>2. CASE b \notin S
      <4>1. owner'[b] = owner[b]
        BY <1>10, <3>2
      <4>2. owner[b] = n => \E i \in DOMAIN q : q[i].hash = b
        BY <1>6, <1>9, <2>4 DEF Lists
      <4>3. ASSUME NEW i \in DOMAIN q, q[i].hash = b PROVE owner[b] = n
        <5>1. i \in DOMAIN h /\ q[i] = h[i]
          BY <1>4, <2>2, <3>2, <4>3
        <5>2. QED
          BY <1>6, <1>9, <4>3, <5>1 DEF Lists
      <4>4. QED
        BY <4>1, <4>2, <4>3
    <3>3. QED
      BY <3>1, <3>2
  <2>7. QED
    BY <2>3, <2>6 DEF Lists
<1>12. InFlightExact'
  <2>1. \A b \in Block, m \in Peer \ {n} : owner'[b] = m <=> owner[b] = m
    BY <1>3, <1>10, BlockDownloadAssumption
  <2>2. /\ nBlocks'[n] = Len(q) /\ nValid'[n] = Cardinality(ValidAt(q))
        /\ \A m \in Peer \ {n} : nBlocks'[m] = nBlocks[m] /\ nValid'[m] = nValid[m]
    BY <1>1, <1>2, <1>7, <1>9 DEF TypeOK
  <2>3. QED
    BY <1>1, <1>2, <1>7, <1>11, <2>1, <2>2, ListStep DEF DownloadInv
<1>13. QueuedCovers' /\ nQueued' \in Int
  <2>1. /\ IsFiniteSet(AllValid')
        /\ Cardinality(AllValid') =
             Cardinality(AllValid) - Cardinality(ValidAt(queue[n])) + Cardinality(ValidAt(q))
    BY <1>1, <1>2, <1>7, CountStep DEF DownloadInv
  <2>2. Cardinality(ValidAt(queue[n])) \in Nat /\ Cardinality(AllValid) \in Nat
    BY <1>6, ValidFinite, FS_CardinalityType DEF DownloadInv, QueuedCovers
  <2>3. nQueued \in Int /\ nQueued >= Cardinality(AllValid) /\ nQueued' = nQueued + k
    BY <1>1, <1>2 DEF TypeOK, DownloadInv, QueuedCovers
  <2>4. nQueued' >= Cardinality(AllValid') /\ nQueued' \in Int
    BY <1>4, <1>7, <2>1, <2>2, <2>3
  <2>5. QED
    BY <2>1, <2>4 DEF QueuedCovers
<1>14. /\ queue' \in [Peer -> Seq(Requests)]
       /\ nBlocks' \in [Peer -> Int] /\ nValid' \in [Peer -> Int]
       /\ owner' \in [Block -> Peer \cup {NoPeer}]
  <2>1. queue' \in [Peer -> Seq(Requests)]
    BY <1>1, <1>2, <1>7 DEF TypeOK
  <2>2. nBlocks' \in [Peer -> Int] /\ nValid' \in [Peer -> Int]
    BY <1>1, <1>2, <1>4 DEF TypeOK
  <2>3. owner' \in [Block -> Peer \cup {NoPeer}]
    BY <1>1, <1>2 DEF TypeOK
  <2>4. QED
    BY <2>1, <2>2, <2>3
<1>15. stalling' \in [Peer -> NotStalling .. StallTimeout + 1]
  <2>1. 0 \in NotStalling .. StallTimeout + 1
    BY BlockDownloadAssumption DEF NotStalling
  <2>2. \A m \in Peer : stalling[m] \in NotStalling .. StallTimeout + 1
    BY <1>1 DEF TypeOK
  <2>3. QED
    BY <1>2, <2>1, <2>2
<1>16. StallerOwes'
  <2>1. ASSUME NEW m \in Peer, queue[m] # << >> PROVE queue'[m] # << >>
    <3>1. CASE m # n
      BY <1>1, <1>2, <2>1, <3>1 DEF TypeOK
    <3>2. CASE m = n
      <4>1. Len(queue[n]) # 0 /\ Len(queue[n]) \in Nat
        BY <1>6, <2>1, <3>2
      <4>2. Len(q) # 0
        BY <1>4, <1>7, <4>1
      <4>3. queue'[m] = q
        BY <1>1, <1>2, <3>2 DEF TypeOK
      <4>4. QED
        BY <4>2, <4>3
    <3>3. QED
      BY <3>1, <3>2
  <2>2. ASSUME NEW m \in Peer, m = found.staller PROVE queue[m] # << >>
    <3>1. PICK w \in Block : owner[w] = m
      BY <1>3, <2>2, BlockDownloadAssumption
    <3>2. \E i \in DOMAIN queue[m] : queue[m][i].hash = w
      BY <3>1 DEF DownloadInv, InFlightExact
    <3>3. QED
      BY <3>2
  <2>3. \A m \in Peer : stalling'[m] # NotStalling => stalling[m] # NotStalling \/ m = found.staller
    BY <1>2
  <2>4. QED
    BY <2>1, <2>2, <2>3 DEF DownloadInv, StallerOwes
<1>17. /\ best' \in [Peer -> Block \cup {NoBlock}]
       /\ unknown' \in [Peer -> Block \cup {NoBlock}]
       /\ common' \in [Peer -> Block \cup {NoBlock}]
  <2>1. KnownBest(n, index) \in Block \cup {NoBlock} /\ StillUnknown(n, index) \in Block \cup {NoBlock}
    BY <1>1, Availability DEF TypeOK
  <2>2. QED
    BY <1>1, <1>2, <1>3, <2>1 DEF TypeOK
<1>18. \A m \in Peer : common'[m] # NoBlock => Complete(common'[m])
  BY <1>1, <1>2, <1>3 DEF TypeOK, DownloadInv, CommonIsComplete
<1>19. QED
  BY <1>12, <1>13, <1>14, <1>15, <1>16, <1>17, <1>18

\* sendmessages
LEMMA SendDownload ==
  ASSUME DownloadInv, NEW n \in Peer, NEW recent \in BOOLEAN, NEW ibd \in BOOLEAN,
         SendMessages(n, recent, ibd)
  PROVE  DownloadInv'
<1>1. TypeOK
  BY DEF DownloadInv
<1>2. conn' = conn \/ conn' = [conn EXCEPT ![n] = "closing"]
  BY DEF SendMessages
<1>3. /\ PeersCounted' /\ syncing' \subseteq Peer /\ nSync' \in Int
      /\ conn' \in [Peer -> {"none", "new", "ready", "closing"}]
  BY <1>2, SyncDownload DEF SendMessages
<1>4. CASE RequestBlocks(n)
  <2>1. TypeOK'
    BY <1>1, <1>3, <1>4, RequestDownload DEF TypeOK, SendMessages, chain
  <2>2. CommonIsComplete'
    <3>1. \A m \in Peer : common'[m] # NoBlock => Complete(common'[m])
      BY <1>4, RequestDownload
    <3>2. QED
      BY <3>1 DEF CommonIsComplete, Complete, SendMessages, chain
  <2>3. QED
    BY <1>3, <1>4, <2>1, <2>2, Kept, RequestDownload DEF DownloadInv, SendMessages, chain
<1>5. CASE /\ queue' = [queue EXCEPT ![n] = ReducedQueue(n)]
           /\ UNCHANGED <<known, stalling, nBlocks, nValid, owner, nQueued>>
  <2>1. InFlightExact' /\ QueuedCovers' /\ StallerOwes' /\ queue' \in [Peer -> Seq(Requests)]
    BY <1>5, ReducedDownload
  <2>2. TypeOK'
    BY <1>1, <1>3, <1>5, <2>1 DEF TypeOK, SendMessages, chain, known
  <2>3. QED
    BY <1>3, <1>5, <2>1, <2>2, Kept DEF DownloadInv, SendMessages, chain, known
<1>6. CASE UNCHANGED <<known, inFlight>>
  <2>1. TypeOK'
    BY <1>1, <1>3, <1>6 DEF TypeOK, SendMessages, chain, known, inFlight
  <2>2. QED
    BY <1>3, <1>6, <2>1, Kept DEF DownloadInv, SendMessages, chain, known, inFlight
<1>7. QED
  BY <1>4, <1>5, <1>6 DEF SendMessages

-----------------------------------------------------------------------------
\* Every step keeps the invariant.
LEMMA DownloadStep == DownloadInv /\ [Next]_vars => DownloadInv'
<1> SUFFICES ASSUME DownloadInv, [Next]_vars PROVE DownloadInv'
  OBVIOUS
<1>1. CASE UNCHANGED vars
  <2>1. TypeOK'
    BY <1>1 DEF DownloadInv, TypeOK, vars, chain, known, sync, inFlight
  <2>2. QED
    BY <1>1, <2>1, Kept DEF DownloadInv, PeersCounted, vars, chain, known, sync, inFlight
<1>2. CASE Tick
  BY <1>2, TickDownload
<1>3. CASE ActivateBestChain
  BY <1>3, ActivateDownload
<1>4. ASSUME NEW n \in Peer, Connect(n) PROVE DownloadInv'
  BY <1>4, ConnectDownload
<1>5. ASSUME NEW n \in Peer, Version(n) PROVE DownloadInv'
  BY <1>5, VersionDownload
<1>6. ASSUME NEW n \in Peer, FinalizeNode(n) PROVE DownloadInv'
  BY <1>6, FinalizeDownload
<1>7. ASSUME NEW n \in Peer, SendToPeer(n) PROVE DownloadInv'
  BY <1>7, SendDownload DEF SendToPeer
<1>8. ASSUME NEW n \in Peer, NEW b \in Block, NEW flag \in BOOLEAN,
             Inv(n, b, flag) \/ Headers(n, b, flag) \/ BlockMessage(n, b, flag)
      PROVE  DownloadInv'
  BY <1>8, InvDownload, HeadersDownload, BlockMessageDownload
<1>9. QED
  BY <1>1, <1>2, <1>3, <1>4, <1>5, <1>6, <1>7, <1>8 DEF Next

\* The invariant of block download holds in every reachable state.
THEOREM DownloadInvariance == Spec => []DownloadInv
<1>1. Init => DownloadInv
  BY InitDownload
<1>2. QED
  BY <1>1, DownloadStep, PTL DEF Spec

\* The node knows the blocks it stores and judges, and peers and requests have
\* their types, whatever peers announce, send or withhold.
THEOREM TypeCorrect == Spec => []TypeOK
<1>1. DownloadInv => TypeOK
  BY DEF DownloadInv
<1>2. QED
  BY <1>1, DownloadInvariance, PTL

\* mapblocksinflight and the vblocksinflight of the peers describe the same
\* requests: markblockasinflight, markblockasreceived and finalizenode leave no
\* iterator that points into the list of another peer, and no wrong counter.
THEOREM RequestsAlwaysExact == Spec => []InFlightExact
<1>1. DownloadInv => InFlightExact
  BY DEF DownloadInv
<1>2. QED
  BY <1>1, DownloadInvariance, PTL

\* Only a peer that owes a block is marked by nstallingsince, so only such a peer
\* is disconnected for stalling the download.
THEOREM StallerAlwaysOwes == Spec => []StallerOwes
<1>1. DownloadInv => StallerOwes
  BY DEF DownloadInv
<1>2. QED
  BY <1>1, DownloadInvariance, PTL

\* nsyncstarted and npreferreddownload count connected peers, and
\* nqueuedvalidatedheaders covers the validated requests, whichever way peers
\* come and go.
THEOREM CountersAlwaysSound == Spec => []GlobalCountersSound
<1>1. DownloadInv => GlobalCountersSound
  BY DEF DownloadInv, PeersCounted, QueuedCovers, GlobalCountersSound
<1>2. QED
  BY <1>1, DownloadInvariance, PTL

\* pindexlastcommonblock and all before it are stored, so the walk of
\* findnextblockstodownload never starts above a missing block.
THEOREM CommonAlwaysComplete == Spec => []CommonIsComplete
<1>1. DownloadInv => CommonIsComplete
  BY DEF DownloadInv
<1>2. QED
  BY <1>1, DownloadInvariance, PTL
=============================================================================
