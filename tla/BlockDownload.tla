--------------------------- MODULE BlockDownload ---------------------------
(***************************************************************************)
(* Who is asked for which block (main.cpp: cnodestate, mapblocksinflight,  *)
(* findnextblockstodownload and the block part of sendmessages).  Peers    *)
(* may announce, send, repeat, withhold or damage any block at any time    *)
(* and disconnect without notice.                                          *)
(*                                                                         *)
(* Every handler here holds cs_main, so one handler is one action.  Time   *)
(* is relative: a request carries the time left until its ntimedisconnect  *)
(* and a staller the time since nstallingsince, in units of half the block *)
(* interval, the unit of getblocktimeout.  Conditions on timestamps of     *)
(* blocks ("close to being synced", isinitialblockdownload) are free       *)
(* inputs.  Which chain is active is decided elsewhere (BlockTree); here   *)
(* it is the complete valid chain with the most work.  Importing, pruned   *)
(* blocks and whitelisted peers' unrequested blocks are left out.          *)
(***************************************************************************)
EXTENDS HeaderTree, SequencesExt

CONSTANTS
  Peer,          \* node ids
  NoPeer,
  NoBlock,
  Preferable,    \* peers that updatepreferreddownload prefers
  Client,        \* peers with fclient
  OneShot,       \* peers with foneshot
  BadBlock,      \* blocks that contextualcheckblock rejects
  MaxInTransit,  \* max_blocks_in_transit_per_peer
  Window,        \* block_download_window
  TimeoutBase,   \* the 4 of getblocktimeout
  StallTimeout,  \* block_stalling_timeout
  MaxConnect     \* bound: number of connections

ASSUME BlockDownloadAssumption ==
  /\ NoPeer \notin Peer /\ NoBlock \notin Block
  /\ Preferable \subseteq Peer \ (Client \cup OneShot)
  /\ BadBlock \subseteq Block \ {Genesis}
  /\ MaxInTransit \in Nat \ {0} /\ Window \in Nat \ {0}
  /\ TimeoutBase \in Nat /\ StallTimeout \in Nat /\ MaxConnect \in Nat

VARIABLES
  index,      \* mapblockindex
  failed,     \* block_failed_valid
  haveData,   \* block_have_data
  tip,        \* chainactive.tip()
  conn,       \* "none", "new" before the version message, "ready", "closing" with
              \* fdisconnect
  best,       \* pindexbestknownblock
  unknown,    \* hashlastunknownblock
  common,     \* pindexlastcommonblock
  syncing,    \* peers with fsyncstarted
  preferred,  \* peers with fpreferreddownload
  stalling,   \* time since nstallingsince, or NotStalling
  queue,      \* vblocksinflight
  nBlocks,    \* nblocksinflight
  nValid,     \* nblocksinflightvalidheaders
  owner,      \* mapblocksinflight
  nQueued,    \* nqueuedvalidatedheaders
  nSync,      \* nsyncstarted
  nPreferred, \* npreferreddownload
  connects    \* number of connections made

chain    == <<index, failed, haveData, tip>>
known    == <<best, unknown, common>>
sync     == <<syncing, preferred, nSync, nPreferred>>
inFlight == <<stalling, queue, nBlocks, nValid, owner, nQueued>>
vars     == <<chain, conn, known, sync, inFlight, connects>>

NotStalling == -1

Init ==
  /\ index = {Genesis} /\ failed = {} /\ haveData = {Genesis} /\ tip = Genesis
  /\ conn = [n \in Peer |-> "none"]
  /\ best = [n \in Peer |-> NoBlock]
  /\ unknown = [n \in Peer |-> NoBlock]
  /\ common = [n \in Peer |-> NoBlock]
  /\ syncing = {} /\ preferred = {} /\ nSync = 0 /\ nPreferred = 0
  /\ stalling = [n \in Peer |-> NotStalling]
  /\ queue = [n \in Peer |-> << >>]
  /\ nBlocks = [n \in Peer |-> 0] /\ nValid = [n \in Peer |-> 0]
  /\ owner = [b \in Block |-> NoPeer]
  /\ nQueued = 0
  /\ connects = 0

-----------------------------------------------------------------------------
\* initializenode
Connect(n) ==
  /\ conn[n] = "none"
  /\ connects < MaxConnect
  /\ conn' = [conn EXCEPT ![n] = "new"]
  /\ connects' = connects + 1
  /\ UNCHANGED <<chain, known, sync, inFlight>>

\* The version message, with updatepreferreddownload.
Version(n) ==
  /\ conn[n] = "new"
  /\ conn' = [conn EXCEPT ![n] = "ready"]
  /\ preferred' = IF n \in Preferable THEN preferred \cup {n} ELSE preferred \ {n}
  /\ nPreferred' = nPreferred - (IF n \in preferred THEN 1 ELSE 0)
                              + (IF n \in Preferable THEN 1 ELSE 0)
  /\ UNCHANGED <<chain, known, syncing, nSync, inFlight, connects>>

\* Mutant: mapblocksinflight keeps the entries of a peer that is gone.
OwnersKept(n) == owner

\* finalizenode erases the blocks of vblocksinflight from mapblocksinflight.
OwnersWithout(n) ==
  [b \in Block |-> IF \E i \in DOMAIN queue[n] : queue[n][i].hash = b
                   THEN NoPeer ELSE owner[b]]

\* finalizenode: the socket is closed, by either side, and the state erased.
FinalizeNode(n) ==
  /\ conn[n] # "none"
  /\ conn' = [conn EXCEPT ![n] = "none"]
  /\ best' = [best EXCEPT ![n] = NoBlock]
  /\ unknown' = [unknown EXCEPT ![n] = NoBlock]
  /\ common' = [common EXCEPT ![n] = NoBlock]
  /\ syncing' = syncing \ {n}
  /\ nSync' = nSync - (IF n \in syncing THEN 1 ELSE 0)
  /\ preferred' = preferred \ {n}
  /\ nPreferred' = nPreferred - (IF n \in preferred THEN 1 ELSE 0)
  /\ stalling' = [stalling EXCEPT ![n] = NotStalling]
  /\ owner' = OwnersWithout(n)
  /\ queue' = [queue EXCEPT ![n] = << >>]
  /\ nBlocks' = [nBlocks EXCEPT ![n] = 0]
  /\ nValid' = [nValid EXCEPT ![n] = 0]
  /\ UNCHANGED <<chain, nQueued, connects>>

-----------------------------------------------------------------------------
\* processblockavailability and updateblockavailability, for the index idx.
Better(b, old) ==
  IF old = NoBlock \/ ChainWork[b] >= ChainWork[old] THEN b ELSE old
KnownBest(n, idx) ==
  IF unknown[n] \in idx THEN Better(unknown[n], best[n]) ELSE best[n]
StillUnknown(n, idx) ==
  IF unknown[n] \in idx THEN NoBlock ELSE unknown[n]

UpdateBlockAvailability(n, b, idx) ==
  /\ best' = [best EXCEPT ![n] = IF b \in idx THEN Better(b, KnownBest(n, idx))
                                 ELSE KnownBest(n, idx)]
  /\ unknown' = [unknown EXCEPT ![n] = IF b \in idx THEN StillUnknown(n, idx) ELSE b]

\* A new entry of vblocksinflight, requested when m validated blocks are queued.
Request(b, validated, m) ==
  [hash |-> b, valid |-> validated, left |-> TimeoutBase + m]

\* A block that is neither known nor in flight is asked for directly if the node
\* is close to being synced and the peer has not reached its limit.
AskAtOnce(n, b, recent) ==
  b \notin index /\ owner[b] = NoPeer /\ recent /\ nBlocks[n] < MaxInTransit

\* An inv message for one block.
Inv(n, b, recent) ==
  /\ conn[n] = "ready"
  /\ UpdateBlockAvailability(n, b, index)
  /\ IF AskAtOnce(n, b, recent)
     THEN /\ queue' = [queue EXCEPT ![n] = Append(@, Request(b, FALSE, nQueued))]
          /\ nBlocks' = [nBlocks EXCEPT ![n] = @ + 1]
          /\ owner' = [owner EXCEPT ![b] = n]
     ELSE UNCHANGED <<queue, nBlocks, owner>>
  /\ UNCHANGED <<chain, conn, common, sync, stalling, nValid, nQueued, connects>>

\* acceptblockheader
HeaderOk(b) ==
  IF b \in index THEN b \notin failed
  ELSE Parent[b] \in index /\ Parent[b] \notin failed

\* A headers message that ends in b, or whose part after b is refused.
Headers(n, b, complete) ==
  /\ conn[n] = "ready"
  /\ b # Genesis
  /\ HeaderOk(b)
  /\ index' = index \cup {b}
  /\ IF complete THEN UpdateBlockAvailability(n, b, index')
     ELSE UNCHANGED <<best, unknown>>
  /\ UNCHANGED <<failed, haveData, tip, conn, common, sync, inFlight, connects>>

-----------------------------------------------------------------------------
Place(n, b) == CHOOSE i \in DOMAIN queue[n] : queue[n][i].hash = b

\* Mutant: a late answer does not end the stall.
StallKept(n) == stalling

\* Any block that arrives, from whichever peer, ends its owner's stall.
StallEnded(n) == [stalling EXCEPT ![n] = NotStalling]

\* fvalidatedheaders as a number.
Weight(entry) == IF entry.valid THEN 1 ELSE 0

\* markblockasreceived
MarkBlockAsReceived(b) ==
  IF owner[b] = NoPeer THEN UNCHANGED inFlight
  ELSE LET n == owner[b]
           v == Weight(queue[n][Place(n, b)])
       IN  /\ nQueued' = nQueued - v
           /\ nValid' = [nValid EXCEPT ![n] = @ - v]
           /\ queue' = [queue EXCEPT ![n] = RemoveAt(@, Place(n, b))]
           /\ nBlocks' = [nBlocks EXCEPT ![n] = @ - 1]
           /\ stalling' = StallEnded(n)
           /\ owner' = [owner EXCEPT ![b] = NoPeer]

\* acceptblock's tests before the block is checked and stored.
Wanted(b) ==
  /\ HeaderOk(b)
  /\ b \notin haveData
  /\ owner[b] # NoPeer \/ ChainWork[b] > ChainWork[tip]

\* A block message up to the end of acceptblock.  An intact one passes
\* checkblock; a damaged one has the hash of b and other transactions.
BlockMessage(n, b, intact) ==
  /\ conn[n] = "ready"
  /\ b # Genesis
  /\ MarkBlockAsReceived(b)
  /\ index' = IF intact /\ HeaderOk(b) THEN index \cup {b} ELSE index
  /\ haveData' = IF intact /\ Wanted(b) /\ b \notin BadBlock
                 THEN haveData \cup {b} ELSE haveData
  /\ failed' = IF intact /\ Wanted(b) /\ b \in BadBlock
               THEN failed \cup {b} ELSE failed
  /\ UNCHANGED <<tip, conn, known, sync, connects>>

\* activatebestchain; nchaintx is set on complete blocks.
Complete(b) == Ancestors[b] \subseteq haveData
ActivateBestChain ==
  /\ \E b \in index :
       /\ Complete(b) /\ ChainWork[b] > ChainWork[tip]
       /\ \A c \in index : Complete(c) => ChainWork[c] <= ChainWork[b]
       /\ tip' = b
  /\ UNCHANGED <<index, failed, haveData, conn, known, sync, inFlight, connects>>

-----------------------------------------------------------------------------
\* Where findnextblockstodownload starts to walk towards target: a guess on
\* the active chain or the last common block, moved back to target's branch.
WalkStart(n, target) ==
  LET h == IF Height[target] < Height[tip] THEN Height[target] ELSE Height[tip]
      guess == IF common[n] # NoBlock THEN common[n]
               ELSE CHOOSE x \in Ancestors[tip] : Height[x] = h
  IN  LastCommonAncestor(guess, target)

\* Mutant: nchaintx is not looked at.
SharedHere(b) == b \in haveData

\* A block that the walk takes for a common one.
Shared(b) == b \in haveData /\ Complete(b)

\* The walk: it ends at an invalid block, when count blocks are found, or at a
\* missing block beyond the window.
FindNextBlocksToDownload(n, target, count) ==
  LET start    == WalkStart(n, target)
      end      == Height[start] + Window
      walk     == {x \in Ancestors[target] \ Ancestors[start] : Height[x] <= end + 1}
      valid    == {x \in walk : Ancestors[x] \cap walk \cap failed = {}}
      missing  == {x \in valid : x \notin haveData /\ owner[x] = NoPeer}
      inWindow == {x \in missing : Height[x] <= end}
      fetch    == {x \in inWindow :
                     Cardinality({y \in inWindow : Height[y] < Height[x]}) < count}
      visited  == IF Cardinality(fetch) = count
                  THEN {x \in valid : \E y \in fetch : Height[x] <= Height[y]}
                  ELSE valid
      complete == {start} \cup {x \in visited : Shared(x)}
      waiting  == {x \in visited : x \notin haveData /\ owner[x] # NoPeer}
      stalled  == missing # {} /\ fetch = {} /\ waiting # {}
                    /\ owner[Lowest(waiting)] # n
  IN  [common  |-> Highest(complete),
       fetch   |-> fetch,
       staller |-> IF stalled THEN owner[Lowest(waiting)] ELSE NoPeer]

\* The call of it from sendmessages, with its early return.
ToDownload(n) ==
  LET target == KnownBest(n, index)
  IN  IF target = NoBlock \/ ChainWork[target] < ChainWork[tip]
      THEN [common |-> common[n], fetch |-> {}, staller |-> NoPeer]
      ELSE FindNextBlocksToDownload(n, target, MaxInTransit - nBlocks[n])

-----------------------------------------------------------------------------
\* ffetch: a nice peer, or there are no nice peers and this one might do.
Nice(n) == n \in preferred \/ (nPreferred = 0 /\ n \notin Client \cup OneShot)

\* Mutant: a peer that is already syncing is counted again.
StartSyncAgain(n, recent) ==
  LET start == n \notin Client /\ ((nSync = 0 /\ Nice(n)) \/ recent)
  IN  /\ syncing' = IF start THEN syncing \cup {n} ELSE syncing
      /\ nSync' = IF start /\ nSync <= Cardinality(Peer) THEN nSync + 1 ELSE nSync

\* Start block sync, with a single peer unless the headers are recent.
StartSync(n, recent) ==
  LET start == /\ n \notin syncing /\ n \notin Client
               /\ (nSync = 0 /\ Nice(n)) \/ recent
  IN  /\ syncing' = IF start THEN syncing \cup {n} ELSE syncing
      /\ nSync' = IF start THEN nSync + 1 ELSE nSync

\* The oldest request's deadline, moved to what it would be if requested now.
ReducedQueue(n) ==
  LET now == TimeoutBase + nQueued - nValid[n]
  IN  IF queue[n] = << >> \/ queue[n][1].left <= now THEN queue[n]
      ELSE [queue[n] EXCEPT ![1].left = now]

\* Mutant: only validated requests time out.
TimedOutValidated(n) ==
  queue[n] # << >> /\ ReducedQueue(n)[1].valid /\ ReducedQueue(n)[1].left < 0

Stalled(n)  == stalling[n] # NotStalling /\ stalling[n] > StallTimeout
TimedOut(n) == queue[n] # << >> /\ ReducedQueue(n)[1].left < 0

\* getdata for the blocks found, markblockasinflight for each, in order of
\* height; a peer that gets nothing because of another starts the other's
\* stall.
RequestBlocks(n) ==
  LET found == ToDownload(n)
      k     == Cardinality(found.fetch)
      ith(i) == CHOOSE x \in found.fetch :
                  Cardinality({y \in found.fetch : Height[y] < Height[x]}) = i - 1
  IN  /\ best' = [best EXCEPT ![n] = KnownBest(n, index)]
      /\ unknown' = [unknown EXCEPT ![n] = StillUnknown(n, index)]
      /\ common' = [common EXCEPT ![n] = found.common]
      /\ queue' = [queue EXCEPT ![n] = ReducedQueue(n) \o
                     [i \in 1 .. k |-> Request(ith(i), TRUE, nQueued + i - 1)]]
      /\ owner' = [b \in Block |-> IF b \in found.fetch THEN n ELSE owner[b]]
      /\ nBlocks' = [nBlocks EXCEPT ![n] = @ + k]
      /\ nValid' = [nValid EXCEPT ![n] = @ + k]
      /\ nQueued' = nQueued + k
      /\ stalling' = [m \in Peer |->
                        IF m = found.staller /\ nBlocks'[n] = 0 /\ stalling[m] = NotStalling
                        THEN 0 ELSE stalling[m]]

MayRequest(n, ibd) ==
  n \notin Client /\ (Nice(n) \/ ~ibd) /\ nBlocks[n] < MaxInTransit

\* The part of sendmessages that follows the inventory.
SendMessages(n, recent, ibd) ==
  /\ conn[n] = "ready"
  /\ StartSync(n, recent)
  /\ \/ /\ Stalled(n)
        /\ conn' = [conn EXCEPT ![n] = "closing"]
        /\ UNCHANGED <<known, inFlight>>
     \/ /\ ~Stalled(n) /\ TimedOut(n)
        /\ conn' = [conn EXCEPT ![n] = "closing"]
        /\ queue' = [queue EXCEPT ![n] = ReducedQueue(n)]
        /\ UNCHANGED <<known, stalling, nBlocks, nValid, owner, nQueued>>
     \/ /\ ~Stalled(n) /\ ~TimedOut(n) /\ MayRequest(n, ibd)
        /\ RequestBlocks(n)
        /\ UNCHANGED conn
     \/ /\ ~Stalled(n) /\ ~TimedOut(n) /\ ~MayRequest(n, ibd)
        /\ queue' = [queue EXCEPT ![n] = ReducedQueue(n)]
        /\ UNCHANGED <<conn, known, stalling, nBlocks, nValid, owner, nQueued>>
  /\ UNCHANGED <<chain, preferred, nPreferred, connects>>

\* Time passes; what is overdue stays so.
Tick ==
  /\ queue' = [n \in Peer |-> [i \in DOMAIN queue[n] |->
                 [queue[n][i] EXCEPT !.left = IF @ < 0 THEN @ ELSE @ - 1]]]
  /\ stalling' = [n \in Peer |-> IF stalling[n] \in {NotStalling, StallTimeout + 1}
                                 THEN stalling[n] ELSE stalling[n] + 1]
  /\ UNCHANGED <<chain, conn, known, sync, nBlocks, nValid, owner, nQueued, connects>>

-----------------------------------------------------------------------------
SendToPeer(n) == \E recent, ibd \in BOOLEAN : SendMessages(n, recent, ibd)
Expire(n) == conn[n] = "ready" /\ TimedOut(n) /\ SendToPeer(n)
Reap(n) == conn[n] = "closing" /\ FinalizeNode(n)

Next ==
  \/ Tick \/ ActivateBestChain
  \/ \E n \in Peer :
       \/ Connect(n) \/ Version(n) \/ FinalizeNode(n) \/ SendToPeer(n)
       \/ \E b \in Block, flag \in BOOLEAN :
            Inv(n, b, flag) \/ Headers(n, b, flag) \/ BlockMessage(n, b, flag)

Spec == Init /\ [][Next]_vars

\* The clock runs, the message handler comes back to a peer that is overdue, and
\* the socket handler deletes the nodes that are marked for it.
FairSpec ==
  /\ Spec
  /\ WF_vars(Tick)
  /\ \A n \in Peer : WF_vars(Expire(n)) /\ WF_vars(Reap(n))

-----------------------------------------------------------------------------
Requests == [hash : Block, valid : BOOLEAN, left : Int]

\* The node knows the blocks it stores and judges, peers and requests have their
\* types, and the tip is a stored block.
TypeOK ==
  /\ index \subseteq Block /\ failed \subseteq index /\ haveData \subseteq index
  /\ tip \in haveData
  /\ conn \in [Peer -> {"none", "new", "ready", "closing"}]
  /\ best \in [Peer -> Block \cup {NoBlock}]
  /\ unknown \in [Peer -> Block \cup {NoBlock}]
  /\ common \in [Peer -> Block \cup {NoBlock}]
  /\ syncing \subseteq Peer /\ preferred \subseteq Peer
  /\ stalling \in [Peer -> NotStalling .. StallTimeout + 1]
  /\ queue \in [Peer -> Seq(Requests)]
  /\ nBlocks \in [Peer -> Int] /\ nValid \in [Peer -> Int]
  /\ owner \in [Block -> Peer \cup {NoPeer}]
  /\ nQueued \in Int /\ nSync \in Int /\ nPreferred \in Int
  /\ connects \in 0 .. MaxConnect

\* mapblocksinflight and the peers' vblocksinflight describe the same requests:
\* each block is asked of at most one peer at a time, every iterator that the
\* map holds points into the list of the peer beside it, and the peer's two
\* counters count that list.
InFlightExact ==
  /\ \A n \in Peer : \A i, j \in DOMAIN queue[n] :
       queue[n][i].hash = queue[n][j].hash => i = j
  /\ \A n \in Peer, b \in Block :
       owner[b] = n <=> \E i \in DOMAIN queue[n] : queue[n][i].hash = b
  /\ \A n \in Peer :
       /\ nBlocks[n] = Len(queue[n])
       /\ nValid[n] = Cardinality({i \in DOMAIN queue[n] : queue[n][i].valid})

\* Only a peer that owes a block can be disconnected for stalling.
StallerOwes == \A n \in Peer : stalling[n] # NotStalling => queue[n] # << >>

AllValid == UNION {{<<n, i>> : i \in {j \in DOMAIN queue[n] : queue[n][j].valid}} : n \in Peer}

\* The global counters behind peer selection and timeouts survive every way a
\* peer can come and go: nsyncstarted and npreferreddownload count the connected
\* peers they are about, or no peer would ever be chosen again to sync with, and
\* nqueuedvalidatedheaders never falls below the number of validated blocks in
\* flight, so that no request gets less than getblocktimeout's base time.
GlobalCountersSound ==
  /\ nSync = Cardinality(syncing) /\ nPreferred = Cardinality(preferred)
  /\ \A n \in syncing \cup preferred : conn[n] \in {"ready", "closing"}
  /\ nQueued >= Cardinality(AllValid)

\* pindexlastcommonblock is "the last full block we both have": we have it and
\* all before it, so nothing below the start of the walk is ever missing.
CommonIsComplete == \A n \in Peer : common[n] # NoBlock => Complete(common[n])

\* A request does not block its block for ever: it is answered, by whoever, or
\* its peer is disconnected and the block can be asked of another.
RequestEnds == \A n \in Peer, b \in Block : (owner[b] = n) ~> (owner[b] # n)
=============================================================================
