----------------------------- MODULE FlushState -----------------------------
(***************************************************************************)
(* Where the node keeps its chain and in which order it is saved: block and *)
(* undo files (findblockpos, findundopos, flushblockfile), the block index  *)
(* database, the coin database and flushstatetodisk, with a crash of the    *)
(* process or of the machine, or a failing write, between any two of them.  *)
(*                                                                          *)
(* The files have a copy in the page cache, which a crash of the process    *)
(* leaves alone, and one on the disk, which filecommit brings up to date.   *)
(* A block and its undo data take one place of a file each.  Which block is *)
(* connected or disconnected next is chain selection (module BlockTree) and *)
(* free here; blocks are valid.  Genesis is the block at which the model    *)
(* starts, deep in the chain; its coins are BaseCoins.                      *)
(*                                                                          *)
(* cs_main is held by every operation, so a flush interleaves with nothing  *)
(* but faults.                                                              *)
(***************************************************************************)
EXTENDS HeaderTree, BlockUndo

CONSTANTS
  Zeros,        \* what a place that was never written holds
  Vtx,          \* the transactions of each block after Genesis
  BaseCoins,    \* the coins at Genesis
  BaseHeight,   \* nheight of Genesis
  MaxFile,      \* the last block file number that is used
  Capacity,     \* blocks per file (max_blockfile_size)
  MaxUndo,      \* places for undo data per file
  MaxFaults,    \* bound on crashes and failing writes
  MaxFileFaults,\* so many of them, the first ones, may be failures of a file
  MaxEvents     \* bound on them together with the blocks whose data is stored

ASSUME FlushStateAssumption ==
  /\ MaxFile \in Nat
  /\ BaseHeight \in Nat \ {0}
  /\ {Capacity, MaxUndo} \subseteq Nat \ {0}
  /\ {MaxFaults, MaxFileFaults, MaxEvents} \subseteq Nat
  /\ DOMAIN Vtx = Block \ {Genesis}
  /\ Zeros \notin Block

TxIds == DOMAIN BaseCoins

\* What checkblock and checktransaction make sure of, and hashes: the first
\* transaction is the coinbase and the only one, and no two have the same id; an
\* output is not null.  BaseCoins are coins as the database has them.
ASSUME TransactionsAssumption ==
  /\ \A b \in Block \ {Genesis} :
       /\ Vtx[b] \in Seq([id : TxIds, fcoinbase : BOOLEAN, vin : Seq([hash : TxIds, n : Nat]),
                          vout : Seq(Nat \ {0}), unspendable : SUBSET Nat])
       /\ Vtx[b] # <<>> /\ Vtx[b][1].vin = <<>>
       /\ \A i \in DOMAIN Vtx[b] : Vtx[b][i].fcoinbase <=> i = 1
       /\ \A i, j \in DOMAIN Vtx[b] : Vtx[b][i].id = Vtx[b][j].id => i = j
  /\ BaseCoins \in [TxIds -> [fcoinbase : BOOLEAN, nheight : Nat, vout : Seq(Nat)]]
  /\ \A id \in TxIds : \/ BaseCoins[id] = NoCoins
                       \/ /\ BaseCoins[id].nheight # 0 /\ BaseCoins[id].vout # <<>>
                          /\ BaseCoins[id].vout[Len(BaseCoins[id].vout)] # 0

VARIABLES
  idx,        \* mapblockindex: position of the data and of the undo data
  dirtyIdx,   \* setdirtyblockindex
  info,       \* vinfoblockfile: nsize and nundosize
  dirtyInfo,  \* setdirtyfileinfo
  lastFile,   \* nlastblockfile
  tip,        \* pcoinstip: best block and coins
  blk,        \* block files in the page cache: place -> block
  rev,        \* undo files in the page cache: place -> undo data
  blkDisk, revDisk,             \* the same files on the disk
  idxDb, infoDb, lastFileDb,    \* blocks/index
  coinsDb,    \* chainstate: best block and coins
  coinsDisk,  \* an earlier chainstate that a power failure may bring back
  pc,         \* how far flushstatetodisk is
  full,       \* fdofullflush
  faults,     \* number of crashes and failing writes
  lost,       \* history: blocks in blocks/index whose undo data a power failure changed
  failed      \* history: what has failed: "block" or "undo" data was not written although
              \* the index says so, a file was not committed ("commit"), a database
              \* was not written ("index", "coins")

memory == <<idx, dirtyIdx, info, dirtyInfo, lastFile, tip>>
files  == <<blk, rev, blkDisk, revDisk>>
dbs    == <<idxDb, infoDb, lastFileDb, coinsDb, coinsDisk>>
control == <<pc, full>>
history == <<faults, lost, failed>>
vars == <<memory, files, dbs, control, history>>

Files == 0..MaxFile
NoPos == [file |-> -1, at |-> 0]
NoData == [data |-> NoPos, undo |-> NoPos]
NoUndo == [prev |-> Zeros, vtxundo |-> <<>>]
EmptyInfo == [nsize |-> 0, nundo |-> 0]
EmptyBlk == [f \in Files |-> [p \in 0..(Capacity - 1) |-> Zeros]]
EmptyRev == [f \in Files |-> [p \in 0..(MaxUndo - 1) |-> NoUndo]]
BaseState == [best |-> Genesis, coins |-> BaseCoins]

NHeight(b) == BaseHeight + Height[b]

Init ==
  /\ idx = [b \in Block |-> NoData]
  /\ idxDb = idx
  /\ dirtyIdx = {}
  /\ info = [f \in Files |-> EmptyInfo]
  /\ infoDb = info
  /\ dirtyInfo = {}
  /\ lastFile = 0
  /\ lastFileDb = 0
  /\ tip = BaseState
  /\ coinsDb = BaseState
  /\ coinsDisk = BaseState
  /\ blk = EmptyBlk
  /\ blkDisk = EmptyBlk
  /\ rev = EmptyRev
  /\ revDisk = EmptyRev
  /\ pc = "run"
  /\ full = FALSE
  /\ faults = 0
  /\ lost = {}
  /\ failed = {}

\* The bounds: crashes and failing writes, and these together with the blocks.
Events == faults + Cardinality({b \in Block : idx[b].data # NoPos})

Fault ==
  /\ faults < MaxFaults
  /\ Events < MaxEvents
  /\ faults' = faults + 1

FileFault == Fault /\ faults < MaxFileFaults

\* The file operations that fail in a step after which the code goes on, if any.
Failing(bad) ==
  \/ bad = {} /\ UNCHANGED <<faults, failed>>
  \/ bad # {} /\ FileFault /\ failed' = failed \cup bad

-----------------------------------------------------------------------------
\* Mutant: only the block file is committed.
FlushBlockFileOnly(b, r, bad) ==
  /\ blkDisk' = [blkDisk EXCEPT ![lastFile] = b[lastFile]]
  /\ UNCHANGED revDisk

\* flushblockfile: the two files numbered nlastblockfile are committed, as b and
\* r, the files in the page cache, have them.  Nobody learns that this failed; a
\* later PowerFailure may then lose either file or none.
FlushBlockFile(b, r, bad) ==
  IF "commit" \in bad
  THEN UNCHANGED <<blkDisk, revDisk>>
  ELSE /\ blkDisk' = [blkDisk EXCEPT ![lastFile] = b[lastFile]]
       /\ revDisk' = [revDisk EXCEPT ![lastFile] = r[lastFile]]

\* ffinalize: a file that is left is first cut to its size.
Cut(fs, size, null) ==
  [fs EXCEPT ![lastFile] = [p \in DOMAIN @ |-> IF p >= size THEN null ELSE @[p]]]

\* findblockpos: the files with room, from the last one on; the first of them is
\* used.
WithRoom == {f \in lastFile..MaxFile : info[f].nsize < Capacity}

NextFile == Min(WithRoom)
LeftBlk == IF NextFile = lastFile THEN blk ELSE Cut(blk, info[lastFile].nsize, Zeros)
LeftRev == IF NextFile = lastFile THEN rev ELSE Cut(rev, info[lastFile].nundo, NoUndo)

\* findblockpos: a file without room is cut, committed and left; the place is
\* taken in vinfoblockfile before anything is written.
FindBlockPos(bad) ==
  /\ WithRoom # {}
  /\ IF NextFile = lastFile THEN bad = {} /\ UNCHANGED <<blkDisk, revDisk>>
                            ELSE FlushBlockFile(LeftBlk, LeftRev, bad)
  /\ lastFile' = NextFile
  /\ info' = [info EXCEPT ![NextFile].nsize = @ + 1]
  /\ rev' = LeftRev

\* acceptblock from findblockpos on: the data is written to the file and
\* receivedblocktransactions marks the index entry, which forgets undo data.
\* If writeblocktodisk returns false, abortnode() starts the shutdown and
\* acceptblock goes on all the same; a failing fclose is not noticed at all.
AcceptBlock(b) ==
  /\ pc = "run"
  /\ Events < MaxEvents
  /\ idx[b].data = NoPos
  /\ \E commit \in SUBSET {"commit"}, write \in SUBSET {"block"} :
       /\ FindBlockPos(commit)
       /\ Failing(commit \cup write)
       /\ blk' = IF write = {} THEN [LeftBlk EXCEPT ![NextFile][info[NextFile].nsize] = b]
                               ELSE LeftBlk
  /\ dirtyInfo' = dirtyInfo \cup {NextFile}
  /\ idx' = [idx EXCEPT ![b] = [data |-> [file |-> NextFile, at |-> info[NextFile].nsize],
                                undo |-> NoPos]]
  /\ dirtyIdx' = dirtyIdx \cup {b}
  /\ UNCHANGED <<tip, dbs, control, lost>>

\* acceptblock gives up after findblockpos took the place: there is no space, and
\* the file information is not marked dirty, or writing the block throws.
AcceptBlockFails(b) ==
  /\ pc = "run"
  /\ FileFault
  /\ idx[b].data = NoPos
  /\ \E commit \in SUBSET {"commit"} : FindBlockPos(commit) /\ failed' = failed \cup commit
  /\ blk' = LeftBlk
  /\ dirtyInfo' \in {dirtyInfo, dirtyInfo \cup {NextFile}}
  /\ UNCHANGED <<idx, dirtyIdx, tip, dbs, control, lost>>

\* What readblockfromdisk and undoreadfromdisk find; the checksum of undo data
\* covers the hash of the previous block.
DataReadable(b) == idx[b].data # NoPos /\ blk[idx[b].data.file][idx[b].data.at] = b
UndoRead(b) == rev[idx[b].undo.file][idx[b].undo.at]
UndoReadable(b) ==
  /\ idx[b].undo # NoPos
  /\ UndoRead(b).prev = Parent[b]
  /\ UndoFits(Vtx[b], UndoRead(b).vtxundo)

\* findundopos: the place is taken before anything is written.
FindUndoPos(b) ==
  LET f == idx[b].data.file
  IN  /\ info[f].nundo < MaxUndo
      /\ info' = [info EXCEPT ![f].nundo = @ + 1]
      /\ dirtyInfo' = dirtyInfo \cup {f}

\* undowritetodisk, where a failing fclose is not noticed, and the update of the
\* index entry.
WriteUndo(b, vtxundo, bad) ==
  LET f == idx[b].data.file
      p == info[f].nundo
  IN  /\ FindUndoPos(b)
      /\ rev' = IF bad = {}
                THEN [rev EXCEPT ![f][p] = [prev |-> Parent[b], vtxundo |-> vtxundo]]
                ELSE rev
      /\ idx' = [idx EXCEPT ![b].undo = [file |-> f, at |-> p]]
      /\ dirtyIdx' = dirtyIdx \cup {b}

\* connecttip of a valid block up to view.flush(); undo data is written only if
\* the index entry has none.
ConnectTip(b) ==
  /\ pc = "run"
  /\ b # Genesis
  /\ Parent[b] = tip.best
  /\ DataReadable(b)
  /\ LET conn == ConnectCoins(tip.coins, Vtx[b], NHeight(b))
     IN  /\ conn.ok
         /\ tip' = [best |-> b, coins |-> conn.view]
         /\ \/ /\ idx[b].undo = NoPos
               /\ \E bad \in SUBSET {"undo"} :
                    WriteUndo(b, conn.vtxundo, bad) /\ Failing(bad)
            \/ /\ idx[b].undo # NoPos
               /\ UNCHANGED <<idx, dirtyIdx, info, dirtyInfo, rev, faults, failed>>
  /\ UNCHANGED <<lastFile, blk, blkDisk, revDisk, dbs, control, lost>>

\* connectblock gives up after findundopos took the place: there is no space, or
\* undowritetodisk fails and abortnode() starts the shutdown.
ConnectTipFails(b) ==
  /\ pc = "run"
  /\ b # Genesis
  /\ Parent[b] = tip.best
  /\ DataReadable(b)
  /\ ConnectCoins(tip.coins, Vtx[b], NHeight(b)).ok
  /\ idx[b].undo = NoPos
  /\ FileFault
  /\ FindUndoPos(b)
  /\ UNCHANGED <<idx, dirtyIdx, lastFile, tip, files, dbs, control, lost, failed>>

\* disconnecttip up to view.flush().
DisconnectTip ==
  /\ pc = "run"
  /\ tip.best # Genesis
  /\ DataReadable(tip.best)
  /\ UndoReadable(tip.best)
  /\ LET b == tip.best
         disc == DisconnectCoins(tip.coins, Vtx[b], UndoRead(b).vtxundo, NHeight(b))
     IN  /\ disc.clean
         /\ tip' = [best |-> Parent[b], coins |-> disc.view]
  /\ UNCHANGED <<idx, dirtyIdx, info, dirtyInfo, lastFile, files, dbs, control, history>>

-----------------------------------------------------------------------------
\* flushstatetodisk decides to write: always, periodically, or because the cache
\* is large; doFull is fdofullflush.  First the files.  The flush of shutdown()
\* is a full one, after which the process ends (Restart).
BeginFlush(doFull) ==
  /\ pc = "run"
  /\ \E bad \in SUBSET {"commit"} : FlushBlockFile(blk, rev, bad) /\ Failing(bad)
  /\ pc' = "files"
  /\ full' = doFull
  /\ UNCHANGED <<memory, blk, rev, dbs, lost>>

\* Then writebatchsync of all that is dirty, in one synchronous batch.
WriteIndex ==
  /\ pc = "files"
  /\ idxDb' = [b \in Block |-> IF b \in dirtyIdx THEN idx[b] ELSE idxDb[b]]
  /\ infoDb' = [f \in Files |-> IF f \in dirtyInfo THEN info[f] ELSE infoDb[f]]
  /\ lastFileDb' = lastFile
  /\ dirtyIdx' = {}
  /\ dirtyInfo' = {}
  /\ pc' = IF full THEN "index" ELSE "run"
  /\ UNCHANGED <<idx, info, lastFile, tip, files, coinsDb, coinsDisk, full, history>>

\* The write throws: the dirty sets were emptied before it.  abortnode() starts
\* the shutdown, which ends with a full flush.
WriteIndexFails ==
  /\ pc = "files"
  /\ Fault
  /\ failed' = failed \cup {"index"}
  /\ dirtyIdx' = {}
  /\ dirtyInfo' = {}
  /\ pc' = "run"
  /\ full' = FALSE
  /\ UNCHANGED <<idx, info, lastFile, tip, files, dbs, lost>>

\* checkdiskspace() fails before the coins are written: abortnode().
NoSpaceForCoins ==
  /\ pc = "index"
  /\ pc' = "run"
  /\ full' = FALSE
  /\ UNCHANGED <<memory, files, dbs, history>>

\* Mutant: the coins are written before the index.
FlushCoinsFirst ==
  /\ pc = "files"
  /\ full
  /\ coinsDb' = tip
  /\ coinsDisk' \in {coinsDisk, coinsDb}
  /\ full' = FALSE
  /\ UNCHANGED <<memory, files, idxDb, infoDb, lastFileDb, pc, history>>

\* Last pcoinstip->flush(): one batch, not synchronous, so that the disk may or
\* may not have the batch before.
FlushCoins ==
  /\ pc = "index"
  /\ coinsDb' = tip
  /\ coinsDisk' \in {coinsDisk, coinsDb}
  /\ pc' = "run"
  /\ full' = FALSE
  /\ UNCHANGED <<memory, files, idxDb, infoDb,
                 lastFileDb, history>>

\* The batch is built by erasing the cache's entries and then fails: what is left
\* is a view of the old coins with the new best block, and the shutdown that
\* abortnode() starts will flush it again.
FlushCoinsFails ==
  /\ pc = "index"
  /\ Fault
  /\ failed' = failed \cup {"coins"}
  /\ tip' = [tip EXCEPT !.coins = coinsDb.coins]
  /\ pc' = "run"
  /\ full' = FALSE
  /\ UNCHANGED <<idx, dirtyIdx, info, dirtyInfo, lastFile, files, dbs, lost>>

-----------------------------------------------------------------------------
\* loadblockindexdb and the opening of the chainstate, from what the databases
\* then hold.
Load(chainstate) ==
  /\ idx' = idxDb
  /\ dirtyIdx' = {}
  /\ info' = infoDb
  /\ dirtyInfo' = {}
  /\ lastFile' = lastFileDb
  /\ tip' = chainstate
  /\ pc' = "run"
  /\ full' = FALSE

\* The process ends, in the middle of things or after its shutdown, and starts
\* again: all that was written is still in the page cache.
Restart ==
  /\ Fault
  /\ Load(coinsDb)
  /\ UNCHANGED <<files, dbs, lost, failed>>

\* The machine goes down: of what was not committed any part may be lost, and
\* the chainstate may fall back to an earlier batch.
PowerFailure ==
  /\ Fault
  /\ \E keep \in SUBSET {f \in Files : blk[f] # blkDisk[f]} :
       blkDisk' = [f \in Files |-> IF f \in keep THEN blk[f] ELSE blkDisk[f]]
  /\ \E keep \in SUBSET {f \in Files : rev[f] # revDisk[f]} :
       revDisk' = [f \in Files |-> IF f \in keep THEN rev[f] ELSE revDisk[f]]
  /\ blk' = blkDisk'
  /\ rev' = revDisk'
  /\ lost' = lost \cup {b \in Block : LET u == idxDb[b].undo
                                     IN  u # NoPos /\ rev'[u.file][u.at] # rev[u.file][u.at]}
  /\ coinsDb' \in {coinsDisk, coinsDb}
  /\ coinsDisk' = coinsDb'
  /\ Load(coinsDb')
  /\ UNCHANGED <<idxDb, infoDb, lastFileDb, failed>>

Next ==
  \/ \E b \in Block \ {Genesis} :
       AcceptBlock(b) \/ AcceptBlockFails(b) \/ ConnectTip(b) \/ ConnectTipFails(b)
  \/ DisconnectTip
  \/ \E doFull \in BOOLEAN : BeginFlush(doFull)
  \/ WriteIndex \/ WriteIndexFails
  \/ NoSpaceForCoins \/ FlushCoins \/ FlushCoinsFails
  \/ Restart \/ PowerFailure

Spec == Init /\ [][Next]_vars

-----------------------------------------------------------------------------
\* The coins of the chain that ends in a block, applied from the start.
Replay[b \in Block] ==
  IF b = Genesis THEN BaseCoins
  ELSE ConnectCoins(Replay[Parent[b]], Vtx[b], NHeight(b)).view

\* main.cpp flushstatetodisk: while every block and undo record the index speaks
\* of was written and every commit did what it should, a block the index database
\* knows has its data on the disk, whatever was lost, cut off or overwritten since
\* and whichever writes of the databases failed; and so has undo data in the
\* newest undo file.  "First make sure all block and undo data is flushed to disk"
\* is more than the code does: only the newest files are committed, so that undo
\* data in older ones, which is exempt here, may be lost with the machine, though
\* not with the process.
IndexIsBacked ==
  failed \subseteq {"index", "coins"} =>
    \A b \in Block :
      /\ LET d == idxDb[b].data IN d # NoPos => blkDisk[d.file][d.at] = b
      /\ LET u == idxDb[b].undo
         IN  u # NoPos =>
               \/ revDisk[u.file][u.at].prev = Parent[b]
               \/ /\ u.file < lastFileDb
                  /\ b \in lost \/ rev[u.file][u.at].prev = Parent[b]

\* main.cpp flushstatetodisk: "flush the chainstate (which may refer to block
\* index entries)": all blocks up to the stored best block are in the index
\* database with data and undo data, at every point where the process or the
\* machine may go down, while no write of the index failed.
ChainstateIsSound ==
  "index" \notin failed =>
    \A b \in Ancestors[coinsDb.best] \ {Genesis} :
      idxDb[b].data # NoPos /\ idxDb[b].undo # NoPos

\* main.cpp disconnectblock: the tip can always be disconnected: its data and undo
\* data can be read, match the coins, and give back exactly the coins of the
\* block before, after any history of connections, flushes, restarts and power
\* failures, while no write failed and no undo data was lost; and the stored
\* coins are those of the stored best block.
TipCanBeUndone ==
  failed = {} /\ lost = {} =>
    /\ coinsDb.coins = Replay[coinsDb.best]
    /\ tip.coins = Replay[tip.best]
    /\ tip.best # Genesis =>
         /\ DataReadable(tip.best)
         /\ UndoReadable(tip.best)
         /\ LET disc == DisconnectCoins(tip.coins, Vtx[tip.best],
                          UndoRead(tip.best).vtxundo, NHeight(tip.best))
            IN  disc.clean /\ disc.view = Replay[Parent[tip.best]]
=============================================================================
