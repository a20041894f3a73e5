--------------------------- MODULE FlushStateProof --------------------------
(***************************************************************************)
(* Proofs about FlushState, for every block tree, any number and size of    *)
(* files and any number of faults: the index database never refers to data  *)
(* that is not on the disk, nor the chainstate to blocks that are not in    *)
(* the index database; disconnecting a block is exactly the inverse of      *)
(* connecting it; and undo data, wherever it was written or copied, is that *)
(* of its block, so that the tip can be disconnected.                       *)
(***************************************************************************)
EXTENDS FlushState, HeaderTreeProof

\* A position in the files, or none.
Pos == {NoPos} \cup [file : Files, at : Nat]

\* Types.  The files are read through this: undo data is of any kind.
Stores ==
  /\ idx \in [Block -> [data : Pos, undo : Pos]]
  /\ idxDb \in [Block -> [data : Pos, undo : Pos]]
  /\ dirtyIdx \subseteq Block /\ dirtyInfo \subseteq Files /\ lost \subseteq Block
  /\ info \in [Files -> [nsize : 0 .. Capacity, nundo : 0 .. MaxUndo]]
  /\ infoDb \in [Files -> [nsize : 0 .. Capacity, nundo : 0 .. MaxUndo]]
  /\ lastFile \in Files /\ lastFileDb \in Files
  /\ {tip.best, coinsDb.best, coinsDisk.best} \subseteq Block
  /\ pc \in {"run", "files", "index"}

\* The files are arrays of places.
Arrays ==
  /\ DOMAIN blk = Files /\ DOMAIN blkDisk = Files
  /\ DOMAIN rev = Files /\ DOMAIN revDisk = Files
  /\ \A f \in Files :
       /\ DOMAIN blk[f] = 0 .. Capacity - 1 /\ DOMAIN blkDisk[f] = 0 .. Capacity - 1
       /\ DOMAIN rev[f] = 0 .. MaxUndo - 1 /\ DOMAIN revDisk[f] = 0 .. MaxUndo - 1

\* Index entries in memory: the data is in the file, below its size, and on the
\* disk once the file was left; the undo data likewise, in the file of the same
\* number, unless it is in a file that was left and was lost.
Backed(b) ==
  LET d == idx[b].data
      u == idx[b].undo
  IN  /\ d # NoPos =>
           /\ d.file <= lastFile /\ d.at < info[d.file].nsize /\ blk[d.file][d.at] = b
           /\ d.file < lastFile => blkDisk[d.file][d.at] = b
      /\ u # NoPos =>
           /\ d # NoPos /\ u.file = d.file /\ u.at < info[u.file].nundo
           /\ \/ rev[u.file][u.at].prev = Parent[b]
              \/ u.file < lastFile /\ b \in lost

\* Entries of the index database: memory has the same, the sizes beside them cover
\* them, and data is on the disk.
BackedOnDisk(b) ==
  LET d == idxDb[b].data
      u == idxDb[b].undo
  IN  /\ d # NoPos =>
           /\ d = idx[b].data /\ d.file <= lastFileDb /\ d.at < infoDb[d.file].nsize
           /\ blkDisk[d.file][d.at] = b
      /\ u # NoPos =>
           /\ u = idx[b].undo /\ d # NoPos /\ u.at < infoDb[u.file].nundo
           /\ \/ /\ revDisk[u.file][u.at].prev = Parent[b]
                 /\ rev[u.file][u.at].prev = Parent[b]
              \/ /\ u.file < lastFileDb
                 /\ b \in lost \/ rev[u.file][u.at].prev = Parent[b]

\* What is dirty, and what is committed when the index is written.
Ahead ==
  /\ lastFileDb <= lastFile
  /\ \A f \in Files : infoDb[f].nsize <= info[f].nsize /\ infoDb[f].nundo <= info[f].nundo
  /\ \A b \in dirtyIdx : idx[b].data # NoPos /\ idx[b].data.file \in dirtyInfo
  /\ pc = "files" => blkDisk[lastFile] = blk[lastFile] /\ revDisk[lastFile] = rev[lastFile]

\* Files and index agree.
FilesOk ==
  Stores /\ Arrays /\ Ahead /\ \A b \in Block : Backed(b) /\ BackedOnDisk(b)

\* The inductive invariant of the files and the index: they agree until a block or
\* undo data is marked without being written, or a commit fails.
Intact == failed \subseteq {"index", "coins"}
FilesInv == Intact => FilesOk

\* What is left of it after such failures: memory has all entries of the database,
\* and no undo data without data.
PlaceInv ==
  /\ Stores
  /\ \A b \in Block : /\ idxDb[b].data # NoPos => idx[b].data # NoPos
                      /\ idxDb[b].undo # NoPos => idx[b].undo # NoPos
                      /\ idx[b].undo # NoPos => idx[b].data # NoPos
                      /\ idxDb[b].undo # NoPos => idxDb[b].data # NoPos

\* A chain in an index: all its blocks have data and undo data.
Indexed(index, b) ==
  \A x \in Ancestors[b] \ {Genesis} : index[x].data # NoPos /\ index[x].undo # NoPos

\* The inductive invariant of the chainstate.
ChainInv ==
  "index" \notin failed =>
    /\ \A b \in Block : idx[b] # idxDb[b] => b \in dirtyIdx
    /\ pc = "index" => dirtyIdx = {}
    /\ Indexed(idx, tip.best)
    /\ Indexed(idxDb, coinsDb.best) /\ Indexed(idxDb, coinsDisk.best)
-----------------------------------------------------------------------------
\* A position is a place of a file.
LEMMA PosFact ==
  /\ \A p \in Pos : p # NoPos => p.file \in Files /\ p.at \in Nat
  /\ \A f \in Files, n \in Nat : /\ [file |-> f, at |-> n] \in Pos
                                 /\ [file |-> f, at |-> n] # NoPos
  /\ NoPos \in Pos
<1>1. \A p \in Pos : p # NoPos => p.file \in Files /\ p.at \in Nat
  BY DEF Pos
<1>2. ASSUME NEW f \in Files, NEW n \in Nat
      PROVE  [file |-> f, at |-> n] \in Pos /\ [file |-> f, at |-> n] # NoPos
  <2>1. f # -1
    BY FlushStateAssumption DEF Files
  <2>2. QED
    BY <2>1 DEF Pos, NoPos
<1>3. QED
  BY <1>1, <1>2 DEF Pos

\* File numbers are numbers, sizes are in bounds.
LEMMA FileFact ==
  /\ Files \subseteq Nat /\ 0 \in Files /\ Capacity \in Nat /\ MaxUndo \in Nat
  /\ Capacity > 0 /\ MaxUndo > 0
BY FlushStateAssumption DEF Files

\* What the types say of an entry.
LEMMA EntryFact ==
  ASSUME Stores, NEW b \in Block
  PROVE  /\ idx[b].data \in Pos /\ idx[b].undo \in Pos
         /\ idxDb[b].data \in Pos /\ idxDb[b].undo \in Pos
BY DEF Stores

\* What the types say of the sizes.
LEMMA SizeFact ==
  ASSUME Stores, NEW f \in Files
  PROVE  /\ info[f].nsize \in 0 .. Capacity /\ info[f].nundo \in 0 .. MaxUndo
         /\ infoDb[f].nsize \in 0 .. Capacity /\ infoDb[f].nundo \in 0 .. MaxUndo
BY DEF Stores

\* The node starts with empty files.
LEMMA InitFiles == Init => FilesOk
<1> SUFFICES ASSUME Init PROVE FilesOk
  OBVIOUS
<1>1. \A b \in Block : idx[b].data = NoPos /\ idx[b].undo = NoPos
                       /\ idxDb[b].data = NoPos /\ idxDb[b].undo = NoPos
  BY DEF Init, NoData
<1>2. Stores
  <2>1. NoData \in [data : Pos, undo : Pos]
    BY PosFact DEF NoData
  <2>2. EmptyInfo \in [nsize : 0 .. Capacity, nundo : 0 .. MaxUndo]
    BY FileFact DEF EmptyInfo
  <2>3. idx \in [Block -> [data : Pos, undo : Pos]] /\ idxDb \in [Block -> [data : Pos, undo : Pos]]
    BY <2>1 DEF Init
  <2>4. /\ info \in [Files -> [nsize : 0 .. Capacity, nundo : 0 .. MaxUndo]]
        /\ infoDb \in [Files -> [nsize : 0 .. Capacity, nundo : 0 .. MaxUndo]]
    BY <2>2 DEF Init
  <2>5. tip.best = Genesis /\ coinsDb.best = Genesis /\ coinsDisk.best = Genesis
    BY DEF Init, BaseState
  <2>6. QED
    BY <2>3, <2>4, <2>5, FileFact, HeaderTreeAssumption DEF Init, Stores
<1>3. Arrays
  BY DEF Init, Arrays, EmptyBlk, EmptyRev
<1>4. Ahead
  <2>1. \A f \in Files : info[f].nsize = 0 /\ info[f].nundo = 0 /\ infoDb = info
    BY DEF Init, EmptyInfo
  <2>2. QED
    BY <2>1 DEF Init, Ahead
<1>5. QED
  BY <1>1, <1>2, <1>3, <1>4 DEF FilesOk, Backed, BackedOnDisk

\* While the files are intact nothing fails that would go unnoticed.
LEMMA NoFailure ==
  ASSUME Intact', NEW bad \in SUBSET {"commit", "block", "undo"}, Failing(bad) PROVE bad = {}
<1>1. SUFFICES ASSUME NEW x \in bad PROVE FALSE
  OBVIOUS
<1>2. x \in failed'
  BY <1>1 DEF Failing
<1>3. x \in {"commit", "block", "undo"} /\ x \in {"index", "coins"}
  BY <1>1, <1>2 DEF Intact
<1>4. QED
  BY <1>3

\* flushstatetodisk up to the commit of the files.
LEMMA BeginFiles ==
  ASSUME FilesOk, Intact', NEW doFull \in BOOLEAN, BeginFlush(doFull) PROVE FilesOk'
<1>1. /\ Stores /\ Arrays /\ Ahead /\ lastFile \in Files
      /\ \A b \in Block : Backed(b) /\ BackedOnDisk(b)
  BY DEF FilesOk, Stores
<1>2. /\ blkDisk' = [blkDisk EXCEPT ![lastFile] = blk[lastFile]]
      /\ revDisk' = [revDisk EXCEPT ![lastFile] = rev[lastFile]]
      /\ pc' = "files"
      /\ UNCHANGED <<idx, dirtyIdx, info, dirtyInfo, lastFile, tip, blk, rev,
                     idxDb, infoDb, lastFileDb, coinsDb, coinsDisk, lost>>
  <2>1. PICK bad \in SUBSET {"commit"} : FlushBlockFile(blk, rev, bad) /\ Failing(bad)
    BY DEF BeginFlush
  <2>2. bad = {}
    BY <2>1, NoFailure
  <2>3. QED
    BY <2>1, <2>2 DEF BeginFlush, FlushBlockFile, memory, dbs
<1>3. /\ \A f \in Files : /\ blkDisk'[f] = IF f = lastFile THEN blk[f] ELSE blkDisk[f]
                          /\ revDisk'[f] = IF f = lastFile THEN rev[f] ELSE revDisk[f]
      /\ DOMAIN blkDisk' = Files /\ DOMAIN revDisk' = Files
  BY <1>1, <1>2 DEF Arrays
<1>4. Stores'
  BY <1>1, <1>2 DEF Stores
<1>5. Arrays'
  BY <1>1, <1>2, <1>3 DEF Arrays
<1>6. Ahead'
  BY <1>1, <1>2, <1>3 DEF Ahead
<1>7. ASSUME NEW b \in Block PROVE Backed(b)'
  <2>1. Backed(b) /\ (idx[b].data # NoPos => idx[b].data.file \in Files)
    BY <1>1, EntryFact, PosFact
  <2>2. QED
    BY <1>2, <1>3, <2>1 DEF Backed
<1>8. ASSUME NEW b \in Block PROVE BackedOnDisk(b)'
  <2>1. /\ Backed(b) /\ BackedOnDisk(b)
        /\ idxDb[b].data # NoPos => idxDb[b].data.file \in Files
        /\ idxDb[b].undo # NoPos => idxDb[b].undo.file \in Files
    BY <1>1, EntryFact, PosFact
  <2>2. idxDb[b].data # NoPos => blk[idxDb[b].data.file][idxDb[b].data.at] = b
    BY <2>1 DEF Backed, BackedOnDisk
  <2>3. QED
    BY <1>2, <1>3, <2>1, <2>2 DEF BackedOnDisk
<1>9. QED
  BY <1>4, <1>5, <1>6, <1>7, <1>8 DEF FilesOk

\* Steps that change neither files nor index.
LEMMA SameFiles ==
  ASSUME FilesOk, {tip'.best, coinsDb'.best, coinsDisk'.best} \subseteq Block,
         pc' \in {"run", "index"},
         UNCHANGED <<idx, dirtyIdx, info, dirtyInfo, lastFile, files,
                     idxDb, infoDb, lastFileDb, lost>>
  PROVE  FilesOk'
<1>1. Stores' /\ Arrays' /\ Ahead'
  BY DEF FilesOk, Stores, Arrays, Ahead, files
<1>2. \A b \in Block : Backed(b)' /\ BackedOnDisk(b)'
  BY DEF FilesOk, Backed, BackedOnDisk, files
<1>3. QED
  BY <1>1, <1>2 DEF FilesOk

\* The batch of the index is written.
LEMMA WriteFiles ==
  ASSUME FilesOk, WriteIndex PROVE FilesOk'
<1>1. /\ Stores /\ Arrays /\ Ahead /\ lastFile \in Files /\ lastFileDb \in Files
      /\ \A b \in Block : Backed(b) /\ BackedOnDisk(b)
      /\ blkDisk[lastFile] = blk[lastFile] /\ revDisk[lastFile] = rev[lastFile]
      /\ lastFile \in Nat /\ lastFileDb \in Nat /\ lastFileDb <= lastFile
  BY FileFact DEF FilesOk, Stores, Ahead, WriteIndex
<1>2. /\ \A b \in Block : idxDb'[b] = IF b \in dirtyIdx THEN idx[b] ELSE idxDb[b]
      /\ \A f \in Files : infoDb'[f] = IF f \in dirtyInfo THEN info[f] ELSE infoDb[f]
      /\ lastFileDb' = lastFile /\ dirtyIdx' = {} /\ dirtyInfo' = {}
      /\ pc' \in {"run", "index"}
      /\ UNCHANGED <<idx, info, lastFile, tip, coinsDb, coinsDisk, lost>>
      /\ UNCHANGED <<blk, rev, blkDisk, revDisk>>
  BY DEF WriteIndex, files, history
<1>3. Stores'
  <2>1. /\ idxDb' \in [Block -> [data : Pos, undo : Pos]]
        /\ infoDb' \in [Files -> [nsize : 0 .. Capacity, nundo : 0 .. MaxUndo]]
    BY <1>1 DEF WriteIndex, Stores
  <2>2. QED
    BY <1>1, <1>2, <2>1 DEF Stores
<1>4. Arrays'
  BY <1>1, <1>2 DEF Arrays
<1>5. \A f \in Files : /\ infoDb'[f].nsize <= info[f].nsize /\ infoDb'[f].nundo <= info[f].nundo
                       /\ infoDb'[f].nsize >= infoDb[f].nsize /\ infoDb'[f].nundo >= infoDb[f].nundo
                       /\ info[f].nsize \in Nat /\ info[f].nundo \in Nat
                       /\ infoDb[f].nsize \in Nat /\ infoDb[f].nundo \in Nat
                       /\ infoDb'[f].nsize \in Nat /\ infoDb'[f].nundo \in Nat
  <2>1. SUFFICES ASSUME NEW f \in Files
                 PROVE  /\ infoDb'[f].nsize <= info[f].nsize /\ infoDb'[f].nundo <= info[f].nundo
                        /\ infoDb'[f].nsize >= infoDb[f].nsize /\ infoDb'[f].nundo >= infoDb[f].nundo
                        /\ info[f].nsize \in Nat /\ info[f].nundo \in Nat
                        /\ infoDb[f].nsize \in Nat /\ infoDb[f].nundo \in Nat
                        /\ infoDb'[f].nsize \in Nat /\ infoDb'[f].nundo \in Nat
    OBVIOUS
  <2>2. /\ info[f].nsize \in Nat /\ info[f].nundo \in Nat
        /\ infoDb[f].nsize \in Nat /\ infoDb[f].nundo \in Nat
    BY <1>1, SizeFact
  <2>3. infoDb[f].nsize <= info[f].nsize /\ infoDb[f].nundo <= info[f].nundo
    BY <1>1 DEF Ahead
  <2>4. infoDb'[f] = info[f] \/ infoDb'[f] = infoDb[f]
    BY <1>2
  <2>5. CASE infoDb'[f] = info[f]
    BY <2>2, <2>3, <2>5
  <2>6. CASE infoDb'[f] = infoDb[f]
    BY <2>2, <2>3, <2>6
  <2>7. QED
    BY <2>4, <2>5, <2>6
<1>6. Ahead'
  BY <1>1, <1>2, <1>5 DEF Ahead
<1>7. ASSUME NEW b \in Block PROVE Backed(b)'
  BY <1>1, <1>2 DEF Backed
<1>8. ASSUME NEW b \in Block PROVE BackedOnDisk(b)'
  <2>1. /\ Backed(b) /\ BackedOnDisk(b)
        /\ idxDb[b].data # NoPos => idxDb[b].data.file \in Files /\ idxDb[b].data.at \in Nat
        /\ idxDb[b].undo # NoPos => idxDb[b].undo.file \in Files /\ idxDb[b].undo.at \in Nat
        /\ idx[b].data # NoPos => idx[b].data.file \in Files /\ idx[b].data.at \in Nat
        /\ idx[b].undo # NoPos => idx[b].undo.file \in Files /\ idx[b].undo.at \in Nat
        /\ Files \subseteq Nat
    BY <1>1, EntryFact, PosFact, FileFact
  <2>2. CASE b \notin dirtyIdx
    <3>1. idxDb'[b] = idxDb[b]
      BY <1>2, <2>2
    <3>2. idxDb[b].data # NoPos =>
            /\ idxDb[b].data.file <= lastFile
            /\ idxDb[b].data.at < infoDb'[idxDb[b].data.file].nsize
      <4> SUFFICES ASSUME idxDb[b].data # NoPos
                   PROVE  /\ idxDb[b].data.file <= lastFile
                          /\ idxDb[b].data.at < infoDb'[idxDb[b].data.file].nsize
        OBVIOUS
      <4> DEFINE f == idxDb[b].data.file
                 n == idxDb[b].data.at
      <4>1. f \in Files /\ f \in Nat /\ n \in Nat /\ f <= lastFileDb /\ n < infoDb[f].nsize
        BY <2>1 DEF BackedOnDisk
      <4> HIDE DEF f, n
      <4>2. infoDb[f].nsize \in Nat /\ infoDb'[f].nsize \in Nat /\ infoDb'[f].nsize >= infoDb[f].nsize
        BY <1>5, <4>1
      <4>3. lastFile \in Nat /\ lastFileDb \in Nat /\ lastFileDb <= lastFile
        BY <1>1
      <4>4. f <= lastFile /\ n < infoDb'[f].nsize
        BY <4>1, <4>2, <4>3
      <4>5. QED
        BY <4>4 DEF f, n
    <3>3. idxDb[b].undo # NoPos =>
            /\ idxDb[b].undo.at < infoDb'[idxDb[b].undo.file].nundo
            /\ idxDb[b].undo.file < lastFileDb => idxDb[b].undo.file < lastFile
      <4> SUFFICES ASSUME idxDb[b].undo # NoPos
                   PROVE  /\ idxDb[b].undo.at < infoDb'[idxDb[b].undo.file].nundo
                          /\ idxDb[b].undo.file < lastFileDb => idxDb[b].undo.file < lastFile
        OBVIOUS
      <4> DEFINE f == idxDb[b].undo.file
                 n == idxDb[b].undo.at
      <4>1. f \in Files /\ f \in Nat /\ n \in Nat /\ n < infoDb[f].nundo
        BY <2>1 DEF BackedOnDisk
      <4> HIDE DEF f, n
      <4>2. infoDb[f].nundo \in Nat /\ infoDb'[f].nundo \in Nat /\ infoDb'[f].nundo >= infoDb[f].nundo
        BY <1>5, <4>1
      <4>3. lastFile \in Nat /\ lastFileDb \in Nat /\ lastFileDb <= lastFile
        BY <1>1
      <4>4. n < infoDb'[f].nundo /\ (f < lastFileDb => f < lastFile)
        BY <4>1, <4>2, <4>3
      <4>5. QED
        BY <4>4 DEF f, n
    <3>4. QED
      BY <1>2, <2>1, <3>1, <3>2, <3>3 DEF BackedOnDisk
  <2>3. CASE b \in dirtyIdx
    <3>1. idxDb'[b] = idx[b] /\ idx[b].data # NoPos /\ infoDb'[idx[b].data.file] = info[idx[b].data.file]
      BY <1>1, <1>2, <2>1, <2>3 DEF Ahead
    <3>2. blkDisk[idx[b].data.file][idx[b].data.at] = b
      <4>1. idx[b].data.file \in Nat /\ idx[b].data.file <= lastFile /\ lastFile \in Nat
        BY <1>1, <2>1, <3>1 DEF Backed
      <4>2. idx[b].data.file < lastFile \/ idx[b].data.file = lastFile
        BY <4>1
      <4>3. blk[idx[b].data.file][idx[b].data.at] = b
        BY <2>1, <3>1 DEF Backed
      <4>4. CASE idx[b].data.file < lastFile
        BY <2>1, <3>1, <4>4 DEF Backed
      <4>5. CASE idx[b].data.file = lastFile
        BY <1>1, <4>3, <4>5
      <4>6. QED
        BY <4>2, <4>4, <4>5
    <3>3. idx[b].undo # NoPos =>
            \/ /\ revDisk[idx[b].undo.file][idx[b].undo.at].prev = Parent[b]
               /\ rev[idx[b].undo.file][idx[b].undo.at].prev = Parent[b]
            \/ /\ idx[b].undo.file < lastFile
               /\ b \in lost \/ rev[idx[b].undo.file][idx[b].undo.at].prev = Parent[b]
      <4>1. idx[b].undo # NoPos => idx[b].undo.file < lastFile \/ idx[b].undo.file = lastFile
        <5>1. /\ idx[b].data.file \in Nat /\ idx[b].data.file <= lastFile /\ lastFile \in Nat
              /\ idx[b].undo # NoPos => idx[b].undo.file = idx[b].data.file
          BY <1>1, <2>1, <3>1 DEF Backed
        <5>2. QED
          BY <5>1
      <4>2. CASE idx[b].undo # NoPos /\ idx[b].undo.file < lastFile
        BY <2>1, <4>2 DEF Backed
      <4>3. CASE idx[b].undo # NoPos /\ idx[b].undo.file = lastFile
        <5>1. ~(lastFile < lastFile)
          BY <1>1
        <5>2. rev[idx[b].undo.file][idx[b].undo.at].prev = Parent[b]
          BY <2>1, <4>3, <5>1 DEF Backed
        <5>3. QED
          BY <1>1, <4>3, <5>2
      <4>4. QED
        BY <4>1, <4>2, <4>3
    <3>4. QED
      BY <1>2, <2>1, <3>1, <3>2, <3>3 DEF Backed, BackedOnDisk
  <2>4. QED
    BY <2>2, <2>3
<1>9. QED
  BY <1>3, <1>4, <1>6, <1>7, <1>8 DEF FilesOk

\* loadblockindexdb, from files that still back the index database.
LEMMA LoadFiles ==
  ASSUME FilesOk, Arrays', NEW c, c.best \in Block, Load(c),
         {coinsDb'.best, coinsDisk'.best} \subseteq Block, lost' \subseteq Block,
         UNCHANGED <<idxDb, infoDb, lastFileDb>>,
         \A b \in Block : LET d == idxDb[b].data
                          IN  d # NoPos => blk'[d.file][d.at] = b /\ blkDisk'[d.file][d.at] = b,
         \A b \in Block : LET u == idxDb[b].undo
                          IN  u # NoPos =>
                                \/ /\ revDisk'[u.file][u.at].prev = Parent[b]
                                   /\ rev'[u.file][u.at].prev = Parent[b]
                                \/ /\ u.file < lastFileDb
                                   /\ b \in lost' \/ rev'[u.file][u.at].prev = Parent[b]
  PROVE  FilesOk'
<1>1. Stores /\ \A b \in Block : Backed(b) /\ BackedOnDisk(b)
  BY DEF FilesOk
<1>2. /\ idx' = idxDb /\ dirtyIdx' = {} /\ info' = infoDb /\ dirtyInfo' = {}
      /\ lastFile' = lastFileDb /\ tip' = c /\ pc' = "run"
  BY DEF Load
<1>3. Stores'
  BY <1>1, <1>2 DEF Stores
<1>4. Ahead'
  <2>1. /\ lastFileDb <= lastFileDb
        /\ \A f \in Files : infoDb[f].nsize <= infoDb[f].nsize /\ infoDb[f].nundo <= infoDb[f].nundo
    <3>1. lastFileDb \in Nat
      BY <1>1, FileFact DEF Stores
    <3>2. \A f \in Files : infoDb[f].nsize \in Nat /\ infoDb[f].nundo \in Nat
      BY <1>1, SizeFact
    <3>3. QED
      BY <3>1, <3>2
  <2>2. QED
    BY <1>2, <2>1 DEF Ahead
<1>5. ASSUME NEW b \in Block PROVE Backed(b)' /\ BackedOnDisk(b)'
  <2> DEFINE d == idxDb[b].data
             u == idxDb[b].undo
  <2>1. d # NoPos => /\ d.file <= lastFileDb /\ d.at < infoDb[d.file].nsize
                     /\ blk'[d.file][d.at] = b /\ blkDisk'[d.file][d.at] = b
    BY <1>1 DEF BackedOnDisk
  <2>2. u # NoPos => d # NoPos /\ u.file = d.file /\ u.at < infoDb[u.file].nundo
    BY <1>1 DEF BackedOnDisk, Backed
  <2>3. u # NoPos => \/ /\ revDisk'[u.file][u.at].prev = Parent[b]
                        /\ rev'[u.file][u.at].prev = Parent[b]
                     \/ /\ u.file < lastFileDb
                        /\ b \in lost' \/ rev'[u.file][u.at].prev = Parent[b]
    OBVIOUS
  <2>4. Backed(b)'
    BY <1>2, <2>1, <2>2, <2>3 DEF Backed
  <2>5. BackedOnDisk(b)'
    BY <1>2, <2>1, <2>2, <2>3 DEF BackedOnDisk
  <2>6. QED
    BY <2>4, <2>5
<1>6. QED
  BY <1>3, <1>4, <1>5 DEF FilesOk

\* The process starts again.
LEMMA RestartFiles ==
  ASSUME FilesOk, Restart PROVE FilesOk'
<1>1. \A b \in Block : Backed(b) /\ BackedOnDisk(b)
  BY DEF FilesOk
<1>2. /\ UNCHANGED <<blk, rev, blkDisk, revDisk, idxDb, infoDb, lastFileDb, coinsDb, coinsDisk, lost>>
      /\ Load(coinsDb)
  BY DEF Restart, files, dbs
<1>3. Arrays' /\ {coinsDb'.best, coinsDisk'.best} \subseteq Block /\ lost' \subseteq Block
      /\ coinsDb.best \in Block
  BY <1>2 DEF FilesOk, Arrays, Stores
<1>4. \A b \in Block : LET d == idxDb[b].data
                       IN  d # NoPos => blk'[d.file][d.at] = b /\ blkDisk'[d.file][d.at] = b
  BY <1>1, <1>2 DEF Backed, BackedOnDisk
<1>5. \A b \in Block : LET u == idxDb[b].undo
                       IN  u # NoPos =>
                             \/ /\ revDisk'[u.file][u.at].prev = Parent[b]
                                /\ rev'[u.file][u.at].prev = Parent[b]
                             \/ /\ u.file < lastFileDb
                                /\ b \in lost' \/ rev'[u.file][u.at].prev = Parent[b]
  BY <1>1, <1>2 DEF BackedOnDisk
<1>6. QED
  BY <1>2, <1>3, <1>4, <1>5, LoadFiles

\* The machine goes down.
LEMMA PowerFiles ==
  ASSUME FilesOk, PowerFailure PROVE FilesOk'
<1>1. Stores /\ Arrays /\ \A b \in Block : Backed(b) /\ BackedOnDisk(b)
  BY DEF FilesOk
<1>2. /\ UNCHANGED <<idxDb, infoDb, lastFileDb>> /\ Load(coinsDb')
      /\ coinsDb' \in {coinsDisk, coinsDb} /\ coinsDisk' = coinsDb'
      /\ blk' = blkDisk' /\ rev' = revDisk'
      /\ lost' = lost \cup {b \in Block : LET u == idxDb[b].undo
                                          IN  u # NoPos /\ rev'[u.file][u.at] # rev[u.file][u.at]}
  BY DEF PowerFailure
<1>3. /\ DOMAIN blkDisk' = Files
      /\ \A f \in Files : blkDisk'[f] = blk[f] \/ blkDisk'[f] = blkDisk[f]
  <2>1. PICK keep : blkDisk' = [f \in Files |-> IF f \in keep THEN blk[f] ELSE blkDisk[f]]
    BY DEF PowerFailure
  <2>2. QED
    BY <2>1
<1>4. /\ DOMAIN revDisk' = Files
      /\ \A f \in Files : revDisk'[f] = rev[f] \/ revDisk'[f] = revDisk[f]
  <2>1. PICK keep : revDisk' = [f \in Files |-> IF f \in keep THEN rev[f] ELSE revDisk[f]]
    BY DEF PowerFailure
  <2>2. QED
    BY <2>1
<1>5. Arrays'
  BY <1>1, <1>2, <1>3, <1>4 DEF Arrays
<1>6. {coinsDb'.best, coinsDisk'.best} \subseteq Block /\ lost' \subseteq Block
  BY <1>1, <1>2 DEF Stores
<1>7. ASSUME NEW b \in Block, idxDb[b].data # NoPos
      PROVE  /\ blk'[idxDb[b].data.file][idxDb[b].data.at] = b
             /\ blkDisk'[idxDb[b].data.file][idxDb[b].data.at] = b
  <2>1. /\ blk[idxDb[b].data.file][idxDb[b].data.at] = b
        /\ blkDisk[idxDb[b].data.file][idxDb[b].data.at] = b
    BY <1>1, <1>7 DEF Backed, BackedOnDisk
  <2>2. idxDb[b].data.file \in Files
    BY <1>1, <1>7, EntryFact, PosFact
  <2>3. QED
    BY <1>2, <1>3, <2>1, <2>2
<1>8. ASSUME NEW b \in Block, idxDb[b].undo # NoPos
      PROVE  LET u == idxDb[b].undo
             IN  \/ /\ revDisk'[u.file][u.at].prev = Parent[b]
                    /\ rev'[u.file][u.at].prev = Parent[b]
                 \/ /\ u.file < lastFileDb
                    /\ b \in lost' \/ rev'[u.file][u.at].prev = Parent[b]
  <2> DEFINE u == idxDb[b].undo
  <2>1. \/ /\ revDisk[u.file][u.at].prev = Parent[b]
           /\ rev[u.file][u.at].prev = Parent[b]
        \/ /\ u.file < lastFileDb
           /\ b \in lost \/ rev[u.file][u.at].prev = Parent[b]
    BY <1>1, <1>8 DEF BackedOnDisk
  <2>2. u.file \in Files
    BY <1>1, <1>8, EntryFact, PosFact
  <2>3. revDisk'[u.file] = rev[u.file] \/ revDisk'[u.file] = revDisk[u.file]
    BY <1>4, <2>2
  <2>4. b \in lost' \/ (rev'[u.file][u.at] = rev[u.file][u.at] /\ (b \in lost => b \in lost'))
    BY <1>2, <1>8
  <2>5. b \in lost => b \in lost'
    BY <1>2
  <2> HIDE DEF u
  <2>6. \/ /\ revDisk'[u.file][u.at].prev = Parent[b]
           /\ rev'[u.file][u.at].prev = Parent[b]
        \/ /\ u.file < lastFileDb
           /\ b \in lost' \/ rev'[u.file][u.at].prev = Parent[b]
    BY <1>2, <2>1, <2>3, <2>4, <2>5
  <2>7. QED
    BY <2>6 DEF u
<1>9. QED
  BY <1>2, <1>5, <1>6, <1>7, <1>8, LoadFiles

\* findblockpos finds a file with room.
LEMMA RoomFact ==
  ASSUME Stores, WithRoom # {}
  PROVE  NextFile \in Files /\ lastFile <= NextFile /\ info[NextFile].nsize < Capacity
<1>1. WithRoom \in SUBSET Nat
  BY FileFact DEF WithRoom, Stores
<1>2. \E x \in WithRoom : \A y \in WithRoom : x <= y
  BY <1>1, LeastNat
<1>3. NextFile \in WithRoom
  BY <1>2 DEF Min, NextFile
<1>4. lastFile \in Nat /\ MaxFile \in Nat /\ lastFile <= MaxFile
  BY FlushStateAssumption DEF Stores, Files
<1>5. QED
  BY <1>3, <1>4 DEF WithRoom, Files

\* acceptblock: it marks its block, or gives up.
Marked(b) ==
  /\ blk' = [LeftBlk EXCEPT ![NextFile][info[NextFile].nsize] = b]
  /\ dirtyInfo' = dirtyInfo \cup {NextFile}
  /\ idx' = [idx EXCEPT ![b] = [data |-> [file |-> NextFile, at |-> info[NextFile].nsize],
                                undo |-> NoPos]]
  /\ dirtyIdx' = dirtyIdx \cup {b}
GivenUp ==
  /\ blk' = LeftBlk /\ dirtyInfo \subseteq dirtyInfo' /\ dirtyInfo' \subseteq dirtyInfo \cup {NextFile}
  /\ idx' = idx /\ dirtyIdx' = dirtyIdx

LEMMA AcceptCases ==
  ASSUME Intact', NEW b \in Block, AcceptBlock(b) \/ AcceptBlockFails(b)
  PROVE  /\ pc = "run" /\ idx[b].data = NoPos /\ FindBlockPos({})
         /\ Marked(b) \/ GivenUp
         /\ UNCHANGED <<tip, dbs, control, lost>>
<1>1. CASE AcceptBlock(b)
  <2>1. PICK commit \in SUBSET {"commit"}, write \in SUBSET {"block"} :
          /\ FindBlockPos(commit)
          /\ Failing(commit \cup write)
          /\ blk' = IF write = {} THEN [LeftBlk EXCEPT ![NextFile][info[NextFile].nsize] = b]
                                  ELSE LeftBlk
    BY <1>1 DEF AcceptBlock
  <2>2. commit \cup write = {}
    BY <2>1, NoFailure
  <2>3. commit = {} /\ write = {}
    BY <2>2
  <2>4. QED
    BY <1>1, <2>1, <2>3 DEF AcceptBlock, Marked
<1>2. CASE AcceptBlockFails(b)
  <2>1. PICK commit \in SUBSET {"commit"} : FindBlockPos(commit) /\ failed' = failed \cup commit
    BY <1>2 DEF AcceptBlockFails
  <2>2. commit = {}
    BY <2>1 DEF Intact
  <2>3. QED
    BY <1>2, <2>1, <2>2 DEF AcceptBlockFails, GivenUp
<1>3. QED
  BY <1>1, <1>2

LEMMA AcceptFiles ==
  ASSUME FilesOk, Intact', NEW b \in Block, AcceptBlock(b) \/ AcceptBlockFails(b) PROVE FilesOk'
<1> DEFINE f  == NextFile
           n  == info[f].nsize
           b0 == IF f = lastFile THEN blk ELSE Cut(blk, info[lastFile].nsize, Zeros)
           r0 == IF f = lastFile THEN rev ELSE Cut(rev, info[lastFile].nundo, NoUndo)
           pos == [file |-> f, at |-> n]
<1>1. /\ Stores /\ Arrays /\ Ahead /\ lastFile \in Files /\ lastFileDb \in Files
      /\ \A c \in Block : Backed(c) /\ BackedOnDisk(c)
  BY DEF FilesOk, Stores
<1>2. f \in Files /\ lastFile <= f /\ n < Capacity
  BY <1>1, AcceptCases, RoomFact DEF FindBlockPos
<1>3. /\ idx[b].data = NoPos /\ lastFile' = f
      /\ info' = [info EXCEPT ![f].nsize = @ + 1]
      /\ rev' = r0 /\ pc = "run"
      /\ UNCHANGED <<tip, idxDb, infoDb, lastFileDb, coinsDb, coinsDisk, pc, lost>>
  BY AcceptCases DEF FindBlockPos, LeftRev, dbs, control
<1>4. /\ f = lastFile => UNCHANGED <<blkDisk, revDisk>>
      /\ f # lastFile => /\ blkDisk' = [blkDisk EXCEPT ![lastFile] = b0[lastFile]]
                         /\ revDisk' = [revDisk EXCEPT ![lastFile] = r0[lastFile]]
  BY AcceptCases DEF FindBlockPos, FlushBlockFile, LeftBlk, LeftRev
<1>20. \/ /\ blk' = [b0 EXCEPT ![f][n] = b] /\ dirtyInfo' = dirtyInfo \cup {f}
          /\ idx' = [idx EXCEPT ![b] = [data |-> pos, undo |-> NoPos]]
          /\ dirtyIdx' = dirtyIdx \cup {b}
       \/ /\ blk' = b0 /\ dirtyInfo \subseteq dirtyInfo' /\ dirtyInfo' \subseteq dirtyInfo \cup {f}
          /\ idx' = idx /\ dirtyIdx' = dirtyIdx
  BY AcceptCases DEF Marked, GivenUp, LeftBlk
<1> DEFINE new == idx' = [idx EXCEPT ![b] = [data |-> pos, undo |-> NoPos]]
                  /\ dirtyIdx' = dirtyIdx \cup {b} /\ dirtyInfo' = dirtyInfo \cup {f}
                  /\ blk' = [b0 EXCEPT ![f][n] = b]
<1> HIDE DEF f
<1>5. /\ Files \subseteq Nat /\ Capacity \in Nat /\ MaxUndo \in Nat
      /\ n \in Nat /\ lastFile \in Nat /\ f \in Nat /\ lastFileDb \in Nat /\ lastFileDb <= lastFile
      /\ \A g \in Files : info[g].nsize \in 0 .. Capacity /\ info[g].nundo \in 0 .. MaxUndo
  BY <1>1, <1>2, FileFact, SizeFact DEF Ahead
<1>6. /\ DOMAIN b0 = Files
      /\ \A g \in Files : DOMAIN b0[g] = 0 .. Capacity - 1
      /\ \A g \in Files, p \in Nat : p < info[g].nsize => b0[g][p] = blk[g][p]
  <2>1. CASE f = lastFile
    BY <1>1, <2>1 DEF Arrays
  <2>2. CASE f # lastFile
    <3>1. b0 = [blk EXCEPT ![lastFile] =
                 [p \in DOMAIN @ |-> IF p >= info[lastFile].nsize THEN Zeros ELSE @[p]]]
      BY <2>2 DEF Cut
    <3> HIDE DEF b0
    <3>2. /\ DOMAIN b0 = Files
          /\ \A g \in Files : g # lastFile => b0[g] = blk[g]
          /\ b0[lastFile] = [p \in 0 .. Capacity - 1 |->
                               IF p >= info[lastFile].nsize THEN Zeros ELSE blk[lastFile][p]]
      BY <1>1, <3>1 DEF Arrays
    <3>3. \A g \in Files : DOMAIN b0[g] = 0 .. Capacity - 1
      BY <1>1, <3>2 DEF Arrays
    <3>4. ASSUME NEW g \in Files, NEW p \in Nat, p < info[g].nsize PROVE b0[g][p] = blk[g][p]
      <4>1. CASE g # lastFile
        BY <3>2, <4>1
      <4>2. CASE g = lastFile
        <5>1. p \in 0 .. Capacity - 1 /\ ~(p >= info[lastFile].nsize)
          BY <1>5, <3>4, <4>2
        <5>2. QED
          BY <3>2, <4>2, <5>1
      <4>3. QED
        BY <4>1, <4>2
    <3>5. QED
      BY <3>2, <3>3, <3>4
  <2>3. QED
    BY <2>1, <2>2
<1>7. /\ DOMAIN r0 = Files
      /\ \A g \in Files : DOMAIN r0[g] = 0 .. MaxUndo - 1
      /\ \A g \in Files, p \in Nat : p < info[g].nundo => r0[g][p] = rev[g][p]
  <2>1. CASE f = lastFile
    BY <1>1, <2>1 DEF Arrays
  <2>2. CASE f # lastFile
    <3>1. r0 = [rev EXCEPT ![lastFile] =
                 [p \in DOMAIN @ |-> IF p >= info[lastFile].nundo THEN NoUndo ELSE @[p]]]
      BY <2>2 DEF Cut
    <3> HIDE DEF r0
    <3>2. /\ DOMAIN r0 = Files
          /\ \A g \in Files : g # lastFile => r0[g] = rev[g]
          /\ r0[lastFile] = [p \in 0 .. MaxUndo - 1 |->
                               IF p >= info[lastFile].nundo THEN NoUndo ELSE rev[lastFile][p]]
      BY <1>1, <3>1 DEF Arrays
    <3>3. \A g \in Files : DOMAIN r0[g] = 0 .. MaxUndo - 1
      BY <1>1, <3>2 DEF Arrays
    <3>4. ASSUME NEW g \in Files, NEW p \in Nat, p < info[g].nundo PROVE r0[g][p] = rev[g][p]
      <4>1. CASE g # lastFile
        BY <3>2, <4>1
      <4>2. CASE g = lastFile
        <5>1. p \in 0 .. MaxUndo - 1 /\ ~(p >= info[lastFile].nundo)
          BY <1>5, <3>4, <4>2
        <5>2. QED
          BY <3>2, <4>2, <5>1
      <4>3. QED
        BY <4>1, <4>2
    <3>5. QED
      BY <3>2, <3>3, <3>4
  <2>3. QED
    BY <2>1, <2>2
<1> HIDE DEF b0, r0
<1>8. /\ DOMAIN blk' = Files /\ (new => blk'[f][n] = b)
      /\ \A g \in Files : DOMAIN blk'[g] = 0 .. Capacity - 1
      /\ \A g \in Files, p \in Nat : p < info[g].nsize => blk'[g][p] = blk[g][p]
  <2>1. n \in 0 .. Capacity - 1
    BY <1>2, <1>5
  <2>6. CASE ~new
    BY <1>6, <1>20, <2>6
  <2> HIDE DEF n
  <2> SUFFICES ASSUME blk' = [b0 EXCEPT ![f][n] = b]
               PROVE  /\ DOMAIN blk' = Files /\ blk'[f][n] = b
                      /\ \A g \in Files : DOMAIN blk'[g] = 0 .. Capacity - 1
                      /\ \A g \in Files, p \in Nat : p < info[g].nsize => blk'[g][p] = blk[g][p]
    BY <2>6 DEF new
  <2>2. /\ DOMAIN blk' = Files
        /\ \A g \in Files : blk'[g] = IF g = f THEN [b0[f] EXCEPT ![n] = b] ELSE b0[g]
    BY <1>2, <1>3, <1>6
  <2>3. blk'[f][n] = b /\ \A g \in Files : DOMAIN blk'[g] = 0 .. Capacity - 1
    BY <1>2, <1>6, <2>1, <2>2
  <2>4. ASSUME NEW g \in Files, NEW p \in Nat, p < info[g].nsize PROVE blk'[g][p] = blk[g][p]
    <3>1. b0[g][p] = blk[g][p]
      BY <1>6, <2>4
    <3>2. p \in 0 .. Capacity - 1
      BY <1>5, <2>4
    <3>3. g = f => p # n
      BY <1>5, <2>4 DEF n
    <3>4. QED
      BY <1>6, <2>2, <3>1, <3>2, <3>3
  <2>5. QED
    BY <2>2, <2>3, <2>4
<1>9. /\ DOMAIN blkDisk' = Files /\ DOMAIN revDisk' = Files
      /\ \A g \in Files : /\ blkDisk'[g] = IF f # lastFile /\ g = lastFile THEN b0[g] ELSE blkDisk[g]
                          /\ revDisk'[g] = IF f # lastFile /\ g = lastFile THEN r0[g] ELSE revDisk[g]
  BY <1>1, <1>4 DEF Arrays
<1>10. /\ info'[f].nsize = n + 1 /\ info'[f].nundo = info[f].nundo
       /\ \A g \in Files : g # f => info'[g] = info[g]
       /\ info' \in [Files -> [nsize : 0 .. Capacity, nundo : 0 .. MaxUndo]]
  <2>1. info \in [Files -> [nsize : 0 .. Capacity, nundo : 0 .. MaxUndo]]
    BY <1>1 DEF Stores
  <2>2. info'[f].nsize = n + 1 /\ info'[f].nundo = info[f].nundo
        /\ \A g \in Files : g # f => info'[g] = info[g]
    BY <1>2, <1>3, <2>1
  <2>3. n + 1 \in 0 .. Capacity
    BY <1>2, <1>5
  <2>4. info' = [info EXCEPT ![f] = [nsize |-> n + 1, nundo |-> info[f].nundo]]
    <3>1. info' = [info EXCEPT ![f] = [info[f] EXCEPT !.nsize = n + 1]]
      BY <1>3
    <3>2. [info[f] EXCEPT !.nsize = n + 1] = [nsize |-> n + 1, nundo |-> info[f].nundo]
      <4>1. info[f] \in [nsize : 0 .. Capacity, nundo : 0 .. MaxUndo]
        BY <1>2, <2>1
      <4> HIDE DEF n
      <4>2. QED
        BY <4>1
    <3>3. QED
      BY <3>1, <3>2
  <2>5. [nsize |-> n + 1, nundo |-> info[f].nundo] \in [nsize : 0 .. Capacity, nundo : 0 .. MaxUndo]
    BY <1>2, <1>5, <2>3
  <2>6. QED
    BY <2>1, <2>2, <2>4, <2>5
<1>11. \A g \in Files : /\ info'[g].nsize \in Nat /\ info[g].nsize <= info'[g].nsize
                        /\ info'[g].nundo = info[g].nundo
  <2>1. ASSUME NEW g \in Files
        PROVE  /\ info'[g].nsize \in Nat /\ info[g].nsize <= info'[g].nsize
               /\ info'[g].nundo = info[g].nundo
    <3>1. CASE g = f
      BY <1>5, <1>10, <3>1
    <3>2. CASE g # f
      BY <1>5, <1>10, <3>2
    <3>3. QED
      BY <3>1, <3>2
  <2>2. QED
    BY <2>1
<1>12. pos \in Pos /\ pos # NoPos /\ pos.file = f /\ pos.at = n
  BY <1>2, <1>5, PosFact
<1> HIDE DEF pos, n
<1>21. dirtyIdx \subseteq dirtyIdx' /\ dirtyIdx' \subseteq dirtyIdx \cup {b}
       /\ dirtyInfo \subseteq dirtyInfo' /\ dirtyInfo' \subseteq dirtyInfo \cup {f}
       /\ (new => f \in dirtyInfo')
       /\ (~new => idx' = idx /\ dirtyIdx' = dirtyIdx)
  BY <1>20
<1>13. /\ new => idx'[b].data = pos /\ idx'[b].undo = NoPos
       /\ \A c \in Block : (c # b \/ ~new) => idx'[c] = idx[c]
       /\ idx' \in [Block -> [data : Pos, undo : Pos]]
  <2>1. idx \in [Block -> [data : Pos, undo : Pos]]
    BY <1>1 DEF Stores
  <2>2. [data |-> pos, undo |-> NoPos] \in [data : Pos, undo : Pos]
    BY <1>12, PosFact
  <2>3. QED
    BY <1>20, <2>1, <2>2
<1> HIDE DEF new
<1>14. Stores'
  BY <1>1, <1>2, <1>3, <1>10, <1>13, <1>21 DEF Stores
<1>15. Arrays'
  <2>1. \A g \in Files : /\ DOMAIN blkDisk'[g] = 0 .. Capacity - 1
                         /\ DOMAIN revDisk'[g] = 0 .. MaxUndo - 1
    BY <1>1, <1>6, <1>7, <1>9 DEF Arrays
  <2>2. QED
    BY <1>3, <1>7, <1>8, <1>9, <2>1 DEF Arrays
<1>16. Ahead'
  <2>1. lastFileDb' <= lastFile'
    BY <1>2, <1>3, <1>5
  <2>2. \A g \in Files : infoDb'[g].nsize <= info'[g].nsize /\ infoDb'[g].nundo <= info'[g].nundo
    <3>1. SUFFICES ASSUME NEW g \in Files
                   PROVE  infoDb'[g].nsize <= info'[g].nsize /\ infoDb'[g].nundo <= info'[g].nundo
      OBVIOUS
    <3>2. /\ infoDb[g].nsize <= info[g].nsize /\ infoDb[g].nundo <= info[g].nundo
          /\ infoDb[g].nsize \in Nat /\ info[g].nsize \in Nat
      BY <1>1, SizeFact DEF Ahead
    <3>3. /\ info'[g].nsize \in Nat /\ info[g].nsize <= info'[g].nsize
          /\ info'[g].nundo = info[g].nundo /\ infoDb' = infoDb
      BY <1>3, <1>11
    <3>4. QED
      BY <3>2, <3>3
  <2>3. \A c \in dirtyIdx' : idx'[c].data # NoPos /\ idx'[c].data.file \in dirtyInfo'
    <3>1. SUFFICES ASSUME NEW c \in dirtyIdx'
                   PROVE  idx'[c].data # NoPos /\ idx'[c].data.file \in dirtyInfo'
      OBVIOUS
    <3>2. CASE c = b /\ new
      BY <1>12, <1>13, <1>21, <3>2
    <3>3. CASE c # b \/ ~new
      BY <1>1, <1>13, <1>21, <3>1, <3>3 DEF Ahead, Stores
    <3>4. QED
      BY <3>2, <3>3
  <2>4. QED
    BY <1>3, <2>1, <2>2, <2>3 DEF Ahead
<1>17. ASSUME NEW c \in Block PROVE Backed(c)'
  <2>1. CASE c = b /\ new
    <3>1. f <= f /\ n < n + 1 /\ ~(f < f)
      BY <1>5
    <3>2. QED
      BY <1>3, <1>8, <1>10, <1>12, <1>13, <2>1, <3>1 DEF Backed
  <2>2. CASE c # b \/ ~new
    <3> DEFINE d == idx[c].data
               u == idx[c].undo
    <3>1. idx'[c].data = d /\ idx'[c].undo = u
      BY <1>13, <2>2
    <3>2. d # NoPos => /\ d.file \in Files /\ d.at \in Nat /\ d.file <= lastFile
                       /\ d.at < info[d.file].nsize /\ blk[d.file][d.at] = c
                       /\ d.file < lastFile => blkDisk[d.file][d.at] = c
      BY <1>1, EntryFact, PosFact DEF Backed
    <3>3. u # NoPos => /\ u.file \in Files /\ u.at \in Nat
                       /\ d # NoPos /\ u.file = d.file /\ u.at < info[u.file].nundo
                       /\ \/ rev[u.file][u.at].prev = Parent[c]
                          \/ u.file < lastFile /\ c \in lost
      BY <1>1, EntryFact, PosFact DEF Backed
    <3> HIDE DEF d, u
    <3>4. ASSUME d # NoPos
          PROVE  /\ d.file <= lastFile' /\ d.at < info'[d.file].nsize /\ blk'[d.file][d.at] = c
                 /\ d.file < lastFile' => blkDisk'[d.file][d.at] = c
      <4>1. d.file \in Files /\ d.file \in Nat /\ d.at \in Nat /\ d.file <= lastFile
            /\ d.at < info[d.file].nsize
        BY <1>5, <3>2, <3>4
      <4>2. d.file <= lastFile'
        BY <1>2, <1>3, <1>5, <4>1
      <4>3. d.at < info'[d.file].nsize
        <5>1. /\ info'[d.file].nsize \in Nat /\ info[d.file].nsize <= info'[d.file].nsize
              /\ info[d.file].nsize \in Nat
          BY <1>5, <1>11, <4>1
        <5>2. QED
          BY <4>1, <5>1
      <4>4. blk'[d.file][d.at] = c
        BY <1>8, <3>2, <3>4, <4>1
      <4>5. d.file < lastFile' => blkDisk'[d.file][d.at] = c
        <5>1. CASE f = lastFile
          BY <1>3, <1>9, <3>2, <3>4, <4>1, <5>1
        <5>2. CASE f # lastFile /\ d.file = lastFile
          BY <1>6, <1>9, <3>2, <3>4, <4>1, <5>2
        <5>3. CASE f # lastFile /\ d.file # lastFile
          <6>1. d.file < lastFile
            BY <1>5, <4>1, <5>3
          <6>2. QED
            BY <1>9, <3>2, <3>4, <4>1, <5>3, <6>1
        <5>4. QED
          BY <5>1, <5>2, <5>3
      <4>6. QED
        BY <4>2, <4>3, <4>4, <4>5
    <3>5. ASSUME u # NoPos
          PROVE  /\ d # NoPos /\ u.file = d.file /\ u.at < info'[u.file].nundo
                 /\ \/ rev'[u.file][u.at].prev = Parent[c]
                    \/ u.file < lastFile' /\ c \in lost'
      <4>1. u.file \in Files /\ u.file \in Nat /\ u.at \in Nat /\ u.at < info[u.file].nundo
        BY <1>5, <3>3, <3>5
      <4>2. u.at < info'[u.file].nundo /\ rev'[u.file][u.at] = rev[u.file][u.at]
        BY <1>3, <1>7, <1>11, <4>1
      <4>3. u.file < lastFile => u.file < lastFile'
        BY <1>2, <1>3, <1>5, <4>1
      <4>4. QED
        BY <1>3, <3>3, <3>5, <4>2, <4>3
    <3>6. QED
      BY <3>1, <3>4, <3>5 DEF Backed
  <2>3. QED
    BY <2>1, <2>2
<1>18. ASSUME NEW c \in Block PROVE BackedOnDisk(c)'
  <2> DEFINE d == idxDb[c].data
             u == idxDb[c].undo
  <2>1. /\ d # NoPos => /\ d.file \in Files /\ d.at \in Nat /\ d = idx[c].data
                        /\ d.file <= lastFileDb /\ d.at < infoDb[d.file].nsize
                        /\ d.at < info[d.file].nsize
                        /\ blkDisk[d.file][d.at] = c /\ blk[d.file][d.at] = c
    BY <1>1, EntryFact, PosFact DEF Backed, BackedOnDisk
  <2>2. u # NoPos => /\ u.file \in Files /\ u.at \in Nat /\ u = idx[c].undo /\ d # NoPos
                     /\ u.at < infoDb[u.file].nundo /\ u.at < info[u.file].nundo
                     /\ \/ /\ revDisk[u.file][u.at].prev = Parent[c]
                           /\ rev[u.file][u.at].prev = Parent[c]
                        \/ /\ u.file < lastFileDb
                           /\ c \in lost \/ rev[u.file][u.at].prev = Parent[c]
    BY <1>1, EntryFact, PosFact DEF Backed, BackedOnDisk
  <2>3. d # NoPos => c # b
    BY <1>3, <2>1
  <2>4. d # NoPos => idx'[c] = idx[c]
    BY <1>13, <2>3
  <2>5. d # NoPos => blkDisk'[d.file][d.at] = c
    <3> HIDE DEF d
    <3> QED BY <1>6, <1>9, <2>1
  <2>6. u # NoPos => /\ rev'[u.file][u.at] = rev[u.file][u.at]
                     /\ \/ revDisk'[u.file][u.at] = revDisk[u.file][u.at]
                        \/ revDisk'[u.file][u.at] = rev[u.file][u.at]
    <3> HIDE DEF u
    <3> QED BY <1>3, <1>7, <1>9, <2>2
  <2>7. idxDb' = idxDb /\ infoDb' = infoDb /\ lastFileDb' = lastFileDb /\ lost' = lost
    BY <1>3
  <2>8. d # NoPos => /\ d = idx'[c].data /\ d.file <= lastFileDb' /\ d.at < infoDb'[d.file].nsize
                     /\ blkDisk'[d.file][d.at] = c
    <3> HIDE DEF d
    <3> QED BY <2>1, <2>4, <2>5, <2>7
  <2>9. u # NoPos => /\ u = idx'[c].undo /\ d # NoPos /\ u.at < infoDb'[u.file].nundo
                     /\ \/ /\ revDisk'[u.file][u.at].prev = Parent[c]
                           /\ rev'[u.file][u.at].prev = Parent[c]
                        \/ /\ u.file < lastFileDb'
                           /\ c \in lost' \/ rev'[u.file][u.at].prev = Parent[c]
    <3> HIDE DEF d, u
    <3> QED BY <2>2, <2>4, <2>6, <2>7
  <2>10. QED
    BY <2>7, <2>8, <2>9 DEF BackedOnDisk
<1>19. QED
  BY <1>14, <1>15, <1>16, <1>17, <1>18 DEF FilesOk

\* findundopos and undowritetodisk.
LEMMA UndoFiles ==
  ASSUME FilesOk, NEW b \in Block, NEW vtxundo, WriteUndo(b, vtxundo, {}), pc = "run",
         idx[b].data # NoPos, idx[b].undo = NoPos, tip'.best \in Block,
         UNCHANGED <<lastFile, blk, blkDisk, revDisk, dbs, control, lost>>
  PROVE  FilesOk'
<1> DEFINE f == idx[b].data.file
           n == info[f].nundo
           pos == [file |-> f, at |-> n]
           e == [prev |-> Parent[b], vtxundo |-> vtxundo]
<1>1. /\ Stores /\ Arrays /\ Ahead /\ lastFile \in Files
      /\ \A c \in Block : Backed(c) /\ BackedOnDisk(c)
  BY DEF FilesOk, Stores
<1>2. f \in Files /\ f <= lastFile
  BY <1>1, EntryFact, PosFact DEF Backed
<1>3. /\ n < MaxUndo /\ info' = [info EXCEPT ![f].nundo = @ + 1]
      /\ dirtyInfo' = dirtyInfo \cup {f}
      /\ rev' = [rev EXCEPT ![f][n] = e]
      /\ idx' = [idx EXCEPT ![b].undo = pos]
      /\ dirtyIdx' = dirtyIdx \cup {b}
      /\ UNCHANGED <<lastFile, blk, blkDisk, revDisk, idxDb, infoDb, lastFileDb,
                     coinsDb, coinsDisk, pc, lost>>
  BY DEF WriteUndo, FindUndoPos, dbs, control
<1>4. idx'[b].data.file = f /\ idx'[b].data = idx[b].data /\ idx'[b].undo = pos
      /\ \A c \in Block : c # b => idx'[c] = idx[c]
  BY <1>1, <1>3 DEF Stores
<1> HIDE DEF f
<1>5. /\ Files \subseteq Nat /\ Capacity \in Nat /\ MaxUndo \in Nat /\ n \in Nat /\ f \in Nat
      /\ \A g \in Files : info[g].nsize \in 0 .. Capacity /\ info[g].nundo \in 0 .. MaxUndo
  BY <1>1, <1>2, FileFact, SizeFact
<1>6. pos \in Pos /\ pos # NoPos /\ pos.file = f /\ pos.at = n
  BY <1>2, <1>5, PosFact
<1>7. /\ info'[f].nundo = n + 1 /\ info'[f].nsize = info[f].nsize
      /\ \A g \in Files : g # f => info'[g] = info[g]
      /\ info' \in [Files -> [nsize : 0 .. Capacity, nundo : 0 .. MaxUndo]]
  <2>1. info \in [Files -> [nsize : 0 .. Capacity, nundo : 0 .. MaxUndo]]
    BY <1>1 DEF Stores
  <2>2. info'[f].nundo = n + 1 /\ info'[f].nsize = info[f].nsize
        /\ \A g \in Files : g # f => info'[g] = info[g]
    BY <1>2, <1>3, <2>1
  <2>3. n + 1 \in 0 .. MaxUndo
    BY <1>3, <1>5
  <2>4. info' = [info EXCEPT ![f] = [nsize |-> info[f].nsize, nundo |-> n + 1]]
    <3>1. info' = [info EXCEPT ![f] = [info[f] EXCEPT !.nundo = n + 1]]
      BY <1>3
    <3>2. [info[f] EXCEPT !.nundo = n + 1] = [nsize |-> info[f].nsize, nundo |-> n + 1]
      <4>1. info[f] \in [nsize : 0 .. Capacity, nundo : 0 .. MaxUndo]
        BY <1>2, <2>1
      <4> HIDE DEF n
      <4>2. QED
        BY <4>1
    <3>3. QED
      BY <3>1, <3>2
  <2>5. [nsize |-> info[f].nsize, nundo |-> n + 1] \in [nsize : 0 .. Capacity, nundo : 0 .. MaxUndo]
    BY <1>2, <1>5, <2>3
  <2>6. QED
    BY <2>1, <2>2, <2>4, <2>5
<1>8. \A g \in Files : /\ info'[g].nundo \in Nat /\ info[g].nundo <= info'[g].nundo
                       /\ info'[g].nsize = info[g].nsize
  <2>1. ASSUME NEW g \in Files
        PROVE  /\ info'[g].nundo \in Nat /\ info[g].nundo <= info'[g].nundo
               /\ info'[g].nsize = info[g].nsize
    <3>1. CASE g = f
      BY <1>5, <1>7, <3>1
    <3>2. CASE g # f
      BY <1>5, <1>7, <3>2
    <3>3. QED
      BY <3>1, <3>2
  <2>2. QED
    BY <2>1
<1>9. /\ DOMAIN rev' = Files /\ rev'[f][n].prev = Parent[b]
      /\ \A g \in Files : DOMAIN rev'[g] = 0 .. MaxUndo - 1
      /\ \A g \in Files, p \in Nat : p < info[g].nundo => rev'[g][p] = rev[g][p]
  <2>1. n \in 0 .. MaxUndo - 1 /\ e.prev = Parent[b]
    BY <1>3, <1>5
  <2> HIDE DEF n, e
  <2>2. /\ DOMAIN rev' = Files
        /\ \A g \in Files : rev'[g] = IF g = f THEN [rev[f] EXCEPT ![n] = e] ELSE rev[g]
    BY <1>1, <1>2, <1>3 DEF Arrays
  <2>3. rev'[f][n] = e /\ \A g \in Files : DOMAIN rev'[g] = 0 .. MaxUndo - 1
    BY <1>1, <1>2, <2>1, <2>2 DEF Arrays
  <2>4. ASSUME NEW g \in Files, NEW p \in Nat, p < info[g].nundo PROVE rev'[g][p] = rev[g][p]
    <3>1. p \in 0 .. MaxUndo - 1
      BY <1>5, <2>4
    <3>2. g = f => p # n
      BY <1>5, <2>4 DEF n
    <3>3. QED
      BY <1>1, <2>2, <3>1, <3>2 DEF Arrays
  <2>5. QED
    BY <2>1, <2>2, <2>3, <2>4
<1> HIDE DEF n, pos, e
<1>10. idx' \in [Block -> [data : Pos, undo : Pos]]
  <2>1. idx \in [Block -> [data : Pos, undo : Pos]]
    BY <1>1 DEF Stores
  <2>2. QED
    BY <1>3, <1>6, <2>1
<1>11. Stores'
  BY <1>1, <1>2, <1>3, <1>7, <1>10 DEF Stores
<1>12. Arrays'
  BY <1>1, <1>3, <1>9 DEF Arrays
<1>13. Ahead'
  <2>1. \A g \in Files : infoDb'[g].nsize <= info'[g].nsize /\ infoDb'[g].nundo <= info'[g].nundo
    <3>1. SUFFICES ASSUME NEW g \in Files
                   PROVE  infoDb'[g].nsize <= info'[g].nsize /\ infoDb'[g].nundo <= info'[g].nundo
      OBVIOUS
    <3>2. /\ infoDb[g].nsize <= info[g].nsize /\ infoDb[g].nundo <= info[g].nundo
          /\ infoDb[g].nundo \in Nat /\ info[g].nundo \in Nat
      BY <1>1, SizeFact DEF Ahead
    <3>3. /\ info'[g].nundo \in Nat /\ info[g].nundo <= info'[g].nundo
          /\ info'[g].nsize = info[g].nsize /\ infoDb' = infoDb
      BY <1>3, <1>8
    <3>4. QED
      BY <3>2, <3>3
  <2>2. \A c \in dirtyIdx' : idx'[c].data # NoPos /\ idx'[c].data.file \in dirtyInfo'
    BY <1>1, <1>3, <1>4 DEF Ahead, Stores
  <2>3. QED
    BY <1>1, <1>3, <2>1, <2>2 DEF Ahead
<1>14. ASSUME NEW c \in Block PROVE Backed(c)'
  <2> DEFINE d == idx[c].data
             u == idx[c].undo
  <2>1. idx'[c].data = d
    BY <1>4
  <2>2. d # NoPos => /\ d.file \in Files /\ d.file <= lastFile
                     /\ d.at < info[d.file].nsize /\ blk[d.file][d.at] = c
                     /\ d.file < lastFile => blkDisk[d.file][d.at] = c
    BY <1>1, EntryFact, PosFact DEF Backed
  <2>3. u # NoPos => /\ u.file \in Files /\ u.at \in Nat
                     /\ d # NoPos /\ u.file = d.file /\ u.at < info[u.file].nundo
                     /\ \/ rev[u.file][u.at].prev = Parent[c]
                        \/ u.file < lastFile /\ c \in lost
    BY <1>1, EntryFact, PosFact DEF Backed
  <2>4. d # NoPos => /\ d.file <= lastFile' /\ d.at < info'[d.file].nsize /\ blk'[d.file][d.at] = c
                     /\ d.file < lastFile' => blkDisk'[d.file][d.at] = c
    <3> HIDE DEF d
    <3> QED BY <1>3, <1>8, <2>2
  <2>5. CASE c = b
    <3>1. n < n + 1
      BY <1>5
    <3>2. /\ idx'[c].undo = pos /\ d # NoPos /\ pos.file = d.file /\ pos.at < info'[pos.file].nundo
          /\ rev'[pos.file][pos.at].prev = Parent[c]
      BY <1>4, <1>6, <1>7, <1>9, <2>5, <3>1 DEF f
    <3> HIDE DEF d
    <3>3. QED
      BY <2>1, <2>4, <3>2 DEF Backed
  <2>6. CASE c # b
    <3>1. idx'[c].undo = u
      BY <1>4, <2>6
    <3> HIDE DEF d, u
    <3>2. ASSUME u # NoPos
          PROVE  /\ d # NoPos /\ u.file = d.file /\ u.at < info'[u.file].nundo
                 /\ \/ rev'[u.file][u.at].prev = Parent[c]
                    \/ u.file < lastFile' /\ c \in lost'
      <4>1. u.file \in Files /\ u.at \in Nat /\ u.at < info[u.file].nundo
        BY <2>3, <3>2
      <4>2. rev'[u.file][u.at] = rev[u.file][u.at]
        BY <1>9, <4>1
      <4>3. /\ info[u.file].nundo \in Nat /\ info'[u.file].nundo \in Nat
            /\ info[u.file].nundo <= info'[u.file].nundo
        <5>1. info[u.file].nundo \in Nat
          BY <1>1, <4>1, SizeFact
        <5>2. QED
          BY <1>8, <4>1, <5>1
      <4>4. u.at < info'[u.file].nundo
        BY <4>1, <4>3
      <4>5. QED
        BY <1>3, <2>3, <3>2, <4>2, <4>4
    <3>3. QED
      BY <2>1, <2>4, <3>1, <3>2 DEF Backed
  <2>7. QED
    BY <2>5, <2>6
<1>15. ASSUME NEW c \in Block PROVE BackedOnDisk(c)'
  <2> DEFINE d == idxDb[c].data
             u == idxDb[c].undo
  <2>1. d # NoPos => /\ d = idx[c].data
                     /\ d.file <= lastFileDb /\ d.at < infoDb[d.file].nsize
                     /\ blkDisk[d.file][d.at] = c
    BY <1>1 DEF BackedOnDisk
  <2>2. u # NoPos => /\ u.file \in Files /\ u.at \in Nat /\ u = idx[c].undo /\ d # NoPos
                     /\ u.at < infoDb[u.file].nundo /\ u.at < info[u.file].nundo
                     /\ \/ /\ revDisk[u.file][u.at].prev = Parent[c]
                           /\ rev[u.file][u.at].prev = Parent[c]
                        \/ /\ u.file < lastFileDb
                           /\ c \in lost \/ rev[u.file][u.at].prev = Parent[c]
    BY <1>1, EntryFact, PosFact DEF Backed, BackedOnDisk
  <2>3. u # NoPos => c # b
    BY <2>2
  <2>4. (u # NoPos => idx'[c].undo = u) /\ (d # NoPos => idx'[c].data = d)
    BY <1>4, <2>1, <2>2, <2>3
  <2>5. u # NoPos => rev'[u.file][u.at] = rev[u.file][u.at]
    <3> HIDE DEF u
    <3> QED BY <1>9, <2>2
  <2>6. UNCHANGED <<idxDb, infoDb, lastFileDb, lost, blkDisk, revDisk>>
    BY <1>3
  <2>7. d # NoPos => /\ d = idx'[c].data /\ d.file <= lastFileDb' /\ d.at < infoDb'[d.file].nsize
                     /\ blkDisk'[d.file][d.at] = c
    <3> HIDE DEF d
    <3> QED BY <2>1, <2>4, <2>6
  <2>8. u # NoPos => /\ u = idx'[c].undo /\ d # NoPos /\ u.at < infoDb'[u.file].nundo
                     /\ \/ /\ revDisk'[u.file][u.at].prev = Parent[c]
                           /\ rev'[u.file][u.at].prev = Parent[c]
                        \/ /\ u.file < lastFileDb'
                           /\ c \in lost' \/ rev'[u.file][u.at].prev = Parent[c]
    <3> HIDE DEF d, u
    <3> QED BY <2>2, <2>4, <2>5, <2>6
  <2>9. QED
    BY <2>6, <2>7, <2>8 DEF BackedOnDisk
<1>16. QED
  BY <1>11, <1>12, <1>13, <1>14, <1>15 DEF FilesOk

\* connecttip
LEMMA ConnectCases ==
  ASSUME Intact', NEW b \in Block, ConnectTip(b), idx[b].undo = NoPos
  PROVE  /\ WriteUndo(b, ConnectCoins(tip.coins, Vtx[b], NHeight(b)).vtxundo, {})
         /\ UNCHANGED failed
<1>1. PICK bad \in SUBSET {"undo"} :
        WriteUndo(b, ConnectCoins(tip.coins, Vtx[b], NHeight(b)).vtxundo, bad) /\ Failing(bad)
  BY DEF ConnectTip
<1>2. bad = {}
  BY <1>1, NoFailure
<1>3. QED
  BY <1>1, <1>2 DEF Failing

LEMMA ConnectFiles ==
  ASSUME FilesOk, Intact', NEW b \in Block, ConnectTip(b) PROVE FilesOk'
<1>1. tip'.best = b /\ pc = "run" /\ idx[b].data # NoPos
  BY DEF ConnectTip, DataReadable
<1>2. UNCHANGED <<lastFile, blk, blkDisk, revDisk, dbs, control, lost>>
  BY DEF ConnectTip
<1>3. CASE idx[b].undo = NoPos
  <2>1. PICK v : WriteUndo(b, v, {})
    BY <1>3, ConnectCases
  <2>2. QED
    BY <1>1, <1>2, <1>3, <2>1, UndoFiles
<1>4. CASE idx[b].undo # NoPos
  <2>1. UNCHANGED <<idx, dirtyIdx, info, dirtyInfo, rev>>
    BY <1>4 DEF ConnectTip
  <2>2. {tip'.best, coinsDb'.best, coinsDisk'.best} \subseteq Block
    BY <1>1, <1>2 DEF FilesOk, Stores, dbs
  <2>3. QED
    BY <1>1, <1>2, <2>1, <2>2, SameFiles DEF files, dbs, control
<1>5. QED
  BY <1>3, <1>4

\* findundopos took a place that is not used: only the size grew.
LEMMA GrowFact ==
  ASSUME Stores, NEW b \in Block, FindUndoPos(b), idx[b].data # NoPos
  PROVE  /\ idx[b].data.file \in Files
         /\ info' \in [Files -> [nsize : 0 .. Capacity, nundo : 0 .. MaxUndo]]
         /\ \A g \in Files : info'[g].nsize = info[g].nsize /\ info[g].nundo <= info'[g].nundo
<1> DEFINE f == idx[b].data.file
           n == info[f].nundo
<1>1. f \in Files
  BY EntryFact, PosFact
<1>2. info \in [Files -> [nsize : 0 .. Capacity, nundo : 0 .. MaxUndo]]
  BY DEF Stores
<1>3. n < MaxUndo /\ info' = [info EXCEPT ![f].nundo = n + 1]
  BY DEF FindUndoPos
<1> HIDE DEF f
<1>4. info[f] \in [nsize : 0 .. Capacity, nundo : 0 .. MaxUndo] /\ MaxUndo \in Nat
  BY <1>1, <1>2, FileFact
<1>5. n \in Nat /\ n + 1 \in 0 .. MaxUndo /\ info[f].nsize \in 0 .. Capacity
  BY <1>3, <1>4
<1>6. info' = [info EXCEPT ![f] = [info[f] EXCEPT !.nundo = n + 1]]
  BY <1>3
<1>7. [info[f] EXCEPT !.nundo = n + 1] = [nsize |-> info[f].nsize, nundo |-> n + 1]
  <2> HIDE DEF n
  <2>1. QED
    BY <1>4
<1>8. [nsize |-> info[f].nsize, nundo |-> n + 1] \in [nsize : 0 .. Capacity, nundo : 0 .. MaxUndo]
  BY <1>5
<1>9. info' \in [Files -> [nsize : 0 .. Capacity, nundo : 0 .. MaxUndo]]
  BY <1>2, <1>6, <1>7, <1>8
<1>10. ASSUME NEW g \in Files
       PROVE  info'[g].nsize = info[g].nsize /\ info[g].nundo <= info'[g].nundo
  <2>1. CASE g # f
    <3>1. info'[g] = info[g] /\ info[g].nundo \in 0 .. MaxUndo
      BY <1>2, <1>6, <2>1
    <3>2. QED
      BY <3>1
  <2>2. CASE g = f
    <3>1. info'[g] = [nsize |-> info[f].nsize, nundo |-> n + 1]
      BY <1>1, <1>2, <1>6, <1>7, <2>2
    <3> HIDE DEF n
    <3>2. info'[g].nsize = info[f].nsize /\ info'[g].nundo = n + 1
      BY <3>1
    <3>3. QED
      BY <1>5, <2>2, <3>2 DEF n
  <2>3. QED
    BY <2>1, <2>2
<1>11. QED
  BY <1>1, <1>9, <1>10 DEF f

LEMMA GrowFiles ==
  ASSUME FilesOk, NEW b \in Block, ConnectTipFails(b) PROVE FilesOk'
<1>1. /\ Stores /\ Arrays /\ Ahead /\ pc = "run"
      /\ \A c \in Block : Backed(c) /\ BackedOnDisk(c)
      /\ FindUndoPos(b) /\ idx[b].data # NoPos
  BY DEF FilesOk, ConnectTipFails, DataReadable
<1>2. /\ UNCHANGED <<idx, dirtyIdx, lastFile, tip, blk, rev, blkDisk, revDisk, idxDb, infoDb,
                      lastFileDb, coinsDb, coinsDisk, pc, lost>>
      /\ dirtyInfo' = dirtyInfo \cup {idx[b].data.file}
  BY DEF ConnectTipFails, FindUndoPos, files, dbs, control
<1>3. /\ idx[b].data.file \in Files
      /\ info' \in [Files -> [nsize : 0 .. Capacity, nundo : 0 .. MaxUndo]]
      /\ \A g \in Files : info'[g].nsize = info[g].nsize /\ info[g].nundo <= info'[g].nundo
  BY <1>1, GrowFact
<1>4. Stores'
  BY <1>1, <1>2, <1>3 DEF Stores
<1>5. Arrays'
  BY <1>1, <1>2 DEF Arrays
<1>6. \A g \in Files : /\ info[g].nundo \in Nat /\ infoDb[g].nundo \in Nat /\ info'[g].nundo \in Nat
  BY <1>1, <1>3, SizeFact
<1>7. Ahead'
  <2>1. \A g \in Files : infoDb'[g].nsize <= info'[g].nsize /\ infoDb'[g].nundo <= info'[g].nundo
    <3>1. SUFFICES ASSUME NEW g \in Files
                   PROVE  infoDb'[g].nsize <= info'[g].nsize /\ infoDb'[g].nundo <= info'[g].nundo
      OBVIOUS
    <3>2. infoDb[g].nsize <= info[g].nsize /\ infoDb[g].nundo <= info[g].nundo
      BY <1>1 DEF Ahead
    <3>3. QED
      BY <1>2, <1>3, <1>6, <3>2
  <2>2. QED
    BY <1>1, <1>2, <2>1 DEF Ahead
<1>8. ASSUME NEW c \in Block PROVE Backed(c)' /\ BackedOnDisk(c)'
  <2>1. /\ idx[c].data # NoPos => idx[c].data.file \in Files
        /\ idx[c].undo # NoPos => idx[c].undo.file \in Files /\ idx[c].undo.at \in Nat
    BY <1>1, EntryFact, PosFact
  <2>2. idx[c].undo # NoPos => idx[c].undo.at < info'[idx[c].undo.file].nundo
    <3> DEFINE u == idx[c].undo
    <3>1. u # NoPos => u.at < info[u.file].nundo
      BY <1>1 DEF Backed
    <3> HIDE DEF u
    <3>2. QED
      BY <1>3, <1>6, <2>1, <3>1 DEF u
  <2>3. Backed(c)'
    BY <1>1, <1>2, <1>3, <2>1, <2>2 DEF Backed
  <2>4. BackedOnDisk(c)'
    BY <1>1, <1>2 DEF BackedOnDisk
  <2>5. QED
    BY <2>3, <2>4
<1>9. QED
  BY <1>4, <1>5, <1>7, <1>8 DEF FilesOk

\* What failed is remembered.
LEMMA FailedGrows == [Next]_vars => failed \subseteq failed' /\ lost \subseteq lost'
<1> SUFFICES ASSUME [Next]_vars PROVE failed \subseteq failed' /\ lost \subseteq lost'
  OBVIOUS
<1>1. ASSUME NEW b \in Block, AcceptBlock(b) \/ AcceptBlockFails(b)
      PROVE  failed \subseteq failed' /\ lost \subseteq lost'
  BY <1>1 DEF AcceptBlock, AcceptBlockFails, Failing
<1>2. ASSUME NEW b \in Block, ConnectTip(b) \/ ConnectTipFails(b)
      PROVE  failed \subseteq failed' /\ lost \subseteq lost'
  <2>1. CASE ConnectTip(b)
    <3>1. lost' = lost /\ ((\E bad : Failing(bad)) \/ failed' = failed)
      BY <2>1 DEF ConnectTip
    <3>2. QED
      BY <3>1 DEF Failing
  <2>2. CASE ConnectTipFails(b)
    BY <2>2 DEF ConnectTipFails
  <2>3. QED
    BY <1>2, <2>1, <2>2
<1>3. CASE \E doFull \in BOOLEAN : BeginFlush(doFull)
  BY <1>3 DEF BeginFlush, Failing
<1>4. QED
  BY <1>1, <1>2, <1>3 DEF Next, vars, DisconnectTip, WriteIndex, WriteIndexFails,
     NoSpaceForCoins, FlushCoins, FlushCoinsFails, Restart, PowerFailure, history

\* Every step keeps the invariant of the files and the index.
LEMMA FilesStep == FilesInv /\ [Next]_vars => FilesInv'
<1> SUFFICES ASSUME FilesInv, [Next]_vars, Intact' PROVE FilesOk'
  BY DEF FilesInv
<1> FilesOk
  BY FailedGrows DEF FilesInv, Intact
<1>1. {tip.best, coinsDb.best, coinsDisk.best} \subseteq Block
  BY DEF FilesOk, Stores
<1>2. CASE UNCHANGED vars
  <2>1. Stores' /\ Arrays' /\ Ahead'
    BY <1>2 DEF FilesOk, Stores, Arrays, Ahead, vars, memory, files, dbs, control, history
  <2>2. \A b \in Block : Backed(b)' /\ BackedOnDisk(b)'
    BY <1>2 DEF FilesOk, Backed, BackedOnDisk, vars, memory, files, dbs, control, history
  <2>3. QED
    BY <2>1, <2>2 DEF FilesOk
<1>3. ASSUME NEW b \in Block \ {Genesis}, AcceptBlock(b) \/ AcceptBlockFails(b) PROVE FilesOk'
  BY <1>3, AcceptFiles
<1>4. ASSUME NEW b \in Block \ {Genesis}, ConnectTip(b) \/ ConnectTipFails(b) PROVE FilesOk'
  BY <1>4, ConnectFiles, GrowFiles
<1>5. CASE DisconnectTip
  <2>1. tip'.best \in Block /\ pc' = "run"
    <3>1. tip.best \in Block \ {Genesis} /\ tip'.best = Parent[tip.best] /\ pc' = pc /\ pc = "run"
      BY <1>1, <1>5 DEF DisconnectTip, control
    <3>2. QED
      BY <3>1, HeaderTreeAssumption
  <2>2. QED
    BY <1>1, <1>5, <2>1, SameFiles DEF DisconnectTip, dbs, control, history
<1>6. ASSUME NEW doFull \in BOOLEAN, BeginFlush(doFull) PROVE FilesOk'
  BY <1>6, BeginFiles
<1>7. CASE WriteIndex
  BY <1>7, WriteFiles
<1>8. CASE WriteIndexFails
  <2>1. /\ dirtyIdx' = {} /\ dirtyInfo' = {} /\ pc' = "run"
        /\ UNCHANGED <<idx, info, lastFile, tip, blk, rev, blkDisk, revDisk,
                       idxDb, infoDb, lastFileDb, coinsDb, coinsDisk, lost>>
    BY <1>8 DEF WriteIndexFails, files, dbs
  <2>2. Stores' /\ Arrays' /\ Ahead'
    BY <2>1 DEF FilesOk, Stores, Arrays, Ahead
  <2>3. \A b \in Block : Backed(b)' /\ BackedOnDisk(b)'
    BY <2>1 DEF FilesOk, Backed, BackedOnDisk
  <2>4. QED
    BY <2>2, <2>3 DEF FilesOk
<1>9. CASE NoSpaceForCoins
  BY <1>1, <1>9, SameFiles DEF NoSpaceForCoins, memory, dbs, history
<1>10. CASE FlushCoins
  <2>1. {tip'.best, coinsDb'.best, coinsDisk'.best} \subseteq Block
    BY <1>1, <1>10 DEF FlushCoins, memory
  <2>2. QED
    BY <1>10, <2>1, SameFiles DEF FlushCoins, memory, history
<1>11. CASE FlushCoinsFails
  <2>1. tip' = [tip EXCEPT !.coins = coinsDb.coins]
    BY <1>11 DEF FlushCoinsFails
  <2>2. tip'.best = tip.best
    BY <2>1
  <2>3. QED
    BY <1>1, <1>11, <2>2, SameFiles DEF FlushCoinsFails, dbs
<1>12. CASE Restart
  BY <1>12, RestartFiles
<1>13. CASE PowerFailure
  BY <1>13, PowerFiles
<1>14. QED
  BY <1>2, <1>3, <1>4, <1>5, <1>6, <1>7, <1>8, <1>9, <1>10, <1>11, <1>12, <1>13 DEF Next

\* The invariant of the files and the index holds in every reachable state.
THEOREM FilesInvariance == Spec => []FilesInv
<1>1. Init => FilesInv
  BY InitFiles DEF FilesInv
<1>2. QED
  BY <1>1, FilesStep, PTL DEF Spec

\* While blocks and undo data that the index speaks of were written and commits did
\* what they should, a block that the index database knows has its data on the disk
\* after any crash, power failure or failing write of a database, and its undo data
\* too, except that undo data of an older file may be lost in a power failure:
\* findundopos and flushblockfile never commit it.
THEOREM IndexAlwaysBacked == Spec => []IndexIsBacked
<1>1. FilesInv => IndexIsBacked
  BY DEF FilesInv, FilesOk, Intact, BackedOnDisk, IndexIsBacked
<1>2. QED
  BY <1>1, FilesInvariance, PTL

-----------------------------------------------------------------------------
\* findblockpos, whatever fails in it.
LEMMA FindFact ==
  ASSUME Stores, NEW bad, FindBlockPos(bad)
  PROVE  /\ NextFile \in Files /\ lastFile' = NextFile /\ info[NextFile].nsize \in Nat
         /\ info' \in [Files -> [nsize : 0 .. Capacity, nundo : 0 .. MaxUndo]]
<1> DEFINE f == NextFile
           n == info[f].nsize
<1>1. f \in Files /\ n < Capacity
  BY RoomFact DEF FindBlockPos
<1>2. info \in [Files -> [nsize : 0 .. Capacity, nundo : 0 .. MaxUndo]]
  BY DEF Stores
<1>3. info' = [info EXCEPT ![f].nsize = n + 1] /\ lastFile' = f
  BY DEF FindBlockPos
<1> HIDE DEF f
<1>4. info[f] \in [nsize : 0 .. Capacity, nundo : 0 .. MaxUndo] /\ Capacity \in Nat
  BY <1>1, <1>2, FileFact
<1>5. n \in Nat /\ n + 1 \in 0 .. Capacity /\ info[f].nundo \in 0 .. MaxUndo
  BY <1>1, <1>4
<1>6. info' = [info EXCEPT ![f] = [info[f] EXCEPT !.nsize = n + 1]]
  BY <1>3
<1>7. [info[f] EXCEPT !.nsize = n + 1] = [nsize |-> n + 1, nundo |-> info[f].nundo]
  <2> HIDE DEF n
  <2>1. QED
    BY <1>4
<1>8. [nsize |-> n + 1, nundo |-> info[f].nundo] \in [nsize : 0 .. Capacity, nundo : 0 .. MaxUndo]
  BY <1>5
<1>9. info' \in [Files -> [nsize : 0 .. Capacity, nundo : 0 .. MaxUndo]]
  BY <1>2, <1>6, <1>7, <1>8
<1>10. QED
  BY <1>1, <1>3, <1>5, <1>9 DEF f

\* acceptblock marks its block with a place of a file.
LEMMA AcceptPlace ==
  ASSUME Stores, NEW b \in Block, AcceptBlock(b)
  PROVE  /\ lastFile' \in Files /\ dirtyInfo' \subseteq Files
         /\ info' \in [Files -> [nsize : 0 .. Capacity, nundo : 0 .. MaxUndo]]
         /\ idx' \in [Block -> [data : Pos, undo : Pos]]
         /\ idx'[b].data # NoPos /\ idx'[b].undo = NoPos
         /\ \A c \in Block : c # b => idx'[c] = idx[c]
<1> DEFINE pos == [file |-> NextFile, at |-> info[NextFile].nsize]
<1>1. PICK bad : FindBlockPos(bad)
  BY DEF AcceptBlock
<1>2. /\ NextFile \in Files /\ lastFile' = NextFile /\ info[NextFile].nsize \in Nat
      /\ info' \in [Files -> [nsize : 0 .. Capacity, nundo : 0 .. MaxUndo]]
  BY <1>1, FindFact
<1>3. pos \in Pos /\ pos # NoPos
  BY <1>2, PosFact
<1>4. idx' = [idx EXCEPT ![b] = [data |-> pos, undo |-> NoPos]]
      /\ dirtyInfo' = dirtyInfo \cup {NextFile}
  BY DEF AcceptBlock
<1>5. idx \in [Block -> [data : Pos, undo : Pos]] /\ dirtyInfo \subseteq Files
  BY DEF Stores
<1> HIDE DEF pos
<1>6. [data |-> pos, undo |-> NoPos] \in [data : Pos, undo : Pos]
  BY <1>3, PosFact
<1>7. QED
  BY <1>2, <1>3, <1>4, <1>5, <1>6

\* So does connecttip with the undo data, whether it was written or not.
LEMMA ConnectPlace ==
  ASSUME Stores, NEW b \in Block, ConnectTip(b)
  PROVE  /\ dirtyInfo' \subseteq Files
         /\ info' \in [Files -> [nsize : 0 .. Capacity, nundo : 0 .. MaxUndo]]
         /\ idx' \in [Block -> [data : Pos, undo : Pos]]
         /\ idx'[b].data = idx[b].data /\ idx'[b].undo # NoPos
         /\ \A c \in Block : c # b => idx'[c] = idx[c]
         /\ idx'[b] # idx[b] => b \in dirtyIdx'
         /\ dirtyIdx \subseteq dirtyIdx' /\ dirtyIdx' \subseteq dirtyIdx \cup {b}
<1>1. idx[b].data # NoPos
  BY DEF ConnectTip, DataReadable
<1>2. /\ idx \in [Block -> [data : Pos, undo : Pos]] /\ dirtyInfo \subseteq Files
      /\ info \in [Files -> [nsize : 0 .. Capacity, nundo : 0 .. MaxUndo]]
  BY DEF Stores
<1>3. CASE idx[b].undo # NoPos
  <2>1. UNCHANGED <<idx, dirtyIdx, info, dirtyInfo>>
    BY <1>3 DEF ConnectTip
  <2>2. QED
    BY <1>2, <1>3, <2>1
<1>4. CASE idx[b].undo = NoPos
  <2> DEFINE f == idx[b].data.file
             pos == [file |-> f, at |-> info[f].nundo]
  <2>1. PICK v, bad : WriteUndo(b, v, bad)
    BY <1>4 DEF ConnectTip
  <2>2. FindUndoPos(b) /\ idx' = [idx EXCEPT ![b].undo = pos] /\ dirtyIdx' = dirtyIdx \cup {b}
    BY <2>1 DEF WriteUndo
  <2>3. /\ f \in Files
        /\ info' \in [Files -> [nsize : 0 .. Capacity, nundo : 0 .. MaxUndo]]
    BY <1>1, <2>2, GrowFact
  <2>4. dirtyInfo' \subseteq Files
    BY <1>2, <2>2, <2>3 DEF FindUndoPos
  <2>5. pos \in Pos /\ pos # NoPos
    <3>1. info[f].nundo \in Nat
      BY <2>3, SizeFact
    <3>2. QED
      BY <2>3, <3>1, PosFact
  <2> HIDE DEF pos, f
  <2>6. idx[b] \in [data : Pos, undo : Pos]
    BY <1>2
  <2>7. [idx[b] EXCEPT !.undo = pos] = [data |-> idx[b].data, undo |-> pos]
    BY <2>6
  <2>8. [data |-> idx[b].data, undo |-> pos] \in [data : Pos, undo : Pos]
    BY <2>5, <2>6
  <2>9. idx' = [idx EXCEPT ![b] = [data |-> idx[b].data, undo |-> pos]]
    BY <2>2, <2>7
  <2>10. QED
    BY <1>2, <2>2, <2>3, <2>4, <2>5, <2>8, <2>9
<1>5. QED
  BY <1>3, <1>4

\* Every step keeps the types and the entries.
LEMMA PlaceStep == PlaceInv /\ [Next]_vars => PlaceInv'
<1> SUFFICES ASSUME PlaceInv, [Next]_vars PROVE PlaceInv'
  OBVIOUS
<1>1. /\ Stores
      /\ \A b \in Block : /\ idxDb[b].data # NoPos => idx[b].data # NoPos
                          /\ idxDb[b].undo # NoPos => idx[b].undo # NoPos
                          /\ idx[b].undo # NoPos => idx[b].data # NoPos
                          /\ idxDb[b].undo # NoPos => idxDb[b].data # NoPos
  BY DEF PlaceInv
<1>2. {tip.best, coinsDb.best, coinsDisk.best} \subseteq Block
  BY <1>1 DEF Stores
<1>3. CASE UNCHANGED vars
  BY <1>1, <1>3 DEF PlaceInv, Stores, vars, memory, dbs, control, history
<1>4. ASSUME NEW b \in Block \ {Genesis}, AcceptBlock(b) PROVE PlaceInv'
  <2>1. /\ dirtyIdx' = dirtyIdx \cup {b} /\ idx[b].data = NoPos
        /\ UNCHANGED <<tip, idxDb, infoDb, lastFileDb, coinsDb, coinsDisk, pc, lost>>
    BY <1>4 DEF AcceptBlock, dbs, control
  <2>2. /\ lastFile' \in Files /\ dirtyInfo' \subseteq Files
        /\ info' \in [Files -> [nsize : 0 .. Capacity, nundo : 0 .. MaxUndo]]
        /\ idx' \in [Block -> [data : Pos, undo : Pos]]
        /\ idx'[b].data # NoPos /\ idx'[b].undo = NoPos
        /\ \A c \in Block : c # b => idx'[c] = idx[c]
    BY <1>1, <1>4, AcceptPlace
  <2>3. Stores'
    BY <1>1, <2>1, <2>2 DEF Stores
  <2>4. idxDb[b].undo = NoPos
    BY <1>1, <2>1
  <2>5. QED
    BY <1>1, <2>1, <2>2, <2>3, <2>4 DEF PlaceInv
<1>5. ASSUME NEW b \in Block \ {Genesis}, AcceptBlockFails(b) PROVE PlaceInv'
  <2>1. PICK bad : FindBlockPos(bad)
    BY <1>5 DEF AcceptBlockFails
  <2>2. /\ NextFile \in Files /\ lastFile' = NextFile
        /\ info' \in [Files -> [nsize : 0 .. Capacity, nundo : 0 .. MaxUndo]]
    BY <1>1, <2>1, FindFact
  <2>3. /\ dirtyInfo' \subseteq dirtyInfo \cup {NextFile}
        /\ UNCHANGED <<idx, dirtyIdx, tip, idxDb, infoDb, lastFileDb, coinsDb, coinsDisk, pc, lost>>
    BY <1>5 DEF AcceptBlockFails, dbs, control
  <2>4. Stores'
    BY <1>1, <2>2, <2>3 DEF Stores
  <2>5. QED
    BY <1>1, <2>3, <2>4 DEF PlaceInv
<1>6. ASSUME NEW b \in Block \ {Genesis}, ConnectTip(b) PROVE PlaceInv'
  <2>1. /\ tip'.best = b /\ idx[b].data # NoPos
        /\ UNCHANGED <<lastFile, idxDb, infoDb, lastFileDb, coinsDb, coinsDisk, pc, lost>>
    BY <1>6 DEF ConnectTip, DataReadable, dbs, control
  <2>2. /\ dirtyInfo' \subseteq Files
        /\ info' \in [Files -> [nsize : 0 .. Capacity, nundo : 0 .. MaxUndo]]
        /\ idx' \in [Block -> [data : Pos, undo : Pos]]
        /\ idx'[b].data = idx[b].data /\ idx'[b].undo # NoPos
        /\ \A c \in Block : c # b => idx'[c] = idx[c]
        /\ dirtyIdx' \subseteq dirtyIdx \cup {b}
    BY <1>1, <1>6, ConnectPlace
  <2>3. Stores'
    BY <1>1, <2>1, <2>2 DEF Stores
  <2>4. QED
    BY <1>1, <2>1, <2>2, <2>3 DEF PlaceInv
<1>7. ASSUME NEW b \in Block \ {Genesis}, ConnectTipFails(b) PROVE PlaceInv'
  <2>1. FindUndoPos(b) /\ idx[b].data # NoPos
    BY <1>7 DEF ConnectTipFails, DataReadable
  <2>2. /\ idx[b].data.file \in Files
        /\ info' \in [Files -> [nsize : 0 .. Capacity, nundo : 0 .. MaxUndo]]
    BY <1>1, <2>1, GrowFact
  <2>3. /\ dirtyInfo' = dirtyInfo \cup {idx[b].data.file}
        /\ UNCHANGED <<idx, dirtyIdx, lastFile, tip, idxDb, infoDb, lastFileDb, coinsDb, coinsDisk, pc, lost>>
    BY <1>7 DEF ConnectTipFails, FindUndoPos, dbs, control
  <2>4. Stores'
    BY <1>1, <2>2, <2>3 DEF Stores
  <2>5. QED
    BY <1>1, <2>3, <2>4 DEF PlaceInv
<1>8. CASE DisconnectTip
  <2>1. /\ tip.best \in Block \ {Genesis} /\ tip'.best = Parent[tip.best]
        /\ UNCHANGED <<idx, dirtyIdx, info, dirtyInfo, lastFile, idxDb, infoDb, lastFileDb,
                       coinsDb, coinsDisk, pc, lost>>
    BY <1>2, <1>8 DEF DisconnectTip, dbs, control, history
  <2>2. tip'.best \in Block
    BY <2>1, HeaderTreeAssumption
  <2>3. QED
    BY <1>1, <2>1, <2>2 DEF PlaceInv, Stores
<1>9. ASSUME NEW doFull \in BOOLEAN, BeginFlush(doFull) PROVE PlaceInv'
  BY <1>1, <1>9 DEF BeginFlush, PlaceInv, Stores, memory, dbs
<1>10. CASE WriteIndex
  <2>1. /\ \A b \in Block : idxDb'[b] = IF b \in dirtyIdx THEN idx[b] ELSE idxDb[b]
        /\ dirtyIdx' = {} /\ dirtyInfo' = {} /\ lastFileDb' = lastFile /\ pc' \in {"run", "index"}
        /\ UNCHANGED <<idx, info, lastFile, tip, coinsDb, coinsDisk, lost>>
    BY <1>10 DEF WriteIndex, history
  <2>2. /\ idxDb' \in [Block -> [data : Pos, undo : Pos]]
        /\ infoDb' \in [Files -> [nsize : 0 .. Capacity, nundo : 0 .. MaxUndo]]
    BY <1>1, <1>10 DEF WriteIndex, Stores
  <2>3. Stores'
    BY <1>1, <2>1, <2>2 DEF Stores
  <2>4. QED
    BY <1>1, <2>1, <2>3 DEF PlaceInv
<1>11. CASE WriteIndexFails
  <2>1. /\ dirtyIdx' = {} /\ dirtyInfo' = {} /\ pc' = "run"
        /\ UNCHANGED <<idx, info, lastFile, tip, idxDb, infoDb, lastFileDb, coinsDb, coinsDisk, lost>>
    BY <1>11 DEF WriteIndexFails, dbs
  <2>2. QED
    BY <1>1, <2>1 DEF PlaceInv, Stores
<1>12. CASE NoSpaceForCoins
  BY <1>1, <1>12 DEF NoSpaceForCoins, PlaceInv, Stores, memory, dbs, history
<1>13. CASE FlushCoins
  BY <1>1, <1>13 DEF FlushCoins, PlaceInv, Stores, memory, history
<1>14. CASE FlushCoinsFails
  <2>1. tip' = [tip EXCEPT !.coins = coinsDb.coins] /\ pc' = "run"
        /\ UNCHANGED <<idx, dirtyIdx, info, dirtyInfo, lastFile, idxDb, infoDb, lastFileDb,
                       coinsDb, coinsDisk, lost>>
    BY <1>14 DEF FlushCoinsFails, dbs
  <2>2. tip'.best = tip.best
    BY <2>1
  <2>3. QED
    BY <1>1, <2>1, <2>2 DEF PlaceInv, Stores
<1>15. CASE Restart
  <2>1. /\ idx' = idxDb /\ dirtyIdx' = {} /\ info' = infoDb /\ dirtyInfo' = {}
        /\ lastFile' = lastFileDb /\ tip' = coinsDb /\ pc' = "run"
        /\ UNCHANGED <<idxDb, infoDb, lastFileDb, coinsDb, coinsDisk, lost>>
    BY <1>15 DEF Restart, Load, dbs
  <2>2. QED
    BY <1>1, <2>1 DEF PlaceInv, Stores
<1>16. CASE PowerFailure
  <2>1. /\ idx' = idxDb /\ dirtyIdx' = {} /\ info' = infoDb /\ dirtyInfo' = {}
        /\ lastFile' = lastFileDb /\ tip' = coinsDb' /\ pc' = "run"
        /\ (coinsDb' = coinsDisk \/ coinsDb' = coinsDb) /\ coinsDisk' = coinsDb'
        /\ UNCHANGED <<idxDb, infoDb, lastFileDb>>
    BY <1>16 DEF PowerFailure, Load
  <2>2. lost' \subseteq Block
    <3>1. PICK S \in SUBSET Block : lost' = lost \cup S
      BY <1>16 DEF PowerFailure
    <3>2. QED
      BY <1>1, <3>1 DEF Stores
  <2>3. QED
    BY <1>1, <2>1, <2>2 DEF PlaceInv, Stores
<1>17. QED
  BY <1>3, <1>4, <1>5, <1>6, <1>7, <1>8, <1>9, <1>10, <1>11, <1>12, <1>13, <1>14, <1>15, <1>16 DEF Next

\* Types hold and memory has all entries of the database in every reachable state.
THEOREM PlaceInvariance == Spec => []PlaceInv
<1>1. Init => PlaceInv
  <2>1. ASSUME Init PROVE PlaceInv
    <3>1. FilesOk
      BY <2>1, InitFiles
    <3>2. QED
      BY <2>1, <3>1 DEF Init, NoData, FilesOk, PlaceInv
  <2>2. QED
    BY <2>1
<1>2. QED
  BY <1>1, PlaceStep, PTL DEF Spec

-----------------------------------------------------------------------------
\* Every step keeps the chains of the chainstate in the index.
LEMMA ChainStep == PlaceInv /\ ChainInv /\ [Next]_vars => ChainInv'
<1> SUFFICES ASSUME PlaceInv, ChainInv, [Next]_vars, "index" \notin failed' PROVE ChainInv'
  BY DEF ChainInv
<1>1. failed \subseteq failed'
  BY FailedGrows
<1>2. /\ \A b \in Block : idx[b] # idxDb[b] => b \in dirtyIdx
      /\ pc = "index" => dirtyIdx = {}
      /\ Indexed(idx, tip.best)
      /\ Indexed(idxDb, coinsDb.best) /\ Indexed(idxDb, coinsDisk.best)
  BY <1>1 DEF ChainInv
<1>3. /\ Stores /\ idx \in [Block -> [data : Pos, undo : Pos]] /\ tip.best \in Block
      /\ \A b \in Block : /\ idxDb[b].data # NoPos => idx[b].data # NoPos
                          /\ idxDb[b].undo # NoPos => idx[b].undo # NoPos
      /\ coinsDb.best \in Block /\ coinsDisk.best \in Block
  BY DEF PlaceInv, Stores
<1>4. \A b \in Block : Ancestors[b] \subseteq Block
  BY Ancestry
<1>5. CASE UNCHANGED <<idx, dirtyIdx, idxDb>> /\ tip'.best = tip.best
           /\ coinsDb' = coinsDb /\ coinsDisk' = coinsDisk /\ pc' # "index"
  BY <1>2, <1>5 DEF ChainInv, Indexed
<1>6. CASE UNCHANGED vars
  BY <1>2, <1>6 DEF ChainInv, Indexed, vars, memory, dbs, control
<1>7. ASSUME NEW b \in Block \ {Genesis}, AcceptBlock(b) PROVE ChainInv'
  <2>1. /\ idx[b].data = NoPos /\ dirtyIdx' = dirtyIdx \cup {b}
        /\ UNCHANGED <<tip, idxDb, coinsDb, coinsDisk, pc>> /\ pc = "run"
    BY <1>7 DEF AcceptBlock, dbs, control
  <2>2. \A c \in Block : c # b => idx'[c] = idx[c]
    BY <1>3, <1>7, AcceptPlace
  <2>3. \A c \in Block : idx'[c] # idxDb'[c] => c \in dirtyIdx'
    BY <1>2, <2>1, <2>2
  <2>4. Indexed(idx, tip.best) => Indexed(idx', tip.best)
    BY <1>3, <1>4, <2>1, <2>2 DEF Indexed
  <2>5. QED
    BY <1>2, <2>1, <2>3, <2>4 DEF ChainInv
<1>8. ASSUME NEW b \in Block \ {Genesis}, ConnectTip(b) PROVE ChainInv'
  <2>1. /\ Parent[b] = tip.best /\ idx[b].data # NoPos /\ tip'.best = b
        /\ UNCHANGED <<idxDb, coinsDb, coinsDisk, pc>> /\ pc = "run"
    BY <1>8 DEF ConnectTip, DataReadable, dbs, control
  <2>2. /\ idx'[b].data # NoPos /\ idx'[b].undo # NoPos
        /\ \A c \in Block : c # b => idx'[c] = idx[c]
        /\ idx'[b] # idx[b] => b \in dirtyIdx'
        /\ dirtyIdx \subseteq dirtyIdx'
    BY <1>3, <1>8, <2>1, ConnectPlace
  <2>3. \A c \in Block : idx'[c] # idxDb'[c] => c \in dirtyIdx'
    BY <1>2, <2>1, <2>2
  <2>4. Indexed(idx', b)
    <3>1. Ancestors[b] = Ancestors[Parent[b]] \cup {b}
      BY AncestorsDef
    <3>2. QED
      BY <1>2, <1>3, <1>4, <2>1, <2>2, <3>1 DEF Indexed
  <2>5. QED
    BY <1>2, <2>1, <2>3, <2>4 DEF ChainInv
<1>19. ASSUME NEW b \in Block \ {Genesis}, AcceptBlockFails(b) \/ ConnectTipFails(b) PROVE ChainInv'
  BY <1>5, <1>19 DEF AcceptBlockFails, ConnectTipFails, dbs, control
<1>9. CASE DisconnectTip
  <2>1. /\ tip.best \in Block \ {Genesis} /\ tip'.best = Parent[tip.best]
        /\ UNCHANGED <<idx, dirtyIdx, idxDb, coinsDb, coinsDisk, pc>>
    BY <1>3, <1>9 DEF DisconnectTip, dbs, control
  <2>2. Ancestors[tip.best] = Ancestors[Parent[tip.best]] \cup {tip.best}
    BY <2>1, AncestorsDef
  <2>3. QED
    BY <1>2, <2>1, <2>2 DEF ChainInv, Indexed
<1>10. ASSUME NEW doFull \in BOOLEAN, BeginFlush(doFull) PROVE ChainInv'
  BY <1>5, <1>10 DEF BeginFlush, memory, dbs
<1>11. CASE WriteIndex
  <2>1. /\ \A b \in Block : idxDb'[b] = IF b \in dirtyIdx THEN idx[b] ELSE idxDb[b]
        /\ dirtyIdx' = {} /\ UNCHANGED <<idx, tip, coinsDb, coinsDisk>>
    BY <1>11 DEF WriteIndex
  <2>2. \A b \in Block : idxDb'[b] = idx[b]
    BY <1>2, <2>1
  <2>3. \A b \in Block : Indexed(idxDb, b) => Indexed(idxDb', b)
    BY <1>3, <1>4, <2>2 DEF Indexed
  <2>4. QED
    BY <1>2, <1>3, <2>1, <2>2, <2>3 DEF ChainInv
<1>12. CASE WriteIndexFails
  BY <1>12 DEF WriteIndexFails
<1>13. CASE NoSpaceForCoins
  BY <1>5, <1>13 DEF NoSpaceForCoins, memory, dbs
<1>14. CASE FlushCoins
  <2>1. /\ pc = "index" /\ coinsDb' = tip /\ (coinsDisk' = coinsDisk \/ coinsDisk' = coinsDb)
        /\ pc' = "run" /\ UNCHANGED <<idx, dirtyIdx, tip, idxDb>>
    BY <1>14 DEF FlushCoins, memory
  <2>2. \A b \in Block : idx[b] = idxDb[b]
    BY <1>2, <2>1
  <2>3. Indexed(idxDb, tip.best)
    BY <1>2, <1>3, <1>4, <2>2 DEF Indexed
  <2>4. QED
    BY <1>2, <2>1, <2>3 DEF ChainInv
<1>15. CASE FlushCoinsFails
  <2>1. tip' = [tip EXCEPT !.coins = coinsDb.coins]
    BY <1>15 DEF FlushCoinsFails
  <2>2. tip'.best = tip.best
    BY <2>1
  <2>3. QED
    BY <1>5, <1>15, <2>2 DEF FlushCoinsFails, dbs
<1>16. CASE Restart
  <2>1. idx' = idxDb /\ dirtyIdx' = {} /\ tip' = coinsDb /\ pc' = "run"
        /\ UNCHANGED <<idxDb, coinsDb, coinsDisk>>
    BY <1>16 DEF Restart, Load, dbs
  <2>2. QED
    BY <1>2, <2>1 DEF ChainInv
<1>17. CASE PowerFailure
  <2>1. idx' = idxDb /\ dirtyIdx' = {} /\ tip' = coinsDb' /\ pc' = "run" /\ idxDb' = idxDb
        /\ (coinsDb' = coinsDisk \/ coinsDb' = coinsDb) /\ coinsDisk' = coinsDb'
    BY <1>17 DEF PowerFailure, Load
  <2>2. QED
    BY <1>2, <2>1 DEF ChainInv
<1>18. QED
  BY <1>6, <1>7, <1>8, <1>9, <1>10, <1>11, <1>12, <1>13, <1>14, <1>15, <1>16, <1>17, <1>19 DEF Next

\* The invariant of the chainstate holds in every reachable state.
THEOREM ChainInvariance == Spec => []ChainInv
<1>1. Init => ChainInv
  <2>1. ASSUME Init PROVE ChainInv
    <3>1. Ancestors[Genesis] = {Genesis}
      BY AncestorsDef, HeaderTreeAssumption
    <3>2. QED
      BY <2>1, <3>1 DEF Init, BaseState, ChainInv, Indexed
  <2>2. QED
    BY <2>1
<1>2. QED
  BY <1>1, ChainStep, PlaceInvariance, PTL DEF Spec

\* At every point where the process or the machine may go down, and as long as no
\* write of the index failed, all blocks up to the best block of the chainstate
\* are in the index database with data and undo data.
THEOREM ChainstateAlwaysSound == Spec => []ChainstateIsSound
<1>1. ChainInv => ChainstateIsSound
  BY DEF ChainInv, Indexed, ChainstateIsSound
<1>2. QED
  BY <1>1, ChainInvariance, PTL

-----------------------------------------------------------------------------
(***************************************************************************)
(* Undo data.  Which output of which coins is spent, and in which order, is *)
(* free here; a view holds coins without nulls at the end, and of blocks    *)
(* above the genesis block, whose outputs are not in the coins.             *)
(***************************************************************************)
Coins == [fcoinbase : BOOLEAN, nheight : Nat, vout : Seq(Nat)]
InView(c) ==
  c \in Coins /\ (c = NoCoins \/ (c.nheight # 0 /\ c.vout # << >> /\ c.vout[Len(c.vout)] # 0))

\* cleanup() cuts at the last output that is not null.
LEMMA CleanupFact ==
  ASSUME NEW v \in Seq(Nat)
  PROVE  /\ Cleanup(v) \in Seq(Nat) /\ Len(Cleanup(v)) <= Len(v)
         /\ \A i \in 1 .. Len(Cleanup(v)) : Cleanup(v)[i] = v[i]
         /\ \A i \in 1 .. Len(v) : i > Len(Cleanup(v)) => v[i] = 0
         /\ Cleanup(v) # << >> => Cleanup(v)[Len(Cleanup(v))] # 0
<1> DEFINE S == {0} \cup {i \in DOMAIN v : v[i] # 0}
           T == {k \in Nat : \A i \in S : i <= k}
           m == Max(S)
<1>1. Len(v) \in Nat /\ DOMAIN v = 1 .. Len(v) /\ \A i \in DOMAIN v : v[i] \in Nat
  OBVIOUS
<1>2. S \in SUBSET Nat /\ 0 \in S /\ T \in SUBSET Nat /\ Len(v) \in T
  BY <1>1
<1>3. PICK k \in T : \A j \in T : k <= j
  <2> HIDE DEF S, T
  <2> QED
    BY <1>2, LeastNat
<1>4. k \in S
  <2>1. SUFFICES ASSUME k \notin S PROVE FALSE
    OBVIOUS
  <2>2. k \in Nat /\ k # 0 /\ \A i \in S : i <= k /\ i # k
    BY <1>2, <2>1
  <2>3. k - 1 \in T
    <3> HIDE DEF S
    <3> QED
      BY <1>2, <2>2
  <2>4. QED
    BY <1>3, <2>2, <2>3
<1>5. m \in S /\ \A i \in S : m >= i
  <2>1. \A i \in S : k >= i
    BY <1>2, <1>3
  <2> HIDE DEF S
  <2>2. QED
    BY <1>4, <2>1 DEF Max
<1>6. Cleanup(v) = SubSeq(v, 1, m)
  BY DEF Cleanup
<1> HIDE DEF m
<1>7. m \in Nat /\ m <= Len(v) /\ (m # 0 => v[m] # 0) /\ \A i \in DOMAIN v : i > m => v[i] = 0
  <2>1. m = 0 \/ (m \in 1 .. Len(v) /\ v[m] # 0)
    BY <1>1, <1>5
  <2>2. ASSUME NEW i \in DOMAIN v, i > m, v[i] # 0 PROVE FALSE
    <3>1. m >= i /\ i \in Nat /\ m \in Nat
      BY <1>1, <1>5, <2>1, <2>2
    <3>2. QED
      BY <2>2, <3>1
  <2>3. QED
    BY <1>1, <2>1, <2>2
<1>8. Len(Cleanup(v)) = m /\ Cleanup(v) \in Seq(Nat) /\ \A i \in 1 .. m : Cleanup(v)[i] = v[i]
  BY <1>1, <1>6, <1>7
<1>9. QED
  BY <1>1, <1>7, <1>8

\* What has no null at the end stays as it is.
LEMMA CleanupSame ==
  ASSUME NEW v \in Seq(Nat), v # << >> => v[Len(v)] # 0
  PROVE  Cleanup(v) = v
<1>1. /\ Cleanup(v) \in Seq(Nat) /\ Len(Cleanup(v)) <= Len(v)
      /\ \A i \in 1 .. Len(Cleanup(v)) : Cleanup(v)[i] = v[i]
      /\ \A i \in 1 .. Len(v) : i > Len(Cleanup(v)) => v[i] = 0
  BY CleanupFact
<1>2. Len(Cleanup(v)) = Len(v)
  BY <1>1
<1>3. QED
  BY <1>1, <1>2

\* An output that is spent and put back leaves the outputs as they were.
LEMMA SpentAndBack ==
  ASSUME NEW v \in Seq(Nat), NEW n \in DOMAIN v, v[n] # 0, v[Len(v)] # 0
  PROVE  LET left == Cleanup([v EXCEPT ![n] = 0])
         IN  /\ left \in Seq(Nat)
             /\ left # << >> => left[Len(left)] # 0
             /\ n \in DOMAIN left => left[n] = 0
             /\ Cleanup([Resize(left, n) EXCEPT ![n] = v[n]]) = v
<1> DEFINE w == [v EXCEPT ![n] = 0]
           left == Cleanup(w)
           r == Resize(left, n)
           x == [r EXCEPT ![n] = v[n]]
<1>1. /\ Len(v) \in Nat /\ DOMAIN v = 1 .. Len(v) /\ \A i \in DOMAIN v : v[i] \in Nat
      /\ n \in 1 .. Len(v)
  OBVIOUS
<1>2. /\ w \in Seq(Nat) /\ Len(w) = Len(v) /\ w[n] = 0
      /\ \A i \in 1 .. Len(v) : i # n => w[i] = v[i]
  BY <1>1
<1> HIDE DEF w
<1>3. /\ left \in Seq(Nat) /\ Len(left) <= Len(w)
      /\ \A i \in 1 .. Len(left) : left[i] = w[i]
      /\ \A i \in 1 .. Len(w) : i > Len(left) => w[i] = 0
      /\ left # << >> => left[Len(left)] # 0
  BY <1>2, CleanupFact
<1> HIDE DEF left
<1>4. Len(left) \in Nat /\ DOMAIN left = 1 .. Len(left) /\ Len(left) <= Len(v)
  BY <1>2, <1>3
<1>5. Len(left) < Len(v) => n = Len(v)
  <2>1. SUFFICES ASSUME Len(left) < Len(v), n # Len(v) PROVE FALSE
    OBVIOUS
  <2>2. Len(v) \in 1 .. Len(w)
    BY <1>1, <1>2
  <2>3. w[Len(v)] = 0
    BY <1>3, <2>1, <2>2
  <2>4. QED
    BY <1>2, <2>1, <2>2, <2>3
<1>6. Max({Len(left), n}) = Len(v)
  <2> DEFINE k == Len(v)
             l == Len(left)
  <2>1. k \in Nat /\ l \in Nat /\ n \in 1 .. k /\ l <= k /\ (l < k => n = k)
    BY <1>1, <1>4, <1>5
  <2> HIDE DEF k, l
  <2>2. Max({l, n}) = k
    BY <2>1 DEF Max
  <2>3. QED
    BY <2>2 DEF k, l
<1>7. r = [i \in 1 .. Len(v) |-> IF i \in DOMAIN left THEN left[i] ELSE 0]
  BY <1>6 DEF Resize
<1> HIDE DEF r
<1>8. \A i \in 1 .. Len(v) : i # n => r[i] = v[i]
  <2>1. SUFFICES ASSUME NEW i \in 1 .. Len(v), i # n PROVE r[i] = v[i]
    OBVIOUS
  <2>2. CASE i \in DOMAIN left
    BY <1>2, <1>3, <1>4, <1>7, <2>1, <2>2
  <2>3. CASE i \notin DOMAIN left
    <3>1. i > Len(left) /\ i \in 1 .. Len(w)
      BY <1>1, <1>2, <1>4, <2>3
    <3>2. v[i] = 0
      BY <1>2, <1>3, <2>1, <3>1
    <3>3. QED
      BY <1>7, <2>3, <3>2
  <2>4. QED
    BY <2>2, <2>3
<1>9. x = v
  <2>1. x = [i \in 1 .. Len(v) |-> IF i = n THEN v[n] ELSE r[i]]
    BY <1>1, <1>7
  <2> HIDE DEF x
  <2>2. x = [i \in 1 .. Len(v) |-> v[i]]
    BY <1>8, <2>1
  <2>3. QED
    BY <1>1, <2>2
<1>10. Cleanup(x) = v
  BY <1>9, CleanupSame
<1>11. n \in DOMAIN left => left[n] = 0
  BY <1>2, <1>3, <1>4
<1>12. QED
  BY <1>3, <1>10, <1>11 DEF left, w, r

\* updatecoins and applytxinundo are inverse: the record of one spent output, whose
\* height is only kept for the last output of a transaction, is enough to put the
\* coins back exactly, and applytxinundo finds nothing wrong.
THEOREM UndoRestoresInput ==
  ASSUME NEW Ids, NEW view \in [Ids -> Coins], NEW in \in [hash : Ids, n : Nat],
         NEW prevout \in Seq([txout : Nat, nheight : Nat, fcoinbase : BOOLEAN]),
         InView(view[in.hash]), IsAvailable(view[in.hash], in.n)
  PROVE  LET spent == Spend([view |-> view, prevout |-> prevout, ok |-> TRUE], in)
             undo  == spent.prevout[Len(prevout) + 1]
         IN  /\ InView(spent.view[in.hash])
             /\ ApplyTxInUndo([view |-> spent.view, clean |-> TRUE], in, undo)
                  = [view |-> view, clean |-> TRUE]
<1> DEFINE c    == view[in.hash]
           n    == in.n
           left == Cleanup([c.vout EXCEPT ![n] = 0])
           u    == [txout |-> c.vout[n],
                    nheight |-> IF left = << >> THEN c.nheight ELSE 0,
                    fcoinbase |-> left = << >> /\ c.fcoinbase]
           d    == Normal([c EXCEPT !.vout = left])
           acc  == [view |-> view, prevout |-> prevout, ok |-> TRUE]
           spent == Spend(acc, in)
<1>1. /\ c \in Coins /\ n \in DOMAIN c.vout /\ c.vout[n] # 0 /\ c # NoCoins
      /\ c.nheight \in Nat /\ c.nheight # 0 /\ c.vout \in Seq(Nat) /\ c.vout[Len(c.vout)] # 0
      /\ c.fcoinbase \in BOOLEAN
  BY DEF InView, IsAvailable, Coins, NoCoins
<1>2. /\ left \in Seq(Nat) /\ (left # << >> => left[Len(left)] # 0)
      /\ (n \in DOMAIN left => left[n] = 0)
      /\ Cleanup([Resize(left, n) EXCEPT ![n] = c.vout[n]]) = c.vout
  <2> HIDE DEF c
  <2> QED
    BY <1>1, SpentAndBack
<1>3. spent.view = [view EXCEPT ![in.hash] = d] /\ spent.prevout = Append(prevout, u)
  <2>1. spent = [acc EXCEPT !.view[in.hash] = d, !.prevout = Append(@, u)]
    BY <1>1 DEF Spend, IsAvailable
  <2> HIDE DEF d, u
  <2>2. QED
    BY <2>1
<1> HIDE DEF spent
<1>4. spent.prevout[Len(prevout) + 1] = u
  <2>1. u \in [txout : Nat, nheight : Nat, fcoinbase : BOOLEAN]
    BY <1>1
  <2> HIDE DEF u
  <2>2. QED
    BY <1>3, <2>1
<1>5. InView(d) /\ (left = << >> => d = NoCoins) /\ (left # << >> => d = [c EXCEPT !.vout = left])
  <2> DEFINE e == [c EXCEPT !.vout = left]
  <2>1. e \in Coins /\ e.vout = left /\ e.nheight = c.nheight /\ e.fcoinbase = c.fcoinbase
    BY <1>1, <1>2 DEF Coins
  <2>2. NoCoins \in Coins
    BY DEF NoCoins, Coins
  <2> HIDE DEF e, left
  <2>3. CASE left = << >>
    BY <2>1, <2>2, <2>3 DEF Normal, IsPruned, InView, e
  <2>4. CASE left # << >>
    <3>1. Len(left) \in DOMAIN left
      BY <1>2, <2>4
    <3>2. ~IsPruned(e)
      BY <1>2, <2>1, <2>4, <3>1 DEF IsPruned
    <3>3. QED
      BY <1>1, <1>2, <2>1, <2>4, <3>2 DEF Normal, InView, e
  <2>5. QED
    BY <2>3, <2>4
<1> DEFINE base == IF u.nheight # 0
                   THEN [NoCoins EXCEPT !.fcoinbase = u.fcoinbase, !.nheight = u.nheight]
                   ELSE d
           back == [base EXCEPT !.vout = Cleanup([Resize(base.vout, n) EXCEPT ![n] = u.txout])]
<1>6. /\ base = [fcoinbase |-> c.fcoinbase, nheight |-> c.nheight, vout |-> left]
      /\ (u.nheight # 0) = IsPruned(d)
  <2> HIDE DEF c, left, d
  <2>1. CASE left = << >>
    <3>1. IsPruned(d) /\ u.nheight = c.nheight /\ u.fcoinbase = c.fcoinbase
      BY <1>1, <1>5, <2>1 DEF NoCoins, IsPruned
    <3> HIDE DEF u
    <3>2. base = [NoCoins EXCEPT !.fcoinbase = c.fcoinbase, !.nheight = c.nheight]
      BY <1>1, <3>1
    <3>3. QED
      BY <1>1, <2>1, <3>1, <3>2 DEF NoCoins
  <2>2. CASE left # << >>
    <3>1. d = [fcoinbase |-> c.fcoinbase, nheight |-> c.nheight, vout |-> left]
      BY <1>1, <1>5, <2>2 DEF Coins
    <3>2. Len(left) \in DOMAIN left /\ left[Len(left)] # 0
      BY <1>2, <2>2
    <3>3. ~IsPruned(d)
      BY <3>1, <3>2 DEF IsPruned
    <3>4. u.nheight = 0
      BY <2>2
    <3> HIDE DEF u
    <3>5. base = d
      BY <3>4
    <3>6. (u.nheight # 0) = IsPruned(d)
      BY <3>3, <3>4 DEF IsPruned
    <3>7. QED
      BY <3>1, <3>5, <3>6
  <2>3. QED
    BY <2>1, <2>2
<1>7. back = c /\ ~IsAvailable(base, n)
  <2> HIDE DEF c, left, d, base
  <2>1. back = [fcoinbase |-> c.fcoinbase, nheight |-> c.nheight, vout |-> c.vout]
    BY <1>2, <1>6
  <2>2. back = c
    BY <1>1, <2>1 DEF Coins
  <2>3. ~IsAvailable(base, n)
    BY <1>2, <1>6 DEF IsAvailable
  <2>4. QED
    BY <2>2, <2>3
<1>8. /\ spent.view[in.hash] = d
      /\ [spent.view EXCEPT ![in.hash] = back] = view
  <2> HIDE DEF d, back
  <2>1. in.hash \in Ids
    OBVIOUS
  <2>2. QED
    BY <1>3, <1>7, <2>1
<1>9. ApplyTxInUndo([view |-> spent.view, clean |-> TRUE], in, u)
        = [view |-> [spent.view EXCEPT ![in.hash] = back],
           clean |-> (u.nheight # 0) = IsPruned(d) /\ ~IsAvailable(base, n)]
  <2> HIDE DEF u, d, c, left
  <2> QED
    BY <1>8 DEF ApplyTxInUndo
<1>10. QED
  BY <1>4, <1>5, <1>6, <1>7, <1>8, <1>9 DEF spent
-----------------------------------------------------------------------------
\* The states that a loop goes through, whose step number k is G[k].
IsRun(f, S, n, s0, G) ==
  f \in [0 .. n -> S] /\ f[0] = s0 /\ \A k \in 1 .. n : f[k] = G[k][f[k - 1]]

\* A loop whose steps keep within S has a run.
LEMMA LoopExists ==
  ASSUME NEW S, NEW n \in Nat, NEW s0 \in S, NEW G \in [1 .. n -> [S -> S]]
  PROVE  \E f : IsRun(f, S, n, s0, G)
<1> DEFINE P(m) == \E f : IsRun(f, S, m, s0, G)
           T == {m \in 0 .. n : ~P(m)}
<1> SUFFICES ASSUME T # {} PROVE FALSE
  <2>1. n \in 0 .. n
    OBVIOUS
  <2> QED
    BY <2>1
<1>1. T \in SUBSET Nat
  OBVIOUS
<1>2. PICK m \in T : \A j \in T : m <= j
  <2> HIDE DEF T
  <2> QED
    BY <1>1, LeastNat
<1>3. CASE m = 0
  <2> DEFINE f == [k \in 0 .. 0 |-> s0]
  <2>1. f \in [0 .. m -> S] /\ f[0] = s0 /\ \A k \in 1 .. m : f[k] = G[k][f[k - 1]]
    BY <1>3
  <2>2. P(m)
    BY <2>1 DEF IsRun
  <2>3. QED
    BY <1>2, <2>2
<1>4. CASE m # 0
  <2>1. m \in 1 .. n /\ m - 1 \in 0 .. n /\ m - 1 \notin T
    <3>1. m \in 0 .. n
      OBVIOUS
    <3> HIDE DEF T
    <3> QED
      BY <1>2, <1>4, <3>1
  <2>2. PICK f \in [0 .. m - 1 -> S] : f[0] = s0 /\ \A k \in 1 .. m - 1 : f[k] = G[k][f[k - 1]]
    <3>1. P(m - 1)
      BY <2>1
    <3>2. QED
      BY <3>1 DEF IsRun
  <2> DEFINE h == [k \in 0 .. m |-> IF k = m THEN G[m][f[m - 1]] ELSE f[k]]
  <2>3. f[m - 1] \in S /\ G[m] \in [S -> S]
    BY <2>1
  <2>4. h \in [0 .. m -> S]
    BY <2>1, <2>3
  <2>5. h[0] = s0 /\ h[m] = G[m][h[m - 1]] /\ \A k \in 0 .. m - 1 : h[k] = f[k]
    BY <2>1, <2>2
  <2> HIDE DEF h
  <2>6. ASSUME NEW k \in 1 .. m PROVE h[k] = G[k][h[k - 1]]
    <3>1. k # m => k \in 1 .. m - 1 /\ k - 1 \in 0 .. m - 1 /\ k \in 0 .. m - 1
      BY <2>1
    <3>2. k # m => h[k] = f[k] /\ h[k - 1] = f[k - 1] /\ f[k] = G[k][f[k - 1]]
      BY <2>2, <2>5, <3>1
    <3>3. QED
      BY <2>5, <3>2
  <2>7. P(m)
    BY <2>4, <2>5, <2>6 DEF IsRun
  <2>8. QED
    BY <1>2, <2>7
<1>5. QED
  BY <1>3, <1>4

-----------------------------------------------------------------------------
\* Views as the database has them, and what the loops carry along.
Views == {v \in [TxIds -> Coins] : \A id \in TxIds : InView(v[id])}
Tx == [id : TxIds, fcoinbase : BOOLEAN, vin : Seq([hash : TxIds, n : Nat]),
       vout : Seq(Nat \ {0}), unspendable : SUBSET Nat]
Outpoint == [hash : TxIds, n : Nat]
TxInUndo == [txout : Nat, nheight : Nat, fcoinbase : BOOLEAN]
Spends == [view : Views, prevout : Seq(TxInUndo), ok : BOOLEAN]

\* Undoing one input, with what is known of a view.
Undoes(s, in, a) ==
  ApplyTxInUndo([view |-> s.view, clean |-> TRUE], in, s.prevout[Len(s.prevout)])
    = [view |-> a.view, clean |-> TRUE]

\* Spending keeps to the types, records one output, adds nothing to a transaction that
\* is not there, and can be undone.
LEMMA SpendFact ==
  ASSUME NEW a \in Spends, NEW in \in Outpoint
  PROVE  LET s == Spend(a, in)
         IN  /\ s \in Spends
             /\ s.ok => /\ a.ok
                        /\ Len(s.prevout) = Len(a.prevout) + 1
                        /\ \A j \in 1 .. Len(a.prevout) : s.prevout[j] = a.prevout[j]
                        /\ \A id \in TxIds : a.view[id] = NoCoins => s.view[id] = NoCoins
                        /\ Undoes(s, in, a)
<1> DEFINE c    == a.view[in.hash]
           left == Cleanup([c.vout EXCEPT ![in.n] = 0])
           u    == [txout |-> c.vout[in.n],
                    nheight |-> IF left = << >> THEN c.nheight ELSE 0,
                    fcoinbase |-> left = << >> /\ c.fcoinbase]
           d    == Normal([c EXCEPT !.vout = left])
           s    == Spend(a, in)
<1>1. /\ a.view \in [TxIds -> Coins] /\ in.hash \in TxIds /\ in.n \in Nat /\ a.ok \in BOOLEAN
      /\ a.prevout \in Seq(TxInUndo) /\ \A id \in TxIds : InView(a.view[id])
      /\ a = [view |-> a.view, prevout |-> a.prevout, ok |-> a.ok]
  BY DEF Spends, Outpoint, Views
<1>2. CASE ~IsAvailable(c, in.n)
  <2>1. s = [a EXCEPT !.ok = FALSE]
    BY <1>2 DEF Spend
  <2>2. s = [view |-> a.view, prevout |-> a.prevout, ok |-> FALSE]
    BY <1>1, <2>1
  <2>3. QED
    BY <1>1, <2>2 DEF Spends
<1>3. CASE IsAvailable(c, in.n)
  <2>1. s = [a EXCEPT !.view[in.hash] = d, !.prevout = Append(@, u)]
    BY <1>3 DEF Spend
  <2>2. /\ c \in Coins /\ in.n \in DOMAIN c.vout /\ c.vout \in Seq(Nat) /\ c.nheight \in Nat
        /\ c.fcoinbase \in BOOLEAN /\ c # NoCoins
    BY <1>1, <1>3 DEF IsAvailable, Coins, NoCoins
  <2>3. u \in TxInUndo
    BY <2>2 DEF TxInUndo
  <2> HIDE DEF d, u
  <2>4. s = [view |-> [a.view EXCEPT ![in.hash] = d], prevout |-> Append(a.prevout, u),
             ok |-> a.ok]
    BY <1>1, <2>1
  <2> DEFINE t == Spend([view |-> a.view, prevout |-> a.prevout, ok |-> TRUE], in)
  <2>5. /\ t.view = s.view /\ t.prevout = s.prevout
    <3>1. t = [[view |-> a.view, prevout |-> a.prevout, ok |-> TRUE]
                 EXCEPT !.view[in.hash] = d, !.prevout = Append(@, u)]
      BY <1>3 DEF Spend, d, u
    <3> HIDE DEF t
    <3>2. QED
      BY <2>4, <3>1
  <2>6. /\ InView(t.view[in.hash])
        /\ ApplyTxInUndo([view |-> t.view, clean |-> TRUE], in, t.prevout[Len(a.prevout) + 1])
             = [view |-> a.view, clean |-> TRUE]
    <3>1. in \in [hash : TxIds, n : Nat] /\ a.prevout \in Seq([txout : Nat, nheight : Nat, fcoinbase : BOOLEAN])
      BY <1>1 DEF Outpoint, TxInUndo
    <3>2. InView(a.view[in.hash]) /\ IsAvailable(a.view[in.hash], in.n)
      BY <1>1, <1>3
    <3>3. QED
      BY <1>1, <3>1, <3>2, UndoRestoresInput
  <2> HIDE DEF s, t
  <2>7. InView(d)
    BY <1>1, <2>4, <2>5, <2>6
  <2>8. d \in Coins
    BY <2>7 DEF InView
  <2>9. /\ s.view = [a.view EXCEPT ![in.hash] = d] /\ s.prevout = Append(a.prevout, u)
        /\ s.ok = a.ok
    BY <2>4
  <2>10. s.view \in Views
    BY <1>1, <2>7, <2>8, <2>9 DEF Views
  <2>11. /\ s.prevout \in Seq(TxInUndo) /\ Len(s.prevout) = Len(a.prevout) + 1
         /\ \A j \in 1 .. Len(a.prevout) : s.prevout[j] = a.prevout[j]
    BY <1>1, <2>3, <2>9
  <2>12. s \in Spends
    BY <1>1, <2>4, <2>9, <2>10, <2>11 DEF Spends
  <2>13. Undoes(s, in, a)
    BY <2>5, <2>6, <2>11 DEF Undoes
  <2>14. \A id \in TxIds : a.view[id] = NoCoins => s.view[id] = NoCoins
    BY <1>1, <2>2, <2>9
  <2>15. QED
    BY <2>9, <2>11, <2>12, <2>13, <2>14 DEF s
<1>4. QED
  BY <1>2, <1>3

\* Induction from the end of a loop to its start, over a set of positions.
LEMMA Backward ==
  ASSUME NEW n \in Nat, NEW T, n \in T, \A k \in 0 .. n - 1 : k + 1 \in T => k \in T
  PROVE  \A k \in 0 .. n : k \in T
<1> DEFINE S == {m \in Nat : m <= n /\ n - m \notin T}
<1> SUFFICES ASSUME S # {} PROVE FALSE
  <2>1. \A k \in 0 .. n : n - k \in Nat /\ n - k <= n /\ n - (n - k) = k
    OBVIOUS
  <2>2. ASSUME NEW k \in 0 .. n, k \notin T PROVE n - k \in S
    <3>1. n - k \in Nat /\ n - k <= n /\ n - (n - k) \notin T
      BY <2>1, <2>2
    <3>2. QED
      BY <3>1
  <2>3. QED
    BY <2>2
<1>1. S \in SUBSET Nat
  OBVIOUS
<1>2. PICK m \in S : \A j \in S : m <= j
  <2> HIDE DEF S
  <2> QED
    BY <1>1, LeastNat
<1>3. m # 0 /\ m \in Nat /\ m <= n /\ n - m \notin T
  BY <1>2
<1>4. m - 1 \notin S
  BY <1>1, <1>2, <1>3
<1>5. n - (m - 1) \in T
  BY <1>3, <1>4
<1>6. n - m \in 0 .. n - 1 /\ (n - m) + 1 = n - (m - 1)
  BY <1>3
<1>7. QED
  BY <1>3, <1>5, <1>6

\* and from the start.
LEMMA Forward ==
  ASSUME NEW n \in Nat, NEW T, 0 \in T, \A k \in 1 .. n : k - 1 \in T => k \in T
  PROVE  \A k \in 0 .. n : k \in T
<1> DEFINE S == {m \in Nat : m <= n /\ m \notin T}
<1> SUFFICES ASSUME S # {} PROVE FALSE
  OBVIOUS
<1>1. S \in SUBSET Nat
  OBVIOUS
<1>2. PICK m \in S : \A j \in S : m <= j
  <2> HIDE DEF S
  <2> QED
    BY <1>1, LeastNat
<1>3. m # 0 /\ m \in 1 .. n /\ m \notin T
  BY <1>2
<1>4. m - 1 \notin S
  BY <1>1, <1>2, <1>3
<1>5. m - 1 \in T
  BY <1>3, <1>4
<1>6. QED
  BY <1>3, <1>5

\* The run of the loop of updatecoins.
LEMMA SpendInputsRun ==
  ASSUME NEW view \in Views, NEW vin \in Seq(Outpoint), NEW ok \in BOOLEAN
  PROVE  \E f \in [0 .. Len(vin) -> Spends] :
           /\ f[0] = [view |-> view, prevout |-> <<>>, ok |-> ok]
           /\ \A k \in 1 .. Len(vin) : f[k] = Spend(f[k - 1], vin[k])
           /\ SpendInputs(view, vin, ok) = f[Len(vin)]
<1> DEFINE n == Len(vin)
           s0 == [view |-> view, prevout |-> <<>>, ok |-> ok]
           G == [k \in 1 .. n |-> [a \in Spends |-> Spend(a, vin[k])]]
           Def(f) == [k \in 0 .. n |-> IF k = 0 THEN s0 ELSE Spend(f[k - 1], vin[k])]
<1>1. n \in Nat /\ s0 \in Spends /\ \A k \in 1 .. n : vin[k] \in Outpoint
  BY DEF Spends
<1>2. \A k \in 1 .. n, a \in Spends : Spend(a, vin[k]) \in Spends
  BY <1>1, SpendFact
<1>3. G \in [1 .. n -> [Spends -> Spends]]
  BY <1>2
<1>4. PICK g \in [0 .. n -> Spends] : g[0] = s0 /\ \A k \in 1 .. n : g[k] = G[k][g[k - 1]]
  <2>1. n \in Nat /\ s0 \in Spends
    BY <1>1
  <2> HIDE DEF n, s0, G
  <2>2. \E f : IsRun(f, Spends, n, s0, G)
    BY <2>1, <1>3, LoopExists
  <2>3. QED
    BY <2>2 DEF IsRun
<1>5. \A k \in 1 .. n : g[k] = Spend(g[k - 1], vin[k])
  <2> HIDE DEF s0
  <2> QED
    BY <1>1, <1>4
<1>6. g = Def(g)
  <2> HIDE DEF s0
  <2> QED
    BY <1>4, <1>5
<1>7. PICK f : f = Def(f) /\ SpendInputs(view, vin, ok) = f[n]
  BY <1>6 DEF SpendInputs
<1> HIDE DEF s0
<1>8. /\ DOMAIN f = 0 .. n /\ f = [k \in 0 .. n |-> f[k]]
      /\ f[0] = s0 /\ \A k \in 1 .. n : f[k] = Spend(f[k - 1], vin[k])
  BY <1>1, <1>7
<1> HIDE DEF n, Def
<1>9. \A k \in 0 .. n : f[k] \in Spends
  <2> DEFINE T == {k \in 0 .. n : f[k] \in Spends}
  <2>1. 0 \in T
    BY <1>1, <1>8
  <2>2. ASSUME NEW k \in 1 .. n, k - 1 \in T PROVE k \in T
    <3>1. f[k - 1] \in Spends /\ k \in 0 .. n
      BY <1>1, <2>2
    <3>2. f[k] = Spend(f[k - 1], vin[k])
      BY <1>8
    <3>3. QED
      BY <1>2, <3>1, <3>2
  <2>3. \A k \in 0 .. n : k \in T
    <3> HIDE DEF T
    <3> QED
      BY <1>1, <2>1, <2>2, Forward
  <2>4. QED
    BY <2>3
<1>10. f \in [0 .. n -> Spends]
  BY <1>8, <1>9
<1>11. QED
  BY <1>7, <1>8, <1>10 DEF n, s0

\* The loop that restores the inputs, and what it does is what its steps say.
IsRestore(w, removed, vin, prevout) ==
  /\ DOMAIN w = 0 .. Len(vin) /\ w = [k \in 0 .. Len(vin) |-> w[k]] /\ w[Len(vin)] = removed
  /\ \A k \in 0 .. Len(vin) - 1 : w[k] = ApplyTxInUndo(w[k + 1], vin[k + 1], prevout[k + 1])

\* It is unique.
LEMMA RestoreInputsRun ==
  ASSUME NEW removed, NEW vin \in Seq(Outpoint), NEW prevout, NEW w,
         IsRestore(w, removed, vin, prevout)
  PROVE  RestoreInputs(removed, vin, prevout) = w[0]
<1> USE DEF IsRestore
<1> DEFINE n == Len(vin)
           Def(f) == [k \in 0 .. n |-> IF k = n THEN removed
                                       ELSE ApplyTxInUndo(f[k + 1], vin[k + 1], prevout[k + 1])]
<1>1. n \in Nat
  OBVIOUS
<1>2. w = Def(w)
  <2>1. \A k \in 0 .. n : w[k] = IF k = n THEN removed ELSE ApplyTxInUndo(w[k + 1], vin[k + 1], prevout[k + 1])
    BY <1>1
  <2>2. QED
    BY <2>1
<1>3. PICK f : f = Def(f) /\ RestoreInputs(removed, vin, prevout) = f[0]
  BY <1>2 DEF RestoreInputs
<1> DEFINE T == {k \in 0 .. n : f[k] = w[k]}
<1>4. n \in T
  BY <1>1, <1>3
<1>5. \A k \in 0 .. n - 1 : k + 1 \in T => k \in T
  <2>1. \A k \in 0 .. n - 1 : f[k] = ApplyTxInUndo(f[k + 1], vin[k + 1], prevout[k + 1])
    BY <1>1, <1>3
  <2>2. ASSUME NEW k \in 0 .. n - 1, k + 1 \in T PROVE k \in T
    <3>1. f[k + 1] = w[k + 1] /\ k \in 0 .. n
      BY <1>1, <2>2
    <3>2. f[k] = ApplyTxInUndo(f[k + 1], vin[k + 1], prevout[k + 1])
      BY <2>1
    <3>3. w[k] = ApplyTxInUndo(w[k + 1], vin[k + 1], prevout[k + 1])
      OBVIOUS
    <3>4. QED
      BY <3>1, <3>2, <3>3
  <2>3. QED
    BY <2>2
<1>6. \A k \in 0 .. n : k \in T
  <2> HIDE DEF T, n
  <2> QED
    BY <1>1, <1>4, <1>5, Backward
<1>7. 0 \in 0 .. n
  BY <1>1
<1>8. QED
  BY <1>3, <1>6, <1>7

\* The loops of updatecoins and of disconnectblock over the inputs are inverse.
LEMMA InputsUndone ==
  ASSUME NEW view \in Views, NEW vin \in Seq(Outpoint), NEW ok \in BOOLEAN
  PROVE  LET s == SpendInputs(view, vin, ok)
         IN  /\ s \in Spends
             /\ s.ok => /\ ok
                        /\ Len(s.prevout) = Len(vin)
                        /\ \A id \in TxIds : view[id] = NoCoins => s.view[id] = NoCoins
                        /\ RestoreInputs([view |-> s.view, clean |-> TRUE], vin, s.prevout)
                             = [view |-> view, clean |-> TRUE]
<1> DEFINE n == Len(vin)
           s == SpendInputs(view, vin, ok)
<1>1. PICK f \in [0 .. n -> Spends] :
        /\ f[0] = [view |-> view, prevout |-> <<>>, ok |-> ok]
        /\ \A k \in 1 .. n : f[k] = Spend(f[k - 1], vin[k])
        /\ s = f[n]
  BY SpendInputsRun
<1>2. n \in Nat /\ (\A k \in 1 .. n : vin[k] \in Outpoint) /\ \A k \in 0 .. n : f[k] \in Spends
  OBVIOUS
<1> HIDE DEF s
<1>3. s \in Spends
  BY <1>1, <1>2
<1>4. SUFFICES ASSUME s.ok
               PROVE  /\ ok
                      /\ Len(s.prevout) = n
                      /\ \A id \in TxIds : view[id] = NoCoins => s.view[id] = NoCoins
                      /\ RestoreInputs([view |-> s.view, clean |-> TRUE], vin, s.prevout)
                           = [view |-> view, clean |-> TRUE]
  BY <1>3 DEF s
<1> HIDE DEF n
<1>5. ASSUME NEW k \in 1 .. n, f[k].ok
      PROVE  /\ f[k - 1].ok
             /\ Len(f[k].prevout) = Len(f[k - 1].prevout) + 1
             /\ \A j \in 1 .. Len(f[k - 1].prevout) : f[k].prevout[j] = f[k - 1].prevout[j]
             /\ \A id \in TxIds : f[k - 1].view[id] = NoCoins => f[k].view[id] = NoCoins
             /\ Undoes(f[k], vin[k], f[k - 1])
  <2>1. f[k - 1] \in Spends /\ vin[k] \in Outpoint /\ f[k] = Spend(f[k - 1], vin[k])
    <3>1. k - 1 \in 0 .. n
      BY <1>2
    <3>2. QED
      BY <1>1, <1>2, <3>1
  <2>2. QED
    BY <1>5, <2>1, SpendFact
<1>6. \A k \in 0 .. n : f[k].ok
  <2> DEFINE T == {k \in 0 .. n : f[k].ok}
  <2>1. n \in T
    BY <1>1, <1>2, <1>4
  <2>2. ASSUME NEW k \in 0 .. n - 1, k + 1 \in T PROVE k \in T
    <3>1. k + 1 \in 1 .. n /\ k \in 0 .. n /\ (k + 1) - 1 = k /\ f[k + 1].ok
      BY <1>2, <2>2
    <3>2. f[(k + 1) - 1].ok
      BY <1>5, <3>1
    <3>3. QED
      BY <3>1, <3>2
  <2>3. \A k \in 0 .. n : k \in T
    <3> HIDE DEF T
    <3> QED
      BY <1>2, <2>1, <2>2, Backward
  <2>4. QED
    BY <2>3
<1>7. ok
  <2>1. 0 \in 0 .. n
    BY <1>2
  <2>2. f[0].ok
    BY <1>6, <2>1
  <2>3. f[0].ok = ok
    BY <1>1
  <2>4. QED
    BY <2>2, <2>3
<1>8. \A k \in 0 .. n :
        /\ Len(f[k].prevout) = k
        /\ \A id \in TxIds : view[id] = NoCoins => f[k].view[id] = NoCoins
  <2> DEFINE T == {k \in 0 .. n : /\ Len(f[k].prevout) = k
                                  /\ \A id \in TxIds : view[id] = NoCoins => f[k].view[id] = NoCoins}
  <2>1. 0 \in T
    BY <1>1, <1>2
  <2>2. ASSUME NEW k \in 1 .. n, k - 1 \in T PROVE k \in T
    <3>1. k \in 0 .. n /\ f[k].ok
      BY <1>2, <1>6
    <3>2. /\ Len(f[k].prevout) = Len(f[k - 1].prevout) + 1
          /\ \A id \in TxIds : f[k - 1].view[id] = NoCoins => f[k].view[id] = NoCoins
      BY <1>5, <3>1
    <3>3. /\ Len(f[k - 1].prevout) = k - 1
          /\ \A id \in TxIds : view[id] = NoCoins => f[k - 1].view[id] = NoCoins
      BY <2>2
    <3>4. QED
      BY <3>1, <3>2, <3>3
  <2>3. \A k \in 0 .. n : k \in T
    <3> HIDE DEF T
    <3> QED
      BY <1>2, <2>1, <2>2, Forward
  <2>4. QED
    BY <2>3
<1>9. \A k \in 0 .. n : \A j \in 1 .. k : s.prevout[j] = f[k].prevout[j]
  <2> DEFINE T == {k \in 0 .. n : \A j \in 1 .. k : s.prevout[j] = f[k].prevout[j]}
  <2>1. n \in T
    BY <1>1, <1>2
  <2>2. ASSUME NEW k \in 0 .. n - 1, k + 1 \in T PROVE k \in T
    <3>1. k + 1 \in 1 .. n /\ k \in 0 .. n /\ (k + 1) - 1 = k /\ k + 1 \in 0 .. n
      BY <1>2
    <3>2. f[k + 1].ok
      BY <1>6, <3>1
    <3>3. \A j \in 1 .. Len(f[(k + 1) - 1].prevout) : f[k + 1].prevout[j] = f[(k + 1) - 1].prevout[j]
      BY <1>5, <3>1, <3>2
    <3>4. \A j \in 1 .. k : f[k + 1].prevout[j] = f[k].prevout[j]
      BY <1>8, <3>1, <3>3
    <3>5. \A j \in 1 .. k : s.prevout[j] = f[k + 1].prevout[j]
      BY <2>2, <3>1
    <3>6. QED
      BY <3>1, <3>4, <3>5
  <2>3. \A k \in 0 .. n : k \in T
    <3> HIDE DEF T
    <3> QED
      BY <1>2, <2>1, <2>2, Backward
  <2>4. QED
    BY <2>3
<1> DEFINE w == [k \in 0 .. n |-> [view |-> f[k].view, clean |-> TRUE]]
<1>10. ASSUME NEW k \in 0 .. n - 1
       PROVE  w[k] = ApplyTxInUndo(w[k + 1], vin[k + 1], s.prevout[k + 1])
  <2>1. k + 1 \in 1 .. n /\ k \in 0 .. n /\ (k + 1) - 1 = k /\ k + 1 \in 0 .. n
    BY <1>2
  <2>2. f[k + 1].ok
    BY <1>6, <2>1
  <2>3. Undoes(f[k + 1], vin[k + 1], f[(k + 1) - 1])
    BY <1>5, <2>1, <2>2
  <2>4. Len(f[k + 1].prevout) = k + 1 /\ s.prevout[k + 1] = f[k + 1].prevout[k + 1]
    <3>1. k + 1 \in 1 .. k + 1
      BY <2>1
    <3>2. QED
      BY <1>8, <1>9, <2>1, <3>1
  <2>5. w[k] = [view |-> f[k].view, clean |-> TRUE] /\ w[k + 1] = [view |-> f[k + 1].view, clean |-> TRUE]
    BY <2>1
  <2> HIDE DEF w
  <2>6. QED
    BY <2>1, <2>3, <2>4, <2>5 DEF Undoes
<1>11. RestoreInputs([view |-> s.view, clean |-> TRUE], vin, s.prevout) = w[0]
  <2>1. w[n] = [view |-> s.view, clean |-> TRUE]
    BY <1>1, <1>2
  <2>2. DOMAIN w = 0 .. n /\ w = [k \in 0 .. n |-> w[k]]
    OBVIOUS
  <2> HIDE DEF w
  <2>3. IsRestore(w, [view |-> s.view, clean |-> TRUE], vin, s.prevout)
    BY <1>10, <2>1, <2>2 DEF IsRestore, n
  <2>4. QED
    BY <2>3, RestoreInputsRun
<1>12. w[0] = [view |-> view, clean |-> TRUE]
  <2>1. w[0] = [view |-> f[0].view, clean |-> TRUE]
    BY <1>2
  <2>2. f[0].view = view
    BY <1>1
  <2>3. QED
    BY <2>1, <2>2
<1>13. QED
  <2>1. n \in 0 .. n
    BY <1>2
  <2>2. QED
    BY <1>1, <1>7, <1>8, <1>11, <1>12, <2>1

\* New outputs are coins as the database has them.
LEMMA FromTxFact ==
  ASSUME NEW tx \in Tx, NEW h \in Nat \ {0}
  PROVE  InView(FromTx(tx, h))
<1> DEFINE v == [i \in DOMAIN tx.vout |-> IF tx.vout[i] \in tx.unspendable THEN 0 ELSE tx.vout[i]]
           o == ClearUnspendable(tx.vout, tx.unspendable)
           e == [fcoinbase |-> tx.fcoinbase, nheight |-> h, vout |-> o]
<1>1. tx.vout \in Seq(Nat) /\ tx.fcoinbase \in BOOLEAN
  <2>1. tx.vout \in Seq(Nat \ {0}) /\ tx.fcoinbase \in BOOLEAN
    BY DEF Tx
  <2>2. QED
    BY <2>1
<1>2. v \in Seq(Nat)
  BY <1>1
<1>3. o = Cleanup(v)
  BY DEF ClearUnspendable
<1> HIDE DEF v
<1>4. o \in Seq(Nat) /\ (o # << >> => o[Len(o)] # 0)
  BY <1>2, <1>3, CleanupFact
<1>5. FromTx(tx, h) = IF IsPruned(e) THEN NoCoins ELSE e
  BY DEF FromTx, Normal
<1> HIDE DEF o
<1>6. e \in Coins /\ NoCoins \in Coins
  BY <1>1, <1>4 DEF Coins, NoCoins
<1>7. ~IsPruned(e) => o # << >>
  BY <1>4 DEF IsPruned
<1>8. QED
  BY <1>4, <1>5, <1>6, <1>7 DEF InView

Connects == [view : Views, vtxundo : Seq(Seq(TxInUndo)), ok : BOOLEAN]

\* What disconnectblock does with a transaction takes back what connectblock did.
TxUndone(u, tx, prevout, h, a) ==
  UndoTx([view |-> u.view, clean |-> TRUE], tx, prevout, h) = [view |-> a.view, clean |-> TRUE]

\* One transaction: its undo record is the last one, none for a coinbase.
LEMMA TxFact ==
  ASSUME NEW a \in Connects, NEW tx \in Tx, NEW h \in Nat \ {0}
  PROVE  LET u == UpdateCoins(a, tx, h)
         IN  /\ u \in Connects
             /\ u.ok /\ a.view[tx.id] = NoCoins =>
                  /\ a.ok
                  /\ tx.fcoinbase => u.vtxundo = a.vtxundo
                  /\ ~tx.fcoinbase =>
                       /\ Len(u.vtxundo) = Len(a.vtxundo) + 1
                       /\ \A j \in 1 .. Len(a.vtxundo) : u.vtxundo[j] = a.vtxundo[j]
                       /\ Len(u.vtxundo[Len(u.vtxundo)]) = Len(tx.vin)
                       /\ TxUndone(u, tx, u.vtxundo[Len(u.vtxundo)], h, a)
                  /\ tx.vin = <<>> => TxUndone(u, tx, <<>>, h, a)
                  /\ \A id \in TxIds \ {tx.id} : a.view[id] = NoCoins => u.view[id] = NoCoins
             /\ u.ok => a.ok
<1> DEFINE u == UpdateCoins(a, tx, h)
           s == SpendInputs(a.view, tx.vin, a.ok)
           o == FromTx(tx, h)
<1>1. /\ a.view \in Views /\ a.vtxundo \in Seq(Seq(TxInUndo)) /\ a.ok \in BOOLEAN
      /\ tx.id \in TxIds /\ tx.vin \in Seq(Outpoint) /\ tx.fcoinbase \in BOOLEAN
  BY DEF Connects, Tx, Outpoint
<1>2. /\ s \in Spends
      /\ s.ok => /\ a.ok
                 /\ Len(s.prevout) = Len(tx.vin)
                 /\ \A id \in TxIds : a.view[id] = NoCoins => s.view[id] = NoCoins
                 /\ RestoreInputs([view |-> s.view, clean |-> TRUE], tx.vin, s.prevout)
                      = [view |-> a.view, clean |-> TRUE]
  BY <1>1, InputsUndone
<1>3. InView(o) /\ o \in Coins
  BY FromTxFact DEF InView
<1>4. u = [view |-> [s.view EXCEPT ![tx.id] = o],
           vtxundo |-> IF tx.fcoinbase THEN a.vtxundo ELSE Append(a.vtxundo, s.prevout),
           ok |-> s.ok]
  BY DEF UpdateCoins
<1> HIDE DEF u, s, o
<1>5. s.view \in [TxIds -> Coins] /\ (\A id \in TxIds : InView(s.view[id])) /\ s.ok \in BOOLEAN
      /\ s.prevout \in Seq(TxInUndo)
  BY <1>2 DEF Spends, Views
<1>6. /\ u.view = [s.view EXCEPT ![tx.id] = o] /\ u.ok = s.ok
      /\ u.vtxundo = IF tx.fcoinbase THEN a.vtxundo ELSE Append(a.vtxundo, s.prevout)
  BY <1>4
<1>7. u \in Connects
  <2>1. u.view \in Views
    BY <1>1, <1>3, <1>5, <1>6 DEF Views
  <2>2. u.vtxundo \in Seq(Seq(TxInUndo))
    BY <1>1, <1>5, <1>6
  <2>3. QED
    BY <1>4, <1>5, <1>6, <2>1, <2>2 DEF Connects
<1>8. SUFFICES ASSUME u.ok, a.view[tx.id] = NoCoins
               PROVE  /\ tx.fcoinbase => u.vtxundo = a.vtxundo
                      /\ ~tx.fcoinbase =>
                           /\ Len(u.vtxundo) = Len(a.vtxundo) + 1
                           /\ \A j \in 1 .. Len(a.vtxundo) : u.vtxundo[j] = a.vtxundo[j]
                           /\ Len(u.vtxundo[Len(u.vtxundo)]) = Len(tx.vin)
                           /\ TxUndone(u, tx, u.vtxundo[Len(u.vtxundo)], h, a)
                      /\ tx.vin = <<>> => TxUndone(u, tx, <<>>, h, a)
                      /\ \A id \in TxIds \ {tx.id} : a.view[id] = NoCoins => u.view[id] = NoCoins
  BY <1>2, <1>6, <1>7 DEF u
<1>9. s.ok /\ s.view[tx.id] = NoCoins
  BY <1>1, <1>2, <1>6, <1>8
<1>10. TxUndone(u, tx, s.prevout, h, a)
  <2>1. /\ u.view[tx.id] = o
        /\ [u.view EXCEPT ![tx.id] = NoCoins] = s.view
    BY <1>1, <1>5, <1>6, <1>9
  <2> DEFINE r == [view |-> u.view, clean |-> TRUE]
  <2>2. UndoTx(r, tx, s.prevout, h)
          = RestoreInputs([view |-> [r.view EXCEPT ![tx.id] = NoCoins],
                           clean |-> r.clean /\ r.view[tx.id] = FromTx(tx, h)], tx.vin, s.prevout)
    BY DEF UndoTx
  <2>3. /\ [r.view EXCEPT ![tx.id] = NoCoins] = s.view
        /\ (r.clean /\ r.view[tx.id] = FromTx(tx, h)) = TRUE
    BY <2>1 DEF o
  <2> HIDE DEF r
  <2>4. UndoTx(r, tx, s.prevout, h) = RestoreInputs([view |-> s.view, clean |-> TRUE], tx.vin, s.prevout)
    BY <2>2, <2>3
  <2>5. QED
    BY <1>2, <1>9, <2>4 DEF TxUndone, r
<1>11. tx.vin = <<>> => s.prevout = <<>>
  BY <1>1, <1>2, <1>5, <1>9
<1>12. \A id \in TxIds \ {tx.id} : a.view[id] = NoCoins => u.view[id] = NoCoins
  BY <1>1, <1>2, <1>5, <1>6, <1>9
<1>13. ~tx.fcoinbase =>
         /\ Len(u.vtxundo) = Len(a.vtxundo) + 1
         /\ \A j \in 1 .. Len(a.vtxundo) : u.vtxundo[j] = a.vtxundo[j]
         /\ u.vtxundo[Len(u.vtxundo)] = s.prevout
  BY <1>1, <1>5, <1>6
<1>14. QED
  BY <1>2, <1>6, <1>9, <1>10, <1>11, <1>12, <1>13

\* The run of connectblock over the transactions.
LEMMA ConnectCoinsRun ==
  ASSUME NEW view \in Views, NEW vtx \in Seq(Tx), NEW h \in Nat \ {0}
  PROVE  \E f \in [0 .. Len(vtx) -> Connects] :
           /\ f[0] = [view |-> view, vtxundo |-> <<>>, ok |-> ~Overwrites(view, vtx)]
           /\ \A k \in 1 .. Len(vtx) : f[k] = UpdateCoins(f[k - 1], vtx[k], h)
           /\ ConnectCoins(view, vtx, h) = f[Len(vtx)]
<1> DEFINE n == Len(vtx)
           s0 == [view |-> view, vtxundo |-> <<>>, ok |-> ~Overwrites(view, vtx)]
           G == [k \in 1 .. n |-> [a \in Connects |-> UpdateCoins(a, vtx[k], h)]]
           Def(f) == [k \in 0 .. n |-> IF k = 0 THEN s0 ELSE UpdateCoins(f[k - 1], vtx[k], h)]
<1>1. n \in Nat /\ s0 \in Connects /\ \A k \in 1 .. n : vtx[k] \in Tx
  <2>1. (~Overwrites(view, vtx)) \in BOOLEAN
    BY DEF Overwrites
  <2>2. QED
    BY <2>1 DEF Connects
<1>2. \A k \in 1 .. n, a \in Connects : UpdateCoins(a, vtx[k], h) \in Connects
  BY <1>1, TxFact
<1>3. G \in [1 .. n -> [Connects -> Connects]]
  BY <1>2
<1>4. PICK g \in [0 .. n -> Connects] : g[0] = s0 /\ \A k \in 1 .. n : g[k] = G[k][g[k - 1]]
  <2>1. n \in Nat /\ s0 \in Connects
    BY <1>1
  <2> HIDE DEF n, s0, G
  <2>2. \E f : IsRun(f, Connects, n, s0, G)
    BY <2>1, <1>3, LoopExists
  <2>3. QED
    BY <2>2 DEF IsRun
<1>5. \A k \in 1 .. n : g[k] = UpdateCoins(g[k - 1], vtx[k], h)
  <2> HIDE DEF s0
  <2> QED
    BY <1>1, <1>4
<1>6. g = Def(g)
  <2> HIDE DEF s0
  <2> QED
    BY <1>4, <1>5
<1>7. PICK f : f = Def(f) /\ ConnectCoins(view, vtx, h) = f[n]
  BY <1>6 DEF ConnectCoins
<1> HIDE DEF s0
<1>8. /\ DOMAIN f = 0 .. n /\ f = [k \in 0 .. n |-> f[k]]
      /\ f[0] = s0 /\ \A k \in 1 .. n : f[k] = UpdateCoins(f[k - 1], vtx[k], h)
  BY <1>1, <1>7
<1> HIDE DEF n, Def
<1>9. \A k \in 0 .. n : f[k] \in Connects
  <2> DEFINE T == {k \in 0 .. n : f[k] \in Connects}
  <2>1. 0 \in T
    BY <1>1, <1>8
  <2>2. ASSUME NEW k \in 1 .. n, k - 1 \in T PROVE k \in T
    <3>1. f[k - 1] \in Connects /\ k \in 0 .. n
      BY <1>1, <2>2
    <3>2. f[k] = UpdateCoins(f[k - 1], vtx[k], h)
      BY <1>8
    <3>3. QED
      BY <1>2, <3>1, <3>2
  <2>3. \A k \in 0 .. n : k \in T
    <3> HIDE DEF T
    <3> QED
      BY <1>1, <2>1, <2>2, Forward
  <2>4. QED
    BY <2>3
<1>10. f \in [0 .. n -> Connects]
  BY <1>8, <1>9
<1>11. QED
  BY <1>7, <1>8, <1>10 DEF n, s0

\* The loop of disconnectblock, and what it does is what its steps say.
IsUndo(w, view, vtx, vtxundo, h) ==
  /\ DOMAIN w = 0 .. Len(vtx) /\ w = [k \in 0 .. Len(vtx) |-> w[k]]
  /\ w[Len(vtx)] = [view |-> view, clean |-> TRUE]
  /\ \A k \in 0 .. Len(vtx) - 1 :
       w[k] = UndoTx(w[k + 1], vtx[k + 1], IF k = 0 THEN <<>> ELSE vtxundo[k], h)

\* It is unique.
LEMMA DisconnectCoinsRun ==
  ASSUME NEW view, NEW vtx \in Seq(Tx), NEW vtxundo, NEW h, NEW w, IsUndo(w, view, vtx, vtxundo, h)
  PROVE  DisconnectCoins(view, vtx, vtxundo, h) = w[0]
<1> USE DEF IsUndo
<1> DEFINE n == Len(vtx)
           p(k) == IF k = 0 THEN <<>> ELSE vtxundo[k]
           Def(f) == [k \in 0 .. n |-> IF k = n THEN [view |-> view, clean |-> TRUE]
                                       ELSE UndoTx(f[k + 1], vtx[k + 1], p(k), h)]
<1>1. n \in Nat
  OBVIOUS
<1>2. w = Def(w)
  <2>1. \A k \in 0 .. n : w[k] = IF k = n THEN [view |-> view, clean |-> TRUE]
                                 ELSE UndoTx(w[k + 1], vtx[k + 1], p(k), h)
    BY <1>1
  <2>2. QED
    BY <2>1
<1>3. PICK f : f = Def(f) /\ DisconnectCoins(view, vtx, vtxundo, h) = f[0]
  BY <1>2 DEF DisconnectCoins
<1> HIDE DEF p
<1> DEFINE T == {k \in 0 .. n : f[k] = w[k]}
<1>4. n \in T
  BY <1>1, <1>3
<1>5. \A k \in 0 .. n - 1 : k + 1 \in T => k \in T
  <2>1. ASSUME NEW k \in 0 .. n - 1 PROVE f[k] = UndoTx(f[k + 1], vtx[k + 1], p(k), h)
    <3>1. k \in 0 .. n /\ k # n
      BY <1>1
    <3> HIDE DEF IsUndo
    <3>2. QED
      BY <1>3, <3>1
  <2>2. ASSUME NEW k \in 0 .. n - 1, k + 1 \in T PROVE k \in T
    <3>1. f[k + 1] = w[k + 1] /\ k \in 0 .. n
      BY <1>1, <2>2
    <3>2. f[k] = UndoTx(f[k + 1], vtx[k + 1], p(k), h)
      BY <2>1
    <3>3. w[k] = UndoTx(w[k + 1], vtx[k + 1], p(k), h)
      BY DEF p
    <3>4. QED
      BY <3>1, <3>2, <3>3
  <2>3. QED
    BY <2>2
<1>6. \A k \in 0 .. n : k \in T
  <2> HIDE DEF T, n
  <2> QED
    BY <1>1, <1>4, <1>5, Backward
<1>7. 0 \in 0 .. n
  BY <1>1
<1>8. QED
  BY <1>3, <1>6, <1>7

\* The transactions of a block, by checkblock.
IsBlock(vtx) ==
  /\ vtx \in Seq(Tx) /\ vtx # <<>> /\ vtx[1].vin = <<>>
  /\ \A i \in DOMAIN vtx : vtx[i].fcoinbase <=> i = 1
  /\ \A i, j \in DOMAIN vtx : vtx[i].id = vtx[j].id => i = j

\* disconnectblock is the inverse of connectblock: with the undo data that connecting a
\* block collected, it finds everything in order and gives back exactly the coins from
\* before, whatever the block spends, its own outputs included, in any order.
THEOREM UndoRestoresBlock ==
  ASSUME NEW view \in Views, NEW vtx, IsBlock(vtx), NEW h \in Nat \ {0},
         ConnectCoins(view, vtx, h).ok
  PROVE  LET conn == ConnectCoins(view, vtx, h)
         IN  /\ UndoFits(vtx, conn.vtxundo)
             /\ DisconnectCoins(conn.view, vtx, conn.vtxundo, h) = [view |-> view, clean |-> TRUE]
<1> DEFINE n == Len(vtx)
           c == ConnectCoins(view, vtx, h)
<1>1. /\ vtx \in Seq(Tx) /\ n \in Nat /\ n # 0 /\ DOMAIN vtx = 1 .. n /\ vtx[1].vin = <<>>
      /\ \A i \in 1 .. n : vtx[i] \in Tx /\ vtx[i].id \in TxIds /\ (vtx[i].fcoinbase <=> i = 1)
      /\ \A i, j \in 1 .. n : vtx[i].id = vtx[j].id => i = j
  <2>1. vtx \in Seq(Tx) /\ DOMAIN vtx = 1 .. n /\ n \in Nat /\ n # 0
    BY DEF IsBlock
  <2>2. \A i \in 1 .. n : vtx[i] \in Tx
    BY <2>1
  <2>3. \A i \in 1 .. n : vtx[i].id \in TxIds
    BY <2>2 DEF Tx
  <2>4. QED
    BY <2>1, <2>2, <2>3 DEF IsBlock
<1>2. PICK f \in [0 .. n -> Connects] :
        /\ f[0] = [view |-> view, vtxundo |-> <<>>, ok |-> ~Overwrites(view, vtx)]
        /\ \A k \in 1 .. n : f[k] = UpdateCoins(f[k - 1], vtx[k], h)
        /\ c = f[n]
  <2>1. vtx \in Seq(Tx)
    BY <1>1
  <2>2. QED
    BY <2>1, ConnectCoinsRun
<1>3. \A k \in 0 .. n : f[k] \in Connects
  OBVIOUS
<1> HIDE DEF c, n
<1>4. ASSUME NEW k \in 1 .. n
      PROVE  f[k - 1] \in Connects /\ vtx[k] \in Tx /\ f[k] = UpdateCoins(f[k - 1], vtx[k], h)
  <2>1. k - 1 \in 0 .. n
    BY <1>1
  <2>2. QED
    BY <1>1, <1>2, <1>3, <2>1
<1>5. \A k \in 0 .. n : f[k].ok
  <2> DEFINE T == {k \in 0 .. n : f[k].ok}
  <2>1. n \in T
    BY <1>1, <1>2 DEF c, n
  <2>2. ASSUME NEW k \in 0 .. n - 1, k + 1 \in T PROVE k \in T
    <3>1. k + 1 \in 1 .. n /\ k \in 0 .. n /\ (k + 1) - 1 = k /\ f[k + 1].ok
      BY <1>1, <2>2
    <3>2. f[(k + 1) - 1].ok
      BY <1>4, <3>1, TxFact
    <3>3. QED
      BY <3>1, <3>2
  <2>3. \A k \in 0 .. n : k \in T
    <3> HIDE DEF T
    <3> QED
      BY <1>1, <2>1, <2>2, Backward
  <2>4. QED
    BY <2>3
<1>6. \A j \in 1 .. n : view[vtx[j].id] = NoCoins
  <2>1. ~Overwrites(view, vtx)
    <3>1. 0 \in 0 .. n
      BY <1>1
    <3>2. f[0].ok = ~Overwrites(view, vtx)
      BY <1>2
    <3>3. QED
      BY <1>5, <3>1, <3>2
  <2>2. \A j \in 1 .. n : IsPruned(view[vtx[j].id])
    BY <1>1, <2>1 DEF Overwrites
  <2>3. ASSUME NEW j \in 1 .. n PROVE view[vtx[j].id] = NoCoins
    <3> DEFINE d == view[vtx[j].id]
    <3>1. InView(d) /\ IsPruned(d)
      BY <1>1, <2>2 DEF Views
    <3> HIDE DEF d
    <3>2. SUFFICES ASSUME d # NoCoins PROVE FALSE
      BY DEF d
    <3>3. d.vout \in Seq(Nat) /\ d.vout # << >> /\ d.vout[Len(d.vout)] # 0
      BY <3>1, <3>2 DEF InView, Coins
    <3>4. Len(d.vout) \in DOMAIN d.vout
      BY <3>3
    <3>5. QED
      BY <3>1, <3>3, <3>4 DEF IsPruned
  <2>4. QED
    BY <2>3
<1>7. \A k \in 0 .. n : \A j \in 1 .. n : j > k => f[k].view[vtx[j].id] = NoCoins
  <2> DEFINE T == {k \in 0 .. n : \A j \in 1 .. n : j > k => f[k].view[vtx[j].id] = NoCoins}
  <2>1. 0 \in T
    BY <1>1, <1>2, <1>6
  <2>2. ASSUME NEW k \in 1 .. n, k - 1 \in T PROVE k \in T
    <3>1. k \in 0 .. n /\ f[k].ok /\ k > k - 1
      BY <1>1, <1>5
    <3>2. f[k - 1].view[vtx[k].id] = NoCoins
      BY <2>2, <3>1
    <3>3. \A id \in TxIds \ {vtx[k].id} : f[k - 1].view[id] = NoCoins => f[k].view[id] = NoCoins
      BY <1>4, <3>1, <3>2, TxFact
    <3>4. ASSUME NEW j \in 1 .. n, j > k PROVE f[k].view[vtx[j].id] = NoCoins
      <4>1. j > k - 1 /\ j # k
        BY <1>1, <3>4
      <4>2. f[k - 1].view[vtx[j].id] = NoCoins
        BY <2>2, <4>1
      <4>3. vtx[j].id \in TxIds \ {vtx[k].id}
        BY <1>1, <4>1
      <4>4. QED
        BY <3>3, <4>2, <4>3
    <3>5. QED
      BY <3>1, <3>4
  <2>3. \A k \in 0 .. n : k \in T
    <3> HIDE DEF T
    <3> QED
      BY <1>1, <2>1, <2>2, Forward
  <2>4. QED
    BY <2>3
<1>8. ASSUME NEW k \in 1 .. n
      PROVE  /\ k = 1 => f[k].vtxundo = f[k - 1].vtxundo
             /\ k # 1 => /\ Len(f[k].vtxundo) = Len(f[k - 1].vtxundo) + 1
                         /\ \A j \in 1 .. Len(f[k - 1].vtxundo) : f[k].vtxundo[j] = f[k - 1].vtxundo[j]
                         /\ Len(f[k].vtxundo[Len(f[k].vtxundo)]) = Len(vtx[k].vin)
                         /\ TxUndone(f[k], vtx[k], f[k].vtxundo[Len(f[k].vtxundo)], h, f[k - 1])
             /\ k = 1 => TxUndone(f[k], vtx[k], <<>>, h, f[k - 1])
  <2>1. k \in 0 .. n /\ k - 1 \in 0 .. n /\ f[k].ok /\ k > k - 1
    BY <1>1, <1>5
  <2>2. f[k - 1].view[vtx[k].id] = NoCoins
    BY <1>7, <2>1
  <2>3. (vtx[k].fcoinbase <=> k = 1) /\ (k = 1 => vtx[k].vin = <<>>)
    BY <1>1
  <2> DEFINE u == UpdateCoins(f[k - 1], vtx[k], h)
  <2>4. /\ vtx[k].fcoinbase => u.vtxundo = f[k - 1].vtxundo
        /\ ~vtx[k].fcoinbase =>
             /\ Len(u.vtxundo) = Len(f[k - 1].vtxundo) + 1
             /\ \A j \in 1 .. Len(f[k - 1].vtxundo) : u.vtxundo[j] = f[k - 1].vtxundo[j]
             /\ Len(u.vtxundo[Len(u.vtxundo)]) = Len(vtx[k].vin)
             /\ TxUndone(u, vtx[k], u.vtxundo[Len(u.vtxundo)], h, f[k - 1])
        /\ vtx[k].vin = <<>> => TxUndone(u, vtx[k], <<>>, h, f[k - 1])
    <3>1. u.ok
      BY <1>4, <2>1
    <3>2. f[k - 1] \in Connects /\ vtx[k] \in Tx
      BY <1>4
    <3>3. QED
      BY <2>2, <3>1, <3>2, TxFact
  <2>5. f[k] = u
    BY <1>4
  <2> HIDE DEF u
  <2>6. QED
    BY <2>3, <2>4, <2>5
<1>9. \A k \in 1 .. n : Len(f[k].vtxundo) = k - 1
  <2> DEFINE T == {k \in 0 .. n : k # 0 => Len(f[k].vtxundo) = k - 1}
  <2>1. 0 \in T
    BY <1>1
  <2>2. ASSUME NEW k \in 1 .. n, k - 1 \in T PROVE k \in T
    <3>1. CASE k = 1
      <4>1. f[1].vtxundo = f[0].vtxundo /\ f[0].vtxundo = <<>>
        BY <1>2, <1>8, <3>1
      <4>2. QED
        BY <1>1, <3>1, <4>1
    <3>2. CASE k # 1
      <4>1. Len(f[k].vtxundo) = Len(f[k - 1].vtxundo) + 1
        BY <1>8, <3>2
      <4>2. k - 1 # 0 /\ Len(f[k - 1].vtxundo) = k - 2
        BY <2>2, <3>2
      <4>3. QED
        BY <1>1, <4>1, <4>2
    <3>3. QED
      BY <3>1, <3>2
  <2>3. \A k \in 0 .. n : k \in T
    <3> HIDE DEF T
    <3> QED
      BY <1>1, <2>1, <2>2, Forward
  <2>4. \A k \in 1 .. n : k \in 0 .. n /\ k # 0
    OBVIOUS
  <2>5. QED
    BY <2>3, <2>4
<1>10. \A k \in 0 .. n : \A j \in 1 .. k - 1 : c.vtxundo[j] = f[k].vtxundo[j]
  <2> DEFINE T == {k \in 0 .. n : \A j \in 1 .. k - 1 : c.vtxundo[j] = f[k].vtxundo[j]}
  <2>1. n \in T
    BY <1>1, <1>2
  <2>2. ASSUME NEW k \in 0 .. n - 1, k + 1 \in T PROVE k \in T
    <3>1. k + 1 \in 1 .. n /\ k \in 0 .. n /\ (k + 1) - 1 = k /\ k \in Nat
      BY <1>1
    <3>2. CASE k = 0
      BY <3>1, <3>2
    <3>3. CASE k # 0
      <4>1. k \in 1 .. n /\ k + 1 # 1
        BY <3>1, <3>3
      <4>2. \A j \in 1 .. Len(f[(k + 1) - 1].vtxundo) : f[k + 1].vtxundo[j] = f[(k + 1) - 1].vtxundo[j]
        BY <1>8, <3>1, <4>1
      <4>3. \A j \in 1 .. k - 1 : f[k + 1].vtxundo[j] = f[k].vtxundo[j]
        BY <1>9, <3>1, <4>1, <4>2
      <4>4. \A j \in 1 .. k - 1 : j \in 1 .. (k + 1) - 1
        BY <3>1
      <4>5. \A j \in 1 .. k - 1 : c.vtxundo[j] = f[k + 1].vtxundo[j]
        BY <2>2, <4>4
      <4>6. QED
        BY <3>1, <4>3, <4>5
    <3>4. QED
      BY <3>2, <3>3
  <2>3. \A k \in 0 .. n : k \in T
    <3> HIDE DEF T
    <3> QED
      BY <1>1, <2>1, <2>2, Backward
  <2>4. QED
    BY <2>3
<1>11. ASSUME NEW k \in 2 .. n
       PROVE  /\ c.vtxundo[k - 1] = f[k].vtxundo[Len(f[k].vtxundo)]
              /\ Len(c.vtxundo[k - 1]) = Len(vtx[k].vin)
              /\ TxUndone(f[k], vtx[k], c.vtxundo[k - 1], h, f[k - 1])
  <2>1. k \in 1 .. n /\ k # 1 /\ k - 1 \in 1 .. k - 1 /\ k \in 0 .. n
    BY <1>1
  <2>2. Len(f[k].vtxundo) = k - 1 /\ c.vtxundo[k - 1] = f[k].vtxundo[k - 1]
    BY <1>9, <1>10, <2>1
  <2>3. QED
    BY <1>8, <2>1, <2>2
<1>12. UndoFits(vtx, c.vtxundo)
  <2>1. Len(c.vtxundo) = n - 1
    BY <1>1, <1>2, <1>9
  <2>2. Len(c.vtxundo) + 1 = n
    BY <1>1, <2>1
  <2>3. \A i \in 2 .. n : Len(c.vtxundo[i - 1]) = Len(vtx[i].vin)
    BY <1>11
  <2>4. QED
    BY <2>2, <2>3 DEF UndoFits, n
<1> DEFINE w == [k \in 0 .. n |-> [view |-> f[k].view, clean |-> TRUE]]
<1>13. ASSUME NEW k \in 0 .. n - 1
       PROVE  w[k] = UndoTx(w[k + 1], vtx[k + 1], IF k = 0 THEN <<>> ELSE c.vtxundo[k], h)
  <2>1. k + 1 \in 1 .. n /\ k \in 0 .. n /\ (k + 1) - 1 = k /\ k + 1 \in 0 .. n /\ k \in Nat
    BY <1>1
  <2>2. w[k] = [view |-> f[k].view, clean |-> TRUE] /\ w[k + 1] = [view |-> f[k + 1].view, clean |-> TRUE]
    BY <2>1
  <2> HIDE DEF w
  <2>3. CASE k = 0
    <3>1. TxUndone(f[k + 1], vtx[k + 1], <<>>, h, f[(k + 1) - 1])
      BY <1>8, <2>1, <2>3
    <3>2. QED
      BY <2>1, <2>2, <2>3, <3>1 DEF TxUndone
  <2>4. CASE k # 0
    <3>1. k + 1 \in 2 .. n
      BY <2>1, <2>4
    <3>2. TxUndone(f[k + 1], vtx[k + 1], c.vtxundo[(k + 1) - 1], h, f[(k + 1) - 1])
      BY <1>11, <3>1
    <3>3. QED
      BY <2>1, <2>2, <2>4, <3>2 DEF TxUndone
  <2>5. QED
    BY <2>3, <2>4
<1>14. DisconnectCoins(c.view, vtx, c.vtxundo, h) = w[0]
  <2>1. w[n] = [view |-> c.view, clean |-> TRUE]
    BY <1>1, <1>2
  <2>2. DOMAIN w = 0 .. n /\ w = [k \in 0 .. n |-> w[k]]
    OBVIOUS
  <2> HIDE DEF w
  <2>3. IsUndo(w, c.view, vtx, c.vtxundo, h)
    BY <1>13, <2>1, <2>2 DEF IsUndo, n
  <2>4. QED
    BY <1>1, <2>3, DisconnectCoinsRun
<1>15. w[0] = [view |-> view, clean |-> TRUE]
  <2>1. w[0] = [view |-> f[0].view, clean |-> TRUE]
    BY <1>1
  <2>2. f[0].view = view
    BY <1>2
  <2>3. QED
    BY <2>1, <2>2
<1>16. QED
  BY <1>12, <1>14, <1>15 DEF c

-----------------------------------------------------------------------------
\* Heights start above 0, so that a height of 0 marks an undo record without one.
LEMMA NHeightFact == \A b \in Block : NHeight(b) \in Nat \ {0}
<1>1. \A b \in Block : Height[b] \in Nat
  BY HeightDef
<1>2. BaseHeight \in Nat \ {0}
  BY FlushStateAssumption
<1>3. QED
  BY <1>1, <1>2 DEF NHeight

\* The transactions of a block are as checkblock wants them.
LEMMA VtxFact == \A b \in Block \ {Genesis} : IsBlock(Vtx[b])
<1>1. ASSUME NEW b \in Block \ {Genesis} PROVE IsBlock(Vtx[b])
  <2>1. Vtx[b] \in Seq(Tx)
    BY TransactionsAssumption DEF Tx
  <2>2. QED
    BY <2>1, TransactionsAssumption DEF IsBlock
<1>2. QED
  BY <1>1

\* Connecting gives a view, whether it succeeds or not.
LEMMA ConnectType ==
  ASSUME NEW view \in Views, NEW b \in Block \ {Genesis}
  PROVE  ConnectCoins(view, Vtx[b], NHeight(b)) \in Connects
<1> DEFINE v == Vtx[b]
           h == NHeight(b)
<1>1. v \in Seq(Tx) /\ h \in Nat \ {0}
  BY VtxFact, NHeightFact DEF IsBlock
<1> HIDE DEF v, h
<1>2. PICK f \in [0 .. Len(v) -> Connects] :
        /\ f[0] = [view |-> view, vtxundo |-> <<>>, ok |-> ~Overwrites(view, v)]
        /\ \A k \in 1 .. Len(v) : f[k] = UpdateCoins(f[k - 1], v[k], h)
        /\ ConnectCoins(view, v, h) = f[Len(v)]
  BY <1>1, ConnectCoinsRun
<1>3. Len(v) \in 0 .. Len(v)
  BY <1>1
<1>4. ConnectCoins(view, v, h) \in Connects
  BY <1>2, <1>3
<1>5. QED
  BY <1>4 DEF v, h

\* What connecting a block to the coins of its parent gives.
Connected(b) == ConnectCoins(Replay[Parent[b]], Vtx[b], NHeight(b))

\* The coins of a chain are well defined.
LEMMA ReplayDef ==
  /\ Replay \in [Block -> Views] /\ Replay[Genesis] = BaseCoins
  /\ \A b \in Block \ {Genesis} : Replay[b] = Connected(b).view
<1> DEFINE V == Views
           C(v, b) == ConnectCoins(v, Vtx[b], NHeight(b)).view
           G == [b \in Block |-> [v \in V |-> IF b = Genesis THEN v ELSE C(v, b)]]
           Def(f) == [b \in Block |-> IF b = Genesis THEN BaseCoins ELSE C(f[Parent[b]], b)]
<1>1. BaseCoins \in V
  <2>1. BaseCoins \in [TxIds -> Coins]
    BY TransactionsAssumption DEF Coins
  <2>2. ASSUME NEW id \in TxIds PROVE InView(BaseCoins[id])
    BY <2>1, TransactionsAssumption DEF InView
  <2>3. QED
    BY <2>1, <2>2 DEF Views
<1>2. ASSUME NEW v \in V, NEW b \in Block \ {Genesis} PROVE C(v, b) \in V
  BY ConnectType DEF Connects
<1> HIDE DEF V, C
<1>3. G \in [Block -> [V -> V]]
  BY <1>2
<1>4. PICK f \in [Block -> V] :
        \A b \in Block : f[b] = IF b = Genesis THEN BaseCoins ELSE G[b][f[Parent[b]]]
  <2> HIDE DEF G
  <2> QED
    BY <1>1, <1>3, TreeRecursion
<1>5. ASSUME NEW b \in Block
      PROVE  f[b] = IF b = Genesis THEN BaseCoins ELSE C(f[Parent[b]], b)
  <2>1. b # Genesis => Parent[b] \in Block /\ f[Parent[b]] \in V
    BY HeaderTreeAssumption
  <2>2. QED
    BY <1>4, <2>1
<1>6. f = Def(f)
  BY <1>4, <1>5
<1>7. Replay = Def(Replay)
  BY <1>6 DEF Replay, C
<1>8. /\ Replay[Genesis] = BaseCoins
      /\ \A b \in Block \ {Genesis} : Replay[b] = C(Replay[Parent[b]], b)
  BY <1>7, HeaderTreeAssumption
<1>9. ASSUME NEW b \in Block PROVE Replay[b] \in V
  <2> DEFINE S == {x \in Block : Replay[x] \notin V}
  <2> SUFFICES ASSUME S # {} PROVE FALSE
    OBVIOUS
  <2>1. PICK x \in S : x = Genesis \/ Parent[x] \notin S
    BY TreeAssumption
  <2>2. x # Genesis => Parent[x] \in Block
    BY HeaderTreeAssumption
  <2>3. x # Genesis => Replay[Parent[x]] \in V
    BY <2>1, <2>2
  <2>4. QED
    BY <1>1, <1>2, <1>8, <2>1, <2>3
<1>10. Replay \in [Block -> V]
  BY <1>7, <1>9
<1>11. QED
  BY <1>8, <1>10 DEF V, C, Connected

\* The undo data of a block is the one that belongs to it.
Right(b) ==
  Connected(b).ok /\ UndoRead(b) = [prev |-> Parent[b], vtxundo |-> Connected(b).vtxundo]

\* The inductive invariant of the coins.
UndoInv ==
  failed = {} /\ lost = {} =>
    /\ tip.coins = Replay[tip.best]
    /\ coinsDb.coins = Replay[coinsDb.best] /\ coinsDisk.coins = Replay[coinsDisk.best]
    /\ \A b \in Block \ {Genesis} : idx[b].undo # NoPos => Right(b)

\* A block whose undo data is right can be disconnected from the coins of its chain.
LEMMA RightFact ==
  ASSUME NEW b \in Block \ {Genesis}, Right(b)
  PROVE  /\ UndoRead(b).prev = Parent[b] /\ UndoFits(Vtx[b], UndoRead(b).vtxundo)
         /\ DisconnectCoins(Replay[b], Vtx[b], UndoRead(b).vtxundo, NHeight(b))
              = [view |-> Replay[Parent[b]], clean |-> TRUE]
<1>1. /\ Connected(b).ok /\ UndoRead(b).prev = Parent[b]
      /\ UndoRead(b).vtxundo = Connected(b).vtxundo
  <2>1. Connected(b).ok /\ UndoRead(b) = [prev |-> Parent[b], vtxundo |-> Connected(b).vtxundo]
    BY DEF Right
  <2>2. QED
    BY <2>1
<1>2. Parent[b] \in Block
  BY HeaderTreeAssumption
<1>3. Replay[Parent[b]] \in Views /\ Replay[b] = Connected(b).view
  BY <1>2, ReplayDef
<1>4. IsBlock(Vtx[b]) /\ NHeight(b) \in Nat \ {0}
  BY VtxFact, NHeightFact
<1>5. /\ UndoFits(Vtx[b], Connected(b).vtxundo)
      /\ DisconnectCoins(Connected(b).view, Vtx[b], Connected(b).vtxundo, NHeight(b))
           = [view |-> Replay[Parent[b]], clean |-> TRUE]
  BY <1>1, <1>3, <1>4, UndoRestoresBlock DEF Connected
<1>6. QED
  BY <1>1, <1>3, <1>5

\* Where memory and undo files agree on a block, its undo data stays right.
LEMMA SameUndo ==
  ASSUME NEW b \in Block \ {Genesis}, Right(b), UndoRead(b)' = UndoRead(b)
  PROVE  Right(b)'
<1>1. Connected(b)' = Connected(b)
  BY DEF Connected
<1>2. Connected(b).ok /\ UndoRead(b)' = [prev |-> Parent[b], vtxundo |-> Connected(b).vtxundo]
  BY DEF Right
<1>3. QED
  BY <1>1, <1>2 DEF Right

\* acceptblock leaves the undo data that is in use alone.
LEMMA AcceptUndo ==
  ASSUME FilesOk, Intact', NEW b \in Block \ {Genesis}, AcceptBlock(b) \/ AcceptBlockFails(b), NEW x \in Block \ {Genesis},
         idx'[x].undo # NoPos
  PROVE  idx[x].undo # NoPos /\ UndoRead(x)' = UndoRead(x)
<1> DEFINE f == NextFile
<1>1. /\ Stores /\ Arrays /\ lastFile \in Files /\ Backed(x) /\ idx \in [Block -> [data : Pos, undo : Pos]]
  BY DEF FilesOk, Stores
<1>2. /\ \/ idx' = [idx EXCEPT ![b] = [data |-> [file |-> f, at |-> info[f].nsize], undo |-> NoPos]]
         \/ idx' = idx
      /\ rev' = IF f = lastFile THEN rev ELSE Cut(rev, info[lastFile].nundo, NoUndo)
  BY AcceptCases DEF FindBlockPos, LeftRev, Marked, GivenUp
<1> HIDE DEF f
<1>3. idx'[x] = idx[x] /\ idx[x].undo # NoPos
  BY <1>1, <1>2
<1> DEFINE u == idx[x].undo
<1>4. u.file \in Files /\ u.at \in Nat /\ u.at < info[u.file].nundo /\ info[u.file].nundo \in 0 .. MaxUndo
  BY <1>1, <1>3, EntryFact, PosFact, SizeFact DEF Backed
<1>5. DOMAIN rev = Files /\ DOMAIN rev[u.file] = 0 .. MaxUndo - 1 /\ MaxUndo \in Nat
  BY <1>1, <1>4, FileFact DEF Arrays
<1>6. rev'[u.file][u.at] = rev[u.file][u.at]
  <2>1. CASE f = lastFile
    BY <1>2, <2>1
  <2>2. CASE f # lastFile
    <3>1. rev' = [rev EXCEPT ![lastFile] =
                    [p \in DOMAIN @ |-> IF p >= info[lastFile].nundo THEN NoUndo ELSE @[p]]]
      BY <1>2, <2>2 DEF Cut
    <3>2. CASE u.file # lastFile
      BY <3>1, <3>2
    <3>3. CASE u.file = lastFile
      <4>1. rev'[u.file] = [p \in 0 .. MaxUndo - 1 |-> IF p >= info[u.file].nundo THEN NoUndo ELSE rev[u.file][p]]
        BY <1>1, <1>5, <3>1, <3>3
      <4>2. u.at \in 0 .. MaxUndo - 1 /\ ~(u.at >= info[u.file].nundo)
        BY <1>4, <1>5
      <4> HIDE DEF u
      <4>3. QED
        BY <4>1, <4>2
    <3>4. QED
      BY <3>2, <3>3
  <2>3. QED
    BY <2>1, <2>2
<1>7. QED
  BY <1>3, <1>6 DEF UndoRead

\* connecttip leaves it alone, too, and writes what belongs to its block.
LEMMA ConnectUndo ==
  ASSUME FilesOk, Intact', NEW b \in Block \ {Genesis}, ConnectTip(b), NEW x \in Block \ {Genesis},
         idx'[x].undo # NoPos
  PROVE  \/ idx[x].undo # NoPos /\ UndoRead(x)' = UndoRead(x)
         \/ /\ x = b
            /\ UndoRead(x)' = [prev |-> Parent[b],
                               vtxundo |-> ConnectCoins(tip.coins, Vtx[b], NHeight(b)).vtxundo]
<1> DEFINE conn == ConnectCoins(tip.coins, Vtx[b], NHeight(b))
<1>1. CASE idx[b].undo # NoPos
  <2>1. UNCHANGED <<idx, rev>>
    BY <1>1 DEF ConnectTip
  <2>2. QED
    BY <2>1 DEF UndoRead
<1>2. CASE idx[b].undo = NoPos
  <2>1. WriteUndo(b, conn.vtxundo, {}) /\ idx[b].data # NoPos
    BY <1>2, ConnectCases DEF ConnectTip, DataReadable
  <2> DEFINE f == idx[b].data.file
             p == info[f].nundo
             r == [prev |-> Parent[b], vtxundo |-> conn.vtxundo]
             n == [file |-> f, at |-> p]
  <2>2. /\ p < MaxUndo /\ rev' = [rev EXCEPT ![f][p] = r]
        /\ idx' = [idx EXCEPT ![b].undo = n]
    BY <2>1 DEF WriteUndo, FindUndoPos
  <2>3. Stores /\ Arrays /\ Backed(x) /\ idx \in [Block -> [data : Pos, undo : Pos]]
    BY DEF FilesOk, Stores
  <2>4. f \in Files /\ p \in Nat /\ MaxUndo \in Nat
    <3>1. f \in Files
      BY <2>1, <2>3, EntryFact, PosFact
    <3>2. info[f].nundo \in 0 .. MaxUndo
      BY <2>3, <3>1, SizeFact
    <3>3. QED
      BY <3>1, <3>2, FileFact
  <2>5. DOMAIN rev = Files /\ DOMAIN rev[f] = 0 .. MaxUndo - 1 /\ p \in 0 .. MaxUndo - 1
    BY <2>2, <2>3, <2>4 DEF Arrays
  <2> HIDE DEF r, f, p, n
  <2>6. CASE x = b
    <3>1. idx'[x].undo = n
      BY <2>2, <2>3, <2>6
    <3>2. rev'[f][p] = r
      BY <2>2, <2>4, <2>5
    <3>3. n.file = f /\ n.at = p
      BY DEF n
    <3>4. QED
      BY <2>6, <3>1, <3>2, <3>3 DEF UndoRead, r
  <2>7. CASE x # b
    <3>1. idx'[x] = idx[x] /\ idx[x].undo # NoPos
      BY <2>2, <2>3, <2>7
    <3> DEFINE u == idx[x].undo
    <3>2. u.file \in Files /\ u.at \in Nat /\ u.at < info[u.file].nundo /\ info[u.file].nundo \in 0 .. MaxUndo
      BY <2>3, <3>1, EntryFact, PosFact, SizeFact DEF Backed
    <3>3. ~(u.file = f /\ u.at = p)
      BY <2>4, <3>2 DEF p
    <3> HIDE DEF u
    <3>4. rev'[u.file][u.at] = rev[u.file][u.at]
      <4>1. u.file # f => rev'[u.file] = rev[u.file]
        BY <2>2
      <4>2. rev'[f] = [rev[f] EXCEPT ![p] = r]
        BY <2>2, <2>4, <2>5
      <4>3. u.at # p => rev'[f][u.at] = rev[f][u.at]
        BY <4>2
      <4>4. QED
        BY <3>3, <4>1, <4>3
    <3>5. QED
      BY <3>1, <3>4 DEF UndoRead, u
  <2>8. QED
    BY <2>6, <2>7
<1>3. QED
  BY <1>1, <1>2

\* The coins keep to their chains, and undo data to its blocks.
LEMMA UndoStep == FilesInv /\ ChainInv /\ UndoInv /\ [Next]_vars => UndoInv'
<1> SUFFICES ASSUME FilesInv, ChainInv, UndoInv, [Next]_vars, failed' = {}, lost' = {} PROVE UndoInv'
  BY DEF UndoInv
<1>1. failed = {} /\ lost = {}
  BY FailedGrows
<1> FilesOk /\ Intact'
  BY <1>1 DEF FilesInv, Intact
<1>2. /\ tip.coins = Replay[tip.best]
      /\ coinsDb.coins = Replay[coinsDb.best] /\ coinsDisk.coins = Replay[coinsDisk.best]
      /\ \A b \in Block \ {Genesis} : idx[b].undo # NoPos => Right(b)
  BY <1>1 DEF UndoInv
<1>3. /\ {tip.best, coinsDb.best, coinsDisk.best} \subseteq Block
      /\ \A b \in Block : BackedOnDisk(b)
      /\ Indexed(idx, tip.best)
  BY <1>1 DEF FilesOk, Stores, ChainInv
<1>4. CASE UNCHANGED <<idx, rev>>
  <2>1. \A b \in Block \ {Genesis} : idx'[b].undo # NoPos => Right(b)'
    BY <1>2, <1>4, SameUndo DEF UndoRead
  <2>2. CASE UNCHANGED <<tip, coinsDb, coinsDisk>>
    BY <1>2, <2>1, <2>2 DEF UndoInv
  <2>3. CASE DisconnectTip
    <3> DEFINE b == tip.best
               disc == DisconnectCoins(tip.coins, Vtx[b], UndoRead(b).vtxundo, NHeight(b))
    <3>1. /\ b \in Block \ {Genesis} /\ idx[b].undo # NoPos
          /\ tip' = [best |-> Parent[b], coins |-> disc.view] /\ UNCHANGED <<coinsDb, coinsDisk>>
      BY <1>3, <2>3 DEF DisconnectTip, UndoReadable, dbs
    <3>2. disc = [view |-> Replay[Parent[b]], clean |-> TRUE]
      BY <1>2, <3>1, RightFact
    <3> HIDE DEF disc
    <3>3. disc.view = Replay[Parent[b]]
      BY <3>2
    <3>4. tip'.coins = Replay[tip'.best]
      BY <3>1, <3>3
    <3>5. QED
      BY <1>2, <2>1, <3>1, <3>4 DEF UndoInv
  <2>4. CASE FlushCoins
    <3>1. tip' = tip /\ coinsDb' = tip /\ coinsDisk' \in {coinsDisk, coinsDb}
      BY <2>4 DEF FlushCoins, memory
    <3>2. QED
      BY <1>2, <2>1, <3>1 DEF UndoInv
  <2>5. CASE \E b \in Block \ {Genesis} : ConnectTip(b)
    <3>1. PICK b \in Block \ {Genesis} : ConnectTip(b)
      BY <2>5
    <3>2. /\ tip' = [best |-> b, coins |-> ConnectCoins(tip.coins, Vtx[b], NHeight(b)).view]
          /\ Parent[b] = tip.best /\ UNCHANGED <<coinsDb, coinsDisk>>
      BY <3>1 DEF ConnectTip, dbs
    <3>3. tip'.best = b /\ tip'.coins = Connected(b).view
      BY <1>2, <3>2 DEF Connected
    <3>4. tip'.coins = Replay[tip'.best]
      BY <3>3, ReplayDef
    <3>5. QED
      BY <1>2, <2>1, <3>2, <3>4 DEF UndoInv
  <2>6. CASE Restart
    <3>1. tip' = coinsDb /\ UNCHANGED <<coinsDb, coinsDisk>>
      BY <2>6 DEF Restart, Load, dbs
    <3>2. QED
      BY <1>2, <2>1, <3>1 DEF UndoInv
  <2>7. CASE PowerFailure
    <3>1. tip' = coinsDb' /\ coinsDisk' = coinsDb' /\ coinsDb' \in {coinsDisk, coinsDb}
      BY <2>7 DEF PowerFailure, Load
    <3>2. QED
      BY <1>2, <2>1, <3>1 DEF UndoInv
  <2>8. ~FlushCoinsFails
    <3>1. SUFFICES ASSUME FlushCoinsFails PROVE FALSE
      OBVIOUS
    <3>2. failed' = failed \cup {"coins"}
      BY <3>1 DEF FlushCoinsFails
    <3>3. QED
      BY <3>2
  <2>9. QED
    BY <2>2, <2>3, <2>4, <2>5, <2>6, <2>7, <2>8
       DEF Next, vars, memory, dbs, AcceptBlock, AcceptBlockFails, ConnectTipFails, BeginFlush, WriteIndex, WriteIndexFails, NoSpaceForCoins
<1>5. ASSUME NEW b \in Block \ {Genesis}, AcceptBlock(b) \/ AcceptBlockFails(b) PROVE UndoInv'
  <2>1. UNCHANGED <<tip, coinsDb, coinsDisk>>
    BY <1>5 DEF AcceptBlock, AcceptBlockFails, dbs
  <2>2. \A x \in Block \ {Genesis} : idx'[x].undo # NoPos => Right(x)'
    BY <1>2, <1>5, AcceptUndo, SameUndo
  <2>3. QED
    BY <1>2, <2>1, <2>2 DEF UndoInv
<1>6. ASSUME NEW b \in Block \ {Genesis}, ConnectTip(b) PROVE UndoInv'
  <2> DEFINE conn == ConnectCoins(tip.coins, Vtx[b], NHeight(b))
  <2>1. /\ tip' = [best |-> b, coins |-> conn.view] /\ conn.ok
        /\ Parent[b] = tip.best /\ UNCHANGED <<coinsDb, coinsDisk>>
    BY <1>6 DEF ConnectTip, dbs
  <2>2. conn = Connected(b)
    BY <1>2, <2>1 DEF Connected
  <2>3. tip'.coins = Replay[tip'.best]
    <3>1. tip'.best = b /\ tip'.coins = Connected(b).view
      BY <2>1, <2>2
    <3>2. QED
      BY <3>1, ReplayDef
  <2>4. ASSUME NEW x \in Block \ {Genesis}, idx'[x].undo # NoPos PROVE Right(x)'
    <3>1. CASE idx[x].undo # NoPos /\ UndoRead(x)' = UndoRead(x)
      BY <1>2, <3>1, SameUndo
    <3>2. CASE x = b /\ UndoRead(x)' = [prev |-> Parent[b], vtxundo |-> conn.vtxundo]
      <4>1. Connected(b)' = Connected(b)
        BY DEF Connected
      <4> HIDE DEF conn
      <4>2. QED
        BY <2>1, <2>2, <3>2, <4>1 DEF Right
    <3>3. QED
      BY <1>6, <2>4, <3>1, <3>2, ConnectUndo
  <2>5. QED
    BY <1>2, <2>1, <2>3, <2>4 DEF UndoInv
<1>7. ASSUME NEW x \in Block \ {Genesis}, idxDb[x].undo # NoPos
      PROVE  idx[x].undo = idxDb[x].undo /\ Right(x)
  BY <1>2, <1>3, <1>7 DEF BackedOnDisk
<1>8. CASE Restart
  <2>1. tip' = coinsDb /\ idx' = idxDb /\ rev' = rev /\ UNCHANGED <<coinsDb, coinsDisk>>
    BY <1>8 DEF Restart, Load, dbs, files
  <2>2. \A x \in Block \ {Genesis} : idx'[x].undo # NoPos => Right(x)'
    BY <1>7, <2>1, SameUndo DEF UndoRead
  <2>3. QED
    BY <1>2, <2>1, <2>2 DEF UndoInv
<1>9. CASE PowerFailure
  <2>1. /\ tip' = coinsDb' /\ coinsDisk' = coinsDb' /\ coinsDb' \in {coinsDisk, coinsDb} /\ idx' = idxDb
        /\ lost' = lost \cup {b \in Block : LET u == idxDb[b].undo
                                          IN  u # NoPos /\ rev'[u.file][u.at] # rev[u.file][u.at]}
    BY <1>9 DEF PowerFailure, Load
  <2>2. ASSUME NEW x \in Block \ {Genesis}, idx'[x].undo # NoPos PROVE Right(x)'
    <3>1. idxDb[x].undo # NoPos
      BY <2>1, <2>2
    <3>2. rev'[idxDb[x].undo.file][idxDb[x].undo.at] = rev[idxDb[x].undo.file][idxDb[x].undo.at]
      BY <2>1, <3>1
    <3>3. idx[x].undo = idxDb[x].undo /\ idx'[x].undo = idxDb[x].undo /\ Right(x)
      BY <1>7, <2>1, <3>1
    <3>4. UndoRead(x)' = UndoRead(x)
      BY <3>2, <3>3 DEF UndoRead
    <3>5. QED
      BY <3>3, <3>4, SameUndo
  <2>3. QED
    BY <1>2, <2>1, <2>2 DEF UndoInv
<1>10. QED
  <2>1. CASE UNCHANGED vars
    BY <1>4, <2>1 DEF vars, memory, files
  <2>2. CASE DisconnectTip \/ WriteIndex \/ WriteIndexFails \/ NoSpaceForCoins \/ FlushCoins \/ FlushCoinsFails
             \/ (\E b \in Block \ {Genesis} : ConnectTipFails(b)) \/ \E doFull \in BOOLEAN : BeginFlush(doFull)
    BY <1>4, <2>2 DEF DisconnectTip, WriteIndex, WriteIndexFails, NoSpaceForCoins, FlushCoins, FlushCoinsFails,
                      ConnectTipFails, BeginFlush, memory, files
  <2>3. QED
    BY <1>5, <1>6, <1>8, <1>9, <2>1, <2>2 DEF Next

\* The tip can always be disconnected.
LEMMA UndoInvSuffices == FilesInv /\ ChainInv /\ UndoInv => TipCanBeUndone
<1> SUFFICES ASSUME FilesInv, ChainInv, UndoInv, failed = {}, lost = {}, tip.best # Genesis
             PROVE  /\ DataReadable(tip.best)
                    /\ UndoReadable(tip.best)
                    /\ LET disc == DisconnectCoins(tip.coins, Vtx[tip.best],
                                     UndoRead(tip.best).vtxundo, NHeight(tip.best))
                       IN  disc.clean /\ disc.view = Replay[Parent[tip.best]]
  BY DEF TipCanBeUndone, UndoInv
<1> FilesOk
  BY DEF FilesInv, Intact
<1> DEFINE b == tip.best
<1>1. b \in Block \ {Genesis} /\ Backed(b)
  BY DEF FilesOk, Stores
<1>2. b \in Ancestors[b]
  BY <1>1, Ancestry
<1>3. idx[b].data # NoPos /\ idx[b].undo # NoPos
  BY <1>1, <1>2 DEF ChainInv, Indexed
<1>4. tip.coins = Replay[b] /\ Right(b)
  BY <1>1, <1>3 DEF UndoInv
<1>5. /\ UndoRead(b).prev = Parent[b] /\ UndoFits(Vtx[b], UndoRead(b).vtxundo)
      /\ DisconnectCoins(tip.coins, Vtx[b], UndoRead(b).vtxundo, NHeight(b))
           = [view |-> Replay[Parent[b]], clean |-> TRUE]
  BY <1>1, <1>4, RightFact
<1>6. DataReadable(b)
  BY <1>1, <1>3 DEF DataReadable, Backed
<1>7. UndoReadable(b)
  BY <1>3, <1>5 DEF UndoReadable
<1>8. QED
  BY <1>5, <1>6, <1>7

\* main.cpp disconnectblock: after any history of connections, flushes, restarts and
\* power failures the tip can be disconnected exactly, for every tree of blocks.
THEOREM TipAlwaysUndone == Spec => []TipCanBeUndone
<1>1. Init => UndoInv
  <2>1. ASSUME Init PROVE UndoInv
    <3>1. \A b \in Block : idx[b].undo = NoPos
      BY <2>1 DEF Init, NoData
    <3>2. tip = BaseState /\ coinsDb = BaseState /\ coinsDisk = BaseState
      BY <2>1 DEF Init
    <3>3. BaseState.coins = Replay[BaseState.best]
      BY ReplayDef DEF BaseState
    <3>4. QED
      BY <3>1, <3>2, <3>3 DEF UndoInv
  <2>2. QED
    BY <2>1
<1>2. Spec => [](FilesInv /\ ChainInv)
  BY FilesInvariance, ChainInvariance, PTL
<1>3. QED
  BY <1>1, <1>2, UndoStep, UndoInvSuffices, PTL DEF Spec
=============================================================================
