# A TLA+ model of the moorecoin node

The repository is a full node in C++ (a fork of Bitcoin Core 0.11 with every
identifier in lower case); its own code is in `src/src/`. This directory holds
TLA+ modules for the part of it whose correctness is hardest to test: the
choice of the active chain, the coin database's caches, undo data and the order
in which state is saved, the script-check threads, the task scheduler, the life
of connections, block download, the address manager, and the memory pool with
its orphans. TLC checks the
modules on small instances; TLAPS proves part of what is checked for every
value of the constants.

`PROJECT.json` lists the components, the runs, the source lines that each
definition translates, the hazards the properties are aimed at, and the
theorems. Line numbers below are those of `src/src/`.

## 1. The system

| Component | State | Operations | Modelled by |
|---|---|---|---|
| Script-check queue (`checkqueue.h`) | `queue`, `nidle`, `ntotal`, `ntodo`, `fallok`, one mutex, two condition variables | `loop` (worker and master), `add`, control object | `CheckQueue`, `CheckResult` |
| Block index and chain selection (`main.cpp`, `chain.h`) | `mapblockindex` with status flags, `setblockindexcandidates`, `mapblocksunlinked`, `chainactive` | accept header or block, activate best chain, invalidate, reconsider, prune, load | `HeaderTree`, `BlockTree` |
| Coin views (`coins.cpp`, `txdb.cpp`) | two levels of `cachecoins` with dirty and fresh flags, `hashblock`, the database | fetch, modify, set best block, batch write, flush | `CoinsCache`, `UtxoSet` |
| Block download (`main.cpp`) | `cnodestate` per peer, `mapblocksinflight`, three global counters | connect, version, inv, headers, block, send messages, finalize | `BlockDownload` |
| Memory pool (`txmempool.cpp`, `main.cpp`) | `maptx`, `mapnexttx` | accept, add, remove, remove for block, remove coinbase spends | `Mempool` |
| Orphans (`main.cpp`) | `maporphantransactions`, `maporphantransactionsbyprev` | tx message, evict, erase for a peer | `TxRelay` |
| Undo data and state flushing (`main.cpp`, `undo.h`, `coins.h`) | block and undo files, index entries with positions, dirty sets, the two databases | update coins, connect and disconnect block, find positions, flush state, load | `BlockUndo`, `FlushState` |
| Connections (`net.cpp`, `sync.h`) | `vnodes`, `vnodesdisconnected`, reference counts, grants of `semoutbound`; buffers, bans, `mapaskfor` | socket, message and open-connection threads | `Net` (the first four) |
| Address manager (`addrman.cpp`) | new and tried tables, reference counts, random order, `peers.dat` | add, good, get addresses, evict, delete, save, load | `AddrMan` |
| Task scheduler (`scheduler.cpp`) | time-ordered tasks, stop flags, service threads | service, schedule, repeat, stop | `Scheduler` |
| Proof of work, fees, miner | difficulty, fee statistics, block template | retarget, record, assemble | planned in part |
| Scripts, wallet, RPC, Qt, utilities, vendored libraries | | | not modelled (section 8) |

**How the parts interact.** Nearly all of it runs under one lock, `cs_main`.
The message thread takes it for each message; RPC threads and the miner take it
for each call. `activatebestchain` is the exception: it releases the lock after
every step, so two threads can be in the middle of it at once. Connecting a
block (`connecttip`) opens a coin view over `pcoinstip`, hands the block's
scripts to the check queue and waits for the answer, flushes the view, then
removes the block's transactions and their conflicts from the pool.
Disconnecting one puts transactions back. A block message first settles the
block-download books, then enters the index, then calls `activatebestchain`.
A disconnect of a peer must be forgotten by the download books and the orphans;
`finalizenode`, which does that, is called by the destructor of the `cnode`, so a
node that is never deleted is never forgotten. After a connect or disconnect, and
periodically, `flushstatetodisk` saves block files, index and coins, in this
order. The scheduler runs periodic work such as writing `peers.dat`.

**What is hard.** The check queue has its own mutex and is interrupted at
shutdown in the middle of a wait. Chain activation is interleaved with itself
and with operator commands that change flags it depends on. Blocks come in any
order, and branches fail half way through a reorganisation. Cache flags say
what may be forgotten, and a wrong one silently loses a spend. A crash can fall
between any two of the four stores that make up the saved state, none of which is
in a transaction with another. A `cnode` is used by three kinds of thread, counted
by a plain `int`, and published before it is complete. Peers withhold, repeat and damage blocks, disconnect
while they owe some, and time out just before they answer. Policy may refuse a
transaction that a reorganisation returns, while its children are in the pool.

## 2. The modules

`HeaderTree` is the tree of blocks: parent, height, accumulated work,
ancestors. A block's hash commits to all of them, so they are constants.
`BlockTree`, `BlockDownload`, `FlushState` and `Mempool` extend it; `FlushState`
also extends `BlockUndo`, the pure functions on coins and undo records; `TxRelay` extends
`Mempool` and composes the pool with the tx handler. `CheckResult` and
`UtxoSet` are abstract specifications which `CheckQueue` and `CoinsCache`
implement. `MC_*` modules only give constants their values. `*Proof` modules
hold the theorems. Operators marked `Mutant` are faulty variants of the
operator that follows them; each property is known to fail under one of them.

### CheckQueue

One action is one critical section of the mutex with the thread-local work
before it. A section has two halves: it retires what the thread did before
(`Enter`, `Finish`, `Resume`) and then decides what is next (`Grab`, `Return`,
`Wait`), which is the shape of `loop()`. `Interrupt` is
`boost::thread_interrupted` out of `cond.wait`: no counter is adjusted. For the
master it leads to the destructor of the control object, which calls `wait()`
again. The queue is a set, because the code takes checks in an order that is
stated not to matter. `fquit` is never set and is left out. `added` is a
history variable: the checks added under the current control object.

### BlockTree

Variables are the members and flags of the index, one by one. A handler that
keeps `cs_main` throughout is one action. `activatebestchain` is a program
counter per thread: `activate` (about to lock), `find` (in
`findmostworkchain`), `switch` (between disconnects and connects), `check` (the
loop condition, read without the lock), `aborted` (`abortnode`). Why a block is
invalid is a constant: `BadBlock` fails `contextualcheckblock`, `BadConnect`
fails `connectblock`, `Corrupt` fails it with `corruptionpossible()`.
`mapblocksunlinked` is a multimap and the same pair can be in it twice, so it is
a count per block, and a block visited twice takes the last of the sequence
numbers. `unsaved` marks a `block_failed_child` that `findmostworkchain` set
without adding the block to `setdirtyblockindex`: a restart loses it.
`InvalidateBlock` is the whole RPC up to `activatebestchain`; when a block that it
has to disconnect was pruned it stops half way (`InvalidateAborted`), with flags and
candidates already changed. `VerifyDb` is what a restart requires of the blocks near
the tip.

### CoinsCache

A cache is a record of entries, values and two flag sets. `Fetched` and
`Written` are what `fetchcoins` and `~ccoinsmodifier` do to an entry,
`BatchWrite` is `batchwrite` in full. A view is open, closed, or stamped
(`setbestblock` was called after the last change): `connecttip` and
`disconnecttip` flush only stamped views. The database write is one LevelDB
batch, the one fact that is taken from outside the repository.

### BlockDownload

A handler is one action. Peers are free: any message at any time while
connected. Time is relative and in the unit of `getblocktimeout`: each request
carries what is left of it, a stalling peer how long it has been stalling.
`FindNextBlocksToDownload` is the walk towards the peer's best block, as sets:
what lies in the window, what is missing, what is fetched, how far the walk got.
Conditions on block timestamps are free Boolean inputs. The active chain is
taken to be the complete chain with the most work, which is what `BlockTree`
checks.

### Mempool and TxRelay

A transaction is its set of inputs and its number of outputs. `connecttip` and
`disconnecttip` deal with a block's transactions one at a time, and the pool's
own lock is free in between, so each is a step; `handler` and `todo` say how far
it got, and no other handler runs meanwhile. Standardness, fees, finality and
scripts depend on time and settings, and are a free verdict (`policy`). `Family`
is the recursive `remove`, as the least set closed under `mapnexttx`. `TxRelay`
adds the tx message: `work` is `vworkqueue`, `trying` the orphans of the entry
being looked at, `erase` is `verasequeue`.

### BlockUndo and FlushState

`BlockUndo` has no state: `ConnectCoins` and `DisconnectCoins` run
`updatecoins` and `applytxinundo` over a block's transactions, on `ccoins` with
null outputs, dropped trailing outputs and unspendable ones. A loop is a recursive
function from the number of turns to the state after them. That a transaction may not
overwrite coins which are not spent (bip30) is part of `ConnectCoins`; the two historic
blocks which are exempt from it are not. `FlushState` has
memory, page cache and disk as separate variables. A crash of the process
(`Restart`) keeps the page cache, one of the machine (`PowerFailure`) may lose
what was not committed, file by file, and the last coin batches, which are not
written synchronously; `lost` is a history variable, the blocks in the index
whose undo data it changed. Positions in files are counted in records. Blocks are
connected and disconnected in any order the tree allows; which one is next is
`BlockTree`'s business. Writes can fail. A failing database write has an action of
its own, since the code goes on (to its shutdown flush) with dirty sets or a cache
that it has already emptied. For the files the fault is a parameter: a failing
`writeblocktodisk` aborts the node and still marks the block as stored, one that
throws (`AcceptBlockFails`) and a failing undo write (`ConnectTipFails`) leave a
place in the file taken and unused, and a failing commit is not noticed. `failed`
is a history variable, the kinds of writes that have failed.

### Net

`node` maps a `cnode` object to its fields; an object is used again once it was
deleted and no thread points to it. A critical section of `cs_vnodes` is a step.
The socket thread's pass is several, because an opener stores to
`grantoutbound`, `fnetworknode` and `nrefcount` without that lock. `nrefcount++`
in `connectnode` is a load and a store. A `csemaphoregrant` has no lock: its
`release()` is a test, a post and a store, each a step of its own, in the socket
thread (`Disconnect`, `SocketPost`, `SocketClear`) and inside `moveto()` (`MoveTo`,
`MoveToPost`, `MoveToClear`, then `MoveToStore`). An opener may have been called
without a grant (`Ungranted`: `-connect`, and the RPC's `onetry`). What peers send is
reduced to `fdisconnect`, which can be set at any time. History variables: `shared`,
the nodes that a second opener took over, `raced`, how often a thread found a grant
that another one was releasing, and the field `ungranted` of a node.

### AddrMan

`mapaddr` and `mapinfo` are functions over network addresses and ids, tables map slots
to ids. Ids are 1, 2, ... between operations: they are only compared and ordered, so
`Compact` renumbers them, in their order, after each. Which slot an address has is a constant function, as the key is drawn once.
Tests that depend on time or chance (`isterrible`, new information, the test that
makes a further reference less likely) are free choices. `SwapRandom`, `Delete`,
`ClearNew`, `MakeTried` and `Evict` are the functions of the same names;
`Serialized` and `Unserialized` are the two halves of `peers.dat`, including the
renumbering of entries (`Rank` is the number of an entry in the file), the re-counting
of references and the final pruning, for a file whose new table can be used and one whose
cannot. A file that is missing or fails its checksum, for which `caddrdb::read` gives up,
is not modelled. Loops are recursive functions, as in `BlockUndo`.

### Scheduler

One action is one critical section of `newtaskmutex`. `notices` are `notify_one`
calls between the unlock of `schedule()` and their effect, which falls on any
sleeper; a task that schedules another is not done before its own call is
(`NotifyNext`). The time-limited wait returns by time-out or by notification, and the
code runs `begin()` only after a time-out. A throwing task or an interruption
goes through the handler, which decrements `nthreadsservicingqueue` without the
lock: `seen` holds the value a thread has read. Tasks can schedule tasks, and
themselves for ever (`repeat`).

## 3. The runs

| Run | Instance | States | Shows |
|---|---|---|---|
| `checkqueue` | 2 workers, 3 checks, 1 bad, batch 2 | 25 070 | counters, verdict, refinement of `CheckResult`, the master returns |
| `blocktree_fork` | branches of 2 and 3 blocks, 2 threads, one block rejected on arrival and one on connection, 1 restart | 32 264 | `checkblockindex`, best chain, stable keys, every activation ends |
| `blocktree_rpc` | even branches, 2 threads, a corrupt block, 1 invalidate, 1 reconsider, 1 pruned file | 958 502 | nothing that a check rejected is ever active; candidates are linked; the best chain wins |
| `coinscache` | 2 txids, 2 values, 2 hashes | 45 758 | flags, accounting, refinement of `UtxoSet` |
| `blockdownload` | 2 peers, chain of 2 over a window of 1, 2 connections | 188 800 | both views of the blocks in flight agree, counters, no hole below the common block |
| `blockdownload_live` | 2 peers, 1 block in transit each, an invalid block | 87 685 | every request ends |
| `txrelay` | 6 loose transactions, 3 branches, 2 peers, 2 orphans | 10 055 | both maps exact, everything spendable and mature, losses justified, orphans resolved |
| `flushstate` | 3 blocks on 2 branches, 2 files of 2 blocks, 2 crashes or failing writes, 1 of them of a file | 1 677 343 | index backed by data, chainstate not ahead of the index, coins exact, tip can be undone |
| `net` | 2 objects, 2 openers (one by name, with and without a grant), 2 outbound slots, 1 inbound, 1 race | 1 199 930 | borrowed nodes live, slots bounded, the pool drains |
| `net_leak` | the same | violation | the finding |
| `addrman` | 4 services on 3 addresses, 3 sources, 3x2 new and 1x2 tried slots | 5 509 | `check_()`, demotion before oblivion, restart |
| `scheduler` | up to 2 service threads, 3 tasks, one that schedules another and one that repeats | 179 425 | drain, counter, no early run, tasks run, threads end |

**Bounds and why they are enough.** They are chosen so that the interesting
case happens, and each mutant shows that it does. Three checks and two workers
allow a worker with a stale `fok`, one asleep and a batch in the master's hands.
Five or six blocks give a reorganisation of depth two with a bad block in the
middle, blocks that arrive before their parents, ties of equal work, and a
second thread between every two steps. One pruned file with `KeepBlocks` 1
allows a branch that leaves below what is kept; the block that outweighs two
makes a switch with a single block possible. Window 1 over a chain of two
makes one peer stall another. Two connections allow a peer to be replaced while
it owes blocks. The transactions include a double spend, a child of each side,
a grandchild with two parents in the pool, and a coinbase spend; the branches
confirm one side, the other, and all of a chain in one block. The orphan limit is
2, so eviction happens. Two files of two blocks make three blocks leave a file;
two faults are a crash and another one in the middle of the recovery, or a failing
write and the crash after it. One object more than a thread can hold lets a
connection be replaced while the old one is in the pool, and two openers meet at
one destination. Six new slots for four services make collisions happen, two tried
slots make an eviction. Two service threads are needed for a notification to go
to the wrong one. Counters that would grow without end (restarts,
invalidations, connections, pruned files) have a named bound in the guard of
their action. `MaxFileFaults` bounds the failing writes of files apart from the other
faults. After `MaxRaces` races at a grant `Net` opens no further connection: what follows
a race is not claimed anyway, and the semaphore would grow without end.

**Deadlock** is checked everywhere except in `blocktree_rpc`, where the node may
really stop (`abortnode` after a missing block), and in `scheduler`, whose threads
end.

**Fairness.** `CheckQueue`: weak fairness of each thread's own step. The mutex is
released at every unlock and wait, and `connectblock` always reaches
`control.wait()` or the destructor. Wake-ups are not fair: only notifications
are relied on. `BlockTree`: weak fairness of `activatebestchain` in each thread;
it is a loop without blocking except on `cs_main`. `BlockDownload`: the clock
advances, the message handler returns to a peer that is overdue
(`threadmessagehandler` visits every node), and the socket handler deletes nodes
that are marked. No peer is assumed to do anything. `Scheduler`: threads that can run do, tasks
return, a notification has its effect, an interruption is noticed at the next
wait, time passes; spurious wake-ups, calls of `schedule()` and `stop()` and
exceptions are not assumed. `Net`: the socket thread goes on, and the message
thread, done with its nodes, gets `cs_vnodes` in the end (strong fairness: the
socket thread gives the lock up for `select()` in every round); no opener is
assumed to go on.

## 4. Findings and observations

The run `net_leak` must be violated. An outbound node is in `vnodes`
(`net.cpp:396`) before `opennetworkconnection` sets `fnetworknode` (1425). If it
is disconnected in between, `threadsockethandler` does not release the reference
of its creation (745): it stays in `vnodesdisconnected` for ever, although that
pool is to hold nodes "until all refs are released" (744); a grant that is moved
to it afterwards is never given back.

Earlier runs and counterexamples that TLC gave while the properties were being
stated showed the following. They have no run of their own and explain
conditions in the properties.

Block index:
- `main.cpp:2573`. A block received while its parent is invalidated is not put in
  `mapblocksunlinked`. When the missing ancestor comes it is never linked, contrary
  to the assertion at 3603. `CheckBlockIndex` is therefore checked without operator
  commands.
- `main.cpp:2491`. `reconsiderblock` on a descendant clears the flags of the
  invalidated ancestor and does not make it a candidate: the better chain stays
  inactive, while the help text promises to undo `invalidateblock`
  (`rpcblockchain.cpp:687`). Hence `BestChainUntilReconsider`.
- `main.cpp:2346`. A `connecttip` failure with `corruptionpossible()` neither marks
  the block nor removes it, and `activatebestchain` tries it for ever. Hence
  `ActivationEnds` is checked without a corrupt block.
- A block whose parent is pruned is not always in `mapblocksunlinked` (3013 against
  3603); `reconsiderblock` can leave `block_failed_child` on a sibling branch (2491
  against 3614); after a failed reorganisation the tip is not a candidate until the
  lock is taken again (2390 against 3620, hence `Quiet`); after a restart a
  pruned block can be in `mapblocksunlinked` (3179 against 3647).
- `main.cpp:2450`. `invalidateblock` on a block below pruned ones sets its flags and
  takes blocks off the candidates, and then returns when `disconnecttip` cannot read
  a block. `abortnode` stops the node, but until then, and in what the shutdown
  saves, failed blocks are in `chainactive`; `verifydb` then refuses to start. Hence
  the exception in `ActiveChainValid`.

Block download: `main.cpp:291`. `finalizenode` does not give back the peer's share
of `nqueuedvalidatedheaders`, the "number of blocks in flight with validated
headers" (164); every such disconnect lengthens later timeouts. Hence
`GlobalCountersSound` bounds that counter from below only.

State flushing:
- `acceptblock` calls `abortnode` when `writeblocktodisk` fails, and goes on (2894 to
  2896): `receivedblocktransactions` sets `block_have_data`, and the flush of the
  shutdown stores an index entry with nothing behind it. The results of `fclose` and
  `filecommit` in `flushblockfile` are not looked at either. Hence `IndexIsBacked`
  holds until a write or a commit of a block or undo file fails, and not only until a
  crash.
- The dirty sets are emptied before `writebatchsync` (2035, 2041). If it fails,
  `abortnode` leads to a shutdown whose full flush writes the coins without the
  index entries they refer to, although "this can only be done if the blocks /
  block index write was also done" (2052).
- `batchwrite` (`txdb.cpp:71`) erases the cache before the batch is written. If that
  fails, the view shows old coins under a new best block, and the flush at shutdown
  may store exactly that, although `getbestblock` is "the block hash whose state
  this ccoinsview currently represents" (`coins.h`). Hence `failed = {}` in
  `TipCanBeUndone`.
- `flushblockfile` commits only the files of `nlastblockfile` (1690). Undo data of
  blocks in an older file, which is written when they are connected later, is not
  committed before the index refers to it, although "all block and undo data is
  flushed" (2027). A process crash does not show it, a power failure may. What is
  then read in its place can be an older record of a sibling, which has the same
  parent: the checksum of an undo record covers the parent's hash and not the block's
  own (1542), so it passes, and `disconnectblock` restores the wrong coins. Hence
  `lost`, the blocks whose undo data a power failure changed.

Connections:
- `csemaphoregrant::release` (`sync.h:235`) tests `fhavegrant`, posts and clears it
  without a lock. TLC gives a case in which a slot is posted twice: two openers meet
  at one node, the second one moves its grant to it, the peer closes, and the socket
  thread (`net.cpp:739`) and the `moveto` of the first opener (1424) both find the
  grant before either has cleared it. One connection more than
  `max_outbound_connections` is possible then, for good. Hence `raced = 0` in
  `SlotsBounded`.
- `findnode` returns a pointer after it has released `cs_vnodes`; a second
  opener then increments `nrefcount` without the lock (372). That reference is never
  released, and a lost update can make the count too small, so that a node in use is
  deleted. `BorrowedIsLive` excludes such nodes. `rpcnet.cpp:230` and 521 use such
  pointers too.

Scheduler: a task of `scheduleevery` schedules itself again "forever" (`scheduler.h`),
so that `stop(true)` with one of them never empties the queue and the threads never
leave; `ThreadsEnd` says so. The node interrupts its threads instead, which ends them.
With several service threads a time-out meant for one task may find
another at the front, taken and replaced meanwhile, and run it before its time
("call func at/after time t", `scheduler.h`). The node starts one thread, for which
`NeverEarlyAlone` holds; the unit test starts ten.

Memory pool: a transaction that is not final any more after a reorganisation stays
in the pool, because finality is tested on acceptance only; an orphan sent again
directly, and accepted, stays in the orphan map until it is evicted or its peer
leaves.

## 5. Properties by component

- **CheckQueue.** `ControlFindsQueueIdle` is the assertion of the control
  object. `WaitIsSound`: the answer is about exactly the checks added, all of
  them done. `ImplementsCheckResult`: the queue is one atomic verdict.
  `MasterReturns`: no lost wake-up.
- **BlockTree.** `BestChainActive` is the promise of `activatebestchain`,
  for any interleaving of calls. `CheckBlockIndex` are the assertions of
  `checkblockindex` on the flags, the links, the candidates and the unlinked blocks,
  with the states in which each of them holds (its comment lists what is left out),
  `CandidatesLinked` those of `findmostworkchain`. `ActiveChainValid`: no rejected
  block is active, in the middle of a reorganisation either, but for what an
  `invalidateblock` that fails at a pruned block leaves. `KeysStable` protects the ordered set; `ActivationEnds` is
  termination.
- **CoinsCache.** `FlagsTellTheTruth`, `UsageExact`, `ImplementsUtxoSet`.
- **BlockDownload.** `InFlightExact`, `StallerOwes`, `GlobalCountersSound`,
  `CommonIsComplete`, `RequestEnds`.
- **Mempool, TxRelay.** `NextTxExact`, `PoolSpendable` (what `ctxmempool::check`
  asserts), `PoolMature`, `PoolUnconfirmed`, `LossJustified`, `OrphansIndexed`,
  `OrphansResolved`.
- **FlushState.** `IndexIsBacked`: what the index database says of blocks, and of undo
  data in the last file, is in the files on the disk, after any crash and until a write
  or commit of a file fails. `ChainstateIsSound`: the index database has all ancestors of the stored
  best block, with data and undo data, until a write of the index fails.
  `TipCanBeUndone`: while no write has failed and no undo data was lost, the coins in
  memory and in the database are those of their best blocks, and undo data can be
  read, fits, and `disconnectblock` is the inverse of `connectblock`.
- **Net.** `BorrowedIsLive`: no use after deletion, by the threads that borrow nodes and
  by the opener. `SlotsBounded`: the limit on outbound connections, until two threads
  meet at one grant. `PoolDrains`: nodes are deleted in the end.
- **AddrMan.** `ChecksOut` is `check_()` with the asserts. `TriedIsDemotedFirst`: a
  tried address goes back to the new table before it can be forgotten.
  `RestartKeepsTables`: both tables survive `peers.dat`.
- **Scheduler.** `DrainLeavesNothing`, `CounterExact`, `NeverEarlyAlone`,
  `TasksRun`, `ThreadsEnd`.

`TypeOK` and the lemma-like properties that theorems state (`FailureSticks`,
`MasterWaitsForSomeone`, `MoveUpIsFresh`, `OrphansBounded`) are not in a run of
their own.

## 6. Proofs

All proofs are for every value of the constants that satisfies the named
assumptions, so for any tree of blocks, any number of threads, peers, files,
transactions and faults. Each assumption stands in the module that declares the
constants and is evaluated by TLC in the runs. Besides what says only that
constants have their types they are:

- `TreeAssumption` (`HeaderTree`): going back from a block never returns to it and
  ends. A hash cannot be computed before the hash that it commits to.
- `ChainAssumption` (`Mempool`): the genesis block spends nothing from outside, and
  a branch has no coinbase twice. `contextualcheckblock` requires the height in the
  coinbase ("bad-cb-height", `main.cpp:2797`).
- `NetAssumption`: there are finitely many node objects and opening threads, without
  which a number of slots in use means nothing.
- `TransactionsAssumption` (`FlushState`): the first transaction of a block is its
  coinbase and the only one, no two have the same id, and outputs are not null, which
  `checkblock` and `checktransaction` test; the coins under the genesis block are as the
  database keeps them (no null at the end, not at height 0).
- `AddrManAssumption`: buckets and positions are finitely many numbers, the functions of
  the key go into them, and an address may be in at least one bucket.
- `CoinsAssumption`: the size of an entry is a natural number.
- `Zeros` (`FlushState`) is no block: the hash that a place of a file which was never
  written is read as.

**Recursion over the tree.** The library's induction theorems cannot be used, as
the provers do not instantiate an operator parameter. `HeaderTreeProof` therefore
works with least counterexamples: `TreeAssumption` gives a lowest element of any
set of blocks, and applied to the set of blocks for which a claim fails it yields
the claim. In this way it shows that `Ancestors`, `Height` and `ChainWork` satisfy their
recursive equations (`TreeRecursion`), that ancestors are ordered by height and a
branch has one block for each height (`AncestorAt`, `Ranks`), and that the highest
and lowest element of a set on a branch exist (`HighestIn`, `LowestIn`). The modules below
extend it.

**ThreadsProof, script-check queue.** `Inv` ties counters to what they count: `ntodo` is the
number of checks queued or in a batch, `ntotal` is `nidle` plus the threads at
work, `nidle` is at least the threads asleep (interruptions leak it), and `fallok`
is the verdict on the checks that are done. The properties alone are not
inductive: that the master's answer is right needs that no check is in two
places, and that a batch run with a stale `fok` cannot hide a failure needs
"`fok` false implies `fallok` false". `Mid` is the invariant between the two
halves of a critical section: three lemmas lead into it and three out of it,
instead of one for each of the nine combinations. Results: types, the control
assertion, soundness of `wait()`, no sleeping master without a worker at work,
failures stick, and the refinement of `CheckResult`.

**ThreadsProof, task scheduler.** `ServiceInv` has the types and four parts. `HandInv`:
a thread that runs has a task in hand, and a thread is done only
after a stop. `DrainLeavesNothing` is then inductive: the last thread to leave
saw an empty queue, and after the stop only a running task can insert. `CountInv` says
that the counter is the number of threads in `servicequeue()` as long as no thread is
on its way out through the unlocked decrement, or there is only one thread: its read and
its write of the counter then have nothing between them. `AloneInv`: the task for which a lone thread
waits stays queued, from which it follows that the first task is due when the wait
times out, even if it is another one by then.

**BlockTreeProof.** `TreeInv` is for every node: a linked block has linked
ancestors, candidates are linked, the active chain has nothing failed in it (unless
`invalidateblock` met a pruned block that it could not disconnect, section 4), its flags
are saved, and a thread that is switching holds the lock and goes to a candidate on a
branch without failures. It gives `ActiveChainValid` and `CandidatesLinked` with all operator
commands, pruning and restarts. `SelectInv` is about the choice of the chain. While
a thread is in `activatebestchain` the tip need not be the best, so `CoverInv` says
that every usable block is a candidate or beaten by one, `PendInv` that a thread is
still on its way when a candidate beats the tip, and `WaitInv` that a block which is
not linked waits in `mapblocksunlinked` for a parent. `ExactInv` adds what
`checkblockindex` asserts. The proof that the loop of `activatebestchain` ends at the
best chain needs that `cblockindexworkcomparator` is a strict total order, whatever
the sequence numbers are. These results have hypotheses, which are not convenience
but the limits of what the code keeps (section 4): `MaxPrune = 0`, as a pruned block
that is received again gets a new sequence number and may be in `mapblocksunlinked`
while it is linked; `MaxReconsider = 0` for `BestChainActive`, and
`MaxInvalidate = 0` in addition for `CheckBlockIndex`. The numbers of threads,
restarts and bad blocks are free. What pruning nodes choose is checked by TLC in
`blocktree_rpc`.

**CoinsCacheProof.** `Inv` adds to the flags' meaning that what the view has and
did not create is also in `pcoinstip`, and that the view holds no pruned fresh
entry. Without the first, the assertion in `batchwrite` could fail; without the
second, an entry could be ignored there that should not be. `UsageExact` is a sum
over a finite map; it is stated as the number of bytes the entries hold, and the
sum of disjoint parts follows from the cardinality of unions. Results: types,
flags, the assertion, the memory account, and the refinement of `UtxoSet`.

**BlockDownloadProof.** `DownloadInv` consists of the four safety properties with
types, of `PeersCounted` (whom the counters count) and of `QueuedCovers`: requests
with a validated header, over all peers, are finitely many and at most
`nqueuedvalidatedheaders`. That `CommonIsComplete` is inductive needs that the
active tip is complete, and that the walk of `findnextblockstodownload` stops at the
first hole, which is an argument about heights on one branch.

**TxRelayProof.** While a block is being processed the pool is not spendable, so
`Inv` says what is owed: an input that is neither made in the pool nor unspent
is spent by a transaction of the block still to come (connecting), or made by
one that is still to come back (disconnecting); and an output of a transaction to
come is unspent or spent by a later one. That the pool holds nothing confirmed or
immature is about the whole chain: `ChainInv` says that blocks of the active chain
share neither transactions nor inputs, and that what they spend is not unspent;
`MinedInv` and `MatureInv` name the moments in a handler at which the pool may be
wrong. `LossJustified` says that a recursive remove takes nothing too much. `Family` is the
least closed set with its roots, so what it takes is a root or spends an output of
something it takes; that this output is not unspent follows from `ChainInv`, except
while a block is connected: there `TodoInv` (the transactions still to come differ, spend
different outputs, and come after what they spend) shows that nothing of the block is
among the conflicts of another one of its transactions. The tx message, orphans included, takes only steps of `Mempool`
(`RelayImplementsPool`), so the pool's theorems carry over to the composition; the
orphan index is exact, the number of orphans bounded, and with `TriedInv` (an orphan
that could be accepted has a parent in the part of `vworkqueue` not yet visited)
none is left behind.

**FlushStateProof.** `FilesInv` holds until a file write or a commit has failed: then the
code marks a block whose data is not there (section 4), and only `PlaceInv` is left, that
memory has all entries of the database and no undo data without data. It says of
every index entry, in memory and in the database, where its data is: in the page cache below the size of its file, and on
the disk once the file was left (`Backed`) or once the entry is in the database
(`BackedOnDisk`). It is needed that sizes and last file of the database are never
ahead of memory, and that between `flushblockfile` and the index write the last file
is on the disk (`Ahead`): an entry is dirty only together with its file, whose size
goes into the same batch. `ChainInv` then carries the order of the stores: what
differs from the index database is dirty, nothing is dirty when the coins are
written, and the chains of the tip and of both versions of the stored coins are in
the index. The attempt to prove it for the coins as well showed that undo data
lost in a power failure matters beyond the block itself (section 4); the model has
the history variable `lost` since then. `UndoRestoresInput` is about the content:
for any coins without nulls at the end and above height 0, `applytxinundo` with the
record that `updatecoins` made is the inverse of the spend, also when the array of
outputs shrank in between or the whole entry went. `UndoRestoresBlock` is the same for a
whole block: if `connectblock` accepts it on some coins, the undo data fits its
transactions and `disconnectblock` gives back these coins and finds nothing unclean. Its
loops run forward over transactions and inputs, and backward; `LoopExists` shows once that
the recursive function of a loop exists, `Forward` and `Backward` carry a claim from one
turn to the next, by least counterexample. A step back meets the coins as they were after
the step forward, because no later transaction of the block has the same id and bip30
forbids an output to be made where unspent ones are. `TipAlwaysUndone` then needs two more
facts, `UndoInv`: the coins in memory, in the database and on the disk are those that their
best block's branch gives when it is connected from the start (`Replay`), and every undo
record that the index refers to is the one of its block on these coins (`Right`). Both hold
as long as no write has failed and no power failure has changed undo data, which is the
condition of `TipCanBeUndone`.

**PeersProof, connections.** `NetInv`: a node object is in `vnodes`, among the disconnected, in the
hands of the socket thread or of its opener, or deleted; and its `nrefcount` is the
number of threads that borrowed it, plus one before the disconnect, unless a second
opener took it over. `OwnInv` says of the node of an opener, as long as no other opener was
given it, that it is not marked as a network node: the disconnect then drops no
reference of its creation, and it is not deleted. `BorrowedIsLive` follows from both. For
`SlotsBounded`, `SlotInv` adds `GrantInv` (an opener that moves its grant has one) and `RaceInv`: until two threads meet at a grant, it is released by one
thread only, and only while the node has it. Without that the count is not
inductive, as the test, the post and the clear of `release` are steps of their own: a slot that
is posted and not yet cleared is free already and must not be counted again (`Occupying`).

**PeersProof, address manager.** `AddrManInv` is `Sound(am, 0, 0, {})` with `Dense`, the
ids being 1, 2, ... `Sound` says that the random vector and the positions in the entries
are inverse to each other (`VectorOk`), that the index finds exactly the entries
(`IndexOk`), that what a new slot refers to is an entry which belongs there, and that
`nrefcount` counts these slots (`NewTableOk`), that the tried table has exactly the tried
entries (`TriedTableOk`), what the counters count (`CountsOk`), and that every entry is
in a table (`HeldOk`). In the middle of an operation this is not so, and the parameters
say how far: by how much `nnew` and `ntried` are off, and which entries may be in neither
table. Each helper of the code has a lemma that takes one such state to another
(`SwapSound`, `DeleteSound`, `ClearNewSound`, `EvictSound`, ...), and the operations
are chains of these; that an eviction can delete a third entry, but never the one that is
being made tried, is in `MakeTriedSound`. Loops are handled by two lemmas, `LoopRuns` (the
recursive function exists) and `LoopKeeps` (what every turn keeps holds at the end). For
`peers.dat`, `RankFact` and `SlotRankFact` show that the n-th entry and the n-th occupied
slot exist and that their numbers are 1, 2, ... without gaps; `Loaded` and `Placed` say what
has been read after so many entries and places. The counters are read before the entries,
so they run ahead of them, which is what the parameters of `Sound` are for; every
place is free when its turn comes and its entry still has references left, and so nothing
is pruned (`ReadBack`, `ReloadSound`). Results: `ChecksOut`, `TriedIsDemotedFirst` and
`RestartKeepsTables`, the first two also for a file whose new table cannot be used.

**Model-checked only.** Liveness (`MasterReturns`, `ActivationEnds`, `RequestEnds`,
`PoolDrains`, `TasksRun`, `ThreadsEnd`) is outside what the prover handles, as is
`ENABLED`. Chain choice on pruning nodes and after `reconsiderblock` is checked within the
conditions of the properties. Every safety property of the runs is also stated by a theorem,
those of `BlockTree` under the hypotheses named above.

## 7. Plan

Order, with the most important behaviour first. Done: 1 to 12.

1. `CheckQueue` with `CheckResult` and proofs.
2. `HeaderTree`, `BlockTree`.
3. `CoinsCache` with `UtxoSet` and proofs.
4. `BlockDownload`.
5. `Mempool`, `TxRelay` and proofs.
6. `Scheduler`.
7. `BlockUndo`, `FlushState`.
8. `AddrMan`.
9. `Net`: life cycle of a `cnode`.
10. Proofs: the block tree, block download, state flushing, connections, the rest of
    the pool, the memory account of the coin cache.
11. Proofs: the task scheduler, what leaves the pool, the undo record of an input.
12. Proofs: `AddrMan` and whole blocks of undo data, with the loops of `BlockUndo` and
    `AddrMan` as recursive functions.
13. `askfor` with its bounded map; fee bookkeeping; retargeting on a small width;
    partial merkle trees against a reference.

## 8. What is not modelled

Within the modelled components: disk and database errors, which stop the node, except
in `FlushState`;
`pindexbestinvalid`, `pindexbestheader` and notifications, which feed nothing
back; import and reindex; blocks that whitelisted peers send unasked;
misbehaviour scores in block download; send and receive buffers, bans and
`mapaskfor` in `Net`; the transaction index and blocks imported at a known
position in `FlushState`; `prioritisetransaction`, which only
changes a verdict that is free anyway; `clear` of the pool and `totaltxsize`.

The `.ts` files of the repository (`qt/locale/`) are translation tables of the
graphical interface in XML: data without behaviour, of which nothing can be
modelled. All that is modelled is in the C++ sources.

Components: the script interpreter and signatures (a pure evaluator over byte
strings; its verdict is a constant or a free input), 256-bit arithmetic, the
wallet, RPC and REST (parsing and formatting around modelled calls), start-up
options, the graphical interface, serialisation, hashing, keys and utilities,
and the vendored LevelDB, secp256k1 and UniValue. `PROJECT.json` gives the reason
for each.
