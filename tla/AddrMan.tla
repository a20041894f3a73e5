------------------------------ MODULE AddrMan -------------------------------
(***************************************************************************)
(* The address manager of addrman.h and addrman.cpp: known peers, each      *)
(* either in up to a few slots of the "new" buckets or in one slot of the   *)
(* "tried" buckets, an index by network address, and a vector in random     *)
(* order.  All operations hold cs, so each is one step; what is hard is     *)
(* that they evict, demote and delete each other's entries and have to      *)
(* leave six structures agreeing.                                           *)
(*                                                                          *)
(* The state is one record; an operation is an operator from states to      *)
(* states, written along the code, in which a failing assert clears ok.     *)
(* Times and attempt counts decide only how good an entry is, so            *)
(* isterrible(), "no new information" and the stochastic test are free      *)
(* choices, and attempt_, connected_ and select_ change nothing here.       *)
(* Ids are numbers from 1; 0 stands for -1, no entry.                       *)
(***************************************************************************)
EXTENDS Integers, SequencesExt

CONSTANTS
  CService,     \* addresses with port
  NetAddr,      \* the network address (cnetaddr) of each of them
  Source,       \* where an address may be heard of
  Heard,        \* the bound on which service is heard of from where
  NewBuckets, TriedBuckets, Positions,   \* the numbers of the buckets and in a bucket
  GetNewBucket,     \* [CService \X Source -> NewBuckets]
  NewPosition,      \* getbucketposition(nkey, true, b): [CService \X NewBuckets -> Positions]
  GetTriedBucket,   \* [CService -> TriedBuckets]
  TriedPosition,    \* getbucketposition(nkey, false, b) of its tried bucket
  BucketsPerAddress,  \* addrman_new_buckets_per_address
  MaxPct, MaxAddr     \* addrman_getaddr_max_pct, addrman_getaddr_max

Nets == {NetAddr[s] : s \in CService}

ASSUME AddrManAssumption ==
  /\ Heard \subseteq CService \X Source
  /\ NewBuckets \subseteq Nat /\ TriedBuckets \subseteq Nat /\ Positions \subseteq Nat
  /\ IsFiniteSet(NewBuckets) /\ IsFiniteSet(TriedBuckets) /\ IsFiniteSet(Positions)
  /\ GetNewBucket \in [CService \X Source -> NewBuckets]
  /\ NewPosition \in [CService \X NewBuckets -> Positions]
  /\ GetTriedBucket \in [CService -> TriedBuckets]
  /\ TriedPosition \in [CService -> Positions]
  /\ BucketsPerAddress \in Nat \ {0}
  /\ MaxPct \in 0..100
  /\ MaxAddr \in Nat

VARIABLE am

NewSlots == NewBuckets \X Positions
TriedSlots == TriedBuckets \X Positions

\* clear()
Empty ==
  [info    |-> <<>>,                                     \* mapinfo
   mapaddr |-> [n \in Nets |-> 0],
   vrandom |-> <<>>,
   vvnew   |-> [slot \in NewSlots |-> 0],
   vvtried |-> [slot \in TriedSlots |-> 0],
   nnew    |-> 0,
   ntried  |-> 0,
   ok      |-> TRUE]                                     \* no assert has failed

Failed(a) == [a EXCEPT !.ok = FALSE]
Without(f, id) == [x \in DOMAIN f \ {id} |-> f[x]]
WithInfo(f, id, entry) == [x \in DOMAIN f \cup {id} |-> IF x = id THEN entry ELSE f[x]]

NewSlot(s, b) == <<b, NewPosition[s, b]>>
TriedSlot(s) == <<GetTriedBucket[s], TriedPosition[s]>>

\* The place of a number among those of a finite set, and the one in a place.
Rank(S, x) == Cardinality({y \in S : y <= x})
Nth(S, n) == CHOOSE x \in S : Rank(S, x) = n

\* Ids are only compared and ordered, so between operations they are 1, 2, ...
\* in the order of their creation; a new entry gets the next one (nidcount).
NextId(a) == Cardinality(DOMAIN a.info) + 1
Compact(a) ==
  LET rank(id) == IF id = 0 THEN 0
                  ELSE IF id \in DOMAIN a.info THEN Rank(DOMAIN a.info, id)
                  ELSE -1                               \* dangling
      renamed(f) == [x \in DOMAIN f |-> rank(f[x])]
  IN  [a EXCEPT !.info = [n \in 1..Cardinality(DOMAIN @) |-> @[Nth(DOMAIN @, n)]],
                !.mapaddr = renamed(@), !.vrandom = renamed(@),
                !.vvnew = renamed(@), !.vvtried = renamed(@)]

-----------------------------------------------------------------------------
Create(a, id, s, src) ==
  [a EXCEPT
     !.info = WithInfo(@, id, [svc |-> s, src |-> src, nrefcount |-> 0,
                               fintried |-> FALSE, pos |-> Len(a.vrandom) + 1]),
     !.mapaddr[NetAddr[s]] = id,
     !.vrandom = Append(@, id)]

\* Mutant: the positions kept in the entries are not swapped.
SwapVectorOnly(a, i, j) ==
  IF i = j THEN a
  ELSE [a EXCEPT !.vrandom[i] = a.vrandom[j], !.vrandom[j] = a.vrandom[i]]

SwapRandom(a, i, j) ==
  IF i = j THEN a
  ELSE IF ~ /\ {i, j} \subseteq DOMAIN a.vrandom
            /\ {a.vrandom[i], a.vrandom[j]} \subseteq DOMAIN a.info
  THEN Failed(a)
  ELSE [a EXCEPT !.info[a.vrandom[i]].pos = j,
                 !.info[a.vrandom[j]].pos = i,
                 !.vrandom[i] = a.vrandom[j],
                 !.vrandom[j] = a.vrandom[i]]

Delete(a, id) ==
  IF ~ /\ id \in DOMAIN a.info
       /\ ~a.info[id].fintried
       /\ a.info[id].nrefcount = 0
  THEN Failed(a)
  ELSE LET swapped == SwapRandom(a, a.info[id].pos, Len(a.vrandom))
       IN  [swapped EXCEPT !.vrandom = Front(@),
                           !.mapaddr[NetAddr[a.info[id].svc]] = 0,
                           !.info = Without(@, id),
                           !.nnew = @ - 1]

ClearNew(a, slot) ==
  LET id == a.vvnew[slot]
      cleared == [a EXCEPT !.info[id].nrefcount = @ - 1, !.vvnew[slot] = 0]
  IN  IF id = 0 THEN a
      ELSE IF id \notin DOMAIN a.info \/ a.info[id].nrefcount <= 0 THEN Failed(a)
      ELSE IF cleared.info[id].nrefcount = 0 THEN Delete(cleared, id)
      ELSE cleared

\* The buckets of the new table that hold an entry.
BucketsOf(a, id) == {b \in NewBuckets : a.vvnew[NewSlot(a.info[id].svc, b)] = id}

\* Mutant: an evicted entry is dropped instead of moved back to the new table.
EvictForgotten(a, slot) ==
  LET id == a.vvtried[slot]
  IN  IF id = 0 THEN a
      ELSE [Delete([a EXCEPT !.info[id].fintried = FALSE,
                             !.vvtried[slot] = 0,
                             !.ntried = @ - 1], id) EXCEPT !.nnew = @ + 1]

\* One more reference of an entry, from a free place of the new table.
Refer(a, id, slot) == [a EXCEPT !.info[id].nrefcount = @ + 1, !.vvnew[slot] = id]

\* Make space in a tried slot: the entry there goes back to the new table, and
\* whatever is in its place there is removed.
Evict(a, slot) ==
  LET id == a.vvtried[slot]
      untried == [a EXCEPT !.info[id].fintried = FALSE,
                           !.vvtried[slot] = 0,
                           !.ntried = @ - 1]
      newslot == NewSlot(a.info[id].svc, GetNewBucket[a.info[id].svc, a.info[id].src])
      cleared == ClearNew(untried, newslot)
  IN  IF id = 0 THEN a
      ELSE IF id \notin DOMAIN a.info \/ cleared.vvnew[newslot] # 0 THEN Failed(a)
      ELSE [cleared EXCEPT !.info[id].nrefcount = 1,
                           !.vvnew[newslot] = id,
                           !.nnew = @ + 1]

MakeTried(a, id) ==
  LET s    == a.info[id].svc
      left == {NewSlot(s, b) : b \in BucketsOf(a, id)}
      out  == [a EXCEPT !.vvnew = [slot \in DOMAIN @ |-> IF slot \in left THEN 0 ELSE @[slot]],
                        !.info[id].nrefcount = @ - Cardinality(left),
                        !.nnew = @ - 1]
      free == Evict(out, TriedSlot(s))
  IN  IF out.info[id].nrefcount # 0 THEN Failed(a)
      ELSE [free EXCEPT !.vvtried[TriedSlot(s)] = id,
                        !.ntried = @ + 1,
                        !.info[id].fintried = TRUE]

\* good_: an entry is found by network address and has to have the same port.
Good(a, s) ==
  LET id == a.mapaddr[NetAddr[s]]
  IN  IF \/ id = 0
         \/ a.info[id].svc # s
         \/ a.info[id].fintried
         \/ BucketsOf(a, id) = {}
      THEN a
      ELSE MakeTried(a, id)

\* The second half of add_: find a place for entry id.
Place(a, id, slot, terrible) ==
  LET there == a.vvnew[slot]
      insert == \/ there = 0
                \/ terrible
                \/ a.info[there].nrefcount > 1 /\ a.info[id].nrefcount = 0
      cleared == ClearNew(a, slot)
  IN  IF there = id THEN a
      ELSE IF insert THEN Refer(cleared, id, slot)
      ELSE IF a.info[id].nrefcount = 0 THEN Delete(a, id)
      ELSE a

\* add_(addr, source): news says that the address comes with newer information
\* and passes the stochastic test, terrible is the state of the entry in its place.
Add(a, s, src, news, terrible) ==
  LET id   == a.mapaddr[NetAddr[s]]
      new  == NextId(a)
      slot == LET t == IF id = 0 THEN s ELSE a.info[id].svc
              IN  NewSlot(t, GetNewBucket[t, src])
  IN  IF id = 0
      THEN Place([Create(a, new, s, src) EXCEPT !.nnew = @ + 1], new, slot, terrible)
      ELSE IF \/ ~news
              \/ a.info[id].fintried
              \/ a.info[id].nrefcount = BucketsPerAddress
      THEN a
      ELSE Place(a, id, slot, terrible)

\* getaddr_: one random swap per entry looked at.  The loop looks at enough
\* entries to find nnodes that are not terrible, at most at all of them.
Looks(a) ==
  LET nnodes == Min({(MaxPct * Len(a.vrandom)) \div 100, MaxAddr})
  IN  IF nnodes = 0 THEN {0} ELSE nnodes..Len(a.vrandom)

GetAddr(a, rnd) ==
  LET after[i \in 0..Len(rnd)] == IF i = 0 THEN a ELSE SwapRandom(after[i - 1], i, rnd[i])
  IN  after[Len(rnd)]

-----------------------------------------------------------------------------
\* Occupied places of the new table in the order of the file, bucket by bucket.
SlotsUpTo(used, x) == {y \in used : y[1] < x[1] \/ (y[1] = x[1] /\ y[2] <= x[2])}
NthSlot(used, n) == CHOOSE x \in used : Cardinality(SlotsUpTo(used, x)) = n

\* serialize(): entries with a reference, then the tried ones, both by id, and
\* for every new bucket the numbers of its entries.
Serialized(a) ==
  LET new   == {id \in DOMAIN a.info : a.info[id].nrefcount # 0}
      tried == {id \in DOMAIN a.info : a.info[id].fintried}
      used  == {slot \in DOMAIN a.vvnew : a.vvnew[slot] # 0}
      saved(ids) == [n \in 1..Cardinality(ids) |-> [svc |-> a.info[Nth(ids, n)].svc,
                                                    src |-> a.info[Nth(ids, n)].src]]
  IN  [nnew |-> a.nnew, ntried |-> a.ntried, new |-> saved(new), tried |-> saved(tried),
       bucket |-> [n \in 1..Cardinality(used) |->
                     [b     |-> NthSlot(used, n)[1],
                      index |-> Rank(new, a.vvnew[NthSlot(used, n)])]]]

\* A new entry of the file; if the new table of the file cannot be used (other
\* version or bucket count) it gets a place by its source, if that is free.
LoadNew(a, entry, usable) ==
  LET id   == Len(a.vrandom) + 1
      slot == NewSlot(entry.svc, GetNewBucket[entry.svc, entry.src])
      made == Create(a, id, entry.svc, entry.src)
  IN  IF ~usable /\ a.vvnew[slot] = 0
      THEN Refer(made, id, slot)
      ELSE made
LoadNewEntries(a, entries, usable) ==
  LET after[k \in 0..Len(entries)] ==
        IF k = 0 THEN a ELSE LoadNew(after[k - 1], entries[k], usable)
  IN  after[Len(entries)]

\* A tried entry of the file, lost if its place is taken.
LoadTried(a, entry) ==
  LET id == Len(a.vrandom) + 1
  IN  IF a.vvtried[TriedSlot(entry.svc)] = 0
      THEN [Create(a, id, entry.svc, entry.src) EXCEPT
              !.info[id].fintried = TRUE, !.vvtried[TriedSlot(entry.svc)] = id]
      ELSE [a EXCEPT !.ntried = @ - 1]
LoadTriedEntries(a, entries) ==
  LET after[k \in 0..Len(entries)] == IF k = 0 THEN a ELSE LoadTried(after[k - 1], entries[k])
  IN  after[Len(entries)]

\* Mutant: only the first place of an entry is restored.
LoadPlaceOnce(a, place) ==
  LET slot == NewSlot(a.info[place.index].svc, place.b)
  IN  IF a.vvnew[slot] = 0 /\ a.info[place.index].nrefcount = 0
      THEN Refer(a, place.index, slot)
      ELSE a

\* A place in the new table.
LoadPlace(a, place) ==
  LET slot == NewSlot(a.info[place.index].svc, place.b)
  IN  IF /\ place.index \in 1..a.nnew
         /\ a.vvnew[slot] = 0
         /\ a.info[place.index].nrefcount < BucketsPerAddress
      THEN Refer(a, place.index, slot)
      ELSE a
LoadPlaces(a, places) ==
  LET after[k \in 0..Len(places)] == IF k = 0 THEN a ELSE LoadPlace(after[k - 1], places[k])
  IN  after[Len(places)]

\* Entries without a place are deleted, by id.
Prune(a) ==
  LET lost == {id \in DOMAIN a.info : ~a.info[id].fintried /\ a.info[id].nrefcount = 0}
      after[k \in 0..Cardinality(lost)] ==
        IF k = 0 THEN a ELSE Delete(after[k - 1], Nth(lost, k))
  IN  after[Cardinality(lost)]

\* unserialize() into a fresh object.
Unserialized(file, usable) ==
  LET start  == [Empty EXCEPT !.nnew = file.nnew, !.ntried = file.ntried]
      tried  == LoadTriedEntries(LoadNewEntries(start, file.new, usable), file.tried)
  IN  Prune(IF usable THEN LoadPlaces(tried, file.bucket) ELSE tried)

-----------------------------------------------------------------------------
AddrManInit == am = Empty

AddStep == \E h \in Heard, news, terrible \in BOOLEAN :
             am' = Compact(Add(am, h[1], h[2], news, terrible))
GoodStep == \E s \in CService : am' = Compact(Good(am, s))
GetAddrStep == \E n \in Looks(am) :
                 \E rnd \in [1..n -> DOMAIN am.vrandom] :
                   /\ \A i \in 1..n : rnd[i] >= i
                   /\ am' = GetAddr(am, rnd)
\* dumpaddresses, and the next start of the node reads the file.
Reload(usable) == am' = Compact(Unserialized(Serialized(am), usable))
ReloadStep == \E usable \in BOOLEAN : Reload(usable)

AddrManNext == AddStep \/ GoodStep \/ GetAddrStep \/ ReloadStep

AddrManSpec == AddrManInit /\ [][AddrManNext]_am

-----------------------------------------------------------------------------
InTried(a) == {a.info[id].svc : id \in {i \in DOMAIN a.info : a.info[i].fintried}}
NewTable(a) == [slot \in NewSlots |-> IF a.vvnew[slot] = 0 THEN {}
                                       ELSE {a.info[a.vvnew[slot]].svc}]

\* caddrman::check_() (addrman.cpp:372, built with debug_addrman) returns 0 and
\* none of the asserts of the operations has failed: counters, random order,
\* address index, reference counts and both tables describe the same entries.
ChecksOut ==
  LET info  == am.info
      tried == {id \in DOMAIN info : info[id].fintried}
      new   == DOMAIN info \ tried
      slots(table, id) == {slot \in DOMAIN table : table[slot] = id}
  IN  /\ am.ok
      /\ Len(am.vrandom) = am.ntried + am.nnew                                 \* -7
      /\ Cardinality(tried) = am.ntried /\ Cardinality(new) = am.nnew          \* -9 -10
      /\ \A id \in DOMAIN info : /\ am.mapaddr[NetAddr[info[id].svc]] = id         \* -5
                                 /\ info[id].pos \in DOMAIN am.vrandom
                                 /\ am.vrandom[info[id].pos] = id             \* -14
      /\ \A id \in tried : /\ info[id].nrefcount = 0                          \* -2
                           /\ slots(am.vvtried, id) = {TriedSlot(info[id].svc)} \* -13 -17 -18
      /\ \A id \in new : /\ info[id].nrefcount \in 1..BucketsPerAddress       \* -3 -4
                         /\ info[id].nrefcount = Cardinality(slots(am.vvnew, id)) \* -15
                         /\ \A slot \in slots(am.vvnew, id) :                 \* -19
                              slot = NewSlot(info[id].svc, slot[1])
      /\ \A slot \in TriedSlots : am.vvtried[slot] \in tried \cup {0}         \* -11
      /\ \A slot \in NewSlots : am.vvnew[slot] \in new \cup {0}               \* -12

\* "evicted from it, back to the new buckets" (addrman.h:123): an address that
\* once worked leaves the tried table only for the new table, whatever happens,
\* restarts included; it is never forgotten in the same step.
TriedIsDemotedFirst ==
  [][\A s \in InTried(am) : s \in InTried(am') \/ \E slot \in NewSlots : s \in NewTable(am')[slot]]_am

\* peers.dat stores neither the tried table nor the positions in the new table:
\* reading back what was written gives the same two tables, every reference of
\* every entry included.
RestartKeepsTables ==
  [][Reload(TRUE) => /\ InTried(am') = InTried(am)
                     /\ NewTable(am') = NewTable(am)]_am
=============================================================================
