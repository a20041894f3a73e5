------------------------------ MODULE PeersProof -----------------------------
(***************************************************************************)
(* Proofs about the peers of a node.                                       *)
(*                                                                         *)
(* Net, for any number of objects and of threads that open connections: no *)
(* thread works on a deleted node, and the connections are never more than *)
(* their slots.  NetInv says where objects are and who refers to them,     *)
(* OwnInv what an opener may rely on, SlotInv how grants are released.     *)
(*                                                                         *)
(* AddrMan, for any addresses, tables and bucket functions: its structures *)
(* agree between operations, an address that worked is demoted before it   *)
(* is forgotten, and a restart gives the same tables.  The invariant is    *)
(* Sound, with parameters for what is not yet right in the middle of an    *)
(* operation; the loops are followed by LoopRuns and LoopKeeps.            *)
(***************************************************************************)
EXTENDS Net, AddrMan, FunctionTheorems, FiniteSetTheorems, SequenceTheorems, TLAPS

\* Where the objects are: exactly the live ones are in vnodes, on the way to the
\* pool or in it, and a deleted one has neither references nor a grant.
PlaceInv ==
  /\ vnodes \cap vnodesdisconnected = {}
  /\ socket.cur \cap (vnodes \cup vnodesdisconnected) = {}
  /\ \A n \in Node : node[n].live <=> n \in vnodes \cup vnodesdisconnected \cup socket.cur
  /\ \A n \in Node : ~node[n].live => node[n].nrefcount = 0 /\ ~node[n].grantoutbound

\* Where the socket thread closes a connection, and an opener points to a node.
Closing == {"post", "clear", "release"}
AtNode == {"found", "addref", "move", "post", "clear", "store", "mark"}

\* What the threads point to.
ThreadInv ==
  /\ socket.todo \subseteq vnodes
  /\ IF socket.pc \in Closing THEN \E n \in Node : socket.cur = {n} ELSE socket.cur = {}
  /\ socket.pc # "service" => socket.copy = {}
  /\ message.pc = "copy" => message.copy = {}
  /\ \A o \in Opener :
       /\ IF opener[o].pc \in AtNode
          THEN \E n \in Node : opener[o].at = {n} ELSE opener[o].at = {}
       /\ opener[o].pc = "addref" => opener[o].at \subseteq shared

\* References of an object that only its creator's opener has touched: one of the
\* connection, which closing it may leave behind, and one of each copy it is in.
CountInv ==
  \A n \in Node \ shared :
    /\ n \in vnodes \cup socket.cur => node[n].nrefcount = Borrowers(n) + 1
    /\ n \in vnodesdisconnected => node[n].nrefcount >= Borrowers(n)
    /\ ~node[n].live => n \notin socket.copy \cup message.copy

NetInv == TypeOK /\ PlaceInv /\ ThreadInv /\ CountInv

-----------------------------------------------------------------------------
(* Objects *)

NodeRecord ==
  [live : BOOLEAN, finbound : BOOLEAN, named : BOOLEAN, ungranted : BOOLEAN,
   fnetworknode : BOOLEAN, fdisconnect : BOOLEAN, nrefcount : Int, grantoutbound : BOOLEAN]

SocketRecord ==
  [pc : {"top", "disconnect", "post", "clear", "release", "accept", "service"},
   todo : SUBSET Node, cur : SUBSET Node, copy : SUBSET Node]

OpenerPcs == {"idle", "find", "connect"} \cup AtNode
OpenerRecord == [pc : OpenerPcs, at : SUBSET Node, count : Int, granted : BOOLEAN]

\* Bit counts a condition.
LEMMA BitFact ==
  ASSUME NEW b PROVE Bit(b) \in {0, 1} /\ (b => Bit(b) = 1) /\ (~b => Bit(b) = 0)
BY DEF Bit

\* The destructor's and the constructor's fields.
LEMMA RecordFact ==
  ASSUME NEW i \in BOOLEAN, NEW d \in BOOLEAN, NEW g \in BOOLEAN
  PROVE  /\ Deleted \in NodeRecord
         /\ Deleted.live = FALSE /\ Deleted.nrefcount = 0 /\ Deleted.grantoutbound = FALSE
         /\ Created(i, d, g) \in NodeRecord
         /\ Created(i, d, g).live = TRUE /\ Created(i, d, g).finbound = i
         /\ Created(i, d, g).ungranted = g /\ Created(i, d, g).fnetworknode = FALSE
         /\ Created(i, d, g).nrefcount = 1 /\ Created(i, d, g).grantoutbound = FALSE
<1>1. Created(i, d, g) =
        [live |-> TRUE, finbound |-> i, named |-> d, ungranted |-> g, fnetworknode |-> FALSE,
         fdisconnect |-> FALSE, nrefcount |-> 1, grantoutbound |-> FALSE]
  BY DEF Created
<1>2. Deleted \in NodeRecord
  BY DEF Deleted, NodeRecord
<1>3. Created(i, d, g) \in NodeRecord
  BY <1>1 DEF NodeRecord
<1>4. QED
  BY <1>1, <1>2, <1>3 DEF Deleted

\* What the threads that borrow a node leave alone.
SameKind(n) ==
  /\ node'[n].finbound = node[n].finbound
  /\ node'[n].ungranted = node[n].ungranted
  /\ node'[n].fnetworknode = node[n].fnetworknode
  /\ node'[n].grantoutbound = node[n].grantoutbound

\* addref() on some nodes.
LEMMA AddRefsFact ==
  ASSUME node \in [Node -> NodeRecord], NEW S, AddRefs(S)
  PROVE  /\ node' \in [Node -> NodeRecord]
         /\ \A n \in Node : /\ node'[n].live = node[n].live
                            /\ SameKind(n)
                            /\ node'[n].nrefcount = node[n].nrefcount + Bit(n \in S)
BY BitFact DEF AddRefs, NodeRecord, SameKind

\* release() on some nodes, and fdisconnect on others.
LEMMA ReleasesFact ==
  ASSUME node \in [Node -> NodeRecord], NEW S, NEW lost, Releases(S, lost)
  PROVE  /\ node' \in [Node -> NodeRecord]
         /\ \A n \in Node : /\ node'[n].live = node[n].live
                            /\ SameKind(n)
                            /\ node'[n].nrefcount =
                                 node[n].nrefcount - Bit(n \in S /\ node[n].live)
<1>1. node' = [n \in Node |-> [node[n] EXCEPT !.nrefcount = @ - Bit(n \in S /\ node[n].live),
                                              !.fdisconnect = @ \/ n \in lost]]
  BY DEF Releases
<1>2. \A n \in Node : Bit(n \in S /\ node[n].live) \in {0, 1}
  BY BitFact
<1>3. \A n \in Node : (node[n].fdisconnect \/ n \in lost) \in BOOLEAN
  OBVIOUS
<1>4. ASSUME NEW n \in Node
      PROVE  /\ node'[n] \in NodeRecord
             /\ node'[n].live = node[n].live
             /\ SameKind(n)
             /\ node'[n].nrefcount = node[n].nrefcount - Bit(n \in S /\ node[n].live)
  <2>1. PICK v \in BOOLEAN, k \in {0, 1} :
          /\ k = Bit(n \in S /\ node[n].live)
          /\ node'[n] = [node[n] EXCEPT !.nrefcount = @ - k, !.fdisconnect = v]
    BY <1>1, <1>2, <1>3, Zenon
  <2>2. node[n] \in NodeRecord
    OBVIOUS
  <2>3. node[n].nrefcount - k \in Int
    BY <2>2 DEF NodeRecord
  <2>4. node'[n] \in NodeRecord
    BY <2>1, <2>2, <2>3 DEF NodeRecord
  <2>5. node'[n].nrefcount = node[n].nrefcount - k
    BY <2>1, <2>2 DEF NodeRecord
  <2>6. /\ node'[n].live = node[n].live
        /\ SameKind(n)
    BY <2>1, <2>2 DEF NodeRecord, SameKind
  <2>7. QED
    BY <2>1, <2>4, <2>5, <2>6
<1>5. QED
  BY <1>1, <1>4

-----------------------------------------------------------------------------
\* Nothing is connected at the start.
LEMMA InitInv == Init => NetInv
<1> SUFFICES ASSUME Init PROVE NetInv
  OBVIOUS
<1>1. /\ node = [n \in Node |-> Deleted] /\ vnodes = {} /\ vnodesdisconnected = {}
      /\ socket = [pc |-> "top", todo |-> {}, cur |-> {}, copy |-> {}]
      /\ message = [pc |-> "copy", copy |-> {}]
      /\ opener = [o \in Opener |-> Idle] /\ shared = {} /\ semaphore = MaxOutbound
      /\ raced = 0
  BY DEF Init
<1>2. node \in [Node -> NodeRecord]
  BY <1>1, RecordFact
<1>3. TypeOK
  BY <1>1, <1>2, NetAssumption DEF TypeOK, Idle, NodeRecord
<1>4. PlaceInv
  BY <1>1, RecordFact DEF PlaceInv
<1>5. ThreadInv
  BY <1>1 DEF ThreadInv, Idle, Closing, AtNode
<1>6. CountInv
  BY <1>1 DEF CountInv
<1>7. QED
  BY <1>3, <1>4, <1>5, <1>6 DEF NetInv

-----------------------------------------------------------------------------
(* threadsockethandler *)

\* The type invariant, in the form that the proofs use.
LEMMA Types ==
  ASSUME TypeOK
  PROVE  /\ node \in [Node -> NodeRecord]
         /\ vnodes \subseteq Node /\ vnodesdisconnected \subseteq Node /\ semaphore \in Int
         /\ socket \in SocketRecord /\ opener \in [Opener -> OpenerRecord] /\ raced \in Nat
         /\ message \in [pc : {"copy", "work"}, copy : SUBSET Node] /\ shared \subseteq Node
         /\ socket.todo \subseteq Node /\ socket.cur \subseteq Node /\ socket.copy \subseteq Node
         /\ message.pc \in {"copy", "work"} /\ message.copy \subseteq Node
         /\ \A n \in Node : Borrowers(n) \in {0, 1, 2}
<1>1. node \in [Node -> NodeRecord] /\ socket \in SocketRecord
  BY DEF TypeOK, NodeRecord, SocketRecord
<1>2. opener \in [Opener -> OpenerRecord]
  BY DEF TypeOK, OpenerRecord, OpenerPcs, AtNode
<1>3. socket.todo \subseteq Node /\ socket.cur \subseteq Node /\ socket.copy \subseteq Node
  BY <1>1 DEF SocketRecord
<1>4. QED
  BY <1>1, <1>2, <1>3, BitFact DEF TypeOK, Borrowers

\* The converse.
LEMMA MakeTypes ==
  ASSUME node' \in [Node -> NodeRecord], vnodes' \subseteq Node, vnodesdisconnected' \subseteq Node,
         semaphore' \in Int, socket' \in SocketRecord, opener' \in [Opener -> OpenerRecord],
         message' \in [pc : {"copy", "work"}, copy : SUBSET Node], shared' \subseteq Node,
         raced' \in Nat
  PROVE  TypeOK'
<1>1. OpenerPcs = {"idle", "find", "found", "addref", "connect", "move", "post", "clear",
                   "store", "mark"}
  BY DEF OpenerPcs, AtNode
<1>2. QED
  BY <1>1 DEF TypeOK, NodeRecord, SocketRecord, OpenerRecord

\* A pass over vnodes begins.
LEMMA BeginPassInv ==
  ASSUME NetInv, BeginPass PROVE NetInv'
<1>1. /\ socket.pc = "top"
      /\ socket' = [socket EXCEPT !.pc = "disconnect", !.todo = {n \in vnodes : ToDisconnect(n)}]
      /\ UNCHANGED <<node, vnodes, vnodesdisconnected, semaphore, message, opener, shared, raced>>
  BY DEF BeginPass
<1>2. /\ socket'.pc = "disconnect" /\ socket'.todo \subseteq vnodes
      /\ socket'.cur = socket.cur /\ socket'.copy = socket.copy
  BY <1>1 DEF NetInv, TypeOK
<1>3. TypeOK'
  BY <1>1 DEF NetInv, TypeOK
<1>4. PlaceInv'
  BY <1>1, <1>2 DEF NetInv, PlaceInv
<1>5. ThreadInv'
  BY <1>1, <1>2 DEF NetInv, ThreadInv, Closing
<1>6. CountInv'
  BY <1>1, <1>2 DEF NetInv, CountInv, Borrowers
<1>7. QED
  BY <1>3, <1>4, <1>5, <1>6 DEF NetInv

\* A node leaves vnodes.
LEMMA DisconnectInv ==
  ASSUME NetInv, Disconnect PROVE NetInv'
<1>1. /\ socket.pc = "disconnect"
      /\ UNCHANGED <<node, vnodesdisconnected, semaphore, message, opener, shared>>
  BY DEF Disconnect
<1>2. PICK n \in socket.todo, pc \in {"post", "release"}, k \in {0, 1} :
        /\ vnodes' = vnodes \ {n}
        /\ socket' = [socket EXCEPT !.pc = pc, !.todo = @ \ {n}, !.cur = {n}]
        /\ raced' = raced + k
  BY BitFact DEF Disconnect
<1>3. n \in vnodes /\ n \in Node /\ node \in [Node -> NodeRecord] /\ socket \in SocketRecord
  BY <1>2, Types DEF NetInv, ThreadInv
<1>4. /\ socket'.pc = pc /\ socket'.todo = socket.todo \ {n} /\ socket'.cur = {n}
      /\ socket'.copy = socket.copy /\ socket' \in SocketRecord
  BY <1>2, <1>3 DEF SocketRecord
<1>5. TypeOK'
  BY <1>1, <1>2, <1>3, <1>4, Types, MakeTypes DEF NetInv
<1>6. n \notin vnodesdisconnected /\ socket.cur = {} /\ node[n].live
  BY <1>1, <1>3 DEF NetInv, PlaceInv, ThreadInv, Closing
<1>7. PlaceInv'
  BY <1>1, <1>2, <1>3, <1>4, <1>6 DEF NetInv, PlaceInv
<1>8. ThreadInv'
  BY <1>1, <1>2, <1>3, <1>4 DEF NetInv, ThreadInv, Closing
<1>9. CountInv'
  BY <1>1, <1>2, <1>3, <1>4 DEF NetInv, CountInv, Borrowers
<1>10. QED
  BY <1>5, <1>7, <1>8, <1>9 DEF NetInv

\* Its grant is posted, and cleared.
LEMMA ReleaseGrantInv ==
  ASSUME NetInv, SocketPost \/ SocketClear PROVE NetInv'
<1>1. /\ socket.pc \in Closing
      /\ UNCHANGED <<vnodes, vnodesdisconnected, message, opener, shared, raced>>
      /\ node \in [Node -> NodeRecord] /\ socket \in SocketRecord
  BY Types DEF SocketPost, SocketClear, NetInv, Closing
<1>2. PICK pc \in {"clear", "release"} : socket' = [socket EXCEPT !.pc = pc]
  BY DEF SocketPost, SocketClear
<1>3. /\ socket'.pc = pc /\ socket'.todo = socket.todo /\ socket'.cur = socket.cur
      /\ socket'.copy = socket.copy /\ socket' \in SocketRecord
  BY <1>1, <1>2 DEF SocketRecord
<1>4. PICK n \in Node : socket.cur = {n}
  BY <1>1 DEF NetInv, ThreadInv
<1>5. /\ node' \in [Node -> NodeRecord]
      /\ \A m \in Node : /\ node'[m].live = node[m].live
                         /\ node'[m].nrefcount = node[m].nrefcount
                         /\ ~node[m].grantoutbound => ~node'[m].grantoutbound
  <2>1. CASE SocketPost
    BY <1>1, <2>1 DEF SocketPost
  <2>2. CASE SocketClear
    <3>1. node' = [node EXCEPT ![n].grantoutbound = FALSE]
      BY <1>4, <2>2 DEF SocketClear
    <3>2. QED
      BY <1>1, <1>4, <3>1 DEF NodeRecord
  <2>3. QED
    BY <2>1, <2>2
<1>6. TypeOK'
  <2>1. semaphore' \in Int
    BY Types DEF SocketPost, SocketClear, NetInv
  <2>2. QED
    BY <1>1, <1>3, <1>5, <2>1, Types, MakeTypes DEF NetInv
<1>7. PlaceInv'
  BY <1>1, <1>3, <1>5 DEF NetInv, PlaceInv
<1>8. ThreadInv'
  BY <1>1, <1>3 DEF NetInv, ThreadInv, Closing
<1>9. CountInv'
  BY <1>1, <1>3, <1>5 DEF NetInv, CountInv, Borrowers
<1>10. QED
  BY <1>6, <1>7, <1>8, <1>9 DEF NetInv

\* It joins the pool, usually without the reference of the connection.
LEMMA PoolNodeInv ==
  ASSUME NetInv, PoolNode PROVE NetInv'
<1>1. /\ socket.pc = "release" /\ UNCHANGED <<vnodes, semaphore, message, opener, shared, raced>>
      /\ socket' = [socket EXCEPT !.pc = "disconnect", !.cur = {}]
  BY DEF PoolNode
<1>2. PICK n \in socket.cur :
        /\ node' = [node EXCEPT ![n].nrefcount =
                                  @ - Bit(node[n].fnetworknode \/ node[n].finbound),
                                ![n].fdisconnect = TRUE, ![n].ungranted = FALSE]
        /\ vnodesdisconnected' = vnodesdisconnected \cup {n}
  BY DEF PoolNode
<1>3. n \in Node /\ node \in [Node -> NodeRecord] /\ socket.cur = {n}
  BY <1>1, <1>2, Types DEF NetInv, ThreadInv, Closing
<1>4. /\ node' \in [Node -> NodeRecord]
      /\ \A m \in Node : /\ node'[m].live = node[m].live
                         /\ node'[m].grantoutbound = node[m].grantoutbound
                         /\ m # n => node'[m] = node[m]
      /\ node'[n].nrefcount >= node[n].nrefcount - 1
  <2>1. PICK k \in {0, 1} : k = Bit(node[n].fnetworknode \/ node[n].finbound)
    BY BitFact
  <2>2. node' = [node EXCEPT ![n].nrefcount = @ - k, ![n].fdisconnect = TRUE,
                             ![n].ungranted = FALSE]
    BY <1>2, <2>1
  <2>3. node[n] \in NodeRecord /\ node[n].nrefcount \in Int /\ node[n].nrefcount - k \in Int
    BY <1>3 DEF NodeRecord
  <2>4. node'[n] = [node[n] EXCEPT !.nrefcount = @ - k, !.fdisconnect = TRUE, !.ungranted = FALSE]
    BY <1>3, <2>2
  <2>5. node'[n] \in NodeRecord
    BY <2>3, <2>4 DEF NodeRecord
  <2>6. node'[n].live = node[n].live /\ node'[n].grantoutbound = node[n].grantoutbound
    BY <2>3, <2>4 DEF NodeRecord
  <2>7. node'[n].nrefcount = node[n].nrefcount - k
    BY <2>3, <2>4 DEF NodeRecord
  <2>8. \A m \in Node \ {n} : node'[m] = node[m]
    BY <1>3, <2>2
  <2>9. node' \in [Node -> NodeRecord]
    BY <1>3, <2>2, <2>5, <2>8
  <2>10. QED
    BY <2>1, <2>3, <2>6, <2>7, <2>8, <2>9
<1>5. /\ socket'.pc = "disconnect" /\ socket'.cur = {} /\ socket'.todo = socket.todo
      /\ socket'.copy = socket.copy
  BY <1>1 DEF NetInv, TypeOK
<1>6. TypeOK'
  <2>1. socket' \in SocketRecord
    BY <1>1, Types DEF NetInv, SocketRecord
  <2>2. QED
    BY <1>1, <1>2, <1>3, <1>4, <2>1, Types, MakeTypes DEF NetInv
<1>7. n \notin vnodes /\ n \notin vnodesdisconnected /\ node[n].live
  BY <1>3 DEF NetInv, PlaceInv
<1>8. PlaceInv'
  BY <1>1, <1>2, <1>3, <1>4, <1>5, <1>7 DEF NetInv, PlaceInv
<1>9. ThreadInv'
  BY <1>1, <1>5 DEF NetInv, ThreadInv, Closing
<1>10. CountInv'
  <2>1. \A m \in Node : Borrowers(m)' = Borrowers(m) /\ Borrowers(m) \in {0, 1, 2}
    BY <1>1, <1>5, Types DEF Borrowers, NetInv
  <2>2. \A m \in Node : node[m].nrefcount \in Int /\ node'[m].nrefcount \in Int
    BY <1>3, <1>4 DEF NodeRecord
  <2>3. QED
    BY <1>1, <1>2, <1>3, <1>4, <1>5, <1>7, <2>1, <2>2 DEF NetInv, CountInv
<1>11. QED
  BY <1>6, <1>8, <1>9, <1>10 DEF NetInv

\* Pooled nodes without references are deleted: nobody has borrowed them.
LEMMA DeleteNodesInv ==
  ASSUME NetInv, DeleteNodes PROVE NetInv'
<1>1. /\ socket.pc = "disconnect" /\ UNCHANGED <<vnodes, message, opener, shared>>
      /\ socket' = [socket EXCEPT !.pc = "accept"]
  BY DEF DeleteNodes
<1>2. PICK gone \in SUBSET vnodesdisconnected :
        /\ \A n \in gone : node[n].nrefcount <= 0
        /\ vnodesdisconnected' = vnodesdisconnected \ gone
        /\ semaphore' = semaphore + Cardinality({n \in gone : node[n].grantoutbound})
        /\ node' = [n \in Node |-> IF n \in gone THEN Deleted ELSE node[n]]
        /\ raced' = raced + Bit(\E n \in gone : Releasing(n))
  BY DEF DeleteNodes
<1>3. node \in [Node -> NodeRecord] /\ gone \subseteq Node
  BY <1>2, Types DEF NetInv, TypeOK
<1>4. /\ node' \in [Node -> NodeRecord]
      /\ \A m \in gone : ~node'[m].live /\ node'[m].nrefcount = 0 /\ ~node'[m].grantoutbound
      /\ \A m \in Node \ gone : node'[m] = node[m]
  BY <1>2, <1>3, RecordFact
<1>5. /\ socket'.pc = "accept" /\ socket'.cur = socket.cur /\ socket'.todo = socket.todo
      /\ socket'.copy = socket.copy
  BY <1>1 DEF NetInv, TypeOK
<1>6. TypeOK'
  <2>1. semaphore' \in Int
    <3>1. IsFiniteSet({n \in gone : node[n].grantoutbound})
      BY <1>3, NetAssumption, FS_Subset
    <3>2. QED
      BY <1>2, <3>1, FS_CardinalityType DEF NetInv, TypeOK
  <2>r. raced' \in Nat /\ socket' \in SocketRecord
    <3>1. PICK b : raced' = raced + Bit(b)
      BY <1>2
    <3>2. Bit(b) \in {0, 1} /\ raced \in Nat /\ socket \in SocketRecord
      BY BitFact, Types DEF NetInv
    <3>3. QED
      BY <1>1, <3>1, <3>2 DEF SocketRecord
  <2>2. QED
    BY <1>1, <1>2, <1>3, <1>4, <1>5, <2>1, <2>r, Types, MakeTypes DEF NetInv, SocketRecord
<1>7. socket.cur = {}
  BY <1>1 DEF NetInv, ThreadInv, Closing
<1>8. PlaceInv'
  BY <1>1, <1>2, <1>3, <1>4, <1>5, <1>7 DEF NetInv, PlaceInv
<1>9. ThreadInv'
  BY <1>1, <1>5 DEF NetInv, ThreadInv, Closing
<1>10. CountInv'
  <2>1. \A m \in Node : Borrowers(m)' = Borrowers(m) /\ Borrowers(m) \in {0, 1, 2}
    BY <1>1, <1>5, Types DEF Borrowers, NetInv
  <2>2. ASSUME NEW m \in gone, m \notin shared PROVE m \notin socket.copy \cup message.copy
    <3>1. node[m].nrefcount <= 0 /\ node[m].nrefcount >= Borrowers(m) /\ node[m].nrefcount \in Int
      BY <1>2, <1>3, <2>2 DEF NetInv, CountInv, NodeRecord
    <3>2. Borrowers(m) = 0
      BY <1>3, <2>1, <3>1
    <3>3. QED
      BY <3>2 DEF Borrowers, Bit
  <2>3. gone \cap (vnodes \cup socket.cur) = {}
    BY <1>2 DEF NetInv, PlaceInv
  <2>4. QED
    BY <1>1, <1>2, <1>3, <1>4, <1>5, <2>1, <2>2, <2>3 DEF NetInv, CountInv
<1>11. QED
  BY <1>6, <1>8, <1>9, <1>10 DEF NetInv

\* A node is created where nothing points to.
LEMMA CreateInv ==
  ASSUME NetInv, NEW n \in Fresh, NEW i \in BOOLEAN, NEW d \in BOOLEAN, NEW g \in BOOLEAN,
         node' = [node EXCEPT ![n] = Created(i, d, g)], vnodes' = vnodes \cup {n},
         shared' = shared \ {n},
         UNCHANGED <<vnodesdisconnected, semaphore, socket, message, raced>>,
         opener' \in [Opener -> OpenerRecord],
         \A o \in Opener : \/ opener'[o] = opener[o]
                           \/ opener'[o].pc \in {"move", "mark"} /\ opener'[o].at = {n}
  PROVE  NetInv'
<1>1. /\ n \in Node /\ ~node[n].live /\ n \notin socket.cur /\ n \notin socket.copy
      /\ n \notin message.copy /\ \A o \in Opener : n \notin opener[o].at
  BY DEF Fresh, Pointed
<1>2. node \in [Node -> NodeRecord]
  BY Types DEF NetInv
<1>3. /\ node' \in [Node -> NodeRecord]
      /\ node'[n].live /\ node'[n].nrefcount = 1
      /\ \A m \in Node \ {n} : node'[m] = node[m]
  BY <1>1, <1>2, RecordFact
<1>4. n \notin vnodes /\ n \notin vnodesdisconnected
  BY <1>1 DEF NetInv, PlaceInv
<1>5. TypeOK'
  BY <1>1, <1>3, Types, MakeTypes DEF NetInv
<1>6. PlaceInv'
  BY <1>1, <1>3, <1>4 DEF NetInv, PlaceInv
<1>7. ThreadInv'
  <2>1. ASSUME NEW o \in Opener
        PROVE  /\ IF opener'[o].pc \in AtNode
                  THEN \E m \in Node : opener'[o].at = {m} ELSE opener'[o].at = {}
               /\ opener'[o].pc = "addref" => opener'[o].at \subseteq shared'
    <3>1. CASE opener'[o] = opener[o]
      BY <1>1, <3>1 DEF NetInv, ThreadInv
    <3>2. CASE opener'[o].pc \in {"move", "mark"} /\ opener'[o].at = {n}
      BY <1>1, <3>2 DEF AtNode
    <3>3. QED
      BY <3>1, <3>2
  <2>2. QED
    BY <2>1 DEF NetInv, ThreadInv
<1>8. CountInv'
  <2>1. \A m \in Node : Borrowers(m)' = Borrowers(m)
    BY DEF Borrowers
  <2>2. Borrowers(n) = 0
    BY <1>1 DEF Borrowers, Bit
  <2>3. QED
    BY <1>1, <1>3, <1>4, <2>1, <2>2 DEF NetInv, CountInv
<1>9. QED
  BY <1>5, <1>6, <1>7, <1>8 DEF NetInv

\* An inbound connection.
LEMMA AcceptInv ==
  ASSUME NetInv, Accept PROVE NetInv'
<1>1. PICK n \in Fresh :
        /\ node' = [node EXCEPT ![n] = Created(TRUE, FALSE, FALSE)]
        /\ vnodes' = vnodes \cup {n} /\ shared' = shared \ {n}
        /\ UNCHANGED <<vnodesdisconnected, semaphore, socket, message, opener, raced>>
  BY DEF Accept
<1>2. opener' = opener /\ opener \in [Opener -> OpenerRecord]
  BY <1>1, Types DEF NetInv
<1>3. QED
  BY <1>1, <1>2, CreateInv

\* The socket thread borrows every node in vnodes.
LEMMA SocketCopyInv ==
  ASSUME NetInv, SocketCopy PROVE NetInv'
<1>1. /\ socket.pc = "accept" /\ AddRefs(vnodes)
      /\ socket' = [socket EXCEPT !.pc = "service", !.copy = vnodes]
      /\ UNCHANGED <<vnodes, vnodesdisconnected, semaphore, message, opener, shared, raced>>
  BY DEF SocketCopy
<1>2. /\ node \in [Node -> NodeRecord] /\ node' \in [Node -> NodeRecord]
      /\ \A n \in Node : /\ node'[n].live = node[n].live
                         /\ node'[n].grantoutbound = node[n].grantoutbound
                         /\ node'[n].nrefcount = node[n].nrefcount + Bit(n \in vnodes)
  BY <1>1, Types, AddRefsFact DEF NetInv, SameKind
<1>3. /\ socket'.pc = "service" /\ socket'.cur = socket.cur /\ socket'.todo = socket.todo
      /\ socket'.copy = vnodes
  BY <1>1 DEF NetInv, TypeOK
<1>4. socket.copy = {} /\ socket.cur = {}
  BY <1>1 DEF NetInv, ThreadInv, Closing
<1>5. \A n \in Node : node[n].live => n \in vnodes \cup vnodesdisconnected
  BY <1>4 DEF NetInv, PlaceInv
<1>6. \A n \in Node \ vnodes : node'[n].nrefcount = node[n].nrefcount
  BY <1>2 DEF Bit, NodeRecord
<1>7. \A n \in vnodes : node[n].live /\ n \in Node
  BY DEF NetInv, PlaceInv, TypeOK
<1>8. TypeOK'
  <2>1. socket' \in SocketRecord
    BY <1>1, Types DEF NetInv, SocketRecord
  <2>2. QED
    BY <1>1, <1>2, <2>1, Types, MakeTypes DEF NetInv
<1>9. PlaceInv'
  BY <1>1, <1>2, <1>3, <1>6, <1>7 DEF NetInv, PlaceInv
<1>10. ThreadInv'
  BY <1>1, <1>3, <1>4 DEF NetInv, ThreadInv, Closing
<1>11. CountInv'
  <2>1. \A n \in Node : Borrowers(n)' = Borrowers(n) + Bit(n \in vnodes)
    BY <1>1, <1>3, <1>4 DEF Borrowers, Bit
  <2>2. \A n \in Node : /\ node[n].nrefcount \in Int /\ Borrowers(n) \in {0, 1, 2}
                        /\ Bit(n \in vnodes) \in {0, 1}
    BY <1>2, Types, BitFact DEF NodeRecord, NetInv
  <2>3. QED
    BY <1>1, <1>2, <1>3, <1>4, <1>7, <2>1, <2>2 DEF NetInv, CountInv
<1>12. QED
  BY <1>8, <1>9, <1>10, <1>11 DEF NetInv

\* References of a copy R are given back.
LEMMA ReleaseInv ==
  ASSUME NetInv, NEW R \in SUBSET (socket.copy \cup message.copy), NEW lost, Releases(R, lost),
         \A n \in Node : Borrowers(n)' = Borrowers(n) - Bit(n \in R),
         socket' \in SocketRecord,
         message' \in [pc : {"copy", "work"}, copy : SUBSET Node],
         socket'.todo = socket.todo, socket'.cur = socket.cur,
         socket'.pc \in Closing <=> socket.pc \in Closing,
         socket'.pc # "service" => socket'.copy = {},
         message'.pc = "copy" => message'.copy = {},
         socket'.copy \subseteq socket.copy, message'.copy \subseteq message.copy,
         UNCHANGED <<vnodes, vnodesdisconnected, semaphore, opener, shared, raced>>
  PROVE  NetInv'
<1>1. /\ node \in [Node -> NodeRecord] /\ node' \in [Node -> NodeRecord] /\ R \subseteq Node
      /\ \A n \in Node : /\ node'[n].live = node[n].live
                         /\ node'[n].grantoutbound = node[n].grantoutbound
                         /\ node'[n].nrefcount =
                              node[n].nrefcount - Bit(n \in R /\ node[n].live)
  BY Types, ReleasesFact DEF NetInv, SameKind
<1>2. TypeOK'
  BY <1>1, Types, MakeTypes DEF NetInv
<1>3. PlaceInv'
  <2>1. \A n \in Node : ~node[n].live => node'[n].nrefcount = node[n].nrefcount
    BY <1>1 DEF Bit, NodeRecord
  <2>2. QED
    BY <1>1, <2>1 DEF NetInv, PlaceInv
<1>4. ThreadInv'
  BY DEF NetInv, ThreadInv
<1>5. CountInv'
  <2>1. ASSUME NEW n \in Node \ shared
        PROVE  node'[n].nrefcount = node[n].nrefcount - Bit(n \in R)
    <3>1. n \in R => node[n].live
      BY DEF NetInv, CountInv
    <3>2. Bit(n \in R /\ node[n].live) = Bit(n \in R)
      BY <3>1 DEF Bit
    <3>3. QED
      BY <1>1, <3>2
  <2>2. \A n \in Node : /\ node[n].nrefcount \in Int /\ Borrowers(n) \in {0, 1, 2}
                        /\ Bit(n \in R) \in {0, 1}
    BY <1>1, Types, BitFact DEF NodeRecord, NetInv
  <2>3. QED
    BY <1>1, <2>1, <2>2 DEF NetInv, CountInv
<1>6. QED
  BY <1>2, <1>3, <1>4, <1>5 DEF NetInv

\* The socket thread is done with its copy.
LEMMA ServiceInv ==
  ASSUME NetInv, Service PROVE NetInv'
<1>1. PICK lost \in SUBSET socket.copy : Releases(socket.copy, lost)
  BY DEF Service
<1>2. /\ socket.pc = "service"
      /\ socket' = [socket EXCEPT !.pc = "top", !.copy = {}]
      /\ UNCHANGED <<vnodes, vnodesdisconnected, semaphore, message, opener, shared, raced>>
  BY DEF Service
<1>3. socket \in SocketRecord /\ message \in [pc : {"copy", "work"}, copy : SUBSET Node]
  BY Types DEF NetInv
<1>4. /\ socket' \in SocketRecord
      /\ socket'.pc = "top" /\ socket'.copy = {} /\ socket'.todo = socket.todo
      /\ socket'.cur = socket.cur /\ (socket'.pc \in Closing <=> socket.pc \in Closing)
  BY <1>2, <1>3 DEF SocketRecord, Closing
<1>5. \A n \in Node : Borrowers(n)' = Borrowers(n) - Bit(n \in socket.copy)
  BY <1>2, <1>4 DEF Borrowers, Bit
<1>6. message'.pc = "copy" => message'.copy = {}
  BY <1>2 DEF NetInv, ThreadInv
<1>7. message' = message
  BY <1>2
<1>8. QED
  BY <1>1, <1>2, <1>3, <1>4, <1>5, <1>6, <1>7, ReleaseInv

-----------------------------------------------------------------------------
(* threadmessagehandler *)

\* The message thread borrows every node in vnodes.
LEMMA MessageCopyInv ==
  ASSUME NetInv, MessageCopy PROVE NetInv'
<1>1. /\ message.pc = "copy" /\ AddRefs(vnodes)
      /\ message' = [pc |-> "work", copy |-> vnodes]
      /\ UNCHANGED <<vnodes, vnodesdisconnected, semaphore, socket, opener, shared, raced>>
  BY DEF MessageCopy
<1>2. /\ node \in [Node -> NodeRecord] /\ node' \in [Node -> NodeRecord]
      /\ \A n \in Node : /\ node'[n].live = node[n].live
                         /\ node'[n].grantoutbound = node[n].grantoutbound
                         /\ node'[n].nrefcount = node[n].nrefcount + Bit(n \in vnodes)
  BY <1>1, Types, AddRefsFact DEF NetInv, SameKind
<1>3. message'.pc = "work" /\ message'.copy = vnodes
  BY <1>1
<1>4. message.copy = {} /\ socket.cur = {}
  BY <1>1 DEF NetInv, ThreadInv, MessageCopy, CsFree, Closing
<1>5. \A n \in Node \ vnodes : node'[n].nrefcount = node[n].nrefcount
  BY <1>2 DEF Bit, NodeRecord
<1>6. \A n \in vnodes : node[n].live /\ n \in Node
  BY DEF NetInv, PlaceInv, TypeOK
<1>7. TypeOK'
  <2>1. message' \in [pc : {"copy", "work"}, copy : SUBSET Node]
    BY <1>1, Types DEF NetInv
  <2>2. QED
    BY <1>1, <1>2, <2>1, Types, MakeTypes DEF NetInv
<1>8. PlaceInv'
  BY <1>1, <1>2, <1>5, <1>6 DEF NetInv, PlaceInv
<1>9. ThreadInv'
  BY <1>1, <1>3 DEF NetInv, ThreadInv
<1>10. CountInv'
  <2>1. \A n \in Node : Borrowers(n)' = Borrowers(n) + Bit(n \in vnodes)
    BY <1>1, <1>3, <1>4 DEF Borrowers, Bit
  <2>2. \A n \in Node : /\ node[n].nrefcount \in Int /\ Borrowers(n) \in {0, 1, 2}
                        /\ Bit(n \in vnodes) \in {0, 1}
    BY <1>2, Types, BitFact DEF NodeRecord, NetInv
  <2>3. QED
    BY <1>1, <1>2, <1>3, <1>4, <1>6, <2>1, <2>2 DEF NetInv, CountInv
<1>11. QED
  BY <1>7, <1>8, <1>9, <1>10 DEF NetInv

\* It gives up a node, or is done with its copy.
LEMMA MessageInv ==
  ASSUME NetInv, Process \/ MessageRelease PROVE NetInv'
<1>1. /\ socket \in SocketRecord
      /\ message \in [pc : {"copy", "work"}, copy : SUBSET Node]
      /\ socket.pc # "service" => socket.copy = {}
      /\ message.pc = "copy" => message.copy = {}
  BY Types DEF NetInv, ThreadInv
<1>2. /\ UNCHANGED <<vnodes, vnodesdisconnected, semaphore, opener, shared, raced>>
      /\ socket' = socket
  BY DEF Process, MessageRelease
<1>3. CASE Process
  <2>1. PICK n \in message.copy : Releases({}, {n})
    BY <1>3 DEF Process
  <2>2. message' = message
    BY <1>3 DEF Process
  <2>3. \A m \in Node : Borrowers(m)' = Borrowers(m) - Bit(m \in {})
    BY <1>2, <2>2 DEF Borrowers, Bit
  <2>4. {} \in SUBSET (socket.copy \cup message.copy)
    OBVIOUS
  <2>5. QED
    BY <1>1, <1>2, <2>1, <2>2, <2>3, <2>4, ReleaseInv
<1>4. CASE MessageRelease
  <2>1. Releases(message.copy, {}) /\ message' = [pc |-> "copy", copy |-> {}]
    BY <1>4 DEF MessageRelease
  <2>2. \A n \in Node : Borrowers(n)' = Borrowers(n) - Bit(n \in message.copy)
    BY <1>2, <2>1 DEF Borrowers, Bit
  <2>3. message' \in [pc : {"copy", "work"}, copy : SUBSET Node] /\ message'.copy = {}
    BY <2>1
  <2>4. QED
    BY <1>1, <1>2, <2>1, <2>2, <2>3, ReleaseInv
<1>5. QED
  BY <1>3, <1>4

-----------------------------------------------------------------------------
(* opennetworkconnection and connectnode *)

\* An opener goes to another place.
LEMMA GotoFact ==
  ASSUME TypeOK, NEW o \in Opener, NEW pc \in OpenerPcs, NEW at \in SUBSET Node, Goto(o, pc, at)
  PROVE  /\ opener' \in [Opener -> OpenerRecord]
         /\ opener'[o].pc = pc /\ opener'[o].at = at /\ opener'[o].granted = opener[o].granted
         /\ \A q \in Opener \ {o} : opener'[q] = opener[q]
<1> DEFINE r == [opener[o] EXCEPT !.pc = pc, !.at = at, !.count = 0]
<1>1. opener' = [opener EXCEPT ![o] = r]
  BY DEF Goto
<1>2. opener \in [Opener -> OpenerRecord]
  BY Types
<1>3. r \in OpenerRecord /\ r.pc = pc /\ r.at = at /\ r.granted = opener[o].granted
  <2>1. PICK a \in OpenerRecord : a = opener[o]
    BY <1>2
  <2>2. r = [a EXCEPT !.pc = pc, !.at = at, !.count = 0]
    BY <2>1
  <2> HIDE DEF r
  <2>g. r = [pc |-> pc, at |-> at, count |-> 0, granted |-> a.granted] /\ a.granted \in BOOLEAN
    BY <2>2 DEF OpenerRecord
  <2>3. r \in OpenerRecord
    BY <2>g DEF OpenerRecord
  <2>4. r.pc = pc /\ r.at = at /\ r.granted = a.granted
    BY <2>2 DEF OpenerRecord
  <2>5. QED
    BY <2>1, <2>3, <2>4
<1> HIDE DEF r
<1>4. QED
  BY <1>1, <1>2, <1>3

\* It begins.
LEMMA OpenFact ==
  ASSUME TypeOK, NEW o \in Opener, NEW g \in BOOLEAN, Open(o, g)
  PROVE  /\ opener' \in [Opener -> OpenerRecord]
         /\ opener'[o].pc \in {"connect", "find"} /\ opener'[o].at = {} /\ opener'[o].granted = g
         /\ opener'[o].pc = "find" => g
         /\ \A q \in Opener \ {o} : opener'[q] = opener[q]
<1>1. PICK pc \in {"connect", "find"} :
        /\ opener' = [opener EXCEPT ![o] = [Idle EXCEPT !.pc = pc, !.granted = g]]
        /\ pc = "find" => g
  BY NetAssumption DEF Open
<1> DEFINE r == [Idle EXCEPT !.pc = pc, !.granted = g]
<1>2. r \in OpenerRecord /\ r.pc = pc /\ r.at = {} /\ r.granted = g
  <2>1. Idle \in OpenerRecord /\ Idle.at = {} /\ pc \in OpenerPcs
    BY DEF OpenerRecord, OpenerPcs, Idle
  <2>2. QED
    BY <2>1 DEF OpenerRecord
<1>3. opener' = [opener EXCEPT ![o] = r] /\ opener \in [Opener -> OpenerRecord]
  BY <1>1, Types
<1> HIDE DEF r
<1>4. QED
  BY <1>1, <1>2, <1>3

\* It ends.
LEMMA ReturnFact ==
  ASSUME TypeOK, NEW o \in Opener, Return(o)
  PROVE  /\ opener' \in [Opener -> OpenerRecord]
         /\ opener'[o].pc = "idle" /\ opener'[o].at = {} /\ opener'[o].granted = FALSE
         /\ \A q \in Opener \ {o} : opener'[q] = opener[q]
<1>1. Idle \in OpenerRecord /\ Idle.pc = "idle" /\ Idle.at = {} /\ Idle.granted = FALSE
  BY DEF OpenerRecord, OpenerPcs, Idle
<1>2. opener' = [opener EXCEPT ![o] = Idle] /\ opener \in [Opener -> OpenerRecord]
  BY Types DEF Return
<1>3. QED
  BY <1>1, <1>2

\* What an opener does to an existing object: nothing to a deleted one, and the
\* count changes only of one that it shares.
LEMMA OpenerInv ==
  ASSUME NetInv, NEW o \in Opener,
         node' \in [Node -> NodeRecord],
         \A n \in Node : node'[n].live = node[n].live,
         \A n \in Node : ~node[n].live => node'[n] = node[n],
         \A n \in Node \ shared : node'[n].nrefcount = node[n].nrefcount,
         opener' \in [Opener -> OpenerRecord],
         \A q \in Opener \ {o} : opener'[q] = opener[q],
         IF opener'[o].pc \in AtNode
         THEN \E n \in Node : opener'[o].at = {n} ELSE opener'[o].at = {},
         opener'[o].pc = "addref" => opener'[o].at \subseteq shared',
         shared \subseteq shared', shared' \subseteq Node, semaphore' \in Int, raced' \in Nat,
         UNCHANGED <<vnodes, vnodesdisconnected, socket, message>>
  PROVE  NetInv'
<1>1. TypeOK'
  BY Types, MakeTypes DEF NetInv
<1>2. PlaceInv'
  BY DEF NetInv, PlaceInv
<1>3. ThreadInv'
  <2>1. ASSUME NEW q \in Opener
        PROVE  /\ IF opener'[q].pc \in AtNode
                  THEN \E n \in Node : opener'[q].at = {n} ELSE opener'[q].at = {}
               /\ opener'[q].pc = "addref" => opener'[q].at \subseteq shared'
    <3>1. CASE q = o
      BY <3>1
    <3>2. CASE q # o
      BY <3>2 DEF NetInv, ThreadInv
    <3>3. QED
      BY <3>1, <3>2
  <2>2. QED
    BY <2>1 DEF NetInv, ThreadInv
<1>4. CountInv'
  BY DEF NetInv, CountInv, Borrowers
<1>5. QED
  BY <1>1, <1>2, <1>3, <1>4 DEF NetInv

\* The places where an opener has no node, and where it takes one over.
LEMMA SearchInv ==
  ASSUME NetInv, NEW o \in Opener, (\E g \in BOOLEAN : Open(o, g)) \/ FindNode(o) \/ ConnectFails(o)
  PROVE  NetInv'
<1>1. UNCHANGED <<node, vnodes, vnodesdisconnected, socket, message, shared, raced>>
  BY DEF Open, FindNode, ConnectFails
<1>2. /\ opener' \in [Opener -> OpenerRecord]
      /\ IF opener'[o].pc \in AtNode THEN \E n \in Node : opener'[o].at = {n} ELSE opener'[o].at = {}
      /\ opener'[o].pc # "addref"
      /\ \A q \in Opener \ {o} : opener'[q] = opener[q]
  <2>1. CASE \E g \in BOOLEAN : Open(o, g)
    BY <2>1, OpenFact DEF NetInv, AtNode
  <2>2. CASE ConnectFails(o)
    BY <2>2, ReturnFact DEF ConnectFails, NetInv, AtNode
  <2>3. CASE FindNode(o)
    <3>1. CASE vnodes \ Inbound = {}
      <4>1. Goto(o, "connect", {}) /\ "connect" \in OpenerPcs \ AtNode
        BY <2>3, <3>1 DEF FindNode, OpenerPcs, AtNode
      <4> DEFINE no == {}
      <4>2. no \in SUBSET Node /\ Goto(o, "connect", no)
        BY <4>1
      <4> HIDE DEF no
      <4>3. opener'[o].at = no
        BY <4>1, <4>2, GotoFact DEF NetInv
      <4>4. no = {}
        BY DEF no
      <4>5. QED
        BY <4>1, <4>2, <4>3, <4>4, GotoFact DEF NetInv
    <3>2. CASE vnodes \ Inbound # {}
      <4>1. PICK n \in vnodes \ Inbound : Goto(o, "found", {n})
        BY <2>3, <3>2 DEF FindNode
      <4>2. n \in Node /\ {n} \in SUBSET Node /\ "found" \in OpenerPcs /\ "found" \in AtNode
        BY <4>1, Types DEF NetInv, OpenerPcs, AtNode
      <4>3. QED
        BY <4>1, <4>2, GotoFact DEF NetInv
    <3>3. QED
      BY <3>1, <3>2
  <2>4. QED
    BY <2>1, <2>2, <2>3
<1>3. semaphore' \in Int
  <2>1. PICK b : semaphore' \in {semaphore, semaphore - Bit(b), semaphore + Bit(b)}
    BY DEF Open, FindNode, ConnectFails
  <2>2. semaphore \in Int /\ Bit(b) \in {0, 1}
    BY Types, BitFact DEF NetInv
  <2>3. QED
    BY <2>1, <2>2
<1>4. node \in [Node -> NodeRecord] /\ shared \subseteq Node /\ raced \in Nat
  BY Types DEF NetInv
<1>5. QED
  BY <1>1, <1>2, <1>3, <1>4, OpenerInv

\* The two halves of the addref() without cs_vnodes.
LEMMA AddRefInv ==
  ASSUME NetInv, NEW o \in Opener, AddRefLoad(o) \/ AddRefStore(o)
  PROVE  NetInv'
<1>1. /\ UNCHANGED <<vnodes, vnodesdisconnected, semaphore, socket, message, raced>>
      /\ node \in [Node -> NodeRecord] /\ shared \subseteq Node /\ semaphore \in Int
      /\ opener \in [Opener -> OpenerRecord] /\ raced \in Nat
      /\ {"addref", "move"} \subseteq AtNode /\ AtNode \subseteq OpenerPcs
  BY Types DEF AddRefLoad, AddRefStore, NetInv, OpenerPcs, AtNode
<1>2. CASE AddRefLoad(o)
  <2>1. opener[o].pc = "found" /\ node' = node
    BY <1>2 DEF AddRefLoad
  <2>2. PICK n \in opener[o].at :
          /\ opener' = [opener EXCEPT ![o].pc = "addref", ![o].count = node[n].nrefcount]
          /\ shared' = shared \cup {n}
    BY <1>2 DEF AddRefLoad
  <2>3. n \in Node /\ opener[o].at = {n}
    BY <2>1, <2>2 DEF NetInv, ThreadInv, AtNode
  <2>4. node[n].nrefcount \in Int
    BY <1>1, <2>3 DEF NodeRecord
  <2>5. /\ opener' \in [Opener -> OpenerRecord]
        /\ opener'[o].pc = "addref" /\ opener'[o].at = {n}
        /\ \A q \in Opener \ {o} : opener'[q] = opener[q]
    BY <1>1, <2>2, <2>3, <2>4 DEF OpenerRecord
  <2>6. QED
    BY <1>1, <2>1, <2>2, <2>3, <2>5, OpenerInv
<1>3. CASE AddRefStore(o)
  <2>1. opener[o].pc = "addref" /\ shared' = shared /\ Goto(o, "move", opener[o].at)
    BY <1>3 DEF AddRefStore
  <2>2. PICK n \in opener[o].at :
          node' = IF node[n].live THEN [node EXCEPT ![n].nrefcount = opener[o].count + 1] ELSE node
    BY <1>3 DEF AddRefStore
  <2>3. n \in Node /\ opener[o].at = {n} /\ n \in shared
    BY <2>1, <2>2 DEF NetInv, ThreadInv, AtNode
  <2>4. opener[o].count \in Int
    BY <1>1 DEF OpenerRecord
  <2>5. /\ node' \in [Node -> NodeRecord]
        /\ \A m \in Node : /\ node'[m].live = node[m].live
                           /\ ~node[m].live => node'[m] = node[m]
                           /\ m # n => node'[m] = node[m]
    BY <1>1, <2>2, <2>3, <2>4 DEF NodeRecord
  <2>6. /\ opener' \in [Opener -> OpenerRecord]
        /\ opener'[o].pc = "move" /\ opener'[o].at = {n}
        /\ \A q \in Opener \ {o} : opener'[q] = opener[q]
    BY <1>1, <2>1, <2>3, GotoFact DEF NetInv
  <2>7. QED
    BY <1>1, <2>1, <2>3, <2>5, <2>6, OpenerInv
<1>4. QED
  BY <1>2, <1>3

\* A new outbound connection.
LEMMA ConnectNodeInv ==
  ASSUME NetInv, NEW o \in Opener, ConnectNode(o) PROVE NetInv'
<1>1. PICK n \in Fresh, pc \in {"move", "mark"}, d \in BOOLEAN, g \in BOOLEAN :
        /\ node' = [node EXCEPT ![n] = Created(FALSE, d, g)]
        /\ vnodes' = vnodes \cup {n} /\ shared' = shared \ {n}
        /\ Goto(o, pc, {n})
  <2>1. PICK n \in Fresh :
          /\ node' = [node EXCEPT ![n] = Created(FALSE, o \in ByName, ~opener[o].granted)]
          /\ vnodes' = vnodes \cup {n} /\ shared' = shared \ {n}
          /\ Goto(o, IF opener[o].granted THEN "move" ELSE "mark", {n})
    BY DEF ConnectNode
  <2>2. (o \in ByName) \in BOOLEAN /\ (~opener[o].granted) \in BOOLEAN
    OBVIOUS
  <2>3. (IF opener[o].granted THEN "move" ELSE "mark") \in {"move", "mark"}
    OBVIOUS
  <2>4. QED
    BY <2>1, <2>2, <2>3, Zenon
<1>2. UNCHANGED <<vnodesdisconnected, semaphore, socket, message, raced>>
  BY DEF ConnectNode
<1>3. {n} \in SUBSET Node /\ pc \in OpenerPcs
  BY <1>1 DEF Fresh, OpenerPcs, AtNode
<1>4. /\ opener' \in [Opener -> OpenerRecord]
      /\ opener'[o].pc = pc /\ opener'[o].at = {n}
      /\ \A q \in Opener \ {o} : opener'[q] = opener[q]
  BY <1>1, <1>3, GotoFact DEF NetInv
<1>5. QED
  BY <1>1, <1>2, <1>4, CreateInv

\* What the opener of a node does to it.
NodeSet(n) ==
  \/ node' = node
  \/ \E have \in BOOLEAN : node[n].live /\ node' = [node EXCEPT ![n].grantoutbound = have]
  \/ node[n].live /\ node' = [node EXCEPT ![n].fnetworknode = TRUE]

\* The steps of moveto() and the mark.
MoveStep(o) == MoveTo(o) \/ MoveToPost(o) \/ MoveToClear(o) \/ MoveToStore(o) \/ Mark(o)

\* What they change.
LEMMA MoveFact ==
  ASSUME NetInv, NEW o \in Opener, MoveStep(o)
  PROVE  /\ UNCHANGED <<vnodes, vnodesdisconnected, socket, message, shared>>
         /\ \E n \in Node :
              /\ opener[o].at = {n} /\ NodeSet(n)
              /\ opener'[o].at = IF opener[o].pc = "mark" THEN {} ELSE {n}
         /\ opener' \in [Opener -> OpenerRecord]
         /\ opener[o].pc = "move" => opener'[o].pc \in {"post", "store"}
         /\ opener[o].pc = "post" => opener'[o].pc = "clear"
         /\ opener[o].pc = "clear" => opener'[o].pc = "store"
         /\ opener[o].pc = "store" => opener'[o].pc = "mark"
         /\ opener[o].pc = "mark" => opener'[o].pc = "idle" /\ ~opener'[o].granted
         /\ opener[o].pc # "mark" => opener'[o].granted = opener[o].granted
         /\ opener[o].pc \in {"move", "post", "clear", "store", "mark"}
         /\ \A q \in Opener \ {o} : opener'[q] = opener[q]
<1>1. /\ UNCHANGED <<vnodes, vnodesdisconnected, socket, message, shared>>
      /\ opener[o].pc \in {"move", "post", "clear", "store", "mark"}
  BY DEF MoveStep, MoveTo, MoveToPost, MoveToClear, MoveToStore, Mark
<1>2. PICK n \in Node : opener[o].at = {n}
  BY <1>1 DEF NetInv, ThreadInv, AtNode
<1>3. NodeSet(n)
  BY <1>2 DEF MoveStep, MoveTo, MoveToPost, MoveToClear, MoveToStore, Mark, SetGrant, NodeSet
<1>4. CASE opener[o].pc = "mark"
  <2>1. Return(o)
    BY <1>4 DEF MoveStep, MoveTo, MoveToPost, MoveToClear, MoveToStore, Mark
  <2>2. QED
    BY <1>1, <1>2, <1>3, <1>4, <2>1, ReturnFact DEF NetInv
<1>5. CASE opener[o].pc # "mark"
  <2>1. PICK pc \in {"post", "store", "clear", "mark"} :
          /\ Goto(o, pc, {n})
          /\ opener[o].pc = "move" => pc \in {"post", "store"}
          /\ opener[o].pc = "post" => pc = "clear"
          /\ opener[o].pc = "clear" => pc = "store"
          /\ opener[o].pc = "store" => pc = "mark"
    BY <1>2, <1>5 DEF MoveStep, MoveTo, MoveToPost, MoveToClear, MoveToStore, Mark
  <2>2. {n} \in SUBSET Node /\ pc \in OpenerPcs
    BY <2>1 DEF OpenerPcs, AtNode
  <2>3. /\ opener' \in [Opener -> OpenerRecord]
        /\ opener'[o].pc = pc /\ opener'[o].at = {n} /\ opener'[o].granted = opener[o].granted
        /\ \A q \in Opener \ {o} : opener'[q] = opener[q]
    BY <2>1, <2>2, GotoFact DEF NetInv
  <2>4. QED
    BY <1>1, <1>2, <1>3, <1>5, <2>1, <2>3
<1>6. QED
  BY <1>4, <1>5

\* The fields of the node.
LEMMA NodeSetFact ==
  ASSUME node \in [Node -> NodeRecord], NEW n \in Node, NodeSet(n)
  PROVE  /\ node' \in [Node -> NodeRecord]
         /\ \A m \in Node : /\ node'[m].live = node[m].live
                            /\ node'[m].nrefcount = node[m].nrefcount
                            /\ node'[m].finbound = node[m].finbound
                            /\ node'[m].ungranted = node[m].ungranted
                            /\ ~node[m].live => node'[m] = node[m]
                            /\ m # n => node'[m] = node[m]
<1>1. CASE node' = node
  BY <1>1
<1>2. CASE \E have \in BOOLEAN : node[n].live /\ node' = [node EXCEPT ![n].grantoutbound = have]
  BY <1>2 DEF NodeRecord
<1>3. CASE node[n].live /\ node' = [node EXCEPT ![n].fnetworknode = TRUE]
  BY <1>3 DEF NodeRecord
<1>4. QED
  BY <1>1, <1>2, <1>3 DEF NodeSet

\* The grant moves to the node; the node is marked as an outbound one.
LEMMA MoveInv ==
  ASSUME NetInv, NEW o \in Opener, MoveStep(o) PROVE NetInv'
<1>1. /\ node \in [Node -> NodeRecord] /\ shared \subseteq Node /\ semaphore \in Int
      /\ raced \in Nat
  BY Types DEF NetInv
<1>2. PICK n \in Node :
        NodeSet(n) /\ opener'[o].at = IF opener[o].pc = "mark" THEN {} ELSE {n}
  BY MoveFact
<1>3. /\ node' \in [Node -> NodeRecord]
      /\ \A m \in Node : /\ node'[m].live = node[m].live
                         /\ node'[m].nrefcount = node[m].nrefcount
                         /\ ~node[m].live => node'[m] = node[m]
  BY <1>1, <1>2, NodeSetFact
<1>4. semaphore' \in Int /\ raced' \in Nat
  <2>1. PICK b : raced' \in {raced, raced + Bit(b)} /\ semaphore' \in {semaphore, semaphore + 1}
    <3>1. CASE MoveTo(o)
      BY <3>1 DEF MoveTo
    <3>2. CASE ~MoveTo(o)
      BY <3>2 DEF MoveStep, MoveToPost, MoveToClear, MoveToStore, Mark
    <3>3. QED
      BY <3>1, <3>2
  <2>2. Bit(b) \in {0, 1}
    BY BitFact
  <2>3. QED
    BY <1>1, <2>1, <2>2
<1>5. IF opener'[o].pc \in AtNode THEN \E m \in Node : opener'[o].at = {m} ELSE opener'[o].at = {}
  BY <1>2, MoveFact DEF AtNode
<1>6. opener'[o].pc # "addref"
  BY MoveFact
<1>7. /\ UNCHANGED <<vnodes, vnodesdisconnected, socket, message, shared>>
      /\ opener' \in [Opener -> OpenerRecord]
      /\ \A q \in Opener \ {o} : opener'[q] = opener[q]
  BY MoveFact
<1>8. QED
  BY <1>1, <1>3, <1>4, <1>5, <1>6, <1>7, OpenerInv

\* Every step keeps the inductive invariant.
LEMMA NextInv == NetInv /\ [Next]_vars => NetInv'
<1> SUFFICES ASSUME NetInv, [Next]_vars PROVE NetInv'
  OBVIOUS
<1>1. CASE SocketThread
  BY <1>1, BeginPassInv, DisconnectInv, ReleaseGrantInv, PoolNodeInv, DeleteNodesInv, AcceptInv, SocketCopyInv,
     ServiceInv DEF SocketThread
<1>2. CASE MessageThread
  BY <1>2, MessageCopyInv, MessageInv DEF MessageThread
<1>3. ASSUME NEW o \in Opener, OpenerThread(o) PROVE NetInv'
  BY <1>3, SearchInv, AddRefInv, ConnectNodeInv, MoveInv DEF OpenerThread, MoveStep
<1>4. CASE UNCHANGED vars
  BY <1>4 DEF vars, NetInv, TypeOK, PlaceInv, ThreadInv, CountInv, Borrowers
<1>5. QED
  BY <1>1, <1>2, <1>3, <1>4 DEF Next

\* The inductive invariant holds in every reachable state.
THEOREM NetInvariance == Spec => []NetInv
<1>1. Init => NetInv
  BY InitInv
<1>2. NetInv /\ [Next]_vars => NetInv'
  BY NextInv
<1>3. QED
  BY <1>1, <1>2, PTL DEF Spec

\* Every variable keeps its type.
THEOREM TypeCorrect == Spec => []TypeOK
<1>1. NetInv => TypeOK
  BY DEF NetInv
<1>2. QED
  BY <1>1, NetInvariance, PTL

-----------------------------------------------------------------------------
(* The node of an opener *)

Owns(o, n) == Opened(o) /\ n \in opener[o].at

\* A node that only its creator's opener has touched is the connection of that
\* opener, which is still counted: it is not marked, so closing it drops nothing.
OwnedOk(n) ==
  /\ node[n].live /\ ~node[n].fnetworknode /\ ~node[n].finbound
  /\ n \in vnodesdisconnected => node[n].nrefcount >= Borrowers(n) + 1

OwnInv ==
  \A n \in Node \ shared, o \in Opener :
    Owns(o, n) => OwnedOk(n) /\ \A q \in Opener : Owns(q, n) => q = o

\* A step after which the openers' nodes are theirs as before, or one is shared.
LEMMA OwnKept ==
  ASSUME OwnInv,
         \A n \in Node \ shared', o \in Opener :
           Owns(o, n)' => n \notin shared /\ Owns(o, n) /\ (OwnedOk(n) => OwnedOk(n)')
  PROVE  OwnInv'
BY DEF OwnInv

\* The steps of the two threads that neither create, pool nor delete a node.
LEMMA ThreadOwn ==
  ASSUME NetInv, OwnInv,
         \/ BeginPass \/ Disconnect \/ SocketPost \/ SocketClear \/ SocketCopy \/ Service
         \/ MessageThread
  PROVE  OwnInv'
<1>1. /\ UNCHANGED <<opener, shared, vnodesdisconnected>>
      /\ node \in [Node -> NodeRecord] /\ socket \in SocketRecord
  BY Types DEF BeginPass, Disconnect, SocketPost, SocketClear, SocketCopy, Service, MessageThread,
               MessageCopy, Process, MessageRelease, NetInv
<1>2. \A n \in Node : /\ node'[n].live = node[n].live
                      /\ node'[n].fnetworknode = node[n].fnetworknode
                      /\ node'[n].finbound = node[n].finbound
  <2>1. CASE BeginPass \/ Disconnect \/ SocketPost
    BY <2>1 DEF BeginPass, Disconnect, SocketPost
  <2>2. CASE SocketClear
    <3>1. PICK n \in socket.cur : node' = [node EXCEPT ![n].grantoutbound = FALSE]
      BY <2>2 DEF SocketClear
    <3>2. QED
      BY <1>1, <3>1 DEF NodeRecord
  <2>3. CASE SocketCopy \/ MessageCopy
    BY <1>1, <2>3, AddRefsFact DEF SocketCopy, MessageCopy, SameKind
  <2>4. CASE Service \/ Process \/ MessageRelease
    BY <1>1, <2>4, ReleasesFact DEF Service, Process, MessageRelease, SameKind
  <2>5. QED
    BY <2>1, <2>2, <2>3, <2>4 DEF MessageThread
<1>3. ASSUME NEW n \in Node \ shared, n \in vnodesdisconnected,
             node[n].nrefcount >= Borrowers(n) + 1
      PROVE  node'[n].nrefcount >= Borrowers(n)' + 1
  <2>1. /\ node[n].nrefcount \in Int /\ Borrowers(n) \in {0, 1, 2} /\ n \notin vnodes
        /\ n \in socket.copy \cup message.copy => node[n].live
    BY <1>1, <1>3, Types DEF NodeRecord, NetInv, PlaceInv, CountInv
  <2>2. CASE BeginPass \/ Disconnect \/ SocketPost
    <3>1. socket'.copy = socket.copy /\ UNCHANGED <<node, message>>
      BY <1>1, <2>2 DEF BeginPass, Disconnect, SocketPost, SocketRecord
    <3>2. QED
      BY <1>3, <3>1 DEF Borrowers
  <2>3. CASE SocketClear
    <3>1. PICK m \in socket.cur : node' = [node EXCEPT ![m].grantoutbound = FALSE]
      BY <2>3 DEF SocketClear
    <3>2. node'[n].nrefcount = node[n].nrefcount
      BY <1>1, <3>1 DEF NodeRecord
    <3>3. socket'.copy = socket.copy /\ message' = message
      BY <1>1, <2>3 DEF SocketClear, SocketRecord
    <3>4. QED
      BY <1>3, <3>2, <3>3 DEF Borrowers
  <2>4. CASE SocketCopy \/ MessageCopy
    <3>1. /\ AddRefs(vnodes)
          /\ socket'.copy \in {socket.copy, vnodes} /\ message'.copy \in {message.copy, vnodes}
      <4>1. CASE SocketCopy
        BY <1>1, <4>1 DEF SocketCopy, SocketRecord
      <4>2. CASE MessageCopy
        BY <4>2 DEF MessageCopy
      <4>3. QED
        BY <2>4, <4>1, <4>2
    <3>2. node'[n].nrefcount = node[n].nrefcount + Bit(n \in vnodes)
      BY <1>1, <3>1, AddRefsFact
    <3>3. node'[n].nrefcount = node[n].nrefcount
      BY <2>1, <3>2 DEF Bit
    <3>4. (n \in socket'.copy => n \in socket.copy) /\ (n \in message'.copy => n \in message.copy)
      BY <2>1, <3>1
    <3>5. QED
      BY <1>3, <2>1, <3>3, <3>4 DEF Borrowers, Bit
  <2>5. CASE Service
    <3>1. PICK lost \in SUBSET socket.copy : Releases(socket.copy, lost)
      BY <2>5 DEF Service
    <3>2. node'[n].nrefcount = node[n].nrefcount - Bit(n \in socket.copy /\ node[n].live)
      BY <1>1, <3>1, ReleasesFact
    <3>3. socket'.copy = {} /\ message' = message
      BY <1>1, <2>5 DEF Service, SocketRecord
    <3>4. QED
      BY <1>3, <2>1, <3>2, <3>3 DEF Borrowers, Bit
  <2>6. CASE Process
    <3>1. PICK m \in message.copy : Releases({}, {m})
      BY <2>6 DEF Process
    <3>2. UNCHANGED <<socket, message>>
      BY <2>6 DEF Process
    <3>3. PICK S : S = {} /\ Releases(S, {m})
      BY <3>1
    <3>4. node'[n].nrefcount = node[n].nrefcount - Bit(n \in S /\ node[n].live)
      BY <1>1, <3>3, ReleasesFact
    <3>5. node'[n].nrefcount = node[n].nrefcount
      BY <2>1, <3>3, <3>4 DEF Bit
    <3>6. QED
      BY <1>3, <3>2, <3>5 DEF Borrowers
  <2>7. CASE MessageRelease
    <3>1. Releases(message.copy, {}) /\ message'.copy = {} /\ socket' = socket
      BY <2>7 DEF MessageRelease
    <3>2. node'[n].nrefcount = node[n].nrefcount - Bit(n \in message.copy /\ node[n].live)
      BY <1>1, <3>1, ReleasesFact
    <3>3. QED
      BY <1>3, <2>1, <3>1, <3>2 DEF Borrowers, Bit
  <2>8. QED
    BY <2>2, <2>3, <2>4, <2>5, <2>6, <2>7 DEF MessageThread
<1>4. ASSUME NEW n \in Node \ shared', NEW o \in Opener, Owns(o, n)'
      PROVE  n \notin shared /\ Owns(o, n) /\ (OwnedOk(n) => OwnedOk(n)')
  <2>1. n \in Node \ shared /\ Owns(o, n)
    BY <1>1, <1>4 DEF Owns, Opened
  <2>2. OwnedOk(n) => OwnedOk(n)'
    BY <1>1, <1>2, <1>3, <2>1 DEF OwnedOk
  <2>3. QED
    BY <2>1, <2>2
<1>5. QED
  BY <1>4, OwnKept

\* A node that its opener has not marked yet keeps its reference in the pool.
LEMMA PoolOwn ==
  ASSUME NetInv, OwnInv, PoolNode PROVE OwnInv'
<1>1. socket.pc = "release" /\ UNCHANGED <<message, opener, shared>>
      /\ socket' = [socket EXCEPT !.pc = "disconnect", !.cur = {}]
  BY DEF PoolNode
<1>2. PICK n \in socket.cur :
        /\ node' = [node EXCEPT ![n].nrefcount =
                                  @ - Bit(node[n].fnetworknode \/ node[n].finbound),
                                ![n].fdisconnect = TRUE, ![n].ungranted = FALSE]
        /\ vnodesdisconnected' = vnodesdisconnected \cup {n}
  BY DEF PoolNode
<1>3. n \in Node /\ node \in [Node -> NodeRecord] /\ socket \in SocketRecord
  BY <1>1, <1>2, Types DEF NetInv, ThreadInv, Closing
<1>4. \A m \in Node : Borrowers(m)' = Borrowers(m)
  <2>1. socket'.copy = socket.copy
    BY <1>1, <1>3 DEF SocketRecord
  <2>2. QED
    BY <1>1, <2>1 DEF Borrowers
<1>5. \A m \in Node \ {n} : node'[m] = node[m]
  BY <1>2, <1>3
<1>6. ASSUME n \notin shared, OwnedOk(n) PROVE OwnedOk(n)'
  <2>1. ~(node[n].fnetworknode \/ node[n].finbound) /\ node[n].live
    BY <1>6 DEF OwnedOk
  <2>2. PICK k : k = Bit(node[n].fnetworknode \/ node[n].finbound) /\ k = 0
    BY <2>1 DEF Bit
  <2>3. node' = [node EXCEPT ![n].nrefcount = @ - k, ![n].fdisconnect = TRUE,
                             ![n].ungranted = FALSE]
    BY <1>2, <2>2
  <2>4. node[n] \in NodeRecord /\ node[n].nrefcount \in Int
    BY <1>3 DEF NodeRecord
  <2>5. node'[n] = [node[n] EXCEPT !.nrefcount = @ - k, !.fdisconnect = TRUE, !.ungranted = FALSE]
    BY <1>3, <2>3
  <2>6. /\ node'[n].live = node[n].live /\ node'[n].fnetworknode = node[n].fnetworknode
        /\ node'[n].finbound = node[n].finbound
    BY <2>4, <2>5 DEF NodeRecord
  <2>7. node'[n].nrefcount = node[n].nrefcount - k
    BY <2>4, <2>5 DEF NodeRecord
  <2>8. node[n].nrefcount = Borrowers(n) + 1
    BY <1>2, <1>3, <1>6 DEF NetInv, CountInv
  <2>9. node'[n].nrefcount = Borrowers(n)' + 1
    BY <1>3, <1>4, <2>2, <2>4, <2>7, <2>8
  <2>10. Borrowers(n)' \in {0, 1, 2}
    BY <1>3, <1>4, Types DEF NetInv
  <2>11. QED
    BY <2>1, <2>6, <2>9, <2>10 DEF OwnedOk
<1>7. ASSUME NEW m \in Node \ shared', NEW o \in Opener, Owns(o, m)'
      PROVE  m \notin shared /\ Owns(o, m) /\ (OwnedOk(m) => OwnedOk(m)')
  <2>1. m \in Node \ shared /\ Owns(o, m)
    BY <1>1, <1>7 DEF Owns, Opened
  <2>2. CASE m = n
    BY <1>6, <2>1, <2>2
  <2>3. CASE m # n
    BY <1>2, <1>4, <1>5, <2>1, <2>3 DEF OwnedOk
  <2>4. QED
    BY <2>1, <2>2, <2>3
<1>8. QED
  BY <1>7, OwnKept

\* So that it is not deleted.
LEMMA DeleteOwn ==
  ASSUME NetInv, OwnInv, DeleteNodes PROVE OwnInv'
<1>1. /\ UNCHANGED <<message, opener, shared>> /\ socket' = [socket EXCEPT !.pc = "accept"]
  BY DEF DeleteNodes
<1>2. PICK gone \in SUBSET vnodesdisconnected :
        /\ \A n \in gone : node[n].nrefcount <= 0
        /\ vnodesdisconnected' = vnodesdisconnected \ gone
        /\ node' = [n \in Node |-> IF n \in gone THEN Deleted ELSE node[n]]
  BY DEF DeleteNodes
<1>3. node \in [Node -> NodeRecord] /\ gone \subseteq Node /\ socket \in SocketRecord
  BY <1>2, Types DEF NetInv, TypeOK
<1>4. \A m \in Node : Borrowers(m)' = Borrowers(m)
  <2>1. socket'.copy = socket.copy
    BY <1>1, <1>3 DEF SocketRecord
  <2>2. QED
    BY <1>1, <2>1 DEF Borrowers
<1>5. ASSUME NEW m \in Node \ shared', NEW o \in Opener, Owns(o, m)'
      PROVE  m \notin shared /\ Owns(o, m) /\ (OwnedOk(m) => OwnedOk(m)')
  <2>1. m \in Node \ shared /\ Owns(o, m)
    BY <1>1, <1>5 DEF Owns, Opened
  <2>2. OwnedOk(m)
    BY <2>1 DEF OwnInv
  <2>3. m \notin gone
    <3>1. node[m].nrefcount \in Int /\ Borrowers(m) \in {0, 1, 2}
      BY <1>3, <2>1, Types DEF NodeRecord, NetInv
    <3>2. QED
      BY <1>2, <2>2, <3>1 DEF OwnedOk
  <2>4. node'[m] = node[m]
    BY <1>2, <2>1, <2>3
  <2>5. QED
    BY <1>2, <1>4, <2>1, <2>2, <2>4 DEF OwnedOk
<1>6. QED
  BY <1>5, OwnKept

\* A node is created where nothing points to; its opener is the first one.
LEMMA CreateOwn ==
  ASSUME NetInv, OwnInv, NEW n \in Fresh, NEW i \in BOOLEAN, NEW d \in BOOLEAN, NEW g \in BOOLEAN,
         node' = [node EXCEPT ![n] = Created(i, d, g)], shared' = shared \ {n},
         UNCHANGED <<vnodesdisconnected, socket, message>>,
         \/ UNCHANGED opener
         \/ \E o \in Opener : /\ \A q \in Opener \ {o} : opener'[q] = opener[q]
                              /\ opener'[o].at = {n} /\ ~i
  PROVE  OwnInv'
<1>1. /\ n \in Node /\ ~node[n].live /\ \A o \in Opener : n \notin opener[o].at
      /\ n \notin vnodesdisconnected /\ node \in [Node -> NodeRecord]
  BY Types DEF Fresh, Pointed, NetInv, PlaceInv
<1>2. /\ node'[n].live /\ ~node'[n].fnetworknode /\ (~i => ~node'[n].finbound)
      /\ \A m \in Node \ {n} : node'[m] = node[m]
  BY <1>1, RecordFact
<1>3. \A m \in Node : Borrowers(m)' = Borrowers(m)
  BY DEF Borrowers
<1>4. ASSUME NEW m \in Node \ shared', NEW o \in Opener, Owns(o, m)'
      PROVE  OwnedOk(m)' /\ \A q \in Opener : Owns(q, m)' => q = o
  <2>1. CASE m # n
    <3>1. \A q \in Opener : Owns(q, m)' => Owns(q, m)
      BY <1>1, <2>1 DEF Owns, Opened
    <3>2. m \notin shared /\ OwnedOk(m) /\ \A q \in Opener : Owns(q, m) => q = o
      BY <1>4, <2>1, <3>1 DEF OwnInv
    <3>3. OwnedOk(m)'
      BY <1>2, <1>3, <2>1, <3>2 DEF OwnedOk
    <3>4. QED
      BY <3>1, <3>2, <3>3
  <2>2. CASE m = n
    <3>1. opener'[o].at # opener[o].at
      BY <1>1, <1>4, <2>2 DEF Owns
    <3>2. /\ ~i /\ \A q \in Opener : Owns(q, n)' => q = o
      BY <1>1, <3>1 DEF Owns
    <3>3. OwnedOk(n)'
      BY <1>1, <1>2, <3>2 DEF OwnedOk
    <3>4. QED
      BY <2>2, <3>2, <3>3
  <2>3. QED
    BY <2>1, <2>2
<1>5. QED
  BY <1>4 DEF OwnInv

\* An opener that has no node of its own yet, or gives it up.
LEMMA OpenerOwn ==
  ASSUME NetInv, OwnInv, NEW o \in Opener, shared \subseteq shared',
         UNCHANGED <<vnodesdisconnected, socket, message>>,
         \A n \in Node \ shared' :
           /\ node'[n].live = node[n].live /\ node'[n].finbound = node[n].finbound
           /\ node'[n].nrefcount = node[n].nrefcount
           /\ \/ node'[n].fnetworknode = node[n].fnetworknode
              \/ Owns(o, n) /\ ~Owns(o, n)',
         \A q \in Opener \ {o} : opener'[q] = opener[q],
         \A n \in Node \ shared' : Owns(o, n)' => Owns(o, n)
  PROVE  OwnInv'
<1>1. \A n \in Node : Borrowers(n)' = Borrowers(n)
  BY DEF Borrowers
<1>2. ASSUME NEW n \in Node \ shared', NEW q \in Opener, Owns(q, n)'
      PROVE  n \notin shared /\ Owns(q, n) /\ (OwnedOk(n) => OwnedOk(n)')
  <2>1. n \in Node \ shared /\ Owns(q, n)
    <3>1. CASE q = o
      BY <1>2, <3>1
    <3>2. CASE q # o
      BY <1>2, <3>2 DEF Owns, Opened
    <3>3. QED
      BY <3>1, <3>2
  <2>2. node'[n].fnetworknode = node[n].fnetworknode
    <3>1. CASE Owns(o, n) /\ ~Owns(o, n)'
      <4>1. q = o
        BY <2>1, <3>1 DEF OwnInv
      <4>2. QED
        BY <1>2, <3>1, <4>1
    <3>2. CASE ~(Owns(o, n) /\ ~Owns(o, n)')
      BY <1>2, <3>2
    <3>3. QED
      BY <3>1, <3>2
  <2>3. OwnedOk(n) => OwnedOk(n)'
    BY <1>1, <1>2, <2>1, <2>2 DEF OwnedOk
  <2>4. QED
    BY <2>1, <2>3
<1>3. QED
  BY <1>2, OwnKept

\* The openers that look for a node or take one over.
LEMMA SearchOwn ==
  ASSUME NetInv, OwnInv, NEW o \in Opener,
         \/ \E g \in BOOLEAN : Open(o, g)
         \/ FindNode(o) \/ ConnectFails(o) \/ AddRefLoad(o)
  PROVE  OwnInv'
<1>1. /\ UNCHANGED <<node, vnodesdisconnected, socket, message>> /\ shared \subseteq shared'
      /\ opener \in [Opener -> OpenerRecord] /\ node \in [Node -> NodeRecord]
  BY Types DEF Open, FindNode, ConnectFails, AddRefLoad, NetInv
<1>2. /\ opener'[o].pc \in {"idle", "connect", "find", "found", "addref"}
      /\ \A q \in Opener \ {o} : opener'[q] = opener[q]
  <2>1. CASE \E g \in BOOLEAN : Open(o, g)
    BY <2>1, OpenFact DEF NetInv
  <2>2. CASE ConnectFails(o)
    BY <2>2, ReturnFact DEF ConnectFails, NetInv
  <2>3. CASE FindNode(o)
    <3>1. PICK pc, at : pc \in {"connect", "found"} /\ Goto(o, pc, at)
      <4>1. CASE vnodes \ Inbound = {}
        BY <2>3, <4>1 DEF FindNode
      <4>2. CASE vnodes \ Inbound # {}
        <5>1. PICK n \in vnodes \ Inbound : Goto(o, "found", {n})
          BY <2>3, <4>2 DEF FindNode
        <5>2. QED
          BY <5>1
      <4>3. QED
        BY <4>1, <4>2
    <3>2. QED
      BY <1>1, <3>1 DEF Goto, OpenerRecord
  <2>4. CASE AddRefLoad(o)
    BY <1>1, <2>4 DEF AddRefLoad, OpenerRecord
  <2>5. QED
    BY <2>1, <2>2, <2>3, <2>4
<1>3. \A n \in Node : ~Owns(o, n)'
  BY <1>2 DEF Owns, Opened
<1>4. QED
  BY <1>1, <1>2, <1>3, OpenerOwn

\* The ones that are shared, or move the grant to their node.
LEMMA HoldOwn ==
  ASSUME NetInv, OwnInv, NEW o \in Opener, AddRefStore(o) \/ MoveStep(o)
  PROVE  OwnInv'
<1>1. node \in [Node -> NodeRecord] /\ opener \in [Opener -> OpenerRecord]
  BY Types DEF NetInv
<1>2. CASE AddRefStore(o)
  <2>1. /\ opener[o].pc = "addref" /\ Goto(o, "move", opener[o].at)
        /\ UNCHANGED <<vnodesdisconnected, socket, message, shared>>
    BY <1>2 DEF AddRefStore
  <2>2. PICK n, k :
          n \in opener[o].at /\ node' = IF node[n].live THEN [node EXCEPT ![n].nrefcount = k] ELSE node
    BY <1>2 DEF AddRefStore
  <2>3. opener[o].at = {n} /\ n \in shared
    BY <2>1, <2>2 DEF NetInv, ThreadInv, AtNode
  <2>4. \A m \in Node \ shared : node'[m] = node[m]
    BY <1>1, <2>2, <2>3
  <2>5. opener'[o].at = {n} /\ \A q \in Opener \ {o} : opener'[q] = opener[q]
    BY <1>1, <2>1, <2>3 DEF Goto, OpenerRecord
  <2>6. \A m \in Node \ shared' : ~Owns(o, m)'
    BY <2>1, <2>3, <2>5 DEF Owns
  <2>7. QED
    BY <2>1, <2>4, <2>5, <2>6, OpenerOwn
<1>3. CASE MoveStep(o)
  <2>1. /\ UNCHANGED <<vnodesdisconnected, socket, message, shared>>
        /\ \A q \in Opener \ {o} : opener'[q] = opener[q]
        /\ opener[o].pc \in {"move", "post", "clear", "store", "mark"}
    BY <1>3, MoveFact
  <2>2. PICK n \in Node :
          /\ opener[o].at = {n} /\ NodeSet(n)
          /\ opener'[o].at = IF opener[o].pc = "mark" THEN {} ELSE {n}
    BY <1>3, MoveFact
  <2>3. \A m \in Node : /\ node'[m].live = node[m].live /\ node'[m].finbound = node[m].finbound
                        /\ node'[m].nrefcount = node[m].nrefcount
                        /\ m # n => node'[m] = node[m]
    BY <1>1, <2>2, NodeSetFact
  <2>4. \A m \in Node : Owns(o, m)' => Owns(o, m)
    BY <2>1, <2>2 DEF Owns, Opened
  <2>5. \/ node'[n].fnetworknode = node[n].fnetworknode
        \/ Owns(o, n) /\ ~Owns(o, n)'
    <3>1. CASE opener[o].pc = "mark"
      BY <2>1, <2>2, <3>1 DEF Owns, Opened
    <3>2. CASE opener[o].pc # "mark"
      <4>1. PICK have : node' = node \/ node' = [node EXCEPT ![n].grantoutbound = have]
        BY <1>3, <2>2, <3>2
           DEF MoveStep, MoveTo, MoveToPost, MoveToClear, MoveToStore, Mark, SetGrant
      <4>2. QED
        BY <1>1, <4>1 DEF NodeRecord
    <3>3. QED
      BY <3>1, <3>2
  <2>6. \A m \in Node \ shared' :
          /\ node'[m].live = node[m].live /\ node'[m].finbound = node[m].finbound
          /\ node'[m].nrefcount = node[m].nrefcount
          /\ \/ node'[m].fnetworknode = node[m].fnetworknode
             \/ Owns(o, m) /\ ~Owns(o, m)'
    BY <2>3, <2>5
  <2>7. shared \subseteq shared' /\ \A m \in Node \ shared' : Owns(o, m)' => Owns(o, m)
    BY <2>1, <2>4
  <2>8. QED
    BY <2>1, <2>6, <2>7, OpenerOwn
<1>4. QED
  BY <1>2, <1>3

\* For any number of objects and openers: a node in the copy of vnodes that the
\* socket or the message thread works on is not deleted, nor is one that its opener
\* still moves the grant to and marks, and no reference count goes below zero,
\* unless a second opener took the node over without the lock.
THEOREM BorrowedAlwaysLive == Spec => []BorrowedIsLive
<1>1. Init => OwnInv
  <2> SUFFICES ASSUME Init PROVE OwnInv
    OBVIOUS
  <2>1. \A o \in Opener : ~Opened(o)
    BY DEF Init, Opened, Idle
  <2>2. QED
    BY <2>1 DEF OwnInv, Owns
<1>2. NetInv /\ OwnInv /\ [Next]_vars => OwnInv'
  <2> SUFFICES ASSUME NetInv, OwnInv, [Next]_vars PROVE OwnInv'
    OBVIOUS
  <2>1. CASE SocketThread
    <3>1. CASE Accept
      <4>1. PICK n \in Fresh :
              /\ node' = [node EXCEPT ![n] = Created(TRUE, FALSE, FALSE)]
              /\ shared' = shared \ {n}
              /\ UNCHANGED <<vnodesdisconnected, socket, message, opener>>
        BY <3>1 DEF Accept
      <4>2. QED
        BY <4>1, CreateOwn
    <3>2. QED
      BY <2>1, <3>1, ThreadOwn, PoolOwn, DeleteOwn DEF SocketThread
  <2>2. CASE MessageThread
    BY <2>2, ThreadOwn
  <2>3. ASSUME NEW o \in Opener, OpenerThread(o) PROVE OwnInv'
    <3>1. CASE ConnectNode(o)
      <4>1. PICK n \in Fresh :
              /\ node' = [node EXCEPT ![n] = Created(FALSE, o \in ByName, ~opener[o].granted)]
              /\ shared' = shared \ {n}
              /\ Goto(o, IF opener[o].granted THEN "move" ELSE "mark", {n})
        BY <3>1 DEF ConnectNode
      <4>2. UNCHANGED <<vnodesdisconnected, socket, message>>
        BY <3>1 DEF ConnectNode
      <4>3. opener'[o].at = {n} /\ \A q \in Opener \ {o} : opener'[q] = opener[q]
        BY <4>1, Types DEF Goto, OpenerRecord, NetInv
      <4>4. PICK d \in BOOLEAN, g \in BOOLEAN : node' = [node EXCEPT ![n] = Created(FALSE, d, g)]
        <5>1. (o \in ByName) \in BOOLEAN /\ (~opener[o].granted) \in BOOLEAN
          OBVIOUS
        <5>2. QED
          BY <4>1, <5>1, Zenon
      <4>5. QED
        BY <4>1, <4>2, <4>3, <4>4, CreateOwn
    <3>2. QED
      BY <2>3, <3>1, SearchOwn, HoldOwn DEF OpenerThread, MoveStep
  <2>4. CASE UNCHANGED vars
    BY <2>4 DEF vars, OwnInv, Owns, Opened, OwnedOk, Borrowers
  <2>5. QED
    BY <2>1, <2>2, <2>3, <2>4 DEF Next
<1>3. NetInv /\ OwnInv => BorrowedIsLive
  <2> SUFFICES ASSUME NetInv, OwnInv, NEW n \in Node \ shared
               PROVE  /\ n \in socket.copy \cup message.copy => node[n].live
                      /\ \A o \in Opener : Opened(o) /\ n \in opener[o].at => node[n].live
                      /\ node[n].nrefcount >= 0
    BY DEF BorrowedIsLive
  <2>1. n \in socket.copy \cup message.copy => node[n].live
    BY DEF NetInv, CountInv
  <2>2. Borrowers(n) \in {0, 1, 2} /\ node[n].nrefcount \in Int
    BY Types DEF NetInv, NodeRecord
  <2>3. node[n].nrefcount >= 0
    BY <2>2 DEF NetInv, CountInv, PlaceInv
  <2>4. \A o \in Opener : Opened(o) /\ n \in opener[o].at => node[n].live
    BY DEF OwnInv, Owns, OwnedOk
  <2>5. QED
    BY <2>1, <2>3, <2>4
<1>4. QED
  BY <1>1, <1>2, <1>3, NetInvariance, PTL DEF Spec

-----------------------------------------------------------------------------
(* Slots *)

Holders == {o \in Opener : Holds(o)}

SocketReleases(n) == socket.pc \in {"post", "clear"} /\ n \in socket.cur
OpenerReleases(o, n) == opener[o].pc \in {"post", "clear"} /\ n \in opener[o].at
SocketPosted(n) == socket.pc = "clear" /\ n \in socket.cur
OpenerPosted(o, n) == opener[o].pc = "clear" /\ n \in opener[o].at

\* An opener that moves a grant to its node has one.
GrantOk(o) ==
  /\ opener[o].pc = "idle" => ~opener[o].granted
  /\ opener[o].pc \notin {"idle", "connect", "mark"} => opener[o].granted

GrantInv == \A o \in Opener : GrantOk(o)

\* Until two threads meet at a grant, it is released by one thread, and only while
\* the node has it.
RaceOk(n) ==
  /\ SocketReleases(n) => node[n].grantoutbound /\ \A o \in Opener : ~OpenerReleases(o, n)
  /\ \A o \in Opener : OpenerReleases(o, n) =>
       node[n].grantoutbound /\ \A q \in Opener : OpenerReleases(q, n) => q = o

RaceInv == raced = 0 => \A n \in Node : RaceOk(n)

\* The three parts of SlotsBounded.
SlotCount == raced = 0 => semaphore + Cardinality(Holders) + Cardinality(Occupying) <= MaxOutbound
Covered(n) ==
  \/ node[n].ungranted
  \/ node[n].grantoutbound
  \/ \E o \in Opener : Holds(o) /\ opener[o].at = {n}
SlotCover == \A n \in vnodes : node[n].finbound \/ Covered(n)

SlotInv == GrantInv /\ RaceInv /\ SlotCount /\ SlotCover /\ Cardinality(Inbound) <= MaxInbound

\* The names of the invariant and of the specification say the same.
LEMMA ReleaseNames ==
  /\ \A n \in Node : Releasing(n) <=> SocketReleases(n) \/ \E o \in Opener : OpenerReleases(o, n)
  /\ Occupying = {n \in Node : /\ node[n].grantoutbound /\ ~SocketPosted(n)
                               /\ \A o \in Opener : ~OpenerPosted(o, n)}
  /\ Occupying' = {n \in Node : /\ node'[n].grantoutbound /\ ~SocketPosted(n)'
                                /\ \A o \in Opener : ~OpenerPosted(o, n)'}
BY DEF Releasing, ReleasingAt, SocketReleases, OpenerReleases, Occupying, SocketPosted, OpenerPosted

\* The slots that openers and nodes occupy can be counted.
LEMMA SlotSets ==
  ASSUME TypeOK
  PROVE  /\ IsFiniteSet(Holders) /\ Cardinality(Holders) \in Nat
         /\ IsFiniteSet(Occupying) /\ Cardinality(Occupying) \in Nat
         /\ IsFiniteSet(Inbound) /\ Cardinality(Inbound) \in Nat
<1>1. IsFiniteSet(Holders) /\ IsFiniteSet(Occupying)
  BY NetAssumption, FS_Subset DEF Holders, Occupying
<1>2. IsFiniteSet(Inbound)
  BY NetAssumption, FS_Subset DEF Inbound, TypeOK
<1>3. QED
  BY <1>1, <1>2, FS_CardinalityType

\* Inbound nodes may only become fewer, unless one is accepted.
LEMMA InboundKept ==
  ASSUME TypeOK, Cardinality(Inbound) <= MaxInbound,
         vnodes' \subseteq vnodes, \A n \in vnodes' : node'[n].finbound = node[n].finbound
  PROVE  Cardinality(Inbound') <= MaxInbound
<1>1. Inbound' \subseteq Inbound
  BY DEF Inbound
<1>2. IsFiniteSet(Inbound) /\ Cardinality(Inbound) \in Nat
  BY SlotSets
<1>3. Cardinality(Inbound') <= Cardinality(Inbound) /\ Cardinality(Inbound') \in Nat
  BY <1>1, <1>2, FS_Subset, FS_CardinalityType
<1>4. QED
  BY <1>2, <1>3, NetAssumption

\* No thread begins to release a grant.
LEMMA RaceKept ==
  ASSUME RaceInv, raced' = 0 => raced = 0,
         raced' = 0 =>
           \A n \in Node :
             /\ SocketReleases(n)' => SocketReleases(n) /\ node'[n].grantoutbound
             /\ \A o \in Opener :
                  OpenerReleases(o, n)' => OpenerReleases(o, n) /\ node'[n].grantoutbound
  PROVE  RaceInv'
<1> SUFFICES ASSUME raced' = 0, NEW n \in Node PROVE RaceOk(n)'
  BY DEF RaceInv
<1>1. RaceOk(n)
  BY DEF RaceInv
<1>2. QED
  BY <1>1 DEF RaceOk

\* A step that moves no grant, and connects and disconnects nobody.
LEMMA SlotsKept ==
  ASSUME NetInv, SlotInv, UNCHANGED <<semaphore, vnodes, raced>>, GrantInv',
         \A n \in Node : /\ node'[n].grantoutbound = node[n].grantoutbound
                         /\ node'[n].finbound = node[n].finbound
                         /\ SocketReleases(n)' <=> SocketReleases(n)
                         /\ SocketPosted(n)' <=> SocketPosted(n),
         \A n \in vnodes : node'[n].ungranted = node[n].ungranted,
         \A o \in Opener, n \in Node : /\ OpenerReleases(o, n)' <=> OpenerReleases(o, n)
                                       /\ OpenerPosted(o, n)' <=> OpenerPosted(o, n),
         \A o \in Opener : Holds(o)' <=> Holds(o),
         \A o \in Opener : Holds(o) => opener'[o].at = opener[o].at \/ opener[o].at = {}
  PROVE  SlotInv'
<1>1. vnodes \subseteq Node
  BY Types DEF NetInv
<1>2. Occupying' = Occupying
  BY ReleaseNames
<1>3. Holders' = Holders
  BY DEF Holders
<1>4. RaceInv'
  <2>1. ASSUME NEW n \in Node, raced = 0
        PROVE  /\ SocketReleases(n)' => SocketReleases(n) /\ node'[n].grantoutbound
               /\ \A o \in Opener :
                    OpenerReleases(o, n)' => OpenerReleases(o, n) /\ node'[n].grantoutbound
    <3>1. RaceOk(n)
      BY <2>1 DEF SlotInv, RaceInv
    <3>2. QED
      BY <3>1 DEF RaceOk
  <2>2. QED
    BY <2>1, RaceKept DEF SlotInv
<1>5. SlotCover'
  BY <1>1 DEF SlotInv, SlotCover, Covered
<1>6. Cardinality(Inbound') <= MaxInbound
  BY <1>1, InboundKept DEF SlotInv, NetInv
<1>7. QED
  BY <1>2, <1>3, <1>4, <1>5, <1>6 DEF SlotInv, SlotCount

\* The socket thread's and the message thread's steps that move no grant.
LEMMA ThreadSlots ==
  ASSUME NetInv, SlotInv, BeginPass \/ PoolNode \/ SocketCopy \/ Service \/ MessageThread
  PROVE  SlotInv'
<1>1. /\ UNCHANGED <<semaphore, vnodes, raced>> /\ opener' = opener /\ vnodes \subseteq Node
      /\ node \in [Node -> NodeRecord] /\ socket \in SocketRecord
  BY Types DEF BeginPass, PoolNode, SocketCopy, Service, MessageThread, MessageCopy, Process,
               MessageRelease, NetInv
<1>2. \A n \in Node : /\ node'[n].grantoutbound = node[n].grantoutbound
                      /\ node'[n].finbound = node[n].finbound
                      /\ n \in vnodes => node'[n].ungranted = node[n].ungranted
  <2>1. CASE BeginPass
    BY <2>1 DEF BeginPass
  <2>2. CASE PoolNode
    <3>1. PICK n, k :
            /\ n \in socket.cur
            /\ node' = [node EXCEPT ![n].nrefcount = k, ![n].fdisconnect = TRUE,
                                    ![n].ungranted = FALSE]
      BY <2>2 DEF PoolNode
    <3>2. n \notin vnodes /\ n \in Node
      BY <3>1, Types DEF NetInv, PlaceInv
    <3>3. node[n] \in NodeRecord
      BY <1>1, <3>2
    <3>4. node'[n] = [node[n] EXCEPT !.nrefcount = k, !.fdisconnect = TRUE, !.ungranted = FALSE]
      BY <1>1, <3>1, <3>2
    <3>5. node'[n].grantoutbound = node[n].grantoutbound /\ node'[n].finbound = node[n].finbound
      BY <3>3, <3>4 DEF NodeRecord
    <3>6. \A m \in Node \ {n} : node'[m] = node[m]
      BY <1>1, <3>1
    <3>7. QED
      BY <3>2, <3>5, <3>6
  <2>3. CASE SocketCopy \/ MessageCopy
    BY <1>1, <2>3, AddRefsFact DEF SocketCopy, MessageCopy, SameKind
  <2>4. CASE Service \/ Process \/ MessageRelease
    BY <1>1, <2>4, ReleasesFact DEF Service, Process, MessageRelease, SameKind
  <2>5. QED
    BY <2>1, <2>2, <2>3, <2>4 DEF MessageThread
<1>3. \A n \in Node : /\ SocketReleases(n)' <=> SocketReleases(n)
                      /\ SocketPosted(n)' <=> SocketPosted(n)
  <2>1. socket' = socket \/ (socket.pc \notin {"post", "clear"} /\ socket'.pc \notin {"post", "clear"})
    <3>1. CASE MessageThread
      BY <3>1 DEF MessageThread, MessageCopy, Process, MessageRelease
    <3>2. CASE BeginPass \/ PoolNode \/ SocketCopy \/ Service
      BY <1>1, <3>2 DEF BeginPass, PoolNode, SocketCopy, Service, SocketRecord
    <3>3. QED
      BY <3>1, <3>2
  <2>2. QED
    BY <2>1 DEF SocketReleases, SocketPosted
<1>4. /\ \A o \in Opener, n \in Node : /\ OpenerReleases(o, n)' <=> OpenerReleases(o, n)
                                       /\ OpenerPosted(o, n)' <=> OpenerPosted(o, n)
      /\ \A o \in Opener : (Holds(o)' <=> Holds(o)) /\ (GrantOk(o)' <=> GrantOk(o))
  BY <1>1 DEF OpenerReleases, OpenerPosted, Holds, GrantOk
<1>5. GrantInv'
  BY <1>4 DEF SlotInv, GrantInv
<1>6. QED
  BY <1>1, <1>2, <1>3, <1>4, <1>5, SlotsKept

\* Steps of an opener that leave its grant where it is, except in moveto().
LEMMA OpenerSlots ==
  ASSUME NetInv, SlotInv, NEW o \in Opener,
         FindNode(o) \/ AddRefLoad(o) \/ AddRefStore(o) \/ Mark(o)
  PROVE  SlotInv'
<1>1. /\ UNCHANGED <<semaphore, vnodes, raced>> /\ socket' = socket /\ vnodes \subseteq Node
      /\ node \in [Node -> NodeRecord] /\ opener \in [Opener -> OpenerRecord]
  BY Types DEF FindNode, AddRefLoad, AddRefStore, Mark, NetInv
<1>2. PICK n, k : \/ node' = node
                  \/ node' = [node EXCEPT ![n].nrefcount = k]
                  \/ node' = [node EXCEPT ![n].fnetworknode = k]
  BY DEF FindNode, AddRefLoad, AddRefStore, Mark
<1>3. \A m \in Node : /\ node'[m].grantoutbound = node[m].grantoutbound
                      /\ node'[m].finbound = node[m].finbound
                      /\ node'[m].ungranted = node[m].ungranted
  BY <1>1, <1>2 DEF NodeRecord
<1>4. /\ \A q \in Opener \ {o} : opener'[q] = opener[q]
      /\ opener[o].pc \notin {"post", "clear"} /\ opener'[o].pc \notin {"post", "clear"}
      /\ Holds(o)' <=> Holds(o)
      /\ Holds(o) => opener'[o].at = opener[o].at \/ opener[o].at = {}
      /\ GrantOk(o) => GrantOk(o)'
  <2>1. CASE FindNode(o)
    <3>1. opener[o].pc = "find" /\ opener[o].at = {}
      BY <2>1 DEF FindNode, NetInv, ThreadInv, AtNode
    <3>2. PICK pc, at : pc \in {"connect", "found"} /\ Goto(o, pc, at)
      <4>1. CASE vnodes \ Inbound = {}
        BY <2>1, <4>1 DEF FindNode
      <4>2. CASE vnodes \ Inbound # {}
        <5>1. PICK m \in vnodes \ Inbound : Goto(o, "found", {m})
          BY <2>1, <4>2 DEF FindNode
        <5>2. QED
          BY <5>1
      <4>3. QED
        BY <4>1, <4>2
    <3>3. /\ opener'[o].pc = pc /\ opener'[o].granted = opener[o].granted
          /\ \A q \in Opener \ {o} : opener'[q] = opener[q]
      BY <1>1, <3>2 DEF Goto, OpenerRecord
    <3>4. QED
      BY <3>1, <3>2, <3>3 DEF Holds, GrantOk
  <2>2. CASE AddRefLoad(o)
    BY <1>1, <2>2 DEF AddRefLoad, Holds, GrantOk, OpenerRecord
  <2>3. CASE AddRefStore(o)
    <3>1. opener[o].pc = "addref" /\ Goto(o, "move", opener[o].at)
      BY <2>3 DEF AddRefStore
    <3>2. /\ opener'[o].pc = "move" /\ opener'[o].at = opener[o].at
          /\ opener'[o].granted = opener[o].granted
          /\ \A q \in Opener \ {o} : opener'[q] = opener[q]
      BY <1>1, <3>1 DEF Goto, OpenerRecord
    <3>3. QED
      BY <3>1, <3>2 DEF Holds, GrantOk
  <2>4. CASE Mark(o)
    <3>1. opener[o].pc = "mark" /\ Return(o)
      BY <2>4 DEF Mark
    <3>2. QED
      BY <3>1, ReturnFact DEF Holds, GrantOk, NetInv
  <2>5. QED
    BY <2>1, <2>2, <2>3, <2>4
<1>5. \A q \in Opener : /\ Holds(q)' <=> Holds(q)
                        /\ Holds(q) => opener'[q].at = opener[q].at \/ opener[q].at = {}
                        /\ GrantOk(q) => GrantOk(q)'
  BY <1>4 DEF Holds, GrantOk
<1>6. \A q \in Opener, m \in Node : /\ OpenerReleases(q, m)' <=> OpenerReleases(q, m)
                                    /\ OpenerPosted(q, m)' <=> OpenerPosted(q, m)
  BY <1>4 DEF OpenerReleases, OpenerPosted
<1>7. \A m \in Node : /\ SocketReleases(m)' <=> SocketReleases(m)
                      /\ SocketPosted(m)' <=> SocketPosted(m)
  BY <1>1 DEF SocketReleases, SocketPosted
<1>8. GrantInv'
  BY <1>5 DEF SlotInv, GrantInv
<1>9. QED
  BY <1>1, <1>3, <1>5, <1>6, <1>7, <1>8, SlotsKept

\* A node leaves vnodes; its grant is still to be posted.
LEMMA DisconnectSlots ==
  ASSUME NetInv, SlotInv, Disconnect PROVE SlotInv'
<1>1. PICK n \in socket.todo :
        /\ vnodes' = vnodes \ {n}
        /\ socket' = [socket EXCEPT !.pc = IF node[n].grantoutbound THEN "post" ELSE "release",
                                    !.todo = @ \ {n}, !.cur = {n}]
        /\ raced' = raced + Bit(node[n].grantoutbound /\ Releasing(n))
  BY DEF Disconnect
<1>2. /\ socket.pc = "disconnect" /\ n \in Node /\ node' = node /\ opener' = opener
      /\ semaphore' = semaphore /\ vnodes \subseteq Node /\ socket \in SocketRecord /\ raced \in Nat
  BY <1>1, Types DEF NetInv, Disconnect
<1>3. /\ socket'.pc = (IF node[n].grantoutbound THEN "post" ELSE "release") /\ socket'.cur = {n}
  BY <1>1, <1>2 DEF SocketRecord
<1>4. raced' = 0 => raced = 0 /\ ~(node[n].grantoutbound /\ Releasing(n))
  <2>1. PICK b : (b <=> (node[n].grantoutbound /\ Releasing(n))) /\ raced' = raced + Bit(b)
    BY <1>1
  <2>2. Bit(b) \in {0, 1} /\ (b => Bit(b) = 1)
    BY BitFact
  <2>3. QED
    BY <1>2, <2>1, <2>2
<1>5. \A o \in Opener, m \in Node : /\ OpenerReleases(o, m)' <=> OpenerReleases(o, m)
                                    /\ OpenerPosted(o, m)' <=> OpenerPosted(o, m)
  BY <1>2 DEF OpenerReleases, OpenerPosted
<1>6. \A m \in Node : /\ ~SocketReleases(m) /\ ~SocketPosted(m) /\ ~SocketPosted(m)'
                      /\ SocketReleases(m)' => m = n /\ node[n].grantoutbound
  BY <1>2, <1>3 DEF SocketReleases, SocketPosted
<1>7. RaceInv'
  <2> SUFFICES ASSUME raced' = 0, NEW m \in Node PROVE RaceOk(m)'
    BY DEF RaceInv
  <2>1. RaceOk(m)
    BY <1>4 DEF SlotInv, RaceInv
  <2>2. SocketReleases(m)' => \A o \in Opener : ~OpenerReleases(o, m)
    BY <1>2, <1>4, <1>6, ReleaseNames
  <2>3. QED
    BY <1>2, <1>5, <1>6, <2>1, <2>2 DEF RaceOk
<1>8. Occupying' = Occupying
  BY <1>2, <1>5, <1>6, ReleaseNames
<1>9. Holders' = Holders /\ GrantInv'
  BY <1>2 DEF Holders, Holds, SlotInv, GrantInv, GrantOk
<1>10. SlotCover'
  BY <1>1, <1>2 DEF SlotInv, SlotCover, Covered, Holds
<1>11. Cardinality(Inbound') <= MaxInbound
  BY <1>1, <1>2, InboundKept DEF SlotInv, NetInv
<1>12. QED
  BY <1>2, <1>4, <1>7, <1>8, <1>9, <1>10, <1>11 DEF SlotInv, SlotCount

\* A grant is posted: as long as one thread releases it, it stood for a slot.
LEMMA PostSlots ==
  ASSUME NetInv, SlotInv, NEW n \in Node, semaphore' = semaphore + 1,
         UNCHANGED <<node, vnodes, raced>>, GrantInv',
         raced = 0 => n \in Occupying /\ Occupying' = Occupying \ {n},
         \A m \in Node : SocketReleases(m)' <=> SocketReleases(m),
         \A o \in Opener, m \in Node : OpenerReleases(o, m)' <=> OpenerReleases(o, m),
         \A o \in Opener : (Holds(o)' <=> Holds(o)) /\ opener'[o].at = opener[o].at
  PROVE  SlotInv'
<1>1. semaphore \in Int /\ vnodes \subseteq Node
  BY Types DEF NetInv
<1>2. Holders' = Holders
  BY DEF Holders
<1>3. SlotCount'
  <2> SUFFICES ASSUME raced = 0
               PROVE  semaphore' + Cardinality(Holders') + Cardinality(Occupying') <= MaxOutbound
    BY DEF SlotCount
  <2>1. semaphore + Cardinality(Holders) + Cardinality(Occupying) <= MaxOutbound
    BY DEF SlotInv, SlotCount
  <2>2. /\ IsFiniteSet(Occupying) /\ Cardinality(Occupying) \in Nat /\ Cardinality(Holders) \in Nat
    BY SlotSets DEF NetInv
  <2>3. Cardinality(Occupying') = Cardinality(Occupying) - 1
    BY <2>2, FS_RemoveElement
  <2>4. Cardinality(Holders') = Cardinality(Holders)
    BY <1>2
  <2>5. QED
    BY <1>1, <2>1, <2>2, <2>3, <2>4, NetAssumption
<1>4. RaceInv'
  <2>1. ASSUME NEW m \in Node, raced = 0
        PROVE  /\ SocketReleases(m)' => SocketReleases(m) /\ node'[m].grantoutbound
               /\ \A o \in Opener :
                    OpenerReleases(o, m)' => OpenerReleases(o, m) /\ node'[m].grantoutbound
    <3>1. RaceOk(m)
      BY <2>1 DEF SlotInv, RaceInv
    <3>2. QED
      BY <3>1 DEF RaceOk
  <2>2. QED
    BY <2>1, RaceKept DEF SlotInv
<1>5. SlotCover'
  BY DEF SlotInv, SlotCover, Covered
<1>6. Cardinality(Inbound') <= MaxInbound
  BY InboundKept DEF SlotInv, NetInv
<1>7. QED
  BY <1>3, <1>4, <1>5, <1>6 DEF SlotInv

\* The socket thread posts the grant of a node that it closes.
LEMMA SocketPostSlots ==
  ASSUME NetInv, SlotInv, SocketPost PROVE SlotInv'
<1>1. /\ socket.pc = "post" /\ semaphore' = semaphore + 1 /\ socket \in SocketRecord
      /\ socket' = [socket EXCEPT !.pc = "clear"]
      /\ UNCHANGED <<node, vnodes, raced>> /\ opener' = opener
  BY Types DEF SocketPost, NetInv
<1>2. socket'.pc = "clear" /\ socket'.cur = socket.cur
  BY <1>1 DEF SocketRecord
<1>3. PICK n \in Node : socket.cur = {n}
  BY <1>1 DEF NetInv, ThreadInv, Closing
<1>4. \A o \in Opener, m \in Node : /\ OpenerReleases(o, m)' <=> OpenerReleases(o, m)
                                    /\ OpenerPosted(o, m)' <=> OpenerPosted(o, m)
                                    /\ OpenerPosted(o, m) => OpenerReleases(o, m)
  BY <1>1 DEF OpenerReleases, OpenerPosted
<1>5. \A m \in Node : /\ SocketReleases(m)' <=> SocketReleases(m)
                      /\ SocketReleases(m) <=> m = n
                      /\ ~SocketPosted(m) /\ (SocketPosted(m)' <=> m = n)
  BY <1>1, <1>2, <1>3 DEF SocketReleases, SocketPosted
<1>6. raced = 0 => n \in Occupying /\ Occupying' = Occupying \ {n}
  <2> SUFFICES ASSUME raced = 0 PROVE n \in Occupying /\ Occupying' = Occupying \ {n}
    OBVIOUS
  <2>1. node[n].grantoutbound /\ \A o \in Opener : ~OpenerReleases(o, n)
    BY <1>5 DEF SlotInv, RaceInv, RaceOk
  <2>2. n \in Occupying
    BY <1>4, <1>5, <2>1, ReleaseNames
  <2>3. Occupying' = Occupying \ {n}
    BY <1>1, <1>4, <1>5, ReleaseNames
  <2>4. QED
    BY <2>2, <2>3
<1>7. \A o \in Opener : (Holds(o)' <=> Holds(o)) /\ opener'[o].at = opener[o].at
  BY <1>1 DEF Holds
<1>8. GrantInv'
  BY <1>1 DEF SlotInv, GrantInv, GrantOk
<1>9. QED
  BY <1>1, <1>4, <1>5, <1>6, <1>7, <1>8, PostSlots

\* An opener posts the grant that its node had.
LEMMA MoveToPostSlots ==
  ASSUME NetInv, SlotInv, NEW o \in Opener, MoveToPost(o) PROVE SlotInv'
<1>1. /\ opener[o].pc = "post" /\ semaphore' = semaphore + 1 /\ opener \in [Opener -> OpenerRecord]
      /\ Goto(o, "clear", opener[o].at)
      /\ UNCHANGED <<node, vnodes, raced>> /\ socket' = socket
  BY Types DEF MoveToPost, NetInv
<1>2. /\ opener'[o].pc = "clear" /\ opener'[o].at = opener[o].at
      /\ opener'[o].granted = opener[o].granted
      /\ \A q \in Opener \ {o} : opener'[q] = opener[q]
  BY <1>1 DEF Goto, OpenerRecord
<1>3. PICK n \in Node : opener[o].at = {n}
  BY <1>1 DEF NetInv, ThreadInv, AtNode
<1>4. \A m \in Node : /\ SocketReleases(m)' <=> SocketReleases(m)
                      /\ SocketPosted(m)' <=> SocketPosted(m)
                      /\ SocketPosted(m) => SocketReleases(m)
  BY <1>1 DEF SocketReleases, SocketPosted
<1>5. \A m \in Node : /\ OpenerReleases(o, m)' <=> m = n
                      /\ OpenerReleases(o, m) <=> m = n
                      /\ ~OpenerPosted(o, m) /\ (OpenerPosted(o, m)' <=> m = n)
  BY <1>1, <1>2, <1>3 DEF OpenerReleases, OpenerPosted
<1>6. \A q \in Opener \ {o}, m \in Node : /\ OpenerReleases(q, m)' <=> OpenerReleases(q, m)
                                          /\ OpenerPosted(q, m)' <=> OpenerPosted(q, m)
                                          /\ OpenerPosted(q, m) => OpenerReleases(q, m)
  BY <1>2 DEF OpenerReleases, OpenerPosted
<1>7. raced = 0 => n \in Occupying /\ Occupying' = Occupying \ {n}
  <2> SUFFICES ASSUME raced = 0 PROVE n \in Occupying /\ Occupying' = Occupying \ {n}
    OBVIOUS
  <2>1. /\ node[n].grantoutbound /\ ~SocketReleases(n)
        /\ \A q \in Opener \ {o} : ~OpenerReleases(q, n)
    BY <1>5 DEF SlotInv, RaceInv, RaceOk
  <2>2. n \in Occupying
    BY <1>4, <1>5, <1>6, <2>1, ReleaseNames
  <2>3. Occupying' = Occupying \ {n}
    BY <1>1, <1>4, <1>5, <1>6, ReleaseNames
  <2>4. QED
    BY <2>2, <2>3
<1>8. \A q \in Opener, m \in Node : OpenerReleases(q, m)' <=> OpenerReleases(q, m)
  BY <1>5, <1>6
<1>9. \A q \in Opener : (Holds(q)' <=> Holds(q)) /\ opener'[q].at = opener[q].at
  BY <1>1, <1>2 DEF Holds
<1>10. GrantInv'
  BY <1>1, <1>2 DEF SlotInv, GrantInv, GrantOk
<1>11. QED
  BY <1>1, <1>4, <1>7, <1>8, <1>9, <1>10, PostSlots

\* A posted grant is cleared: it did not stand for a slot any more.
LEMMA ClearSlots ==
  ASSUME NetInv, SlotInv, NEW n \in Node, UNCHANGED <<semaphore, vnodes, raced>>, GrantInv',
         node' \in [Node -> NodeRecord], ~node'[n].grantoutbound,
         node'[n].finbound = node[n].finbound, node'[n].ungranted = node[n].ungranted,
         \A m \in Node \ {n} : node'[m] = node[m],
         n \notin Occupying,
         \A m \in Node \ {n} : SocketPosted(m)' <=> SocketPosted(m),
         \A o \in Opener, m \in Node \ {n} : OpenerPosted(o, m)' <=> OpenerPosted(o, m),
         raced = 0 => ~SocketReleases(n)' /\ \A o \in Opener : ~OpenerReleases(o, n)',
         \A m \in Node \ {n} : SocketReleases(m)' => SocketReleases(m),
         \A o \in Opener, m \in Node \ {n} : OpenerReleases(o, m)' => OpenerReleases(o, m),
         \A o \in Opener : (Holds(o)' <=> Holds(o)) /\ opener'[o].at = opener[o].at,
         n \in vnodes => \E o \in Opener : Holds(o) /\ opener[o].at = {n}
  PROVE  SlotInv'
<1>1. Occupying' = Occupying
  <2>1. n \notin Occupying'
    BY ReleaseNames
  <2>2. \A m \in Node \ {n} : m \in Occupying' <=> m \in Occupying
    BY ReleaseNames
  <2>3. Occupying \subseteq Node /\ Occupying' \subseteq Node
    BY ReleaseNames
  <2>4. QED
    BY <2>1, <2>2, <2>3
<1>2. Holders' = Holders
  BY DEF Holders
<1>3. RaceInv'
  <2>1. ASSUME NEW m \in Node, raced = 0
        PROVE  /\ SocketReleases(m)' => SocketReleases(m) /\ node'[m].grantoutbound
               /\ \A o \in Opener :
                    OpenerReleases(o, m)' => OpenerReleases(o, m) /\ node'[m].grantoutbound
    <3>1. RaceOk(m)
      BY <2>1 DEF SlotInv, RaceInv
    <3>2. QED
      BY <2>1, <3>1 DEF RaceOk
  <2>2. QED
    BY <2>1, RaceKept DEF SlotInv
<1>4. SlotCover'
  <2>1. ASSUME NEW m \in vnodes PROVE node'[m].finbound \/ Covered(m)'
    <3>1. CASE m = n
      BY <2>1, <3>1 DEF Covered
    <3>2. CASE m # n
      <4>1. m \in Node /\ node'[m] = node[m]
        BY <2>1, <3>2, Types DEF NetInv
      <4>2. QED
        BY <2>1, <4>1 DEF SlotInv, SlotCover, Covered
    <3>3. QED
      BY <3>1, <3>2
  <2>2. QED
    BY <2>1 DEF SlotCover
<1>5. Cardinality(Inbound') <= MaxInbound
  <2>1. \A m \in vnodes : node'[m].finbound = node[m].finbound
    BY Types DEF NetInv
  <2>2. QED
    BY <2>1, InboundKept DEF SlotInv, NetInv
<1>6. QED
  BY <1>1, <1>2, <1>3, <1>4, <1>5 DEF SlotInv, SlotCount

\* The socket thread clears the grant of a node that it closes.
LEMMA SocketClearSlots ==
  ASSUME NetInv, NetInv', SlotInv, SocketClear PROVE SlotInv'
<1>1. /\ socket.pc = "clear" /\ socket' = [socket EXCEPT !.pc = "release"]
      /\ UNCHANGED <<semaphore, vnodes, raced>> /\ opener' = opener /\ socket \in SocketRecord
      /\ node \in [Node -> NodeRecord] /\ node' \in [Node -> NodeRecord]
  <2>1. node' \in [Node -> NodeRecord]
    BY DEF NetInv, TypeOK, NodeRecord
  <2>2. QED
    BY <2>1, Types DEF SocketClear, NetInv
<1>2. socket'.pc = "release"
  BY <1>1 DEF SocketRecord
<1>3. PICK n \in Node : socket.cur = {n}
  BY <1>1 DEF NetInv, ThreadInv, Closing
<1>4. node' = [node EXCEPT ![n].grantoutbound = FALSE]
  BY <1>3 DEF SocketClear
<1>5. /\ ~node'[n].grantoutbound /\ node'[n].finbound = node[n].finbound
      /\ node'[n].ungranted = node[n].ungranted
      /\ \A m \in Node \ {n} : node'[m] = node[m]
  BY <1>1, <1>4 DEF NodeRecord
<1>6. \A m \in Node : /\ ~SocketReleases(m)' /\ ~SocketPosted(m)'
                      /\ SocketPosted(m) <=> m = n
                      /\ SocketReleases(m) <=> m = n
  BY <1>1, <1>2, <1>3 DEF SocketReleases, SocketPosted
<1>7. \A o \in Opener, m \in Node : /\ OpenerReleases(o, m)' <=> OpenerReleases(o, m)
                                    /\ OpenerPosted(o, m)' <=> OpenerPosted(o, m)
  BY <1>1 DEF OpenerReleases, OpenerPosted
<1>8. n \notin Occupying
  BY <1>6, ReleaseNames
<1>9. raced = 0 => \A o \in Opener : ~OpenerReleases(o, n)'
  BY <1>6, <1>7 DEF SlotInv, RaceInv, RaceOk
<1>10. n \notin vnodes
  BY <1>3 DEF NetInv, PlaceInv
<1>11. \A o \in Opener : (Holds(o)' <=> Holds(o)) /\ opener'[o].at = opener[o].at
  BY <1>1 DEF Holds
<1>12. GrantInv'
  BY <1>1 DEF SlotInv, GrantInv, GrantOk
<1>13. QED
  BY <1>1, <1>5, <1>6, <1>7, <1>8, <1>9, <1>10, <1>11, <1>12, ClearSlots

\* An opener clears the grant that its node had, and still has its own.
LEMMA MoveToClearSlots ==
  ASSUME NetInv, NetInv', SlotInv, NEW o \in Opener, MoveToClear(o) PROVE SlotInv'
<1>1. /\ opener[o].pc = "clear" /\ Goto(o, "store", opener[o].at) /\ socket' = socket
      /\ UNCHANGED <<semaphore, vnodes, raced>> /\ opener \in [Opener -> OpenerRecord]
      /\ node \in [Node -> NodeRecord] /\ node' \in [Node -> NodeRecord]
  <2>1. node' \in [Node -> NodeRecord]
    BY DEF NetInv, TypeOK, NodeRecord
  <2>2. QED
    BY <2>1, Types DEF MoveToClear, NetInv
<1>2. /\ opener'[o].pc = "store" /\ opener'[o].at = opener[o].at
      /\ opener'[o].granted = opener[o].granted
      /\ \A q \in Opener \ {o} : opener'[q] = opener[q]
  BY <1>1 DEF Goto, OpenerRecord
<1>3. PICK n \in Node : opener[o].at = {n}
  BY <1>1 DEF NetInv, ThreadInv, AtNode
<1>4. node' = IF node[n].live THEN [node EXCEPT ![n].grantoutbound = FALSE] ELSE node
  BY <1>3 DEF MoveToClear, SetGrant
<1>5. /\ ~node'[n].grantoutbound /\ node'[n].finbound = node[n].finbound
      /\ node'[n].ungranted = node[n].ungranted
      /\ \A m \in Node \ {n} : node'[m] = node[m]
  <2>1. CASE node[n].live
    BY <1>1, <1>4, <2>1 DEF NodeRecord
  <2>2. CASE ~node[n].live
    BY <1>4, <2>2 DEF NetInv, PlaceInv
  <2>3. QED
    BY <2>1, <2>2
<1>6. \A m \in Node : /\ SocketReleases(m)' <=> SocketReleases(m)
                      /\ SocketPosted(m)' <=> SocketPosted(m)
  BY <1>1 DEF SocketReleases, SocketPosted
<1>7. \A m \in Node : /\ ~OpenerReleases(o, m)' /\ ~OpenerPosted(o, m)'
                      /\ OpenerReleases(o, m) <=> m = n
                      /\ OpenerPosted(o, m) <=> m = n
  BY <1>1, <1>2, <1>3 DEF OpenerReleases, OpenerPosted
<1>8. \A q \in Opener \ {o}, m \in Node : /\ OpenerReleases(q, m)' <=> OpenerReleases(q, m)
                                          /\ OpenerPosted(q, m)' <=> OpenerPosted(q, m)
  BY <1>2 DEF OpenerReleases, OpenerPosted
<1>9. \A q \in Opener, m \in Node \ {n} : /\ OpenerReleases(q, m)' => OpenerReleases(q, m)
                                          /\ OpenerPosted(q, m)' <=> OpenerPosted(q, m)
  BY <1>7, <1>8
<1>10. n \notin Occupying
  BY <1>7, ReleaseNames
<1>11. raced = 0 => ~SocketReleases(n)' /\ \A q \in Opener : ~OpenerReleases(q, n)'
  <2> SUFFICES ASSUME raced = 0
               PROVE  ~SocketReleases(n)' /\ \A q \in Opener : ~OpenerReleases(q, n)'
    OBVIOUS
  <2>1. RaceOk(n)
    BY DEF SlotInv, RaceInv
  <2>2. QED
    BY <1>6, <1>7, <1>8, <2>1 DEF RaceOk
<1>12. /\ \A q \in Opener : (Holds(q)' <=> Holds(q)) /\ opener'[q].at = opener[q].at
       /\ Holds(o)
  BY <1>1, <1>2 DEF Holds, SlotInv, GrantInv, GrantOk
<1>13. GrantInv'
  BY <1>1, <1>2 DEF SlotInv, GrantInv, GrantOk
<1>14. QED
  BY <1>1, <1>3, <1>5, <1>6, <1>9, <1>10, <1>11, <1>12, <1>13, ClearSlots

\* Deleted nodes give theirs back, if no opener is releasing them.
LEMMA DeleteSlots ==
  ASSUME NetInv, SlotInv, DeleteNodes PROVE SlotInv'
<1>1. PICK gone \in SUBSET vnodesdisconnected :
        /\ semaphore' = semaphore + Cardinality({n \in gone : node[n].grantoutbound})
        /\ node' = [n \in Node |-> IF n \in gone THEN Deleted ELSE node[n]]
        /\ raced' = raced + Bit(\E n \in gone : Releasing(n))
  BY DEF DeleteNodes
<1>2. /\ gone \subseteq Node /\ gone \cap vnodes = {} /\ vnodes \subseteq Node /\ raced \in Nat
      /\ semaphore \in Int /\ vnodes' = vnodes /\ opener' = opener
      /\ socket.pc = "disconnect" /\ socket'.pc = "accept"
  BY <1>1, Types DEF NetInv, TypeOK, PlaceInv, DeleteNodes
<1>3. /\ \A m \in gone : ~node'[m].grantoutbound
      /\ \A m \in Node \ gone : node'[m] = node[m]
  BY <1>1, <1>2, RecordFact
<1>4. raced' = 0 => raced = 0 /\ \A n \in gone : ~Releasing(n)
  <2>1. PICK b : (b <=> \E n \in gone : Releasing(n)) /\ raced' = raced + Bit(b)
    BY <1>1
  <2>2. Bit(b) \in {0, 1} /\ (b => Bit(b) = 1)
    BY BitFact
  <2>3. QED
    BY <1>2, <2>1, <2>2
<1>5. \A o \in Opener, m \in Node : /\ OpenerReleases(o, m)' <=> OpenerReleases(o, m)
                                    /\ OpenerPosted(o, m)' <=> OpenerPosted(o, m)
                                    /\ OpenerPosted(o, m) => OpenerReleases(o, m)
  BY <1>2 DEF OpenerReleases, OpenerPosted
<1>6. \A m \in Node : /\ ~SocketReleases(m) /\ ~SocketReleases(m)'
                      /\ ~SocketPosted(m) /\ ~SocketPosted(m)'
  BY <1>2 DEF SocketReleases, SocketPosted
<1>7. raced' = 0 => \A o \in Opener, n \in gone : ~OpenerReleases(o, n)
  BY <1>2, <1>4, ReleaseNames
<1>8. RaceInv'
  <2>1. ASSUME NEW m \in Node, raced' = 0, NEW o \in Opener, OpenerReleases(o, m)
        PROVE  node'[m].grantoutbound
    <3>1. node[m].grantoutbound
      BY <1>4, <2>1 DEF SlotInv, RaceInv, RaceOk
    <3>2. m \notin gone
      BY <1>7, <2>1
    <3>3. QED
      BY <1>3, <3>1, <3>2
  <2>2. QED
    BY <1>4, <1>5, <1>6, <2>1, RaceKept DEF SlotInv
<1>9. Holders' = Holders /\ GrantInv'
  BY <1>2 DEF Holders, Holds, SlotInv, GrantInv, GrantOk
<1>10. SlotCount'
  <2> SUFFICES ASSUME raced' = 0
               PROVE  semaphore' + Cardinality(Holders') + Cardinality(Occupying') <= MaxOutbound
    BY DEF SlotCount
  <2>1. semaphore + Cardinality(Holders) + Cardinality(Occupying) <= MaxOutbound
    BY <1>4 DEF SlotInv, SlotCount
  <2>2. /\ IsFiniteSet(Occupying) /\ Cardinality(Occupying) \in Nat /\ Cardinality(Holders) \in Nat
    BY SlotSets DEF NetInv
  <2>3. \A m \in Node : m \in Occupying' <=> m \in Occupying \ gone
    BY <1>3, <1>5, <1>6, ReleaseNames
  <2>4. Occupying' = Occupying \ gone
    BY <2>3, ReleaseNames
  <2>5. \A m \in gone : m \in Occupying <=> node[m].grantoutbound
    BY <1>2, <1>5, <1>6, <1>7, ReleaseNames
  <2>6. {n \in gone : node[n].grantoutbound} = Occupying \cap gone
    BY <2>5
  <2>7. IsFiniteSet(Occupying \cap gone)
    BY <2>2, FS_Subset
  <2>8. /\ Cardinality(Occupying') = Cardinality(Occupying) - Cardinality(Occupying \cap gone)
        /\ Cardinality(Occupying \cap gone) \in Nat
    BY <2>2, <2>4, <2>7, FS_Difference, FS_CardinalityType
  <2>9. semaphore' = semaphore + Cardinality(Occupying \cap gone)
    BY <1>1, <2>6
  <2>10. Cardinality(Holders') = Cardinality(Holders)
    BY <1>9
  <2>11. QED
    BY <1>2, <2>1, <2>2, <2>8, <2>9, <2>10, NetAssumption
<1>11. \A m \in vnodes : node'[m] = node[m]
  BY <1>2, <1>3
<1>12. SlotCover'
  BY <1>2, <1>11 DEF SlotInv, SlotCover, Covered, Holds
<1>13. Cardinality(Inbound') <= MaxInbound
  BY <1>2, <1>11, InboundKept DEF SlotInv, NetInv
<1>14. QED
  BY <1>8, <1>9, <1>10, <1>12, <1>13 DEF SlotInv

\* A new node has no grant, and nobody releases one of it.
LEMMA CreateSlots ==
  ASSUME NetInv, SlotInv, NEW n \in Fresh, NEW i \in BOOLEAN, NEW d \in BOOLEAN, NEW g \in BOOLEAN,
         node' = [node EXCEPT ![n] = Created(i, d, g)], vnodes' = vnodes \cup {n},
         UNCHANGED <<semaphore, raced>>, socket' = socket, GrantInv',
         \A o \in Opener : /\ \/ opener'[o] = opener[o]
                              \/ opener'[o].pc \in {"move", "mark"} /\ opener[o].at = {}
                           /\ Holds(o)' <=> Holds(o),
         i \/ Covered(n)',
         i => Cardinality(Inbound) < MaxInbound
  PROVE  SlotInv'
<1>1. /\ n \in Node /\ ~node[n].live /\ n \notin socket.cur
      /\ n \notin vnodes /\ node \in [Node -> NodeRecord] /\ vnodes \subseteq Node
      /\ ~node[n].grantoutbound
  BY Types DEF Fresh, Pointed, NetInv, PlaceInv
<1>2. /\ ~node'[n].grantoutbound /\ node'[n].finbound = i
      /\ \A m \in Node \ {n} : node'[m] = node[m]
  BY <1>1, RecordFact
<1>3. \A o \in Opener : n \notin opener[o].at
  BY DEF Fresh, Pointed
<1>4. \A m \in Node : /\ SocketReleases(m)' <=> SocketReleases(m)
                      /\ SocketPosted(m)' <=> SocketPosted(m)
  BY DEF SocketReleases, SocketPosted
<1>5. \A o \in Opener, m \in Node \ {n} : /\ OpenerReleases(o, m)' => OpenerReleases(o, m)
                                          /\ OpenerPosted(o, m)' <=> OpenerPosted(o, m)
  <2> SUFFICES ASSUME NEW o \in Opener, NEW m \in Node \ {n}
               PROVE  /\ OpenerReleases(o, m)' => OpenerReleases(o, m)
                      /\ OpenerPosted(o, m)' <=> OpenerPosted(o, m)
    OBVIOUS
  <2>1. CASE opener'[o] = opener[o]
    BY <2>1 DEF OpenerReleases, OpenerPosted
  <2>2. CASE opener'[o] # opener[o]
    <3>1. opener'[o].pc \in {"move", "mark"} /\ opener[o].at = {}
      BY <2>2
    <3>2. QED
      BY <3>1 DEF OpenerReleases, OpenerPosted
  <2>3. QED
    BY <2>1, <2>2
<1>6. \A o \in Opener : ~OpenerReleases(o, n)'
  <2> SUFFICES ASSUME NEW o \in Opener PROVE ~OpenerReleases(o, n)'
    OBVIOUS
  <2>1. CASE opener'[o] = opener[o]
    BY <1>3, <2>1 DEF OpenerReleases
  <2>2. CASE opener'[o] # opener[o]
    BY <2>2 DEF OpenerReleases
  <2>3. QED
    BY <2>1, <2>2
<1>7. Occupying' = Occupying
  <2>1. n \notin Occupying /\ n \notin Occupying'
    BY <1>1, <1>2, ReleaseNames
  <2>2. \A m \in Node \ {n} : m \in Occupying' <=> m \in Occupying
    BY <1>2, <1>4, <1>5, ReleaseNames
  <2>3. Occupying \subseteq Node /\ Occupying' \subseteq Node
    BY ReleaseNames
  <2>4. \A m \in Node : m \in Occupying' <=> m \in Occupying
    BY <2>1, <2>2
  <2>5. QED
    BY <2>3, <2>4
<1>8. Holders' = Holders
  BY DEF Holders
<1>9. RaceInv'
  <2>1. ASSUME NEW m \in Node, raced = 0
        PROVE  /\ SocketReleases(m)' => SocketReleases(m) /\ node'[m].grantoutbound
               /\ \A o \in Opener :
                    OpenerReleases(o, m)' => OpenerReleases(o, m) /\ node'[m].grantoutbound
    <3>1. RaceOk(m)
      BY <2>1 DEF SlotInv, RaceInv
    <3>2. CASE m = n
      BY <1>1, <1>6, <3>2 DEF SocketReleases
    <3>3. CASE m # n
      BY <1>2, <1>4, <1>5, <3>1, <3>3 DEF RaceOk
    <3>4. QED
      BY <3>2, <3>3
  <2>2. QED
    BY <2>1, RaceKept DEF SlotInv
<1>10. SlotCover'
  <2>1. ASSUME NEW m \in vnodes PROVE node'[m].finbound \/ Covered(m)'
    <3>1. node'[m] = node[m]
      BY <1>1, <1>2
    <3>2. QED
      BY <2>1, <3>1 DEF SlotInv, SlotCover, Covered
  <2>2. QED
    BY <1>2, <2>1 DEF SlotCover
<1>11. Cardinality(Inbound') <= MaxInbound
  <2>1. IsFiniteSet(Inbound) /\ Cardinality(Inbound) \in Nat
    BY SlotSets DEF NetInv
  <2>2. Inbound' = IF i THEN Inbound \cup {n} ELSE Inbound
    BY <1>1, <1>2 DEF Inbound
  <2>3. CASE i
    <3>1. Cardinality(Inbound') = Cardinality(Inbound)
          \/ Cardinality(Inbound') = Cardinality(Inbound) + 1
      BY <2>1, <2>2, <2>3, FS_AddElement
    <3>2. QED
      BY <2>1, <2>3, <3>1, NetAssumption
  <2>4. CASE ~i
    BY <2>2, <2>4 DEF SlotInv
  <2>5. QED
    BY <2>3, <2>4
<1>12. QED
  BY <1>7, <1>8, <1>9, <1>10, <1>11 DEF SlotInv, SlotCount

\* An inbound node occupies no slot, but counts against its own limit.
LEMMA AcceptSlots ==
  ASSUME NetInv, SlotInv, Accept PROVE SlotInv'
<1>1. PICK n \in Fresh : /\ node' = [node EXCEPT ![n] = Created(TRUE, FALSE, FALSE)]
                         /\ vnodes' = vnodes \cup {n}
  BY DEF Accept
<1>2. /\ UNCHANGED <<semaphore, raced>> /\ socket' = socket /\ opener' = opener
      /\ Cardinality(Inbound) < MaxInbound
  BY DEF Accept
<1>3. GrantInv' /\ \A o \in Opener : Holds(o)' <=> Holds(o)
  BY <1>2 DEF SlotInv, GrantInv, GrantOk, Holds
<1>4. QED
  BY <1>1, <1>2, <1>3, CreateSlots

\* A new outbound node occupies its opener's slot, if that has one.
LEMMA ConnectSlots ==
  ASSUME NetInv, SlotInv, NEW o \in Opener, ConnectNode(o) PROVE SlotInv'
<1>1. PICK n \in Fresh :
        /\ node' = [node EXCEPT ![n] = Created(FALSE, o \in ByName, ~opener[o].granted)]
        /\ vnodes' = vnodes \cup {n}
        /\ Goto(o, IF opener[o].granted THEN "move" ELSE "mark", {n})
  BY DEF ConnectNode
<1>2. /\ UNCHANGED <<semaphore, raced>> /\ socket' = socket /\ opener \in [Opener -> OpenerRecord]
      /\ opener[o].pc = "connect" /\ opener[o].at = {} /\ n \in Node
      /\ node \in [Node -> NodeRecord]
  BY Types DEF ConnectNode, NetInv, ThreadInv, AtNode, Fresh
<1>3. PICK d \in BOOLEAN, g \in BOOLEAN, pc \in {"move", "mark"} :
        /\ node' = [node EXCEPT ![n] = Created(FALSE, d, g)] /\ Goto(o, pc, {n})
        /\ g <=> ~opener[o].granted
        /\ pc = "mark" <=> ~opener[o].granted
  <2>1. (o \in ByName) \in BOOLEAN /\ (~opener[o].granted) \in BOOLEAN
    OBVIOUS
  <2>2. PICK d \in BOOLEAN, g \in BOOLEAN :
          node' = [node EXCEPT ![n] = Created(FALSE, d, g)] /\ (g <=> ~opener[o].granted)
    BY <1>1, <2>1, Zenon
  <2>3. CASE opener[o].granted
    BY <1>1, <2>2, <2>3
  <2>4. CASE ~opener[o].granted
    BY <1>1, <2>2, <2>4
  <2>5. QED
    BY <2>3, <2>4
<1>4. /\ opener'[o].pc = pc /\ opener'[o].at = {n} /\ opener'[o].granted = opener[o].granted
      /\ \A q \in Opener \ {o} : opener'[q] = opener[q]
  BY <1>2, <1>3 DEF Goto, OpenerRecord
<1>5. GrantInv'
  <2>1. GrantOk(o)'
    BY <1>3, <1>4 DEF GrantOk
  <2>2. QED
    BY <1>4, <2>1 DEF SlotInv, GrantInv, GrantOk
<1>6. Holds(o)' <=> Holds(o)
  BY <1>2, <1>3, <1>4 DEF Holds
<1>7. Covered(n)'
  <2>1. CASE opener[o].granted
    BY <1>3, <1>4, <2>1 DEF Covered, Holds
  <2>2. CASE ~opener[o].granted
    <3>1. node'[n].ungranted
      BY <1>2, <1>3, <2>2, RecordFact
    <3>2. QED
      BY <3>1 DEF Covered
  <2>3. QED
    BY <2>1, <2>2
<1>8. \A q \in Opener : /\ \/ opener'[q] = opener[q]
                           \/ opener'[q].pc \in {"move", "mark"} /\ opener[q].at = {}
                        /\ Holds(q)' <=> Holds(q)
  BY <1>2, <1>3, <1>4, <1>6 DEF Holds
<1>9. QED
  BY <1>1, <1>2, <1>3, <1>5, <1>7, <1>8, CreateSlots

\* A waiting opener takes a slot, and gives it back when it fails to connect.
LEMMA GrantSlots ==
  ASSUME NetInv, SlotInv, NEW o \in Opener, (\E g \in BOOLEAN : Open(o, g)) \/ ConnectFails(o)
  PROVE  SlotInv'
<1>1. /\ UNCHANGED <<vnodes, raced>> /\ node' = node /\ socket' = socket /\ semaphore \in Int
      /\ opener \in [Opener -> OpenerRecord] /\ opener[o].at = {}
      /\ opener[o].pc \in {"idle", "connect"}
  BY Types DEF Open, ConnectFails, NetInv, ThreadInv, AtNode
<1>2. /\ opener'[o].pc \in {"idle", "connect", "find"}
      /\ semaphore' = semaphore + Bit(opener[o].granted) - Bit(opener'[o].granted)
      /\ GrantOk(o)'
      /\ \A q \in Opener \ {o} : opener'[q] = opener[q]
  <2>1. ASSUME NEW g \in BOOLEAN, Open(o, g)
        PROVE  /\ opener'[o].pc \in {"idle", "connect", "find"}
               /\ semaphore' = semaphore + Bit(opener[o].granted) - Bit(opener'[o].granted)
               /\ GrantOk(o)'
               /\ \A q \in Opener \ {o} : opener'[q] = opener[q]
    <3>1. /\ opener'[o].pc \in {"connect", "find"} /\ opener'[o].granted = g
          /\ opener'[o].pc = "find" => g
          /\ \A q \in Opener \ {o} : opener'[q] = opener[q]
      BY <2>1, OpenFact DEF NetInv
    <3>2. opener[o].pc = "idle" /\ semaphore' = semaphore - Bit(g)
      BY <2>1 DEF Open
    <3>3. ~opener[o].granted
      BY <3>2 DEF SlotInv, GrantInv, GrantOk
    <3>4. Bit(opener[o].granted) = 0 /\ Bit(g) \in {0, 1}
      BY <3>3 DEF Bit
    <3>5. QED
      BY <1>1, <3>1, <3>2, <3>4 DEF GrantOk
  <2>2. CASE ConnectFails(o)
    <3>1. semaphore' = semaphore + Bit(opener[o].granted) /\ Return(o)
      BY <2>2 DEF ConnectFails
    <3>2. /\ opener'[o].pc = "idle" /\ opener'[o].granted = FALSE
          /\ \A q \in Opener \ {o} : opener'[q] = opener[q]
      BY <3>1, ReturnFact DEF NetInv
    <3>3. Bit(opener'[o].granted) = 0 /\ Bit(opener[o].granted) \in {0, 1}
      BY <3>2 DEF Bit
    <3>4. QED
      BY <1>1, <3>1, <3>2, <3>3 DEF GrantOk
  <2>3. QED
    BY <2>1, <2>2
<1>3. \A m \in Node : /\ SocketReleases(m)' <=> SocketReleases(m)
                      /\ SocketPosted(m)' <=> SocketPosted(m)
  BY <1>1 DEF SocketReleases, SocketPosted
<1>4. \A q \in Opener, m \in Node : /\ OpenerReleases(q, m)' <=> OpenerReleases(q, m)
                                    /\ OpenerPosted(q, m)' <=> OpenerPosted(q, m)
  BY <1>1, <1>2 DEF OpenerReleases, OpenerPosted
<1>5. Occupying' = Occupying
  BY <1>1, <1>3, <1>4, ReleaseNames
<1>6. GrantInv'
  BY <1>2 DEF SlotInv, GrantInv, GrantOk
<1>7. RaceInv'
  <2>1. ASSUME NEW m \in Node, raced = 0
        PROVE  /\ SocketReleases(m)' => SocketReleases(m) /\ node'[m].grantoutbound
               /\ \A q \in Opener :
                    OpenerReleases(q, m)' => OpenerReleases(q, m) /\ node'[m].grantoutbound
    <3>1. RaceOk(m)
      BY <2>1 DEF SlotInv, RaceInv
    <3>2. QED
      BY <1>1, <1>3, <1>4, <3>1 DEF RaceOk
  <2>2. QED
    BY <1>1, <2>1, RaceKept DEF SlotInv
<1>8. semaphore' + Cardinality(Holders') = semaphore + Cardinality(Holders)
      /\ semaphore' \in Int /\ Cardinality(Holders') \in Nat
  <2>1. /\ Holds(o) <=> opener[o].granted
        /\ Holds(o)' <=> opener'[o].granted
        /\ \A q \in Opener \ {o} : Holds(q)' <=> Holds(q)
    BY <1>1, <1>2 DEF Holds
  <2>2. PICK H : H = Holders \ {o}
    OBVIOUS
  <2>3. /\ Holders = IF opener[o].granted THEN H \cup {o} ELSE H
        /\ Holders' = IF opener'[o].granted THEN H \cup {o} ELSE H
        /\ o \notin H
    BY <2>1, <2>2 DEF Holders
  <2>4. IsFiniteSet(H) /\ Cardinality(H) \in Nat
    <3>1. IsFiniteSet(Holders)
      BY SlotSets DEF NetInv
    <3>2. QED
      BY <2>2, <3>1, FS_Subset, FS_CardinalityType
  <2>5. Cardinality(H \cup {o}) = Cardinality(H) + 1
    BY <2>3, <2>4, FS_AddElement
  <2>6. /\ Cardinality(Holders) = Cardinality(H) + Bit(opener[o].granted)
        /\ Cardinality(Holders') = Cardinality(H) + Bit(opener'[o].granted)
        /\ Bit(opener[o].granted) \in {0, 1} /\ Bit(opener'[o].granted) \in {0, 1}
    BY <2>3, <2>4, <2>5 DEF Bit
  <2>7. QED
    BY <1>1, <1>2, <2>4, <2>6
<1>9. SlotCount'
  <2>1. Cardinality(Holders) \in Nat /\ Cardinality(Occupying) \in Nat
    BY SlotSets DEF NetInv
  <2>2. QED
    BY <1>1, <1>5, <1>8, <2>1, NetAssumption DEF SlotInv, SlotCount
<1>10. SlotCover'
  <2>1. \A q \in Opener, m \in vnodes :
          Holds(q) /\ opener[q].at = {m} => Holds(q)' /\ opener'[q].at = {m}
    BY <1>1, <1>2 DEF Holds
  <2>2. QED
    BY <1>1, <2>1 DEF SlotInv, SlotCover, Covered
<1>11. Cardinality(Inbound') <= MaxInbound
  BY <1>1, InboundKept DEF SlotInv, NetInv
<1>12. QED
  BY <1>6, <1>7, <1>9, <1>10, <1>11 DEF SlotInv

\* An opener tests the grant of its node.
LEMMA MoveToSlots ==
  ASSUME NetInv, SlotInv, NEW o \in Opener, MoveTo(o) PROVE SlotInv'
<1>1. PICK n \in opener[o].at, have \in BOOLEAN :
        /\ node[n].live => have = node[n].grantoutbound
        /\ Goto(o, IF have THEN "post" ELSE "store", {n})
        /\ raced' = raced + Bit(have /\ (~node[n].live \/ Releasing(n)))
  <2>1. PICK n \in opener[o].at :
          \E have \in IF node[n].live THEN {node[n].grantoutbound} ELSE BOOLEAN :
            /\ Goto(o, IF have THEN "post" ELSE "store", {n})
            /\ raced' = raced + Bit(have /\ (~node[n].live \/ Releasing(n)))
    BY DEF MoveTo
  <2>2. PICK have \in IF node[n].live THEN {node[n].grantoutbound} ELSE BOOLEAN :
            /\ Goto(o, IF have THEN "post" ELSE "store", {n})
            /\ raced' = raced + Bit(have /\ (~node[n].live \/ Releasing(n)))
    BY <2>1
  <2>3. n \in Node /\ node[n] \in NodeRecord
    BY Types DEF MoveTo, NetInv, ThreadInv, AtNode
  <2>4. have \in BOOLEAN /\ (node[n].live => have = node[n].grantoutbound)
    BY <2>2, <2>3 DEF NodeRecord
  <2>5. QED
    BY <2>2, <2>4
<1>2. /\ opener[o].pc = "move" /\ n \in Node /\ opener[o].at = {n}
      /\ UNCHANGED <<semaphore, vnodes>> /\ node' = node /\ socket' = socket
      /\ opener \in [Opener -> OpenerRecord] /\ raced \in Nat
  BY <1>1, Types DEF MoveTo, NetInv, ThreadInv, AtNode
<1>3. /\ opener'[o].pc = (IF have THEN "post" ELSE "store") /\ opener'[o].at = {n}
      /\ opener'[o].granted = opener[o].granted
      /\ \A q \in Opener \ {o} : opener'[q] = opener[q]
  BY <1>1, <1>2 DEF Goto, OpenerRecord
<1>4. raced' = 0 => raced = 0 /\ (have => node[n].grantoutbound /\ ~Releasing(n))
  <2>1. PICK b : (b <=> (have /\ (~node[n].live \/ Releasing(n)))) /\ raced' = raced + Bit(b)
    BY <1>1
  <2>2. Bit(b) \in {0, 1} /\ (b => Bit(b) = 1)
    BY BitFact
  <2>3. raced' = 0 => raced = 0 /\ ~b
    BY <1>2, <2>1, <2>2
  <2>4. QED
    BY <1>1, <2>1, <2>3
<1>5. \A m \in Node : /\ SocketReleases(m)' <=> SocketReleases(m)
                      /\ SocketPosted(m)' <=> SocketPosted(m)
  BY <1>2 DEF SocketReleases, SocketPosted
<1>6. \A m \in Node : /\ ~OpenerReleases(o, m) /\ ~OpenerPosted(o, m) /\ ~OpenerPosted(o, m)'
                      /\ OpenerReleases(o, m)' => m = n /\ have
  BY <1>2, <1>3 DEF OpenerReleases, OpenerPosted
<1>7. \A q \in Opener \ {o}, m \in Node : /\ OpenerReleases(q, m)' <=> OpenerReleases(q, m)
                                          /\ OpenerPosted(q, m)' <=> OpenerPosted(q, m)
  BY <1>3 DEF OpenerReleases, OpenerPosted
<1>8. RaceInv'
  <2> SUFFICES ASSUME raced' = 0, NEW m \in Node PROVE RaceOk(m)'
    BY DEF RaceInv
  <2>1. RaceOk(m)
    BY <1>4 DEF SlotInv, RaceInv
  <2>2. OpenerReleases(o, m)' =>
          /\ node'[m].grantoutbound /\ ~SocketReleases(m)
          /\ \A q \in Opener : ~OpenerReleases(q, m)
    BY <1>2, <1>4, <1>6, ReleaseNames
  <2>3. QED
    BY <1>2, <1>5, <1>6, <1>7, <2>1, <2>2 DEF RaceOk
<1>9. Occupying' = Occupying
  BY <1>2, <1>5, <1>6, <1>7, ReleaseNames
<1>10. \A q \in Opener : (Holds(q)' <=> Holds(q)) /\ opener'[q].at = opener[q].at
  BY <1>2, <1>3 DEF Holds
<1>11. Holders' = Holders
  BY <1>10 DEF Holders
<1>12. GrantInv'
  BY <1>2, <1>3 DEF SlotInv, GrantInv, GrantOk
<1>13. SlotCover'
  BY <1>2, <1>10 DEF SlotInv, SlotCover, Covered
<1>14. Cardinality(Inbound') <= MaxInbound
  BY <1>2, InboundKept DEF SlotInv, NetInv
<1>15. QED
  BY <1>2, <1>4, <1>8, <1>9, <1>11, <1>12, <1>13, <1>14 DEF SlotInv, SlotCount

\* The slot moves from the opener to the node, whose own one was given back.
LEMMA MoveToStoreSlots ==
  ASSUME NetInv, SlotInv, NEW o \in Opener, MoveToStore(o) PROVE SlotInv'
<1>1. /\ opener[o].pc = "store" /\ Goto(o, "mark", opener[o].at) /\ socket' = socket
      /\ UNCHANGED <<semaphore, vnodes, raced>> /\ opener \in [Opener -> OpenerRecord]
      /\ node \in [Node -> NodeRecord] /\ semaphore \in Int /\ vnodes \subseteq Node
  BY Types DEF MoveToStore, NetInv
<1>2. /\ opener'[o].pc = "mark" /\ opener'[o].at = opener[o].at
      /\ \A q \in Opener \ {o} : opener'[q] = opener[q]
  BY <1>1 DEF Goto, OpenerRecord
<1>3. PICK n \in Node : opener[o].at = {n}
  BY <1>1 DEF NetInv, ThreadInv, AtNode
<1>4. node' = IF node[n].live THEN [node EXCEPT ![n].grantoutbound = TRUE] ELSE node
  BY <1>3 DEF MoveToStore, SetGrant
<1>5. /\ node[n].live => node'[n].grantoutbound
      /\ \A m \in Node : /\ node'[m].finbound = node[m].finbound
                         /\ node'[m].ungranted = node[m].ungranted
                         /\ node[m].grantoutbound => node'[m].grantoutbound
                         /\ m # n => node'[m] = node[m]
  <2>1. CASE node[n].live
    BY <1>1, <1>4, <2>1 DEF NodeRecord
  <2>2. CASE ~node[n].live
    BY <1>4, <2>2
  <2>3. QED
    BY <2>1, <2>2
<1>6. \A m \in Node : /\ SocketReleases(m)' <=> SocketReleases(m)
                      /\ SocketPosted(m)' <=> SocketPosted(m)
  BY <1>1 DEF SocketReleases, SocketPosted
<1>7. \A q \in Opener, m \in Node : /\ OpenerReleases(q, m)' <=> OpenerReleases(q, m)
                                    /\ OpenerPosted(q, m)' <=> OpenerPosted(q, m)
  BY <1>1, <1>2 DEF OpenerReleases, OpenerPosted
<1>8. RaceInv'
  <2>1. ASSUME NEW m \in Node, raced = 0
        PROVE  /\ SocketReleases(m)' => SocketReleases(m) /\ node'[m].grantoutbound
               /\ \A q \in Opener :
                    OpenerReleases(q, m)' => OpenerReleases(q, m) /\ node'[m].grantoutbound
    <3>1. RaceOk(m)
      BY <2>1 DEF SlotInv, RaceInv
    <3>2. QED
      BY <1>5, <1>6, <1>7, <3>1 DEF RaceOk
  <2>2. QED
    BY <1>1, <2>1, RaceKept DEF SlotInv
<1>9. Occupying' \subseteq Occupying \cup {n}
  BY <1>5, <1>6, <1>7, ReleaseNames
<1>10. Holders' = Holders \ {o} /\ o \in Holders
  BY <1>1, <1>2 DEF Holders, Holds, SlotInv, GrantInv, GrantOk
<1>11. SlotCount'
  <2>1. /\ IsFiniteSet(Occupying) /\ Cardinality(Occupying) \in Nat
        /\ IsFiniteSet(Holders) /\ Cardinality(Holders) \in Nat
    BY SlotSets DEF NetInv
  <2>2. Cardinality(Holders') = Cardinality(Holders) - 1
    BY <1>10, <2>1, FS_RemoveElement
  <2>3. /\ IsFiniteSet(Occupying \cup {n}) /\ Cardinality(Occupying \cup {n}) \in Nat
        /\ Cardinality(Occupying \cup {n}) <= Cardinality(Occupying) + 1
    <3>1. /\ IsFiniteSet(Occupying \cup {n})
          /\ Cardinality(Occupying \cup {n}) =
               IF n \in Occupying THEN Cardinality(Occupying) ELSE Cardinality(Occupying) + 1
      BY <2>1, FS_AddElement
    <3>2. QED
      BY <2>1, <3>1
  <2>4. Cardinality(Occupying') <= Cardinality(Occupying \cup {n}) /\ Cardinality(Occupying') \in Nat
    BY <1>9, <2>3, FS_Subset, FS_CardinalityType
  <2>5. Cardinality(Occupying') <= Cardinality(Occupying) + 1
    BY <2>1, <2>3, <2>4
  <2>6. QED
    BY <1>1, <2>1, <2>2, <2>4, <2>5, NetAssumption DEF SlotInv, SlotCount
<1>12. GrantInv'
  BY <1>1, <1>2 DEF SlotInv, GrantInv, GrantOk
<1>13. SlotCover'
  <2>1. ASSUME NEW m \in vnodes PROVE node'[m].finbound \/ Covered(m)'
    <3>1. CASE m = n
      <4>1. node[n].live
        BY <2>1, <3>1 DEF NetInv, PlaceInv
      <4>2. QED
        BY <1>5, <3>1, <4>1 DEF Covered
    <3>2. CASE m # n
      <4>1. node'[m] = node[m] /\ (node[m].finbound \/ Covered(m))
        BY <1>1, <1>5, <2>1, <3>2 DEF SlotInv, SlotCover
      <4>2. \A q \in Opener : Holds(q) /\ opener[q].at = {m} => Holds(q)' /\ opener'[q].at = {m}
        BY <1>2, <1>3, <3>2 DEF Holds
      <4>3. QED
        BY <4>1, <4>2 DEF Covered
    <3>3. QED
      BY <3>1, <3>2
  <2>2. QED
    BY <1>1, <2>1 DEF SlotCover
<1>14. Cardinality(Inbound') <= MaxInbound
  BY <1>1, <1>5, InboundKept DEF SlotInv, NetInv
<1>15. QED
  BY <1>8, <1>11, <1>12, <1>13, <1>14 DEF SlotInv

\* max_outbound_connections, for any number of objects and openers: grants are
\* not multiplied until a thread finds one that another one is releasing, every
\* outbound node in vnodes that was opened with a grant has a slot, and inbound
\* nodes stay within their own limit.
THEOREM SlotsAlwaysBounded == Spec => []SlotsBounded
<1>1. Init => SlotInv
  <2> SUFFICES ASSUME Init PROVE SlotInv
    OBVIOUS
  <2>1. /\ Holders = {} /\ Occupying = {} /\ Inbound = {} /\ vnodes = {} /\ semaphore = MaxOutbound
    BY RecordFact DEF Init, Holders, Holds, Idle, Occupying, Inbound
  <2>2. GrantInv
    BY DEF Init, Idle, GrantInv, GrantOk
  <2>3. RaceInv
    BY DEF Init, Idle, RaceInv, RaceOk, SocketReleases, OpenerReleases
  <2>4. QED
    BY <2>1, <2>2, <2>3, FS_EmptySet, NetAssumption DEF SlotInv, SlotCount, SlotCover
<1>2. NetInv /\ NetInv' /\ SlotInv /\ [Next]_vars => SlotInv'
  <2> SUFFICES ASSUME NetInv, NetInv', SlotInv, [Next]_vars PROVE SlotInv'
    OBVIOUS
  <2>1. CASE SocketThread
    BY <2>1, ThreadSlots, DisconnectSlots, SocketPostSlots, SocketClearSlots, DeleteSlots,
       AcceptSlots DEF SocketThread
  <2>2. CASE MessageThread
    BY <2>2, ThreadSlots
  <2>3. ASSUME NEW o \in Opener, OpenerThread(o) PROVE SlotInv'
    BY <2>3, GrantSlots, OpenerSlots, ConnectSlots, MoveToSlots, MoveToPostSlots, MoveToClearSlots,
       MoveToStoreSlots DEF OpenerThread
  <2>4. CASE UNCHANGED vars
    BY <2>4 DEF vars, SlotInv, GrantInv, GrantOk, RaceInv, RaceOk, SlotCount, SlotCover, Covered,
                Holders, Holds, Occupying, ReleasingAt, Inbound, SocketReleases, OpenerReleases
  <2>5. QED
    BY <2>1, <2>2, <2>3, <2>4 DEF Next
<1>3. SlotInv => SlotsBounded
  BY DEF SlotInv, SlotCount, SlotCover, Covered, SlotsBounded, Holders, Inbound
<1>4. QED
  BY <1>1, <1>2, <1>3, NetInvariance, PTL DEF Spec

-----------------------------------------------------------------------------
(***************************************************************************)
(* The address manager.                                                    *)
(***************************************************************************)
\* The types of the entries and of the whole state.
Ids == Nat \ {0}
Entry == [svc : CService, src : Source, nrefcount : Int, fintried : BOOLEAN, pos : Nat]
Infos == UNION {[D -> Entry] : D \in SUBSET Ids}
State == [info : Infos, mapaddr : [Nets -> Nat], vrandom : Seq(Nat),
          vvnew : [NewSlots -> Nat], vvtried : [TriedSlots -> Nat],
          nnew : Int, ntried : Int, ok : BOOLEAN]

TriedIds(info) == {id \in DOMAIN info : info[id].fintried}
NewIds(info) == {id \in DOMAIN info : ~info[id].fintried}
Slots(table, id) == {slot \in DOMAIN table : table[slot] = id}

\* vrandom and the positions in the entries are inverse to each other.
VectorOk(info, v) ==
  /\ \A id \in DOMAIN info : info[id].pos \in 1 .. Len(v) /\ v[info[id].pos] = id
  /\ \A i \in 1 .. Len(v) : v[i] \in DOMAIN info /\ info[v[i]].pos = i

\* mapaddr finds exactly the entries.
IndexOk(info, m) ==
  /\ \A id \in DOMAIN info : m[NetAddr[info[id].svc]] = id
  /\ \A n \in Nets : m[n] # 0 => m[n] \in DOMAIN info /\ NetAddr[info[m[n]].svc] = n

\* The new table has entries in their places, as often as they count.
NewTableOk(info, t) ==
  /\ \A slot \in NewSlots :
       t[slot] # 0 => t[slot] \in DOMAIN info /\ slot = NewSlot(info[t[slot]].svc, slot[1])
  /\ \A id \in DOMAIN info : /\ info[id].nrefcount = Cardinality(Slots(t, id))
                             /\ info[id].nrefcount <= BucketsPerAddress
                             /\ info[id].fintried => info[id].nrefcount = 0

\* The tried table has exactly the tried entries.
TriedTableOk(info, t) ==
  /\ \A slot \in TriedSlots :
       t[slot] # 0 => /\ t[slot] \in DOMAIN info /\ info[t[slot]].fintried
                      /\ slot = TriedSlot(info[t[slot]].svc)
  /\ \A id \in DOMAIN info : info[id].fintried => t[TriedSlot(info[id].svc)] = id

\* The counters, which may be off by dn and dt during an operation.
CountsOk(info, nnew, ntried, dn, dt) ==
  /\ IsFiniteSet(DOMAIN info)
  /\ nnew = Cardinality(NewIds(info)) + dn
  /\ ntried = Cardinality(TriedIds(info)) + dt

\* Entries are in one of the tables, but for some that an operation is about to place.
HeldOk(info, L) ==
  \A id \in DOMAIN info \ L : info[id].fintried \/ info[id].nrefcount # 0

\* The structures v, m, n and t agree on the entries.
Agree(info, v, m, n, t, nnew, ntried, dn, dt, L) ==
  /\ VectorOk(info, v)
  /\ IndexOk(info, m)
  /\ NewTableOk(info, n)
  /\ TriedTableOk(info, t)
  /\ CountsOk(info, nnew, ntried, dn, dt)
  /\ HeldOk(info, L)

Sound(a, dn, dt, L) ==
  /\ a \in State /\ a.ok
  /\ Agree(a.info, a.vrandom, a.mapaddr, a.vvnew, a.vvtried, a.nnew, a.ntried, dn, dt, L)

\* The entries that tried entries of a still are in b, but for some of them.
TriedStay(a, b, E) ==
  \A id \in DOMAIN a.info \ E :
    a.info[id].fintried => id \in DOMAIN b.info /\ b.info[id].fintried /\ b.info[id].svc = a.info[id].svc

\* What the operations do to the parts.
Put(f, x, y) == [f EXCEPT ![x] = y]
NewEntry(s, src, p) == [svc |-> s, src |-> src, nrefcount |-> 0, fintried |-> FALSE, pos |-> p]
Recounted(info, id, k) == [info EXCEPT ![id].nrefcount = k]
Retried(info, id, f) == [info EXCEPT ![id].fintried = f]
SwappedInfo(info, v, i, j) == [info EXCEPT ![v[i]].pos = j, ![v[j]].pos = i]
SwappedVector(v, i, j) == [v EXCEPT ![i] = v[j], ![j] = v[i]]
TakenOut(n, id) == [slot \in NewSlots |-> IF slot \in Slots(n, id) THEN 0 ELSE n[slot]]

-----------------------------------------------------------------------------
\* What a state is made of.
LEMMA StateFact ==
  ASSUME NEW a \in State
  PROVE  /\ DOMAIN a.info \subseteq Ids
         /\ a.info \in [DOMAIN a.info -> Entry]
         /\ a.mapaddr \in [Nets -> Nat]
         /\ a.vrandom \in Seq(Nat)
         /\ a.vvnew \in [NewSlots -> Nat]
         /\ a.vvtried \in [TriedSlots -> Nat]
         /\ a.nnew \in Int /\ a.ntried \in Int /\ a.ok \in BOOLEAN
         /\ a = [info |-> a.info, mapaddr |-> a.mapaddr, vrandom |-> a.vrandom,
                 vvnew |-> a.vvnew, vvtried |-> a.vvtried, nnew |-> a.nnew,
                 ntried |-> a.ntried, ok |-> a.ok]
<1>1. a.info \in Infos
  BY DEF State
<1>2. DOMAIN a.info \subseteq Ids /\ a.info \in [DOMAIN a.info -> Entry]
  BY <1>1 DEF Infos
<1>3. QED
  BY <1>2 DEF State

\* and how one is made.
LEMMA StateMake ==
  ASSUME NEW D \in SUBSET Ids, NEW info \in [D -> Entry], NEW m \in [Nets -> Nat],
         NEW v \in Seq(Nat), NEW n \in [NewSlots -> Nat], NEW t \in [TriedSlots -> Nat],
         NEW nnew \in Int, NEW ntried \in Int, NEW ok \in BOOLEAN
  PROVE  [info |-> info, mapaddr |-> m, vrandom |-> v, vvnew |-> n, vvtried |-> t,
          nnew |-> nnew, ntried |-> ntried, ok |-> ok] \in State
<1>1. info \in Infos
  BY DEF Infos
<1>2. QED
  BY <1>1 DEF State

\* The places that services have in the tables.
LEMMA PlaceFact ==
  /\ IsFiniteSet(NewSlots)
  /\ \A s \in CService, r \in Source : GetNewBucket[s, r] \in NewBuckets
  /\ \A s \in CService, b \in NewBuckets : NewSlot(s, b) \in NewSlots /\ NewSlot(s, b)[1] = b
  /\ \A s \in CService : TriedSlot(s) \in TriedSlots
  /\ \A s \in CService : NetAddr[s] \in Nets
  /\ \A slot \in NewSlots : slot[1] \in NewBuckets
<1>1. IsFiniteSet(NewSlots)
  BY AddrManAssumption, FS_Product DEF NewSlots
<1>2. QED
  BY <1>1, AddrManAssumption DEF NewSlots, NewSlot, TriedSlots, TriedSlot, Nets

\* The places of an entry are finitely many.
LEMMA SlotsFact ==
  ASSUME NEW t \in [NewSlots -> Nat], NEW id
  PROVE  IsFiniteSet(Slots(t, id)) /\ Cardinality(Slots(t, id)) \in Nat
         /\ (Cardinality(Slots(t, id)) = 0 <=> Slots(t, id) = {})
<1>1. Slots(t, id) \in SUBSET NewSlots
  BY DEF Slots
<1>2. QED
  BY <1>1, PlaceFact, FS_Subset, FS_CardinalityType, FS_EmptySet

\* Table u is table t with another number in a place,
Puts(t, u, slot, id) ==
  /\ t \in [NewSlots -> Nat] /\ slot \in NewSlots /\ t[slot] # id /\ u \in [NewSlots -> Nat]
  /\ u[slot] = id /\ \A x \in NewSlots : x # slot => u[x] = t[x]

\* which then is in one place more and the one before in one place less.
LEMMA SlotsChange ==
  ASSUME NEW t, NEW u, NEW slot, NEW id, Puts(t, u, slot, id), NEW old, t[slot] = old
  PROVE  /\ Cardinality(Slots(u, id)) = Cardinality(Slots(t, id)) + 1
         /\ Cardinality(Slots(u, old)) = Cardinality(Slots(t, old)) - 1
         /\ \A x : x \notin {id, old} => Slots(u, x) = Slots(t, x)
<1> USE DEF Puts
<1>1. Slots(u, id) = Slots(t, id) \cup {slot} /\ slot \notin Slots(t, id)
  BY DEF Slots
<1>2. Slots(u, old) = Slots(t, old) \ {slot} /\ slot \in Slots(t, old)
  BY DEF Slots
<1>3. ASSUME NEW x, x \notin {id, old} PROVE Slots(u, x) = Slots(t, x)
  BY <1>3 DEF Slots
<1>4. IsFiniteSet(Slots(t, id)) /\ IsFiniteSet(Slots(t, old))
  BY SlotsFact
<1>5. Cardinality(Slots(u, id)) = Cardinality(Slots(t, id)) + 1
  BY <1>1, <1>4, FS_AddElement
<1>6. Cardinality(Slots(u, old)) = Cardinality(Slots(t, old)) - 1
  BY <1>2, <1>4, FS_RemoveElement
<1>7. QED
  BY <1>3, <1>5, <1>6

\* What the tables, the index and the counters say of entries does not depend on their
\* positions in vrandom.
SameButPos(info, e) ==
  /\ DOMAIN e = DOMAIN info
  /\ \A id \in DOMAIN info : /\ e[id].svc = info[id].svc /\ e[id].src = info[id].src
                             /\ e[id].nrefcount = info[id].nrefcount
                             /\ e[id].fintried = info[id].fintried

\* So a change of positions leaves them alone.
LEMMA PosFree ==
  ASSUME NEW D, NEW info \in [D -> Entry], NEW e \in [D -> Entry], SameButPos(info, e),
         NEW m \in [Nets -> Nat], NEW n \in [NewSlots -> Nat], NEW t \in [TriedSlots -> Nat],
         NEW nnew, NEW ntried, NEW dn, NEW dt, NEW L,
         NEW v, Agree(info, v, m, n, t, nnew, ntried, dn, dt, L),
         NEW w, VectorOk(e, w)
  PROVE  Agree(e, w, m, n, t, nnew, ntried, dn, dt, L)
<1> USE DEF Agree
<1>1. IndexOk(e, m)
  BY DEF IndexOk, SameButPos
<1>2. NewTableOk(e, n)
  BY DEF NewTableOk, SameButPos
<1>3. TriedTableOk(e, t)
  BY DEF TriedTableOk, SameButPos
<1>4. NewIds(e) = NewIds(info) /\ TriedIds(e) = TriedIds(info)
  BY DEF NewIds, TriedIds, SameButPos
<1>5. CountsOk(e, nnew, ntried, dn, dt)
  BY <1>4 DEF CountsOk, SameButPos
<1>6. HeldOk(e, L)
  BY DEF HeldOk, SameButPos
<1>7. QED
  BY <1>1, <1>2, <1>3, <1>5, <1>6

\* New entries and tried entries are finitely many.
LEMMA CountFact ==
  ASSUME NEW D \in SUBSET Ids, NEW info \in [D -> Entry], IsFiniteSet(D)
  PROVE  /\ IsFiniteSet(NewIds(info)) /\ Cardinality(NewIds(info)) \in Nat
         /\ IsFiniteSet(TriedIds(info)) /\ Cardinality(TriedIds(info)) \in Nat
         /\ Cardinality(D) = Cardinality(NewIds(info)) + Cardinality(TriedIds(info))
<1>1. /\ NewIds(info) \in SUBSET D /\ TriedIds(info) \in SUBSET D
      /\ D = NewIds(info) \cup TriedIds(info) /\ NewIds(info) \cap TriedIds(info) = {}
  BY DEF NewIds, TriedIds, Entry
<1>2. IsFiniteSet(NewIds(info)) /\ IsFiniteSet(TriedIds(info))
  BY <1>1, FS_Subset
<1>3. /\ Cardinality(NewIds(info)) \in Nat /\ Cardinality(TriedIds(info)) \in Nat
      /\ Cardinality(NewIds(info) \cap TriedIds(info)) = 0
  BY <1>1, <1>2, FS_CardinalityType, FS_EmptySet
<1>4. QED
  BY <1>1, <1>2, <1>3, FS_Union

\* create() with a number and an address that are not in use.
LEMMA AddEntry ==
  ASSUME NEW D \in SUBSET Ids, NEW info \in [D -> Entry], NEW id \in Ids \ D,
         NEW s \in CService, NEW src \in Source,
         NEW v \in Seq(Nat), NEW m \in [Nets -> Nat],
         NEW n \in [NewSlots -> Nat], NEW t \in [TriedSlots -> Nat],
         NEW nnew \in Int, NEW ntried \in Int, NEW dn \in Int, NEW dt \in Int, NEW L,
         Agree(info, v, m, n, t, nnew, ntried, dn, dt, L), m[NetAddr[s]] = 0
  PROVE  LET e == WithInfo(info, id, NewEntry(s, src, Len(v) + 1))
             w == Append(v, id)
             k == Put(m, NetAddr[s], id)
         IN  /\ e \in [D \cup {id} -> Entry] /\ w \in Seq(Nat) /\ k \in [Nets -> Nat]
             /\ Len(w) = Len(v) + 1
             /\ e[id].svc = s /\ e[id].src = src /\ e[id].nrefcount = 0 /\ ~e[id].fintried
             /\ \A x \in D : e[x] = info[x]
             /\ Agree(e, w, k, n, t, nnew, ntried, dn - 1, dt, L \cup {id})
<1> USE DEF Agree
<1> USE DEF Put, NewEntry
<1> DEFINE new == NewEntry(s, src, Len(v) + 1)
           e == WithInfo(info, id, new)
           w == Append(v, id)
           k == Put(m, NetAddr[s], id)
<1>1. /\ DOMAIN e = D \cup {id} /\ e[id] = new /\ \A x \in D : e[x] = info[x] /\ x # id
      /\ e = [x \in D \cup {id} |-> e[x]]
  BY DEF WithInfo
<1>2. /\ new \in Entry /\ new.svc = s /\ new.nrefcount = 0 /\ ~new.fintried
      /\ new.pos = Len(v) + 1 /\ new.src = src
  BY DEF Entry
<1>3. NetAddr[s] \in Nets /\ id # 0 /\ id \in Nat
  BY PlaceFact DEF Ids
<1>4. /\ w \in Seq(Nat) /\ Len(w) = Len(v) + 1 /\ w[Len(v) + 1] = id
      /\ \A i \in 1 .. Len(v) : w[i] = v[i]
  BY <1>3
<1>5. k \in [Nets -> Nat] /\ k[NetAddr[s]] = id /\ \A x \in Nets : x # NetAddr[s] => k[x] = m[x]
  BY <1>3
<1> HIDE DEF e, w, k, new
<1>6. e \in [D \cup {id} -> Entry]
  BY <1>1, <1>2
<1>7. VectorOk(e, w)
  <2>1. ASSUME NEW x \in DOMAIN e PROVE e[x].pos \in 1 .. Len(w) /\ w[e[x].pos] = x
    <3>1. CASE x = id
      BY <1>1, <1>2, <1>4, <3>1
    <3>2. CASE x \in D
      BY <1>1, <1>4, <3>2 DEF VectorOk
    <3>3. QED
      BY <1>1, <3>1, <3>2
  <2>2. ASSUME NEW i \in 1 .. Len(w) PROVE w[i] \in DOMAIN e /\ e[w[i]].pos = i
    <3>1. CASE i = Len(v) + 1
      BY <1>1, <1>2, <1>4, <3>1
    <3>2. CASE i \in 1 .. Len(v)
      <4>1. w[i] = v[i]
        BY <1>4, <3>2
      <4>2. v[i] \in D /\ info[v[i]].pos = i
        BY <1>1, <3>2 DEF VectorOk
      <4>3. QED
        BY <1>1, <4>1, <4>2
    <3>3. QED
      BY <1>4, <3>1, <3>2
  <2>3. QED
    BY <2>1, <2>2 DEF VectorOk
<1>8. IndexOk(e, k)
  <2>1. ASSUME NEW x \in D PROVE NetAddr[info[x].svc] # NetAddr[s] /\ NetAddr[info[x].svc] \in Nets
    <3>1. info[x].svc \in CService /\ x # 0
      BY DEF Entry, Ids
    <3>2. NetAddr[info[x].svc] \in Nets
      BY <3>1 DEF Nets
    <3>3. m[NetAddr[info[x].svc]] = x
      BY DEF IndexOk
    <3>4. QED
      BY <3>1, <3>2, <3>3
  <2>2. \A x \in DOMAIN e : k[NetAddr[e[x].svc]] = x
    BY <1>1, <1>2, <1>5, <2>1 DEF IndexOk
  <2>3. \A x \in Nets : k[x] # 0 => k[x] \in DOMAIN e /\ NetAddr[e[k[x]].svc] = x
    BY <1>1, <1>2, <1>5 DEF IndexOk
  <2>4. QED
    BY <2>2, <2>3 DEF IndexOk
<1>9. NewTableOk(e, n)
  <2>1. Slots(n, id) = {}
    BY <1>3 DEF NewTableOk, Slots
  <2>2. Cardinality(Slots(n, id)) = 0 /\ 0 <= BucketsPerAddress
    BY <2>1, FS_EmptySet, AddrManAssumption
  <2>3. QED
    BY <1>1, <1>2, <2>2 DEF NewTableOk
<1>10. TriedTableOk(e, t)
  BY <1>1, <1>2 DEF TriedTableOk
<1>11. CountsOk(e, nnew, ntried, dn - 1, dt)
  <2>1. NewIds(e) = NewIds(info) \cup {id} /\ id \notin NewIds(info) /\ TriedIds(e) = TriedIds(info)
    BY <1>1, <1>2 DEF NewIds, TriedIds
  <2>2. IsFiniteSet(D) /\ IsFiniteSet(NewIds(info)) /\ Cardinality(NewIds(info)) \in Nat
    BY CountFact DEF CountsOk
  <2>3. Cardinality(NewIds(e)) = Cardinality(NewIds(info)) + 1
    BY <2>1, <2>2, FS_AddElement
  <2>4. IsFiniteSet(DOMAIN e)
    BY <1>1, <2>2, FS_AddElement
  <2>5. QED
    BY <2>1, <2>2, <2>3, <2>4 DEF CountsOk
<1>12. HeldOk(e, L \cup {id})
  BY <1>1 DEF HeldOk
<1>13. QED
  BY <1>1, <1>2, <1>4, <1>5, <1>6, <1>7, <1>8, <1>9, <1>10, <1>11, <1>12 DEF e, w, k, new

\* Two places of a vector.
TwoPlaces(v, i, j) == v \in Seq(Nat) /\ i \in 1 .. Len(v) /\ j \in 1 .. Len(v) /\ i # j

\* A vector stays one of the same length when two of them are swapped.
LEMMA SwapVector ==
  ASSUME NEW v, NEW i, NEW j, TwoPlaces(v, i, j)
  PROVE  LET w == SwappedVector(v, i, j)
         IN  /\ w \in Seq(Nat) /\ Len(w) = Len(v) /\ w[i] = v[j] /\ w[j] = v[i]
             /\ \A k \in 1 .. Len(v) : k \notin {i, j} => w[k] = v[k]
BY DEF TwoPlaces, SwappedVector

\* Swapping two places of vrandom with the positions in the entries.
LEMMA SwapEntries ==
  ASSUME NEW D \in SUBSET Ids, NEW info \in [D -> Entry], NEW v, VectorOk(info, v),
         NEW i, NEW j, TwoPlaces(v, i, j)
  PROVE  LET e == SwappedInfo(info, v, i, j)
             w == SwappedVector(v, i, j)
         IN  /\ e \in [D -> Entry]
             /\ SameButPos(info, e) /\ VectorOk(e, w)
<1> USE DEF TwoPlaces, SwappedInfo, SwappedVector
<1> DEFINE e == SwappedInfo(info, v, i, j)
           w == SwappedVector(v, i, j)
<1>1. /\ v[i] \in D /\ v[j] \in D /\ info[v[i]].pos = i /\ info[v[j]].pos = j /\ v[i] # v[j]
      /\ i \in Nat /\ j \in Nat
  BY DEF VectorOk
<1>2. /\ e \in [D -> Entry] /\ SameButPos(info, e)
      /\ e[v[i]].pos = j /\ e[v[j]].pos = i
      /\ \A x \in D : x \notin {v[i], v[j]} => e[x].pos = info[x].pos
  BY <1>1 DEF Entry, SameButPos
<1>3. /\ w \in Seq(Nat) /\ Len(w) = Len(v) /\ w[i] = v[j] /\ w[j] = v[i]
      /\ \A k \in 1 .. Len(v) : k \notin {i, j} => w[k] = v[k]
  BY SwapVector
<1> HIDE DEF e, w
<1>4. VectorOk(e, w)
  <2>1. ASSUME NEW x \in DOMAIN e PROVE e[x].pos \in 1 .. Len(w) /\ w[e[x].pos] = x
    <3>1. CASE x \in {v[i], v[j]}
      BY <1>1, <1>2, <1>3, <3>1
    <3>2. CASE x \notin {v[i], v[j]}
      <4>1. x \in D /\ e[x].pos = info[x].pos
        BY <1>2, <3>2
      <4>2. info[x].pos \in 1 .. Len(v) /\ v[info[x].pos] = x
        BY <4>1 DEF VectorOk
      <4>3. info[x].pos \notin {i, j}
        BY <3>2, <4>2
      <4>4. QED
        BY <1>3, <4>1, <4>2, <4>3
    <3>3. QED
      BY <3>1, <3>2
  <2>2. ASSUME NEW k \in 1 .. Len(w) PROVE w[k] \in DOMAIN e /\ e[w[k]].pos = k
    <3>1. CASE k \in {i, j}
      BY <1>1, <1>2, <1>3, <3>1
    <3>2. CASE k \notin {i, j}
      <4>1. w[k] = v[k] /\ v[k] \in D /\ info[v[k]].pos = k
        BY <1>2, <1>3, <3>2 DEF VectorOk
      <4>2. v[k] \notin {v[i], v[j]}
        BY <1>1, <3>2, <4>1
      <4>3. QED
        BY <1>2, <4>1, <4>2
    <3>3. QED
      BY <3>1, <3>2
  <2>3. QED
    BY <2>1, <2>2 DEF VectorOk
<1>5. QED
  BY <1>2, <1>3, <1>4 DEF e, w

\* vector::pop_back.
LEMMA FrontFact ==
  ASSUME NEW v \in Seq(Nat), Len(v) # 0
  PROVE  /\ Front(v) \in Seq(Nat) /\ Len(Front(v)) = Len(v) - 1
         /\ \A i \in 1 .. Len(v) - 1 : Front(v)[i] = v[i]
<1> DEFINE n == Len(v) - 1
<1>1. n \in Nat /\ \A i \in 1 .. n : v[i] \in Nat
  OBVIOUS
<1>2. Front(v) = SubSeq(v, 1, n)
  BY DEF Front
<1> HIDE DEF n
<1>3. /\ Front(v) \in Seq(Nat) /\ Len(Front(v)) = IF 1 <= n THEN n - 1 + 1 ELSE 0
      /\ \A i \in 1 .. n - 1 + 1 : Front(v)[i] = v[1 + i - 1]
  BY <1>1, <1>2, SubSeqProperties
<1>4. Len(Front(v)) = n /\ n - 1 + 1 = n
  BY <1>1, <1>3
<1>5. \A i \in 1 .. n : Front(v)[i] = v[i]
  BY <1>1, <1>3, <1>4
<1>6. QED
  BY <1>3, <1>4, <1>5 DEF n

\* The structures without entry id, the last of vrandom, agree.
Removed(D, info, id, v, m, n, t, nnew, ntried, dn, dt, L) ==
  LET e == Without(info, id)
      w == Front(v)
      k == Put(m, NetAddr[info[id].svc], 0)
  IN  /\ e \in [D \ {id} -> Entry] /\ w \in Seq(Nat) /\ k \in [Nets -> Nat]
      /\ \A x \in D \ {id} : e[x] = info[x]
      /\ Agree(e, w, k, n, t, nnew - 1, ntried, dn, dt, L)

\* delete(): the entry is new, has no reference and is the last of vrandom.
LEMMA RemoveEntry ==
  ASSUME NEW D \in SUBSET Ids, NEW info \in [D -> Entry], NEW id \in D,
         NEW v \in Seq(Nat), NEW m \in [Nets -> Nat],
         NEW n \in [NewSlots -> Nat], NEW t \in [TriedSlots -> Nat],
         NEW nnew \in Int, NEW ntried \in Int, NEW dn \in Int, NEW dt \in Int, NEW L,
         Agree(info, v, m, n, t, nnew, ntried, dn, dt, L),
         ~info[id].fintried, info[id].nrefcount = 0, info[id].pos = Len(v)
  PROVE  Removed(D, info, id, v, m, n, t, nnew, ntried, dn, dt, L)
<1> USE DEF Agree
<1> USE DEF Put, Recounted, Retried, SwappedInfo, SwappedVector
<1> DEFINE e == Without(info, id)
           w == Front(v)
           net == NetAddr[info[id].svc]
           k == Put(m, net, 0)
<1>1. e \in [D \ {id} -> Entry] /\ DOMAIN e = D \ {id} /\ \A x \in D \ {id} : e[x] = info[x]
  BY DEF Without
<1>2. Len(v) \in Nat \ {0} /\ v[Len(v)] = id
  BY DEF VectorOk
<1>3. w \in Seq(Nat) /\ Len(w) = Len(v) - 1 /\ \A i \in 1 .. Len(v) - 1 : w[i] = v[i]
  BY <1>2, FrontFact
<1>4. net \in Nets /\ m[net] = id
  BY DEF IndexOk, Entry, Nets
<1>5. k \in [Nets -> Nat] /\ k[net] = 0 /\ \A x \in Nets : x # net => k[x] = m[x]
  BY <1>4
<1> HIDE DEF e, w, k, net
<1>6. VectorOk(e, w)
  <2>1. ASSUME NEW x \in DOMAIN e PROVE e[x].pos \in 1 .. Len(w) /\ w[e[x].pos] = x
    <3>1. x \in D /\ x # id /\ e[x] = info[x] /\ info[x].pos \in 1 .. Len(v) /\ v[info[x].pos] = x
      BY <1>1 DEF VectorOk
    <3>2. info[x].pos # Len(v)
      BY <1>2, <3>1
    <3>3. info[x].pos \in 1 .. Len(v) - 1
      BY <1>2, <3>1, <3>2
    <3>4. QED
      BY <1>2, <1>3, <3>1, <3>3
  <2>2. ASSUME NEW i \in 1 .. Len(w) PROVE w[i] \in DOMAIN e /\ e[w[i]].pos = i
    <3>1. i \in 1 .. Len(v) /\ i # Len(v) /\ w[i] = v[i]
      BY <1>2, <1>3
    <3>2. v[i] \in D /\ info[v[i]].pos = i
      BY <3>1 DEF VectorOk
    <3>3. v[i] # id
      BY <3>1, <3>2
    <3>4. QED
      BY <1>1, <3>1, <3>2, <3>3
  <2>3. QED
    BY <2>1, <2>2 DEF VectorOk
<1>7. IndexOk(e, k)
  <2>1. ASSUME NEW x \in DOMAIN e PROVE k[NetAddr[e[x].svc]] = x
    <3>1. x \in D /\ x # id /\ e[x] = info[x] /\ m[NetAddr[info[x].svc]] = x
      BY <1>1 DEF IndexOk
    <3>2. NetAddr[info[x].svc] \in Nets
      BY <3>1 DEF Entry, Nets
    <3>3. QED
      BY <1>4, <1>5, <3>1, <3>2
  <2>2. ASSUME NEW x \in Nets, k[x] # 0 PROVE k[x] \in DOMAIN e /\ NetAddr[e[k[x]].svc] = x
    <3>1. x # net /\ k[x] = m[x]
      BY <1>5, <2>2
    <3>2. m[x] \in D /\ NetAddr[info[m[x]].svc] = x
      BY <2>2, <3>1 DEF IndexOk
    <3>3. QED
      BY <1>1, <3>1, <3>2 DEF net
  <2>3. QED
    BY <2>1, <2>2 DEF IndexOk
<1>8. NewTableOk(e, n)
  <2>1. Slots(n, id) = {}
    <3>1. Cardinality(Slots(n, id)) = 0
      BY DEF NewTableOk
    <3>2. QED
      BY <3>1, SlotsFact
  <2>2. \A slot \in NewSlots : n[slot] # id
    BY <2>1 DEF Slots
  <2>3. QED
    BY <1>1, <2>2 DEF NewTableOk
<1>9. TriedTableOk(e, t)
  BY <1>1 DEF TriedTableOk
<1>10. CountsOk(e, nnew - 1, ntried, dn, dt)
  <2>1. NewIds(e) = NewIds(info) \ {id} /\ id \in NewIds(info) /\ TriedIds(e) = TriedIds(info)
    BY <1>1 DEF NewIds, TriedIds
  <2>2. IsFiniteSet(D) /\ IsFiniteSet(NewIds(info)) /\ Cardinality(NewIds(info)) \in Nat
    BY CountFact DEF CountsOk
  <2>3. Cardinality(NewIds(e)) = Cardinality(NewIds(info)) - 1
    BY <2>1, <2>2, FS_RemoveElement
  <2>4. IsFiniteSet(DOMAIN e)
    BY <1>1, <2>2, FS_RemoveElement
  <2>5. QED
    BY <2>1, <2>2, <2>3, <2>4 DEF CountsOk
<1>11. HeldOk(e, L)
  BY <1>1 DEF HeldOk
<1>12. QED
  BY <1>1, <1>3, <1>5, <1>6, <1>7, <1>8, <1>9, <1>10, <1>11 DEF Removed, e, w, k, net

\* Entries that differ only in how often they are referred to.
SameButCount(info, e) ==
  /\ DOMAIN e = DOMAIN info
  /\ \A id \in DOMAIN info : /\ e[id].svc = info[id].svc /\ e[id].src = info[id].src
                             /\ e[id].pos = info[id].pos
                             /\ e[id].fintried = info[id].fintried

\* For the other structures it does not matter how often.
LEMMA CountFree ==
  ASSUME NEW D, NEW info \in [D -> Entry], NEW e \in [D -> Entry], SameButCount(info, e),
         NEW m \in [Nets -> Nat], NEW n, NEW t \in [TriedSlots -> Nat],
         NEW nnew, NEW ntried, NEW dn, NEW dt, NEW L, NEW v,
         Agree(info, v, m, n, t, nnew, ntried, dn, dt, L),
         NEW o, NewTableOk(e, o), NEW M, HeldOk(e, M)
  PROVE  Agree(e, v, m, o, t, nnew, ntried, dn, dt, M)
<1>1. IndexOk(info, m) /\ VectorOk(info, v) /\ TriedTableOk(info, t) /\ CountsOk(info, nnew, ntried, dn, dt)
  BY DEF Agree
<1>2. IndexOk(e, m)
  <2>1. DOMAIN info = D /\ DOMAIN e = D /\ \A x \in D : e[x].svc = info[x].svc
    BY DEF SameButCount
  <2>2. QED
    BY <1>1, <2>1 DEF IndexOk
<1>3. VectorOk(e, v)
  BY <1>1 DEF VectorOk, SameButCount
<1>4. TriedTableOk(e, t)
  BY <1>1 DEF TriedTableOk, SameButCount
<1>5. NewIds(e) = NewIds(info) /\ TriedIds(e) = TriedIds(info)
  BY DEF NewIds, TriedIds, SameButCount
<1>6. CountsOk(e, nnew, ntried, dn, dt)
  BY <1>1, <1>5 DEF CountsOk, SameButCount
<1>7. QED
  BY <1>2, <1>3, <1>4, <1>6 DEF Agree

\* A reference from a free place.
LEMMA FillPlace ==
  ASSUME NEW D \in SUBSET Ids, NEW info \in [D -> Entry], NEW id \in D,
         NEW v, NEW m \in [Nets -> Nat],
         NEW n \in [NewSlots -> Nat], NEW t \in [TriedSlots -> Nat],
         NEW nnew \in Int, NEW ntried \in Int, NEW dn \in Int, NEW dt \in Int, NEW L,
         Agree(info, v, m, n, t, nnew, ntried, dn, dt, L),
         NEW slot \in NewSlots, n[slot] = 0, slot = NewSlot(info[id].svc, slot[1]),
         ~info[id].fintried, info[id].nrefcount < BucketsPerAddress
  PROVE  LET e == Recounted(info, id, info[id].nrefcount + 1)
             o == Put(n, slot, id)
         IN  /\ e \in [D -> Entry] /\ SameButCount(info, e) /\ o \in [NewSlots -> Nat]
             /\ e[id].nrefcount = info[id].nrefcount + 1 /\ \A x \in D : x # id => e[x] = info[x]
             /\ Agree(e, v, m, o, t, nnew, ntried, dn, dt, L \ {id})
<1> USE DEF Put, Recounted, Retried, SwappedInfo, SwappedVector
<1> DEFINE e == Recounted(info, id, info[id].nrefcount + 1)
           o == Put(n, slot, id)
<1>1. /\ e \in [D -> Entry] /\ SameButCount(info, e)
      /\ e[id].nrefcount = info[id].nrefcount + 1 /\ \A x \in D : x # id => e[x] = info[x]
  <2> DEFINE new == [info[id] EXCEPT !.nrefcount = info[id].nrefcount + 1]
  <2>1. e = [info EXCEPT ![id] = new]
    OBVIOUS
  <2>2. info[id] \in Entry
    OBVIOUS
  <2>3. /\ new \in Entry /\ new.svc = info[id].svc /\ new.src = info[id].src
        /\ new.pos = info[id].pos /\ new.fintried = info[id].fintried
        /\ new.nrefcount = info[id].nrefcount + 1
    BY <2>2 DEF Entry
  <2> HIDE DEF e, new
  <2>4. e \in [D -> Entry] /\ e[id] = new /\ \A x \in D : x # id => e[x] = info[x]
    BY <2>1, <2>3
  <2>5. QED
    BY <2>3, <2>4 DEF SameButCount
<1>2. id \in Nat /\ id # 0
  BY DEF Ids
<1>3. /\ o \in [NewSlots -> Nat]
      /\ Cardinality(Slots(o, id)) = Cardinality(Slots(n, id)) + 1
      /\ \A x : x \notin {id, 0} => Slots(o, x) = Slots(n, x)
      /\ o[slot] = id /\ \A x \in NewSlots : x # slot => o[x] = n[x]
  <2> HIDE DEF o
  <2>1. /\ o \in [NewSlots -> Nat] /\ o[slot] = id /\ \A x \in NewSlots : x # slot => o[x] = n[x]
        /\ Puts(n, o, slot, id)
    BY <1>2 DEF o, Puts
  <2>2. Cardinality(Slots(o, id)) = Cardinality(Slots(n, id)) + 1
    BY <2>1, SlotsChange
  <2>3. \A x : x \notin {id, 0} => Slots(o, x) = Slots(n, x)
    BY <2>1, SlotsChange
  <2>4. QED
    BY <2>1, <2>2, <2>3
<1>4. NewTableOk(info, n) /\ HeldOk(info, L) /\ DOMAIN info = D
  BY DEF Agree
<1> HIDE DEF e, o
<1>5. NewTableOk(e, o)
  <2>1. \A x \in NewSlots : o[x] # 0 => o[x] \in DOMAIN e /\ x = NewSlot(e[o[x]].svc, x[1])
    <3>1. ASSUME NEW x \in NewSlots, x # slot, n[x] # 0
          PROVE  n[x] \in D /\ x = NewSlot(info[n[x]].svc, x[1]) /\ info[n[x]].svc = e[n[x]].svc
      BY <1>1, <1>4, <3>1 DEF NewTableOk, SameButCount
    <3>2. e[id].svc = info[id].svc /\ DOMAIN e = D
      BY <1>1 DEF SameButCount
    <3>3. QED
      BY <1>3, <3>1, <3>2
  <2>2. ASSUME NEW x \in DOMAIN e
        PROVE  /\ e[x].nrefcount = Cardinality(Slots(o, x)) /\ e[x].nrefcount <= BucketsPerAddress
               /\ e[x].fintried => e[x].nrefcount = 0
    <3>1. x \in D /\ x # 0
      BY <1>1 DEF Ids
    <3>2. /\ info[x].nrefcount = Cardinality(Slots(n, x)) /\ info[x].nrefcount <= BucketsPerAddress
          /\ info[x].fintried => info[x].nrefcount = 0
      BY <1>4, <3>1 DEF NewTableOk
    <3>3. CASE x # id
      BY <1>1, <1>3, <3>1, <3>2, <3>3
    <3>4. CASE x = id
      <4>1. info[id].nrefcount \in Int /\ BucketsPerAddress \in Int
        BY AddrManAssumption DEF Entry
      <4>2. ~e[x].fintried
        BY <1>1, <3>4 DEF SameButCount
      <4>3. QED
        BY <1>1, <1>3, <3>2, <3>4, <4>1, <4>2
    <3>5. QED
      BY <3>3, <3>4
  <2>3. QED
    BY <2>1, <2>2 DEF NewTableOk
<1>6. HeldOk(e, L \ {id})
  <2>1. e[id].nrefcount # 0
    <3>1. info[id].nrefcount = Cardinality(Slots(n, id))
      BY <1>4 DEF NewTableOk
    <3>2. QED
      BY <1>1, <3>1, SlotsFact
  <2>2. QED
    BY <1>1, <1>4, <2>1 DEF HeldOk, SameButCount
<1>7. Agree(e, v, m, o, t, nnew, ntried, dn, dt, L \ {id})
  BY <1>1, <1>5, <1>6, CountFree
<1>8. QED
  BY <1>1, <1>3, <1>7 DEF e, o

\* clearnew() on an occupied place, before the entry is deleted if this was its last one.
LEMMA EmptyPlace ==
  ASSUME NEW D \in SUBSET Ids, NEW info \in [D -> Entry], NEW id \in D,
         NEW v, NEW m \in [Nets -> Nat],
         NEW n \in [NewSlots -> Nat], NEW t \in [TriedSlots -> Nat],
         NEW nnew \in Int, NEW ntried \in Int, NEW dn \in Int, NEW dt \in Int, NEW L,
         Agree(info, v, m, n, t, nnew, ntried, dn, dt, L),
         NEW slot \in NewSlots, n[slot] = id
  PROVE  LET e == Recounted(info, id, info[id].nrefcount - 1)
             o == Put(n, slot, 0)
         IN  /\ e \in [D -> Entry] /\ SameButCount(info, e) /\ o \in [NewSlots -> Nat]
             /\ info[id].nrefcount > 0 /\ ~info[id].fintried
             /\ e[id].nrefcount = info[id].nrefcount - 1 /\ \A x \in D : x # id => e[x] = info[x]
             /\ Agree(e, v, m, o, t, nnew, ntried, dn, dt, L \cup {id})
<1> USE DEF Put, Recounted, Retried, SwappedInfo, SwappedVector
<1> DEFINE e == Recounted(info, id, info[id].nrefcount - 1)
           o == Put(n, slot, 0)
<1>1. /\ e \in [D -> Entry] /\ SameButCount(info, e)
      /\ e[id].nrefcount = info[id].nrefcount - 1 /\ \A x \in D : x # id => e[x] = info[x]
  <2> DEFINE new == [info[id] EXCEPT !.nrefcount = info[id].nrefcount - 1]
  <2>1. e = [info EXCEPT ![id] = new]
    OBVIOUS
  <2>2. info[id] \in Entry
    OBVIOUS
  <2>3. /\ new \in Entry /\ new.svc = info[id].svc /\ new.src = info[id].src
        /\ new.pos = info[id].pos /\ new.fintried = info[id].fintried
        /\ new.nrefcount = info[id].nrefcount - 1
    BY <2>2 DEF Entry
  <2> HIDE DEF e, new
  <2>4. e \in [D -> Entry] /\ e[id] = new /\ \A x \in D : x # id => e[x] = info[x]
    BY <2>1, <2>3
  <2>5. QED
    BY <2>3, <2>4 DEF SameButCount
<1>2. id \in Nat /\ id # 0 /\ 0 \in Nat
  BY DEF Ids
<1>3. /\ o \in [NewSlots -> Nat]
      /\ Cardinality(Slots(o, id)) = Cardinality(Slots(n, id)) - 1
      /\ \A x : x \notin {id, 0} => Slots(o, x) = Slots(n, x)
      /\ o[slot] = 0 /\ \A x \in NewSlots : x # slot => o[x] = n[x]
  <2> HIDE DEF o
  <2>1. /\ o \in [NewSlots -> Nat] /\ o[slot] = 0 /\ \A x \in NewSlots : x # slot => o[x] = n[x]
        /\ Puts(n, o, slot, 0)
    BY <1>2 DEF o, Puts
  <2>2. Cardinality(Slots(o, id)) = Cardinality(Slots(n, id)) - 1
    BY <2>1, SlotsChange
  <2>3. \A x : x \notin {id, 0} => Slots(o, x) = Slots(n, x)
    BY <2>1, SlotsChange
  <2>4. QED
    BY <2>1, <2>2, <2>3
<1>4. NewTableOk(info, n) /\ HeldOk(info, L) /\ DOMAIN info = D
  BY DEF Agree
<1>5. info[id].nrefcount > 0 /\ ~info[id].fintried
  <2>1. slot \in Slots(n, id)
    BY DEF Slots
  <2>2. info[id].nrefcount = Cardinality(Slots(n, id))
    BY <1>4 DEF NewTableOk
  <2>3. info[id].nrefcount > 0
    BY <2>1, <2>2, SlotsFact
  <2>4. QED
    BY <1>4, <2>3 DEF NewTableOk
<1> HIDE DEF e, o
<1>6. NewTableOk(e, o)
  <2>1. \A x \in NewSlots : o[x] # 0 => o[x] \in DOMAIN e /\ x = NewSlot(e[o[x]].svc, x[1])
    <3>1. ASSUME NEW x \in NewSlots, x # slot, n[x] # 0
          PROVE  n[x] \in D /\ x = NewSlot(info[n[x]].svc, x[1]) /\ info[n[x]].svc = e[n[x]].svc
      BY <1>1, <1>4, <3>1 DEF NewTableOk, SameButCount
    <3>2. e[id].svc = info[id].svc /\ DOMAIN e = D
      BY <1>1 DEF SameButCount
    <3>3. QED
      BY <1>3, <3>1, <3>2
  <2>2. ASSUME NEW x \in DOMAIN e
        PROVE  /\ e[x].nrefcount = Cardinality(Slots(o, x)) /\ e[x].nrefcount <= BucketsPerAddress
               /\ e[x].fintried => e[x].nrefcount = 0
    <3>1. x \in D /\ x # 0
      BY <1>1 DEF Ids
    <3>2. /\ info[x].nrefcount = Cardinality(Slots(n, x)) /\ info[x].nrefcount <= BucketsPerAddress
          /\ info[x].fintried => info[x].nrefcount = 0
      BY <1>4, <3>1 DEF NewTableOk
    <3>3. CASE x # id
      BY <1>1, <1>3, <3>1, <3>2, <3>3
    <3>4. CASE x = id
      <4>1. info[id].nrefcount \in Int /\ BucketsPerAddress \in Int
        BY AddrManAssumption DEF Entry
      <4>2. ~e[x].fintried
        BY <1>1, <1>5, <3>4 DEF SameButCount
      <4>3. QED
        BY <1>1, <1>3, <3>2, <3>4, <4>1, <4>2
    <3>5. QED
      BY <3>3, <3>4
  <2>3. QED
    BY <2>1, <2>2 DEF NewTableOk
<1>7. HeldOk(e, L \cup {id})
  BY <1>1, <1>4 DEF HeldOk, SameButCount
<1>8. Agree(e, v, m, o, t, nnew, ntried, dn, dt, L \cup {id})
  BY <1>1, <1>6, <1>7, CountFree
<1>9. QED
  BY <1>1, <1>3, <1>5, <1>8 DEF e, o

\* An entry with another nrefcount or fintried is one, and otherwise the same.
LEMMA EntryChange ==
  ASSUME NEW c \in Entry
  PROVE  /\ \A k \in Int : LET e == [c EXCEPT !.nrefcount = k]
                           IN  /\ e \in Entry /\ e.nrefcount = k /\ e.svc = c.svc /\ e.src = c.src
                               /\ e.pos = c.pos /\ e.fintried = c.fintried
         /\ \A f \in BOOLEAN : LET e == [c EXCEPT !.fintried = f]
                               IN  /\ e \in Entry /\ e.fintried = f /\ e.svc = c.svc /\ e.src = c.src
                                   /\ e.pos = c.pos /\ e.nrefcount = c.nrefcount
<1>1. ASSUME NEW k \in Int
      PROVE  LET e == [c EXCEPT !.nrefcount = k]
             IN  /\ e \in Entry /\ e.nrefcount = k /\ e.svc = c.svc /\ e.src = c.src
                 /\ e.pos = c.pos /\ e.fintried = c.fintried
  BY DEF Entry
<1>2. ASSUME NEW f \in BOOLEAN
      PROVE  LET e == [c EXCEPT !.fintried = f]
             IN  /\ e \in Entry /\ e.fintried = f /\ e.svc = c.svc /\ e.src = c.src
                 /\ e.pos = c.pos /\ e.nrefcount = c.nrefcount
  BY DEF Entry
<1>3. QED
  BY <1>1, <1>2

\* A finite set without one of its elements.
LEMMA OneLess ==
  ASSUME NEW S, IsFiniteSet(S), NEW x \in S, NEW T, T = S \ {x}
  PROVE  IsFiniteSet(T) /\ Cardinality(T) = Cardinality(S) - 1
BY FS_RemoveElement

\* Entries that differ only in fintried, and only one of them.
SameButTried(info, e, id, f) ==
  /\ DOMAIN e = DOMAIN info
  /\ e[id].fintried = f
  /\ \A x \in DOMAIN info : /\ e[x].svc = info[x].svc /\ e[x].src = info[x].src
                            /\ e[x].pos = info[x].pos /\ e[x].nrefcount = info[x].nrefcount
                            /\ x # id => e[x].fintried = info[x].fintried

\* vrandom, the index and the new table do not look at it.
LEMMA TriedFree ==
  ASSUME NEW D \in SUBSET Ids, NEW info \in [D -> Entry], NEW e \in [D -> Entry],
         NEW id \in D, NEW f \in BOOLEAN, SameButTried(info, e, id, f),
         NEW v, VectorOk(info, v), NEW m, IndexOk(info, m),
         NEW n, NewTableOk(info, n), info[id].nrefcount = 0
  PROVE  VectorOk(e, v) /\ IndexOk(e, m) /\ NewTableOk(e, n)
<1>1. VectorOk(e, v)
  BY DEF VectorOk, SameButTried
<1>2. IndexOk(e, m)
  BY DEF IndexOk, SameButTried
<1>3. NewTableOk(e, n)
  BY DEF NewTableOk, SameButTried
<1>4. QED
  BY <1>1, <1>2, <1>3

\* The tried entry of a place becomes a new one, not yet counted and without a place.
LEMMA LeaveTried ==
  ASSUME NEW D \in SUBSET Ids, NEW info \in [D -> Entry], NEW id \in D,
         NEW v, NEW m \in [Nets -> Nat],
         NEW n \in [NewSlots -> Nat], NEW t \in [TriedSlots -> Nat],
         NEW nnew \in Int, NEW ntried \in Int, NEW dn \in Int, NEW dt \in Int, NEW L,
         Agree(info, v, m, n, t, nnew, ntried, dn, dt, L),
         NEW slot \in TriedSlots, t[slot] = id
  PROVE  LET e == Retried(info, id, FALSE)
             u == Put(t, slot, 0)
         IN  /\ e \in [D -> Entry] /\ u \in [TriedSlots -> Nat]
             /\ SameButTried(info, e, id, FALSE) /\ info[id].fintried /\ info[id].nrefcount = 0
             /\ Agree(e, v, m, n, u, nnew, ntried - 1, dn - 1, dt, L \cup {id})
<1> USE DEF Put, Recounted, Retried, SwappedInfo, SwappedVector
<1> DEFINE e == Retried(info, id, FALSE)
           u == Put(t, slot, 0)
<1>1. e \in [D -> Entry] /\ SameButTried(info, e, id, FALSE)
  <2> DEFINE new == [info[id] EXCEPT !.fintried = FALSE]
  <2>1. e = [info EXCEPT ![id] = new]
    OBVIOUS
  <2>2. /\ new \in Entry /\ new.svc = info[id].svc /\ new.src = info[id].src
        /\ new.pos = info[id].pos /\ new.fintried = FALSE /\ new.nrefcount = info[id].nrefcount
    BY EntryChange
  <2> HIDE DEF e, new
  <2>3. e \in [D -> Entry] /\ e[id] = new /\ \A x \in D : x # id => e[x] = info[x]
    BY <2>1, <2>2
  <2>4. QED
    BY <2>2, <2>3 DEF SameButTried
<1>2. u \in [TriedSlots -> Nat] /\ u[slot] = 0 /\ \A x \in TriedSlots : x # slot => u[x] = t[x]
  OBVIOUS
<1> HIDE DEF e, u
<1>3. /\ VectorOk(info, v) /\ IndexOk(info, m) /\ NewTableOk(info, n) /\ TriedTableOk(info, t)
      /\ CountsOk(info, nnew, ntried, dn, dt) /\ HeldOk(info, L) /\ DOMAIN info = D
  BY DEF Agree
<1>4. info[id].fintried /\ slot = TriedSlot(info[id].svc) /\ id # 0
  BY <1>3 DEF TriedTableOk, Ids
<1>5. info[id].nrefcount = 0
  BY <1>3, <1>4 DEF NewTableOk
<1>6. VectorOk(e, v) /\ IndexOk(e, m) /\ NewTableOk(e, n)
  BY <1>1, <1>3, <1>5, TriedFree
<1>7. TriedTableOk(e, u)
  <2>1. ASSUME NEW x \in TriedSlots, u[x] # 0
        PROVE  u[x] \in DOMAIN e /\ e[u[x]].fintried /\ x = TriedSlot(e[u[x]].svc)
    <3>1. x # slot /\ u[x] = t[x]
      BY <1>2, <2>1
    <3>2. t[x] \in D /\ info[t[x]].fintried /\ x = TriedSlot(info[t[x]].svc)
      BY <1>3, <2>1, <3>1 DEF TriedTableOk
    <3>3. t[x] # id
      BY <1>4, <3>1, <3>2
    <3>4. QED
      BY <1>1, <3>1, <3>2, <3>3 DEF SameButTried
  <2>2. ASSUME NEW x \in DOMAIN e, e[x].fintried PROVE u[TriedSlot(e[x].svc)] = x
    <3>1. x \in D /\ x # id /\ info[x].fintried /\ e[x].svc = info[x].svc /\ info[x].svc \in CService
      BY <1>1, <2>2 DEF SameButTried, Entry
    <3>2. t[TriedSlot(info[x].svc)] = x
      BY <1>3, <3>1 DEF TriedTableOk
    <3>3. TriedSlot(info[x].svc) \in TriedSlots
      BY <3>1, PlaceFact
    <3>4. QED
      BY <1>2, <3>1, <3>2, <3>3
  <2>3. QED
    BY <2>1, <2>2 DEF TriedTableOk
<1>8. CountsOk(e, nnew, ntried - 1, dn - 1, dt)
  <2>1. /\ NewIds(e) = NewIds(info) \cup {id} /\ id \notin NewIds(info)
        /\ TriedIds(e) = TriedIds(info) \ {id} /\ id \in TriedIds(info)
    BY <1>1, <1>4 DEF NewIds, TriedIds, SameButTried
  <2>2. IsFiniteSet(D)
    BY <1>3 DEF CountsOk
  <2>3. /\ IsFiniteSet(NewIds(info)) /\ Cardinality(NewIds(info)) \in Nat
        /\ IsFiniteSet(TriedIds(info)) /\ Cardinality(TriedIds(info)) \in Nat
    BY <2>2, CountFact
  <2>4. /\ Cardinality(NewIds(e)) = Cardinality(NewIds(info)) + 1
        /\ Cardinality(TriedIds(e)) = Cardinality(TriedIds(info)) - 1
    <3>1. Cardinality(NewIds(e)) = Cardinality(NewIds(info)) + 1
      BY <2>1, <2>3, FS_AddElement
    <3>2. Cardinality(TriedIds(e)) = Cardinality(TriedIds(info)) - 1
      BY <2>1, <2>3, OneLess
    <3>3. QED
      BY <3>1, <3>2
  <2>5. IsFiniteSet(DOMAIN e)
    BY <1>1, <2>2 DEF SameButTried
  <2>6. QED
    BY <1>3, <2>3, <2>4, <2>5 DEF CountsOk
<1>9. HeldOk(e, L \cup {id})
  BY <1>1, <1>3 DEF HeldOk, SameButTried
<1>10. Agree(e, v, m, n, u, nnew, ntried - 1, dn - 1, dt, L \cup {id})
  BY <1>6, <1>7, <1>8, <1>9 DEF Agree
<1>11. QED
  BY <1>1, <1>2, <1>4, <1>5, <1>10 DEF e, u

\* A new entry that has no place and is not counted becomes the tried one of its place.
LEMMA EnterTried ==
  ASSUME NEW D \in SUBSET Ids, NEW info \in [D -> Entry], NEW id \in D,
         NEW v, NEW m \in [Nets -> Nat],
         NEW n \in [NewSlots -> Nat], NEW t \in [TriedSlots -> Nat],
         NEW nnew \in Int, NEW ntried \in Int, NEW dn \in Int, NEW dt \in Int, NEW L,
         Agree(info, v, m, n, t, nnew, ntried, dn, dt, L),
         ~info[id].fintried, info[id].nrefcount = 0, t[TriedSlot(info[id].svc)] = 0
  PROVE  LET e == Retried(info, id, TRUE)
             u == Put(t, TriedSlot(info[id].svc), id)
         IN  /\ e \in [D -> Entry] /\ u \in [TriedSlots -> Nat]
             /\ SameButTried(info, e, id, TRUE)
             /\ Agree(e, v, m, n, u, nnew, ntried + 1, dn + 1, dt, L \ {id})
             /\ Agree(e, v, m, n, u, nnew, ntried, dn + 1, dt - 1, L \ {id})
<1> USE DEF Put, Recounted, Retried, SwappedInfo, SwappedVector
<1> DEFINE e == Retried(info, id, TRUE)
           slot == TriedSlot(info[id].svc)
           u == Put(t, slot, id)
<1>1. e \in [D -> Entry] /\ SameButTried(info, e, id, TRUE)
  <2> DEFINE new == [info[id] EXCEPT !.fintried = TRUE]
  <2>1. e = [info EXCEPT ![id] = new]
    OBVIOUS
  <2>2. /\ new \in Entry /\ new.svc = info[id].svc /\ new.src = info[id].src
        /\ new.pos = info[id].pos /\ new.fintried = TRUE /\ new.nrefcount = info[id].nrefcount
    BY EntryChange
  <2> HIDE DEF e, new
  <2>3. e \in [D -> Entry] /\ e[id] = new /\ \A x \in D : x # id => e[x] = info[x]
    BY <2>1, <2>2
  <2>4. QED
    BY <2>2, <2>3 DEF SameButTried
<1>2. slot \in TriedSlots /\ id # 0 /\ id \in Nat
  BY PlaceFact DEF Entry, Ids
<1>3. u \in [TriedSlots -> Nat] /\ u[slot] = id /\ \A x \in TriedSlots : x # slot => u[x] = t[x]
  BY <1>2
<1>4. t[slot] = 0 /\ slot = TriedSlot(info[id].svc)
  OBVIOUS
<1> HIDE DEF e, u, slot
<1>5. /\ VectorOk(info, v) /\ IndexOk(info, m) /\ NewTableOk(info, n) /\ TriedTableOk(info, t)
      /\ CountsOk(info, nnew, ntried, dn, dt) /\ HeldOk(info, L) /\ DOMAIN info = D
  BY DEF Agree
<1>6. VectorOk(e, v) /\ IndexOk(e, m) /\ NewTableOk(e, n)
  BY <1>1, <1>5, TriedFree
<1>7. TriedTableOk(e, u)
  <2>1. ASSUME NEW x \in TriedSlots, u[x] # 0
        PROVE  u[x] \in DOMAIN e /\ e[u[x]].fintried /\ x = TriedSlot(e[u[x]].svc)
    <3>1. CASE x = slot
      BY <1>4, <1>1, <1>3, <3>1 DEF SameButTried
    <3>2. CASE x # slot
      <4>1. u[x] = t[x]
        BY <1>3, <3>2
      <4>2. t[x] \in D /\ info[t[x]].fintried /\ x = TriedSlot(info[t[x]].svc)
        BY <1>5, <2>1, <4>1 DEF TriedTableOk
      <4>3. QED
        BY <1>1, <4>1, <4>2 DEF SameButTried
    <3>3. QED
      BY <3>1, <3>2
  <2>2. ASSUME NEW x \in DOMAIN e, e[x].fintried PROVE u[TriedSlot(e[x].svc)] = x
    <3>1. x \in D /\ e[x].svc = info[x].svc /\ info[x].svc \in CService
      BY <1>1 DEF SameButTried, Entry
    <3>2. CASE x = id
      BY <1>4, <1>3, <3>1, <3>2
    <3>3. CASE x # id
      <4>1. info[x].fintried
        BY <1>1, <2>2, <3>1, <3>3 DEF SameButTried
      <4>2. t[TriedSlot(info[x].svc)] = x /\ x # 0
        BY <1>5, <3>1, <4>1 DEF TriedTableOk, Ids
      <4>3. TriedSlot(info[x].svc) \in TriedSlots /\ TriedSlot(info[x].svc) # slot
        BY <1>4, <3>1, <4>2, PlaceFact
      <4>4. QED
        BY <1>3, <3>1, <4>2, <4>3
    <3>4. QED
      BY <3>2, <3>3
  <2>3. QED
    BY <2>1, <2>2 DEF TriedTableOk
<1>8. CountsOk(e, nnew, ntried + 1, dn + 1, dt) /\ CountsOk(e, nnew, ntried, dn + 1, dt - 1)
  <2>1. /\ NewIds(e) = NewIds(info) \ {id} /\ id \in NewIds(info)
        /\ TriedIds(e) = TriedIds(info) \cup {id} /\ id \notin TriedIds(info)
    BY <1>1 DEF NewIds, TriedIds, SameButTried
  <2>2. IsFiniteSet(D)
    BY <1>5 DEF CountsOk
  <2>3. /\ IsFiniteSet(NewIds(info)) /\ Cardinality(NewIds(info)) \in Nat
        /\ IsFiniteSet(TriedIds(info)) /\ Cardinality(TriedIds(info)) \in Nat
    BY <2>2, CountFact
  <2>4. /\ Cardinality(NewIds(e)) = Cardinality(NewIds(info)) - 1
        /\ Cardinality(TriedIds(e)) = Cardinality(TriedIds(info)) + 1
    <3>1. Cardinality(NewIds(e)) = Cardinality(NewIds(info)) - 1
      BY <2>1, <2>3, FS_RemoveElement
    <3>2. Cardinality(TriedIds(e)) = Cardinality(TriedIds(info)) + 1
      BY <2>1, <2>3, FS_AddElement
    <3>3. QED
      BY <3>1, <3>2
  <2>5. IsFiniteSet(DOMAIN e)
    BY <1>1, <2>2 DEF SameButTried
  <2>6. QED
    BY <1>5, <2>3, <2>4, <2>5 DEF CountsOk
<1>9. HeldOk(e, L \ {id})
  BY <1>1, <1>5 DEF HeldOk, SameButTried
<1>10. /\ Agree(e, v, m, n, u, nnew, ntried + 1, dn + 1, dt, L \ {id})
       /\ Agree(e, v, m, n, u, nnew, ntried, dn + 1, dt - 1, L \ {id})
  BY <1>6, <1>7, <1>8, <1>9 DEF Agree
<1>11. QED
  BY <1>1, <1>3, <1>10 DEF e, u, slot

\* The first half of maketried(): an entry leaves all its places of the new table.
LEMMA LeavePlaces ==
  ASSUME NEW D \in SUBSET Ids, NEW info \in [D -> Entry], NEW id \in D,
         NEW v, NEW m \in [Nets -> Nat],
         NEW n \in [NewSlots -> Nat], NEW t \in [TriedSlots -> Nat],
         NEW nnew \in Int, NEW ntried \in Int, NEW dn \in Int, NEW dt \in Int, NEW L,
         Agree(info, v, m, n, t, nnew, ntried, dn, dt, L)
  PROVE  LET e == Recounted(info, id, info[id].nrefcount - Cardinality(Slots(n, id)))
             o == TakenOut(n, id)
         IN  /\ e \in [D -> Entry] /\ o \in [NewSlots -> Nat]
             /\ SameButCount(info, e) /\ e[id].nrefcount = 0
             /\ Agree(e, v, m, o, t, nnew, ntried, dn, dt, L \cup {id})
<1> USE DEF Recounted, TakenOut
<1> DEFINE k == info[id].nrefcount - Cardinality(Slots(n, id))
           new == [info[id] EXCEPT !.nrefcount = k]
           e == Recounted(info, id, info[id].nrefcount - Cardinality(Slots(n, id)))
           o == TakenOut(n, id)
<1>1. NewTableOk(info, n) /\ HeldOk(info, L) /\ DOMAIN info = D
  BY DEF Agree
<1>2. k = 0
  <2>1. info[id].nrefcount = Cardinality(Slots(n, id))
    BY <1>1 DEF NewTableOk
  <2>2. QED
    BY <2>1, SlotsFact
<1>3. e = [info EXCEPT ![id] = new]
  OBVIOUS
<1>4. /\ new \in Entry /\ new.svc = info[id].svc /\ new.src = info[id].src
      /\ new.pos = info[id].pos /\ new.fintried = info[id].fintried /\ new.nrefcount = 0
  <2> HIDE DEF k
  <2> QED BY <1>2, EntryChange
<1>5. o \in [NewSlots -> Nat] /\ \A x \in NewSlots : o[x] = IF n[x] = id THEN 0 ELSE n[x]
  BY DEF Slots
<1> HIDE DEF k, new, e, o
<1>6. e \in [D -> Entry] /\ e[id] = new /\ \A x \in D : x # id => e[x] = info[x]
  BY <1>3, <1>4
<1>7. SameButCount(info, e)
  BY <1>4, <1>6 DEF SameButCount
<1>8. NewTableOk(e, o)
  <2>1. ASSUME NEW x \in NewSlots, o[x] # 0
        PROVE  o[x] \in DOMAIN e /\ x = NewSlot(e[o[x]].svc, x[1])
    <3>1. o[x] = n[x] /\ n[x] # id /\ n[x] # 0
      BY <1>5, <2>1
    <3>2. n[x] \in D /\ x = NewSlot(info[n[x]].svc, x[1])
      BY <1>1, <3>1 DEF NewTableOk
    <3>3. QED
      BY <1>6, <3>1, <3>2
  <2>2. ASSUME NEW x \in DOMAIN e
        PROVE  /\ e[x].nrefcount = Cardinality(Slots(o, x)) /\ e[x].nrefcount <= BucketsPerAddress
               /\ e[x].fintried => e[x].nrefcount = 0
    <3>1. x \in D /\ x # 0
      BY <1>6 DEF Ids
    <3>2. CASE x # id
      <4>1. Slots(o, x) = Slots(n, x)
        BY <1>5, <3>1, <3>2 DEF Slots
      <4>2. QED
        BY <1>1, <1>6, <3>1, <3>2, <4>1 DEF NewTableOk
    <3>3. CASE x = id
      <4>1. Slots(o, x) = {}
        BY <1>5, <3>1, <3>3 DEF Slots
      <4>2. Cardinality(Slots(o, x)) = 0 /\ 0 <= BucketsPerAddress
        BY <4>1, FS_EmptySet, AddrManAssumption
      <4>3. QED
        BY <1>4, <1>6, <3>3, <4>2
    <3>4. QED
      BY <3>2, <3>3
  <2>3. QED
    BY <2>1, <2>2 DEF NewTableOk
<1>9. HeldOk(e, L \cup {id})
  BY <1>1, <1>6 DEF HeldOk
<1>10. Agree(e, v, m, o, t, nnew, ntried, dn, dt, L \cup {id})
  BY <1>6, <1>7, <1>8, <1>9, CountFree
<1>11. QED
  BY <1>4, <1>5, <1>6, <1>7, <1>10 DEF e, o

\* Entries in a state.
LEMMA InfosFact ==
  ASSUME NEW D \in SUBSET Ids, NEW info \in [D -> Entry]
  PROVE  info \in Infos
BY DEF Infos

\* The parts of a sound state.
LEMMA SoundFact ==
  ASSUME NEW a, NEW dn, NEW dt, NEW L, Sound(a, dn, dt, L)
  PROVE  /\ a \in State /\ a.ok = TRUE
         /\ Agree(a.info, a.vrandom, a.mapaddr, a.vvnew, a.vvtried, a.nnew, a.ntried, dn, dt, L)
<1>1. a.ok \in BOOLEAN
  BY DEF Sound, State
<1>2. QED
  BY <1>1 DEF Sound

\* Entries that are not in L need not be excused.
LEMMA Excused ==
  ASSUME NEW a, NEW dn, NEW dt, NEW L, Sound(a, dn, dt, L), NEW M, HeldOk(a.info, M)
  PROVE  Sound(a, dn, dt, M)
BY DEF Sound, Agree

\* Entries kept from a in b, but for their positions.
Keeps(a, b, S) ==
  \A x \in S : /\ x \in DOMAIN a.info /\ x \in DOMAIN b.info
               /\ b.info[x].svc = a.info[x].svc /\ b.info[x].src = a.info[x].src
               /\ b.info[x].fintried = a.info[x].fintried
               /\ b.info[x].nrefcount = a.info[x].nrefcount

\* create() keeps the structures in agreement.
LEMMA CreateSound ==
  ASSUME NEW a, NEW dn \in Int, NEW dt \in Int, NEW L, Sound(a, dn, dt, L),
         NEW id \in Ids, id \notin DOMAIN a.info, NEW s \in CService, NEW src \in Source,
         a.mapaddr[NetAddr[s]] = 0
  PROVE  LET b == Create(a, id, s, src)
         IN  /\ Sound(b, dn - 1, dt, L \cup {id})
             /\ DOMAIN b.info = DOMAIN a.info \cup {id}
             /\ Keeps(a, b, DOMAIN a.info)
             /\ b.info[id].svc = s /\ b.info[id].src = src /\ b.info[id].nrefcount = 0
             /\ b.info[id].fintried = FALSE
             /\ b.vvnew = a.vvnew /\ b.vvtried = a.vvtried /\ b.nnew = a.nnew /\ b.ntried = a.ntried
             /\ b.mapaddr = Put(a.mapaddr, NetAddr[s], id)
             /\ Len(b.vrandom) = Len(a.vrandom) + 1
<1> DEFINE D == DOMAIN a.info
           e == WithInfo(a.info, id, NewEntry(s, src, Len(a.vrandom) + 1))
           w == Append(a.vrandom, id)
           k == Put(a.mapaddr, NetAddr[s], id)
           b == Create(a, id, s, src)
<1>1. /\ a \in State /\ a.ok = TRUE
      /\ Agree(a.info, a.vrandom, a.mapaddr, a.vvnew, a.vvtried, a.nnew, a.ntried, dn, dt, L)
  BY SoundFact
<1>2. /\ D \in SUBSET Ids /\ a.info \in [D -> Entry] /\ a.mapaddr \in [Nets -> Nat]
      /\ a.vrandom \in Seq(Nat) /\ a.vvnew \in [NewSlots -> Nat] /\ a.vvtried \in [TriedSlots -> Nat]
      /\ a.nnew \in Int /\ a.ntried \in Int
  BY <1>1, StateFact
<1>3. b = [a EXCEPT !.info = e, !.mapaddr = k, !.vrandom = w]
  BY <1>1 DEF Create, State, Put, NewEntry
<1>4. id \in Ids \ D
  OBVIOUS
<1> HIDE DEF D
<1>5. /\ e \in [D \cup {id} -> Entry] /\ w \in Seq(Nat) /\ k \in [Nets -> Nat]
      /\ Len(w) = Len(a.vrandom) + 1
      /\ e[id].svc = s /\ e[id].src = src /\ e[id].nrefcount = 0 /\ ~e[id].fintried
      /\ \A x \in D : e[x] = a.info[x]
      /\ Agree(e, w, k, a.vvnew, a.vvtried, a.nnew, a.ntried, dn - 1, dt, L \cup {id})
  BY <1>1, <1>2, <1>4, AddEntry
<1> HIDE DEF e, w, k, b
<1>6. e \in Infos
  <2>1. D \cup {id} \in SUBSET Ids
    BY <1>2
  <2>2. QED
    BY <1>5, <2>1, InfosFact
<1>7. /\ b \in State /\ b.info = e /\ b.mapaddr = k /\ b.vrandom = w /\ b.vvnew = a.vvnew
      /\ b.vvtried = a.vvtried /\ b.nnew = a.nnew /\ b.ntried = a.ntried /\ b.ok = TRUE
  BY <1>1, <1>3, <1>5, <1>6 DEF State
<1>8. Sound(b, dn - 1, dt, L \cup {id})
  BY <1>5, <1>7 DEF Sound
<1>9. DOMAIN e = D \cup {id} /\ e[id].fintried = FALSE
  BY <1>5 DEF Entry
<1>10. Keeps(a, b, D)
  BY <1>5, <1>7, <1>9 DEF Keeps, D
<1>11. QED
  BY <1>5, <1>8, <1>7, <1>9, <1>10 DEF D, k, b

\* swaprandom() of two positions.
LEMMA SwapSound ==
  ASSUME NEW a, NEW dn \in Int, NEW dt \in Int, NEW L, Sound(a, dn, dt, L),
         NEW i \in 1 .. Len(a.vrandom), NEW j \in 1 .. Len(a.vrandom)
  PROVE  LET b == SwapRandom(a, i, j)
         IN  /\ Sound(b, dn, dt, L)
             /\ DOMAIN b.info = DOMAIN a.info /\ Keeps(a, b, DOMAIN a.info)
             /\ b.vvnew = a.vvnew /\ b.vvtried = a.vvtried /\ b.mapaddr = a.mapaddr
             /\ b.nnew = a.nnew /\ b.ntried = a.ntried
             /\ Len(b.vrandom) = Len(a.vrandom) /\ b.vrandom[j] = a.vrandom[i]
<1> DEFINE D == DOMAIN a.info
           b == SwapRandom(a, i, j)
<1>1. /\ a \in State /\ a.ok = TRUE
      /\ Agree(a.info, a.vrandom, a.mapaddr, a.vvnew, a.vvtried, a.nnew, a.ntried, dn, dt, L)
  BY SoundFact
<1>2. CASE i = j
  <2>1. b = a
    BY <1>2 DEF SwapRandom
  <2>2. QED
    BY <1>2, <2>1 DEF Keeps
<1>3. CASE i # j
  <2> DEFINE e == SwappedInfo(a.info, a.vrandom, i, j)
             w == SwappedVector(a.vrandom, i, j)
  <2>1. /\ D \in SUBSET Ids /\ a.info \in [D -> Entry] /\ a.mapaddr \in [Nets -> Nat]
        /\ a.vrandom \in Seq(Nat) /\ a.vvnew \in [NewSlots -> Nat] /\ a.vvtried \in [TriedSlots -> Nat]
        /\ a.nnew \in Int /\ a.ntried \in Int
    BY <1>1, StateFact
  <2>2. VectorOk(a.info, a.vrandom)
    BY <1>1 DEF Agree
  <2>3. {i, j} \subseteq DOMAIN a.vrandom /\ {a.vrandom[i], a.vrandom[j]} \subseteq DOMAIN a.info
    BY <2>1, <2>2 DEF VectorOk
  <2>4. b = [a EXCEPT !.info[a.vrandom[i]].pos = j, !.info[a.vrandom[j]].pos = i,
                      !.vrandom[i] = a.vrandom[j], !.vrandom[j] = a.vrandom[i]]
    BY <1>3, <2>3 DEF SwapRandom
  <2>5. b = [a EXCEPT !.info = e, !.vrandom = w]
    BY <1>1, <2>4 DEF State, SwappedInfo, SwappedVector
  <2> HIDE DEF D
  <2>6. /\ e \in [D -> Entry] /\ w \in Seq(Nat) /\ Len(w) = Len(a.vrandom)
        /\ w[i] = a.vrandom[j] /\ w[j] = a.vrandom[i]
        /\ SameButPos(a.info, e) /\ VectorOk(e, w)
    <3>1. TwoPlaces(a.vrandom, i, j)
      BY <1>3, <2>1 DEF TwoPlaces
    <3>2. e \in [D -> Entry]
      BY <2>1, <2>2, <3>1, SwapEntries
    <3>3. w \in Seq(Nat) /\ Len(w) = Len(a.vrandom)
      BY <3>1, SwapVector
    <3>4. w[i] = a.vrandom[j] /\ w[j] = a.vrandom[i]
      BY <3>1, SwapVector
    <3>5. SameButPos(a.info, e) /\ VectorOk(e, w)
      BY <2>1, <2>2, <3>1, SwapEntries
    <3>6. QED
      BY <3>2, <3>3, <3>4, <3>5
  <2> HIDE DEF e, w, b
  <2>7. /\ b \in State /\ b.info = e /\ b.vrandom = w /\ b.vvnew = a.vvnew /\ b.vvtried = a.vvtried
        /\ b.mapaddr = a.mapaddr /\ b.nnew = a.nnew /\ b.ntried = a.ntried /\ b.ok = TRUE
    <3>1. e \in Infos
      BY <2>1, <2>6, InfosFact
    <3>2. QED
      BY <1>1, <2>5, <2>6, <3>1 DEF State
  <2>8. Agree(e, w, a.mapaddr, a.vvnew, a.vvtried, a.nnew, a.ntried, dn, dt, L)
    BY <1>1, <2>1, <2>6, PosFree
  <2>9. Sound(b, dn, dt, L)
    BY <2>7, <2>8 DEF Sound
  <2>10. DOMAIN e = DOMAIN a.info /\ Keeps(a, b, DOMAIN a.info)
    BY <2>6, <2>7 DEF Keeps, SameButPos
  <2>11. QED
    BY <2>6, <2>7, <2>9, <2>10 DEF b
<1>4. QED
  BY <1>2, <1>3

\* delete() of a new entry without references.
LEMMA DeleteSound ==
  ASSUME NEW a, NEW dn \in Int, NEW dt \in Int, NEW L, Sound(a, dn, dt, L),
         NEW id \in DOMAIN a.info, ~a.info[id].fintried, a.info[id].nrefcount = 0
  PROVE  LET b == Delete(a, id)
         IN  /\ Sound(b, dn, dt, L \ {id})
             /\ DOMAIN b.info = DOMAIN a.info \ {id} /\ Keeps(a, b, DOMAIN a.info \ {id})
             /\ b.vvnew = a.vvnew /\ b.vvtried = a.vvtried
<1> DEFINE D == DOMAIN a.info
           c == SwapRandom(a, a.info[id].pos, Len(a.vrandom))
           e == Without(c.info, id)
           w == Front(c.vrandom)
           k == Put(c.mapaddr, NetAddr[c.info[id].svc], 0)
           b == Delete(a, id)
<1>1. a \in State /\ VectorOk(a.info, a.vrandom)
  BY SoundFact DEF Agree
<1>2. /\ a.info[id].pos \in 1 .. Len(a.vrandom) /\ a.vrandom[a.info[id].pos] = id
      /\ Len(a.vrandom) \in 1 .. Len(a.vrandom)
  <2>1. a.vrandom \in Seq(Nat)
    BY <1>1, StateFact
  <2>2. QED
    BY <1>1, <2>1 DEF VectorOk
<1>3. /\ Sound(c, dn, dt, L)
      /\ DOMAIN c.info = D /\ Keeps(a, c, D)
      /\ c.vvnew = a.vvnew /\ c.vvtried = a.vvtried /\ c.mapaddr = a.mapaddr
      /\ c.nnew = a.nnew /\ c.ntried = a.ntried
      /\ Len(c.vrandom) = Len(a.vrandom) /\ c.vrandom[Len(a.vrandom)] = id
  <2> DEFINE i == a.info[id].pos
             j == Len(a.vrandom)
             d == SwapRandom(a, i, j)
  <2>1. i \in 1 .. Len(a.vrandom) /\ j \in 1 .. Len(a.vrandom) /\ a.vrandom[i] = id
    BY <1>2
  <2> HIDE DEF i, j
  <2>2. Sound(d, dn, dt, L)
    BY <2>1, SwapSound
  <2>3. DOMAIN d.info = DOMAIN a.info /\ Keeps(a, d, DOMAIN a.info)
    BY <2>1, SwapSound
  <2>4. d.vvnew = a.vvnew /\ d.vvtried = a.vvtried /\ d.mapaddr = a.mapaddr
    BY <2>1, SwapSound
  <2>5. d.nnew = a.nnew /\ d.ntried = a.ntried
    BY <2>1, SwapSound
  <2>6. Len(d.vrandom) = Len(a.vrandom) /\ d.vrandom[j] = a.vrandom[i]
    BY <2>1, SwapSound
  <2>7. c = d
    BY DEF i, j
  <2> HIDE DEF c, d
  <2>8. QED
    BY <2>1, <2>2, <2>3, <2>4, <2>5, <2>6, <2>7 DEF j
<1>4. b = [c EXCEPT !.vrandom = Front(@), !.mapaddr[NetAddr[a.info[id].svc]] = 0,
                    !.info = Without(@, id), !.nnew = @ - 1]
  BY DEF Delete
<1> HIDE DEF c
<1>5. /\ c \in State /\ c.ok = TRUE
      /\ Agree(c.info, c.vrandom, c.mapaddr, c.vvnew, c.vvtried, c.nnew, c.ntried, dn, dt, L)
  BY <1>3, SoundFact
<1>6. /\ D \in SUBSET Ids /\ c.info \in [D -> Entry] /\ c.mapaddr \in [Nets -> Nat]
      /\ c.vrandom \in Seq(Nat) /\ c.vvnew \in [NewSlots -> Nat] /\ c.vvtried \in [TriedSlots -> Nat]
      /\ c.nnew \in Int /\ c.ntried \in Int
  BY <1>3, <1>5, StateFact
<1>7. /\ ~c.info[id].fintried /\ c.info[id].nrefcount = 0 /\ c.info[id].svc = a.info[id].svc
      /\ c.info[id].pos = Len(c.vrandom)
  <2>1. VectorOk(c.info, c.vrandom) /\ Len(c.vrandom) \in 1 .. Len(c.vrandom)
    BY <1>2, <1>3, <1>5 DEF Agree
  <2>2. c.info[id].pos = Len(c.vrandom)
    BY <1>3, <2>1 DEF VectorOk
  <2>3. QED
    BY <1>3, <2>2 DEF Keeps
<1>8. id \in D
  OBVIOUS
<1> HIDE DEF D
<1>9. /\ e \in [D \ {id} -> Entry] /\ w \in Seq(Nat) /\ k \in [Nets -> Nat]
      /\ \A x \in D \ {id} : e[x] = c.info[x]
      /\ Agree(e, w, k, c.vvnew, c.vvtried, c.nnew - 1, c.ntried, dn, dt, L)
  <2>1. Removed(D, c.info, id, c.vrandom, c.mapaddr, c.vvnew, c.vvtried, c.nnew, c.ntried, dn, dt, L)
    BY <1>5, <1>6, <1>7, <1>8, RemoveEntry
  <2>2. QED
    BY <2>1 DEF Removed
<1>10. b = [c EXCEPT !.vrandom = w, !.mapaddr = k, !.info = e, !.nnew = c.nnew - 1]
  BY <1>4, <1>5, <1>7 DEF State, Put
<1> HIDE DEF e, w, k, b
<1>11. e \in Infos
  <2>1. D \ {id} \in SUBSET Ids
    BY <1>6
  <2>2. QED
    BY <1>9, <2>1, InfosFact
<1>12. /\ b \in State /\ b.info = e /\ b.mapaddr = k /\ b.vrandom = w /\ b.vvnew = c.vvnew
       /\ b.vvtried = c.vvtried /\ b.nnew = c.nnew - 1 /\ b.ntried = c.ntried /\ b.ok = TRUE
       /\ DOMAIN e = D \ {id}
  <2>1. c.nnew - 1 \in Int
    BY <1>6
  <2>2. /\ b.info = e /\ b.mapaddr = k /\ b.vrandom = w /\ b.vvnew = c.vvnew
        /\ b.vvtried = c.vvtried /\ b.nnew = c.nnew - 1 /\ b.ntried = c.ntried /\ b.ok = TRUE
    BY <1>5, <1>10 DEF State
  <2>3. b \in State
    BY <1>5, <1>9, <1>10, <1>11, <2>1 DEF State
  <2>4. QED
    BY <1>9, <2>2, <2>3
<1>13. Sound(b, dn, dt, L)
  <2> DEFINE y == c.nnew - 1
  <2>1. Agree(e, w, k, c.vvnew, c.vvtried, y, c.ntried, dn, dt, L)
    BY <1>9
  <2>2. /\ b.info = e /\ b.mapaddr = k /\ b.vrandom = w /\ b.vvnew = c.vvnew
        /\ b.vvtried = c.vvtried /\ b.nnew = y /\ b.ntried = c.ntried
    BY <1>12
  <2> HIDE DEF y
  <2>3. Agree(b.info, b.vrandom, b.mapaddr, b.vvnew, b.vvtried, b.nnew, b.ntried, dn, dt, L)
    BY <2>1, <2>2
  <2>4. QED
    BY <1>12, <2>3 DEF Sound
<1>14. Keeps(a, b, D \ {id})
  BY <1>3, <1>9, <1>12 DEF Keeps
<1>15. Sound(b, dn, dt, L \ {id})
  <2>1. HeldOk(b.info, L)
    BY <1>13 DEF Sound, Agree
  <2>2. HeldOk(b.info, L \ {id})
    BY <1>12, <2>1 DEF HeldOk
  <2>3. QED
    BY <1>13, <2>2, Excused
<1>16. QED
  BY <1>3, <1>12, <1>14, <1>15 DEF D, b

\* What Recounted changes,
LEMMA RecountedFact ==
  ASSUME NEW D, NEW info \in [D -> Entry], NEW id \in D, NEW k \in Int
  PROVE  /\ Recounted(info, id, k) \in [D -> Entry] /\ SameButCount(info, Recounted(info, id, k))
         /\ Recounted(info, id, k)[id].nrefcount = k
         /\ \A x \in D : x # id => Recounted(info, id, k)[x] = info[x]
<1> DEFINE new == [info[id] EXCEPT !.nrefcount = k]
           e == Recounted(info, id, k)
<1>1. e = [info EXCEPT ![id] = new]
  BY DEF Recounted
<1>2. /\ new \in Entry /\ new.svc = info[id].svc /\ new.src = info[id].src
      /\ new.pos = info[id].pos /\ new.fintried = info[id].fintried /\ new.nrefcount = k
  BY EntryChange
<1> HIDE DEF e, new
<1>3. e \in [D -> Entry] /\ e[id] = new /\ \A x \in D : x # id => e[x] = info[x]
  BY <1>1, <1>2
<1>4. SameButCount(info, e)
  BY <1>2, <1>3 DEF SameButCount
<1>5. QED
  BY <1>2, <1>3, <1>4 DEF e

\* and what one more reference does.
LEMMA ReferFact ==
  ASSUME NEW a \in State, NEW id \in DOMAIN a.info, NEW slot \in NewSlots
  PROVE  LET b == Refer(a, id, slot)
         IN  /\ b \in State
             /\ b.info = Recounted(a.info, id, a.info[id].nrefcount + 1)
             /\ DOMAIN b.info = DOMAIN a.info /\ SameButCount(a.info, b.info)
             /\ b.info[id].nrefcount = a.info[id].nrefcount + 1
             /\ \A x \in DOMAIN a.info : x # id => b.info[x] = a.info[x]
             /\ b.vvnew = Put(a.vvnew, slot, id) /\ b.vvtried = a.vvtried
             /\ b.vrandom = a.vrandom /\ b.mapaddr = a.mapaddr
             /\ b.nnew = a.nnew /\ b.ntried = a.ntried /\ b.ok = a.ok
<1> DEFINE D == DOMAIN a.info
           e == Recounted(a.info, id, a.info[id].nrefcount + 1)
           o == Put(a.vvnew, slot, id)
           b == Refer(a, id, slot)
<1>1. /\ D \in SUBSET Ids /\ a.info \in [D -> Entry] /\ a.vvnew \in [NewSlots -> Nat]
  BY StateFact
<1>2. b = [a EXCEPT !.info = e, !.vvnew = o]
  BY DEF Refer, State, Recounted, Put
<1>3. a.info[id].nrefcount + 1 \in Int /\ id \in D
  BY <1>1 DEF Entry
<1> HIDE DEF D
<1>4. /\ e \in [D -> Entry] /\ SameButCount(a.info, e)
      /\ e[id].nrefcount = a.info[id].nrefcount + 1 /\ \A x \in D : x # id => e[x] = a.info[x]
  BY <1>1, <1>3, RecountedFact
<1>5. o \in [NewSlots -> Nat] /\ e \in Infos
  BY <1>1, <1>3, <1>4, InfosFact DEF Put, Ids
<1> HIDE DEF e, o, b
<1>6. /\ b.info = e /\ b.mapaddr = a.mapaddr /\ b.vrandom = a.vrandom /\ b.vvnew = o
      /\ b.vvtried = a.vvtried /\ b.nnew = a.nnew /\ b.ntried = a.ntried /\ b.ok = a.ok
  BY <1>2 DEF State
<1>7. b \in State
  BY <1>2, <1>5 DEF State
<1>8. QED
  BY <1>4, <1>6, <1>7 DEF D, e, o, b

\* One reference more, from a free place.
LEMMA ReferSound ==
  ASSUME NEW a, NEW dn \in Int, NEW dt \in Int, NEW L, Sound(a, dn, dt, L),
         NEW id \in DOMAIN a.info, ~a.info[id].fintried, a.info[id].nrefcount < BucketsPerAddress,
         NEW slot \in NewSlots, a.vvnew[slot] = 0, slot = NewSlot(a.info[id].svc, slot[1])
  PROVE  Sound(Refer(a, id, slot), dn, dt, L \ {id})
<1> DEFINE D == DOMAIN a.info
           b == Refer(a, id, slot)
<1>1. /\ a \in State /\ a.ok = TRUE
      /\ Agree(a.info, a.vrandom, a.mapaddr, a.vvnew, a.vvtried, a.nnew, a.ntried, dn, dt, L)
  BY SoundFact
<1>2. /\ D \in SUBSET Ids /\ a.info \in [D -> Entry] /\ a.mapaddr \in [Nets -> Nat]
      /\ a.vvnew \in [NewSlots -> Nat] /\ a.vvtried \in [TriedSlots -> Nat]
      /\ a.nnew \in Int /\ a.ntried \in Int
  BY <1>1, StateFact
<1>3. id \in D
  OBVIOUS
<1>4. /\ b \in State /\ b.info = Recounted(a.info, id, a.info[id].nrefcount + 1)
      /\ b.vvnew = Put(a.vvnew, slot, id) /\ b.vvtried = a.vvtried
      /\ b.vrandom = a.vrandom /\ b.mapaddr = a.mapaddr
      /\ b.nnew = a.nnew /\ b.ntried = a.ntried /\ b.ok = a.ok
  BY <1>1, ReferFact
<1> HIDE DEF D, b
<1>5. Agree(Recounted(a.info, id, a.info[id].nrefcount + 1), a.vrandom, a.mapaddr, Put(a.vvnew, slot, id),
            a.vvtried, a.nnew, a.ntried, dn, dt, L \ {id})
  BY <1>1, <1>2, <1>3, FillPlace
<1>6. QED
  BY <1>1, <1>4, <1>5 DEF Sound, b

\* clearnew() on any place.
LEMMA ClearNewSound ==
  ASSUME NEW a, NEW dn \in Int, NEW dt \in Int, NEW L, Sound(a, dn, dt, L), NEW slot \in NewSlots
  PROVE  LET b == ClearNew(a, slot)
             id == a.vvnew[slot]
         IN  /\ Sound(b, dn, dt, L)
             /\ DOMAIN b.info \subseteq DOMAIN a.info /\ Keeps(a, b, DOMAIN a.info \ {id})
             /\ id # 0 => id \in DOMAIN a.info /\ ~a.info[id].fintried /\ a.info[id].nrefcount > 0
             /\ b.vvnew[slot] = 0 /\ \A x \in NewSlots : x # slot => b.vvnew[x] = a.vvnew[x]
             /\ b.vvtried = a.vvtried
<1> DEFINE D == DOMAIN a.info
           id == a.vvnew[slot]
           e == Recounted(a.info, id, a.info[id].nrefcount - 1)
           o == Put(a.vvnew, slot, 0)
           c == [a EXCEPT !.info[id].nrefcount = @ - 1, !.vvnew[slot] = 0]
           b == ClearNew(a, slot)
<1>1. /\ a \in State /\ a.ok = TRUE
      /\ Agree(a.info, a.vrandom, a.mapaddr, a.vvnew, a.vvtried, a.nnew, a.ntried, dn, dt, L)
  BY SoundFact
<1>2. /\ D \in SUBSET Ids /\ a.info \in [D -> Entry] /\ a.mapaddr \in [Nets -> Nat]
      /\ a.vvnew \in [NewSlots -> Nat] /\ a.vvtried \in [TriedSlots -> Nat]
      /\ a.nnew \in Int /\ a.ntried \in Int
  BY <1>1, StateFact
<1>3. CASE id = 0
  <2>1. b = a
    BY <1>3 DEF ClearNew
  <2>2. 0 \notin D
    BY <1>2 DEF Ids
  <2>3. Keeps(a, a, D \ {id})
    BY DEF Keeps
  <2>4. QED
    BY <1>3, <2>1, <2>2, <2>3
<1>4. CASE id # 0
  <2>1. id \in D
    BY <1>1, <1>4 DEF Agree, NewTableOk
  <2>2. c = [a EXCEPT !.info = e, !.vvnew = o]
    BY <1>1 DEF State, Recounted, Put
  <2>3. b = IF id \notin D \/ a.info[id].nrefcount <= 0 THEN Failed(a)
            ELSE IF c.info[id].nrefcount = 0 THEN Delete(c, id) ELSE c
    BY <1>4 DEF ClearNew
  <2>4. a.vvnew[slot] = id
    OBVIOUS
  <2> HIDE DEF D, id, c
  <2>5. /\ e \in [D -> Entry] /\ SameButCount(a.info, e) /\ o \in [NewSlots -> Nat]
        /\ a.info[id].nrefcount > 0 /\ ~a.info[id].fintried
        /\ e[id].nrefcount = a.info[id].nrefcount - 1 /\ \A x \in D : x # id => e[x] = a.info[x]
        /\ Agree(e, a.vrandom, a.mapaddr, o, a.vvtried, a.nnew, a.ntried, dn, dt, L \cup {id})
    <3>1. Agree(e, a.vrandom, a.mapaddr, o, a.vvtried, a.nnew, a.ntried, dn, dt, L \cup {id})
      BY <1>1, <1>2, <2>4, <2>1, EmptyPlace
    <3>2. a.info[id].nrefcount - 1 \in Int
      BY <1>2, <2>1 DEF Entry
    <3>3. /\ e \in [D -> Entry] /\ SameButCount(a.info, e)
          /\ e[id].nrefcount = a.info[id].nrefcount - 1 /\ \A x \in D : x # id => e[x] = a.info[x]
      BY <1>2, <2>1, <3>2, RecountedFact
    <3>4. a.info[id].nrefcount > 0 /\ ~a.info[id].fintried
      BY <1>1, <1>2, <2>4, <2>1, EmptyPlace
    <3>5. o \in [NewSlots -> Nat]
      BY <1>2 DEF Put
    <3>6. QED
      BY <3>1, <3>3, <3>4, <3>5
  <2>6. o[slot] = 0 /\ \A x \in NewSlots : x # slot => o[x] = a.vvnew[x]
    BY <1>2 DEF Put
  <2> HIDE DEF e, o, b
  <2>7. e \in Infos
    BY <1>2, <2>5, InfosFact
  <2>8. /\ c \in State /\ c.info = e /\ c.mapaddr = a.mapaddr /\ c.vrandom = a.vrandom /\ c.vvnew = o
        /\ c.vvtried = a.vvtried /\ c.nnew = a.nnew /\ c.ntried = a.ntried /\ c.ok = TRUE
    BY <1>1, <2>2, <2>5, <2>7 DEF State
  <2>9. Sound(c, dn, dt, L \cup {id})
    BY <2>5, <2>8 DEF Sound
  <2>10. DOMAIN c.info = D /\ Keeps(a, c, D \ {id}) /\ c.info[id].fintried = FALSE
    <3>1. a.info[id] \in Entry
      BY <1>2, <2>1
    <3>2. a.info[id].fintried = FALSE
      BY <2>5, <3>1 DEF Entry
    <3>3. QED
      BY <2>1, <2>5, <2>8, <3>2 DEF Keeps, SameButCount, D
  <2>11. a.info[id].nrefcount \in Int
    BY <1>2, <2>1 DEF Entry
  <2>12. CASE c.info[id].nrefcount = 0
    <3>1. b = Delete(c, id)
      BY <2>1, <2>3, <2>5, <2>11, <2>12
    <3>2. /\ Sound(b, dn, dt, (L \cup {id}) \ {id})
          /\ DOMAIN b.info = D \ {id} /\ Keeps(c, b, D \ {id})
          /\ b.vvnew = c.vvnew /\ b.vvtried = c.vvtried
      BY <2>1, <2>9, <2>10, <2>12, <3>1, DeleteSound
    <3>3. Keeps(a, b, D \ {id})
      BY <2>10, <3>2 DEF Keeps
    <3>4. Sound(b, dn, dt, L)
      <4>1. HeldOk(b.info, (L \cup {id}) \ {id})
        BY <3>2 DEF Sound, Agree
      <4>2. HeldOk(b.info, L)
        BY <4>1 DEF HeldOk
      <4>3. QED
        BY <3>2, <4>2, Excused
    <3>5. QED
      BY <1>4, <2>1, <2>5, <2>6, <2>8, <3>2, <3>3, <3>4 DEF D, id, b
  <2>13. CASE c.info[id].nrefcount # 0
    <3>1. b = c
      BY <2>1, <2>3, <2>5, <2>11, <2>13
    <3>2. HeldOk(c.info, L \cup {id})
      BY <2>9 DEF Sound, Agree
    <3>3. HeldOk(c.info, L)
      BY <2>13, <3>2 DEF HeldOk
    <3>4. Sound(b, dn, dt, L)
      BY <2>9, <3>1, <3>3, Excused
    <3>5. QED
      BY <1>4, <2>1, <2>5, <2>6, <2>8, <2>10, <3>1, <3>4 DEF D, id, b
  <2>14. QED
    BY <2>12, <2>13
<1>5. QED
  BY <1>3, <1>4

\* The second half of add_ finds a place for a new entry, or deletes it.
LEMMA PlaceSound ==
  ASSUME NEW a, NEW dn \in Int, NEW dt \in Int, NEW L, Sound(a, dn, dt, L),
         NEW id \in DOMAIN a.info, ~a.info[id].fintried, a.info[id].nrefcount < BucketsPerAddress,
         NEW slot \in NewSlots, slot = NewSlot(a.info[id].svc, slot[1]), NEW terrible
  PROVE  LET b == Place(a, id, slot, terrible)
         IN  Sound(b, dn, dt, L \ {id}) /\ TriedStay(a, b, {})
<1> DEFINE D == DOMAIN a.info
           there == a.vvnew[slot]
           insert == \/ there = 0
                     \/ terrible
                     \/ a.info[there].nrefcount > 1 /\ a.info[id].nrefcount = 0
           c == ClearNew(a, slot)
           b == Place(a, id, slot, terrible)
<1>1. a \in State /\ NewTableOk(a.info, a.vvnew) /\ HeldOk(a.info, L)
  BY SoundFact DEF Agree
<1>2. D \in SUBSET Ids /\ a.info \in [D -> Entry] /\ a.vvnew \in [NewSlots -> Nat]
  BY <1>1, StateFact
<1>3. /\ Sound(c, dn, dt, L)
      /\ DOMAIN c.info \subseteq D /\ Keeps(a, c, D \ {there})
      /\ there # 0 => there \in D /\ ~a.info[there].fintried /\ a.info[there].nrefcount > 0
      /\ c.vvnew[slot] = 0 /\ c.vvtried = a.vvtried
  BY ClearNewSound
<1>4. b = IF there = id THEN a
          ELSE IF insert THEN Refer(c, id, slot)
          ELSE IF a.info[id].nrefcount = 0 THEN Delete(a, id)
          ELSE a
  BY DEF Place
<1>5. id \in D
  OBVIOUS
<1> HIDE DEF D, insert, there, b, c
<1>6. ASSUME a.info[id].nrefcount # 0 PROVE Sound(a, dn, dt, L \ {id}) /\ TriedStay(a, a, {})
  <2>1. HeldOk(a.info, L \ {id})
    BY <1>1, <1>6 DEF HeldOk
  <2>2. QED
    BY <2>1, Excused DEF TriedStay
<1>7. CASE there = id
  <2>1. id # 0
    BY <1>5, <1>2 DEF Ids
  <2>2. a.info[id].nrefcount # 0
    <3>1. a.info[id].nrefcount > 0 /\ a.info[id].nrefcount \in Int
      BY <1>5, <1>2, <1>3, <1>7, <2>1 DEF Entry
    <3>2. QED
      BY <3>1
  <2>3. QED
    BY <1>4, <1>6, <1>7, <2>2 DEF b
<1>8. CASE there # id /\ insert
  <2>1. /\ id \in DOMAIN c.info /\ ~c.info[id].fintried /\ c.info[id].nrefcount < BucketsPerAddress
        /\ slot = NewSlot(c.info[id].svc, slot[1])
    BY <1>5, <1>3, <1>8 DEF Keeps
  <2>2. b = Refer(c, id, slot)
    BY <1>4, <1>8
  <2>3. /\ Sound(b, dn, dt, L \ {id})
        /\ DOMAIN b.info = DOMAIN c.info /\ SameButCount(c.info, b.info)
    <3>1. Sound(c, dn, dt, L) /\ c.vvnew[slot] = 0
      BY <1>3
    <3>2. Sound(Refer(c, id, slot), dn, dt, L \ {id})
      BY <2>1, <3>1, ReferSound
    <3>3. DOMAIN Refer(c, id, slot).info = DOMAIN c.info /\ SameButCount(c.info, Refer(c, id, slot).info)
      BY <2>1, <3>1, ReferFact DEF Sound
    <3>4. QED
      BY <2>2, <3>2, <3>3
  <2>4. TriedStay(a, b, {})
    <3>1. ASSUME NEW x \in D, a.info[x].fintried PROVE x \in D \ {there}
      BY <1>2, <1>3, <3>1 DEF Ids
    <3>2. QED
      BY <1>3, <2>3, <3>1 DEF TriedStay, Keeps, SameButCount, D
  <2>5. QED
    BY <2>3, <2>4 DEF b
<1>9. CASE there # id /\ ~insert /\ a.info[id].nrefcount = 0
  <2>1. b = Delete(a, id)
    BY <1>4, <1>9
  <2>2. Sound(b, dn, dt, L \ {id}) /\ DOMAIN b.info = D \ {id} /\ Keeps(a, b, D \ {id})
    BY <1>9, <2>1, DeleteSound DEF D
  <2>3. TriedStay(a, b, {})
    BY <2>2 DEF TriedStay, Keeps, D
  <2>4. QED
    BY <2>2, <2>3 DEF b
<1>10. CASE there # id /\ ~insert /\ a.info[id].nrefcount # 0
  BY <1>4, <1>6, <1>10 DEF b
<1>11. QED
  BY <1>7, <1>8, <1>9, <1>10

\* A counter of new entries that is off by k more.
CountedNew(a, k) == [a EXCEPT !.nnew = @ + k]

\* State b is a with one more entry.
Made(a, b, id, s, src) ==
  /\ DOMAIN b.info = DOMAIN a.info \cup {id}
  /\ Keeps(a, b, DOMAIN a.info)
  /\ b.info[id].svc = s /\ b.info[id].src = src /\ b.info[id].nrefcount = 0
  /\ b.info[id].fintried = FALSE
  /\ b.vvnew = a.vvnew /\ b.vvtried = a.vvtried /\ b.nnew = a.nnew /\ b.ntried = a.ntried
  /\ b.mapaddr = Put(a.mapaddr, NetAddr[s], id)
  /\ Len(b.vrandom) = Len(a.vrandom) + 1

\* What create() changes.
LEMMA CreateFact ==
  ASSUME NEW a \in State, NEW id \in Ids, id \notin DOMAIN a.info,
         NEW s \in CService, NEW src \in Source
  PROVE  Made(a, Create(a, id, s, src), id, s, src)
<1> DEFINE D == DOMAIN a.info
           e == WithInfo(a.info, id, NewEntry(s, src, Len(a.vrandom) + 1))
           b == Create(a, id, s, src)
<1>1. /\ b.info = e /\ b.mapaddr = Put(a.mapaddr, NetAddr[s], id) /\ b.vrandom = Append(a.vrandom, id)
      /\ b.vvnew = a.vvnew /\ b.vvtried = a.vvtried /\ b.nnew = a.nnew /\ b.ntried = a.ntried
  BY DEF Create, State, Put, NewEntry
<1>2. DOMAIN e = D \cup {id} /\ e[id] = NewEntry(s, src, Len(a.vrandom) + 1)
      /\ \A x \in D : e[x] = a.info[x]
  BY DEF WithInfo
<1>3. e[id].svc = s /\ e[id].src = src /\ e[id].nrefcount = 0 /\ e[id].fintried = FALSE
  BY <1>2 DEF NewEntry
<1>4. Len(Append(a.vrandom, id)) = Len(a.vrandom) + 1
  <2>1. a.vrandom \in Seq(Nat) /\ id \in Nat
    BY StateFact DEF Ids
  <2>2. QED
    BY <2>1
<1> HIDE DEF e, b
<1>5. Keeps(a, b, D)
  BY <1>1, <1>2 DEF Keeps
<1>6. QED
  BY <1>1, <1>2, <1>3, <1>4, <1>5 DEF b, Made

\* What CountedNew changes.
LEMMA CountedFact ==
  ASSUME NEW a \in State, NEW k \in Int
  PROVE  LET b == CountedNew(a, k)
         IN  /\ b.info = a.info /\ b.mapaddr = a.mapaddr /\ b.vrandom = a.vrandom
             /\ b.vvnew = a.vvnew /\ b.vvtried = a.vvtried /\ b.ntried = a.ntried
             /\ b.nnew = a.nnew + k
BY DEF State, CountedNew

\* Counting the new entries.
LEMMA RecountNew ==
  ASSUME NEW a, NEW dn \in Int, NEW dt \in Int, NEW L, Sound(a, dn, dt, L), NEW k \in Int
  PROVE  LET b == CountedNew(a, k)
         IN  Sound(b, dn + k, dt, L)
<1> DEFINE b == CountedNew(a, k)
<1>1. /\ a \in State /\ a.ok = TRUE
      /\ Agree(a.info, a.vrandom, a.mapaddr, a.vvnew, a.vvtried, a.nnew, a.ntried, dn, dt, L)
  BY SoundFact
<1>2. a.nnew \in Int
  BY <1>1, StateFact
<1>3. /\ b.info = a.info /\ b.mapaddr = a.mapaddr /\ b.vrandom = a.vrandom
      /\ b.vvnew = a.vvnew /\ b.vvtried = a.vvtried /\ b.ntried = a.ntried
      /\ b.nnew = a.nnew + k /\ b.ok = TRUE
  BY <1>1 DEF State, CountedNew
<1>4. b \in State
  <2>1. a.nnew + k \in Int
    BY <1>2
  <2>2. QED
    BY <1>1, <2>1 DEF State, CountedNew
<1> HIDE DEF b
<1>5. CountsOk(a.info, a.nnew + k, a.ntried, dn + k, dt)
  <2>1. /\ IsFiniteSet(DOMAIN a.info) /\ a.nnew = Cardinality(NewIds(a.info)) + dn
        /\ a.ntried = Cardinality(TriedIds(a.info)) + dt
    BY <1>1 DEF Agree, CountsOk
  <2>2. DOMAIN a.info \in SUBSET Ids /\ a.info \in [DOMAIN a.info -> Entry]
    BY <1>1, StateFact
  <2>3. Cardinality(NewIds(a.info)) \in Nat
    BY <2>1, <2>2, CountFact
  <2>4. a.nnew + k = Cardinality(NewIds(a.info)) + (dn + k)
    BY <2>1, <2>3
  <2>5. QED
    BY <2>1, <2>4 DEF CountsOk
<1>6. QED
  BY <1>1, <1>3, <1>5, <1>4 DEF Sound, Agree, b

\* The ids are 1, 2, ...
Dense(a) == DOMAIN a.info = 1 .. Cardinality(DOMAIN a.info)

\* add_ on a state between two operations, where the ids are 1, 2, ...
LEMMA AddSound ==
  ASSUME NEW a, Sound(a, 0, 0, {}), Dense(a),
         NEW s \in CService, NEW src \in Source, NEW news, NEW terrible
  PROVE  LET b == Add(a, s, src, news, terrible)
         IN  Sound(b, 0, 0, {}) /\ TriedStay(a, b, {})
<1> DEFINE D == DOMAIN a.info
           id == a.mapaddr[NetAddr[s]]
           new == NextId(a)
           t == IF id = 0 THEN s ELSE a.info[id].svc
           slot == NewSlot(t, GetNewBucket[t, src])
           b == Add(a, s, src, news, terrible)
           c == Create(a, new, s, src)
           d == CountedNew(c, 1)
<1>1. a \in State /\ IndexOk(a.info, a.mapaddr) /\ NewTableOk(a.info, a.vvnew) /\ IsFiniteSet(D)
  BY SoundFact DEF Agree, CountsOk
<1>2. D \in SUBSET Ids /\ a.info \in [D -> Entry] /\ a.mapaddr \in [Nets -> Nat]
  BY <1>1, StateFact
<1>3. NetAddr[s] \in Nets
  BY DEF Nets
<1>4. b = IF id = 0 THEN Place(d, new, slot, terrible)
          ELSE IF ~news \/ a.info[id].fintried \/ a.info[id].nrefcount = BucketsPerAddress
          THEN a ELSE Place(a, id, slot, terrible)
  BY DEF Add, CountedNew
<1>5. ASSUME NEW z \in CService
      PROVE  NewSlot(z, GetNewBucket[z, src]) \in NewSlots
             /\ NewSlot(z, GetNewBucket[z, src]) = NewSlot(z, NewSlot(z, GetNewBucket[z, src])[1])
  <2>1. GetNewBucket[z, src] \in NewBuckets
    BY PlaceFact
  <2> HIDE DEF slot, t
  <2>2. /\ NewSlot(z, GetNewBucket[z, src]) \in NewSlots
        /\ NewSlot(z, GetNewBucket[z, src])[1] = GetNewBucket[z, src]
    BY <2>1, PlaceFact
  <2>3. QED
    BY <2>2
<1>6. CASE id = 0
  <2>1. new \in Ids /\ new \notin D
    <3>1. Cardinality(D) \in Nat
      BY <1>1, FS_CardinalityType
    <3>2. new = Cardinality(D) + 1
      BY DEF NextId
    <3>3. D = 1 .. Cardinality(D)
      BY DEF Dense
    <3> HIDE DEF new, D
    <3>4. QED
      BY <3>1, <3>2, <3>3 DEF Ids
  <2>2. slot = NewSlot(s, GetNewBucket[s, src])
    BY <1>6
  <2>3. 0 \in Int
    OBVIOUS
  <2> HIDE DEF new, slot
  <2>4. /\ Sound(c, 0 - 1, 0, {} \cup {new})
        /\ Keeps(a, c, D)
        /\ new \in DOMAIN c.info /\ c.info[new].svc = s /\ c.info[new].nrefcount = 0
        /\ c.info[new].fintried = FALSE
    <3>1. Sound(c, 0 - 1, 0, {} \cup {new})
      BY <1>6, <2>1, <2>3, CreateSound
    <3>2. a \in State
      BY <1>1
    <3> HIDE DEF id, t, b
    <3>3. Made(a, c, new, s, src)
      BY <2>1, <3>2, CreateFact
    <3> HIDE DEF c
    <3>4. QED
      BY <3>1, <3>3 DEF Made
  <2> HIDE DEF c
  <2>5. Sound(d, (0 - 1) + 1, 0, {} \cup {new}) /\ d.info = c.info
    <3>1. 0 - 1 \in Int /\ 1 \in Int
      OBVIOUS
    <3>2. Sound(d, (0 - 1) + 1, 0, {} \cup {new})
      BY <2>3, <2>4, <3>1, RecountNew
    <3>3. c \in State
      BY <2>4 DEF Sound
    <3>4. QED
      BY <3>1, <3>2, <3>3, CountedFact
  <2> HIDE DEF d
  <2>6. Sound(d, 0, 0, {new})
    BY <2>5
  <2>7. /\ new \in DOMAIN d.info /\ ~d.info[new].fintried /\ d.info[new].nrefcount < BucketsPerAddress
        /\ slot \in NewSlots /\ slot = NewSlot(d.info[new].svc, slot[1])
    <3>1. 0 < BucketsPerAddress
      BY AddrManAssumption
    <3>2. QED
      BY <1>5, <2>2, <2>4, <2>5, <3>1
  <2>8. Sound(b, 0, 0, {new} \ {new}) /\ TriedStay(d, b, {})
    <3>1. b = Place(d, new, slot, terrible)
      BY <1>4, <1>6
    <3>2. QED
      BY <2>3, <2>6, <2>7, <3>1, PlaceSound
  <2>9. TriedStay(a, b, {})
    BY <2>4, <2>5, <2>8 DEF TriedStay, Keeps
  <2>10. {new} \ {new} = {}
    OBVIOUS
  <2>11. QED
    BY <2>8, <2>9, <2>10
<1>7. CASE id # 0 /\ (~news \/ a.info[id].fintried \/ a.info[id].nrefcount = BucketsPerAddress)
  BY <1>4, <1>7 DEF TriedStay
<1>8. CASE id # 0 /\ ~(~news \/ a.info[id].fintried \/ a.info[id].nrefcount = BucketsPerAddress)
  <2>1. id \in D
    <3>1. a.mapaddr[NetAddr[s]] # 0
      BY <1>8
    <3>2. QED
      BY <1>1, <1>3, <3>1 DEF IndexOk
  <2>2. a.info[id].svc \in CService /\ slot = NewSlot(a.info[id].svc, GetNewBucket[a.info[id].svc, src])
    BY <1>2, <1>8, <2>1 DEF Entry
  <2>3. b = Place(a, id, slot, terrible)
    BY <1>4, <1>8
  <2>4. ~a.info[id].fintried /\ a.info[id].nrefcount < BucketsPerAddress
    <3>1. /\ a.info[id].nrefcount <= BucketsPerAddress /\ a.info[id].nrefcount \in Int
          /\ BucketsPerAddress \in Int /\ a.info[id].nrefcount # BucketsPerAddress
      BY <1>1, <1>2, <1>8, <2>1, AddrManAssumption DEF NewTableOk, Entry
    <3> HIDE DEF id
    <3>2. QED
      BY <1>8, <3>1
  <2> HIDE DEF id, slot
  <2>5. slot \in NewSlots /\ slot = NewSlot(a.info[id].svc, slot[1])
    BY <1>5, <2>2
  <2>6. Sound(b, 0, 0, {} \ {id}) /\ TriedStay(a, b, {})
    <3>1. 0 \in Int
      OBVIOUS
    <3>2. QED
      BY <2>1, <2>3, <2>4, <2>5, <3>1, PlaceSound
  <2>7. {} \ {id} = {}
    OBVIOUS
  <2>8. QED
    BY <2>6, <2>7
<1>9. QED
  BY <1>6, <1>7, <1>8

\* What Retried changes.
LEMMA RetriedFact ==
  ASSUME NEW D, NEW info \in [D -> Entry], NEW id \in D, NEW f \in BOOLEAN
  PROVE  Retried(info, id, f) \in [D -> Entry] /\ SameButTried(info, Retried(info, id, f), id, f)
<1> DEFINE new == [info[id] EXCEPT !.fintried = f]
           e == Retried(info, id, f)
<1>1. e = [info EXCEPT ![id] = new]
  BY DEF Retried
<1>2. /\ new \in Entry /\ new.svc = info[id].svc /\ new.src = info[id].src
      /\ new.pos = info[id].pos /\ new.fintried = f /\ new.nrefcount = info[id].nrefcount
  BY EntryChange
<1> HIDE DEF e, new
<1>3. e \in [D -> Entry] /\ e[id] = new /\ \A x \in D : x # id => e[x] = info[x]
  BY <1>1, <1>2
<1>4. SameButTried(info, e, id, f)
  BY <1>2, <1>3 DEF SameButTried
<1>5. QED
  BY <1>3, <1>4 DEF e

\* State b is a without the entry of a tried place, which is in the new table now.
Evicted(a, b, slot) ==
  LET id == a.vvtried[slot]
  IN  /\ b.vvtried[slot] = 0
      /\ \A x \in DOMAIN a.info :
           (x # id /\ (a.info[x].fintried \/ a.info[x].nrefcount = 0)) => Keeps(a, b, {x})
      /\ id # 0 => /\ id \in DOMAIN a.info /\ a.info[id].fintried
                   /\ id \in DOMAIN b.info /\ b.info[id].svc = a.info[id].svc
                   /\ \E place \in NewSlots : b.vvnew[place] = id

\* The tried entry of a place goes back to the new table.
LEMMA EvictSound ==
  ASSUME NEW a, NEW dn \in Int, NEW dt \in Int, NEW L, Sound(a, dn, dt, L), NEW slot \in TriedSlots
  PROVE  LET b == Evict(a, slot)
         IN  Sound(b, dn, dt, L) /\ Evicted(a, b, slot)
<1> DEFINE D == DOMAIN a.info
           id == a.vvtried[slot]
           u == [a EXCEPT !.info[id].fintried = FALSE, !.vvtried[slot] = 0, !.ntried = @ - 1]
           place == NewSlot(a.info[id].svc, GetNewBucket[a.info[id].svc, a.info[id].src])
           c == ClearNew(u, place)
           b == Evict(a, slot)
           e == Retried(a.info, id, FALSE)
           o == Put(a.vvtried, slot, 0)
<1>1. /\ a \in State /\ a.ok = TRUE
      /\ Agree(a.info, a.vrandom, a.mapaddr, a.vvnew, a.vvtried, a.nnew, a.ntried, dn, dt, L)
  BY SoundFact
<1>2. /\ D \in SUBSET Ids /\ a.info \in [D -> Entry] /\ a.mapaddr \in [Nets -> Nat]
      /\ a.vvnew \in [NewSlots -> Nat] /\ a.vvtried \in [TriedSlots -> Nat]
      /\ a.nnew \in Int /\ a.ntried \in Int
  BY <1>1, StateFact
<1>3. CASE id = 0
  <2>1. b = a
    BY <1>3 DEF Evict
  <2>2. QED
    BY <1>3, <2>1 DEF Keeps, Evicted
<1>4. CASE id # 0
  <2>1. id \in D
    BY <1>1, <1>4 DEF Agree, TriedTableOk
  <2>2. /\ a.info[id].svc \in CService /\ a.info[id].src \in Source
    BY <1>2, <2>1 DEF Entry
  <2>3. place \in NewSlots /\ place = NewSlot(a.info[id].svc, place[1])
    BY <2>2, PlaceFact
  <2>4. e \in [D -> Entry]
    BY <1>2, <2>1, RetriedFact
  <2>5. u = [a EXCEPT !.info = e, !.vvtried = o, !.ntried = a.ntried - 1]
    BY <1>1 DEF State, Retried, Put
  <2>6. b = IF id \notin D \/ c.vvnew[place] # 0 THEN Failed(a)
            ELSE [c EXCEPT !.info[id].nrefcount = 1, !.vvnew[place] = id, !.nnew = @ + 1]
    BY <1>4 DEF Evict
  <2>7. a.vvtried[slot] = id
    OBVIOUS
  <2> HIDE DEF D, id, u, c, b, place
  <2>8. /\ Agree(e, a.vrandom, a.mapaddr, a.vvnew, o, a.nnew, a.ntried - 1, dn - 1, dt, L \cup {id})
        /\ e \in [D -> Entry] /\ o \in [TriedSlots -> Nat]
        /\ SameButTried(a.info, e, id, FALSE) /\ a.info[id].fintried /\ a.info[id].nrefcount = 0
    <3>1. Agree(e, a.vrandom, a.mapaddr, a.vvnew, o, a.nnew, a.ntried - 1, dn - 1, dt, L \cup {id})
      BY <1>1, <1>2, <2>7, <2>1, LeaveTried
    <3>2. e \in [D -> Entry] /\ o \in [TriedSlots -> Nat]
      BY <1>2, <2>4 DEF Put
    <3>3. SameButTried(a.info, e, id, FALSE)
      BY <1>2, <2>1, RetriedFact
    <3>4. a.info[id].fintried /\ a.info[id].nrefcount = 0
      <4>1. TriedTableOk(a.info, a.vvtried) /\ NewTableOk(a.info, a.vvnew)
        BY <1>1 DEF Agree
      <4>2. a.info[id].fintried
        BY <1>4, <2>7, <4>1 DEF TriedTableOk
      <4>3. QED
        BY <2>1, <4>1, <4>2 DEF NewTableOk, D
    <3>5. QED
      BY <3>1, <3>2, <3>3, <3>4
  <2>9. o[slot] = 0
    BY <1>2 DEF Put
  <2> HIDE DEF e, o
  <2>10. e \in Infos /\ a.ntried - 1 \in Int
    BY <1>2, <2>8, InfosFact
  <2>11. /\ u.info = e /\ u.mapaddr = a.mapaddr /\ u.vrandom = a.vrandom /\ u.vvnew = a.vvnew
         /\ u.vvtried = o /\ u.nnew = a.nnew /\ u.ntried = a.ntried - 1 /\ u.ok = TRUE
    BY <1>1, <2>5 DEF State
  <2>12. u \in State
    BY <1>1, <2>5, <2>8, <2>10 DEF State
  <2>13. Sound(u, dn - 1, dt, L \cup {id}) /\ dn - 1 \in Int
    BY <2>8, <2>11, <2>12 DEF Sound
  <2>14. /\ Sound(c, dn - 1, dt, L \cup {id})
         /\ DOMAIN c.info \subseteq DOMAIN u.info /\ Keeps(u, c, DOMAIN u.info \ {u.vvnew[place]})
         /\ u.vvnew[place] # 0 => /\ u.vvnew[place] \in DOMAIN u.info
                                  /\ ~u.info[u.vvnew[place]].fintried
                                  /\ u.info[u.vvnew[place]].nrefcount > 0
         /\ c.vvnew[place] = 0 /\ c.vvtried = u.vvtried
    BY <2>3, <2>13, ClearNewSound DEF c
  <2>15. ASSUME NEW x \in D, u.info[x].fintried \/ u.info[x].nrefcount = 0 PROVE Keeps(u, c, {x})
    <3>1. x # 0 /\ x \in DOMAIN u.info
      BY <1>2, <2>8, <2>11 DEF Ids
    <3>2. x # u.vvnew[place]
      BY <2>14, <2>15, <3>1
    <3>3. QED
      BY <2>14, <3>1, <3>2 DEF Keeps
  <2>16. /\ id \in DOMAIN c.info /\ c.info[id].svc = a.info[id].svc /\ c.info[id].nrefcount = 0
         /\ c.info[id].fintried = FALSE
    <3>1. /\ u.info[id].nrefcount = 0 /\ u.info[id].svc = a.info[id].svc /\ u.info[id].fintried = FALSE
      BY <2>1, <2>8, <2>11 DEF SameButTried, D
    <3>2. Keeps(u, c, {id})
      BY <2>1, <2>15, <3>1
    <3>3. QED
      BY <3>1, <3>2 DEF Keeps
  <2> DEFINE f == Refer(c, id, place)
  <2>17. /\ Sound(f, dn - 1, dt, (L \cup {id}) \ {id})
         /\ DOMAIN f.info = DOMAIN c.info
         /\ \A x \in DOMAIN c.info : x # id => f.info[x] = c.info[x]
         /\ SameButCount(c.info, f.info)
         /\ f.vvnew = Put(c.vvnew, place, id) /\ f.vvtried = c.vvtried
    <3>1. 0 < BucketsPerAddress /\ ~c.info[id].fintried
      BY <2>16, AddrManAssumption
    <3>2. Sound(f, dn - 1, dt, (L \cup {id}) \ {id})
      BY <2>3, <2>13, <2>14, <2>16, <3>1, ReferSound
    <3>3. c \in State
      BY <2>14 DEF Sound
    <3>4. QED
      BY <2>3, <2>16, <3>2, <3>3, ReferFact
  <2>18. b = CountedNew(f, 1)
    <3>1. c \in State
      BY <2>14 DEF Sound
    <3>2. b = [c EXCEPT !.info[id].nrefcount = 1, !.vvnew[place] = id, !.nnew = @ + 1]
      BY <2>1, <2>6, <2>14
    <3>3. c.info[id].nrefcount + 1 = 1
      BY <2>16
    <3>4. QED
      BY <3>1, <3>2, <3>3 DEF Refer, State, CountedNew
  <2> HIDE DEF f
  <2>19. /\ Sound(b, (dn - 1) + 1, dt, (L \cup {id}) \ {id})
         /\ b.info = f.info /\ b.vvnew = f.vvnew /\ b.vvtried = f.vvtried
    <3>1. 1 \in Int
      OBVIOUS
    <3> DEFINE M == (L \cup {id}) \ {id}
    <3>2. Sound(f, dn - 1, dt, M) /\ dn - 1 \in Int
      BY <2>13, <2>17
    <3> HIDE DEF M
    <3>3. Sound(CountedNew(f, 1), (dn - 1) + 1, dt, M)
      BY <3>1, <3>2, RecountNew
    <3>4. f \in State
      BY <3>2 DEF Sound
    <3>5. /\ CountedNew(f, 1).info = f.info /\ CountedNew(f, 1).vvnew = f.vvnew
          /\ CountedNew(f, 1).vvtried = f.vvtried
      BY <3>1, <3>4, CountedFact
    <3>6. QED
      BY <2>18, <3>3, <3>5 DEF M
  <2>20. Sound(b, dn, dt, L)
    <3>1. (dn - 1) + 1 = dn
      OBVIOUS
    <3>2. HeldOk(b.info, (L \cup {id}) \ {id})
      BY <2>19 DEF Sound, Agree
    <3>3. HeldOk(b.info, L)
      BY <3>2 DEF HeldOk
    <3>4. QED
      BY <2>19, <3>1, <3>3, Excused
  <2>21. ASSUME NEW x \in D, x # id, a.info[x].fintried \/ a.info[x].nrefcount = 0
         PROVE  Keeps(a, b, {x})
    <3>1. Keeps(a, u, {x})
      BY <2>8, <2>11, <2>21 DEF Keeps, SameButTried, D
    <3>2. Keeps(u, c, {x})
      BY <2>15, <2>21, <3>1 DEF Keeps
    <3>3. x \in DOMAIN f.info /\ f.info[x] = c.info[x]
      BY <2>17, <2>21, <3>2 DEF Keeps
    <3>4. QED
      BY <2>19, <3>1, <3>2, <3>3 DEF Keeps
  <2>22. b.vvnew[place] = id
    <3>1. c.vvnew \in [NewSlots -> Nat]
      BY <2>14, StateFact DEF Sound
    <3>2. QED
      BY <2>3, <2>17, <2>19, <3>1 DEF Put
  <2>23. /\ b.vvtried[slot] = 0 /\ id \in DOMAIN b.info /\ b.info[id].svc = a.info[id].svc
    BY <2>9, <2>11, <2>14, <2>16, <2>17, <2>19 DEF SameButCount
  <2>24. QED
    BY <1>4, <2>1, <2>3, <2>8, <2>20, <2>21, <2>22, <2>23 DEF D, id, b, Evicted
<1>5. QED
  BY <1>3, <1>4

\* The places of an entry in the new table are those that its service has in its buckets.
LEMMA PlacesOf ==
  ASSUME NEW a, NEW dn, NEW dt, NEW L, Sound(a, dn, dt, L), NEW id \in DOMAIN a.info
  PROVE  {NewSlot(a.info[id].svc, b) : b \in BucketsOf(a, id)} = Slots(a.vvnew, id)
<1> DEFINE s == a.info[id].svc
           B == {NewSlot(s, b) : b \in BucketsOf(a, id)}
<1>1. a \in State /\ NewTableOk(a.info, a.vvnew)
  BY SoundFact DEF Agree
<1>2. a.info \in [DOMAIN a.info -> Entry] /\ a.vvnew \in [NewSlots -> Nat] /\ 0 \notin DOMAIN a.info
  BY <1>1, StateFact DEF Ids
<1>3. s \in CService
  BY <1>2 DEF Entry
<1>4. ASSUME NEW x \in B PROVE x \in Slots(a.vvnew, id)
  <2>1. PICK b \in BucketsOf(a, id) : x = NewSlot(s, b)
    OBVIOUS
  <2>2. b \in NewBuckets /\ a.vvnew[NewSlot(s, b)] = id
    BY <2>1 DEF BucketsOf
  <2>3. QED
    BY <1>2, <1>3, <2>1, <2>2, PlaceFact DEF Slots
<1>5. ASSUME NEW x \in Slots(a.vvnew, id) PROVE x \in B
  <2>1. x \in NewSlots /\ a.vvnew[x] = id
    BY <1>2 DEF Slots
  <2>2. x = NewSlot(s, x[1]) /\ x[1] \in NewBuckets
    BY <1>1, <1>2, <2>1, PlaceFact DEF NewTableOk
  <2>3. x[1] \in BucketsOf(a, id)
    BY <2>1, <2>2 DEF BucketsOf
  <2>4. QED
    BY <2>2, <2>3
<1>6. QED
  BY <1>4, <1>5

\* Every tried entry of a is still tried in b, or back in the new table.
Safe(a, b) ==
  \A x \in DOMAIN a.info :
    a.info[x].fintried => /\ x \in DOMAIN b.info /\ b.info[x].svc = a.info[x].svc
                          /\ b.info[x].fintried \/ \E place \in NewSlots : b.vvnew[place] = x

\* State b is a with an entry out of the new table, and not counted.
TakenFrom(a, b, id) ==
  /\ b.info = Recounted(a.info, id, a.info[id].nrefcount - Cardinality(Slots(a.vvnew, id)))
  /\ b.vvnew = TakenOut(a.vvnew, id) /\ b.nnew = a.nnew - 1 /\ b.ntried = a.ntried
  /\ b.vrandom = a.vrandom /\ b.mapaddr = a.mapaddr /\ b.vvtried = a.vvtried /\ b.ok = a.ok
  /\ b \in State

\* which agrees but for the count.
LEMMA TakenFromSound ==
  ASSUME NEW a, Sound(a, 0, 0, {}), NEW id \in DOMAIN a.info, NEW b, TakenFrom(a, b, id)
  PROVE  /\ Sound(b, 0 - 1, 0, {id}) /\ SameButCount(a.info, b.info)
         /\ b.info[id].nrefcount = 0 /\ DOMAIN b.info = DOMAIN a.info
<1> DEFINE D == DOMAIN a.info
           e == Recounted(a.info, id, a.info[id].nrefcount - Cardinality(Slots(a.vvnew, id)))
           o == TakenOut(a.vvnew, id)
           Z == {}
           z == 0
<1>1. /\ a \in State /\ a.ok = TRUE
      /\ Agree(a.info, a.vrandom, a.mapaddr, a.vvnew, a.vvtried, a.nnew, a.ntried, z, z, Z)
  BY SoundFact
<1>2. /\ D \in SUBSET Ids /\ a.info \in [D -> Entry] /\ a.mapaddr \in [Nets -> Nat]
      /\ a.vvnew \in [NewSlots -> Nat] /\ a.vvtried \in [TriedSlots -> Nat]
      /\ a.nnew \in Int /\ a.ntried \in Int
  BY <1>1, StateFact
<1>3. id \in D /\ z \in Int
  OBVIOUS
<1> HIDE DEF D, Z, z
<1>4. /\ e \in [D -> Entry] /\ SameButCount(a.info, e) /\ e[id].nrefcount = 0
      /\ Agree(e, a.vrandom, a.mapaddr, o, a.vvtried, a.nnew, a.ntried, z, z, Z \cup {id})
  <2>1. Agree(e, a.vrandom, a.mapaddr, o, a.vvtried, a.nnew, a.ntried, z, z, Z \cup {id})
    BY <1>1, <1>2, <1>3, LeavePlaces
  <2>2. NewTableOk(a.info, a.vvnew)
    BY <1>1 DEF Agree
  <2> DEFINE k == a.info[id].nrefcount - Cardinality(Slots(a.vvnew, id))
  <2>3. a.info[id].nrefcount \in Int /\ a.info[id].nrefcount = Cardinality(Slots(a.vvnew, id))
    BY <1>2, <1>3, <2>2 DEF NewTableOk, Entry
  <2>4. k = 0 /\ k \in Int
    BY <2>3
  <2>5. e = Recounted(a.info, id, k)
    OBVIOUS
  <2> HIDE DEF e, k
  <2>6. e \in [D -> Entry] /\ SameButCount(a.info, e) /\ e[id].nrefcount = k
    BY <1>2, <1>3, <2>4, <2>5, RecountedFact
  <2>7. QED
    BY <2>1, <2>4, <2>6
<1>5. b.info = e /\ b.vvnew = o
  BY DEF TakenFrom
<1> HIDE DEF e, o
<1>6. CountsOk(e, a.nnew - 1, a.ntried, z - 1, z)
  <2>1. CountsOk(e, a.nnew, a.ntried, z, z)
    BY <1>4 DEF Agree
  <2>2. DOMAIN e = D
    BY <1>4
  <2>3. Cardinality(NewIds(e)) \in Nat
    BY <1>2, <1>4, <2>1, <2>2, CountFact DEF CountsOk
  <2>4. QED
    BY <1>2, <1>3, <2>1, <2>3 DEF CountsOk
<1>7. Agree(b.info, b.vrandom, b.mapaddr, b.vvnew, b.vvtried, b.nnew, b.ntried, z - 1, z, Z \cup {id})
  BY <1>4, <1>5, <1>6 DEF Agree, TakenFrom
<1>8. Sound(b, z - 1, z, Z \cup {id})
  BY <1>1, <1>7 DEF Sound, TakenFrom
<1>9. DOMAIN e = D
  BY <1>4
<1>10. Z \cup {id} = {id}
  BY DEF Z
<1>11. QED
  BY <1>4, <1>5, <1>8, <1>9, <1>10 DEF z, D

\* State b is a with an entry in its tried place.
PutInTried(a, b, id) ==
  /\ b.info = Retried(a.info, id, TRUE)
  /\ b.vvtried = Put(a.vvtried, TriedSlot(a.info[id].svc), id) /\ b.ntried = a.ntried + 1
  /\ b.vrandom = a.vrandom /\ b.mapaddr = a.mapaddr /\ b.vvnew = a.vvnew /\ b.nnew = a.nnew
  /\ b.ok = a.ok /\ b \in State

\* which agrees again.
LEMMA PutInTriedSound ==
  ASSUME NEW a, NEW dn \in Int, NEW dt \in Int, NEW L, Sound(a, dn, dt, L), NEW id \in DOMAIN a.info,
         ~a.info[id].fintried, a.info[id].nrefcount = 0, a.vvtried[TriedSlot(a.info[id].svc)] = 0,
         NEW b, PutInTried(a, b, id)
  PROVE  Sound(b, dn + 1, dt, L \ {id})
<1> DEFINE D == DOMAIN a.info
           e == Retried(a.info, id, TRUE)
           u == Put(a.vvtried, TriedSlot(a.info[id].svc), id)
<1>1. /\ a \in State /\ a.ok = TRUE
      /\ Agree(a.info, a.vrandom, a.mapaddr, a.vvnew, a.vvtried, a.nnew, a.ntried, dn, dt, L)
  BY SoundFact
<1>2. /\ D \in SUBSET Ids /\ a.info \in [D -> Entry] /\ a.mapaddr \in [Nets -> Nat]
      /\ a.vvnew \in [NewSlots -> Nat] /\ a.vvtried \in [TriedSlots -> Nat]
      /\ a.nnew \in Int /\ a.ntried \in Int
  BY <1>1, StateFact
<1>3. id \in D
  OBVIOUS
<1> HIDE DEF D
<1>4. Agree(e, a.vrandom, a.mapaddr, a.vvnew, u, a.nnew, a.ntried + 1, dn + 1, dt, L \ {id})
  BY <1>1, <1>2, <1>3, EnterTried
<1> HIDE DEF e, u
<1>5. Agree(b.info, b.vrandom, b.mapaddr, b.vvnew, b.vvtried, b.nnew, b.ntried, dn + 1, dt, L \ {id})
  BY <1>4 DEF PutInTried, e, u
<1>6. QED
  BY <1>1, <1>5 DEF Sound, PutInTried

\* maketried(): an entry moves from the new table to the tried one.
LEMMA MakeTriedSound ==
  ASSUME NEW a, Sound(a, 0, 0, {}), NEW id \in DOMAIN a.info, ~a.info[id].fintried
  PROVE  LET b == MakeTried(a, id)
         IN  Sound(b, 0, 0, {}) /\ Safe(a, b)
<1> DEFINE D == DOMAIN a.info
           s == a.info[id].svc
           ts == TriedSlot(s)
           left == {NewSlot(s, b) : b \in BucketsOf(a, id)}
           out == [a EXCEPT !.vvnew = [slot \in DOMAIN @ |-> IF slot \in left THEN 0 ELSE @[slot]],
                            !.info[id].nrefcount = @ - Cardinality(left),
                            !.nnew = @ - 1]
           free == Evict(out, ts)
           b == MakeTried(a, id)
           final == [free EXCEPT !.vvtried[ts] = id, !.ntried = @ + 1, !.info[id].fintried = TRUE]
<1>1. a \in State
  BY SoundFact
<1>2. /\ D \in SUBSET Ids /\ a.info \in [D -> Entry] /\ a.vvnew \in [NewSlots -> Nat]
      /\ a.nnew \in Int
  BY <1>1, StateFact
<1>3. s \in CService /\ ts \in TriedSlots
  BY <1>2, PlaceFact DEF Entry
<1>4. left = Slots(a.vvnew, id)
  BY PlacesOf
<1>5. b = IF out.info[id].nrefcount # 0 THEN Failed(a) ELSE final
  BY DEF MakeTried
<1>6. TakenFrom(a, out, id)
  <2> DEFINE e == Recounted(a.info, id, a.info[id].nrefcount - Cardinality(left))
             o == TakenOut(a.vvnew, id)
  <2>1. id \in D /\ a.info[id].nrefcount \in Int
    BY <1>2 DEF Entry
  <2>2. Cardinality(left) \in Nat
    BY <1>2, <1>4, SlotsFact
  <2>3. a.info[id].nrefcount - Cardinality(left) \in Int
    BY <2>1, <2>2
  <2>4. e \in [D -> Entry]
    BY <1>2, <2>1, <2>3, RecountedFact
  <2>5. e \in Infos
    BY <1>2, <2>4, InfosFact
  <2>6. o \in [NewSlots -> Nat]
    BY <1>2 DEF TakenOut
  <2>7. [slot \in DOMAIN a.vvnew |-> IF slot \in left THEN 0 ELSE a.vvnew[slot]] = o
    <3>1. DOMAIN a.vvnew = NewSlots
      BY <1>2
    <3> HIDE DEF left
    <3>2. QED
      BY <1>4, <3>1 DEF TakenOut
  <2> HIDE DEF left
  <2>8. out = [a EXCEPT !.vvnew = o, !.info = e, !.nnew = a.nnew - 1]
    BY <1>1, <2>7 DEF State, Recounted
  <2>9. a.nnew - 1 \in Int
    BY <1>2
  <2> HIDE DEF e, o, out
  <2>10. out \in State
    BY <1>1, <2>5, <2>6, <2>8, <2>9 DEF State
  <2>11. /\ out.info = e /\ out.vvnew = o /\ out.nnew = a.nnew - 1 /\ out.ntried = a.ntried
         /\ out.vrandom = a.vrandom /\ out.mapaddr = a.mapaddr /\ out.vvtried = a.vvtried
         /\ out.ok = a.ok
    BY <1>1, <2>8 DEF State
  <2>12. QED
    BY <1>4, <2>10, <2>11 DEF TakenFrom, e, o
<1>7. id \in D
  OBVIOUS
<1> HIDE DEF left, out
<1>8. /\ Sound(out, 0 - 1, 0, {id}) /\ SameButCount(a.info, out.info)
      /\ out.info[id].nrefcount = 0 /\ DOMAIN out.info = D
  BY <1>6, TakenFromSound
<1>9. Sound(free, 0 - 1, 0, {id}) /\ Evicted(out, free, ts)
  <2>1. 0 - 1 \in Int /\ 0 \in Int
    OBVIOUS
  <2> DEFINE M == {id}
             y == 0 - 1
             z == 0
  <2>2. Sound(out, y, z, M) /\ y \in Int /\ z \in Int
    BY <1>8, <2>1
  <2> HIDE DEF M, y, z
  <2>3. Sound(free, y, z, M) /\ Evicted(out, free, ts)
    BY <1>3, <2>2, EvictSound
  <2>4. QED
    BY <2>3 DEF M, y, z
<1>10. b = final
  BY <1>5, <1>8
<1> HIDE DEF free, b, final, D
<1>11. out.vvtried[ts] # id
  <2>1. ~out.info[id].fintried
    BY <1>7, <1>8 DEF SameButCount, D
  <2>2. id # 0
    BY <1>2, <1>7 DEF Ids
  <2>3. QED
    BY <1>9, <2>1, <2>2 DEF Evicted
<1>12. /\ id \in DOMAIN free.info /\ free.info[id].svc = s /\ free.info[id].nrefcount = 0
       /\ ~free.info[id].fintried /\ free.vvtried[ts] = 0
  <2>1. Keeps(out, free, {id})
    BY <1>7, <1>8, <1>9, <1>11 DEF Evicted
  <2>2. ~out.info[id].fintried /\ out.info[id].svc = s
    BY <1>7, <1>8 DEF SameButCount, D
  <2>3. QED
    BY <1>8, <1>9, <2>1, <2>2 DEF Keeps, Evicted
<1>13. free \in State
  BY <1>9 DEF Sound
<1>14. PutInTried(free, b, id)
  <2> DEFINE F == DOMAIN free.info
             e == Retried(free.info, id, TRUE)
             u == Put(free.vvtried, ts, id)
  <2>1. /\ F \in SUBSET Ids /\ free.info \in [F -> Entry] /\ free.vvtried \in [TriedSlots -> Nat]
        /\ free.ntried \in Int
    BY <1>13, StateFact
  <2>2. e \in [F -> Entry]
    BY <1>12, <2>1, RetriedFact
  <2>3. e \in Infos
    BY <2>1, <2>2, InfosFact
  <2>4. u \in [TriedSlots -> Nat]
    BY <1>2, <1>7, <2>1 DEF Put, Ids
  <2>5. free.ntried + 1 \in Int
    BY <2>1
  <2>6. b = [free EXCEPT !.vvtried = u, !.ntried = free.ntried + 1, !.info = e]
    BY <1>10, <1>13 DEF final, State, Put, Retried
  <2> HIDE DEF e, u
  <2>7. b \in State
    BY <1>13, <2>3, <2>4, <2>5, <2>6 DEF State
  <2>8. /\ b.info = e /\ b.vvtried = u /\ b.ntried = free.ntried + 1 /\ b.vrandom = free.vrandom
        /\ b.mapaddr = free.mapaddr /\ b.vvnew = free.vvnew /\ b.nnew = free.nnew /\ b.ok = free.ok
    BY <1>13, <2>6 DEF State
  <2>9. QED
    BY <1>12, <2>7, <2>8 DEF PutInTried, e, u
<1>15. Sound(b, 0, 0, {})
  <2> DEFINE M == {id}
             y == 0 - 1
             z == 0
  <2>1. Sound(free, y, z, M) /\ y \in Int /\ z \in Int
    BY <1>9
  <2> HIDE DEF M, y, z
  <2>2. free.vvtried[TriedSlot(free.info[id].svc)] = 0
    BY <1>12
  <2>3. Sound(b, y + 1, z, M \ {id})
    BY <1>12, <1>14, <2>1, <2>2, PutInTriedSound
  <2>4. M \ {id} = {} /\ y + 1 = 0
    BY DEF M, y
  <2>5. QED
    BY <2>3, <2>4 DEF z
<1>16. Safe(a, b)
  <2>1. SameButTried(free.info, b.info, id, TRUE)
    <3>1. free.info \in [DOMAIN free.info -> Entry]
      BY <1>13, StateFact
    <3>2. b.info = Retried(free.info, id, TRUE) /\ TRUE \in BOOLEAN
      BY <1>14 DEF PutInTried
    <3>3. SameButTried(free.info, Retried(free.info, id, TRUE), id, TRUE)
      BY <1>12, <3>1, <3>2, RetriedFact
    <3>4. QED
      BY <3>2, <3>3
  <2>2. ASSUME NEW x \in DOMAIN a.info, a.info[x].fintried
        PROVE  /\ x \in DOMAIN b.info /\ b.info[x].svc = a.info[x].svc
               /\ b.info[x].fintried \/ \E place \in NewSlots : b.vvnew[place] = x
    <3>1. x # id /\ x # 0
      BY <1>2, <2>2 DEF D, Ids
    <3>2. x \in DOMAIN out.info /\ out.info[x].svc = a.info[x].svc /\ out.info[x].fintried
      BY <1>8, <2>2 DEF SameButCount, D
    <3>3. CASE x = out.vvtried[ts]
      <4>1. /\ x \in DOMAIN free.info /\ free.info[x].svc = out.info[x].svc
            /\ \E place \in NewSlots : free.vvnew[place] = x
        BY <1>9, <3>1, <3>3 DEF Evicted
      <4>2. b.vvnew = free.vvnew
        BY <1>14 DEF PutInTried
      <4>3. QED
        BY <2>1, <3>2, <4>1, <4>2 DEF SameButTried
    <3>4. CASE x # out.vvtried[ts]
      <4>1. Keeps(out, free, {x})
        BY <1>9, <3>2, <3>4 DEF Evicted
      <4>2. x \in DOMAIN free.info /\ free.info[x].svc = out.info[x].svc
            /\ free.info[x].fintried = out.info[x].fintried
        BY <4>1 DEF Keeps
      <4>3. QED
        BY <2>1, <3>1, <3>2, <4>2 DEF SameButTried
    <3>5. QED
      BY <3>3, <3>4
  <2>3. QED
    BY <2>2 DEF Safe
<1>17. QED
  BY <1>15, <1>16 DEF b

\* good_().
LEMMA GoodSound ==
  ASSUME NEW a, Sound(a, 0, 0, {}), NEW s \in CService
  PROVE  LET b == Good(a, s)
         IN  Sound(b, 0, 0, {}) /\ Safe(a, b)
<1> DEFINE id == a.mapaddr[NetAddr[s]]
           b == Good(a, s)
           skip == \/ id = 0
                   \/ a.info[id].svc # s
                   \/ a.info[id].fintried
                   \/ BucketsOf(a, id) = {}
<1>1. b = IF skip THEN a ELSE MakeTried(a, id)
  BY DEF Good
<1>2. CASE skip
  <2>1. b = a
    BY <1>1, <1>2
  <2> HIDE DEF b
  <2>2. QED
    BY <2>1 DEF Safe, b
<1>3. CASE ~skip
  <2>1. IndexOk(a.info, a.mapaddr)
    BY SoundFact DEF Agree
  <2>2. NetAddr[s] \in Nets
    BY PlaceFact
  <2>3. id \in DOMAIN a.info /\ ~a.info[id].fintried
    BY <1>3, <2>1, <2>2 DEF IndexOk
  <2>4. b = MakeTried(a, id)
    BY <1>1, <1>3
  <2> HIDE DEF b, id
  <2>5. QED
    BY <2>3, <2>4, MakeTriedSound DEF b
<1>4. QED
  BY <1>2, <1>3

\* A set of numbers has a least one.
LEMMA LeastNat ==
  ASSUME NEW T \in SUBSET Nat, T # {}
  PROVE  \E m \in T : \A j \in T : m <= j
<1> DEFINE R0 == OpToRel(<, Nat)
<1>1. IsWellFoundedOn(R0, Nat)
  BY NatLessThanWellFounded
<1>2. PICK m \in T : \A j \in T : ~(<<j, m>> \in R0)
  BY <1>1, WFMin
<1>3. \A j \in T : ~(j < m)
  BY <1>2 DEF OpToRel
<1>4. QED
  BY <1>3

\* What holds at first and is kept by every round of a loop holds after all of them.
LEMMA Rounds ==
  ASSUME NEW n \in Nat, NEW T, 0 \in T, \A k \in 1 .. n : k - 1 \in T => k \in T
  PROVE  \A k \in 0 .. n : k \in T
<1> DEFINE S == {m \in Nat : m <= n /\ m \notin T}
<1> SUFFICES ASSUME S # {} PROVE FALSE
  OBVIOUS
<1>1. S \in SUBSET Nat
  OBVIOUS
<1>2. PICK m \in S : \A j \in S : m <= j
  <2> HIDE DEF S
  <2> QED
    BY <1>1, LeastNat
<1>3. m # 0 /\ m \in 1 .. n /\ m \notin T
  BY <1>2
<1>4. m - 1 \notin S
  BY <1>1, <1>2, <1>3
<1>5. m - 1 \in T
  BY <1>3, <1>4
<1>6. QED
  BY <1>3, <1>5

\* The states of the rounds up to m of a loop that starts in s0, whose round k takes the
\* states R[k - 1] to the states R[k] as the function G[k] says.
Passes(f, m, s0, R, G) ==
  /\ f = [k \in 0 .. m |-> f[k]]
  /\ f[0] = s0
  /\ \A k \in 1 .. m : f[k] = G[k][f[k - 1]]
  /\ \A k \in 0 .. m : f[k] \in R[k]

\* There are such states,
LEMMA LoopRuns ==
  ASSUME NEW n \in Nat, NEW R, NEW s0 \in R[0], NEW G, \A k \in 1 .. n : G[k] \in [R[k - 1] -> R[k]]
  PROVE  \E f : Passes(f, n, s0, R, G)
<1> DEFINE T == {m \in 0 .. n : \E f : Passes(f, m, s0, R, G)}
<1>1. 0 \in T
  <2> DEFINE f == [k \in 0 .. 0 |-> s0]
  <2>1. f[0] = s0 /\ DOMAIN f = 0 .. 0 /\ f = [k \in 0 .. 0 |-> f[k]]
    OBVIOUS
  <2> HIDE DEF f
  <2>2. Passes(f, 0, s0, R, G)
    BY <2>1 DEF Passes
  <2>3. QED
    BY <2>2
<1>2. ASSUME NEW m \in 1 .. n, m - 1 \in T PROVE m \in T
  <2>1. PICK f : Passes(f, m - 1, s0, R, G)
    BY <1>2
  <2> DEFINE h == [k \in 0 .. m |-> IF k = m THEN G[m][f[m - 1]] ELSE f[k]]
  <2>2. m - 1 \in 0 .. m - 1 /\ m \in 0 .. m /\ m # 0 /\ 0 \in 0 .. m /\ m \in Nat
    OBVIOUS
  <2>3. f[m - 1] \in R[m - 1] /\ G[m] \in [R[m - 1] -> R[m]]
    BY <2>1, <2>2 DEF Passes
  <2>4. G[m][f[m - 1]] \in R[m]
    BY <2>3
  <2>5. /\ h[m] = G[m][f[m - 1]] /\ \A k \in 0 .. m - 1 : h[k] = f[k]
        /\ h = [k \in 0 .. m |-> h[k]]
    BY <2>2
  <2> HIDE DEF h
  <2>6. h[0] = s0
    <3>1. 0 \in 0 .. m - 1
      BY <2>2
    <3>2. f[0] = s0
      BY <2>1 DEF Passes
    <3>3. QED
      BY <2>5, <3>1, <3>2
  <2>7. ASSUME NEW k \in 1 .. m PROVE h[k] = G[k][h[k - 1]]
    <3>1. k - 1 \in 0 .. m - 1 /\ (k # m => k \in 1 .. m - 1 /\ k \in 0 .. m - 1)
      BY <2>2
    <3>2. CASE k = m
      BY <2>5, <3>1, <3>2
    <3>3. CASE k # m
      BY <2>1, <2>5, <3>1, <3>3 DEF Passes
    <3>4. QED
      BY <3>2, <3>3
  <2>8. ASSUME NEW k \in 0 .. m PROVE h[k] \in R[k]
    <3>1. k # m => k \in 0 .. m - 1
      BY <2>2
    <3>2. CASE k = m
      BY <2>4, <2>5, <3>2
    <3>3. CASE k # m
      BY <2>1, <2>5, <3>1, <3>3 DEF Passes
    <3>4. QED
      BY <3>2, <3>3
  <2>9. Passes(h, m, s0, R, G)
    BY <2>5, <2>6, <2>7, <2>8 DEF Passes
  <2>10. m \in 0 .. n
    OBVIOUS
  <2>11. QED
    BY <2>9, <2>10
<1> HIDE DEF T
<1>3. n \in T
  <2>1. \A k \in 0 .. n : k \in T
    BY <1>1, <1>2, Rounds
  <2>2. QED
    BY <2>1
<1>4. QED
  BY <1>3 DEF T

\* States that the rounds make of each other, as far as they are known to be in the R[k],
Follows(f, n, R, G) ==
  f[0] \in R[0] /\ \A k \in 1 .. n : f[k - 1] \in R[k - 1] => f[k] = G[k][f[k - 1]]

\* and so they all are.
LEMMA LoopKeeps ==
  ASSUME NEW n \in Nat, NEW R, NEW G, \A k \in 1 .. n : G[k] \in [R[k - 1] -> R[k]],
         NEW f, Follows(f, n, R, G)
  PROVE  f[n] \in R[n]
<1> USE DEF Follows
<1> DEFINE T == {k \in 0 .. n : f[k] \in R[k]}
<1>1. 0 \in T
  OBVIOUS
<1>2. ASSUME NEW k \in 1 .. n, k - 1 \in T PROVE k \in T
  <2>1. f[k - 1] \in R[k - 1] /\ k \in 0 .. n
    BY <1>2
  <2>2. f[k] = G[k][f[k - 1]] /\ G[k] \in [R[k - 1] -> R[k]]
    BY <2>1
  <2>3. f[k] \in R[k]
    BY <2>1, <2>2
  <2>4. QED
    BY <2>1, <2>3
<1> HIDE DEF T
<1>3. n \in T
  <2>1. \A k \in 0 .. n : k \in T
    BY <1>1, <1>2, Rounds
  <2>2. QED
    BY <2>1
<1>4. QED
  BY <1>3 DEF T

-----------------------------------------------------------------------------
\* U[x] has the members of S up to x, in a total order.
Orders(U, S) ==
  /\ U \in [S -> SUBSET S]
  /\ \A x \in S : x \in U[x]
  /\ \A x, y \in S : x \in U[y] => U[x] \subseteq U[y]
  /\ \A x, y \in S : x \in U[y] \/ y \in U[x]
  /\ \A x, y \in S : (x \in U[y] /\ y \in U[x]) => x = y

\* The sizes of the U[x] are 1, 2, ... up to the size of S.
Ranks(U, S) ==
  /\ Cardinality(S) \in Nat
  /\ \A x \in S : Cardinality(U[x]) \in 1 .. Cardinality(S)
  /\ \A x, y \in S : Cardinality(U[x]) = Cardinality(U[y]) => x = y
  /\ \A n \in 1 .. Cardinality(S) : \E x \in S : Cardinality(U[x]) = n

\* Then their number is the place of x, from 1 to the size of S.
LEMMA Ranking ==
  ASSUME NEW S, IsFiniteSet(S), NEW U, Orders(U, S)
  PROVE  Ranks(U, S)
<1> DEFINE k == Cardinality(S)
           rank == [x \in S |-> Cardinality(U[x])]
<1>1. k \in Nat
  BY FS_CardinalityType
<1>2. ASSUME NEW x \in S
      PROVE  IsFiniteSet(U[x]) /\ Cardinality(U[x]) \in 1 .. k
  <2>1. U[x] \in SUBSET S /\ x \in U[x]
    BY DEF Orders
  <2>2. IsFiniteSet(U[x]) /\ Cardinality(U[x]) <= k
    BY <2>1, FS_Subset
  <2>3. Cardinality(U[x]) \in Nat /\ Cardinality(U[x]) # 0
    BY <2>1, <2>2, FS_CardinalityType, FS_EmptySet
  <2> HIDE DEF k
  <2>4. QED
    BY <1>1, <2>2, <2>3
<1>3. ASSUME NEW x \in S, NEW y \in S, x \in U[y], Cardinality(U[x]) = Cardinality(U[y])
      PROVE  x = y
  <2>1. U[x] \in SUBSET U[y] /\ IsFiniteSet(U[y])
    BY <1>2, <1>3 DEF Orders
  <2>2. U[x] = U[y]
    BY <1>3, <2>1, FS_Subset
  <2>3. QED
    BY <1>3, <2>2 DEF Orders
<1>4. ASSUME NEW x \in S, NEW y \in S, Cardinality(U[x]) = Cardinality(U[y])
      PROVE  x = y
  <2>1. x \in U[y] \/ y \in U[x]
    BY DEF Orders
  <2>2. QED
    BY <1>3, <1>4, <2>1
<1> HIDE DEF k
<1>5. rank \in Injection(S, 1 .. k)
  <2>1. rank \in [S -> 1 .. k]
    BY <1>2
  <2>2. \A x, z \in S : rank[x] = rank[z] => x = z
    BY <1>4
  <2> HIDE DEF rank
  <2>3. QED
    BY <2>1, <2>2, Fun_IsInj
<1>6. IsFiniteSet(1 .. k) /\ Cardinality(1 .. k) = k
  BY <1>1, FS_Interval
<1>7. rank \in Surjection(S, 1 .. k)
  <2> HIDE DEF rank
  <2> QED BY <1>5, <1>6, FS_Injection DEF k
<1>8. ASSUME NEW n \in 1 .. k PROVE \E x \in S : Cardinality(U[x]) = n
  BY <1>7 DEF Surjection
<1>9. QED
  BY <1>1, <1>2, <1>4, <1>8 DEF k, Ranks

\* The places of the numbers of a finite set.
LEMMA RankFact ==
  ASSUME NEW S \in SUBSET Nat, IsFiniteSet(S)
  PROVE  /\ Cardinality(S) \in Nat
         /\ \A x \in S : Rank(S, x) \in 1 .. Cardinality(S) /\ Nth(S, Rank(S, x)) = x
         /\ \A n \in 1 .. Cardinality(S) : Nth(S, n) \in S /\ Rank(S, Nth(S, n)) = n
<1> DEFINE U == [x \in S |-> {y \in S : y <= x}]
<1>1. Orders(U, S)
  <2>1. U \in [S -> SUBSET S]
    OBVIOUS
  <2>2. \A x \in S : x \in U[x]
    OBVIOUS
  <2>3. ASSUME NEW x \in S, NEW y \in S, x \in U[y] PROVE U[x] \subseteq U[y]
    <3>1. x <= y /\ x \in Nat /\ y \in Nat
      BY <2>3
    <3>2. U[x] = {z \in S : z <= x} /\ U[y] = {z \in S : z <= y}
      OBVIOUS
    <3> HIDE DEF U
    <3>3. \A z \in S : z <= x => z <= y
      BY <3>1
    <3>4. QED
      BY <3>2, <3>3
  <2>4. \A x, y \in S : x \in U[y] \/ y \in U[x]
    OBVIOUS
  <2>5. \A x, y \in S : (x \in U[y] /\ y \in U[x]) => x = y
    OBVIOUS
  <2> HIDE DEF U
  <2>6. QED
    BY <2>1, <2>2, <2>3, <2>4, <2>5 DEF Orders
<1>2. \A x \in S : Cardinality(U[x]) = Rank(S, x)
  BY DEF Rank
<1> HIDE DEF U
<1>3. /\ Cardinality(S) \in Nat
      /\ \A x \in S : Cardinality(U[x]) \in 1 .. Cardinality(S)
      /\ \A x, y \in S : Cardinality(U[x]) = Cardinality(U[y]) => x = y
      /\ \A n \in 1 .. Cardinality(S) : \E x \in S : Cardinality(U[x]) = n
  <2>1. Ranks(U, S)
    BY <1>1, Ranking
  <2>2. QED
    BY <2>1 DEF Ranks
<1>4. ASSUME NEW n \in 1 .. Cardinality(S) PROVE Nth(S, n) \in S /\ Rank(S, Nth(S, n)) = n
  <2>1. \E x \in S : Rank(S, x) = n
    BY <1>2, <1>3
  <2>2. QED
    BY <2>1 DEF Nth
<1>5. ASSUME NEW x \in S PROVE Rank(S, x) \in 1 .. Cardinality(S) /\ Nth(S, Rank(S, x)) = x
  <2>1. Rank(S, x) \in 1 .. Cardinality(S)
    BY <1>2, <1>3
  <2> DEFINE y == Nth(S, Rank(S, x))
  <2>2. y \in S /\ Rank(S, y) = Rank(S, x)
    BY <1>4, <2>1
  <2> HIDE DEF y
  <2>3. y = x
    BY <1>2, <1>3, <2>2
  <2>4. QED
    BY <2>1, <2>3 DEF y
<1>6. QED
  BY <1>3, <1>4, <1>5

\* The order of the file on two places.
SlotBefore(y, x) == y[1] < x[1] \/ (y[1] = x[1] /\ y[2] <= x[2])

\* is total.
LEMMA SlotOrder ==
  /\ \A x \in NewSlots : SlotBefore(x, x)
  /\ \A x, y, z \in NewSlots : (SlotBefore(z, x) /\ SlotBefore(x, y)) => SlotBefore(z, y)
  /\ \A x, y \in NewSlots : SlotBefore(x, y) \/ SlotBefore(y, x)
  /\ \A x, y \in NewSlots : (SlotBefore(x, y) /\ SlotBefore(y, x)) => x = y
<1>1. \A x \in NewSlots : x[1] \in Nat /\ x[2] \in Nat /\ x = <<x[1], x[2]>>
  <2>1. \A b \in NewBuckets : b \in Nat
    BY AddrManAssumption
  <2>2. \A p \in Positions : p \in Nat
    BY AddrManAssumption
  <2>3. ASSUME NEW x \in NewSlots PROVE x[1] \in NewBuckets /\ x[2] \in Positions /\ x = <<x[1], x[2]>>
    BY DEF NewSlots
  <2>4. QED
    BY <2>1, <2>2, <2>3
<1>2. \A x \in NewSlots : SlotBefore(x, x)
  BY <1>1 DEF SlotBefore
<1>3. \A x, y, z \in NewSlots : (SlotBefore(z, x) /\ SlotBefore(x, y)) => SlotBefore(z, y)
  BY <1>1 DEF SlotBefore
<1>4. \A x, y \in NewSlots : SlotBefore(x, y) \/ SlotBefore(y, x)
  BY <1>1 DEF SlotBefore
<1>5. ASSUME NEW x \in NewSlots, NEW y \in NewSlots, SlotBefore(x, y), SlotBefore(y, x)
      PROVE  x = y
  <2>1. x[1] = y[1] /\ x[2] = y[2]
    BY <1>1, <1>5 DEF SlotBefore
  <2>2. QED
    BY <1>1, <2>1
<1>6. QED
  BY <1>2, <1>3, <1>4, <1>5

\* The places in the file of places of the new table.
LEMMA SlotRankFact ==
  ASSUME NEW S \in SUBSET NewSlots
  PROVE  /\ IsFiniteSet(S) /\ Cardinality(S) \in Nat
         /\ \A x \in S : /\ Cardinality(SlotsUpTo(S, x)) \in 1 .. Cardinality(S)
                         /\ NthSlot(S, Cardinality(SlotsUpTo(S, x))) = x
         /\ \A n \in 1 .. Cardinality(S) :
              NthSlot(S, n) \in S /\ Cardinality(SlotsUpTo(S, NthSlot(S, n))) = n
<1> DEFINE U == [x \in S |-> {y \in S : SlotBefore(y, x)}]
<1>1. IsFiniteSet(S)
  BY PlaceFact, FS_Subset
<1>2. Orders(U, S)
  <2>1. U \in [S -> SUBSET S]
    OBVIOUS
  <2>2. \A x, y \in S : x \in U[y] <=> SlotBefore(x, y)
    OBVIOUS
  <2> HIDE DEF U
  <2>3. \A x \in S : x \in U[x]
    BY <2>2, SlotOrder
  <2>4. ASSUME NEW x \in S, NEW y \in S, x \in U[y] PROVE U[x] \subseteq U[y]
    <3>1. ASSUME NEW z \in U[x] PROVE z \in U[y]
      <4>1. z \in S
        BY <2>1
      <4>2. SlotBefore(z, x) /\ SlotBefore(x, y)
        BY <2>2, <2>4, <4>1
      <4>3. SlotBefore(z, y)
        BY <4>1, <4>2, SlotOrder
      <4>4. QED
        BY <2>2, <4>1, <4>3
    <3>2. QED
      BY <3>1
  <2>5. \A x, y \in S : x \in U[y] \/ y \in U[x]
    BY <2>2, SlotOrder
  <2>6. \A x, y \in S : (x \in U[y] /\ y \in U[x]) => x = y
    BY <2>2, SlotOrder
  <2>7. QED
    BY <2>1, <2>3, <2>4, <2>5, <2>6 DEF Orders
<1>3. \A x \in S : U[x] = SlotsUpTo(S, x)
  BY DEF SlotsUpTo, SlotBefore
<1> HIDE DEF U
<1>4. Ranks(U, S)
  BY <1>1, <1>2, Ranking
<1>5. ASSUME NEW n \in 1 .. Cardinality(S)
      PROVE  NthSlot(S, n) \in S /\ Cardinality(SlotsUpTo(S, NthSlot(S, n))) = n
  <2>1. \E x \in S : Cardinality(SlotsUpTo(S, x)) = n
    BY <1>3, <1>4 DEF Ranks
  <2>2. QED
    BY <2>1 DEF NthSlot
<1>6. ASSUME NEW x \in S
      PROVE  /\ Cardinality(SlotsUpTo(S, x)) \in 1 .. Cardinality(S)
             /\ NthSlot(S, Cardinality(SlotsUpTo(S, x))) = x
  <2>1. Cardinality(SlotsUpTo(S, x)) \in 1 .. Cardinality(S)
    BY <1>3, <1>4 DEF Ranks
  <2> DEFINE y == NthSlot(S, Cardinality(SlotsUpTo(S, x)))
  <2>2. y \in S /\ Cardinality(SlotsUpTo(S, y)) = Cardinality(SlotsUpTo(S, x))
    BY <1>5, <2>1
  <2> HIDE DEF y
  <2>3. y = x
    BY <1>3, <1>4, <2>2 DEF Ranks
  <2>4. QED
    BY <2>1, <2>3 DEF y
<1>7. QED
  BY <1>1, <1>4, <1>5, <1>6 DEF Ranks

-----------------------------------------------------------------------------
\* Ids by their places among the ids, the numbers of the entries from 1.
Renamed(D, x) == IF x = 0 THEN 0 ELSE Rank(D, x)

\* State b is a with its ids renamed.
Renames(a, b) ==
  LET D == DOMAIN a.info
  IN  /\ b.info = [n \in 1 .. Cardinality(D) |-> a.info[Nth(D, n)]]
      /\ b.mapaddr = [x \in Nets |-> Renamed(D, a.mapaddr[x])]
      /\ b.vrandom = [i \in 1 .. Len(a.vrandom) |-> Renamed(D, a.vrandom[i])]
      /\ b.vvnew = [x \in NewSlots |-> Renamed(D, a.vvnew[x])]
      /\ b.vvtried = [x \in TriedSlots |-> Renamed(D, a.vvtried[x])]
      /\ b.nnew = a.nnew /\ b.ntried = a.ntried /\ b.ok = a.ok
      /\ b = [info |-> b.info, mapaddr |-> b.mapaddr, vrandom |-> b.vrandom, vvnew |-> b.vvnew,
              vvtried |-> b.vvtried, nnew |-> b.nnew, ntried |-> b.ntried, ok |-> b.ok]

\* Compact is that on a state without dangling ids.
LEMMA CompactRenames ==
  ASSUME NEW a, NEW dn, NEW dt, NEW L, Sound(a, dn, dt, L)
  PROVE  Renames(a, Compact(a))
<1> DEFINE D == DOMAIN a.info
           rank(id) == IF id = 0 THEN 0 ELSE IF id \in D THEN Rank(D, id) ELSE -1
           b == Compact(a)
<1>1. /\ a \in State
      /\ Agree(a.info, a.vrandom, a.mapaddr, a.vvnew, a.vvtried, a.nnew, a.ntried, dn, dt, L)
  BY SoundFact
<1>2. /\ D \in SUBSET Ids /\ a.mapaddr \in [Nets -> Nat] /\ a.vrandom \in Seq(Nat)
      /\ a.vvnew \in [NewSlots -> Nat] /\ a.vvtried \in [TriedSlots -> Nat]
  BY <1>1, StateFact
<1>3. \A x : (x = 0 \/ x \in D) => rank(x) = Renamed(D, x)
  BY DEF Renamed
<1>4. b = [a EXCEPT !.info = [n \in 1 .. Cardinality(D) |-> a.info[Nth(D, n)]],
                    !.mapaddr = [x \in DOMAIN a.mapaddr |-> rank(a.mapaddr[x])],
                    !.vrandom = [x \in DOMAIN a.vrandom |-> rank(a.vrandom[x])],
                    !.vvnew = [x \in DOMAIN a.vvnew |-> rank(a.vvnew[x])],
                    !.vvtried = [x \in DOMAIN a.vvtried |-> rank(a.vvtried[x])]]
  BY <1>1 DEF Compact, State
<1>5. /\ b.info = [n \in 1 .. Cardinality(D) |-> a.info[Nth(D, n)]]
      /\ b.mapaddr = [x \in DOMAIN a.mapaddr |-> rank(a.mapaddr[x])]
      /\ b.vrandom = [x \in DOMAIN a.vrandom |-> rank(a.vrandom[x])]
      /\ b.vvnew = [x \in DOMAIN a.vvnew |-> rank(a.vvnew[x])]
      /\ b.vvtried = [x \in DOMAIN a.vvtried |-> rank(a.vvtried[x])]
      /\ b.nnew = a.nnew /\ b.ntried = a.ntried /\ b.ok = a.ok
  <2> HIDE DEF rank, D, b
  <2> QED
    BY <1>1, <1>4 DEF State
<1>6. [x \in DOMAIN a.mapaddr |-> rank(a.mapaddr[x])] = [x \in Nets |-> Renamed(D, a.mapaddr[x])]
  <2>1. DOMAIN a.mapaddr = Nets /\ \A x \in Nets : a.mapaddr[x] = 0 \/ a.mapaddr[x] \in D
    BY <1>1, <1>2 DEF Agree, IndexOk
  <2> HIDE DEF rank, D
  <2>2. QED
    BY <1>3, <2>1
<1>7. [x \in DOMAIN a.vrandom |-> rank(a.vrandom[x])] = [x \in 1 .. Len(a.vrandom) |-> Renamed(D, a.vrandom[x])]
  <2>1. DOMAIN a.vrandom = 1 .. Len(a.vrandom)
    BY <1>2
  <2>2. \A x \in 1 .. Len(a.vrandom) : a.vrandom[x] \in D
    BY <1>1 DEF Agree, VectorOk
  <2> HIDE DEF rank, D
  <2>3. \A x \in 1 .. Len(a.vrandom) : rank(a.vrandom[x]) = Renamed(D, a.vrandom[x])
    BY <1>3, <2>2
  <2>4. QED
    BY <2>1, <2>3
<1>8. [x \in DOMAIN a.vvnew |-> rank(a.vvnew[x])] = [x \in NewSlots |-> Renamed(D, a.vvnew[x])]
  <2>1. DOMAIN a.vvnew = NewSlots /\ \A x \in NewSlots : a.vvnew[x] = 0 \/ a.vvnew[x] \in D
    BY <1>1, <1>2 DEF Agree, NewTableOk
  <2> HIDE DEF rank, D
  <2>2. QED
    BY <1>3, <2>1
<1>9. [x \in DOMAIN a.vvtried |-> rank(a.vvtried[x])] = [x \in TriedSlots |-> Renamed(D, a.vvtried[x])]
  <2>1. DOMAIN a.vvtried = TriedSlots /\ \A x \in TriedSlots : a.vvtried[x] = 0 \/ a.vvtried[x] \in D
    BY <1>1, <1>2 DEF Agree, TriedTableOk
  <2> HIDE DEF rank, D
  <2>2. QED
    BY <1>3, <2>1
<1> HIDE DEF rank, b
<1>10. b = [info |-> b.info, mapaddr |-> b.mapaddr, vrandom |-> b.vrandom, vvnew |-> b.vvnew,
            vvtried |-> b.vvtried, nnew |-> b.nnew, ntried |-> b.ntried, ok |-> b.ok]
  BY <1>1, <1>4 DEF State
<1>11. QED
  BY <1>5, <1>6, <1>7, <1>8, <1>9, <1>10 DEF Renames, b

\* The renaming takes the ids to 1, 2, ... and back.
LEMMA RenamedFact ==
  ASSUME NEW D \in SUBSET Ids, IsFiniteSet(D), NEW N, N = Cardinality(D)
  PROVE  /\ N \in Nat
         /\ \A x \in D : /\ Renamed(D, x) \in 1 .. N /\ Renamed(D, x) # 0 /\ Nth(D, Renamed(D, x)) = x
         /\ \A n \in 1 .. N : Nth(D, n) \in D /\ Renamed(D, Nth(D, n)) = n
         /\ Renamed(D, 0) = 0
<1>1. D \in SUBSET Nat /\ 0 \notin D
  BY DEF Ids
<1>2. /\ N \in Nat
      /\ \A x \in D : Rank(D, x) \in 1 .. N /\ Nth(D, Rank(D, x)) = x
      /\ \A n \in 1 .. N : Nth(D, n) \in D /\ Rank(D, Nth(D, n)) = n
  BY <1>1, RankFact
<1>3. \A x \in D : Renamed(D, x) = Rank(D, x)
  BY <1>1 DEF Renamed
<1>4. Renamed(D, 0) = 0
  BY DEF Renamed
<1>5. QED
  BY <1>2, <1>3, <1>4

\* State b has the entries of a, which are D and N of them, under the new names.
SameEntries(a, b, D, N) ==
  /\ b.info \in [1 .. N -> Entry] /\ b.mapaddr \in [Nets -> Nat]
  /\ b.vrandom \in Seq(Nat) /\ Len(b.vrandom) = Len(a.vrandom)
  /\ b.vvnew \in [NewSlots -> Nat] /\ b.vvtried \in [TriedSlots -> Nat]
  /\ \A n \in 1 .. N : b.info[n] = a.info[Nth(D, n)]
  /\ \A x \in D : b.info[Renamed(D, x)] = a.info[x]
  /\ \A x \in Nets : b.mapaddr[x] = Renamed(D, a.mapaddr[x])
  /\ \A i \in 1 .. Len(a.vrandom) : b.vrandom[i] = Renamed(D, a.vrandom[i])
  /\ \A x \in NewSlots : b.vvnew[x] = Renamed(D, a.vvnew[x])
  /\ \A x \in TriedSlots : b.vvtried[x] = Renamed(D, a.vvtried[x])

\* What a renamed state is made of.
LEMMA RenamesFact ==
  ASSUME NEW a, NEW dn, NEW dt, NEW L, Sound(a, dn, dt, L), NEW b, Renames(a, b)
  PROVE  SameEntries(a, b, DOMAIN a.info, Cardinality(DOMAIN a.info))
<1> DEFINE D == DOMAIN a.info
           N == Cardinality(D)
<1>1. /\ a \in State /\ IsFiniteSet(D)
      /\ Agree(a.info, a.vrandom, a.mapaddr, a.vvnew, a.vvtried, a.nnew, a.ntried, dn, dt, L)
  BY SoundFact DEF Agree, CountsOk
<1>2. /\ D \in SUBSET Ids /\ a.info \in [D -> Entry] /\ a.mapaddr \in [Nets -> Nat]
      /\ a.vrandom \in Seq(Nat) /\ a.vvnew \in [NewSlots -> Nat] /\ a.vvtried \in [TriedSlots -> Nat]
  BY <1>1, StateFact
<1>3. /\ N \in Nat
      /\ \A x \in D : Renamed(D, x) \in 1 .. N /\ Nth(D, Renamed(D, x)) = x
      /\ \A n \in 1 .. N : Nth(D, n) \in D
      /\ Renamed(D, 0) = 0
  BY <1>1, <1>2, RenamedFact
<1>4. \A x : (x = 0 \/ x \in D) => Renamed(D, x) \in Nat
  <2> HIDE DEF D, N
  <2> QED
    BY <1>3
<1>5. /\ \A x \in Nets : a.mapaddr[x] = 0 \/ a.mapaddr[x] \in D
      /\ \A x \in NewSlots : a.vvnew[x] = 0 \/ a.vvnew[x] \in D
      /\ \A x \in TriedSlots : a.vvtried[x] = 0 \/ a.vvtried[x] \in D
      /\ \A i \in 1 .. Len(a.vrandom) : a.vrandom[i] \in D
  BY <1>1 DEF Agree, IndexOk, NewTableOk, TriedTableOk, VectorOk
<1>6. /\ b.info = [n \in 1 .. N |-> a.info[Nth(D, n)]]
      /\ b.mapaddr = [x \in Nets |-> Renamed(D, a.mapaddr[x])]
      /\ b.vrandom = [i \in 1 .. Len(a.vrandom) |-> Renamed(D, a.vrandom[i])]
      /\ b.vvnew = [x \in NewSlots |-> Renamed(D, a.vvnew[x])]
      /\ b.vvtried = [x \in TriedSlots |-> Renamed(D, a.vvtried[x])]
  BY DEF Renames
<1> HIDE DEF D, N
<1>7. b.info \in [1 .. N -> Entry] /\ \A n \in 1 .. N : b.info[n] = a.info[Nth(D, n)]
  BY <1>2, <1>3, <1>6
<1>8. \A x \in D : b.info[Renamed(D, x)] = a.info[x]
  BY <1>3, <1>7
<1>9. b.mapaddr \in [Nets -> Nat] /\ \A x \in Nets : b.mapaddr[x] = Renamed(D, a.mapaddr[x])
  BY <1>4, <1>5, <1>6
<1>10. b.vvnew \in [NewSlots -> Nat] /\ \A x \in NewSlots : b.vvnew[x] = Renamed(D, a.vvnew[x])
  BY <1>4, <1>5, <1>6
<1>11. b.vvtried \in [TriedSlots -> Nat] /\ \A x \in TriedSlots : b.vvtried[x] = Renamed(D, a.vvtried[x])
  BY <1>4, <1>5, <1>6
<1>12. /\ b.vrandom \in Seq(Nat) /\ Len(b.vrandom) = Len(a.vrandom)
       /\ \A i \in 1 .. Len(a.vrandom) : b.vrandom[i] = Renamed(D, a.vrandom[i])
  <2> DEFINE l == Len(a.vrandom)
  <2>1. l \in Nat
    BY <1>2
  <2>2. b.vrandom = [i \in 1 .. l |-> Renamed(D, a.vrandom[i])] /\ \A i \in 1 .. l : a.vrandom[i] \in D
    BY <1>5, <1>6
  <2> HIDE DEF l
  <2>3. b.vrandom \in [1 .. l -> Nat] /\ \A i \in 1 .. l : b.vrandom[i] = Renamed(D, a.vrandom[i])
    BY <1>4, <2>2
  <2>4. b.vrandom \in Seq(Nat) /\ Len(b.vrandom) = l
    BY <2>1, <2>3
  <2>5. QED
    BY <2>3, <2>4 DEF l
<1>13. QED
  BY <1>7, <1>8, <1>9, <1>10, <1>11, <1>12 DEF D, N, SameEntries

\* Renaming keeps the number of the entries that satisfy a condition.
LEMMA RenamedCount ==
  ASSUME NEW D \in SUBSET Ids, IsFiniteSet(D), NEW N, N = Cardinality(D), NEW S \in SUBSET D,
         NEW T \in SUBSET (1 .. N), \A x \in D : x \in S <=> Renamed(D, x) \in T
  PROVE  Cardinality(T) = Cardinality(S)
<1> DEFINE f == [x \in S |-> Renamed(D, x)]
<1>1. /\ N \in Nat
      /\ \A x \in D : Renamed(D, x) \in 1 .. N /\ Nth(D, Renamed(D, x)) = x
      /\ \A n \in 1 .. N : Nth(D, n) \in D /\ Renamed(D, Nth(D, n)) = n
  BY RenamedFact
<1>2. f \in [S -> T]
  OBVIOUS
<1>3. \A x, y \in S : f[x] = f[y] => x = y
  BY <1>1
<1>4. \A n \in T : \E x \in S : f[x] = n
  <2> SUFFICES ASSUME NEW n \in T PROVE \E x \in S : f[x] = n
    OBVIOUS
  <2>1. Nth(D, n) \in D /\ Renamed(D, Nth(D, n)) = n
    BY <1>1
  <2>2. Nth(D, n) \in S
    BY <2>1
  <2>3. f[Nth(D, n)] = n
    BY <2>1, <2>2
  <2>4. QED
    BY <2>2, <2>3
<1> HIDE DEF f
<1>5. f \in Bijection(S, T)
  <2>1. f \in Injection(S, T)
    BY <1>2, <1>3, Fun_IsInj
  <2>2. f \in Surjection(S, T)
    BY <1>2, <1>4, Fun_IsSurj
  <2>3. QED
    BY <2>1, <2>2 DEF Bijection
<1>6. ExistsBijection(S, T)
  BY <1>5 DEF ExistsBijection
<1>7. IsFiniteSet(S)
  BY FS_Subset
<1>8. QED
  BY <1>6, <1>7, FS_Bijection

\* Renaming keeps the structures in agreement, and the tables are the same.
LEMMA RenamesSound ==
  ASSUME NEW a, Sound(a, 0, 0, {}), NEW b, Renames(a, b)
  PROVE  /\ Sound(b, 0, 0, {}) /\ Dense(b)
         /\ InTried(b) = InTried(a) /\ NewTable(b) = NewTable(a)
<1> DEFINE D == DOMAIN a.info
           N == Cardinality(D)
           r(x) == Renamed(D, x)
<1>1. /\ a \in State /\ a.ok = TRUE /\ IsFiniteSet(D)
      /\ Agree(a.info, a.vrandom, a.mapaddr, a.vvnew, a.vvtried, a.nnew, a.ntried, 0, 0, {})
  BY SoundFact DEF Agree, CountsOk
<1>2. /\ D \in SUBSET Ids /\ a.info \in [D -> Entry] /\ a.vvnew \in [NewSlots -> Nat]
      /\ a.vvtried \in [TriedSlots -> Nat] /\ a.mapaddr \in [Nets -> Nat]
  BY <1>1, StateFact
<1>3. /\ N \in Nat
      /\ \A x \in D : r(x) \in 1 .. N /\ r(x) # 0 /\ Nth(D, r(x)) = x
      /\ \A n \in 1 .. N : Nth(D, n) \in D /\ r(Nth(D, n)) = n
      /\ r(0) = 0
  BY <1>1, <1>2, RenamedFact
<1>4. SameEntries(a, b, D, N)
  BY RenamesFact
<1>5. /\ VectorOk(a.info, a.vrandom) /\ IndexOk(a.info, a.mapaddr) /\ NewTableOk(a.info, a.vvnew)
      /\ TriedTableOk(a.info, a.vvtried) /\ CountsOk(a.info, a.nnew, a.ntried, 0, 0)
      /\ HeldOk(a.info, {})
  BY <1>1 DEF Agree
<1>6. DOMAIN a.info = D
  OBVIOUS
<1> HIDE DEF D, N, r
<1>7. /\ DOMAIN b.info = 1 .. N
      /\ \A n \in 1 .. N : b.info[n] = a.info[Nth(D, n)]
      /\ \A x \in D : b.info[r(x)] = a.info[x]
      /\ \A x \in Nets : b.mapaddr[x] = r(a.mapaddr[x])
      /\ \A x \in NewSlots : b.vvnew[x] = r(a.vvnew[x])
      /\ \A x \in TriedSlots : b.vvtried[x] = r(a.vvtried[x])
  BY <1>4 DEF SameEntries, r
<1>8. Len(b.vrandom) = Len(a.vrandom) /\ \A i \in 1 .. Len(a.vrandom) : b.vrandom[i] = r(a.vrandom[i])
  BY <1>4 DEF SameEntries, r
<1>9. \A x, y \in D : r(x) = r(y) => x = y
  BY <1>3
<1>10. VectorOk(b.info, b.vrandom)
  <2>1. ASSUME NEW n \in 1 .. N
        PROVE  b.info[n].pos \in 1 .. Len(b.vrandom) /\ b.vrandom[b.info[n].pos] = n
    <3> DEFINE x == Nth(D, n)
               p == a.info[x].pos
    <3>1. x \in D /\ r(x) = n /\ b.info[n] = a.info[x]
      BY <1>3, <1>7
    <3> HIDE DEF x
    <3>2. p \in 1 .. Len(a.vrandom) /\ a.vrandom[p] = x
      BY <1>5, <1>6, <3>1 DEF VectorOk
    <3>3. b.info[n].pos = p
      BY <3>1
    <3> HIDE DEF p
    <3>4. QED
      BY <1>8, <3>1, <3>2, <3>3
  <2>2. ASSUME NEW i \in 1 .. Len(b.vrandom) PROVE b.vrandom[i] \in 1 .. N /\ b.info[b.vrandom[i]].pos = i
    <3> DEFINE x == a.vrandom[i]
    <3>1. x \in D /\ a.info[x].pos = i /\ b.vrandom[i] = r(x)
      BY <1>5, <1>6, <1>8 DEF VectorOk
    <3> HIDE DEF x
    <3>2. QED
      BY <1>3, <1>7, <3>1
  <2>3. QED
    BY <1>7, <2>1, <2>2 DEF VectorOk
<1>11. IndexOk(b.info, b.mapaddr)
  <2>1. ASSUME NEW n \in 1 .. N PROVE b.mapaddr[NetAddr[b.info[n].svc]] = n
    <3> DEFINE x == Nth(D, n)
               net == NetAddr[a.info[x].svc]
    <3>1. x \in D /\ r(x) = n /\ b.info[n] = a.info[x]
      BY <1>3, <1>7
    <3> HIDE DEF x
    <3>2. a.info[x].svc \in CService
      BY <1>2, <3>1 DEF Entry
    <3>3. net \in Nets /\ a.mapaddr[net] = x
      BY <1>5, <1>6, <3>1, <3>2, PlaceFact DEF IndexOk
    <3>4. NetAddr[b.info[n].svc] = net
      BY <3>1
    <3> HIDE DEF net
    <3>5. QED
      BY <1>7, <3>1, <3>3, <3>4
  <2>2. ASSUME NEW net \in Nets, b.mapaddr[net] # 0
        PROVE  b.mapaddr[net] \in 1 .. N /\ NetAddr[b.info[b.mapaddr[net]].svc] = net
    <3> DEFINE x == a.mapaddr[net]
    <3>1. b.mapaddr[net] = r(x)
      BY <1>7
    <3>2. x # 0
      BY <1>3, <2>2, <3>1
    <3>3. x \in D /\ NetAddr[a.info[x].svc] = net
      BY <1>5, <1>6, <3>2 DEF IndexOk
    <3> HIDE DEF x
    <3>4. QED
      BY <1>3, <1>7, <3>1, <3>3
  <2>3. QED
    BY <1>7, <2>1, <2>2 DEF IndexOk
<1>12. NewTableOk(b.info, b.vvnew)
  <2>1. ASSUME NEW slot \in NewSlots, b.vvnew[slot] # 0
        PROVE  b.vvnew[slot] \in 1 .. N /\ slot = NewSlot(b.info[b.vvnew[slot]].svc, slot[1])
    <3> DEFINE x == a.vvnew[slot]
    <3>1. b.vvnew[slot] = r(x)
      BY <1>7
    <3>2. x # 0
      BY <1>3, <2>1, <3>1
    <3>3. x \in D /\ slot = NewSlot(a.info[x].svc, slot[1])
      BY <1>5, <1>6, <3>2 DEF NewTableOk
    <3> HIDE DEF x
    <3>4. QED
      BY <1>3, <1>7, <3>1, <3>3
  <2>2. ASSUME NEW n \in 1 .. N
        PROVE  /\ b.info[n].nrefcount = Cardinality(Slots(b.vvnew, n))
               /\ b.info[n].nrefcount <= BucketsPerAddress
               /\ b.info[n].fintried => b.info[n].nrefcount = 0
    <3> DEFINE x == Nth(D, n)
    <3>1. x \in D /\ r(x) = n /\ b.info[n] = a.info[x]
      BY <1>3, <1>7
    <3> HIDE DEF x
    <3>2. ASSUME NEW slot \in NewSlots PROVE b.vvnew[slot] = n <=> a.vvnew[slot] = x
      <4>1. a.vvnew[slot] = 0 \/ a.vvnew[slot] \in D
        BY <1>5, <1>6 DEF NewTableOk
      <4>2. b.vvnew[slot] = r(a.vvnew[slot]) /\ n # 0
        BY <1>7
      <4>3. QED
        BY <1>3, <1>9, <3>1, <4>1, <4>2
    <3>3. DOMAIN b.vvnew = NewSlots /\ DOMAIN a.vvnew = NewSlots
      BY <1>2, <1>4 DEF SameEntries
    <3>4. Slots(b.vvnew, n) = Slots(a.vvnew, x)
      BY <3>2, <3>3 DEF Slots
    <3>5. QED
      BY <1>5, <1>6, <3>1, <3>4 DEF NewTableOk
  <2>3. QED
    BY <1>7, <2>1, <2>2 DEF NewTableOk
<1>13. TriedTableOk(b.info, b.vvtried)
  <2>1. ASSUME NEW slot \in TriedSlots, b.vvtried[slot] # 0
        PROVE  /\ b.vvtried[slot] \in 1 .. N /\ b.info[b.vvtried[slot]].fintried
               /\ slot = TriedSlot(b.info[b.vvtried[slot]].svc)
    <3> DEFINE x == a.vvtried[slot]
    <3>1. b.vvtried[slot] = r(x)
      BY <1>7
    <3>2. x # 0
      BY <1>3, <2>1, <3>1
    <3>3. x \in D /\ a.info[x].fintried /\ slot = TriedSlot(a.info[x].svc)
      BY <1>5, <1>6, <3>2 DEF TriedTableOk
    <3> HIDE DEF x
    <3>4. QED
      BY <1>3, <1>7, <3>1, <3>3
  <2>2. ASSUME NEW n \in 1 .. N, b.info[n].fintried PROVE b.vvtried[TriedSlot(b.info[n].svc)] = n
    <3> DEFINE x == Nth(D, n)
    <3>1. x \in D /\ r(x) = n /\ b.info[n] = a.info[x]
      BY <1>3, <1>7
    <3> HIDE DEF x
    <3>2. a.info[x].svc \in CService
      BY <1>2, <3>1 DEF Entry
    <3>3. TriedSlot(a.info[x].svc) \in TriedSlots /\ a.vvtried[TriedSlot(a.info[x].svc)] = x
      BY <1>5, <1>6, <2>2, <3>1, <3>2, PlaceFact DEF TriedTableOk
    <3>4. QED
      BY <1>7, <3>1, <3>3
  <2>3. QED
    BY <1>7, <2>1, <2>2 DEF TriedTableOk
<1>14. /\ IsFiniteSet(1 .. N) /\ Cardinality(1 .. N) = N
  BY <1>3, FS_Interval
<1>15. CountsOk(b.info, b.nnew, b.ntried, 0, 0)
  <2>1. N = Cardinality(D) /\ IsFiniteSet(D)
    BY <1>1 DEF N
  <2>2. Cardinality(NewIds(b.info)) = Cardinality(NewIds(a.info))
    <3>1. NewIds(a.info) \in SUBSET D /\ NewIds(b.info) \in SUBSET (1 .. N)
      BY <1>6, <1>7 DEF NewIds
    <3>2. \A x \in D : x \in NewIds(a.info) <=> Renamed(D, x) \in NewIds(b.info)
      BY <1>3, <1>6, <1>7 DEF NewIds, r
    <3>3. QED
      BY <1>2, <2>1, <3>1, <3>2, RenamedCount
  <2>3. Cardinality(TriedIds(b.info)) = Cardinality(TriedIds(a.info))
    <3>1. TriedIds(a.info) \in SUBSET D /\ TriedIds(b.info) \in SUBSET (1 .. N)
      BY <1>6, <1>7 DEF TriedIds
    <3>2. \A x \in D : x \in TriedIds(a.info) <=> Renamed(D, x) \in TriedIds(b.info)
      BY <1>3, <1>6, <1>7 DEF TriedIds, r
    <3>3. QED
      BY <1>2, <2>1, <3>1, <3>2, RenamedCount
  <2>4. b.nnew = a.nnew /\ b.ntried = a.ntried
    BY DEF Renames
  <2>5. QED
    BY <1>5, <1>7, <1>14, <2>2, <2>3, <2>4 DEF CountsOk
<1>16. HeldOk(b.info, {})
  <2> SUFFICES ASSUME NEW n \in 1 .. N PROVE b.info[n].fintried \/ b.info[n].nrefcount # 0
    BY <1>7 DEF HeldOk
  <2>1. Nth(D, n) \in D /\ b.info[n] = a.info[Nth(D, n)]
    BY <1>3, <1>7
  <2>2. QED
    BY <1>5, <1>6, <2>1 DEF HeldOk
<1>17. b \in State
  <2> DEFINE F == 1 .. N
  <2>1. F \in SUBSET Ids
    BY <1>3 DEF Ids
  <2>2. b.info \in [F -> Entry]
    BY <1>4 DEF SameEntries
  <2> HIDE DEF F
  <2>3. /\ b.mapaddr \in [Nets -> Nat] /\ b.vrandom \in Seq(Nat)
        /\ b.vvnew \in [NewSlots -> Nat] /\ b.vvtried \in [TriedSlots -> Nat]
    BY <1>4 DEF SameEntries
  <2>4. a.nnew \in Int /\ a.ntried \in Int /\ a.ok \in BOOLEAN
    BY <1>1, StateFact
  <2>5. b.nnew \in Int /\ b.ntried \in Int /\ b.ok \in BOOLEAN
    BY <2>4 DEF Renames
  <2>6. [info |-> b.info, mapaddr |-> b.mapaddr, vrandom |-> b.vrandom, vvnew |-> b.vvnew,
         vvtried |-> b.vvtried, nnew |-> b.nnew, ntried |-> b.ntried, ok |-> b.ok] \in State
    BY <2>1, <2>2, <2>3, <2>5, StateMake
  <2>7. QED
    BY <2>6 DEF Renames
<1>18. Sound(b, 0, 0, {})
  <2>1. b.ok
    BY <1>1 DEF Renames
  <2>2. QED
    BY <1>10, <1>11, <1>12, <1>13, <1>15, <1>16, <1>17, <2>1 DEF Sound, Agree
<1>19. Dense(b)
  BY <1>7, <1>14 DEF Dense
<1>20. InTried(b) = InTried(a)
  <2>1. ASSUME NEW s \in InTried(b) PROVE s \in InTried(a)
    <3>1. PICK n \in 1 .. N : b.info[n].fintried /\ s = b.info[n].svc
      BY <1>7 DEF InTried
    <3>2. Nth(D, n) \in D /\ b.info[n] = a.info[Nth(D, n)]
      BY <1>3, <1>7
    <3>3. QED
      BY <1>6, <3>1, <3>2 DEF InTried
  <2>2. ASSUME NEW s \in InTried(a) PROVE s \in InTried(b)
    <3>1. PICK x \in D : a.info[x].fintried /\ s = a.info[x].svc
      BY <1>6 DEF InTried
    <3>2. r(x) \in 1 .. N /\ b.info[r(x)] = a.info[x]
      BY <1>3, <1>7
    <3>3. QED
      BY <1>7, <3>1, <3>2 DEF InTried
  <2>3. QED
    BY <2>1, <2>2
<1>21. NewTable(b) = NewTable(a)
  <2>1. ASSUME NEW slot \in NewSlots
        PROVE  (IF b.vvnew[slot] = 0 THEN {} ELSE {b.info[b.vvnew[slot]].svc})
               = (IF a.vvnew[slot] = 0 THEN {} ELSE {a.info[a.vvnew[slot]].svc})
    <3>1. a.vvnew[slot] = 0 \/ a.vvnew[slot] \in D
      BY <1>5, <1>6 DEF NewTableOk
    <3>2. b.vvnew[slot] = r(a.vvnew[slot])
      BY <1>7
    <3>3. CASE a.vvnew[slot] = 0
      BY <1>3, <3>2, <3>3
    <3>4. CASE a.vvnew[slot] \in D
      <4>1. b.vvnew[slot] # 0 /\ b.info[b.vvnew[slot]] = a.info[a.vvnew[slot]] /\ a.vvnew[slot] # 0
        BY <1>2, <1>3, <1>7, <3>2, <3>4 DEF Ids
      <4>2. QED
        BY <4>1
    <3>5. QED
      BY <3>1, <3>3, <3>4
  <2>2. QED
    BY <2>1 DEF NewTable
<1>22. QED
  BY <1>18, <1>19, <1>20, <1>21

\* The ids are 1, 2, ... after an operation, and nothing else changes.
LEMMA CompactSound ==
  ASSUME NEW a, Sound(a, 0, 0, {})
  PROVE  LET b == Compact(a)
         IN  /\ Sound(b, 0, 0, {}) /\ Dense(b)
             /\ InTried(b) = InTried(a) /\ NewTable(b) = NewTable(a)
<1>1. Renames(a, Compact(a))
  BY CompactRenames
<1>2. QED
  BY <1>1, RenamesSound

\* State b is a in another random order.
Shuffled(a, b) ==
  /\ Sound(b, 0, 0, {})
  /\ DOMAIN b.info = DOMAIN a.info /\ Keeps(a, b, DOMAIN a.info)
  /\ b.vvnew = a.vvnew /\ Len(b.vrandom) = Len(a.vrandom)

\* One more swap.
LEMMA SwapShuffled ==
  ASSUME NEW a, NEW b, Shuffled(a, b), NEW i \in 1 .. Len(a.vrandom), NEW j \in 1 .. Len(a.vrandom)
  PROVE  Shuffled(a, SwapRandom(b, i, j))
<1> DEFINE c == SwapRandom(b, i, j)
           Z == {}
           z == 0
<1>1. Sound(b, z, z, Z) /\ z \in Int /\ i \in 1 .. Len(b.vrandom) /\ j \in 1 .. Len(b.vrandom)
  BY DEF Shuffled
<1> HIDE DEF Z, z
<1>2. Sound(c, z, z, Z)
  BY <1>1, SwapSound
<1>3. DOMAIN c.info = DOMAIN b.info
  BY <1>1, SwapSound
<1>4. Keeps(b, c, DOMAIN b.info)
  BY <1>1, SwapSound
<1>5. c.vvnew = b.vvnew /\ Len(c.vrandom) = Len(b.vrandom)
  BY <1>1, SwapSound
<1> HIDE DEF c
<1>6. Keeps(a, c, DOMAIN a.info)
  BY <1>3, <1>4 DEF Keeps, Shuffled
<1>7. QED
  BY <1>2, <1>3, <1>5, <1>6 DEF Shuffled, Z, z, c

\* getaddr_().
LEMMA GetAddrSound ==
  ASSUME NEW a, Sound(a, 0, 0, {}), NEW n \in Nat, n <= Len(a.vrandom),
         NEW rnd \in [1 .. n -> 1 .. Len(a.vrandom)]
  PROVE  Shuffled(a, GetAddr(a, rnd))
<1> DEFINE l == Len(a.vrandom)
           R == [k \in 0 .. n |-> {b \in State : Shuffled(a, b)}]
           G == [k \in 1 .. n |-> [b \in R[k - 1] |-> SwapRandom(b, k, rnd[k])]]
           Def(f) == [k \in 0 .. Len(rnd) |-> IF k = 0 THEN a ELSE SwapRandom(f[k - 1], k, rnd[k])]
<1>1. Len(rnd) = n
  OBVIOUS
<1>2. l \in Nat
  <2>1. a.vrandom \in Seq(Nat)
    BY StateFact DEF Sound
  <2>2. QED
    BY <2>1
<1>3. a \in R[0]
  <2>1. Shuffled(a, a) /\ a \in State
    BY DEF Shuffled, Keeps, Sound
  <2>2. QED
    BY <2>1
<1>4. ASSUME NEW k \in 1 .. n PROVE G[k] \in [R[k - 1] -> R[k]]
  <2>1. k - 1 \in 0 .. n /\ k \in 0 .. n /\ k \in 1 .. l /\ rnd[k] \in 1 .. l
    BY <1>2
  <2>2. ASSUME NEW b \in R[k - 1] PROVE SwapRandom(b, k, rnd[k]) \in R[k]
    <3>1. Shuffled(a, b)
      BY <2>1
    <3>2. Shuffled(a, SwapRandom(b, k, rnd[k]))
      BY <2>1, <3>1, SwapShuffled
    <3>3. SwapRandom(b, k, rnd[k]) \in State
      BY <3>2 DEF Shuffled, Sound
    <3>4. QED
      BY <2>1, <3>2, <3>3
  <2>3. G[k] = [b \in R[k - 1] |-> SwapRandom(b, k, rnd[k])]
    OBVIOUS
  <2> HIDE DEF R, G
  <2>4. QED
    BY <2>2, <2>3
<1> HIDE DEF R
<1>5. ASSUME NEW k \in 1 .. n, NEW b \in R[k - 1] PROVE G[k][b] = SwapRandom(b, k, rnd[k])
  OBVIOUS
<1> HIDE DEF G
<1>6. PICK g : Passes(g, n, a, R, G)
  BY <1>3, <1>4, LoopRuns
<1>7. g = Def(g)
  <2>1. ASSUME NEW k \in 0 .. n
        PROVE  g[k] = IF k = 0 THEN a ELSE SwapRandom(g[k - 1], k, rnd[k])
    <3>1. CASE k = 0
      BY <1>6, <3>1 DEF Passes
    <3>2. CASE k # 0
      <4>1. k \in 1 .. n /\ k - 1 \in 0 .. n
        BY <3>2
      <4>2. QED
        BY <1>5, <1>6, <3>2, <4>1 DEF Passes
    <3>3. QED
      BY <3>1, <3>2
  <2>2. g = [k \in 0 .. n |-> g[k]]
    BY <1>6 DEF Passes
  <2>3. QED
    BY <1>1, <2>1, <2>2
<1>8. PICK f : f = Def(f) /\ GetAddr(a, rnd) = f[Len(rnd)]
  BY <1>7 DEF GetAddr
<1>9. f[n] \in R[n]
  <2>1. f[0] = a /\ \A k \in 1 .. n : f[k] = SwapRandom(f[k - 1], k, rnd[k])
    BY <1>1, <1>8
  <2>2. \A k \in 1 .. n : f[k - 1] \in R[k - 1] => f[k] = G[k][f[k - 1]]
    BY <1>5, <2>1
  <2>3. QED
    <3>1. Follows(f, n, R, G)
      BY <1>3, <2>1, <2>2 DEF Follows
    <3>2. QED
      BY <1>4, <3>1, LoopKeeps
<1>10. QED
  BY <1>1, <1>8, <1>9 DEF R

\* What a file has of an entry, and of p new entries E and q tried entries F: no two of
\* them have the same network address, and no two tried ones the same place.
Saved == [svc : CService, src : Source]
FileOk(E, p, F, q) ==
  /\ p \in Nat /\ q \in Nat /\ E \in [1 .. p -> Saved] /\ F \in [1 .. q -> Saved]
  /\ \A i, j \in 1 .. p : NetAddr[E[i].svc] = NetAddr[E[j].svc] => i = j
  /\ \A i, j \in 1 .. q : NetAddr[F[i].svc] = NetAddr[F[j].svc] => i = j
  /\ \A i \in 1 .. p, j \in 1 .. q : NetAddr[E[i].svc] # NetAddr[F[j].svc]
  /\ \A i, j \in 1 .. q : TriedSlot(F[i].svc) = TriedSlot(F[j].svc) => i = j

\* The entries of info are the first k of E and then the first j of F.
Entered(info, E, k, F, j) ==
  /\ DOMAIN info = 1 .. k + j
  /\ \A i \in 1 .. k : info[i].svc = E[i].svc /\ ~info[i].fintried
  /\ \A i \in 1 .. j : info[k + i].svc = F[i].svc /\ info[k + i].fintried

\* State b has read k new and j tried entries.  The counters of the file run ahead.
Loaded(b, E, p, F, q, k, j, usable) ==
  /\ Sound(b, p - k, q - j, 1 .. p)
  /\ Entered(b.info, E, k, F, j)
  /\ Len(b.vrandom) = k + j /\ b.nnew = p
  /\ usable => \A slot \in NewSlots : b.vvnew[slot] = 0

\* An address that no entry has is not in the index.
LEMMA NotIndexed ==
  ASSUME NEW b, NEW dn, NEW dt, NEW L, Sound(b, dn, dt, L), NEW s \in CService,
         \A x \in DOMAIN b.info : NetAddr[b.info[x].svc] # NetAddr[s]
  PROVE  b.mapaddr[NetAddr[s]] = 0
<1>1. IndexOk(b.info, b.mapaddr) /\ NetAddr[s] \in Nets
  BY SoundFact, PlaceFact DEF Agree
<1>2. QED
  BY <1>1 DEF IndexOk

\* One more entry after n of them.
LEMMA EnterOne ==
  ASSUME NEW b, NEW n \in Nat, NEW dn \in Int, NEW dt \in Int, NEW L, Sound(b, dn, dt, L),
         DOMAIN b.info = 1 .. n, Len(b.vrandom) = n, NEW s \in CService, NEW src \in Source,
         \A x \in 1 .. n : NetAddr[b.info[x].svc] # NetAddr[s]
  PROVE  LET c == Create(b, Len(b.vrandom) + 1, s, src)
         IN  Sound(c, dn - 1, dt, L \cup {n + 1}) /\ Made(b, c, n + 1, s, src)
<1> DEFINE id == Len(b.vrandom) + 1
           c == Create(b, id, s, src)
<1>1. id = n + 1
  OBVIOUS
<1>2. id \in Ids /\ id \notin DOMAIN b.info
  BY <1>1 DEF Ids
<1>3. b.mapaddr[NetAddr[s]] = 0
  BY NotIndexed
<1>4. b \in State
  BY SoundFact
<1> HIDE DEF id
<1>5. Sound(c, dn - 1, dt, L \cup {id})
  BY <1>2, <1>3, CreateSound
<1>6. Made(b, c, id, s, src)
  BY <1>2, <1>4, CreateFact
<1>7. QED
  BY <1>1, <1>5, <1>6 DEF id

\* The loop over the new entries of the file.
LEMMA LoadNewStep ==
  ASSUME NEW E, NEW p, NEW F, NEW q, FileOk(E, p, F, q), NEW usable, NEW k \in 1 .. p,
         NEW b, Loaded(b, E, p, F, q, k - 1, 0, usable)
  PROVE  Loaded(LoadNew(b, E[k], usable), E, p, F, q, k, 0, usable)
<1> DEFINE s == E[k].svc
           src == E[k].src
           slot == NewSlot(s, GetNewBucket[s, src])
           c == Create(b, Len(b.vrandom) + 1, s, src)
           d == LoadNew(b, E[k], usable)
           L == 1 .. p
           dn == p - (k - 1)
           dt == q - 0
           n == k - 1
<1>1. p \in Nat /\ q \in Nat /\ E[k] \in Saved /\ dn \in Int /\ dt \in Int /\ n \in Nat /\ n + 1 = k
  BY DEF FileOk
<1>2. s \in CService /\ src \in Source
  BY <1>1 DEF Saved
<1>3. Sound(b, dn, dt, L) /\ Entered(b.info, E, k - 1, F, 0) /\ Len(b.vrandom) = n /\ b.nnew = p
  BY DEF Loaded
<1>4. DOMAIN b.info = 1 .. n /\ \A i \in 1 .. n : b.info[i].svc = E[i].svc /\ ~b.info[i].fintried
  BY <1>3 DEF Entered
<1>5. ASSUME NEW x \in 1 .. n PROVE NetAddr[b.info[x].svc] # NetAddr[s]
  <2>1. x \in 1 .. p /\ x # k
    BY <1>1
  <2>2. QED
    BY <1>4, <2>1 DEF FileOk
<1>6. slot \in NewSlots /\ slot = NewSlot(s, slot[1])
  <2>1. GetNewBucket[s, src] \in NewBuckets
    BY <1>2, PlaceFact
  <2>2. NewSlot(s, GetNewBucket[s, src]) \in NewSlots /\ NewSlot(s, GetNewBucket[s, src])[1] = GetNewBucket[s, src]
    BY <1>2, <2>1, PlaceFact
  <2>3. QED
    BY <2>2
<1>7. d = IF ~usable /\ b.vvnew[slot] = 0 THEN Refer(c, Len(b.vrandom) + 1, slot) ELSE c
  BY DEF LoadNew
<1>8. k \in L /\ k \in 1 .. n + 1
  BY <1>1
<1> HIDE DEF s, src, slot, L, dn, dt, n, d
<1>9. Sound(c, dn - 1, dt, L \cup {n + 1}) /\ Made(b, c, n + 1, s, src)
  BY <1>1, <1>2, <1>3, <1>4, <1>5, EnterOne
<1>10. L \cup {n + 1} = L
  BY <1>1, <1>8
<1>11. Sound(c, dn - 1, dt, L) /\ Made(b, c, k, s, src)
  BY <1>1, <1>9, <1>10
<1> HIDE DEF c
<1>12. dn - 1 = p - k /\ dt = q - 0 /\ dn - 1 \in Int
  BY <1>1 DEF dn, dt
<1>13. DOMAIN c.info = 1 .. k /\ \A i \in 1 .. k : c.info[i].svc = E[i].svc /\ ~c.info[i].fintried
  <2>1. 1 .. k = 1 .. n \cup {k} /\ \A i \in 1 .. k : i \in 1 .. n \/ i = k
    BY <1>1
  <2>2. DOMAIN c.info = 1 .. k
    BY <1>4, <1>11, <2>1 DEF Made
  <2>3. ASSUME NEW i \in 1 .. k PROVE c.info[i].svc = E[i].svc /\ ~c.info[i].fintried
    BY <1>4, <1>11, <2>1 DEF Made, Keeps, s
  <2>4. QED
    BY <2>2, <2>3
<1>14. Len(c.vrandom) = k + 0 /\ c.nnew = p /\ c.vvnew = b.vvnew /\ c.info[k].nrefcount = 0
  BY <1>1, <1>3, <1>11 DEF Made
<1>15. CASE ~(~usable /\ b.vvnew[slot] = 0)
  <2>1. d = c
    BY <1>7, <1>15
  <2>2. Entered(c.info, E, k, F, 0)
    <3>1. 1 .. k + 0 = 1 .. k /\ 1 .. 0 = {}
      BY <1>1
    <3>2. QED
      BY <1>13, <3>1 DEF Entered
  <2>3. usable => \A x \in NewSlots : c.vvnew[x] = 0
    BY <1>14 DEF Loaded
  <2>4. QED
    BY <1>11, <1>12, <1>14, <2>1, <2>2, <2>3 DEF Loaded, L, d
<1>16. CASE ~usable /\ b.vvnew[slot] = 0
  <2>1. d = Refer(c, k, slot)
    BY <1>1, <1>3, <1>7, <1>16
  <2>2. /\ k \in DOMAIN c.info /\ ~c.info[k].fintried /\ c.info[k].nrefcount < BucketsPerAddress
        /\ c.vvnew[slot] = 0 /\ slot = NewSlot(c.info[k].svc, slot[1])
    <3>1. 0 < BucketsPerAddress
      BY AddrManAssumption
    <3>2. c.info[k].svc = s
      BY <1>11 DEF Made
    <3>3. QED
      BY <1>6, <1>1, <1>13, <1>14, <1>16, <1>8, <3>1, <3>2
  <2>3. Sound(d, dn - 1, dt, L \ {k})
    BY <1>1, <1>6, <1>11, <1>12, <2>1, <2>2, ReferSound
  <2>4. Sound(d, dn - 1, dt, L)
    <3>1. HeldOk(d.info, L \ {k})
      BY <2>3 DEF Sound, Agree
    <3>2. HeldOk(d.info, L)
      BY <3>1 DEF HeldOk
    <3>3. QED
      BY <2>3, <3>2, Excused
  <2>5. c \in State
    BY <1>11 DEF Sound
  <2>6. DOMAIN d.info = DOMAIN c.info /\ SameButCount(c.info, d.info)
    BY <1>6, <2>1, <2>2, <2>5, ReferFact
  <2>7. d.vrandom = c.vrandom /\ d.nnew = c.nnew
    BY <1>6, <2>1, <2>2, <2>5, ReferFact
  <2>8. Entered(d.info, E, k, F, 0)
    <3>1. 1 .. k + 0 = 1 .. k /\ 1 .. 0 = {}
      BY <1>1
    <3>2. QED
      BY <1>13, <2>6, <3>1 DEF Entered, SameButCount
  <2>9. QED
    BY <1>12, <1>14, <1>16, <2>4, <2>7, <2>8 DEF Loaded, L, d
<1>17. QED
  BY <1>15, <1>16

\* State b is a with an entry in its tried place, which the counter of the file has counted.
PutUncounted(a, b, id) ==
  /\ b.info = Retried(a.info, id, TRUE)
  /\ b.vvtried = Put(a.vvtried, TriedSlot(a.info[id].svc), id) /\ b.ntried = a.ntried
  /\ b.vrandom = a.vrandom /\ b.mapaddr = a.mapaddr /\ b.vvnew = a.vvnew /\ b.nnew = a.nnew
  /\ b.ok = a.ok /\ b \in State

\* Then it is one less to come.
LEMMA PutUncountedSound ==
  ASSUME NEW a, NEW dn \in Int, NEW dt \in Int, NEW L, Sound(a, dn, dt, L), NEW id \in DOMAIN a.info,
         ~a.info[id].fintried, a.info[id].nrefcount = 0, a.vvtried[TriedSlot(a.info[id].svc)] = 0,
         NEW b, PutUncounted(a, b, id)
  PROVE  Sound(b, dn + 1, dt - 1, L \ {id})
<1> DEFINE D == DOMAIN a.info
           e == Retried(a.info, id, TRUE)
           u == Put(a.vvtried, TriedSlot(a.info[id].svc), id)
<1>1. /\ a \in State /\ a.ok = TRUE
      /\ Agree(a.info, a.vrandom, a.mapaddr, a.vvnew, a.vvtried, a.nnew, a.ntried, dn, dt, L)
  BY SoundFact
<1>2. /\ D \in SUBSET Ids /\ a.info \in [D -> Entry] /\ a.mapaddr \in [Nets -> Nat]
      /\ a.vvnew \in [NewSlots -> Nat] /\ a.vvtried \in [TriedSlots -> Nat]
      /\ a.nnew \in Int /\ a.ntried \in Int
  BY <1>1, StateFact
<1>3. id \in D
  OBVIOUS
<1> HIDE DEF D
<1>4. Agree(e, a.vrandom, a.mapaddr, a.vvnew, u, a.nnew, a.ntried, dn + 1, dt - 1, L \ {id})
  BY <1>1, <1>2, <1>3, EnterTried
<1> HIDE DEF e, u
<1>5. Agree(b.info, b.vrandom, b.mapaddr, b.vvnew, b.vvtried, b.nnew, b.ntried, dn + 1, dt - 1, L \ {id})
  BY <1>4 DEF PutUncounted, e, u
<1>6. QED
  BY <1>1, <1>5 DEF Sound, PutUncounted

\* The loop over the tried entries of the file: none of them is lost.
LEMMA LoadTriedStep ==
  ASSUME NEW E, NEW p, NEW F, NEW q, FileOk(E, p, F, q), NEW usable, NEW j \in 1 .. q,
         NEW b, Loaded(b, E, p, F, q, p, j - 1, usable)
  PROVE  Loaded(LoadTried(b, F[j]), E, p, F, q, p, j, usable)
<1> DEFINE s == F[j].svc
           src == F[j].src
           ts == TriedSlot(s)
           c == Create(b, Len(b.vrandom) + 1, s, src)
           d == LoadTried(b, F[j])
           L == 1 .. p
           dn == p - p
           dt == q - (j - 1)
           n == p + (j - 1)
           id == p + j
<1>1. /\ p \in Nat /\ q \in Nat /\ F[j] \in Saved /\ dn \in Int /\ dt \in Int /\ n \in Nat /\ n + 1 = id
      /\ id \in Nat /\ j - 1 \in Nat
  BY DEF FileOk
<1>2. s \in CService /\ src \in Source /\ ts \in TriedSlots
  BY <1>1, PlaceFact DEF Saved
<1>3. Sound(b, dn, dt, L) /\ Entered(b.info, E, p, F, j - 1) /\ Len(b.vrandom) = n /\ b.nnew = p
  BY DEF Loaded
<1>4. /\ DOMAIN b.info = 1 .. n
      /\ \A i \in 1 .. p : b.info[i].svc = E[i].svc /\ ~b.info[i].fintried
      /\ \A i \in 1 .. j - 1 : b.info[p + i].svc = F[i].svc /\ b.info[p + i].fintried
  BY <1>3 DEF Entered
<1>5. \A x \in 1 .. n : x \in 1 .. p \/ (x - p \in 1 .. j - 1 /\ x = p + (x - p))
  BY <1>1
<1>6. ASSUME NEW x \in 1 .. n PROVE NetAddr[b.info[x].svc] # NetAddr[s]
  <2>1. CASE x \in 1 .. p
    <3>1. b.info[x].svc = E[x].svc
      BY <1>4, <2>1
    <3>2. QED
      BY <2>1, <3>1 DEF FileOk
  <2>2. CASE x - p \in 1 .. j - 1 /\ x = p + (x - p)
    <3> DEFINE i == x - p
    <3>1. b.info[x].svc = F[i].svc
      BY <1>4, <2>2
    <3>2. i \in 1 .. q /\ i # j
      BY <1>1, <2>2
    <3> HIDE DEF i
    <3>3. QED
      BY <3>1, <3>2 DEF FileOk
  <2>3. QED
    BY <1>5, <2>1, <2>2
<1>7. b.vvtried[ts] = 0
  <2> SUFFICES ASSUME b.vvtried[ts] # 0 PROVE FALSE
    OBVIOUS
  <2> DEFINE x == b.vvtried[ts]
  <2>1. TriedTableOk(b.info, b.vvtried)
    BY <1>3, SoundFact DEF Agree
  <2>2. x \in 1 .. n /\ b.info[x].fintried /\ ts = TriedSlot(b.info[x].svc)
    BY <1>2, <1>4, <2>1 DEF TriedTableOk
  <2> HIDE DEF x
  <2>3. x \notin 1 .. p
    BY <1>4, <2>2
  <2>4. x - p \in 1 .. j - 1 /\ x = p + (x - p)
    BY <1>5, <2>2, <2>3
  <2> DEFINE i == x - p
  <2>5. b.info[x].svc = F[i].svc
    BY <1>4, <2>4
  <2>6. i \in 1 .. q /\ i # j
    BY <1>1, <2>4
  <2> HIDE DEF i
  <2>7. QED
    BY <2>2, <2>5, <2>6 DEF FileOk
<1>8. d = [c EXCEPT !.info[Len(b.vrandom) + 1].fintried = TRUE, !.vvtried[ts] = Len(b.vrandom) + 1]
  BY <1>7 DEF LoadTried
<1>9. id \notin L /\ id # 0
  BY <1>1
<1> HIDE DEF s, src, ts, L, dn, dt, n, d, id
<1>10. Sound(c, dn - 1, dt, L \cup {n + 1}) /\ Made(b, c, n + 1, s, src)
  BY <1>1, <1>2, <1>3, <1>4, <1>6, EnterOne
<1>11. Sound(c, dn - 1, dt, L \cup {id}) /\ Made(b, c, id, s, src)
  BY <1>1, <1>10
<1> HIDE DEF c
<1>12. /\ id \in DOMAIN c.info /\ c.info[id].svc = s /\ c.info[id].nrefcount = 0 /\ ~c.info[id].fintried
       /\ c.vvtried = b.vvtried /\ c.vvnew = b.vvnew /\ c.nnew = p /\ Len(c.vrandom) = n + 1
       /\ DOMAIN c.info = 1 .. n \cup {id}
       /\ \A x \in 1 .. n : c.info[x].svc = b.info[x].svc /\ c.info[x].fintried = b.info[x].fintried
  BY <1>3, <1>4, <1>11 DEF Made, Keeps
<1>13. c \in State
  BY <1>11 DEF Sound
<1>14. PutUncounted(c, d, id)
  <2> DEFINE C == DOMAIN c.info
             e == Retried(c.info, id, TRUE)
             u == Put(c.vvtried, ts, id)
  <2>1. C \in SUBSET Ids /\ c.info \in [C -> Entry] /\ c.vvtried \in [TriedSlots -> Nat]
    BY <1>13, StateFact
  <2>2. e \in [C -> Entry]
    BY <1>12, <2>1, RetriedFact
  <2>3. e \in Infos
    BY <2>1, <2>2, InfosFact
  <2>4. u \in [TriedSlots -> Nat]
    BY <1>1, <2>1 DEF Put
  <2>5. d = [c EXCEPT !.info = e, !.vvtried = u]
    BY <1>1, <1>3, <1>8, <1>13 DEF State, Put, Retried
  <2> HIDE DEF e, u
  <2>6. d \in State
    BY <1>13, <2>3, <2>4, <2>5 DEF State
  <2>7. /\ d.info = e /\ d.vvtried = u /\ d.ntried = c.ntried /\ d.vrandom = c.vrandom
        /\ d.mapaddr = c.mapaddr /\ d.vvnew = c.vvnew /\ d.nnew = c.nnew /\ d.ok = c.ok
    BY <1>13, <2>5 DEF State
  <2>8. QED
    BY <1>12, <2>6, <2>7 DEF PutUncounted, e, u, ts
<1>15. Sound(d, (dn - 1) + 1, dt - 1, (L \cup {id}) \ {id})
  <2> DEFINE M == L \cup {id}
             m == dn - 1
  <2>1. Sound(c, m, dt, M) /\ m \in Int
    BY <1>1, <1>11
  <2>2. c.vvtried[TriedSlot(c.info[id].svc)] = 0
    BY <1>7, <1>12 DEF ts
  <2> HIDE DEF M, m
  <2>3. Sound(d, m + 1, dt - 1, M \ {id})
    BY <1>1, <1>12, <1>14, <2>1, <2>2, PutUncountedSound
  <2>4. QED
    BY <2>3 DEF M, m
<1>16. Sound(d, p - p, q - j, 1 .. p)
  <2>1. (L \cup {id}) \ {id} = L
    BY <1>9
  <2>2. (dn - 1) + 1 = p - p /\ dt - 1 = q - j
    BY <1>1 DEF dn, dt
  <2>3. QED
    BY <1>15, <2>1, <2>2 DEF L
<1>17. SameButTried(c.info, d.info, id, TRUE)
  <2>1. c.info \in [DOMAIN c.info -> Entry]
    BY <1>13, StateFact
  <2>2. d.info = Retried(c.info, id, TRUE) /\ TRUE \in BOOLEAN
    BY <1>14 DEF PutUncounted
  <2>3. SameButTried(c.info, Retried(c.info, id, TRUE), id, TRUE)
    BY <1>12, <2>1, <2>2, RetriedFact
  <2>4. QED
    BY <2>2, <2>3
<1>18. Entered(d.info, E, p, F, j)
  <2>1. /\ 1 .. p + j = 1 .. n \cup {id} /\ \A i \in 1 .. p : i \in 1 .. n /\ i # id
        /\ \A i \in 1 .. j - 1 : p + i \in 1 .. n /\ p + i # id
        /\ \A i \in 1 .. j : i \in 1 .. j - 1 \/ i = j
    BY <1>1 DEF n, id
  <2>2. DOMAIN d.info = 1 .. p + j
    BY <1>12, <1>17, <2>1 DEF SameButTried
  <2>3. \A x \in 1 .. n : x # id => d.info[x].svc = b.info[x].svc /\ d.info[x].fintried = b.info[x].fintried
    BY <1>12, <1>17 DEF SameButTried
  <2>4. ASSUME NEW i \in 1 .. p PROVE d.info[i].svc = E[i].svc /\ ~d.info[i].fintried
    BY <1>4, <2>1, <2>3
  <2>5. ASSUME NEW i \in 1 .. j PROVE d.info[p + i].svc = F[i].svc /\ d.info[p + i].fintried
    <3>1. CASE i = j
      <4>1. d.info[id].svc = s /\ d.info[id].fintried
        BY <1>12, <1>17 DEF SameButTried
      <4>2. QED
        BY <3>1, <4>1 DEF id, s
    <3>2. CASE i \in 1 .. j - 1
      BY <1>4, <2>1, <2>3, <3>2
    <3>3. QED
      BY <2>1, <3>1, <3>2
  <2>6. QED
    BY <2>2, <2>4, <2>5 DEF Entered
<1>19. Len(d.vrandom) = p + j /\ d.nnew = p /\ (usable => \A slot \in NewSlots : d.vvnew[slot] = 0)
  <2>1. d.vrandom = c.vrandom /\ d.nnew = c.nnew /\ d.vvnew = c.vvnew
    BY <1>14 DEF PutUncounted
  <2>2. n + 1 = p + j
    BY <1>1 DEF n, id
  <2>3. QED
    BY <1>12, <2>1, <2>2 DEF Loaded
<1>20. QED
  BY <1>16, <1>18, <1>19 DEF Loaded, d

\* All new entries are read.
LEMMA LoadNewSound ==
  ASSUME NEW E, NEW p, NEW F, NEW q, FileOk(E, p, F, q), NEW usable,
         NEW a, Loaded(a, E, p, F, q, 0, 0, usable)
  PROVE  Loaded(LoadNewEntries(a, E, usable), E, p, F, q, p, 0, usable)
<1> DEFINE R == [k \in 0 .. p |-> {b \in State : Loaded(b, E, p, F, q, k, 0, usable)}]
           G == [k \in 1 .. p |-> [b \in R[k - 1] |-> LoadNew(b, E[k], usable)]]
           Def(f) == [k \in 0 .. Len(E) |-> IF k = 0 THEN a ELSE LoadNew(f[k - 1], E[k], usable)]
<1>1. p \in Nat /\ Len(E) = p
  BY DEF FileOk
<1>2. a \in R[0]
  <2>1. Loaded(a, E, p, F, q, 0, 0, usable) /\ a \in State
    BY DEF Loaded, Sound
  <2>2. 0 \in 0 .. p
    BY <1>1
  <2> HIDE DEF Def
  <2>3. QED
    BY <2>1, <2>2
<1>3. ASSUME NEW k \in 1 .. p PROVE G[k] \in [R[k - 1] -> R[k]]
  <2>1. k - 1 \in 0 .. p /\ k \in 0 .. p
    BY <1>1
  <2>2. ASSUME NEW b \in R[k - 1] PROVE LoadNew(b, E[k], usable) \in R[k]
    <3>1. Loaded(b, E, p, F, q, k - 1, 0, usable)
      BY <2>1
    <3>2. Loaded(LoadNew(b, E[k], usable), E, p, F, q, k, 0, usable)
      BY <3>1, LoadNewStep
    <3>3. LoadNew(b, E[k], usable) \in State
      BY <3>2 DEF Loaded, Sound
    <3>4. QED
      BY <2>1, <3>2, <3>3
  <2>3. G[k] = [b \in R[k - 1] |-> LoadNew(b, E[k], usable)]
    OBVIOUS
  <2> HIDE DEF R, G
  <2>4. QED
    BY <2>2, <2>3
<1> HIDE DEF R
<1>4. ASSUME NEW k \in 1 .. p, NEW b \in R[k - 1] PROVE G[k][b] = LoadNew(b, E[k], usable)
  OBVIOUS
<1> HIDE DEF G
<1>5. PICK g : Passes(g, p, a, R, G)
  BY <1>1, <1>2, <1>3, LoopRuns
<1>6. g = Def(g)
  <2>1. ASSUME NEW k \in 0 .. p
        PROVE  g[k] = IF k = 0 THEN a ELSE LoadNew(g[k - 1], E[k], usable)
    <3>1. CASE k = 0
      BY <1>5, <3>1 DEF Passes
    <3>2. CASE k # 0
      <4>1. k \in 1 .. p /\ k - 1 \in 0 .. p
        BY <1>1, <3>2
      <4>2. QED
        BY <1>4, <1>5, <3>2, <4>1 DEF Passes
    <3>3. QED
      BY <3>1, <3>2
  <2>2. g = [k \in 0 .. p |-> g[k]]
    BY <1>5 DEF Passes
  <2>3. QED
    BY <1>1, <2>1, <2>2
<1>7. PICK f : f = Def(f) /\ LoadNewEntries(a, E, usable) = f[Len(E)]
  BY <1>6 DEF LoadNewEntries
<1>8. f[p] \in R[p]
  <2>1. f[0] = a /\ \A k \in 1 .. p : f[k] = LoadNew(f[k - 1], E[k], usable)
    BY <1>1, <1>7
  <2>2. \A k \in 1 .. p : f[k - 1] \in R[k - 1] => f[k] = G[k][f[k - 1]]
    BY <1>4, <2>1
  <2>3. Follows(f, p, R, G)
    BY <1>2, <2>1, <2>2 DEF Follows
  <2>4. QED
    BY <1>1, <1>3, <2>3, LoopKeeps
<1>9. p \in 0 .. p
  BY <1>1
<1>10. QED
  BY <1>1, <1>7, <1>8, <1>9 DEF R

\* All tried entries are read.
LEMMA LoadTriedSound ==
  ASSUME NEW E, NEW p, NEW F, NEW q, FileOk(E, p, F, q), NEW usable,
         NEW a, Loaded(a, E, p, F, q, p, 0, usable)
  PROVE  Loaded(LoadTriedEntries(a, F), E, p, F, q, p, q, usable)
<1> DEFINE R == [k \in 0 .. q |-> {b \in State : Loaded(b, E, p, F, q, p, k, usable)}]
           G == [k \in 1 .. q |-> [b \in R[k - 1] |-> LoadTried(b, F[k])]]
           Def(f) == [k \in 0 .. Len(F) |-> IF k = 0 THEN a ELSE LoadTried(f[k - 1], F[k])]
<1>1. q \in Nat /\ Len(F) = q
  BY DEF FileOk
<1>2. a \in R[0]
  <2>1. Loaded(a, E, p, F, q, p, 0, usable) /\ a \in State
    BY DEF Loaded, Sound
  <2>2. 0 \in 0 .. q
    BY <1>1
  <2> HIDE DEF Def
  <2>3. QED
    BY <2>1, <2>2
<1>3. ASSUME NEW k \in 1 .. q PROVE G[k] \in [R[k - 1] -> R[k]]
  <2>1. k - 1 \in 0 .. q /\ k \in 0 .. q
    BY <1>1
  <2>2. ASSUME NEW b \in R[k - 1] PROVE LoadTried(b, F[k]) \in R[k]
    <3>1. Loaded(b, E, p, F, q, p, k - 1, usable)
      BY <2>1
    <3>2. Loaded(LoadTried(b, F[k]), E, p, F, q, p, k, usable)
      BY <3>1, LoadTriedStep
    <3>3. LoadTried(b, F[k]) \in State
      BY <3>2 DEF Loaded, Sound
    <3>4. QED
      BY <2>1, <3>2, <3>3
  <2>3. G[k] = [b \in R[k - 1] |-> LoadTried(b, F[k])]
    OBVIOUS
  <2> HIDE DEF R, G
  <2>4. QED
    BY <2>2, <2>3
<1> HIDE DEF R
<1>4. ASSUME NEW k \in 1 .. q, NEW b \in R[k - 1] PROVE G[k][b] = LoadTried(b, F[k])
  OBVIOUS
<1> HIDE DEF G
<1>5. PICK g : Passes(g, q, a, R, G)
  BY <1>1, <1>2, <1>3, LoopRuns
<1>6. g = Def(g)
  <2>1. ASSUME NEW k \in 0 .. q
        PROVE  g[k] = IF k = 0 THEN a ELSE LoadTried(g[k - 1], F[k])
    <3>1. CASE k = 0
      BY <1>5, <3>1 DEF Passes
    <3>2. CASE k # 0
      <4>1. k \in 1 .. q /\ k - 1 \in 0 .. q
        BY <1>1, <3>2
      <4>2. QED
        BY <1>4, <1>5, <3>2, <4>1 DEF Passes
    <3>3. QED
      BY <3>1, <3>2
  <2>2. g = [k \in 0 .. q |-> g[k]]
    BY <1>5 DEF Passes
  <2>3. QED
    BY <1>1, <2>1, <2>2
<1>7. PICK f : f = Def(f) /\ LoadTriedEntries(a, F) = f[Len(F)]
  BY <1>6 DEF LoadTriedEntries
<1>8. f[q] \in R[q]
  <2>1. f[0] = a /\ \A k \in 1 .. q : f[k] = LoadTried(f[k - 1], F[k])
    BY <1>1, <1>7
  <2>2. \A k \in 1 .. q : f[k - 1] \in R[k - 1] => f[k] = G[k][f[k - 1]]
    BY <1>4, <2>1
  <2>3. Follows(f, q, R, G)
    BY <1>2, <2>1, <2>2 DEF Follows
  <2>4. QED
    BY <1>1, <1>3, <2>3, LoopKeeps
<1>9. q \in 0 .. q
  BY <1>1
<1>10. QED
  BY <1>1, <1>7, <1>8, <1>9 DEF R

\* Between operations the entries with references are the ones that are not tried.
LEMMA NewHaveReferences ==
  ASSUME NEW a, Sound(a, 0, 0, {})
  PROVE  {id \in DOMAIN a.info : a.info[id].nrefcount # 0} = NewIds(a.info)
<1>1. a \in State /\ NewTableOk(a.info, a.vvnew) /\ HeldOk(a.info, {})
  BY SoundFact DEF Agree
<1>2. ASSUME NEW id \in DOMAIN a.info PROVE a.info[id].nrefcount # 0 <=> ~a.info[id].fintried
  BY <1>1 DEF NewTableOk, HeldOk
<1>3. QED
  BY <1>2 DEF NewIds

\* What serialize() writes of the entries ids.
SavedOf(a, ids) == [n \in 1 .. Cardinality(ids) |-> [svc |-> a.info[Nth(ids, n)].svc,
                                                     src |-> a.info[Nth(ids, n)].src]]
Used(a) == {slot \in NewSlots : a.vvnew[slot] # 0}
PlacesOfFile(a) == [n \in 1 .. Cardinality(Used(a)) |->
                      [b     |-> NthSlot(Used(a), n)[1],
                       index |-> Rank(NewIds(a.info), a.vvnew[NthSlot(Used(a), n)])]]

\* The file of a state.
LEMMA SerializedFact ==
  ASSUME NEW a, Sound(a, 0, 0, {})
  PROVE  Serialized(a) = [nnew |-> a.nnew, ntried |-> a.ntried,
                          new |-> SavedOf(a, NewIds(a.info)), tried |-> SavedOf(a, TriedIds(a.info)),
                          bucket |-> PlacesOfFile(a)]
<1>1. DOMAIN a.vvnew = NewSlots
  BY StateFact DEF Sound
<1>2. {slot \in DOMAIN a.vvnew : a.vvnew[slot] # 0} = Used(a)
  BY <1>1 DEF Used
<1>3. {id \in DOMAIN a.info : a.info[id].fintried} = TriedIds(a.info)
  BY DEF TriedIds
<1>4. QED
  BY <1>2, <1>3, NewHaveReferences DEF Serialized, SavedOf, PlacesOfFile

\* Entries ids, n of them, in the order of the file.
SavedAs(a, ids, n) ==
  /\ n \in Nat /\ SavedOf(a, ids) \in [1 .. n -> Saved]
  /\ \A i \in 1 .. n : /\ Nth(ids, i) \in ids /\ Rank(ids, Nth(ids, i)) = i
                       /\ SavedOf(a, ids)[i].svc = a.info[Nth(ids, i)].svc
  /\ \A i, j \in 1 .. n : Nth(ids, i) = Nth(ids, j) => i = j
  /\ \A x \in ids : Rank(ids, x) \in 1 .. n /\ Nth(ids, Rank(ids, x)) = x

\* Ids and their places among the new or the tried ones.
LEMMA SavedIds ==
  ASSUME NEW a, NEW ids, NEW D, ids \in SUBSET D, D \in SUBSET Ids, IsFiniteSet(D), a.info \in [D -> Entry]
  PROVE  SavedAs(a, ids, Cardinality(ids))
<1> DEFINE n == Cardinality(ids)
<1>1. ids \in SUBSET Nat /\ IsFiniteSet(ids)
  BY FS_Subset DEF Ids
<1>2. /\ n \in Nat
      /\ \A x \in ids : Rank(ids, x) \in 1 .. n /\ Nth(ids, Rank(ids, x)) = x
      /\ \A i \in 1 .. n : Nth(ids, i) \in ids /\ Rank(ids, Nth(ids, i)) = i
  BY <1>1, RankFact
<1>3. ASSUME NEW i \in 1 .. n
      PROVE  /\ [svc |-> a.info[Nth(ids, i)].svc, src |-> a.info[Nth(ids, i)].src] \in Saved
             /\ SavedOf(a, ids)[i].svc = a.info[Nth(ids, i)].svc
  <2>1. a.info[Nth(ids, i)] \in Entry
    BY <1>2
  <2>2. a.info[Nth(ids, i)].svc \in CService /\ a.info[Nth(ids, i)].src \in Source
    BY <2>1 DEF Entry
  <2>3. [svc |-> a.info[Nth(ids, i)].svc, src |-> a.info[Nth(ids, i)].src] \in Saved
    BY <2>2 DEF Saved
  <2>4. SavedOf(a, ids)[i] = [svc |-> a.info[Nth(ids, i)].svc, src |-> a.info[Nth(ids, i)].src]
    BY DEF SavedOf
  <2>5. QED
    BY <2>3, <2>4
<1>4. SavedOf(a, ids) \in [1 .. n -> Saved]
  BY <1>3 DEF SavedOf
<1> HIDE DEF n
<1>5. QED
  BY <1>2, <1>3, <1>4 DEF SavedAs, n

\* It is one that can be read.
LEMMA FileReads ==
  ASSUME NEW a, Sound(a, 0, 0, {}), NEW p, p = Cardinality(NewIds(a.info)),
         NEW q, q = Cardinality(TriedIds(a.info))
  PROVE  FileOk(SavedOf(a, NewIds(a.info)), p, SavedOf(a, TriedIds(a.info)), q)
<1> DEFINE D == DOMAIN a.info
           new == NewIds(a.info)
           tried == TriedIds(a.info)
           E == SavedOf(a, new)
           F == SavedOf(a, tried)
<1>1. a \in State /\ IsFiniteSet(D) /\ IndexOk(a.info, a.mapaddr) /\ TriedTableOk(a.info, a.vvtried)
  BY SoundFact DEF Agree, CountsOk
<1>2. D \in SUBSET Ids /\ a.info \in [D -> Entry]
  BY <1>1, StateFact
<1>3. new \in SUBSET D /\ tried \in SUBSET D /\ \A x \in tried : x \notin new /\ a.info[x].fintried
  BY DEF NewIds, TriedIds
<1> HIDE DEF D, new, tried
<1>4. /\ p \in Nat /\ E \in [1 .. p -> Saved]
      /\ \A i \in 1 .. p : Nth(new, i) \in new /\ E[i].svc = a.info[Nth(new, i)].svc
      /\ \A i, j \in 1 .. p : Nth(new, i) = Nth(new, j) => i = j
  <2>1. p = Cardinality(new)
    BY DEF new
  <2>2. SavedAs(a, new, p)
    BY <1>1, <1>2, <1>3, <2>1, SavedIds
  <2>3. QED
    BY <2>2 DEF SavedAs
<1>5. /\ q \in Nat /\ F \in [1 .. q -> Saved]
      /\ \A i \in 1 .. q : Nth(tried, i) \in tried /\ F[i].svc = a.info[Nth(tried, i)].svc
      /\ \A i, j \in 1 .. q : Nth(tried, i) = Nth(tried, j) => i = j
  <2>1. q = Cardinality(tried)
    BY DEF tried
  <2>2. SavedAs(a, tried, q)
    BY <1>1, <1>2, <1>3, <2>1, SavedIds
  <2>3. QED
    BY <2>2 DEF SavedAs
<1> HIDE DEF E, F
<1>6. ASSUME NEW x \in D, NEW y \in D, NetAddr[a.info[x].svc] = NetAddr[a.info[y].svc] PROVE x = y
  BY <1>1, <1>6 DEF IndexOk, D
<1>7. ASSUME NEW x \in tried, NEW y \in tried, TriedSlot(a.info[x].svc) = TriedSlot(a.info[y].svc) PROVE x = y
  BY <1>1, <1>3, <1>7 DEF TriedTableOk, D
<1>8. \A i, j \in 1 .. p : NetAddr[E[i].svc] = NetAddr[E[j].svc] => i = j
  BY <1>3, <1>4, <1>6
<1>9. \A i, j \in 1 .. q : NetAddr[F[i].svc] = NetAddr[F[j].svc] => i = j
  BY <1>3, <1>5, <1>6
<1>10. \A i \in 1 .. p, j \in 1 .. q : NetAddr[E[i].svc] # NetAddr[F[j].svc]
  BY <1>3, <1>4, <1>5, <1>6
<1>11. \A i, j \in 1 .. q : TriedSlot(F[i].svc) = TriedSlot(F[j].svc) => i = j
  BY <1>5, <1>7
<1>12. QED
  BY <1>4, <1>5, <1>8, <1>9, <1>10, <1>11 DEF FileOk, E, F, new, tried

\* An object without entries, with any counters.
NewObject(x, y) == [Empty EXCEPT !.nnew = x, !.ntried = y]

\* It agrees but for the counters.
LEMMA FreshSound ==
  ASSUME NEW x \in Int, NEW y \in Int, NEW L
  PROVE  /\ Sound(NewObject(x, y), x, y, L)
         /\ DOMAIN NewObject(x, y).info = {} /\ Len(NewObject(x, y).vrandom) = 0 /\ NewObject(x, y).nnew = x
         /\ \A slot \in NewSlots : NewObject(x, y).vvnew[slot] = 0
<1> DEFINE a == NewObject(x, y)
           m == [n \in Nets |-> 0]
           t == [slot \in NewSlots |-> 0]
           u == [slot \in TriedSlots |-> 0]
           z == <<>>
<1>1. DOMAIN z = {} /\ z \in [{} -> Entry] /\ Len(z) = 0 /\ z \in Seq(Nat)
  OBVIOUS
<1>2. Empty = [info |-> z, mapaddr |-> m, vrandom |-> z, vvnew |-> t, vvtried |-> u,
               nnew |-> 0, ntried |-> 0, ok |-> TRUE]
  BY DEF Empty
<1>3. m \in [Nets -> Nat] /\ t \in [NewSlots -> Nat] /\ u \in [TriedSlots -> Nat]
      /\ (\A n \in Nets : m[n] = 0) /\ (\A s \in NewSlots : t[s] = 0) /\ (\A s \in TriedSlots : u[s] = 0)
  OBVIOUS
<1> HIDE DEF m, t, u, z
<1>4. /\ Empty.info = z /\ Empty.mapaddr = m /\ Empty.vrandom = z /\ Empty.vvnew = t
      /\ Empty.vvtried = u /\ Empty.ok = TRUE
  BY <1>2
<1>5. Empty \in State
  <2> DEFINE Z == {}
             n0 == 0
             b == TRUE
  <2>1. Z \in SUBSET Ids /\ z \in [Z -> Entry] /\ n0 \in Int /\ b \in BOOLEAN
    BY <1>1
  <2>2. Empty = [info |-> z, mapaddr |-> m, vrandom |-> z, vvnew |-> t, vvtried |-> u,
                 nnew |-> n0, ntried |-> n0, ok |-> b]
    BY <1>2
  <2> HIDE DEF Z, n0, b
  <2>3. QED
    BY <1>1, <1>3, <2>1, <2>2, StateMake
<1>6. a \in State
  BY <1>5 DEF NewObject, State
<1>7. /\ a.info = z /\ a.mapaddr = m /\ a.vrandom = z /\ a.vvnew = t /\ a.vvtried = u
      /\ a.nnew = x /\ a.ntried = y /\ a.ok = TRUE
  BY <1>4, <1>5 DEF NewObject, State
<1>8. DOMAIN a.info = {} /\ a.info \in [{} -> Entry] /\ Len(a.vrandom) = 0 /\ a.vrandom \in Seq(Nat)
  BY <1>1, <1>7
<1> HIDE DEF a
<1>9. VectorOk(a.info, a.vrandom)
  <2>1. 1 .. Len(a.vrandom) = {}
    BY <1>8
  <2>2. QED
    BY <1>8, <2>1 DEF VectorOk
<1>10. IndexOk(a.info, a.mapaddr) /\ NewTableOk(a.info, a.vvnew) /\ TriedTableOk(a.info, a.vvtried)
  BY <1>7, <1>8, <1>3 DEF IndexOk, NewTableOk, TriedTableOk
<1>11. CountsOk(a.info, a.nnew, a.ntried, x, y)
  <2>1. NewIds(a.info) = {} /\ TriedIds(a.info) = {}
    BY <1>8 DEF NewIds, TriedIds
  <2>2. QED
    <3>1. IsFiniteSet({}) /\ Cardinality({}) = 0
      BY FS_EmptySet
    <3>2. x = 0 + x /\ y = 0 + y
      OBVIOUS
    <3>3. Cardinality(NewIds(a.info)) = 0 /\ Cardinality(TriedIds(a.info)) = 0 /\ IsFiniteSet(DOMAIN a.info)
      BY <1>8, <2>1, <3>1
    <3>4. QED
      BY <1>7, <3>2, <3>3 DEF CountsOk
<1>12. HeldOk(a.info, L)
  BY <1>8 DEF HeldOk
<1>13. Sound(a, x, y, L)
  BY <1>7, <1>6, <1>9, <1>10, <1>11, <1>12 DEF Sound, Agree
<1>14. QED
  BY <1>7, <1>8, <1>3, <1>13 DEF a

\* The new table of a, under the numbers of the file, as far as its first k places go.
Replaced(a, k) ==
  [slot \in NewSlots |-> IF slot \in Used(a) /\ Cardinality(SlotsUpTo(Used(a), slot)) <= k
                         THEN Rank(NewIds(a.info), a.vvnew[slot]) ELSE 0]

\* State b has read the entries of the file of a and the first k places of the new table.
Placed(a, b, E, p, F, q, k) ==
  /\ Sound(b, 0, 0, 1 .. p)
  /\ Entered(b.info, E, p, F, q) /\ b.nnew = p
  /\ b.vvnew = Replaced(a, k)

\* A place is free until its turn, and its entry has not had all its places.
LEMMA PlaceTurn ==
  ASSUME NEW a, Sound(a, 0, 0, {}), NEW k \in 1 .. Cardinality(Used(a)),
         NEW slot, slot = NthSlot(Used(a), k), NEW r, r = Rank(NewIds(a.info), a.vvnew[slot]),
         NEW p, p = Cardinality(NewIds(a.info))
  PROVE  /\ slot \in NewSlots /\ r \in 1 .. p
         /\ slot = NewSlot(SavedOf(a, NewIds(a.info))[r].svc, slot[1])
         /\ Replaced(a, k - 1)[slot] = 0
         /\ Cardinality(Slots(Replaced(a, k - 1), r)) < BucketsPerAddress
         /\ Replaced(a, k) = Put(Replaced(a, k - 1), slot, r)
<1> DEFINE D == DOMAIN a.info
           new == NewIds(a.info)
           used == Used(a)
           x == a.vvnew[slot]
           t == Replaced(a, k - 1)
           place(y) == Cardinality(SlotsUpTo(used, y))
<1>1. /\ a \in State /\ IsFiniteSet(D) /\ NewTableOk(a.info, a.vvnew) /\ HeldOk(a.info, {})
  BY SoundFact DEF Agree, CountsOk
<1>2. D \in SUBSET Ids /\ a.info \in [D -> Entry] /\ a.vvnew \in [NewSlots -> Nat]
  BY <1>1, StateFact
<1>3. new \in SUBSET D /\ used \in SUBSET NewSlots
  BY DEF NewIds, Used
<1>4. SavedAs(a, new, p)
  BY <1>1, <1>2, <1>3, SavedIds
<1>5. /\ Cardinality(used) \in Nat
      /\ \A y \in used : place(y) \in 1 .. Cardinality(used) /\ NthSlot(used, place(y)) = y
      /\ \A n \in 1 .. Cardinality(used) : NthSlot(used, n) \in used /\ place(NthSlot(used, n)) = n
  BY <1>3, SlotRankFact
<1>6. slot \in used /\ place(slot) = k /\ k \in Nat
  BY <1>5
<1>7. ASSUME NEW y \in used PROVE a.vvnew[y] \in new
  <2>1. y \in NewSlots /\ a.vvnew[y] # 0
    BY DEF Used
  <2>2. a.vvnew[y] \in D
    BY <1>1, <2>1 DEF NewTableOk
  <2>3. y \in Slots(a.vvnew, a.vvnew[y])
    BY <1>2, <2>1 DEF Slots
  <2>4. a.info[a.vvnew[y]].nrefcount # 0
    BY <1>1, <1>2, <2>2, <2>3, SlotsFact DEF NewTableOk
  <2>5. QED
    BY <1>1, <2>2, <2>4 DEF NewTableOk, NewIds
<1>8. x \in new /\ r = Rank(new, x)
  BY <1>6, <1>7
<1>9. r \in 1 .. p /\ Nth(new, r) = x /\ SavedOf(a, new)[r].svc = a.info[x].svc
  BY <1>4, <1>8 DEF SavedAs
<1>10. slot \in NewSlots /\ slot = NewSlot(a.info[x].svc, slot[1])
  BY <1>1, <1>3, <1>6 DEF NewTableOk, Used
<1>11. \A y \in NewSlots : t[y] = IF y \in used /\ place(y) <= k - 1 THEN Rank(new, a.vvnew[y]) ELSE 0
  BY DEF Replaced
<1>12. \A y \in NewSlots : Replaced(a, k)[y] = IF y \in used /\ place(y) <= k THEN Rank(new, a.vvnew[y]) ELSE 0
  BY DEF Replaced
<1>13. DOMAIN t = NewSlots /\ DOMAIN Replaced(a, k) = NewSlots /\ Replaced(a, k) = [y \in NewSlots |-> Replaced(a, k)[y]]
       /\ t = [y \in NewSlots |-> t[y]]
  BY DEF Replaced
<1>14. Cardinality(Slots(a.vvnew, x)) <= BucketsPerAddress
  BY <1>1, <1>3, <1>8 DEF NewTableOk
<1> HIDE DEF D, new, used, x, t, place
<1>15. t[slot] = 0
  <2>1. ~(place(slot) <= k - 1)
    BY <1>6
  <2>2. QED
    BY <1>10, <1>11, <2>1
<1>16. Slots(t, r) \in SUBSET (Slots(a.vvnew, x) \ {slot})
  <2> SUFFICES ASSUME NEW y \in Slots(t, r) PROVE y \in Slots(a.vvnew, x) /\ y # slot
    OBVIOUS
  <2>1. y \in NewSlots /\ t[y] = r
    BY <1>13 DEF Slots
  <2>2. r # 0
    BY <1>9
  <2>3. y # slot /\ y \in used /\ Rank(new, a.vvnew[y]) = r
    BY <1>11, <1>15, <2>1, <2>2
  <2>4. a.vvnew[y] = x
    <3>1. a.vvnew[y] \in new
      BY <1>7, <2>3 DEF new, used
    <3>2. Nth(new, Rank(new, a.vvnew[y])) = a.vvnew[y]
      BY <1>4, <3>1 DEF SavedAs
    <3>3. QED
      BY <1>9, <2>3, <3>2
  <2>5. QED
    BY <1>2, <2>1, <2>3, <2>4 DEF Slots
<1>17. Cardinality(Slots(t, r)) < BucketsPerAddress
  <2> DEFINE S == Slots(a.vvnew, x)
             T == S \ {slot}
  <2>1. IsFiniteSet(S) /\ Cardinality(S) \in Nat
    BY <1>2, SlotsFact
  <2>2. slot \in S
    BY <1>2, <1>10 DEF Slots, x
  <2> HIDE DEF S
  <2>3. IsFiniteSet(T) /\ Cardinality(T) = Cardinality(S) - 1
    BY <2>1, <2>2, FS_RemoveElement
  <2>4. Slots(t, r) \in SUBSET T
    BY <1>16 DEF S
  <2> HIDE DEF T
  <2>5. Cardinality(Slots(t, r)) <= Cardinality(T) /\ Cardinality(Slots(t, r)) \in Nat
    BY <2>3, <2>4, FS_Subset, FS_CardinalityType
  <2>6. Cardinality(S) <= BucketsPerAddress /\ BucketsPerAddress \in Nat
    BY <1>14, AddrManAssumption DEF S, x
  <2>7. QED
    BY <2>1, <2>3, <2>5, <2>6
<1>18. Replaced(a, k) = Put(t, slot, r)
  <2>1. ASSUME NEW y \in NewSlots PROVE Replaced(a, k)[y] = IF y = slot THEN r ELSE t[y]
    <3>1. CASE y = slot
      <4>1. place(slot) <= k
        BY <1>6
      <4>2. QED
        BY <1>6, <1>8, <1>12, <3>1, <4>1 DEF x
    <3>2. CASE y # slot /\ y \in used
      <4>1. place(y) # k /\ place(y) \in Nat
        BY <1>5, <1>6, <3>2
      <4>2. place(y) <= k <=> place(y) <= k - 1
        BY <1>6, <4>1
      <4>3. QED
        BY <1>11, <1>12, <3>2, <4>2
    <3>3. CASE y # slot /\ y \notin used
      BY <1>11, <1>12, <3>3
    <3>4. QED
      BY <3>1, <3>2, <3>3
  <2>2. Put(t, slot, r) = [y \in NewSlots |-> IF y = slot THEN r ELSE t[y]]
    BY <1>13 DEF Put
  <2>3. QED
    BY <1>13, <2>1, <2>2
<1>19. QED
  BY <1>9, <1>10, <1>15, <1>17, <1>18 DEF new, t

\* The loop over the places of the new table: none of them is lost.
LEMMA LoadPlaceStep ==
  ASSUME NEW a, Sound(a, 0, 0, {}), NEW p, p = Cardinality(NewIds(a.info)), NEW E, E = SavedOf(a, NewIds(a.info)),
         NEW F, NEW q \in Nat, NEW k \in 1 .. Cardinality(Used(a)), NEW b, Placed(a, b, E, p, F, q, k - 1)
  PROVE  Placed(a, LoadPlace(b, PlacesOfFile(a)[k]), E, p, F, q, k)
<1> DEFINE slot == NthSlot(Used(a), k)
           r == Rank(NewIds(a.info), a.vvnew[slot])
           place == PlacesOfFile(a)[k]
           d == LoadPlace(b, place)
           L == 1 .. p
           z == 0
<1>1. place.b = slot[1] /\ place.index = r
  BY DEF PlacesOfFile
<1>2. /\ slot \in NewSlots /\ r \in 1 .. p
      /\ slot = NewSlot(E[r].svc, slot[1])
      /\ Replaced(a, k - 1)[slot] = 0
      /\ Cardinality(Slots(Replaced(a, k - 1), r)) < BucketsPerAddress
      /\ Replaced(a, k) = Put(Replaced(a, k - 1), slot, r)
  BY PlaceTurn
<1> HIDE DEF slot, r, place
<1>3. Sound(b, z, z, L) /\ Entered(b.info, E, p, F, q) /\ b.nnew = p /\ b.vvnew = Replaced(a, k - 1)
  BY DEF Placed
<1>4. p \in Nat
  <2>1. r \in Int /\ 1 <= r /\ r <= p
    BY <1>2
  <2>2. a \in State /\ IsFiniteSet(DOMAIN a.info)
    BY SoundFact DEF Agree, CountsOk
  <2>3. QED
    BY <2>2, StateFact, CountFact
<1>5. r \in DOMAIN b.info /\ b.info[r].svc = E[r].svc /\ ~b.info[r].fintried
  <2>1. r \in 1 .. p + q
    BY <1>2, <1>4
  <2>2. QED
    BY <1>2, <1>3, <2>1 DEF Entered
<1>6. b \in State /\ NewTableOk(b.info, b.vvnew)
  BY <1>3, SoundFact DEF Agree
<1>7. b.info[r].nrefcount < BucketsPerAddress
  BY <1>2, <1>3, <1>5, <1>6 DEF NewTableOk
<1>8. d = Refer(b, r, slot)
  <2>1. NewSlot(b.info[place.index].svc, place.b) = slot /\ place.index \in 1 .. b.nnew
    BY <1>1, <1>2, <1>3, <1>5
  <2>2. b.vvnew[slot] = 0 /\ b.info[place.index].nrefcount < BucketsPerAddress
    BY <1>1, <1>2, <1>3, <1>7
  <2>3. QED
    BY <1>1, <2>1, <2>2 DEF LoadPlace
<1> HIDE DEF d, L, z
<1>9. z \in Int
  BY DEF z
<1>10. Sound(d, z, z, L \ {r})
  BY <1>2, <1>3, <1>5, <1>7, <1>8, <1>9, ReferSound
<1>11. Sound(d, z, z, L)
  <2>1. HeldOk(d.info, L \ {r})
    BY <1>10 DEF Sound, Agree
  <2>2. HeldOk(d.info, L)
    BY <2>1 DEF HeldOk
  <2>3. QED
    BY <1>10, <2>2, Excused
<1>12. DOMAIN d.info = DOMAIN b.info /\ SameButCount(b.info, d.info)
  BY <1>2, <1>5, <1>6, <1>8, ReferFact
<1>13. d.vvnew = Put(b.vvnew, slot, r) /\ d.nnew = b.nnew
  BY <1>2, <1>5, <1>6, <1>8, ReferFact
<1>14. Entered(d.info, E, p, F, q)
  <2>1. /\ \A i \in 1 .. p : i \in 1 .. p + q
        /\ \A i \in 1 .. q : p + i \in 1 .. p + q
    BY <1>4
  <2>2. QED
    BY <1>3, <1>12, <2>1 DEF Entered, SameButCount
<1>15. d.vvnew = Replaced(a, k)
  BY <1>2, <1>3, <1>13
<1>16. QED
  BY <1>3, <1>11, <1>13, <1>14, <1>15 DEF Placed, L, z, d, place

\* All places are filled again.
LEMMA LoadPlacesSound ==
  ASSUME NEW a, Sound(a, 0, 0, {}), NEW p, p = Cardinality(NewIds(a.info)), NEW E, E = SavedOf(a, NewIds(a.info)),
         NEW F, NEW q \in Nat, NEW c, Placed(a, c, E, p, F, q, 0)
  PROVE  Placed(a, LoadPlaces(c, PlacesOfFile(a)), E, p, F, q, Cardinality(Used(a)))
<1> DEFINE n == Cardinality(Used(a))
           R == [k \in 0 .. n |-> {b \in State : Placed(a, b, E, p, F, q, k)}]
           G == [k \in 1 .. n |-> [b \in R[k - 1] |-> LoadPlace(b, PlacesOfFile(a)[k])]]
           Def(f) == [k \in 0 .. Len(PlacesOfFile(a)) |-> IF k = 0 THEN c ELSE LoadPlace(f[k - 1], PlacesOfFile(a)[k])]
<1>1. n \in Nat /\ Len(PlacesOfFile(a)) = n
  <2>1. Used(a) \in SUBSET NewSlots
    BY DEF Used
  <2>2. Cardinality(Used(a)) \in Nat
    BY <2>1, SlotRankFact
  <2>3. QED
    BY <2>2 DEF PlacesOfFile
<1>2. c \in R[0]
  <2>1. Placed(a, c, E, p, F, q, 0) /\ c \in State
    BY DEF Placed, Sound
  <2>2. 0 \in 0 .. n
    BY <1>1
  <2> HIDE DEF Def
  <2>3. QED
    BY <2>1, <2>2
<1>3. ASSUME NEW k \in 1 .. n PROVE G[k] \in [R[k - 1] -> R[k]]
  <2>1. k - 1 \in 0 .. n /\ k \in 0 .. n
    BY <1>1
  <2>2. ASSUME NEW b \in R[k - 1] PROVE LoadPlace(b, PlacesOfFile(a)[k]) \in R[k]
    <3>1. Placed(a, b, E, p, F, q, k - 1)
      BY <2>1
    <3>2. Placed(a, LoadPlace(b, PlacesOfFile(a)[k]), E, p, F, q, k)
      BY <3>1, LoadPlaceStep
    <3>3. LoadPlace(b, PlacesOfFile(a)[k]) \in State
      BY <3>2 DEF Placed, Sound
    <3>4. QED
      BY <2>1, <3>2, <3>3
  <2>3. G[k] = [b \in R[k - 1] |-> LoadPlace(b, PlacesOfFile(a)[k])]
    OBVIOUS
  <2> HIDE DEF R, G
  <2>4. QED
    BY <2>2, <2>3
<1> HIDE DEF R
<1>4. ASSUME NEW k \in 1 .. n, NEW b \in R[k - 1] PROVE G[k][b] = LoadPlace(b, PlacesOfFile(a)[k])
  OBVIOUS
<1> HIDE DEF G
<1>5. PICK g : Passes(g, n, c, R, G)
  BY <1>1, <1>2, <1>3, LoopRuns
<1>6. g = Def(g)
  <2>1. ASSUME NEW k \in 0 .. n
        PROVE  g[k] = IF k = 0 THEN c ELSE LoadPlace(g[k - 1], PlacesOfFile(a)[k])
    <3>1. CASE k = 0
      BY <1>5, <3>1 DEF Passes
    <3>2. CASE k # 0
      <4>1. k \in 1 .. n /\ k - 1 \in 0 .. n
        BY <1>1, <3>2
      <4>2. QED
        BY <1>4, <1>5, <3>2, <4>1 DEF Passes
    <3>3. QED
      BY <3>1, <3>2
  <2>2. g = [k \in 0 .. n |-> g[k]]
    BY <1>5 DEF Passes
  <2>3. QED
    BY <1>1, <2>1, <2>2
<1>7. PICK f : f = Def(f) /\ LoadPlaces(c, PlacesOfFile(a)) = f[Len(PlacesOfFile(a))]
  BY <1>6 DEF LoadPlaces
<1>8. f[n] \in R[n]
  <2>1. f[0] = c /\ \A k \in 1 .. n : f[k] = LoadPlace(f[k - 1], PlacesOfFile(a)[k])
    BY <1>1, <1>7
  <2>2. \A k \in 1 .. n : f[k - 1] \in R[k - 1] => f[k] = G[k][f[k - 1]]
    BY <1>4, <2>1
  <2>3. Follows(f, n, R, G)
    BY <1>2, <2>1, <2>2 DEF Follows
  <2>4. QED
    BY <1>1, <1>3, <2>3, LoopKeeps
<1>9. n \in 0 .. n
  BY <1>1
<1>10. QED
  BY <1>1, <1>7, <1>8, <1>9 DEF R

\* The entries in neither table, and the first k of them.
Lost(a) == {id \in DOMAIN a.info : ~a.info[id].fintried /\ a.info[id].nrefcount = 0}
Gone(a, k) == {Nth(Lost(a), i) : i \in 1 .. k}

\* State b is a without the first k of them.
Pruned(a, b, k) ==
  /\ Sound(b, 0, 0, Lost(a))
  /\ DOMAIN b.info = DOMAIN a.info \ Gone(a, k) /\ Keeps(a, b, DOMAIN a.info \ Gone(a, k))
  /\ b.vvnew = a.vvnew

\* The ids of the lost entries.
LEMMA LostFact ==
  ASSUME NEW a, NEW dn, NEW dt, NEW L, Sound(a, dn, dt, L)
  PROVE  /\ Lost(a) \subseteq DOMAIN a.info /\ Cardinality(Lost(a)) \in Nat
         /\ \A k \in 1 .. Cardinality(Lost(a)) :
              Nth(Lost(a), k) \in Lost(a) /\ Nth(Lost(a), k) \notin Gone(a, k - 1)
         /\ Gone(a, Cardinality(Lost(a))) = Lost(a) /\ Gone(a, 0) = {}
<1> DEFINE S == Lost(a)
           n == Cardinality(S)
<1>1. a \in State /\ IsFiniteSet(DOMAIN a.info)
  BY SoundFact DEF Agree, CountsOk
<1>2. DOMAIN a.info \in SUBSET Nat
  BY <1>1, StateFact DEF Ids
<1>3. S \in SUBSET DOMAIN a.info
  BY DEF Lost
<1>4. S \in SUBSET Nat /\ IsFiniteSet(S)
  BY <1>1, <1>2, <1>3, FS_Subset
<1> HIDE DEF S
<1>5. /\ n \in Nat
      /\ \A x \in S : Rank(S, x) \in 1 .. n /\ Nth(S, Rank(S, x)) = x
      /\ \A i \in 1 .. n : Nth(S, i) \in S /\ Rank(S, Nth(S, i)) = i
  BY <1>4, RankFact
<1> HIDE DEF n
<1>6. \A k : Gone(a, k) = {Nth(S, i) : i \in 1 .. k}
  BY DEF Gone, S
<1>7. ASSUME NEW k \in 1 .. n PROVE Nth(S, k) \in S /\ Nth(S, k) \notin Gone(a, k - 1)
  <2>1. \A i \in 1 .. k - 1 : i \in 1 .. n /\ i # k
    BY <1>5
  <2>2. \A i \in 1 .. k - 1 : Nth(S, i) # Nth(S, k)
    BY <1>5, <2>1
  <2>3. QED
    BY <1>5, <1>6, <2>2
<1>8. Gone(a, n) = S
  <2>1. Gone(a, n) = {Nth(S, i) : i \in 1 .. n}
    BY <1>6
  <2>2. ASSUME NEW x \in S PROVE x \in Gone(a, n)
    <3>1. Rank(S, x) \in 1 .. n /\ Nth(S, Rank(S, x)) = x
      BY <1>5
    <3>2. QED
      BY <2>1, <3>1
  <2>3. ASSUME NEW x \in Gone(a, n) PROVE x \in S
    BY <1>5, <2>1
  <2>4. QED
    BY <2>2, <2>3
<1>9. Gone(a, 0) = {}
  <2>1. 1 .. 0 = {}
    OBVIOUS
  <2>2. QED
    BY <1>6, <2>1
<1>10. QED
  BY <1>3, <1>5, <1>7, <1>8, <1>9 DEF S, n

\* One more is deleted.
LEMMA PruneStep ==
  ASSUME NEW a, NEW L, Sound(a, 0, 0, L), NEW k \in 1 .. Cardinality(Lost(a)),
         NEW b, Pruned(a, b, k - 1)
  PROVE  Pruned(a, Delete(b, Nth(Lost(a), k)), k)
<1> DEFINE id == Nth(Lost(a), k)
           d == Delete(b, id)
           A == DOMAIN a.info \ Gone(a, k - 1)
           M == Lost(a)
           z == 0
<1>1. id \in M /\ id \notin Gone(a, k - 1) /\ M \subseteq DOMAIN a.info /\ Cardinality(M) \in Nat
  BY LostFact
<1>2. Sound(b, z, z, M) /\ DOMAIN b.info = A /\ Keeps(a, b, A) /\ b.vvnew = a.vvnew
  BY DEF Pruned
<1>3. z \in Int
  OBVIOUS
<1>4. ~a.info[id].fintried /\ a.info[id].nrefcount = 0 /\ id \in A
  BY <1>1 DEF Lost
<1>5. Gone(a, k) = Gone(a, k - 1) \cup {id}
  <2>1. 1 .. k = 1 .. k - 1 \cup {k}
    BY <1>1
  <2>2. QED
    BY <2>1 DEF Gone
<1> HIDE DEF z, M, A, id, d
<1>6. id \in DOMAIN b.info /\ ~b.info[id].fintried /\ b.info[id].nrefcount = 0
  BY <1>2, <1>4 DEF Keeps
<1>7. Sound(Delete(b, id), z, z, M \ {id})
  BY <1>2, <1>3, <1>6, DeleteSound
<1>8. /\ DOMAIN Delete(b, id).info = DOMAIN b.info \ {id}
      /\ Keeps(b, Delete(b, id), DOMAIN b.info \ {id})
      /\ Delete(b, id).vvnew = b.vvnew
  BY <1>2, <1>3, <1>6, DeleteSound
<1>9. Sound(d, z, z, M)
  <2>1. HeldOk(d.info, M \ {id})
    BY <1>7 DEF Sound, Agree, d
  <2>2. HeldOk(d.info, M)
    BY <2>1 DEF HeldOk
  <2>3. QED
    BY <1>7, <2>2, Excused DEF d
<1>10. A \ {id} = DOMAIN a.info \ Gone(a, k)
  BY <1>5 DEF A
<1>11. DOMAIN d.info = A \ {id} /\ d.vvnew = a.vvnew /\ Keeps(a, d, A \ {id})
  BY <1>2, <1>8 DEF Keeps, d
<1>12. QED
  BY <1>9, <1>10, <1>11 DEF Pruned, z, M, d, id

\* All of them are.
LEMMA PruneAll ==
  ASSUME NEW a, NEW L, Sound(a, 0, 0, L)
  PROVE  Pruned(a, Prune(a), Cardinality(Lost(a)))
<1> DEFINE n == Cardinality(Lost(a))
           R == [k \in 0 .. n |-> {b \in State : Pruned(a, b, k)}]
           G == [k \in 1 .. n |-> [b \in R[k - 1] |-> Delete(b, Nth(Lost(a), k))]]
           Def(f) == [k \in 0 .. n |-> IF k = 0 THEN a ELSE Delete(f[k - 1], Nth(Lost(a), k))]
<1>1. n \in Nat /\ n = n
  BY LostFact
<1>2. a \in R[0]
  <2>1. Pruned(a, a, 0) /\ a \in State
    <3>1. HeldOk(a.info, Lost(a))
      BY DEF HeldOk, Lost
    <3>2. Sound(a, 0, 0, Lost(a))
      BY <3>1, Excused
    <3>3. Gone(a, 0) = {}
      BY LostFact
    <3>4. QED
      BY <3>2, <3>3 DEF Pruned, Keeps, Sound
  <2>2. 0 \in 0 .. n
    BY <1>1
  <2> HIDE DEF Def
  <2>3. QED
    BY <2>1, <2>2
<1>3. ASSUME NEW k \in 1 .. n PROVE G[k] \in [R[k - 1] -> R[k]]
  <2>1. k - 1 \in 0 .. n /\ k \in 0 .. n
    BY <1>1
  <2>2. ASSUME NEW b \in R[k - 1] PROVE Delete(b, Nth(Lost(a), k)) \in R[k]
    <3>1. Pruned(a, b, k - 1)
      BY <2>1
    <3>2. Pruned(a, Delete(b, Nth(Lost(a), k)), k)
      BY <3>1, PruneStep
    <3>3. Delete(b, Nth(Lost(a), k)) \in State
      BY <3>2 DEF Pruned, Sound
    <3>4. QED
      BY <2>1, <3>2, <3>3
  <2>3. G[k] = [b \in R[k - 1] |-> Delete(b, Nth(Lost(a), k))]
    OBVIOUS
  <2> HIDE DEF R, G
  <2>4. QED
    BY <2>2, <2>3
<1> HIDE DEF R
<1>4. ASSUME NEW k \in 1 .. n, NEW b \in R[k - 1] PROVE G[k][b] = Delete(b, Nth(Lost(a), k))
  OBVIOUS
<1> HIDE DEF G
<1>5. PICK g : Passes(g, n, a, R, G)
  BY <1>1, <1>2, <1>3, LoopRuns
<1>6. g = Def(g)
  <2>1. ASSUME NEW k \in 0 .. n
        PROVE  g[k] = IF k = 0 THEN a ELSE Delete(g[k - 1], Nth(Lost(a), k))
    <3>1. CASE k = 0
      BY <1>5, <3>1 DEF Passes
    <3>2. CASE k # 0
      <4>1. k \in 1 .. n /\ k - 1 \in 0 .. n
        BY <1>1, <3>2
      <4>2. QED
        BY <1>4, <1>5, <3>2, <4>1 DEF Passes
    <3>3. QED
      BY <3>1, <3>2
  <2>2. g = [k \in 0 .. n |-> g[k]]
    BY <1>5 DEF Passes
  <2>3. QED
    BY <1>1, <2>1, <2>2
<1>7. PICK f : f = Def(f) /\ Prune(a) = f[n]
  BY <1>6 DEF Prune, Lost
<1>8. f[n] \in R[n]
  <2>1. f[0] = a /\ \A k \in 1 .. n : f[k] = Delete(f[k - 1], Nth(Lost(a), k))
    BY <1>1, <1>7
  <2>2. \A k \in 1 .. n : f[k - 1] \in R[k - 1] => f[k] = G[k][f[k - 1]]
    BY <1>4, <2>1
  <2>3. Follows(f, n, R, G)
    BY <1>2, <2>1, <2>2 DEF Follows
  <2>4. QED
    BY <1>1, <1>3, <2>3, LoopKeeps
<1>9. n \in 0 .. n
  BY <1>1
<1>10. QED
  BY <1>1, <1>7, <1>8, <1>9 DEF R

\* Nothing else is lost, and everything is in a table then.
LEMMA PruneSound ==
  ASSUME NEW a, NEW L, Sound(a, 0, 0, L)
  PROVE  LET b == Prune(a)
         IN  /\ Sound(b, 0, 0, {})
             /\ DOMAIN b.info = DOMAIN a.info \ Lost(a) /\ Keeps(a, b, DOMAIN a.info \ Lost(a))
             /\ b.vvnew = a.vvnew
<1> DEFINE b == Prune(a)
<1>1. Pruned(a, b, Cardinality(Lost(a))) /\ Gone(a, Cardinality(Lost(a))) = Lost(a)
  BY PruneAll, LostFact
<1> HIDE DEF b
<1>2. /\ Sound(b, 0, 0, Lost(a)) /\ b.vvnew = a.vvnew
      /\ DOMAIN b.info = DOMAIN a.info \ Lost(a) /\ Keeps(a, b, DOMAIN a.info \ Lost(a))
  BY <1>1 DEF Pruned
<1>3. HeldOk(b.info, {})
  <2>1. HeldOk(b.info, Lost(a))
    BY <1>2 DEF Sound, Agree
  <2>2. QED
    BY <1>2, <2>1 DEF HeldOk
<1>4. Sound(b, 0, 0, {})
  BY <1>2, <1>3, Excused
<1>5. QED
  BY <1>2, <1>4 DEF b

\* The entries and the places read back from the file of a.
LEMMA ReadBack ==
  ASSUME NEW a, Sound(a, 0, 0, {}), NEW usable \in BOOLEAN
  PROVE  \E c, E, F, p, q :
           /\ Unserialized(Serialized(a), usable) = Prune(c)
           /\ p = Cardinality(NewIds(a.info)) /\ E = SavedOf(a, NewIds(a.info))
           /\ q = Cardinality(TriedIds(a.info)) /\ F = SavedOf(a, TriedIds(a.info))
           /\ p \in Nat /\ q \in Nat
           /\ Sound(c, 0, 0, 1 .. p) /\ Entered(c.info, E, p, F, q)
           /\ usable => c.vvnew = Replaced(a, Cardinality(Used(a)))
<1> DEFINE p == Cardinality(NewIds(a.info))
           q == Cardinality(TriedIds(a.info))
           E == SavedOf(a, NewIds(a.info))
           F == SavedOf(a, TriedIds(a.info))
           B == PlacesOfFile(a)
           start == NewObject(p, q)
           new == LoadNewEntries(start, E, usable)
           tried == LoadTriedEntries(new, F)
           c == IF usable THEN LoadPlaces(tried, B) ELSE tried
<1>1. FileOk(E, p, F, q)
  BY FileReads
<1>2. a.nnew = p /\ a.ntried = q
  <2>1. a \in State /\ CountsOk(a.info, a.nnew, a.ntried, 0, 0)
    BY SoundFact DEF Agree
  <2>2. DOMAIN a.info \in SUBSET Ids /\ a.info \in [DOMAIN a.info -> Entry] /\ IsFiniteSet(DOMAIN a.info)
    BY <2>1, StateFact DEF CountsOk
  <2>3. p \in Nat /\ q \in Nat
    BY <2>2, CountFact
  <2> HIDE DEF p, q
  <2>4. a.nnew = p + 0 /\ a.ntried = q + 0
    BY <2>1 DEF CountsOk, p, q
  <2>5. QED
    BY <2>3, <2>4
<1>3. Serialized(a) = [nnew |-> p, ntried |-> q, new |-> E, tried |-> F, bucket |-> B]
  BY <1>2, SerializedFact
<1> HIDE DEF E, F, B, p, q
<1>4. Unserialized(Serialized(a), usable) = Prune(c)
  <2> DEFINE file == [nnew |-> p, ntried |-> q, new |-> E, tried |-> F, bucket |-> B]
  <2>1. file.nnew = p /\ file.ntried = q /\ file.new = E /\ file.tried = F /\ file.bucket = B
    OBVIOUS
  <2> HIDE DEF file
  <2>2. Unserialized(file, usable) = Prune(c)
    BY <2>1 DEF Unserialized, NewObject
  <2>3. QED
    BY <1>3, <2>2 DEF file
<1>5. p \in Nat /\ q \in Nat
  BY <1>1 DEF FileOk
<1>6. Loaded(start, E, p, F, q, 0, 0, usable)
  <2> DEFINE L == 1 .. p
  <2>1. p - 0 \in Int /\ q - 0 \in Int /\ p - 0 = p /\ q - 0 = q /\ 1 .. 0 + 0 = {} /\ 1 .. 0 = {} /\ 0 + 0 = 0
        /\ p \in Int /\ q \in Int
    BY <1>5
  <2> HIDE DEF L, start
  <2>2. Sound(start, p, q, L)
    BY <2>1, FreshSound DEF start
  <2>3. DOMAIN start.info = {} /\ Len(start.vrandom) = 0 /\ start.nnew = p
    BY <2>1, FreshSound DEF start
  <2>4. \A slot \in NewSlots : start.vvnew[slot] = 0
    BY <2>1, FreshSound DEF start
  <2>5. Entered(start.info, E, 0, F, 0)
    BY <2>1, <2>3 DEF Entered
  <2>6. QED
    BY <2>1, <2>2, <2>3, <2>4, <2>5 DEF Loaded, L
<1> HIDE DEF start
<1>7. Loaded(new, E, p, F, q, p, 0, usable)
  BY <1>1, <1>6, LoadNewSound
<1> HIDE DEF new
<1>8. Loaded(tried, E, p, F, q, p, q, usable)
  BY <1>1, <1>7, LoadTriedSound
<1> HIDE DEF tried
<1>9. /\ Sound(tried, 0, 0, 1 .. p) /\ Entered(tried.info, E, p, F, q) /\ tried.nnew = p
      /\ usable => \A slot \in NewSlots : tried.vvnew[slot] = 0
  <2>1. p - p = 0 /\ q - q = 0
    BY <1>5
  <2>2. QED
    BY <1>8, <2>1 DEF Loaded
<1>10. CASE ~usable
  <2>1. c = tried
    BY <1>10
  <2>2. QED
    BY <1>4, <1>5, <1>9, <1>10, <2>1 DEF p, q, E, F
<1>11. CASE usable
  <2>1. c = LoadPlaces(tried, B)
    BY <1>11
  <2>2. tried.vvnew = Replaced(a, 0)
    <3>1. tried.vvnew \in [NewSlots -> Nat]
      BY <1>9, StateFact DEF Sound
    <3>2. ASSUME NEW slot \in NewSlots PROVE Replaced(a, 0)[slot] = 0
      <4>1. Used(a) \in SUBSET NewSlots
        BY DEF Used
      <4>2. slot \in Used(a) => Cardinality(SlotsUpTo(Used(a), slot)) \in 1 .. Cardinality(Used(a))
        BY <4>1, SlotRankFact
      <4>3. ~(slot \in Used(a) /\ Cardinality(SlotsUpTo(Used(a), slot)) <= 0)
        BY <4>2
      <4>4. QED
        BY <4>3 DEF Replaced
    <3>3. DOMAIN Replaced(a, 0) = NewSlots /\ Replaced(a, 0) = [slot \in NewSlots |-> Replaced(a, 0)[slot]]
      BY DEF Replaced
    <3>4. tried.vvnew = [slot \in NewSlots |-> tried.vvnew[slot]]
      BY <3>1
    <3>5. \A slot \in NewSlots : tried.vvnew[slot] = Replaced(a, 0)[slot]
      BY <1>9, <1>11, <3>2
    <3>6. QED
      BY <3>3, <3>4, <3>5
  <2>3. Placed(a, tried, E, p, F, q, 0)
    BY <1>9, <2>2 DEF Placed
  <2>4. Placed(a, LoadPlaces(tried, B), E, p, F, q, Cardinality(Used(a)))
    BY <1>5, <2>3, LoadPlacesSound DEF E, p, B
  <2> HIDE DEF c
  <2>5. Sound(c, 0, 0, 1 .. p) /\ Entered(c.info, E, p, F, q) /\ c.vvnew = Replaced(a, Cardinality(Used(a)))
    BY <2>1, <2>4 DEF Placed
  <2>6. QED
    BY <1>4, <1>5, <2>5 DEF p, q, E, F
<1>12. QED
  BY <1>10, <1>11

\* State b has the tables of a; the new one only if the file's could be used.
Restored(a, b, usable) ==
  /\ Sound(b, 0, 0, {})
  /\ InTried(b) = InTried(a)
  /\ usable => NewTable(b) = NewTable(a)

\* Writing the file and reading it.
LEMMA ReloadSound ==
  ASSUME NEW a, Sound(a, 0, 0, {}), NEW usable \in BOOLEAN
  PROVE  Restored(a, Unserialized(Serialized(a), usable), usable)
<1> DEFINE b == Unserialized(Serialized(a), usable)
           new == NewIds(a.info)
           tried == TriedIds(a.info)
           D == DOMAIN a.info
<1>1. PICK c, E, F, p, q :
        /\ b = Prune(c)
        /\ p = Cardinality(new) /\ E = SavedOf(a, new)
        /\ q = Cardinality(tried) /\ F = SavedOf(a, tried)
        /\ p \in Nat /\ q \in Nat
        /\ Sound(c, 0, 0, 1 .. p) /\ Entered(c.info, E, p, F, q)
        /\ usable => c.vvnew = Replaced(a, Cardinality(Used(a)))
  BY ReadBack
<1> HIDE DEF b
<1>2. /\ Sound(b, 0, 0, {})
      /\ DOMAIN b.info = DOMAIN c.info \ Lost(c) /\ Keeps(c, b, DOMAIN c.info \ Lost(c))
      /\ b.vvnew = c.vvnew
  <2> DEFINE L == 1 .. p
  <2>1. Sound(c, 0, 0, L)
    BY <1>1
  <2> HIDE DEF L
  <2>2. QED
    BY <1>1, <2>1, PruneSound
<1>3. a \in State /\ IsFiniteSet(D) /\ NewTableOk(a.info, a.vvnew) /\ D \in SUBSET Ids /\ a.info \in [D -> Entry]
      /\ a.vvnew \in [NewSlots -> Nat] /\ HeldOk(a.info, {})
  <2>1. a \in State /\ IsFiniteSet(D) /\ NewTableOk(a.info, a.vvnew) /\ HeldOk(a.info, {})
    BY SoundFact DEF Agree, CountsOk
  <2>2. QED
    BY <2>1, StateFact
<1>4. new \in SUBSET D /\ tried \in SUBSET D
  BY DEF NewIds, TriedIds
<1>5. tried = {i \in D : a.info[i].fintried} /\ \A x \in D : x \in new <=> ~a.info[x].fintried
  BY DEF TriedIds, NewIds
<1> HIDE DEF new, tried, D
<1>6. SavedAs(a, new, p)
  BY <1>1, <1>3, <1>4, SavedIds
<1>7. SavedAs(a, tried, q)
  BY <1>1, <1>3, <1>4, SavedIds
<1>8. InTried(b) = InTried(a)
  <2>1. /\ \A i \in 1 .. q : Nth(tried, i) \in tried /\ F[i].svc = a.info[Nth(tried, i)].svc
        /\ \A x \in tried : Rank(tried, x) \in 1 .. q /\ Nth(tried, Rank(tried, x)) = x
    BY <1>1, <1>7 DEF SavedAs
  <2>2. /\ DOMAIN c.info = 1 .. p + q
        /\ \A i \in 1 .. p : ~c.info[i].fintried
        /\ \A i \in 1 .. q : c.info[p + i].svc = F[i].svc /\ c.info[p + i].fintried
    BY <1>1 DEF Entered
  <2>3. \A i \in 1 .. q : p + i \in DOMAIN c.info
    BY <1>1, <2>2
  <2>4. \A x \in DOMAIN c.info : c.info[x].fintried => x - p \in 1 .. q /\ x = p + (x - p)
    BY <1>1, <2>2
  <2>5. \A x \in DOMAIN c.info : c.info[x].fintried => x \in DOMAIN b.info
    BY <1>2 DEF Lost
  <2>6. \A x \in DOMAIN b.info : /\ x \in DOMAIN c.info /\ b.info[x].svc = c.info[x].svc
                                 /\ b.info[x].fintried = c.info[x].fintried
    BY <1>2 DEF Keeps
  <2>7. ASSUME NEW s \in InTried(b) PROVE s \in InTried(a)
    <3>1. PICK x \in DOMAIN b.info : b.info[x].fintried /\ s = b.info[x].svc
      BY DEF InTried
    <3>2. x \in DOMAIN c.info /\ c.info[x].fintried /\ s = c.info[x].svc
      BY <2>6, <3>1
    <3>3. PICK i \in 1 .. q : x = p + i
      BY <2>4, <3>2
    <3>4. s = a.info[Nth(tried, i)].svc /\ Nth(tried, i) \in tried
      BY <2>1, <2>2, <3>2, <3>3
    <3>5. QED
      BY <1>5, <3>4 DEF InTried, D
  <2>8. ASSUME NEW s \in InTried(a) PROVE s \in InTried(b)
    <3>1. PICK x \in tried : s = a.info[x].svc
      BY <1>5 DEF InTried, D
    <3>2. PICK i \in 1 .. q : Nth(tried, i) = x
      BY <2>1
    <3>3. p + i \in DOMAIN c.info /\ c.info[p + i].svc = s /\ c.info[p + i].fintried
      BY <2>1, <2>2, <2>3, <3>1, <3>2
    <3>4. p + i \in DOMAIN b.info /\ b.info[p + i].svc = s /\ b.info[p + i].fintried
      BY <2>5, <2>6, <3>3
    <3>5. QED
      BY <3>4 DEF InTried
  <2>9. QED
    BY <2>7, <2>8
<1>9. ASSUME usable PROVE NewTable(b) = NewTable(a)
  <2> DEFINE N(t, slot) == IF t.vvnew[slot] = 0 THEN {} ELSE {t.info[t.vvnew[slot]].svc}
  <2>1. ASSUME NEW slot \in NewSlots PROVE N(b, slot) = N(a, slot)
    <3> DEFINE x == a.vvnew[slot]
               r == Rank(new, x)
    <3>1. b.vvnew = Replaced(a, Cardinality(Used(a)))
      BY <1>1, <1>2, <1>9
    <3>2. b.vvnew[slot] = IF slot \in Used(a) /\ Cardinality(SlotsUpTo(Used(a), slot)) <= Cardinality(Used(a))
                          THEN r ELSE 0
      BY <3>1 DEF Replaced, new
    <3>3. slot \in Used(a) <=> x # 0
      BY DEF Used
    <3>4. CASE x = 0
      BY <3>2, <3>3, <3>4
    <3>5. CASE x # 0
      <4>1. Used(a) \in SUBSET NewSlots
        BY DEF Used
      <4>2. Cardinality(Used(a)) \in Nat /\ Cardinality(SlotsUpTo(Used(a), slot)) \in 1 .. Cardinality(Used(a))
        BY <3>3, <3>5, <4>1, SlotRankFact
      <4>3. b.vvnew[slot] = r
        BY <3>2, <3>3, <3>5, <4>2
      <4>4. x \in D /\ slot \in Slots(a.vvnew, x)
        BY <1>3, <3>5 DEF NewTableOk, D, Slots
      <4>5. x \in new
        <5>1. Cardinality(Slots(a.vvnew, x)) # 0
          BY <1>3, <4>4, SlotsFact
        <5>2. a.info[x].nrefcount # 0
          BY <1>3, <4>4, <5>1 DEF NewTableOk, D
        <5>3. QED
          BY <1>3, <1>5, <4>4, <5>2 DEF NewTableOk, D
      <4>6. r \in 1 .. p /\ E[r].svc = a.info[x].svc
        BY <1>1, <1>6, <4>5 DEF SavedAs
      <4>7. c.info[r].svc = a.info[x].svc
        BY <1>1, <4>6 DEF Entered
      <4>8. r # 0
        BY <1>1, <4>6
      <4>9. r \in DOMAIN b.info
        <5>1. NewTableOk(b.info, b.vvnew)
          BY <1>2 DEF Sound, Agree
        <5>2. QED
          BY <4>3, <4>8, <5>1 DEF NewTableOk
      <4>10. b.info[r].svc = a.info[x].svc
        BY <1>2, <4>7, <4>9 DEF Keeps
      <4> HIDE DEF r, x
      <4>11. QED
        BY <3>5, <4>3, <4>8, <4>10 DEF x
    <3>6. QED
      BY <3>4, <3>5
  <2>2. NewTable(b) = [slot \in NewSlots |-> N(b, slot)] /\ NewTable(a) = [slot \in NewSlots |-> N(a, slot)]
    BY DEF NewTable
  <2> HIDE DEF N
  <2>3. QED
    BY <2>1, <2>2
<1>10. QED
  BY <1>2, <1>8, <1>9 DEF Restored, b

\* The inductive invariant: the structures agree on the entries, all of which are in a
\* table, and the ids are 1, 2, ...
AddrManInv == Sound(am, 0, 0, {}) /\ Dense(am)

\* What a step does to the tables.
Demoted(a, b) == \A s \in InTried(a) : s \in InTried(b) \/ \E slot \in NewSlots : s \in NewTable(b)[slot]

\* Entries that are tried are demoted at most.
LEMMA SafeDemotes ==
  ASSUME NEW a, NEW b, Safe(a, b), Sound(b, 0, 0, {})
  PROVE  Demoted(a, b)
<1> SUFFICES ASSUME NEW s \in InTried(a)
             PROVE  s \in InTried(b) \/ \E slot \in NewSlots : s \in NewTable(b)[slot]
  BY DEF Demoted
<1>1. PICK x \in DOMAIN a.info : a.info[x].fintried /\ s = a.info[x].svc
  BY DEF InTried
<1>2. x \in DOMAIN b.info /\ b.info[x].svc = s /\ (b.info[x].fintried \/ \E place \in NewSlots : b.vvnew[place] = x)
  BY <1>1 DEF Safe
<1>3. x # 0
  BY <1>2, StateFact DEF Sound, Ids
<1>4. CASE b.info[x].fintried
  BY <1>2, <1>4 DEF InTried
<1>5. ASSUME NEW place \in NewSlots, b.vvnew[place] = x
      PROVE  s \in NewTable(b)[place]
  BY <1>2, <1>3, <1>5 DEF NewTable
<1>6. QED
  BY <1>2, <1>4, <1>5

\* Renaming the ids changes nothing.
LEMMA CompactDemotes ==
  ASSUME NEW a, NEW b, Demoted(a, b), Sound(b, 0, 0, {})
  PROVE  Demoted(a, Compact(b))
<1>1. InTried(Compact(b)) = InTried(b) /\ NewTable(Compact(b)) = NewTable(b)
  BY CompactSound
<1>2. QED
  BY <1>1 DEF Demoted

\* A new object.
LEMMA EmptySound == Sound(Empty, 0, 0, {}) /\ Dense(Empty)
<1> DEFINE z == 0
           Z == {}
<1>1. z \in Int
  OBVIOUS
<1>2. NewObject(z, z) = Empty
  <2> DEFINE m == [n \in Nets |-> 0]
             t == [slot \in NewSlots |-> 0]
             u == [slot \in TriedSlots |-> 0]
             w == <<>>
             k == TRUE
  <2>1. Empty = [info |-> w, mapaddr |-> m, vrandom |-> w, vvnew |-> t, vvtried |-> u,
                 nnew |-> z, ntried |-> z, ok |-> k]
    BY DEF Empty
  <2> HIDE DEF m, t, u, w, k, z
  <2> DEFINE S == {"info", "mapaddr", "vrandom", "vvnew", "vvtried", "nnew", "ntried", "ok"}
  <2>2. Empty = [x \in S |-> Empty[x]] /\ Empty.nnew = z /\ Empty.ntried = z
    BY <2>1
  <2>3. NewObject(z, z) = [x \in S |-> NewObject(z, z)[x]] /\ \A x \in S : NewObject(z, z)[x] = Empty[x]
    BY <2>2 DEF NewObject
  <2> HIDE DEF S
  <2>4. QED
    BY <2>2, <2>3
<1> HIDE DEF z, Z
<1>3. Sound(NewObject(z, z), z, z, Z) /\ DOMAIN NewObject(z, z).info = {}
  BY <1>1, FreshSound
<1>4. Dense(Empty)
  <2>1. DOMAIN Empty.info = {}
    BY <1>2, <1>3
  <2>2. Cardinality({}) = 0 /\ 1 .. 0 = {}
    BY FS_EmptySet
  <2>3. QED
    BY <2>1, <2>2 DEF Dense
<1>5. QED
  BY <1>2, <1>3, <1>4 DEF z, Z

\* Each operation.
LEMMA AddrManStep ==
  ASSUME AddrManInv, AddrManNext
  PROVE  AddrManInv' /\ Demoted(am, am')
<1> USE DEF AddrManInv
<1>1. CASE AddStep
  <2>1. PICK h \in Heard, news \in BOOLEAN, terrible \in BOOLEAN :
          am' = Compact(Add(am, h[1], h[2], news, terrible))
    BY <1>1 DEF AddStep
  <2>2. h[1] \in CService /\ h[2] \in Source
    BY AddrManAssumption
  <2> DEFINE s == h[1]
             src == h[2]
             b == Add(am, s, src, news, terrible)
  <2> HIDE DEF s, src
  <2>3. Sound(b, 0, 0, {}) /\ TriedStay(am, b, {})
    BY <2>2, AddSound DEF s, src
  <2>4. am' = Compact(b)
    BY <2>1 DEF s, src
  <2> HIDE DEF b
  <2>5. Safe(am, b)
    BY <2>3 DEF Safe, TriedStay
  <2>6. QED
    BY <2>3, <2>4, <2>5, SafeDemotes, CompactDemotes, CompactSound
<1>2. CASE GoodStep
  <2>1. PICK s \in CService : am' = Compact(Good(am, s))
    BY <1>2 DEF GoodStep
  <2> DEFINE b == Good(am, s)
  <2>2. Sound(b, 0, 0, {}) /\ Safe(am, b)
    BY GoodSound
  <2> HIDE DEF b
  <2>3. am' = Compact(b)
    BY <2>1 DEF b
  <2>4. QED
    BY <2>2, <2>3, SafeDemotes, CompactDemotes, CompactSound
<1>3. CASE GetAddrStep
  <2>1. PICK n \in Looks(am) : \E rnd \in [1 .. n -> DOMAIN am.vrandom] : am' = GetAddr(am, rnd)
    BY <1>3 DEF GetAddrStep
  <2>2. PICK rnd \in [1 .. n -> DOMAIN am.vrandom] : am' = GetAddr(am, rnd)
    BY <2>1
  <2>3. am.vrandom \in Seq(Nat)
    BY StateFact DEF Sound
  <2>4. DOMAIN am.vrandom = 1 .. Len(am.vrandom) /\ Len(am.vrandom) \in Nat
    BY <2>3
  <2>5. n \in Nat /\ n <= Len(am.vrandom)
    <3>1. CASE n = 0
      BY <2>4, <3>1
    <3>2. CASE n # 0
      <4> DEFINE k == Min({(MaxPct * Len(am.vrandom)) \div 100, MaxAddr})
      <4>1. k \in Nat
        <5> DEFINE u == (MaxPct * Len(am.vrandom)) \div 100
        <5>1. MaxPct \in Nat /\ MaxAddr \in Nat
          BY AddrManAssumption
        <5>2. MaxPct * Len(am.vrandom) \in Nat
          BY <2>4, <5>1
        <5>3. u \in Nat
          BY <5>2
        <5> HIDE DEF u
        <5>4. \E m \in {u, MaxAddr} : \A x \in {u, MaxAddr} : m <= x
          BY <5>1, <5>3
        <5>5. Min({u, MaxAddr}) \in {u, MaxAddr}
          BY <5>4 DEF Min
        <5>6. QED
          BY <5>1, <5>3, <5>5 DEF u
      <4>2. n \in k .. Len(am.vrandom)
        BY <2>1, <3>2 DEF Looks
      <4> HIDE DEF k
      <4>3. QED
        BY <2>4, <4>1, <4>2
    <3>3. QED
      BY <3>1, <3>2
  <2>6. rnd \in [1 .. n -> 1 .. Len(am.vrandom)]
    BY <2>4
  <2> DEFINE b == GetAddr(am, rnd)
  <2>7. Shuffled(am, b)
    BY <2>5, <2>6, GetAddrSound
  <2> HIDE DEF b
  <2>8. am' = b
    BY <2>2 DEF b
  <2>9. Sound(b, 0, 0, {}) /\ DOMAIN b.info = DOMAIN am.info /\ Keeps(am, b, DOMAIN am.info)
    BY <2>7 DEF Shuffled
  <2>10. Safe(am, b) /\ Dense(b)
    BY <2>9 DEF Safe, Keeps, Dense
  <2>11. QED
    BY <2>8, <2>9, <2>10, SafeDemotes
<1>4. CASE ReloadStep
  <2>1. PICK usable \in BOOLEAN : am' = Compact(Unserialized(Serialized(am), usable))
    BY <1>4 DEF ReloadStep, Reload
  <2> DEFINE b == Unserialized(Serialized(am), usable)
  <2>2. Restored(am, b, usable)
    BY ReloadSound
  <2> HIDE DEF b
  <2>3. am' = Compact(b)
    BY <2>1 DEF b
  <2>4. Sound(b, 0, 0, {}) /\ Demoted(am, b)
    BY <2>2 DEF Restored, Demoted
  <2>5. QED
    BY <2>3, <2>4, CompactDemotes, CompactSound
<1>5. QED
  BY <1>1, <1>2, <1>3, <1>4 DEF AddrManNext

\* The vector has the entries once each.
LEMMA VectorLength ==
  ASSUME NEW a, NEW dn, NEW dt, NEW L, Sound(a, dn, dt, L)
  PROVE  Len(a.vrandom) = Cardinality(DOMAIN a.info)
<1> DEFINE n == Len(a.vrandom)
           D == DOMAIN a.info
           f == [i \in 1 .. n |-> a.vrandom[i]]
<1>1. VectorOk(a.info, a.vrandom) /\ a \in State
  BY SoundFact DEF Agree
<1>2. n \in Nat
  BY <1>1, StateFact
<1>3. f \in [1 .. n -> D] /\ \A i, j \in 1 .. n : f[i] = f[j] => i = j
  BY <1>1 DEF VectorOk
<1>4. \A x \in D : \E i \in 1 .. n : f[i] = x
  BY <1>1 DEF VectorOk
<1> HIDE DEF n, D, f
<1>5. f \in Bijection(1 .. n, D)
  <2>1. f \in Injection(1 .. n, D)
    BY <1>3, Fun_IsInj
  <2>2. f \in Surjection(1 .. n, D)
    BY <1>3, <1>4, Fun_IsSurj
  <2>3. QED
    BY <2>1, <2>2 DEF Bijection
<1>6. ExistsBijection(1 .. n, D)
  BY <1>5 DEF ExistsBijection
<1>7. Cardinality(D) = n
  BY <1>2, <1>6, FS_CountingElements
<1>8. QED
  BY <1>7 DEF n, D

\* check_() finds nothing wrong.
LEMMA InvChecksOut ==
  ASSUME AddrManInv PROVE ChecksOut
<1> DEFINE info == am.info
           D == DOMAIN am.info
           tried == {id \in DOMAIN am.info : am.info[id].fintried}
           new == DOMAIN am.info \ tried
<1>1. am \in State /\ am.ok /\ Agree(am.info, am.vrandom, am.mapaddr, am.vvnew, am.vvtried, am.nnew, am.ntried, 0, 0, {})
  BY SoundFact DEF AddrManInv
<1>2. /\ VectorOk(am.info, am.vrandom) /\ IndexOk(am.info, am.mapaddr) /\ NewTableOk(am.info, am.vvnew)
      /\ TriedTableOk(am.info, am.vvtried) /\ CountsOk(am.info, am.nnew, am.ntried, 0, 0) /\ HeldOk(am.info, {})
  BY <1>1 DEF Agree
<1>3. /\ D \in SUBSET Ids /\ am.info \in [D -> Entry] /\ IsFiniteSet(D)
      /\ am.vvnew \in [NewSlots -> Nat] /\ am.vvtried \in [TriedSlots -> Nat]
  BY <1>1, <1>2, StateFact DEF CountsOk
<1>4. tried = TriedIds(am.info) /\ new = NewIds(am.info)
  BY DEF TriedIds, NewIds
<1>5. /\ Cardinality(tried) = am.ntried /\ Cardinality(new) = am.nnew
      /\ Len(am.vrandom) = am.ntried + am.nnew
  <2>1. /\ Cardinality(NewIds(am.info)) \in Nat /\ Cardinality(TriedIds(am.info)) \in Nat
        /\ Cardinality(D) = Cardinality(NewIds(am.info)) + Cardinality(TriedIds(am.info))
    BY <1>3, CountFact
  <2>2. am.nnew = Cardinality(NewIds(am.info)) + 0 /\ am.ntried = Cardinality(TriedIds(am.info)) + 0
    BY <1>2 DEF CountsOk
  <2>3. Len(am.vrandom) = Cardinality(D)
    BY VectorLength DEF AddrManInv
  <2> HIDE DEF D, tried, new
  <2>4. QED
    BY <1>4, <2>1, <2>2, <2>3
<1>6. ASSUME NEW id \in D
      PROVE  /\ am.mapaddr[NetAddr[am.info[id].svc]] = id
             /\ am.info[id].pos \in DOMAIN am.vrandom
             /\ am.vrandom[am.info[id].pos] = id
  <2>1. am.vrandom \in Seq(Nat)
    BY <1>1, StateFact
  <2>2. DOMAIN am.vrandom = 1 .. Len(am.vrandom)
    BY <2>1
  <2>3. QED
    BY <1>2, <2>2 DEF VectorOk, IndexOk
<1>7. ASSUME NEW id \in tried
      PROVE  /\ am.info[id].nrefcount = 0
             /\ {slot \in DOMAIN am.vvtried : am.vvtried[slot] = id} = {TriedSlot(am.info[id].svc)}
  <2>1. id \in D /\ am.info[id].fintried /\ id # 0
    BY <1>3 DEF Ids
  <2>2. am.info[id].nrefcount = 0
    BY <1>2, <2>1 DEF NewTableOk
  <2>3. am.info[id].svc \in CService
    BY <1>3, <2>1 DEF Entry
  <2>4. TriedSlot(am.info[id].svc) \in TriedSlots /\ am.vvtried[TriedSlot(am.info[id].svc)] = id
    BY <1>2, <2>1, <2>3, PlaceFact DEF TriedTableOk
  <2>5. \A slot \in TriedSlots : am.vvtried[slot] = id => slot = TriedSlot(am.info[id].svc)
    BY <1>2, <2>1 DEF TriedTableOk
  <2>6. DOMAIN am.vvtried = TriedSlots
    BY <1>3
  <2> HIDE DEF tried, D
  <2>7. QED
    BY <2>2, <2>4, <2>5, <2>6
<1>8. ASSUME NEW id \in new
      PROVE  /\ am.info[id].nrefcount \in 1 .. BucketsPerAddress
             /\ am.info[id].nrefcount = Cardinality({slot \in DOMAIN am.vvnew : am.vvnew[slot] = id})
             /\ \A slot \in {x \in DOMAIN am.vvnew : am.vvnew[x] = id} :
                  slot = NewSlot(am.info[id].svc, slot[1])
  <2>1. id \in D /\ ~am.info[id].fintried /\ id # 0
    BY <1>3 DEF Ids
  <2>2. Slots(am.vvnew, id) = {slot \in DOMAIN am.vvnew : am.vvnew[slot] = id}
    BY DEF Slots
  <2>3. Cardinality(Slots(am.vvnew, id)) \in Nat
    BY <1>3, SlotsFact
  <2>4. am.info[id].nrefcount = Cardinality(Slots(am.vvnew, id)) /\ am.info[id].nrefcount <= BucketsPerAddress
    BY <1>2, <2>1 DEF NewTableOk
  <2>5. am.info[id].nrefcount # 0
    BY <1>2, <2>1 DEF HeldOk
  <2>6. am.info[id].nrefcount \in 1 .. BucketsPerAddress
    BY <2>3, <2>4, <2>5, AddrManAssumption
  <2>7. \A slot \in Slots(am.vvnew, id) : slot = NewSlot(am.info[id].svc, slot[1])
    <3>1. DOMAIN am.vvnew = NewSlots
      BY <1>3
    <3>2. QED
      BY <1>2, <2>1, <3>1 DEF NewTableOk, Slots
  <2>8. QED
    BY <2>2, <2>4, <2>6, <2>7
<1>9. \A slot \in TriedSlots : am.vvtried[slot] \in tried \cup {0}
  BY <1>2 DEF TriedTableOk
<1>10. ASSUME NEW slot \in NewSlots PROVE am.vvnew[slot] \in new \cup {0}
  <2>1. CASE am.vvnew[slot] = 0
    BY <2>1
  <2>2. CASE am.vvnew[slot] # 0
    <3> DEFINE x == am.vvnew[slot]
    <3>1. x \in D /\ slot \in Slots(am.vvnew, x)
      BY <1>2, <1>3, <2>2 DEF NewTableOk, Slots
    <3>2. Cardinality(Slots(am.vvnew, x)) # 0
      BY <1>3, <3>1, SlotsFact
    <3>3. ~am.info[x].fintried
      BY <1>2, <3>1, <3>2 DEF NewTableOk
    <3>4. QED
      BY <3>1, <3>3
  <2>3. QED
    BY <2>1, <2>2
<1>11. QED
  BY <1>1, <1>5, <1>6, <1>7, <1>8, <1>9, <1>10 DEF ChecksOut

\* The invariant holds in every reachable state.
THEOREM AddrManInvariant == AddrManSpec => []AddrManInv
<1>1. AddrManInit => AddrManInv
  BY EmptySound DEF AddrManInit, AddrManInv
<1>2. AddrManInv /\ [AddrManNext]_am => AddrManInv'
  <2>1. ASSUME AddrManInv, AddrManNext PROVE AddrManInv'
    BY <2>1, AddrManStep
  <2>2. ASSUME AddrManInv, am' = am PROVE AddrManInv'
    BY <2>2 DEF AddrManInv, Sound, Agree, Dense
  <2>3. QED
    BY <2>1, <2>2
<1>3. QED
  BY <1>1, <1>2, PTL DEF AddrManSpec

\* check_() returns 0 and no assert of the operations fails, after any sequence of
\* add_, good_, getaddr_ and restarts, for all tables and hash functions.
THEOREM AddrManChecksOut == AddrManSpec => []ChecksOut
<1>1. AddrManInv => ChecksOut
  BY InvChecksOut
<1>2. QED
  BY <1>1, AddrManInvariant, PTL

\* An address leaves the tried table for the new table only.
THEOREM AddrManDemotesFirst == AddrManSpec => TriedIsDemotedFirst
<1>1. AddrManInv /\ [AddrManNext]_am =>
        [\A s \in InTried(am) : s \in InTried(am') \/ \E slot \in NewSlots : s \in NewTable(am')[slot]]_am
  BY AddrManStep DEF Demoted
<1>2. QED
  BY <1>1, AddrManInvariant, PTL DEF AddrManSpec, TriedIsDemotedFirst

\* A restart with a usable file gives the same tables.
THEOREM AddrManSurvivesRestart == AddrManSpec => RestartKeepsTables
<1>1. ASSUME AddrManInv, Reload(TRUE)
      PROVE  InTried(am') = InTried(am) /\ NewTable(am') = NewTable(am)
  <2> DEFINE k == TRUE
             b == Unserialized(Serialized(am), k)
  <2>1. k \in BOOLEAN /\ k
    OBVIOUS
  <2>2. am' = Compact(b)
    BY <1>1 DEF Reload
  <2> HIDE DEF k
  <2>3. Restored(am, b, k)
    BY <1>1, <2>1, ReloadSound DEF AddrManInv
  <2> HIDE DEF b
  <2>4. Sound(b, 0, 0, {}) /\ InTried(b) = InTried(am) /\ NewTable(b) = NewTable(am)
    BY <2>1, <2>3 DEF Restored
  <2>5. QED
    BY <2>2, <2>4, CompactSound
<1>2. AddrManInv /\ [AddrManNext]_am =>
        [Reload(TRUE) => /\ InTried(am') = InTried(am)
                         /\ NewTable(am') = NewTable(am)]_am
  BY <1>1
<1>3. QED
  BY <1>2, AddrManInvariant, PTL DEF AddrManSpec, RestartKeepsTables
=============================================================================
