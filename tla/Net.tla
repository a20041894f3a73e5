--------------------------------- MODULE Net ---------------------------------
(***************************************************************************)
(* The life of a connection in net.cpp: cnode objects are created by the    *)
(* socket thread (inbound) and by the threads that open connections         *)
(* (outbound), listed in vnodes, borrowed by the socket and the message     *)
(* thread, moved to vnodesdisconnected when they are to end, and deleted by *)
(* the socket thread when nothing refers to them.                           *)
(*                                                                          *)
(* nrefcount is a plain int, changed under cs_vnodes except in connectnode; *)
(* a critical section of cs_vnodes is one step, except the socket thread's  *)
(* pass over vnodes, during which an opener's unlocked stores can happen.   *)
(* The grants of semoutbound (sync.h) have no lock at all: a release is     *)
(* three steps, the test of fhavegrant, the post and the store.             *)
(* Messages, buffers, banning and the choice of destinations are left out:  *)
(* what they do to a connection is to set fdisconnect at any time.          *)
(* A store through a pointer to a deleted node is modelled by its harmless  *)
(* outcome only, that it changes no other object; a read there may give     *)
(* anything.                                                                *)
(***************************************************************************)
EXTENDS Integers, FiniteSets

CONSTANTS
  Node,          \* cnode objects; one is used again after it was deleted
  Opener,        \* threads that call opennetworkconnection
  ByName,        \* those among them that connect by name
  Ungranted,     \* those that may do so without a grant: -connect and the RPC addnode onetry
  MaxOutbound,   \* max_outbound_connections, the initial value of semoutbound
  MaxInbound,    \* nmaxconnections - max_outbound_connections
  MaxRaces       \* bound: after that many races no connection is made any more

ASSUME NetAssumption ==
  /\ IsFiniteSet(Node) /\ IsFiniteSet(Opener)
  /\ Ungranted \subseteq ByName /\ ByName \subseteq Opener
  /\ MaxOutbound \in Nat
  /\ MaxInbound \in Nat
  /\ MaxRaces \in Nat

VARIABLES
  node,                \* [Node -> the fields of the object]
  vnodes,
  vnodesdisconnected,
  semaphore,           \* value of semoutbound
  socket,              \* threadsockethandler
  message,             \* threadmessagehandler
  opener,              \* [Opener -> its place, the node it points to, a count it read,
                       \*            whether it was called with a grant]
  shared,              \* history: nodes that a second opener took over (net.cpp:372)
  raced                \* history: how often a thread found a grant that another one was releasing

vars == <<node, vnodes, vnodesdisconnected, semaphore, socket, message, opener, shared, raced>>

Deleted == [live |-> FALSE, finbound |-> FALSE, named |-> FALSE, ungranted |-> FALSE,
            fnetworknode |-> FALSE, fdisconnect |-> FALSE, nrefcount |-> 0,
            grantoutbound |-> FALSE]

\* The constructor, followed by the creator's addref(); ungranted is history.
Created(inbound, named, ungranted) ==
  [live |-> TRUE, finbound |-> inbound, named |-> named, ungranted |-> ungranted,
   fnetworknode |-> FALSE, fdisconnect |-> FALSE, nrefcount |-> 1, grantoutbound |-> FALSE]

Idle == [pc |-> "idle", at |-> {}, count |-> 0, granted |-> FALSE]

Init ==
  /\ node = [n \in Node |-> Deleted]
  /\ vnodes = {}
  /\ vnodesdisconnected = {}
  /\ semaphore = MaxOutbound
  /\ socket = [pc |-> "top", todo |-> {}, cur |-> {}, copy |-> {}]
  /\ message = [pc |-> "copy", copy |-> {}]
  /\ opener = [o \in Opener |-> Idle]
  /\ shared = {}
  /\ raced = 0

\* cs_vnodes is free: the socket thread is not in its pass.
CsFree == socket.pc \notin {"disconnect", "post", "clear", "release"}

Pointed == socket.cur \cup socket.copy \cup message.copy \cup UNION {opener[o].at : o \in Opener}

\* An object that can be allocated: nothing points to where it was.
Fresh == {n \in Node : ~node[n].live} \ Pointed

Bit(b) == IF b THEN 1 ELSE 0

\* A thread is in the release() of the node's grant, after the test; at the given places.
ReleasingAt(places, n) ==
  \/ socket.pc \in places /\ n \in socket.cur
  \/ \E o \in Opener : opener[o].pc \in places /\ n \in opener[o].at

Releasing(n) == ReleasingAt({"post", "clear"}, n)

-----------------------------------------------------------------------------
(* threadsockethandler *)

\* Mutant: a borrowed node is not counted.
AddRefsNot(S) == node' = [n \in Node |-> node[n]]

AddRefs(S) == node' = [n \in Node |-> [node[n] EXCEPT !.nrefcount = @ + Bit(n \in S)]]
\* The references are released; of the nodes, some are to be disconnected.
Releases(S, lost) ==
  node' = [n \in Node |-> [node[n] EXCEPT !.nrefcount = @ - Bit(n \in S /\ node[n].live),
                                         !.fdisconnect = @ \/ n \in lost]]

\* The buffers of a node nobody refers to count as empty.
ToDisconnect(n) == node[n].fdisconnect \/ node[n].nrefcount <= 0

\* All flags are read at the start of the pass: one that is set during the pass
\* and still read by it might as well have been set before.
BeginPass ==
  /\ socket.pc = "top"
  /\ socket' = [socket EXCEPT !.pc = "disconnect", !.todo = {n \in vnodes : ToDisconnect(n)}]
  /\ UNCHANGED <<node, vnodes, vnodesdisconnected, semaphore, message, opener, shared, raced>>

\* Out of vnodes; grantoutbound.release() begins with its test.
Disconnect ==
  /\ socket.pc = "disconnect"
  /\ \E n \in socket.todo :
       /\ vnodes' = vnodes \ {n}
       /\ socket' = [socket EXCEPT !.pc = IF node[n].grantoutbound THEN "post" ELSE "release",
                                   !.todo = @ \ {n}, !.cur = {n}]
       /\ raced' = raced + Bit(node[n].grantoutbound /\ Releasing(n))
  /\ UNCHANGED <<node, vnodesdisconnected, semaphore, message, opener, shared>>

SocketPost ==
  /\ socket.pc = "post"
  /\ semaphore' = semaphore + 1
  /\ socket' = [socket EXCEPT !.pc = "clear"]
  /\ UNCHANGED <<node, vnodes, vnodesdisconnected, message, opener, shared, raced>>

SocketClear ==
  /\ socket.pc = "clear"
  /\ \E n \in socket.cur : node' = [node EXCEPT ![n].grantoutbound = FALSE]
  /\ socket' = [socket EXCEPT !.pc = "release"]
  /\ UNCHANGED <<vnodes, vnodesdisconnected, semaphore, message, opener, shared, raced>>

\* closesocketdisconnect(); the reference of the connection is dropped, if
\* fnetworknode or finbound.
PoolNode ==
  /\ socket.pc = "release"
  /\ \E n \in socket.cur :
       /\ node' = [node EXCEPT ![n].nrefcount =
                                 @ - Bit(node[n].fnetworknode \/ node[n].finbound),
                               ![n].fdisconnect = TRUE, ![n].ungranted = FALSE]
       /\ vnodesdisconnected' = vnodesdisconnected \cup {n}
  /\ socket' = [socket EXCEPT !.pc = "disconnect", !.cur = {}]
  /\ UNCHANGED <<vnodes, semaphore, message, opener, shared, raced>>

\* Deletes pooled nodes with no reference whose locks are free (busy: the ones the
\* message thread has locked); the destructor gives back a grant, if fhavegrant.
DeleteNodes ==
  /\ socket.pc = "disconnect" /\ socket.todo = {}
  /\ \E busy \in SUBSET message.copy :
       LET gone == {n \in vnodesdisconnected : node[n].nrefcount <= 0} \ busy
       IN  /\ vnodesdisconnected' = vnodesdisconnected \ gone
           /\ semaphore' = semaphore + Cardinality({n \in gone : node[n].grantoutbound})
           /\ node' = [n \in Node |-> IF n \in gone THEN Deleted ELSE node[n]]
           /\ raced' = raced + Bit(\E n \in gone : Releasing(n))
  /\ socket' = [socket EXCEPT !.pc = "accept"]
  /\ UNCHANGED <<vnodes, message, opener, shared>>

Inbound == {n \in vnodes : node[n].finbound}

\* Once per listening socket that has a caller.
Accept ==
  /\ socket.pc = "accept"
  /\ Cardinality(Inbound) < MaxInbound
  /\ raced < MaxRaces
  /\ \E n \in Fresh :
       /\ node' = [node EXCEPT ![n] = Created(TRUE, FALSE, FALSE)]
       /\ vnodes' = vnodes \cup {n}
       /\ shared' = shared \ {n}
  /\ UNCHANGED <<vnodesdisconnected, semaphore, socket, message, opener, raced>>

SocketCopy ==
  /\ socket.pc = "accept"
  /\ AddRefs(vnodes)
  /\ socket' = [socket EXCEPT !.pc = "service", !.copy = vnodes]
  /\ UNCHANGED <<vnodes, vnodesdisconnected, semaphore, message, opener, shared, raced>>

\* Some peers closed, sent garbage or kept silent too long; the copy is given back.
Service ==
  /\ socket.pc = "service"
  /\ \E lost \in SUBSET socket.copy : Releases(socket.copy, lost)
  /\ socket' = [socket EXCEPT !.pc = "top", !.copy = {}]
  /\ UNCHANGED <<vnodes, vnodesdisconnected, semaphore, message, opener, shared, raced>>

-----------------------------------------------------------------------------
(* threadmessagehandler *)

MessageCopy ==
  /\ message.pc = "copy" /\ CsFree
  /\ AddRefs(vnodes)
  /\ message' = [pc |-> "work", copy |-> vnodes]
  /\ UNCHANGED <<vnodes, vnodesdisconnected, semaphore, socket, opener, shared, raced>>

\* processmessages and sendmessages, which may give up a node.
Process ==
  /\ message.pc = "work"
  /\ \E n \in message.copy : Releases({}, {n})
  /\ UNCHANGED <<vnodes, vnodesdisconnected, semaphore, socket, message, opener, shared, raced>>

\* Mutant: only the nodes that are still connected are released.
MessageReleaseConnected ==
  /\ message.pc = "work" /\ CsFree
  /\ Releases({n \in message.copy : ~node[n].fdisconnect}, {})
  /\ message' = [pc |-> "copy", copy |-> {}]
  /\ UNCHANGED <<vnodes, vnodesdisconnected, semaphore, socket, opener, shared, raced>>

MessageRelease ==
  /\ message.pc = "work" /\ CsFree
  /\ Releases(message.copy, {})
  /\ message' = [pc |-> "copy", copy |-> {}]
  /\ UNCHANGED <<vnodes, vnodesdisconnected, semaphore, socket, opener, shared, raced>>

-----------------------------------------------------------------------------
(* opennetworkconnection and connectnode, in any opener, for one destination *)

Goto(o, pc, at) ==
  opener' = [opener EXCEPT ![o] = [@ EXCEPT !.pc = pc, !.at = at, !.count = 0]]

Return(o) == opener' = [opener EXCEPT ![o] = Idle]

\* findnode by network address, or by name.
Known(o) == \E n \in vnodes : o \notin ByName \/ node[n].named

\* Waits for a slot, if called with a grant, and gives it back at once if there is
\* a connection already.
Open(o, granted) ==
  /\ opener[o].pc = "idle"
  /\ granted \/ o \in Ungranted
  /\ granted => semaphore > 0
  /\ raced < MaxRaces
  /\ CsFree /\ ~Known(o)
  /\ semaphore' = semaphore - Bit(granted)
  /\ opener' = [opener EXCEPT ![o] = [Idle EXCEPT !.pc = IF o \in ByName THEN "connect" ELSE "find",
                                                  !.granted = granted]]
  /\ UNCHANGED <<node, vnodes, vnodesdisconnected, socket, message, shared, raced>>

\* connectnode looks again, by service: an inbound node has another port.
FindNode(o) ==
  /\ opener[o].pc = "find" /\ CsFree
  /\ IF vnodes \ Inbound = {}
     THEN Goto(o, "connect", {})
     ELSE \E n \in vnodes \ Inbound : Goto(o, "found", {n})
  /\ UNCHANGED <<node, vnodes, vnodesdisconnected, semaphore, socket, message, shared, raced>>

\* pnode->addref() without cs_vnodes: a load and a store.
AddRefLoad(o) ==
  /\ opener[o].pc = "found"
  /\ \E n \in opener[o].at :
       /\ opener' = [opener EXCEPT ![o].pc = "addref", ![o].count = node[n].nrefcount]
       /\ shared' = shared \cup {n}
  /\ UNCHANGED <<node, vnodes, vnodesdisconnected, semaphore, socket, message, raced>>

AddRefStore(o) ==
  /\ opener[o].pc = "addref"
  /\ \E n \in opener[o].at :
       node' = IF node[n].live THEN [node EXCEPT ![n].nrefcount = opener[o].count + 1] ELSE node
  /\ Goto(o, "move", opener[o].at)
  /\ UNCHANGED <<vnodes, vnodesdisconnected, semaphore, socket, message, shared, raced>>

\* The caller's grant goes out of scope.
ConnectFails(o) ==
  /\ opener[o].pc = "connect"
  /\ semaphore' = semaphore + Bit(opener[o].granted)
  /\ Return(o)
  /\ UNCHANGED <<node, vnodes, vnodesdisconnected, socket, message, shared, raced>>

ConnectNode(o) ==
  /\ opener[o].pc = "connect" /\ CsFree
  /\ \E n \in Fresh :
       /\ node' = [node EXCEPT ![n] = Created(FALSE, o \in ByName, ~opener[o].granted)]
       /\ vnodes' = vnodes \cup {n}
       /\ shared' = shared \ {n}
       /\ Goto(o, IF opener[o].granted THEN "move" ELSE "mark", {n})
  /\ UNCHANGED <<vnodesdisconnected, semaphore, socket, message, raced>>

\* grantoutbound->moveto(pnode->grantoutbound) begins with a release() of the
\* node's own grant.
MoveTo(o) ==
  /\ opener[o].pc = "move"
  /\ \E n \in opener[o].at :
       \E have \in IF node[n].live THEN {node[n].grantoutbound} ELSE BOOLEAN :
         /\ Goto(o, IF have THEN "post" ELSE "store", {n})
         /\ raced' = raced + Bit(have /\ (~node[n].live \/ Releasing(n)))
  /\ UNCHANGED <<node, vnodes, vnodesdisconnected, semaphore, socket, message, shared>>

MoveToPost(o) ==
  /\ opener[o].pc = "post"
  /\ semaphore' = semaphore + 1
  /\ Goto(o, "clear", opener[o].at)
  /\ UNCHANGED <<node, vnodes, vnodesdisconnected, socket, message, shared, raced>>

\* fhavegrant of the node's grant is stored.
SetGrant(o, have) ==
  \E n \in opener[o].at :
    node' = IF node[n].live THEN [node EXCEPT ![n].grantoutbound = have] ELSE node

MoveToClear(o) ==
  /\ opener[o].pc = "clear"
  /\ SetGrant(o, FALSE)
  /\ Goto(o, "store", opener[o].at)
  /\ UNCHANGED <<vnodes, vnodesdisconnected, semaphore, socket, message, shared, raced>>

\* Mutant: the caller's fhavegrant is not cleared, so that its destructor posts too.
MoveToStoreKeeping(o) ==
  /\ opener[o].pc = "store"
  /\ SetGrant(o, TRUE)
  /\ semaphore' = semaphore + 1
  /\ Goto(o, "mark", opener[o].at)
  /\ UNCHANGED <<vnodes, vnodesdisconnected, socket, message, shared, raced>>

\* The caller's grant is now the node's.
MoveToStore(o) ==
  /\ opener[o].pc = "store"
  /\ SetGrant(o, TRUE)
  /\ Goto(o, "mark", opener[o].at)
  /\ UNCHANGED <<vnodes, vnodesdisconnected, semaphore, socket, message, shared, raced>>

\* fnetworknode and, for a one-shot, foneshot are set.
Mark(o) ==
  /\ opener[o].pc = "mark"
  /\ \E n \in opener[o].at :
       node' = IF node[n].live THEN [node EXCEPT ![n].fnetworknode = TRUE] ELSE node
  /\ Return(o)
  /\ UNCHANGED <<vnodes, vnodesdisconnected, semaphore, socket, message, shared, raced>>

-----------------------------------------------------------------------------
SocketThread ==
  \/ BeginPass \/ Disconnect \/ SocketPost \/ SocketClear \/ PoolNode \/ DeleteNodes
  \/ Accept \/ SocketCopy \/ Service

MessageThread == MessageCopy \/ Process \/ MessageRelease

OpenerThread(o) ==
  \/ \E granted \in BOOLEAN : Open(o, granted)
  \/ FindNode(o) \/ AddRefLoad(o) \/ AddRefStore(o) \/ ConnectFails(o) \/ ConnectNode(o)
  \/ MoveTo(o) \/ MoveToPost(o) \/ MoveToClear(o) \/ MoveToStore(o) \/ Mark(o)

Next == SocketThread \/ MessageThread \/ \E o \in Opener : OpenerThread(o)

Spec == Init /\ [][Next]_vars

\* Both threads loop for ever.  The message thread, done with its nodes, gets
\* cs_vnodes in the end: the socket thread leaves it for select() in every round.
FairSpec == Spec /\ WF_vars(SocketThread) /\ SF_vars(MessageRelease)

-----------------------------------------------------------------------------
TypeOK ==
  /\ node \in [Node -> [live : BOOLEAN, finbound : BOOLEAN, named : BOOLEAN,
                        ungranted : BOOLEAN, fnetworknode : BOOLEAN, fdisconnect : BOOLEAN,
                        nrefcount : Int, grantoutbound : BOOLEAN]]
  /\ vnodes \subseteq Node /\ vnodesdisconnected \subseteq Node
  /\ semaphore \in Int
  /\ socket \in [pc : {"top", "disconnect", "post", "clear", "release", "accept", "service"},
                 todo : SUBSET Node, cur : SUBSET Node, copy : SUBSET Node]
  /\ message \in [pc : {"copy", "work"}, copy : SUBSET Node]
  /\ opener \in [Opener -> [pc : {"idle", "find", "found", "addref", "connect", "move",
                                  "post", "clear", "store", "mark"},
                            at : SUBSET Node, count : Int, granted : BOOLEAN]]
  /\ shared \subseteq Node
  /\ raced \in Nat

Borrowers(n) == Bit(n \in socket.copy) + Bit(n \in message.copy)

\* The opener is past connectnode and not done with the node yet.
Opened(o) == opener[o].pc \in {"move", "post", "clear", "store", "mark"}

\* "wait until threads are done using it" (net.cpp:754): a node in the copy of
\* vnodes that the socket thread or the message thread works on has not been
\* deleted, nor has one that its opener still moves the grant to and marks, and the
\* assert of getrefcount() holds, unless a second opener has taken the node over
\* without the lock.
BorrowedIsLive ==
  \A n \in Node \ shared :
    /\ n \in socket.copy \cup message.copy => node[n].live
    /\ \A o \in Opener : Opened(o) /\ n \in opener[o].at => node[n].live
    /\ node[n].nrefcount >= 0

\* The opener's grant is still its own.
Holds(o) == opener[o].granted /\ opener[o].pc # "mark"

\* The nodes whose grant stands for a slot: the ones of which it was not posted yet.
Occupying == {n \in Node : node[n].grantoutbound /\ ~ReleasingAt({"clear"}, n)}

\* max_outbound_connections (net.cpp:45): slots of semoutbound are never
\* multiplied by moving, taking over, releasing and destroying grants in several
\* threads, until a thread has found a grant that another one is just releasing
\* (sync.h:235-241 is not atomic, and both post it).  Every connection that was opened
\* with a grant occupies a slot, through its own grant or its opener's; the ones of
\* -connect and of the RPC onetry occupy none.
SlotsBounded ==
  /\ raced = 0 => semaphore + Cardinality({o \in Opener : Holds(o)}) + Cardinality(Occupying)
                   <= MaxOutbound
  /\ \A n \in vnodes \ Inbound :
       \/ node[n].ungranted
       \/ node[n].grantoutbound
       \/ \E o \in Opener : Holds(o) /\ opener[o].at = {n}
  /\ Cardinality(Inbound) <= MaxInbound

\* A disconnected node on which only the two threads hold references, and to
\* which no opener points, is deleted in the end (net.cpp:750-777), which gives
\* back its slot and tells the other components with finalizenode.
PoolDrains ==
  \A n \in Node :
    (/\ n \in vnodesdisconnected
     /\ node[n].nrefcount = Borrowers(n)
     /\ \A o \in Opener : n \notin opener[o].at) ~> n \notin vnodesdisconnected

\* "hold in disconnected pool until all refs are released" (net.cpp:744): the
\* references that keep a node in the pool are held by a thread.
PoolIsReferenced ==
  \A n \in vnodesdisconnected : node[n].nrefcount > Borrowers(n) => \E o \in Opener : n \in opener[o].at
=============================================================================
