------------------------------ MODULE UtxoSet ------------------------------
(***************************************************************************)
(* What the stack of coin views promises to validation: three versions of  *)
(* one map from transaction ids to coins, each with the block it belongs   *)
(* to.  durable survives a crash, current is what the node works with, and *)
(* working is a private copy that is committed or abandoned as a whole,    *)
(* and committed only when its block was named after its last change.      *)
(***************************************************************************)
CONSTANTS Txid, Coins, Pruned, Hash, NoHash

VARIABLES durable, current, working, phase

vars == <<durable, current, working, phase>>

View == [coins : [Txid -> Coins \cup {Pruned}], best : Hash \cup {NoHash}]

Init ==
  /\ durable = [coins |-> [t \in Txid |-> Pruned], best |-> NoHash]
  /\ current = durable
  /\ working = durable
  /\ phase = "closed"

Open ==
  /\ phase = "closed"
  /\ phase' = "open"
  /\ UNCHANGED <<durable, current, working>>

Write(t, v) ==
  /\ phase # "closed"
  /\ working' = [working EXCEPT !.coins = [working.coins EXCEPT ![t] = v]]
  /\ phase' = "open"
  /\ UNCHANGED <<durable, current>>

Stamp(h) ==
  /\ phase = "open"
  /\ working' = [working EXCEPT !.best = h]
  /\ phase' = "stamped"
  /\ UNCHANGED <<durable, current>>

Commit ==
  /\ phase = "stamped"
  /\ current' = working
  /\ phase' = "closed"
  /\ UNCHANGED <<durable, working>>

Abandon ==
  /\ phase # "closed"
  /\ working' = current
  /\ phase' = "closed"
  /\ UNCHANGED <<durable, current>>

Persist ==
  /\ phase = "closed"
  /\ durable' = current
  /\ UNCHANGED <<current, working, phase>>

Crash ==
  /\ current' = durable
  /\ working' = durable
  /\ phase' = "closed"
  /\ UNCHANGED durable

Next ==
  \/ Open \/ Commit \/ Abandon \/ Persist \/ Crash
  \/ \E t \in Txid, v \in Coins \cup {Pruned} : Write(t, v)
  \/ \E h \in Hash : Stamp(h)

Spec == Init /\ [][Next]_vars
=============================================================================
