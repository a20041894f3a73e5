----------------------------- MODULE MC_AddrMan -----------------------------
(* Four services on three addresses (a1 and a2 differ only in their port), three *)
(* sources, three new buckets and two tried slots.                             *)
EXTENDS AddrMan
CONSTANTS a1, a2, b, c, near, far, seed
MCService == {a1, a2, b, c}
MCNet == [s \in MCService |-> IF s = a2 THEN a1 ELSE s]
MCSource == {near, far, seed}
MCBuckets == 1..3
MCTried == 1..1
MCPositions == 1..2
MCHeard == ({a1} \X MCSource) \cup {<<a2, near>>, <<b, near>>, <<b, far>>, <<c, far>>}
\* One bucket per source.
MCGetNewBucket == [x \in MCService \X MCSource |->
                     CASE x[2] = near -> 1 [] x[2] = seed -> 2 [] x[2] = far -> 3]
\* All compete for one place of buckets 1 and 2; in bucket 3 only b and c do.
MCNewPosition == [x \in MCService \X MCBuckets |->
                    IF x[2] = 3 /\ x[1] \in {a1, a2} THEN 2 ELSE 1]
MCGetTriedBucket == [s \in MCService |-> 1]
\* b and c evict each other; a2 and c as well.
MCTriedPosition == [s \in MCService |-> IF s = a1 THEN 2 ELSE 1]
=============================================================================
