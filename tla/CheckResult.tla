----------------------------- MODULE CheckResult -----------------------------
(***************************************************************************)
(* What ccheckqueue promises connectblock, with no threads in sight: checks *)
(* are collected under a control object, and wait() (or the destructor)    *)
(* answers whether every one of them succeeds.                             *)
(***************************************************************************)
CONSTANTS Checks, Bad

VARIABLES
  open,     \* a ccheckqueuecontrol exists
  added,    \* the checks added under it
  ret       \* the answer of the last wait()

vars == <<open, added, ret>>

Init == open = FALSE /\ added = {} /\ ret = TRUE

Begin == ~open /\ open' = TRUE /\ added' = {} /\ ret' = ret

Add == open /\ open' = TRUE /\ ret' = ret
       /\ \E new \in SUBSET (Checks \ added) : added' = added \cup new

Finish == open /\ open' = FALSE /\ added' = added
          /\ ret' = (added \cap Bad = {})

Next == Begin \/ Add \/ Finish

Spec == Init /\ [][Next]_vars
=============================================================================
