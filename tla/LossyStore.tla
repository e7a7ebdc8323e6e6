----------------------------- MODULE LossyStore -----------------------------
(***************************************************************************)
(* What a cache promises the code that reads it: a key answers with the    *)
(* value of its last Put, or with None.  Keys may be forgotten at any time *)
(* and for any reason; a value is never invented, moved to another key or  *)
(* taken back to an older one, and a Put forgets nothing.                  *)
(***************************************************************************)
CONSTANTS Keys, Values, None

VARIABLE store

Init == store = [k \in Keys |-> None]

Put(k, v) == store' = [store EXCEPT ![k] = v]

Forget(forgotten) ==
  store' = [k \in Keys |-> IF k \in forgotten THEN None ELSE store[k]]

Next ==
  \/ \E k \in Keys, v \in Values : Put(k, v)
  \/ \E forgotten \in SUBSET Keys : Forget(forgotten)

Spec == Init /\ [][Next]_store
=============================================================================
