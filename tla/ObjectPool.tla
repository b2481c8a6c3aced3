----------------------------- MODULE ObjectPool -----------------------------
(***************************************************************************)
(* What an object pool promises its clients, with nothing of how it keeps  *)
(* its objects: an object is lent to at most one thread at a time, only    *)
(* the thread it is lent to gives it back, and an object from outside the  *)
(* slab is lent only while the whole slab is.                              *)
(***************************************************************************)
CONSTANTS Threads, Slab, Extra

VARIABLE owned   \* owned[t]: the objects lent to thread t

Init == owned = [t \in Threads |-> {}]

Free(obj) == \A t \in Threads : obj \notin owned[t]

Lend(t, obj) ==
  /\ Free(obj)
  /\ obj \in Extra => ~ \E other \in Slab : Free(other)
  /\ owned' = [owned EXCEPT ![t] = @ \cup {obj}]

GiveBack(t, obj) ==
  /\ obj \in owned[t]
  /\ owned' = [owned EXCEPT ![t] = @ \ {obj}]

Next ==
  \E t \in Threads, obj \in Slab \cup Extra : Lend(t, obj) \/ GiveBack(t, obj)

Spec == Init /\ [][Next]_owned
=============================================================================
