---------------------------- MODULE WriteBuffer -----------------------------
(***************************************************************************)
(* What the pending queue promises, without drains, locks or failures: a   *)
(* queued write is published at most once, under an item of its own, and   *)
(* leaves the buffer only when its content is kept.                        *)
(***************************************************************************)
CONSTANTS Recs, Items, Titles, ItemOf, PayloadOf, TitleOf, NoSpan, NoItem

VARIABLES
  queued, retired,  \* records in the queue, and records that left it
  parked,           \* records kept under resolved/
  pool,             \* [Items -> span and title of the item, or NoItem]
  sourced           \* items with a source ledger record

vars == <<queued, retired, parked, pool, sourced>>

Init ==
  /\ queued = {} /\ retired = {} /\ parked = {} /\ sourced = {}
  /\ pool = [i \in Items |-> NoItem]

Accept(r) ==
  /\ r \notin queued \cup retired
  /\ queued' = queued \cup {r}
  /\ UNCHANGED <<retired, parked, pool, sourced>>

Publish(r) ==
  /\ r \in queued /\ pool[ItemOf[r]] = NoItem
  /\ pool' = [pool EXCEPT ![ItemOf[r]] = [span |-> PayloadOf[r],
                                          title |-> TitleOf[PayloadOf[r]]]]
  /\ UNCHANGED <<queued, retired, parked, sourced>>

Source(i) ==
  /\ pool[i] # NoItem
  /\ sourced' = sourced \cup {i}
  /\ UNCHANGED <<queued, retired, parked, pool>>

Park(r) ==
  /\ r \in queued
  /\ parked' = parked \cup {r}
  /\ UNCHANGED <<queued, retired, pool, sourced>>

Published(r) ==
  /\ pool[ItemOf[r]] # NoItem /\ pool[ItemOf[r]].span = PayloadOf[r]
  /\ ItemOf[r] \in sourced
Merged(r) == \E i \in Items : pool[i] # NoItem /\ pool[i].title = TitleOf[PayloadOf[r]]

Retire(r) ==
  /\ r \in queued
  /\ Published(r) \/ r \in parked \/ Merged(r)
  /\ queued' = queued \ {r} /\ retired' = retired \cup {r}
  /\ UNCHANGED <<parked, pool, sourced>>

\* Somebody else writes an item that no record owns.
Foreign(i, t) ==
  /\ pool[i] = NoItem /\ \A r \in Recs : ItemOf[r] # i
  /\ pool' = [pool EXCEPT ![i] = [span |-> NoSpan, title |-> t]]
  /\ UNCHANGED <<queued, retired, parked, sourced>>

Next ==
  \/ \E r \in Recs : Accept(r) \/ Publish(r) \/ Park(r) \/ Retire(r)
  \/ \E i \in Items : Source(i) \/ \E t \in Titles : Foreign(i, t)

Spec == Init /\ [][Next]_vars
=============================================================================
