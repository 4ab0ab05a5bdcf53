------------------------------- MODULE Outbox -------------------------------
(***************************************************************************)
(* What a room's persistence queue promises, without keys, alarms, copies  *)
(* or retries: an event that is issued stays pending until it is stored,   *)
(* dropped on purpose, or replaced by a newer one.  Implemented by         *)
(* DeliveryQueue.                                                          *)
(***************************************************************************)
EXTENDS Naturals

VARIABLES
  issued,   \* how many events have been issued; their ids are 1..issued
  pending,  \* ids the outbox still answers for
  stored,   \* ids the API has stored
  dropped   \* ids given up on purpose

outbox == <<issued, pending, stored, dropped>>

Init == issued = 0 /\ pending = {} /\ stored = {} /\ dropped = {}

(* A new event becomes pending; it may replace one pending event.           *)
Issue ==
  /\ issued' = issued + 1
  /\ \E old \in SUBSET pending :
       /\ \A i, j \in old : i = j
       /\ pending' = (pending \ old) \cup {issued + 1}
  /\ UNCHANGED <<stored, dropped>>

(* The API stores an event it was sent, pending or not, at most once.       *)
Store(i) ==
  /\ i \in 1..issued \ stored
  /\ stored' = stored \cup {i}
  /\ UNCHANGED <<issued, pending, dropped>>

(* The outbox lets go of an event the API has stored.                       *)
Settle(i) ==
  /\ i \in pending \cap stored
  /\ pending' = pending \ {i}
  /\ UNCHANGED <<issued, stored, dropped>>

(* The outbox gives an event up: refused for good, or tried too often.      *)
Drop(i) ==
  /\ i \in pending
  /\ pending' = pending \ {i}
  /\ dropped' = dropped \cup {i}
  /\ UNCHANGED <<issued, stored>>

Next == Issue \/ \E i \in 1..issued : Store(i) \/ Settle(i) \/ Drop(i)

Spec == Init /\ [][Next]_outbox
=============================================================================
