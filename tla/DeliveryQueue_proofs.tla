------------------------- MODULE DeliveryQueue_proofs -------------------------
(***************************************************************************)
(* Theorems about the persistence outbox of a room, for any number of      *)
(* documents, events, attempts and restarts.                               *)
(***************************************************************************)
EXTENDS DeliveryQueue, TLAPS

(* The backoff stays between no delay and the ceiling, whatever the attempt. *)
LEMMA BackoffInRange ==
  ASSUME NEW n PROVE deliveryRetryDelay(n) \in 0..RetryMax
  BY TimesAssumption DEF deliveryRetryDelay

(* A coalesced delivery always gets a due time that is not in the past.      *)
LEMMA CoalescedDueInRange ==
  ASSUME NEW age \in NoTime..MaxWait
  PROVE  CoalescedDue(age) \in 0..MaxWait /\ (age >= 0 => age + CoalescedDue(age) <= MaxWait)
  BY TimesAssumption DEF CoalescedDue, NoTime

(* Copies of typed deliveries are typed, and ageing keeps key and id.       *)
LEMMA CopyTypes ==
  /\ \A q \in Delivery : CopyOf(q) \in Copy
  /\ \A c \in Copy : Aged(c) \in Copy /\ Aged(c).key = c.key /\ Aged(c).id = c.id
  BY TimesAssumption DEF Delivery, Copy, CopyOf, Aged, Older, NoTime

(* A copy put back with a legal count and due time is a delivery.           *)
LEMMA StoredType ==
  ASSUME NEW c \in Copy, NEW n \in 0..(MaxAttempts - 1), NEW due \in Delay
  PROVE  Stored(c, n, due) \in Delivery
  BY DEF Copy, Delivery, Stored

(* Every due time the code computes is a Delay.                             *)
LEMMA DelayRange ==
  /\ NoTime \in Delay
  /\ 0..MaxWait \subseteq Delay /\ 0..RetryMax \subseteq Delay
  /\ \A d \in Delay : Sooner(d) \in Delay
  /\ \A d \in Delay : scheduleAlarmAt(d) \in {d, alarm}
  BY TimesAssumption DEF Delay, NoTime, Sooner, scheduleAlarmAt

(* The initial state has the types the code relies on.                       *)
LEMMA InitType == Init => TypeOK
  BY LimitsAssumption, TimesAssumption DEF Init, TypeOK, Delay, NoTime, Id

(* Every step preserves the types.                                          *)
LEMMA NextType == TypeOK /\ [Next]_vars => TypeOK'
<1> SUFFICES ASSUME TypeOK, [Next]_vars PROVE TypeOK'
  OBVIOUS
<1> USE LimitsAssumption
<1>1. CASE RecordEvent
  <2> DEFINE i == recorded + 1
             c == [key |-> i, id |-> i, attempts |-> 0, age |-> NoTime]
  <2>1. i \in Id /\ i \in 1..MaxRecorded /\ i \in Key
    BY <1>1 DEF RecordEvent, TypeOK, Id, Key
  <2>2. c \in Copy
    BY <2>1, TimesAssumption DEF Copy, NoTime
  <2>3. Stored(c, 0, NoTime) \in Delivery
    BY <2>2, StoredType, DelayRange
  <2>4. queue' \subseteq Delivery
    BY <1>1, <2>3 DEF RecordEvent, Put, TypeOK
  <2>5. flights' \subseteq Flight
    BY <1>1, <2>2 DEF RecordEvent, TypeOK, Flight
  <2>6. events' \subseteq 1..recorded' /\ recorded' \in 0..MaxRecorded
    BY <1>1 DEF RecordEvent, TypeOK
  <2> QED BY <1>1, <2>4, <2>5, <2>6 DEF RecordEvent, TypeOK
<1>2. ASSUME NEW k \in Coalesced, RecordSnapshot(k) PROVE TypeOK'
  <2> DEFINE i == recorded + 1
             cur == {q \in queue : q.key = k}
             c(age) == [key |-> k, id |-> i, attempts |-> 0, age |-> age]
  <2>1. i \in Id /\ i \in 1..MaxRecorded /\ k \in Key
    BY <1>2 DEF RecordSnapshot, TypeOK, Id, Key
  <2>2. PICK age \in IF cur = {} THEN {0} ELSE {q.age : q \in cur} :
           /\ queue' = Put(Stored(c(age), 0, CoalescedDue(age)))
           /\ alarm' = scheduleAlarmAt(CoalescedDue(age))
    BY <1>2 DEF RecordSnapshot
  <2>3. age \in NoTime..MaxWait
    BY <2>2, TimesAssumption DEF TypeOK, Delivery, NoTime
  <2>4. c(age) \in Copy
    BY <2>1, <2>3 DEF Copy
  <2>5. CoalescedDue(age) \in Delay
    BY <2>3, CoalescedDueInRange, DelayRange
  <2>6. queue' \subseteq Delivery
    BY <2>2, <2>4, <2>5, StoredType DEF Put, TypeOK
  <2>7. alarm' \in Delay
    BY <2>2, <2>5, DelayRange DEF TypeOK
  <2>8. latest' \in [Coalesced -> 0..MaxRecorded]
    BY <1>2, <2>1 DEF RecordSnapshot, TypeOK
  <2>9. events' \subseteq 1..recorded' /\ recorded' \in 0..MaxRecorded
    BY <1>2 DEF RecordSnapshot, TypeOK
  <2> HIDE DEF c
  <2> QED BY <1>2, <2>6, <2>7, <2>8, <2>9 DEF RecordSnapshot, TypeOK
<1>3. CASE AlarmFires
  BY <1>3, CopyTypes, DelayRange DEF AlarmFires, TypeOK
<1>4. ASSUME NEW c \in listing, AlarmDelivers(c) PROVE TypeOK'
  BY <1>4 DEF AlarmDelivers, TypeOK, Flight
<1>5. CASE AlarmReturns
  <2>1. \A q \in queue : Wakeup(q) \in Delay
    BY TimesAssumption, DelayRange DEF Wakeup, TypeOK, Delivery
  <2> QED BY <1>5, <2>1, DelayRange DEF AlarmReturns, NextWakeup, TypeOK
<1>6. ASSUME NEW f \in flights, Answer(f) PROVE TypeOK'
  <2>1. \A fate \in {"accepted", "rejected", "failed"} :
          [f EXCEPT !.fate = fate] \in Flight
    BY DEF TypeOK, Flight
  <2>2. f.copy.id \in Id
    BY DEF TypeOK, Flight, Copy
  <2>3. CASE IngestAccepts(f)
    BY <2>1, <2>2, <2>3 DEF IngestAccepts, FateOf, TypeOK
  <2>4. CASE IngestRejects(f)
    BY <2>1, <2>4 DEF IngestRejects, FateOf, TypeOK
  <2>5. CASE PostFails(f)
    BY <2>1, <2>5 DEF PostFails, FateOf, TypeOK
  <2> QED BY <1>6, <2>3, <2>4, <2>5 DEF Answer
<1>7. ASSUME NEW f \in flights, Deliver(f) PROVE TypeOK'
  <2>1. f.copy \in Copy /\ f.copy.id \in Id
    BY DEF TypeOK, Flight, Copy
  <2>2. deleteDeliveryIfCurrent(f.copy) \subseteq Delivery
    BY DEF deleteDeliveryIfCurrent, TypeOK
  <2>3. Discard(f.copy) \subseteq Id
    BY <2>1 DEF Discard, TypeOK
  <2>4. Failed(f) => failures' \in [Id -> Nat]
    BY <2>1 DEF Failed, TypeOK
  <2>5. CASE DeliverSettles(f)
    BY <2>2, <2>3, <2>5 DEF DeliverSettles, TypeOK
  <2>6. CASE DeliverGivesUp(f)
    BY <2>2, <2>3, <2>4, <2>6 DEF DeliverGivesUp, Failed, TypeOK
  <2>7. CASE DeliverRetries(f)
    <3> DEFINE n == f.copy.attempts + 1
               due == deliveryRetryDelay(n)
    <3>1. n \in 0..(MaxAttempts - 1)
      BY <2>1, <2>7 DEF DeliverRetries, Copy
    <3>2. due \in Delay
      BY BackoffInRange, DelayRange
    <3>3. Stored(f.copy, n, due) \in Delivery
      BY <2>1, <3>1, <3>2, StoredType
    <3>4. queue' = Put(Stored(f.copy, n, due)) /\ alarm' = scheduleAlarmAt(due)
      BY <2>7 DEF DeliverRetries
    <3>5. queue' \subseteq Delivery
      BY <3>3, <3>4 DEF Put, TypeOK
    <3>6. alarm' \in Delay
      BY <3>2, <3>4, DelayRange DEF TypeOK
    <3> QED BY <2>4, <2>7, <3>5, <3>6 DEF DeliverRetries, Failed, TypeOK
  <2>8. CASE DeliverSuperseded(f)
    BY <2>4, <2>8 DEF DeliverSuperseded, Failed, TypeOK
  <2>9. CASE Unheard(f)
    BY <2>9 DEF Unheard, TypeOK
  <2> QED BY <1>7, <2>5, <2>6, <2>7, <2>8, <2>9 DEF Deliver
<1>8. CASE Elapse
  <2>1. ASSUME NEW q \in Delivery
        PROVE  [q EXCEPT !.age = Older(@), !.due = Sooner(@)] \in Delivery
    <3>1. Older(q.age) \in NoTime..MaxWait
      BY TimesAssumption DEF Delivery, Older, NoTime
    <3>2. Sooner(q.due) \in Delay
      BY DelayRange DEF Delivery
    <3> QED BY <3>1, <3>2 DEF Delivery
  <2>2. \A f \in Flight : [f EXCEPT !.copy = Aged(@)] \in Flight
    BY CopyTypes DEF Flight
  <2> QED BY <1>8, <2>1, <2>2, CopyTypes, DelayRange DEF Elapse, TypeOK
<1>9. CASE Crash
  <2>1. \A f \in Flight : [f EXCEPT !.by = "none"] \in Flight
    BY DEF Flight
  <2>2. 0 \in Delay
    BY DelayRange, TimesAssumption
  <2> QED BY <1>9, <2>1, <2>2 DEF Crash, TypeOK
<1>10. CASE UNCHANGED vars
  BY <1>10 DEF vars, TypeOK
<1> QED
  BY <1>1, <1>2, <1>3, <1>4, <1>5, <1>6, <1>7, <1>8, <1>9, <1>10 DEF Next, Alarm

(* The outbox never holds anything but well-formed deliveries, copies and    *)
(* POSTs, with attempt counts below the limit and waits within the bounds.   *)
THEOREM TypeCorrect == Spec => []TypeOK
  BY InitType, NextType, PTL DEF Spec

-----------------------------------------------------------------------------
(* How one step changes what the outbox holds.                              *)

(* Time passing renames nothing.                                            *)
LEMMA ElapseKeepsPairs ==
  ASSUME TypeOK, Elapse
  PROVE  /\ \A p \in queue' : \E q \in queue : p.key = q.key /\ p.id = q.id
                                /\ p = [q EXCEPT !.age = Older(@), !.due = Sooner(@)]
         /\ \A q \in queue : \E p \in queue' : p.key = q.key /\ p.id = q.id
         /\ \A d \in listing' : \E c \in listing : d.key = c.key /\ d.id = c.id
         /\ \A g \in flights' : \E f \in flights :
              /\ g.copy.key = f.copy.key /\ g.copy.id = f.copy.id
              /\ g.fate = f.fate /\ g.by = f.by
<1>1. \A q \in queue :
        LET p == [q EXCEPT !.age = Older(@), !.due = Sooner(@)]
        IN  p.key = q.key /\ p.id = q.id
  BY DEF TypeOK, Delivery
<1>2. \A c \in listing : Aged(c).key = c.key /\ Aged(c).id = c.id
  BY CopyTypes DEF TypeOK
<1>3. \A f \in flights :
        LET g == [f EXCEPT !.copy = Aged(@)]
        IN  /\ g.copy.key = f.copy.key /\ g.copy.id = f.copy.id
            /\ g.fate = f.fate /\ g.by = f.by
  BY CopyTypes DEF TypeOK, Flight
<1>4. queue' = {[q EXCEPT !.age = Older(@), !.due = Sooner(@)] : q \in queue}
  BY DEF Elapse
<1>5. \A p \in queue' : \E q \in queue :
         p.key = q.key /\ p.id = q.id /\ p = [q EXCEPT !.age = Older(@), !.due = Sooner(@)]
  BY <1>1, <1>4
<1>6. \A q \in queue : \E p \in queue' : p.key = q.key /\ p.id = q.id
  BY <1>1, <1>4
<1>7. \A d \in listing' : \E c \in listing : d.key = c.key /\ d.id = c.id
  BY <1>2 DEF Elapse
<1>8. \A g \in flights' : \E f \in flights :
        /\ g.copy.key = f.copy.key /\ g.copy.id = f.copy.id
        /\ g.fate = f.fate /\ g.by = f.by
  BY <1>3 DEF Elapse
<1> QED BY <1>5, <1>6, <1>7, <1>8

(* Answering a POST changes its fate and nothing of its copy.               *)
LEMMA FatedFlight ==
  ASSUME NEW f \in Flight, NEW fate, FateOf(f, fate), f \in flights, flights \subseteq Flight
  PROVE  \A g \in flights' :
           \/ g \in flights
           \/ g.copy = f.copy /\ g.fate = fate /\ g.by = f.by
  BY DEF FateOf, Flight

(* A step either holds no new pair, or adds the pair of the newly recorded   *)
(* event or snapshot.                                                       *)
LEMMA HeldStep ==
  ASSUME TypeOK, [Next]_vars
  PROVE  \/ /\ Held' \subseteq Held
            /\ UNCHANGED <<recorded, events, latest>>
         \/ /\ Held' \subseteq Held \cup {<<recorded + 1, recorded + 1>>}
            /\ recorded' = recorded + 1
            /\ events' = events \cup {recorded + 1} /\ latest' = latest
         \/ \E k \in Coalesced :
              /\ Held' \subseteq Held \cup {<<k, recorded + 1>>}
              /\ recorded' = recorded + 1
              /\ events' = events
              /\ latest' = [latest EXCEPT ![k] = recorded + 1]
<1> DEFINE Same == Held' \subseteq Held /\ UNCHANGED <<recorded, events, latest>>
<1>1. CASE RecordEvent
  BY <1>1 DEF RecordEvent, Put, Stored, Held
<1>2. ASSUME NEW k \in Coalesced, RecordSnapshot(k)
      PROVE  /\ Held' \subseteq Held \cup {<<k, recorded + 1>>}
             /\ recorded' = recorded + 1 /\ events' = events
             /\ latest' = [latest EXCEPT ![k] = recorded + 1]
  BY <1>2 DEF RecordSnapshot, Put, Stored, Held
<1>3. CASE AlarmFires
  BY <1>3 DEF AlarmFires, Held, CopyOf
<1>4. ASSUME NEW c \in listing, AlarmDelivers(c) PROVE Same
  BY <1>4 DEF AlarmDelivers, Held
<1>5. CASE AlarmReturns
  BY <1>5 DEF AlarmReturns, Held
<1>6. ASSUME NEW f \in flights, Answer(f) PROVE Same
  <2>1. \E fate : FateOf(f, fate)
    BY <1>6 DEF Answer, IngestAccepts, IngestRejects, PostFails
  <2>2. \A g \in flights' : g \in flights \/ g.copy = f.copy
    BY <2>1, FatedFlight DEF TypeOK
  <2> QED BY <1>6, <2>2 DEF Answer, IngestAccepts, IngestRejects, PostFails, Held
<1>7. ASSUME NEW f \in flights, Deliver(f) PROVE Same
  <2>1. CASE DeliverSettles(f)
    BY <2>1 DEF DeliverSettles, deleteDeliveryIfCurrent, Held
  <2>2. CASE DeliverGivesUp(f)
    BY <2>2 DEF DeliverGivesUp, Failed, deleteDeliveryIfCurrent, Held
  <2>3. CASE DeliverRetries(f)
    BY <2>3 DEF DeliverRetries, Failed, Put, Stored, Held
  <2>4. CASE DeliverSuperseded(f)
    BY <2>4 DEF DeliverSuperseded, Failed, Held
  <2>5. CASE Unheard(f)
    BY <2>5 DEF Unheard, Held
  <2> QED BY <1>7, <2>1, <2>2, <2>3, <2>4, <2>5 DEF Deliver
<1>8. CASE Elapse
  <2>1. UNCHANGED <<recorded, events, latest>>
    BY <1>8 DEF Elapse
  <2>2. /\ \A p \in queue' : \E q \in queue : p.key = q.key /\ p.id = q.id
        /\ \A d \in listing' : \E c \in listing : d.key = c.key /\ d.id = c.id
        /\ \A g \in flights' : \E f \in flights :
             g.copy.key = f.copy.key /\ g.copy.id = f.copy.id
    BY <1>8, ElapseKeepsPairs
  <2>3. Held' \subseteq Held
    BY <2>2 DEF Held
  <2> QED BY <2>1, <2>3
<1>9. CASE Crash
  <2>1. \A g \in flights' : \E f \in flights : g.copy = f.copy
    BY <1>9 DEF Crash, TypeOK, Flight
  <2> QED BY <1>9, <2>1 DEF Crash, Held
<1>10. CASE UNCHANGED vars
  BY <1>10 DEF vars, Held
<1> QED
  BY <1>1, <1>2, <1>3, <1>4, <1>5, <1>6, <1>7, <1>8, <1>9, <1>10 DEF Next, Alarm

(* A step hands out one fresh id, for one key, and no other.                *)
LEMMA HeldInvariants ==
  ASSUME TypeOK, HeldIssued, IdNamesKey, LatestIssued, [Next]_vars
  PROVE  HeldIssued' /\ IdNamesKey' /\ LatestIssued'
<1>1. recorded \in Nat /\ events \subseteq 1..recorded
  BY LimitsAssumption DEF TypeOK
<1>2. recorded + 1 \notin Coalesced
  BY <1>1, KeysAssumption
<1>3. CASE Held' \subseteq Held /\ UNCHANGED <<recorded, events, latest>>
  BY <1>3 DEF HeldIssued, IdNamesKey, LatestIssued
<1>4. CASE /\ Held' \subseteq Held \cup {<<recorded + 1, recorded + 1>>}
           /\ recorded' = recorded + 1
           /\ events' = events \cup {recorded + 1} /\ latest' = latest
  BY <1>1, <1>2, <1>4 DEF HeldIssued, IdNamesKey, LatestIssued
<1>5. ASSUME NEW k \in Coalesced,
             Held' \subseteq Held \cup {<<k, recorded + 1>>},
             recorded' = recorded + 1, events' = events,
             latest' = [latest EXCEPT ![k] = recorded + 1]
      PROVE  HeldIssued' /\ IdNamesKey' /\ LatestIssued'
  BY <1>1, <1>5 DEF HeldIssued, IdNamesKey, LatestIssued, TypeOK
<1> QED BY <1>3, <1>4, <1>5, HeldStep

-----------------------------------------------------------------------------
(* The queue keeps the newest snapshot of each key, and loses nothing.      *)

Safe == OnePerKey /\ AcceptedIsDurable /\ QueueHoldsLatest /\ NothingLost

(* A stored delivery's pair is held, so it names an issued event.           *)
LEMMA QueuedIsHeld ==
  ASSUME TypeOK, HeldIssued, IdNamesKey
  PROVE  /\ \A q \in queue :
              /\ q.id \in 1..recorded
              /\ q.key \notin Coalesced => q.key = q.id
              /\ q.key \in Coalesced <=> q.id \notin events
         /\ \A f \in flights : f.copy.id \in 1..recorded
         /\ \A q \in queue, f \in flights : q.id = f.copy.id => q.key = f.copy.key
         /\ \A p, q \in queue : p.id = q.id => p.key = q.key
<1>1. \A q \in queue : <<q.key, q.id>> \in Held
  BY DEF Held
<1>2. \A f \in flights : <<f.copy.key, f.copy.id>> \in Held
  BY DEF Held
<1> QED BY <1>1, <1>2 DEF HeldIssued, IdNamesKey

(* What deleteDeliveryIfCurrent leaves: it removes one id at most, and that  *)
(* id only if it is the stored one.                                         *)
LEMMA DeletesItsOwn ==
  ASSUME TypeOK, HeldIssued, IdNamesKey, NEW f \in flights,
         queue' = deleteDeliveryIfCurrent(f.copy)
  PROVE  /\ queue' \subseteq queue
         /\ QueuedIds' = QueuedIds \ {f.copy.id}
         /\ f.copy.id \in QueuedIds <=> IsCurrent(f.copy)
  BY QueuedIsHeld DEF deleteDeliveryIfCurrent, QueuedIds, IsCurrent

(* Recording an event of its own replaces nothing.                          *)
LEMMA RecordEventSafe ==
  ASSUME IInv, RecordEvent PROVE Safe'
<1> DEFINE d == Stored([key |-> recorded + 1, id |-> recorded + 1,
                        attempts |-> 0, age |-> NoTime], 0, NoTime)
<1>1. recorded \in Nat /\ recorded + 1 \notin Coalesced
  BY LimitsAssumption, KeysAssumption DEF IInv, TypeOK
<1>2. d.key = recorded + 1 /\ d.id = recorded + 1
  BY DEF Stored
<1>3. \A q \in queue : q.key # d.key
  BY <1>1, <1>2, QueuedIsHeld DEF IInv
<1>4. queue' = queue \cup {d}
  BY <1>3 DEF RecordEvent, Put
<1>5. QueuedIds' = QueuedIds \cup {recorded + 1}
  BY <1>2, <1>4 DEF QueuedIds
<1>6. OnePerKey'
  BY <1>3, <1>4 DEF IInv, OnePerKey
<1>7. QueueHoldsLatest'
  BY <1>1, <1>2, <1>4 DEF IInv, QueueHoldsLatest, RecordEvent
<1>8. AcceptedIsDurable'
  BY DEF IInv, AcceptedIsDurable, RecordEvent
<1>9. NothingLost'
  BY <1>5 DEF IInv, NothingLost, RecordEvent
<1> QED BY <1>6, <1>7, <1>8, <1>9 DEF Safe

(* A newer snapshot replaces only the older one of its own document.        *)
LEMMA RecordSnapshotSafe ==
  ASSUME IInv, NEW k \in Coalesced, RecordSnapshot(k) PROVE Safe'
<1>1. recorded \in Nat
  BY LimitsAssumption DEF IInv, TypeOK
<1>2. PICK d : /\ d.key = k /\ d.id = recorded + 1
               /\ queue' = Put(d)
  BY DEF RecordSnapshot, Stored
<1>3. queue' = {q \in queue : q.key # k} \cup {d}
  BY <1>2 DEF Put
<1>4. OnePerKey'
  BY <1>2, <1>3 DEF IInv, OnePerKey
<1>5. QueueHoldsLatest'
  BY <1>2, <1>3 DEF IInv, QueueHoldsLatest, RecordSnapshot, TypeOK
<1>6. AcceptedIsDurable'
  BY DEF IInv, AcceptedIsDurable, RecordSnapshot
<1>7. NothingLost'
  <2> DEFINE accounted == durable \cup discarded \cup QueuedIds
  <2>1. \A q \in queue : q.key # k => q.id \in QueuedIds'
    BY <1>3 DEF QueuedIds
  <2>2. recorded + 1 \in QueuedIds'
    BY <1>2, <1>3 DEF QueuedIds
  <2>3. \A q \in queue : q.key = k => q.id \notin events /\ q.id = latest[k]
    BY QueuedIsHeld DEF IInv, QueueHoldsLatest
  <2>4. events \subseteq accounted'
    <3>1. \A i \in events : i \in QueuedIds => i \in QueuedIds'
      BY <2>1, <2>3 DEF QueuedIds
    <3> QED BY <3>1 DEF IInv, NothingLost, RecordSnapshot
  <2>5. ASSUME NEW j \in Coalesced PROVE latest'[j] = 0 \/ latest'[j] \in accounted'
    <3>1. CASE j = k
      BY <2>2, <3>1 DEF RecordSnapshot, IInv, TypeOK
    <3>2. CASE j # k
      <4>1. latest'[j] = latest[j]
        BY <3>2 DEF RecordSnapshot, IInv, TypeOK
      <4>2. \A q \in queue : q.key = k => q.id # latest[j] \/ latest[j] = 0
        BY <2>3, <3>2 DEF IInv, LatestIssued
      <4>3. latest[j] \in QueuedIds => latest[j] = 0 \/ latest[j] \in QueuedIds'
        BY <2>1, <4>2 DEF QueuedIds
      <4> QED BY <4>1, <4>3 DEF IInv, NothingLost, RecordSnapshot
    <3> QED BY <3>1, <3>2
  <2> QED BY <2>4, <2>5 DEF NothingLost, RecordSnapshot
<1> QED BY <1>4, <1>5, <1>6, <1>7 DEF Safe

(* What the API does to a POST leaves the queue alone.                      *)
LEMMA AnswerSafe ==
  ASSUME IInv, NEW f \in flights, Answer(f) PROVE Safe'
<1>1. queue' = queue /\ QueuedIds' = QueuedIds
  BY DEF Answer, IngestAccepts, IngestRejects, PostFails, QueuedIds
<1>2. durable \subseteq durable'
  BY DEF Answer, IngestAccepts, IngestRejects, PostFails
<1>3. OnePerKey' /\ QueueHoldsLatest' /\ NothingLost'
  BY <1>1, <1>2 DEF IInv, OnePerKey, QueueHoldsLatest, NothingLost, Answer,
                    IngestAccepts, IngestRejects, PostFails
<1>4. AcceptedIsDurable'
  <2>1. f \in Flight /\ flights \subseteq Flight
    BY DEF IInv, TypeOK
  <2>2. CASE IngestAccepts(f)
    BY <2>1, <2>2, FatedFlight DEF IngestAccepts, IInv, AcceptedIsDurable
  <2>3. CASE IngestRejects(f)
    BY <2>1, <2>3, FatedFlight DEF IngestRejects, IInv, AcceptedIsDurable
  <2>4. CASE PostFails(f)
    BY <2>1, <2>4, FatedFlight DEF PostFails, IInv, AcceptedIsDurable
  <2> QED BY <2>2, <2>3, <2>4 DEF Answer
<1> QED BY <1>3, <1>4 DEF Safe

(* An answer handled after the await touches at most its own delivery.      *)
LEMMA DeliverSafe ==
  ASSUME IInv, NEW f \in flights, Deliver(f) PROVE Safe'
<1>1. UNCHANGED <<durable, recorded, events, latest>> /\ flights' \subseteq flights
  BY DEF Deliver, DeliverSettles, DeliverGivesUp, DeliverRetries, DeliverSuperseded,
         Unheard, Failed
<1>2. AcceptedIsDurable'
  BY <1>1 DEF IInv, AcceptedIsDurable
<1>3. CASE queue' = queue /\ discarded' = discarded
  BY <1>1, <1>2, <1>3
     DEF Safe, IInv, OnePerKey, QueueHoldsLatest, NothingLost, QueuedIds
<1>4. CASE /\ queue' = deleteDeliveryIfCurrent(f.copy)
           /\ discarded \subseteq discarded'
           /\ IsCurrent(f.copy) => f.copy.id \in durable \cup discarded'
  <2>1. /\ queue' \subseteq queue
        /\ QueuedIds' = QueuedIds \ {f.copy.id}
        /\ f.copy.id \in QueuedIds <=> IsCurrent(f.copy)
    BY <1>4, DeletesItsOwn DEF IInv
  <2>2. OnePerKey' /\ QueueHoldsLatest'
    BY <1>1, <2>1 DEF IInv, OnePerKey, QueueHoldsLatest
  <2>3. durable \cup discarded \cup QueuedIds \subseteq durable' \cup discarded' \cup QueuedIds'
    BY <1>1, <1>4, <2>1
  <2>4. NothingLost'
    BY <1>1, <2>3 DEF IInv, NothingLost
  <2> QED BY <1>2, <2>2, <2>4 DEF Safe
<1>5. CASE DeliverRetries(f)
  <2>1. PICK d : d.key = f.copy.key /\ d.id = f.copy.id /\ queue' = Put(d)
    BY <1>5 DEF DeliverRetries, Stored
  <2>2. PICK q \in queue : q.key = f.copy.key /\ q.id = f.copy.id
    BY <1>5 DEF DeliverRetries, IsCurrent
  <2>3. queue' = {p \in queue : p.key # q.key} \cup {d}
    BY <2>1, <2>2 DEF Put
  <2>4. queue' = (queue \ {q}) \cup {d}
    BY <2>2, <2>3 DEF IInv, OnePerKey
  <2>5. OnePerKey'
    BY <2>1, <2>2, <2>3 DEF IInv, OnePerKey
  <2>6. QueueHoldsLatest'
    BY <1>1, <2>1, <2>2, <2>3 DEF IInv, QueueHoldsLatest
  <2>7. QueuedIds \subseteq QueuedIds'
    BY <2>1, <2>2, <2>4 DEF QueuedIds
  <2>8. discarded' = discarded
    BY <1>5 DEF DeliverRetries
  <2>9. NothingLost'
    BY <1>1, <2>7, <2>8 DEF IInv, NothingLost
  <2> QED BY <1>2, <2>5, <2>6, <2>9 DEF Safe
<1>6. CASE DeliverSettles(f)
  <2>1. f.fate = "accepted" => f.copy.id \in durable
    BY DEF IInv, AcceptedIsDurable
  <2> QED BY <1>4, <1>6, <2>1 DEF DeliverSettles, Awaited, Discard
<1>7. CASE DeliverGivesUp(f)
  BY <1>4, <1>7 DEF DeliverGivesUp, Discard
<1>8. CASE DeliverSuperseded(f) \/ Unheard(f)
  BY <1>3, <1>8 DEF DeliverSuperseded, Unheard
<1> QED BY <1>5, <1>6, <1>7, <1>8 DEF Deliver

(* The alarm loop, time and crashes lose no delivery.                       *)
LEMMA PlatformSafe ==
  ASSUME IInv, Alarm \/ Elapse \/ Crash \/ UNCHANGED vars PROVE Safe'
<1>1. CASE Alarm \/ UNCHANGED vars
  <2>1. UNCHANGED <<queue, durable, discarded, recorded, events, latest>>
    BY <1>1 DEF Alarm, AlarmFires, AlarmDelivers, AlarmReturns, vars
  <2>2. \A g \in flights' : g \in flights \/ g.fate = "sent"
    BY <1>1 DEF Alarm, AlarmFires, AlarmDelivers, AlarmReturns, vars
  <2>3. AcceptedIsDurable'
    BY <2>1, <2>2 DEF IInv, AcceptedIsDurable
  <2>4. OnePerKey' /\ QueueHoldsLatest' /\ NothingLost'
    BY <2>1 DEF IInv, OnePerKey, QueueHoldsLatest, NothingLost, QueuedIds
  <2> QED BY <2>3, <2>4 DEF Safe
<1>2. CASE Elapse
  <2>1. UNCHANGED <<durable, discarded, recorded, events, latest>>
    BY <1>2 DEF Elapse
  <2>2. /\ \A p \in queue' : \E q \in queue : p.key = q.key /\ p.id = q.id
        /\ \A q \in queue : \E p \in queue' : p.key = q.key /\ p.id = q.id
        /\ \A g \in flights' : \E f \in flights :
              g.copy.id = f.copy.id /\ g.fate = f.fate
    BY <1>2, ElapseKeepsPairs DEF IInv
  <2>3. OnePerKey'
    <3>1. SUFFICES ASSUME NEW p1 \in queue', NEW p2 \in queue', p1.key = p2.key
                   PROVE  p1 = p2
      BY DEF OnePerKey
    <3> DEFINE aged(q) == [q EXCEPT !.age = Older(@), !.due = Sooner(@)]
    <3>2. \A p \in queue' : \E q \in queue : p.key = q.key /\ p = aged(q)
      BY <1>2, ElapseKeepsPairs DEF IInv
    <3> HIDE DEF aged
    <3>3. PICK q1 \in queue, q2 \in queue :
             p1.key = q1.key /\ p1 = aged(q1) /\ p2.key = q2.key /\ p2 = aged(q2)
      BY <3>2
    <3>4. q1 = q2
      BY <3>1, <3>3 DEF IInv, OnePerKey
    <3> QED BY <3>3, <3>4
  <2>4. QueueHoldsLatest' /\ AcceptedIsDurable'
    BY <2>1, <2>2 DEF IInv, QueueHoldsLatest, AcceptedIsDurable
  <2>5. QueuedIds' = QueuedIds
    BY <2>2 DEF QueuedIds
  <2>6. NothingLost'
    BY <2>1, <2>5 DEF IInv, NothingLost
  <2> QED BY <2>3, <2>4, <2>6 DEF Safe
<1>3. CASE Crash
  <2>1. UNCHANGED <<queue, durable, discarded, recorded, events, latest>>
    BY <1>3 DEF Crash
  <2>2. \A g \in flights' : g.fate = "sent"
    BY <1>3 DEF Crash, IInv, TypeOK, Flight
  <2> QED
    BY <2>1, <2>2 DEF Safe, IInv, OnePerKey, QueueHoldsLatest, NothingLost,
                      QueuedIds, AcceptedIsDurable
<1> QED BY <1>1, <1>2, <1>3

(* A coalesced delivery is never without its queuedAt.                      *)
LEMMA QueuedAtStep ==
  ASSUME IInv, [Next]_vars PROVE QueuedAtKept'
<1>1. CASE RecordEvent
  <2>1. recorded + 1 \notin Coalesced
    BY LimitsAssumption, KeysAssumption DEF IInv, TypeOK
  <2>2. \A q \in queue' : q \in queue \/ q.key \notin Coalesced
    BY <1>1, <2>1 DEF RecordEvent, Put, Stored
  <2>3. \A f \in flights' : f \in flights \/ f.copy.key \notin Coalesced
    BY <1>1, <2>1 DEF RecordEvent
  <2> QED BY <1>1, <2>2, <2>3 DEF RecordEvent, IInv, QueuedAtKept
<1>2. ASSUME NEW k \in Coalesced, RecordSnapshot(k) PROVE QueuedAtKept'
  <2> DEFINE cur == {q \in queue : q.key = k}
             c(age) == [key |-> k, id |-> recorded + 1, attempts |-> 0, age |-> age]
  <2>1. PICK age \in IF cur = {} THEN {0} ELSE {q.age : q \in cur} :
           queue' = Put(Stored(c(age), 0, CoalescedDue(age)))
    BY <1>2 DEF RecordSnapshot
  <2>2. age >= 0
    BY <2>1 DEF IInv, QueuedAtKept
  <2>3. \A q \in queue' : q \in queue \/ q.age = age
    BY <2>1 DEF Put, Stored
  <2> QED BY <1>2, <2>2, <2>3 DEF RecordSnapshot, IInv, QueuedAtKept
<1>3. CASE Alarm
  BY <1>3 DEF Alarm, AlarmFires, AlarmDelivers, AlarmReturns, CopyOf, IInv, QueuedAtKept
<1>4. ASSUME NEW f \in flights, Answer(f) PROVE QueuedAtKept'
  <2>1. \E fate : FateOf(f, fate)
    BY <1>4 DEF Answer, IngestAccepts, IngestRejects, PostFails
  <2>2. \A g \in flights' : g \in flights \/ g.copy = f.copy
    BY <2>1, FatedFlight DEF IInv, TypeOK
  <2> QED BY <1>4, <2>2 DEF Answer, IngestAccepts, IngestRejects, PostFails, IInv, QueuedAtKept
<1>5. ASSUME NEW f \in flights, Deliver(f) PROVE QueuedAtKept'
  <2>1. flights' \subseteq flights /\ listing' = listing
    BY <1>5 DEF Deliver, DeliverSettles, DeliverGivesUp, DeliverRetries,
                DeliverSuperseded, Unheard, Failed
  <2>2. \A q \in queue' : q \in queue \/ (q.key = f.copy.key /\ q.age = f.copy.age)
    BY <1>5 DEF Deliver, DeliverSettles, DeliverGivesUp, DeliverRetries,
                DeliverSuperseded, Unheard, Failed, deleteDeliveryIfCurrent, Put, Stored
  <2> QED BY <2>1, <2>2 DEF IInv, QueuedAtKept
<1>6. CASE Elapse
  <2>1. \A c \in Copy : c.age >= 0 => Aged(c).age >= 0
    BY TimesAssumption DEF Copy, Aged, Older, NoTime
  <2>2. \A q \in Delivery :
          LET p == [q EXCEPT !.age = Older(@), !.due = Sooner(@)]
          IN  p.key = q.key /\ (q.age >= 0 => p.age >= 0)
    BY TimesAssumption DEF Delivery, Older, NoTime
  <2>3. \A q \in queue' : q.key \in Coalesced => q.age >= 0
    BY <1>6, <2>2 DEF Elapse, IInv, TypeOK, QueuedAtKept
  <2>4. \A c \in listing' : c.key \in Coalesced => c.age >= 0
    BY <1>6, <2>1, CopyTypes DEF Elapse, IInv, TypeOK, QueuedAtKept
  <2>5. \A f \in Flight : [f EXCEPT !.copy = Aged(@)].copy = Aged(f.copy) /\ f.copy \in Copy
    BY DEF Flight
  <2>6. \A f \in flights' : f.copy.key \in Coalesced => f.copy.age >= 0
    <3>1. \A g \in flights' : \E f \in flights : g.copy = Aged(f.copy) /\ f.copy \in Copy
      BY <1>6, <2>5 DEF Elapse, IInv, TypeOK
    <3> QED BY <2>1, <3>1, CopyTypes DEF IInv, QueuedAtKept
  <2> QED BY <2>3, <2>4, <2>6 DEF QueuedAtKept
<1>7. CASE Crash
  <2>1. \A g \in flights' : \E f \in flights : g.copy = f.copy
    BY <1>7 DEF Crash, IInv, TypeOK, Flight
  <2> QED BY <1>7, <2>1 DEF Crash, IInv, QueuedAtKept
<1>8. CASE UNCHANGED vars
  BY <1>8 DEF vars, IInv, QueuedAtKept
<1> QED BY <1>1, <1>2, <1>3, <1>4, <1>5, <1>6, <1>7, <1>8 DEF Next

(* The empty outbox satisfies the invariant.                                *)
LEMMA InitInv == Init => IInv
  BY InitType DEF Init, IInv, Held, HeldIssued, IdNamesKey, OnePerKey, LatestIssued,
       AcceptedIsDurable, QueuedAtKept, QueueHoldsLatest, NothingLost

(* The invariant is inductive.                                              *)
LEMMA NextInv == IInv /\ [Next]_vars => IInv'
<1> SUFFICES ASSUME IInv, [Next]_vars PROVE IInv'
  OBVIOUS
<1>1. TypeOK'
  BY NextType DEF IInv
<1>2. HeldIssued' /\ IdNamesKey' /\ LatestIssued'
  BY HeldInvariants DEF IInv
<1>3. Safe'
  BY RecordEventSafe, RecordSnapshotSafe, AnswerSafe, DeliverSafe, PlatformSafe DEF Next
<1>4. QueuedAtKept'
  BY QueuedAtStep
<1> QED BY <1>1, <1>2, <1>3, <1>4 DEF IInv, Safe

(* The inductive invariant holds of every reachable state.                  *)
THEOREM Invariance == Spec => []IInv
  BY InitInv, NextInv, PTL DEF Spec

(* In every behaviour, with any number of restarts, a pending snapshot is    *)
(* the newest one: a late answer never puts an older one back.               *)
THEOREM NewestPending == Spec => []QueueHoldsLatest
  BY Invariance, PTL DEF IInv

(* In every behaviour each event, and the newest snapshot of each document,  *)
(* is stored by the API, still queued, or was discarded on purpose.          *)
THEOREM NoEventLost == Spec => []NothingLost
  BY Invariance, PTL DEF IInv

-----------------------------------------------------------------------------
(* The alarm.                                                               *)

(* No step leaves a waiting delivery without alarm or handler.              *)
LEMMA NextAlarmPending ==
  TypeOK /\ AlarmPending /\ [Next]_vars => AlarmPending'
<1> SUFFICES ASSUME TypeOK, AlarmPending, [Next]_vars PROVE AlarmPending'
  OBVIOUS
<1>1. CASE RecordEvent
  BY <1>1 DEF RecordEvent, Put, Stored, AlarmPending
<1>2. ASSUME NEW k \in Coalesced, RecordSnapshot(k) PROVE AlarmPending'
  <2>1. PICK age \in IF {q \in queue : q.key = k} = {} THEN {0}
                     ELSE {q.age : q \in {p \in queue : p.key = k}} :
          alarm' = scheduleAlarmAt(CoalescedDue(age))
    BY <1>2 DEF RecordSnapshot
  <2>2. age \in NoTime..MaxWait
    BY <2>1, TimesAssumption DEF TypeOK, Delivery, NoTime
  <2>3. CoalescedDue(age) # NoTime
    BY <2>2, CoalescedDueInRange DEF NoTime
  <2>4. alarm' # NoTime
    BY <2>1, <2>3 DEF scheduleAlarmAt
  <2> QED BY <2>4 DEF AlarmPending
<1>3. CASE AlarmFires \/ (\E c \in listing : AlarmDelivers(c))
  BY <1>3 DEF AlarmFires, AlarmDelivers, AlarmPending
<1>4. CASE AlarmReturns
  <2>1. \A q \in queue : Wakeup(q) # NoTime
    BY TimesAssumption DEF Wakeup, NoTime
  <2> QED BY <1>4, <2>1 DEF AlarmReturns, NextWakeup, AlarmPending
<1>5. ASSUME NEW f \in flights, Answer(f) PROVE AlarmPending'
  BY <1>5 DEF Answer, IngestAccepts, IngestRejects, PostFails, AlarmPending
<1>6. ASSUME NEW f \in flights, Deliver(f) PROVE AlarmPending'
  <2>1. CASE DeliverRetries(f)
    <3>1. deliveryRetryDelay(f.copy.attempts + 1) # NoTime
      BY BackoffInRange DEF NoTime
    <3>2. alarm' # NoTime
      BY <2>1, <3>1 DEF DeliverRetries, scheduleAlarmAt
    <3> QED BY <3>2 DEF AlarmPending
  <2>2. CASE ~DeliverRetries(f)
    BY <1>6, <2>2 DEF Deliver, DeliverSettles, DeliverGivesUp, DeliverSuperseded, Unheard,
                      Failed, deleteDeliveryIfCurrent, AlarmPending
  <2> QED BY <2>1, <2>2
<1>7. CASE Elapse
  <2>1. \A p \in queue' : \E q \in queue : p = [q EXCEPT !.age = Older(@), !.due = Sooner(@)]
    BY <1>7, ElapseKeepsPairs
  <2>2. \A q \in Delivery :
          [q EXCEPT !.age = Older(@), !.due = Sooner(@)].due # NoTime => q.due # NoTime
    BY DEF Delivery, Sooner, NoTime
  <2>3. (\E p \in queue' : p.due # NoTime) => \E q \in queue : q.due # NoTime
    BY <2>1, <2>2 DEF TypeOK
  <2>4. alarm # NoTime => alarm' # NoTime
    <3>1. alarm' = Sooner(alarm) /\ alarm \in Delay
      BY <1>7 DEF Elapse, TypeOK
    <3> QED BY <3>1, TimesAssumption DEF Sooner, NoTime, Delay
  <2> QED BY <1>7, <2>3, <2>4 DEF Elapse, AlarmPending
<1>8. CASE Crash
  BY <1>8 DEF Crash, AlarmPending, NoTime
<1>9. CASE UNCHANGED vars
  BY <1>9 DEF vars, AlarmPending
<1> QED BY <1>1, <1>2, <1>3, <1>4, <1>5, <1>6, <1>7, <1>8, <1>9 DEF Next, Alarm

(* A delivery with a time to wait for always has an alarm, or a running      *)
(* handler that will set one, through any number of restarts.                *)
THEOREM RetryHasAlarm == Spec => []AlarmPending
<1>1. Init => AlarmPending
  BY DEF Init, AlarmPending
<1> QED BY <1>1, NextAlarmPending, TypeCorrect, PTL DEF Spec

-----------------------------------------------------------------------------
(* Who serves the queue while no restart interferes.                        *)

(* The alarm is set for the earlier of the two, and never unset.            *)
LEMMA EarlierAlarm ==
  ASSUME alarm \in Delay, NEW due \in Nat, alarm' = scheduleAlarmAt(due)
  PROVE  /\ alarm' \in 0..due /\ alarm' # NoTime
         /\ \A n \in Nat : alarm \in 0..n => alarm' \in 0..n
  BY TimesAssumption DEF scheduleAlarmAt, Delay, NoTime

(* What WakeupInTime says of the stored deliveries qs and the alarm a.      *)
InTime(qs, a) == \A q \in qs : q.due # NoTime => a \in 0..q.due

(* A delivery put under an alarm moved up to its due time is in time, and so *)
(* are the others.                                                          *)
LEMMA PutInTime ==
  ASSUME TypeOK, NEW d \in Delivery, d.due \in Nat, InTime(queue, alarm),
         queue' = Put(d), alarm' = scheduleAlarmAt(d.due)
  PROVE  InTime(queue', alarm')
<1>1. \A n \in Nat : alarm \in 0..n => alarm' \in 0..n
  BY EarlierAlarm DEF TypeOK
<1>2. \A q \in queue : q.due # NoTime => q.due \in Nat
  BY TimesAssumption DEF TypeOK, Delivery, Delay, NoTime
<1>3. alarm' \in 0..d.due
  BY EarlierAlarm DEF TypeOK
<1> QED BY <1>1, <1>2, <1>3 DEF Put, InTime

(* The alarm that a returning handler leaves is in time for all.            *)
LEMMA ReturnsInTime ==
  ASSUME TypeOK, AlarmReturns PROVE InTime(queue, alarm')
<1>1. CASE queue = {}
  BY <1>1 DEF InTime
<1>2. CASE queue # {}
  <2>1. PICK p \in queue : alarm' = Wakeup(p) /\ \A r \in queue : Wakeup(p) <= Wakeup(r)
    BY <1>2 DEF AlarmReturns, NextWakeup
  <2>2. \A r \in queue : /\ Wakeup(r) \in Nat
                         /\ r.due # NoTime => Wakeup(r) = r.due /\ r.due \in Nat
    BY TimesAssumption DEF TypeOK, Delivery, Delay, Wakeup, NoTime
  <2> QED BY <2>1, <2>2 DEF InTime
<1> QED BY <1>1, <1>2

(* Time passes for the alarm and the deliveries alike.                      *)
LEMMA ElapseInTime ==
  ASSUME TypeOK, Elapse, InTime(queue, alarm) PROVE InTime(queue', alarm')
<1> SUFFICES ASSUME NEW p \in queue', p.due # NoTime PROVE alarm' \in 0..p.due
  BY DEF InTime
<1>1. PICK q \in queue : p = [q EXCEPT !.age = Older(@), !.due = Sooner(@)]
  BY ElapseKeepsPairs
<1>2. q.due \in Delay /\ p.due = Sooner(q.due)
  BY <1>1 DEF TypeOK, Delivery
<1>3. q.due \in Nat
  BY <1>2, TimesAssumption DEF Delay, Sooner, NoTime
<1>4. alarm \in 0..q.due
  BY <1>3 DEF InTime, NoTime
<1>5. alarm' = Sooner(alarm)
  BY DEF Elapse
<1> QED BY <1>2, <1>3, <1>4, <1>5 DEF Sooner

(* No step without a restart leaves a waiting delivery to a later alarm.    *)
LEMMA NextWakeupInTime ==
  TypeOK /\ WakeupInTime /\ [Next]_vars => WakeupInTime'
<1> SUFFICES ASSUME TypeOK, WakeupInTime, [Next]_vars, crashes' = 0, handler' = "idle"
             PROVE  InTime(queue', alarm')
  BY DEF WakeupInTime, InTime
<1> DEFINE Before == crashes = 0 /\ handler = "idle"
<1>0. Before => InTime(queue, alarm)
  BY DEF WakeupInTime, InTime
<1>1. CASE RecordEvent
  <2>1. Before /\ alarm' = alarm
    BY <1>1 DEF RecordEvent
  <2>2. \A q \in queue' : q \in queue \/ q.due = NoTime
    BY <1>1 DEF RecordEvent, Put, Stored
  <2> QED BY <1>0, <2>1, <2>2 DEF InTime
<1>2. ASSUME NEW k \in Coalesced, RecordSnapshot(k) PROVE InTime(queue', alarm')
  <2> DEFINE cur == {q \in queue : q.key = k}
             c(age) == [key |-> k, id |-> recorded + 1, attempts |-> 0, age |-> age]
             d(age) == Stored(c(age), 0, CoalescedDue(age))
  <2>1. PICK age \in IF cur = {} THEN {0} ELSE {q.age : q \in cur} :
           queue' = Put(d(age)) /\ alarm' = scheduleAlarmAt(CoalescedDue(age))
    BY <1>2 DEF RecordSnapshot
  <2>2. age \in NoTime..MaxWait
    BY <2>1, TimesAssumption DEF TypeOK, Delivery, NoTime
  <2>3. CoalescedDue(age) \in 0..MaxWait
    BY <2>2, CoalescedDueInRange
  <2>4. c(age) \in Copy
    BY <1>2, <2>2, LimitsAssumption DEF RecordSnapshot, TypeOK, Copy, Key, Id
  <2>5. d(age) \in Delivery
    BY <2>3, <2>4, StoredType, DelayRange, LimitsAssumption
  <2>6. d(age).due = CoalescedDue(age) /\ d(age).due \in Nat
    BY <2>3, TimesAssumption DEF Stored
  <2>7. Before
    BY <1>2 DEF RecordSnapshot
  <2> QED BY <1>0, <2>1, <2>5, <2>6, <2>7, PutInTime
<1>3. CASE AlarmFires \/ (\E c \in listing : AlarmDelivers(c)) \/ Crash
  BY <1>3, LimitsAssumption DEF AlarmFires, AlarmDelivers, Crash, TypeOK
<1>4. CASE AlarmReturns
  BY <1>4, ReturnsInTime DEF AlarmReturns
<1>5. ASSUME NEW f \in flights, Answer(f) PROVE InTime(queue', alarm')
  BY <1>0, <1>5 DEF Answer, IngestAccepts, IngestRejects, PostFails
<1>6. ASSUME NEW f \in flights, Deliver(f) PROVE InTime(queue', alarm')
  <2>1. CASE DeliverRetries(f)
    <3> DEFINE n == f.copy.attempts + 1
               d == Stored(f.copy, n, deliveryRetryDelay(n))
    <3>1. f.copy \in Copy /\ n \in 0..(MaxAttempts - 1)
      BY <2>1, LimitsAssumption DEF DeliverRetries, TypeOK, Flight, Copy
    <3>2. deliveryRetryDelay(n) \in 0..RetryMax
      BY BackoffInRange
    <3>3. d \in Delivery
      BY <3>1, <3>2, StoredType, DelayRange
    <3>4. d.due = deliveryRetryDelay(n) /\ d.due \in Nat
      BY <3>2, TimesAssumption DEF Stored
    <3>5. Before /\ queue' = Put(d) /\ alarm' = scheduleAlarmAt(d.due)
      BY <2>1, <3>4 DEF DeliverRetries, Failed
    <3> QED BY <1>0, <3>3, <3>4, <3>5, PutInTime
  <2>2. CASE ~DeliverRetries(f)
    BY <1>0, <1>6, <2>2 DEF Deliver, DeliverSettles, DeliverGivesUp, DeliverSuperseded,
                            Unheard, Failed, deleteDeliveryIfCurrent, InTime
  <2> QED BY <2>1, <2>2
<1>7. CASE Elapse
  <2>1. Before
    BY <1>7 DEF Elapse
  <2> QED BY <1>0, <1>7, <2>1, ElapseInTime
<1>8. CASE UNCHANGED vars
  BY <1>0, <1>8 DEF vars
<1> QED BY <1>1, <1>2, <1>3, <1>4, <1>5, <1>6, <1>7, <1>8 DEF Next, Alarm

(* A step that queues no new id, and neither unsets the alarm, ends the      *)
(* handler nor ends a first POST whose delivery stays queued, leaves         *)
(* everything watched.                                                      *)
LEMMA StaysWatched ==
  ASSUME QueueIsWatched,
         alarm # NoTime => alarm' # NoTime,
         handler = "running" => handler' = "running",
         \A p \in queue' : \E q \in queue : q.id = p.id,
         \A f \in flights : f.by = "record" =>
           \/ \E g \in flights' : g.by = "record" /\ g.copy.id = f.copy.id
           \/ \A p \in queue' : p.id # f.copy.id
  PROVE  QueueIsWatched'
<1> SUFFICES ASSUME NEW p \in queue', alarm' = NoTime, handler' # "running"
             PROVE  \E g \in flights' : g.by = "record" /\ g.copy.id = p.id
  BY DEF QueueIsWatched
<1>1. PICK q \in queue : q.id = p.id
  OBVIOUS
<1>2. PICK f \in flights : f.by = "record" /\ f.copy.id = q.id
  BY DEF QueueIsWatched
<1> QED BY <1>1, <1>2

(* No step without a restart leaves a queued delivery with nobody.          *)
LEMMA NextWatched ==
  ASSUME IInv, QueueIsWatched, [Next]_vars, crashes' = crashes
  PROVE  QueueIsWatched'
<1> USE DEF IInv
<1>1. CASE RecordEvent
  <2> DEFINE i == recorded + 1
             c == [key |-> i, id |-> i, attempts |-> 0, age |-> NoTime]
             g == [copy |-> c, by |-> "record", fate |-> "sent"]
  <2>1. g \in flights' /\ g.by = "record" /\ g.copy.id = i /\ flights \subseteq flights'
    BY <1>1 DEF RecordEvent
  <2>2. \A q \in queue' : q \in queue \/ q.id = i
    BY <1>1 DEF RecordEvent, Put, Stored
  <2> QED BY <1>1, <2>1, <2>2 DEF RecordEvent, QueueIsWatched
<1>2. ASSUME NEW k \in Coalesced, RecordSnapshot(k) PROVE QueueIsWatched'
  <2>1. PICK age \in IF {q \in queue : q.key = k} = {} THEN {0}
                     ELSE {q.age : q \in {p \in queue : p.key = k}} :
          alarm' = scheduleAlarmAt(CoalescedDue(age))
    BY <1>2 DEF RecordSnapshot
  <2>2. CoalescedDue(age) \in Nat
    BY <2>1, CoalescedDueInRange, TimesAssumption DEF TypeOK, Delivery, NoTime
  <2>3. alarm' # NoTime
    BY <2>1, <2>2, EarlierAlarm DEF TypeOK
  <2> QED BY <2>3 DEF QueueIsWatched
<1>3. CASE AlarmFires \/ (\E c \in listing : AlarmDelivers(c))
  BY <1>3 DEF AlarmFires, AlarmDelivers, QueueIsWatched
<1>4. CASE AlarmReturns
  <2>1. \A q \in queue : Wakeup(q) # NoTime
    BY TimesAssumption DEF Wakeup, NoTime
  <2> QED BY <1>4, <2>1 DEF AlarmReturns, NextWakeup, QueueIsWatched
<1>5. ASSUME NEW f \in flights, Answer(f) PROVE QueueIsWatched'
  <2>1. PICK fate : FateOf(f, fate)
    BY <1>5 DEF Answer, IngestAccepts, IngestRejects, PostFails
  <2> DEFINE answered == [f EXCEPT !.fate = fate]
  <2>2. answered \in flights' /\ answered.by = f.by /\ answered.copy = f.copy
    BY <2>1 DEF FateOf, TypeOK, Flight
  <2>3. \A g \in flights : g = f \/ g \in flights'
    BY <2>1 DEF FateOf
  <2>4. UNCHANGED <<queue, alarm, handler>>
    BY <1>5 DEF Answer, IngestAccepts, IngestRejects, PostFails
  <2>5. \A g \in flights : g.by = "record" =>
          \E h \in flights' : h.by = "record" /\ h.copy.id = g.copy.id
    BY <2>2, <2>3
  <2> QED BY <2>4, <2>5, StaysWatched
<1>6. ASSUME NEW f \in flights, Deliver(f) PROVE QueueIsWatched'
  <2>1. flights' = flights \ {f} /\ handler' = handler
    BY <1>6 DEF Deliver, DeliverSettles, DeliverGivesUp, DeliverRetries, DeliverSuperseded,
                Unheard, Failed
  <2>2. CASE DeliverSettles(f) \/ DeliverGivesUp(f)
    <3>1. queue' = deleteDeliveryIfCurrent(f.copy) /\ alarm' = alarm
      BY <2>2 DEF DeliverSettles, DeliverGivesUp
    <3>2. queue' \subseteq queue /\ \A p \in queue' : p.id # f.copy.id
      BY <3>1, DeletesItsOwn DEF QueuedIds
    <3> QED BY <2>1, <3>1, <3>2, StaysWatched
  <2>3. CASE DeliverRetries(f)
    <3>1. alarm' = scheduleAlarmAt(deliveryRetryDelay(f.copy.attempts + 1))
      BY <2>3 DEF DeliverRetries
    <3>2. deliveryRetryDelay(f.copy.attempts + 1) \in Nat
      BY BackoffInRange, TimesAssumption
    <3>3. alarm' # NoTime
      BY <3>1, <3>2, EarlierAlarm DEF TypeOK
    <3> QED BY <3>3 DEF QueueIsWatched
  <2>4. CASE DeliverSuperseded(f) \/ Unheard(f)
    <3>1. UNCHANGED <<queue, alarm>>
      BY <2>4 DEF DeliverSuperseded, Unheard
    <3>2. f.by = "record" => \A p \in queue' : p.id # f.copy.id
      BY <2>4, QueuedIsHeld DEF DeliverSuperseded, Unheard, IsCurrent
    <3> QED BY <2>1, <3>1, <3>2, StaysWatched
  <2> QED BY <1>6, <2>2, <2>3, <2>4 DEF Deliver
<1>7. CASE Elapse
  <2>1. \A p \in queue' : \E q \in queue : q.id = p.id
    BY <1>7, ElapseKeepsPairs
  <2>2. \A f \in flights : [f EXCEPT !.copy = Aged(@)] \in flights'
    BY <1>7 DEF Elapse
  <2>3. \A f \in flights : LET g == [f EXCEPT !.copy = Aged(@)]
                           IN  g.by = f.by /\ g.copy.id = f.copy.id
    BY CopyTypes DEF TypeOK, Flight
  <2>4. alarm' = Sooner(alarm) /\ alarm \in Delay /\ handler' = handler
    BY <1>7 DEF Elapse, TypeOK
  <2>5. alarm # NoTime => alarm' # NoTime
    BY <2>4, TimesAssumption DEF Sooner, NoTime, Delay
  <2> QED BY <2>1, <2>2, <2>3, <2>4, <2>5, StaysWatched
<1>8. CASE Crash
  BY <1>8 DEF Crash, TypeOK
<1>9. CASE UNCHANGED vars
  BY <1>9 DEF vars, QueueIsWatched
<1> QED BY <1>1, <1>2, <1>3, <1>4, <1>5, <1>6, <1>7, <1>8, <1>9 DEF Next, Alarm

(* A restart is counted, and no step takes one back.                        *)
LEMMA CrashesCounted ==
  ASSUME TypeOK, [Next]_vars, crashes' = 0 PROVE crashes = 0
<1>1. CASE Crash
  BY <1>1, LimitsAssumption DEF Crash, TypeOK
<1>2. CASE ~Crash
  <2>1. CASE RecordEvent \/ (\E k \in Coalesced : RecordSnapshot(k)) \/ Alarm
    BY <2>1 DEF RecordEvent, RecordSnapshot, Alarm, AlarmFires, AlarmDelivers, AlarmReturns
  <2>2. ASSUME NEW f \in flights, Answer(f) PROVE crashes' = crashes
    BY <2>2 DEF Answer, IngestAccepts, IngestRejects, PostFails
  <2>3. ASSUME NEW f \in flights, Deliver(f) PROVE crashes' = crashes
    BY <2>3 DEF Deliver, DeliverSettles, DeliverGivesUp, DeliverRetries, DeliverSuperseded,
                Unheard
  <2>4. CASE Elapse \/ UNCHANGED vars
    BY <2>4 DEF Elapse, vars
  <2> QED BY <1>2, <2>1, <2>2, <2>3, <2>4 DEF Next
<1> QED BY <1>1, <1>2

(* Where the object is never restarted, every queued delivery is in          *)
(* somebody's hands, and an alarm that serves it is never late.              *)
THEOREM ServedWithoutRestarts ==
  ASSUME MaxCrashes = 0 PROVE Spec => []QueueIsServed
<1> DEFINE Served == (crashes = 0 => QueueIsWatched) /\ WakeupInTime
<1>1. Init => Served
  BY DEF Init, QueueIsWatched, WakeupInTime
<1>2. IInv /\ Served /\ [Next]_vars => Served'
  BY NextWatched, NextWakeupInTime, CrashesCounted DEF IInv
<1>3. IInv /\ Served => QueueIsServed
  BY MaxCrashes = 0 DEF IInv, TypeOK, QueueIsServed
<1> HIDE DEF Served
<1> QED BY <1>1, <1>2, <1>3, Invariance, PTL DEF Spec

-----------------------------------------------------------------------------
(* How often a delivery can fail.                                           *)

(* A step that adds no POST and no listed copy, and keeps the handler, keeps *)
(* every POST with its one sender.                                          *)
LEMMA SendersKept ==
  ASSUME OneSender, handler' = handler, listing' = listing, flights' \subseteq flights
  PROVE  OneSender'
  BY DEF OneSender, AlarmAwaits

(* Each POST has one sender, in every step.                                 *)
LEMMA NextOneSender ==
  ASSUME IInv, OneSender, [Next]_vars PROVE OneSender'
<1> USE DEF IInv
<1>1. CASE RecordEvent
  <2> DEFINE i == recorded + 1
             c == [key |-> i, id |-> i, attempts |-> 0, age |-> NoTime]
             g == [copy |-> c, by |-> "record", fate |-> "sent"]
  <2>1. flights' = flights \cup {g} /\ UNCHANGED <<handler, listing>>
    BY <1>1 DEF RecordEvent
  <2>2. \A f \in flights : f.copy.id # i
    BY QueuedIsHeld, LimitsAssumption DEF TypeOK
  <2>3. g.by = "record" /\ g.copy.attempts = 0 /\ g.copy.id = i
    OBVIOUS
  <2> HIDE DEF g, i
  <2> QED BY <2>1, <2>2, <2>3 DEF OneSender, AlarmAwaits
<1>2. ASSUME NEW k \in Coalesced, RecordSnapshot(k) PROVE OneSender'
  BY <1>2, SendersKept DEF RecordSnapshot
<1>3. CASE AlarmFires
  <2>1. \A p, q \in queue : p.id = q.id => p = q
    BY QueuedIsHeld DEF OnePerKey
  <2>2. \A q \in queue : CopyOf(q).id = q.id
    BY DEF CopyOf
  <2>3. \A c, d \in listing' : c.id = d.id => c = d
    BY <1>3, <2>1, <2>2 DEF AlarmFires
  <2> QED BY <1>3, <2>3 DEF AlarmFires, OneSender, AlarmAwaits
<1>4. ASSUME NEW c \in listing, AlarmDelivers(c) PROVE OneSender'
  <2> DEFINE g == [copy |-> c, by |-> "alarm", fate |-> "sent"]
  <2>1. /\ flights' = flights \cup {g} /\ listing' = listing \ {c}
        /\ handler' = "running" /\ ~AlarmAwaits
    BY <1>4 DEF AlarmDelivers
  <2>2. g.by = "alarm" /\ g.copy = c
    OBVIOUS
  <2> HIDE DEF g
  <2> QED BY <2>1, <2>2 DEF OneSender, AlarmAwaits
<1>5. CASE AlarmReturns
  BY <1>5 DEF AlarmReturns, OneSender, AlarmAwaits
<1>6. ASSUME NEW f \in flights, Answer(f) PROVE OneSender'
  <2>1. PICK fate : FateOf(f, fate)
    BY <1>6 DEF Answer, IngestAccepts, IngestRejects, PostFails
  <2> DEFINE g == [f EXCEPT !.fate = fate]
  <2>2. flights' = (flights \ {f}) \cup {g} /\ g.by = f.by /\ g.copy = f.copy
    BY <2>1 DEF FateOf, TypeOK, Flight
  <2>3. UNCHANGED <<handler, listing>>
    BY <1>6 DEF Answer, IngestAccepts, IngestRejects, PostFails
  <2> HIDE DEF g
  <2> QED BY <2>2, <2>3 DEF OneSender, AlarmAwaits
<1>7. ASSUME NEW f \in flights, Deliver(f) PROVE OneSender'
  BY <1>7, SendersKept DEF Deliver, DeliverSettles, DeliverGivesUp, DeliverRetries,
     DeliverSuperseded, Unheard, Failed
<1>8. CASE Elapse
  <2>1. \A d \in listing' : \E c \in listing : d = Aged(c) /\ d.id = c.id
    BY <1>8, CopyTypes DEF Elapse, TypeOK
  <2>2. \A g \in flights' : \E f \in flights :
          /\ g = [f EXCEPT !.copy = Aged(@)] /\ g.by = f.by
          /\ g.copy.id = f.copy.id /\ g.copy.attempts = f.copy.attempts
    <3>1. \A f \in flights : LET g == [f EXCEPT !.copy = Aged(@)]
                             IN  /\ g.by = f.by /\ g.copy.id = f.copy.id
                                 /\ g.copy.attempts = f.copy.attempts
      BY CopyTypes DEF TypeOK, Flight, Copy, Aged
    <3> QED BY <1>8, <3>1 DEF Elapse
  <2>3. handler' = handler /\ (listing = {} => listing' = {})
    BY <1>8 DEF Elapse
  <2>4. \A c, d \in listing' : c.id = d.id => c = d
    BY <2>1 DEF OneSender
  <2>5. \A f, g \in flights' :
          /\ f.by = "alarm" /\ g.by = "alarm" => f = g
          /\ f.by = "record" /\ g.by = "record" /\ f.copy.id = g.copy.id => f = g
    BY <2>2 DEF OneSender
  <2>6. \A f \in flights' :
          /\ f.by = "record" => f.copy.attempts = 0
          /\ f.by = "alarm" => \A c \in listing' : c.id # f.copy.id
    BY <2>1, <2>2 DEF OneSender
  <2>7. handler' = "idle" => listing' = {} /\ ~AlarmAwaits'
    BY <2>2, <2>3 DEF OneSender, AlarmAwaits
  <2> QED BY <2>4, <2>5, <2>6, <2>7 DEF OneSender
<1>9. CASE Crash
  <2>1. listing' = {} /\ \A g \in flights' : g.by = "none"
    BY <1>9 DEF Crash, TypeOK, Flight
  <2> QED BY <2>1 DEF OneSender, AlarmAwaits
<1>10. CASE UNCHANGED vars
  BY <1>10, SendersKept DEF vars
<1> QED
  BY <1>1, <1>2, <1>3, <1>4, <1>5, <1>6, <1>7, <1>8, <1>9, <1>10 DEF Next, Alarm

(* Every attempt count belongs to an issued id and stays below the limit.    *)
LEMMA CountTypes ==
  ASSUME IInv
  PROVE  \A n \in Counts : n[1] \in 1..recorded /\ n[1] \in Id /\ n[2] \in 0..(MaxAttempts - 1)
<1> USE DEF IInv
<1>1. \A c \in listing : <<c.key, c.id>> \in Held
  BY DEF Held
<1>2. \A c \in listing : c.id \in 1..recorded
  BY <1>1 DEF HeldIssued
<1>3. /\ \A q \in queue : q.id \in Id /\ q.attempts \in 0..(MaxAttempts - 1)
      /\ \A c \in listing : c.id \in Id /\ c.attempts \in 0..(MaxAttempts - 1)
      /\ \A f \in flights : f.copy.id \in Id /\ f.copy.attempts \in 0..(MaxAttempts - 1)
  BY DEF TypeOK, Delivery, Flight, Copy
<1> QED BY <1>2, <1>3, QueuedIsHeld DEF Counts

(* A step that fails nothing, copies counts only as they are (or 0 for a new *)
(* id) and starts a first POST for a new id at most, keeps the account.      *)
LEMMA CountsKept ==
  ASSUME IInv, FailuresCounted, failures' = failures, recorded' \in recorded..MaxRecorded,
         \A n \in Counts' : n \in Counts \/ (n[1] \in Id /\ n[1] > recorded /\ n[2] = 0),
         \A i \in Id : FirstPost(i)' => FirstPost(i) \/ i > recorded
  PROVE  FailuresCounted'
<1>1. recorded \in Nat /\ failures \in [Id -> Nat] /\ MaxAttempts \in Nat /\ MaxAttempts >= 1
  BY LimitsAssumption DEF IInv, TypeOK
<1>2. \A i \in Id : Uncounted(i)' >= 0
  BY <1>1 DEF Uncounted
<1>3. \A i \in Id : i <= recorded => Uncounted(i)' >= Uncounted(i)
  BY <1>1 DEF Uncounted, Id
<1>4. \A i \in Id : Uncounted(i) \in Nat /\ Uncounted(i)' \in Nat
  BY <1>1 DEF Uncounted
<1>5. ASSUME NEW n \in Counts' PROVE failures'[n[1]] <= n[2] + Uncounted(n[1])'
  <2>1. CASE n \in Counts
    <3>1. n[1] \in 1..recorded /\ n[1] \in Id /\ n[2] \in Nat
      BY <1>1, <2>1, CountTypes
    <3>2. failures[n[1]] <= n[2] + Uncounted(n[1])
      BY <2>1 DEF FailuresCounted
    <3> QED BY <1>1, <1>3, <1>4, <3>1, <3>2
  <2>2. CASE n[1] \in Id /\ n[1] > recorded /\ n[2] = 0
    BY <1>2, <1>4, <2>2 DEF FailuresCounted
  <2> QED BY <2>1, <2>2
<1>6. ASSUME NEW i \in Id PROVE failures'[i] <= MaxAttempts + Uncounted(i)'
  <2>1. CASE i <= recorded
    BY <1>1, <1>3, <1>4, <2>1 DEF FailuresCounted
  <2>2. CASE i > recorded
    BY <1>1, <1>2, <1>4, <2>2 DEF FailuresCounted
  <2> QED BY <1>1, <2>1, <2>2 DEF Id
<1>7. \A i \in Id : i > recorded' => failures'[i] = 0
  BY <1>1, LimitsAssumption DEF FailuresCounted, Id
<1> QED BY <1>5, <1>6, <1>7 DEF FailuresCounted

(* The failure of a first POST: no copy has counted it, but from then on     *)
(* there is no other first POST of that id.                                 *)
LEMMA FirstPostFails ==
  ASSUME MaxAttempts >= 2, IInv, OneSender, FailuresCounted,
         NEW f \in flights, f.by = "record", Failed(f), recorded' = recorded,
         \A n \in Counts' : \/ n \in Counts
                            \/ n = <<f.copy.id, 1>> /\ IsCurrent(f.copy)
  PROVE  FailuresCounted'
<1> DEFINE id == f.copy.id
<1>1. /\ recorded \in Nat /\ failures \in [Id -> Nat] /\ MaxAttempts \in Nat
      /\ id \in 1..recorded /\ id \in Id
  BY LimitsAssumption, QueuedIsHeld DEF IInv, TypeOK, Id
<1>2. failures' = [failures EXCEPT ![id] = @ + 1] /\ flights' = flights \ {f}
  BY DEF Failed
<1>3. FirstPost(id) /\ ~FirstPost(id)'
  BY <1>2 DEF FirstPost, OneSender
<1>4. \A i \in Id : i # id => (FirstPost(i)' <=> FirstPost(i))
  BY <1>2 DEF FirstPost
<1>5. Uncounted(id) = 0 /\ Uncounted(id)' = MaxAttempts - 1
  BY <1>3 DEF Uncounted
<1>6. \A i \in Id : i # id => Uncounted(i)' = Uncounted(i)
  BY <1>4 DEF Uncounted
<1>7. \A i \in Id : Uncounted(i) \in Nat
  BY <1>1 DEF Uncounted
<1> HIDE DEF id
<1>8. ASSUME NEW n \in Counts' PROVE failures'[n[1]] <= n[2] + Uncounted(n[1])'
  <2>1. CASE n \in Counts
    <3>1. n[1] \in Id /\ n[2] \in Nat
      BY <1>1, <2>1, CountTypes
    <3>2. failures[n[1]] <= n[2] + Uncounted(n[1])
      BY <2>1 DEF FailuresCounted
    <3>3. CASE n[1] = id
      BY <1>1, <1>2, <1>5, <3>1, <3>2, <3>3
    <3>4. CASE n[1] # id
      BY <1>1, <1>2, <1>6, <3>1, <3>2, <3>4
    <3> QED BY <3>3, <3>4
  <2>2. CASE n = <<id, 1>> /\ IsCurrent(f.copy)
    <3>1. PICK q \in queue : q.id = id
      BY <2>2 DEF IsCurrent, id
    <3>2. <<id, q.attempts>> \in Counts
      BY <3>1 DEF Counts
    <3>3. failures[id] <= q.attempts /\ q.attempts \in 0..(MaxAttempts - 1)
      BY <1>1, <1>5, <3>2, CountTypes DEF FailuresCounted
    <3> QED BY <1>1, <1>2, <1>5, <2>2, <3>3
  <2> QED BY <2>1, <2>2 DEF id
<1>9. ASSUME NEW i \in Id PROVE failures'[i] <= MaxAttempts + Uncounted(i)'
  <2>1. failures[i] <= MaxAttempts + Uncounted(i)
    BY DEF FailuresCounted
  <2>2. CASE i = id
    BY <1>1, <1>2, <1>5, <2>1, <2>2
  <2>3. CASE i # id
    BY <1>1, <1>2, <1>6, <2>1, <2>3
  <2> QED BY <2>2, <2>3
<1>10. \A i \in Id : i > recorded' => failures'[i] = 0
  BY <1>1, <1>2 DEF FailuresCounted, Id
<1> QED BY <1>8, <1>9, <1>10 DEF FailuresCounted

(* The failure of a POST of the alarm: the one copy left, if any, counts it. *)
LEMMA AlarmPostFails ==
  ASSUME IInv, OneSender, FailuresCounted,
         NEW f \in flights, f.by = "alarm", Failed(f), recorded' = recorded,
         \A n \in Counts' : \/ n \in Counts /\ n[1] # f.copy.id
                            \/ n = <<f.copy.id, f.copy.attempts + 1>>
  PROVE  FailuresCounted'
<1> DEFINE id == f.copy.id
<1>1. /\ recorded \in Nat /\ failures \in [Id -> Nat] /\ MaxAttempts \in Nat
      /\ id \in 1..recorded /\ id \in Id
      /\ f.copy.attempts \in 0..(MaxAttempts - 1) /\ MaxAttempts >= 1
  BY LimitsAssumption, QueuedIsHeld DEF IInv, TypeOK, Id, Flight, Copy
<1>2. failures' = [failures EXCEPT ![id] = @ + 1] /\ flights' = flights \ {f}
  BY DEF Failed
<1>3. \A i \in Id : FirstPost(i)' <=> FirstPost(i)
  BY <1>2 DEF FirstPost
<1>4. \A i \in Id : Uncounted(i)' = Uncounted(i) /\ Uncounted(i) \in Nat
  BY <1>1, <1>3 DEF Uncounted
<1>5. failures[id] <= f.copy.attempts + Uncounted(id)
  <2>1. <<id, f.copy.attempts>> \in Counts
    BY DEF Counts
  <2> QED BY <2>1 DEF FailuresCounted
<1> HIDE DEF id
<1>6. ASSUME NEW n \in Counts' PROVE failures'[n[1]] <= n[2] + Uncounted(n[1])'
  <2>1. CASE n \in Counts /\ n[1] # id
    <3>1. n[1] \in Id /\ n[2] \in Nat /\ failures[n[1]] <= n[2] + Uncounted(n[1])
      BY <1>1, <2>1, CountTypes DEF FailuresCounted
    <3> QED BY <1>1, <1>2, <1>4, <2>1, <3>1
  <2>2. CASE n = <<id, f.copy.attempts + 1>>
    BY <1>1, <1>2, <1>4, <1>5, <2>2
  <2> QED BY <2>1, <2>2 DEF id
<1>7. ASSUME NEW i \in Id PROVE failures'[i] <= MaxAttempts + Uncounted(i)'
  BY <1>1, <1>2, <1>4, <1>5 DEF FailuresCounted
<1>8. \A i \in Id : i > recorded' => failures'[i] = 0
  BY <1>1, <1>2 DEF FailuresCounted, Id
<1> QED BY <1>6, <1>7, <1>8 DEF FailuresCounted

(* What the queue, the listing and the alarm's POST count after a failure.   *)
LEMMA CountsAfterFailure ==
  ASSUME IInv, OneSender, NEW f \in flights,
         DeliverGivesUp(f) \/ DeliverRetries(f) \/ DeliverSuperseded(f)
  PROVE  \A n \in Counts' :
           \/ n \in Counts /\ (f.by = "alarm" => n[1] # f.copy.id)
           \/ n = <<f.copy.id, f.copy.attempts + 1>> /\ IsCurrent(f.copy)
<1> USE DEF IInv
<1>1. listing' = listing /\ flights' = flights \ {f}
  BY DEF DeliverGivesUp, DeliverRetries, DeliverSuperseded, Failed
<1>2. ASSUME NEW q \in queue'
      PROVE  \/ q \in queue /\ q.id # f.copy.id
             \/ q.id = f.copy.id /\ q.attempts = f.copy.attempts + 1 /\ IsCurrent(f.copy)
  <2>1. CASE DeliverGivesUp(f)
    BY <2>1, DeletesItsOwn DEF DeliverGivesUp, QueuedIds
  <2>2. CASE DeliverRetries(f)
    BY <2>2, QueuedIsHeld DEF DeliverRetries, Put, Stored
  <2>3. CASE DeliverSuperseded(f)
    BY <2>3, QueuedIsHeld DEF DeliverSuperseded, IsCurrent
  <2> QED BY <2>1, <2>2, <2>3
<1>3. f.by = "alarm" => /\ \A c \in listing : c.id # f.copy.id
                        /\ \A g \in flights' : g.by # "alarm"
  BY <1>1 DEF OneSender
<1> QED BY <1>1, <1>2, <1>3 DEF Counts

(* Every step keeps the account of the failures.                            *)
LEMMA NextFailuresCounted ==
  ASSUME MaxAttempts >= 2, IInv, OneSender, FailuresCounted, [Next]_vars
  PROVE  FailuresCounted'
<1> USE DEF IInv
<1>1. CASE RecordEvent
  <2>1. recorded' \in recorded..MaxRecorded /\ recorded + 1 \in Id /\ recorded + 1 > recorded
    BY <1>1, LimitsAssumption DEF RecordEvent, TypeOK, Id
  <2>2. \A n \in Counts' : n \in Counts \/ n = <<recorded + 1, 0>>
    BY <1>1 DEF RecordEvent, Put, Stored, Counts
  <2>3. \A i \in Id : FirstPost(i)' => FirstPost(i) \/ i = recorded + 1
    BY <1>1 DEF RecordEvent, FirstPost
  <2> QED BY <1>1, <2>1, <2>2, <2>3, CountsKept DEF RecordEvent
<1>2. ASSUME NEW k \in Coalesced, RecordSnapshot(k) PROVE FailuresCounted'
  <2>1. recorded' \in recorded..MaxRecorded /\ recorded + 1 \in Id /\ recorded + 1 > recorded
    BY <1>2, LimitsAssumption DEF RecordSnapshot, TypeOK, Id
  <2>2. \A n \in Counts' : n \in Counts \/ n = <<recorded + 1, 0>>
    BY <1>2 DEF RecordSnapshot, Put, Stored, Counts
  <2>3. \A i \in Id : FirstPost(i)' => FirstPost(i)
    BY <1>2 DEF RecordSnapshot, FirstPost
  <2> QED BY <1>2, <2>1, <2>2, <2>3, CountsKept DEF RecordSnapshot
<1> DEFINE Kept == /\ UNCHANGED <<failures, recorded>>
                   /\ Counts' \subseteq Counts
                   /\ \A i \in Id : FirstPost(i)' => FirstPost(i)
<1>3. ASSUME Kept PROVE FailuresCounted'
  <2>1. recorded' \in recorded..MaxRecorded
    BY <1>3, LimitsAssumption DEF TypeOK
  <2> QED BY <1>3, <2>1, CountsKept
<1>4. CASE AlarmFires
  BY <1>3, <1>4 DEF AlarmFires, Counts, CopyOf, FirstPost
<1>5. ASSUME NEW c \in listing, AlarmDelivers(c) PROVE Kept
  BY <1>5 DEF AlarmDelivers, Counts, FirstPost
<1>6. CASE AlarmReturns
  BY <1>3, <1>6 DEF AlarmReturns, Counts, FirstPost
<1>7. ASSUME NEW f \in flights, Answer(f) PROVE Kept
  <2>1. PICK fate : FateOf(f, fate)
    BY <1>7 DEF Answer, IngestAccepts, IngestRejects, PostFails
  <2>2. \A g \in flights' : \E h \in flights : g.copy = h.copy /\ g.by = h.by
    <3>1. f \in Flight /\ flights \subseteq Flight
      BY DEF TypeOK
    <3> QED BY <2>1, <3>1, FatedFlight
  <2>3. UNCHANGED <<queue, listing, failures, recorded>>
    BY <1>7 DEF Answer, IngestAccepts, IngestRejects, PostFails
  <2> QED BY <2>2, <2>3 DEF Counts, FirstPost
<1>8. ASSUME NEW f \in flights, Deliver(f) PROVE FailuresCounted'
  <2>1. CASE DeliverSettles(f) \/ Unheard(f)
    BY <1>3, <2>1 DEF DeliverSettles, Unheard, deleteDeliveryIfCurrent, Counts, FirstPost
  <2>2. CASE DeliverGivesUp(f) \/ DeliverRetries(f) \/ DeliverSuperseded(f)
    <3>1. Failed(f) /\ f.by \in {"record", "alarm"} /\ recorded' = recorded
      BY <2>2 DEF DeliverGivesUp, DeliverRetries, DeliverSuperseded, Failed, Awaited,
                  TypeOK, Flight
    <3>2. CASE f.by = "record"
      <4>1. f.copy.attempts + 1 = 1
        BY <3>2 DEF OneSender
      <4> QED BY <2>2, <3>1, <3>2, <4>1, CountsAfterFailure, FirstPostFails
    <3>3. CASE f.by = "alarm"
      BY <2>2, <3>1, <3>3, CountsAfterFailure, AlarmPostFails
    <3> QED BY <3>1, <3>2, <3>3
  <2> QED BY <1>8, <2>1, <2>2 DEF Deliver
<1>9. CASE Elapse
  <2>1. \A q \in queue : LET p == [q EXCEPT !.age = Older(@), !.due = Sooner(@)]
                         IN  p.id = q.id /\ p.attempts = q.attempts
    BY DEF TypeOK, Delivery
  <2>2. \A p \in queue' : \E q \in queue : p.id = q.id /\ p.attempts = q.attempts
    BY <1>9, <2>1 DEF Elapse
  <2>3. \A c \in listing : Aged(c).id = c.id /\ Aged(c).attempts = c.attempts
    BY DEF TypeOK, Copy, Aged
  <2>4. \A d \in listing' : \E c \in listing : d.id = c.id /\ d.attempts = c.attempts
    BY <1>9, <2>3 DEF Elapse
  <2>5. \A f \in flights : LET g == [f EXCEPT !.copy = Aged(@)]
                           IN  /\ g.by = f.by /\ g.copy.id = f.copy.id
                               /\ g.copy.attempts = f.copy.attempts
    BY CopyTypes DEF TypeOK, Flight, Copy, Aged
  <2>6. \A g \in flights' : \E f \in flights :
          g.by = f.by /\ g.copy.id = f.copy.id /\ g.copy.attempts = f.copy.attempts
    BY <1>9, <2>5 DEF Elapse
  <2>7. Counts' \subseteq Counts
    BY <2>2, <2>4, <2>6 DEF Counts
  <2>8. \A i \in Id : FirstPost(i)' => FirstPost(i)
    BY <2>6 DEF FirstPost
  <2> QED BY <1>3, <1>9, <2>7, <2>8 DEF Elapse
<1>10. CASE Crash
  <2>1. listing' = {} /\ \A g \in flights' : g.by = "none"
    BY <1>10 DEF Crash, TypeOK, Flight
  <2> QED BY <1>3, <1>10, <2>1 DEF Crash, Counts, FirstPost
<1>11. CASE UNCHANGED vars
  BY <1>3, <1>11 DEF vars, Counts, FirstPost
<1> QED
  BY <1>1, <1>2, <1>3, <1>4, <1>5, <1>6, <1>7, <1>8, <1>9, <1>10, <1>11 DEF Next, Alarm

(* With a limit of at least two attempts, no delivery fails more than        *)
(* 2 * MaxAttempts - 1 times, however often the object restarts.             *)
THEOREM FailuresBounded ==
  ASSUME MaxAttempts >= 2 PROVE Spec => []RetriesBounded
<1>1. Init => OneSender /\ FailuresCounted
  BY LimitsAssumption DEF Init, OneSender, AlarmAwaits, FailuresCounted, Counts, Uncounted,
                          FirstPost
<1>2. IInv /\ OneSender /\ FailuresCounted /\ [Next]_vars => (OneSender /\ FailuresCounted)'
  BY NextOneSender, NextFailuresCounted, MaxAttempts >= 2
<1>3. IInv /\ FailuresCounted => RetriesBounded
  <2> SUFFICES ASSUME IInv, FailuresCounted, NEW i \in Id
               PROVE  failures[i] <= 2 * MaxAttempts - 1
    BY DEF RetriesBounded
  <2>1. failures[i] \in Nat /\ failures[i] <= MaxAttempts + Uncounted(i)
    BY DEF IInv, TypeOK, FailuresCounted
  <2>2. MaxAttempts \in Nat /\ Uncounted(i) \in 0..(MaxAttempts - 1)
    BY LimitsAssumption DEF Uncounted
  <2> QED BY <2>1, <2>2
<1> QED BY <1>1, <1>2, <1>3, Invariance, PTL DEF Spec

-----------------------------------------------------------------------------
(* The debounce of coalesced keys.                                          *)

(* No step takes a snapshot past the longest wait.                          *)
LEMMA NextDebounce ==
  IInv /\ DebounceBounded /\ [Next]_vars => DebounceBounded'
<1> SUFFICES ASSUME IInv, DebounceBounded, [Next]_vars PROVE DebounceBounded'
  OBVIOUS
<1>1. CASE RecordEvent
  <2>1. recorded + 1 \notin Coalesced
    BY LimitsAssumption, KeysAssumption DEF IInv, TypeOK
  <2>2. \A q \in queue' : q \in queue \/ q.key \notin Coalesced
    BY <1>1, <2>1 DEF RecordEvent, Put, Stored
  <2> QED BY <2>2 DEF DebounceBounded
<1>2. ASSUME NEW k \in Coalesced, RecordSnapshot(k) PROVE DebounceBounded'
  <2> DEFINE cur == {q \in queue : q.key = k}
             c(age) == [key |-> k, id |-> recorded + 1, attempts |-> 0, age |-> age]
  <2>1. PICK age \in IF cur = {} THEN {0} ELSE {q.age : q \in cur} :
           queue' = Put(Stored(c(age), 0, CoalescedDue(age)))
    BY <1>2 DEF RecordSnapshot
  <2>2. age >= 0 /\ age \in NoTime..MaxWait
    BY <2>1, TimesAssumption DEF IInv, QueuedAtKept, TypeOK, Delivery, NoTime
  <2>3. age + CoalescedDue(age) <= MaxWait
    BY <2>2, CoalescedDueInRange
  <2>4. \A q \in queue' : q \in queue \/ (q.age = age /\ q.due = CoalescedDue(age))
    BY <2>1 DEF Put, Stored
  <2> QED BY <2>3, <2>4 DEF DebounceBounded
<1>3. CASE Alarm \/ Crash \/ UNCHANGED vars
  BY <1>3 DEF Alarm, AlarmFires, AlarmDelivers, AlarmReturns, Crash, vars, DebounceBounded
<1>4. ASSUME NEW f \in flights, Answer(f) PROVE DebounceBounded'
  BY <1>4 DEF Answer, IngestAccepts, IngestRejects, PostFails, DebounceBounded
<1>5. ASSUME NEW f \in flights, Deliver(f) PROVE DebounceBounded'
  <2>1. CASE DeliverRetries(f)
    <3>1. f.copy.attempts + 1 # 0
      BY LimitsAssumption DEF IInv, TypeOK, Flight, Copy
    <3>2. \A q \in queue' : q \in queue \/ q.attempts # 0
      BY <2>1, <3>1 DEF DeliverRetries, Put, Stored
    <3> QED BY <3>2 DEF DebounceBounded
  <2>2. CASE ~DeliverRetries(f)
    BY <1>5, <2>2 DEF Deliver, DeliverSettles, DeliverGivesUp, DeliverSuperseded, Unheard,
                      Failed, deleteDeliveryIfCurrent, DebounceBounded
  <2> QED BY <2>1, <2>2
<1>6. CASE Elapse
  <2>1. ASSUME NEW q \in Delivery, q.age >= 0, q.age + q.due <= MaxWait
        PROVE  Older(q.age) + Sooner(q.due) <= MaxWait
    <3>1. q.age \in Int /\ q.due \in Int /\ q.age <= MaxWait
      BY TimesAssumption DEF Delivery, Delay, NoTime
    <3> QED BY <2>1, <3>1, TimesAssumption DEF Older, Sooner, NoTime
  <2>3. ASSUME NEW p \in queue'
        PROVE  \E q \in queue : /\ p.key = q.key /\ p.attempts = q.attempts
                                /\ p.age = Older(q.age) /\ p.due = Sooner(q.due)
    <3>1. PICK q \in queue : p = [q EXCEPT !.age = Older(@), !.due = Sooner(@)]
      BY <1>6, ElapseKeepsPairs DEF IInv
    <3>2. q \in Delivery
      BY DEF IInv, TypeOK
    <3> QED BY <3>1, <3>2 DEF Delivery
  <2> QED BY <2>1, <2>3 DEF IInv, TypeOK, QueuedAtKept, DebounceBounded
<1> QED BY <1>1, <1>2, <1>3, <1>4, <1>5, <1>6 DEF Next

(* However people type, and however often the object restarts, a snapshot is *)
(* due no later than the maximum wait after its key was first queued.        *)
THEOREM DebounceIsBounded == Spec => []DebounceBounded
<1>1. Init => DebounceBounded
  BY DEF Init, DebounceBounded
<1> QED BY <1>1, NextDebounce, Invariance, PTL DEF Spec

-----------------------------------------------------------------------------
(* The outbox implements the abstract one.                                  *)

(* Every step of the outbox is an abstract step or a stutter.               *)
LEMMA StepImplements ==
  ASSUME IInv, [Next]_vars
  PROVE  [Abstract!Next]_(Abstract!outbox)
<1> DEFINE Stutters == UNCHANGED <<recorded, QueuedIds, durable, discarded>>
<1> USE DEF Abstract!Next, Abstract!outbox
<1>1. CASE RecordEvent
  <2>1. recorded + 1 \notin Coalesced
    BY LimitsAssumption, KeysAssumption DEF IInv, TypeOK
  <2>2. \A q \in queue : q.key # recorded + 1
    BY <2>1, LimitsAssumption, QueuedIsHeld DEF IInv, TypeOK
  <2>3. QueuedIds' = (QueuedIds \ {}) \cup {recorded + 1}
    <3>1. PICK d : d.key = recorded + 1 /\ d.id = recorded + 1 /\ queue' = Put(d)
      BY <1>1 DEF RecordEvent, Stored
    <3>2. queue' = queue \cup {d}
      BY <2>2, <3>1 DEF Put
    <3> QED BY <3>1, <3>2 DEF QueuedIds
  <2>4. Abstract!Issue
    BY <1>1, <2>3 DEF RecordEvent, Abstract!Issue
  <2> QED BY <2>4
<1>2. ASSUME NEW k \in Coalesced, RecordSnapshot(k) PROVE Abstract!Issue
  <2> DEFINE old == {q.id : q \in {p \in queue : p.key = k}}
  <2>1. PICK d : d.id = recorded + 1 /\ queue' = {q \in queue : q.key # k} \cup {d}
    BY <1>2 DEF RecordSnapshot, Stored, Put
  <2>2. old \subseteq QueuedIds /\ \A i, j \in old : i = j
    BY DEF IInv, OnePerKey, QueuedIds
  <2>3. \A p, q \in queue : p.id = q.id => p.key = q.key
    BY QueuedIsHeld DEF IInv
  <2>4. QueuedIds' = (QueuedIds \ old) \cup {recorded + 1}
    BY <2>1, <2>3 DEF QueuedIds
  <2>5. recorded' = recorded + 1 /\ durable' = durable /\ discarded' = discarded
    BY <1>2 DEF RecordSnapshot
  <2> QED BY <2>2, <2>4, <2>5 DEF Abstract!Issue
<1>3. CASE Alarm \/ Crash \/ UNCHANGED vars
  BY <1>3 DEF Alarm, AlarmFires, AlarmDelivers, AlarmReturns, Crash, vars, QueuedIds
<1>4. ASSUME NEW f \in flights, Answer(f)
      PROVE  Stutters \/ (f.copy.id \in 1..recorded /\ Abstract!Store(f.copy.id))
  <2>1. f.copy.id \in 1..recorded
    BY QueuedIsHeld DEF IInv
  <2> QED BY <1>4, <2>1 DEF Answer, IngestAccepts, IngestRejects, PostFails, QueuedIds, Abstract!Store
<1>5. ASSUME NEW f \in flights, Deliver(f)
      PROVE  \/ Stutters
             \/ /\ f.copy.id \in 1..recorded
                /\ Abstract!Settle(f.copy.id) \/ Abstract!Drop(f.copy.id)
  <2> DEFINE i == f.copy.id
  <2>1. i \in 1..recorded
    BY QueuedIsHeld DEF IInv
  <2>2. CASE DeliverSettles(f)
    <3>1. /\ QueuedIds' = QueuedIds \ {i}
          /\ i \in QueuedIds <=> IsCurrent(f.copy)
      BY <2>2, DeletesItsOwn DEF IInv, DeliverSettles
    <3>2. UNCHANGED <<recorded, durable>>
      BY <2>2 DEF DeliverSettles
    <3>3. CASE f.fate = "accepted"
      <4>1. i \in durable
        BY <3>3 DEF IInv, AcceptedIsDurable
      <4> QED BY <2>1, <2>2, <3>1, <3>2, <3>3, <4>1 DEF DeliverSettles, Abstract!Settle
    <3>4. CASE f.fate = "rejected"
      BY <2>1, <2>2, <3>1, <3>2, <3>4 DEF DeliverSettles, Discard, Abstract!Drop
    <3> QED BY <2>2, <3>3, <3>4 DEF DeliverSettles, Awaited
  <2>3. CASE DeliverGivesUp(f)
    <3>1. /\ QueuedIds' = QueuedIds \ {i}
          /\ i \in QueuedIds <=> IsCurrent(f.copy)
      BY <2>3, DeletesItsOwn DEF IInv, DeliverGivesUp
    <3> QED BY <2>1, <2>3, <3>1 DEF DeliverGivesUp, Discard, Abstract!Drop
  <2>4. CASE DeliverRetries(f)
    <3>1. PICK d : d.key = f.copy.key /\ d.id = f.copy.id /\ queue' = Put(d)
      BY <2>4 DEF DeliverRetries, Stored
    <3>2. PICK q \in queue : q.key = f.copy.key /\ q.id = f.copy.id
      BY <2>4 DEF DeliverRetries, IsCurrent
    <3>3. queue' = (queue \ {q}) \cup {d}
      BY <3>1, <3>2 DEF Put, IInv, OnePerKey
    <3>4. QueuedIds' = QueuedIds
      BY <3>1, <3>2, <3>3 DEF QueuedIds
    <3> QED BY <2>4, <3>4 DEF DeliverRetries
  <2>5. CASE DeliverSuperseded(f) \/ Unheard(f)
    BY <2>5 DEF DeliverSuperseded, Unheard, QueuedIds
  <2> QED BY <1>5, <2>2, <2>3, <2>4, <2>5 DEF Deliver
<1>6. CASE Elapse
  <2>1. /\ \A p \in queue' : \E q \in queue : p.id = q.id
        /\ \A q \in queue : \E p \in queue' : p.id = q.id
    BY <1>6, ElapseKeepsPairs DEF IInv
  <2>2. QueuedIds' = QueuedIds
    BY <2>1 DEF QueuedIds
  <2> QED BY <1>6, <2>2 DEF Elapse
<1> QED BY <1>1, <1>2, <1>3, <1>4, <1>5, <1>6 DEF Next

(* Every behaviour of the queue, keys, alarms, copies, retries and restarts  *)
(* included, is one of the abstract outbox.                                  *)
THEOREM Refinement == Spec => ImplementsOutbox
<1>1. Init => Abstract!Init
  BY DEF Init, Abstract!Init, QueuedIds
<1> QED
  BY <1>1, StepImplements, Invariance, PTL DEF Spec, ImplementsOutbox, Abstract!Spec

(* A delivery that has left the queue stays out of it, whatever copies the   *)
(* alarm and the background POSTs still hold.                                *)
THEOREM NeverResurrected == Spec => NoResurrection
<1>1. ASSUME IInv, [Next]_vars
      PROVE  [\A i \in 1..recorded : i \notin QueuedIds => i \notin QueuedIds']_vars
  <2>1. QueuedIds' \subseteq QueuedIds \cup {recorded + 1}
    BY <1>1, StepImplements
       DEF Abstract!Next, Abstract!outbox, Abstract!Issue, Abstract!Store,
           Abstract!Settle, Abstract!Drop
  <2>2. recorded + 1 \notin 1..recorded
    BY <1>1, LimitsAssumption DEF IInv, TypeOK
  <2> QED BY <2>1, <2>2
<1> QED BY <1>1, Invariance, PTL DEF Spec, NoResurrection
=============================================================================
