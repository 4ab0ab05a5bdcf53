---------------------------- MODULE DeliveryQueue ----------------------------
(***************************************************************************)
(* The persistence outbox of one room's Durable Object                     *)
(* (apps/realtime/src/index.ts).                                           *)
(*                                                                         *)
(* Every recorded event is put in the object's storage under a "delivery:" *)
(* key and POSTed to apps/api until the API accepts it, refuses it for     *)
(* good, or the retry limit is reached.  An ordinary event has a key of    *)
(* its own and is POSTed at once (waitUntil); an editor document and the   *)
(* whiteboard each have ONE key, whose pending snapshot a newer one        *)
(* replaces, and are POSTed by the alarm after a quiet period.             *)
(*                                                                         *)
(* What interleaves.  Storage operations close the object's input gate, so *)
(* a run of storage awaits is one atomic step; the object gives way only   *)
(* while it awaits the POST.  During that await other messages are         *)
(* recorded, other POSTs are answered, time passes, and the alarm may fire *)
(* (one alarm handler at a time).  A crash loses the awaiting code, never  *)
(* the storage or the alarm.                                               *)
(*                                                                         *)
(* Time is kept as distances from now: a "due" of 3 is a nextAttemptAt     *)
(* three ticks ahead, 0 is now or in the past.                             *)
(***************************************************************************)
EXTENDS Integers, FiniteSets

CONSTANTS
  Document,     \* editor documents ("code", "notes")
  Board,        \* the whiteboard, coalesced like a document
  MaxAttempts,  \* deliveryMaxAttempts
  Quiet,        \* editorPersistenceQuietMs, in ticks
  MaxWait,      \* editorPersistenceMaxWaitMs, in ticks
  RetryBase,    \* deliveryRetryBaseMs, in ticks
  RetryMax,     \* deliveryRetryMaxMs, in ticks
  AccessMayLapse, \* whether an author may lose the right to write meanwhile
  MaxRecorded,  \* bound: events recorded in a behaviour
  MaxCrashes    \* bound: restarts of the object in a behaviour

Coalesced == Document \cup {Board}

ASSUME TimesAssumption ==
  /\ Quiet \in Nat /\ MaxWait \in Nat /\ Quiet <= MaxWait
  /\ RetryBase \in Nat \ {0} /\ RetryMax \in Nat /\ RetryBase <= RetryMax
ASSUME LimitsAssumption ==
  /\ MaxAttempts \in Nat \ {0} /\ MaxRecorded \in Nat /\ MaxCrashes \in Nat
  /\ AccessMayLapse \in BOOLEAN
ASSUME KeysAssumption == Board \notin Document /\ Coalesced \cap Nat = {}

VARIABLES
  queue,     \* storage: the deliveries under "delivery:" keys
  alarm,     \* storage: ticks until the alarm, or NoTime
  handler,   \* "idle", or "running" while alarm() has not returned
  listing,   \* copies alarm() listed and has still to deliver
  flights,   \* POSTs whose answer has not been handled
  durable,   \* ids of the events apps/api has stored
  discarded, \* history: ids deliver() removed from the queue undelivered
  recorded,  \* events recorded so far; the next delivery id is recorded + 1
  events,    \* history: ids recorded under a key of their own
  latest,    \* the newest id recorded for each coalesced key, 0 for none
  failures,  \* history: failed attempts of each id, as deliver() saw them
  crashes    \* restarts so far

vars == <<queue, alarm, handler, listing, flights, durable, discarded,
          recorded, events, latest, failures, crashes>>

NoTime == -1

Id == 1..MaxRecorded
Key == Coalesced \cup Id
Delay == NoTime..(IF MaxWait > RetryMax THEN MaxWait ELSE RetryMax)

(* A Delivery as code holds it across an await; nextAttemptAt is left out   *)
(* because deliver() always overwrites it.                                  *)
Copy == [key : Key, id : Id, attempts : 0..(MaxAttempts - 1), age : NoTime..MaxWait]

(* A Delivery in storage.  due = NoTime: no nextAttemptAt, as record() puts *)
(* an ordinary event; age = NoTime: no queuedAt.                            *)
Delivery == [key : Key, id : Id, attempts : 0..(MaxAttempts - 1),
             age : NoTime..MaxWait, due : Delay]

CopyOf(q) == [key |-> q.key, id |-> q.id, attempts |-> q.attempts, age |-> q.age]

Mutant_forgetsAttempts(c, attempts, due) ==
  [key |-> c.key, id |-> c.id, attempts |-> 0, age |-> c.age, due |-> due]
Stored(c, attempts, due) ==
  [key |-> c.key, id |-> c.id, attempts |-> attempts, age |-> c.age, due |-> due]

(* A POST.  by: the code awaiting it, "none" once a crash has lost that     *)
(* code; fate: what has happened to the request so far.                     *)
Flight == [copy : Copy, by : {"record", "alarm", "none"},
           fate : {"sent", "accepted", "rejected", "failed"}]

QueuedIds == {q.id : q \in queue}

TypeOK ==
  /\ queue \subseteq Delivery
  /\ alarm \in Delay
  /\ handler \in {"idle", "running"}
  /\ listing \subseteq Copy
  /\ flights \subseteq Flight
  /\ durable \subseteq Id /\ discarded \subseteq Id
  /\ recorded \in 0..MaxRecorded /\ events \subseteq 1..recorded
  /\ latest \in [Coalesced -> 0..MaxRecorded]
  /\ failures \in [Id -> Nat]
  /\ crashes \in 0..MaxCrashes

Init ==
  /\ queue = {} /\ alarm = NoTime
  /\ handler = "idle" /\ listing = {} /\ flights = {}
  /\ durable = {} /\ discarded = {} /\ recorded = 0 /\ events = {}
  /\ latest = [k \in Coalesced |-> 0]
  /\ failures = [i \in Id |-> 0]
  /\ crashes = 0

-----------------------------------------------------------------------------
(* Storage helpers.                                                        *)

Put(d) == {q \in queue : q.key # d.key} \cup {d}

Mutant_deleteAnyVersion(c) == {q \in queue : q.key # c.key}
deleteDeliveryIfCurrent(c) == {q \in queue : ~(q.key = c.key /\ q.id = c.id)}

Mutant_sameKeyIsCurrent(c) == \E q \in queue : q.key = c.key
Mutant_alwaysCurrent(c) == TRUE
IsCurrent(c) == \E q \in queue : q.key = c.key /\ q.id = c.id

Discard(c) == IF IsCurrent(c) THEN discarded \cup {c.id} ELSE discarded

Mutant_neverSchedules(due) == alarm
Mutant_keepsAnyAlarm(due) == IF alarm = NoTime THEN due ELSE alarm
scheduleAlarmAt(due) == IF alarm = NoTime \/ due < alarm THEN due ELSE alarm

deliveryRetryDelay(n) ==
  LET delay == RetryBase * 2 ^ (n - 1)
  IN  IF delay \in 0..RetryMax THEN delay ELSE RetryMax

isDue(q) == q.due <= 0

(* When scheduleNextDelivery wants to be woken for a stored delivery.       *)
Wakeup(q) == IF q.due = NoTime THEN RetryBase ELSE q.due

(* The alarm scheduleNextDelivery leaves behind.                            *)
Mutant_asItWas == {alarm}
NextWakeup ==
  IF queue = {} THEN {NoTime}
  ELSE {Wakeup(q) : q \in {p \in queue : \A r \in queue : Wakeup(p) <= Wakeup(r)}}

(* The window a newer snapshot is given: the quiet period, but never past   *)
(* the longest wait since the key was first queued.                         *)
Mutant_debounceForever(age) == Quiet
CoalescedDue(age) == IF Quiet < MaxWait - age THEN Quiet ELSE MaxWait - age

-----------------------------------------------------------------------------
(* Recording.                                                              *)

(* record() of an event that has its own key: stored without a              *)
(* nextAttemptAt, no alarm, and its POST starts in the background.          *)
RecordEvent ==
  LET i == recorded + 1
      c == [key |-> i, id |-> i, attempts |-> 0, age |-> NoTime]
  IN  /\ recorded < MaxRecorded
      /\ recorded' = i /\ events' = events \cup {i}
      /\ queue' = Put(Stored(c, 0, NoTime))
      /\ flights' = flights \cup {[copy |-> c, by |-> "record", fate |-> "sent"]}
      /\ UNCHANGED <<alarm, handler, listing, durable, discarded, latest, failures, crashes>>

(* record() of an editor event, or applyWhiteboard(): the snapshot replaces *)
(* the pending one but keeps its queuedAt, and only the alarm is scheduled. *)
RecordSnapshot(k) ==
  LET i   == recorded + 1
      cur == {q \in queue : q.key = k}
  IN  /\ recorded < MaxRecorded
      /\ recorded' = i
      /\ latest' = [latest EXCEPT ![k] = i]
      /\ \E age \in IF cur = {} THEN {0} ELSE {q.age : q \in cur} :
           LET due == CoalescedDue(age)
               c   == [key |-> k, id |-> i, attempts |-> 0, age |-> age]
           IN  /\ queue' = Put(Stored(c, 0, due))
               /\ alarm' = scheduleAlarmAt(due)
      /\ UNCHANGED <<handler, listing, flights, durable, discarded, events, failures, crashes>>

-----------------------------------------------------------------------------
(* The alarm handler.                                                      *)

(* alarm() starts: the queue is listed once, with one timestamp.            *)
AlarmFires ==
  /\ alarm = 0 /\ handler = "idle"
  /\ alarm' = NoTime /\ handler' = "running"
  /\ listing' = {CopyOf(q) : q \in {p \in queue : isDue(p)}}
  /\ UNCHANGED <<queue, flights, durable, discarded, recorded, events, latest, failures, crashes>>

AlarmAwaits == \E f \in flights : f.by = "alarm"

(* The loop of alarm(): the next listed copy is POSTed and awaited, whatever *)
(* has become of the stored delivery since it was listed.                    *)
AlarmDelivers(c) ==
  /\ handler = "running" /\ ~AlarmAwaits
  /\ c \in listing
  /\ listing' = listing \ {c}
  /\ flights' = flights \cup {[copy |-> c, by |-> "alarm", fate |-> "sent"]}
  /\ UNCHANGED <<queue, alarm, handler, durable, discarded, recorded, events, latest, failures, crashes>>

(* scheduleNextDelivery() and the return of alarm().                        *)
AlarmReturns ==
  /\ handler = "running" /\ ~AlarmAwaits /\ listing = {}
  /\ handler' = "idle"
  /\ alarm' \in NextWakeup
  /\ UNCHANGED <<queue, listing, flights, durable, discarded, recorded, events, latest, failures, crashes>>

-----------------------------------------------------------------------------
(* The POST: apps/api and the network, while the object awaits.            *)

FateOf(f, fate) == flights' = (flights \ {f}) \cup {[f EXCEPT !.fate = fate]}

(* POST /internal/room-events stores the event under its deliveryId: a      *)
(* second arrival of the same delivery stores nothing.                      *)
IngestAccepts(f) ==
  /\ f \in flights /\ f.fate = "sent" /\ f.copy.key # Board
  /\ durable' = durable \cup {f.copy.id}
  /\ FateOf(f, "accepted")
  /\ UNCHANGED <<queue, alarm, handler, listing, discarded, recorded, events, latest, failures, crashes>>

(* 422 or 403.  The ingest schema has no "whiteboard" type, so a board      *)
(* snapshot is always refused; any event is once its author may not write.  *)
IngestRejects(f) ==
  /\ f \in flights /\ f.fate = "sent"
  /\ f.copy.key = Board \/ AccessMayLapse
  /\ FateOf(f, "rejected")
  /\ UNCHANGED <<queue, alarm, handler, listing, durable, discarded, recorded, events, latest, failures, crashes>>

(* A retryable status, a request that never arrived, or an answer lost on   *)
(* its way back from a request the API has already handled.                 *)
PostFails(f) ==
  /\ f \in flights /\ f.fate # "failed"
  /\ FateOf(f, "failed")
  /\ UNCHANGED <<queue, alarm, handler, listing, durable, discarded, recorded, events, latest, failures, crashes>>

-----------------------------------------------------------------------------
(* deliver() after the await.                                              *)

Awaited(f, fates) == f \in flights /\ f.by # "none" /\ f.fate \in fates

(* Accepted, or refused for good: nothing more to do for this delivery.     *)
DeliverSettles(f) ==
  /\ Awaited(f, {"accepted", "rejected"})
  /\ flights' = flights \ {f}
  /\ queue' = deleteDeliveryIfCurrent(f.copy)
  /\ discarded' = IF f.fate = "rejected" THEN Discard(f.copy) ELSE discarded
  /\ UNCHANGED <<alarm, handler, listing, durable, recorded, events, latest, failures, crashes>>

Failed(f) ==
  /\ Awaited(f, {"failed"})
  /\ flights' = flights \ {f}
  /\ failures' = [failures EXCEPT ![f.copy.id] = @ + 1]

(* The last failure the limit allows: the delivery is discarded.            *)
DeliverGivesUp(f) ==
  /\ Failed(f)
  /\ f.copy.attempts + 1 >= MaxAttempts
  /\ queue' = deleteDeliveryIfCurrent(f.copy)
  /\ discarded' = Discard(f.copy)
  /\ UNCHANGED <<alarm, handler, listing, durable, recorded, events, latest, crashes>>

(* An earlier failure: the awaited copy is put back with its attempt count  *)
(* and its backoff, if storage still holds this delivery.                   *)
DeliverRetries(f) ==
  LET n   == f.copy.attempts + 1
      due == deliveryRetryDelay(n)
  IN  /\ Failed(f)
      /\ n < MaxAttempts
      /\ IsCurrent(f.copy)
      /\ queue' = Put(Stored(f.copy, n, due))
      /\ alarm' = scheduleAlarmAt(due)
      /\ UNCHANGED <<handler, listing, durable, discarded, recorded, events, latest, crashes>>

DeliverSuperseded(f) ==
  /\ Failed(f)
  /\ f.copy.attempts + 1 < MaxAttempts
  /\ ~IsCurrent(f.copy)
  /\ UNCHANGED <<queue, alarm, handler, listing, durable, discarded, recorded, events, latest, crashes>>

-----------------------------------------------------------------------------
(* The platform: time and crashes.                                         *)

Sooner(t) == IF t > 0 THEN t - 1 ELSE t
Older(t) == IF t = NoTime \/ t = MaxWait THEN t ELSE t + 1
Aged(c) == [c EXCEPT !.age = Older(@)]

(* One tick passes.  A copy in memory keeps its queuedAt, so it ages too.   *)
Elapse ==
  /\ queue' = {[q EXCEPT !.age = Older(@), !.due = Sooner(@)] : q \in queue}
  /\ alarm' = Sooner(alarm)
  /\ listing' = {Aged(c) : c \in listing}
  /\ flights' = {[f EXCEPT !.copy = Aged(@)] : f \in flights}
  /\ UNCHANGED <<handler, durable, discarded, recorded, events, latest, failures, crashes>>

(* The object is evicted or its process dies.  Requests already sent may    *)
(* still reach the API.  An interrupted alarm handler is run again, unless  *)
(* it had already set another alarm, which may then be all that is left.    *)
Crash ==
  /\ crashes < MaxCrashes
  /\ crashes' = crashes + 1
  /\ handler' = "idle" /\ listing' = {}
  /\ flights' = {[f EXCEPT !.by = "none"] : f \in {g \in flights : g.fate = "sent"}}
  /\ \/ alarm' = alarm /\ (handler = "idle" \/ alarm # NoTime)
     \/ alarm' = 0 /\ handler = "running"
  /\ UNCHANGED <<queue, durable, discarded, recorded, events, latest, failures>>

(* The end of a request nobody awaits.                                      *)
Unheard(f) ==
  /\ f \in flights /\ f.by = "none" /\ f.fate # "sent"
  /\ flights' = flights \ {f}
  /\ UNCHANGED <<queue, alarm, handler, listing, durable, discarded, recorded, events, latest, failures, crashes>>

-----------------------------------------------------------------------------
Answer(f) == IngestAccepts(f) \/ IngestRejects(f) \/ PostFails(f)

Deliver(f) ==
  \/ DeliverSettles(f) \/ DeliverGivesUp(f)
  \/ DeliverRetries(f) \/ DeliverSuperseded(f) \/ Unheard(f)

Alarm == AlarmFires \/ (\E c \in listing : AlarmDelivers(c)) \/ AlarmReturns

Next ==
  \/ RecordEvent
  \/ \E k \in Coalesced : RecordSnapshot(k)
  \/ Alarm
  \/ \E f \in flights : Answer(f) \/ Deliver(f)
  \/ Elapse
  \/ Crash

Spec == Init /\ [][Next]_vars

(* The platform answers every POST (if only with an error), resumes the     *)
(* code that awaits it, lets time pass and fires a due alarm.  Nobody has   *)
(* to record anything, and nothing has to crash.                            *)
Fairness ==
  /\ WF_vars(Alarm)
  /\ WF_vars(\E f \in flights : Answer(f))
  /\ WF_vars(\E f \in flights : Deliver(f))
  /\ WF_vars(Elapse)

FairSpec == Spec /\ Fairness

-----------------------------------------------------------------------------
(* A pending snapshot is the newest one recorded for its document: no answer *)
(* or retry of an older snapshot, listed or POSTed before the newer one was  *)
(* recorded, may put the older one back (deliver(): the deliveryId checks).  *)
QueueHoldsLatest ==
  \A q \in queue : q.key \in Coalesced => q.id = latest[q.key]

(* Every event of its own is queued, stored by the API, or was discarded on  *)
(* purpose, and so is the newest snapshot of every document: whatever the    *)
(* answers, retries and crashes, nothing else leaves the outbox.             *)
NothingLost ==
  LET accounted == durable \cup discarded \cup QueuedIds
  IN  /\ events \subseteq accounted
      /\ \A k \in Coalesced : latest[k] = 0 \/ latest[k] \in accounted

(* A delivery that has left the queue never comes back, although the alarm   *)
(* and the background POST keep copies of it (deliver() re-reads storage     *)
(* before it puts a copy back).                                              *)
NoResurrection ==
  [][\A i \in 1..recorded : i \notin QueuedIds => i \notin QueuedIds']_vars

(* A delivery that has a retry or quiet time to wait for has an alarm that   *)
(* will end the wait, or a running handler that will set one, across crashes.*)
AlarmPending ==
  (\E q \in queue : q.due # NoTime) => alarm # NoTime \/ handler = "running"

(* While no restart has interfered, that alarm is never late: it is set for  *)
(* the earliest waiting delivery or sooner.                                  *)
WakeupInTime ==
  crashes = 0 /\ handler = "idle" =>
    \A q \in queue : q.due # NoTime => alarm \in 0..q.due

(* Every queued delivery is in somebody's hands: its first POST is awaited,  *)
(* an alarm is set, or the alarm handler is running.  This is "what makes    *)
(* retry survive hibernation" in the comment on alarm().                     *)
QueueIsWatched ==
  \A q \in queue :
    \/ alarm # NoTime \/ handler = "running"
    \/ \E f \in flights : f.by = "record" /\ f.copy.id = q.id

(* Somebody is going to serve every queued delivery, and not later than it  *)
(* is due: scheduleAlarmAt and scheduleNextDelivery keep the earliest time   *)
(* of all that is stored.                                                   *)
QueueIsServed == QueueIsWatched /\ WakeupInTime

(* Continuous typing cannot defer a snapshot for ever: until its first       *)
(* failure, the time it has waited and the time it still waits stay within   *)
(* editorPersistenceMaxWaitMs.                                               *)
DebounceBounded ==
  \A q \in queue : q.key \in Coalesced /\ q.attempts = 0 => q.age + q.due <= MaxWait

(* A delivery fails at most 2 * MaxAttempts - 1 times.  Not MaxAttempts: the *)
(* background POST and the alarm may each count from the copy they hold, so  *)
(* the first can set the second's count back once, and no more than once     *)
(* (deliveryMaxAttempts is 8; a limit of one attempt would double too).      *)
RetriesBounded == \A i \in Id : failures[i] <= 2 * MaxAttempts - 1

(* "What persists: ... whiteboard updates", which the code does not keep     *)
(* (README, 4.2): the newest board snapshot is queued or stored by the API,  *)
(* unless its POSTs have failed.                                             *)
BoardPersists ==
  LET i == latest[Board]
  IN  i \in {0} \cup durable \cup QueuedIds \/ failures[i] > 0

(* Once people stop, the outbox drains: every delivery is eventually         *)
(* accepted, refused or given up.                                            *)
Drains == <>[](queue = {})

(* The outbox implements the abstract one.                                   *)
Abstract == INSTANCE Outbox WITH
  pending <- QueuedIds, stored <- durable, dropped <- discarded, issued <- recorded
ImplementsOutbox == Abstract!Spec
-----------------------------------------------------------------------------
(* The inductive invariant behind the theorems of DeliveryQueue_proofs.      *)

(* Every (key, id) pair some part of the outbox holds: stored, listed by the *)
(* alarm, or in a POST.                                                      *)
Held ==
  {<<q.key, q.id>> : q \in queue} \cup {<<c.key, c.id>> : c \in listing}
    \cup {<<f.copy.key, f.copy.id>> : f \in flights}

HeldIssued ==
  \A h \in Held :
    /\ h[2] \in 1..recorded
    /\ h[1] \notin Coalesced => h[1] = h[2]
    /\ h[1] \in Coalesced <=> h[2] \notin events

IdNamesKey == \A g, h \in Held : g[2] = h[2] => g = h

OnePerKey == \A p, q \in queue : p.key = q.key => p = q

LatestIssued ==
  \A k \in Coalesced :
    /\ latest[k] \in 0..recorded /\ latest[k] \notin events
    /\ \A j \in Coalesced : latest[j] = latest[k] => j = k \/ latest[k] = 0

AcceptedIsDurable == \A f \in flights : f.fate = "accepted" => f.copy.id \in durable

(* A copy of a snapshot keeps the time its key was first queued.            *)
QueuedAtKept ==
  /\ \A c \in queue \cup listing : c.key \in Coalesced => c.age >= 0
  /\ \A f \in flights : f.copy.key \in Coalesced => f.copy.age >= 0

(* What the outbox must know of its copies for QueueHoldsLatest, NothingLost *)
(* and DebounceBounded to survive every step: an id belongs to one key, a    *)
(* key holds one delivery, and an accepted POST has been stored.             *)
IInv ==
  /\ TypeOK /\ HeldIssued /\ IdNamesKey /\ OnePerKey /\ LatestIssued
  /\ AcceptedIsDurable /\ QueuedAtKept /\ QueueHoldsLatest /\ NothingLost

(* For RetriesBounded: the first POST of an id, the attempt counts that its  *)
(* other copies carry, and how its failures compare with them.  A failure    *)
(* the copies do not count is one that happened before the first POST was    *)
(* answered, and there are fewer than MaxAttempts of these.                  *)
FirstPost(i) == \E f \in flights : f.by = "record" /\ f.copy.id = i

Counts ==
  {<<q.id, q.attempts>> : q \in queue} \cup {<<c.id, c.attempts>> : c \in listing}
    \cup {<<f.copy.id, f.copy.attempts>> : f \in {g \in flights : g.by = "alarm"}}

Uncounted(i) == IF FirstPost(i) THEN 0 ELSE MaxAttempts - 1

FailuresCounted ==
  /\ \A n \in Counts : failures[n[1]] <= n[2] + Uncounted(n[1])
  /\ \A i \in Id : failures[i] <= MaxAttempts + Uncounted(i)
  /\ \A i \in Id : i > recorded => failures[i] = 0

(* One alarm handler at a time, which POSTs each listed delivery once, and   *)
(* one first POST for each event.                                            *)
OneSender ==
  /\ handler = "idle" => listing = {} /\ ~AlarmAwaits
  /\ \A c, d \in listing : c.id = d.id => c = d
  /\ \A f, g \in flights :
       /\ f.by = "alarm" /\ g.by = "alarm" => f = g
       /\ f.by = "record" /\ g.by = "record" /\ f.copy.id = g.copy.id => f = g
  /\ \A f \in flights :
       /\ f.by = "record" => f.copy.attempts = 0
       /\ f.by = "alarm" => \A c \in listing : c.id # f.copy.id
=============================================================================
