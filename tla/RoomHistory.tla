------------------------------ MODULE RoomHistory ------------------------------
(***************************************************************************)
(* What is kept of rooms and who is shown it: POST /v1/internal/           *)
(* room-events, the paged history of a room, the activity feed and the     *)
(* calendar of an organization (apps/api/src/application.ts, repository.ts)*)
(*                                                                         *)
(* One reader, one reading at a time, while deliveries are repeated and    *)
(* room memberships come and go.  Each repository call is one step; every  *)
(* person here is an ordinary member of the organization, so that rooms    *)
(* can be closed to them.                                                  *)
(***************************************************************************)
EXTENDS AccessPolicy, Integers, Sequences, FiniteSets, SequencesExt

CONSTANTS
  Place, Restricted, \* rooms, and those that only their members may read
  Person,
  Delivery, Attempt, \* what the Worker delivers, and how often it may try
  Meeting,           \* calendar events
  PageLimit, FeedLimit,
  LastTime

VARIABLES
  explicit,  \* the explicit room memberships
  content,   \* what each delivery says
  ingest,    \* the attempts to deliver
  stored,    \* the documents of room_events
  calendar,  \* the documents of calendar_events
  schedule,  \* the requests that make them
  reading,   \* the reader's request
  could      \* history: the rooms the reader could read at some moment of it

historyVars == <<explicit, content, ingest, stored, calendar, schedule, reading, could>>
database == <<explicit, content, ingest, stored, calendar, schedule>>

Ordinary == [role |-> "member", attributes |-> {"canSchedule"}]
Kind(p) == [visibility |-> IF p \in Restricted THEN "restricted" ELSE "organization",
            classification |-> "internal"]
RoleIn(p, u) == IF <<p, u>> \in explicit THEN "member" ELSE "none"
May(p, u, action) == canRoom(Ordinary, Kind(p), RoleIn(p, u), action)
Reader == CHOOSE u \in Person : TRUE

Idle == [is |-> "none", pc |-> "idle", place |-> "none", before |-> LastTime + 1,
         got |-> <<>>, seen |-> {}, owed |-> {}, meetings |-> {}]
Document == [id : Delivery, place : Place, at : 1..LastTime]

HistoryTypeOK ==
  /\ explicit \subseteq Place \X Person
  /\ stored \subseteq Document
  /\ \A d \in calendar : d.id \in Meeting /\ d.place \in Place \cup {"none"} /\ schedule[d.id].pc = "done"
  /\ \A x \in Delivery \X Attempt : ingest[x] \in {"absent", "new", "write", "done", "refused"}
  /\ reading.is \in {"none", "history", "rooms", "feed", "calendar"}
  /\ reading.pc \in {"idle", "check", "list", "read", "answered", "forbidden"}
  /\ reading.got \in Seq(stored) /\ reading.seen \subseteq Place /\ could \subseteq Place

(* Room events and calendar events are kept apart, and no request reads     *)
(* both, so a behaviour has requests to make the ones or the others.        *)
HistoryInit ==
  /\ explicit \in SUBSET (Restricted \X {Reader})
  /\ content \in [Delivery -> [place : Place, at : 1..LastTime, from : Person]]
  /\ \E events \in BOOLEAN :
       /\ ingest = [x \in Delivery \X Attempt |-> IF events THEN "new" ELSE "absent"]
       /\ schedule = [m \in Meeting |-> [pc |-> IF events THEN "absent" ELSE "new", place |-> "none"]]
  /\ stored = {} /\ calendar = {}
  /\ reading = Idle /\ could = {}

(* A room membership is made or removed (Workspace has the handlers).       *)
Readable == {p \in Place : May(p, Reader, "read")}
ChangeAccess(p, u) ==
  /\ UNCHANGED <<content, ingest, stored, calendar, schedule, reading>>
  /\ explicit' = IF <<p, u>> \in explicit THEN explicit \ {<<p, u>>} ELSE explicit \cup {<<p, u>>}
  /\ could' = IF reading.pc \in {"idle", "answered"} THEN could ELSE could \cup Readable'

-----------------------------------------------------------------------------
(* POST /v1/internal/room-events: an attempt is authorized by what its      *)
(* author may do now, then written under the delivery's id.  An attempt the *)
(* Worker has given up on may still be running when the next one starts.    *)
IngestEvent(d, k) ==
  /\ ingest[<<d, k>>] = "new" /\ (k > 1 => ingest[<<d, k - 1>>] # "new")
  /\ ingest' = [ingest EXCEPT ![<<d, k>>] =
                  IF May(content[d].place, content[d].from, "write") THEN "write" ELSE "refused"]
  /\ UNCHANGED <<explicit, content, stored, calendar, schedule, reading, could>>

EventId(d, k) == d

writeRoomEvent(d, k) ==
  /\ ingest[<<d, k>>] = "write" /\ ingest' = [ingest EXCEPT ![<<d, k>>] = "done"]
  /\ stored' = IF \E e \in stored : e.id = EventId(d, k) THEN stored
               ELSE stored \cup {[id |-> EventId(d, k), place |-> content[d].place, at |-> content[d].at]}
  /\ UNCHANGED <<explicit, content, calendar, schedule, reading, could>>

(* POST /v1/orgs/:orgId/calendar, in a room the author can read, or none.   *)
Schedule(m, p, u) ==
  /\ schedule[m].pc = "new"
  /\ schedule' = [schedule EXCEPT ![m] = [place |-> p, pc |->
                    IF p = "none" \/ (p \in Place /\ May(p, u, "read")) THEN "insert" ELSE "refused"]]
  /\ UNCHANGED <<explicit, content, ingest, stored, calendar, reading, could>>

CreateCalendarEvent(m) ==
  /\ schedule[m].pc = "insert" /\ schedule' = [schedule EXCEPT ![m].pc = "done"]
  /\ calendar' = calendar \cup {[id |-> m, place |-> schedule[m].place]}
  /\ UNCHANGED <<explicit, content, ingest, stored, reading, could>>

-----------------------------------------------------------------------------
(* The newest n documents, oldest first; documents of one instant come in   *)
(* any order.                                                               *)
Older(d, e) == d.at <= e.at
Sorted(S) == {q \in SetToSeqs(S) : \A i, j \in DOMAIN q : i < j => Older(q[i], q[j])}
Newest(S, n) ==
  LET size == IF Cardinality(S) < n THEN Cardinality(S) ELSE n
      top == {T \in SUBSET S : Cardinality(T) = size /\ \A d \in S \ T, e \in T : Older(d, e)}
  IN  UNION {Sorted(T) : T \in top}

Begin(is, p) ==
  /\ reading = Idle
  /\ reading' = [Idle EXCEPT !.is = is, !.place = p, !.pc = IF is = "history" THEN "check" ELSE "list",
                             !.owed = {e \in stored : e.place = p}]
  /\ could' = Readable
  /\ UNCHANGED database

(* GET /v1/rooms/:roomId/events: each page is authorized, then read.        *)
CheckPage ==
  /\ reading.is = "history" /\ reading.pc = "check"
  /\ reading' = [reading EXCEPT !.pc = IF May(reading.place, Reader, "read") THEN "read" ELSE "forbidden"]
  /\ UNCHANGED <<database, could>>

(* A page more than the limit says that there is more; a caller goes on     *)
(* with the time of the oldest it got.                                      *)
Matching == {e \in stored : e.place = reading.place /\ e.at < reading.before}
Mutant_fullPage(page) == Len(page) > PageLimit + 1
HasMore(page) == Len(page) > PageLimit

listRoomEvents ==
  /\ reading.is = "history" /\ reading.pc = "read"
  /\ \E page \in Newest(Matching, PageLimit + 1) :
       LET events == IF Len(page) > PageLimit THEN Tail(page) ELSE page
       IN  reading' = [reading EXCEPT !.got = events \o @,
                                      !.before = IF events = <<>> THEN @ ELSE events[1].at,
                                      !.pc = IF HasMore(page) THEN "check" ELSE "answered"]
  /\ UNCHANGED <<database, could>>

(* GET /v1/orgs/:orgId/rooms: the rooms are filtered one by one; GET        *)
(* /v1/orgs/:orgId/activity then reads the newest events of those left.     *)
Visible(p) == May(p, Reader, "read")

FilterRoom(p) ==
  /\ reading.is \in {"rooms", "feed"} /\ reading.pc = "list" /\ p \notin reading.seen
  /\ reading' = [reading EXCEPT !.seen = @ \cup {p}, !.owed = IF Visible(p) THEN @ \cup {p} ELSE @]
  /\ UNCHANGED <<database, could>>

AnswerRooms ==
  /\ reading.is = "rooms" /\ reading.pc = "list" /\ reading.seen = Place
  /\ reading' = [reading EXCEPT !.pc = "answered"]
  /\ UNCHANGED <<database, could>>

listRoomEventsForRooms ==
  /\ reading.is = "feed" /\ reading.pc = "list" /\ reading.seen = Place
  /\ \E events \in Newest({e \in stored : e.place \in reading.owed}, FeedLimit) :
       reading' = [reading EXCEPT !.got = events, !.pc = "answered"]
  /\ UNCHANGED <<database, could>>

(* GET /v1/orgs/:orgId/calendar: the events are read, then filtered.        *)
listCalendarEvents ==
  /\ reading.is = "calendar" /\ reading.pc = "list"
  /\ reading' = [reading EXCEPT !.owed = calendar, !.pc = "read"]
  /\ UNCHANGED <<database, could>>

FilterMeeting(d) ==
  LET rest == reading.owed \ {d}
  IN  /\ reading.is = "calendar" /\ reading.pc = "read" /\ d \in reading.owed
      /\ reading' = [reading EXCEPT !.owed = rest,
                       !.meetings = IF d.place \notin Place \/ Visible(d.place) THEN @ \cup {d} ELSE @]
      /\ UNCHANGED <<database, could>>

AnswerCalendar ==
  /\ reading.is = "calendar" /\ reading.pc = "read" /\ reading.owed = {}
  /\ reading' = [reading EXCEPT !.pc = "answered"]
  /\ UNCHANGED <<database, could>>

HistoryNext ==
  \/ \E d \in Delivery, k \in Attempt : IngestEvent(d, k) \/ writeRoomEvent(d, k)
  \/ \E m \in Meeting :
       \/ \E p \in Place \cup {"none"}, u \in Person : Schedule(m, p, u)
       \/ CreateCalendarEvent(m)
  \/ \E p \in Place :
       \/ \E u \in Person : p \in Restricted /\ ChangeAccess(p, u)
       \/ Begin("history", p) \/ FilterRoom(p)
  \/ Begin("rooms", "none") \/ Begin("feed", "none") \/ Begin("calendar", "none")
  \/ CheckPage \/ AnswerRooms \/ listRoomEvents \/ listRoomEventsForRooms
  \/ listCalendarEvents \/ (\E d \in calendar : FilterMeeting(d)) \/ AnswerCalendar

-----------------------------------------------------------------------------
(* "Reusing it as the event ID makes the repository write idempotent":      *)
(* however often and however concurrently a delivery is attempted, it is    *)
(* kept once.                                                               *)
KeptOnce == Cardinality(stored) <= Cardinality({d \in Delivery : \E k \in Attempt : ingest[<<d, k>>] = "done"})

(* A caller that pages back to the end has every event that was there when  *)
(* it began, however many came meanwhile, as long as no two of the room     *)
(* have the same time.                                                      *)
HistoryIsComplete ==
  reading.is = "history" /\ reading.pc = "answered"
  /\ (\A d, e \in stored : d.place = e.place /\ d.at = e.at => d = e)
  => reading.owed \subseteq ToSet(reading.got)

(* The pages put together are in order, and nothing is in them twice.       *)
PagesInOrder ==
  reading.is = "history" =>
    \A i, j \in DOMAIN reading.got : i < j => Older(reading.got[i], reading.got[j]) /\ reading.got[i] # reading.got[j]

(* "A durable, permission-filtered record of the rooms you can access":     *)
(* everything in an answer is of a room the reader could read at some       *)
(* moment of the request.                                                   *)
NothingForeign ==
  reading.pc = "answered" =>
    /\ {e.place : e \in ToSet(reading.got)} \subseteq could
    /\ {d.place : d \in reading.meetings} \subseteq could \cup {"none"}
    /\ reading.is = "rooms" => reading.owed \subseteq could
=============================================================================
