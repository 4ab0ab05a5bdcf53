-------------------------------- MODULE Stores --------------------------------
(***************************************************************************)
(* The two implementations of Repository beside each other                 *)
(* (apps/api/src/repository.ts).  The tests and local development run on   *)
(* MemoryRepository, production on MongoRepository; "miss the Mongo one    *)
(* and everything passes until deployment".                                *)
(*                                                                         *)
(* The same calls are made of both, one after the other, as handlers that  *)
(* do not overlap make them: an id or a random secret is new, a member is  *)
(* added who is not one, an update carries a document that was read.  What *)
(* a call reads is an operator: the answers of a store, for every argument.*)
(* Documents of one collection have different times, and keep of their     *)
(* fields those that are looked up, filtered or sorted by.                 *)
(***************************************************************************)
EXTENDS Integers, Sequences, FiniteSets
LOCAL INSTANCE SequencesExt
LOCAL INSTANCE TLC

CONSTANTS
  MaxDocuments, \* documents created in a collection, fewer than there are times
  Owner,        \* the users, organizations or rooms documents belong to
  LastTime,     \* times are 1..LastTime
  PageLimit,    \* the `limit` of a page
  None          \* undefined

VARIABLES
  explored, \* the collections a behaviour is about
  memory,   \* MemoryRepository: a Map or an array, in order of insertion
  mongo     \* MongoRepository: a set of documents

store == <<explored, memory, mongo>>

Id == 1..MaxDocuments
Time == 1..LastTime
Codes == 1..(MaxDocuments + 1)
Tokens == {"authCodes", "refreshTokens", "accountActionTokens"}
Collection ==
  {"users", "credentials", "recoveryCodes", "sessions", "orgs", "memberships", "rooms", "roomMemberships",
   "calendarEvents", "pats", "roomEvents"} \cup Tokens

(* A secret (key) is named by the document that carries it when it is       *)
(* created.                                                                 *)
User == [id : Id, key : Id, name : Id]
Credential == [id : Id, key : Codes]
RecoveryCode == [id : Id, owner : Owner, key : Id, used : BOOLEAN]
Session == [id : Id, owner : Owner, key : Id, at : Time, revoked : BOOLEAN]
PersonalAccessToken == [id : Id, owner : Owner, key : Id, at : Time, revoked : BOOLEAN]
Organization == [id : Id, key : Codes]
Membership == [id : Id \X Owner, owner : Id, user : Owner, role : {"owner", "admin", "member"}, at : Time]
Room == [id : Id, owner : Owner, at : Time]
RoomMembership == [id : Id \X Owner, owner : Id, user : Owner, at : Time]
CalendarEvent == [id : Id, owner : Owner, at : Time, until : Time]
RoomEvent == [id : Id, owner : Owner, at : Time]
AccountActionToken == [id : Id]

Document(c) ==
  CASE c = "users" -> User [] c = "credentials" -> Credential
    [] c = "recoveryCodes" -> RecoveryCode [] c = "sessions" -> Session [] c = "pats" -> PersonalAccessToken
    [] c = "orgs" -> Organization [] c = "memberships" -> Membership
    [] c = "rooms" -> Room [] c = "roomMemberships" -> RoomMembership
    [] c = "calendarEvents" -> CalendarEvent [] c = "roomEvents" -> RoomEvent
    [] OTHER -> AccountActionToken

Empty == [c \in Collection |-> <<>>]
NoDocuments == [c \in Collection |-> {}]

StoresInit ==
  /\ explored \in {{"users", "credentials"}, {"recoveryCodes"}, {"sessions"}, {"pats"}, {"orgs", "memberships"},
                   {"rooms", "roomMemberships"}, {"calendarEvents"}, {"roomEvents"}}
                  \cup {{c} : c \in Tokens}
  /\ memory = Empty /\ mongo = NoDocuments

-----------------------------------------------------------------------------
(* Map.set(): a key that is there keeps its place.                          *)
Set(docs, d) ==
  IF \E i \in DOMAIN docs : docs[i].id = d.id
    THEN [i \in DOMAIN docs |-> IF docs[i].id = d.id THEN d ELSE docs[i]]
    ELSE Append(docs, d)

(* Replaced by replaceOne(), or left as they are if it matches nothing.     *)
Replaced(docs, d) == {IF e.id = d.id THEN d ELSE e : e \in docs}

Matching(docs, Test(_)) == SelectSeq(docs, Test)
Find(docs, Test(_)) ==
  LET found == Matching(docs, Test) IN IF found = <<>> THEN None ELSE Head(found)
FindOne(docs, Test(_)) ==
  IF \E d \in docs : Test(d) THEN CHOOSE d \in docs : Test(d) ELSE None

Earliest(docs) == SortSeq(docs, LAMBDA a, b : a.at < b.at)
Latest(docs) == SortSeq(docs, LAMBDA a, b : a.at > b.at)
Ascending(docs) == SetToSortSeq(docs, LAMBDA a, b : a.at < b.at)
Descending(docs) == SetToSortSeq(docs, LAMBDA a, b : a.at > b.at)
FirstOf(docs, n) == SubSeq(docs, 1, IF n < Len(docs) THEN n ELSE Len(docs))
LastOf(docs, n) == SubSeq(docs, (IF n < Len(docs) THEN Len(docs) - n ELSE 0) + 1, Len(docs))
Elements(docs) == {docs[i] : i \in DOMAIN docs}

-----------------------------------------------------------------------------
(* What each store answers, by collection and method.                       *)

(* Users are found by their id, email address and username.                 *)
MemoryUsers(users, credentials) ==
  [getUserById |-> [i \in Id |-> Find(users, LAMBDA d : d.id = i)],
   getUserByEmail |-> [k \in Id |-> Find(users, LAMBDA d : d.key = k)],
   getUserByUsername |-> [n \in Id |-> Find(users, LAMBDA d : d.name = n)],
   getCredential |-> [i \in Id |-> Find(credentials, LAMBDA d : d.id = i)]]
MongoUsers(users, credentials) ==
  [getUserById |-> [i \in Id |-> FindOne(users, LAMBDA d : d.id = i)],
   getUserByEmail |-> [k \in Id |-> FindOne(users, LAMBDA d : d.key = k)],
   getUserByUsername |-> [n \in Id |-> FindOne(users, LAMBDA d : d.name = n)],
   getCredential |-> [i \in Id |-> FindOne(credentials, LAMBDA d : d.id = i)]]

MemoryCodes(docs) ==
  [listRecoveryCodes |-> [u \in Owner |-> Elements(Matching(docs, LAMBDA d : d.owner = u))],
   consumeRecoveryCode |-> [u \in Owner, k \in Id |->
     Find(docs, LAMBDA d : d.owner = u /\ d.key = k /\ ~d.used)]]
MongoCodes(docs) ==
  [listRecoveryCodes |-> [u \in Owner |-> {d \in docs : d.owner = u}],
   consumeRecoveryCode |-> [u \in Owner, k \in Id |->
     FindOne(docs, LAMBDA d : d.owner = u /\ d.key = k /\ ~d.used)]]

(* Sessions; access tokens are found and listed likewise.                   *)
MemorySessions(docs) ==
  [getSessionByTokenHash |-> [k \in Id |-> Find(docs, LAMBDA d : d.key = k)],
   getSession |-> [i \in Id |-> Find(docs, LAMBDA d : d.id = i)],
   listSessions |-> [u \in Owner |-> Latest(Matching(docs, LAMBDA d : d.owner = u))]]
MongoSessions(docs) ==
  [getSessionByTokenHash |-> [k \in Id |-> FindOne(docs, LAMBDA d : d.key = k)],
   getSession |-> [i \in Id |-> FindOne(docs, LAMBDA d : d.id = i)],
   listSessions |-> [u \in Owner |-> Descending({d \in docs : d.owner = u})]]

MemoryPats(docs) ==
  [getPatByHash |-> [k \in Id |-> Find(docs, LAMBDA d : d.key = k)],
   listPats |-> [u \in Owner |-> Latest(Matching(docs, LAMBDA d : d.owner = u))]]
MongoPats(docs) ==
  [getPatByHash |-> [k \in Id |-> FindOne(docs, LAMBDA d : d.key = k)],
   listPats |-> [u \in Owner |-> Descending({d \in docs : d.owner = u})]]

MemoryOrganizations(orgs, memberships) ==
  [getOrganizationsForUser |-> [u \in Owner |->
     {Find(orgs, LAMBDA d : d.id = m.owner) : m \in Elements(Matching(memberships, LAMBDA d : d.user = u))} \ {None}],
   getOrganizationByJoinCode |-> [k \in Codes |-> Find(orgs, LAMBDA d : d.key = k)],
   getMembership |-> [o \in Id, u \in Owner |-> Find(memberships, LAMBDA d : d.owner = o /\ d.user = u)],
   listMemberships |-> [o \in Id |-> Earliest(Matching(memberships, LAMBDA d : d.owner = o))]]
MongoOrganizations(orgs, memberships) ==
  [getOrganizationsForUser |-> [u \in Owner |->
     {d \in orgs : \E m \in memberships : m.user = u /\ m.owner = d.id}],
   getOrganizationByJoinCode |-> [k \in Codes |-> FindOne(orgs, LAMBDA d : d.key = k)],
   getMembership |-> [o \in Id, u \in Owner |-> FindOne(memberships, LAMBDA d : d.owner = o /\ d.user = u)],
   listMemberships |-> [o \in Id |-> Ascending({d \in memberships : d.owner = o})]]

MemoryRooms(rooms, members) ==
  [listRooms |-> [o \in Owner |-> Latest(Matching(rooms, LAMBDA d : d.owner = o))],
   getRoomMembership |-> [r \in Id, u \in Owner |-> Find(members, LAMBDA d : d.owner = r /\ d.user = u)],
   listRoomMemberships |-> [r \in Id |-> Earliest(Matching(members, LAMBDA d : d.owner = r))]]
MongoRooms(rooms, members) ==
  [listRooms |-> [o \in Owner |-> Descending({d \in rooms : d.owner = o})],
   getRoomMembership |-> [r \in Id, u \in Owner |-> FindOne(members, LAMBDA d : d.owner = r /\ d.user = u)],
   listRoomMemberships |-> [r \in Id |-> Ascending({d \in members : d.owner = r})]]

(* Meetings that overlap a period.                                          *)
MemoryCalendar(docs) ==
  [o \in Owner, from, to \in Time |->
     Earliest(Matching(docs, LAMBDA d : d.owner = o /\ d.until >= from /\ d.at <= to))]
MongoCalendar(docs) ==
  [o \in Owner, from, to \in Time |->
     Ascending({d \in docs : d.owner = o /\ d.at <= to /\ d.until >= from})]

(* The history pages, and the newest events of several rooms.               *)
MemoryEvents(docs) ==
  [listRoomEvents |-> [o \in Owner, before \in 1..(LastTime + 1) |->
     LastOf(Earliest(Matching(docs, LAMBDA d : d.owner = o /\ d.at < before)), PageLimit)],
   listRoomEventsForRooms |-> [rooms \in SUBSET Owner |->
     FirstOf(Latest(Matching(docs, LAMBDA d : d.owner \in rooms)), PageLimit)]]

Mutant_oldestPage(docs) ==
  [listRoomEvents |-> [o \in Owner, before \in 1..(LastTime + 1) |->
     FirstOf(Ascending({d \in docs : d.owner = o /\ d.at < before}), PageLimit)],
   listRoomEventsForRooms |-> [rooms \in SUBSET Owner |->
     FirstOf(Descending({d \in docs : d.owner \in rooms}), PageLimit)]]
MongoEvents(docs) ==
  [listRoomEvents |-> [o \in Owner, before \in 1..(LastTime + 1) |->
     Reverse(FirstOf(Descending({d \in docs : d.owner = o /\ d.at < before}), PageLimit))],
   listRoomEventsForRooms |-> [rooms \in SUBSET Owner |->
     FirstOf(Descending({d \in docs : d.owner \in rooms}), PageLimit)]]

(* A single-use token: found by its hash, and gone.                         *)
MemoryConsumes(docs) == [i \in Id |-> Find(docs, LAMBDA d : d.id = i)]
MongoConsumes(docs) == [i \in Id |-> FindOne(docs, LAMBDA d : d.id = i)]

-----------------------------------------------------------------------------
(* The calls that write, made of both.                                      *)
Both(c, inMemory, inMongo) ==
  /\ c \in explored
  /\ memory' = [memory EXCEPT ![c] = inMemory]
  /\ mongo' = [mongo EXCEPT ![c] = inMongo]
  /\ UNCHANGED explored

Ids(c) == {d.id : d \in mongo[c]}
FreeTimes(c) == Time \ {d.at : d \in mongo[c]}

(* createUser() also inserts the credential; updateUser().  Either throws   *)
(* when the username is another's: Memory looks, Mongo has a unique index.  *)
assertUsernameFree(u) == \A d \in Elements(memory["users"]) : d.name = u.name => d.id = u.id
UniqueUsername(u) == \A d \in mongo["users"] : d.name = u.name => d.id = u.id

CreateUser(u) ==
  LET credential == [id |-> u.id, key |-> u.id]
  IN  /\ "users" \in explored /\ u.id \notin Ids("users") /\ u.key = u.id
      /\ memory' = IF assertUsernameFree(u)
                   THEN [memory EXCEPT !["users"] = Set(@, u), !["credentials"] = Set(@, credential)] ELSE memory
      /\ mongo' = IF UniqueUsername(u)
                  THEN [mongo EXCEPT !["users"] = @ \cup {u}, !["credentials"] = @ \cup {credential}] ELSE mongo
      /\ UNCHANGED explored

UpdateUser(d, name) ==
  LET u == [d EXCEPT !.name = name]
  IN  Both("users", IF assertUsernameFree(u) THEN Set(memory["users"], u) ELSE memory["users"],
                    IF UniqueUsername(u) THEN Replaced(mongo["users"], u) ELSE mongo["users"])

UpdateCredential(d, key) ==
  LET e == [d EXCEPT !.key = key]
  IN  Both("credentials", Set(memory["credentials"], e), Replaced(mongo["credentials"], e))

(* createSession(), createPat(), createCalendarEvent().                     *)
CreateDocument(c, d) ==
  /\ d.id \notin Ids(c) /\ d.at \in FreeTimes(c)
  /\ c = "calendarEvents" => d.at <= d.until
  /\ c \in {"sessions", "pats"} => d.key = d.id /\ ~d.revoked
  /\ Both(c, Set(memory[c], d), mongo[c] \cup {d})

(* updateSession(), updatePat(): a use, or a revocation.  Sessions are      *)
(* sorted by their last use, access tokens by their creation.               *)
UpdateDocument(c, d, at, revoked) ==
  LET e == [d EXCEPT !.at = IF c = "sessions" THEN at ELSE @, !.revoked = revoked]
  IN  Both(c, Set(memory[c], e), Replaced(mongo[c], e))

(* replaceRecoveryCodes() and consumeRecoveryCode().                        *)
ReplaceRecoveryCodes(u, new) ==
  LET codes == {[id |-> i, owner |-> u, key |-> i, used |-> FALSE] : i \in new}
      others == {d \in mongo["recoveryCodes"] : d.owner # u}
  IN  /\ \A d \in others : d.id \notin new
      /\ Both("recoveryCodes",
              Matching(memory["recoveryCodes"], LAMBDA d : d.owner # u) \o SetToSeq(codes), others \cup codes)

ConsumeRecoveryCode(d) ==
  LET e == [d EXCEPT !.used = TRUE]
  IN  /\ ~d.used
      /\ Both("recoveryCodes", Set(memory["recoveryCodes"], e), Replaced(mongo["recoveryCodes"], e))

(* createOrganization() and createRoom() also insert the first member.      *)
CreateOrganization(o, u, at) ==
  LET org == [id |-> o, key |-> o]
      owner == [id |-> <<o, u>>, owner |-> o, user |-> u, role |-> "owner", at |-> at]
  IN  /\ "orgs" \in explored /\ o \notin Ids("orgs") /\ at \in FreeTimes("memberships")
      /\ \A d \in mongo["orgs"] : d.key # o
      /\ memory' = [memory EXCEPT !["orgs"] = Set(@, org), !["memberships"] = Set(@, owner)]
      /\ mongo' = [mongo EXCEPT !["orgs"] = @ \cup {org}, !["memberships"] = @ \cup {owner}]
      /\ UNCHANGED explored

UpdateOrganization(d, code) ==
  LET e == [d EXCEPT !.key = code]
  IN  /\ \A other \in mongo["orgs"] : other.key # code
      /\ Both("orgs", Set(memory["orgs"], e), Replaced(mongo["orgs"], e))

CreateRoom(r, o, u, at) ==
  LET room == [id |-> r, owner |-> o, at |-> at]
      owner == [id |-> <<r, u>>, owner |-> r, user |-> u, at |-> at]
  IN  /\ "rooms" \in explored /\ r \notin Ids("rooms")
      /\ at \in FreeTimes("rooms") \cap FreeTimes("roomMemberships")
      /\ memory' = [memory EXCEPT !["rooms"] = Set(@, room), !["roomMemberships"] = Set(@, owner)]
      /\ mongo' = [mongo EXCEPT !["rooms"] = @ \cup {room}, !["roomMemberships"] = @ \cup {owner}]
      /\ UNCHANGED explored

(* createMembership(), createRoomMembership() of somebody who is not in.    *)
CreateMembership(c, in, d) ==
  /\ d.id = <<d.owner, d.user>> /\ d.owner \in Ids(in) /\ d.id \notin Ids(c)
  /\ d.at \in FreeTimes(c)
  /\ Both(c, Set(memory[c], d), mongo[c] \cup {d})

UpdateMembership(d, role) ==
  LET e == [d EXCEPT !.role = role]
  IN  Both("memberships", Set(memory["memberships"], e), Replaced(mongo["memberships"], e))

DeleteRoomMembership(r, u) ==
  Both("roomMemberships",
       Matching(memory["roomMemberships"], LAMBDA d : d.id # <<r, u>>),
       {d \in mongo["roomMemberships"] : d.id # <<r, u>>})

(* Single-use tokens: their Map is keyed by the hash.                       *)
CreateToken(c, i) ==
  /\ i \notin Ids(c)
  /\ Both(c, Set(memory[c], [id |-> i]), mongo[c] \cup {[id |-> i]})
ConsumeToken(c, i) ==
  Both(c, Matching(memory[c], LAMBDA d : d.id # i), mongo[c] \ {[id |-> i]})

(* writeRoomEvent(): a delivery may be repeated, and the first one is kept. *)
WriteRoomEvent(d) ==
  LET known == d.id \in Ids("roomEvents")
  IN  /\ d.at \in FreeTimes("roomEvents")
      /\ Both("roomEvents",
              IF \E e \in Elements(memory["roomEvents"]) : e.id = d.id
                THEN memory["roomEvents"] ELSE Append(memory["roomEvents"], d),
              IF known THEN mongo["roomEvents"] ELSE mongo["roomEvents"] \cup {d})

StoresNext ==
  \/ \E u \in User : CreateUser(u)
  \/ \E d \in mongo["users"], name \in Id : UpdateUser(d, name)
  \/ \E d \in mongo["credentials"], key \in Codes : UpdateCredential(d, key)
  \/ \E c \in {"sessions", "pats", "calendarEvents"} \cap explored :
       \E d \in Document(c) : CreateDocument(c, d)
  \/ \E c \in {"sessions", "pats"} \cap explored :
       \E d \in mongo[c] : \E at \in FreeTimes(c), revoked \in {d.revoked, TRUE} :
         UpdateDocument(c, d, at, revoked)
  \/ \E u \in Owner, new \in SUBSET Id : ReplaceRecoveryCodes(u, new)
  \/ \E d \in mongo["recoveryCodes"] : ConsumeRecoveryCode(d)
  \/ \E i \in Id, u \in Owner, at \in Time :
       CreateOrganization(i, u, at) \/ \E o \in Owner : CreateRoom(i, o, u, at)
  \/ \E d \in mongo["orgs"], code \in Codes : UpdateOrganization(d, code)
  \/ \E d \in mongo["memberships"], role \in {"admin", "member"} : d.role # "owner" /\ UpdateMembership(d, role)
  \/ \E o \in Id, u \in Owner, at \in Time :
       \/ CreateMembership("memberships", "orgs",
            [id |-> <<o, u>>, owner |-> o, user |-> u, role |-> "member", at |-> at])
       \/ CreateMembership("roomMemberships", "rooms", [id |-> <<o, u>>, owner |-> o, user |-> u, at |-> at])
       \/ DeleteRoomMembership(o, u)
  \/ \E c \in Tokens, i \in Id : CreateToken(c, i) \/ ConsumeToken(c, i)
  \/ \E d \in Document("roomEvents") : WriteRoomEvent(d)

-----------------------------------------------------------------------------
StoresTypeOK ==
  /\ explored \subseteq Collection
  /\ \A c \in Collection :
       /\ mongo[c] \subseteq Document(c)
       /\ \A d, e \in mongo[c] : d.id = e.id => d = e

(* MemoryRepository stands in for MongoRepository: after any calls both     *)
(* hold the same documents and answer every read alike, each with its page, *)
(* its order and its notion of a match; so what the tests see of the first  *)
(* production sees of the second.                                           *)
SameAnswers ==
  /\ MemoryUsers(memory["users"], memory["credentials"]) = MongoUsers(mongo["users"], mongo["credentials"])
  /\ MemoryCodes(memory["recoveryCodes"]) = MongoCodes(mongo["recoveryCodes"])
  /\ MemorySessions(memory["sessions"]) = MongoSessions(mongo["sessions"])
  /\ MemoryPats(memory["pats"]) = MongoPats(mongo["pats"])
  /\ MemoryOrganizations(memory["orgs"], memory["memberships"]) = MongoOrganizations(mongo["orgs"], mongo["memberships"])
  /\ MemoryRooms(memory["rooms"], memory["roomMemberships"]) = MongoRooms(mongo["rooms"], mongo["roomMemberships"])
  /\ MemoryCalendar(memory["calendarEvents"]) = MongoCalendar(mongo["calendarEvents"])
  /\ MemoryEvents(memory["roomEvents"]) = MongoEvents(mongo["roomEvents"])
  /\ \A c \in Tokens : MemoryConsumes(memory[c]) = MongoConsumes(mongo[c])

StoresAgree ==
  /\ \A c \in Collection : Elements(memory[c]) = mongo[c] /\ Len(memory[c]) = Cardinality(mongo[c])
  /\ SameAnswers
=============================================================================
