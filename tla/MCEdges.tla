-------------------------------- MODULE MCEdges --------------------------------
(***************************************************************************)
(* The parts of the system around the rooms, the accounts' sessions and    *)
(* the workspaces: usernames, rate limits, access tokens, OAuth grants,    *)
(* what is kept of rooms, tickets and ICE servers, releases, and the two   *)
(* stores.  They share no state that any of them would see change, so each *)
(* is explored alone, `part` saying which; the others are as they began,   *)
(* or Off where they can begin in more than one way.                       *)
(***************************************************************************)
EXTENDS AccessTokens, OAuthGrants, Sequences, TLC

CONSTANTS
  Off, None,
  Parts,                                                     \* those to explore
  Registration, Edit, Old, Email, Name, Generated, LongName, \* Usernames
  Call, Limit, Window, MaxClock,                             \* RateLimits
  Place, Restricted, Person, Delivery, Attempt, Meeting,
  PageLimit, FeedLimit, LastTime,                            \* RoomHistory
  Ticket, Guest, Lifetime, CacheFor, MaxCached, LastHour,    \* TurnCredentials
  Job, MaxCommits,                                           \* ReleaseTools
  MaxDocuments, Owner, LastMoment,                           \* Stores
  Joining, TicketLife                                        \* RoomAdmission

(* What people write: releases of each size, one without, a breaking change *)
(* of a type that alone brings none, a header no hook refuses, a merge.     *)
Message ==
  {[form |-> "conventional", type |-> t, breaking |-> FALSE] : t \in {"feat", "fix", "wip"}}
  \cup {[form |-> "conventional", type |-> "refactor", breaking |-> TRUE]}
  \cup {[form |-> f, type |-> "none", breaking |-> FALSE] : f \in {"exempt", "merge"}}

(* Deliveries carry nothing that tells them apart.                          *)
Symmetric == Permutations(Delivery)

VARIABLES
  part,
  user, age, credential, session, codes, uniqueIndex, req, script, held, outranked,
  clock, up, closed, known, counter, bucket, call, lost,
  explicit, content, ingest, stored, calendar, schedule, reading, could,
  hour, cache, fetched, ticket, evicted,
  orgRole, roomRole, asking, socket, since, torn,
  main, tag, notes, job,
  explored, memory, mongo

Names == INSTANCE Usernames
Limits == INSTANCE RateLimits WITH script <- known
History == INSTANCE RoomHistory
Turn == INSTANCE TurnCredentials WITH User <- Guest
Admission == INSTANCE RoomAdmission WITH Call <- Joining
Release == INSTANCE ReleaseTools
Stores == INSTANCE Stores WITH LastTime <- LastMoment

names == <<user, age, credential, session, codes, uniqueIndex, req, script, held, outranked>>
limits == <<clock, up, closed, known, counter, bucket, call, lost>>
history == <<explicit, content, ingest, stored, calendar, schedule, reading, could>>
turn == <<hour, cache, fetched, ticket, evicted>>
admission == <<orgRole, roomRole, asking, socket, since, torn>>
release == <<main, tag, notes, job>>
store == <<explored, memory, mongo>>
everything == <<part, names, limits, tokenVars, grantVars, history, turn, admission, release, store>>

NamesOff ==
  /\ user = Off /\ age = Off /\ credential = Off /\ session = Off /\ codes = Off
  /\ uniqueIndex = Off /\ req = Off /\ script = Off /\ held = Off /\ outranked = Off
LimitsOff ==
  /\ clock = Off /\ up = Off /\ closed = Off /\ known = Off /\ counter = Off
  /\ bucket = Off /\ call = Off /\ lost = Off
HistoryOff ==
  /\ explicit = Off /\ content = Off /\ ingest = Off /\ stored = Off /\ calendar = Off
  /\ schedule = Off /\ reading = Off /\ could = Off
TurnOff == hour = Off /\ cache = Off /\ fetched = Off /\ ticket = Off /\ evicted = Off
AdmissionOff ==
  /\ orgRole = Off /\ roomRole = Off /\ asking = Off /\ socket = Off /\ since = Off /\ torn = Off
ReleaseOff == main = Off /\ tag = Off /\ notes = Off /\ job = Off
StoreOff == explored = Off /\ memory = Off /\ mongo = Off
EdgesInit ==
  /\ part \in Parts
  /\ TokensInit /\ GrantsInit
  /\ IF part = "names" THEN Names!NamesInit ELSE NamesOff
  /\ IF part = "limits" THEN Limits!LimitsInit ELSE LimitsOff
  /\ IF part = "history" THEN History!HistoryInit ELSE HistoryOff
  /\ IF part = "turn" THEN Turn!TurnInit ELSE TurnOff
  /\ IF part = "admission" THEN Admission!AdmissionInit ELSE AdmissionOff
  /\ IF part = "release" THEN Release!ReleaseInit ELSE ReleaseOff
  /\ IF part = "store" THEN Stores!StoresInit ELSE StoreOff

EdgesNext ==
  \/ /\ part = "names" /\ Names!NamesNext
     /\ UNCHANGED <<part, limits, tokenVars, grantVars, history, turn, admission, release, store>>
  \/ /\ part = "limits" /\ Limits!LimitsNext
     /\ UNCHANGED <<part, names, tokenVars, grantVars, history, turn, admission, release, store>>
  \/ /\ part = "tokens" /\ TokensNext
     /\ UNCHANGED <<part, names, limits, grantVars, history, turn, admission, release, store>>
  \/ /\ part = "grants" /\ GrantsNext
     /\ UNCHANGED <<part, names, limits, tokenVars, history, turn, admission, release, store>>
  \/ /\ part = "history" /\ History!HistoryNext
     /\ UNCHANGED <<part, names, limits, tokenVars, grantVars, turn, admission, release, store>>
  \/ /\ part = "turn" /\ Turn!TurnNext
     /\ UNCHANGED <<part, names, limits, tokenVars, grantVars, history, admission, release, store>>
  \/ /\ part = "admission" /\ Admission!AdmissionNext
     /\ UNCHANGED <<part, names, limits, tokenVars, grantVars, history, turn, release, store>>
  \/ /\ part = "release" /\ Release!ReleaseNext
     /\ UNCHANGED <<part, names, limits, tokenVars, grantVars, history, turn, admission, store>>
  \/ /\ part = "store" /\ Stores!StoresNext
     /\ UNCHANGED <<part, names, limits, tokenVars, grantVars, history, turn, admission, release>>

EdgesSpec == EdgesInit /\ [][EdgesNext]_everything

-----------------------------------------------------------------------------
(* Each property includes the type of its part's state: every document      *)
(* refers to documents that are there.                                      *)

(* RateLimits: no window of a store lets through more than the limit, and   *)
(* who is refused is told of an end no further away than a window.          *)
LimitsSound ==
  part = "limits" =>
    /\ Limits!LimitsTypeOK
    /\ Limits!WindowKeepsLimit
    /\ Limits!NobodyLockedOut

(* RoomHistory: a delivery is kept once; paging back misses nothing, repeats*)
(* nothing and keeps the order, while events arrive; no answer shows a room *)
(* the reader could not read at any time of the request.                    *)
HistorySound ==
  part = "history" =>
    /\ History!HistoryTypeOK
    /\ History!KeptOnce
    /\ History!HistoryIsComplete
    /\ History!PagesInOrder
    /\ History!NothingForeign

(* TurnCredentials: what a ticket carries outlasts the cache, and a failure *)
(* of the provider is not cached.  RoomAdmission: whoever a room lets in had*)
(* access to it, and the role, less than a ticket's life before.            *)
TicketsSound ==
  /\ part = "turn" => Turn!TurnTypeOK /\ Turn!CredentialsOutlast /\ Turn!OutageIsNotSticky
  /\ part = "admission" =>
       Admission!AdmissionTypeOK /\ Admission!AdmittedHadAccess /\ Admission!RoleWasHeld

(* ReleaseTools: nothing the guard blocks gets past the hooks; versions     *)
(* follow history and say what they bring; the notes are complete.          *)
ReleasesSound ==
  part = "release" =>
    /\ Release!ReleaseTypeOK
    /\ Release!HistoryIsGuarded
    /\ Release!VersionsFollowHistory
    /\ Release!NotesAreComplete
    /\ Release!VersionsAreHonest

(* Stores: MemoryRepository and MongoRepository hold the same and answer    *)
(* every read alike after any calls.                                        *)
StoresAgree == part = "store" => Stores!StoresTypeOK /\ Stores!StoresAgree

(* What no step may do.  TurnCredentials: a second request of one user      *)
(* begins while the first one's fetch is under way and in the cache.        *)
(* ReleaseTools: a published tag moves.  Usernames: an undisturbed script   *)
(* renames the oldest holder of a name, or one beside the API an account    *)
(* that never shared a name with an older one.                              *)
StepsSound ==
  [][/\ part = "turn" => Turn!Coalesces
     /\ part = "release" => Release!TagsStay
     /\ part = "names" => Names!SparesOldest]_everything

(* Usernames: a refused name was somebody else's; an answered registration  *)
(* left the account, its credential, session and codes; once the dedupe     *)
(* script is through the unique index can be built.                         *)
NamesSound ==
  part = "names" =>
    /\ Names!NamesTypeOK
    /\ Names!RefusalsJustified
    /\ Names!RegistrationComplete
    /\ Names!DuplicatesResolved

(* What dedupe-usernames.ts says of itself: "The oldest account keeps the   *)
(* username".  A profile edited between its find and its updates breaks it. *)
OldestKeepsUsername == [][part = "names" => Names!KeepsName]_everything
=============================================================================
