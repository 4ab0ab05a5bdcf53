---------------------------- MODULE TurnCredentials ----------------------------
(***************************************************************************)
(* The ICE servers of a call: the per-user cache of apps/api/src/turn.ts,  *)
(* which keeps the request to the provider while it is under way, and the  *)
(* ticket route of application.ts that calls it.                           *)
(*                                                                         *)
(* A request to the provider is named by the ticket that made it.  Time    *)
(* passes in ticks, of which the provider's answer takes less than one.    *)
(***************************************************************************)
EXTENDS Integers, Sequences, SequencesExt, FiniteSets

CONSTANTS
  Ticket, User,      \* calls of the ticket route, numbered as they come, and who makes them
  Lifetime, CacheFor, \* credentialTtlSeconds and credentialCacheMs, in ticks
  MaxCached, LastHour

VARIABLES
  hour,
  cache,   \* the Map, in the order of insertion
  fetched, \* the provider's answers, by the ticket that asked
  ticket,
  evicted  \* history: the requests whose entry had to make room

turnVars == <<hour, cache, fetched, ticket, evicted>>

Entry == [user : User, expiresAt : Nat, by : Ticket]
Unasked == [is |-> "unasked", until |-> 0]
Pending == [is |-> "pending", until |-> 0]
Failed == [is |-> "failed", until |-> 0]

TurnTypeOK ==
  /\ hour \in 0..LastHour
  /\ cache \in Seq(Entry) /\ Len(cache) <= MaxCached
  /\ \A i, j \in DOMAIN cache : cache[i].user = cache[j].user => i = j
  /\ \A t \in Ticket :
       /\ fetched[t].is \in {"unasked", "pending", "granted", "failed"}
       /\ ticket[t].pc \in {"new", "awaits", "relayed", "direct"}

TurnInit ==
  /\ hour = 0 /\ cache = <<>> /\ evicted = {}
  /\ fetched = [t \in Ticket |-> Unasked]
  /\ ticket \in [Ticket -> {[pc |-> "new", user |-> u, on |-> "none", since |-> 0, until |-> 0] : u \in User}]

Cached(u) == {i \in DOMAIN cache : cache[i].user = u}

(* All that have expired go, then, if there is no room, the oldest.         *)
MakeRoom(c) == IF Len(c) >= MaxCached THEN Tail(c) ELSE c
Swept == LET live(e) == e.expiresAt > hour IN SelectSeq(cache, live)

StaysFor == CacheFor

(* createIceServerProvider()'s function: the entry of the user, while it is *)
(* young, whatever has become of its request; else a request of one's own.  *)
GetIceServers(t) ==
  LET u == ticket[t].user
      hit == {i \in Cached(u) : cache[i].expiresAt > hour}
  IN  /\ ticket[t].pc = "new" /\ \A s \in Ticket : s < t => ticket[s].pc # "new"
      /\ IF hit # {}
         THEN /\ \E i \in hit : ticket' = [ticket EXCEPT ![t].pc = "awaits", ![t].on = cache[i].by, ![t].since = hour]
              /\ UNCHANGED <<cache, fetched, evicted>>
         ELSE /\ cache' = Append(MakeRoom(Swept), [user |-> u, expiresAt |-> hour + StaysFor, by |-> t])
              /\ evicted' = evicted \cup {Swept[i].by : i \in 1..(Len(Swept) - Len(MakeRoom(Swept)))}
              /\ fetched' = [fetched EXCEPT ![t] = Pending]
              /\ ticket' = [ticket EXCEPT ![t].pc = "awaits", ![t].on = t, ![t].since = hour]
      /\ UNCHANGED hour

(* The provider answers, or fails, or takes more than eight seconds; on a   *)
(* failure the entry goes, if it is still the one that was made for it.     *)
Mutant_deletesAnyEntry(t) == {i \in DOMAIN cache : cache[i].user = ticket[t].user}
Mutant_keepsFailure(t) == {}
EntryOf(t) == {i \in DOMAIN cache : cache[i].by = t}

ProviderGrants(t) ==
  /\ fetched[t] = Pending
  /\ fetched' = [fetched EXCEPT ![t] = [is |-> "granted", until |-> hour + Lifetime]]
  /\ UNCHANGED <<hour, cache, ticket, evicted>>

ProviderFails(t) ==
  /\ fetched[t] = Pending
  /\ fetched' = [fetched EXCEPT ![t] = Failed]
  /\ cache' = IF EntryOf(t) = {} THEN cache ELSE RemoveAt(cache, CHOOSE i \in EntryOf(t) : TRUE)
  /\ UNCHANGED <<hour, ticket, evicted>>

(* The ticket goes out either way, with the servers or with STUN alone.     *)
IssueTicket(t) ==
  LET f == fetched[ticket[t].on]
  IN  /\ ticket[t].pc = "awaits" /\ f.is \in {"granted", "failed"}
      /\ ticket' = [ticket EXCEPT ![t].pc = IF f.is = "granted" THEN "relayed" ELSE "direct",
                                  ![t].until = f.until]
      /\ UNCHANGED <<hour, cache, fetched, evicted>>

(* A request is given up after eight seconds, so it is over long before its *)
(* entry expires.                                                           *)
HourPasses ==
  /\ hour < LastHour /\ \A t \in Ticket : fetched[t] # Pending /\ ticket[t].pc # "awaits"
  /\ hour' = hour + 1 /\ UNCHANGED <<cache, fetched, ticket, evicted>>

TurnNext ==
  \/ \E t \in Ticket : GetIceServers(t) \/ ProviderGrants(t) \/ ProviderFails(t) \/ IssueTicket(t)
  \/ HourPasses

-----------------------------------------------------------------------------
(* "A credential handed out at the very end of its cache window is still    *)
(* valid for the call": with the margin between the two lifetimes to spare. *)
CredentialsOutlast ==
  \A t \in Ticket : ticket[t].pc = "relayed" => ticket[t].until >= ticket[t].since + Lifetime - CacheFor + 1

(* "Concurrent calls for the same user coalesce": while a user's request is *)
(* under way nobody else makes one for that user, unless the entry had to   *)
(* make room.                                                               *)
Coalesces ==
  \A t \in Ticket : fetched[t] = Unasked /\ fetched'[t] = Pending =>
    \A s \in Ticket : fetched[s] = Pending /\ ticket[s].user = ticket[t].user
      => s \in evicted

(* "An outage does not become sticky": a request that failed is in the      *)
(* cache for nobody.                                                        *)
OutageIsNotSticky == \A i \in DOMAIN cache : fetched[cache[i].by].is # "failed"
=============================================================================
