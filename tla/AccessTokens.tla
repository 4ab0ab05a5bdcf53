------------------------------ MODULE AccessTokens ------------------------------
(***************************************************************************)
(* Personal access tokens: /v1/pats and the bearer authentication of       *)
(* apps/api/src/application.ts, with the claim in the cache by which only  *)
(* one use of a token per interval writes its lastUsedAt.                  *)
(*                                                                         *)
(* One token's document, which every writer replaces whole from the copy   *)
(* it has read, and any number of requests; each repository or cache call  *)
(* is one step.                                                            *)
(***************************************************************************)
EXTENDS Integers

CONSTANTS Use, Revoke, \* requests that present the token, and that revoke it
          Granted, Refused, \* the scopes a request may need
          Interval,    \* useRecordIntervalMs, in ticks
          LastTick

ASSUME TokensAssumption == Interval \in Nat /\ LastTick \in Nat /\ Use \cap Revoke = {}

VARIABLES
  now,
  pat,     \* the document
  claim,   \* until when the claim is held
  request, \* the requests
  settled  \* history: revoked, with no request in between its read and its write

tokenVars == <<now, pat, claim, request, settled>>

Absent == [made |-> FALSE, revoked |-> FALSE, lastUsed |-> -1, expires |-> -1]
Lifetimes == {LastTick + 1, 1}

Document == [made : BOOLEAN, revoked : BOOLEAN, lastUsed : -1..LastTick, expires : {-1} \cup Lifetimes]
Request == [pc : {"new", "claim", "write", "scope", "revoke", "served", "revoked",
                  "unauthorized", "forbidden", "not_found", "failed"},
            copy : Document, when : -1..LastTick, late : BOOLEAN]

TokensTypeOK ==
  /\ now \in 0..LastTick /\ settled \in BOOLEAN
  /\ pat \in Document /\ claim \in 0..LastTick + Interval
  /\ request \in [Use \cup Revoke -> Request]

TokensInit ==
  /\ now = 0 /\ pat = Absent /\ claim = 0 /\ settled = FALSE
  /\ request = [r \in Use \cup Revoke |->
                  [pc |-> "new", copy |-> Absent, when |-> -1, late |-> FALSE]]

At(r, pc) == request[r].pc = pc
Step(r, pc) == request' = [request EXCEPT ![r].pc = pc]
-----------------------------------------------------------------------------
(* POST /v1/pats                                                            *)
CreatePat ==
  /\ ~pat.made
  /\ \E e \in Lifetimes : pat' = [made |-> TRUE, revoked |-> FALSE, lastUsed |-> -1, expires |-> e]
  /\ UNCHANGED <<now, claim, request, settled>>

(* authenticatePat() finds the token, and refuses one that is spent.        *)
Mutant_ignoresRevocation == pat.made /\ pat.expires > now
Usable == pat.made /\ ~pat.revoked /\ pat.expires > now

AuthenticatePat(r) ==
  /\ r \in Use /\ At(r, "new")
  /\ request' = [request EXCEPT ![r] = [pc |-> IF Usable THEN "claim" ELSE "unauthorized",
                                        copy |-> pat, when |-> -1, late |-> settled]]
  /\ UNCHANGED <<now, pat, claim, settled>>

(* shouldRecordUse(): the claim, when the cache answers; without an answer  *)
(* the use is recorded, whether or not the claim was taken.                 *)
ClaimedUntil == now + Interval
Asked(r, pc) == request' = [request EXCEPT ![r].pc = pc, ![r].when = now]
ShouldRecordUse(r) ==
  /\ At(r, "claim")
  /\ \/ claim > now /\ Asked(r, "scope") /\ UNCHANGED claim
     \/ claim <= now /\ Asked(r, "write") /\ claim' = ClaimedUntil
     \/ Asked(r, "write") /\ UNCHANGED claim
  /\ UNCHANGED <<now, pat, settled>>

(* updatePat() with lastUsedAt: the copy replaces the document.             *)
Recorded(c) == [c EXCEPT !.lastUsed = now]
RecordUse(r) ==
  /\ At(r, "write") /\ Step(r, "scope")
  /\ pat' = Recorded(request[r].copy)
  /\ UNCHANGED <<now, claim, settled>>

(* requireScope(): a token serves only what it was made for.                *)
RequireScope(r, scope) ==
  /\ At(r, "scope")
  /\ Step(r, IF scope \in Granted THEN "served" ELSE "forbidden")
  /\ UNCHANGED <<now, pat, claim, settled>>

-----------------------------------------------------------------------------
(* DELETE /v1/pats/:tokenId reads the list, then replaces the document; the *)
(* audit entry comes after.                                                 *)
FindPat(r) ==
  /\ r \in Revoke /\ At(r, "new")
  /\ request' = [request EXCEPT ![r].pc = IF pat.made THEN "revoke" ELSE "not_found", ![r].copy = pat]
  /\ UNCHANGED <<now, pat, claim, settled>>

InFlight == {r \in Use : request[r].pc \in {"claim", "write"}}
RevokePat(r) ==
  /\ At(r, "revoke") /\ Step(r, "revoked")
  /\ pat' = [request[r].copy EXCEPT !.revoked = TRUE]
  /\ settled' = (settled \/ InFlight = {})
  /\ UNCHANGED <<now, claim>>

(* A call to the repository fails.                                          *)
RequestFails(r) ==
  /\ request[r].pc \in {"write", "revoke"} /\ Step(r, "failed")
  /\ UNCHANGED <<now, pat, claim, settled>>

Passes == now < LastTick /\ now' = now + 1 /\ UNCHANGED <<pat, claim, request, settled>>

TokensNext ==
  \/ CreatePat \/ Passes
  \/ \E r \in Use : \/ AuthenticatePat(r) \/ ShouldRecordUse(r) \/ RecordUse(r)
                    \/ \E scope \in Granted \cup Refused : RequireScope(r, scope)
  \/ \E r \in Revoke : FindPat(r) \/ RevokePat(r)
  \/ \E r \in Use \cup Revoke : RequestFails(r)

TokensSpec == TokensInit /\ [][TokensNext]_tokenVars

-----------------------------------------------------------------------------
(* "A revoked session or token stops working immediately": so it does when  *)
(* no request was using it as it was revoked, and nothing brings it back.   *)
RevocationIsFinal ==
  settled => pat.revoked /\ \A r \in Use : request[r].late => request[r].pc # "served"

(* The claim costs at most an interval of staleness: what a served token's  *)
(* lastUsedAt says is no older, unless the one write that the claim let     *)
(* through failed or is still to come.                                      *)
UseIsRecent ==
  \A r \in Use :
    /\ request[r].pc = "served"
    /\ \A q \in Use \cup Revoke : request[q].pc \notin {"write", "revoke", "revoked", "failed"}
    => pat.lastUsed >= request[r].when - Interval

(* A revoked token stays revoked and serves nobody; its last use is         *)
(* recorded to within an interval.                                          *)
TokensSound == TokensTypeOK /\ RevocationIsFinal /\ UseIsRecent

-----------------------------------------------------------------------------
(* The inductive invariant behind AccessTokens_proofs.                      *)

(* Once a revocation is settled no copy of the token that could undo it is  *)
(* left, and whoever came later was turned away; until then nobody was late.*)
RevokedForGood ==
  /\ settled => /\ pat.made /\ pat.revoked /\ InFlight = {}
                /\ \A r \in Use : request[r].late => At(r, "unauthorized")
  /\ ~settled => \A r \in Use : ~request[r].late

(* A token that is about to be written was made, and only one that was made *)
(* is claimed and used.                                                     *)
WritesWhatIs ==
  /\ \A r \in Use \cup Revoke : request[r].pc \in {"claim", "write", "revoke"} => request[r].copy.made
  /\ ~pat.made => claim = 0 /\ \A r \in Use : request[r].pc \in {"new", "unauthorized"}

(* Unless a write failed or a revocation came between, who was counted on   *)
(* to record the use, by whoever was refused the claim, has or will.        *)
Disturbed == \E r \in Use \cup Revoke : request[r].pc \in {"revoke", "revoked", "failed"}
Recording(n) == pat.lastUsed >= n \/ \E q \in Use : At(q, "write") /\ request[q].when >= n
UseIsRecorded ==
  /\ claim <= now + Interval
  /\ \A r \in Use : request[r].when <= now
  /\ Disturbed \/ /\ claim = 0 \/ Recording(claim - Interval)
                  /\ \A r \in Use : request[r].pc \in {"scope", "served", "forbidden"}
                                     => Recording(request[r].when - Interval)

TokensIInv == TokensTypeOK /\ RevokedForGood /\ WritesWhatIs /\ UseIsRecorded
=============================================================================
