------------------------------ MODULE OAuthGrants ------------------------------
(***************************************************************************)
(* The OpenID Connect provider of apps/api/src/application.ts: codes,      *)
(* refresh tokens that rotate on use, and the access tokens they buy.      *)
(*                                                                         *)
(* A request is made once.  The code or refresh token it creates bears its *)
(* name, which is what a digest in the database stands for.  Requests take *)
(* one step per repository call, so that two of them can present the same  *)
(* code or token at once.  Signatures are external.                        *)
(***************************************************************************)
EXTENDS Integers, FiniteSets

CONSTANTS
  Authorization, Exchange, Refresh, Revocation, \* the requests, by endpoint and grant
  Client, Registered, \* clients that ask, and those with the redirect URI on file
  CodeLife, RefreshLife, AccessLife, EndOfTime

ASSUME GrantsAssumption ==
  /\ Registered \subseteq Client
  /\ {CodeLife, RefreshLife, AccessLife, EndOfTime} \subseteq Nat
  /\ Authorization \cap Exchange = {} /\ Authorization \cap Refresh = {}
  /\ Authorization \cap Revocation = {} /\ Exchange \cap Refresh = {}
  /\ Exchange \cap Revocation = {} /\ Refresh \cap Revocation = {}
  /\ "none" \notin Authorization \cup Exchange \cup Refresh \cup Revocation

VARIABLES
  time,
  auth_codes, refresh_tokens, \* the documents, by the request that created them
  asked,    \* the requests
  access    \* the access tokens signed

grantVars == <<time, auth_codes, refresh_tokens, asked, access>>

AllRequests == Authorization \cup Exchange \cup Refresh \cup Revocation
Code == [grant : Authorization, client : Registered, expires : 0..EndOfTime + CodeLife]
Token == [grant : Authorization, client : Registered, expires : 0..EndOfTime + RefreshLife]
Missing == [grant |-> "none"]

Asking == [pc : {"new", "redirect", "check", "subject", "answer", "done", "login", "invalid", "failed"},
           client : Client \cup {"none"}, presents : AllRequests \cup {"none"},
           found : Code \cup Token \cup {Missing}, at : 0..EndOfTime]
Access == [grant : Authorization, by : Exchange \cup Refresh, for : Client,
           expires : 0..EndOfTime + AccessLife]

GrantsTypeOK ==
  /\ time \in 0..EndOfTime
  /\ DOMAIN auth_codes \subseteq Authorization
  /\ auth_codes \in [DOMAIN auth_codes -> Code]
  /\ DOMAIN refresh_tokens \subseteq Exchange \cup Refresh
  /\ refresh_tokens \in [DOMAIN refresh_tokens -> Token]
  /\ asked \in [AllRequests -> Asking]
  /\ access \subseteq Access

GrantsInit ==
  /\ time = 0 /\ auth_codes = <<>> /\ refresh_tokens = <<>> /\ access = {}
  /\ asked = [r \in AllRequests |-> [pc |-> "new", client |-> "none", presents |-> "none", found |-> Missing, at |-> 0]]

Reaches(r, pc) == asked' = [asked EXCEPT ![r].pc = pc]
Without(f, x) == [y \in DOMAIN f \ {x} |-> f[y]]
With(f, x, v) == [y \in DOMAIN f \cup {x} |-> IF y = x THEN v ELSE f[y]]

(* Who has been given a code or a token: the answer carries it.             *)
Delivered == {r \in AllRequests : asked[r].pc = "done"}
-----------------------------------------------------------------------------
(* GET /oauth/authorize, in a browser that is signed in or is not.          *)
Authorize(r, c, signedIn) ==
  /\ r \in Authorization /\ asked[r].pc = "new"
  /\ asked' = [asked EXCEPT ![r].client = c,
                            ![r].pc = IF c \notin Registered THEN "invalid"
                                      ELSE IF signedIn THEN "redirect" ELSE "login"]
  /\ auth_codes' = IF c \in Registered /\ signedIn
                   THEN With(auth_codes, r, [grant |-> r, client |-> c, expires |-> time + CodeLife])
                   ELSE auth_codes
  /\ UNCHANGED <<time, refresh_tokens, access>>

(* The audit entry, then the redirect that carries the code.                *)
Redirects(r) ==
  /\ asked[r].pc = "redirect" /\ Reaches(r, "done")
  /\ UNCHANGED <<time, auth_codes, refresh_tokens, access>>

(* findOneAndDelete()                                                       *)
Mutant_findOnly(f, x) == f
Consumed(f, x) == Without(f, x)
Found(f, x) == IF x \in DOMAIN f THEN f[x] ELSE Missing

(* POST /oauth/token: the code or token is consumed before it is checked.   *)
ExchangeCode(r, k, c) ==
  /\ r \in Exchange /\ asked[r].pc = "new" /\ k \in Delivered \cap Authorization
  /\ asked' = [asked EXCEPT ![r] = [pc |-> "check", client |-> c, presents |-> k,
                                    found |-> Found(auth_codes, k), at |-> 0]]
  /\ auth_codes' = Consumed(auth_codes, k)
  /\ UNCHANGED <<time, refresh_tokens, access>>

RefreshToken(r, k, c) ==
  /\ r \in Refresh /\ asked[r].pc = "new" /\ k \in Delivered \cap (Exchange \cup Refresh)
  /\ asked' = [asked EXCEPT ![r] = [pc |-> "check", client |-> c, presents |-> k,
                                    found |-> Found(refresh_tokens, k), at |-> 0]]
  /\ refresh_tokens' = Consumed(refresh_tokens, k)
  /\ UNCHANGED <<time, auth_codes, access>>

(* Its client, its verifier, its expiry.                                    *)
Valid(r) ==
  LET t == asked[r].found
  IN  t # Missing /\ t.client = asked[r].client /\ t.expires > time

Check(r, proven) ==
  /\ asked[r].pc = "check" /\ (r \in Refresh => proven)
  /\ Reaches(r, IF Valid(r) /\ proven THEN "subject" ELSE "invalid")
  /\ UNCHANGED <<time, auth_codes, refresh_tokens, access>>

(* createRefreshToken(): the successor inherits the grant and the client.   *)
Successor(t) == [t EXCEPT !.expires = time + RefreshLife]
CreateRefreshToken(r) ==
  /\ asked[r].pc = "subject" /\ Reaches(r, "answer")
  /\ refresh_tokens' = With(refresh_tokens, r, Successor(asked[r].found))
  /\ UNCHANGED <<time, auth_codes, access>>

(* POST /oauth/introspect and GET /oauth/userinfo know an access token by    *)
(* its signature and its expiry alone.                                      *)
Active(t) == t.expires > time

(* signAccessToken(), signIdToken() and the answer that carries all three.  *)
Answer(r) ==
  /\ asked[r].pc = "answer" /\ Reaches(r, "done")
  /\ access' = access \cup {[grant |-> asked[r].found.grant, by |-> r, for |-> asked[r].client,
                             expires |-> time + AccessLife]}
  /\ UNCHANGED <<time, auth_codes, refresh_tokens>>

(* POST /oauth/revoke                                                       *)
Revokes(r, k) ==
  /\ r \in Revocation /\ asked[r].pc = "new" /\ k \in Delivered \cap (Exchange \cup Refresh)
  /\ asked' = [asked EXCEPT ![r].pc = "done", ![r].presents = k, ![r].at = time,
                            ![r].found = Found(refresh_tokens, k)]
  /\ refresh_tokens' = Consumed(refresh_tokens, k)
  /\ UNCHANGED <<time, auth_codes, access>>

(* A call fails, or the process dies: what was consumed stays consumed.     *)
GrantFails(r) ==
  /\ asked[r].pc \in {"redirect", "check", "subject", "answer"} /\ Reaches(r, "failed")
  /\ UNCHANGED <<time, auth_codes, refresh_tokens, access>>

Later ==
  /\ time < EndOfTime /\ time' = time + 1
  /\ UNCHANGED <<auth_codes, refresh_tokens, asked, access>>

GrantsNext ==
  \/ \E r \in Authorization : \/ \E c \in Client, s \in BOOLEAN : Authorize(r, c, s)
                              \/ Redirects(r)
  \/ \E r \in Exchange, k \in Authorization, c \in Registered : ExchangeCode(r, k, c)
  \/ \E r \in Refresh, k \in Exchange \cup Refresh, c \in Registered : RefreshToken(r, k, c)
  \/ \E r \in Exchange \cup Refresh : \/ \E p \in BOOLEAN : Check(r, p)
                                      \/ CreateRefreshToken(r) \/ Answer(r)
  \/ \E r \in Revocation, k \in Exchange \cup Refresh : Revokes(r, k)
  \/ \E r \in AllRequests : GrantFails(r)
  \/ Later

GrantsSpec == GrantsInit /\ [][GrantsNext]_grantVars

-----------------------------------------------------------------------------
(* "Presenting a refresh token once invalidates it - the new token is the   *)
(* only one that still works": however requests overlap and fail, a grant   *)
(* never has two refresh tokens that work, nor one beside the code that     *)
(* buys it, nor is a code or a token exchanged by two requests.             *)
Exchanged(k) == {r \in Exchange \cup Refresh : asked[r].presents = k /\ asked[r].pc \in {"subject", "answer", "done"}}
SingleUse ==
  /\ \A g \in Authorization :
       Cardinality({k \in DOMAIN refresh_tokens : refresh_tokens[k].grant = g})
       + Cardinality({k \in DOMAIN auth_codes : auth_codes[k].grant = g}) <= 1
  /\ \A k \in AllRequests : Cardinality(Exchanged(k)) <= 1

(* Access tokens go to the client the person was asked about, through every *)
(* rotation.                                                                *)
BoundToClient == \A t \in access : t.for = asked[t.grant].client

(* A revocation that found its token ends the grant: no token of it works    *)
(* afterwards, no request that is under way brings one back, and what was   *)
(* signed for it is active no longer than an access token lives.            *)
RevocationEndsGrant ==
  \A r \in Revocation : asked[r].pc = "done" /\ asked[r].found # Missing =>
    LET g == asked[r].found.grant
    IN  /\ \A k \in DOMAIN refresh_tokens : refresh_tokens[k].grant # g
        /\ \A q \in Refresh : asked[q].pc \in {"subject", "answer"} => asked[q].found.grant # g
        /\ time >= asked[r].at + AccessLife => \A t \in access : t.grant = g => ~Active(t)

(* A code and a token are exchanged once, by whichever of the requests that *)
(* present it; access is for the client that was authorized; a revocation   *)
(* ends the grant.                                                          *)
GrantsSound == GrantsTypeOK /\ SingleUse /\ BoundToClient /\ RevocationEndsGrant

-----------------------------------------------------------------------------
(* The inductive invariant behind OAuthGrants_proofs.                       *)

(* A grant is in one place: a code, a refresh token, a request that has     *)
(* consumed one of them, or a revocation.                                   *)
Holds(kind, x, g) ==
  \/ kind = "code" /\ x \in DOMAIN auth_codes /\ auth_codes[x].grant = g
  \/ kind = "token" /\ x \in DOMAIN refresh_tokens /\ refresh_tokens[x].grant = g
  \/ /\ kind = "request" /\ asked[x].found # Missing /\ asked[x].found.grant = g
     /\ \/ x \in Exchange \cup Refresh /\ asked[x].pc \in {"check", "subject"}
        \/ x \in Revocation
InOnePlace ==
  \A g \in Authorization, i, j \in {"code", "token", "request"}, x, y \in AllRequests :
    Holds(i, x, g) /\ Holds(j, y, g) => i = j /\ x = y

(* Whatever is held for a grant names the client it was authorized for.     *)
Authorized(d) == asked[d.grant].pc # "new" /\ asked[d.grant].client = d.client
AllAuthorized ==
  /\ \A x \in DOMAIN auth_codes : Authorized(auth_codes[x])
  /\ \A x \in DOMAIN refresh_tokens : Authorized(refresh_tokens[x])
  /\ \A r \in AllRequests : asked[r].found # Missing => Authorized(asked[r].found)
  /\ \A t \in access : asked[t.grant].pc # "new"

(* What was presented had been delivered, and is gone; one request found it.*)
ConsumedOnce ==
  \A r \in AllRequests : asked[r].presents # "none" =>
    LET k == asked[r].presents
    IN  /\ asked[k].pc = "done" /\ k \notin DOMAIN auth_codes \cup DOMAIN refresh_tokens
        /\ asked[r].pc # "new"
        /\ \A q \in AllRequests :
             asked[q].presents = k /\ asked[r].found # Missing /\ asked[q].found # Missing => q = r

(* A request found nothing until it asked; one that goes on found something *)
(* of its client's; one that is about to answer has its successor stored.   *)
GoesOn ==
  /\ \A r \in Authorization : asked[r].found = Missing /\ asked[r].presents = "none"
  /\ \A r \in AllRequests : asked[r].pc = "new" => asked[r].found = Missing
  /\ \A r \in Exchange \cup Refresh :
       /\ asked[r].pc \in {"subject", "answer", "done"} =>
            asked[r].found # Missing /\ asked[r].found.client = asked[r].client
       /\ asked[r].pc = "answer" =>
            r \in DOMAIN refresh_tokens /\ refresh_tokens[r].grant = asked[r].found.grant

(* Nothing is signed for a grant after its revocation.                      *)
SignedBefore ==
  \A t \in access :
    /\ t.expires <= time + AccessLife
    /\ \A r \in Revocation : asked[r].found # Missing /\ asked[r].found.grant = t.grant =>
         t.expires <= asked[r].at + AccessLife

GrantsIInv ==
  /\ GrantsTypeOK /\ InOnePlace /\ AllAuthorized /\ ConsumedOnce /\ GoesOn
  /\ SignedBefore /\ BoundToClient
=============================================================================
