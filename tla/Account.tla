------------------------------- MODULE Account -------------------------------
(***************************************************************************)
(* One account's sessions, password, reset links and recovery codes        *)
(* (apps/api/src/application.ts, with the queries of MongoRepository in    *)
(* apps/api/src/repository.ts).                                            *)
(*                                                                         *)
(* Requests run concurrently.  Each repository call is one atomic database *)
(* operation and an await; between two of them any other request may run,  *)
(* and what a handler read before may be stale.  An update replaces the    *)
(* whole document by the copy the handler holds.  A request may also fail  *)
(* between two calls (the database answers with an error, the process      *)
(* dies): what it has written stays.                                       *)
(***************************************************************************)
EXTENDS Integers, FiniteSets

CONSTANTS
  Request,     \* requests; each is made once, which bounds a behaviour
  Session,     \* session documents that may come to exist
  First,       \* the session, password and recovery codes of registration
  Link,        \* password reset links that may come to be mailed
  CodesPerSet, \* recoveryCodeCount
  Ops          \* the operations requests may ask for

ASSUME FirstAssumption == First \in Session /\ First \notin Request
ASSUME CodesAssumption == CodesPerSet \in Nat \ {0}
ASSUME SecretsAssumption == Link \cap [set : Request \cup {First}, n : 1..CodesPerSet] = {}

VARIABLES
  session,  \* the session documents: "none", "active" or "revoked" (revokedAt)
  madeWith, \* history: the password each session was opened with
  password, \* the credential document; a password is named by who set it
  links,    \* reset links not yet consumed
  codes,    \* recovery code documents
  used,     \* the recovery codes with a usedAt
  req,      \* the requests and their handlers' local state
  revived,  \* history: sessions un-revoked by a stale copy
  retired   \* history: passwords replaced by a reset that has answered

vars == <<session, madeWith, password, links, codes, used, req, revived, retired>>

Password == Request \cup {First}
Code == [set : Password, n : 1..CodesPerSet]
CodesOf(who) == [set : {who}, n : 1..CodesPerSet]

WithSession == {"use", "logout", "revoke", "change", "regenerate"}
Resets == {"confirm", "redeem"}
Op == WithSession \cup Resets \cup {"login"}

(* What a handler has still to do, and what it holds: its own session, the  *)
(* secrets it consumed, the password it verified or replaced, the sessions  *)
(* it found and those it has still to revoke.                               *)
Running == {"record", "logout", "revoke", "verify", "issue", "write", "list",
            "evict", "delete", "insert"}
Handler == [pc : Running \cup {"new", "done", "refused", "failed"}, op : Op,
            own : Session, secret : SUBSET (Link \cup Code), old : Password,
            listed : SUBSET Session, todo : SUBSET Session]

TypeOK ==
  /\ session \in [Session -> {"none", "active", "revoked"}]
  /\ madeWith \in [Session -> Password]
  /\ password \in Password
  /\ links \subseteq Link /\ codes \subseteq Code /\ used \subseteq Code
  /\ req \in [Request -> Handler]
  /\ revived \subseteq Session /\ retired \subseteq Password

Init ==
  /\ session = [s \in Session |-> IF s = First THEN "active" ELSE "none"]
  /\ madeWith = [s \in Session |-> First]
  /\ password = First
  /\ links = {} /\ codes = CodesOf(First) /\ used = {}
  /\ req = [r \in Request |->
              [pc |-> "new", op |-> "use", own |-> First, secret |-> {},
               old |-> First, listed |-> {}, todo |-> {}]]
  /\ revived = {} /\ retired = {}

-----------------------------------------------------------------------------
Exists(s) == session[s] # "none"
Mutant_anySession(s) == session[s] # "none"
Accepted(s) == session[s] = "active"

Goes(r, pc) == req' = [req EXCEPT ![r].pc = pc]

(* updateSession(): replaceOne() with the handler's copy.                   *)
Revoke(s) == session' = [session EXCEPT ![s] = "revoked"]

(* authenticate(): the session is read and checked, then the user is read.  *)
Authenticate(r, op, s) ==
  /\ req[r].pc = "new" /\ op \in Ops \cap WithSession /\ Exists(s)
  /\ req' = [req EXCEPT ![r].op = op, ![r].own = s,
                        ![r].pc = IF Accepted(s) THEN "record" ELSE "refused"]
  /\ UNCHANGED <<session, madeWith, password, links, codes, used, revived, retired>>

(* The rest of authenticate(): unless the cache holds this session's claim, *)
(* the copy read above is written back with a new lastUsedAt.               *)
FirstStep(op) ==
  CASE op \in {"logout", "revoke"} -> op
    [] op = "change" -> "verify"
    [] op = "regenerate" -> "delete"
    [] OTHER -> "done"

RecordUse(r) ==
  LET s == req[r].own
  IN  /\ req[r].pc = "record"
      /\ Goes(r, FirstStep(req[r].op))
      /\ \/ UNCHANGED <<session, revived>>
         \/ /\ session' = [session EXCEPT ![s] = "active"]
            /\ revived' = IF session[s] = "revoked" THEN revived \cup {s} ELSE revived
      /\ UNCHANGED <<madeWith, password, links, codes, used, retired>>

-----------------------------------------------------------------------------
(* POST /v1/auth/logout                                                     *)
Logout(r) ==
  /\ req[r].pc = "logout"
  /\ Revoke(req[r].own)
  /\ Goes(r, "done")
  /\ UNCHANGED <<madeWith, password, links, codes, used, revived, retired>>

(* DELETE /v1/sessions/:sessionId, of one of the account's sessions.  Its   *)
(* read and its write are one step: whatever copy it read, it writes the    *)
(* session revoked, and sessions are never deleted.                         *)
RevokeOne(r, s) ==
  /\ req[r].pc = "revoke" /\ Exists(s)
  /\ Revoke(s)
  /\ Goes(r, "done")
  /\ UNCHANGED <<madeWith, password, links, codes, used, revived, retired>>

(* POST /v1/auth/login reads the credential ...                             *)
Login(r) ==
  /\ req[r].pc = "new" /\ "login" \in Ops
  /\ req' = [req EXCEPT ![r].op = "login", ![r].pc = "verify"]
  /\ UNCHANGED <<session, madeWith, password, links, codes, used, revived, retired>>

(* ... and it, or a password change, verifies the password it was given     *)
(* against that copy.                                                       *)
VerifyPassword(r) ==
  /\ req[r].pc = "verify"
  /\ \E pc \in {"refused", IF req[r].op = "login" THEN "issue" ELSE "write"} :
       req' = [req EXCEPT ![r].old = password, ![r].pc = pc]
  /\ UNCHANGED <<session, madeWith, password, links, codes, used, revived, retired>>

(* createSession()                                                          *)
IssueSession(r, s) ==
  /\ req[r].pc = "issue" /\ ~Exists(s)
  /\ session' = [session EXCEPT ![s] = "active"]
  /\ madeWith' = [madeWith EXCEPT ![s] = req[r].old]
  /\ Goes(r, "done")
  /\ UNCHANGED <<password, links, codes, used, revived, retired>>

-----------------------------------------------------------------------------
(* The link's token is a new secret.                                        *)
IssueAccountAction(x) ==
  /\ x \notin links /\ \A r \in Request : x \notin req[r].secret
  /\ links' = links \cup {x}

(* POST /v1/auth/password-reset/request mails a new link to whoever asks.   *)
(* It is not one of the bounded requests, which links bound by themselves.  *)
RequestReset(x) ==
  /\ IssueAccountAction(x)
  /\ UNCHANGED <<session, madeWith, password, codes, used, req, revived, retired>>

(* Resets.  Consuming the secret is one findOneAndDelete or                 *)
(* findOneAndUpdate; the link may turn out to have expired.                 *)
ConsumeLink(x) == links' = links \ {x} /\ UNCHANGED used
Mutant_keepsCode(x) == UNCHANGED <<links, used>>
ConsumeCode(x) == used' = used \cup {x} /\ UNCHANGED links

Takes(r, op, x, pc) ==
  /\ req[r].pc = "new" /\ op \in Ops
  /\ req' = [req EXCEPT ![r].op = op, ![r].secret = x, ![r].pc = pc]

(* POST /v1/auth/password-reset/confirm                                     *)
Confirm(r, x) ==
  /\ x \in links /\ ConsumeLink(x)
  /\ \E pc \in {"write", "refused"} : Takes(r, "confirm", {x}, pc)
  /\ UNCHANGED <<session, madeWith, password, codes, revived, retired>>

(* POST /v1/auth/password-reset/redeem                                      *)
Redeem(r, x) ==
  /\ x \in codes \ used /\ ConsumeCode(x)
  /\ Takes(r, "redeem", {x}, "write")
  /\ UNCHANGED <<session, madeWith, password, links, codes, revived, retired>>

(* Either of them with a secret that is unknown, replaced or already used.  *)
RejectSecret(r, op) ==
  /\ op \in Resets /\ Takes(r, op, {}, "refused")
  /\ UNCHANGED <<session, madeWith, password, links, codes, used, revived, retired>>

(* updateCredential() with the hash of the request's new password.          *)
WriteCredential(r) ==
  /\ req[r].pc = "write"
  /\ password' = r
  /\ req' = [req EXCEPT ![r].old = password, ![r].pc = "list"]
  /\ UNCHANGED <<session, madeWith, links, codes, used, revived, retired>>

(* listSessions(): a change spares its own session and those revoked.       *)
Others(r) == {s \in Session : Exists(s) /\ (req[r].op = "change" => s # req[r].own)}
Mutant_sparesOwn(r) == {s \in Session : Exists(s) /\ s # req[r].own}
ToEvict(r) == {s \in Others(r) : req[r].op = "change" => session[s] # "revoked"}

ListSessions(r) ==
  /\ req[r].pc = "list"
  /\ req' = [req EXCEPT ![r].listed = Others(r), ![r].todo = ToEvict(r), ![r].pc = "evict"]
  /\ UNCHANGED <<session, madeWith, password, links, codes, used, revived, retired>>

(* The listed sessions are revoked by one update each, in any order.        *)
Evict(r, s) ==
  /\ req[r].pc = "evict" /\ s \in req[r].todo
  /\ Revoke(s)
  /\ req' = [req EXCEPT ![r].todo = @ \ {s}]
  /\ UNCHANGED <<madeWith, password, links, codes, used, revived, retired>>

Finish(r) ==
  /\ req[r].pc = "evict" /\ req[r].todo = {}
  /\ Goes(r, "done")
  /\ retired' = IF req[r].op \in Resets THEN retired \cup {req[r].old} ELSE retired
  /\ UNCHANGED <<session, madeWith, password, links, codes, used, revived>>

-----------------------------------------------------------------------------
(* POST /v1/auth/recovery-codes: replaceRecoveryCodes(), two operations.    *)
DeleteCodes(r) ==
  /\ req[r].pc = "delete"
  /\ codes' = {}
  /\ Goes(r, "insert")
  /\ UNCHANGED <<session, madeWith, password, links, used, revived, retired>>

InsertCodes(r) ==
  /\ req[r].pc = "insert"
  /\ codes' = codes \cup CodesOf(r)
  /\ Goes(r, "done")
  /\ UNCHANGED <<session, madeWith, password, links, used, revived, retired>>

(* A request ends between two repository calls.                             *)
Fail(r) ==
  /\ req[r].pc \in Running
  /\ Goes(r, "failed")
  /\ UNCHANGED <<session, madeWith, password, links, codes, used, revived, retired>>

Handles ==
  \E r \in Request :
    \/ \E op \in Op, s \in Session : Authenticate(r, op, s)
    \/ RecordUse(r) \/ Logout(r) \/ Login(r) \/ VerifyPassword(r)
    \/ \E s \in Session : RevokeOne(r, s) \/ IssueSession(r, s) \/ Evict(r, s)
    \/ \E x \in Link : Confirm(r, x)
    \/ \E x \in Code : Redeem(r, x)
    \/ \E op \in Op : RejectSecret(r, op)
    \/ WriteCredential(r) \/ ListSessions(r) \/ Finish(r)
    \/ DeleteCodes(r) \/ InsertCodes(r)
    \/ Fail(r)

Next == Handles \/ \E x \in Link : RequestReset(x)

Spec == Init /\ [][Next]_vars

-----------------------------------------------------------------------------
(* "A revoked session's very next request is a 401", which the code does    *)
(* not keep (README, 4.2): revoking is for good.                            *)
RevokedStaysRevoked ==
  [][\A s \in Session : session[s] = "revoked" => session'[s] = "revoked"]_vars

(* What does hold of it: once no request that authenticated before is still *)
(* in authenticate(), a revoked session can never be used again, whatever   *)
(* logins, resets and changes do.                                           *)
Recording(s) == \E r \in Request : req[r].pc = "record" /\ req[r].own = s
Settled(s) == session[s] = "revoked" /\ ~Recording(s)
RevocationSettles == [][\A s \in Session : Settled(s) => Settled(s)']_vars

(* "Completing a password reset revokes all sessions", a change all others: *)
(* when the handler has answered, no session it found is still active, but  *)
(* for those a stale copy has revived.                                      *)
EvictionComplete ==
  \A r \in Request : req[r].pc = "done" =>
    \A s \in req[r].listed : session[s] = "active" => s \in revived

(* "Whoever held the old password is evicted", which the code does not keep *)
(* (README, 4.2): once a reset has answered, no active session was opened   *)
(* with the password it replaced.                                           *)
OldPasswordEvicted ==
  \A s \in Session : session[s] = "active" => madeWith[s] \notin retired

(* "Single use": no reset link and no recovery code serves two requests,    *)
(* although codes are deleted and reissued meanwhile.                       *)
SecretsSingleUse ==
  \A q, r \in Request : q # r => req[q].secret \cap req[r].secret = {}

-----------------------------------------------------------------------------
(* The inductive invariant behind Account_proofs.                           *)

(* A consumed secret is no longer on offer.                                 *)
SecretsSpent ==
  \A r \in Request : req[r].secret \cap links = {} /\ req[r].secret \cap Code \subseteq used

(* Only a handler that revokes sessions has listed any; what it listed has   *)
(* existed ever since, and what it is through with is revoked or revived.    *)
EvictionProgress ==
  \A r \in Request :
    /\ \A s \in req[r].listed : Exists(s)
    /\ req[r].pc \notin {"evict", "done", "failed"} => req[r].listed = {} /\ req[r].todo = {}
    /\ req[r].pc \in {"evict", "done"} =>
         \A s \in req[r].listed \ req[r].todo : session[s] = "active" => s \in revived
    /\ req[r].pc = "done" => req[r].todo = {}

IInv == TypeOK /\ SecretsSpent /\ SecretsSingleUse /\ EvictionProgress
=============================================================================
