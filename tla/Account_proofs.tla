---------------------------- MODULE Account_proofs ----------------------------
(***************************************************************************)
(* Theorems about Account, for any requests, sessions, links and codes:     *)
(* secrets are single use, a handler that answers has revoked what it       *)
(* found, and a settled revocation is for good.                             *)
(***************************************************************************)
EXTENDS Account, TLAPS

-----------------------------------------------------------------------------
(* Type correctness.                                                        *)

(* A handler that moves on, and nothing else, stays a handler.              *)
LEMMA GoesType ==
  ASSUME TypeOK, NEW r \in Request, NEW pc \in Running \cup {"done", "refused", "failed"},
         Goes(r, pc)
  PROVE  req' \in [Request -> Handler]
BY DEF TypeOK, Goes, Handler

(* Revoking keeps the session documents typed.                              *)
LEMMA RevokeType ==
  ASSUME TypeOK, NEW s, Revoke(s)
  PROVE  session' \in [Session -> {"none", "active", "revoked"}]
BY DEF TypeOK, Revoke

(* Authentication and its write-back keep the types.                        *)
LEMMA AuthType ==
  ASSUME TypeOK, NEW r \in Request,
         (\E op \in Op, s \in Session : Authenticate(r, op, s)) \/ RecordUse(r)
  PROVE  TypeOK'
<1>1. ASSUME NEW op \in Op, NEW s \in Session, Authenticate(r, op, s) PROVE TypeOK'
  <2> DEFINE pc == IF Accepted(s) THEN "record" ELSE "refused"
  <2>0. pc \in Running \cup {"refused"}
    BY DEF Running
  <2>1. req' \in [Request -> Handler]
    <3>1. req' = [req EXCEPT ![r].op = op, ![r].own = s, ![r].pc = pc]
      BY <1>1 DEF Authenticate
    <3>2. [req[r] EXCEPT !.op = op, !.own = s, !.pc = pc] \in Handler
      <4> HIDE DEF pc
      <4> QED
        BY <2>0 DEF TypeOK, Handler
    <3>3. req' = [req EXCEPT ![r] = [req[r] EXCEPT !.op = op, !.own = s, !.pc = pc]]
      BY <3>1 DEF TypeOK, Handler
    <3> QED
      BY <3>2, <3>3 DEF TypeOK
  <2> QED
    BY <1>1, <2>1 DEF Authenticate, TypeOK
<1>2. CASE RecordUse(r)
  <2>1. FirstStep(req[r].op) \in Running \cup {"done"}
    <3>1. CASE req[r].op \in {"logout", "revoke", "change", "regenerate"}
      BY <3>1 DEF FirstStep, Running
    <3>2. CASE req[r].op \notin {"logout", "revoke", "change", "regenerate"}
      BY <3>2 DEF FirstStep
    <3> QED
      BY <3>1, <3>2
  <2>2. req' \in [Request -> Handler]
    BY <1>2, <2>1, GoesType DEF RecordUse
  <2>3. session' \in [Session -> {"none", "active", "revoked"}] /\ revived' \subseteq Session
    BY <1>2 DEF RecordUse, TypeOK, Handler
  <2> QED
    BY <1>2, <2>2, <2>3 DEF RecordUse, TypeOK
<1> QED
  BY <1>1, <1>2

(* Sessions opened, revoked or evicted keep the types.                      *)
LEMMA SessionType ==
  ASSUME TypeOK, NEW r \in Request, NEW s \in Session,
         Logout(r) \/ RevokeOne(r, s) \/ IssueSession(r, s) \/ Evict(r, s)
  PROVE  TypeOK'
<1>1. CASE Logout(r)
  BY <1>1, GoesType, RevokeType DEF Logout, TypeOK
<1>2. CASE RevokeOne(r, s)
  BY <1>2, GoesType, RevokeType DEF RevokeOne, TypeOK
<1>3. CASE IssueSession(r, s)
  <2>1. req[r].old \in Password
    BY DEF TypeOK, Handler
  <2> QED
    BY <1>3, <2>1, GoesType DEF IssueSession, TypeOK
<1>4. CASE Evict(r, s)
  <2>1. req' \in [Request -> Handler]
    BY <1>4 DEF Evict, TypeOK, Handler
  <2> QED
    BY <1>4, <2>1, RevokeType DEF Evict, TypeOK
<1> QED
  BY <1>1, <1>2, <1>3, <1>4

(* Passwords, links and codes keep the types.                               *)
LEMMA SecretType ==
  ASSUME TypeOK, NEW r \in Request,
         \/ Login(r) \/ VerifyPassword(r) \/ WriteCredential(r)
         \/ \E x \in Link : Confirm(r, x)
         \/ \E x \in Code : Redeem(r, x)
         \/ \E op \in Op : RejectSecret(r, op)
  PROVE  TypeOK'
<1>1. CASE Login(r)
  <2>1. req' \in [Request -> Handler]
    BY <1>1 DEF Login, TypeOK, Handler, Op, Running
  <2> QED
    BY <1>1, <2>1 DEF Login, TypeOK
<1>2. CASE VerifyPassword(r)
  <2>1. req' \in [Request -> Handler]
    BY <1>2 DEF VerifyPassword, TypeOK, Handler, Running
  <2> QED
    BY <1>2, <2>1 DEF VerifyPassword, TypeOK
<1>3. CASE WriteCredential(r)
  <2>1. req' \in [Request -> Handler] /\ password' \in Password
    BY <1>3 DEF WriteCredential, TypeOK, Handler, Running, Password
  <2> QED
    BY <1>3, <2>1 DEF WriteCredential, TypeOK
<1>4. ASSUME NEW op \in Op, NEW x \in SUBSET (Link \cup Code), NEW pc \in {"write", "refused"},
             Takes(r, op, x, pc)
      PROVE  req' \in [Request -> Handler]
  BY <1>4 DEF Takes, TypeOK, Handler, Running
<1>5. ASSUME NEW x \in Link, Confirm(r, x) PROVE TypeOK'
  <2>1. "confirm" \in Op /\ {x} \in SUBSET (Link \cup Code)
    BY DEF Op, Resets
  <2> QED
    BY <1>4, <1>5, <2>1 DEF Confirm, ConsumeLink, TypeOK
<1>6. ASSUME NEW x \in Code, Redeem(r, x) PROVE TypeOK'
  <2>1. "redeem" \in Op /\ {x} \in SUBSET (Link \cup Code)
    BY DEF Op, Resets
  <2> QED
    BY <1>4, <1>6, <2>1 DEF Redeem, ConsumeCode, TypeOK
<1>7. ASSUME NEW op \in Op, RejectSecret(r, op) PROVE TypeOK'
  BY <1>4, <1>7 DEF RejectSecret, TypeOK
<1> QED
  BY <1>1, <1>2, <1>3, <1>5, <1>6, <1>7

(* The rest of the handlers keep the types.                                 *)
LEMMA RestType ==
  ASSUME TypeOK, NEW r \in Request,
         ListSessions(r) \/ Finish(r) \/ DeleteCodes(r) \/ InsertCodes(r) \/ Fail(r)
  PROVE  TypeOK'
<1>1. CASE ListSessions(r)
  <2>1. req' \in [Request -> Handler]
    <3>1. Others(r) \subseteq Session /\ ToEvict(r) \subseteq Session
      BY DEF Others, ToEvict
    <3> QED
      BY <1>1, <3>1 DEF ListSessions, TypeOK, Handler, Running
  <2> QED
    BY <1>1, <2>1 DEF ListSessions, TypeOK
<1>2. CASE Finish(r)
  <2>1. req[r].old \in Password
    BY DEF TypeOK, Handler
  <2> QED
    BY <1>2, <2>1, GoesType DEF Finish, TypeOK
<1>3. CASE DeleteCodes(r)
  <2>1. "insert" \in Running
    BY DEF Running
  <2> QED
    BY <1>3, <2>1, GoesType DEF DeleteCodes, TypeOK
<1>4. CASE InsertCodes(r)
  <2>1. CodesOf(r) \subseteq Code
    BY DEF CodesOf, Code, Password
  <2> QED
    BY <1>4, <2>1, GoesType DEF InsertCodes, TypeOK
<1>5. CASE Fail(r)
  BY <1>5, GoesType DEF Fail, TypeOK
<1> QED
  BY <1>1, <1>2, <1>3, <1>4, <1>5

(* Every step preserves the types.                                          *)
LEMMA NextType ==
  ASSUME TypeOK, [Next]_vars PROVE TypeOK'
<1>1. CASE UNCHANGED vars
  BY <1>1 DEF vars, TypeOK
<1>2. CASE \E x \in Link : RequestReset(x)
  BY <1>2 DEF RequestReset, IssueAccountAction, TypeOK
<1> QED
  BY <1>1, <1>2, AuthType, SessionType, SecretType, RestType, FirstAssumption DEF Next, Handles

(* The registered account is well typed.                                    *)
LEMMA InitType == Init => TypeOK
  BY FirstAssumption DEF Init, TypeOK, Handler, Password, CodesOf, Code, Op, WithSession

(* Every reachable state is well typed.                                     *)
THEOREM TypeCorrect == Spec => []TypeOK
  BY InitType, NextType, PTL DEF Spec
-----------------------------------------------------------------------------
(* Secrets.                                                                 *)

(* A handler that consumes no secret leaves all of them as they are.        *)
Unspent == UNCHANGED <<links, used>> /\ \A q \in Request : req'[q].secret = req[q].secret

LEMMA NoSecretTaken ==
  ASSUME TypeOK, NEW r \in Request,
         \/ \E op \in Op, s \in Session : Authenticate(r, op, s)
         \/ RecordUse(r) \/ Logout(r) \/ Login(r) \/ VerifyPassword(r)
         \/ \E s \in Session : RevokeOne(r, s) \/ IssueSession(r, s) \/ Evict(r, s)
         \/ WriteCredential(r) \/ ListSessions(r) \/ Finish(r)
         \/ DeleteCodes(r) \/ InsertCodes(r) \/ Fail(r)
  PROVE  Unspent
<1>1. ASSUME NEW pc, Goes(r, pc) PROVE \A q \in Request : req'[q].secret = req[q].secret
  BY <1>1 DEF Goes, TypeOK, Handler
<1>2. CASE RecordUse(r) \/ Logout(r) \/ Finish(r) \/ DeleteCodes(r) \/ InsertCodes(r) \/ Fail(r)
  BY <1>1, <1>2 DEF RecordUse, Logout, Finish, DeleteCodes, InsertCodes, Fail, Unspent
<1>3. ASSUME NEW s \in Session, RevokeOne(r, s) \/ IssueSession(r, s) PROVE Unspent
  BY <1>1, <1>3 DEF RevokeOne, IssueSession, Unspent
<1>4. ASSUME NEW s \in Session, Evict(r, s) PROVE Unspent
  BY <1>4 DEF Evict, Unspent, TypeOK, Handler
<1>5. ASSUME NEW op \in Op, NEW s \in Session, Authenticate(r, op, s) PROVE Unspent
  <2> DEFINE pc == IF Accepted(s) THEN "record" ELSE "refused"
  <2>1. req' = [req EXCEPT ![r].op = op, ![r].own = s, ![r].pc = pc]
    BY <1>5 DEF Authenticate
  <2> HIDE DEF pc
  <2>2. req'[r].secret = req[r].secret
    BY <2>1 DEF TypeOK, Handler
  <2>3. \A q \in Request : q # r => req'[q] = req[q]
    BY <2>1 DEF TypeOK
  <2> QED
    BY <1>5, <2>2, <2>3 DEF Authenticate, Unspent
<1>6. CASE Login(r) \/ VerifyPassword(r) \/ WriteCredential(r)
  BY <1>6 DEF Login, VerifyPassword, WriteCredential, Unspent, TypeOK, Handler
<1>7. CASE ListSessions(r)
  BY <1>7 DEF ListSessions, Unspent, TypeOK, Handler
<1> QED
  BY <1>2, <1>3, <1>4, <1>5, <1>6, <1>7

(* A handler takes only a secret on offer, and takes it off.                *)
LEMMA SecretsStep ==
  ASSUME TypeOK, SecretsSpent, SecretsSingleUse, [Next]_vars
  PROVE  SecretsSpent' /\ SecretsSingleUse'
<1>1. ASSUME Unspent PROVE SecretsSpent' /\ SecretsSingleUse'
  BY <1>1 DEF Unspent, SecretsSpent, SecretsSingleUse
<1>2. ASSUME NEW r \in Request, NEW op, NEW x, NEW pc, Takes(r, op, x, pc)
      PROVE  /\ \A q \in Request : q # r => req'[q].secret = req[q].secret
             /\ req'[r].secret = x
  BY <1>2 DEF Takes, TypeOK, Handler
<1>3. ASSUME NEW r \in Request, NEW x \in Link, Confirm(r, x)
      PROVE  SecretsSpent' /\ SecretsSingleUse'
  <2>1. /\ \A q \in Request : q # r => req'[q].secret = req[q].secret
        /\ req'[r].secret = {x}
    BY <1>2, <1>3 DEF Confirm
  <2>2. x \in links /\ links' = links \ {x} /\ used' = used /\ x \notin Code
    BY <1>3, SecretsAssumption DEF Confirm, ConsumeLink, Code, Password
  <2> QED
    BY <2>1, <2>2 DEF SecretsSpent, SecretsSingleUse
<1>4. ASSUME NEW r \in Request, NEW x \in Code, Redeem(r, x)
      PROVE  SecretsSpent' /\ SecretsSingleUse'
  <2>1. /\ \A q \in Request : q # r => req'[q].secret = req[q].secret
        /\ req'[r].secret = {x}
    BY <1>2, <1>4 DEF Redeem
  <2>2. x \notin used /\ used' = used \cup {x} /\ links' = links
    BY <1>4 DEF Redeem, ConsumeCode
  <2>3. x \notin links
    BY SecretsAssumption DEF TypeOK, Code, Password
  <2> QED
    BY <2>1, <2>2, <2>3 DEF SecretsSpent, SecretsSingleUse
<1>5. ASSUME NEW r \in Request, NEW op \in Op, RejectSecret(r, op)
      PROVE  SecretsSpent' /\ SecretsSingleUse'
  <2>1. /\ \A q \in Request : q # r => req'[q].secret = req[q].secret
        /\ req'[r].secret = {}
    BY <1>2, <1>5 DEF RejectSecret
  <2> QED
    BY <1>5, <2>1 DEF RejectSecret, SecretsSpent, SecretsSingleUse
<1>6. CASE UNCHANGED vars
  BY <1>1, <1>6 DEF vars, Unspent
<1>7. ASSUME NEW x \in Link, RequestReset(x)
      PROVE  SecretsSpent' /\ SecretsSingleUse'
  <2>1. /\ links' = links \cup {x} /\ req' = req /\ used' = used
        /\ \A r \in Request : x \notin req[r].secret
    BY <1>7 DEF RequestReset, IssueAccountAction
  <2> QED
    BY <2>1 DEF SecretsSpent, SecretsSingleUse
<1> QED
  BY <1>1, <1>3, <1>4, <1>5, <1>6, <1>7, NoSecretTaken DEF Next, Handles

-----------------------------------------------------------------------------
(* Sessions.                                                                *)

(* Sessions never disappear, and only a stale copy revives a revoked one.   *)
LEMMA SessionStep ==
  ASSUME TypeOK, [Next]_vars
  PROVE  /\ revived \subseteq revived'
         /\ \A s \in Session : Exists(s) =>
              /\ Exists(s)'
              /\ session'[s] = "active" => session[s] = "active" \/ s \in revived'
<1>1. ASSUME NEW s \in Session, Revoke(s)
      PROVE  \A t \in Session : session'[t] = session[t] \/ session'[t] = "revoked"
  BY <1>1 DEF Revoke, TypeOK
<1>2. ASSUME NEW r \in Request, RecordUse(r)
      PROVE  \/ session' = session /\ revived' = revived
             \/ /\ req[r].own \in Session /\ revived \subseteq revived'
                /\ session' = [session EXCEPT ![req[r].own] = "active"]
                /\ session[req[r].own] = "revoked" => req[r].own \in revived'
  BY <1>2 DEF RecordUse, TypeOK, Handler
<1>3. ASSUME NEW r \in Request, NEW s \in Session, Evict(r, s) \/ RevokeOne(r, s)
      PROVE  Revoke(s) /\ revived' = revived
  BY <1>3 DEF Evict, RevokeOne
<1>4. ASSUME NEW r \in Request, Logout(r)
      PROVE  Revoke(req[r].own) /\ req[r].own \in Session /\ revived' = revived
  BY <1>4 DEF Logout, TypeOK, Handler
<1>5. ASSUME NEW r \in Request, NEW s \in Session, IssueSession(r, s)
      PROVE  session' = [session EXCEPT ![s] = "active"] /\ session[s] = "none" /\ revived' = revived
  BY <1>5 DEF IssueSession, Exists
<1>6. \/ session' = session /\ revived' = revived
      \/ \E r \in Request : RecordUse(r) \/ Logout(r)
      \/ \E r \in Request, s \in Session : RevokeOne(r, s) \/ IssueSession(r, s) \/ Evict(r, s)
  BY DEF Next, Handles, vars, Authenticate, Login, VerifyPassword, Confirm, Redeem, RejectSecret,
         WriteCredential, ListSessions, Finish, DeleteCodes, InsertCodes, Fail, RequestReset, IssueAccountAction
<1> QED
  BY <1>1, <1>2, <1>3, <1>4, <1>5, <1>6 DEF Exists, TypeOK

(* A handler outside the evictions lists nothing.                           *)
Quiet(r) ==
  /\ req[r].pc \notin {"evict", "done", "failed"} /\ req'[r].pc \notin {"evict", "failed"}
  /\ req'[r].listed = req[r].listed /\ req'[r].todo = req[r].todo

(* A step of the handlers is one handler's.                                 *)
LEMMA OneHandler ==
  ASSUME TypeOK, Handles
  PROVE  \E r \in Request :
           /\ \A q \in Request : q # r => req'[q] = req[q]
           /\ \/ Quiet(r) \/ ListSessions(r) \/ Finish(r) \/ Fail(r)
              \/ \E s \in Session : Evict(r, s)
<1> DEFINE Alone(r) == \A q \in Request : q # r => req'[q] = req[q]
<1>1. ASSUME NEW r \in Request, NEW op, NEW s, Authenticate(r, op, s) PROVE Alone(r) /\ Quiet(r)
  <2> DEFINE pc == IF Accepted(s) THEN "record" ELSE "refused"
  <2>1. req' = [req EXCEPT ![r].op = op, ![r].own = s, ![r].pc = pc] /\ req[r].pc = "new"
    BY <1>1 DEF Authenticate
  <2>2. pc \in {"record", "refused"}
    OBVIOUS
  <2> HIDE DEF pc
  <2> QED
    BY <2>1, <2>2 DEF Quiet, TypeOK, Handler
<1>2. ASSUME NEW r \in Request, NEW pc, Goes(r, pc)
      PROVE  /\ Alone(r) /\ req'[r].pc = pc
             /\ req'[r].listed = req[r].listed /\ req'[r].todo = req[r].todo
  BY <1>2 DEF Goes, TypeOK, Handler
<1>3. ASSUME NEW r \in Request, RecordUse(r) PROVE Alone(r) /\ Quiet(r)
  <2>1. FirstStep(req[r].op) \notin {"evict", "failed"}
    <3>1. CASE req[r].op \in {"logout", "revoke", "change", "regenerate"}
      BY <3>1 DEF FirstStep
    <3>2. CASE req[r].op \notin {"logout", "revoke", "change", "regenerate"}
      BY <3>2 DEF FirstStep
    <3> QED
      BY <3>1, <3>2
  <2> QED
    BY <1>2, <1>3, <2>1 DEF RecordUse, Quiet
<1>4. ASSUME NEW r \in Request, NEW s,
             \/ Logout(r) \/ RevokeOne(r, s) \/ IssueSession(r, s)
             \/ DeleteCodes(r) \/ InsertCodes(r)
      PROVE  Alone(r) /\ Quiet(r)
  BY <1>2, <1>4 DEF Logout, RevokeOne, IssueSession, DeleteCodes, InsertCodes, Quiet
<1>5. ASSUME NEW r \in Request, Login(r) \/ VerifyPassword(r) \/ WriteCredential(r)
      PROVE  Alone(r) /\ Quiet(r)
  BY <1>5 DEF Login, VerifyPassword, WriteCredential, Quiet, TypeOK, Handler
<1>6. ASSUME NEW r \in Request, NEW op, NEW x, NEW pc \in {"write", "refused"}, Takes(r, op, x, pc)
      PROVE  Alone(r) /\ Quiet(r)
  BY <1>6 DEF Takes, Quiet, TypeOK, Handler
<1>7. ASSUME NEW r \in Request, NEW x, NEW op, Confirm(r, x) \/ Redeem(r, x) \/ RejectSecret(r, op)
      PROVE  Alone(r) /\ Quiet(r)
  BY <1>6, <1>7 DEF Confirm, Redeem, RejectSecret
<1>8. ASSUME NEW r \in Request, ListSessions(r) \/ Finish(r) \/ Fail(r) PROVE Alone(r)
  BY <1>2, <1>8 DEF ListSessions, Finish, Fail, TypeOK
<1>9. ASSUME NEW r \in Request, NEW s, Evict(r, s) PROVE Alone(r)
  <2>1. \E h : req' = [req EXCEPT ![r] = h]
    BY <1>9 DEF Evict
  <2> QED
    BY <2>1 DEF TypeOK
<1> QED
  BY <1>1, <1>3, <1>4, <1>5, <1>7, <1>8, <1>9 DEF Handles

(* Every handler that revokes sessions works through what it listed.        *)
LEMMA EvictionStep ==
  ASSUME TypeOK, EvictionProgress, [Next]_vars
  PROVE  EvictionProgress'
<1>0. /\ revived \subseteq revived'
      /\ \A s \in Session : Exists(s) =>
           /\ Exists(s)'
           /\ session'[s] = "active" => session[s] = "active" \/ s \in revived'
  BY SessionStep
<1>1. CASE UNCHANGED vars \/ \E x \in Link : RequestReset(x)
  BY <1>1 DEF vars, RequestReset, IssueAccountAction, EvictionProgress, Exists
<1>2. CASE Handles
  <2>1. PICK r \in Request :
           /\ \A q \in Request : q # r => req'[q] = req[q]
           /\ \/ Quiet(r) \/ ListSessions(r) \/ Finish(r) \/ Fail(r)
              \/ \E s \in Session : Evict(r, s)
    BY <1>2, OneHandler
  <2> DEFINE Good(q) ==
        /\ \A s \in req[q].listed : Exists(s)
        /\ req[q].pc \notin {"evict", "done", "failed"} => req[q].listed = {} /\ req[q].todo = {}
        /\ req[q].pc \in {"evict", "done"} =>
             \A s \in req[q].listed \ req[q].todo : session[s] = "active" => s \in revived
        /\ req[q].pc = "done" => req[q].todo = {}
  <2>2. \A q \in Request : Good(q) /\ req[q].listed \subseteq Session
    BY DEF EvictionProgress, TypeOK, Handler
  <2>3. ASSUME NEW q \in Request, q # r PROVE Good(q)'
    BY <1>0, <2>1, <2>2, <2>3
  <2>4. CASE Quiet(r)
    <3>1. req'[r].listed = {} /\ req'[r].todo = {}
      BY <2>2, <2>4 DEF Quiet
    <3> QED
      BY <2>3, <3>1 DEF EvictionProgress
  <2>5. CASE ListSessions(r)
    <3>1. /\ req'[r].listed = Others(r) /\ req'[r].todo = ToEvict(r)
          /\ req'[r].pc = "evict" /\ session' = session
      BY <2>5 DEF ListSessions, TypeOK, Handler
    <3>2. \A s \in Others(r) : Exists(s) /\ (s \notin ToEvict(r) => session[s] # "active")
      BY DEF Others, ToEvict
    <3>3. Good(r)'
      BY <3>1, <3>2 DEF Exists
    <3> QED
      BY <2>3, <3>3 DEF EvictionProgress
  <2>6. CASE \E s \in Session : Evict(r, s)
    <3>1. PICK s \in Session : Evict(r, s)
      BY <2>6
    <3>2. /\ req[r].pc = "evict" /\ req'[r].pc = "evict"
          /\ req'[r].listed = req[r].listed /\ req'[r].todo = req[r].todo \ {s}
      BY <3>1 DEF Evict, TypeOK, Handler
    <3>3. session'[s] = "revoked"
      BY <3>1 DEF Evict, Revoke, TypeOK
    <3>4. Good(r)'
      BY <1>0, <2>2, <3>2, <3>3
    <3> QED
      BY <2>3, <3>4 DEF EvictionProgress
  <2>7. CASE Finish(r) \/ Fail(r)
    <3>1. /\ req'[r].listed = req[r].listed /\ req'[r].todo = req[r].todo
          /\ \/ req[r].pc = "evict" /\ req[r].todo = {} /\ req'[r].pc = "done"
             \/ req'[r].pc = "failed"
      BY <2>7 DEF Finish, Fail, Goes, TypeOK, Handler
    <3>2. Good(r)'
      BY <1>0, <2>2, <3>1
    <3> QED
      BY <2>3, <3>2 DEF EvictionProgress
  <2> QED
    BY <2>1, <2>4, <2>5, <2>6, <2>7
<1> QED
  BY <1>1, <1>2 DEF Next

-----------------------------------------------------------------------------
(* The theorems.                                                            *)

(* The inductive invariant holds of every reachable state.                  *)
THEOREM Invariance == Spec => []IInv
<1>1. Init => IInv
  BY InitType DEF Init, IInv, SecretsSpent, SecretsSingleUse, EvictionProgress
<1>2. IInv /\ [Next]_vars => IInv'
  BY NextType, SecretsStep, EvictionStep DEF IInv
<1> QED
  BY <1>1, <1>2, PTL DEF Spec

(* No reset link and no recovery code serves two requests, for any number   *)
(* of concurrent redemptions and regenerations.                             *)
THEOREM SecretsServeOnce == Spec => []SecretsSingleUse
<1>1. IInv => SecretsSingleUse
  BY DEF IInv
<1> QED
  BY <1>1, Invariance, PTL

(* A password change or reset that has answered left no session active that *)
(* it found, but for those a stale copy has revived.                        *)
THEOREM AnsweredMeansEvicted == Spec => []EvictionComplete
<1>1. IInv => EvictionComplete
  BY DEF IInv, EvictionProgress, EvictionComplete
<1> QED
  BY <1>1, Invariance, PTL

(* After a step, a handler in authenticate() was already there or has just  *)
(* read a session that was active; only such a handler makes a revoked      *)
(* session active.                                                          *)
LEMMA RecordingStep ==
  ASSUME TypeOK, Next, NEW s \in Session, session[s] = "revoked", ~Recording(s)
  PROVE  session'[s] = "revoked" /\ ~Recording(s)'
<1> DEFINE Stays == session'[s] = "revoked"
           Known(r) == \A q \in Request : q # r => req'[q] = req[q]
<1>1. ASSUME NEW r \in Request, Known(r), req'[r].pc # "record"
      PROVE  ~Recording(s)'
  BY <1>1 DEF Recording
<1>2. ASSUME NEW r \in Request, NEW op \in Op, NEW t \in Session, Authenticate(r, op, t)
      PROVE  Stays /\ ~Recording(s)'
  <2> DEFINE pc == IF Accepted(t) THEN "record" ELSE "refused"
  <2>1. req' = [req EXCEPT ![r].op = op, ![r].own = t, ![r].pc = pc] /\ session' = session
    BY <1>2 DEF Authenticate
  <2>2. pc = "record" => t # s
    BY DEF Accepted
  <2> HIDE DEF pc
  <2>3. req'[r].pc = pc /\ req'[r].own = t
    BY <2>1 DEF TypeOK, Handler
  <2>4. Known(r)
    BY <2>1 DEF TypeOK
  <2> QED
    BY <2>1, <2>2, <2>3, <2>4 DEF Recording
<1>3. ASSUME NEW r \in Request, NEW pc, Goes(r, pc), pc # "record"
      PROVE  ~Recording(s)'
  BY <1>1, <1>3 DEF Goes, TypeOK, Handler
<1>4. ASSUME NEW r \in Request, RecordUse(r) PROVE Stays /\ ~Recording(s)'
  <2>1. FirstStep(req[r].op) # "record"
    <3>1. CASE req[r].op \in {"logout", "revoke", "change", "regenerate"}
      BY <3>1 DEF FirstStep
    <3>2. CASE req[r].op \notin {"logout", "revoke", "change", "regenerate"}
      BY <3>2 DEF FirstStep
    <3> QED
      BY <3>1, <3>2
  <2>2. req[r].own # s
    BY <1>4 DEF RecordUse, Recording
  <2> QED
    BY <1>3, <1>4, <2>1, <2>2 DEF RecordUse, TypeOK
<1>5. ASSUME NEW r \in Request, NEW t, Logout(r) \/ RevokeOne(r, t)
      PROVE  Stays /\ ~Recording(s)'
  BY <1>3, <1>5 DEF Logout, RevokeOne, Revoke, TypeOK
<1>6. ASSUME NEW r \in Request, NEW t, IssueSession(r, t)
      PROVE  Stays /\ ~Recording(s)'
  BY <1>3, <1>6 DEF IssueSession, Exists, TypeOK
<1>7. ASSUME NEW r \in Request, NEW t, Evict(r, t)
      PROVE  Stays /\ ~Recording(s)'
  <2>1. req'[r].pc = "evict" /\ Known(r)
    BY <1>7 DEF Evict, TypeOK, Handler
  <2> QED
    BY <1>1, <1>7, <2>1 DEF Evict, Revoke, TypeOK
<1>8. ASSUME NEW r \in Request,
             Finish(r) \/ Fail(r) \/ DeleteCodes(r) \/ InsertCodes(r)
      PROVE  Stays /\ ~Recording(s)'
  BY <1>3, <1>8 DEF Finish, Fail, DeleteCodes, InsertCodes
<1>9. ASSUME NEW r \in Request,
             Login(r) \/ VerifyPassword(r) \/ WriteCredential(r) \/ ListSessions(r)
      PROVE  Stays /\ ~Recording(s)'
  <2>1. req'[r].pc # "record" /\ Known(r)
    BY <1>9 DEF Login, VerifyPassword, WriteCredential, ListSessions, TypeOK, Handler
  <2> QED
    BY <1>1, <1>9, <2>1 DEF Login, VerifyPassword, WriteCredential, ListSessions
<1>10. ASSUME NEW r \in Request, NEW x, NEW op, Confirm(r, x) \/ Redeem(r, x) \/ RejectSecret(r, op)
       PROVE  Stays /\ ~Recording(s)'
  <2>1. req'[r].pc # "record" /\ Known(r)
    BY <1>10 DEF Confirm, Redeem, RejectSecret, Takes, TypeOK, Handler
  <2> QED
    BY <1>1, <1>10, <2>1 DEF Confirm, Redeem, RejectSecret
<1>11. CASE \E x \in Link : RequestReset(x)
  BY <1>11 DEF RequestReset, IssueAccountAction, Recording
<1> QED
  BY <1>2, <1>4, <1>5, <1>6, <1>7, <1>8, <1>9, <1>10, <1>11 DEF Next, Handles

(* Once no request is between reading a session and writing its last use,   *)
(* a revoked session stays revoked for ever.                                *)
THEOREM SettledForGood == Spec => RevocationSettles
<1>1. IInv /\ [Next]_vars => [\A s \in Session : Settled(s) => Settled(s)']_vars
  BY RecordingStep DEF IInv, Settled, vars
<1> QED
  BY <1>1, Invariance, PTL DEF Spec, RevocationSettles
=============================================================================
