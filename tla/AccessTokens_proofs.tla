-------------------------- MODULE AccessTokens_proofs --------------------------
(***************************************************************************)
(* Theorems about AccessTokens, for any number of requests that use and    *)
(* revoke the token.                                                       *)
(***************************************************************************)
EXTENDS AccessTokens, TLAPS

(* The copies that requests carry are documents, whatever is set in them.   *)
LEMMA CopyType ==
  ASSUME NEW c \in Document, NEW n \in 0..LastTick
  PROVE  /\ [c EXCEPT !.revoked = TRUE] \in Document
         /\ [c EXCEPT !.lastUsed = n] \in Document
<1>1. n \in -1..LastTick
  BY TokensAssumption
<1> QED
  BY <1>1 DEF Document

LEMMA InitInvariant == TokensInit => TokensIInv
<1> SUFFICES ASSUME TokensInit PROVE TokensIInv
  OBVIOUS
<1>1. Absent \in Document
  BY TokensAssumption DEF Absent, Document
<1>2. [pc |-> "new", copy |-> Absent, when |-> -1, late |-> FALSE] \in Request
  BY <1>1, TokensAssumption DEF Request
<1>3. TokensTypeOK
  <2>1. now \in 0..LastTick /\ claim \in 0..LastTick + Interval
    BY TokensAssumption DEF TokensInit
  <2>2. request \in [Use \cup Revoke -> Request]
    BY <1>2 DEF TokensInit
  <2> QED
    BY <1>1, <2>1, <2>2 DEF TokensInit, TokensTypeOK
<1>4. RevokedForGood /\ WritesWhatIs
  BY DEF TokensInit, RevokedForGood, WritesWhatIs, At
<1>5. UseIsRecorded
  BY TokensAssumption DEF TokensInit, UseIsRecorded
<1> QED
  BY <1>3, <1>4, <1>5 DEF TokensIInv

(* A step keeps the types.                                                  *)
LEMMA TypeStep ==
  ASSUME TokensTypeOK, [TokensNext]_tokenVars
  PROVE  TokensTypeOK'
<1> USE TokensAssumption DEF TokensTypeOK
<1>1. CASE CreatePat
  BY <1>1 DEF CreatePat, Document
<1>2. CASE \E r \in Use : AuthenticatePat(r)
  BY <1>2 DEF AuthenticatePat, Request
<1>3. CASE \E r \in Use : ShouldRecordUse(r)
  <2>1. PICK r \in Use : ShouldRecordUse(r)
    BY <1>3
  <2>2. request' \in [Use \cup Revoke -> Request]
    BY <2>1 DEF ShouldRecordUse, Asked, Request
  <2>3. claim' \in 0..LastTick + Interval
    BY <2>1 DEF ShouldRecordUse, ClaimedUntil
  <2> QED
    BY <2>1, <2>2, <2>3 DEF ShouldRecordUse
<1>4. CASE \E r \in Use : RecordUse(r)
  <2>1. PICK r \in Use : RecordUse(r)
    BY <1>4
  <2>2. pat' \in Document
    <3>1. request[r].copy \in Document
      BY DEF Request
    <3> QED
      BY <2>1, <3>1, CopyType DEF RecordUse, Recorded
  <2>3. request' \in [Use \cup Revoke -> Request]
    BY <2>1 DEF RecordUse, Step, Request
  <2> QED
    BY <2>1, <2>2, <2>3 DEF RecordUse
<1>5. CASE \E r \in Use, scope \in Granted \cup Refused : RequireScope(r, scope)
  BY <1>5 DEF RequireScope, Step, Request
<1>6. CASE \E r \in Revoke : FindPat(r)
  <2>1. PICK r \in Revoke : FindPat(r)
    BY <1>6
  <2>2. request' \in [Use \cup Revoke -> Request]
    <3> DEFINE found == [request[r] EXCEPT !.pc = IF pat.made THEN "revoke" ELSE "not_found", !.copy = pat]
    <3>1. request' = [request EXCEPT ![r] = found]
      BY <2>1 DEF FindPat
    <3>2. found \in Request
      BY DEF Request
    <3> QED
      BY <3>1, <3>2
  <2> QED
    BY <2>1, <2>2 DEF FindPat
<1>7. CASE \E r \in Revoke : RevokePat(r)
  <2>1. PICK r \in Revoke : RevokePat(r)
    BY <1>7
  <2>2. pat' \in Document
    <3>1. request[r].copy \in Document
      BY DEF Request
    <3> QED
      BY <2>1, <3>1, CopyType DEF RevokePat
  <2>3. request' \in [Use \cup Revoke -> Request]
    BY <2>1 DEF RevokePat, Step, Request
  <2>4. settled' \in BOOLEAN
    BY <2>1 DEF RevokePat
  <2> QED
    BY <2>1, <2>2, <2>3, <2>4 DEF RevokePat
<1>8. CASE \E r \in Use \cup Revoke : RequestFails(r)
  BY <1>8 DEF RequestFails, Step, Request
<1>9. CASE Passes
  BY <1>9 DEF Passes
<1>10. CASE UNCHANGED tokenVars
  BY <1>10 DEF tokenVars
<1> QED
  BY <1>1, <1>2, <1>3, <1>4, <1>5, <1>6, <1>7, <1>8, <1>9, <1>10 DEF TokensNext

(* Nothing undoes a revocation that no use overlapped.                      *)
LEMMA RevokedStep ==
  ASSUME TokensTypeOK, RevokedForGood, WritesWhatIs, [TokensNext]_tokenVars
  PROVE  RevokedForGood'
<1> USE DEF TokensTypeOK, RevokedForGood, WritesWhatIs, At, InFlight
<1>1. CASE CreatePat
  BY <1>1 DEF CreatePat, Request, Document
<1>2. CASE \E r \in Use : AuthenticatePat(r)
  BY <1>2 DEF AuthenticatePat, Usable, Request, Document
<1>3. CASE \E r \in Use : ShouldRecordUse(r)
  BY <1>3 DEF ShouldRecordUse, Asked, ClaimedUntil, Request, Document
<1>4. CASE \E r \in Use : RecordUse(r)
  BY <1>4 DEF RecordUse, Recorded, Step, Request, Document
<1>5. CASE \E r \in Use, scope \in Granted \cup Refused : RequireScope(r, scope)
  BY <1>5 DEF RequireScope, Step, Request, Document
<1>6. CASE \E r \in Revoke : FindPat(r)
  BY <1>6 DEF FindPat, Request, Document
<1>7. CASE \E r \in Revoke : RevokePat(r)
  BY <1>7 DEF RevokePat, Step, Request, Document
<1>8. CASE \E r \in Use \cup Revoke : RequestFails(r)
  BY <1>8 DEF RequestFails, Step, Request, Document
<1>9. CASE Passes
  BY <1>9 DEF Passes, Request, Document
<1>10. CASE UNCHANGED tokenVars
  BY <1>10 DEF tokenVars, Request, Document
<1> QED
  BY <1>1, <1>2, <1>3, <1>4, <1>5, <1>6, <1>7, <1>8, <1>9, <1>10 DEF TokensNext

(* Only what was made is used and written.                                  *)
LEMMA WritesStep ==
  ASSUME TokensTypeOK, WritesWhatIs, [TokensNext]_tokenVars
  PROVE  WritesWhatIs'
<1> USE TokensAssumption DEF TokensTypeOK, WritesWhatIs, At
<1>1. CASE CreatePat
  BY <1>1 DEF CreatePat, Request, Document
<1>2. CASE \E r \in Use : AuthenticatePat(r)
  BY <1>2 DEF AuthenticatePat, Usable, Request, Document
<1>3. CASE \E r \in Use : ShouldRecordUse(r)
  BY <1>3 DEF ShouldRecordUse, Asked, ClaimedUntil, Request, Document
<1>4. CASE \E r \in Use : RecordUse(r)
  BY <1>4 DEF RecordUse, Recorded, Step, Request, Document
<1>5. CASE \E r \in Use, scope \in Granted \cup Refused : RequireScope(r, scope)
  BY <1>5 DEF RequireScope, Step, Request, Document
<1>6. CASE \E r \in Revoke : FindPat(r)
  BY <1>6 DEF FindPat, Request, Document
<1>7. CASE \E r \in Revoke : RevokePat(r)
  BY <1>7 DEF RevokePat, Step, Request, Document
<1>8. CASE \E r \in Use \cup Revoke : RequestFails(r)
  BY <1>8 DEF RequestFails, Step, Request, Document
<1>9. CASE Passes
  BY <1>9 DEF Passes, Request, Document
<1>10. CASE UNCHANGED tokenVars
  BY <1>10 DEF tokenVars, Request, Document
<1> QED
  BY <1>1, <1>2, <1>3, <1>4, <1>5, <1>6, <1>7, <1>8, <1>9, <1>10 DEF TokensNext

(* Uses go on being recorded, or having somebody who will.                  *)
LEMMA RecordedStep ==
  ASSUME TokensTypeOK, WritesWhatIs, UseIsRecorded, [TokensNext]_tokenVars
  PROVE  UseIsRecorded'
<1> USE TokensAssumption DEF TokensTypeOK, WritesWhatIs, UseIsRecorded, At
<1>1. CASE CreatePat
  BY <1>1 DEF CreatePat, Request, Document, Disturbed, Recording
<1>2. CASE \E r \in Use : AuthenticatePat(r)
  BY <1>2 DEF AuthenticatePat, Usable, Request, Document, Disturbed, Recording
<1>3. CASE \E r \in Use : ShouldRecordUse(r)
  BY <1>3 DEF ShouldRecordUse, Asked, ClaimedUntil, Request, Document, Disturbed, Recording
<1>4. CASE \E r \in Use : RecordUse(r)
  BY <1>4 DEF RecordUse, Recorded, Step, Request, Document, Disturbed, Recording
<1>5. CASE \E r \in Use, scope \in Granted \cup Refused : RequireScope(r, scope)
  BY <1>5 DEF RequireScope, Step, Request, Document, Disturbed, Recording
<1>6. CASE \E r \in Revoke : FindPat(r)
  BY <1>6 DEF FindPat, Request, Document, Disturbed, Recording
<1>7. CASE \E r \in Revoke : RevokePat(r)
  BY <1>7 DEF RevokePat, Step, Request, Document, Disturbed, Recording
<1>8. CASE \E r \in Use \cup Revoke : RequestFails(r)
  BY <1>8 DEF RequestFails, Step, Request, Document, Disturbed, Recording
<1>9. CASE Passes
  BY <1>9 DEF Passes, Request, Document, Disturbed, Recording
<1>10. CASE UNCHANGED tokenVars
  BY <1>10 DEF tokenVars, Request, Document, Disturbed, Recording
<1> QED
  BY <1>1, <1>2, <1>3, <1>4, <1>5, <1>6, <1>7, <1>8, <1>9, <1>10 DEF TokensNext

(* The invariant is inductive.                                              *)
THEOREM Invariance == TokensSpec => []TokensIInv
<1>1. TokensIInv /\ [TokensNext]_tokenVars => TokensIInv'
  BY TypeStep, RevokedStep, WritesStep, RecordedStep DEF TokensIInv
<1> QED
  BY <1>1, InitInvariant, PTL DEF TokensSpec

(* A revocation that no use overlaps is final: the token stays revoked and  *)
(* serves nobody who comes later, whichever requests write it afterwards.   *)
THEOREM RevocationFinal == TokensSpec => []RevocationIsFinal
<1>1. TokensIInv => RevocationIsFinal
  BY DEF TokensIInv, RevokedForGood, RevocationIsFinal, At
<1> QED
  BY <1>1, Invariance, PTL

(* What a token says of its last use is no older than an interval, once     *)
(* every write has got through.                                             *)
THEOREM Recent == TokensSpec => []UseIsRecent
<1>1. TokensIInv => UseIsRecent
  BY DEF TokensIInv, UseIsRecorded, UseIsRecent, Disturbed, Recording, At
<1> QED
  BY <1>1, Invariance, PTL

(* Both, for every number of requests.                                      *)
THEOREM Sound == TokensSpec => []TokensSound
<1>1. TokensIInv => TokensTypeOK
  BY DEF TokensIInv
<1> QED
  BY <1>1, Invariance, RevocationFinal, Recent, PTL DEF TokensSound
=============================================================================
