--------------------------- MODULE OAuthGrants_proofs ---------------------------
(***************************************************************************)
(* Theorems about OAuthGrants, for any number of requests and clients.     *)
(***************************************************************************)
EXTENDS OAuthGrants, FiniteSetTheorems, TLAPS

-----------------------------------------------------------------------------
(* Collections of documents: what is stored, taken out and found.           *)
LEMMA Collections ==
  ASSUME NEW S, NEW f, f \in [DOMAIN f -> S], NEW x, NEW v \in S
  PROVE  /\ DOMAIN With(f, x, v) = DOMAIN f \cup {x}
         /\ With(f, x, v) \in [DOMAIN f \cup {x} -> S]
         /\ DOMAIN Without(f, x) = DOMAIN f \ {x}
         /\ Without(f, x) \in [DOMAIN f \ {x} -> S]
BY DEF With, Without

LEMMA FoundType ==
  ASSUME NEW S, NEW f, f \in [DOMAIN f -> S], NEW x
  PROVE  Found(f, x) \in S \cup {Missing}
BY DEF Found

(* A request that goes on is one.                                           *)
LEMMA AskingType ==
  ASSUME NEW a \in Asking,
         NEW p \in {"redirect", "check", "subject", "answer", "done", "login", "invalid", "failed"}
  PROVE  [a EXCEPT !.pc = p] \in Asking
BY DEF Asking

LEMMA UpdateType ==
  ASSUME NEW a \in Asking, NEW c \in Client \cup {"none"}, NEW p \in {"invalid", "redirect", "login"},
         NEW k \in AllRequests, NEW n \in 0..EndOfTime, NEW d \in Code \cup Token \cup {Missing}
  PROVE  /\ [a EXCEPT !.client = c, !.pc = p] \in Asking
         /\ [a EXCEPT !.pc = "done", !.presents = k, !.at = n, !.found = d] \in Asking
<1>1. k \in AllRequests \cup {"none"}
  OBVIOUS
<1> QED
  BY <1>1 DEF Asking

LEMMA AccessLifeType == AccessLife \in Nat
BY GrantsAssumption


(* A step keeps the types.                                                  *)
LEMMA TypeStep ==
  ASSUME GrantsTypeOK, GoesOn, [GrantsNext]_grantVars
  PROVE  GrantsTypeOK'
<1> USE GrantsAssumption DEF GrantsTypeOK, AllRequests
<1>1. CASE \E r \in Authorization, c \in Client, s \in BOOLEAN : Authorize(r, c, s)
  <2>1. PICK r \in Authorization, c \in Client, s \in BOOLEAN : Authorize(r, c, s)
    BY <1>1
  <2> DEFINE p == IF c \notin Registered THEN "invalid" ELSE IF s THEN "redirect" ELSE "login"
             a == [asked[r] EXCEPT !.client = c, !.pc = p]
  <2>2. asked' \in [AllRequests -> Asking]
    <3>1. asked' = [asked EXCEPT ![r] = a]
      BY <2>1 DEF Authorize
    <3>2. p \in {"invalid", "redirect", "login"} /\ c \in Client \cup {"none"}
      OBVIOUS
    <3>3. a \in Asking
      BY <3>2, UpdateType
    <3> QED
      BY <3>1, <3>3
  <2>3. DOMAIN auth_codes' \subseteq Authorization /\ auth_codes' \in [DOMAIN auth_codes' -> Code]
    <3> DEFINE d == [grant |-> r, client |-> c, expires |-> time + CodeLife]
    <3>1. CASE c \in Registered /\ s
      <4>1. d \in Code
        BY <3>1 DEF Code
      <4>2. auth_codes' = With(auth_codes, r, d)
        BY <2>1, <3>1 DEF Authorize
      <4>3. DOMAIN With(auth_codes, r, d) = DOMAIN auth_codes \cup {r} /\ With(auth_codes, r, d) \in [DOMAIN auth_codes \cup {r} -> Code]
        BY <4>1 DEF With
      <4> QED
        BY <4>2, <4>3
    <3>2. CASE ~(c \in Registered /\ s)
      BY <2>1, <3>2 DEF Authorize
    <3> QED
      BY <3>1, <3>2
  <2> QED
    BY <2>1, <2>2, <2>3 DEF Authorize
<1>2. CASE \E r \in Authorization : Redirects(r)
  <2>1. PICK r \in Authorization : Redirects(r)
    BY <1>2
  <2>2. asked' \in [AllRequests -> Asking]
    BY <2>1, AskingType DEF Redirects, Reaches
  <2> QED
    BY <2>1, <2>2 DEF Redirects
<1>3. CASE \E r \in Exchange, k \in Authorization, c \in Registered : ExchangeCode(r, k, c)
  <2>1. PICK r \in Exchange, k \in Authorization, c \in Registered : ExchangeCode(r, k, c)
    BY <1>3
  <2> DEFINE a == [pc |-> "check", client |-> c, presents |-> k, found |-> Found(auth_codes, k), at |-> 0]
  <2>2. asked' \in [AllRequests -> Asking]
    <3>1. c \in Client /\ 0 \in 0..EndOfTime /\ Found(auth_codes, k) \in Code \cup Token \cup {Missing}
      BY FoundType
    <3>2. a \in Asking
      BY <3>1 DEF Asking
    <3> QED
      BY <2>1, <3>2 DEF ExchangeCode
  <2>3. DOMAIN auth_codes' \subseteq Authorization /\ auth_codes' \in [DOMAIN auth_codes' -> Code]
    BY <2>1 DEF ExchangeCode, Consumed, Without
  <2> QED
    BY <2>1, <2>2, <2>3 DEF ExchangeCode
<1>4. CASE \E r \in Refresh, k \in Exchange \cup Refresh, c \in Registered : RefreshToken(r, k, c)
  <2>1. PICK r \in Refresh, k \in Exchange \cup Refresh, c \in Registered : RefreshToken(r, k, c)
    BY <1>4
  <2> DEFINE a == [pc |-> "check", client |-> c, presents |-> k, found |-> Found(refresh_tokens, k), at |-> 0]
  <2>2. asked' \in [AllRequests -> Asking]
    <3>1. c \in Client /\ 0 \in 0..EndOfTime /\ Found(refresh_tokens, k) \in Code \cup Token \cup {Missing}
      BY FoundType
    <3>2. a \in Asking
      BY <3>1 DEF Asking
    <3> QED
      BY <2>1, <3>2 DEF RefreshToken
  <2>3. DOMAIN refresh_tokens' \subseteq Exchange \cup Refresh /\ refresh_tokens' \in [DOMAIN refresh_tokens' -> Token]
    BY <2>1 DEF RefreshToken, Consumed, Without
  <2> QED
    BY <2>1, <2>2, <2>3 DEF RefreshToken
<1>5. CASE \E r \in Exchange \cup Refresh, p \in BOOLEAN : Check(r, p)
  <2>1. PICK r \in Exchange \cup Refresh, p \in BOOLEAN : Check(r, p)
    BY <1>5
  <2>2. asked' \in [AllRequests -> Asking]
    <3>1. asked' = [asked EXCEPT ![r].pc = "subject"] \/ asked' = [asked EXCEPT ![r].pc = "invalid"]
      BY <2>1 DEF Check, Reaches
    <3>2. [asked[r] EXCEPT !.pc = "subject"] \in Asking /\ [asked[r] EXCEPT !.pc = "invalid"] \in Asking
      BY AskingType
    <3> QED
      BY <3>1, <3>2
  <2> QED
    BY <2>1, <2>2 DEF Check
<1>6. CASE \E r \in Exchange \cup Refresh : CreateRefreshToken(r)
  <2>1. PICK r \in Exchange \cup Refresh : CreateRefreshToken(r)
    BY <1>6
  <2>2. asked' \in [AllRequests -> Asking]
    BY <2>1, AskingType DEF CreateRefreshToken, Reaches
  <2>3. Successor(asked[r].found) \in Token
    <3>1. asked[r].found \in Code \cup Token
      BY <2>1 DEF CreateRefreshToken, GoesOn, Asking
    <3> QED
      BY <3>1 DEF Successor, Code, Token
  <2>4. /\ DOMAIN refresh_tokens' \subseteq Exchange \cup Refresh
        /\ refresh_tokens' \in [DOMAIN refresh_tokens' -> Token]
    <3> DEFINE d == Successor(asked[r].found)
    <3>1. /\ DOMAIN With(refresh_tokens, r, d) = DOMAIN refresh_tokens \cup {r}
          /\ With(refresh_tokens, r, d) \in [DOMAIN refresh_tokens \cup {r} -> Token]
      BY <2>3 DEF With
    <3> QED
      BY <2>1, <3>1 DEF CreateRefreshToken
  <2> QED
    BY <2>1, <2>2, <2>4 DEF CreateRefreshToken
<1>7. CASE \E r \in Exchange \cup Refresh : Answer(r)
  <2>1. PICK r \in Exchange \cup Refresh : Answer(r)
    BY <1>7
  <2> DEFINE t == [grant |-> asked[r].found.grant, by |-> r, for |-> asked[r].client, expires |-> time + AccessLife]
  <2>2. asked' \in [AllRequests -> Asking]
    BY <2>1, AskingType DEF Answer, Reaches
  <2>3. t \in Access
    <3>1. asked[r].found \in Code \cup Token /\ asked[r].client = asked[r].found.client
      BY <2>1 DEF Answer, GoesOn, Asking
    <3>2. asked[r].found.grant \in Authorization /\ asked[r].client \in Client
      BY <3>1 DEF Code, Token
    <3> QED
      BY <3>2 DEF Access
  <2> QED
    BY <2>1, <2>2, <2>3 DEF Answer
<1>8. CASE \E r \in Revocation, k \in Exchange \cup Refresh : Revokes(r, k)
  <2>1. PICK r \in Revocation, k \in Exchange \cup Refresh : Revokes(r, k)
    BY <1>8
  <2> DEFINE a == [asked[r] EXCEPT !.pc = "done", !.presents = k, !.at = time, !.found = Found(refresh_tokens, k)]
  <2>2. asked' \in [AllRequests -> Asking]
    <3>1. Found(refresh_tokens, k) \in Code \cup Token \cup {Missing}
      BY FoundType
    <3>2. a \in Asking
      BY <3>1, UpdateType
    <3>3. asked' = [asked EXCEPT ![r] = a]
      BY <2>1 DEF Revokes
    <3> QED
      BY <3>2, <3>3
  <2>3. DOMAIN refresh_tokens' \subseteq Exchange \cup Refresh /\ refresh_tokens' \in [DOMAIN refresh_tokens' -> Token]
    BY <2>1 DEF Revokes, Consumed, Without
  <2> QED
    BY <2>1, <2>2, <2>3 DEF Revokes
<1>9. CASE \E r \in AllRequests : GrantFails(r)
  <2>1. PICK r \in AllRequests : GrantFails(r)
    BY <1>9
  <2>2. asked' \in [AllRequests -> Asking]
    BY <2>1, AskingType DEF GrantFails, Reaches
  <2> QED
    BY <2>1, <2>2 DEF GrantFails
<1>10. CASE Later
  BY <1>10 DEF Later
<1>11. CASE UNCHANGED grantVars
  BY <1>11 DEF grantVars
<1> QED
  BY <1>1, <1>2, <1>3, <1>4, <1>5, <1>6, <1>7, <1>8, <1>9, <1>10, <1>11 DEF GrantsNext

(* Requests go on with what they found.                                     *)
LEMMA GoesOnStep ==
  ASSUME GrantsTypeOK, GoesOn, ConsumedOnce, [GrantsNext]_grantVars
  PROVE  GoesOn'
<1> USE GrantsAssumption DEF GrantsTypeOK, AllRequests, GoesOn, ConsumedOnce
<1>1. CASE \E r \in Authorization, c \in Client, s \in BOOLEAN : Authorize(r, c, s)
  <2>1. PICK r \in Authorization, c \in Client, s \in BOOLEAN : Authorize(r, c, s)
    BY <1>1
  <2> QED
    BY <2>1 DEF Authorize, With, Asking
<1>2. CASE \E r \in Authorization : Redirects(r)
  <2>1. PICK r \in Authorization : Redirects(r)
    BY <1>2
  <2> QED
    BY <2>1 DEF Redirects, Reaches, Asking
<1>3. CASE \E r \in Exchange, k \in Authorization, c \in Registered : ExchangeCode(r, k, c)
  <2>1. PICK r \in Exchange, k \in Authorization, c \in Registered : ExchangeCode(r, k, c)
    BY <1>3
  <2> QED
    BY <2>1 DEF ExchangeCode, Found, Consumed, Without, Delivered, Asking
<1>4. CASE \E r \in Refresh, k \in Exchange \cup Refresh, c \in Registered : RefreshToken(r, k, c)
  <2>1. PICK r \in Refresh, k \in Exchange \cup Refresh, c \in Registered : RefreshToken(r, k, c)
    BY <1>4
  <2> QED
    BY <2>1 DEF RefreshToken, Found, Consumed, Without, Delivered, Asking
<1>5. CASE \E r \in Exchange \cup Refresh, p \in BOOLEAN : Check(r, p)
  <2>1. PICK r \in Exchange \cup Refresh, p \in BOOLEAN : Check(r, p)
    BY <1>5
  <2> QED
    BY <2>1 DEF Check, Reaches, Valid, Asking
<1>6. CASE \E r \in Exchange \cup Refresh : CreateRefreshToken(r)
  <2>1. PICK r \in Exchange \cup Refresh : CreateRefreshToken(r)
    BY <1>6
  <2> QED
    BY <2>1 DEF CreateRefreshToken, Reaches, With, Successor, Asking
<1>7. CASE \E r \in Exchange \cup Refresh : Answer(r)
  <2>1. PICK r \in Exchange \cup Refresh : Answer(r)
    BY <1>7
  <2> QED
    BY <2>1 DEF Answer, Reaches, Asking
<1>8. CASE \E r \in Revocation, k \in Exchange \cup Refresh : Revokes(r, k)
  <2>1. PICK r \in Revocation, k \in Exchange \cup Refresh : Revokes(r, k)
    BY <1>8
  <2> QED
    BY <2>1 DEF Revokes, Found, Consumed, Without, Delivered, Asking
<1>9. CASE \E r \in AllRequests : GrantFails(r)
  <2>1. PICK r \in AllRequests : GrantFails(r)
    BY <1>9
  <2> QED
    BY <2>1 DEF GrantFails, Reaches, Asking
<1>10. CASE Later
  BY <1>10 DEF Later, Asking
<1>11. CASE UNCHANGED grantVars
  BY <1>11 DEF grantVars, Asking
<1> QED
  BY <1>1, <1>2, <1>3, <1>4, <1>5, <1>6, <1>7, <1>8, <1>9, <1>10, <1>11 DEF GrantsNext

(* What was presented stays consumed, by one request.                       *)
LEMMA ConsumedStep ==
  ASSUME GrantsTypeOK, GoesOn, ConsumedOnce, [GrantsNext]_grantVars
  PROVE  ConsumedOnce'
<1> USE GrantsAssumption DEF GrantsTypeOK, AllRequests, GoesOn, ConsumedOnce
<1>1. CASE \E r \in Authorization, c \in Client, s \in BOOLEAN : Authorize(r, c, s)
  <2>1. PICK r \in Authorization, c \in Client, s \in BOOLEAN : Authorize(r, c, s)
    BY <1>1
  <2> QED
    BY <2>1 DEF Authorize, With, Asking
<1>2. CASE \E r \in Authorization : Redirects(r)
  <2>1. PICK r \in Authorization : Redirects(r)
    BY <1>2
  <2> QED
    BY <2>1 DEF Redirects, Reaches, Asking
<1>3. CASE \E r \in Exchange, k \in Authorization, c \in Registered : ExchangeCode(r, k, c)
  <2>1. PICK r \in Exchange, k \in Authorization, c \in Registered : ExchangeCode(r, k, c)
    BY <1>3
  <2> QED
    BY <2>1 DEF ExchangeCode, Found, Consumed, Without, Delivered, Asking
<1>4. CASE \E r \in Refresh, k \in Exchange \cup Refresh, c \in Registered : RefreshToken(r, k, c)
  <2>1. PICK r \in Refresh, k \in Exchange \cup Refresh, c \in Registered : RefreshToken(r, k, c)
    BY <1>4
  <2> QED
    BY <2>1 DEF RefreshToken, Found, Consumed, Without, Delivered, Asking
<1>5. CASE \E r \in Exchange \cup Refresh, p \in BOOLEAN : Check(r, p)
  <2>1. PICK r \in Exchange \cup Refresh, p \in BOOLEAN : Check(r, p)
    BY <1>5
  <2> QED
    BY <2>1 DEF Check, Reaches, Valid, Asking
<1>6. CASE \E r \in Exchange \cup Refresh : CreateRefreshToken(r)
  <2>1. PICK r \in Exchange \cup Refresh : CreateRefreshToken(r)
    BY <1>6
  <2> QED
    BY <2>1 DEF CreateRefreshToken, Reaches, With, Successor, Asking
<1>7. CASE \E r \in Exchange \cup Refresh : Answer(r)
  <2>1. PICK r \in Exchange \cup Refresh : Answer(r)
    BY <1>7
  <2> QED
    BY <2>1 DEF Answer, Reaches, Asking
<1>8. CASE \E r \in Revocation, k \in Exchange \cup Refresh : Revokes(r, k)
  <2>1. PICK r \in Revocation, k \in Exchange \cup Refresh : Revokes(r, k)
    BY <1>8
  <2>2. /\ \A q \in AllRequests : q # r => asked'[q] = asked[q]
        /\ asked'[r].presents = k /\ asked'[r].pc = "done" /\ asked'[r].found = Found(refresh_tokens, k)
    BY <2>1 DEF Revokes, Asking
  <2>3. auth_codes' = auth_codes /\ DOMAIN refresh_tokens' = DOMAIN refresh_tokens \ {k}
    BY <2>1 DEF Revokes, Consumed, Without
  <2>4. asked[k].pc = "done" /\ asked[r].pc = "new" /\ k # r /\ k \notin DOMAIN auth_codes
    BY <2>1 DEF Revokes, Delivered
  <2>5. k \notin DOMAIN refresh_tokens => asked'[r].found = Missing
    BY <2>2 DEF Found
  <2> SUFFICES ASSUME NEW q \in AllRequests, asked'[q].presents # "none", NEW l, l = asked'[q].presents
                PROVE  /\ asked'[l].pc = "done" /\ l \notin (DOMAIN auth_codes \cup DOMAIN refresh_tokens)'
                       /\ asked'[q].pc # "new"
                       /\ \A o \in AllRequests :
                            asked'[o].presents = l /\ asked'[q].found # Missing /\ asked'[o].found # Missing => o = q
    OBVIOUS
  <2>6. CASE q = r
    BY <2>2, <2>3, <2>4, <2>5, <2>6
  <2>7. CASE q # r
    <3>1. asked[q].presents = l /\ asked[l].pc = "done" /\ l # r /\ l \in AllRequests
      BY <2>2, <2>4, <2>7 DEF Asking
    <3>2. l \notin (DOMAIN auth_codes \cup DOMAIN refresh_tokens)' /\ asked'[l].pc = "done"
      BY <2>2, <2>3, <2>7, <3>1
    <3>3. ASSUME NEW o \in AllRequests, asked'[o].presents = l, asked'[q].found # Missing, asked'[o].found # Missing
          PROVE  o = q
      BY <2>2, <2>5, <2>7, <3>1, <3>3
    <3> QED
      BY <2>2, <2>7, <3>1, <3>2, <3>3
  <2> QED
    BY <2>6, <2>7
<1>9. CASE \E r \in AllRequests : GrantFails(r)
  <2>1. PICK r \in AllRequests : GrantFails(r)
    BY <1>9
  <2> QED
    BY <2>1 DEF GrantFails, Reaches, Asking
<1>10. CASE Later
  BY <1>10 DEF Later, Asking
<1>11. CASE UNCHANGED grantVars
  BY <1>11 DEF grantVars, Asking
<1> QED
  BY <1>1, <1>2, <1>3, <1>4, <1>5, <1>6, <1>7, <1>8, <1>9, <1>10, <1>11 DEF GrantsNext

(* What is held for a grant stays its client's.                             *)
LEMMA AuthorizedStep ==
  ASSUME GrantsTypeOK, GoesOn, AllAuthorized, [GrantsNext]_grantVars
  PROVE  AllAuthorized'
<1> USE GrantsAssumption DEF GrantsTypeOK, AllRequests, GoesOn, AllAuthorized, Authorized
<1>1. CASE \E r \in Authorization, c \in Client, s \in BOOLEAN : Authorize(r, c, s)
  <2>1. PICK r \in Authorization, c \in Client, s \in BOOLEAN : Authorize(r, c, s)
    BY <1>1
  <2> QED
    BY <2>1 DEF Authorize, With, Asking
<1>2. CASE \E r \in Authorization : Redirects(r)
  <2>1. PICK r \in Authorization : Redirects(r)
    BY <1>2
  <2> QED
    BY <2>1 DEF Redirects, Reaches, Asking
<1>3. CASE \E r \in Exchange, k \in Authorization, c \in Registered : ExchangeCode(r, k, c)
  <2>1. PICK r \in Exchange, k \in Authorization, c \in Registered : ExchangeCode(r, k, c)
    BY <1>3
  <2> QED
    BY <2>1 DEF ExchangeCode, Found, Consumed, Without, Delivered, Asking
<1>4. CASE \E r \in Refresh, k \in Exchange \cup Refresh, c \in Registered : RefreshToken(r, k, c)
  <2>1. PICK r \in Refresh, k \in Exchange \cup Refresh, c \in Registered : RefreshToken(r, k, c)
    BY <1>4
  <2> QED
    BY <2>1 DEF RefreshToken, Found, Consumed, Without, Delivered, Asking
<1>5. CASE \E r \in Exchange \cup Refresh, p \in BOOLEAN : Check(r, p)
  <2>1. PICK r \in Exchange \cup Refresh, p \in BOOLEAN : Check(r, p)
    BY <1>5
  <2> QED
    BY <2>1 DEF Check, Reaches, Valid, Asking
<1>6. CASE \E r \in Exchange \cup Refresh : CreateRefreshToken(r)
  <2>1. PICK r \in Exchange \cup Refresh : CreateRefreshToken(r)
    BY <1>6
  <2> QED
    BY <2>1 DEF CreateRefreshToken, Reaches, With, Successor, Asking
<1>7. CASE \E r \in Exchange \cup Refresh : Answer(r)
  <2>1. PICK r \in Exchange \cup Refresh : Answer(r)
    BY <1>7
  <2> QED
    BY <2>1 DEF Answer, Reaches, Asking
<1>8. CASE \E r \in Revocation, k \in Exchange \cup Refresh : Revokes(r, k)
  <2>1. PICK r \in Revocation, k \in Exchange \cup Refresh : Revokes(r, k)
    BY <1>8
  <2>2. \A q \in AllRequests : q # r => asked'[q] = asked[q]
    BY <2>1 DEF Revokes
  <2>3. asked'[r].found = Found(refresh_tokens, k)
    BY <2>1 DEF Revokes, Asking
  <2>4. /\ auth_codes' = auth_codes /\ access' = access /\ DOMAIN refresh_tokens' = DOMAIN refresh_tokens \ {k}
        /\ \A x \in DOMAIN refresh_tokens' : refresh_tokens'[x] = refresh_tokens[x]
    BY <2>1 DEF Revokes, Consumed, Without
  <2>5. \A d \in Code \cup Token : Authorized(d) => Authorized(d)'
    BY <2>2 DEF Code, Token
  <2>6. \A q \in AllRequests : asked'[q].found # Missing => Authorized(asked'[q].found)
    BY <2>2, <2>3 DEF Found, Asking
  <2>7. \A q \in AllRequests : asked'[q].found \in Code \cup Token \cup {Missing}
    BY <2>2, <2>3, FoundType DEF Asking
  <2> QED
    BY <2>1, <2>2, <2>4, <2>5, <2>6, <2>7 DEF Access
<1>9. CASE \E r \in AllRequests : GrantFails(r)
  <2>1. PICK r \in AllRequests : GrantFails(r)
    BY <1>9
  <2> QED
    BY <2>1 DEF GrantFails, Reaches, Asking
<1>10. CASE Later
  BY <1>10 DEF Later, Asking
<1>11. CASE UNCHANGED grantVars
  BY <1>11 DEF grantVars, Asking
<1> QED
  BY <1>1, <1>2, <1>3, <1>4, <1>5, <1>6, <1>7, <1>8, <1>9, <1>10, <1>11 DEF GrantsNext

(* A grant stays in one place.                                              *)
LEMMA PlaceStep ==
  ASSUME GrantsTypeOK, GoesOn, AllAuthorized, InOnePlace, [GrantsNext]_grantVars
  PROVE  InOnePlace'
<1> USE GrantsAssumption DEF GrantsTypeOK, AllRequests, GoesOn, AllAuthorized, Authorized, InOnePlace, Holds
<1>1. CASE \E r \in Authorization, c \in Client, s \in BOOLEAN : Authorize(r, c, s)
  <2>1. PICK r \in Authorization, c \in Client, s \in BOOLEAN : Authorize(r, c, s)
    BY <1>1
  <2> QED
    BY <2>1 DEF Authorize, With, Asking
<1>2. CASE \E r \in Authorization : Redirects(r)
  <2>1. PICK r \in Authorization : Redirects(r)
    BY <1>2
  <2> QED
    BY <2>1 DEF Redirects, Reaches, Asking
<1>3. CASE \E r \in Exchange, k \in Authorization, c \in Registered : ExchangeCode(r, k, c)
  <2>1. PICK r \in Exchange, k \in Authorization, c \in Registered : ExchangeCode(r, k, c)
    BY <1>3
  <2> QED
    BY <2>1 DEF ExchangeCode, Found, Consumed, Without, Delivered, Asking
<1>4. CASE \E r \in Refresh, k \in Exchange \cup Refresh, c \in Registered : RefreshToken(r, k, c)
  <2>1. PICK r \in Refresh, k \in Exchange \cup Refresh, c \in Registered : RefreshToken(r, k, c)
    BY <1>4
  <2> QED
    BY <2>1 DEF RefreshToken, Found, Consumed, Without, Delivered, Asking
<1>5. CASE \E r \in Exchange \cup Refresh, p \in BOOLEAN : Check(r, p)
  <2>1. PICK r \in Exchange \cup Refresh, p \in BOOLEAN : Check(r, p)
    BY <1>5
  <2> QED
    BY <2>1 DEF Check, Reaches, Valid, Asking
<1>6. CASE \E r \in Exchange \cup Refresh : CreateRefreshToken(r)
  <2>1. PICK r \in Exchange \cup Refresh : CreateRefreshToken(r)
    BY <1>6
  <2> QED
    BY <2>1 DEF CreateRefreshToken, Reaches, With, Successor, Asking
<1>7. CASE \E r \in Exchange \cup Refresh : Answer(r)
  <2>1. PICK r \in Exchange \cup Refresh : Answer(r)
    BY <1>7
  <2> QED
    BY <2>1 DEF Answer, Reaches, Asking
<1>8. CASE \E r \in Revocation, k \in Exchange \cup Refresh : Revokes(r, k)
  <2>1. PICK r \in Revocation, k \in Exchange \cup Refresh : Revokes(r, k)
    BY <1>8
  <2> QED
    BY <2>1 DEF Revokes, Found, Consumed, Without, Delivered, Asking
<1>9. CASE \E r \in AllRequests : GrantFails(r)
  <2>1. PICK r \in AllRequests : GrantFails(r)
    BY <1>9
  <2> QED
    BY <2>1 DEF GrantFails, Reaches, Asking
<1>10. CASE Later
  BY <1>10 DEF Later, Asking
<1>11. CASE UNCHANGED grantVars
  BY <1>11 DEF grantVars, Asking
<1> QED
  BY <1>1, <1>2, <1>3, <1>4, <1>5, <1>6, <1>7, <1>8, <1>9, <1>10, <1>11 DEF GrantsNext

(* Nothing is signed for a grant after its revocation.                      *)
LEMMA SignedStep ==
  ASSUME GrantsTypeOK, GoesOn, InOnePlace, SignedBefore, [GrantsNext]_grantVars
  PROVE  SignedBefore'
<1> USE GrantsAssumption DEF GrantsTypeOK, AllRequests, GoesOn, InOnePlace, Holds, SignedBefore
<1>1. CASE \E r \in Authorization, c \in Client, s \in BOOLEAN : Authorize(r, c, s)
  <2>1. PICK r \in Authorization, c \in Client, s \in BOOLEAN : Authorize(r, c, s)
    BY <1>1
  <2> QED
    BY <2>1, AccessLifeType DEF Authorize, With, Asking, Access
<1>2. CASE \E r \in Authorization : Redirects(r)
  <2>1. PICK r \in Authorization : Redirects(r)
    BY <1>2
  <2> QED
    BY <2>1, AccessLifeType DEF Redirects, Reaches, Asking, Access
<1>3. CASE \E r \in Exchange, k \in Authorization, c \in Registered : ExchangeCode(r, k, c)
  <2>1. PICK r \in Exchange, k \in Authorization, c \in Registered : ExchangeCode(r, k, c)
    BY <1>3
  <2> QED
    BY <2>1, AccessLifeType DEF ExchangeCode, Found, Consumed, Without, Delivered, Asking,
       Access
<1>4. CASE \E r \in Refresh, k \in Exchange \cup Refresh, c \in Registered : RefreshToken(r, k, c)
  <2>1. PICK r \in Refresh, k \in Exchange \cup Refresh, c \in Registered : RefreshToken(r, k, c)
    BY <1>4
  <2> QED
    BY <2>1, AccessLifeType DEF RefreshToken, Found, Consumed, Without, Delivered, Asking,
       Access
<1>5. CASE \E r \in Exchange \cup Refresh, p \in BOOLEAN : Check(r, p)
  <2>1. PICK r \in Exchange \cup Refresh, p \in BOOLEAN : Check(r, p)
    BY <1>5
  <2> QED
    BY <2>1, AccessLifeType DEF Check, Reaches, Valid, Asking, Access
<1>6. CASE \E r \in Exchange \cup Refresh : CreateRefreshToken(r)
  <2>1. PICK r \in Exchange \cup Refresh : CreateRefreshToken(r)
    BY <1>6
  <2> QED
    BY <2>1, AccessLifeType DEF CreateRefreshToken, Reaches, With, Successor, Asking, Access
<1>7. CASE \E r \in Exchange \cup Refresh : Answer(r)
  <2>1. PICK r \in Exchange \cup Refresh : Answer(r)
    BY <1>7
  <2> DEFINE t == [grant |-> asked[r].found.grant, by |-> r, for |-> asked[r].client, expires |-> time + AccessLife]
  <2>2. /\ \A q \in AllRequests : asked'[q].found = asked[q].found /\ asked'[q].at = asked[q].at
        /\ access' = access \cup {t} /\ time' = time
    BY <2>1 DEF Answer, Reaches, Asking
  <2>3. \A q \in Revocation : asked[q].found # Missing => asked[q].found.grant # t.grant
    <3>1. asked[r].found.grant \in Authorization
      BY <2>1 DEF Answer, Asking, Code, Token
    <3>2. Holds("token", r, asked[r].found.grant)
      BY <2>1 DEF Answer
    <3>3. \A q \in Revocation : ~Holds("request", q, asked[r].found.grant)
      BY <3>1, <3>2
    <3> QED
      BY <3>3
  <2>4. t.expires <= time + AccessLife
    BY AccessLifeType
  <2> QED
    BY <2>2, <2>3, <2>4
<1>8. CASE \E r \in Revocation, k \in Exchange \cup Refresh : Revokes(r, k)
  <2>1. PICK r \in Revocation, k \in Exchange \cup Refresh : Revokes(r, k)
    BY <1>8
  <2> QED
    BY <2>1, AccessLifeType DEF Revokes, Found, Consumed, Without, Delivered, Asking, Access
<1>9. CASE \E r \in AllRequests : GrantFails(r)
  <2>1. PICK r \in AllRequests : GrantFails(r)
    BY <1>9
  <2> QED
    BY <2>1, AccessLifeType DEF GrantFails, Reaches, Asking, Access
<1>10. CASE Later
  BY <1>10, AccessLifeType DEF Later, Asking, Access
<1>11. CASE UNCHANGED grantVars
  BY <1>11, AccessLifeType DEF grantVars, Asking, Access
<1> QED
  BY <1>1, <1>2, <1>3, <1>4, <1>5, <1>6, <1>7, <1>8, <1>9, <1>10, <1>11 DEF GrantsNext

(* Access tokens stay those of the client that was authorized.              *)
LEMMA BoundStep ==
  ASSUME GrantsTypeOK, GoesOn, AllAuthorized, BoundToClient, [GrantsNext]_grantVars
  PROVE  BoundToClient'
<1> USE GrantsAssumption DEF GrantsTypeOK, AllRequests, GoesOn, AllAuthorized, Authorized, BoundToClient
<1>1. CASE \E r \in Authorization, c \in Client, s \in BOOLEAN : Authorize(r, c, s)
  <2>1. PICK r \in Authorization, c \in Client, s \in BOOLEAN : Authorize(r, c, s)
    BY <1>1
  <2> QED
    BY <2>1 DEF Authorize, With, Asking
<1>2. CASE \E r \in Authorization : Redirects(r)
  <2>1. PICK r \in Authorization : Redirects(r)
    BY <1>2
  <2> QED
    BY <2>1 DEF Redirects, Reaches, Asking
<1>3. CASE \E r \in Exchange, k \in Authorization, c \in Registered : ExchangeCode(r, k, c)
  <2>1. PICK r \in Exchange, k \in Authorization, c \in Registered : ExchangeCode(r, k, c)
    BY <1>3
  <2> QED
    BY <2>1 DEF ExchangeCode, Found, Consumed, Without, Delivered, Asking
<1>4. CASE \E r \in Refresh, k \in Exchange \cup Refresh, c \in Registered : RefreshToken(r, k, c)
  <2>1. PICK r \in Refresh, k \in Exchange \cup Refresh, c \in Registered : RefreshToken(r, k, c)
    BY <1>4
  <2> QED
    BY <2>1 DEF RefreshToken, Found, Consumed, Without, Delivered, Asking
<1>5. CASE \E r \in Exchange \cup Refresh, p \in BOOLEAN : Check(r, p)
  <2>1. PICK r \in Exchange \cup Refresh, p \in BOOLEAN : Check(r, p)
    BY <1>5
  <2> QED
    BY <2>1 DEF Check, Reaches, Valid, Asking
<1>6. CASE \E r \in Exchange \cup Refresh : CreateRefreshToken(r)
  <2>1. PICK r \in Exchange \cup Refresh : CreateRefreshToken(r)
    BY <1>6
  <2> QED
    BY <2>1 DEF CreateRefreshToken, Reaches, With, Successor, Asking
<1>7. CASE \E r \in Exchange \cup Refresh : Answer(r)
  <2>1. PICK r \in Exchange \cup Refresh : Answer(r)
    BY <1>7
  <2> QED
    BY <2>1 DEF Answer, Reaches, Asking
<1>8. CASE \E r \in Revocation, k \in Exchange \cup Refresh : Revokes(r, k)
  <2>1. PICK r \in Revocation, k \in Exchange \cup Refresh : Revokes(r, k)
    BY <1>8
  <2>2. \A q \in Authorization : asked'[q] = asked[q]
    BY <2>1 DEF Revokes
  <2> QED
    BY <2>1, <2>2 DEF Revokes, Access
<1>9. CASE \E r \in AllRequests : GrantFails(r)
  <2>1. PICK r \in AllRequests : GrantFails(r)
    BY <1>9
  <2> QED
    BY <2>1 DEF GrantFails, Reaches, Asking
<1>10. CASE Later
  BY <1>10 DEF Later, Asking
<1>11. CASE UNCHANGED grantVars
  BY <1>11 DEF grantVars, Asking
<1> QED
  BY <1>1, <1>2, <1>3, <1>4, <1>5, <1>6, <1>7, <1>8, <1>9, <1>10, <1>11 DEF GrantsNext

-----------------------------------------------------------------------------
(* The invariant.                                                           *)
LEMMA InitInvariant == GrantsInit => GrantsIInv
<1> USE GrantsAssumption DEF AllRequests
<1> SUFFICES ASSUME GrantsInit PROVE GrantsIInv
  OBVIOUS
<1>1. DOMAIN auth_codes = {} /\ DOMAIN refresh_tokens = {} /\ access = {}
  BY DEF GrantsInit
<1>2. \A r \in AllRequests : /\ asked[r].pc = "new" /\ asked[r].found = Missing
                            /\ asked[r].presents = "none"
  BY DEF GrantsInit
<1>3. GrantsTypeOK
  <2>1. 0 \in 0..EndOfTime
    OBVIOUS
  <2>2. [pc |-> "new", client |-> "none", presents |-> "none", found |-> Missing, at |-> 0] \in Asking
    BY <2>1 DEF Asking
  <2> QED
    BY <1>1, <2>1, <2>2 DEF GrantsInit, GrantsTypeOK
<1>4. InOnePlace
  BY <1>1, <1>2 DEF InOnePlace, Holds
<1>5. AllAuthorized /\ ConsumedOnce /\ GoesOn /\ SignedBefore /\ BoundToClient
  BY <1>1, <1>2 DEF AllAuthorized, ConsumedOnce, GoesOn, SignedBefore, BoundToClient
<1> QED
  BY <1>3, <1>4, <1>5 DEF GrantsIInv

(* The invariant is inductive.                                              *)
THEOREM Invariance == GrantsSpec => []GrantsIInv
<1>1. GrantsIInv /\ [GrantsNext]_grantVars => GrantsIInv'
  BY TypeStep, GoesOnStep, ConsumedStep, AuthorizedStep, PlaceStep, SignedStep, BoundStep DEF GrantsIInv
<1> QED
  BY <1>1, InitInvariant, PTL DEF GrantsSpec

(* A set whose members are all the same has at most one.                    *)
LEMMA AtMostOne ==
  ASSUME NEW S, \A x, y \in S : x = y
  PROVE  Cardinality(S) \in {0, 1} /\ (S = {} => Cardinality(S) = 0)
<1>1. CASE S = {}
  BY <1>1, FS_EmptySet
<1>2. CASE S # {}
  <2>1. PICK x : x \in S
    BY <1>2
  <2>2. S = {x}
    BY <2>1
  <2> QED
    BY <2>2, FS_Singleton
<1> QED
  BY <1>1, <1>2

(* A code and a refresh token are exchanged by at most one request, and a   *)
(* grant never has two of them.                                             *)
THEOREM UsedOnce == GrantsSpec => []SingleUse
<1>1. GrantsIInv => SingleUse
  <2> SUFFICES ASSUME GrantsIInv PROVE SingleUse
    OBVIOUS
  <2> USE DEF GrantsIInv, AllRequests
  <2>1. ASSUME NEW g \in Authorization
        PROVE  Cardinality({k \in DOMAIN refresh_tokens : refresh_tokens[k].grant = g})
               + Cardinality({k \in DOMAIN auth_codes : auth_codes[k].grant = g}) <= 1
    <3> DEFINE T == {k \in DOMAIN refresh_tokens : refresh_tokens[k].grant = g}
               C == {k \in DOMAIN auth_codes : auth_codes[k].grant = g}
    <3>1. /\ \A x \in T : x \in AllRequests /\ Holds("token", x, g)
          /\ \A x \in C : x \in AllRequests /\ Holds("code", x, g)
      BY DEF Holds, GrantsTypeOK
    <3>2. (\A x, y \in T : x = y) /\ (\A x, y \in C : x = y) /\ (T = {} \/ C = {})
      BY <2>1, <3>1 DEF InOnePlace
    <3>3. Cardinality(T) \in {0, 1} /\ Cardinality(C) \in {0, 1} /\ (Cardinality(T) = 0 \/ Cardinality(C) = 0)
      BY <3>2, AtMostOne
    <3> QED
      BY <3>3
  <2>2. ASSUME NEW k \in AllRequests
        PROVE  Cardinality(Exchanged(k)) <= 1
    <3>1. \A r \in Exchanged(k) : r \in AllRequests /\ asked[r].presents = k /\ asked[r].found # Missing
      BY DEF Exchanged, GoesOn
    <3>2. \A r, q \in Exchanged(k) : r = q
      BY <2>2, <3>1, GrantsAssumption DEF ConsumedOnce
    <3>3. Cardinality(Exchanged(k)) \in {0, 1}
      BY <3>2, AtMostOne
    <3> QED
      BY <3>3
  <2> QED
    BY <2>1, <2>2 DEF SingleUse
<1> QED
  BY <1>1, Invariance, PTL

(* Access tokens go to the client that was authorized, however often the    *)
(* grant was rotated.                                                       *)
THEOREM ForTheAuthorized == GrantsSpec => []BoundToClient
<1>1. GrantsIInv => BoundToClient
  BY DEF GrantsIInv
<1> QED
  BY <1>1, Invariance, PTL

(* A revocation that found its token ends the grant.                        *)
THEOREM RevocationEnds == GrantsSpec => []RevocationEndsGrant
<1>1. GrantsIInv => RevocationEndsGrant
  <2> SUFFICES ASSUME GrantsIInv, NEW r \in Revocation, asked[r].pc = "done", asked[r].found # Missing,
                      NEW g, g = asked[r].found.grant
               PROVE  /\ \A k \in DOMAIN refresh_tokens : refresh_tokens[k].grant # g
                      /\ \A q \in Refresh : asked[q].pc \in {"subject", "answer"} => asked[q].found.grant # g
                      /\ time >= asked[r].at + AccessLife => \A t \in access : t.grant = g => ~Active(t)
    BY DEF RevocationEndsGrant
  <2> USE GrantsAssumption DEF GrantsIInv, AllRequests, GrantsTypeOK
  <2>1. g \in Authorization
    BY DEF Asking, Code, Token
  <2>2. Holds("request", r, g)
    BY DEF Holds
  <2>3. \A k \in AllRequests : ~Holds("token", k, g) /\ (Holds("request", k, g) => k = r)
    BY <2>1, <2>2 DEF InOnePlace
  <2>4. \A k \in DOMAIN refresh_tokens : refresh_tokens[k].grant # g
    BY <2>3 DEF Holds
  <2>5. ASSUME NEW q \in Refresh, asked[q].pc \in {"subject", "answer"}
        PROVE  asked[q].found.grant # g
    <3>1. CASE asked[q].pc = "subject"
      <4>1. asked[q].found # Missing
        BY <3>1 DEF GoesOn
      <4> QED
        BY <2>3, <3>1, <4>1 DEF Holds
    <3>2. CASE asked[q].pc = "answer"
      BY <2>4, <3>2 DEF GoesOn
    <3> QED
      BY <2>5, <3>1, <3>2
  <2>6. ASSUME time >= asked[r].at + AccessLife, NEW t \in access, t.grant = g
        PROVE  ~Active(t)
    <3>1. t.expires <= asked[r].at + AccessLife
      BY <2>6 DEF SignedBefore
    <3>2. t.expires \in Int /\ asked[r].at \in Int /\ time \in Int
      BY DEF Access, Asking
    <3> QED
      BY <2>6, <3>1, <3>2, AccessLifeType DEF Active
  <2> QED
    BY <2>4, <2>5, <2>6
<1> QED
  BY <1>1, Invariance, PTL

(* All of what the provider promises, for every number of requests.         *)
THEOREM Sound == GrantsSpec => []GrantsSound
<1>1. GrantsIInv => GrantsTypeOK
  BY DEF GrantsIInv
<1> QED
  BY <1>1, Invariance, UsedOnce, ForTheAuthorized, RevocationEnds, PTL DEF GrantsSound

=============================================================================
