------------------------------ MODULE SignInPages ------------------------------
(***************************************************************************)
(* A visitor's way in: the forms, the guards that redirect and the recovery*)
(* codes (apps/web/components/auth-form.tsx, password-recovery.tsx,        *)
(* redirect-if-authenticated.tsx, workspace-gate.tsx, onboarding-flow.tsx, *)
(* recovery-codes.tsx, apps/web/lib/use-viewer.ts, api.ts).                *)
(*                                                                         *)
(* One tab.  A page asks who is signed in when it mounts, with the cookie  *)
(* of that moment; the answer comes when it comes, while the visitor fills *)
(* in the form.                                                            *)
(***************************************************************************)
EXTENDS Integers, FiniteSets

CONSTANTS
  Account,
  None      \* no account, no cookie

VARIABLES
  at,         \* the page
  returnTo,   \* its ?returnTo points into the app
  cookie,     \* the account of the browser's session cookie
  valid,      \* the accounts whose session the API still accepts
  registered, \* the accounts there are
  placed,     \* those that belong to a workspace
  opened,     \* history: the cookie there was when the page was opened
  asked,      \* the page's identity request: under way, with which cookie
  form,       \* the form's request: which step of it is under way, for whom
  issued,     \* the account whose recovery codes are on the screen
  welcome,    \* the app's content is shown (authorized)
  hops,       \* history: redirects since the visitor last did anything
  lost        \* history: accounts whose codes a redirect took off the screen

signin == <<at, returnTo, cookie, valid, registered, placed, opened, asked, form, issued, welcome, hops, lost>>

Forms == {"login", "register", "forgot", "reset"}
Page == Forms \cup {"onboarding", "app"}
Idle == [step |-> "none", who |-> None]
Nobody == [state |-> "answered", by |-> None]

SignInTypeOK ==
  /\ at \in Page /\ returnTo \in BOOLEAN
  /\ cookie \in Account \cup {None} /\ issued \in Account \cup {None} /\ opened \in Account \cup {None}
  /\ valid \subseteq registered /\ placed \subseteq registered /\ registered \subseteq Account
  /\ asked \in [state : {"asked", "answered"}, by : Account \cup {None}]
  /\ form \in [step : {"none", "post", "identity"}, who : Account \cup {None}]
  /\ welcome \in BOOLEAN /\ hops \in Nat /\ lost \subseteq Account

SignInInit ==
  /\ at \in Page /\ returnTo \in BOOLEAN
  /\ registered \in SUBSET Account
  /\ placed \in SUBSET registered
  /\ cookie \in registered \cup {None}
  /\ valid \in {{}, {cookie} \ {None}}
  /\ opened = cookie /\ asked = [state |-> "asked", by |-> cookie]
  /\ form = Idle /\ issued = None /\ welcome = FALSE
  /\ hops = 0 /\ lost = {}

-----------------------------------------------------------------------------
(* The router mounts a page, which asks GET /v1/auth/me at once.            *)
Mounts(page, back, with) ==
  /\ at' = page /\ returnTo' = back
  /\ opened' = with /\ asked' = [state |-> "asked", by |-> with]
  /\ form' = Idle /\ issued' = None /\ welcome' = FALSE

(* A page that redirects without being asked takes what it showed with it.  *)
Redirects(page, back) ==
  /\ Mounts(page, back, cookie)
  /\ hops' = hops + 1
  /\ lost' = IF opened = None THEN lost \cup ({issued} \ {None}) ELSE lost
  /\ UNCHANGED <<cookie, valid, registered, placed>>

Visits(page, back) ==
  /\ Mounts(page, back, cookie)
  /\ hops' = 0
  /\ UNCHANGED <<cookie, valid, registered, placed, lost>>

Stays == UNCHANGED <<at, returnTo, cookie, valid, registered, placed, opened, hops, lost>>
Answered == asked' = Nobody

(* What /v1/auth/me answers to the cookie it was sent with: 401, or the     *)
(* account and the workspaces it belongs to.                                *)
SignedIn(by) == by \in valid
Organizations(by) == {by} \cap placed
Destination(by) == IF Organizations(by) # {} THEN "app" ELSE "onboarding"

(* useViewer() asks once, whatever session the form opens later.            *)
useViewer(who) == asked

(* RedirectIfAuthenticated() acts on a session; any failure is none.        *)
ViewerAnswers(fails) ==
  /\ at \in Forms /\ asked.state = "asked"
  /\ IF SignedIn(asked.by) /\ ~fails
       THEN Redirects(IF returnTo THEN "app" ELSE Destination(asked.by), FALSE)
       ELSE Answered /\ Stays /\ UNCHANGED <<form, issued, welcome>>

(* WorkspaceGate() in front of the app.                                     *)
GateAnswers(fails) ==
  /\ at = "app" /\ asked.state = "asked"
  /\ IF fails THEN Answered /\ Stays /\ UNCHANGED <<form, issued, welcome>>
     ELSE IF ~SignedIn(asked.by) THEN Redirects("login", TRUE)
     ELSE IF Organizations(asked.by) = {} THEN Redirects("onboarding", TRUE)
     ELSE Answered /\ welcome' = TRUE /\ Stays /\ UNCHANGED <<form, issued>>

(* The onboarding page's own check.                                         *)
OnboardingAnswers(fails) ==
  /\ at = "onboarding" /\ asked.state = "asked"
  /\ IF ~SignedIn(asked.by) /\ ~fails
       THEN Redirects("login", FALSE)
       ELSE Answered /\ Stays /\ UNCHANGED <<form, issued, welcome>>

-----------------------------------------------------------------------------
(* submit() of AuthForm: one request, and after a login a second.           *)
Submit(who) ==
  /\ at \in {"login", "register"} /\ form = Idle /\ issued = None
  /\ form' = [step |-> "post", who |-> who]
  /\ hops' = 0
  /\ UNCHANGED <<at, returnTo, cookie, valid, registered, placed, opened, asked, issued, welcome, lost>>

Accepts(who) == IF at = "register" THEN who \notin registered ELSE who \in registered

PostAnswers ==
  LET who == form.who
  IN  /\ at \in {"login", "register"} /\ form.step = "post" /\ Accepts(who)
      /\ registered' = registered \cup {who}
      /\ valid' = valid \cup {who} /\ cookie' = who
      /\ IF at = "register" THEN issued' = who /\ form' = Idle
                            ELSE form' = [form EXCEPT !.step = "identity"] /\ UNCHANGED issued
      /\ asked' = useViewer(who)
      /\ UNCHANGED <<at, returnTo, placed, opened, welcome, hops, lost>>

IdentityAnswers ==
  /\ form.step = "identity" /\ SignedIn(cookie)
  /\ Visits(Destination(cookie), returnTo /\ cookie \notin placed)

FormFails ==
  /\ form # Idle
  /\ form' = Idle
  /\ Stays /\ UNCHANGED <<asked, issued, welcome>>

(* RecoveryCodes: the visitor ticks that they are saved, and goes on.       *)
Acknowledge == issued # None /\ Visits("onboarding", returnTo)

(* ForgotPasswordForm and ResetPasswordForm: the account's sessions end.    *)
ForgotPassword(who) ==
  /\ at = "forgot" /\ who \in registered
  /\ valid' = valid \ {who}
  /\ Mounts("login", FALSE, cookie) /\ hops' = 0
  /\ UNCHANGED <<cookie, registered, placed, lost>>

ResetPassword(who) ==
  /\ at = "reset" /\ who \in registered
  /\ valid' = valid \ {who}
  /\ Mounts("login", FALSE, cookie) /\ hops' = 0
  /\ UNCHANGED <<cookie, registered, placed, lost>>

(* createWorkspace() and joinWorkspace() of the onboarding page.            *)
EntersWorkspace ==
  /\ at = "onboarding" /\ asked.state = "answered" /\ SignedIn(cookie)
  /\ placed' = placed \cup {cookie}
  /\ Mounts("app", FALSE, cookie) /\ hops' = 0
  /\ UNCHANGED <<cookie, valid, registered, lost>>
createWorkspace == EntersWorkspace
joinWorkspace == EntersWorkspace

(* logOut() in the sidebar goes to the form whether or not it succeeds.     *)
LogOut(succeeds) ==
  /\ at = "app" /\ welcome
  /\ IF succeeds THEN valid' = valid \ {cookie} /\ cookie' = None ELSE UNCHANGED <<valid, cookie>>
  /\ Mounts("login", FALSE, IF succeeds THEN None ELSE cookie) /\ hops' = 0
  /\ UNCHANGED <<registered, placed, lost>>

(* The session ends elsewhere: revoked, expired.                            *)
SessionEnds(who) ==
  /\ who \in valid
  /\ valid' = valid \ {who} /\ hops' = 0
  /\ UNCHANGED <<at, returnTo, cookie, registered, placed, opened, asked, form, issued, welcome, lost>>

SignInNext ==
  \/ \E fails \in BOOLEAN : ViewerAnswers(fails) \/ GateAnswers(fails) \/ OnboardingAnswers(fails)
  \/ \E page \in Page, back \in BOOLEAN : Visits(page, back)
  \/ \E who \in Account : Submit(who) \/ ForgotPassword(who) \/ ResetPassword(who) \/ SessionEnds(who)
  \/ PostAnswers \/ IdentityAnswers \/ FormFails \/ Acknowledge
  \/ createWorkspace \/ joinWorkspace
  \/ \E succeeds \in BOOLEAN : LogOut(succeeds)

-----------------------------------------------------------------------------
(* Recovery codes are shown once, and "navigating away before they are saved *)
(* would destroy" them: no redirect takes them off the screen of a visitor   *)
(* who had no session when the form was opened.  With one, the answer about  *)
(* it may come last and does (README, 4.2).                                  *)
CodesStayOnScreen == lost = {}

(* The guards send a visitor on at most twice before somebody acts: no two   *)
(* of them send the visitor back and forth.                                  *)
RedirectsEnd == hops <= 2
=============================================================================
