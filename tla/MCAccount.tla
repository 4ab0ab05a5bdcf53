------------------------------ MODULE MCAccount ------------------------------
(***************************************************************************)
(* An account in the API, and the pages of the web application on which    *)
(* people sign in, edit, and choose what they see.  None of them sees the  *)
(* state of another, so each is explored alone, `part` saying which.       *)
(***************************************************************************)
EXTENDS Account, Sequences, TLC

CONSTANTS
  Off, None,
  Org, Front, Former, MaxLoads,  \* WorkspaceShell
  Change, Mount, Item, Token,    \* EditingPages
  Person,                        \* SignInPages
  Tab, MaxEdits, MaxReloads      \* ProfilePage

(* Requests and the sessions a login may open are interchangeable.          *)
Opened == Session \ {First}
Symmetric == Permutations(Request) \cup Permutations(Opened) \cup Permutations(Link)

VARIABLES
  part,
  page, param, preferred, rendered, load, shown, overlap,
  open, server, seen, busy, plain, handler, failed, late,
  at, returnTo, cookie, valid, registered, placed, opened, viewer, form, issued, welcome, hops, destroyed,
  profile, tab, topbar, loads, edits, meant, torn, behind

Shell == INSTANCE WorkspaceShell WITH First <- Front
Editing == INSTANCE EditingPages WITH Handler <- Change
SignIn == INSTANCE SignInPages WITH Account <- Person, asked <- viewer, lost <- destroyed
Profile == INSTANCE ProfilePage WITH MaxLoads <- MaxReloads, late <- behind

shell == <<page, param, preferred, rendered, load, shown, overlap>>
editing == <<open, server, seen, busy, plain, handler, failed, late>>
signin == <<at, returnTo, cookie, valid, registered, placed, opened, viewer, form, issued, welcome, hops, destroyed>>
profiles == <<profile, tab, topbar, loads, edits, meant, torn, behind>>
everything == <<part, vars, shell, editing, signin, profiles>>

ShellOff ==
  /\ page = Off /\ param = Off /\ preferred = Off /\ rendered = Off /\ load = Off
  /\ shown = Off /\ overlap = Off
EditingOff ==
  /\ open = Off /\ server = Off /\ seen = Off /\ busy = Off /\ plain = Off
  /\ handler = Off /\ failed = Off /\ late = Off
SignInOff ==
  /\ at = Off /\ returnTo = Off /\ cookie = Off /\ valid = Off /\ registered = Off
  /\ placed = Off /\ opened = Off /\ viewer = Off /\ form = Off /\ issued = Off
  /\ welcome = Off /\ hops = Off /\ destroyed = Off
ProfileOff ==
  /\ profile = Off /\ tab = Off /\ topbar = Off /\ loads = Off
  /\ edits = Off /\ meant = Off /\ torn = Off /\ behind = Off

AccountInit ==
  /\ Init
  /\ part \in {"account", "shell", "editing", "signin", "profile"}
  /\ IF part = "shell" THEN Shell!ShellInit ELSE ShellOff
  /\ IF part = "editing" THEN Editing!EditingInit ELSE EditingOff
  /\ IF part = "signin" THEN SignIn!SignInInit ELSE SignInOff
  /\ IF part = "profile" THEN Profile!ProfileInit ELSE ProfileOff

AccountNext ==
  \/ part = "account" /\ Next /\ UNCHANGED <<part, shell, editing, signin, profiles>>
  \/ part = "shell" /\ Shell!ShellNext /\ UNCHANGED <<part, vars, editing, signin, profiles>>
  \/ part = "editing" /\ Editing!EditingNext /\ UNCHANGED <<part, vars, shell, signin, profiles>>
  \/ part = "signin" /\ SignIn!SignInNext /\ UNCHANGED <<part, vars, shell, editing, profiles>>
  \/ part = "profile" /\ Profile!ProfileNext /\ UNCHANGED <<part, vars, shell, editing, signin>>

AccountSpec == AccountInit /\ [][AccountNext]_everything

-----------------------------------------------------------------------------
(* The web pages: the workspace last selected is the one shown; pages that  *)
(* edit a list catch up with the API; recovery codes on the screen work and *)
(* no redirect takes them away; the guards do not redirect in a circle; a   *)
(* saved profile keeps what other tabs saved, and is the one the topbar has.*)
PagesSound ==
  /\ part = "shell" => Shell!ShellTypeOK /\ Shell!SelectionIsShown
  /\ part = "editing" => Editing!EditingTypeOK /\ Editing!PageCatchesUp /\ Editing!PlaintextWorks
  /\ part = "signin" => SignIn!SignInTypeOK /\ SignIn!CodesStayOnScreen /\ SignIn!RedirectsEnd
  /\ part = "profile" => Profile!ProfileTypeOK /\ Profile!ChangesAreKept /\ Profile!TopbarCatchesUp
=============================================================================
