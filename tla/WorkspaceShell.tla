---------------------------- MODULE WorkspaceShell ----------------------------
(***************************************************************************)
(* Which workspace a tab shows: the sidebar's switcher and the page beside *)
(* it (apps/web/components/workspace-sidebar.tsx, dashboard.tsx,           *)
(* rooms-directory.tsx, activity-feed.tsx, calendar-view.tsx,              *)
(* apps/web/lib/workspace-preference.ts).                                  *)
(*                                                                         *)
(* The selection is the ?org parameter or else the stored preference, read *)
(* at each render.  A component whose selection has changed since its last *)
(* render loads again; each load is two rounds of requests, and several    *)
(* may be under way.  Only the sidebar disowns a load it has replaced.     *)
(***************************************************************************)
EXTENDS Integers, Sequences, FiniteSets

CONSTANTS
  Org,      \* the user's organizations, in no order but the API's: First is at the head
  First,
  Former,   \* an organization the browser remembers and the account is not in
  None,     \* null: no parameter, nothing stored
  MaxLoads  \* loads of a tab, which bounds a behaviour

VARIABLES
  page,      \* which of the four pages is open beside the sidebar
  param,     \* the ?org parameter
  preferred, \* localStorage
  rendered,  \* the selection each component last rendered with
  load,      \* the loads begun, in order
  shown,     \* the workspace each component shows, and whether it shows an error
  overlap    \* history: the page has had two loads under way at once

shell == <<page, param, preferred, rendered, load, shown, overlap>>

Component == {"sidebar", "page"}
Pages == {"dashboard", "rooms", "activity", "calendar"}
Selection == Org \cup {Former, None}

ShellTypeOK ==
  /\ page \in Pages
  /\ param \in Selection /\ preferred \in Selection
  /\ rendered \in [Component -> Selection]
  /\ Len(load) <= MaxLoads
  /\ \A i \in DOMAIN load :
       load[i] \in [by : Component, wants : Selection, org : Org \cup {None},
                    state : {"identity", "content", "done"}, cancelled : BOOLEAN]
  /\ shown \in [Component -> [org : Org \cup {None}, error : BOOLEAN]]
  /\ overlap \in BOOLEAN

Pending(by) == {i \in DOMAIN load : load[i].by = by /\ load[i].state # "done"}
Selected(p, pref) == IF p # None THEN p ELSE pref

(* selectedOrganization(): an id that matches nothing gives the first.      *)
selectedOrganization(id) == IF id \in Org THEN id ELSE First

(* setPreferredOrgId(); a browser may refuse to store anything.             *)
SetPreferredOrgId(id) == preferred' \in {id, preferred}

(* The loads after the components in `by` have rendered with a selection:   *)
(* who had another one cancels what it had under way and begins a load.     *)
Fresh(c, wants) == [by |-> c, wants |-> wants, org |-> None, state |-> "identity", cancelled |-> FALSE]
Cancels(loads, by) ==
  [i \in DOMAIN loads |-> IF loads[i].by = by THEN [loads[i] EXCEPT !.cancelled = TRUE] ELSE loads[i]]

ShellInit ==
  /\ page \in Pages
  /\ param \in Org \cup {None} /\ preferred \in Selection
  /\ rendered = [c \in Component |-> Selected(param, preferred)]
  /\ load = <<Fresh("sidebar", Selected(param, preferred)), Fresh("page", Selected(param, preferred))>>
  /\ shown = [c \in Component |-> [org |-> None, error |-> FALSE]]
  /\ overlap = FALSE

(* switchOrganization(): the router renders both with the new parameter.    *)
SwitchOrganization(o) ==
  LET changed == o # rendered["sidebar"] \/ o # rendered["page"]
      again(c) == IF o # rendered[c] THEN <<Fresh(c, o)>> ELSE <<>>
      kept == IF o # rendered["sidebar"] THEN Cancels(load, "sidebar") ELSE load
  IN  /\ changed /\ Len(load) + 2 <= MaxLoads
      /\ SetPreferredOrgId(o)
      /\ param' = o
      /\ rendered' = [c \in Component |-> o]
      /\ load' = kept \o again("sidebar") \o again("page")
      /\ overlap' = (overlap \/ (o # rendered["page"] /\ Pending("page") # {}))
      /\ UNCHANGED <<page, shown>>

(* A load's first answer names the workspace, which becomes the preference  *)
(* whether or not anybody still waits for the load.                         *)
IdentityArrives(i) ==
  LET org == selectedOrganization(load[i].wants)
  IN  /\ load[i].state = "identity"
      /\ SetPreferredOrgId(org)
      /\ load' = [load EXCEPT ![i].state = "content", ![i].org = org]
      /\ UNCHANGED <<page, param, rendered, shown, overlap>>

(* What the pages make of a load that has ended: all show what it brought,  *)
(* and after an error only the dashboard forgets what it showed.            *)
Brought(i) == [org |-> load[i].org, error |-> FALSE]
LoadDashboard(i, ok) == IF ok THEN Brought(i) ELSE [org |-> None, error |-> TRUE]
LoadRooms(i, ok) == IF ok THEN [Brought(i) EXCEPT !.error = shown["page"].error] ELSE [shown["page"] EXCEPT !.error = TRUE]
LoadActivity(i, ok) == IF ok THEN [Brought(i) EXCEPT !.error = shown["page"].error] ELSE [shown["page"] EXCEPT !.error = TRUE]
LoadCalendar(i, ok) == IF ok THEN [Brought(i) EXCEPT !.error = shown["page"].error] ELSE [shown["page"] EXCEPT !.error = TRUE]

(* The sidebar shows only what it has not cancelled.                        *)
Wanted(i) == ~load[i].cancelled
LoadSidebar(i, ok) ==
  IF ~Wanted(i) THEN shown["sidebar"] ELSE IF ok THEN Brought(i) ELSE [org |-> None, error |-> TRUE]

Shows(i, ok) ==
  CASE load[i].by = "sidebar" -> LoadSidebar(i, ok)
    [] page = "dashboard" -> LoadDashboard(i, ok)
    [] page = "rooms" -> LoadRooms(i, ok)
    [] page = "activity" -> LoadActivity(i, ok)
    [] page = "calendar" -> LoadCalendar(i, ok)

(* The load ends, in either round if a request fails.  Showing its result   *)
(* renders the component, whose selection may have changed by now.          *)
LoadEnds(i, ok) ==
  LET c == load[i].by
      sel == Selected(param, preferred)
      renders == c = "page" \/ Wanted(i)
      ended == [load EXCEPT ![i].state = "done"]
      others == Pending(c) \ {i}
  IN  /\ load[i].state = "content" \/ (load[i].state = "identity" /\ ~ok)
      /\ shown' = [shown EXCEPT ![c] = Shows(i, ok)]
      /\ IF renders /\ sel # rendered[c]
           THEN /\ Len(load) < MaxLoads
                /\ load' = Append(IF c = "sidebar" THEN Cancels(ended, c) ELSE ended, Fresh(c, sel))
                /\ rendered' = [rendered EXCEPT ![c] = sel]
                /\ overlap' = (overlap \/ (c = "page" /\ others # {}))
           ELSE load' = ended /\ UNCHANGED <<rendered, overlap>>
      /\ UNCHANGED <<page, param, preferred>>

ShellNext ==
  \/ \E o \in Org : SwitchOrganization(o)
  \/ \E i \in DOMAIN load : IdentityArrives(i) \/ \E ok \in BOOLEAN : LoadEnds(i, ok)

-----------------------------------------------------------------------------
(* However often the workspace is switched and whatever order the answers   *)
(* come in, once the sidebar waits for nothing it shows the workspace that  *)
(* was selected last or an error, and so does the page, of which that is    *)
(* only true while no two of its loads have overlapped (README, 4.2).       *)
Faithful(c) == shown[c].org \in {selectedOrganization(rendered[c])} \cup (IF shown[c].error THEN Org \cup {None} ELSE {})
SelectionIsShown ==
  /\ (\A i \in Pending("sidebar") : load[i].cancelled) => Faithful("sidebar")
  /\ Pending("page") = {} /\ ~overlap => Faithful("page")

=============================================================================
