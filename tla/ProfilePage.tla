------------------------------ MODULE ProfilePage ------------------------------
(***************************************************************************)
(* One person's profile in several tabs: the page that edits it            *)
(* (apps/web/components/profile-page.tsx), the topbar that shows the name  *)
(* (workspace-topbar.tsx) and loads it again when the page announces a     *)
(* change (lib/api.ts), and PATCH /v1/auth/me, which writes the whole      *)
(* document back (apps/api/src/application.ts).                            *)
(*                                                                         *)
(* A value is named by the edit that typed it.  Which workspace the topbar *)
(* names beside it is WorkspaceShell's, whose name is taken Usernames'.    *)
(***************************************************************************)
EXTENDS Integers, FiniteSets

CONSTANTS
  Tab,
  MaxEdits, \* bound: fields typed into, and saves
  MaxLoads, \* bound: loads of one topbar
  None

VARIABLES
  profile, \* the user's document, with the number of writes it has seen
  tab,     \* the page in each tab: what it adopted, the form, the save under way
  topbar,  \* what each topbar shows: a profile it loaded, or None
  loads,   \* the topbar's loads under way, with what they have read
  edits,   \* counter
  meant,   \* history: what a person last saved in each field
  torn,    \* history: a save wrote over one that came between its read and its write
  late     \* history: tabs whose topbar had a load fail, or answer after a newer one

profileVars == <<profile, tab, topbar, loads, edits, meant, torn, late>>

Field == {"displayName", "username"}
User == [fields : [Field -> 0..MaxEdits], version : 0..MaxEdits]
Blank == [f \in Field |-> 0]
Load == [n : 1..MaxLoads, got : User \cup {None}]

ProfileTypeOK ==
  /\ profile \in User /\ meant \in [Field -> 0..MaxEdits] /\ edits \in 0..MaxEdits
  /\ tab \in [Tab -> [pc : {"loading", "failed", "ready", "saving", "writing", "written"},
                      identity : User \cup {None}, draft : [Field -> 0..MaxEdits],
                      held : User \cup {None}, saved : 0..MaxEdits, begun : 0..MaxLoads]]
  /\ topbar \in [Tab -> User \cup {None}] /\ \A t \in Tab : loads[t] \subseteq Load
  /\ torn \in BOOLEAN /\ late \subseteq Tab
  /\ \A t \in Tab : tab[t].pc \in {"ready", "saving", "writing", "written"} => tab[t].identity # None

(* Both have begun to load, which a tab opened later cannot be told from.   *)
ProfileInit ==
  /\ profile = [fields |-> Blank, version |-> 0] /\ meant = Blank
  /\ tab = [t \in Tab |-> [pc |-> "loading", identity |-> None, draft |-> Blank, held |-> None,
                           saved |-> 0, begun |-> 1]]
  /\ topbar = [t \in Tab |-> None] /\ loads = [t \in Tab |-> {[n |-> 1, got |-> None]}]
  /\ edits = 0 /\ torn = FALSE /\ late = {}

-----------------------------------------------------------------------------
(* The topbar loads when it mounts and when it hears of a change; nothing   *)
(* cancels a load that is overtaken.                                        *)
Loads(t) == [loads EXCEPT ![t] = @ \cup {[n |-> tab[t].begun + 1, got |-> None]}]

TopbarReads(t, l) ==
  /\ l.got = None
  /\ loads' = [loads EXCEPT ![t] = (@ \ {l}) \cup {[l EXCEPT !.got = profile]}]
  /\ UNCHANGED <<profile, tab, topbar, edits, meant, torn, late>>

TopbarShows(t, l) ==
  /\ l.got # None
  /\ topbar' = [topbar EXCEPT ![t] = l.got]
  /\ late' = IF topbar[t] # None /\ l.got.version < topbar[t].version THEN late \cup {t} ELSE late
  /\ loads' = [loads EXCEPT ![t] = @ \ {l}]
  /\ UNCHANGED <<profile, tab, edits, meant, torn>>

(* "Session unavailable"                                                    *)
TopbarFails(t, l) ==
  /\ l.got = None
  /\ topbar' = [topbar EXCEPT ![t] = None] /\ late' = late \cup {t}
  /\ loads' = [loads EXCEPT ![t] = @ \ {l}]
  /\ UNCHANGED <<profile, tab, edits, meant, torn>>

-----------------------------------------------------------------------------
(* The page.  Nobody can tell when what it loads was read.                  *)
Adopts(t, user, pc) ==
  [tab EXCEPT ![t].pc = pc, ![t].identity = user, ![t].draft = user.fields, ![t].held = None]

LoadProfile(t) ==
  /\ tab[t].pc = "loading"
  /\ tab' \in {Adopts(t, profile, "ready"), [tab EXCEPT ![t].pc = "failed"]}
  /\ UNCHANGED <<profile, topbar, loads, edits, meant, torn, late>>

(* The form, whose fields are disabled while it loads or saves.             *)
Edit(t, f) ==
  /\ tab[t].pc = "ready" /\ edits < MaxEdits
  /\ edits' = edits + 1
  /\ tab' = [tab EXCEPT ![t].draft[f] = edits + 1]
  /\ UNCHANGED <<profile, topbar, loads, meant, torn, late>>

Changed(t) == {f \in Field : tab[t].draft[f] # tab[t].identity.fields[f]}

Discard(t) ==
  /\ tab[t].pc = "ready" /\ Changed(t) # {}
  /\ tab' = [tab EXCEPT ![t].draft = tab[t].identity.fields]
  /\ UNCHANGED <<profile, topbar, loads, edits, meant, torn, late>>

(* save(), which sends the changed fields only.                             *)
Sent(t) == Changed(t)

save(t) ==
  /\ tab[t].pc = "ready" /\ Changed(t) # {} /\ tab[t].begun < MaxLoads
  /\ edits < MaxEdits /\ edits' = edits + 1
  /\ tab' = [tab EXCEPT ![t].pc = "saving"]
  /\ UNCHANGED <<profile, topbar, loads, meant, torn, late>>

(* The API reads the user to authenticate, and writes the user it read,     *)
(* with the fields it was sent.                                             *)
Authenticates(t) ==
  /\ tab[t].pc = "saving"
  /\ tab' = [tab EXCEPT ![t].pc = "writing", ![t].held = profile]
  /\ UNCHANGED <<profile, topbar, loads, edits, meant, torn, late>>

Updated(t) ==
  [fields |-> [f \in Field |-> IF f \in Sent(t) THEN tab[t].draft[f] ELSE tab[t].held.fields[f]],
   version |-> profile.version + 1]

UpdateProfile(t) ==
  /\ tab[t].pc = "writing"
  /\ profile' = Updated(t)
  /\ tab' = [tab EXCEPT ![t].pc = "written", ![t].held = Updated(t)]
  /\ meant' = [f \in Field |-> IF f \in Changed(t) THEN tab[t].draft[f] ELSE meant[f]]
  /\ torn' = (torn \/ tab[t].held.version # profile.version)
  /\ UNCHANGED <<topbar, loads, edits, late>>

(* The answer is adopted, and the change announced to the tab's topbar.     *)
Saved(t) ==
  /\ tab[t].pc = "written"
  /\ tab' = [Adopts(t, tab[t].held, "ready") EXCEPT ![t].saved = tab[t].held.version, ![t].begun = @ + 1]
  /\ loads' = Loads(t)
  /\ UNCHANGED <<profile, topbar, edits, meant, torn, late>>

(* The name is taken, or the request fails before or after the write.  The  *)
(* form keeps what was typed.                                               *)
SaveFails(t) ==
  /\ tab[t].pc \in {"saving", "writing", "written"}
  /\ tab' = [tab EXCEPT ![t].pc = "ready", ![t].held = None]
  /\ UNCHANGED <<profile, topbar, loads, edits, meant, torn, late>>

ProfileNext ==
  \E t \in Tab :
    \/ LoadProfile(t)
    \/ \E l \in loads[t] : TopbarReads(t, l) \/ TopbarShows(t, l) \/ TopbarFails(t, l)
    \/ \E f \in Field : Edit(t, f)
    \/ Discard(t) \/ save(t) \/ Authenticates(t) \/ UpdateProfile(t) \/ Saved(t) \/ SaveFails(t)

-----------------------------------------------------------------------------
(* "Only the fields that actually changed are sent, so a rename never has   *)
(* to re-assert a username it did not touch": a page that has been open     *)
(* while another tab saved does not take that tab's change back, unless     *)
(* both saves were in the API at once.                                      *)
ChangesAreKept == ~torn => profile.fields = meant

(* The topbar shows a name at least as new as the one saved in its tab: a   *)
(* rename would "otherwise leave the topbar showing the previous name".     *)
(* Only a load that fails or is overtaken leaves it behind.                 *)
TopbarCatchesUp ==
  \A t \in Tab \ late : loads[t] = {} /\ tab[t].saved > 0 =>
    topbar[t] # None /\ topbar[t].version >= tab[t].saved
=============================================================================
