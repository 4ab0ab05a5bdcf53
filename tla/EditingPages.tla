----------------------------- MODULE EditingPages -----------------------------
(***************************************************************************)
(* Pages that change what they list, in one tab: the members of a          *)
(* workspace with its invite, the members of a room, and the settings with *)
(* their access tokens, sessions and recovery codes                        *)
(* (apps/web/components/members-page.tsx, room-members-page.tsx,           *)
(* settings.tsx).                                                          *)
(*                                                                         *)
(* The member pages load the list again after each change; the settings    *)
(* load once and edit the lists they hold.  A handler is a coroutine: the  *)
(* server runs a request at some moment between its sending and its answer,*)
(* answers may be late, and only what a button disables is exclusive.      *)
(***************************************************************************)
EXTENDS Integers, FiniteSets

CONSTANTS
  Handler,  \* handlers; each runs once, which bounds a behaviour
  Mount,    \* the one that loads the page when it opens
  Item,     \* members, or tokens and sessions
  Token,    \* those that are tokens in the settings
  None

VARIABLES
  open,    \* the page
  server,  \* what the API holds: the list and the invite, or the code set, with their versions
  seen,    \* what the page shows of it
  busy,    \* the controls that are disabled: regenerating, savingSettings, saving, an item
  plain,   \* secrets shown in plaintext: a new token's, new recovery codes (None for none)
  handler, \* the handlers and what they hold
  failed,  \* history: a request has failed
  late     \* history: an answer older than what was shown has replaced it

editing == <<open, server, seen, busy, plain, handler, failed, late>>

MemberPages == {"organization", "room"}
Version == 0..Cardinality(Handler)
Role == {"none", "member", "admin"}

(* One list, of roles, or of live and revoked tokens ("none" is revoked and *)
(* what no longer is there), and beside it the invite or the recovery codes.*)
(* Without an invite to show the page has code None.                        *)
Content == [list : [Item -> Role], version : Version,
            code : Handler \cup {None}, allowed : BOOLEAN, codeVersion : Version]
Answer == Content \cup {None}

Operations == {"load", "role", "add", "regenerate", "settings", "remove", "create", "revoke"}
EditingTypeOK ==
  /\ open \in MemberPages \cup {"settings"}
  /\ server \in Content /\ seen \in Answer
  /\ busy \subseteq {"regenerating", "savingSettings", "saving"} \cup Item
  /\ plain \in [{"secret", "codes"} -> Handler \cup Item \cup {None}]
  /\ handler \in [Handler -> [op : Operations, pc : {"new", "sent", "answered", "read", "show", "read invite", "show invite", "done"},
                              item : Item, role : Role, held : Answer, got : Answer,
                              still : SUBSET {"tokens", "sessions", "codes"}]]
  /\ failed \in BOOLEAN /\ late \in BOOLEAN

Idle == [op |-> "load", pc |-> "new", item |-> CHOOSE i \in Item : TRUE, role |-> "none",
         held |-> None, got |-> None, still |-> {}]
Ended(h) == handler' = [handler EXCEPT ![h] = [Idle EXCEPT !.pc = "done"]]

EditingInit ==
  /\ open \in MemberPages \cup {"settings"}
  /\ \E list \in [Item -> {"none", "member"}] :
       server = [list |-> list, version |-> 0, code |-> Mount, allowed |-> FALSE, codeVersion |-> 0]
  /\ seen = None
  /\ busy = {}
  /\ plain = [secret |-> None, codes |-> None]
  /\ handler = [h \in Handler |->
       IF h = Mount THEN [Idle EXCEPT !.pc = "read", !.still = IF open = "settings" THEN {"tokens", "sessions", "codes"} ELSE {}]
       ELSE Idle]
  /\ failed = FALSE /\ late = FALSE

-----------------------------------------------------------------------------
(* Loading.  A member page reads its list and shows it; the workspace's then*)
(* reads the invite and shows that.  The settings await three answers.      *)
Reads(h, pc, next) ==
  /\ handler[h].pc = pc
  /\ handler' = [handler EXCEPT ![h].got = server, ![h].pc = next]
  /\ UNCHANGED <<open, server, seen, busy, plain, failed, late>>

ListMembers(h) == open = "organization" /\ Reads(h, "read", "show")
ListRoomMembers(h) == open = "room" /\ Reads(h, "read", "show")
ReadInvite(h) == Reads(h, "read invite", "show invite")

(* What the other answers do not say is overwritten when they arrive.       *)
SoFar(h) == IF handler[h].got = None THEN server ELSE handler[h].got
AwaitsAll(h, part) == IF handler[h].still = {part} THEN "show" ELSE "read"
ReadsOne(h, part, got) ==
  /\ handler[h].pc = "read" /\ part \in handler[h].still
  /\ handler' = [handler EXCEPT ![h].got = got, ![h].still = @ \ {part}, ![h].pc = AwaitsAll(h, part)]
  /\ UNCHANGED <<open, server, seen, busy, plain, failed, late>>

ListOf(items, h) == [i \in Item |-> IF i \in items THEN server.list[i] ELSE SoFar(h).list[i]]
ListPats(h) == ReadsOne(h, "tokens", [SoFar(h) EXCEPT !.list = ListOf(Token, h), !.version = server.version])
ListSessions(h) == ReadsOne(h, "sessions", [SoFar(h) EXCEPT !.list = ListOf(Item \ Token, h)])
CountRecoveryCodes(h) ==
  ReadsOne(h, "codes", [SoFar(h) EXCEPT !.code = server.code, !.codeVersion = server.codeVersion])

(* await load() ends a change, and with it what it had disabled: the one    *)
(* item roleUpdating or removingId holds by now, whoever put it there.      *)
Rest(h) == CASE handler[h].op \in {"role", "remove"} -> busy \ Item
             [] handler[h].op = "add" -> busy \ {"saving"}
             [] OTHER -> busy

ShowMembers(h) ==
  LET got == handler[h].got
      goesOn == open = "organization"
  IN  /\ open \in MemberPages /\ handler[h].pc = "show"
      /\ seen' = IF seen = None THEN [got EXCEPT !.code = None] ELSE [seen EXCEPT !.list = got.list, !.version = got.version]
      /\ late' = (late \/ (seen # None /\ got.version < seen.version))
      /\ IF goesOn THEN handler' = [handler EXCEPT ![h].pc = "read invite"] ELSE Ended(h)
      /\ busy' = IF goesOn THEN busy ELSE Rest(h)
      /\ UNCHANGED <<open, server, plain, failed>>

ShowInvite(h) ==
  LET got == handler[h].got
  IN  /\ handler[h].pc = "show invite"
      /\ seen' = [seen EXCEPT !.code = got.code, !.allowed = got.allowed, !.codeVersion = got.codeVersion]
      /\ late' = (late \/ got.codeVersion < seen.codeVersion)
      /\ Ended(h)
      /\ busy' = Rest(h)
      /\ UNCHANGED <<open, server, plain, failed>>

(* The caller may not see the invite (any more): a 403, which is no error.  *)
HideInvite(h) ==
  /\ handler[h].pc = "read invite"
  /\ seen' = [seen EXCEPT !.code = None]
  /\ Ended(h)
  /\ busy' = Rest(h)
  /\ UNCHANGED <<open, server, plain, failed, late>>

(* The settings' one load, whose answers replace whatever is shown.         *)
LoadSettings(h) ==
  /\ open = "settings" /\ handler[h].pc = "show"
  /\ seen' = handler[h].got
  /\ late' = (late \/ seen # None)
  /\ Ended(h)
  /\ UNCHANGED <<open, server, busy, plain, failed>>

-----------------------------------------------------------------------------
(* A change is sent when a person asks for it, with what the page shows; it *)
(* disables its control.                                                    *)
Sends(h, op, item, role, disables) ==
  /\ handler[h].pc = "new" /\ busy \cap disables = {}
  /\ handler' = [handler EXCEPT ![h].op = op, ![h].pc = "sent", ![h].item = item, ![h].role = role, ![h].held = seen]
  /\ UNCHANGED <<open, server, seen, plain, failed, late>>

(* roleUpdating and removingId hold one item: another change enables the    *)
(* first one's control again.                                               *)
Only(i) == (busy \ Item) \cup {i}

changeMemberRole(h, i, role) ==
  /\ open = "organization" /\ seen # None /\ seen.list[i] \notin {"none", role} /\ role # "none"
  /\ Sends(h, "role", i, role, {i}) /\ busy' = Only(i)

addMember(h, i, role) ==
  /\ open = "organization" /\ role # "none"
  /\ Sends(h, "add", i, role, {"saving"}) /\ busy' = busy \cup {"saving"}

InviteShown == seen # None /\ seen.code # None

regenerateInvite(h) ==
  /\ open = "organization" /\ InviteShown
  /\ Sends(h, "regenerate", handler[h].item, "none", {"regenerating"}) /\ busy' = busy \cup {"regenerating"}

toggleAllowMemberInvites(h) ==
  /\ open = "organization" /\ InviteShown
  /\ Sends(h, "settings", handler[h].item, "none", {"savingSettings"}) /\ busy' = busy \cup {"savingSettings"}

(* The page of a room's members grants and removes access.                  *)
grantAccess(h, i, role) ==
  /\ open = "room" /\ seen # None /\ seen.list[i] = "none" /\ role # "none"
  /\ Sends(h, "add", i, role, {"saving"}) /\ busy' = busy \cup {"saving"}

removeMember(h, i) ==
  /\ open = "room" /\ seen # None /\ seen.list[i] # "none"
  /\ Sends(h, "remove", i, "none", {i}) /\ busy' = Only(i)

(* The settings: new codes, new tokens, revocations.                        *)
regenerateRecoveryCodes(h) ==
  /\ open = "settings"
  /\ Sends(h, "regenerate", handler[h].item, "none", {"regenerating"}) /\ busy' = busy \cup {"regenerating"}

createToken(h, i) ==
  /\ open = "settings" /\ i \in Token /\ server.list[i] = "none" /\ plain["secret"] = None
  /\ \A g \in Handler : handler[g].op \in {"create", "revoke"} => handler[g].item # i
  /\ Sends(h, "create", i, "member", {"saving"}) /\ busy' = busy \cup {"saving"}

revokeItem(h, i) ==
  /\ open = "settings" /\ seen # None /\ seen.list[i] = "member"
  /\ Sends(h, "revoke", i, "none", {}) /\ UNCHANGED busy

-----------------------------------------------------------------------------
(* The API runs a request ...                                               *)
Changed(h) ==
  LET c == handler[h]
      next == [server EXCEPT !.version = @ + 1, !.codeVersion = @ + 1]
  IN  CASE c.op \in {"role", "add", "create"} -> [next EXCEPT !.list[c.item] = c.role, !.codeVersion = server.codeVersion]
        [] c.op \in {"remove", "revoke"} -> [next EXCEPT !.list[c.item] = "none", !.codeVersion = server.codeVersion]
        [] c.op = "regenerate" -> [next EXCEPT !.code = h, !.version = server.version]
        [] c.op = "settings" -> [next EXCEPT !.allowed = ~c.held.allowed, !.version = server.version]

Refuses(h) == handler[h].op = "add" /\ server.list[handler[h].item] # "none"

Serves(h) ==
  /\ handler[h].pc = "sent" /\ ~Refuses(h)
  /\ server' = Changed(h)
  /\ handler' = [handler EXCEPT ![h].pc = "answered", ![h].got = Changed(h)]
  /\ UNCHANGED <<open, seen, busy, plain, failed, late>>

(* ... and its answer is shown.  A member page loads again after a change   *)
(* of its list; what the invite's handlers show comes from the answer, or,  *)
(* for the rest of it, from the render in which they were called.           *)
ThenLoads(h) ==
  /\ open \in MemberPages /\ handler[h].pc = "answered" /\ handler[h].op \in {"role", "add", "remove"}
  /\ handler' = [handler EXCEPT ![h].pc = "read"]
  /\ UNCHANGED <<open, server, seen, busy, plain, failed, late>>

ShowRegenerated(h) ==
  LET got == handler[h].got
  IN  /\ open = "organization" /\ handler[h].pc = "answered" /\ handler[h].op = "regenerate"
      /\ seen' = [seen EXCEPT !.code = got.code, !.allowed = got.allowed, !.codeVersion = got.codeVersion]
      /\ late' = (late \/ got.codeVersion < seen.codeVersion)
      /\ Ended(h) /\ busy' = busy \ {"regenerating"}
      /\ UNCHANGED <<open, server, plain, failed>>

ShowSettings(h) ==
  LET c == handler[h]
  IN  /\ c.pc = "answered" /\ c.op = "settings"
      /\ seen' = [seen EXCEPT !.code = c.held.code, !.allowed = c.got.allowed, !.codeVersion = c.got.codeVersion]
      /\ late' = (late \/ c.got.codeVersion < seen.codeVersion \/ c.held.codeVersion < c.got.codeVersion - 1)
      /\ Ended(h) /\ busy' = busy \ {"savingSettings"}
      /\ UNCHANGED <<open, server, plain, failed>>

(* The settings' handlers edit the list as it is then, not as they found it.*)
Mutant_fromRender(h) == handler[h].held
Current(h) == seen

ShowEdited(h) ==
  LET c == handler[h]
      list == Current(h)
  IN  /\ open = "settings" /\ c.pc = "answered" /\ c.op \in {"create", "revoke"}
      /\ IF list = None THEN UNCHANGED seen ELSE seen' = [list EXCEPT !.list[c.item] = c.role]
      /\ late' = (late \/ list = None \/ (c.op = "create" /\ list.version >= c.got.version))
      /\ plain' = IF c.op = "create" THEN [plain EXCEPT !["secret"] = c.item] ELSE plain
      /\ busy' = IF c.op = "create" THEN busy \ {"saving"} ELSE busy
      /\ Ended(h)
      /\ UNCHANGED <<open, server, failed>>

ShowNewCodes(h) ==
  LET c == handler[h]
  IN  /\ open = "settings" /\ c.pc = "answered" /\ c.op = "regenerate"
      /\ seen' = IF seen = None THEN seen ELSE [seen EXCEPT !.code = c.got.code, !.codeVersion = c.got.codeVersion]
      /\ late' = (late \/ seen = None)
      /\ plain' = [plain EXCEPT !["codes"] = h]
      /\ busy' = busy \ {"regenerating"}
      /\ Ended(h)
      /\ UNCHANGED <<open, server, failed>>

(* The secret has been copied: setSecret("").                               *)
DismissSecret ==
  /\ plain["secret"] # None
  /\ plain' = [plain EXCEPT !["secret"] = None]
  /\ UNCHANGED <<open, server, seen, busy, handler, failed, late>>

(* A request fails, before or after the API has run it: the error is shown, *)
(* and nothing else.                                                        *)
Gives(h) ==
  LET c == handler[h]
  IN  IF c.op = "regenerate" THEN busy \ {"regenerating"}
      ELSE IF c.op = "settings" THEN busy \ {"savingSettings"}
      ELSE IF c.op = "create" THEN busy \ {"saving"} ELSE Rest(h)

RequestFails(h) ==
  /\ handler[h].pc \notin {"new", "done"}
  /\ Ended(h)
  /\ busy' = Gives(h) /\ failed' = TRUE
  /\ UNCHANGED <<open, server, seen, plain, late>>

EditingNext ==
  \/ \E h \in Handler :
       \/ ListMembers(h) \/ ListRoomMembers(h) \/ ReadInvite(h)
       \/ ListPats(h) \/ ListSessions(h) \/ CountRecoveryCodes(h)
       \/ ShowMembers(h) \/ ShowInvite(h) \/ HideInvite(h) \/ LoadSettings(h)
       \/ regenerateInvite(h) \/ toggleAllowMemberInvites(h) \/ regenerateRecoveryCodes(h)
       \/ \E i \in Item :
            \/ removeMember(h, i) \/ createToken(h, i) \/ revokeItem(h, i)
            \/ \E role \in Role : changeMemberRole(h, i, role) \/ addMember(h, i, role) \/ grantAccess(h, i, role)
       \/ Serves(h) \/ ThenLoads(h) \/ ShowRegenerated(h) \/ ShowSettings(h) \/ ShowEdited(h) \/ ShowNewCodes(h)
       \/ RequestFails(h)
  \/ DismissSecret

-----------------------------------------------------------------------------
(* Once a page's handlers are through it shows what the API holds, although *)
(* they overlapped: provided none failed, and no answer came after one that *)
(* was newer, which nothing prevents (README, 4.2), and that the caller may *)
(* see the invite.                                                          *)
AtRest == \A h \in Handler : handler[h].pc \in {"new", "done"}
Caught(part) == seen[part] = server[part]
PageCatchesUp ==
  AtRest /\ ~failed /\ ~late =>
    /\ Caught("list")
    /\ open # "room" /\ seen.code # None => Caught("code")
    /\ open = "organization" /\ seen.code # None => Caught("allowed")

(* Plaintext is shown of what the account has: a new token's secret until   *)
(* it is dismissed, and of recovery codes the set that works, since they    *)
(* are "shown once and cannot be retrieved later".                          *)
PlaintextWorks ==
  AtRest /\ ~failed /\ plain["codes"] # None => plain["codes"] = server.code
=============================================================================
