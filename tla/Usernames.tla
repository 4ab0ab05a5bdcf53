------------------------------- MODULE Usernames -------------------------------
(***************************************************************************)
(* Accounts and their usernames: POST /v1/auth/register and PATCH          *)
(* /v1/auth/me of apps/api/src/application.ts, the users collection of     *)
(* apps/api/src/repository.ts with the indexes its boot builds, and the    *)
(* script that resolves old duplicates (scripts/dedupe-usernames.ts).      *)
(*                                                                         *)
(* Every repository call is one step, and so is every call of the script to*)
(* the database.  An account is named by the request that registered it,   *)
(* or is one of those that were there before usernames were checked, which *)
(* is how two of them can share a name.                                    *)
(***************************************************************************)
EXTENDS Integers, FiniteSets

CONSTANTS
  Registration, \* requests to register; each is made once
  Edit,         \* requests to edit a profile; each is made once
  Old,          \* accounts from before usernames were checked
  Email, Name,  \* addresses, and the usernames people ask for
  Generated,    \* usernames with a random suffix
  LongName      \* those of Name that leave no room for a suffix (32 characters)

VARIABLES
  user,        \* the documents of `users`
  age,         \* createdAt, as a rank
  credential, session, codes, \* the accounts that have one
  uniqueIndex, \* whether the unique index on username has been built
  req,         \* the requests
  script,      \* the dedupe script: the groups it has listed and not reached, the
               \* one it is at, and the accounts of that one it has still to rename
  held,        \* history: who has held which username
  outranked    \* history: who has ever shared a username with an older account

past == <<held, outranked>>
nameVars == <<user, age, credential, session, codes, uniqueIndex, req, script, past>>

Account == Registration \cup Old
Username == Name \cup Generated
NoUser == [email |-> "none"]
User == [email : Email \cup Old, username : Username, displayName : {"first"} \cup Edit]
Exists == {a \in Account : user[a] # NoUser}
Holders(n) == {a \in Exists : user[a].username = n}
Duplicated == {n \in Username : Cardinality(Holders(n)) > 1}

Request == Registration \cup Edit
Pc == {"new", "name", "insert", "credential", "session", "codes", "check", "write",
       "done", "email_in_use", "username_in_use", "failed"}

NamesTypeOK ==
  /\ \A a \in Account : user[a] \in User \cup {NoUser}
  /\ age \in [Account -> Nat]
  /\ credential \subseteq Exists /\ session \subseteq credential /\ codes \subseteq session
  /\ uniqueIndex \in BOOLEAN
  /\ \A r \in Request : req[r].pc \in Pc
  /\ script.pc \in {"ready", "renaming", "done", "failed"}
  /\ script.losers \subseteq Exists
  /\ script.pc = "renaming" => script.todo # {} \/ script.losers # {}
  /\ \A a, b \in Exists : user[a].email = user[b].email => a = b
  /\ uniqueIndex => Duplicated = {}

Waiting == [pc |-> "new", as |-> NoUser]

(* Those who, with these documents u of these ages g, share a username with *)
(* an older account.                                                        *)
Outranked(u, g) ==
  {a \in Account : u[a] # NoUser
                    /\ \E b \in Account : /\ u[b] # NoUser
                                          /\ u[b].username = u[a].username /\ g[b] < g[a]}

NamesInit ==
  /\ \E n \in [Old -> Name] :
       /\ user = [a \in Account |-> IF a \in Old
                                    THEN [email |-> a, username |-> n[a], displayName |-> "first"]
                                    ELSE NoUser]
       /\ held = {<<a, n[a]>> : a \in Old}
  /\ age \in {f \in [Account -> 0..Cardinality(Old)] :
                /\ \A a \in Registration : f[a] = 0
                /\ \A a, b \in Old : f[a] # 0 /\ (f[a] = f[b] => a = b)}
  /\ credential = Old /\ session = Old /\ codes = Old
  /\ uniqueIndex = FALSE
  /\ req = [r \in Request |-> Waiting]
  /\ script = [pc |-> "ready", todo |-> {}, group |-> "none", losers |-> {}, quiet |-> TRUE]
  /\ outranked = Outranked(user, age)

Goes(r, pc) == req' = [req EXCEPT ![r].pc = pc]
database == <<user, age, credential, session, codes, uniqueIndex, past>>

(* What a write to `users` leaves behind.                                   *)
Noted ==
  /\ held' = held \cup {<<a, user'[a].username>> : a \in {b \in Account : user'[b] # NoUser}}
  /\ outranked' = outranked \cup Outranked(user', age')
Disturbed == script' = [script EXCEPT !.quiet = FALSE]

(* isDuplicateUsernameError: the database refuses a name, once it can.      *)
TakenFor(a, n) == uniqueIndex /\ Holders(n) \ {a} # {}

-----------------------------------------------------------------------------
(* POST /v1/auth/register                                                   *)

Register(r, e) ==
  /\ r \in Registration /\ req[r].pc = "new"
  /\ req' = [req EXCEPT ![r].pc = IF \E a \in Exists : user[a].email = e THEN "email_in_use" ELSE "name",
                        ![r].as = [email |-> e, username |-> "none", displayName |-> "first"]]
  /\ UNCHANGED <<database, script>>

(* deriveUsername(): the address's own name when it is free, a free one     *)
(* with a suffix otherwise.                                                 *)
DerivedFrom(n) == IF Holders(n) = {} THEN {n} ELSE {g \in Generated : Holders(g) = {}}

DeriveUsername(r, n) ==
  /\ req[r].pc = "name"
  /\ \E d \in DerivedFrom(n) :
       req' = [req EXCEPT ![r].pc = "insert", ![r].as.username = d]
  /\ UNCHANGED <<database, script>>

ChooseUsername(r, n) ==
  /\ req[r].pc = "name"
  /\ req' = [req EXCEPT ![r].pc = IF Holders(n) = {} THEN "insert" ELSE "username_in_use",
                        ![r].as.username = n]
  /\ UNCHANGED <<database, script>>

(* createUser(): the unique indexes decide; the credential is a second      *)
(* document.                                                                *)
EmailTaken(r) == \E a \in Exists : user[a].email = req[r].as.email

InsertUser(r) ==
  /\ req[r].pc = "insert"
  /\ IF EmailTaken(r) \/ TakenFor(r, req[r].as.username)
     THEN /\ Goes(r, IF EmailTaken(r) THEN "failed" ELSE "username_in_use")
          /\ UNCHANGED <<user, age, past, script>>
     ELSE /\ user' = [user EXCEPT ![r] = req[r].as]
          /\ age' = [age EXCEPT ![r] = 1 + Cardinality(Exists)]
          /\ Noted /\ Disturbed
          /\ Goes(r, "credential")
  /\ UNCHANGED <<credential, session, codes, uniqueIndex>>

InsertCredential(r) ==
  /\ req[r].pc = "credential" /\ Goes(r, "session")
  /\ credential' = credential \cup {r}
  /\ UNCHANGED <<user, age, session, codes, uniqueIndex, script, past>>

(* createSession(), then issueRecoveryCodes().                              *)
AfterSession == "codes"
OpenSession(r) ==
  /\ req[r].pc = "session" /\ Goes(r, AfterSession)
  /\ session' = session \cup {r}
  /\ UNCHANGED <<user, age, credential, codes, uniqueIndex, script, past>>

IssueCodes(r) ==
  /\ req[r].pc = "codes" /\ Goes(r, "done")
  /\ codes' = codes \cup {r}
  /\ UNCHANGED <<user, age, credential, session, uniqueIndex, script, past>>

-----------------------------------------------------------------------------
(* PATCH /v1/auth/me: authenticate() has read the whole user document.      *)

EditProfile(r, a) ==
  /\ r \in Edit /\ req[r].pc = "new" /\ a \in session
  /\ req' = [req EXCEPT ![r] = [pc |-> "check", account |-> a, as |-> user[a]]]
  /\ UNCHANGED <<database, script>>

(* A new username is looked up, unless it is the one the copy has.          *)
Others(r, n) == Holders(n) \ {req[r].account}
CheckUsername(r, n) ==
  /\ req[r].pc = "check"
  /\ req' = [req EXCEPT ![r].pc = IF n # req[r].as.username /\ Others(r, n) # {}
                                  THEN "username_in_use" ELSE "write",
                        ![r].as.username = n, ![r].as.displayName = r]
  /\ UNCHANGED <<database, script>>

(* updateUser() replaces the document by the copy.                          *)
WriteProfile(r) ==
  LET a == req[r].account
  IN  /\ req[r].pc = "write"
      /\ UNCHANGED <<age, credential, session, codes, uniqueIndex>>
      /\ IF TakenFor(a, req[r].as.username)
         THEN Goes(r, "username_in_use") /\ UNCHANGED <<user, past, script>>
         ELSE /\ user' = [user EXCEPT ![a] = req[r].as]
              /\ Noted /\ Disturbed /\ Goes(r, "done")

(* A call fails or the process dies: what was written stays.                *)
Fail(r) ==
  /\ req[r].pc \in {"insert", "credential", "session", "codes", "write"}
  /\ Goes(r, "failed") /\ UNCHANGED <<database, script>>

-----------------------------------------------------------------------------
(* ensureUniqueUsernameIndex(), as an instance of the API boots.            *)
Boot ==
  /\ ~uniqueIndex /\ uniqueIndex' = (Duplicated = {})
  /\ UNCHANGED <<user, age, credential, session, codes, req, script, past>>

(* dedupe-usernames --apply lists the groups once, and the holders of a     *)
(* group when it reaches it.  It can be run again.                          *)
ListGroups ==
  /\ script.pc # "renaming"
  /\ script' = [pc |-> IF Duplicated = {} THEN "done" ELSE "renaming", todo |-> Duplicated,
                group |-> "none", losers |-> {}, quiet |-> TRUE]
  /\ UNCHANGED <<database, req>>

(* What is still to do: the losers of this group and the groups after it.   *)
GoesOn(todo, group, losers) ==
  script' = [script EXCEPT !.pc = IF todo = {} /\ losers = {} THEN "done" ELSE "renaming",
                           !.todo = todo, !.group = group, !.losers = losers]
GivesUp == script' = [script EXCEPT !.pc = "failed", !.todo = {}, !.group = "none", !.losers = {}]

(* find().toArray(): the oldest of those who hold the name now keeps it.    *)
(* When nobody does any more there is no keeper, and the script throws.     *)
Mutant_newest(n) == {a \in Holders(n) : \A b \in Holders(n) : age[b] <= age[a]}
Keeper(n) == {a \in Holders(n) : \A b \in Holders(n) : age[a] <= age[b]}

FindHolders(n) ==
  /\ script.pc = "renaming" /\ script.losers = {} /\ n \in script.todo
  /\ IF Holders(n) = {} THEN GivesUp
     ELSE GoesOn(script.todo \ {n}, n, Holders(n) \ Keeper(n))
  /\ UNCHANGED <<database, req>>

(* A suffix makes the name a new one, unless the name fills the field: then *)
(* the suffix is cut off again.                                             *)
Mutant_cutsSuffix(n) == {n}
Suffixed(n) == IF n \in LongName THEN {n} ELSE {g \in Generated : Holders(g) = {}}

(* updateOne() of the next loser, found by its id alone: whatever name it,  *)
(* or the keeper, has by now.  Only a unique index built meanwhile refuses. *)
RenameLoser(a) ==
  /\ a \in script.losers /\ \A b \in script.losers : age[a] <= age[b]
  /\ UNCHANGED <<age, credential, session, codes, uniqueIndex, req>>
  /\ \E new \in Suffixed(script.group) :
       IF TakenFor(a, new) THEN GivesUp /\ UNCHANGED <<user, past>>
       ELSE /\ user' = [user EXCEPT ![a].username = new]
            /\ Noted
            /\ GoesOn(script.todo, script.group, script.losers \ {a})

(* A call of the script fails, and the script exits.                        *)
ScriptFails == script.pc = "renaming" /\ GivesUp /\ UNCHANGED <<database, req>>

NamesNext ==
  \/ \E r \in Registration :
       \/ \E e \in Email : Register(r, e)
       \/ \E n \in Name : DeriveUsername(r, n) \/ ChooseUsername(r, n)
       \/ InsertUser(r) \/ InsertCredential(r) \/ OpenSession(r) \/ IssueCodes(r)
  \/ \E r \in Edit :
       \/ \E a \in Account : EditProfile(r, a)
       \/ \E n \in Username : CheckUsername(r, n)
       \/ WriteProfile(r)
  \/ \E r \in Request : Fail(r)
  \/ Boot \/ ListGroups \/ ScriptFails
  \/ \E n \in Username : FindHolders(n)
  \/ \E a \in Account : RenameLoser(a)

-----------------------------------------------------------------------------
(* Whoever is told that a username is taken asked for one that somebody     *)
(* else has had: nobody is refused a name because the account itself has it *)
(* or had it.                                                               *)
Self(r) == IF r \in Edit THEN req[r].account ELSE r
RefusalsJustified ==
  \A r \in Request : req[r].pc = "username_in_use" =>
    \E a \in Account \ {Self(r)} : <<a, req[r].as.username>> \in held

(* An answered registration left an account that can be signed in to and    *)
(* recovered, alone with its address.                                       *)
RegistrationComplete ==
  \A r \in Registration : req[r].pc = "done" => r \in Exists \cap credential \cap session \cap codes

(* "Applied. Restart the API so the unique index builds": after the script, *)
(* when nobody wrote meanwhile, the index can be built.                     *)
DuplicatesResolved == script.pc = "done" /\ script.quiet => Duplicated = {}

Edits(a) == \E r \in Edit : req[r].pc = "write" /\ req[r].account = a /\ req'[r].pc = "done"

(* "The oldest account keeps the username": whoever is the oldest holder of *)
(* a name loses it only by its own edit.  The code does not keep this when  *)
(* somebody edits a profile between the script's find and its updates.      *)
KeepsName ==
  \A a \in Exists :
    LET n == user[a].username
    IN  (\A b \in Holders(n) : age[a] <= age[b]) /\ user'[a].username # n => Edits(a)

(* What it does keep: a script that nobody disturbs leaves every name with  *)
(* its oldest holder, and one that runs beside the API renames only whoever *)
(* has at some time shared a name with an older account.                    *)
SparesOldest ==
  /\ script.quiet => KeepsName
  /\ \A a \in Exists \ outranked : user'[a].username # user[a].username => Edits(a)
=============================================================================
