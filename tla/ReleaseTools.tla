------------------------------ MODULE ReleaseTools ------------------------------
(***************************************************************************)
(* From a staged file to a release: the commit hooks (guard-staged.mjs,    *)
(* verify-commit-message.mjs), the planner (next-version.mjs) and the      *)
(* workflow that tags what CI has passed (.github/workflows/release.yml,   *)
(* of which several runs can overlap).                                     *)
(*                                                                         *)
(* main is a sequence of commits; a commit is what the scripts can tell of *)
(* its message, and whether its file has something the guard blocks.       *)
(***************************************************************************)
EXTENDS Integers, Sequences

CONSTANTS
  Message,   \* [form, type, breaking]: the messages people write
  Job,       \* runs of the release workflow
  MaxCommits

VARIABLES
  main,  \* the commits
  tag,   \* the commits released, by version
  notes, \* the commits each release lists
  job    \* the runs

releaseVars == <<main, tag, notes, job>>

Types == {"feat", "fix", "perf", "refactor", "docs", "test", "build", "ci", "style", "chore", "revert"}
SectionTypes == {"feat", "fix", "perf", "revert", "refactor", "docs", "test", "build", "ci", "style", "chore"}
Contents == {"clean", "blocked"}
NoPlan == [bump |-> "none", version |-> <<0, 0, 0>>, lists |-> {}]

ReleaseTypeOK ==
  /\ Len(main) <= MaxCommits
  /\ \A i \in DOMAIN main : main[i].message \in Message /\ main[i].verified \in BOOLEAN
  /\ \A v \in DOMAIN tag : v \in Nat \X Nat \X Nat /\ tag[v] \in DOMAIN main
  /\ DOMAIN notes = DOMAIN tag
  /\ \A j \in Job : job[j].pc \in {"new", "planned", "nothing", "published", "refused"}

ReleaseInit ==
  /\ main = <<>> /\ tag = <<>> /\ notes = <<>>
  /\ job = [j \in Job |-> [pc |-> "new", at |-> 0, plan |-> NoPlan]]
-----------------------------------------------------------------------------
(* guard-staged.mjs reads the staged blob, of files the worktree still has; *)
(* the worktree may have changed, or lost the file, since it was staged.    *)
Scanned(staged, worktree) == IF worktree = "gone" THEN "unseen" ELSE staged
GuardBlocks(staged, worktree) == Scanned(staged, worktree) = "blocked"

(* verify-commit-message.mjs: exempt headers, or a known type.              *)
Accepts(m) == m.form \in {"exempt", "merge"} \/ (m.form = "conventional" /\ m.type \in Types)

(* With --no-verify neither hook runs, nor do they for GitHub's merges.     *)
CommitChange(m, verify, staged, worktree) ==
  /\ Len(main) < MaxCommits
  /\ verify => Accepts(m) /\ ~GuardBlocks(staged, worktree)
  /\ main' = Append(main, [message |-> m, verified |-> verify,
                           file |-> IF verify /\ worktree # "gone" THEN staged ELSE "unseen"])
  /\ UNCHANGED <<tag, notes, job>>

-----------------------------------------------------------------------------
(* next-version.mjs                                                         *)
Higher(v, w) ==
  \/ v[1] > w[1]
  \/ v[1] = w[1] /\ v[2] > w[2]
  \/ v[1] = w[1] /\ v[2] = w[2] /\ v[3] > w[3]
lastReleaseTag == {v \in DOMAIN tag : \A w \in DOMAIN tag : v = w \/ Higher(v, w)}

(* The commits of HEAD that the last release does not reach, without merges.*)
commitsSince(tip) ==
  {i \in 1..tip : (\A v \in lastReleaseTag : i > tag[v]) /\ main[i].message.form # "merge"}

Bump(m) ==
  IF m.form # "conventional" THEN "none"
  ELSE IF m.breaking THEN "major"
  ELSE IF m.type = "feat" THEN "minor"
  ELSE IF m.type \in {"fix", "perf", "revert"} THEN "patch"
  ELSE "none"
Rank == [major |-> 3, minor |-> 2, patch |-> 1, none |-> 0]

(* renderNotes(): a section per known type, one for breaking changes, and   *)
(* one for what does not parse.                                             *)
Listed(i) ==
  LET m == main[i].message
  IN  m.form # "conventional" \/ m.breaking \/ m.type \in SectionTypes

Highest(bumps) == CHOOSE b \in bumps : \A c \in bumps : Rank[b] >= Rank[c]

Mutant_keepsPatch(v, bump) ==
  CASE bump = "major" -> <<v[1] + 1, 0, 0>>
    [] bump = "minor" -> <<v[1], v[2] + 1, v[3]>>
    [] OTHER -> <<v[1], v[2], v[3] + 1>>
nextVersion(v, bump) ==
  CASE bump = "major" -> <<v[1] + 1, 0, 0>>
    [] bump = "minor" -> <<v[1], v[2] + 1, 0>>
    [] OTHER -> <<v[1], v[2], v[3] + 1>>

Plan(tip) ==
  LET commits == commitsSince(tip)
      current == IF lastReleaseTag = {} THEN <<0, 0, 0>> ELSE CHOOSE v \in lastReleaseTag : TRUE
      bump == Highest({Bump(main[i].message) : i \in commits} \cup {"none"})
  IN  [bump |-> bump, version |-> nextVersion(current, bump), lists |-> {i \in commits : Listed(i)}]

-----------------------------------------------------------------------------
(* release.yml: a run for a commit that CI passed, in any order; the plan   *)
(* and the tag are two jobs, with the artifacts built in between.           *)
PlanRelease(j, tip) ==
  /\ job[j].pc = "new" /\ tip \in DOMAIN main
  /\ job' = [job EXCEPT ![j] = [pc |-> IF Plan(tip).bump = "none" THEN "nothing" ELSE "planned",
                                at |-> tip, plan |-> Plan(tip)]]
  /\ UNCHANGED <<main, tag, notes>>

Exists(v) == v \in DOMAIN tag
PublishRelease(j) ==
  LET v == job[j].plan.version
      with(f, x) == [w \in DOMAIN f \cup {v} |-> IF w = v THEN x ELSE f[w]]
  IN  /\ job[j].pc = "planned"
      /\ job' = [job EXCEPT ![j].pc = IF Exists(v) THEN "refused" ELSE "published"]
      /\ tag' = IF Exists(v) THEN tag ELSE with(tag, job[j].at)
      /\ notes' = IF Exists(v) THEN notes ELSE with(notes, job[j].plan.lists)
      /\ UNCHANGED main

ReleaseNext ==
  \/ \E m \in Message, verify \in BOOLEAN, staged \in Contents, worktree \in Contents \cup {"gone"} :
       CommitChange(m, verify, staged, worktree)
  \/ \E j \in Job : PublishRelease(j) \/ \E tip \in 1..MaxCommits : PlanRelease(j, tip)

-----------------------------------------------------------------------------
(* "A secret about to enter git history": what the hooks let through has    *)
(* nothing the guard blocks, whatever the worktree held by then, unless the *)
(* file was no longer in it.                                                *)
HistoryIsGuarded == \A i \in DOMAIN main : main[i].file # "blocked"

(* "Re-running this workflow must be safe": a version means one commit.     *)
TagsStay == \A v \in DOMAIN tag : v \in DOMAIN tag' /\ tag'[v] = tag[v]

(* However the runs overlap, a later commit has the higher version.         *)
VersionsFollowHistory ==
  \A v, w \in DOMAIN tag : tag[v] < tag[w] => Higher(w, v)

(* Every commit that passed the hooks and has been released is in the notes *)
(* of a release.                                                            *)
NotesAreComplete ==
  \A v \in DOMAIN tag : \A i \in 1..tag[v] :
    main[i].verified /\ main[i].message.form # "merge" => \E w \in DOMAIN notes : i \in notes[w]

(* A version says what it brings: nothing breaking in a minor release, no   *)
(* feature in a patch.                                                      *)
VersionsAreHonest ==
  \A v \in DOMAIN tag : \A i \in notes[v] :
    /\ Bump(main[i].message) = "major" => v[2] = 0 /\ v[3] = 0
    /\ Bump(main[i].message) = "minor" => v[3] = 0
=============================================================================
