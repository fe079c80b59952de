------------------------------- MODULE Release -------------------------------
(***************************************************************************)
(* release.yml: each push to main has a run of its own, which decides      *)
(* whether that push is a release, makes the tag and the GitHub Release,   *)
(* dispatches the container's publishing and closes the milestone. Runs of *)
(* different pushes go side by side; any may fail at any step, also after  *)
(* the step took effect, and be run again from its start; a maintainer may *)
(* tag, release and dispatch by hand as CONTRIBUTING.md describes.         *)
(*                                                                         *)
(* A push is what its pyproject.toml and CHANGELOG.md say: a version, and  *)
(* the versions with a well-formed heading. Versions may be reused.        *)
(* Operators whose name ends in _mutant are plausible mistakes in the      *)
(* definition that follows them.                                           *)
(***************************************************************************)
EXTENDS Integers, FiniteSets

CONSTANTS
    Pushes,       \* 1..n: the pushes to main, in order
    Versions,     \* what pyproject.toml's version may be
    MaxFailures,  \* bound: failures of runs
    MaxByHand     \* bound: what maintainers do by hand

ASSUME ReleaseAssumption ==
    /\ IsFiniteSet(Pushes) /\ Pushes = 1..Cardinality(Pushes)
    /\ MaxFailures \in Nat
    /\ MaxByHand \in Nat

VARIABLES
    tip,         \* the last push, 0 before the first
    version,     \* the version of each push
    headings,    \* the versions with a heading in each push's changelog
    run,         \* the run of each push: "none", "queued", "skipped",
                 \* "detected", "clear", "viewed", "created", "dispatched",
                 \* "done", "failed"
    tags,        \* the push each version's tag points to, 0 for no tag
    releases,    \* versions with a GitHub Release
    dispatched,  \* versions whose container publishing was dispatched, or
                 \* triggered by the push of their tag
    milestones,  \* versions with an open milestone
    failures,    \* failures so far
    byHand       \* history: what was done by hand, for which version

github == <<tags, releases, dispatched, milestones>>
history == <<tip, version, headings>>
vars == <<history, run, github, failures, byHand>>

-----------------------------------------------------------------------------
(* Detect version bump *)

(* github.event.before is a commit, and not the zeros of a new branch. *)
HaveBefore(c) == c > 1

NewVersion(c) == HaveBefore(c) => version[c] # version[c - 1]

ChangelogOk(c) == version[c] \in headings[c]

ChangelogOkBefore(c) == HaveBefore(c) /\ version[c] \in headings[c - 1]

(* "heading exists now, whatever pushed it there" *)
Attempt_mutant(c) == ChangelogOk(c)

Attempt(c) == NewVersion(c) \/ (ChangelogOk(c) /\ ~ ChangelogOkBefore(c))

(* Gated on whether the release exists, as a job that looks at its own     *)
(* past success would be.                                                  *)
IsRelease_mutant(c) == Attempt(c) /\ ChangelogOk(c) /\ version[c] \notin releases

IsRelease(c) == Attempt(c) /\ ChangelogOk(c)

Detect(c) ==
    /\ run[c] = "queued"
    /\ run' = [run EXCEPT ![c] = IF IsRelease(c) THEN "detected" ELSE "skipped"]
    /\ UNCHANGED <<history, github, failures, byHand>>

-----------------------------------------------------------------------------
(* Create GitHub Release and tag *)

(* Whatever the lookup of the tag answered, go on. *)
OwnOrNone_mutant(c) == tags[version[c]] \in Pushes \cup {0}

(* The commit the tag resolves to is this one, or there is no tag. *)
OwnOrNone(c) == tags[version[c]] \in {0, c}

Lookup(c) ==
    /\ run[c] = "detected"
    /\ run' = [run EXCEPT ![c] = IF OwnOrNone(c) THEN "clear" ELSE "failed"]
    /\ UNCHANGED <<history, github, failures, byHand>>

(* A release that is there already ends the job rather than the step. *)
AfterView_mutant(c) == IF version[c] \in releases THEN "done" ELSE "viewed"

(* A release that is there already is not created again. *)
AfterView(c) == IF version[c] \in releases THEN "created" ELSE "viewed"

(* The view may also fail for another reason, which reads like no release. *)
View(c) ==
    /\ run[c] = "clear"
    /\ \/ run' = [run EXCEPT ![c] = AfterView(c)] /\ UNCHANGED failures
       \/ /\ failures < MaxFailures
          /\ failures' = failures + 1
          /\ run' = [run EXCEPT ![c] = "viewed"]
    /\ UNCHANGED <<history, github, byHand>>

(* The commit before the push as the target *)
Tagged_mutant(v, c) == IF tags[v] = 0 THEN c - 1 ELSE tags[v]

(* The tag is forced onto the target. *)
Forced_mutant(v, c) == c

(* gh release create --target: the target is ignored when the tag exists. *)
Tagged(v, c) == IF tags[v] = 0 THEN c ELSE tags[v]

(* With the publishing that the new tag triggers. *)
Released(v, c, published) ==
    /\ v \notin releases
    /\ releases' = releases \cup {v}
    /\ tags' = [tags EXCEPT ![v] = Tagged(v, c)]
    /\ dispatched' = dispatched \cup published
    /\ UNCHANGED milestones

(* GITHUB_TOKEN's tags trigger nothing. *)
Create(c) ==
    /\ run[c] = "viewed"
    /\ \/ /\ Released(version[c], c, {})
          /\ run' = [run EXCEPT ![c] = "created"]
       \/ /\ version[c] \in releases
          /\ run' = [run EXCEPT ![c] = "failed"]
          /\ UNCHANGED github
    /\ UNCHANGED <<history, failures, byHand>>

-----------------------------------------------------------------------------
(* The steps after it, which every run that is not skipped must take *)

Dispatched(v) ==
    /\ tags[v] # 0
    /\ dispatched' = dispatched \cup {v}
    /\ UNCHANGED <<tags, releases, milestones>>

(* Trigger container publish *)
Dispatch(c) ==
    /\ run[c] = "created"
    /\ Dispatched(version[c])
    /\ run' = [run EXCEPT ![c] = "dispatched"]
    /\ UNCHANGED <<history, failures, byHand>>

Closed(v) ==
    /\ milestones' = milestones \ {v}
    /\ UNCHANGED <<tags, releases, dispatched>>

(* Close matching GitHub milestone, if one is open *)
CloseMilestone(c) ==
    /\ run[c] = "dispatched"
    /\ Closed(version[c])
    /\ run' = [run EXCEPT ![c] = "done"]
    /\ UNCHANGED <<history, failures, byHand>>

InProgress(c) ==
    run[c] \in {"queued", "detected", "clear", "viewed", "created", "dispatched"}

(* A step fails: before it did anything, or after, as when the answer to a *)
(* request that was carried out is lost. A lookup that is inconclusive and *)
(* notes that cannot be formatted fail the step before anything is done.   *)
Fail(c) ==
    /\ InProgress(c)
    /\ failures < MaxFailures
    /\ failures' = failures + 1
    /\ run' = [run EXCEPT ![c] = "failed"]
    /\ \/ UNCHANGED github
       \/ run[c] = "viewed" /\ Released(version[c], c, {})
       \/ run[c] = "created" /\ Dispatched(version[c])
       \/ run[c] = "dispatched" /\ Closed(version[c])
    /\ UNCHANGED <<history, byHand>>

(* "Re-run jobs": all its steps, on the same push and the same before. *)
Rerun(c) ==
    /\ run[c] \in {"failed", "done"}
    /\ run' = [run EXCEPT ![c] = "queued"]
    /\ UNCHANGED <<history, github, failures, byHand>>

-----------------------------------------------------------------------------
(* The surroundings *)

(* A merge of anything: a heading, once written, may also be removed. *)
Push(v, H) ==
    /\ tip + 1 \in Pushes
    /\ tip' = tip + 1
    /\ version' = [version EXCEPT ![tip + 1] = v]
    /\ headings' = [headings EXCEPT ![tip + 1] = H]
    /\ run' = [run EXCEPT ![tip + 1] = "queued"]
    /\ UNCHANGED <<github, failures, byHand>>

ByHand(v, what) ==
    /\ Cardinality(byHand) < MaxByHand
    /\ byHand' = byHand \cup {<<v, what>>}
    /\ UNCHANGED <<history, run, failures>>

(* git push origin vX.Y.Z, of any commit on main: publishing starts with   *)
(* the push of a tag that was not made with a workflow's token.            *)
TagByHand(v) ==
    /\ tags[v] = 0
    /\ \E c \in 1..tip : tags' = [tags EXCEPT ![v] = c]
    /\ dispatched' = dispatched \cup {v}
    /\ ByHand(v, "tag")
    /\ UNCHANGED <<releases, milestones>>

(* gh release create vX.Y.Z --target main, which may make the tag *)
ReleaseByHand(v) ==
    /\ tip # 0
    /\ Released(v, tip, IF tags[v] = 0 THEN {v} ELSE {})
    /\ ByHand(v, "release")

(* gh workflow run docker-publish.yml --ref vX.Y.Z *)
DispatchByHand(v) == Dispatched(v) /\ ByHand(v, "dispatch")

Init ==
    /\ tip = 0
    /\ \E v \in Versions : version = [c \in Pushes |-> v]
    /\ headings = [c \in Pushes |-> {}]
    /\ run = [c \in Pushes |-> "none"]
    /\ tags = [v \in Versions |-> 0]
    /\ releases = {}
    /\ dispatched = {}
    /\ milestones = Versions
    /\ failures = 0
    /\ byHand = {}

Step(c) ==
    Detect(c) \/ Lookup(c) \/ View(c) \/ Create(c) \/ Dispatch(c) \/ CloseMilestone(c)

Next ==
    \/ \E c \in Pushes : Step(c) \/ Fail(c) \/ Rerun(c)
    \/ \E v \in Versions :
          \/ \E H \in SUBSET Versions : Push(v, H)
          \/ TagByHand(v) \/ ReleaseByHand(v) \/ DispatchByHand(v)

(* Runners make progress, and a run that failed is run again. *)
Fairness ==
    \A c \in Pushes : WF_vars(Step(c)) /\ WF_vars(run[c] = "failed" /\ Rerun(c))

Safety == Init /\ [][Next]_vars
Spec == Safety /\ Fairness

-----------------------------------------------------------------------------
(* Properties *)

(* Types of the state: how far each run is, and what is on GitHub, where   *)
(* only a tag has a release or can be published.                           *)
TypeOK ==
    /\ tip \in Pushes \cup {0}
    /\ version \in [Pushes -> Versions]
    /\ headings \in [Pushes -> SUBSET Versions]
    /\ run \in [Pushes -> {"none", "queued", "skipped", "detected", "clear", "viewed",
                           "created", "dispatched", "done", "failed"}]
    /\ tags \in [Versions -> Pushes \cup {0}]
    /\ releases \subseteq {v \in Versions : tags[v] # 0}
    /\ dispatched \subseteq {v \in Versions : tags[v] # 0}
    /\ milestones \subseteq Versions
    /\ failures \in 0..MaxFailures
    /\ byHand \subseteq Versions \X {"tag", "release", "dispatch"}

(* The push brought the version, or the heading without which it was not   *)
(* releasable yet.                                                         *)
Introduces(c, v) ==
    /\ version[c] = v /\ v \in headings[c]
    /\ c > 1 => version[c - 1] # v \/ v \notin headings[c - 1]

(* A tag that no hand has made is on a push that made its version          *)
(* releasable: an unrelated later push never decides what is released,     *)
(* whichever run goes first.                                               *)
TagIsAtIntroduction ==
    \A v \in Versions :
        tags[v] # 0 => Introduces(tags[v], v) \/ \E what \in {"tag", "release"} : <<v, what>> \in byHand

(* Step by step, whatever fails and is run again, the runs do to each      *)
(* version what Lifecycle promises: one tag that stays, a release from     *)
(* where the version was introduced, then the dispatch, then the closing.  *)
Promise == INSTANCE Lifecycle WITH
    introduced <- {p \in Versions \X Pushes : p[2] <= tip /\ Introduces(p[2], p[1])}

LifecyclePromise == Promise!Spec

(* A run that has ended well leaves nothing undone, whichever attempts of  *)
(* it failed where: its version has a tag and a release, its container was *)
(* dispatched and its milestone is closed.                                 *)
DoneIsComplete ==
    \A c \in Pushes : run[c] = "done" =>
        /\ tags[version[c]] # 0
        /\ version[c] \in releases
        /\ version[c] \in dispatched
        /\ version[c] \notin milestones

(* Once the tag of a push's version is known to be another push's, before  *)
(* its run has looked, that run never gets past the release step: nothing  *)
(* is dispatched or closed for it, in this attempt or in any other.        *)
WrongTagStops ==
    \A c \in Pushes :
        [](/\ run[c] \in {"queued", "detected"}
           /\ tags[version[c]] \notin {0, c}
           => [](run[c] \notin {"created", "dispatched", "done"}))

(* A push that makes a version releasable ends up released and done, for   *)
(* any step that failed on the way, unless its version's tag is elsewhere. *)
EveryReleaseIsCompleted ==
    \A c \in Pushes :
        (run[c] = "queued" /\ Introduces(c, version[c]))
            ~> (run[c] = "done" \/ tags[version[c]] \notin {0, c})

(* What is released, dispatched and closed by a push's run is that push    *)
(* (the comment on the release step: resolving the tag up front and        *)
(* "rejecting a mismatch before ever calling `gh release create` closes    *)
(* that gap").                                                             *)
ReleasesItsOwn ==
    \A c \in Pushes :
        run[c] \in {"created", "dispatched", "done"} => tags[version[c]] = c
=============================================================================
