------------------------------- MODULE Publish -------------------------------
(***************************************************************************)
(* docker-publish.yml: how commits of main become images, and images the   *)
(* tags that users pull from two registries. Every push to main runs two   *)
(* build legs and, when both pass their gate, a manifest job; every        *)
(* version tag runs a promote job. Jobs of different commits and tags run  *)
(* side by side, each concurrency group one at a time; any job may fail at *)
(* any step, leaving what it wrote, and may be run again.                  *)
(*                                                                         *)
(* Commits are numbered in the order of their pushes. An image is what     *)
(* each of its legs was built from: a commit and which build of it (two    *)
(* builds of a commit differ, as the Dockerfile upgrades its packages).    *)
(* Operators whose name ends in _mutant are plausible mistakes in the      *)
(* definition that follows them.                                           *)
(***************************************************************************)
EXTENDS Integers, FiniteSets

CONSTANTS
    Commits,      \* 1..n: the pushes to main, in order
    Short,        \* the first seven digits of each commit's SHA
    Arches,       \* the platforms of the build matrix
    Versions,     \* version tags
    NoImage,      \* nothing under a tag
    MaxBuilds,    \* bound: builds of one commit and platform
    MaxFailures   \* bound: failures of jobs

Latest == "latest"

ASSUME PublishAssumption ==
    /\ IsFiniteSet(Commits) /\ Commits = 1..Cardinality(Commits)
    /\ Arches # {}
    /\ Short \in [Commits -> {Short[c] : c \in Commits}]
    /\ Latest \notin Versions
    /\ \A c \in Commits : Short[c] \notin Versions \cup {Latest}
    /\ MaxBuilds \in Nat
    /\ MaxFailures \in Nat

Tags == {Latest} \cup {Short[c] : c \in Commits} \cup Versions

(* A digest: what was built, from which commit, in which attempt. *)
Images == [commit : Commits, builds : [Arches -> 1..MaxBuilds]]

VARIABLES
    tip,       \* the last commit pushed to main, 0 before the first
    leg,       \* build leg of each commit and platform: "idle", "built",
               \* "saved" (gate passed, digest in the artifact), "failed"
    builds,    \* builds made of each commit and platform
    gated,     \* history: the builds that passed Trivy's gate
    manifest,  \* manifest job of each commit: "idle", "checked", "pushed",
               \* "done", "failed"
    isTip,     \* its answer to "is this still the tip of main", while it runs
    ghcr,      \* the tags of GHCR
    hub,       \* the tags of Docker Hub
    tagged,    \* the commit of each version tag, 0 before it exists
    promote,   \* promote job of each version: "idle", "waiting", "resolved",
               \* "verified", "pushed", "copied", "done", "failed"
    source,    \* the digest it resolved, while it runs
    released,  \* versions with a GitHub Release
    sbom,      \* the image whose SBOM is attached to the release
    published, \* history: images main's jobs have put under a tag of GHCR
    overtaken, \* history: commits whose manifest job had found them to be the
               \* tip, and had not ended, when the next was pushed
    failures   \* failures so far

build == <<leg, builds, gated>>
registries == <<ghcr, hub, published>>
releasing == <<tagged, promote, source, released, sbom>>
main == <<tip, overtaken>>
vars == <<main, build, manifest, isTip, registries, releasing, failures>>

-----------------------------------------------------------------------------
(* The build legs *)

ShaTag(c) == Short[c]

(* "Build & push by digest": no tag refers to it yet. *)
Build(c, a) ==
    /\ c <= tip
    /\ leg[c][a] = "idle"
    /\ builds[c][a] < MaxBuilds
    /\ leg' = [leg EXCEPT ![c][a] = "built"]
    /\ builds' = [builds EXCEPT ![c][a] = @ + 1]
    /\ UNCHANGED <<main, gated, manifest, isTip, registries, releasing, failures>>

(* The artifact of an earlier attempt is not overwritten: the upload fails. *)
PassGate_mutant(c, a) ==
    /\ leg[c][a] = "built"
    /\ \A n \in 1..MaxBuilds : <<c, a, n>> \notin gated
    /\ leg' = [leg EXCEPT ![c][a] = "saved"]
    /\ gated' = gated \cup {<<c, a, builds[c][a]>>}
    /\ UNCHANGED <<main, builds, manifest, isTip, registries, releasing, failures>>

(* The gate, and the digest that the manifest job will read. *)
PassGate(c, a) ==
    /\ leg[c][a] = "built"
    /\ leg' = [leg EXCEPT ![c][a] = "saved"]
    /\ gated' = gated \cup {<<c, a, builds[c][a]>>}
    /\ UNCHANGED <<main, builds, manifest, isTip, registries, releasing, failures>>

(* Findings that can be fixed, or anything else that goes wrong. *)
FailLeg(c, a) ==
    /\ leg[c][a] = "built"
    /\ failures < MaxFailures
    /\ failures' = failures + 1
    /\ leg' = [leg EXCEPT ![c][a] = "failed"]
    /\ UNCHANGED <<main, builds, gated, manifest, isTip, registries, releasing>>

-----------------------------------------------------------------------------
(* The manifest job *)

(* It does not wait for the legs' gates. *)
LegsPassed_mutant(c) == \A a \in Arches : leg[c][a] # "idle"

(* needs: build *)
LegsPassed(c) == \A a \in Arches : leg[c][a] = "saved"

(* What the artifacts of the two legs compose. *)
Composed(c) == [commit |-> c, builds |-> builds[c]]

(* It was when its run started. *)
IsTip_mutant(c) == c <= tip

(* "Check whether this commit is still the tip of main". Nothing stops a   *)
(* push, nor another commit's job, between this and the job's last write.  *)
IsTip(c) == c = tip

CheckTip(c) ==
    /\ manifest[c] = "idle"
    /\ LegsPassed(c)
    /\ manifest' = [manifest EXCEPT ![c] = "checked"]
    /\ isTip' = [isTip EXCEPT ![c] = IsTip(c)]
    /\ UNCHANGED <<main, build, registries, releasing, failures>>

(* "Extract Docker metadata" *)
TagsOf(c) == {ShaTag(c)} \cup {t \in {Latest} : isTip[c]}

(* What the registry had under other tags is lost. *)
Retagged_mutant(registry, T, i) == [t \in T |-> i]

(* A registry in which the tags T now mean image i. *)
Retagged(registry, T, i) == [t \in Tags |-> IF t \in T THEN i ELSE registry[t]]

CreateManifest(c) ==
    /\ manifest[c] = "checked"
    /\ manifest' = [manifest EXCEPT ![c] = "pushed"]
    /\ ghcr' = Retagged(ghcr, TagsOf(c), Composed(c))
    /\ published' = published \cup {Composed(c)}
    /\ UNCHANGED <<main, build, isTip, hub, releasing, failures>>

CopyManifest(c) ==
    /\ manifest[c] = "pushed"
    /\ manifest' = [manifest EXCEPT ![c] = "done"]
    /\ hub' = Retagged(hub, TagsOf(c), Composed(c))
    /\ isTip' = [isTip EXCEPT ![c] = FALSE]
    /\ UNCHANGED <<main, build, ghcr, published, releasing, failures>>

(* A step fails, after any of its tags has been written. *)
FailManifest(c) ==
    /\ manifest[c] \in {"checked", "pushed"}
    /\ failures < MaxFailures
    /\ failures' = failures + 1
    /\ manifest' = [manifest EXCEPT ![c] = "failed"]
    /\ isTip' = [isTip EXCEPT ![c] = FALSE]
    /\ \E T \in SUBSET TagsOf(c) :
          IF manifest[c] = "checked"
            THEN /\ ghcr' = Retagged(ghcr, T, Composed(c))
                 /\ published' = IF T = {} THEN published ELSE published \cup {Composed(c)}
                 /\ UNCHANGED hub
            ELSE hub' = Retagged(hub, T, Composed(c)) /\ UNCHANGED <<ghcr, published>>
    /\ UNCHANGED <<main, build, releasing>>

-----------------------------------------------------------------------------
(* Runs of main *)

Push ==
    /\ tip + 1 \in Commits
    /\ tip' = tip + 1
    /\ overtaken' = overtaken \cup {c \in Commits : isTip[c]}
    /\ UNCHANGED <<build, manifest, isTip, registries, releasing, failures>>

(* "Re-run failed jobs": the legs that failed, and the manifest job. *)
RerunFailed(c) ==
    /\ \A a \in Arches : leg[c][a] \in {"saved", "failed"}
    /\ manifest[c] = "failed" \/ \E a \in Arches : leg[c][a] = "failed"
    /\ \A a \in Arches : leg[c][a] = "failed" => builds[c][a] < MaxBuilds
    /\ leg' = [leg EXCEPT ![c] =
                  [a \in Arches |-> IF leg[c][a] = "failed" THEN "idle" ELSE leg[c][a]]]
    /\ manifest' = [manifest EXCEPT ![c] = "idle"]
    /\ UNCHANGED <<main, builds, gated, isTip, registries, releasing, failures>>

(* "Re-run all jobs", or a workflow_dispatch on main for its tip. *)
RebuildAll(c) ==
    /\ \A a \in Arches :
          /\ leg[c][a] \in {"saved", "failed"}
          /\ builds[c][a] + (MaxFailures - failures) < MaxBuilds
    /\ manifest[c] \in {"done", "failed"} \/ \E a \in Arches : leg[c][a] = "failed"
    /\ leg' = [leg EXCEPT ![c] = [a \in Arches |-> "idle"]]
    /\ manifest' = [manifest EXCEPT ![c] = "idle"]
    /\ UNCHANGED <<main, builds, gated, isTip, registries, releasing, failures>>

-----------------------------------------------------------------------------
(* The promote job *)

(* A version tag is cut from a commit on main, by release.yml (which has   *)
(* made the GitHub Release) or by hand (which may not have).               *)
TagVersion(v, c) ==
    /\ tagged[v] = 0
    /\ c <= tip
    /\ tagged' = [tagged EXCEPT ![v] = c]
    /\ promote' = [promote EXCEPT ![v] = "waiting"]
    /\ \E r \in SUBSET {v} : released' = released \cup r
    /\ UNCHANGED <<main, build, manifest, isTip, registries, source, sbom, failures>>

MakeRelease(v) ==
    /\ tagged[v] # 0
    /\ v \notin released
    /\ released' = released \cup {v}
    /\ UNCHANGED <<main, build, manifest, isTip, registries, tagged, promote, source, sbom, failures>>

(* "Wait for the source image to be published" *)
Resolve(v) ==
    /\ promote[v] = "waiting"
    /\ ghcr[ShaTag(tagged[v])] # NoImage
    /\ source' = [source EXCEPT ![v] = ghcr[ShaTag(tagged[v])]]
    /\ promote' = [promote EXCEPT ![v] = "resolved"]
    /\ UNCHANGED <<main, build, manifest, isTip, registries, tagged, released, sbom, failures>>

(* The label is not looked at. *)
BuiltFrom_mutant(i, c) == i # NoImage

(* org.opencontainers.image.revision *)
BuiltFrom(i, c) == i.commit = c

Verify(v) ==
    /\ promote[v] = "resolved"
    /\ promote' = [promote EXCEPT ![v] =
                      IF BuiltFrom(source[v], tagged[v]) THEN "verified" ELSE "failed"]
    /\ source' = [source EXCEPT ![v] =
                     IF BuiltFrom(source[v], tagged[v]) THEN @ ELSE NoImage]
    /\ UNCHANGED <<main, build, manifest, isTip, registries, tagged, released, sbom, failures>>

PromoteGhcr(v) ==
    /\ promote[v] = "verified"
    /\ ghcr' = [ghcr EXCEPT ![v] = source[v]]
    /\ promote' = [promote EXCEPT ![v] = "pushed"]
    /\ UNCHANGED <<main, build, manifest, isTip, hub, published, tagged, source, released, sbom, failures>>

(* The short tag is read again instead of the digest. *)
Promoted_mutant(v) == ghcr[ShaTag(tagged[v])]

(* IMAGE@DIGEST *)
Promoted(v) == source[v]

PromoteHub(v) ==
    /\ promote[v] = "pushed"
    /\ hub' = [hub EXCEPT ![v] = Promoted(v)]
    /\ promote' = [promote EXCEPT ![v] = "copied"]
    /\ UNCHANGED <<main, build, manifest, isTip, ghcr, published, tagged, source, released, sbom, failures>>

(* "Attach SBOM to the GitHub Release", made from the same digest *)
AttachSbom(v) ==
    /\ promote[v] = "copied"
    /\ v \in released
    /\ sbom' = [sbom EXCEPT ![v] = source[v]]
    /\ promote' = [promote EXCEPT ![v] = "done"]
    /\ source' = [source EXCEPT ![v] = NoImage]
    /\ UNCHANGED <<main, build, manifest, isTip, registries, tagged, released, failures>>

(* A step fails, or a wait ends: 30 minutes without the source image, 5    *)
(* without the release.                                                    *)
FailPromote(v) ==
    /\ promote[v] \in {"waiting", "resolved", "verified", "pushed", "copied"}
    /\ failures < MaxFailures
    /\ failures' = failures + 1
    /\ promote' = [promote EXCEPT ![v] = "failed"]
    /\ source' = [source EXCEPT ![v] = NoImage]
    /\ UNCHANGED <<main, build, manifest, isTip, registries, tagged, released, sbom>>

(* A re-run, or another dispatch for the tag: one at a time, from the start. *)
RerunPromote(v) ==
    /\ promote[v] \in {"failed", "done"}
    /\ promote' = [promote EXCEPT ![v] = "waiting"]
    /\ UNCHANGED <<main, build, manifest, isTip, registries, tagged, source, released, sbom, failures>>

-----------------------------------------------------------------------------
Init ==
    /\ tip = 0
    /\ leg = [c \in Commits |-> [a \in Arches |-> "idle"]]
    /\ builds = [c \in Commits |-> [a \in Arches |-> 0]]
    /\ gated = {}
    /\ manifest = [c \in Commits |-> "idle"]
    /\ isTip = [c \in Commits |-> FALSE]
    /\ ghcr = [t \in Tags |-> NoImage]
    /\ hub = [t \in Tags |-> NoImage]
    /\ tagged = [v \in Versions |-> 0]
    /\ promote = [v \in Versions |-> "idle"]
    /\ source = [v \in Versions |-> NoImage]
    /\ released = {}
    /\ sbom = [v \in Versions |-> NoImage]
    /\ published = {}
    /\ overtaken = {}
    /\ failures = 0

MainStep(c) ==
    \/ \E a \in Arches : Build(c, a) \/ PassGate(c, a)
    \/ CheckTip(c) \/ CreateManifest(c) \/ CopyManifest(c)

PromoteStep(v) ==
    Resolve(v) \/ Verify(v) \/ PromoteGhcr(v) \/ PromoteHub(v) \/ AttachSbom(v)

Next ==
    \/ Push
    \/ \E c \in Commits :
          \/ MainStep(c)
          \/ \E a \in Arches : FailLeg(c, a)
          \/ FailManifest(c) \/ RerunFailed(c) \/ RebuildAll(c)
    \/ \E v \in Versions :
          \/ \E c \in Commits : TagVersion(v, c)
          \/ MakeRelease(v) \/ PromoteStep(v) \/ FailPromote(v) \/ RerunPromote(v)

Safety == Init /\ [][Next]_vars
-----------------------------------------------------------------------------
(* Properties *)

(* Types of the state: what each job may be doing, and what a tag may mean *)
(* in either registry and in a release's SBOM.                             *)
TypeOK ==
    /\ tip \in Commits \cup {0}
    /\ leg \in [Commits -> [Arches -> {"idle", "built", "saved", "failed"}]]
    /\ builds \in [Commits -> [Arches -> 0..MaxBuilds]]
    /\ gated \subseteq Commits \X Arches \X (1..MaxBuilds)
    /\ manifest \in [Commits -> {"idle", "checked", "pushed", "done", "failed"}]
    /\ isTip \in [Commits -> BOOLEAN]
    /\ ghcr \in [Tags -> Images \cup {NoImage}]
    /\ hub \in [Tags -> Images \cup {NoImage}]
    /\ tagged \in [Versions -> Commits \cup {0}]
    /\ promote \in [Versions -> {"idle", "waiting", "resolved", "verified",
                                 "pushed", "copied", "done", "failed"}]
    /\ source \in [Versions -> Images \cup {NoImage}]
    /\ released \subseteq Versions
    /\ sbom \in [Versions -> Images \cup {NoImage}]
    /\ published \subseteq Images
    /\ overtaken \subseteq Commits
    /\ failures \in 0..MaxFailures

Scanned(i) == \A a \in Arches : <<i.commit, a, i.builds[a]>> \in gated

(* Nothing can be pulled by a tag, from either registry, whose every       *)
(* platform has not passed Trivy's gate as it is, whatever was rebuilt,    *)
(* re-run or left half-done since ("never a rebuild").                     *)
TagsAreGated ==
    \A registry \in {ghcr, hub} : \A t \in Tags :
        registry[t] # NoImage => Scanned(registry[t])

(* A version tag, and its SBOM, are of the commit the tag was cut from,    *)
(* even when another commit has taken its short SHA's tag meanwhile.       *)
VersionIsItsCommit ==
    \A registry \in {ghcr, hub, sbom} : \A v \in Versions :
        registry[v] # NoImage => registry[v].commit = tagged[v]

(* When the promote job of a version has ended well, both registries have  *)
(* the same image under it, the release's SBOM was made from that image,   *)
(* and it is one that main had already published: not another build.       *)
CompleteRelease ==
    \A v \in Versions : promote[v] = "done" =>
        /\ ghcr[v] \in published
        /\ hub[v] = ghcr[v]
        /\ sbom[v] = ghcr[v]

(* A step takes latest back, to a commit whose job no push has overtaken. *)
TakenBack(registry) ==
    /\ registry[Latest] # NoImage
    /\ registry'[Latest].commit < registry[Latest].commit
    /\ registry'[Latest].commit \notin overtaken

(* latest goes back, in either registry, only by the hand of a job that    *)
(* was between its check and its end when main moved on: not in whatever   *)
(* other order the commits' jobs end, fail and are run again. This is what *)
(* DeliveryPromise says of latest.                                         *)
OnlyOvertakenTakeBack ==
    [][~ TakenBack(ghcr) /\ ~ TakenBack(hub)]_vars

(* When every run that has started has ended well, both registries mean    *)
(* the same by every tag (CHANGELOG.md: "Both registries always carry the  *)
(* exact same, already-scanned image and digest").                         *)
Settled ==
    /\ \A c \in Commits : manifest[c] = "done" \/ \A a \in Arches : builds[c][a] = 0
    /\ \A v \in Versions : promote[v] \in {"idle", "done"}

RegistriesAgree == Settled => ghcr = hub

(* The jobs deliver what Delivery promises, step by step, whatever fails   *)
(* between two of them and is run again.                                   *)
Promise == INSTANCE Delivery WITH
               approved <- {i \in Images : Scanned(i)},
               late <- {c \in Commits : isTip[c] /\ c # tip}

DeliveryPromise == Promise!Spec

(* Runners make progress, and the maintainer runs what failed again and    *)
(* makes the release that promote waits for.                               *)
Fairness ==
    /\ \A c \in Commits : WF_vars(MainStep(c)) /\ WF_vars(RerunFailed(c))
    /\ \A v \in Versions :
          /\ WF_vars(PromoteStep(v))
          /\ WF_vars(MakeRelease(v))
          /\ WF_vars(promote[v] = "failed" /\ RerunPromote(v))

Spec == Safety /\ Fairness

(* Another commit of the same short SHA has the tag promote looks at. *)
Taken(v) ==
    /\ tagged[v] # 0
    /\ ghcr[ShaTag(tagged[v])] # NoImage
    /\ ghcr[ShaTag(tagged[v])].commit # tagged[v]

(* A version tag ends up promoted, in both registries and with its SBOM,   *)
(* whatever failed on the way and however much later than the tag its      *)
(* commit's image came, unless another commit has taken its short SHA.     *)
EveryVersionIsPromoted ==
    \A v \in Versions : (tagged[v] # 0) ~> (promote[v] = "done" \/ Taken(v))

LatestIn(registry) ==
    /\ registry[Latest] # NoImage
    /\ registry[Latest].commit \in {tip} \cup overtaken

(* Pushes over, the job of the last commit ends well, although one that is *)
(* not the tip's skips latest; and latest is that commit's image in both   *)
(* registries, unless a job that the push had overtaken has written it.    *)
LatestCatchesUp ==
    []<>(tip # 0 => manifest[tip] = "done" /\ LatestIn(ghcr) /\ LatestIn(hub))
=============================================================================
