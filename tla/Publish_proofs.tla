--------------------------- MODULE Publish_proofs ---------------------------
(***************************************************************************)
(* What any number of commits, platforms, versions, builds and failures    *)
(* leave true of the tags: TypeOK, TagsAreGated, VersionIsItsCommit,       *)
(* OnlyOvertakenTakeBack and CompleteRelease of Publish. A job's state is  *)
(* only meaningful with that of the jobs it needs, so the invariants below *)
(* go together: JobInv relates a commit's manifest job to its legs,        *)
(* TaggedInv and SourceInv a promote job to its tag and what it resolved,  *)
(* LatestInv that the jobs that may write latest are the tip's and those   *)
(* that a push has overtaken; ShaTagsInv and Promotion, further down, say  *)
(* what a promotion has found and left behind. From all but LatestInv      *)
(* follows that Publish implements Delivery, step by step.                 *)
(***************************************************************************)
EXTENDS Publish, FiniteSetTheorems, TLAPS

Running(c) == manifest[c] \in {"checked", "pushed"}

JobInv ==
    /\ \A c \in Commits, a \in Arches : leg[c][a] # "idle" => c <= tip /\ builds[c][a] >= 1
    /\ \A c \in Commits, a \in Arches :
          leg[c][a] = "saved" => <<c, a, builds[c][a]>> \in gated
    /\ \A c \in Commits : Running(c) => c <= tip /\ LegsPassed(c)
    /\ \A c \in Commits : isTip[c] => Running(c)

SourceInv == \A v \in Versions :
    /\ promote[v] = "resolved" => source[v] # NoImage
    /\ promote[v] \in {"verified", "pushed", "copied"} =>
          source[v] # NoImage /\ source[v].commit = tagged[v]

Upto(registry, c) == registry[Latest] # NoImage => registry[Latest].commit <= c

LatestInv ==
    /\ Upto(ghcr, tip) /\ Upto(hub, tip)
    /\ \A c \in Commits : isTip[c] => c = tip \/ c \in overtaken

TaggedInv == \A v \in Versions : promote[v] # "idle" => tagged[v] # 0

Inv == TypeOK /\ JobInv /\ TaggedInv

-----------------------------------------------------------------------------
(* Commits are numbered from one. *)
LEMMA CommitsAreNumbers == Commits \subseteq Nat /\ 0 \notin Commits
<1>1. Cardinality(Commits) \in Nat BY FS_CardinalityType, PublishAssumption
<1>2. Commits = 1..Cardinality(Commits) BY PublishAssumption
<1> QED BY <1>1, <1>2

LEMMA BoundsAreNumbers == MaxBuilds \in Nat /\ MaxFailures \in Nat
BY PublishAssumption

LEMMA ImageOfRunning ==
  ASSUME NEW c \in Commits, TypeOK, JobInv, LegsPassed(c)
  PROVE  Composed(c) \in Images /\ Scanned(Composed(c))
<1>1. \A a \in Arches : builds[c][a] \in 1..MaxBuilds
  BY PublishAssumption DEF TypeOK, JobInv, LegsPassed
<1>2. builds[c] \in [Arches -> 1..MaxBuilds]
  BY <1>1 DEF TypeOK
<1> QED BY <1>2 DEF Composed, Images, JobInv, LegsPassed, Scanned

LEMMA TagsAreTyped ==
  ASSUME NEW registry \in [Tags -> Images \cup {NoImage}], NEW T, NEW i \in Images
  PROVE  Retagged(registry, T, i) \in [Tags -> Images \cup {NoImage}]
BY DEF Retagged

(* The steps of the legs. *)
LEMMA LegsKeepInv ==
  ASSUME Inv, NEW c \in Commits, NEW a \in Arches,
         Build(c, a) \/ PassGate(c, a) \/ FailLeg(c, a)
  PROVE  Inv'
<1>t. TaggedInv'
  BY DEF Inv, TaggedInv, Build, PassGate, FailLeg, releasing
<1>1. CASE Build(c, a)
  <2>1. builds[c][a] + 1 \in 0..MaxBuilds
    <3>1. builds[c][a] \in 0..MaxBuilds BY DEF Inv, TypeOK
    <3>2. builds[c][a] < MaxBuilds BY <1>1 DEF Build
    <3> QED BY <3>1, <3>2, BoundsAreNumbers
  <2>2. TypeOK'
    BY <1>1, <2>1 DEF main, Inv, TypeOK, Build, registries, releasing
  <2>3. JobInv'
    BY <1>1 DEF main, Inv, TypeOK, JobInv, Running, LegsPassed, Build
  <2> QED BY <1>t, <2>2, <2>3 DEF Inv
<1>2. CASE PassGate(c, a)
  <2>1. builds[c][a] \in 1..MaxBuilds
    <3>1. builds[c][a] \in 0..MaxBuilds BY DEF Inv, TypeOK
    <3>2. builds[c][a] >= 1 BY <1>2 DEF Inv, JobInv, PassGate
    <3> QED BY <3>1, <3>2, BoundsAreNumbers
  <2>2. TypeOK'
    BY <1>2, <2>1 DEF main, Inv, TypeOK, PassGate, registries, releasing
  <2>3. JobInv'
    BY <1>2 DEF main, Inv, TypeOK, JobInv, Running, LegsPassed, PassGate
  <2> QED BY <1>t, <2>2, <2>3 DEF Inv
<1>3. CASE FailLeg(c, a)
  <2>0. failures' \in 0..MaxFailures
    BY <1>3, BoundsAreNumbers DEF Inv, TypeOK, FailLeg
  <2>1. TypeOK'
    BY <1>3, <2>0 DEF main, Inv, TypeOK, FailLeg, registries, releasing
  <2>2. JobInv'
    BY <1>3 DEF main, Inv, TypeOK, JobInv, Running, LegsPassed, FailLeg
  <2> QED BY <1>t, <2>1, <2>2 DEF Inv
<1> QED BY <1>1, <1>2, <1>3

(* The steps of a manifest job. *)
LEMMA ManifestKeepsInv ==
  ASSUME Inv, NEW c \in Commits,
         CheckTip(c) \/ CreateManifest(c) \/ CopyManifest(c) \/ FailManifest(c)
  PROVE  Inv'
<1>t. TaggedInv'
  BY DEF Inv, TaggedInv, CheckTip, CreateManifest, CopyManifest, FailManifest, releasing
<1>1. LegsPassed(c)
  BY DEF Inv, JobInv, Running, CheckTip, CreateManifest, CopyManifest, FailManifest
<1>2. Composed(c) \in Images
  BY <1>1, ImageOfRunning DEF Inv
<1>3. \A T : /\ Retagged(ghcr, T, Composed(c)) \in [Tags -> Images \cup {NoImage}]
             /\ Retagged(hub, T, Composed(c)) \in [Tags -> Images \cup {NoImage}]
  BY <1>2, TagsAreTyped DEF Inv, TypeOK
<1>4. /\ manifest' \in [Commits -> {"idle", "checked", "pushed", "done", "failed"}]
      /\ isTip' \in [Commits -> BOOLEAN]
  <2>1. CASE CheckTip(c) BY <2>1 DEF Inv, TypeOK, CheckTip, IsTip
  <2>2. CASE CreateManifest(c) BY <2>2 DEF Inv, TypeOK, CreateManifest
  <2>3. CASE CopyManifest(c) BY <2>3 DEF Inv, TypeOK, CopyManifest
  <2>4. CASE FailManifest(c) BY <2>4 DEF Inv, TypeOK, FailManifest
  <2> QED BY <2>1, <2>2, <2>3, <2>4
<1>0. failures' \in 0..MaxFailures
  <2>1. failures' = failures \/ (failures < MaxFailures /\ failures' = failures + 1)
    BY DEF CheckTip, CreateManifest, CopyManifest, FailManifest
  <2> QED BY <2>1, BoundsAreNumbers DEF Inv, TypeOK
<1>5. /\ ghcr' \in [Tags -> Images \cup {NoImage}]
      /\ hub' \in [Tags -> Images \cup {NoImage}]
      /\ published' \subseteq Images
  <2>1. CASE CheckTip(c) BY <2>1 DEF Inv, TypeOK, CheckTip, registries
  <2>2. CASE CreateManifest(c) BY <2>2, <1>2, <1>3 DEF Inv, TypeOK, CreateManifest
  <2>3. CASE CopyManifest(c) BY <2>3, <1>3 DEF Inv, TypeOK, CopyManifest
  <2>4. CASE FailManifest(c) BY <2>4, <1>2, <1>3 DEF Inv, TypeOK, FailManifest
  <2> QED BY <2>1, <2>2, <2>3, <2>4
<1>6. UNCHANGED <<main, leg, builds, gated, tagged, promote, source, released, sbom>>
  BY DEF CheckTip, CreateManifest, CopyManifest, FailManifest, build, releasing
<1>7. TypeOK'
  BY <1>0, <1>4, <1>5, <1>6 DEF main, Inv, TypeOK
<1>8. c <= tip
  <2>1. CASE CheckTip(c)
    <3>1. PICK a \in Arches : TRUE BY PublishAssumption
    <3> QED BY <1>1, <3>1 DEF Inv, JobInv, LegsPassed
  <2> QED
    BY <2>1 DEF Inv, JobInv, Running, CreateManifest, CopyManifest, FailManifest
<1>9. JobInv'
  BY <1>1, <1>6, <1>8 DEF main, Inv, TypeOK, JobInv, Running, LegsPassed, CheckTip, CreateManifest,
        CopyManifest, FailManifest
<1> QED BY <1>t, <1>7, <1>9 DEF Inv

(* A push, and the re-runs of a commit's jobs. *)
LEMMA RunsKeepInv ==
  ASSUME Inv, Push \/ \E c \in Commits : RerunFailed(c) \/ RebuildAll(c)
  PROVE  Inv'
<1>t. TaggedInv'
  BY DEF Inv, TaggedInv, Push, RerunFailed, RebuildAll, releasing
<1>1. CASE Push
  <2>1. TypeOK'
    BY <1>1 DEF Inv, TypeOK, Push, build, registries, releasing
  <2>2. tip \in Nat
    BY CommitsAreNumbers DEF Inv, TypeOK
  <2>3. tip' = tip + 1 /\ UNCHANGED <<leg, builds, gated, manifest, isTip>>
    BY <1>1 DEF Push, build
  <2>4. \A c \in Commits : c <= tip => c <= tip'
    BY <2>2, <2>3, CommitsAreNumbers
  <2>5. \A c \in Commits : (Running(c) <=> Running(c)') /\ (LegsPassed(c) <=> LegsPassed(c)')
    BY <2>3 DEF Running, LegsPassed
  <2>6. JobInv'
    BY <2>3, <2>4, <2>5 DEF Inv, JobInv
  <2> QED BY <1>t, <2>1, <2>6 DEF Inv
<1>2. ASSUME NEW c \in Commits, RerunFailed(c)
      PROVE  Inv'
  <2>1. TypeOK'
    BY <1>2 DEF main, Inv, TypeOK, RerunFailed, registries, releasing
  <2>2. JobInv'
    BY <1>2 DEF main, Inv, TypeOK, JobInv, Running, LegsPassed, RerunFailed
  <2> QED BY <1>t, <2>1, <2>2 DEF Inv
<1>3. ASSUME NEW c \in Commits, RebuildAll(c)
      PROVE  Inv'
  <2>1. TypeOK'
    BY <1>3 DEF main, Inv, TypeOK, RebuildAll, registries, releasing
  <2>2. JobInv'
    BY <1>3 DEF main, Inv, TypeOK, JobInv, Running, LegsPassed, RebuildAll
  <2> QED BY <1>t, <2>1, <2>2 DEF Inv
<1> QED BY <1>1, <1>2, <1>3

(* The steps of a version: none touches what JobInv is about. *)
LEMMA VersionsKeepInv ==
  ASSUME Inv, NEW v \in Versions,
         \/ \E c \in Commits : TagVersion(v, c)
         \/ MakeRelease(v) \/ PromoteStep(v) \/ FailPromote(v) \/ RerunPromote(v)
  PROVE  Inv'
<1>1. UNCHANGED <<main, leg, builds, gated, manifest, isTip, published>>
  BY DEF TagVersion, MakeRelease, PromoteStep, Resolve, Verify, PromoteGhcr, PromoteHub,
         AttachSbom, FailPromote, RerunPromote, build, registries
<1>2. JobInv' /\ TaggedInv'
  <2>1. JobInv' BY <1>1 DEF main, Inv, JobInv, Running, LegsPassed
  <2>2. TaggedInv'
    BY CommitsAreNumbers DEF Inv, TypeOK, TaggedInv, TagVersion, MakeRelease, PromoteStep, Resolve,
       Verify, PromoteGhcr, PromoteHub, AttachSbom, FailPromote, RerunPromote
  <2> QED BY <2>1, <2>2
<1>3. failures' \in 0..MaxFailures
  <2>1. failures' = failures \/ (failures < MaxFailures /\ failures' = failures + 1)
    BY DEF TagVersion, MakeRelease, PromoteStep, Resolve, Verify, PromoteGhcr, PromoteHub,
           AttachSbom, FailPromote, RerunPromote
  <2> QED BY <2>1, BoundsAreNumbers DEF Inv, TypeOK
<1>4. v \in Tags /\ \A c \in Commits : ShaTag(c) \in Tags
  BY DEF Tags, ShaTag
<1>5. /\ tagged' \in [Versions -> Commits \cup {0}]
      /\ promote' \in [Versions -> {"idle", "waiting", "resolved", "verified",
                                    "pushed", "copied", "done", "failed"}]
      /\ released' \subseteq Versions
  BY DEF Inv, TypeOK, TagVersion, MakeRelease, PromoteStep, Resolve, Verify, PromoteGhcr,
         PromoteHub, AttachSbom, FailPromote, RerunPromote
<1>6. /\ source' \in [Versions -> Images \cup {NoImage}]
      /\ sbom' \in [Versions -> Images \cup {NoImage}]
  <2>1. CASE Resolve(v)
    <3>1. tagged[v] \in Commits BY <2>1 DEF Inv, TypeOK, TaggedInv, Resolve
    <3> QED BY <2>1, <3>1, <1>4 DEF Inv, TypeOK, Resolve
  <2> QED
    BY <2>1 DEF Inv, TypeOK, TagVersion, MakeRelease, PromoteStep, Verify, PromoteGhcr,
           PromoteHub, AttachSbom, FailPromote, RerunPromote
<1>7. /\ ghcr' \in [Tags -> Images \cup {NoImage}]
      /\ hub' \in [Tags -> Images \cup {NoImage}]
  BY <1>4 DEF Inv, TypeOK, TagVersion, MakeRelease, PromoteStep, Resolve, Verify, PromoteGhcr,
         PromoteHub, Promoted, AttachSbom, FailPromote, RerunPromote, registries
<1>8. TypeOK'
  BY <1>1, <1>3, <1>5, <1>6, <1>7 DEF main, Inv, TypeOK
<1> QED BY <1>2, <1>8 DEF Inv

LEMMA InitIsTyped == Init => Inv
BY PublishAssumption DEF Init, Inv, TypeOK, JobInv, TaggedInv, Running

LEMMA StepsKeepInv == Inv /\ [Next]_vars => Inv'
<1> SUFFICES ASSUME Inv, [Next]_vars
             PROVE  Inv'
  OBVIOUS
<1>1. ASSUME NEW c \in Commits,
             \/ MainStep(c)
             \/ \E a \in Arches : FailLeg(c, a)
             \/ FailManifest(c)
      PROVE  Inv'
  BY <1>1, LegsKeepInv, ManifestKeepsInv DEF MainStep
<1>2. CASE UNCHANGED vars
  BY <1>2 DEF vars, main, build, registries, releasing, Inv, TypeOK, JobInv, TaggedInv, Running, LegsPassed
<1> QED BY <1>1, <1>2, RunsKeepInv, VersionsKeepInv DEF Next

(* Whatever the jobs of however many commits and versions do, the state    *)
(* stays well-typed, and a manifest job only runs on legs that passed.     *)
THEOREM PublishTypeCorrect == Safety => []TypeOK
<1>1. Inv => TypeOK BY DEF Inv
<1> QED BY InitIsTyped, StepsKeepInv, <1>1, PTL DEF Safety

-----------------------------------------------------------------------------
(* What a step may put under a tag of a registry: what was there, what a   *)
(* running manifest job composes, or what a promote job has verified.      *)
Writes(t, old, new) ==
    \/ new = old
    \/ \E c \in Commits : Running(c) /\ t \in TagsOf(c) /\ new = Composed(c)
    \/ \E v \in Versions :
          promote[v] \in {"verified", "pushed"} /\ t = v /\ new = source[v]

LEMMA WhatIsWritten ==
  ASSUME TypeOK, [Next]_vars, NEW t \in Tags
  PROVE  Writes(t, ghcr[t], ghcr'[t]) /\ Writes(t, hub[t], hub'[t])
<1>1. CASE UNCHANGED <<ghcr, hub>>
  BY <1>1 DEF Writes
<1>2. ASSUME NEW c \in Commits,
             CreateManifest(c) \/ CopyManifest(c) \/ FailManifest(c)
      PROVE  Writes(t, ghcr[t], ghcr'[t]) /\ Writes(t, hub[t], hub'[t])
  <2>1. CASE CreateManifest(c)
    BY <2>1 DEF CreateManifest, Writes, Retagged, Running
  <2>2. CASE CopyManifest(c)
    BY <2>2 DEF CopyManifest, Writes, Retagged, Running
  <2>3. CASE FailManifest(c)
    <3>1. PICK T \in SUBSET TagsOf(c) :
             /\ ghcr' = Retagged(ghcr, T, Composed(c)) \/ ghcr' = ghcr
             /\ hub' = Retagged(hub, T, Composed(c)) \/ hub' = hub
      BY <2>3 DEF FailManifest
    <3>2. Running(c) BY <2>3 DEF FailManifest, Running
    <3>3. t \in T => t \in TagsOf(c) BY <3>1
    <3>4. Writes(t, ghcr[t], ghcr'[t])
      BY <3>1, <3>2, <3>3 DEF Writes, Retagged
    <3>5. Writes(t, hub[t], hub'[t])
      BY <3>1, <3>2, <3>3 DEF Writes, Retagged
    <3> QED BY <3>4, <3>5
  <2> QED BY <1>2, <2>1, <2>2, <2>3
<1>3. ASSUME NEW v \in Versions, PromoteGhcr(v) \/ PromoteHub(v)
      PROVE  Writes(t, ghcr[t], ghcr'[t]) /\ Writes(t, hub[t], hub'[t])
  BY <1>3 DEF PromoteGhcr, PromoteHub, Promoted, Writes, TypeOK
<1>4. ASSUME NEW c \in Commits,
             \/ \E a \in Arches : Build(c, a) \/ PassGate(c, a) \/ FailLeg(c, a)
             \/ CheckTip(c) \/ RerunFailed(c) \/ RebuildAll(c)
      PROVE  UNCHANGED <<ghcr, hub>>
  BY <1>4 DEF Build, PassGate, FailLeg, CheckTip, RerunFailed, RebuildAll, registries
<1>5. ASSUME NEW v \in Versions,
             \/ \E c \in Commits : TagVersion(v, c)
             \/ MakeRelease(v) \/ Resolve(v) \/ Verify(v) \/ AttachSbom(v)
             \/ FailPromote(v) \/ RerunPromote(v)
      PROVE  UNCHANGED <<ghcr, hub>>
  BY <1>5 DEF TagVersion, MakeRelease, Resolve, Verify, AttachSbom, FailPromote, RerunPromote,
         registries
<1>6. CASE Push \/ UNCHANGED vars
  BY <1>1, <1>6 DEF Push, vars, registries
<1> QED
  BY <1>1, <1>2, <1>3, <1>4, <1>5, <1>6 DEF Next, MainStep, PromoteStep

-----------------------------------------------------------------------------
(* No build is struck off the list of those that passed. *)
LEMMA GatedGrows ==
  ASSUME [Next]_vars, NEW i, Scanned(i)
  PROVE  \A a \in Arches : <<i.commit, a, i.builds[a]>> \in gated'
<1>1. gated \subseteq gated'
  BY DEF Next, vars, MainStep, PromoteStep, Push, Build, PassGate, FailLeg, CheckTip,
     CreateManifest, CopyManifest, FailManifest, RerunFailed, RebuildAll, TagVersion, MakeRelease,
     Resolve, Verify, PromoteGhcr, PromoteHub, AttachSbom, FailPromote, RerunPromote, build
<1> QED BY <1>1 DEF Scanned

SourceScanned == \A v \in Versions : source[v] # NoImage => Scanned(source[v])

LEMMA SourceKept ==
  ASSUME Inv, TagsAreGated, SourceScanned, [Next]_vars
  PROVE  SourceScanned'
<1>1. ASSUME NEW v \in Versions, source'[v] # NoImage
      PROVE  source'[v] = source[v] \/ \E t \in Tags : source'[v] = ghcr[t]
  <2>1. CASE \E w \in Versions : Resolve(w)
    <3>1. PICK w \in Versions : Resolve(w) BY <2>1
    <3>2. tagged[w] \in Commits BY <3>1 DEF Inv, TypeOK, TaggedInv, Resolve
    <3>3. ShaTag(tagged[w]) \in Tags BY <3>2 DEF Tags, ShaTag
    <3> QED BY <3>1, <3>3 DEF Inv, TypeOK, Resolve
  <2>2. CASE \E w \in Versions :
                \/ \E c \in Commits : TagVersion(w, c)
                \/ MakeRelease(w) \/ Verify(w) \/ PromoteGhcr(w) \/ PromoteHub(w)
                \/ AttachSbom(w) \/ FailPromote(w) \/ RerunPromote(w)
    BY <1>1, <2>2 DEF Inv, TypeOK, TagVersion, MakeRelease, Verify, PromoteGhcr, PromoteHub,
           AttachSbom, FailPromote, RerunPromote
  <2>3. CASE \/ Push \/ UNCHANGED vars
             \/ \E c \in Commits :
                   \/ MainStep(c) \/ \E a \in Arches : FailLeg(c, a)
                   \/ FailManifest(c) \/ RerunFailed(c) \/ RebuildAll(c)
    BY <2>3 DEF MainStep, Push, Build, PassGate, FailLeg, CheckTip, CreateManifest, CopyManifest,
       FailManifest, RerunFailed, RebuildAll, releasing, vars
  <2> QED BY <2>1, <2>2, <2>3 DEF Next, PromoteStep
<1>2. ASSUME NEW v \in Versions, source'[v] # NoImage
      PROVE  Scanned(source'[v])
  BY <1>1, <1>2 DEF TagsAreGated, SourceScanned
<1> QED BY <1>2, GatedGrows DEF SourceScanned, Scanned

LEMMA RegistriesStayGated ==
  ASSUME Inv, TagsAreGated, SourceScanned, [Next]_vars
  PROVE  TagsAreGated'
<1>1. ASSUME NEW t \in Tags, NEW old, NEW new, new # NoImage,
             old # NoImage => Scanned(old), Writes(t, old, new)
      PROVE  Scanned(new)
  <2>1. ASSUME NEW c \in Commits, Running(c) PROVE Scanned(Composed(c))
    BY <2>1, ImageOfRunning DEF Inv, JobInv
  <2> QED BY <1>1, <2>1 DEF Writes, SourceScanned
<1>2. ASSUME NEW t \in Tags
      PROVE  /\ ghcr'[t] # NoImage => Scanned(ghcr'[t])
             /\ hub'[t] # NoImage => Scanned(hub'[t])
  <2>1. Writes(t, ghcr[t], ghcr'[t]) /\ Writes(t, hub[t], hub'[t])
    BY WhatIsWritten DEF Inv
  <2>2. /\ ghcr[t] # NoImage => Scanned(ghcr[t])
        /\ hub[t] # NoImage => Scanned(hub[t])
    BY DEF TagsAreGated
  <2> QED BY <1>1, <2>1, <2>2
<1> QED BY <1>2, GatedGrows DEF TagsAreGated, Scanned

(* Nothing can be pulled by tag from either registry that Trivy's gate has *)
(* not passed, for any number of commits, platforms and failures.          *)
THEOREM OnlyGatedImages == Safety => []TagsAreGated
<1>1. Init => TagsAreGated /\ SourceScanned
  BY DEF Init, TagsAreGated, SourceScanned
<1>2. Inv /\ TagsAreGated /\ SourceScanned /\ [Next]_vars => (TagsAreGated /\ SourceScanned)'
  BY SourceKept, RegistriesStayGated
<1> QED BY <1>1, <1>2, InitIsTyped, StepsKeepInv, PTL DEF Safety

-----------------------------------------------------------------------------
(* A version's tag is cut once. *)
LEMMA TagsStay ==
  ASSUME TypeOK, [Next]_vars, NEW v \in Versions
  PROVE  tagged'[v] = tagged[v] \/ (tagged[v] = 0 /\ tagged'[v] \in Commits)
<1>1. ASSUME NEW w \in Versions, NEW c \in Commits, TagVersion(w, c)
      PROVE  tagged'[v] = tagged[v] \/ (tagged[v] = 0 /\ tagged'[v] \in Commits)
  BY <1>1 DEF TagVersion, TypeOK
<1>2. CASE UNCHANGED tagged
  BY <1>2
<1> QED
  BY <1>1, <1>2 DEF Next, vars, MainStep, PromoteStep, Push, Build, PassGate, FailLeg, CheckTip,
     CreateManifest, CopyManifest, FailManifest, RerunFailed, RebuildAll, MakeRelease,
     Resolve, Verify, PromoteGhcr, PromoteHub, AttachSbom, FailPromote, RerunPromote, releasing

LEMMA SourceIsVerified ==
  ASSUME Inv, SourceInv, [Next]_vars
  PROVE  SourceInv'
<1>1. CASE UNCHANGED <<promote, source, tagged>>
  BY <1>1 DEF SourceInv
<1>2. ASSUME NEW w \in Versions,
             \/ \E c \in Commits : TagVersion(w, c)
             \/ Resolve(w) \/ PromoteGhcr(w) \/ PromoteHub(w)
             \/ AttachSbom(w) \/ FailPromote(w) \/ RerunPromote(w)
      PROVE  SourceInv'
  BY <1>2 DEF Inv, TypeOK, SourceInv, TagVersion, Resolve, PromoteGhcr, PromoteHub, AttachSbom,
     FailPromote, RerunPromote
<1>3. ASSUME NEW w \in Versions, Verify(w)
      PROVE  SourceInv'
  BY <1>3 DEF Inv, TypeOK, SourceInv, Verify, BuiltFrom
<1> QED
  BY <1>1, <1>2, <1>3 DEF Next, vars, MainStep, PromoteStep, Push, Build, PassGate, FailLeg,
     CheckTip, CreateManifest, CopyManifest, FailManifest, RerunFailed, RebuildAll, MakeRelease,
     releasing

(* The tags of main's jobs are not those of versions. *)
LEMMA TagsOfMain ==
  ASSUME NEW c \in Commits
  PROVE  TagsOf(c) \cap Versions = {}
BY PublishAssumption DEF TagsOf, ShaTag

LEMMA VersionsAreTags == Versions \subseteq Tags
BY DEF Tags

LEMMA VersionsStayRight ==
  ASSUME Inv, SourceInv, VersionIsItsCommit, [Next]_vars
  PROVE  VersionIsItsCommit'
<1>1. ASSUME NEW v \in Versions, NEW old, NEW new, new # NoImage,
             old # NoImage => old.commit = tagged[v], Writes(v, old, new)
      PROVE  new.commit = tagged[v]
  BY <1>1, TagsOfMain DEF Writes, SourceInv
<1>2. ASSUME NEW v \in Versions
      PROVE  /\ ghcr'[v] # NoImage => ghcr'[v].commit = tagged[v]
             /\ hub'[v] # NoImage => hub'[v].commit = tagged[v]
  <2>1. Writes(v, ghcr[v], ghcr'[v]) /\ Writes(v, hub[v], hub'[v])
    BY WhatIsWritten, VersionsAreTags DEF Inv
  <2>2. /\ ghcr[v] # NoImage => ghcr[v].commit = tagged[v]
        /\ hub[v] # NoImage => hub[v].commit = tagged[v]
    BY DEF VersionIsItsCommit
  <2> QED BY <1>1, <2>1, <2>2
<1>3. ASSUME NEW v \in Versions, sbom'[v] # NoImage
      PROVE  sbom'[v].commit = tagged[v]
  <2>1. CASE \E w \in Versions : AttachSbom(w)
    BY <1>3, <2>1 DEF Inv, TypeOK, AttachSbom, SourceInv, VersionIsItsCommit
  <2>2. CASE UNCHANGED sbom
    BY <1>3, <2>2 DEF VersionIsItsCommit
  <2> QED
    BY <2>1, <2>2 DEF Next, vars, MainStep, PromoteStep, Push, Build, PassGate, FailLeg,
       CheckTip, CreateManifest, CopyManifest, FailManifest, RerunFailed, RebuildAll, TagVersion,
       MakeRelease, Resolve, Verify, PromoteGhcr, PromoteHub, FailPromote, RerunPromote, releasing
<1>4. ASSUME NEW v \in Versions, tagged[v] = 0
      PROVE  ghcr'[v] = NoImage /\ hub'[v] = NoImage /\ sbom'[v] = NoImage
  <2>1. \A i \in Images : i.commit # 0
    BY CommitsAreNumbers DEF Images
  <2>2. /\ ghcr[v] = NoImage /\ hub[v] = NoImage /\ sbom[v] = NoImage
    BY <1>4, <2>1, VersionsAreTags DEF Inv, TypeOK, VersionIsItsCommit
  <2>3. ghcr'[v] \in Images \cup {NoImage} /\ hub'[v] \in Images \cup {NoImage}
        /\ sbom'[v] \in Images \cup {NoImage}
    BY StepsKeepInv, VersionsAreTags DEF Inv, TypeOK
  <2> QED BY <1>2, <1>3, <1>4, <2>1, <2>3
<1>5. \A v \in Versions : tagged'[v] = tagged[v] \/ tagged[v] = 0
  BY TagsStay DEF Inv
<1> QED BY <1>2, <1>3, <1>4, <1>5 DEF VersionIsItsCommit

(* What is under a version tag, or described by its SBOM, is of the commit *)
(* the tag was cut from, however short SHAs collide.                       *)
THEOREM VersionsAreTheirCommits == Safety => []VersionIsItsCommit
<1>1. Init => VersionIsItsCommit /\ SourceInv
  BY VersionsAreTags DEF Init, VersionIsItsCommit, SourceInv
<1>2. Inv /\ SourceInv /\ VersionIsItsCommit /\ [Next]_vars => (SourceInv /\ VersionIsItsCommit)'
  BY SourceIsVerified, VersionsStayRight
<1> QED BY <1>1, <1>2, InitIsTyped, StepsKeepInv, PTL DEF Safety

-----------------------------------------------------------------------------
(* A job that runs has just checked, or still has the answer it got.       *)
LEMMA WhoRuns ==
  ASSUME Inv, [Next]_vars, NEW c \in Commits, Running(c)'
  PROVE  \/ CheckTip(c)
         \/ Running(c) /\ isTip'[c] = isTip[c]
<1>1. CASE \E d \in Commits : CheckTip(d) \/ CreateManifest(d) \/ CopyManifest(d) \/ FailManifest(d)
  BY <1>1 DEF Inv, TypeOK, Running, CheckTip, CreateManifest, CopyManifest, FailManifest
<1>2. CASE \E d \in Commits : RerunFailed(d) \/ RebuildAll(d)
  BY <1>2 DEF Inv, TypeOK, Running, RerunFailed, RebuildAll
<1>3. CASE UNCHANGED <<manifest, isTip>>
  BY <1>3 DEF Running
<1> QED
  BY <1>1, <1>2, <1>3 DEF Next, vars, MainStep, PromoteStep, Push, Build, PassGate, FailLeg,
     TagVersion, MakeRelease, Resolve, Verify, PromoteGhcr, PromoteHub, AttachSbom, FailPromote,
     RerunPromote

LEMMA WritesOfLatest ==
  ASSUME Inv, LatestInv, NEW old, NEW new, Writes(Latest, old, new), NEW n \in Nat,
         old # NoImage => old.commit <= n,
         \A c \in Commits : Running(c) /\ isTip[c] => c <= n
  PROVE  new # NoImage => new.commit <= n
<1>1. \A c \in Commits : Running(c) /\ Latest \in TagsOf(c) => isTip[c]
  BY PublishAssumption DEF TagsOf, ShaTag
<1> QED BY <1>1, PublishAssumption DEF Writes, Composed

LEMMA LatestIsTagged == Latest \in Tags
BY DEF Tags

(* A push makes a commit the tip and overtakes the jobs that have taken    *)
(* theirs for it; no other step moves either.                              *)
LEMMA TipMoves ==
  ASSUME Inv, [Next]_vars
  PROVE  /\ tip \in Nat
         /\ UNCHANGED main \/ Push
<1>1. tip \in Nat BY CommitsAreNumbers DEF Inv, TypeOK
<1>2. UNCHANGED main \/ Push
  BY DEF Next, vars, MainStep, PromoteStep, Build, PassGate, FailLeg, CheckTip,
     CreateManifest, CopyManifest, FailManifest, RerunFailed, RebuildAll, TagVersion, MakeRelease,
     Resolve, Verify, PromoteGhcr, PromoteHub, AttachSbom, FailPromote, RerunPromote
<1> QED BY <1>1, <1>2

LEMMA LatestKept ==
  ASSUME Inv, LatestInv, [Next]_vars
  PROVE  LatestInv'
<1>0. Commits \subseteq Nat
  BY CommitsAreNumbers
<1>1. Writes(Latest, ghcr[Latest], ghcr'[Latest]) /\ Writes(Latest, hub[Latest], hub'[Latest])
  BY WhatIsWritten, LatestIsTagged DEF Inv
<1>2. \A c \in Commits : Running(c) => c <= tip
  BY DEF Inv, JobInv
<1>3. tip' \in Nat /\ tip \in Nat /\ tip <= tip'
  BY TipMoves DEF main, Push
<1>4. /\ ghcr'[Latest] # NoImage => ghcr'[Latest].commit \in Nat
      /\ hub'[Latest] # NoImage => hub'[Latest].commit \in Nat
  BY <1>0, StepsKeepInv, LatestIsTagged DEF Inv, TypeOK, Images
<1>5. Upto(ghcr, tip)' /\ Upto(hub, tip)'
  <2>1. ghcr'[Latest] # NoImage => ghcr'[Latest].commit <= tip
    BY <1>1, <1>2, <1>3, WritesOfLatest DEF LatestInv, Upto
  <2>2. hub'[Latest] # NoImage => hub'[Latest].commit <= tip
    BY <1>1, <1>2, <1>3, WritesOfLatest DEF LatestInv, Upto
  <2> QED BY <1>3, <1>4, <2>1, <2>2 DEF Upto
<1>6. ASSUME NEW c \in Commits, isTip'[c]
      PROVE  c = tip' \/ c \in overtaken'
  <2>1. Running(c)'
    BY <1>6, StepsKeepInv DEF Inv, JobInv
  <2>2. CASE CheckTip(c)
    BY <1>6, <2>2 DEF CheckTip, IsTip, Inv, TypeOK, main
  <2>3. CASE isTip[c] /\ Push
    BY <2>3 DEF Push
  <2>4. CASE isTip[c] /\ UNCHANGED main
    BY <2>4 DEF LatestInv, main
  <2> QED BY <1>6, <2>1, <2>2, <2>3, <2>4, WhoRuns, TipMoves
<1> QED BY <1>5, <1>6 DEF LatestInv

(* latest goes back in a registry only by a job that a push overtook       *)
(* between its check and its end, whatever the order in which any number   *)
(* of commits' jobs run, fail and run again.                               *)
THEOREM LatestGoesBackOnlyOvertaken == Safety => OnlyOvertakenTakeBack
<1>1. Init => LatestInv
  BY LatestIsTagged DEF Init, LatestInv, Upto
<1>2. ASSUME Inv, LatestInv, [Next]_vars
      PROVE  ~ TakenBack(ghcr) /\ ~ TakenBack(hub)
  <2>1. Writes(Latest, ghcr[Latest], ghcr'[Latest]) /\ Writes(Latest, hub[Latest], hub'[Latest])
    BY <1>2, WhatIsWritten, LatestIsTagged DEF Inv
  <2>2. \A c \in Commits : Latest \in TagsOf(c) => isTip[c]
    BY PublishAssumption DEF TagsOf, ShaTag
  <2>3. ASSUME NEW old, NEW new, Writes(Latest, old, new), old.commit \in Nat, old.commit <= tip,
               new.commit \notin overtaken
        PROVE  ~ new.commit < old.commit
    <3>1. CASE new = old
      BY <2>3, <3>1
    <3>2. ASSUME NEW c \in Commits, Running(c), Latest \in TagsOf(c), new = Composed(c)
          PROVE  ~ new.commit < old.commit
      <4>1. new.commit = c
        BY <3>2 DEF Composed
      <4>2. c = tip
        BY <1>2, <2>2, <2>3, <3>2, <4>1 DEF LatestInv
      <4> QED BY <1>2, <2>3, <4>1, <4>2, TipMoves
    <3> QED BY <2>3, <3>1, <3>2, PublishAssumption DEF Writes
  <2>4. /\ ghcr[Latest] # NoImage => ghcr[Latest].commit \in Nat
        /\ hub[Latest] # NoImage => hub[Latest].commit \in Nat
    BY <1>2, CommitsAreNumbers, LatestIsTagged DEF Inv, TypeOK, Images
  <2>5. ~ TakenBack(ghcr)
    BY <1>2, <2>1, <2>3, <2>4 DEF LatestInv, Upto, TakenBack
  <2>6. ~ TakenBack(hub)
    BY <1>2, <2>1, <2>3, <2>4 DEF LatestInv, Upto, TakenBack
  <2> QED BY <2>5, <2>6
<1>3. Inv /\ LatestInv /\ [Next]_vars => LatestInv'
  BY LatestKept
<1> QED BY <1>1, <1>2, <1>3, InitIsTyped, StepsKeepInv, PTL DEF Safety, OnlyOvertakenTakeBack

-----------------------------------------------------------------------------
(* What promote finds under a short SHA is an image that main published.   *)
ShaTagsInv == \A c \in Commits : ghcr[ShaTag(c)] \in published \cup {NoImage}

(* What main has published stays in the history.                         *)
LEMMA PublishedGrows ==
  ASSUME [Next]_vars
  PROVE  published \subseteq published'
BY DEF Next, vars, MainStep, PromoteStep, Push, Build, PassGate, FailLeg, CheckTip,
   CreateManifest, CopyManifest, FailManifest, RerunFailed, RebuildAll, TagVersion, MakeRelease,
   Resolve, Verify, PromoteGhcr, PromoteHub, AttachSbom, FailPromote, RerunPromote, registries

LEMMA ShaTagsPublished ==
  ASSUME Inv, ShaTagsInv, [Next]_vars, NEW c \in Commits
  PROVE  ghcr'[ShaTag(c)] \in published' \cup {NoImage}
<1>0. ShaTag(c) \in Tags /\ ShaTag(c) \notin Versions
  BY PublishAssumption DEF ShaTag, Tags
<1>1. CASE ghcr'[ShaTag(c)] = ghcr[ShaTag(c)]
  BY <1>1, PublishedGrows DEF ShaTagsInv
<1>2. ASSUME NEW d \in Commits, CreateManifest(d)
      PROVE  ghcr'[ShaTag(c)] = ghcr[ShaTag(c)] \/ ghcr'[ShaTag(c)] \in published'
  BY <1>0, <1>2 DEF CreateManifest, Retagged
<1>3. ASSUME NEW d \in Commits, FailManifest(d)
      PROVE  ghcr'[ShaTag(c)] = ghcr[ShaTag(c)] \/ ghcr'[ShaTag(c)] \in published'
  <2>1. PICK T \in SUBSET TagsOf(d) :
           \/ ghcr' = Retagged(ghcr, T, Composed(d)) /\ (T = {} \/ Composed(d) \in published')
           \/ ghcr' = ghcr
    BY <1>3 DEF FailManifest
  <2> QED BY <1>0, <2>1 DEF Retagged
<1>4. ASSUME NEW v \in Versions, PromoteGhcr(v)
      PROVE  ghcr'[ShaTag(c)] = ghcr[ShaTag(c)]
  BY <1>0, <1>4 DEF PromoteGhcr, Inv, TypeOK
<1>5. CASE UNCHANGED ghcr
  BY <1>1, <1>5
<1> QED
  BY <1>1, <1>2, <1>3, <1>4, <1>5 DEF Next, vars, MainStep, PromoteStep, Push, Build, PassGate,
     FailLeg, CheckTip, CopyManifest, RerunFailed, RebuildAll, TagVersion, MakeRelease,
     Resolve, Verify, PromoteHub, AttachSbom, FailPromote, RerunPromote, registries

(* Main's jobs leave versions alone. *)
LEMMA MainLeavesVersions ==
  ASSUME Inv, NEW v \in Versions, NEW c \in Commits,
         MainStep(c) \/ (\E a \in Arches : FailLeg(c, a)) \/ FailManifest(c)
           \/ RerunFailed(c) \/ RebuildAll(c)
  PROVE  ghcr'[v] = ghcr[v] /\ hub'[v] = hub[v] /\ UNCHANGED releasing
<1>0. v \in Tags /\ v \notin TagsOf(c)
  BY VersionsAreTags, TagsOfMain
<1>1. CASE FailManifest(c)
  <2>1. PICK T \in SUBSET TagsOf(c) :
           /\ ghcr' = Retagged(ghcr, T, Composed(c)) \/ ghcr' = ghcr
           /\ hub' = Retagged(hub, T, Composed(c)) \/ hub' = hub
    BY <1>1 DEF FailManifest
  <2>2. v \notin T BY <1>0, <2>1
  <2> QED BY <1>0, <1>1, <2>1, <2>2 DEF Retagged, FailManifest
<1>2. CASE CreateManifest(c) \/ CopyManifest(c)
  BY <1>0, <1>2 DEF CreateManifest, CopyManifest, Retagged
<1>3. CASE \/ \E a \in Arches : Build(c, a) \/ PassGate(c, a) \/ FailLeg(c, a)
           \/ CheckTip(c) \/ RerunFailed(c) \/ RebuildAll(c)
  BY <1>3 DEF Build, PassGate, FailLeg, CheckTip, RerunFailed, RebuildAll, registries
<1> QED BY <1>1, <1>2, <1>3 DEF MainStep

(* How far a promotion is, and what it has written by then: it holds an    *)
(* image that main published, and the registries have it one by one.       *)
Promotion(v) ==
    /\ promote[v] \in {"resolved", "verified", "pushed", "copied"} => source[v] \in published
    /\ promote[v] \in {"pushed", "copied"} => ghcr[v] = source[v]
    /\ promote[v] = "copied" => hub[v] = source[v]
    /\ promote[v] = "done" => ghcr[v] \in published /\ hub[v] = ghcr[v] /\ sbom[v] = ghcr[v]

LEMMA PromotionKept ==
  ASSUME Inv, ShaTagsInv, SourceInv, [Next]_vars, NEW v \in Versions, Promotion(v)
  PROVE  Promotion(v)'
<1>0. published \subseteq published' /\ v \in Tags
  BY PublishedGrows, VersionsAreTags
<1>1. CASE UNCHANGED <<ghcr[v], hub[v], releasing>>
  BY <1>0, <1>1 DEF Promotion, releasing
<1>2. ASSUME NEW w \in Versions, w # v, PromoteStep(w) \/ FailPromote(w) \/ RerunPromote(w)
                 \/ MakeRelease(w) \/ \E c \in Commits : TagVersion(w, c)
      PROVE  Promotion(v)'
  BY <1>0, <1>2 DEF Promotion, Inv, TypeOK, PromoteStep, Resolve, Verify, PromoteGhcr, PromoteHub,
     AttachSbom, FailPromote, RerunPromote, MakeRelease, TagVersion, registries
<1>3. CASE Resolve(v)
  <2>1. tagged[v] \in Commits BY <1>3 DEF Inv, TypeOK, TaggedInv, Resolve
  <2>2. ghcr[ShaTag(tagged[v])] \in published BY <1>3, <2>1 DEF ShaTagsInv, Resolve
  <2> QED BY <1>0, <1>3, <2>2 DEF Promotion, Inv, TypeOK, Resolve
<1>4. CASE Verify(v)
  BY <1>0, <1>4 DEF Promotion, Inv, TypeOK, Verify, registries
<1>5. CASE PromoteGhcr(v)
  BY <1>0, <1>5 DEF Promotion, Inv, TypeOK, PromoteGhcr
<1>6. CASE PromoteHub(v)
  BY <1>0, <1>6 DEF Promotion, Inv, TypeOK, PromoteHub, Promoted
<1>7. CASE AttachSbom(v)
  BY <1>0, <1>7 DEF Promotion, Inv, TypeOK, AttachSbom, registries
<1>8. CASE FailPromote(v) \/ RerunPromote(v) \/ MakeRelease(v) \/ \E c \in Commits : TagVersion(v, c)
  BY <1>0, <1>8 DEF Promotion, Inv, TypeOK, FailPromote, RerunPromote, MakeRelease, TagVersion, registries
<1>9. CASE Push \/ UNCHANGED vars
  BY <1>1, <1>9 DEF Push, vars, registries
<1> QED
  BY <1>1, <1>2, <1>3, <1>4, <1>5, <1>6, <1>7, <1>8, <1>9, MainLeavesVersions DEF Next, PromoteStep

(* A promotion that has ended well is complete: both registries and the    *)
(* SBOM have one image, and main had published it, whatever was rebuilt,   *)
(* retagged or promoted again meanwhile.                                   *)
THEOREM PromotionsAreComplete == Safety => []CompleteRelease
<1> DEFINE All == \A v \in Versions : Promotion(v)
<1>1. Init => ShaTagsInv /\ SourceInv /\ All
  <2>1. \A c \in Commits : ShaTag(c) \in Tags BY DEF ShaTag, Tags
  <2> QED BY <2>1 DEF Init, ShaTagsInv, SourceInv, Promotion
<1>2. Inv /\ ShaTagsInv /\ SourceInv /\ All /\ [Next]_vars => (ShaTagsInv /\ SourceInv /\ All)'
  <2> SUFFICES ASSUME Inv, ShaTagsInv, SourceInv, All, [Next]_vars
               PROVE  (ShaTagsInv /\ SourceInv /\ All)'
    OBVIOUS
  <2>1. All' BY PromotionKept
  <2>2. ShaTagsInv' BY ShaTagsPublished DEF ShaTagsInv
  <2> QED BY <2>1, <2>2, SourceIsVerified
<1>3. All => CompleteRelease
  BY DEF Promotion, CompleteRelease
<1> QED BY <1>1, <1>2, <1>3, InitIsTyped, StepsKeepInv, PTL DEF Safety
-----------------------------------------------------------------------------
(* What a manifest job copies to Docker Hub, GHCR has had. *)
PushedInv == \A c \in Commits : manifest[c] = "pushed" => Composed(c) \in published

LEMMA PushedKept ==
  ASSUME Inv, PushedInv, [Next]_vars
  PROVE  PushedInv'
<1>1. ASSUME NEW c \in Commits, manifest'[c] = "pushed"
      PROVE  Composed(c)' \in published'
  <2>1. CASE CreateManifest(c)
    BY <2>1 DEF CreateManifest, Composed, build
  <2>2. CASE ~ CreateManifest(c)
    <3>1. Running(c) /\ manifest[c] = "pushed"
      <4>1. CASE \E d \in Commits : CreateManifest(d)
        BY <1>1, <2>2, <4>1 DEF Inv, TypeOK, CreateManifest, Running
      <4>2. CASE \E d \in Commits : \/ CheckTip(d) \/ CopyManifest(d) \/ FailManifest(d)
                                      \/ RerunFailed(d) \/ RebuildAll(d)
        BY <1>1, <4>2 DEF Inv, TypeOK, CheckTip, CopyManifest, FailManifest, RerunFailed,
               RebuildAll, Running
      <4>3. CASE UNCHANGED manifest
        BY <1>1, <4>3 DEF Running
      <4> QED
        BY <4>1, <4>2, <4>3 DEF Next, vars, MainStep, PromoteStep, Push, Build, PassGate, FailLeg,
           TagVersion, MakeRelease, Resolve, Verify, PromoteGhcr, PromoteHub, AttachSbom,
           FailPromote, RerunPromote
    <3>2. \A a \in Arches : leg[c][a] = "saved"
      BY <3>1 DEF Inv, JobInv, LegsPassed
    <3>3. builds'[c] = builds[c]
      <4>1. CASE \E d \in Commits, a \in Arches : Build(d, a)
        BY <3>2, <4>1 DEF Inv, TypeOK, Build
      <4>2. CASE UNCHANGED builds
        BY <4>2
      <4> QED
        BY <4>1, <4>2 DEF Next, vars, MainStep, PromoteStep, Push, PassGate, FailLeg, CheckTip,
           CreateManifest, CopyManifest, FailManifest, RerunFailed, RebuildAll, TagVersion,
           MakeRelease, Resolve, Verify, PromoteGhcr, PromoteHub, AttachSbom, FailPromote,
           RerunPromote, build
    <3> QED BY <3>1, <3>3, PublishedGrows DEF PushedInv, Composed
  <2> QED BY <2>1, <2>2
<1> QED BY <1>1 DEF PushedInv

(* The images that Delivery calls approved. *)
Approved == {i \in Images : Scanned(i)}

LEMMA SameApproved ==
  ASSUME UNCHANGED gated
  PROVE  Approved' = Approved
BY DEF Approved, Scanned, Images

(* The commits of earlier tips whose jobs may yet write latest. *)
Late == {c \in Commits : isTip[c] /\ c # tip}

(* A job's image gets only tags that may mean it. *)
LEMMA TagsOfFit ==
  ASSUME NEW c \in Commits
  PROVE  TagsOf(c) \subseteq Promise!TagsFor(Composed(c))
BY DEF TagsOf, ShaTag, Composed, Promise!TagsFor

(* No step but a push lets another job write latest late. *)
LEMMA LateExpires ==
  ASSUME Inv, [Next]_vars
  PROVE  \/ Late' \subseteq Late /\ UNCHANGED tip
         \/ Push /\ Late' \subseteq Late \cup {tip}
<1>1. ASSUME NEW c \in Commits, isTip'[c]
      PROVE  isTip[c] \/ (c = tip /\ UNCHANGED tip)
  <2>1. Running(c)'
    BY <1>1, StepsKeepInv DEF Inv, JobInv
  <2>2. CASE CheckTip(c)
    BY <1>1, <2>2 DEF CheckTip, IsTip, Inv, TypeOK, main
  <2> QED BY <1>1, <2>1, <2>2, WhoRuns
<1>2. CASE Push
  <2>1. isTip' = isTip
    BY <1>2 DEF Push
  <2> QED BY <1>2, <2>1 DEF Late
<1>3. CASE UNCHANGED main
  BY <1>1, <1>3 DEF Late, main
<1> QED BY <1>2, <1>3, TipMoves

LEMMA RetaggedIsRetag ==
  ASSUME NEW registry, NEW T, NEW i
  PROVE  Retagged(registry, T, i) = Promise!Retag(registry, T, i)
BY DEF Retagged, Promise!Retag, Tags, Promise!Tags

(* Main's jobs write what Delivery publishes and copies. *)
LEMMA MainDelivers ==
  ASSUME Inv, PushedInv, NEW c \in Commits,
         CreateManifest(c) \/ CopyManifest(c) \/ FailManifest(c)
  PROVE  [Promise!Next]_(Promise!vars)
<1> DEFINE i == Composed(c)
<1>1. Running(c)
  BY DEF CreateManifest, CopyManifest, FailManifest, Running
<1>2. i \in Images /\ i \in Approved
  BY <1>1, ImageOfRunning DEF Inv, JobInv, Approved
<1>3. TagsOf(c) \subseteq Promise!TagsFor(i)
  BY TagsOfFit
<1>e. Promise!Expire
  <2>1. UNCHANGED tip /\ ~ Push
    BY DEF CreateManifest, CopyManifest, FailManifest, Push, Inv, TypeOK, main, build
  <2>2. Next
    BY DEF Next, MainStep
  <2>3. Late' \subseteq Late
    BY <2>1, <2>2, LateExpires
  <2> QED BY <2>1, <2>3 DEF Promise!Expire, Late
<1>4. UNCHANGED <<Approved, tagged, sbom>>
  <2>1. UNCHANGED <<gated, tagged, sbom>>
    BY DEF CreateManifest, CopyManifest, FailManifest, build, releasing
  <2> QED BY <2>1, SameApproved
<1> HIDE DEF i
<1>5. ASSUME NEW T \in SUBSET TagsOf(c), T # {}, ghcr' = Retagged(ghcr, T, i),
             published' = published \cup {i}, UNCHANGED hub
      PROVE  Promise!Publish(i)
  BY <1>2, <1>3, <1>4, <1>5, <1>e, RetaggedIsRetag DEF Promise!Publish, Approved
<1>6. ASSUME NEW T \in SUBSET TagsOf(c), manifest[c] = "pushed", hub' = Retagged(hub, T, i),
             UNCHANGED <<ghcr, published>>
      PROVE  Promise!Copy(i)
  <2>1. i \in published
    BY <1>6 DEF PushedInv, i
  <2> QED BY <1>3, <1>4, <1>6, <1>e, <2>1, RetaggedIsRetag DEF Promise!Copy, Approved
<1>7. CASE CreateManifest(c)
  <2>1. TagsOf(c) # {}
    BY DEF TagsOf
  <2>2. Promise!Publish(i)
    BY <1>5, <1>7, <2>1 DEF CreateManifest, i
  <2> QED BY <1>2, <2>2 DEF Promise!Next
<1>8. CASE CopyManifest(c)
  <2>1. Promise!Copy(i)
    BY <1>6, <1>8 DEF CopyManifest, i
  <2> QED BY <1>2, <2>1 DEF Promise!Next
<1>9. CASE FailManifest(c)
  <2>1. PICK T \in SUBSET TagsOf(c) :
           IF manifest[c] = "checked"
             THEN /\ ghcr' = Retagged(ghcr, T, i)
                  /\ published' = IF T = {} THEN published ELSE published \cup {i}
                  /\ UNCHANGED hub
             ELSE hub' = Retagged(hub, T, i) /\ UNCHANGED <<ghcr, published>>
    BY <1>9 DEF FailManifest, i
  <2>2. CASE manifest[c] = "checked" /\ T = {}
    <3>1. ghcr' = ghcr
      BY <2>1, <2>2 DEF Retagged, Inv, TypeOK
    <3> QED BY <1>4, <1>e, <2>1, <2>2, <3>1 DEF Promise!Next, Approved
  <2>3. CASE manifest[c] = "checked" /\ T # {}
    <3>1. Promise!Publish(i)
      BY <1>5, <2>1, <2>3
    <3> QED BY <1>2, <3>1 DEF Promise!Next
  <2>4. CASE manifest[c] = "pushed"
    <3>1. Promise!Copy(i)
      BY <1>6, <2>1, <2>4
    <3> QED BY <1>2, <3>1 DEF Promise!Next
  <2> QED BY <1>1, <2>2, <2>3, <2>4 DEF Running
<1> QED BY <1>7, <1>8, <1>9

(* And the promote jobs and the tags of versions do what it promotes. *)
LEMMA VersionsDelivered ==
  ASSUME Inv, SourceInv, NEW v \in Versions, Promotion(v),
         \/ PromoteGhcr(v) \/ PromoteHub(v) \/ AttachSbom(v)
         \/ \E c \in Commits : TagVersion(v, c)
  PROVE  [Promise!Next]_(Promise!vars)
<1>1. UNCHANGED <<Approved, published, tip, Late>>
  <2>1. UNCHANGED <<gated, published, tip, isTip>>
    BY DEF PromoteGhcr, PromoteHub, AttachSbom, TagVersion, build, main, registries
  <2> QED BY <2>1, SameApproved DEF Late
<1>2. CASE PromoteGhcr(v)
  <2>1. /\ source[v] \in published /\ source[v] \in Images
        /\ source[v].commit = tagged[v]
    BY <1>2 DEF PromoteGhcr, Promotion, SourceInv, Inv, TypeOK
  <2>2. Promise!Promote(v, source[v])
    BY <1>1, <1>2, <2>1 DEF PromoteGhcr, Promise!Promote, Promise!main, Approved, Late
  <2> QED BY <2>1, <2>2 DEF Promise!Next
<1>3. CASE PromoteHub(v)
  <2>1. source[v] # NoImage /\ ghcr[v] = source[v]
    BY <1>3 DEF PromoteHub, Promotion, SourceInv
  <2>2. Promise!CopyPromoted(v)
    BY <1>1, <1>3, <2>1 DEF PromoteHub, Promoted, Promise!CopyPromoted, Promise!main, Approved, Late
  <2> QED BY <2>2 DEF Promise!Next
<1>4. CASE AttachSbom(v)
  <2>1. source[v] # NoImage /\ ghcr[v] = source[v] /\ hub[v] = source[v]
    BY <1>4 DEF AttachSbom, Promotion, SourceInv
  <2>2. Promise!Attach(v)
    BY <1>1, <1>4, <2>1 DEF AttachSbom, Promise!Attach, Promise!main, Approved, Late, registries
  <2> QED BY <2>2 DEF Promise!Next
<1>5. ASSUME NEW c \in Commits, TagVersion(v, c)
      PROVE  [Promise!Next]_(Promise!vars)
  <2>1. Promise!Tag(v, c)
    BY <1>1, <1>5 DEF TagVersion, Promise!Tag, Promise!main, Approved, Late, registries
  <2> QED BY <2>1 DEF Promise!Next
<1> QED BY <1>2, <1>3, <1>4, <1>5

(* Publishing implements Delivery: every step of every job, of a failure   *)
(* and of a re-run is one of its steps or none.                            *)
THEOREM PublishDelivers == Safety => DeliveryPromise
<1> DEFINE All == \A v \in Versions : Promotion(v)
           DInv == Inv /\ SourceInv /\ ShaTagsInv /\ PushedInv /\ All
<1>1. Init => DInv
  <2>1. \A c \in Commits : ShaTag(c) \in Tags BY DEF ShaTag, Tags
  <2> QED
    BY <2>1, InitIsTyped DEF Init, ShaTagsInv, SourceInv,
       PushedInv, Promotion
<1>2. DInv /\ [Next]_vars => DInv'
  <2> SUFFICES ASSUME DInv, [Next]_vars PROVE DInv'
    OBVIOUS
  <2>1. All' BY PromotionKept
  <2>2. ShaTagsInv' BY ShaTagsPublished DEF ShaTagsInv
  <2> QED BY <2>1, <2>2, StepsKeepInv, SourceIsVerified, PushedKept
<1>3. Init => Promise!Init
  <2>1. Approved = {} <=> \A i \in Images : ~ Scanned(i)
    BY DEF Approved
  <2>2. Init => \A i \in Images : ~ Scanned(i)
    BY PublishAssumption DEF Init, Scanned
  <2> QED BY <2>1, <2>2 DEF Init, Promise!Init, Approved, Tags, Promise!Tags
<1>4. DInv /\ [Next]_vars => [Promise!Next]_(Promise!vars)
  <2> SUFFICES ASSUME DInv, [Next]_vars
               PROVE  [Promise!Next]_(Promise!vars)
    OBVIOUS
  <2>1. CASE \E c \in Commits : CreateManifest(c) \/ CopyManifest(c) \/ FailManifest(c)
    BY <2>1, MainDelivers
  <2>2. CASE \E v \in Versions : \/ PromoteGhcr(v) \/ PromoteHub(v) \/ AttachSbom(v)
                                  \/ \E c \in Commits : TagVersion(v, c)
    BY <2>2, VersionsDelivered
  <2>3. CASE \E c \in Commits, a \in Arches : PassGate(c, a)
    <3>1. UNCHANGED <<published, ghcr, hub, tip, Late, tagged, sbom>>
      BY <2>3 DEF PassGate, main, registries, releasing, Late
    <3>2. Approved \subseteq Approved' /\ Approved' \subseteq Images
      BY GatedGrows DEF Approved, Scanned, Images
    <3>3. Approved' = Approved \cup Approved' /\ Approved' \in SUBSET Images
      BY <3>2
    <3>4. Promise!Approve
      BY <3>1, <3>3 DEF Promise!Approve, Promise!main, Approved, Late
    <3> QED BY <3>4 DEF Promise!Next
  <2>4. CASE Push
    <3>1. UNCHANGED <<Approved, published, ghcr, hub, tagged, sbom>>
      <4>1. UNCHANGED <<gated, published, ghcr, hub, tagged, sbom>>
        BY <2>4 DEF Push, build, registries, releasing
      <4> QED BY <4>1, SameApproved
    <3>2. tip' = tip + 1 /\ tip' \in Commits /\ tip' # tip
      BY <2>4, TipMoves DEF Push
    <3>3. Late' \in SUBSET (Late \cup {tip})
      BY <3>2, LateExpires
    <3>4. Promise!Push
      BY <3>1, <3>2, <3>3 DEF Promise!Push, Approved, Late
    <3> QED BY <3>4 DEF Promise!Next
  <2>5. CASE ~ Push /\ UNCHANGED <<gated, published, ghcr, hub, tagged, sbom>>
    <3>1. Promise!Expire
      BY <2>5, LateExpires DEF Promise!Expire, Late
    <3> QED BY <2>5, <3>1, SameApproved DEF Promise!Next, Approved
  <2> QED
    BY <2>1, <2>2, <2>3, <2>4, <2>5 DEF Next, vars, MainStep, PromoteStep, Build, FailLeg,
       CheckTip, RerunFailed, RebuildAll, MakeRelease, Resolve, Verify, FailPromote, RerunPromote,
       build, registries, releasing
<1> HIDE DEF DInv
<1> QED BY <1>1, <1>2, <1>3, <1>4, PTL DEF Safety, DeliveryPromise, Promise!Spec
=============================================================================
