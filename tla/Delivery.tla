------------------------------ MODULE Delivery ------------------------------
(***************************************************************************)
(* What docker-publish.yml promises to those who pull images, with no      *)
(* jobs, builds, failures or re-runs: an image gets into GHCR only once it *)
(* is approved, into Docker Hub only once GHCR has had it, and under a     *)
(* version only once main has published it; each tag means what its name   *)
(* says, and the SBOM of a version is of what both registries have. latest *)
(* becomes the image of main's tip or, as nothing holds a push back, of a  *)
(* commit that was the tip when its image was on its way.                  *)
(***************************************************************************)
EXTENDS Integers

CONSTANTS
    Commits,   \* 1..n, in order
    Versions,
    Images,    \* each with its commit
    Short,     \* the short SHA of each commit
    Latest,    \* the tag of that name
    NoImage

VARIABLES
    approved,   \* the images that passed the gate
    published,  \* those that main has put under a tag of GHCR
    ghcr, hub,  \* what the tags of the registries mean
    tip,        \* the last commit pushed, 0 before the first
    late,       \* earlier commits whose image may yet become latest
    tagged,     \* the commit of each version, 0 before it is tagged
    sbom        \* the image that each version's SBOM was made of

main == <<tip, late>>
vars == <<approved, published, ghcr, hub, main, tagged, sbom>>

Tags == {Latest} \cup {Short[c] : c \in Commits} \cup Versions

Approve ==
    /\ \E S \in SUBSET Images : approved' = approved \cup S
    /\ UNCHANGED <<published, ghcr, hub, main, tagged, sbom>>

(* Main moves on; the image of the tip it had may be on its way. *)
Push ==
    /\ tip' = tip + 1 /\ tip' \in Commits
    /\ late' \in SUBSET (late \cup {tip})
    /\ UNCHANGED <<approved, published, ghcr, hub, tagged, sbom>>

(* What was on its way has arrived, or never will: it cannot set out anew. *)
Expire == UNCHANGED tip /\ late' \in SUBSET late

Tag(v, c) ==
    /\ tagged[v] = 0
    /\ c <= tip
    /\ tagged' = [tagged EXCEPT ![v] = c]
    /\ UNCHANGED <<approved, published, ghcr, hub, main, sbom>>

(* The tags of main that may come to mean i: the short SHA of its commit,  *)
(* and latest.                                                             *)
TagsFor(i) ==
    {Short[i.commit]} \cup {t \in {Latest} : i.commit \in {tip} \cup late}

Retag(registry, T, i) == [t \in Tags |-> IF t \in T THEN i ELSE registry[t]]

Publish(i) ==
    /\ i \in approved
    /\ published' = published \cup {i}
    /\ \E T \in SUBSET TagsFor(i) : T # {} /\ ghcr' = Retag(ghcr, T, i)
    /\ Expire
    /\ UNCHANGED <<approved, hub, tagged, sbom>>

Copy(i) ==
    /\ i \in published
    /\ \E T \in SUBSET TagsFor(i) : hub' = Retag(hub, T, i)
    /\ Expire
    /\ UNCHANGED <<approved, published, ghcr, tagged, sbom>>

Promote(v, i) ==
    /\ i \in published
    /\ i.commit = tagged[v]
    /\ ghcr' = [ghcr EXCEPT ![v] = i]
    /\ UNCHANGED <<approved, published, hub, main, tagged, sbom>>

CopyPromoted(v) ==
    /\ ghcr[v] # NoImage
    /\ hub' = [hub EXCEPT ![v] = ghcr[v]]
    /\ UNCHANGED <<approved, published, ghcr, main, tagged, sbom>>

Attach(v) ==
    /\ ghcr[v] # NoImage /\ hub[v] = ghcr[v]
    /\ sbom' = [sbom EXCEPT ![v] = ghcr[v]]
    /\ UNCHANGED <<approved, published, ghcr, hub, main, tagged>>

Init ==
    /\ approved = {} /\ published = {}
    /\ ghcr = [t \in Tags |-> NoImage] /\ hub = ghcr
    /\ tip = 0 /\ late = {}
    /\ tagged = [v \in Versions |-> 0]
    /\ sbom = [v \in Versions |-> NoImage]

Next ==
    \/ Approve \/ Push
    \/ Expire /\ UNCHANGED <<approved, published, ghcr, hub, tagged, sbom>>
    \/ \E i \in Images : Publish(i) \/ Copy(i)
    \/ \E v \in Versions :
          \/ \E c \in Commits : Tag(v, c)
          \/ \E i \in Images : Promote(v, i)
          \/ CopyPromoted(v) \/ Attach(v)

Spec == Init /\ [][Next]_vars
=============================================================================
