----------------------------- MODULE Lifecycle -----------------------------
(***************************************************************************)
(* What release.yml promises of a version, with no runs, failures and      *)
(* re-runs: it is tagged once and the tag never moves; without a hand, it  *)
(* is released from a push that introduced it, dispatched once released,   *)
(* and its milestone is closed when both are done. A tag that a hand makes *)
(* is dispatched by its push.                                              *)
(***************************************************************************)
CONSTANTS Pushes, Versions

VARIABLES
    introduced,  \* <<version, push>> of the pushes that introduced a version
    tags,        \* the push of each version's tag, 0 without one
    releases, dispatched, milestones,
    byHand       \* what was done by hand, for which version

vars == <<introduced, tags, releases, dispatched, milestones, byHand>>

Introduce ==
    /\ \E S \in SUBSET (Versions \X Pushes) : introduced' = introduced \cup S
    /\ UNCHANGED <<tags, releases, dispatched, milestones, byHand>>

Hand(v, what) == byHand' = byHand \cup {<<v, what>>}

Tag(v, c) ==
    /\ tags[v] = 0
    /\ tags' = [tags EXCEPT ![v] = c]
    /\ dispatched' = dispatched \cup {v}
    /\ Hand(v, "tag")
    /\ UNCHANGED <<introduced, releases, milestones>>

Release(v, c) ==
    /\ v \notin releases
    /\ releases' = releases \cup {v}
    /\ tags' = [tags EXCEPT ![v] = IF @ = 0 THEN c ELSE @]
    /\ \/ <<v, c>> \in introduced /\ UNCHANGED <<dispatched, byHand>>
       \/ Hand(v, "release") /\ dispatched' = dispatched \cup (IF tags[v] = 0 THEN {v} ELSE {})
    /\ UNCHANGED <<introduced, milestones>>

Dispatch(v) ==
    /\ tags[v] # 0
    /\ dispatched' = dispatched \cup {v}
    /\ \/ v \in releases /\ UNCHANGED byHand
       \/ Hand(v, "dispatch")
    /\ UNCHANGED <<introduced, tags, releases, milestones>>

Close(v) ==
    /\ v \in releases \cap dispatched
    /\ milestones' = milestones \ {v}
    /\ UNCHANGED <<introduced, tags, releases, dispatched, byHand>>

Init ==
    /\ introduced = {} /\ releases = {} /\ dispatched = {} /\ byHand = {}
    /\ tags = [v \in Versions |-> 0]
    /\ milestones = Versions

Next ==
    \/ Introduce
    \/ \E v \in Versions :
          \/ \E c \in Pushes : Tag(v, c) \/ Release(v, c)
          \/ Dispatch(v) \/ Close(v)

Spec == Init /\ [][Next]_vars
=============================================================================
