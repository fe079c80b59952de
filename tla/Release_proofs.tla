--------------------------- MODULE Release_proofs ---------------------------
(***************************************************************************)
(* What any number of pushes, failures and steps by hand leave true of the *)
(* releases: TypeOK, DoneIsComplete, TagIsAtIntroduction and WrongTagStops *)
(* of Release. The first two need what each state of a run says of GitHub  *)
(* (RunInv), which no other run or hand undoes, because tags, releases and *)
(* dispatches only come; the third that a run past its detection is of a   *)
(* push that introduces its version (OriginInv), which later pushes do not *)
(* change, because what a push says is settled when it is made; the last   *)
(* that a run stopped by a tag elsewhere stays stopped (Stopped), because  *)
(* a tag does not move. From the same invariants the runs implement        *)
(* Lifecycle.                                                              *)
(***************************************************************************)
EXTENDS Release, FiniteSetTheorems, TLAPS

RunInv == \A c \in Pushes :
    /\ run[c] # "none" => c <= tip
    /\ run[c] \in {"created", "dispatched", "done"} => version[c] \in releases
    /\ run[c] \in {"dispatched", "done"} => version[c] \in dispatched
    /\ run[c] = "done" => version[c] \notin milestones

Inv == TypeOK /\ RunInv

Past(c) == run[c] \in {"detected", "clear", "viewed", "created", "dispatched", "done"}

MadeByHand(v) == \E what \in {"tag", "release"} : <<v, what>> \in byHand

OriginInv ==
    /\ \A c \in Pushes : Past(c) => Introduces(c, version[c])
    /\ \A v \in Versions : tags[v] <= tip

-----------------------------------------------------------------------------
LEMMA PushesAreNumbers == Pushes \subseteq Nat /\ 0 \notin Pushes /\ MaxFailures \in Nat
<1>1. Cardinality(Pushes) \in Nat BY FS_CardinalityType, ReleaseAssumption
<1>2. Pushes = 1..Cardinality(Pushes) BY ReleaseAssumption
<1> QED BY <1>1, <1>2, ReleaseAssumption

LEMMA TipIsNumber == TypeOK => tip \in Nat /\ (tip # 0 => tip \in Pushes)
BY PushesAreNumbers DEF TypeOK

(* What a step may do on GitHub. *)
LEMMA GitHubSteps ==
  ASSUME TypeOK, [Next]_vars
  PROVE  \/ UNCHANGED github
         \/ \E v \in Versions, c \in Pushes : \E D \in SUBSET {v} : Released(v, c, D)
         \/ \E v \in Versions : Dispatched(v) \/ TagByHand(v) \/ Closed(v)
<1>1. ASSUME NEW c \in Pushes, Step(c) \/ Fail(c) \/ Rerun(c)
      PROVE  \/ UNCHANGED github \/ Released(version[c], c, {}) \/ Dispatched(version[c])
             \/ Closed(version[c])
  BY <1>1 DEF Step, Detect, Lookup, View, Create, Dispatch, CloseMilestone, Fail, Rerun
<1>2. \A c \in Pushes : version[c] \in Versions
  BY DEF TypeOK
<1>3. ASSUME NEW v \in Versions,
             \/ \E H \in SUBSET Versions : Push(v, H)
             \/ TagByHand(v) \/ ReleaseByHand(v) \/ DispatchByHand(v)
      PROVE  \/ UNCHANGED github
             \/ \E D \in SUBSET {v} : Released(v, tip, D) /\ tip \in Pushes
             \/ Dispatched(v) \/ TagByHand(v)
  BY <1>3, TipIsNumber DEF Push, ReleaseByHand, DispatchByHand
<1>4. CASE UNCHANGED vars
  BY <1>4 DEF vars
<1>5. CASE \E c \in Pushes : Step(c) \/ Fail(c) \/ Rerun(c)
  BY <1>1, <1>2, <1>5
<1>6. CASE \E v \in Versions :
              \/ \E H \in SUBSET Versions : Push(v, H)
              \/ TagByHand(v) \/ ReleaseByHand(v) \/ DispatchByHand(v)
  BY <1>3, <1>6
<1> QED BY <1>4, <1>5, <1>6 DEF Next

(* Tags, releases and dispatches only come, and milestones only go. *)
LEMMA GitHubGrows ==
  ASSUME TypeOK, [Next]_vars
  PROVE  /\ releases \subseteq releases' /\ dispatched \subseteq dispatched'
         /\ milestones' \subseteq milestones
         /\ \A v \in Versions : tags[v] # 0 => tags'[v] = tags[v]
<1>1. CASE UNCHANGED github
  BY <1>1 DEF github
<1>2. ASSUME NEW v \in Versions, NEW c \in Pushes, NEW D \in SUBSET {v}, Released(v, c, D)
      PROVE  /\ releases \subseteq releases' /\ dispatched \subseteq dispatched'
             /\ milestones' \subseteq milestones
             /\ \A w \in Versions : tags[w] # 0 => tags'[w] = tags[w]
  BY <1>2 DEF Released, Tagged, TypeOK
<1>3. ASSUME NEW v \in Versions, Dispatched(v)
      PROVE  /\ releases \subseteq releases' /\ dispatched \subseteq dispatched'
             /\ milestones' \subseteq milestones
             /\ \A w \in Versions : tags[w] # 0 => tags'[w] = tags[w]
  BY <1>3 DEF Dispatched
<1>4. ASSUME NEW v \in Versions, TagByHand(v)
      PROVE  /\ releases \subseteq releases' /\ dispatched \subseteq dispatched'
             /\ milestones' \subseteq milestones
             /\ \A w \in Versions : tags[w] # 0 => tags'[w] = tags[w]
  BY <1>4 DEF TagByHand, TypeOK
<1>5. ASSUME NEW v \in Versions, Closed(v)
      PROVE  /\ releases \subseteq releases' /\ dispatched \subseteq dispatched'
             /\ milestones' \subseteq milestones
             /\ \A w \in Versions : tags[w] # 0 => tags'[w] = tags[w]
  BY <1>5 DEF Closed
<1> QED BY <1>1, <1>2, <1>3, <1>4, <1>5, GitHubSteps

(* The types, a variable at a time. *)
LEMMA GitHubTyped ==
  ASSUME TypeOK, [Next]_vars
  PROVE  /\ tags' \in [Versions -> Pushes \cup {0}]
         /\ releases' \subseteq {v \in Versions : tags'[v] # 0}
         /\ dispatched' \subseteq {v \in Versions : tags'[v] # 0}
         /\ milestones' \subseteq Versions
<1>1. CASE UNCHANGED github
  BY <1>1 DEF github, TypeOK
<1>2. ASSUME NEW v \in Versions, NEW c \in Pushes, NEW D \in SUBSET {v}, Released(v, c, D)
      PROVE  /\ tags' \in [Versions -> Pushes \cup {0}]
             /\ releases' \subseteq {w \in Versions : tags'[w] # 0}
             /\ dispatched' \subseteq {w \in Versions : tags'[w] # 0}
             /\ milestones' \subseteq Versions
  <2>1. c # 0 BY PushesAreNumbers
  <2> QED BY <1>2, <2>1 DEF Released, Tagged, TypeOK
<1>3. ASSUME NEW v \in Versions, Dispatched(v)
      PROVE  /\ tags' \in [Versions -> Pushes \cup {0}]
             /\ releases' \subseteq {w \in Versions : tags'[w] # 0}
             /\ dispatched' \subseteq {w \in Versions : tags'[w] # 0}
             /\ milestones' \subseteq Versions
  BY <1>3 DEF Dispatched, TypeOK
<1>4. ASSUME NEW v \in Versions, TagByHand(v)
      PROVE  /\ tags' \in [Versions -> Pushes \cup {0}]
             /\ releases' \subseteq {w \in Versions : tags'[w] # 0}
             /\ dispatched' \subseteq {w \in Versions : tags'[w] # 0}
             /\ milestones' \subseteq Versions
  <2>1. PICK c \in 1..tip : tags' = [tags EXCEPT ![v] = c] BY <1>4 DEF TagByHand
  <2>2. c \in Pushes /\ c # 0
    <3>1. PICK n \in Nat : Pushes = 1..n BY FS_CardinalityType, ReleaseAssumption
    <3> QED BY <3>1, <2>1, TipIsNumber DEF TypeOK
  <2> QED BY <1>4, <2>1, <2>2 DEF TagByHand, TypeOK
<1>5. ASSUME NEW v \in Versions, Closed(v)
      PROVE  /\ tags' \in [Versions -> Pushes \cup {0}]
             /\ releases' \subseteq {w \in Versions : tags'[w] # 0}
             /\ dispatched' \subseteq {w \in Versions : tags'[w] # 0}
             /\ milestones' \subseteq Versions
  BY <1>5 DEF Closed, TypeOK
<1> QED BY <1>1, <1>2, <1>3, <1>4, <1>5, GitHubSteps

(* What a step may do to the runs and to what the pushes say. *)
LEMMA RunsTyped ==
  ASSUME TypeOK, RunInv, [Next]_vars
  PROVE  TypeOK'
<1>1. /\ tip' \in Pushes \cup {0}
      /\ version' \in [Pushes -> Versions]
      /\ headings' \in [Pushes -> SUBSET Versions]
  <2>1. UNCHANGED history \/ \E v \in Versions, H \in SUBSET Versions : Push(v, H)
    BY DEF Next, Step, Detect, Lookup, View, Create, Dispatch, CloseMilestone, Fail, Rerun,
       ByHand, TagByHand, ReleaseByHand, DispatchByHand, vars
  <2> QED BY <2>1 DEF TypeOK, Push, history
<1>2. run' \in [Pushes -> {"none", "queued", "skipped", "detected", "clear", "viewed",
                           "created", "dispatched", "done", "failed"}]
  BY DEF TypeOK, Next, Step, Detect, Lookup, View, AfterView, Create, Dispatch, CloseMilestone,
     Fail, Rerun, Push, ByHand, TagByHand, ReleaseByHand, DispatchByHand, vars
<1>3. failures' \in 0..MaxFailures
  <2>1. failures' = failures \/ (failures < MaxFailures /\ failures' = failures + 1)
    BY DEF Next, Step, Detect, Lookup, View, Create, Dispatch, CloseMilestone, Fail, Rerun,
       Push, ByHand, TagByHand, ReleaseByHand, DispatchByHand, vars
  <2> QED BY <2>1, PushesAreNumbers DEF TypeOK
<1>4. byHand' \subseteq Versions \X {"tag", "release", "dispatch"}
  <2>1. \/ UNCHANGED byHand
        \/ \E v \in Versions : ByHand(v, "tag") \/ ByHand(v, "release") \/ ByHand(v, "dispatch")
    BY DEF Next, Step, Detect, Lookup, View, Create, Dispatch, CloseMilestone, Fail, Rerun,
       Push, TagByHand, ReleaseByHand, DispatchByHand, vars
  <2> QED BY <2>1 DEF TypeOK, ByHand
<1> QED BY <1>1, <1>2, <1>3, <1>4, GitHubTyped DEF TypeOK

(* A push is made once, and only later ones come after it. *)
LEMMA PushesStay ==
  ASSUME TypeOK, [Next]_vars
  PROVE  /\ tip' = tip \/ tip' = tip + 1
         /\ \A c \in Pushes : c <= tip =>
               version'[c] = version[c] /\ headings'[c] = headings[c]
<1>1. ASSUME NEW v \in Versions, NEW H \in SUBSET Versions, Push(v, H)
      PROVE  /\ tip' = tip + 1
             /\ \A c \in Pushes : c <= tip =>
                   version'[c] = version[c] /\ headings'[c] = headings[c]
  BY <1>1, PushesAreNumbers, TipIsNumber DEF Push, TypeOK
<1>2. CASE UNCHANGED history
  BY <1>2 DEF history
<1> QED
  BY <1>1, <1>2 DEF Next, Step, Detect, Lookup, View, Create, Dispatch, CloseMilestone, Fail, Rerun,
     ByHand, TagByHand, ReleaseByHand, DispatchByHand, vars

(* Whose step it is. *)
LEMMA RunSteps ==
  ASSUME TypeOK, [Next]_vars, NEW c \in Pushes
  PROVE  \/ run'[c] = run[c]
         \/ Step(c) \/ Fail(c) \/ Rerun(c)
         \/ c = tip + 1 /\ tip' = tip + 1 /\ run'[c] = "queued"
<1>1. ASSUME NEW d \in Pushes, d # c, Step(d) \/ Fail(d) \/ Rerun(d)
      PROVE  run'[c] = run[c]
  BY <1>1 DEF TypeOK, Step, Detect, Lookup, View, Create, Dispatch, CloseMilestone, Fail, Rerun
<1>2. ASSUME NEW v \in Versions, NEW H \in SUBSET Versions, Push(v, H)
      PROVE  run'[c] = run[c] \/ (c = tip + 1 /\ tip' = tip + 1 /\ run'[c] = "queued")
  BY <1>2 DEF TypeOK, Push
<1>3. CASE UNCHANGED run
  BY <1>3
<1> QED
  BY <1>1, <1>2, <1>3 DEF Next, ByHand, TagByHand, ReleaseByHand, DispatchByHand, vars

LEMMA RunsKept ==
  ASSUME Inv, [Next]_vars
  PROVE  RunInv'
<1>1. TypeOK /\ RunInv BY DEF Inv
<1>2. /\ releases \subseteq releases' /\ dispatched \subseteq dispatched'
      /\ milestones' \subseteq milestones
  BY <1>1, GitHubGrows
<1>3. tip' = tip \/ tip' = tip + 1
  BY <1>1, PushesStay
<1> SUFFICES ASSUME NEW c \in Pushes
             PROVE  /\ run'[c] # "none" => c <= tip'
                    /\ run'[c] \in {"created", "dispatched", "done"} => version'[c] \in releases'
                    /\ run'[c] \in {"dispatched", "done"} => version'[c] \in dispatched'
                    /\ run'[c] = "done" => version'[c] \notin milestones'
  BY DEF RunInv
<1>4. c \in Nat /\ tip \in Nat
  BY <1>1, PushesAreNumbers, TipIsNumber
<1>5. run[c] # "none" => c <= tip /\ version'[c] = version[c]
  BY <1>1, PushesStay DEF RunInv
<1>6. CASE run'[c] = run[c]
  BY <1>1, <1>2, <1>3, <1>4, <1>5, <1>6 DEF RunInv
<1>7. CASE c = tip + 1 /\ tip' = tip + 1 /\ run'[c] = "queued"
  BY <1>4, <1>7
<1>8. CASE Step(c) \/ Fail(c) \/ Rerun(c)
  <2>1. run[c] # "none" /\ tip' = tip
    BY <1>8 DEF Step, Detect, Lookup, View, Create, Dispatch, CloseMilestone, Fail, InProgress,
           Rerun, history
  <2>2. run'[c] \in {"created", "dispatched", "done"} => version[c] \in releases'
    BY <1>1, <1>2, <1>8 DEF TypeOK, RunInv, Step, Detect, Lookup, View, AfterView, Create,
       Released, Dispatch, CloseMilestone, Fail, Rerun
  <2>3. run'[c] \in {"dispatched", "done"} => version[c] \in dispatched'
    BY <1>1, <1>2, <1>8 DEF TypeOK, RunInv, Step, Detect, Lookup, View, AfterView, Create,
       Dispatch, Dispatched, CloseMilestone, Fail, Rerun
  <2>4. run'[c] = "done" => version[c] \notin milestones'
    BY <1>1, <1>8 DEF TypeOK, RunInv, Step, Detect, Lookup, View, AfterView, Create, Dispatch,
       CloseMilestone, Closed, Fail, Rerun
  <2> QED BY <1>5, <2>1, <2>2, <2>3, <2>4
<1> QED BY <1>1, <1>6, <1>7, <1>8, RunSteps

LEMMA InitIsInv == Init => Inv
BY ReleaseAssumption DEF Init, Inv, TypeOK, RunInv

LEMMA StepsKeepInv == Inv /\ [Next]_vars => Inv'
BY RunsTyped, RunsKept DEF Inv

(* The state stays well-typed, and only what has a tag is ever released or *)
(* published, for any number of pushes, failures and steps by hand.        *)
THEOREM ReleaseTypeCorrect == Safety => []TypeOK
<1>1. Inv => TypeOK BY DEF Inv
<1> QED BY <1>1, InitIsInv, StepsKeepInv, PTL DEF Safety

(* A run that has ended well has left nothing of its release undone.       *)
THEOREM NothingIsLeftUndone == Safety => []DoneIsComplete
<1>1. Inv => DoneIsComplete
  BY DEF Inv, RunInv, DoneIsComplete, TypeOK
<1> QED BY <1>1, InitIsInv, StepsKeepInv, PTL DEF Safety

-----------------------------------------------------------------------------
(* What introduces a version does so for good. *)
LEMMA IntroductionStays ==
  ASSUME TypeOK, [Next]_vars, NEW c \in Pushes, c <= tip, NEW v \in Versions
  PROVE  Introduces(c, v)' <=> Introduces(c, v)
<1>1. version'[c] = version[c] /\ headings'[c] = headings[c]
  BY PushesStay
<1>2. c > 1 => version'[c - 1] = version[c - 1] /\ headings'[c - 1] = headings[c - 1]
  <2>1. PICK n \in Nat : Pushes = 1..n BY FS_CardinalityType, ReleaseAssumption
  <2>2. ASSUME c > 1 PROVE c - 1 \in Pushes /\ c - 1 <= tip
    BY <2>1, <2>2, TipIsNumber
  <2> QED BY <2>2, PushesStay
<1> QED BY <1>1, <1>2 DEF Introduces

(* Where a step may put a tag. *)
LEMMA TagSteps ==
  ASSUME TypeOK, RunInv, [Next]_vars, NEW v \in Versions
  PROVE  \/ tags'[v] = tags[v]
         \/ /\ tags'[v] \in 1..tip
            /\ \/ MadeByHand(v)'
               \/ \E c \in Pushes : Past(c) /\ version[c] = v /\ tags'[v] = c
<1>0. \A c \in Pushes : c \in Nat /\ c >= 1 /\ version[c] \in Versions
  BY PushesAreNumbers DEF TypeOK
<1>1. ASSUME NEW c \in Pushes, Create(c) \/ Fail(c)
      PROVE  \/ tags'[v] = tags[v]
             \/ tags'[v] \in 1..tip /\ Past(c) /\ version[c] = v /\ tags'[v] = c
  <2>1. CASE UNCHANGED tags
    BY <2>1
  <2>2. CASE Past(c) /\ Released(version[c], c, {})
    <3>1. c <= tip BY <2>2 DEF RunInv, Past
    <3> QED BY <1>0, <2>2, <3>1, TipIsNumber DEF Released, Tagged, TypeOK
  <2> QED BY <1>1, <2>1, <2>2 DEF Create, Fail, github, Dispatched, Closed, Past
<1>2. ASSUME NEW w \in Versions, TagByHand(w)
      PROVE  tags'[v] = tags[v] \/ (tags'[v] \in 1..tip /\ MadeByHand(v)')
  BY <1>2 DEF TypeOK, TagByHand, ByHand, MadeByHand
<1>3. ASSUME NEW w \in Versions, ReleaseByHand(w)
      PROVE  tags'[v] = tags[v] \/ (tags'[v] \in 1..tip /\ MadeByHand(v)')
  BY <1>3, TipIsNumber DEF TypeOK, ReleaseByHand, Released, Tagged, ByHand, MadeByHand
<1>4. CASE UNCHANGED tags
  BY <1>4
<1>5. ASSUME NEW c \in Pushes,
             \/ Detect(c) \/ Lookup(c) \/ View(c) \/ Dispatch(c) \/ CloseMilestone(c) \/ Rerun(c)
      PROVE  UNCHANGED tags
  BY <1>5 DEF Detect, Lookup, View, Dispatch, Dispatched, CloseMilestone, Closed, Rerun, github
<1>6. ASSUME NEW w \in Versions,
             DispatchByHand(w) \/ \E H \in SUBSET Versions : Push(w, H)
      PROVE  UNCHANGED tags
  BY <1>6 DEF DispatchByHand, Dispatched, Push, github
<1> QED
  BY <1>1, <1>2, <1>3, <1>4, <1>5, <1>6 DEF Next, Step, vars, github

LEMMA OriginKept ==
  ASSUME Inv, OriginInv, [Next]_vars
  PROVE  OriginInv'
<1>1. TypeOK /\ RunInv BY DEF Inv
<1>2. tip \in Nat /\ (tip' = tip \/ tip' = tip + 1)
  BY <1>1, PushesStay, TipIsNumber
<1>3. ASSUME NEW c \in Pushes, Past(c)'
      PROVE  Introduces(c, version[c]) /\ c <= tip
  <2>1. CASE run'[c] = run[c]
    BY <1>1, <1>3, <2>1 DEF Past, OriginInv, RunInv
  <2>2. CASE Step(c) \/ Fail(c) \/ Rerun(c)
    <3>1. run[c] # "none"
      BY <2>2 DEF Step, Detect, Lookup, View, Create, Dispatch, CloseMilestone, Fail, InProgress,
             Rerun
    <3>2. Past(c) \/ (Detect(c) /\ IsRelease(c))
      BY <1>1, <1>3, <2>2 DEF TypeOK, Past, Step, Detect, Lookup, View, AfterView, Create,
         Dispatch, CloseMilestone, Fail, Rerun
    <3>3. IsRelease(c) => Introduces(c, version[c])
      BY PushesAreNumbers DEF IsRelease, Attempt, NewVersion, ChangelogOk, ChangelogOkBefore,
         HaveBefore, Introduces
    <3> QED BY <1>1, <3>1, <3>2, <3>3 DEF OriginInv, RunInv
  <2>3. CASE c = tip + 1 /\ tip' = tip + 1 /\ run'[c] = "queued"
    BY <1>3, <2>3 DEF Past
  <2> QED BY <1>1, <2>1, <2>2, <2>3, RunSteps
<1>4. ASSUME NEW c \in Pushes, Past(c)'
      PROVE  Introduces(c, version[c])'
  <2>1. version'[c] = version[c] /\ version[c] \in Versions
    BY <1>1, <1>3, <1>4, PushesStay DEF TypeOK
  <2>2. Introduces(c, version[c])
    BY <1>3, <1>4
  <2>3. Introduces(c, version[c])' <=> Introduces(c, version[c])
    BY <1>1, <1>3, <1>4, <2>1, IntroductionStays
  <2> QED BY <2>2, <2>3
<1>5. ASSUME NEW v \in Versions
      PROVE  tags'[v] <= tip'
  <2>1. tags[v] \in Nat /\ tags[v] <= tip
    <3>1. tags[v] \in Pushes \cup {0} BY <1>1 DEF TypeOK
    <3>2. tags[v] <= tip BY DEF OriginInv
    <3>3. \A c \in Pushes : c \in Nat BY PushesAreNumbers
    <3>4. CASE tags[v] = 0 BY <3>2, <3>4
    <3>5. CASE tags[v] \in Pushes BY <3>2, <3>3, <3>5
    <3> QED BY <3>1, <3>4, <3>5
  <2>2. tags'[v] = tags[v] \/ tags'[v] \in 1..tip
    BY <1>1, TagSteps
  <2> QED BY <1>2, <2>1, <2>2
<1> QED BY <1>4, <1>5 DEF OriginInv

LEMMA OriginsStay ==
  ASSUME Inv, OriginInv, TagIsAtIntroduction, [Next]_vars
  PROVE  TagIsAtIntroduction'
<1>1. TypeOK /\ RunInv BY DEF Inv
<1>2. byHand \subseteq byHand'
  BY DEF Next, Step, Detect, Lookup, View, Create, Dispatch, CloseMilestone, Fail, Rerun,
     Push, ByHand, TagByHand, ReleaseByHand, DispatchByHand, vars
<1>3. ASSUME NEW v \in Versions, tags'[v] # 0
      PROVE  Introduces(tags[v], v)' \/ MadeByHand(v)'
  <2>1. CASE tags'[v] = tags[v]
    <3>1. PICK t \in Pushes : t = tags[v] /\ t <= tip
      BY <1>1, <1>3, <2>1 DEF TypeOK, OriginInv
    <3>2. Introduces(t, v) \/ MadeByHand(v)
      BY <1>3, <2>1, <3>1 DEF TagIsAtIntroduction, MadeByHand
    <3>3. Introduces(t, v)' \/ MadeByHand(v)'
      BY <1>1, <1>2, <3>1, <3>2, IntroductionStays DEF MadeByHand
    <3> QED BY <2>1, <3>1, <3>3 DEF Introduces
  <2>2. CASE MadeByHand(v)'
    BY <2>2
  <2>3. CASE \E c \in Pushes : Past(c) /\ version[c] = v /\ tags'[v] = c
    <3>1. PICK c \in Pushes : Past(c) /\ version[c] = v /\ tags'[v] = c
      BY <2>3
    <3>2. Introduces(c, v) /\ c <= tip
      BY <1>1, <3>1 DEF OriginInv, RunInv, Past
    <3>3. Introduces(c, v)'
      BY <1>1, <3>2, IntroductionStays
    <3> QED BY <3>1, <3>3 DEF Introduces
  <2> QED BY <1>1, <2>1, <2>2, <2>3, TagSteps
<1> QED BY <1>3 DEF TagIsAtIntroduction, MadeByHand

(* A tag that no hand made is on a push that introduced its version, in    *)
(* whatever order any number of runs go, fail and are run again.           *)
THEOREM TagsAreWhereVersionsCame == Safety => []TagIsAtIntroduction
<1>1. Init => OriginInv /\ TagIsAtIntroduction
  BY DEF Init, OriginInv, TagIsAtIntroduction, Past
<1>2. Inv /\ OriginInv /\ TagIsAtIntroduction /\ [Next]_vars
        => (OriginInv /\ TagIsAtIntroduction)'
  BY OriginKept, OriginsStay
<1> QED BY <1>1, <1>2, InitIsInv, StepsKeepInv, PTL DEF Safety

-----------------------------------------------------------------------------
(* The push's version is tagged elsewhere, and its run has not passed the  *)
(* lookup: wherever it goes from here, it does not pass it either.         *)
Stopped(c) ==
    /\ c <= tip
    /\ run[c] \in {"queued", "detected", "skipped", "failed"}
    /\ tags[version[c]] \notin {0, c}

LEMMA StoppedStays ==
  ASSUME Inv, [Next]_vars, NEW c \in Pushes, Stopped(c)
  PROVE  Stopped(c)'
<1>1. c <= tip' /\ version'[c] = version[c]
  BY PushesStay, PushesAreNumbers, TipIsNumber DEF Inv, Stopped
<1>2. tags'[version[c]] = tags[version[c]]
  BY GitHubGrows DEF Inv, TypeOK, Stopped
<1>3. run'[c] \in {"queued", "detected", "skipped", "failed"}
  <2>1. CASE Step(c) \/ Fail(c) \/ Rerun(c)
    BY <2>1 DEF Inv, TypeOK, Stopped, Step, Detect, Lookup, OwnOrNone, View, Create, Dispatch,
       CloseMilestone, Fail, Rerun
  <2>2. CASE run'[c] = run[c] \/ run'[c] = "queued"
    BY <2>2 DEF Stopped
  <2> QED BY <2>1, <2>2, RunSteps DEF Inv
<1> QED BY <1>1, <1>2, <1>3 DEF Stopped

(* A run whose version turns out to be tagged elsewhere never gets past    *)
(* the release step, in any attempt, whoever made the tag.                 *)
THEOREM NeverPastAWrongTag == Safety => WrongTagStops
<1> SUFFICES ASSUME NEW c \in Pushes
             PROVE  Safety => [](/\ run[c] \in {"queued", "detected"}
                                 /\ tags[version[c]] \notin {0, c}
                                 => [](run[c] \notin {"created", "dispatched", "done"}))
  BY DEF WrongTagStops
<1>1. Inv /\ Stopped(c) /\ [Next]_vars => Stopped(c)'
  BY StoppedStays
<1>2. Inv /\ run[c] \in {"queued", "detected"} /\ tags[version[c]] \notin {0, c} => Stopped(c)
  BY DEF Inv, RunInv, Stopped
<1>3. Stopped(c) => run[c] \notin {"created", "dispatched", "done"}
  BY DEF Stopped
<1> QED BY <1>1, <1>2, <1>3, InitIsInv, StepsKeepInv, PTL DEF Safety
-----------------------------------------------------------------------------
(* The versions and the pushes that introduced them. *)
Introduced == {p \in Versions \X Pushes : p[2] <= tip /\ Introduces(p[2], p[1])}

(* They only become more, and none without a push. *)
LEMMA IntroducedGrows ==
  ASSUME TypeOK, [Next]_vars
  PROVE  Introduced \subseteq Introduced' /\ (UNCHANGED history => Introduced' = Introduced)
<1>1. ASSUME NEW p \in Versions \X Pushes, p[2] <= tip
      PROVE  p[2] <= tip' /\ (Introduces(p[2], p[1])' <=> Introduces(p[2], p[1]))
  <2>1. p[1] \in Versions /\ p[2] \in Pushes /\ p[2] \in Nat /\ tip \in Nat
    BY PushesAreNumbers, TipIsNumber
  <2>2. p[2] <= tip'
    BY <1>1, <2>1, PushesStay
  <2> QED BY <1>1, <2>1, <2>2, IntroductionStays
<1>2. UNCHANGED history => Introduced' = Introduced
  BY DEF history, Introduced, Introduces
<1> QED BY <1>1, <1>2 DEF Introduced

(* The version of a push whose run is past its detection. *)
LEMMA PastIntroduced ==
  ASSUME Inv, OriginInv, NEW c \in Pushes, Past(c)
  PROVE  version[c] \in Versions /\ <<version[c], c>> \in Introduced
<1>1. version[c] \in Versions /\ c <= tip /\ Introduces(c, version[c])
  BY DEF Inv, TypeOK, RunInv, OriginInv, Past
<1> QED BY <1>1 DEF Introduced

(* What a run does on GitHub is what Lifecycle does without a hand. *)
LEMMA RunsFollow ==
  ASSUME Inv, OriginInv, [Next]_vars, NEW c \in Pushes, Step(c) \/ Fail(c) \/ Rerun(c)
  PROVE  [Promise!Next]_(Promise!vars)
<1>1. /\ UNCHANGED <<history, byHand>>
      /\ \/ UNCHANGED github
         \/ run[c] = "viewed" /\ Released(version[c], c, {})
         \/ run[c] = "created" /\ Dispatched(version[c])
         \/ run[c] = "dispatched" /\ Closed(version[c])
  BY DEF Step, Detect, Lookup, View, Create, Dispatch, CloseMilestone, Fail, Rerun
<1>2. Introduced' = Introduced
  BY <1>1, IntroducedGrows DEF Inv
<1>3. CASE UNCHANGED github
  BY <1>1, <1>2, <1>3 DEF Promise!vars, Introduced, github
<1>4. CASE run[c] = "viewed" /\ Released(version[c], c, {})
  <2>1. version[c] \in Versions /\ <<version[c], c>> \in Introduced
    BY <1>4, PastIntroduced DEF Past
  <2>2. tags' = [tags EXCEPT ![version[c]] = IF @ = 0 THEN c ELSE @]
    BY <1>4 DEF Released, Tagged
  <2>3. Promise!Release(version[c], c)
    BY <1>1, <1>2, <1>4, <2>1, <2>2 DEF Released, Promise!Release, Introduced
  <2> QED BY <2>1, <2>3 DEF Promise!Next
<1>5. CASE run[c] = "created" /\ Dispatched(version[c])
  <2>1. version[c] \in Versions /\ version[c] \in releases
    BY <1>5 DEF Inv, TypeOK, RunInv
  <2>2. Promise!Dispatch(version[c])
    BY <1>1, <1>2, <1>5, <2>1 DEF Dispatched, Promise!Dispatch, Introduced
  <2> QED BY <2>1, <2>2 DEF Promise!Next
<1>6. CASE run[c] = "dispatched" /\ Closed(version[c])
  <2>1. version[c] \in Versions /\ version[c] \in releases \cap dispatched
    BY <1>6 DEF Inv, TypeOK, RunInv
  <2>2. Promise!Close(version[c])
    BY <1>1, <1>2, <1>6, <2>1 DEF Closed, Promise!Close, Introduced
  <2> QED BY <2>1, <2>2 DEF Promise!Next
<1> QED BY <1>1, <1>3, <1>4, <1>5, <1>6

(* And a hand does what it is said to have done. *)
LEMMA HandsFollow ==
  ASSUME Inv, [Next]_vars, NEW v \in Versions,
         TagByHand(v) \/ ReleaseByHand(v) \/ DispatchByHand(v)
  PROVE  Promise!Next
<1>1. Introduced' = Introduced
  <2>1. UNCHANGED history
    BY DEF TagByHand, ReleaseByHand, DispatchByHand, ByHand
  <2> QED BY <2>1, IntroducedGrows DEF Inv
<1>2. PICK n \in Nat : Pushes = 1..n
  BY FS_CardinalityType, ReleaseAssumption
<1>3. tip \in Nat /\ (tip # 0 => tip \in Pushes)
  BY TipIsNumber DEF Inv
<1>4. CASE TagByHand(v)
  <2>1. PICK c \in 1..tip : tags' = [tags EXCEPT ![v] = c]
    BY <1>4 DEF TagByHand
  <2>2. c \in Pushes
    BY <1>2, <1>3, <2>1
  <2>3. Promise!Tag(v, c)
    BY <1>1, <1>4, <2>1 DEF TagByHand, ByHand, Promise!Tag, Promise!Hand, Introduced
  <2> QED BY <2>2, <2>3 DEF Promise!Next
<1>5. CASE ReleaseByHand(v)
  <2>1. tip \in Pushes /\ Released(v, tip, IF tags[v] = 0 THEN {v} ELSE {})
    BY <1>3, <1>5 DEF ReleaseByHand
  <2>2. tags' = [tags EXCEPT ![v] = IF @ = 0 THEN tip ELSE @]
    BY <2>1 DEF Released, Tagged
  <2>3. Promise!Release(v, tip)
    BY <1>1, <1>5, <2>1, <2>2 DEF ReleaseByHand, Released, ByHand, Promise!Release, Promise!Hand,
       Introduced
  <2> QED BY <2>1, <2>3 DEF Promise!Next
<1>6. CASE DispatchByHand(v)
  <2>1. Promise!Dispatch(v)
    BY <1>1, <1>6 DEF DispatchByHand, Dispatched, ByHand, Promise!Dispatch, Promise!Hand, Introduced
  <2> QED BY <2>1 DEF Promise!Next
<1> QED BY <1>4, <1>5, <1>6

(* Releasing implements Lifecycle: no failure, re-run or other run makes   *)
(* a step out of order, moves a tag or takes anything back.                *)
THEOREM RunsKeepLifecycle == Safety => LifecyclePromise
<1>1. Init => OriginInv /\ Promise!Init
  <2>1. Init => OriginInv
    BY DEF Init, OriginInv, Past
  <2>2. Init => Introduced = {}
    <3>1. \A p \in Versions \X Pushes : p[2] \in Nat /\ p[2] # 0
      BY PushesAreNumbers
    <3> QED BY <3>1 DEF Init, Introduced
  <2> QED BY <2>1, <2>2 DEF Init, Promise!Init, Introduced
<1>2. Inv /\ OriginInv /\ [Next]_vars => OriginInv'
  BY OriginKept
<1>3. Inv /\ OriginInv /\ [Next]_vars => [Promise!Next]_(Promise!vars)
  <2> SUFFICES ASSUME Inv, OriginInv, [Next]_vars
               PROVE  [Promise!Next]_(Promise!vars)
    OBVIOUS
  <2>1. CASE \E c \in Pushes : Step(c) \/ Fail(c) \/ Rerun(c)
    BY <2>1, RunsFollow
  <2>2. CASE \E v \in Versions : TagByHand(v) \/ ReleaseByHand(v) \/ DispatchByHand(v)
    BY <2>2, HandsFollow
  <2>3. CASE \E v \in Versions, H \in SUBSET Versions : Push(v, H)
    <3>1. UNCHANGED <<tags, releases, dispatched, milestones, byHand>>
      BY <2>3 DEF Push, github
    <3>2. Introduced' = Introduced \cup Introduced' /\ Introduced' \in SUBSET (Versions \X Pushes)
      BY IntroducedGrows DEF Inv, Introduced
    <3>3. Promise!Introduce
      BY <3>1, <3>2 DEF Promise!Introduce, Introduced
    <3> QED BY <3>3 DEF Promise!Next
  <2>4. CASE UNCHANGED vars
    <3>1. Introduced' = Introduced
      BY <2>4, IntroducedGrows DEF Inv, vars
    <3> QED BY <2>4, <3>1 DEF Promise!vars, vars, github, Introduced
  <2> QED BY <2>1, <2>2, <2>3, <2>4 DEF Next
<1> QED
  BY <1>1, <1>2, <1>3, InitIsInv, StepsKeepInv, PTL DEF Safety, LifecyclePromise, Promise!Spec
=============================================================================
