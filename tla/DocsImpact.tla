----------------------------- MODULE DocsImpact -----------------------------
(***************************************************************************)
(* check_pr_docs_impact.py in a pull request's life: CI runs it on the     *)
(* events of ci.yml, on the body that the event carries and on the files   *)
(* that differ from where the branch left main. The author edits the body, *)
(* pushes, and may ask for a re-run, which gets the same event again;      *)
(* other changes reach main meanwhile. What counts of a body is the ticked *)
(* lines of its "Documentation impact".                                    *)
(* Operators whose name ends in _mutant are plausible mistakes in the      *)
(* definition that follows them.                                           *)
(***************************************************************************)
EXTENDS Naturals, Sequences

CONSTANTS
    MaxReasons   \* bound: the ticked "No doc update needed" lines of a body

ASSUME DocsImpactAssumption == MaxReasons \in Nat

(* What follows "No doc update needed:" on a ticked line. *)
Reasons == {"reason", "placeholder"}

Bodies == [docs_updated : BOOLEAN, no_docs : UNION {[1..n -> Reasons] : n \in 0..MaxReasons}]

Results == {"none", "queued", "passed", "failed"}

VARIABLES
    exempt,     \* the pull request is Dependabot's
    body,       \* its body now
    docs,       \* its own commits change a file of DOCS_PATHS
    mainDocs,   \* main has changed one since the branch left it
    event,      \* the body that the last event of ci.yml carries
    check,      \* the check of that event
    edited      \* history: the body was edited since that event

docsVars == <<exempt, body, docs, mainDocs, event, check, edited>>

-----------------------------------------------------------------------------
(* The script *)

(* The first ticked line decides; the template's placeholder is no reason. *)
NoDocsUpdate(b) == b.no_docs # <<>> /\ b.no_docs[1] # "placeholder"

(* git diff base..head *)
DocsChanged_mutant(own, main) == own \/ main

(* git diff base...head: what the branch changed since it left main. *)
DocsChanged(own, main) == own

(* Exactly one of the two is declared, and it is the one that is true. *)
Verdict(b, own, main) ==
    \/ exempt
    \/ /\ b.docs_updated # NoDocsUpdate(b)
       /\ b.docs_updated => DocsChanged(own, main)
       /\ NoDocsUpdate(b) => ~DocsChanged(own, main)

-----------------------------------------------------------------------------
(* The pull request *)

DocsInit ==
    /\ exempt \in BOOLEAN
    /\ body \in Bodies
    /\ docs \in BOOLEAN
    /\ mainDocs = FALSE
    /\ event = body
    /\ check = "none"
    /\ edited = FALSE

(* Opened: the check of what was opened is queued. *)
Open ==
    /\ check = "none"
    /\ event' = body
    /\ check' = "queued"
    /\ UNCHANGED <<exempt, body, docs, mainDocs, edited>>

RunCheck ==
    /\ check = "queued"
    /\ check' = IF Verdict(event, docs, mainDocs) THEN "passed" ELSE "failed"
    /\ UNCHANGED <<exempt, body, docs, mainDocs, event, edited>>

(* New commits: a running check is cancelled and one of the new event is   *)
(* queued.                                                                 *)
PushCommit(changed) ==
    /\ check # "none"
    /\ docs' = changed
    /\ event' = body
    /\ check' = "queued"
    /\ edited' = FALSE
    /\ UNCHANGED <<exempt, body, mainDocs>>

(* ci.yml is not triggered by an edit: no check is queued. *)
EditBody(b) ==
    /\ check # "none"
    /\ body' = b
    /\ edited' = TRUE
    /\ UNCHANGED <<exempt, docs, mainDocs, event, check>>

(* A re-run of the workflow is given the event it had. *)
Rerun ==
    /\ check \in {"passed", "failed"}
    /\ check' = "queued"
    /\ UNCHANGED <<exempt, body, docs, mainDocs, event, edited>>

(* Another pull request that changes the docs is merged. *)
MainChanges ==
    /\ check # "none"
    /\ mainDocs' = TRUE
    /\ UNCHANGED <<exempt, body, docs, event, check, edited>>

DocsNext ==
    \/ Open
    \/ RunCheck
    \/ \E changed \in BOOLEAN : PushCommit(changed)
    \/ \E b \in Bodies : EditBody(b)
    \/ Rerun
    \/ MainChanges

DocsSpec == DocsInit /\ [][DocsNext]_docsVars

-----------------------------------------------------------------------------
(* Properties *)

(* The declaration of b says of the branch what is true of it. *)
Declares(b, own) ==
    /\ b.docs_updated <=> own
    /\ b.no_docs = <<>> \/ Head(b.no_docs) = "placeholder" <=> own

(* Until the body is edited, a finished check tells the truth about the    *)
(* pull request as it is: whatever main changed meanwhile and however      *)
(* often the check ran again, it is green exactly when the declaration     *)
(* fits the branch's own commits, or the author is Dependabot.             *)
GreenIsTrue ==
    ~edited =>
        /\ check = "passed" => exempt \/ Declares(body, docs)
        /\ check = "failed" => ~exempt /\ ~Declares(body, docs)
=============================================================================
