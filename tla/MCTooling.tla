----------------------------- MODULE MCTooling -----------------------------
(* The two scripts of the repository's tooling, side by side. They share    *)
(* nothing, so their interleavings would say nothing new: pull requests are *)
(* checked beside the empty CHANGELOG only, and the notes of every other    *)
(* CHANGELOG are written beside a pull request that is not opened.          *)
EXTENDS ReleaseNotes, DocsImpact

MCInit ==
    /\ NotesInit
    /\ DocsInit
    /\ changelog # <<>> => ~exempt /\ docs /\ body = [docs_updated |-> TRUE, no_docs |-> <<>>]

MCNext ==
    \/ NotesNext /\ UNCHANGED docsVars
    \/ changelog = <<>> /\ DocsNext /\ UNCHANGED notesVars

MCSpec == MCInit /\ [][MCNext]_<<notesVars, docsVars>>
=============================================================================
