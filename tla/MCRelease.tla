------------------------------ MODULE MCRelease ------------------------------
(***************************************************************************)
(* Instances of Release for TLC: two pushes are enough for a bump, the     *)
(* later fix of its heading and an unrelated push, three for a version     *)
(* that was used before.                                                   *)
(***************************************************************************)
EXTENDS Release

MCTwoPushes == 1..2
MCThreePushes == 1..3
=============================================================================
