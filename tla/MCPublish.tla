------------------------------ MODULE MCPublish ------------------------------
(***************************************************************************)
(* The instances of Publish for TLC: two commits that share a short SHA,   *)
(* so that each may find the other's image under its tag; and two that do  *)
(* not, where the registries may only differ by what failed.               *)
(***************************************************************************)
EXTENDS Publish

CONSTANTS s1, s2

MCCommits == 1..2
MCSharedShort == <<s1, s1>>
MCOwnShort == <<s1, s2>>
=============================================================================
