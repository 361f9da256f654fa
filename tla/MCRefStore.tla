----------------------------- MODULE MCRefStore -----------------------------
(* Three updates race on one ref with two commits to choose from.          *)
EXTENDS RefStore, TLC

Symmetric == Permutations(Updates) \cup Permutations(Oids)
=============================================================================
