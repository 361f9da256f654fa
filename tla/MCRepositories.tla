--------------------------- MODULE MCRepositories ---------------------------
(* Two names and an alias in two spellings.                                 *)
EXTENDS Repositories, TLC

CONSTANTS a, b, x, X

FoldCase == [ref \in Refs |-> IF ref = X THEN x ELSE ref]

(* An earlier run has left one repository.                                  *)
FoundOne == [n \in Names |-> IF n = a THEN [aliases |-> {a, x}, kind |-> "plain"]
                             ELSE None]
=============================================================================
