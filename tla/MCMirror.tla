------------------------------ MODULE MCMirror ------------------------------
(* Two branches, the lock of one of them, and three commits: c2 was made on *)
(* c1, c3 is a rewrite.                                                     *)
EXTENDS Mirror

CONSTANTS c1, c2, c3, manual, main, side, mainlock

Kinds == [p \in Writers |-> IF p = Sync THEN 2 ELSE 1]
Line == [c \in Commits |-> IF c = c2 THEN c1 ELSE Nil]
FirstRefs == [r \in Refs |-> IF r = main THEN c1 ELSE Nil]
LockOfMain == [r \in Refs |-> IF r = main THEN mainlock ELSE Nil]
=============================================================================
