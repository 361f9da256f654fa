------------------------------ MODULE MCDelta -------------------------------
(* Every base and target of up to six bits.                                 *)
EXTENDS Delta

MCContents == UNION {[1..n -> {0, 1}] : n \in 0..6}
=============================================================================
