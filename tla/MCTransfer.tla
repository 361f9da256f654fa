----------------------------- MODULE MCTransfer -----------------------------
(* Blobs 1 to 3, trees 4 and 5, commits 6 and 7, a tag 8 of 7, and a commit  *)
(* 9 that only a client has.  Tree 5 holds a submodule, 99, and shares blob  *)
(* 1 with tree 4.  The tag 10 is longer than what is accepted; blob 1 is so  *)
(* long that deltas beyond it can be too far from their base.                *)
EXTENDS Transfer

MCObjects == 1..10
MCType == <<3, 3, 3, 2, 2, 1, 1, 4, 1, 4>>
MCLinks == <<<<>>, <<>>, <<>>, <<1>>, <<1, 2, 99, 3>>, <<4>>, <<5, 6>>, <<7>>, <<4, 7>>, <<6>>>>
MCGitlinks == [o \in MCObjects |-> IF o = 5 THEN {99} ELSE {}]
MCSize == <<20, 3, 2, 1, 1, 1, 1, 1, 1, 21>>
MCTips == {{4, 6}, {8}, {10}, {2, 3}}
MCStarts == {{}, {6}, {9}}
MCServed == (1..8) \cup {10}
=============================================================================
