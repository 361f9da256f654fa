---------------------------- MODULE MCTaskQueue ----------------------------
(* Three tasks on two places, a pool that grows and shrinks, two stoppers. *)
EXTENDS TaskQueue, TLC
=============================================================================
