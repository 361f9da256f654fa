------------------------------ MODULE MCServer ------------------------------
(* Files that are sound, that change gitRoot and point the archive at the   *)
(* old one, and that each of the late checks rejects.                       *)
EXTENDS Server

CONSTANTS a, b, alice, builtin

Contents == {
    [sound |-> TRUE, root |-> a, dir |-> None, push |-> 0, loggable |-> TRUE,
     users |-> {alice}, syncs |-> 1],
    [sound |-> TRUE, root |-> b, dir |-> a, push |-> 3, loggable |-> TRUE,
     users |-> {}, syncs |-> 0],
    [sound |-> TRUE, root |-> a, dir |-> a, push |-> 1, loggable |-> TRUE,
     users |-> {alice}, syncs |-> 2],
    [sound |-> TRUE, root |-> a, dir |-> b, push |-> 1, loggable |-> FALSE,
     users |-> {alice}, syncs |-> 1],
    [sound |-> FALSE, root |-> a, dir |-> b, push |-> -1, loggable |-> TRUE,
     users |-> {}, syncs |-> 1]}
=============================================================================
