----------------------------- MODULE AtomicRef -----------------------------
(***************************************************************************)
(* What RefStore.Update promises of one ref: every update is a single      *)
(* compare-and-swap.  It commits, it is refused because the value is not   *)
(* the one it expected, or it aborts with no effect.                       *)
(***************************************************************************)

CONSTANTS
    Updates,    \* the update requests of a behaviour, each served once
    Zero        \* the zero oid: "must be absent" as old, "delete" as new

VARIABLES
    val,        \* the value a reader of the ref sees, Zero when it is absent
    floor,      \* what shows through once the loose file is gone (packed-refs)
    req,        \* req[u]: the old and new oid of update u
    res         \* res[u]: the answer update u got

vars == <<val, floor, req, res>>

Pending(u) == res[u] = "none"

Init == res = [u \in Updates |-> "none"]

(* The expected value is there: the new one takes its place at once.       *)
Commit(u) ==
    /\ Pending(u)
    /\ val = req[u].old
    /\ val' = IF req[u].new = Zero THEN floor ELSE req[u].new
    /\ res' = [res EXCEPT ![u] = "ok"]
    /\ UNCHANGED <<floor, req>>

(* Another value is there: the update is refused and changes nothing.      *)
Refuse(u) ==
    /\ Pending(u)
    /\ val # req[u].old
    /\ res' = [res EXCEPT ![u] = IF req[u].old = Zero THEN "exists" ELSE "stale"]
    /\ UNCHANGED <<val, floor, req>>

(* The lock is taken or the disk fails: no effect, whatever the value is.  *)
Abort(u) ==
    /\ Pending(u)
    /\ \E why \in {"lock", "io"} : res' = [res EXCEPT ![u] = why]
    /\ UNCHANGED <<val, floor, req>>

Next == \E u \in Updates : Commit(u) \/ Refuse(u) \/ Abort(u)

Spec == Init /\ [][Next]_vars
=============================================================================
