--------------------------- MODULE MCSyncManager ---------------------------
(* One scheduled mirror, one name that may become or stop being a mirror,   *)
(* a queue of one place.                                                    *)
EXTENDS SyncManager

CONSTANTS r1, r2

BootOne == [r \in Repos |-> IF r = r1 THEN 1 ELSE Absent]
=============================================================================
