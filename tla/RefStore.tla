------------------------------ MODULE RefStore ------------------------------
(***************************************************************************)
(* The lock-file protocol of git/refs.go for one ref.  Every caller builds *)
(* its own RefStore, so RefStore.mu serialises nothing between goroutines: *)
(* what protects the ref is <ref>.lock, created with O_EXCL, and the       *)
(* rename of that file onto the ref.                                       *)
(*                                                                         *)
(* A file is known by the update that created it, because a rename moves   *)
(* the file a path names at that moment, whoever created it.               *)
(***************************************************************************)
EXTENDS Naturals, FiniteSets

CONSTANTS
    Updates,    \* calls of updateOne, each running once
    Oids,       \* object ids
    Zero,       \* the zero oid
    NoFile,     \* a path that names no file
    Empty,      \* the content of a lock file before it is written
    Orig        \* the loose ref file found at the start

ASSUME ConstantsDistinct ==
    /\ Zero \notin Oids
    /\ Empty \notin Oids \cup {Zero}
    /\ NoFile \notin Updates \cup {Orig}
    /\ Orig \notin Updates

VARIABLES
    req,        \* req[u]: the RefUpdate of u, old and new oid
    pc,         \* pc[u]: where updateOne stands
    lock,       \* the file <ref>.lock names, or NoFile
    loose,      \* the file <ref> names, or NoFile
    data,       \* data[f]: content of file f
    packed,     \* the value of the ref in packed-refs, Zero when it has none
    result,     \* result[u]: RefUpdateResult of u, "none" until it is known
    stolen      \* history: a deferred Remove has unlinked another's lock file

vars == <<req, pc, lock, loose, data, packed, result, stolen>>

Files == Updates \cup {Orig}
OidsOrZero == Oids \cup {Zero}

(* readCurrentOid: the loose file if there is one, packed-refs otherwise.  *)
Current == IF loose = NoFile THEN packed ELSE data[loose]

Init ==
    /\ req \in [Updates -> [old : OidsOrZero, new : OidsOrZero]]
    /\ pc = [u \in Updates |-> "idle"]
    /\ lock = NoFile
    /\ loose \in {NoFile, Orig}
    /\ \E found \in Oids : data = [f \in Files |-> IF f = Orig THEN found ELSE Empty]
    /\ packed \in OidsOrZero
    /\ result = [u \in Updates |-> "none"]
    /\ stolen = FALSE

-----------------------------------------------------------------------------
Goto(u, label) == pc' = [pc EXCEPT ![u] = label]
Answer(u, why) == result' = [result EXCEPT ![u] = why]

(* Mutant: the lock file is opened without O_EXCL.                         *)
OpenLockShared(u) ==
    /\ pc[u] = "idle"
    /\ lock' = u
    /\ Goto(u, "check")
    /\ UNCHANGED <<req, loose, data, packed, result, stolen>>

(* os.OpenFile(lockPath, O_CREATE|O_EXCL|O_WRONLY) succeeds.               *)
OpenLock(u) ==
    /\ pc[u] = "idle"
    /\ lock = NoFile
    /\ lock' = u
    /\ Goto(u, "check")
    /\ UNCHANGED <<req, loose, data, packed, result, stolen>>

(* MkdirAll or OpenFile fails, always so when the lock file is there.      *)
LockFails(u) ==
    /\ pc[u] = "idle"
    /\ Answer(u, "lock")
    /\ Goto(u, "done")
    /\ UNCHANGED <<req, lock, loose, data, packed, stolen>>

(* Mutant: an early return before the deferred Remove is registered.       *)
CheckOldLeaks(u) ==
    /\ pc[u] = "check"
    /\ IF Current = req[u].old
       THEN Goto(u, IF req[u].new = Zero THEN "remove" ELSE "write") /\ UNCHANGED result
       ELSE Goto(u, "done") /\ Answer(u, "stale")
    /\ UNCHANGED <<req, lock, loose, data, packed, stolen>>

(* Mutant: only creations are compared.                                    *)
CheckOldCreations(u) ==
    /\ pc[u] = "check"
    /\ IF req[u].old # Zero \/ Current = Zero
       THEN Goto(u, IF req[u].new = Zero THEN "remove" ELSE "write") /\ UNCHANGED result
       ELSE Goto(u, "unlink") /\ Answer(u, "exists")
    /\ UNCHANGED <<req, lock, loose, data, packed, stolen>>

(* readCurrentOid and the compare: what Update's callers rely on as CAS.   *)
CheckOld(u) ==
    /\ pc[u] = "check"
    /\ \/ /\ Current = req[u].old
          /\ Goto(u, IF req[u].new = Zero THEN "remove" ELSE "write")
          /\ UNCHANGED result
       \/ /\ Current # req[u].old
          /\ Answer(u, IF req[u].old = Zero THEN "exists" ELSE "stale")
          /\ Goto(u, "unlink")
    /\ UNCHANGED <<req, lock, loose, data, packed, stolen>>

(* Deleting removes the loose file only; packed-refs is never rewritten.   *)
RemoveLoose(u) ==
    /\ pc[u] = "remove"
    /\ loose' = NoFile
    /\ Answer(u, "ok")
    /\ Goto(u, "unlink")
    /\ UNCHANGED <<req, lock, data, packed, stolen>>

(* Mutant: the lock file is renamed before it is written.                  *)
WriteLockUnwritten(u) ==
    /\ pc[u] = "write"
    /\ Goto(u, "rename")
    /\ UNCHANGED <<req, lock, loose, data, packed, result, stolen>>

(* Fprintf to the open descriptor: it writes u's own file, wherever a      *)
(* rename may have moved that file meanwhile.                              *)
WriteLock(u) ==
    /\ pc[u] = "write"
    /\ data' = [data EXCEPT ![u] = req[u].new]
    /\ Goto(u, "rename")
    /\ UNCHANGED <<req, lock, loose, packed, result, stolen>>

(* Reading the ref, removing, writing or renaming the file fails (disk     *)
(* full, no permission): the answer is an error and the ref is as it was.  *)
IoFails(u) ==
    /\ pc[u] \in {"check", "remove", "write", "rename"}
    /\ Answer(u, "io")
    /\ Goto(u, "unlink")
    /\ UNCHANGED <<req, lock, loose, data, packed, stolen>>

(* os.Rename(lockPath, path) moves whatever file lockPath names.           *)
RenameLock(u) ==
    /\ pc[u] = "rename"
    /\ IF lock = NoFile
       THEN Answer(u, "io") /\ UNCHANGED <<lock, loose>>
       ELSE Answer(u, "ok") /\ loose' = lock /\ lock' = NoFile
    /\ Goto(u, "unlink")
    /\ UNCHANGED <<req, data, packed, stolen>>

(* defer os.Remove(lockPath): it runs on every path, after the rename too, *)
(* and removes the file lockPath names then.                               *)
DeferredRemove(u) ==
    /\ pc[u] = "unlink"
    /\ stolen' = (stolen \/ lock \notin {NoFile, u})
    /\ lock' = NoFile
    /\ Goto(u, "done")
    /\ UNCHANGED <<req, loose, data, packed, result>>

InFlight(u) == pc[u] \notin {"idle", "done", "dead"}

(* The process dies: deferred calls do not run and the files stay.         *)
Crash ==
    /\ \E u \in Updates : InFlight(u)
    /\ pc' = [u \in Updates |-> IF InFlight(u) THEN "dead" ELSE pc[u]]
    /\ UNCHANGED <<req, lock, loose, data, packed, result, stolen>>

Step(u) ==
    \/ OpenLock(u) \/ LockFails(u) \/ CheckOld(u) \/ RemoveLoose(u)
    \/ WriteLock(u) \/ IoFails(u) \/ RenameLock(u) \/ DeferredRemove(u)

Next == Crash \/ \E u \in Updates : Step(u)

Spec == Init /\ [][Next]_vars

-----------------------------------------------------------------------------
Labels == {"idle", "check", "remove", "write", "rename", "unlink", "done", "dead"}
Results == {"none", "ok", "exists", "stale", "lock", "io"}

(* Files, contents and control points stay in their ranges.                *)
TypeOK ==
    /\ req \in [Updates -> [old : OidsOrZero, new : OidsOrZero]]
    /\ pc \in [Updates -> Labels]
    /\ lock \in Updates \cup {NoFile}
    /\ loose \in Files \cup {NoFile}
    /\ data \in [Files -> Oids \cup {Empty}]
    /\ packed \in OidsOrZero
    /\ result \in [Updates -> Results]
    /\ stolen \in BOOLEAN

(* u has created its lock file and not given it away by the rename yet.    *)
Holds(u) ==
    \/ pc[u] \in {"check", "remove", "write", "rename"}
    \/ pc[u] = "unlink" /\ ~(result[u] = "ok" /\ req[u].new # Zero)

(* As long as no deferred Remove has hit another update's lock file, every *)
(* update past O_EXCL still owns <ref>.lock, so at most one is between the *)
(* compare and the rename (refs.go: "O_EXCL against concurrent races").    *)
LockOwned == ~stolen => \A u \in Updates : Holds(u) => lock = u

(* Until then no reader, in this process or after a crash and restart,     *)
(* finds an empty ref file: a file is renamed onto the ref only once its   *)
(* writer has written it.                                                  *)
NeverTorn == ~stolen => Current # Empty

(* No path of updateOne leaves the lock file behind: once no update is in  *)
(* flight and none died, the next one can take the lock.  (After a crash   *)
(* the file stays and every later update of this ref answers "lock".)      *)
NoLeakedLock ==
    (\A u \in Updates : pc[u] \in {"idle", "done"}) => lock = NoFile

Atomic == INSTANCE AtomicRef WITH val <- Current, floor <- packed, res <- result

(* Until then every step of the protocol is a step of the atomic register  *)
(* AtomicRef or leaves its value and answers alone: Update is a CAS.       *)
AtomicUntilStolen == Atomic!Init /\ [][stolen \/ Atomic!Next]_(Atomic!vars)

=============================================================================
