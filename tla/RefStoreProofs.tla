--------------------------- MODULE RefStoreProofs ---------------------------
(***************************************************************************)
(* Proofs about the lock-file protocol, for any set of updates and oids:   *)
(* the invariants that module RefStore states, and the refinement of the   *)
(* atomic register as long as no deferred Remove has hit a foreign lock.   *)
(***************************************************************************)
EXTENDS RefStore, TLAPS

-----------------------------------------------------------------------------
(* The strengthening.  A lock file that exists belongs to an update that   *)
(* has not finished, or that died.                                         *)
LockLive == lock # NoFile => Holds(lock) \/ pc[lock] = "dead"

(* The branch an update took after the compare fits its request, and the   *)
(* file about to be renamed is written.                                    *)
BranchFits ==
    \A u \in Updates :
        /\ pc[u] \in {"write", "rename"} => req[u].new # Zero
        /\ pc[u] = "remove" => req[u].new = Zero
        /\ pc[u] = "rename" => data[u] = req[u].new

(* An update has no answer before its ref is changed or it gave up.        *)
NoAnswerYet ==
    \A u \in Updates :
        pc[u] \in {"idle", "check", "remove", "write", "rename"} => result[u] = "none"

(* A file is not the ref before its creator has renamed it.                *)
NotYetRef ==
    ~stolen => \A u \in Updates : pc[u] = "idle" \/ Holds(u) => loose # u

(* The file that is the ref has been written.                              *)
RefWritten == ~stolen => (loose # NoFile => data[loose] # Empty)

(* What the compare has established still holds when the ref is changed.   *)
CompareHolds ==
    ~stolen => \A u \in Updates :
                  pc[u] \in {"remove", "write", "rename"} => Current = req[u].old

IInv ==
    /\ TypeOK
    /\ LockOwned
    /\ LockLive
    /\ BranchFits
    /\ NoAnswerYet
    /\ NotYetRef
    /\ RefWritten
    /\ CompareHolds
-----------------------------------------------------------------------------
(* The initial states satisfy the invariant: nobody holds the lock, and a  *)
(* loose file found at the start holds a commit.                           *)
LEMMA InitInv == Init => IInv
  BY ConstantsDistinct DEF Init, IInv, TypeOK, Labels, Results, Files, OidsOrZero, LockOwned,
     Holds, LockLive, BranchFits, NoAnswerYet, NotYetRef, RefWritten, CompareHolds

(* Each step keeps every variable in its range.                            *)
LEMMA TypeStep ==
    ASSUME TypeOK, BranchFits, [Next]_vars
    PROVE  TypeOK'
<1> USE ConstantsDistinct DEF TypeOK, Files, OidsOrZero, Labels, Results,
         Goto, Answer, BranchFits
<1>1. ASSUME NEW u \in Updates, OpenLock(u) PROVE TypeOK'
  BY <1>1 DEF OpenLock
<1>2. ASSUME NEW u \in Updates, LockFails(u) PROVE TypeOK'
  BY <1>2 DEF LockFails
<1>3. ASSUME NEW u \in Updates, CheckOld(u) PROVE TypeOK'
  BY <1>3 DEF CheckOld
<1>4. ASSUME NEW u \in Updates, RemoveLoose(u) PROVE TypeOK'
  BY <1>4 DEF RemoveLoose
<1>5. ASSUME NEW u \in Updates, WriteLock(u) PROVE TypeOK'
  BY <1>5 DEF WriteLock
<1>6. ASSUME NEW u \in Updates, IoFails(u) PROVE TypeOK'
  BY <1>6 DEF IoFails
<1>7. ASSUME NEW u \in Updates, RenameLock(u) PROVE TypeOK'
  BY <1>7 DEF RenameLock
<1>8. ASSUME NEW u \in Updates, DeferredRemove(u) PROVE TypeOK'
  BY <1>8 DEF DeferredRemove
<1>9. CASE Crash
  BY <1>9 DEF Crash, InFlight
<1>10. CASE UNCHANGED vars
  BY <1>10 DEF vars
<1> QED BY <1>1, <1>2, <1>3, <1>4, <1>5, <1>6, <1>7, <1>8, <1>9, <1>10 DEF Next, Step

(* A holder's lock file is neither replaced nor removed by another update. *)
LEMMA LockOwnedStep ==
    ASSUME TypeOK, LockOwned, BranchFits, NoAnswerYet, [Next]_vars
    PROVE  LockOwned'
<1> USE ConstantsDistinct DEF TypeOK, Files, OidsOrZero, Labels, Results,
         Goto, Answer, LockOwned, Holds, BranchFits, NoAnswerYet
<1>1. ASSUME NEW u \in Updates, OpenLock(u) PROVE LockOwned'
  BY <1>1 DEF OpenLock
<1>2. ASSUME NEW u \in Updates, LockFails(u) PROVE LockOwned'
  BY <1>2 DEF LockFails
<1>3. ASSUME NEW u \in Updates, CheckOld(u) PROVE LockOwned'
  BY <1>3 DEF CheckOld
<1>4. ASSUME NEW u \in Updates, RemoveLoose(u) PROVE LockOwned'
  BY <1>4 DEF RemoveLoose
<1>5. ASSUME NEW u \in Updates, WriteLock(u) PROVE LockOwned'
  BY <1>5 DEF WriteLock
<1>6. ASSUME NEW u \in Updates, IoFails(u) PROVE LockOwned'
  BY <1>6 DEF IoFails
<1>7. ASSUME NEW u \in Updates, RenameLock(u) PROVE LockOwned'
  BY <1>7 DEF RenameLock
<1>8. ASSUME NEW u \in Updates, DeferredRemove(u) PROVE LockOwned'
  BY <1>8 DEF DeferredRemove
<1>9. CASE Crash
  BY <1>9 DEF Crash, InFlight
<1>10. CASE UNCHANGED vars
  BY <1>10 DEF vars
<1> QED BY <1>1, <1>2, <1>3, <1>4, <1>5, <1>6, <1>7, <1>8, <1>9, <1>10 DEF Next, Step

(* An update that ends leaves no lock file of its own.                     *)
LEMMA LockLiveStep ==
    ASSUME TypeOK, LockLive, BranchFits, NoAnswerYet, [Next]_vars
    PROVE  LockLive'
<1> USE ConstantsDistinct DEF TypeOK, Files, OidsOrZero, Labels, Results,
         Goto, Answer, LockLive, Holds, BranchFits, NoAnswerYet
<1>1. ASSUME NEW u \in Updates, OpenLock(u) PROVE LockLive'
  BY <1>1 DEF OpenLock
<1>2. ASSUME NEW u \in Updates, LockFails(u) PROVE LockLive'
  BY <1>2 DEF LockFails
<1>3. ASSUME NEW u \in Updates, CheckOld(u) PROVE LockLive'
  BY <1>3 DEF CheckOld
<1>4. ASSUME NEW u \in Updates, RemoveLoose(u) PROVE LockLive'
  BY <1>4 DEF RemoveLoose
<1>5. ASSUME NEW u \in Updates, WriteLock(u) PROVE LockLive'
  BY <1>5 DEF WriteLock
<1>6. ASSUME NEW u \in Updates, IoFails(u) PROVE LockLive'
  BY <1>6 DEF IoFails
<1>7. ASSUME NEW u \in Updates, RenameLock(u) PROVE LockLive'
  BY <1>7 DEF RenameLock
<1>8. ASSUME NEW u \in Updates, DeferredRemove(u) PROVE LockLive'
  BY <1>8 DEF DeferredRemove
<1>9. CASE Crash
  BY <1>9 DEF Crash, InFlight
<1>10. CASE UNCHANGED vars
  BY <1>10 DEF vars
<1> QED BY <1>1, <1>2, <1>3, <1>4, <1>5, <1>6, <1>7, <1>8, <1>9, <1>10 DEF Next, Step

(* The request is fixed and an update's file is written by itself only.    *)
LEMMA BranchFitsStep ==
    ASSUME TypeOK, BranchFits, [Next]_vars
    PROVE  BranchFits'
<1> USE ConstantsDistinct DEF TypeOK, Files, OidsOrZero, Labels, Results,
         Goto, Answer, BranchFits
<1>1. ASSUME NEW u \in Updates, OpenLock(u) PROVE BranchFits'
  BY <1>1 DEF OpenLock
<1>2. ASSUME NEW u \in Updates, LockFails(u) PROVE BranchFits'
  BY <1>2 DEF LockFails
<1>3. ASSUME NEW u \in Updates, CheckOld(u) PROVE BranchFits'
  BY <1>3 DEF CheckOld
<1>4. ASSUME NEW u \in Updates, RemoveLoose(u) PROVE BranchFits'
  BY <1>4 DEF RemoveLoose
<1>5. ASSUME NEW u \in Updates, WriteLock(u) PROVE BranchFits'
  BY <1>5 DEF WriteLock
<1>6. ASSUME NEW u \in Updates, IoFails(u) PROVE BranchFits'
  BY <1>6 DEF IoFails
<1>7. ASSUME NEW u \in Updates, RenameLock(u) PROVE BranchFits'
  BY <1>7 DEF RenameLock
<1>8. ASSUME NEW u \in Updates, DeferredRemove(u) PROVE BranchFits'
  BY <1>8 DEF DeferredRemove
<1>9. CASE Crash
  BY <1>9 DEF Crash, InFlight
<1>10. CASE UNCHANGED vars
  BY <1>10 DEF vars
<1> QED BY <1>1, <1>2, <1>3, <1>4, <1>5, <1>6, <1>7, <1>8, <1>9, <1>10 DEF Next, Step

(* The answer is set by the step that ends the protocol's branch.          *)
LEMMA NoAnswerYetStep ==
    ASSUME TypeOK, NoAnswerYet, [Next]_vars
    PROVE  NoAnswerYet'
<1> USE ConstantsDistinct DEF TypeOK, Files, OidsOrZero, Labels, Results,
         Goto, Answer, NoAnswerYet
<1>1. ASSUME NEW u \in Updates, OpenLock(u) PROVE NoAnswerYet'
  BY <1>1 DEF OpenLock
<1>2. ASSUME NEW u \in Updates, LockFails(u) PROVE NoAnswerYet'
  BY <1>2 DEF LockFails
<1>3. ASSUME NEW u \in Updates, CheckOld(u) PROVE NoAnswerYet'
  BY <1>3 DEF CheckOld
<1>4. ASSUME NEW u \in Updates, RemoveLoose(u) PROVE NoAnswerYet'
  BY <1>4 DEF RemoveLoose
<1>5. ASSUME NEW u \in Updates, WriteLock(u) PROVE NoAnswerYet'
  BY <1>5 DEF WriteLock
<1>6. ASSUME NEW u \in Updates, IoFails(u) PROVE NoAnswerYet'
  BY <1>6 DEF IoFails
<1>7. ASSUME NEW u \in Updates, RenameLock(u) PROVE NoAnswerYet'
  BY <1>7 DEF RenameLock
<1>8. ASSUME NEW u \in Updates, DeferredRemove(u) PROVE NoAnswerYet'
  BY <1>8 DEF DeferredRemove
<1>9. CASE Crash
  BY <1>9 DEF Crash, InFlight
<1>10. CASE UNCHANGED vars
  BY <1>10 DEF vars
<1> QED BY <1>1, <1>2, <1>3, <1>4, <1>5, <1>6, <1>7, <1>8, <1>9, <1>10 DEF Next, Step

(* Only the owner of the lock renames it, and then it no longer holds it.  *)
LEMMA NotYetRefStep ==
    ASSUME TypeOK, LockOwned, NotYetRef, LockLive, BranchFits, [Next]_vars
    PROVE  NotYetRef'
<1> USE ConstantsDistinct DEF TypeOK, Files, OidsOrZero, Labels, Results,
         Goto, Answer, NotYetRef, LockOwned, LockLive, Holds, BranchFits
<1>1. ASSUME NEW u \in Updates, OpenLock(u) PROVE NotYetRef'
  BY <1>1 DEF OpenLock
<1>2. ASSUME NEW u \in Updates, LockFails(u) PROVE NotYetRef'
  BY <1>2 DEF LockFails
<1>3. ASSUME NEW u \in Updates, CheckOld(u) PROVE NotYetRef'
  BY <1>3 DEF CheckOld
<1>4. ASSUME NEW u \in Updates, RemoveLoose(u) PROVE NotYetRef'
  BY <1>4 DEF RemoveLoose
<1>5. ASSUME NEW u \in Updates, WriteLock(u) PROVE NotYetRef'
  BY <1>5 DEF WriteLock
<1>6. ASSUME NEW u \in Updates, IoFails(u) PROVE NotYetRef'
  BY <1>6 DEF IoFails
<1>7. ASSUME NEW u \in Updates, RenameLock(u) PROVE NotYetRef'
  BY <1>7 DEF RenameLock
<1>8. ASSUME NEW u \in Updates, DeferredRemove(u) PROVE NotYetRef'
  BY <1>8 DEF DeferredRemove
<1>9. CASE Crash
  BY <1>9 DEF Crash, InFlight
<1>10. CASE UNCHANGED vars
  BY <1>10 DEF vars
<1> QED BY <1>1, <1>2, <1>3, <1>4, <1>5, <1>6, <1>7, <1>8, <1>9, <1>10 DEF Next, Step

(* The file renamed onto the ref has been written.                         *)
LEMMA RefWrittenStep ==
    ASSUME TypeOK, LockOwned, BranchFits, RefWritten, [Next]_vars
    PROVE  RefWritten'
<1> USE ConstantsDistinct DEF TypeOK, Files, OidsOrZero, Labels, Results,
         Goto, Answer, RefWritten, LockOwned, Holds, BranchFits
<1>1. ASSUME NEW u \in Updates, OpenLock(u) PROVE RefWritten'
  BY <1>1 DEF OpenLock
<1>2. ASSUME NEW u \in Updates, LockFails(u) PROVE RefWritten'
  BY <1>2 DEF LockFails
<1>3. ASSUME NEW u \in Updates, CheckOld(u) PROVE RefWritten'
  BY <1>3 DEF CheckOld
<1>4. ASSUME NEW u \in Updates, RemoveLoose(u) PROVE RefWritten'
  BY <1>4 DEF RemoveLoose
<1>5. ASSUME NEW u \in Updates, WriteLock(u) PROVE RefWritten'
  BY <1>5 DEF WriteLock
<1>6. ASSUME NEW u \in Updates, IoFails(u) PROVE RefWritten'
  BY <1>6 DEF IoFails
<1>7. ASSUME NEW u \in Updates, RenameLock(u) PROVE RefWritten'
  BY <1>7 DEF RenameLock
<1>8. ASSUME NEW u \in Updates, DeferredRemove(u) PROVE RefWritten'
  BY <1>8 DEF DeferredRemove
<1>9. CASE Crash
  BY <1>9 DEF Crash, InFlight
<1>10. CASE UNCHANGED vars
  BY <1>10 DEF vars
<1> QED BY <1>1, <1>2, <1>3, <1>4, <1>5, <1>6, <1>7, <1>8, <1>9, <1>10 DEF Next, Step

(* Nobody but the owner of the lock changes the ref.                       *)
LEMMA CompareHoldsStep ==
    ASSUME TypeOK, LockOwned, NotYetRef, CompareHolds, [Next]_vars
    PROVE  CompareHolds'
<1> USE ConstantsDistinct DEF TypeOK, Files, OidsOrZero, Labels, Results,
         Goto, Answer, CompareHolds, Current, LockOwned, NotYetRef, Holds
<1>1. ASSUME NEW u \in Updates, OpenLock(u) PROVE CompareHolds'
  BY <1>1 DEF OpenLock
<1>2. ASSUME NEW u \in Updates, LockFails(u) PROVE CompareHolds'
  BY <1>2 DEF LockFails
<1>3. ASSUME NEW u \in Updates, CheckOld(u) PROVE CompareHolds'
  BY <1>3 DEF CheckOld
<1>4. ASSUME NEW u \in Updates, RemoveLoose(u) PROVE CompareHolds'
  BY <1>4 DEF RemoveLoose
<1>5. ASSUME NEW u \in Updates, WriteLock(u) PROVE CompareHolds'
  BY <1>5 DEF WriteLock
<1>6. ASSUME NEW u \in Updates, IoFails(u) PROVE CompareHolds'
  BY <1>6 DEF IoFails
<1>7. ASSUME NEW u \in Updates, RenameLock(u) PROVE CompareHolds'
  BY <1>7 DEF RenameLock
<1>8. ASSUME NEW u \in Updates, DeferredRemove(u) PROVE CompareHolds'
  BY <1>8 DEF DeferredRemove
<1>9. CASE Crash
  BY <1>9 DEF Crash, InFlight
<1>10. CASE UNCHANGED vars
  BY <1>10 DEF vars
<1> QED BY <1>1, <1>2, <1>3, <1>4, <1>5, <1>6, <1>7, <1>8, <1>9, <1>10 DEF Next, Step

(* The invariant is inductive.                                             *)
LEMMA InductiveInv == IInv /\ [Next]_vars => IInv'
  BY TypeStep, LockOwnedStep, LockLiveStep, BranchFitsStep, NoAnswerYetStep, NotYetRefStep,
     RefWrittenStep, CompareHoldsStep DEF IInv

LEMMA Invariant == Spec => []IInv
  BY InitInv, InductiveInv, PTL DEF Spec

-----------------------------------------------------------------------------
(* Every variable keeps its range whatever the updates, failures, crashes. *)
THEOREM TypeCorrect == Spec => []TypeOK
<1>1. IInv => TypeOK
  BY DEF IInv
<1> QED BY <1>1, Invariant, PTL

(* updateOne's lock excludes: between the compare and the rename there is  *)
(* one update at most, until a deferred Remove hits a foreign lock file.   *)
THEOREM LockExcludes == Spec => []LockOwned
<1>1. IInv => LockOwned
  BY DEF IInv
<1> QED BY <1>1, Invariant, PTL

(* Until then no reader finds an empty ref file.                           *)
THEOREM ReadersNeverTorn == Spec => []NeverTorn
<1>1. ASSUME IInv, ~stolen PROVE Current # Empty
  <2>1. CASE loose = NoFile
    BY <1>1, <2>1, ConstantsDistinct DEF IInv, TypeOK, OidsOrZero, Current
  <2>2. CASE loose # NoFile
    BY <1>1, <2>2 DEF IInv, RefWritten, Current
  <2> QED BY <2>1, <2>2
<1>2. IInv => NeverTorn
  BY <1>1 DEF NeverTorn
<1> QED BY <1>2, Invariant, PTL

(* No path of updateOne leaves its lock file behind.                       *)
THEOREM LocksReleased == Spec => []NoLeakedLock
<1>1. IInv => NoLeakedLock
  BY DEF IInv, TypeOK, LockLive, Holds, NoLeakedLock
<1> QED BY <1>1, Invariant, PTL

-----------------------------------------------------------------------------
(* Until then a step of the protocol commits, refuses or aborts an update  *)
(* of the atomic register, or changes nothing the register shows.          *)
LEMMA AtomicStep ==
    ASSUME IInv, [Next]_vars, ~stolen
    PROVE  Atomic!Next \/ UNCHANGED Atomic!vars
<1> USE ConstantsDistinct DEF IInv, TypeOK, Files, OidsOrZero, Goto, Answer, Current,
        Atomic!vars, Atomic!Next, Atomic!Pending
<1>1. ASSUME NEW u \in Updates, OpenLock(u) PROVE UNCHANGED Atomic!vars
  BY <1>1 DEF OpenLock
<1>2. ASSUME NEW u \in Updates, LockFails(u) PROVE Atomic!Abort(u)
  BY <1>2 DEF LockFails, NoAnswerYet, Atomic!Abort
<1>3. ASSUME NEW u \in Updates, CheckOld(u) PROVE Atomic!Refuse(u) \/ UNCHANGED Atomic!vars
  BY <1>3 DEF CheckOld, NoAnswerYet, Atomic!Refuse
<1>4. ASSUME NEW u \in Updates, RemoveLoose(u) PROVE Atomic!Commit(u)
  BY <1>4 DEF RemoveLoose, NoAnswerYet, CompareHolds, BranchFits, Atomic!Commit
<1>5. ASSUME NEW u \in Updates, WriteLock(u) PROVE UNCHANGED Atomic!vars
  <2>1. loose # u
    BY <1>5 DEF WriteLock, NotYetRef, Holds
  <2> QED BY <1>5, <2>1 DEF WriteLock
<1>6. ASSUME NEW u \in Updates, IoFails(u) PROVE Atomic!Abort(u)
  BY <1>6 DEF IoFails, NoAnswerYet, Atomic!Abort
<1>7. ASSUME NEW u \in Updates, RenameLock(u) PROVE Atomic!Commit(u)
  <2>1. lock = u
    BY <1>7 DEF RenameLock, LockOwned, Holds
  <2>2. Current = req[u].old /\ data[u] = req[u].new /\ req[u].new # Zero
    BY <1>7 DEF RenameLock, CompareHolds, BranchFits
  <2> QED BY <1>7, <2>1, <2>2 DEF RenameLock, NoAnswerYet, Atomic!Commit
<1>8. ASSUME NEW u \in Updates, DeferredRemove(u) PROVE UNCHANGED Atomic!vars
  BY <1>8 DEF DeferredRemove
<1>9. CASE Crash
  BY <1>9 DEF Crash
<1>10. CASE UNCHANGED vars
  BY <1>10 DEF vars
<1> QED BY <1>1, <1>2, <1>3, <1>4, <1>5, <1>6, <1>7, <1>8, <1>9, <1>10 DEF Next, Step

(* Update is a compare-and-swap: the protocol implements AtomicRef until   *)
(* a deferred Remove has removed the lock file of another update.          *)
THEOREM UpdateIsAtomic == Spec => AtomicUntilStolen
<1>1. Init => Atomic!Init
  BY DEF Init, Atomic!Init
<1>2. IInv /\ [Next]_vars => [stolen \/ Atomic!Next]_(Atomic!vars)
  BY AtomicStep
<1> QED BY <1>1, <1>2, Invariant, PTL DEF Spec, AtomicUntilStolen

=============================================================================
