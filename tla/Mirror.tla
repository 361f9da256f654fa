------------------------------- MODULE Mirror -------------------------------
(***************************************************************************)
(* A pull mirror: git/fetch.go as SyncRepository calls it, composed with    *)
(* the archive (module Archive), which is asked for a snapshot before a ref *)
(* is deleted or loses history, and with the requests that write refs or    *)
(* archives beside it: manual snapshots, deletions and restores.  Nothing   *)
(* but the compare-and-swap on each ref (module RefStore) orders them.      *)
(* A crash inside that leaves <ref>.lock, which later updates of the ref    *)
(* trip over and which RefStore.List takes for a ref: Refs has such names.  *)
(***************************************************************************)
EXTENDS Archive

CONSTANTS
    Sync,           \* the writer of the sync; the others are manual snapshots
    Parent,         \* Parent[c]: the commit c was made on, or Nil
    LockOf,         \* LockOf[r]: the name r.lock, or Nil: bound, its lock is not followed
    Garbled,        \* what is listed of a lock with nothing in it: no value of a ref
    MainRef,        \* the ref the upstream's HEAD names while it exists
    First,          \* First[r]: upstream refs at the start
    MaxEvents       \* bound: changes of the upstream, failing archive steps, listings
                    \* and updates, manual snapshots, deletions, restores, crashes and
                    \* steps back of the clock, together

Locks == {LockOf[r] : r \in Refs} \ {Nil}
Branches == Refs \ Locks

ASSUME MirrorAssumption ==
    /\ Sync \in Writers
    /\ \A p \in Writers \ {Sync} : Reason[p] # Reason[Sync]
    /\ Parent \in [Commits -> Commits \cup {Nil}]
    /\ Nil \notin Refs /\ Garbled \notin Commits \cup {Nil}
    /\ LockOf \in [Refs -> Refs \cup {Nil}] /\ \A l \in Locks : LockOf[l] = Nil
    /\ MainRef \in Branches
    /\ First \in Values /\ \A l \in Locks : First[l] = Nil
    /\ MaxEvents \in Nat

VARIABLES
    remote,     \* remote[r]: the upstream's refs
    objects,    \* commits in the object store
    head,       \* the ref HEAD names
    fetch,      \* where the sync stands
    restore,    \* where a restore stands
    events,
    unsettled,  \* history: no sync has run to its end without a failure since the
                \* last crash, restore, or sync with one
    moved       \* history: refs a restore has moved since the sync listed them

vars == <<local, clock, setBack, tmps, bundles, sidecars, written, snap, doomed,
          bare, lost, orphaned, disturbed, remote, objects, head, fetch, restore, events,
          unsettled, moved>>

NoFetch == [at |-> "idle"]
NoRestore == [at |-> "idle"]

(* isFastForward and the objects a commit brings with it.                   *)
Ancestry[c \in Commits \cup {Nil}] ==
    IF c = Nil THEN {} ELSE {c} \cup Ancestry[Parent[c]]

Reach(values) == UNION {Ancestry[v] : v \in values}
FastForward(old, new) == old \in Ancestry[new]

ValuesOf(refs) == {refs[r] : r \in Refs} \cap Commits

Event == events < MaxEvents /\ events' = events + 1

Init ==
    /\ ArchiveInit
    /\ local = [r \in Refs |-> Nil]
    /\ remote = First
    /\ objects = {}
    /\ head = MainRef
    /\ fetch = NoFetch
    /\ restore = NoRestore
    /\ events = 0
    /\ unsettled = FALSE
    /\ moved = {}

-----------------------------------------------------------------------------
(* The upstream is somebody else's: any ref moves to any value.             *)
UpstreamMoves ==
    /\ Event
    /\ \E r \in Branches, v \in Commits \cup {Nil} :
          v # remote[r] /\ remote' = [remote EXCEPT ![r] = v]
    /\ UNCHANGED <<archiveVars, objects, head, fetch, restore, unsettled, moved>>

(* fetchOnce: the advertisement.  An empty one ends the sync.               *)
Advertise ==
    /\ fetch.at = "idle"
    /\ ValuesOf(remote) # {}
    /\ fetch' = [at |-> "advertised", adv |-> remote]
    /\ UNCHANGED <<archiveVars, remote, objects, head, restore, events, unsettled, moved>>

(* The local refs; when every advertised value is one of them the sync is   *)
(* up to date and no ref is touched.                                        *)
ListLocal ==
    /\ fetch.at = "advertised"
    /\ fetch' = IF ValuesOf(fetch.adv) \subseteq ValuesOf(local)
                THEN NoFetch
                ELSE [at |-> "listed", adv |-> fetch.adv, seen |-> local, ok |-> TRUE]
    /\ moved' = {}
    /\ UNCHANGED <<archiveVars, remote, objects, head, restore, events, unsettled>>

(* An error of List is ignored: no ref is known.                            *)
ListFails ==
    /\ fetch.at = "advertised"
    /\ Event
    /\ fetch' = [at |-> "listed", adv |-> fetch.adv, seen |-> NoRefs, ok |-> FALSE]
    /\ moved' = {}
    /\ UNCHANGED <<archiveVars, remote, objects, head, restore, unsettled>>

(* Mutant: only the tips are sent.                                          *)
TipsOnly(haves) == ValuesOf(fetch.adv) \ Reach(haves)

Missing(haves) == Reach(ValuesOf(fetch.adv)) \ Reach(haves)

Destructive(old, new) ==
    {r \in Refs : old[r] \in Commits /\ (new[r] = Nil \/ ~FastForward(old[r], new[r]))}

Updates(old, new) == {r \in Refs : old[r] # Nil \/ new[r] # Nil}

(* The upstream sends what it knows the haves to lack.  It knows those that *)
(* are in its own history; others it may have had or not.                   *)
Download ==
    /\ fetch.at = "listed"
    /\ \E haves \in SUBSET ValuesOf(fetch.seen) :
          /\ ValuesOf(fetch.seen) \cap Reach(ValuesOf(fetch.adv)) \subseteq haves
          /\ objects' = objects \cup Missing(haves)
          /\ fetch' = IF Missing(haves) = {}
                      THEN NoFetch
                      ELSE [at |-> IF Destructive(fetch.seen, fetch.adv) = {}
                                   THEN "update" ELSE "archive",
                            adv |-> fetch.adv, seen |-> fetch.seen, ok |-> fetch.ok,
                            todo |-> Updates(fetch.seen, fetch.adv)]
    /\ UNCHANGED <<archiveVars, remote, head, restore, events, unsettled, moved>>

(* An error of the network or the upstream at any point before: the attempt *)
(* is given up and the next one, of this sync or the next, starts over.     *)
FetchFails ==
    /\ fetch.at \in {"advertised", "listed"}
    /\ fetch' = NoFetch
    /\ UNCHANGED <<archiveVars, remote, objects, head, restore, events, unsettled, moved>>

(* OnDestructive: Snapshot is called, and its error holds the destructive   *)
(* updates back.                                                            *)
ArchiveFirst ==
    /\ fetch.at = "archive"
    /\ SnapBegin(Sync)
    /\ fetch' = [fetch EXCEPT !.at = "archiving"]
    /\ UNCHANGED <<remote, objects, head, restore, events, unsettled, moved>>

(* Mutant: an archive that failed holds nothing back.                       *)
NothingHeld == {}

HeldBack == IF snap[Sync].at = "failed" THEN Destructive(fetch.seen, fetch.adv) ELSE {}

ArchiveReturns ==
    /\ fetch.at = "archiving"
    /\ Returned(Sync)
    /\ fetch' = [fetch EXCEPT !.at = "update", !.todo = @ \ HeldBack]
    /\ UNCHANGED <<archiveVars, remote, objects, head, restore, events, unsettled, moved>>

(* Mutant: a ref that is new here is not created.                           *)
SwapKnown(r, old, new) ==
    IF local[r] = old /\ old # Nil THEN [local EXCEPT ![r] = new] ELSE local

(* RefStore.Update: compare with the listed value and swap; not while the   *)
(* lock is there.                                                           *)
Swap(r, old, new) == IF local[r] = old THEN [local EXCEPT ![r] = new] ELSE local
Locked(r) == LockOf[r] # Nil /\ local[LockOf[r]] # Nil

(* Ref by ref: those of the upstream, then those that are only here.  A     *)
(* failure is logged, and the next ref tried.                               *)
InTurn(r) ==
    /\ fetch.at = "update" /\ r \in fetch.todo
    /\ fetch.adv[r] # Nil \/ \A q \in fetch.todo : fetch.adv[q] = Nil

UpdateRef(r) ==
    /\ InTurn(r)
    /\ local' = IF Locked(r) THEN local ELSE Swap(r, fetch.seen[r], fetch.adv[r])
    /\ fetch' = [fetch EXCEPT !.todo = @ \ {r}, !.ok = @ /\ ~Locked(r)]
    /\ UNCHANGED <<clockVars, files, snap, removals, history, remote, objects, head,
                   restore, events, unsettled, moved>>

(* An error of the file system, or the lock of a restore just at that ref.  *)
UpdateFails(r) ==
    /\ InTurn(r)
    /\ Event
    /\ fetch' = [fetch EXCEPT !.todo = @ \ {r}, !.ok = FALSE]
    /\ UNCHANGED <<archiveVars, remote, objects, head, restore, unsettled, moved>>

(* Mutant: HEAD is left alone when the upstream has none.                   *)
SameHead == IF fetch.adv[MainRef] = Nil THEN {head}
            ELSE {r \in Refs : fetch.adv[r] = fetch.adv[MainRef]}

(* HEAD: to a branch with the value of the upstream's HEAD; when that has   *)
(* none, a HEAD that resolves to nothing is moved to any branch.            *)
NewHead ==
    LET there == {r \in Refs : local[r] # Nil}
    IN  IF fetch.adv[MainRef] # Nil THEN {r \in Refs : fetch.adv[r] = fetch.adv[MainRef]}
        ELSE IF head \in there \/ there = {} THEN {head} ELSE there

(* The error of an I/O failure, or of a HEAD.lock a crash has left, is      *)
(* ignored.                                                                 *)
SetHead ==
    /\ fetch.at = "update" /\ fetch.todo = {}
    /\ fetch' = NoFetch
    /\ \/ head' \in NewHead /\ unsettled' = (restore # NoRestore \/ ~fetch.ok)
       \/ head' = head /\ unsettled' = TRUE
    /\ UNCHANGED <<archiveVars, remote, objects, restore, events, moved>>

-----------------------------------------------------------------------------
(* The steps of Snapshot.                                                   *)
SnapProceeds(p) ==
    /\ SnapStep(p)
    /\ UNCHANGED <<remote, objects, head, fetch, restore, events, unsettled, moved>>

SnapGivesUp(p) ==
    /\ SnapFails(p)
    /\ IF CannotGoOn(p) THEN UNCHANGED events ELSE Event
    /\ UNCHANGED <<remote, objects, head, fetch, restore, unsettled, moved>>

(* SnapshotManual, beside the sync.                                         *)
ManualBegin(p) ==
    /\ p # Sync
    /\ Event
    /\ \E r \in Refs : local[r] \in Commits
    /\ SnapBegin(p)
    /\ UNCHANGED <<remote, objects, head, fetch, restore, unsettled, moved>>

DeleteArchive ==
    /\ \/ Event /\ \E id \in Named : DeleteSidecar(id)
       \/ UNCHANGED events /\ DeleteBundle
    /\ UNCHANGED <<remote, objects, head, fetch, restore, unsettled, moved>>

(* RestoreBundle: the bundle's objects, the refs listed, each compared and  *)
(* swapped, and HEAD, unless a ref had moved or could not be written.       *)
RestoreBegin ==
    /\ restore = NoRestore
    /\ Event
    /\ \E b \in bundles :
          /\ b.id \in sidecars /\ b.refs # NoRefs
          /\ objects' = objects \cup Reach(ValuesOf(b.refs))
          /\ restore' = [at |-> "refs", refs |-> b.refs, seen |-> local, ok |-> TRUE,
                         todo |-> {r \in Refs : b.refs[r] # Nil}]
    /\ unsettled' = TRUE
    /\ UNCHANGED <<archiveVars, remote, head, fetch, moved>>

RestoreRef(r) ==
    /\ restore.at = "refs" /\ r \in restore.todo
    /\ LET done == ~Locked(r) /\ local[r] = restore.seen[r]
       IN  /\ local' = IF Locked(r) THEN local
                       ELSE Swap(r, restore.seen[r], restore.refs[r])
           /\ restore' = [restore EXCEPT !.todo = @ \ {r}, !.ok = @ /\ done]
    /\ moved' = IF local'[r] # local[r] THEN moved \cup {r} ELSE moved
    /\ UNCHANGED <<clockVars, files, snap, removals, history, remote, objects, head, fetch,
                   events, unsettled>>

RestoreFails(r) ==
    /\ restore.at = "refs" /\ r \in restore.todo
    /\ Event
    /\ restore' = [restore EXCEPT !.todo = @ \ {r}, !.ok = FALSE]
    /\ UNCHANGED <<archiveVars, remote, objects, head, fetch, unsettled, moved>>

RestoreHead ==
    /\ restore.at = "refs" /\ restore.todo = {}
    /\ restore' = NoRestore
    /\ head' \in {head} \cup {r \in Refs : restore.ok /\ restore.refs[r] # Nil}
    /\ unsettled' = TRUE
    /\ UNCHANGED <<archiveVars, remote, objects, fetch, events, moved>>

(* What a crash inside an update leaves: the lock is created, then the ref  *)
(* compared and removed, or the value written to the lock.                  *)
Torn(r, old, new) ==
    LET lock == LockOf[r]
        Made == [local EXCEPT ![lock] = Garbled]
        Done == IF new = Nil THEN [Made EXCEPT ![r] = Nil] ELSE [local EXCEPT ![lock] = new]
    IN  IF lock = Nil \/ Locked(r) THEN {local}
        ELSE IF local[r] = old THEN {Made, Done} ELSE {Made}

(* A crash: every call is gone, the files are as they were.  Bound: it      *)
(* catches at most one update in the middle.                                *)
Crash ==
    /\ Event
    /\ \/ UNCHANGED local
       \/ \E r \in Refs : InTurn(r) /\ local' \in Torn(r, fetch.seen[r], fetch.adv[r])
       \/ /\ restore.at = "refs"
          /\ \E r \in restore.todo : local' \in Torn(r, restore.seen[r], restore.refs[r])
    /\ fetch' = NoFetch
    /\ restore' = NoRestore
    /\ Halt
    /\ unsettled' = TRUE
    /\ UNCHANGED <<remote, objects, head, moved>>

ClockMoves ==
    /\ (Tick /\ UNCHANGED events) \/ (StepBack /\ Event)
    /\ UNCHANGED <<remote, objects, head, fetch, restore, unsettled, moved>>

FetchStep ==
    \/ Advertise \/ ListLocal \/ Download \/ ArchiveFirst \/ ArchiveReturns
    \/ \E r \in Refs : UpdateRef(r)
    \/ SetHead

Next ==
    \/ FetchStep \/ FetchFails \/ ListFails \/ (\E r \in Refs : UpdateFails(r))
    \/ \E p \in Writers : SnapProceeds(p) \/ SnapGivesUp(p) \/ ManualBegin(p)
    \/ DeleteArchive
    \/ RestoreBegin \/ (\E r \in Refs : RestoreRef(r) \/ RestoreFails(r)) \/ RestoreHead
    \/ UpstreamMoves \/ ClockMoves \/ Crash

Spec == Init /\ [][Next]_vars

(* Syncs are repeated (module SyncManager) and the network does not fail    *)
(* every one of them, unless one asks with an empty have: git's upload-pack *)
(* dies of that.  The snapshot of a sync runs on.                           *)
SyncStep ==
    \/ Advertise \/ ArchiveFirst \/ ArchiveReturns
    \/ SnapProceeds(Sync) \/ (CannotGoOn(Sync) /\ SnapGivesUp(Sync))
    \/ (\E r \in Refs : UpdateRef(r)) \/ SetHead

Fairness ==
    /\ WF_vars(SyncStep)
    /\ SF_vars(ListLocal)
    /\ SF_vars(Download /\ \A r \in Refs : fetch.seen[r] # Garbled)

FairSpec == Spec /\ Fairness

-----------------------------------------------------------------------------
(* A ref never names a commit whose history is not in the object store,     *)
(* whatever the upstream, the archive and a restore do meanwhile.           *)
RefsComplete == Reach(ValuesOf(local)) \subseteq objects

(* The value is in an archive that can be found and restored.               *)
Archived(r, v) == \E b \in bundles : b.id \in sidecars /\ b.refs[r] = v

(* No sync drops history that is not archived (archive.go 74, fetch.go      *)
(* 503): when a fetch deletes a ref or moves it to a value that does not    *)
(* contain the old one, even if it crashes just then, a listed archive has  *)
(* the old value of that ref, or the archives were pruned or deleted        *)
(* meanwhile.  Left out are refs that one restore has moved since the       *)
(* listing and another has moved back: the archive made between the two     *)
(* has the value it saw.                                                    *)
DestroyedIsArchived ==
    [][\A r \in Refs \ moved :
          /\ fetch.at = "update" /\ fetch' # fetch
          /\ local[r] \in Commits /\ local'[r] # local[r]
          /\ local'[r] = Nil \/ ~FastForward(local[r], local'[r])
          => Archived(r, local[r]) \/ Sync \in lost]_vars

(* Once a sync has run to its end, every ref it meant to write and HEAD     *)
(* written or overtaken by a restore, HEAD resolves whenever none is        *)
(* running, until a crash, a restore or a failure.  (A HEAD that was not    *)
(* written, or names a branch that was not, is not repaired by a sync that  *)
(* calls itself up to date.)                                                *)
HeadResolves ==
    fetch.at = "idle" /\ ~unsettled /\ ValuesOf(local) # {} => local[head] \in Commits

(* The mirror catches up with an upstream that stands still, even from the  *)
(* lock a crash has left: the next fetch deletes it as a ref the upstream   *)
(* does not have.  Left out are an empty lock, whose listing can make every *)
(* fetch fail, and syncs that call themselves up to date without having     *)
(* compared the refs: the upstream is empty, or everything it has is        *)
(* already here, if only in a lock, so that deletions, rollbacks and new    *)
(* names for known commits are not mirrored.                                *)
NothingToFetch == Reach(ValuesOf(remote)) \subseteq Reach(ValuesOf(local))

CatchesUp ==
    <>[](local = remote \/ NothingToFetch \/ \E r \in Refs : local[r] = Garbled)
=============================================================================
