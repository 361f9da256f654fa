------------------------------ MODULE Archive ------------------------------
(***************************************************************************)
(* The archive of archive.go and git/bundle.go: for one repository, files   *)
(* <id>.bundle.tmp, <id>.bundle and <id>.json in one directory, written,    *)
(* pruned, deleted and read without any lock.  An id starts with the wall   *)
(* clock, so that sorting ids sorts by age.  This module has the files and  *)
(* the steps of a writer; module Mirror composes them with the fetch that   *)
(* archives before it destroys.                                             *)
(***************************************************************************)
EXTENDS Naturals, FiniteSets, FiniteSetsExt

CONSTANTS
    Refs,           \* refs of the repository
    Commits,        \* values of refs
    Nil,            \* no value
    Writers,        \* calls of Snapshot that can be in progress together
    Request,        \* a Delete by request; bound: one at a time
    Reason,         \* Reason[p]: order of the reason in writer p's ids
    Keep,           \* archives kept (ArchiveConf: never 0; no limit is a large Keep)
    MaxBytes,       \* byte limit, in bundles of one size
    MaxClock,       \* bound: ticks of the wall clock
    MaxStepBacks    \* bound: how often the clock is set back

ASSUME ArchiveAssumption ==
    /\ Nil \notin Commits /\ Request \notin Writers
    /\ Reason \in [Writers -> Nat]
    /\ Keep \in Nat \ {0} /\ MaxBytes \in Nat
    /\ MaxClock \in Nat \ {0} /\ MaxStepBacks \in Nat

VARIABLES
    local,      \* local[r]: the refs of the repository, as RefStore.List reads them
    clock,      \* the wall clock, in the unit of an id
    setBack,    \* how often it was set back
    tmps,       \* the .bundle.tmp files: [id, refs, by, age]
    bundles,    \* the .bundle files: [id, refs, by, age]; by: {the writer that is
                \* still writing it}, {} when it is whole
    sidecars,   \* ids with a .json file
    written,    \* files written so far, the order of their file times
    snap,       \* snap[p]: where writer p's Snapshot stands
    doomed,     \* doomed[p]: ids that p's prune has still to remove
    bare,       \* bare[w]: {the id w has taken from the list and whose bundle it
                \* removes next}, or {}
    lost,       \* history: writers whose last archive was pruned or deleted
    orphaned,   \* history: ids listed after the bundle was lost, or while it was
                \* being removed
    disturbed   \* history: writers whose Snapshot was not alone

clockVars == <<clock, setBack>>
files == <<tmps, bundles, sidecars, written>>
removals == <<doomed, bare>>
history == <<lost, orphaned, disturbed>>
archiveVars == <<local, clock, setBack, tmps, bundles, sidecars, written, snap,
                 doomed, bare, lost, orphaned, disturbed>>

Values == [Refs -> Commits \cup {Nil}]
Removers == Writers \cup {Request}

(* What a bundle takes of the refs: those that name a commit.               *)
Valid == [r \in Refs |-> IF local[r] \in Commits THEN local[r] ELSE Nil]
NoRefs == [r \in Refs |-> Nil]
NoSnap == [at |-> "none"]

Younger(i, j) ==
    \/ i.time > j.time
    \/ i.time = j.time /\ i.reason > j.reason
    \/ i.time = j.time /\ i.reason = j.reason /\ i.n > j.n

Older(b, c) ==
    \/ b.age.clock < c.age.clock
    \/ b.age.clock = c.age.clock /\ b.age.order < c.age.order

HasTmp(id) == \E t \in tmps : t.id = id
HasBundle(id) == \E b \in bundles : b.id = id

Named == sidecars \cup {b.id : b \in bundles}

(* What Find answers for: a sidecar with its bundle.                        *)
Intact(id) == id \in sidecars /\ HasBundle(id)

ArchiveInit ==
    /\ clock = 1 /\ setBack = 0
    /\ tmps = {} /\ bundles = {} /\ sidecars = {}
    /\ written = 0
    /\ snap = [p \in Writers |-> NoSnap]
    /\ doomed = [p \in Writers |-> {}] /\ bare = [w \in Removers |-> {}]
    /\ lost = {} /\ orphaned = {} /\ disturbed = {}

-----------------------------------------------------------------------------
(* The id: the clock, the reason, and a number when that bundle exists.     *)
FreshId(p) ==
    LET At(n) == [time |-> clock, reason |-> Reason[p], n |-> n]
    IN  At(Min({n \in 0..Cardinality(bundles) : ~HasBundle(At(n))}))

Active ==
    {p \in Writers : snap[p].at \in {"named", "created", "written", "renamed", "listed",
                                     "counting", "sizing"}}

SnapBegin(p) ==
    /\ snap[p].at \in {"none", "done", "failed"}
    /\ snap' = [snap EXCEPT ![p] = [at |-> "named", id |-> FreshId(p)]]
    /\ lost' = lost \ {p}
    /\ disturbed' =
         IF Active # {} \/ setBack > 0 \/ \E id \in Named : id.time >= clock
         THEN disturbed \cup Active \cup {p}
         ELSE disturbed \ {p}
    /\ UNCHANGED <<local, clockVars, files, removals, orphaned>>

Now == [clock |-> clock, order |-> written]

(* The temporary file is created (O_EXCL): it is empty.                     *)
SnapCreate(p) ==
    /\ snap[p].at = "named"
    /\ ~HasTmp(snap[p].id)
    /\ tmps' = tmps \cup {[id |-> snap[p].id, refs |-> NoRefs, by |-> {p}, age |-> Now]}
    /\ written' = written + 1
    /\ snap' = [snap EXCEPT ![p].at = "created"]
    /\ UNCHANGED <<local, clockVars, bundles, sidecars, removals, history>>

(* The refs are listed, their history is bundled and the file synced; it is *)
(* the file that was created, whatever name it has by now.  A repository    *)
(* without refs cannot be bundled.                                          *)
Finished(p, fs) ==
    {IF f.id = snap[p].id /\ f.by = {p}
     THEN [f EXCEPT !.refs = Valid, !.by = {}, !.age = Now] ELSE f : f \in fs}

SnapWrite(p) ==
    /\ snap[p].at = "created"
    /\ \E r \in Refs : local[r] \in Commits
    /\ tmps' = Finished(p, tmps)
    /\ bundles' = Finished(p, bundles)
    /\ written' = written + 1
    /\ snap' = [snap EXCEPT ![p].at = "written"]
    /\ UNCHANGED <<local, clockVars, sidecars, removals, history>>

(* The rename takes the file that has the name, whoever wrote it.           *)
SnapRename(p) ==
    /\ snap[p].at = "written"
    /\ \E t \in tmps :
          /\ t.id = snap[p].id
          /\ tmps' = tmps \ {t}
          /\ bundles' = {b \in bundles : b.id # t.id} \cup {t}
    /\ snap' = [snap EXCEPT ![p].at = "renamed"]
    /\ UNCHANGED <<local, clockVars, sidecars, written, removals, history>>

SnapSidecar(p) ==
    /\ snap[p].at = "renamed"
    /\ sidecars' = sidecars \cup {snap[p].id}
    /\ snap' = [snap EXCEPT ![p].at = "listed"]
    /\ orphaned' = IF p \in lost \/ \E w \in Removers : snap[p].id \in bare[w]
                   THEN orphaned \cup {snap[p].id} ELSE orphaned
    /\ UNCHANGED <<local, clockVars, tmps, bundles, written, removals, lost, disturbed>>

(* A step that fails removes the temporary file, whoever created it.  It    *)
(* must fail when that file exists (O_EXCL) or is gone, and when there is   *)
(* nothing to bundle, and can when the bundle has been removed before stat. *)
CannotGoOn(p) ==
    \/ snap[p].at = "named" /\ HasTmp(snap[p].id)
    \/ snap[p].at = "created" /\ \A r \in Refs : local[r] \notin Commits
    \/ snap[p].at = "written" /\ ~HasTmp(snap[p].id)
    \/ snap[p].at = "renamed" /\ ~HasBundle(snap[p].id)

SnapFails(p) ==
    /\ snap[p].at \in {"named", "created", "written", "renamed"}
    /\ tmps' = IF snap[p].at = "renamed" THEN tmps ELSE {t \in tmps : t.id # snap[p].id}
    /\ snap' = [snap EXCEPT ![p] = [at |-> "failed"]]
    /\ UNCHANGED <<local, clockVars, bundles, sidecars, written, removals, history>>

-----------------------------------------------------------------------------
(* Mutant: the count keeps the oldest.                                      *)
KeptOldest == {i \in sidecars : Cardinality({j \in sidecars : Younger(i, j)}) < Keep}

(* prune: the youngest Keep of the listed ids stay, then the oldest files   *)
(* go until the rest fits.  A bundle without a sidecar counts for the       *)
(* second, not for the first.                                               *)
KeptByCount ==
    {i \in sidecars : Cardinality({j \in sidecars \ {i} : Younger(j, i)}) < Keep}

KeptBySize ==
    {b \in bundles : Cardinality({c \in bundles : Older(b, c)}) < MaxBytes}

(* removeArchive and Delete: two files, two calls.  A writer whose archive  *)
(* it is has lost it with the first.                                        *)
Lose(id) ==
    /\ lost' = lost \cup {p \in Writers : snap[p].at \notin {"none", "failed"}
                                          /\ snap[p].id = id}
Disturb(w, id) == disturbed' = disturbed \cup {p \in Active \ {w} : snap[p].id = id}

(* Mutant: the sidecar stays.                                               *)
RemoveNothing(w, id) ==
    /\ bare[w] = {}
    /\ bare' = [bare EXCEPT ![w] = {id}]
    /\ orphaned' = orphaned \ {id}
    /\ Lose(id) /\ Disturb(w, id)
    /\ UNCHANGED <<local, clockVars, files, snap>>

RemoveSidecar(w, id) ==
    /\ bare[w] = {}
    /\ bare' = [bare EXCEPT ![w] = {id}]
    /\ sidecars' = sidecars \ {id}
    /\ orphaned' = orphaned \ {id}
    /\ Lose(id) /\ Disturb(w, id)
    /\ UNCHANGED <<local, clockVars, tmps, bundles, written, snap>>

RemoveBundle(w, id) ==
    /\ id \in bare[w]
    /\ bare' = [bare EXCEPT ![w] = {}]
    /\ bundles' = {b \in bundles : b.id # id}
    /\ Lose(id) /\ Disturb(w, id)
    /\ UNCHANGED <<local, clockVars, tmps, sidecars, written, snap, doomed, orphaned>>

(* The sidecars are listed, later the bundles; what has to go goes one by   *)
(* one, in any order.                                                       *)
PruneByCount(p) ==
    /\ snap[p].at = "listed"
    /\ doomed' = [doomed EXCEPT ![p] = sidecars \ KeptByCount]
    /\ snap' = [snap EXCEPT ![p].at = "counting"]
    /\ UNCHANGED <<local, clockVars, files, bare, history>>

Pruned(p) == doomed[p] = {} /\ bare[p] = {}

PruneBySize(p) ==
    /\ snap[p].at = "counting" /\ Pruned(p)
    /\ doomed' = [doomed EXCEPT ![p] = {b.id : b \in bundles \ KeptBySize}]
    /\ snap' = [snap EXCEPT ![p].at = "sizing"]
    /\ UNCHANGED <<local, clockVars, files, bare, history>>

PruneSidecar(p) ==
    /\ snap[p].at \in {"counting", "sizing"}
    /\ \E id \in doomed[p] :
          RemoveSidecar(p, id) /\ doomed' = [doomed EXCEPT ![p] = @ \ {id}]

PruneBundle(p) == \E id \in bare[p] : RemoveBundle(p, id)

SnapReturns(p) ==
    /\ snap[p].at = "sizing" /\ Pruned(p)
    /\ snap' = [snap EXCEPT ![p].at = "done"]
    /\ UNCHANGED <<local, clockVars, files, removals, history>>

SnapStep(p) ==
    \/ SnapCreate(p) \/ SnapWrite(p) \/ SnapRename(p) \/ SnapSidecar(p)
    \/ PruneByCount(p) \/ PruneBySize(p) \/ PruneSidecar(p) \/ PruneBundle(p)
    \/ SnapReturns(p)

(* Snapshot has returned to its caller.                                     *)
Returned(p) == snap[p].at \in {"done", "failed"}

-----------------------------------------------------------------------------
(* Delete, by request: one of the two files is there, or it answers that    *)
(* there is no such archive.                                                *)
DeleteSidecar(id) ==
    /\ id \in Named
    /\ RemoveSidecar(Request, id)
    /\ UNCHANGED doomed

DeleteBundle == \E id \in bare[Request] : RemoveBundle(Request, id)

Tick ==
    /\ clock < MaxClock
    /\ clock' = clock + 1
    /\ UNCHANGED <<local, setBack, files, snap, removals, history>>

StepBack ==
    /\ setBack < MaxStepBacks /\ clock > 1
    /\ clock' = clock - 1
    /\ setBack' = setBack + 1
    /\ disturbed' = disturbed \cup Active
    /\ UNCHANGED <<local, files, snap, removals, lost, orphaned>>

(* A crash: every writer is gone, the files are as they were.               *)
Halt ==
    /\ snap' = [p \in Writers |-> [at |-> "failed"]]
    /\ doomed' = [p \in Writers |-> {}] /\ bare' = [w \in Removers |-> {}]
    /\ UNCHANGED <<clockVars, files, history>>

-----------------------------------------------------------------------------
(* A listed archive has its bundle (archive.go 290, 397): no order of       *)
(* snapshots, prunes, deletions and crashes lists a record without a file.  *)
(* Left out are the two that do: a bundle removed between its rename and    *)
(* its sidecar, and a sidecar written between the two removals of its       *)
(* archive.                                                                 *)
ListedHasBundle == \A id \in sidecars \ orphaned : HasBundle(id)

(* A snapshot that returns is intact: its own prune has not removed it as   *)
(* long as there is room for one.  Only another snapshot at the same time   *)
(* or in the same tick, a clock set back, or a request that deletes it can. *)
SnapshotSurvives ==
    [][\A p \in Writers \ disturbed :
          snap[p].at = "sizing" /\ snap'[p].at = "done" /\ MaxBytes > 0
          => Intact(snap[p].id)']_archiveVars
=============================================================================
