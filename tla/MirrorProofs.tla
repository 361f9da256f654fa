---------------------------- MODULE MirrorProofs ----------------------------
(***************************************************************************)
(* Proofs about a pull mirror and its archive, for any refs, commits,      *)
(* writers, limits and numbers of events.  Ancestry is defined by          *)
(* recursion over the commits and is never unfolded: nothing here depends  *)
(* on which commits a commit brings with it.                               *)
(***************************************************************************)
EXTENDS Mirror, FiniteSetTheorems, WellFoundedInduction, TLAPS

-----------------------------------------------------------------------------
Ids == [time : Nat, reason : Nat, n : Nat]
File == [id : Ids, refs : Values, by : SUBSET Writers, age : [clock : Nat, order : Nat]]
Running == {"named", "created", "written", "renamed", "listed", "counting", "sizing"}
Snaps == {[at |-> "none"], [at |-> "failed"]} \cup [at : Running \cup {"done"}, id : Ids]

ArchiveTypeOK ==
    /\ clock \in Nat /\ setBack \in Nat
    /\ tmps \subseteq File /\ bundles \subseteq File /\ IsFiniteSet(bundles)
    /\ sidecars \subseteq Ids
    /\ written \in Nat
    /\ snap \in [Writers -> Snaps]
    /\ doomed \in [Writers -> SUBSET Ids] /\ bare \in [Removers -> SUBSET Ids]
    /\ lost \subseteq Writers /\ disturbed \subseteq Writers
    /\ orphaned \subseteq Ids

(* What is listed of the refs: a lock can be empty.                        *)
Listings == [Refs -> Commits \cup {Nil, Garbled}]

Fetches ==
    {NoFetch} \cup [at : {"advertised"}, adv : Values]
    \cup [at : {"listed"}, adv : Values, seen : Listings, ok : BOOLEAN]
    \cup [at : {"archive", "archiving", "update"}, adv : Values, seen : Listings,
          ok : BOOLEAN, todo : SUBSET Refs]

Restores ==
    {NoRestore} \cup [at : {"refs"}, refs : Values, seen : Listings, ok : BOOLEAN,
                      todo : SUBSET Refs]

TypeOK ==
    /\ ArchiveTypeOK
    /\ local \in Listings
    /\ remote \in Values
    /\ head \in Refs
    /\ fetch \in Fetches
    /\ restore \in Restores
    /\ events \in Nat
    /\ unsettled \in BOOLEAN
    /\ moved \subseteq Refs

-----------------------------------------------------------------------------
(* Whatever is about to be written to a ref is in the object store.        *)
Within(refs, store) == \A r \in Refs : refs[r] \in Commits => Ancestry[refs[r]] \subseteq store

ObjectsExact ==
    /\ Within(local, objects)
    /\ fetch.at = "listed" => Within(fetch.seen, objects)
    /\ fetch.at \in {"archive", "archiving", "update"} => Within(fetch.adv, objects)
    /\ restore.at = "refs" => Within(restore.refs, objects)

-----------------------------------------------------------------------------
(* A writer's ids are its own, and only its prune removes anything.        *)
Tidy ==
    \A p \in Writers :
       /\ snap[p].at \notin {"none", "failed"} => snap[p].id.reason = Reason[p]
       /\ snap[p].at \notin {"counting", "sizing"} => doomed[p] = {} /\ bare[p] = {}

(* A bundle that was renamed stays until somebody takes it away, and what  *)
(* is being taken away is not listed.                                      *)
ListExact ==
    /\ ListedHasBundle
    /\ \A p \in Writers : snap[p].at = "renamed" => HasBundle(snap[p].id) \/ p \in lost
    /\ \A w \in Removers, id \in sidecars \ orphaned : id \notin bare[w]

-----------------------------------------------------------------------------
(* Only the update of a fetch takes refs away, and one that succeeds ends  *)
(* with every empty lock gone and with a HEAD that resolves.               *)
Resolves == ValuesOf(local) # {} => local[head] \in Commits

Present(r) ==
    CASE fetch.at = "listed" -> fetch.seen[r] # Nil
      [] fetch.at \in {"archive", "archiving", "update"} ->
            IF r \in fetch.todo THEN fetch.seen[r] # Nil ELSE fetch.ok /\ fetch.adv[r] # Nil
      [] OTHER -> FALSE

Swept(r) ==
    CASE fetch.at = "listed" -> fetch.ok /\ fetch.seen[r] # Garbled
      [] fetch.at \in {"archive", "archiving", "update"} ->
            fetch.ok /\ (r \in fetch.todo => fetch.seen[r] # Garbled)
      [] OTHER -> FALSE

HeadExact ==
    /\ ~unsettled =>
          /\ restore = NoRestore
          /\ fetch.at # "update" => Resolves /\ \A r \in Refs : local[r] # Garbled
    /\ \A r \in Refs : Present(r) => local[r] # Nil
    /\ \A r \in Refs : Swept(r) => local[r] # Garbled
    /\ restore.at = "refs" => \A r \in restore.todo : restore.refs[r] # Nil

-----------------------------------------------------------------------------
(* What a fetch is going to destroy has been as it was listed since, and   *)
(* is so in every file with the id of its snapshot.                        *)
Dying == (fetch.todo \cap Destructive(fetch.seen, fetch.adv)) \ moved
Keeps(refs) == \A r \in Dying : refs[r] = fetch.seen[r]

SinceListed ==
    /\ fetch.at \in {"listed", "archive", "archiving"} =>
          \A r \in Refs \ moved : fetch.seen[r] # Nil => local[r] = fetch.seen[r]
    /\ fetch.at = "update" =>
          \A r \in fetch.todo \ moved : fetch.seen[r] # Nil => local[r] = fetch.seen[r]

Placed == {"listed", "counting", "sizing", "done"}
Taken == {"written", "renamed"} \cup Placed

SnapshotExact ==
    /\ snap[Sync].at \in Running => fetch.at = "archiving"
    /\ fetch.at \in {"archiving", "update"} =>
          /\ snap[Sync].at = "created" =>
                \A t \in tmps : t.id = snap[Sync].id => t.by = {Sync}
          /\ snap[Sync].at \in Taken =>
                \A t \in tmps : t.id = snap[Sync].id => Keeps(t.refs)
          /\ snap[Sync].at \in Taken \ {"written"} =>
                \A b \in bundles : b.id = snap[Sync].id => Keeps(b.refs)
    /\ snap[Sync].at \in Placed => Intact(snap[Sync].id) \/ Sync \in lost
    /\ fetch.at = "update" /\ fetch.todo \cap Destructive(fetch.seen, fetch.adv) # {} =>
          snap[Sync].at = "done"

-----------------------------------------------------------------------------
(* File times grow as long as the clock is not set back.                   *)
AgesGrow ==
    \A f \in tmps \cup bundles :
       f.age.order < written /\ (setBack = 0 => f.age.clock <= clock)

(* A snapshot that was alone since its start has the youngest id and, once *)
(* written, the youngest file.                                             *)
Held(p) ==
    \/ snap[p].at \in {"renamed", "listed", "counting"}
    \/ snap[p].at = "sizing" /\ MaxBytes > 0

Alone(p) ==
    /\ Active = {p} /\ setBack = 0
    /\ \A id \in Named : id = snap[p].id \/ id.time < snap[p].id.time
    /\ snap[p].at = "created" => \A t \in tmps : t.id = snap[p].id => t.by = {p}
    /\ snap[p].at = "written" =>
          \A t \in tmps : t.id = snap[p].id => \A b \in bundles : ~Older(t, b)
    /\ Held(p) =>
          /\ HasBundle(snap[p].id)
          /\ \A b \in bundles : b.id = snap[p].id => \A c \in bundles : ~Older(b, c)
          /\ snap[p].id \notin doomed[p] \cup bare[p]
          /\ snap[p].at # "renamed" => snap[p].id \in sidecars

AloneExact == \A p \in Active \ disturbed : Alone(p)

IInv ==
    /\ TypeOK
    /\ ObjectsExact
    /\ Tidy
    /\ ListExact
    /\ HeadExact
    /\ SinceListed
    /\ SnapshotExact
    /\ AgesGrow
    /\ AloneExact

-----------------------------------------------------------------------------
Before == {ij \in Nat \X Nat : ij[1] < ij[2]}

LEMMA BeforeWF == IsWellFoundedOn(Before, Nat)
  BY NatLessThanWellFounded DEF OpToRel, Before

(* A set of numbers has the minimum the library's Min chooses.             *)
LEMMA HasMin ==
    ASSUME NEW S \in SUBSET Nat, S # {}
    PROVE  Min(S) \in S /\ \A n \in S : Min(S) <= n
<1>1. PICK m \in S : \A n \in S : <<n, m>> \notin Before
  BY BeforeWF, WFMin
<1>2. ASSUME NEW n \in S PROVE m <= n
  <2>1. n \in Nat /\ m \in Nat /\ <<n, m>> \notin Before  BY <1>1
  <2>2. ~(n < m)  BY <2>1 DEF Before
  <2> QED  BY <2>1, <2>2
<1> QED  BY <1>2 DEF Min

(* A snapshot is given a name no bundle has.                               *)
LEMMA FreshIdFresh ==
    ASSUME ArchiveTypeOK, NEW p \in Writers
    PROVE  /\ FreshId(p) \in Ids /\ ~HasBundle(FreshId(p))
           /\ FreshId(p).time = clock /\ FreshId(p).reason = Reason[p]
<1> DEFINE At(n) == [time |-> clock, reason |-> Reason[p], n |-> n]
           k == Cardinality(bundles)
           free == {n \in 0..k : ~HasBundle(At(n))}
<1>1. k \in Nat /\ IsFiniteSet(bundles)  BY FS_CardinalityType DEF ArchiveTypeOK
<1>2. free # {}
  <2> SUFFICES ASSUME \A n \in 0..k : HasBundle(At(n)) PROVE FALSE  OBVIOUS
  <2> DEFINE g == [n \in 0..k |-> CHOOSE b \in bundles : b.id = At(n)]
  <2>1. \A n \in 0..k : g[n] \in bundles /\ g[n].id = At(n)  BY DEF HasBundle
  <2>2. \A m, n \in 0..k : g[m] = g[n] => m = n
    <3> SUFFICES ASSUME NEW m \in 0..k, NEW n \in 0..k, g[m] = g[n] PROVE m = n  OBVIOUS
    <3>1. At(m) = At(n)  BY <2>1
    <3>2. At(m).n = m /\ At(n).n = n  OBVIOUS
    <3> QED  BY <3>1, <3>2
  <2>3. g \in Injection(0..k, bundles)
    BY <2>1, <2>2 DEF Injection, IsInjective
  <2>4. Cardinality(0..k) <= k  BY <1>1, <2>3, FS_Injection
  <2>5. Cardinality(0..k) = k + 1  BY <1>1, FS_Interval
  <2> QED  BY <1>1, <2>4, <2>5
<1>3. free \in SUBSET Nat  BY <1>1
<1>4. Min(free) \in free  BY <1>2, <1>3, HasMin
<1>5. FreshId(p) = At(Min(free))  BY DEF FreshId
<1>6. Reason[p] \in Nat /\ clock \in Nat  BY ArchiveAssumption DEF ArchiveTypeOK
<1> QED  BY <1>1, <1>4, <1>5, <1>6 DEF Ids

-----------------------------------------------------------------------------
(* What a step means to the archive.                                       *)
ArchiveSame ==
    UNCHANGED <<clock, setBack, tmps, bundles, sidecars, written, snap, doomed, bare, lost,
                orphaned, disturbed>>

Moves(p) ==
    \/ SnapCreate(p) \/ SnapWrite(p) \/ SnapRename(p) \/ SnapSidecar(p)
    \/ PruneByCount(p) \/ PruneBySize(p) \/ SnapReturns(p) \/ SnapFails(p)

Unlists(w, id) ==
    /\ RemoveSidecar(w, id)
    /\ w \in Writers => snap[w].at \in {"counting", "sizing"} /\ id \in doomed[w]
    /\ doomed' \in [Writers -> SUBSET Ids]
    /\ \A q \in Writers : doomed'[q] \subseteq doomed[q]

Removal == \E w \in Removers, id \in Ids : Unlists(w, id) \/ RemoveBundle(w, id)

ArchiveStep ==
    \/ \E p \in Writers : SnapBegin(p) \/ Moves(p)
    \/ Removal \/ Tick \/ StepBack \/ Halt \/ ArchiveSame

LEMMA SnapSteps ==
    ASSUME ArchiveTypeOK, NEW p \in Writers, SnapStep(p)
    PROVE  Moves(p) \/ Removal
<1>1. CASE PruneSidecar(p)
  <2>1. PICK id \in doomed[p] :
           RemoveSidecar(p, id) /\ doomed' = [doomed EXCEPT ![p] = @ \ {id}]
    BY <1>1 DEF PruneSidecar
  <2>2. doomed \in [Writers -> SUBSET Ids] /\ id \in Ids /\ p \in Removers
    BY DEF ArchiveTypeOK, Removers
  <2>3. doomed' \in [Writers -> SUBSET Ids] /\ \A q \in Writers : doomed'[q] \subseteq doomed[q]
    BY <2>1, <2>2
  <2>4. Unlists(p, id)  BY <1>1, <2>1, <2>3 DEF Unlists, PruneSidecar
  <2> QED  BY <2>2, <2>4 DEF Removal
<1>2. CASE PruneBundle(p)
  BY <1>2 DEF PruneBundle, Removal, ArchiveTypeOK, Removers
<1> QED  BY <1>1, <1>2 DEF SnapStep, Moves

LEMMA Deletes ==
    ASSUME ArchiveTypeOK, (\E id \in Named : DeleteSidecar(id)) \/ DeleteBundle
    PROVE  Removal
<1>1. Request \in Removers /\ Request \notin Writers  BY ArchiveAssumption DEF Removers
<1>2. ASSUME NEW id \in Named, DeleteSidecar(id) PROVE Removal
  <2>1. id \in Ids  BY DEF Named, ArchiveTypeOK, File
  <2>2. Unlists(Request, id)
    BY <1>1, <1>2 DEF DeleteSidecar, Unlists, ArchiveTypeOK
  <2> QED  BY <1>1, <2>1, <2>2 DEF Removal
<1>3. CASE DeleteBundle  BY <1>1, <1>3 DEF DeleteBundle, Removal, ArchiveTypeOK
<1> QED  BY <1>2, <1>3

LEMMA ArchiveSteps == ArchiveTypeOK /\ [Next]_vars => ArchiveStep
<1> SUFFICES ASSUME ArchiveTypeOK, [Next]_vars PROVE ArchiveStep  OBVIOUS
<1>1. ASSUME UNCHANGED archiveVars PROVE ArchiveStep
  BY <1>1 DEF ArchiveStep, ArchiveSame, archiveVars
<1>2. CASE FetchStep \/ FetchFails \/ ListFails
  <2>1. CASE ArchiveFirst  BY <2>1, MirrorAssumption DEF ArchiveFirst, ArchiveStep
  <2>2. CASE \E r \in Refs : UpdateRef(r)
    BY <2>2 DEF UpdateRef, ArchiveStep, ArchiveSame, clockVars, files, removals, history
  <2> QED  BY <1>1, <1>2, <2>1, <2>2
           DEF FetchStep, FetchFails, ListFails, Advertise, ListLocal, Download,
               ArchiveReturns, SetHead
<1>3. ASSUME NEW p \in Writers, SnapProceeds(p) \/ SnapGivesUp(p) \/ ManualBegin(p)
      PROVE  ArchiveStep
  BY <1>3, SnapSteps DEF SnapProceeds, SnapGivesUp, ManualBegin, ArchiveStep, Moves
<1>4. CASE DeleteArchive \/ ClockMoves \/ Crash
  BY <1>4, Deletes DEF DeleteArchive, ClockMoves, Crash, ArchiveStep
<1>5. CASE RestoreBegin \/ RestoreHead \/ UpstreamMoves
  BY <1>1, <1>5 DEF RestoreBegin, RestoreHead, UpstreamMoves
<1>6. ASSUME NEW r \in Refs, RestoreRef(r) PROVE ArchiveStep
  BY <1>6 DEF RestoreRef, ArchiveStep, ArchiveSame, clockVars, files, removals, history
<1>7. ASSUME NEW r \in Refs, UpdateFails(r) \/ RestoreFails(r) PROVE ArchiveStep
  BY <1>1, <1>7 DEF UpdateFails, RestoreFails
<1>8. CASE UNCHANGED vars  BY <1>1, <1>8 DEF vars, archiveVars
<1> QED  BY <1>2, <1>3, <1>4, <1>5, <1>6, <1>7, <1>8 DEF Next

(* A writer that goes on, and one that is given up.                        *)
LEMMA SnapMoves ==
    ASSUME ArchiveTypeOK, NEW p \in Writers, snap[p].at \notin {"none", "failed"},
           NEW place \in Running \cup {"done"}, snap' = [snap EXCEPT ![p].at = place]
    PROVE  /\ snap' \in [Writers -> Snaps]
           /\ snap'[p].at = place /\ snap'[p].id = snap[p].id /\ snap[p].id \in Ids
           /\ \A q \in Writers \ {p} : snap'[q] = snap[q]
<1>1. snap[p] \in [at : Running \cup {"done"}, id : Ids]
  BY DEF ArchiveTypeOK, Snaps
<1>2. snap'[p] = [snap[p] EXCEPT !.at = place]  BY DEF ArchiveTypeOK
<1>3. snap'[p] \in [at : Running \cup {"done"}, id : Ids]  BY <1>1, <1>2
<1>4. \A q \in Writers \ {p} : snap'[q] = snap[q]  BY DEF ArchiveTypeOK
<1>5. snap' \in [Writers -> Snaps]  BY <1>3 DEF ArchiveTypeOK, Snaps
<1> QED  BY <1>1, <1>2, <1>4, <1>5

LEMMA SnapPlaces ==
    ASSUME ArchiveTypeOK, NEW p \in Writers
    PROVE  /\ snap[p].at \in {"none", "failed", "done"} \cup Running
           /\ snap[p].at \notin {"none", "failed"} => snap[p].id \in Ids
  BY DEF ArchiveTypeOK, Snaps, Running

LEMMA SnapFailed ==
    ASSUME ArchiveTypeOK, NEW p \in Writers, snap' = [snap EXCEPT ![p] = [at |-> "failed"]]
    PROVE  /\ snap' \in [Writers -> Snaps]
           /\ snap'[p].at = "failed"
           /\ \A q \in Writers \ {p} : snap'[q] = snap[q]
  BY DEF ArchiveTypeOK, Snaps

LEMMA SnapBegun ==
    ASSUME ArchiveTypeOK, NEW p \in Writers, SnapBegin(p)
    PROVE  /\ snap' \in [Writers -> Snaps]
           /\ snap'[p].at = "named" /\ snap'[p].id = FreshId(p)
           /\ FreshId(p).time = clock /\ FreshId(p).reason = Reason[p]
           /\ \A q \in Writers \ {p} : snap'[q] = snap[q]
<1>1. FreshId(p) \in Ids /\ FreshId(p).time = clock /\ FreshId(p).reason = Reason[p]
  BY FreshIdFresh
<1>2. [at |-> "named", id |-> FreshId(p)] \in Snaps  BY <1>1 DEF Snaps, Running
<1>3. snap' = [snap EXCEPT ![p] = [at |-> "named", id |-> FreshId(p)]]  BY DEF SnapBegin
<1> QED  BY <1>1, <1>2, <1>3 DEF ArchiveTypeOK

(* What is finished keeps its name, and is the newest.                     *)
LEMMA Finishes ==
    ASSUME ArchiveTypeOK, NEW p \in Writers, NEW fs, fs \subseteq File
    PROVE  /\ Finished(p, fs) \subseteq File
           /\ IsFiniteSet(fs) => IsFiniteSet(Finished(p, fs))
           /\ \A id : (\E f \in Finished(p, fs) : f.id = id) <=> (\E f \in fs : f.id = id)
           /\ \A f \in Finished(p, fs) :
                 f \in fs \/ (f.id = snap[p].id /\ f.refs = Valid /\ f.age = Now)
           /\ \A f \in Finished(p, fs) :
                 f.id = snap[p].id /\ (\A g \in fs : g.id = f.id => g.by = {p})
                 => f.refs = Valid /\ f.age = Now
<1> DEFINE full(f) == IF f.id = snap[p].id /\ f.by = {p}
                      THEN [f EXCEPT !.refs = Valid, !.by = {}, !.age = Now] ELSE f
<1>1. Valid \in Values /\ Now \in [clock : Nat, order : Nat]
  BY DEF Valid, Values, Now, ArchiveTypeOK
<1>2. ASSUME NEW f \in fs
      PROVE  /\ full(f) \in File /\ full(f).id = f.id
             /\ full(f) = f \/ (f.id = snap[p].id /\ full(f).refs = Valid /\ full(f).age = Now)
             /\ f.id = snap[p].id /\ f.by = {p} => full(f).refs = Valid /\ full(f).age = Now
  <2>1. f \in File  OBVIOUS
  <2> QED  BY <1>1, <2>1 DEF File
<1>3. Finished(p, fs) = {full(f) : f \in fs}  BY DEF Finished
<1>4. IsFiniteSet(fs) => IsFiniteSet(Finished(p, fs))
  <2> DEFINE g == [f \in fs |-> full(f)]
  <2>1. g \in Surjection(fs, Finished(p, fs))
    <3>1. g \in [fs -> Finished(p, fs)]  BY <1>3
    <3>2. \A h \in Finished(p, fs) : \E f \in fs : g[f] = h  BY <1>3
    <3> QED  BY <3>1, <3>2 DEF Surjection
  <2> QED  BY <2>1, FS_Surjection
<1> HIDE DEF full
<1> QED  BY <1>2, <1>3, <1>4

(* What prune and Delete take away.                                        *)
LEMMA Removed ==
    ASSUME ArchiveTypeOK, NEW w \in Removers, NEW id \in Ids, RemoveBundle(w, id)
    PROVE  /\ bundles' \subseteq bundles /\ IsFiniteSet(bundles')
           /\ bare' \in [Removers -> SUBSET Ids]
           /\ \A i : HasBundle(i)' <=> HasBundle(i) /\ i # id
<1>1. bundles' = {b \in bundles : b.id # id}  BY DEF RemoveBundle
<1>2. IsFiniteSet(bundles')  BY <1>1, FS_Subset DEF ArchiveTypeOK
<1> QED  BY <1>1, <1>2 DEF RemoveBundle, ArchiveTypeOK, HasBundle

LEMMA ArchiveTypeStep ==
    ASSUME ArchiveTypeOK, ArchiveStep
    PROVE  ArchiveTypeOK'
<1> USE DEF removals
<1>1. ASSUME NEW p \in Writers, SnapBegin(p) PROVE ArchiveTypeOK'
  <2>1. snap' \in [Writers -> Snaps]  BY <1>1, SnapBegun
  <2>2. Active \subseteq Writers  BY DEF Active
  <2> QED  BY <1>1, <2>1, <2>2 DEF SnapBegin, ArchiveTypeOK, clockVars, files
<1>2. ASSUME NEW p \in Writers, SnapCreate(p) PROVE ArchiveTypeOK'
  <2>1. snap' \in [Writers -> Snaps] /\ snap[p].id \in Ids
    BY <1>2, SnapMoves DEF SnapCreate, Running
  <2>2. [id |-> snap[p].id, refs |-> NoRefs, by |-> {p}, age |-> Now] \in File
    BY <2>1 DEF File, ArchiveTypeOK, NoRefs, Values, Now
  <2> DEFINE f == [id |-> snap[p].id, refs |-> NoRefs, by |-> {p}, age |-> Now]
  <2>3. tmps' \subseteq File /\ written' \in Nat
    <3>1. tmps' = tmps \cup {f} /\ written' = written + 1  BY <1>2 DEF SnapCreate
    <3> HIDE DEF f
    <3>2. tmps \subseteq File /\ written \in Nat  BY DEF ArchiveTypeOK
    <3>3. f \in File  BY <2>2 DEF f
    <3> QED  BY <3>1, <3>2, <3>3
  <2>4. UNCHANGED <<clock, setBack, bundles, sidecars, doomed, bare, lost, orphaned, disturbed>>
    BY <1>2 DEF SnapCreate, clockVars, history
  <2> QED  BY <2>1, <2>3, <2>4 DEF ArchiveTypeOK
<1>3. ASSUME NEW p \in Writers, SnapWrite(p) PROVE ArchiveTypeOK'
  <2>1. snap' \in [Writers -> Snaps]  BY <1>3, SnapMoves DEF SnapWrite, Running
  <2>2. /\ tmps' = Finished(p, tmps) /\ bundles' = Finished(p, bundles)
        /\ tmps \subseteq File /\ bundles \subseteq File /\ IsFiniteSet(bundles)
    BY <1>3 DEF SnapWrite, ArchiveTypeOK
  <2>3. tmps' \subseteq File /\ bundles' \subseteq File /\ IsFiniteSet(bundles')
    BY <2>2, Finishes
  <2> QED  BY <1>3, <2>1, <2>3 DEF SnapWrite, ArchiveTypeOK, clockVars, history
<1>4. ASSUME NEW p \in Writers, SnapRename(p) PROVE ArchiveTypeOK'
  <2>1. snap' \in [Writers -> Snaps]  BY <1>4, SnapMoves DEF SnapRename, Running
  <2>2. PICK t \in tmps : /\ tmps' = tmps \ {t}
                          /\ bundles' = {b \in bundles : b.id # t.id} \cup {t}
    BY <1>4 DEF SnapRename
  <2>3. IsFiniteSet({b \in bundles : b.id # t.id})  BY FS_Subset DEF ArchiveTypeOK
  <2>4. IsFiniteSet(bundles')  BY <2>2, <2>3, FS_AddElement
  <2> QED  BY <1>4, <2>1, <2>2, <2>4 DEF SnapRename, ArchiveTypeOK, clockVars, history
<1>5. ASSUME NEW p \in Writers, SnapSidecar(p) PROVE ArchiveTypeOK'
  <2>1. snap' \in [Writers -> Snaps] /\ snap[p].id \in Ids
    BY <1>5, SnapMoves DEF SnapSidecar, Running
  <2> QED  BY <1>5, <2>1 DEF SnapSidecar, ArchiveTypeOK, clockVars
<1>6. ASSUME NEW p \in Writers, PruneByCount(p) PROVE ArchiveTypeOK'
  <2>1. snap' \in [Writers -> Snaps]  BY <1>6, SnapMoves DEF PruneByCount, Running
  <2> QED  BY <1>6, <2>1 DEF PruneByCount, ArchiveTypeOK, clockVars, files, history
<1>7. ASSUME NEW p \in Writers, PruneBySize(p) PROVE ArchiveTypeOK'
  <2>1. snap' \in [Writers -> Snaps]  BY <1>7, SnapMoves DEF PruneBySize, Running
  <2>2. {b.id : b \in bundles \ KeptBySize} \subseteq Ids  BY DEF ArchiveTypeOK, File
  <2> QED  BY <1>7, <2>1, <2>2 DEF PruneBySize, ArchiveTypeOK, clockVars, files, history
<1>8. ASSUME NEW p \in Writers, SnapReturns(p) PROVE ArchiveTypeOK'
  <2>1. snap' \in [Writers -> Snaps]  BY <1>8, SnapMoves DEF SnapReturns, Running
  <2> QED  BY <1>8, <2>1 DEF SnapReturns, ArchiveTypeOK, clockVars, files, history
<1>9. ASSUME NEW p \in Writers, SnapFails(p) PROVE ArchiveTypeOK'
  <2>1. snap' \in [Writers -> Snaps]  BY <1>9, SnapFailed DEF SnapFails
  <2> QED  BY <1>9, <2>1 DEF SnapFails, ArchiveTypeOK, clockVars, history
<1>10. ASSUME NEW w \in Removers, NEW id \in Ids, Unlists(w, id) PROVE ArchiveTypeOK'
  BY <1>10 DEF Unlists, RemoveSidecar, Lose, Disturb, ArchiveTypeOK, clockVars, Active
<1>11. ASSUME NEW w \in Removers, NEW id \in Ids, RemoveBundle(w, id) PROVE ArchiveTypeOK'
  BY <1>11, Removed DEF RemoveBundle, Lose, Disturb, ArchiveTypeOK, clockVars, Active
<1>12. CASE Tick  BY <1>12 DEF Tick, ArchiveTypeOK, files, history
<1>13. CASE StepBack  BY <1>13 DEF StepBack, ArchiveTypeOK, files, Active
<1>14. CASE Halt
  <2>1. snap' \in [Writers -> Snaps]  BY <1>14 DEF Halt, Snaps
  <2> QED  BY <1>14, <2>1 DEF Halt, ArchiveTypeOK, clockVars, files, history
<1>15. CASE ArchiveSame  BY <1>15 DEF ArchiveSame, ArchiveTypeOK
<1> QED  BY <1>1, <1>2, <1>3, <1>4, <1>5, <1>6, <1>7, <1>8, <1>9, <1>10, <1>11, <1>12, <1>13,
            <1>14, <1>15 DEF ArchiveStep, Moves, Removal

-----------------------------------------------------------------------------
LEMMA TidyStep ==
    ASSUME ArchiveTypeOK, Tidy, ArchiveStep
    PROVE  Tidy'
<1> USE DEF Tidy, removals
<1>1. ASSUME NEW p \in Writers, SnapBegin(p) PROVE Tidy'
  <2>1. /\ snap'[p].at = "named" /\ snap'[p].id.reason = Reason[p]
        /\ \A q \in Writers \ {p} : snap'[q] = snap[q]
    BY <1>1, SnapBegun
  <2> QED  BY <1>1, <2>1 DEF SnapBegin
<1>2. ASSUME NEW p \in Writers, snap[p].at \notin {"none", "failed"},
             NEW place \in Running \cup {"done"}, snap' = [snap EXCEPT ![p].at = place],
             place \notin {"counting", "sizing"} => doomed'[p] = {} /\ bare'[p] = {},
             \A q \in Writers \ {p} : doomed'[q] = doomed[q] /\ bare'[q] = bare[q]
      PROVE  Tidy'
  <2>1. /\ snap'[p].at = place /\ snap'[p].id = snap[p].id
        /\ \A q \in Writers \ {p} : snap'[q] = snap[q]
    BY <1>2, SnapMoves
  <2> QED  BY <1>2, <2>1
<1>3. ASSUME NEW p \in Writers, SnapCreate(p) \/ SnapWrite(p) \/ SnapRename(p) \/ SnapSidecar(p)
      PROVE  Tidy'
  BY <1>2, <1>3 DEF SnapCreate, SnapWrite, SnapRename, SnapSidecar, Running
<1>4. ASSUME NEW p \in Writers, PruneByCount(p) \/ PruneBySize(p) \/ SnapReturns(p) PROVE Tidy'
  BY <1>2, <1>4 DEF PruneByCount, PruneBySize, SnapReturns, Pruned, Running, ArchiveTypeOK
<1>5. ASSUME NEW p \in Writers, SnapFails(p) PROVE Tidy'
  <2>1. /\ snap'[p].at = "failed" /\ \A q \in Writers \ {p} : snap'[q] = snap[q]
    BY <1>5, SnapFailed DEF SnapFails
  <2> QED  BY <1>5, <2>1 DEF SnapFails
<1>6. ASSUME NEW w \in Removers, NEW id \in Ids, Unlists(w, id) PROVE Tidy'
  <2>1. \A q \in Writers : doomed'[q] \subseteq doomed[q] /\ snap'[q] = snap[q]
    BY <1>6 DEF Unlists, RemoveSidecar
  <2>2. \A q \in Writers \ {w} : bare'[q] = bare[q]
    BY <1>6 DEF Unlists, RemoveSidecar, ArchiveTypeOK, Removers
  <2>3. w \in Writers => snap[w].at \in {"counting", "sizing"}  BY <1>6 DEF Unlists
  <2> QED  BY <2>1, <2>2, <2>3
<1>7. ASSUME NEW w \in Removers, NEW id \in Ids, RemoveBundle(w, id) PROVE Tidy'
  <2>1. \A q \in Writers : bare'[q] \subseteq bare[q]
    BY <1>7 DEF RemoveBundle, ArchiveTypeOK, Removers
  <2>2. UNCHANGED <<snap, doomed>>  BY <1>7 DEF RemoveBundle
  <2> QED  BY <2>1, <2>2
<1>8. CASE Halt
  BY <1>8 DEF Halt, Removers
<1>9. CASE Tick \/ StepBack \/ ArchiveSame
  BY <1>9 DEF Tick, StepBack, ArchiveSame
<1> QED  BY <1>1, <1>3, <1>4, <1>5, <1>6, <1>7, <1>8, <1>9 DEF ArchiveStep, Moves, Removal

-----------------------------------------------------------------------------
LEMMA ListStep ==
    ASSUME ArchiveTypeOK, ListExact, ArchiveStep
    PROVE  ListExact'
<1> USE DEF ListExact, ListedHasBundle, removals
<1>1. ASSUME NEW p \in Writers, SnapBegin(p) PROVE ListExact'
  <2>1. /\ snap'[p].at = "named" /\ \A q \in Writers \ {p} : snap'[q] = snap[q]
    BY <1>1, SnapBegun
  <2> QED  BY <1>1, <2>1 DEF SnapBegin, HasBundle, files
<1>2. ASSUME NEW p \in Writers, SnapCreate(p) PROVE ListExact'
  <2>1. /\ snap'[p].at = "created" /\ \A q \in Writers \ {p} : snap'[q] = snap[q]
    BY <1>2, SnapMoves DEF SnapCreate, Running
  <2> QED  BY <1>2, <2>1 DEF SnapCreate, HasBundle, history
<1>3. ASSUME NEW p \in Writers, SnapWrite(p) PROVE ListExact'
  <2>1. /\ snap'[p].at = "written" /\ \A q \in Writers \ {p} : snap'[q] = snap[q]
    BY <1>3, SnapMoves DEF SnapWrite, Running
  <2>2. bundles' = Finished(p, bundles) /\ bundles \subseteq File
    BY <1>3 DEF SnapWrite, ArchiveTypeOK
  <2>3. \A id : HasBundle(id)' <=> HasBundle(id)  BY <2>2, Finishes DEF HasBundle
  <2>4. UNCHANGED <<sidecars, orphaned, lost, bare>>  BY <1>3 DEF SnapWrite, history
  <2> HIDE DEF HasBundle
  <2> QED  BY <2>1, <2>3, <2>4
<1>4. ASSUME NEW p \in Writers, SnapRename(p) PROVE ListExact'
  <2>1. /\ snap'[p].at = "renamed" /\ snap'[p].id = snap[p].id
        /\ \A q \in Writers \ {p} : snap'[q] = snap[q]
    BY <1>4, SnapMoves DEF SnapRename, Running
  <2>2. /\ HasBundle(snap[p].id)' /\ \A id : HasBundle(id) => HasBundle(id)'
        /\ UNCHANGED <<sidecars, lost, orphaned, bare>>
    <3>1. PICK t \in tmps : /\ t.id = snap[p].id
                            /\ bundles' = {b \in bundles : b.id # t.id} \cup {t}
      BY <1>4 DEF SnapRename
    <3> QED  BY <1>4, <2>1, <3>1 DEF HasBundle, SnapRename, history
  <2> QED  BY <2>1, <2>2
<1>5. ASSUME NEW p \in Writers, SnapSidecar(p) PROVE ListExact'
  <2>1. /\ snap'[p].at = "listed" /\ \A q \in Writers \ {p} : snap'[q] = snap[q]
    BY <1>5, SnapMoves DEF SnapSidecar, Running
  <2>2. snap[p].at = "renamed" /\ (HasBundle(snap[p].id) \/ p \in lost)  BY <1>5 DEF SnapSidecar
  <2>3. UNCHANGED <<bundles, bare, lost>>  BY <1>5 DEF SnapSidecar
  <2>4. /\ sidecars' \ orphaned' \subseteq (sidecars \ orphaned) \cup {snap[p].id}
        /\ snap[p].id \in sidecars' \ orphaned' =>
              p \notin lost /\ \A w \in Removers : snap[p].id \notin bare[w]
    BY <1>5 DEF SnapSidecar
  <2> QED  BY <2>1, <2>2, <2>3, <2>4 DEF HasBundle
<1>6. ASSUME NEW p \in Writers, PruneByCount(p) \/ PruneBySize(p) \/ SnapReturns(p)
      PROVE  ListExact'
  <2>1. \A q \in Writers : snap'[q].at = "renamed" => snap'[q] = snap[q]
    BY <1>6, SnapMoves DEF PruneByCount, PruneBySize, SnapReturns, Running
  <2> QED  BY <1>6, <2>1
           DEF PruneByCount, PruneBySize, SnapReturns, HasBundle, files, history
<1>7. ASSUME NEW p \in Writers, SnapFails(p) PROVE ListExact'
  <2>1. /\ snap'[p].at = "failed" /\ \A q \in Writers \ {p} : snap'[q] = snap[q]
    BY <1>7, SnapFailed DEF SnapFails
  <2> QED  BY <1>7, <2>1 DEF SnapFails, HasBundle, history
<1>8. ASSUME NEW w \in Removers, NEW id \in Ids, Unlists(w, id) PROVE ListExact'
  <2>1. /\ UNCHANGED <<snap, bundles>> /\ lost \subseteq lost'
        /\ sidecars' \ orphaned' \subseteq (sidecars \ orphaned) \ {id}
        /\ \A v \in Removers : bare'[v] \subseteq bare[v] \cup {id}
    BY <1>8 DEF Unlists, RemoveSidecar, Lose, ArchiveTypeOK
  <2> QED  BY <2>1 DEF HasBundle
<1>9. ASSUME NEW w \in Removers, NEW id \in Ids, RemoveBundle(w, id) PROVE ListExact'
  <2>1. \A i : HasBundle(i)' <=> HasBundle(i) /\ i # id  BY <1>9, Removed
  <2>2. /\ UNCHANGED <<snap, sidecars, orphaned>> /\ lost \subseteq lost' /\ id \in bare[w]
        /\ \A p \in Writers : snap[p].at = "renamed" /\ snap[p].id = id => p \in lost'
        /\ \A v \in Removers : bare'[v] \subseteq bare[v]
    BY <1>9 DEF RemoveBundle, Lose, ArchiveTypeOK
  <2> HIDE DEF HasBundle
  <2> QED  BY <2>1, <2>2
<1>10. CASE Halt  BY <1>10 DEF Halt, HasBundle, files, history
<1>11. CASE Tick \/ StepBack \/ ArchiveSame
  BY <1>11 DEF Tick, StepBack, ArchiveSame, HasBundle, files, history
<1> QED  BY <1>1, <1>2, <1>3, <1>4, <1>5, <1>6, <1>7, <1>8, <1>9, <1>10, <1>11
         DEF ArchiveStep, Moves, Removal

-----------------------------------------------------------------------------
LEMMA AgesStep ==
    ASSUME ArchiveTypeOK, AgesGrow, ArchiveStep
    PROVE  AgesGrow'
<1> USE DEF AgesGrow
<1>1. ASSUME \A f \in tmps' \cup bundles' : f \in tmps \cup bundles \/ f.age = Now,
             written' = written + 1, UNCHANGED <<clock, setBack>>
      PROVE  AgesGrow'
  <2>1. /\ \A f \in tmps \cup bundles : f.age.order \in Nat
        /\ clock \in Nat /\ written \in Nat
    BY DEF ArchiveTypeOK, File
  <2> QED  BY <1>1, <2>1 DEF Now
<1>2. ASSUME tmps' \cup bundles' \subseteq tmps \cup bundles, UNCHANGED <<clock, setBack, written>>
      PROVE  AgesGrow'
  BY <1>2
<1>3. ASSUME NEW p \in Writers, SnapCreate(p) PROVE AgesGrow'
  BY <1>1, <1>3 DEF SnapCreate, clockVars
<1>4. ASSUME NEW p \in Writers, SnapWrite(p) PROVE AgesGrow'
  <2>1. /\ tmps' = Finished(p, tmps) /\ bundles' = Finished(p, bundles)
        /\ tmps \subseteq File /\ bundles \subseteq File
    BY <1>4 DEF SnapWrite, ArchiveTypeOK
  <2>2. \A f \in tmps' \cup bundles' : f \in tmps \cup bundles \/ f.age = Now
    BY <2>1, Finishes
  <2> QED  BY <1>1, <1>4, <2>2 DEF SnapWrite, clockVars
<1>5. ASSUME NEW p \in Writers, SnapRename(p) PROVE AgesGrow'
  <2>1. tmps' \cup bundles' \subseteq tmps \cup bundles  BY <1>5 DEF SnapRename
  <2> QED  BY <1>2, <1>5, <2>1 DEF SnapRename, clockVars
<1>6. ASSUME NEW p \in Writers, SnapBegin(p) \/ SnapSidecar(p) PROVE AgesGrow'
  BY <1>2, <1>6 DEF SnapBegin, SnapSidecar, clockVars, files
<1>7. ASSUME NEW p \in Writers, PruneByCount(p) \/ PruneBySize(p) \/ SnapReturns(p)
      PROVE  AgesGrow'
  BY <1>2, <1>7 DEF PruneByCount, PruneBySize, SnapReturns, clockVars, files
<1>8. ASSUME NEW p \in Writers, SnapFails(p) PROVE AgesGrow'
  <2>1. tmps' \subseteq tmps  BY <1>8 DEF SnapFails
  <2> QED  BY <1>2, <1>8, <2>1 DEF SnapFails, clockVars
<1>9. CASE Removal
  <2>1. PICK w \in Removers, id \in Ids : Unlists(w, id) \/ RemoveBundle(w, id)
    BY <1>9 DEF Removal
  <2>2. bundles' \subseteq bundles /\ UNCHANGED <<tmps, clock, setBack, written>>
    BY <2>1 DEF Unlists, RemoveSidecar, RemoveBundle, clockVars
  <2> QED  BY <1>2, <2>2
<1>10. CASE Tick
  <2>1. \A f \in tmps \cup bundles : f.age.clock \in Nat  BY DEF ArchiveTypeOK, File
  <2> QED  BY <1>10, <2>1 DEF Tick, ArchiveTypeOK, files
<1>11. CASE StepBack  BY <1>11 DEF StepBack, ArchiveTypeOK, files
<1>12. CASE Halt \/ ArchiveSame
  BY <1>2, <1>12 DEF Halt, ArchiveSame, clockVars, files
<1> QED  BY <1>3, <1>4, <1>5, <1>6, <1>7, <1>8, <1>9, <1>10, <1>11, <1>12
         DEF ArchiveStep, Moves

-----------------------------------------------------------------------------
LEMMA NamedIds ==
    ASSUME ArchiveTypeOK
    PROVE  /\ Named \subseteq Ids
           /\ \A id \in Ids : id.time \in Nat
           /\ \A f \in tmps \cup bundles : f.age.clock \in Nat /\ f.age.order \in Nat
  BY DEF Named, ArchiveTypeOK, File, Ids

(* An active writer that is alone is the one that takes the step.          *)
LEMMA AloneActs ==
    ASSUME AloneExact, NEW p \in Writers, snap[p].at \in Running,
           NEW q \in Active, q \notin disturbed
    PROVE  q = p /\ Alone(p)
<1>1. p \in Active  BY DEF Active, Running
<1> QED  BY <1>1 DEF AloneExact, Alone

LEMMA AloneStep ==
    ASSUME ArchiveTypeOK, Tidy, AgesGrow, AloneExact, ArchiveStep
    PROVE  AloneExact'
<1> USE DEF removals
<1>1. ASSUME NEW p \in Writers, SnapBegin(p) PROVE AloneExact'
  <2> SUFFICES ASSUME NEW q \in Active', q \notin disturbed' PROVE Alone(q)'
    BY DEF AloneExact
  <2>1. /\ snap'[p].at = "named" /\ snap'[p].id.time = clock
        /\ \A w \in Writers \ {p} : snap'[w] = snap[w]
    BY <1>1, SnapBegun
  <2>2. Active' = Active \cup {p}  BY <2>1 DEF Active
  <2>3. /\ Active = {} /\ ~(setBack > 0) /\ \A id \in Named : ~(id.time >= clock)
        /\ q = p
    BY <1>1, <2>2 DEF SnapBegin
  <2>4. setBack = 0  BY <2>3 DEF ArchiveTypeOK
  <2>5. \A id \in Named : id.time < clock
    BY <2>3, NamedIds DEF ArchiveTypeOK
  <2>6. Named' = Named /\ setBack' = setBack
    BY <1>1 DEF SnapBegin, Named, files, clockVars
  <2> QED  BY <2>1, <2>2, <2>3, <2>4, <2>5, <2>6 DEF Alone, Held
<1>2. ASSUME NEW p \in Writers, SnapCreate(p) PROVE AloneExact'
  <2> SUFFICES ASSUME NEW q \in Active', q \notin disturbed' PROVE Alone(q)'
    BY DEF AloneExact
  <2>1. /\ snap[p].at = "named" /\ snap'[p].at = "created" /\ snap'[p].id = snap[p].id
        /\ \A w \in Writers \ {p} : snap'[w] = snap[w]
    BY <1>2, SnapMoves DEF SnapCreate, Running
  <2>2. Active' = Active  BY <2>1 DEF Active
  <2>3. q = p /\ Alone(p)  BY <1>2, <2>1, <2>2, AloneActs DEF SnapCreate, history, Running
  <2>4. UNCHANGED <<setBack, bundles, sidecars>>  BY <1>2 DEF SnapCreate, clockVars
  <2>5. \A t \in tmps' : t.id = snap[p].id => t.by = {p}
    BY <1>2 DEF SnapCreate, HasTmp
  <2> QED  BY <2>1, <2>2, <2>3, <2>4, <2>5 DEF Alone, Named, Held
<1>3. ASSUME NEW p \in Writers, SnapWrite(p) PROVE AloneExact'
  <2> SUFFICES ASSUME NEW q \in Active', q \notin disturbed' PROVE Alone(q)'
    BY DEF AloneExact
  <2>1. /\ snap[p].at = "created" /\ snap'[p].at = "written" /\ snap'[p].id = snap[p].id
        /\ \A w \in Writers \ {p} : snap'[w] = snap[w]
    BY <1>3, SnapMoves DEF SnapWrite, Running
  <2>2. Active' = Active  BY <2>1 DEF Active
  <2>3. q = p /\ Alone(p)  BY <1>3, <2>1, <2>2, AloneActs DEF SnapWrite, history, Running
  <2>4. UNCHANGED <<setBack, sidecars>>  BY <1>3 DEF SnapWrite, clockVars
  <2>5. /\ tmps' = Finished(p, tmps) /\ bundles' = Finished(p, bundles)
        /\ tmps \subseteq File /\ bundles \subseteq File
    BY <1>3 DEF SnapWrite, ArchiveTypeOK
  <2>6. Named' = Named
    <3>1. \A id : (\E b \in bundles' : b.id = id) <=> (\E b \in bundles : b.id = id)
      BY <2>5, Finishes
    <3>2. {b.id : b \in bundles'} = {b.id : b \in bundles}  BY <3>1
    <3> QED  BY <2>4, <3>2 DEF Named
  <2>7. ASSUME NEW t \in tmps', t.id = snap[p].id, NEW b \in bundles' PROVE ~Older(t, b)
    <3>1. \A g \in tmps : g.id = t.id => g.by = {p}  BY <2>1, <2>3, <2>7 DEF Alone
    <3>2. t.age = [clock |-> clock, order |-> written]
      BY <2>5, <2>7, <3>1, Finishes DEF Now
    <3>3. b \in bundles \/ b.age = [clock |-> clock, order |-> written]
      BY <2>5, Finishes DEF Now
    <3>4. b \in bundles => b.age.clock <= clock /\ b.age.order < written
      BY <2>3 DEF AgesGrow, Alone
    <3> QED  BY <3>2, <3>3, <3>4, NamedIds DEF Older, ArchiveTypeOK
  <2> QED  BY <2>1, <2>2, <2>3, <2>4, <2>6, <2>7 DEF Alone, Older, Held
<1>4. ASSUME NEW p \in Writers, SnapRename(p) PROVE AloneExact'
  <2> SUFFICES ASSUME NEW q \in Active', q \notin disturbed' PROVE Alone(q)'
    BY DEF AloneExact
  <2>1. /\ snap[p].at = "written" /\ snap'[p].at = "renamed" /\ snap'[p].id = snap[p].id
        /\ \A w \in Writers \ {p} : snap'[w] = snap[w]
    BY <1>4, SnapMoves DEF SnapRename, Running
  <2>2. Active' = Active  BY <2>1 DEF Active
  <2>3. q = p /\ Alone(p)  BY <1>4, <2>1, <2>2, AloneActs DEF SnapRename, history, Running
  <2>4. PICK t \in tmps : /\ t.id = snap[p].id
                          /\ bundles' = {b \in bundles : b.id # t.id} \cup {t}
    BY <1>4 DEF SnapRename
  <2>5. UNCHANGED <<setBack, sidecars>> /\ doomed'[p] = {} /\ bare'[p] = {}
    BY <1>4, <2>1 DEF SnapRename, clockVars, Tidy
  <2>6. Named' \subseteq Named \cup {snap[p].id}  BY <2>4, <2>5 DEF Named
  <2>7. \A b \in bundles : ~Older(t, b)  BY <2>1, <2>3, <2>4 DEF Alone
  <2>8. ~Older(t, t)  BY NamedIds DEF Older
  <2>9. \A b \in bundles' : b.id = snap[p].id => \A c \in bundles' : ~Older(b, c)
    BY <2>4, <2>7, <2>8
  <2>10. t \in bundles'  BY <2>4
  <2>11. HasBundle(snap[p].id)'  BY <2>1, <2>4, <2>10 DEF HasBundle
  <2> QED  BY <2>1, <2>2, <2>3, <2>5, <2>6, <2>9, <2>11 DEF Alone, Older, Held
<1>5. ASSUME NEW p \in Writers, SnapSidecar(p) PROVE AloneExact'
  <2> SUFFICES ASSUME NEW q \in Active', q \notin disturbed' PROVE Alone(q)'
    BY DEF AloneExact
  <2>1. /\ snap[p].at = "renamed" /\ snap'[p].at = "listed" /\ snap'[p].id = snap[p].id
        /\ \A w \in Writers \ {p} : snap'[w] = snap[w]
    BY <1>5, SnapMoves DEF SnapSidecar, Running
  <2>2. Active' = Active  BY <2>1 DEF Active
  <2>3. q = p /\ Alone(p)  BY <1>5, <2>1, <2>2, AloneActs DEF SnapSidecar, Running
  <2>4. sidecars' = sidecars \cup {snap[p].id} /\ UNCHANGED <<setBack, bundles, doomed, bare>>
    BY <1>5 DEF SnapSidecar, clockVars
  <2> QED  BY <2>1, <2>2, <2>3, <2>4 DEF Alone, Older, Named, HasBundle, Held
<1>6. ASSUME NEW p \in Writers, PruneByCount(p) PROVE AloneExact'
  <2> SUFFICES ASSUME NEW q \in Active', q \notin disturbed' PROVE Alone(q)'
    BY DEF AloneExact
  <2> DEFINE own == snap[p].id
  <2>1. /\ snap[p].at = "listed" /\ snap'[p].at = "counting" /\ snap'[p].id = own
        /\ \A w \in Writers \ {p} : snap'[w] = snap[w]
    BY <1>6, SnapMoves DEF PruneByCount, Running
  <2>2. Active' = Active  BY <2>1 DEF Active
  <2>3. q = p /\ Alone(p)
    BY <1>6, <2>1, <2>2, AloneActs DEF PruneByCount, Running, history
  <2>4. own \in sidecars /\ own \in Ids  BY <2>1, <2>3, SnapPlaces DEF Alone, Held
  <2>5. \A j \in sidecars \ {own} : ~Younger(j, own)
    <3> SUFFICES ASSUME NEW j \in sidecars, j # own PROVE ~Younger(j, own)  OBVIOUS
    <3>1. j \in Named /\ j.time < own.time  BY <2>3 DEF Alone, Named
    <3> QED  BY <2>4, <3>1, NamedIds DEF Younger
  <2>6. {j \in sidecars \ {own} : Younger(j, own)} = {}  BY <2>5
  <2>7. own \in KeptByCount
    <3>1. Cardinality({j \in sidecars \ {own} : Younger(j, own)}) = 0
      BY <2>6, FS_EmptySet
    <3>2. 0 < Keep  BY ArchiveAssumption
    <3> QED  BY <2>4, <3>1, <3>2 DEF KeptByCount
  <2>8. own \notin doomed'[p] \cup bare'[p]
    BY <1>6, <2>1, <2>7 DEF PruneByCount, ArchiveTypeOK, Tidy
  <2>9. UNCHANGED <<setBack, bundles, sidecars>>  BY <1>6 DEF PruneByCount, clockVars, files
  <2> QED  BY <2>1, <2>2, <2>3, <2>8, <2>9 DEF Alone, Older, Named, HasBundle, Held
<1>7. ASSUME NEW p \in Writers, PruneBySize(p) PROVE AloneExact'
  <2> SUFFICES ASSUME NEW q \in Active', q \notin disturbed' PROVE Alone(q)'
    BY DEF AloneExact
  <2> DEFINE own == snap[p].id
  <2>1. /\ snap[p].at = "counting" /\ snap'[p].at = "sizing" /\ snap'[p].id = own
        /\ \A w \in Writers \ {p} : snap'[w] = snap[w]
    BY <1>7, SnapMoves DEF PruneBySize, Running
  <2>2. Active' = Active  BY <2>1 DEF Active
  <2>3. q = p /\ Alone(p)
    BY <1>7, <2>1, <2>2, AloneActs DEF PruneBySize, Running, history
  <2>4. ASSUME MaxBytes > 0, NEW b \in bundles, b.id = own PROVE b \in KeptBySize
    <3>1. {c \in bundles : Older(b, c)} = {}  BY <2>1, <2>3, <2>4 DEF Alone, Held
    <3>2. Cardinality({c \in bundles : Older(b, c)}) = 0  BY <3>1, FS_EmptySet
    <3> QED  BY <2>4, <3>2 DEF KeptBySize
  <2>5. MaxBytes > 0 => own \notin doomed'[p] \cup bare'[p]
    BY <1>7, <2>4 DEF PruneBySize, Pruned, ArchiveTypeOK
  <2>6. UNCHANGED <<setBack, bundles, sidecars>>  BY <1>7 DEF PruneBySize, clockVars, files
  <2> QED  BY <2>1, <2>2, <2>3, <2>5, <2>6 DEF Alone, Older, Named, HasBundle, Held
<1>8. ASSUME NEW p \in Writers, SnapReturns(p) \/ SnapFails(p) PROVE AloneExact'
  <2> SUFFICES ASSUME NEW q \in Active', q \notin disturbed' PROVE Alone(q)'
    BY DEF AloneExact
  <2>1. /\ snap[p].at \in Running /\ snap'[p].at \in {"done", "failed"}
        /\ \A w \in Writers \ {p} : snap'[w] = snap[w]
        /\ disturbed' = disturbed
    BY <1>8, SnapMoves, SnapFailed DEF SnapReturns, SnapFails, Running, history
  <2>2. q \in Active /\ q # p  BY <2>1 DEF Active
  <2> QED  BY <2>1, <2>2, AloneActs
<1>9. ASSUME NEW w \in Removers, NEW id \in Ids, Unlists(w, id) \/ RemoveBundle(w, id)
      PROVE  AloneExact'
  <2> SUFFICES ASSUME NEW q \in Active', q \notin disturbed' PROVE Alone(q)'
    BY DEF AloneExact
  <2>1. /\ UNCHANGED <<setBack, tmps, snap>>
        /\ disturbed' = disturbed \cup {p \in Active \ {w} : snap[p].id = id}
        /\ sidecars' \subseteq sidecars /\ sidecars \ {id} \subseteq sidecars'
        /\ bundles' \subseteq bundles
    BY <1>9 DEF Unlists, RemoveSidecar, RemoveBundle, Disturb, clockVars
  <2>2. Active' = Active  BY <2>1 DEF Active
  <2>3. Alone(q) /\ (q # w => snap[q].id # id)  BY <2>1, <2>2 DEF AloneExact
  <2>4. q \in Writers  BY <2>2 DEF Active
  <2>5. \A i : i # id => (HasBundle(i)' <=> HasBundle(i))
    BY <1>9, Removed DEF Unlists, RemoveSidecar, HasBundle
  <2>6. /\ doomed'[q] \subseteq doomed[q] /\ bare'[q] \subseteq bare[q] \cup {id}
        /\ q = w => id \in doomed[q] \cup bare[q]
        /\ q # w => bare'[q] = bare[q]
    BY <1>9, <2>4 DEF Unlists, RemoveSidecar, RemoveBundle, ArchiveTypeOK, Removers
  <2>7. Held(q) => snap[q].id # id  BY <2>3, <2>6 DEF Alone
  <2>8. Named' \subseteq Named  BY <2>1 DEF Named
  <2>9. Held(q)' <=> Held(q)  BY <2>1 DEF Held
  <2>10. Held(q) => /\ HasBundle(snap[q].id)'
                    /\ snap[q].id \notin doomed'[q] \cup bare'[q]
                    /\ snap[q].at # "renamed" => snap[q].id \in sidecars'
    <3> HIDE DEF HasBundle
    <3> QED  BY <2>1, <2>3, <2>5, <2>6, <2>7 DEF Alone
  <2> QED  BY <2>1, <2>2, <2>3, <2>8, <2>9, <2>10 DEF Alone, Older, HasBundle
<1>10. ASSUME UNCHANGED <<setBack, tmps, bundles, sidecars, snap, doomed, bare, disturbed>>
       PROVE  AloneExact'
  BY <1>10 DEF AloneExact, Active, Alone, Named, HasBundle, Older, Held
<1>11. CASE Tick \/ ArchiveSame  BY <1>10, <1>11 DEF Tick, ArchiveSame, files, history
<1>12. CASE StepBack
  <2>1. Active' = Active /\ Active \subseteq disturbed'  BY <1>12 DEF StepBack, Active
  <2> QED  BY <2>1 DEF AloneExact
<1>13. CASE Halt
  <2>1. Active' = {}  BY <1>13 DEF Halt, Active
  <2> QED  BY <2>1 DEF AloneExact
<1> QED  BY <1>1, <1>2, <1>3, <1>4, <1>5, <1>6, <1>7, <1>8, <1>9, <1>11, <1>12, <1>13
         DEF ArchiveStep, Moves, Removal

-----------------------------------------------------------------------------
(* The steps that pass the refs by, and those that pass the archive by.    *)
MirrorSame == UNCHANGED <<local, objects, head, fetch, restore, unsettled, moved>>

BesideStep ==
    \/ \E p \in Writers : (p # Sync /\ SnapBegin(p)) \/ Moves(p)
    \/ Removal \/ Tick \/ StepBack \/ ArchiveSame

MirrorStep ==
    \/ Advertise \/ ListLocal \/ ListFails \/ Download \/ FetchFails \/ ArchiveReturns
    \/ SetHead
    \/ \E r \in Refs : UpdateRef(r) \/ UpdateFails(r) \/ RestoreRef(r) \/ RestoreFails(r)
    \/ RestoreBegin \/ RestoreHead

LEMMA Steps ==
    ASSUME TypeOK, [Next]_vars
    PROVE  (MirrorSame /\ BesideStep) \/ (ArchiveSame /\ MirrorStep) \/ ArchiveFirst \/ Crash
<1>0. ArchiveTypeOK  BY DEF TypeOK
<1>1. ASSUME NEW p \in Writers, SnapProceeds(p) \/ SnapGivesUp(p) \/ ManualBegin(p)
      PROVE  MirrorSame /\ BesideStep
  <2>1. UNCHANGED local
    BY <1>1 DEF SnapProceeds, SnapGivesUp, ManualBegin, SnapStep, SnapFails, SnapBegin,
       SnapCreate, SnapWrite, SnapRename, SnapSidecar, PruneByCount, PruneBySize,
       PruneSidecar, PruneBundle, RemoveSidecar, RemoveBundle, SnapReturns
  <2>2. (p # Sync /\ SnapBegin(p)) \/ Moves(p) \/ Removal
    BY <1>0, <1>1, SnapSteps DEF SnapProceeds, SnapGivesUp, ManualBegin, Moves
  <2> QED  BY <1>1, <2>1, <2>2
           DEF SnapProceeds, SnapGivesUp, ManualBegin, MirrorSame, BesideStep
<1>2. CASE DeleteArchive
  <2>1. UNCHANGED local
    BY <1>2 DEF DeleteArchive, DeleteSidecar, DeleteBundle, RemoveSidecar, RemoveBundle
  <2>2. Removal  BY <1>0, <1>2, Deletes DEF DeleteArchive
  <2> QED  BY <1>2, <2>1, <2>2 DEF DeleteArchive, MirrorSame, BesideStep
<1>3. CASE ClockMoves
  <2>1. (Tick \/ StepBack) /\ UNCHANGED local  BY <1>3 DEF ClockMoves, Tick, StepBack
  <2> QED  BY <1>3, <2>1 DEF ClockMoves, MirrorSame, BesideStep
<1>4. CASE UpstreamMoves \/ UNCHANGED vars
  <2>1. MirrorSame  BY <1>4 DEF UpstreamMoves, vars, archiveVars, MirrorSame
  <2>2. ArchiveSame  BY <1>4 DEF UpstreamMoves, vars, archiveVars, ArchiveSame
  <2> QED  BY <2>1, <2>2 DEF BesideStep
<1>5. ASSUME MirrorStep PROVE ArchiveSame /\ MirrorStep
  <2>1. ASSUME UNCHANGED archiveVars PROVE ArchiveSame
    BY <2>1 DEF archiveVars, ArchiveSame
  <2>2. ASSUME UNCHANGED <<clockVars, files, snap, removals, history>> PROVE ArchiveSame
    BY <2>2 DEF clockVars, files, removals, history, ArchiveSame
  <2> QED  BY <1>5, <2>1, <2>2
           DEF MirrorStep, Advertise, ListLocal, ListFails, Download, FetchFails,
               ArchiveReturns, SetHead, UpdateRef, UpdateFails, RestoreRef, RestoreFails,
               RestoreBegin, RestoreHead
<1> QED  BY <1>1, <1>2, <1>3, <1>4, <1>5 DEF Next, FetchStep, MirrorStep

Busy == {"archive", "archiving", "update"}

LEMMA FetchFields ==
    ASSUME TypeOK
    PROVE  /\ fetch.at \in {"idle", "advertised", "listed"} \cup Busy
           /\ fetch.at # "idle" => fetch.adv \in Values
           /\ fetch.at \in {"listed"} \cup Busy => fetch.seen \in Listings /\ fetch.ok \in BOOLEAN
           /\ fetch.at \in Busy =>
                 /\ fetch.todo \subseteq Refs
                 /\ fetch \in [at : Busy, adv : Values, seen : Listings, ok : BOOLEAN,
                               todo : SUBSET Refs]
  BY DEF TypeOK, Fetches, NoFetch, Busy

LEMMA RestoreFields ==
    ASSUME TypeOK, restore.at = "refs"
    PROVE  /\ restore.refs \in Values /\ restore.todo \subseteq Refs
           /\ restore \in [at : {"refs"}, refs : Values, seen : Listings, ok : BOOLEAN,
                           todo : SUBSET Refs]
  BY DEF TypeOK, Restores, NoRestore

LEMMA EventsType ==
    ASSUME TypeOK, [Next]_vars
    PROVE  events' \in Nat /\ remote' \in Values
<1> DEFINE Goal == events' \in Nat /\ remote' \in Values
<1>1. UNCHANGED <<events, remote>> => Goal  BY DEF TypeOK
<1>2. Event /\ UNCHANGED remote => Goal  BY DEF TypeOK, Event
<1>3. CASE FetchStep \/ FetchFails \/ ListFails
  BY <1>1, <1>2, <1>3 DEF FetchStep, FetchFails, ListFails, Advertise, ListLocal, Download,
     ArchiveFirst, ArchiveReturns, UpdateRef, SetHead
<1>4. ASSUME NEW p \in Writers, SnapProceeds(p) \/ SnapGivesUp(p) \/ ManualBegin(p)
      PROVE  Goal
  BY <1>1, <1>2, <1>4 DEF SnapProceeds, SnapGivesUp, ManualBegin
<1>5. CASE DeleteArchive \/ RestoreBegin \/ RestoreHead \/ ClockMoves \/ Crash
  BY <1>1, <1>2, <1>5
  DEF DeleteArchive, RestoreBegin, RestoreHead, ClockMoves, Crash, archiveVars
<1>6. ASSUME NEW r \in Refs, RestoreRef(r) \/ RestoreFails(r) \/ UpdateFails(r)
      PROVE  Goal
  BY <1>1, <1>2, <1>6 DEF RestoreRef, RestoreFails, UpdateFails
<1>7. CASE UpstreamMoves  BY <1>7 DEF UpstreamMoves, Event, TypeOK, Values, Branches
<1>8. CASE UNCHANGED vars  BY <1>1, <1>8 DEF vars
<1> QED  BY <1>3, <1>4, <1>5, <1>6, <1>7, <1>8 DEF Next

(* What a crash in the middle of an update does to the refs: a lock is     *)
(* made, or a ref removed that was compared before.                        *)
LEMMA TornRefs ==
    ASSUME local \in Listings, NEW r \in Refs, NEW old, NEW new \in Commits \cup {Nil},
           NEW refs \in Torn(r, old, new)
    PROVE  /\ refs \in Listings
           /\ \A q \in Refs : refs[q] \in {local[q], Garbled, Nil, new}
           /\ \A q \in Refs : local[q] # Nil /\ refs[q] # local[q] =>
                 q = r /\ local[r] = old /\ new = Nil /\ refs[r] = Nil
<1> USE MirrorAssumption DEF Listings
<1>1. CASE LockOf[r] = Nil \/ Locked(r)  BY <1>1 DEF Torn
<1>2. CASE LockOf[r] # Nil /\ ~Locked(r)
  <2> PICK lock \in Refs : lock = LockOf[r] /\ local[lock] = Nil  BY <1>2 DEF Locked
  <2> DEFINE Made == [local EXCEPT ![lock] = Garbled]
  <2>2. \/ refs \in {Made, [local EXCEPT ![lock] = new]}
        \/ refs = [Made EXCEPT ![r] = Nil] /\ local[r] = old /\ new = Nil
    BY <1>2 DEF Torn
  <2>3. CASE refs = Made  BY <2>3
  <2>4. CASE refs = [local EXCEPT ![lock] = new]  BY <2>4
  <2>5. CASE refs = [Made EXCEPT ![r] = Nil] /\ local[r] = old /\ new = Nil  BY <2>5
  <2> QED  BY <2>2, <2>3, <2>4, <2>5
<1> QED  BY <1>1, <1>2

(* The update of a fetch and that of a restore.                            *)
LEMMA CrashTears ==
    ASSUME TypeOK, Crash
    PROVE  \/ UNCHANGED local
           \/ \E r \in Refs : /\ fetch.at = "update" /\ r \in fetch.todo
                              /\ fetch.adv[r] \in Commits \cup {Nil}
                              /\ local' \in Torn(r, fetch.seen[r], fetch.adv[r])
           \/ \E r \in Refs : /\ restore.at = "refs" /\ r \in restore.todo
                              /\ restore.refs[r] \in Commits \cup {Nil}
                              /\ local' \in Torn(r, restore.seen[r], restore.refs[r])
<1>1. ASSUME NEW r \in Refs, InTurn(r), local' \in Torn(r, fetch.seen[r], fetch.adv[r])
      PROVE  /\ fetch.at = "update" /\ r \in fetch.todo
             /\ fetch.adv[r] \in Commits \cup {Nil}
  BY <1>1, FetchFields DEF InTurn, Values
<1>2. ASSUME restore.at = "refs", NEW r \in restore.todo,
             local' \in Torn(r, restore.seen[r], restore.refs[r])
      PROVE  r \in Refs /\ restore.refs[r] \in Commits \cup {Nil}
  BY <1>2, RestoreFields DEF Values
<1> QED  BY <1>1, <1>2 DEF Crash

LEMMA MirrorTypeStep ==
    ASSUME TypeOK, [Next]_vars
    PROVE  /\ local' \in Listings /\ head' \in Refs /\ fetch' \in Fetches
           /\ restore' \in Restores /\ unsettled' \in BOOLEAN /\ moved' \subseteq Refs
<1> DEFINE Goal == /\ local' \in Listings /\ head' \in Refs /\ fetch' \in Fetches
                   /\ restore' \in Restores /\ unsettled' \in BOOLEAN /\ moved' \subseteq Refs
<1> USE DEF TypeOK
<1>1. NoFetch \in Fetches /\ NoRestore \in Restores  BY DEF Fetches, Restores
<1>2. CASE MirrorSame  BY <1>2 DEF MirrorSame
<1>3. CASE Advertise  BY <1>3 DEF Advertise, archiveVars, Fetches
<1>4. CASE ListLocal \/ ListFails
  <2>1. NoRefs \in Listings  BY DEF NoRefs, Listings
  <2>2. fetch.adv \in Values  BY <1>4, FetchFields DEF ListLocal, ListFails
  <2>3. PICK seen \in {local, NoRefs}, ok \in BOOLEAN :
           fetch' \in {NoFetch, [at |-> "listed", adv |-> fetch.adv, seen |-> seen, ok |-> ok]}
    BY <1>4 DEF ListLocal, ListFails
  <2>4. [at |-> "listed", adv |-> fetch.adv, seen |-> seen, ok |-> ok] \in Fetches
    BY <2>1, <2>2 DEF Fetches
  <2> QED  BY <1>1, <1>4, <2>3, <2>4 DEF ListLocal, ListFails, archiveVars
<1>5. CASE Download
  <2>1. Updates(fetch.seen, fetch.adv) \subseteq Refs  BY DEF Updates
  <2>2. fetch' \in Fetches
    BY <1>1, <1>5, <2>1, FetchFields DEF Download, Fetches
  <2> QED  BY <1>5, <2>2 DEF Download, archiveVars
<1>6. CASE FetchFails  BY <1>1, <1>6 DEF FetchFails, archiveVars
<1>7. CASE ArchiveFirst
  <2>1. fetch' = [fetch EXCEPT !.at = "archiving"] /\ fetch.at = "archive"
        /\ UNCHANGED <<local, head, restore, unsettled, moved>>
    BY <1>7 DEF ArchiveFirst, SnapBegin
  <2>2. fetch' \in Fetches  BY <2>1, FetchFields DEF Fetches, Busy
  <2> QED  BY <2>1, <2>2
<1>8. CASE ArchiveReturns
  <2>1. fetch' = [fetch EXCEPT !.at = "update", !.todo = @ \ HeldBack]
        /\ fetch.at = "archiving"
        /\ UNCHANGED <<local, head, restore, unsettled, moved>>
    BY <1>8 DEF ArchiveReturns, archiveVars
  <2>2. fetch' \in Fetches  BY <2>1, FetchFields DEF Fetches, Busy
  <2> QED  BY <2>1, <2>2
<1>9. ASSUME NEW r \in Refs, UpdateRef(r) PROVE Goal
  <2>1. fetch' \in Fetches  BY <1>9, FetchFields DEF UpdateRef, InTurn, Fetches, Busy
  <2>2. local' \in Listings
    BY <1>9, FetchFields DEF UpdateRef, InTurn, Swap, Listings, Values
  <2> QED  BY <1>9, <2>1, <2>2 DEF UpdateRef
<1>10. ASSUME NEW r \in Refs, UpdateFails(r) PROVE Goal
  <2>1. fetch' \in Fetches  BY <1>10, FetchFields DEF UpdateFails, InTurn, Fetches, Busy
  <2> QED  BY <1>10, <2>1 DEF UpdateFails, archiveVars
<1>11. CASE SetHead
  <2>1. head' \in Refs  BY <1>11 DEF SetHead, NewHead
  <2>2. unsettled' \in BOOLEAN  BY <1>11 DEF SetHead
  <2> QED  BY <1>1, <1>11, <2>1, <2>2 DEF SetHead, archiveVars
<1>12. CASE RestoreBegin
  <2>1. restore' \in Restores
    BY <1>12 DEF RestoreBegin, Restores, ArchiveTypeOK, File
  <2> QED  BY <1>12, <2>1 DEF RestoreBegin, archiveVars
<1>13. ASSUME NEW r \in Refs, RestoreRef(r) PROVE Goal
  <2>1. restore' \in Restores  BY <1>13, RestoreFields DEF RestoreRef, Restores
  <2>2. local' \in Listings
    BY <1>13, RestoreFields DEF RestoreRef, Swap, Listings, Values
  <2> QED  BY <1>13, <2>1, <2>2 DEF RestoreRef
<1>14. ASSUME NEW r \in Refs, RestoreFails(r) PROVE Goal
  <2>1. restore' \in Restores  BY <1>14, RestoreFields DEF RestoreFails, Restores
  <2> QED  BY <1>14, <2>1 DEF RestoreFails, archiveVars
<1>15. CASE RestoreHead  BY <1>1, <1>15 DEF RestoreHead, archiveVars
<1>16. CASE Crash
  <2>1. local' \in Listings  BY <1>16, CrashTears, TornRefs
  <2> QED  BY <1>1, <1>16, <2>1 DEF Crash
<1> QED  BY <1>2, <1>3, <1>4, <1>5, <1>6, <1>7, <1>8, <1>9, <1>10, <1>11, <1>12, <1>13, <1>14,
            <1>15, <1>16, Steps DEF MirrorStep

LEMMA TypeStep == ASSUME TypeOK, [Next]_vars PROVE TypeOK'
<1>1. ArchiveTypeOK'  BY ArchiveSteps, ArchiveTypeStep DEF TypeOK
<1> QED  BY <1>1, EventsType, MirrorTypeStep DEF TypeOK

-----------------------------------------------------------------------------
LEMMA WithinReach ==
    ASSUME NEW refs, NEW store
    PROVE  Within(refs, store) <=> Reach(ValuesOf(refs)) \subseteq store
<1>1. ASSUME Within(refs, store), NEW c \in Reach(ValuesOf(refs)) PROVE c \in store
  <2>1. PICK v \in ValuesOf(refs) : c \in Ancestry[v]  BY <1>1 DEF Reach
  <2>2. PICK r \in Refs : refs[r] = v /\ v \in Commits  BY DEF ValuesOf
  <2> QED  BY <1>1, <2>1, <2>2 DEF Within
<1>2. ASSUME Reach(ValuesOf(refs)) \subseteq store, NEW r \in Refs, refs[r] \in Commits
      PROVE  Ancestry[refs[r]] \subseteq store
  <2>1. refs[r] \in ValuesOf(refs)  BY <1>2 DEF ValuesOf
  <2>2. Ancestry[refs[r]] \subseteq Reach(ValuesOf(refs))  BY <2>1 DEF Reach
  <2> QED  BY <1>2, <2>2
<1> QED  BY <1>1, <1>2 DEF Within

LEMMA ObjectsStep ==
    ASSUME TypeOK, ObjectsExact, [Next]_vars
    PROVE  ObjectsExact'
<1> USE DEF ObjectsExact
<1>1. CASE MirrorSame  BY <1>1 DEF MirrorSame, Within
<1>2. CASE Advertise \/ FetchFails \/ SetHead \/ RestoreHead
  BY <1>2 DEF Advertise, FetchFails, SetHead, RestoreHead, archiveVars, Within, NoFetch,
     NoRestore
<1>3. CASE ListLocal \/ ListFails
  <2>1. Within(NoRefs, objects)  BY ArchiveAssumption DEF Within, NoRefs
  <2>2. UNCHANGED <<local, objects, restore>>
    BY <1>3 DEF ListLocal, ListFails, archiveVars
  <2>3. \/ fetch'.at = "idle"
        \/ fetch'.at = "listed" /\ fetch'.seen \in {local, NoRefs}
    BY <1>3 DEF ListLocal, ListFails, NoFetch
  <2> QED  BY <2>1, <2>2, <2>3 DEF Within
<1>4. CASE Download
  <2>1. PICK haves \in SUBSET ValuesOf(fetch.seen) :
           /\ objects' = objects \cup Missing(haves)
           /\ fetch'.at = "idle" \/ (fetch'.at \in {"archive", "update"} /\ fetch'.adv = fetch.adv)
    BY <1>4 DEF Download, NoFetch
  <2>2. Reach(ValuesOf(fetch.seen)) \subseteq objects
    <3>1. Within(fetch.seen, objects)  BY <1>4 DEF Download
    <3> QED  BY <3>1, WithinReach
  <2>3. Reach(haves) \subseteq Reach(ValuesOf(fetch.seen))  BY DEF Reach
  <2>4. Reach(ValuesOf(fetch.adv)) \subseteq objects \cup Missing(haves)
    BY <2>2, <2>3 DEF Missing
  <2>5. Within(fetch.adv, objects \cup Missing(haves))  BY <2>4, WithinReach
  <2>6. UNCHANGED <<local, restore>>  BY <1>4 DEF Download, archiveVars
  <2> QED  BY <2>1, <2>5, <2>6 DEF Within
<1>5. CASE ArchiveFirst \/ ArchiveReturns
  <2>1. /\ fetch.at \in {"archive", "archiving"} /\ fetch'.adv = fetch.adv
        /\ fetch'.at \in {"archiving", "update"}
    BY <1>5, FetchFields DEF ArchiveFirst, ArchiveReturns, Busy
  <2>2. UNCHANGED <<local, objects, restore>>
    BY <1>5 DEF ArchiveFirst, ArchiveReturns, SnapBegin, archiveVars
  <2> QED  BY <2>1, <2>2 DEF Within
<1>6. ASSUME NEW r \in Refs, UpdateRef(r) \/ UpdateFails(r) PROVE ObjectsExact'
  <2>1. /\ fetch.at = "update" /\ fetch'.at = "update" /\ fetch'.adv = fetch.adv
        /\ UNCHANGED <<objects, restore>>
    BY <1>6, FetchFields DEF UpdateRef, UpdateFails, InTurn, Busy
  <2>2. \A q \in Refs : local'[q] = local[q] \/ local'[q] = fetch.adv[q]
    BY <1>6 DEF UpdateRef, UpdateFails, archiveVars, Swap, TypeOK, Listings
  <2>3. Within(fetch.adv, objects) /\ Within(local, objects)  BY <2>1
  <2> QED  BY <2>1, <2>2, <2>3 DEF Within
<1>7. CASE RestoreBegin
  <2>1. PICK b \in bundles : /\ objects' = objects \cup Reach(ValuesOf(b.refs))
                             /\ restore'.refs = b.refs
    BY <1>7 DEF RestoreBegin
  <2>2. Within(b.refs, objects')  BY <2>1, WithinReach
  <2> QED  BY <1>7, <2>1, <2>2 DEF RestoreBegin, archiveVars, Within
<1>8. ASSUME NEW r \in Refs, RestoreRef(r) \/ RestoreFails(r) PROVE ObjectsExact'
  <2>1. /\ restore.at = "refs" /\ restore'.refs = restore.refs
        /\ UNCHANGED <<objects, fetch>>
    BY <1>8, RestoreFields DEF RestoreRef, RestoreFails
  <2>2. \A q \in Refs : local'[q] = local[q] \/ local'[q] = restore.refs[q]
    BY <1>8 DEF RestoreRef, RestoreFails, archiveVars, Swap, TypeOK, Listings
  <2>3. Within(restore.refs, objects) /\ Within(local, objects)  BY <2>1
  <2> QED  BY <2>1, <2>2, <2>3 DEF Within
<1>9. CASE Crash
  <2>1. ASSUME NEW r \in Refs, NEW old, NEW new \in Commits \cup {Nil},
               new \in Commits => Ancestry[new] \subseteq objects, local' \in Torn(r, old, new)
        PROVE  Within(local', objects)
    <3>1. \A q \in Refs : local'[q] \in {local[q], Garbled, Nil, new}
      BY <2>1, TornRefs DEF TypeOK
    <3>2. Garbled \notin Commits /\ Nil \notin Commits
      BY ArchiveAssumption, MirrorAssumption
    <3> QED  BY <2>1, <3>1, <3>2 DEF Within
  <2>2. Within(local', objects)
    <3>1. CASE UNCHANGED local  BY <3>1
    <3>2. ASSUME NEW r \in Refs, fetch.at = "update",
                 fetch.adv[r] \in Commits \cup {Nil},
                 local' \in Torn(r, fetch.seen[r], fetch.adv[r])
          PROVE  Within(local', objects)
      BY <2>1, <3>2 DEF Within
    <3>3. ASSUME NEW r \in Refs, restore.at = "refs",
                 restore.refs[r] \in Commits \cup {Nil},
                 local' \in Torn(r, restore.seen[r], restore.refs[r])
          PROVE  Within(local', objects)
      BY <2>1, <3>3 DEF Within
    <3> QED  BY <1>9, <3>1, <3>2, <3>3, CrashTears
  <2>3. UNCHANGED objects /\ fetch' = NoFetch /\ restore' = NoRestore  BY <1>9 DEF Crash
  <2> QED  BY <2>2, <2>3 DEF Within, NoFetch, NoRestore
<1> QED  BY <1>1, <1>2, <1>3, <1>4, <1>5, <1>6, <1>7, <1>8, <1>9, Steps DEF MirrorStep

-----------------------------------------------------------------------------
(* What a step that writes no ref does to what is present and swept.       *)
LEMMA HeadSame ==
    ASSUME HeadExact, UNCHANGED <<local, head, restore, unsettled>>,
           fetch.at # "update" \/ fetch'.at = "update",
           \A r \in Refs : (Present(r)' => Present(r)) /\ (Swept(r)' => Swept(r))
    PROVE  HeadExact'
  BY DEF HeadExact, Resolves, ValuesOf

LEMMA HeadStep ==
    ASSUME TypeOK, HeadExact, [Next]_vars
    PROVE  HeadExact'
<1>1. CASE MirrorSame
  BY <1>1 DEF HeadExact, MirrorSame, Present, Swept, Resolves, ValuesOf
<1>2. CASE Advertise \/ FetchFails
  <2>1. /\ fetch.at # "update" /\ fetch'.at \in {"idle", "advertised"}
        /\ UNCHANGED <<local, head, restore, unsettled>>
    BY <1>2 DEF Advertise, FetchFails, NoFetch, archiveVars
  <2>2. \A r \in Refs : ~Present(r)' /\ ~Swept(r)'  BY <2>1 DEF Present, Swept
  <2> QED  BY <2>1, <2>2, HeadSame
<1>3. CASE ListLocal \/ ListFails
  <2>1. /\ fetch.at # "update" /\ UNCHANGED <<local, head, restore, unsettled>>
        /\ \/ fetch'.at = "idle"
           \/ fetch'.at = "listed" /\ fetch'.seen = local
           \/ fetch'.at = "listed" /\ fetch'.seen = NoRefs /\ fetch'.ok = FALSE
    BY <1>3 DEF ListLocal, ListFails, NoFetch, archiveVars
  <2>2. \A r \in Refs : Present(r)' => local[r] # Nil
    BY <2>1 DEF Present, NoRefs
  <2>3. \A r \in Refs : Swept(r)' => local[r] # Garbled
    BY <2>1 DEF Swept
  <2> QED  BY <2>1, <2>2, <2>3 DEF HeadExact, Resolves, ValuesOf
<1>4. CASE Download
  <2>1. fetch.at = "listed" /\ UNCHANGED <<local, head, restore, unsettled>>
    BY <1>4 DEF Download, archiveVars
  <2>2. \/ fetch'.at = "idle"
        \/ /\ fetch'.at \in {"archive", "update"} /\ fetch'.seen = fetch.seen
           /\ fetch'.adv = fetch.adv /\ fetch'.ok = fetch.ok
           /\ fetch'.todo = Updates(fetch.seen, fetch.adv)
    BY <1>4 DEF Download, NoFetch
  <2>3. \A r \in Refs : Present(r)' => Present(r)
    BY <2>1, <2>2 DEF Present, Updates
  <2>4. \A r \in Refs : Swept(r)' => Swept(r)
    BY <2>1, <2>2, MirrorAssumption DEF Swept, Updates
  <2> QED  BY <2>1, <2>3, <2>4, HeadSame
<1>5. CASE ArchiveFirst
  <2>1. /\ fetch.at = "archive" /\ UNCHANGED <<local, head, restore, unsettled>>
        /\ fetch'.at = "archiving" /\ fetch'.seen = fetch.seen /\ fetch'.adv = fetch.adv
        /\ fetch'.ok = fetch.ok /\ fetch'.todo = fetch.todo
    BY <1>5, FetchFields DEF ArchiveFirst, SnapBegin, Busy
  <2> QED  BY <2>1, HeadSame DEF Present, Swept
<1>6. CASE ArchiveReturns
  <2>1. /\ fetch.at = "archiving" /\ UNCHANGED <<local, head, restore, unsettled>>
        /\ fetch'.at = "update" /\ fetch'.seen = fetch.seen /\ fetch'.adv = fetch.adv
        /\ fetch'.ok = fetch.ok /\ fetch'.todo = fetch.todo \ HeldBack
    BY <1>6, FetchFields DEF ArchiveReturns, archiveVars, Busy
  <2>2. \A r \in HeldBack : fetch.seen[r] # Nil /\ fetch.seen[r] # Garbled
    BY ArchiveAssumption, MirrorAssumption DEF HeldBack, Destructive
  <2>3. \A r \in Refs : Present(r)' => Present(r)  BY <2>1, <2>2 DEF Present
  <2>4. \A r \in Refs : Swept(r)' => Swept(r)  BY <2>1, <2>2 DEF Swept
  <2> QED  BY <2>1, <2>3, <2>4, HeadSame
<1>7. ASSUME NEW r \in Refs, UpdateRef(r) PROVE HeadExact'
  <2>1. /\ fetch.at = "update" /\ r \in fetch.todo /\ UNCHANGED <<restore, unsettled>>
        /\ fetch'.at = "update" /\ fetch'.seen = fetch.seen /\ fetch'.adv = fetch.adv
        /\ fetch'.todo = fetch.todo \ {r} /\ fetch'.ok = (fetch.ok /\ ~Locked(r))
        /\ fetch.adv[r] # Garbled
    BY <1>7, FetchFields, MirrorAssumption DEF UpdateRef, InTurn, Busy, Values
  <2>2. /\ \A q \in Refs \ {r} : local'[q] = local[q]
        /\ ~Locked(r) =>
              local'[r] = IF local[r] = fetch.seen[r] THEN fetch.adv[r] ELSE local[r]
    BY <1>7 DEF UpdateRef, Swap, TypeOK, Listings
  <2>3. \A q \in Refs : Present(q) => local[q] # Nil  BY DEF HeadExact
  <2>4. \A q \in Refs : Swept(q) => local[q] # Garbled  BY DEF HeadExact
  <2>5. \A q \in Refs : Present(q)' => local'[q] # Nil
    BY <2>1, <2>2, <2>3 DEF Present
  <2>6. \A q \in Refs : Swept(q)' => local'[q] # Garbled
    BY <2>1, <2>2, <2>4 DEF Swept
  <2> QED  BY <2>1, <2>5, <2>6 DEF HeadExact
<1>8. ASSUME NEW r \in Refs, UpdateFails(r) PROVE HeadExact'
  <2>1. /\ fetch.at = "update" /\ UNCHANGED <<local, head, restore, unsettled>>
        /\ fetch'.at = "update" /\ fetch'.seen = fetch.seen
        /\ fetch'.todo = fetch.todo \ {r} /\ fetch'.ok = FALSE
    BY <1>8, FetchFields DEF UpdateFails, InTurn, Busy, archiveVars
  <2>2. \A q \in Refs : Present(q)' => Present(q)  BY <2>1 DEF Present
  <2>3. \A q \in Refs : ~Swept(q)'  BY <2>1 DEF Swept
  <2> QED  BY <2>1, <2>2, <2>3, HeadSame
<1>9. CASE SetHead
  <2>1. /\ fetch.at = "update" /\ fetch.todo = {} /\ UNCHANGED <<local, restore>>
        /\ fetch' = NoFetch
        /\ \/ unsettled' = TRUE
           \/ head' \in NewHead /\ unsettled' = (restore # NoRestore \/ ~fetch.ok)
    BY <1>9 DEF SetHead, archiveVars
  <2>2. \A r \in Refs : ~Present(r)' /\ ~Swept(r)'  BY <2>1 DEF Present, Swept, NoFetch
  <2>3. CASE unsettled' = TRUE  BY <2>1, <2>2, <2>3 DEF HeadExact
  <2>4. CASE head' \in NewHead /\ fetch.ok /\ restore = NoRestore
    <3>1. \A r \in Refs : local[r] # Garbled  BY <2>1, <2>4 DEF HeadExact, Swept
    <3>2. ASSUME ValuesOf(local) # {} PROVE local[head'] # Nil /\ head' \in Refs
      <4>1. PICK r \in Refs : local[r] # Nil
        BY <3>2, ArchiveAssumption DEF ValuesOf
      <4>2. CASE fetch.adv[MainRef] # Nil
        <5>1. head' \in Refs /\ fetch.adv[head'] # Nil  BY <2>4, <4>2 DEF NewHead
        <5> QED  BY <2>1, <2>4, <5>1 DEF HeadExact, Present
      <4>3. CASE fetch.adv[MainRef] = Nil
        BY <2>4, <4>1, <4>3 DEF NewHead, TypeOK
      <4> QED  BY <4>2, <4>3
    <3>3. Resolves'  BY <2>1, <3>1, <3>2 DEF Resolves, ValuesOf, TypeOK, Listings
    <3> QED  BY <2>1, <2>2, <2>4, <3>1, <3>3 DEF HeadExact, NoRestore
  <2> QED  BY <2>1, <2>2, <2>3, <2>4, FetchFields DEF HeadExact, Busy
<1>10. CASE RestoreBegin
  <2>1. /\ unsettled' = TRUE /\ UNCHANGED <<local, fetch>>
        /\ \A r \in restore'.todo : restore'.refs[r] # Nil
    BY <1>10 DEF RestoreBegin, archiveVars
  <2> QED  BY <2>1 DEF HeadExact, Present, Swept
<1>11. ASSUME NEW r \in Refs, RestoreRef(r) \/ RestoreFails(r) PROVE HeadExact'
  <2>1. /\ restore.at = "refs" /\ r \in restore.todo /\ UNCHANGED <<fetch, unsettled>>
        /\ restore'.refs = restore.refs /\ restore'.todo = restore.todo \ {r}
    BY <1>11, RestoreFields DEF RestoreRef, RestoreFails
  <2>2. unsettled'  BY <2>1 DEF HeadExact, NoRestore, TypeOK
  <2>3. \A q \in Refs : local'[q] = local[q] \/ (q = r /\ local'[q] = restore.refs[r])
    BY <1>11 DEF RestoreRef, RestoreFails, archiveVars, Swap, TypeOK, Listings
  <2>4. restore.refs[r] # Nil /\ restore.refs[r] # Garbled
    BY <2>1, RestoreFields, MirrorAssumption DEF HeadExact, Values
  <2> QED  BY <2>1, <2>2, <2>3, <2>4 DEF HeadExact, Present, Swept
<1>12. CASE RestoreHead
  <2>1. restore' = NoRestore /\ unsettled' = TRUE /\ UNCHANGED <<local, fetch>>
    BY <1>12 DEF RestoreHead, archiveVars
  <2> QED  BY <2>1 DEF HeadExact, Present, Swept, NoRestore
<1>13. CASE Crash
  <2>1. restore' = NoRestore /\ unsettled' = TRUE /\ fetch' = NoFetch  BY <1>13 DEF Crash
  <2> QED  BY <2>1 DEF HeadExact, Present, Swept, NoRestore, NoFetch
<1> QED  BY <1>1, <1>2, <1>3, <1>4, <1>5, <1>6, <1>7, <1>8, <1>9, <1>10, <1>11, <1>12, <1>13,
            Steps DEF MirrorStep

-----------------------------------------------------------------------------
LEMMA SinceStep ==
    ASSUME TypeOK, SinceListed, [Next]_vars
    PROVE  SinceListed'
<1> USE DEF SinceListed
<1>1. CASE MirrorSame  BY <1>1 DEF MirrorSame
<1>2. CASE Advertise \/ FetchFails \/ SetHead \/ Crash
  <2>1. fetch'.at \in {"idle", "advertised"}
    BY <1>2 DEF Advertise, FetchFails, SetHead, Crash, NoFetch
  <2> QED  BY <2>1
<1>3. CASE ListLocal \/ ListFails
  BY <1>3 DEF ListLocal, ListFails, NoFetch, NoRefs, archiveVars
<1>4. CASE Download
  <2>1. /\ fetch.at = "listed" /\ UNCHANGED <<local, moved>>
        /\ \/ fetch'.at = "idle"
           \/ /\ fetch'.at \in {"archive", "update"} /\ fetch'.seen = fetch.seen
              /\ fetch'.todo \subseteq Refs
    BY <1>4 DEF Download, NoFetch, archiveVars, Updates
  <2> QED  BY <2>1
<1>5. CASE ArchiveFirst
  <2>1. /\ fetch.at = "archive" /\ UNCHANGED <<local, moved>>
        /\ fetch'.at = "archiving" /\ fetch'.seen = fetch.seen
    BY <1>5, FetchFields DEF ArchiveFirst, SnapBegin, Busy
  <2> QED  BY <2>1
<1>6. CASE ArchiveReturns
  <2>1. /\ fetch.at = "archiving" /\ UNCHANGED <<local, moved>>
        /\ fetch'.at = "update" /\ fetch'.seen = fetch.seen /\ fetch'.todo \subseteq Refs
    BY <1>6, FetchFields DEF ArchiveReturns, archiveVars, Busy
  <2> QED  BY <2>1
<1>7. ASSUME NEW r \in Refs, UpdateRef(r) \/ UpdateFails(r) PROVE SinceListed'
  <2>1. /\ fetch.at = "update" /\ UNCHANGED moved /\ fetch.todo \subseteq Refs
        /\ fetch'.at = "update" /\ fetch'.seen = fetch.seen
        /\ fetch'.todo = fetch.todo \ {r}
    BY <1>7, FetchFields DEF UpdateRef, UpdateFails, InTurn, Busy
  <2>2. \A q \in Refs \ {r} : local'[q] = local[q]
    BY <1>7 DEF UpdateRef, UpdateFails, archiveVars, Swap, TypeOK, Listings
  <2> QED  BY <2>1, <2>2
<1>8. CASE RestoreBegin \/ RestoreHead
  BY <1>8 DEF RestoreBegin, RestoreHead, archiveVars
<1>9. ASSUME NEW r \in Refs, RestoreRef(r) \/ RestoreFails(r) PROVE SinceListed'
  <2>1. /\ UNCHANGED fetch /\ moved \subseteq moved'
        /\ \A q \in Refs \ moved' : local'[q] = local[q]
    BY <1>9 DEF RestoreRef, RestoreFails, archiveVars, Swap, TypeOK, Listings
  <2> QED  BY <2>1, FetchFields DEF Busy
<1> QED  BY <1>1, <1>2, <1>3, <1>4, <1>5, <1>6, <1>7, <1>8, <1>9, Steps DEF MirrorStep

-----------------------------------------------------------------------------
LEMMA SameDying ==
    ASSUME UNCHANGED <<fetch, moved>>
    PROVE  Dying' = Dying /\ \A refs : Keeps(refs)' <=> Keeps(refs)
  BY DEF Dying, Keeps

(* Writers for different reasons do not touch each other's files.          *)
LEMMA OwnIds ==
    ASSUME Tidy, NEW p \in Writers \ {Sync},
           snap[p].at \notin {"none", "failed"}, snap[Sync].at \notin {"none", "failed"}
    PROVE  snap[p].id # snap[Sync].id
  BY MirrorAssumption DEF Tidy

LEMMA SnapshotBesideStep ==
    ASSUME TypeOK, Tidy, ListExact, SinceListed, SnapshotExact, MirrorSame, BesideStep
    PROVE  SnapshotExact'
<1> DEFINE S == snap[Sync]
           Bound == fetch.at \in {"archiving", "update"}
           Due == fetch.at = "update"
                  /\ fetch.todo \cap Destructive(fetch.seen, fetch.adv) # {}
<1> USE MirrorAssumption
<1>1. UNCHANGED <<local, fetch, moved>>  BY DEF MirrorSame
<1>2. \A refs : Keeps(refs)' <=> Keeps(refs)  BY <1>1, SameDying
<1>3. ArchiveTypeOK  BY DEF TypeOK
<1>4. ASSUME snap'[Sync] = snap[Sync],
             \A t \in tmps' : t.id = S.id => t \in tmps \/ S.at \notin {"created"} \cup Taken,
             \A b \in bundles' : b.id = S.id => b \in bundles \/ S.at \notin Taken,
             S.at \in Placed => Intact(S.id)' \/ ~Intact(S.id) \/ Sync \in lost',
             Sync \in lost => Sync \in lost' \/ S.at \notin Placed
      PROVE  SnapshotExact'
  <2>1. Due' <=> Due  BY <1>1 DEF Destructive
  <2>2. Bound /\ S.at = "created" => \A t \in tmps' : t.id = S.id => t.by = {Sync}
    BY <1>4 DEF SnapshotExact
  <2>3. Bound /\ S.at \in Taken => \A t \in tmps' : t.id = S.id => Keeps(t.refs)
    BY <1>4 DEF SnapshotExact
  <2>4. Bound /\ S.at \in Taken \ {"written"} =>
           \A b \in bundles' : b.id = S.id => Keeps(b.refs)
    BY <1>4 DEF SnapshotExact
  <2>5. S.at \in Placed => Intact(S.id)' \/ Sync \in lost'  BY <1>4 DEF SnapshotExact
  <2>6. S.at \in Placed => Intact(snap[Sync].id)' \/ Sync \in lost'
    BY <1>4, <2>5 DEF Intact, HasBundle
  <2>7. Due => S.at = "done"  BY DEF SnapshotExact
  <2> QED  BY <1>1, <1>2, <1>4, <2>1, <2>2, <2>3, <2>4, <2>6, <2>7 DEF SnapshotExact
<1>5. ASSUME NEW p \in Writers, p # Sync, SnapBegin(p) PROVE SnapshotExact'
  <2>1. /\ snap'[Sync] = snap[Sync] /\ UNCHANGED <<tmps, bundles, sidecars>>
        /\ Sync \in lost => Sync \in lost'
    BY <1>3, <1>5, SnapBegun DEF SnapBegin, files
  <2> QED  BY <1>4, <2>1 DEF Intact, HasBundle
<1>6. ASSUME NEW p \in Writers, SnapCreate(p) PROVE SnapshotExact'
  <2>1. /\ snap[p].at = "named" /\ ~HasTmp(snap[p].id)
        /\ snap'[p].at = "created" /\ snap'[p].id = snap[p].id
        /\ \A w \in Writers \ {p} : snap'[w] = snap[w]
        /\ UNCHANGED <<bundles, sidecars, lost>>
    BY <1>3, <1>6, SnapMoves DEF SnapCreate, Running, history
  <2>2. \A t \in tmps' : t \in tmps \/ (t.id = snap[p].id /\ t.by = {p})
    BY <1>6 DEF SnapCreate
  <2>3. CASE p = Sync
    <3>1. \A t \in tmps' : t.id = snap[Sync].id => t.by = {Sync}
      BY <2>1, <2>2, <2>3 DEF HasTmp
    <3>2. ~Due  BY <2>1, <2>3 DEF SnapshotExact
    <3>3. ~Due'  BY <1>1, <3>2 DEF Destructive
    <3> QED  BY <1>1, <2>1, <2>3, <3>1, <3>3 DEF SnapshotExact, Taken, Placed, Running
  <2>4. CASE p # Sync
    <3>1. S.at \in {"created"} \cup Taken => S.id # snap[p].id
      BY <2>1, <2>4, OwnIds DEF Taken, Placed
    <3> QED  BY <1>4, <2>1, <2>2, <2>4, <3>1 DEF Intact, HasBundle
  <2> QED  BY <2>3, <2>4
<1>7. ASSUME NEW p \in Writers, SnapWrite(p) PROVE SnapshotExact'
  <2>1. /\ snap[p].at = "created"
        /\ snap'[p].at = "written" /\ snap'[p].id = snap[p].id
        /\ \A w \in Writers \ {p} : snap'[w] = snap[w]
        /\ UNCHANGED <<sidecars, lost>>
    BY <1>3, <1>7, SnapMoves DEF SnapWrite, Running, history
  <2>2. /\ tmps' = Finished(p, tmps) /\ bundles' = Finished(p, bundles)
        /\ tmps \subseteq File /\ bundles \subseteq File
    BY <1>3, <1>7 DEF SnapWrite, ArchiveTypeOK
  <2>3. Bound => Keeps(Valid)
    <3> SUFFICES ASSUME Bound, NEW r \in Dying PROVE Valid[r] = fetch.seen[r]
      BY DEF Keeps
    <3>1. r \in Refs \ moved /\ r \in fetch.todo /\ fetch.seen[r] \in Commits
      BY DEF Dying, Destructive
    <3>2. fetch.seen[r] # Nil  BY <3>1, ArchiveAssumption
    <3>3. local[r] = fetch.seen[r]  BY <3>1, <3>2 DEF SinceListed
    <3> QED  BY <3>1, <3>3 DEF Valid
  <2>4. CASE p = Sync
    <3>1. Bound => \A t \in tmps' : t.id = snap[Sync].id => Keeps(t.refs)
      <4> SUFFICES ASSUME Bound, NEW t \in tmps', t.id = snap[Sync].id
                   PROVE  Keeps(t.refs)
        OBVIOUS
      <4>1. \A g \in tmps : g.id = t.id => g.by = {Sync}
        BY <2>1, <2>4 DEF SnapshotExact
      <4>2. t.refs = Valid  BY <1>3, <2>2, <2>4, <4>1, Finishes
      <4> QED  BY <2>3, <4>2
    <3>2. ~Due  BY <2>1, <2>4 DEF SnapshotExact
    <3>3. ~Due'  BY <1>1, <3>2 DEF Destructive
    <3> QED  BY <1>1, <1>2, <2>1, <2>4, <3>1, <3>3 DEF SnapshotExact, Taken, Placed, Running
  <2>5. CASE p # Sync
    <3>1. S.at \in {"created"} \cup Taken => S.id # snap[p].id
      BY <2>1, <2>5, OwnIds DEF Taken, Placed
    <3>2. \A t \in tmps' : t \in tmps \/ t.id = snap[p].id  BY <1>3, <2>2, Finishes
    <3>3. \A b \in bundles' : b \in bundles \/ b.id = snap[p].id  BY <1>3, <2>2, Finishes
    <3>4. \A id : HasBundle(id)' <=> HasBundle(id)
      BY <1>3, <2>2, Finishes DEF HasBundle
    <3>5. Intact(S.id) => Intact(S.id)'
      <4> PICK own : own = S.id  OBVIOUS
      <4>1. Intact(own) => Intact(own)'  BY <2>1, <3>4 DEF Intact
      <4>2. Intact(S.id)' <=> Intact(own)'  BY <2>1, <2>5 DEF Intact, HasBundle
      <4> QED  BY <4>1, <4>2
    <3> QED  BY <1>4, <2>1, <2>5, <3>1, <3>2, <3>3, <3>5
  <2> QED  BY <2>4, <2>5
<1>8. ASSUME NEW p \in Writers, SnapRename(p) PROVE SnapshotExact'
  <2>1. /\ snap[p].at = "written"
        /\ snap'[p].at = "renamed" /\ snap'[p].id = snap[p].id
        /\ \A w \in Writers \ {p} : snap'[w] = snap[w]
        /\ UNCHANGED <<sidecars, lost>>
    BY <1>3, <1>8, SnapMoves DEF SnapRename, Running, history
  <2>2. PICK t \in tmps : /\ t.id = snap[p].id /\ tmps' = tmps \ {t}
                          /\ bundles' = {b \in bundles : b.id # t.id} \cup {t}
    BY <1>8 DEF SnapRename
  <2>3. CASE p = Sync
    <3>1. Bound => /\ \A u \in tmps' : u.id = snap[Sync].id => Keeps(u.refs)
                   /\ \A b \in bundles' : b.id = snap[Sync].id => Keeps(b.refs)
      BY <2>1, <2>2, <2>3 DEF SnapshotExact, Taken
    <3>2. ~Due  BY <2>1, <2>3 DEF SnapshotExact
    <3>3. ~Due'  BY <1>1, <3>2 DEF Destructive
    <3> QED  BY <1>1, <1>2, <2>1, <2>3, <3>1, <3>3 DEF SnapshotExact, Taken, Placed, Running
  <2>4. CASE p # Sync
    <3>1. S.at \in {"created"} \cup Taken => S.id # snap[p].id
      BY <2>1, <2>4, OwnIds DEF Taken, Placed
    <3>2. HasBundle(S.id) => \E b \in bundles' : b.id = S.id  BY <2>2 DEF HasBundle
    <3> QED  BY <1>4, <2>1, <2>2, <2>4, <3>1, <3>2 DEF Intact, HasBundle
  <2> QED  BY <2>3, <2>4
<1>9. ASSUME NEW p \in Writers, SnapSidecar(p) PROVE SnapshotExact'
  <2>1. /\ snap[p].at = "renamed" /\ (HasBundle(snap[p].id) \/ p \in lost)
        /\ snap'[p].at = "listed" /\ snap'[p].id = snap[p].id
        /\ \A w \in Writers \ {p} : snap'[w] = snap[w]
        /\ UNCHANGED <<tmps, bundles, lost>> /\ sidecars' = sidecars \cup {snap[p].id}
    BY <1>3, <1>9, SnapMoves DEF SnapSidecar, Running, ListExact
  <2>2. CASE p = Sync
    <3>1. ~Due  BY <2>1, <2>2 DEF SnapshotExact
    <3>2. ~Due'  BY <1>1, <3>1 DEF Destructive
    <3>3. Intact(snap[Sync].id)' \/ Sync \in lost'  BY <2>1, <2>2 DEF Intact, HasBundle
    <3>4. Bound => /\ \A u \in tmps' : u.id = snap[Sync].id => Keeps(u.refs)
                   /\ \A b \in bundles' : b.id = snap[Sync].id => Keeps(b.refs)
      BY <2>1, <2>2 DEF SnapshotExact, Taken
    <3> QED  BY <1>1, <1>2, <2>1, <2>2, <3>2, <3>3, <3>4 DEF SnapshotExact, Taken, Placed, Running
  <2>3. CASE p # Sync  BY <1>4, <2>1, <2>3 DEF Intact, HasBundle
  <2> QED  BY <2>2, <2>3
<1>10. ASSUME NEW p \in Writers, PruneByCount(p) \/ PruneBySize(p) \/ SnapReturns(p)
       PROVE  SnapshotExact'
  <2>1. /\ snap[p].at \in Placed \ {"done"} /\ snap'[p].at \in Placed
        /\ snap'[p].id = snap[p].id
        /\ \A w \in Writers \ {p} : snap'[w] = snap[w]
        /\ UNCHANGED <<tmps, bundles, sidecars, lost>>
    BY <1>3, <1>10, SnapMoves
    DEF PruneByCount, PruneBySize, SnapReturns, Placed, Running, files, history
  <2>2. CASE p = Sync
    <3>1. ~Due  BY <2>1, <2>2 DEF SnapshotExact
    <3>2. ~Due'  BY <1>1, <3>1 DEF Destructive
    <3>3. Intact(snap[Sync].id)' \/ Sync \in lost'
      BY <2>1, <2>2 DEF Intact, HasBundle, SnapshotExact
    <3>4. Bound => /\ \A u \in tmps' : u.id = snap[Sync].id => Keeps(u.refs)
                   /\ \A b \in bundles' : b.id = snap[Sync].id => Keeps(b.refs)
      BY <2>1, <2>2 DEF SnapshotExact, Taken, Placed, Running
    <3> QED  BY <1>1, <1>2, <2>1, <2>2, <3>2, <3>3, <3>4 DEF SnapshotExact, Placed, Running
  <2>3. CASE p # Sync  BY <1>4, <2>1, <2>3 DEF Intact, HasBundle
  <2> QED  BY <2>2, <2>3
<1>11. ASSUME NEW p \in Writers, SnapFails(p) PROVE SnapshotExact'
  <2>1. /\ snap[p].at # "done" /\ snap'[p].at = "failed" /\ tmps' \subseteq tmps
        /\ \A w \in Writers \ {p} : snap'[w] = snap[w]
        /\ UNCHANGED <<bundles, sidecars, lost>>
    BY <1>3, <1>11, SnapFailed DEF SnapFails, history
  <2>2. CASE p = Sync
    <3>1. ~Due  BY <2>1, <2>2 DEF SnapshotExact
    <3>2. ~Due'  BY <1>1, <3>1 DEF Destructive
    <3> QED  BY <2>1, <2>2, <3>2 DEF SnapshotExact, Taken, Placed, Running
  <2>3. CASE p # Sync  BY <1>4, <2>1, <2>3 DEF Intact, HasBundle
  <2> QED  BY <2>2, <2>3
<1>12. ASSUME NEW w \in Removers, NEW id \in Ids, Unlists(w, id) PROVE SnapshotExact'
  <2>1. /\ UNCHANGED <<snap, tmps, bundles>> /\ sidecars' = sidecars \ {id}
        /\ lost \subseteq lost'
        /\ S.at \in Placed /\ S.id = id => Sync \in lost'
    BY <1>12 DEF Unlists, RemoveSidecar, Lose, Placed
  <2> QED  BY <1>4, <2>1 DEF Intact, HasBundle
<1>13. ASSUME NEW w \in Removers, NEW id \in Ids, RemoveBundle(w, id) PROVE SnapshotExact'
  <2>1. /\ UNCHANGED <<snap, tmps, sidecars>> /\ bundles' = {b \in bundles : b.id # id}
        /\ lost \subseteq lost'
        /\ S.at \in Placed /\ S.id = id => Sync \in lost'
    BY <1>13 DEF RemoveBundle, Lose, Placed
  <2> QED  BY <1>4, <2>1 DEF Intact, HasBundle
<1>14. CASE Tick \/ StepBack \/ ArchiveSame
  <2>1. UNCHANGED <<snap, tmps, bundles, sidecars, lost>>
    BY <1>14 DEF Tick, StepBack, ArchiveSame, files, history
  <2> QED  BY <1>4, <2>1 DEF Intact, HasBundle
<1> QED  BY <1>5, <1>6, <1>7, <1>8, <1>9, <1>10, <1>11, <1>12, <1>13, <1>14
         DEF BesideStep, Moves, Removal

LEMMA SnapshotMirrorStep ==
    ASSUME TypeOK, SnapshotExact, ArchiveSame, MirrorStep
    PROVE  SnapshotExact'
<1>1. UNCHANGED <<snap, tmps, bundles, sidecars, lost>>  BY DEF ArchiveSame
<1>2. ASSUME fetch.at # "archiving", fetch'.at \notin {"archiving", "update"}
      PROVE  SnapshotExact'
  BY <1>1, <1>2 DEF SnapshotExact, Intact, HasBundle
<1>3. ASSUME Dying' = {}, fetch'.todo \cap Destructive(fetch'.seen, fetch'.adv) = {},
             snap[Sync].at \notin Running
      PROVE  SnapshotExact'
  BY <1>1, <1>3 DEF SnapshotExact, Keeps, Intact, HasBundle, Running
<1>4. ASSUME fetch.at \in {"archiving", "update"}, Dying' \subseteq Dying,
             fetch'.seen = fetch.seen,
             fetch'.at = fetch.at \/ snap[Sync].at \notin Running,
             fetch'.at = "update" /\ fetch'.todo \cap Destructive(fetch'.seen, fetch'.adv) # {}
                => snap[Sync].at = "done"
      PROVE  SnapshotExact'
  <2>1. \A refs : Keeps(refs) => Keeps(refs)'  BY <1>4 DEF Keeps
  <2> QED  BY <1>1, <1>4, <2>1 DEF SnapshotExact, Intact, HasBundle
<1>5. CASE Advertise \/ ListLocal \/ ListFails \/ FetchFails \/ SetHead
  BY <1>2, <1>5 DEF Advertise, ListLocal, ListFails, FetchFails, SetHead, NoFetch
<1>6. CASE Download
  <2>1. /\ fetch.at = "listed"
        /\ \/ fetch'.at \in {"idle", "archive"}
           \/ /\ fetch'.seen = fetch.seen /\ fetch'.adv = fetch.adv
              /\ Destructive(fetch.seen, fetch.adv) = {}
    BY <1>6 DEF Download, NoFetch
  <2>2. Dying' = (fetch'.todo \cap Destructive(fetch'.seen, fetch'.adv)) \ moved'
    BY DEF Dying, Destructive
  <2>3. snap[Sync].at \notin Running  BY <2>1 DEF SnapshotExact
  <2> QED  BY <1>2, <1>3, <2>1, <2>2, <2>3
<1>7. CASE ArchiveReturns
  <2>1. /\ fetch.at = "archiving" /\ UNCHANGED moved /\ Returned(Sync)
        /\ fetch'.seen = fetch.seen /\ fetch'.adv = fetch.adv
        /\ fetch'.todo = fetch.todo \ HeldBack
    BY <1>7, FetchFields DEF ArchiveReturns, Busy
  <2>2. /\ snap[Sync].at # "done" => HeldBack = Destructive(fetch.seen, fetch.adv)
        /\ snap[Sync].at \notin Running
    BY <2>1 DEF HeldBack, Returned, Running
  <2>3. CASE snap[Sync].at = "done"
    <3>1. Dying' \subseteq Dying  BY <2>1 DEF Dying, Destructive
    <3> QED  BY <1>4, <2>1, <2>2, <2>3, <3>1
  <2>4. CASE snap[Sync].at # "done"
    <3>1. fetch'.todo \cap Destructive(fetch'.seen, fetch'.adv) = {}  BY <2>1, <2>2, <2>4
    <3>2. Dying' = {}  BY <3>1 DEF Dying, Destructive
    <3> QED  BY <1>3, <2>2, <3>1, <3>2
  <2> QED  BY <2>3, <2>4
<1>8. ASSUME NEW r \in Refs, UpdateRef(r) \/ UpdateFails(r) PROVE SnapshotExact'
  <2>1. /\ fetch.at = "update" /\ fetch'.at = "update" /\ UNCHANGED moved
        /\ fetch'.seen = fetch.seen /\ fetch'.adv = fetch.adv
        /\ fetch'.todo = fetch.todo \ {r}
    BY <1>8, FetchFields DEF UpdateRef, UpdateFails, InTurn, Busy
  <2>2. Dying' \subseteq Dying  BY <2>1 DEF Dying, Destructive
  <2>3. Destructive(fetch'.seen, fetch'.adv) = Destructive(fetch.seen, fetch.adv)  BY <2>1
  <2>4. fetch'.todo \cap Destructive(fetch'.seen, fetch'.adv) # {} => snap[Sync].at = "done"
    BY <2>1, <2>3 DEF SnapshotExact
  <2> QED  BY <1>4, <2>1, <2>2, <2>4
<1>9. ASSUME UNCHANGED fetch, moved \subseteq moved' PROVE SnapshotExact'
  <2>1. Dying' \subseteq Dying  BY <1>9 DEF Dying
  <2>2. \A refs : Keeps(refs) => Keeps(refs)'  BY <1>9, <2>1 DEF Keeps
  <2>3. Destructive(fetch.seen, fetch.adv)' = Destructive(fetch.seen, fetch.adv)  BY <1>9
  <2> QED  BY <1>1, <1>9, <2>2, <2>3 DEF SnapshotExact, Intact, HasBundle
<1>10. ASSUME NEW r \in Refs, RestoreRef(r) \/ RestoreFails(r) PROVE SnapshotExact'
  BY <1>9, <1>10 DEF RestoreRef, RestoreFails
<1>11. CASE RestoreBegin \/ RestoreHead  BY <1>9, <1>11 DEF RestoreBegin, RestoreHead
<1> QED  BY <1>5, <1>6, <1>7, <1>8, <1>10, <1>11 DEF MirrorStep

LEMMA SnapshotStep ==
    ASSUME TypeOK, Tidy, ListExact, SinceListed, SnapshotExact, [Next]_vars
    PROVE  SnapshotExact'
<1>1. CASE ArchiveFirst
  <2>1. snap'[Sync].at = "named"
    BY <1>1, SnapBegun, MirrorAssumption DEF ArchiveFirst, TypeOK
  <2>2. fetch'.at = "archiving"  BY <1>1, FetchFields DEF ArchiveFirst, Busy
  <2> QED  BY <2>1, <2>2 DEF SnapshotExact, Taken, Placed
<1>2. CASE Crash
  <2>1. fetch'.at = "idle" /\ snap'[Sync].at = "failed"
    BY <1>2, MirrorAssumption DEF Crash, Halt, NoFetch
  <2> QED  BY <2>1 DEF SnapshotExact, Placed, Running
<1> QED  BY <1>1, <1>2, Steps, SnapshotBesideStep, SnapshotMirrorStep

-----------------------------------------------------------------------------
LEMMA InitInv == Init => IInv
<1> SUFFICES ASSUME Init PROVE IInv  OBVIOUS
<1> USE ArchiveAssumption, MirrorAssumption DEF Init, ArchiveInit
<1>1. \A p \in Writers : snap[p].at = "none"  BY DEF NoSnap
<1>2. snap \in [Writers -> Snaps]  BY DEF NoSnap, Snaps
<1>3. head \in Refs /\ local \in Listings /\ remote \in Values
  BY DEF Listings, Values, Branches
<1>4. TypeOK
  BY <1>2, <1>3, FS_EmptySet DEF TypeOK, ArchiveTypeOK, Fetches, Restores
<1>5. ObjectsExact  BY DEF ObjectsExact, Within, NoFetch, NoRestore
<1>6. Tidy  BY <1>1 DEF Tidy, Removers
<1>7. ListExact  BY <1>1 DEF ListExact, ListedHasBundle
<1>8. HeadExact  BY DEF HeadExact, Resolves, Present, Swept, ValuesOf, NoFetch, NoRestore
<1>9. SinceListed /\ SnapshotExact
  BY <1>1 DEF SinceListed, SnapshotExact, NoFetch, Running, Placed
<1>10. AgesGrow  BY DEF AgesGrow
<1>11. AloneExact  BY <1>1 DEF AloneExact, Active
<1> QED  BY <1>4, <1>5, <1>6, <1>7, <1>8, <1>9, <1>10, <1>11 DEF IInv

LEMMA NextInv == IInv /\ [Next]_vars => IInv'
<1> SUFFICES ASSUME IInv, [Next]_vars PROVE IInv'  OBVIOUS
<1>1. TypeOK /\ ArchiveTypeOK /\ ArchiveStep  BY ArchiveSteps DEF IInv, TypeOK
<1>2. TypeOK' /\ ObjectsExact' /\ HeadExact' /\ SinceListed' /\ SnapshotExact'
  BY TypeStep, ObjectsStep, HeadStep, SinceStep, SnapshotStep DEF IInv
<1>3. Tidy' /\ ListExact' /\ AgesGrow' /\ AloneExact'
  BY <1>1, TidyStep, ListStep, AgesStep, AloneStep DEF IInv
<1> QED  BY <1>2, <1>3 DEF IInv

(* The inductive invariant of a pull mirror with its archive.              *)
THEOREM Invariance == Spec => []IInv
  BY InitInv, NextInv, PTL DEF Spec

(* Every variable keeps its type.  In particular prune leaves a finite set *)
(* of files, ids are unused numbers (archive.go 95), and a ref is a commit *)
(* of the upstream, or the lock a crash has left (git/refs.go 245).        *)
THEOREM TypeCorrect == Spec => []TypeOK
<1>1. IInv => TypeOK  BY DEF IInv
<1> QED  BY <1>1, Invariance, PTL

(* A ref never names a commit whose history is not in the object store:    *)
(* the pack is stored before the refs are compared and swapped             *)
(* (git/fetch.go 455, 533), and so is that of a restored bundle            *)
(* (git/bundle.go 202, 222).                                               *)
THEOREM RefsStayComplete == Spec => []RefsComplete
<1>1. IInv => RefsComplete  BY WithinReach DEF IInv, ObjectsExact, RefsComplete
<1> QED  BY <1>1, Invariance, PTL

(* No order of snapshots, prunes, deletions and crashes, of any number of  *)
(* writers, lists an archive whose bundle is not there, but for the two    *)
(* the property names: a bundle removed before its own sidecar is written, *)
(* and a sidecar written between the two removals (archive.go 291, 399).   *)
THEOREM ListedKept == Spec => []ListedHasBundle
<1>1. IInv => ListedHasBundle  BY DEF IInv, ListExact
<1> QED  BY <1>1, Invariance, PTL

(* A sync that has run to its end, with every update it tried and HEAD     *)
(* written, leaves a HEAD that resolves, and nothing but a crash, a        *)
(* restore or a failure spoils that (git/fetch.go 533-556): the refs that  *)
(* HEAD may name are there until the update takes them away.               *)
THEOREM HeadKept == Spec => []HeadResolves
<1>1. IInv => HeadResolves  BY DEF IInv, HeadExact, Resolves, HeadResolves
<1> QED  BY <1>1, Invariance, PTL

(* A snapshot that was alone returns intact: its own prune finds it the    *)
(* youngest by its id and by its file time, whatever the limits.           *)
THEOREM SurvivesAlone == Spec => SnapshotSurvives
<1>1. IInv /\ [Next]_vars =>
        [\A p \in Writers \ disturbed :
           snap[p].at = "sizing" /\ snap'[p].at = "done" /\ MaxBytes > 0
           => Intact(snap[p].id)']_archiveVars
  <2> SUFFICES ASSUME IInv, [Next]_vars, NEW p \in Writers \ disturbed,
                      snap[p].at = "sizing", snap'[p].at = "done", MaxBytes > 0
               PROVE  Intact(snap[p].id)'
    OBVIOUS
  <2>1. ArchiveTypeOK  BY DEF IInv, TypeOK
  <2>2. SnapReturns(p)
    <3>1. ASSUME NEW q \in Writers, SnapBegin(q) PROVE FALSE
      BY <2>1, <3>1, SnapBegun
    <3>2. ASSUME NEW q \in Writers, Moves(q) PROVE SnapReturns(p)
      <4>1. CASE SnapFails(q)  BY <2>1, <4>1, SnapFailed DEF SnapFails
      <4>2. CASE ~SnapFails(q)
        BY <2>1, <3>2, <4>2, SnapMoves
        DEF Moves, SnapCreate, SnapWrite, SnapRename, SnapSidecar, PruneByCount, PruneBySize,
            SnapReturns, Running
      <4> QED  BY <4>1, <4>2
    <3>3. snap'[p] # snap[p]  OBVIOUS
    <3>4. ~Removal  BY <3>3 DEF Removal, Unlists, RemoveSidecar, RemoveBundle
    <3>5. ~Halt  BY DEF Halt
    <3> QED  BY <2>1, <3>1, <3>2, <3>3, <3>4, <3>5, ArchiveSteps
             DEF ArchiveStep, Tick, StepBack, ArchiveSame
  <2>3. Alone(p) /\ Held(p)  BY DEF IInv, AloneExact, Active, Held
  <2>4. snap'[p].id = snap[p].id  BY <2>1, <2>2, SnapMoves DEF SnapReturns, Running
  <2>5. UNCHANGED <<bundles, sidecars>>  BY <2>2 DEF SnapReturns, files
  <2> QED  BY <2>3, <2>4, <2>5 DEF Alone, Intact, HasBundle
<1> QED  BY <1>1, Invariance, PTL DEF Spec, SnapshotSurvives

(* A fetch that deletes a ref or drops commits from it finds the old value *)
(* in a listed archive: it was bundled after the refs were listed, and the *)
(* compare-and-swap lets the update pass only if the ref has not moved.    *)
THEOREM ArchivesFirst == Spec => DestroyedIsArchived
<1>1. IInv /\ [Next]_vars =>
        [\A r \in Refs \ moved :
          /\ fetch.at = "update" /\ fetch' # fetch
          /\ local[r] \in Commits /\ local'[r] # local[r]
          /\ local'[r] = Nil \/ ~FastForward(local[r], local'[r])
          => Archived(r, local[r]) \/ Sync \in lost]_vars
  <2> SUFFICES ASSUME IInv, [Next]_vars, NEW r \in Refs \ moved,
                      fetch.at = "update", fetch' # fetch,
                      local[r] \in Commits, local'[r] # local[r],
                      local'[r] = Nil \/ ~FastForward(local[r], local'[r])
               PROVE  Archived(r, local[r]) \/ Sync \in lost
    OBVIOUS
  <2>1. TypeOK /\ HeadExact /\ SinceListed /\ SnapshotExact /\ local[r] # Nil
    BY ArchiveAssumption DEF IInv
  <2>2. /\ r \in fetch.todo /\ local[r] = fetch.seen[r]
        /\ local'[r] = fetch.adv[r]
    <3>1. CASE \E q \in Refs : UpdateRef(q)
      BY <2>1, <3>1 DEF UpdateRef, InTurn, Swap, TypeOK, Listings
    <3>2. ASSUME NEW q \in Refs, fetch.adv[q] \in Commits \cup {Nil}, q \in fetch.todo,
                 local' \in Torn(q, fetch.seen[q], fetch.adv[q])
          PROVE  r \in fetch.todo /\ local[r] = fetch.seen[r] /\ local'[r] = fetch.adv[r]
      <4>1. q = r /\ local[q] = fetch.seen[q] /\ fetch.adv[q] = Nil /\ local'[q] = Nil
        BY <2>1, <3>2, TornRefs DEF TypeOK
      <4> QED  BY <3>2, <4>1
    <3>3. ASSUME NEW q \in Refs, restore.at = "refs", q \in restore.todo,
                 restore.refs[q] \in Commits \cup {Nil},
                 local' \in Torn(q, restore.seen[q], restore.refs[q])
          PROVE  FALSE
      <4>1. restore.refs[q] # Nil  BY <2>1, <3>3 DEF HeadExact
      <4> QED  BY <2>1, <3>3, <4>1, TornRefs DEF TypeOK
    <3>4. CASE Crash  BY <2>1, <3>2, <3>3, <3>4, CrashTears
    <3>5. CASE MirrorStep
      BY <3>1, <3>5 DEF MirrorStep, Advertise, ListLocal, ListFails, Download, FetchFails,
         ArchiveReturns, SetHead, UpdateFails, RestoreRef, RestoreFails, RestoreBegin,
         RestoreHead, archiveVars
    <3>6. ~MirrorSame /\ ~ArchiveFirst  BY DEF MirrorSame, ArchiveFirst
    <3> QED  BY <2>1, <3>4, <3>5, <3>6, Steps
  <2>3. r \in Dying /\ r \in fetch.todo \cap Destructive(fetch.seen, fetch.adv)
    BY <2>2 DEF Dying, Destructive
  <2>4. snap[Sync].at = "done"  BY <2>1, <2>3 DEF SnapshotExact
  <2>5. CASE Intact(snap[Sync].id)
    <3>1. PICK b \in bundles : b.id = snap[Sync].id  BY <2>5 DEF Intact, HasBundle
    <3>2. Keeps(b.refs)  BY <2>1, <2>4, <3>1 DEF SnapshotExact, Taken, Placed
    <3> QED  BY <2>2, <2>3, <2>5, <3>1, <3>2 DEF Keeps, Archived, Intact
  <2> QED  BY <2>1, <2>4, <2>5 DEF SnapshotExact, Placed
<1> QED  BY <1>1, Invariance, PTL DEF Spec, DestroyedIsArchived
=============================================================================
