---------------------------- MODULE Repositories ----------------------------
(***************************************************************************)
(* The repositories of manager.go and repository.go: directories with a    *)
(* metadata file and an optional deletion mark, the metadata in memory, and *)
(* three indexes over the names and aliases.  r.mu is held for a whole      *)
(* operation, so operations never interleave; the process can die between   *)
(* two of their file operations, each of which can fail, and starts again   *)
(* from what is on disk.                                                    *)
(***************************************************************************)
EXTENDS Naturals, FiniteSets

CONSTANTS
    Names,          \* repository names
    Refs,           \* names and aliases, as they are written
    Fold,           \* Fold[ref]: the lower-case form, refFolded
    Found,          \* Found[n]: metadata of the directories of an earlier run
    MaxFailures,    \* bound: failing file operations
    MaxCrashes,     \* bound: crashes and restarts
    None            \* no metadata, no owner, no operation

Keys == {Fold[ref] : ref \in Refs}
Kinds == {"plain", "pull", "relay"}
Meta == [aliases : SUBSET Refs, kind : Kinds]
Creation == [name : Names, kind : Kinds, at : {"files", "metadata", "mirror"}]

Proper(n, m) ==
    /\ n \in m.aliases
    /\ \A r, s \in m.aliases : Fold[r] = Fold[s] => r = s

ASSUME RepositoriesAssumption ==
    /\ Names \subseteq Refs
    /\ Fold \in [Refs -> Refs]
    /\ \A n, m \in Names : Fold[n] = Fold[m] => n = m
    /\ Found \in [Names -> Meta \cup {None}]
    \* what an earlier run leaves: a repository answers to its own name, and
    \* to no ref in two spellings
    /\ \A n \in Names : Found[n] # None => Proper(n, Found[n])
    /\ None \notin Meta /\ None \notin Names /\ None \notin Creation
    /\ MaxFailures \in Nat /\ MaxCrashes \in Nat

VARIABLES
    dirs,       \* directories <name>.git
    described,  \* those with a description file
    meta,       \* meta[n]: pgit.json of n
    marked,     \* directories with a pgit.deleted file
    up,         \* the process runs
    mem,        \* mem[n]: the indexed Repository object, byName
    byAlias,    \* index for resolution, exact
    byFolded,   \* index for uniqueness, folded
    op,         \* the creation in progress
    promise,    \* history, promise[n]: what the clients were told n is
    unsure,     \* history: keys touched by a failed or cut-off operation
    failures,
    crashes

disk == <<dirs, described, meta, marked>>
memory == <<mem, byAlias, byFolded>>
history == <<promise, unsure>>
bounds == <<failures, crashes>>
vars == <<dirs, described, meta, marked, up, mem, byAlias, byFolded, op, promise,
          unsure, failures, crashes>>

Idle == up /\ op = None
Indexed == {n \in Names : mem[n] # None}

Init ==
    /\ dirs = {n \in Names : Found[n] # None}
    /\ described = dirs
    /\ meta = Found
    /\ marked = {}
    /\ up = FALSE
    /\ mem = [n \in Names |-> None]
    /\ byAlias = [ref \in Refs |-> None]
    /\ byFolded = [k \in Keys |-> None]
    /\ op = None
    /\ promise = Found
    /\ unsure = {}
    /\ failures = 0 /\ crashes = 0

-----------------------------------------------------------------------------
(* The refs of a repository are its aliases; loadRepo adds a missing name.  *)
Claims(m) == {Fold[ref] : ref \in m.aliases}

(* Mutant: the start scan does not look for the deletion mark.              *)
LoadedMarked(n) ==
    IF n \notin dirs \/ (meta[n] = None /\ n \notin described)
    THEN None
    ELSE IF meta[n] = None
         THEN [aliases |-> {n}, kind |-> "plain"]
         ELSE [meta[n] EXCEPT !.aliases = @ \cup {n}]

Loaded(n) ==
    IF n \notin dirs \/ n \in marked \/ (meta[n] = None /\ n \notin described)
    THEN None
    ELSE IF meta[n] = None
         THEN [aliases |-> {n}, kind |-> "plain"]
         ELSE [meta[n] EXCEPT !.aliases = @ \cup {n}]

Contested ==
    {n \in Names : /\ Loaded(n) # None
                   /\ \E m \in Names \ {n} :
                         /\ Loaded(m) # None
                         /\ Claims(Loaded(n)) \cap Claims(Loaded(m)) # {}}

(* What addRepository makes of a set of repositories without a common key.  *)
Owner(objects, ref) ==
    IF \E n \in Names : objects[n] # None /\ ref \in objects[n].aliases
    THEN CHOOSE n \in Names : objects[n] # None /\ ref \in objects[n].aliases
    ELSE None

KeyOwner(objects, k) ==
    IF \E n \in Names : objects[n] # None /\ k \in Claims(objects[n])
    THEN CHOOSE n \in Names : objects[n] # None /\ k \in Claims(objects[n])
    ELSE None

(* CheckRepositories: everything that is not marked is loaded, a directory  *)
(* without metadata migrated, and every repository with a contested ref     *)
(* left out of the indexes.                                                 *)
Start ==
    /\ ~up
    /\ up' = TRUE
    /\ LET served == [n \in Names |-> IF n \in Contested THEN None ELSE Loaded(n)]
       IN  /\ mem' = served
           /\ byAlias' = [ref \in Refs |-> Owner(served, ref)]
           /\ byFolded' = [k \in Keys |-> KeyOwner(served, k)]
    /\ meta' = [n \in Names |-> IF Loaded(n) # None /\ meta[n] = None
                                THEN Loaded(n) ELSE meta[n]]
    /\ unsure' = unsure \cup UNION {Claims(Loaded(n)) : n \in Contested}
    /\ UNCHANGED <<dirs, described, marked, op, promise, bounds>>

Crash ==
    /\ up
    /\ crashes < MaxCrashes
    /\ crashes' = crashes + 1
    /\ up' = FALSE
    /\ mem' = [n \in Names |-> None]
    /\ byAlias' = [ref \in Refs |-> None]
    /\ byFolded' = [k \in Keys |-> None]
    /\ op' = None
    /\ unsure' = IF op = None THEN unsure ELSE unsure \cup {Fold[op.name]}
    /\ UNCHANGED <<disk, promise, failures>>

-----------------------------------------------------------------------------
(* CreateRepository and CreateMirrorRepositoryWithBranch: the checks and    *)
(* the directory.                                                           *)
Available(n) == mem[n] = None /\ byFolded[Fold[n]] = None /\ n \notin dirs

MakeDir(n, kind) ==
    /\ Idle
    /\ Available(n)
    /\ dirs' = dirs \cup {n}
    /\ op' = [name |-> n, kind |-> kind, at |-> "files"]
    /\ UNCHANGED <<described, meta, marked, up, memory, history, bounds>>

(* addRepository and the answer to the client.                              *)
Serve(n, m) ==
    /\ mem' = [mem EXCEPT ![n] = m]
    /\ byAlias' = [ref \in Refs |-> IF ref \in m.aliases THEN n ELSE byAlias[ref]]
    /\ byFolded' = [k \in Keys |-> IF k \in Claims(m) THEN n ELSE byFolded[k]]
    /\ promise' = [promise EXCEPT ![n] = m]

WriteFiles ==
    /\ up /\ op # None /\ op.at = "files"
    /\ described' = described \cup {op.name}
    /\ op' = [op EXCEPT !.at = "metadata"]
    /\ UNCHANGED <<dirs, meta, marked, up, memory, history, bounds>>

(* InitBare saves the metadata of a plain repository; for a mirror it is    *)
(* saved a second time.                                                     *)
FirstSave ==
    /\ up /\ op # None /\ op.at = "metadata"
    /\ LET m == [aliases |-> {op.name}, kind |-> "plain"]
       IN  /\ meta' = [meta EXCEPT ![op.name] = m]
           /\ \/ /\ op.kind = "plain"
                 /\ Serve(op.name, m)
                 /\ op' = None
              \/ /\ op.kind # "plain"
                 /\ op' = [op EXCEPT !.at = "mirror"]
                 /\ UNCHANGED <<memory, promise>>
    /\ UNCHANGED <<dirs, described, marked, up, unsure, bounds>>

MirrorSave ==
    /\ up /\ op # None /\ op.at = "mirror"
    /\ LET m == [meta[op.name] EXCEPT !.kind = op.kind]
       IN  /\ meta' = [meta EXCEPT ![op.name] = m]
           /\ Serve(op.name, m)
    /\ op' = None
    /\ UNCHANGED <<dirs, described, marked, up, unsure, bounds>>

(* Mutant: the roll-back removes the metadata file only.                    *)
RollBackFiles(n) ==
    /\ UNCHANGED <<dirs, described>>
    /\ meta' = [meta EXCEPT ![n] = None]

(* InitBare removes what it has made; CreateMirrorRepositoryWithBranch does *)
(* not when the second save fails.                                          *)
RollBack(n) ==
    /\ dirs' = dirs \ {n}
    /\ described' = described \ {n}
    /\ meta' = [meta EXCEPT ![n] = None]

CreateFails ==
    /\ up /\ op # None
    /\ failures < MaxFailures
    /\ failures' = failures + 1
    /\ \/ /\ op.at \in {"files", "metadata"}
          /\ RollBack(op.name)
          /\ UNCHANGED unsure
       \/ /\ op.at = "mirror"
          /\ unsure' = unsure \cup {Fold[op.name]}
          /\ UNCHANGED <<dirs, described, meta>>
    /\ op' = None
    /\ UNCHANGED <<marked, up, memory, promise, crashes>>

-----------------------------------------------------------------------------
(* SaveMetadata after a change in memory: the file and the client's view    *)
(* follow, or the error leaves the change in memory only.                   *)
Save(n, m, touched) ==
    \/ /\ meta' = [meta EXCEPT ![n] = m]
       /\ promise' = [promise EXCEPT ![n] = m]
       /\ UNCHANGED <<unsure, failures>>
    \/ /\ failures < MaxFailures
       /\ failures' = failures + 1
       /\ unsure' = unsure \cup {Fold[n]} \cup touched
       /\ UNCHANGED <<meta, promise>>

(* Mutant: an alias is compared with the exact index.                       *)
AddAliasExact(n, ref) ==
    /\ Idle /\ n \in Indexed
    /\ ref \notin mem[n].aliases
    /\ byAlias[ref] = None
    /\ LET m == [mem[n] EXCEPT !.aliases = @ \cup {ref}]
       IN  mem' = [mem EXCEPT ![n] = m] /\ Save(n, m, {Fold[ref]})
    /\ byAlias' = [byAlias EXCEPT ![ref] = n]
    /\ byFolded' = [byFolded EXCEPT ![Fold[ref]] = n]
    /\ UNCHANGED <<dirs, described, marked, up, op, crashes>>

AddAlias(n, ref) ==
    /\ Idle /\ n \in Indexed
    /\ ref \notin mem[n].aliases
    /\ byFolded[Fold[ref]] = None
    /\ LET m == [mem[n] EXCEPT !.aliases = @ \cup {ref}]
       IN  mem' = [mem EXCEPT ![n] = m] /\ Save(n, m, {Fold[ref]})
    /\ byAlias' = [byAlias EXCEPT ![ref] = n]
    /\ byFolded' = [byFolded EXCEPT ![Fold[ref]] = n]
    /\ UNCHANGED <<dirs, described, marked, up, op, crashes>>

RemoveAlias(n, ref) ==
    /\ Idle /\ n \in Indexed
    /\ ref \in mem[n].aliases \ {n}
    /\ LET m == [mem[n] EXCEPT !.aliases = @ \ {ref}]
       IN  mem' = [mem EXCEPT ![n] = m] /\ Save(n, m, {Fold[ref]})
    /\ byAlias' = [byAlias EXCEPT ![ref] = IF @ = n THEN None ELSE @]
    /\ byFolded' = [byFolded EXCEPT ![Fold[ref]] = IF @ = n THEN None ELSE @]
    /\ UNCHANGED <<dirs, described, marked, up, op, crashes>>

(* UpdateRepositorySettings, UpdateMirrorRuntime and the last step of       *)
(* SyncRepository: the mirror's fields are replaced, then everything is     *)
(* saved.                                                                   *)
UpdateMirror(n, kind) ==
    /\ Idle /\ n \in Indexed
    /\ mem[n].kind # "plain" /\ kind # "plain"
    /\ LET m == [mem[n] EXCEPT !.kind = kind]
       IN  mem' = [mem EXCEPT ![n] = m] /\ Save(n, m, {})
    /\ UNCHANGED <<dirs, described, marked, up, byAlias, byFolded, op, crashes>>

(* Mutant: only the name leaves the index, the aliases stay.                *)
UnregisterName(n) ==
    /\ mem' = [mem EXCEPT ![n] = None]
    /\ byAlias' = [ref \in Refs |->
                     IF ref = n THEN None ELSE byAlias[ref]]
    /\ byFolded' = [k \in Keys |->
                      IF k \in Claims(mem[n]) /\ byFolded[k] = n
                      THEN None ELSE byFolded[k]]

(* unregisterRefLocked                                                      *)
Unregister(n) ==
    /\ mem' = [mem EXCEPT ![n] = None]
    /\ byAlias' = [ref \in Refs |->
                     IF ref \in mem[n].aliases /\ byAlias[ref] = n
                     THEN None ELSE byAlias[ref]]
    /\ byFolded' = [k \in Keys |->
                      IF k \in Claims(mem[n]) /\ byFolded[k] = n
                      THEN None ELSE byFolded[k]]

DeleteRepository(n) ==
    /\ Idle /\ n \in Indexed
    /\ marked' = marked \cup {n}
    /\ Unregister(n)
    /\ promise' = [promise EXCEPT ![n] = None]
    /\ UNCHANGED <<dirs, described, meta, up, op, unsure, bounds>>

(* Writing the mark fails: the repository is served on, although the file   *)
(* may exist by now.                                                        *)
DeleteFails(n) ==
    /\ Idle /\ n \in Indexed
    /\ failures < MaxFailures
    /\ failures' = failures + 1
    /\ marked' \in {marked, marked \cup {n}}
    /\ unsure' = unsure \cup {Fold[n]}
    /\ UNCHANGED <<dirs, described, meta, up, memory, op, promise, crashes>>

(* The administrator removes a mark: the next start loads the repository.   *)
RemoveMark(n) ==
    /\ n \in marked
    /\ marked' = marked \ {n}
    /\ unsure' = unsure \cup {Fold[n]} \cup Claims(meta[n])
    /\ UNCHANGED <<dirs, described, meta, up, memory, op, promise, bounds>>

Create == \E n \in Names, kind \in Kinds : MakeDir(n, kind)

Next ==
    \/ Start \/ Crash
    \/ Create \/ WriteFiles \/ FirstSave \/ MirrorSave \/ CreateFails
    \/ \E n \in Names :
          \/ DeleteRepository(n) \/ DeleteFails(n) \/ RemoveMark(n)
          \/ \E kind \in Kinds : UpdateMirror(n, kind)
          \/ \E ref \in Refs : AddAlias(n, ref) \/ RemoveAlias(n, ref)

Spec == Init /\ [][Next]_vars

-----------------------------------------------------------------------------
TypeOK ==
    /\ dirs \subseteq Names /\ described \subseteq dirs /\ marked \subseteq dirs
    /\ meta \in [Names -> Meta \cup {None}]
    /\ up \in BOOLEAN
    /\ mem \in [Names -> Meta \cup {None}]
    /\ byAlias \in [Refs -> Names \cup {None}]
    /\ byFolded \in [Keys -> Names \cup {None}]
    /\ op = None \/ op \in Creation
    /\ promise \in [Names -> Meta \cup {None}]
    /\ unsure \subseteq Keys
    /\ failures \in 0..MaxFailures /\ crashes \in 0..MaxCrashes

(* Resolve finds exactly the repositories in memory by exactly the refs     *)
(* their metadata holds: no ref of a deleted repository or a removed alias  *)
(* stays resolvable, none that was added is missing.                        *)
IndexExact ==
    \A ref \in Refs, n \in Names :
       byAlias[ref] = n <=> n \in Indexed /\ ref \in mem[n].aliases

(* The ref space is unique without regard to case (manager.go 78, 649): no  *)
(* two repositories that are served claim the same folded ref, however      *)
(* creations, alias changes, deletions and restarts follow each other.      *)
RefSpaceUnique ==
    \A n, m \in Indexed :
       n # m => Claims(mem[n]) \cap Claims(mem[m]) = {}

(* What a client was told is what is served, also after a restart: created  *)
(* repositories are there with their kind (a mirror never comes back as a   *)
(* plain repository that takes pushes) and aliases, nothing else is, and    *)
(* what was deleted stays away.  Not promised for keys a failed or cut-off  *)
(* operation has touched, nor for repositories they put into conflict.      *)
ServedAsPromised ==
    Idle => \A n \in Names :
       LET touched == \/ Fold[n] \in unsure
                      \/ promise[n] # None /\ Claims(promise[n]) \cap unsure # {}
       IN  touched \/ mem[n] = promise[n]

(* A rolled-back creation leaves nothing: a directory that no operation is  *)
(* working on has metadata, so that the next start does not skip it and its *)
(* name stays usable.                                                       *)
NoHalfDirectory ==
    \A n \in dirs : meta[n] = None => Fold[n] \in unsure \/ (op # None /\ op.name = n)
=============================================================================
