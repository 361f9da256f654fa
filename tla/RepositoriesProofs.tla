------------------------- MODULE RepositoriesProofs -------------------------
(***************************************************************************)
(* What holds of Repositories for any names, refs and metadata found on     *)
(* disk, any number of failing file operations and any number of crashes.   *)
(***************************************************************************)
EXTENDS Repositories, TLAPS

USE RepositoriesAssumption

-----------------------------------------------------------------------------
(* The inductive invariant.                                                 *)

(* Metadata on disk and in memory hold the name and no ref twice; what is   *)
(* in memory has a directory with metadata.                                 *)
MetaProper == \A n \in Names : meta[n] # None => Proper(n, meta[n])

MemProper ==
    \A n \in Names : mem[n] # None =>
       Proper(n, mem[n]) /\ meta[n] # None /\ n \in dirs /\ up

(* A repository that is served in spite of a mark had a failing deletion.   *)
MarksKnown ==
    \A n \in marked : meta[n] # None /\ (mem[n] # None => Fold[n] \in unsure)

(* The folded index holds exactly the keys of what is in memory.            *)
KeysExact ==
    \A k \in Keys, n \in Names :
       byFolded[k] = n <=> mem[n] # None /\ k \in Claims(mem[n])

Touched(n) ==
    \/ Fold[n] \in unsure
    \/ promise[n] # None /\ Claims(promise[n]) \cap unsure # {}

InProgress(n) == op # None /\ op.name = n

(* A repository being created is nobody's yet.                              *)
CreationApart ==
    op # None =>
      /\ up
      /\ mem[op.name] = None /\ byFolded[Fold[op.name]] = None
      /\ op.name \in dirs \ marked
      /\ op.at # "files" => op.name \in described
      /\ op.at = "mirror" => meta[op.name] = [aliases |-> {op.name}, kind |-> "plain"]
      /\ Touched(op.name) \/ promise[op.name] = None

(* The promise is kept on disk, where the next start finds it, and in       *)
(* memory.                                                                  *)
Kept(n) ==
    \/ InProgress(n)
    \/ Touched(n)
    \/ Loaded(n) = promise[n] /\ (up => mem[n] = promise[n])

PromiseKept == \A n \in Names : Kept(n)

IInv ==
    /\ TypeOK /\ MetaProper /\ MemProper /\ MarksKnown
    /\ IndexExact /\ KeysExact /\ CreationApart /\ PromiseKept
    /\ NoHalfDirectory

-----------------------------------------------------------------------------
(* What the start scan makes of a directory: nothing, or metadata that is   *)
(* proper; with proper metadata on disk, that metadata.                     *)
LEMMA LoadedProper ==
    ASSUME TypeOK, MetaProper, NEW n \in Names
    PROVE  /\ Loaded(n) \in Meta \cup {None}
           /\ Loaded(n) # None => Proper(n, Loaded(n)) /\ n \in dirs \ marked
           /\ meta[n] # None /\ Loaded(n) # None => Loaded(n) = meta[n]
<1>1. CASE n \notin dirs \/ n \in marked \/ (meta[n] = None /\ n \notin described)
  <2>1. Loaded(n) = None  BY <1>1 DEF Loaded
  <2> QED  BY <2>1
<1>2. CASE /\ n \in dirs \ marked /\ meta[n] = None /\ n \in described
  <2>1. Loaded(n) = [aliases |-> {n}, kind |-> "plain"]  BY <1>2 DEF Loaded
  <2>2. Loaded(n) \in Meta  BY <2>1 DEF Meta, Kinds
  <2>3. Proper(n, Loaded(n))  BY <2>1 DEF Proper
  <2> QED  BY <1>2, <2>2, <2>3
<1>3. CASE n \in dirs \ marked /\ meta[n] # None
  <2>1. meta[n] \in Meta /\ Proper(n, meta[n])  BY <1>3 DEF TypeOK, MetaProper
  <2>2. Loaded(n) = [meta[n] EXCEPT !.aliases = @ \cup {n}]  BY <1>3 DEF Loaded
  <2>3. meta[n].aliases \cup {n} = meta[n].aliases  BY <2>1 DEF Proper
  <2>4. Loaded(n) = meta[n]  BY <2>1, <2>2, <2>3 DEF Meta
  <2> QED  BY <1>3, <2>1, <2>4
<1> QED  BY <1>1, <1>2, <1>3

(* Changing the metadata, directory and marks of other repositories changes *)
(* nothing of what the scan makes of one.                                   *)
LEMMA LoadedSame ==
    ASSUME NEW n \in Names,
           n \in dirs' <=> n \in dirs, n \in marked' <=> n \in marked,
           n \in described' <=> n \in described, meta'[n] = meta[n]
    PROVE  Loaded(n)' = Loaded(n)
BY DEF Loaded

(* What is written for a directory without a mark is what the scan finds.   *)
LEMMA LoadedWritten ==
    ASSUME NEW n \in Names, NEW m \in Meta, Proper(n, m),
           n \in dirs', n \notin marked', meta'[n] = m
    PROVE  Loaded(n)' = m
<1>1. meta'[n] # None  OBVIOUS
<1>2. Loaded(n)' = [m EXCEPT !.aliases = m.aliases \cup {n}]  BY <1>1 DEF Loaded
<1>3. m.aliases \cup {n} = m.aliases  BY DEF Proper
<1> QED  BY <1>2, <1>3 DEF Meta

(* A step that leaves a repository alone keeps its promise.                 *)
LEMMA KeptSame ==
    ASSUME NEW n \in Names, Kept(n), ~InProgress(n),
           Loaded(n)' = Loaded(n), mem'[n] = mem[n], promise'[n] = promise[n],
           up' = up, unsure \subseteq unsure'
    PROVE  Kept(n)'
BY DEF Kept, Touched

(* A folded key has one owner, so no two repositories in memory share one.  *)
LEMMA KeysApart ==
    ASSUME TypeOK, KeysExact
    PROVE  RefSpaceUnique
<1> SUFFICES ASSUME NEW n \in Indexed, NEW m \in Indexed, n # m,
                    NEW k \in Claims(mem[n]), k \in Claims(mem[m])
             PROVE  FALSE
  BY DEF RefSpaceUnique
<1>1. k \in Keys  BY DEF Claims, Keys, TypeOK, Meta, Indexed
<1>2. byFolded[k] = n  BY <1>1 DEF KeysExact, Indexed
<1>3. byFolded[k] = m  BY <1>1 DEF KeysExact, Indexed
<1> QED  BY <1>2, <1>3

(* addRepository of a repository whose name nobody claims.                  *)
LEMMA ServeIndexes ==
    ASSUME TypeOK, IndexExact, KeysExact, NEW n \in Names, NEW m \in Meta,
           m.aliases = {n}, mem[n] = None, byFolded[Fold[n]] = None, Serve(n, m)
    PROVE  /\ IndexExact' /\ KeysExact'
           /\ mem' \in [Names -> Meta \cup {None}]
           /\ byAlias' \in [Refs -> Names \cup {None}]
           /\ byFolded' \in [Keys -> Names \cup {None}]
           /\ promise' \in [Names -> Meta \cup {None}]
           /\ mem'[n] = m /\ promise'[n] = m
           /\ \A q \in Names \ {n} : mem'[q] = mem[q] /\ promise'[q] = promise[q]
<1>1. Claims(m) = {Fold[n]}  BY DEF Claims
<1>2. \A q \in Names : mem[q] # None => Fold[n] \notin Claims(mem[q])
  <2>1. Fold[n] \in Keys  BY DEF Keys
  <2> QED  BY <2>1 DEF KeysExact
<1>3. \A q \in Names : mem[q] # None => n \notin mem[q].aliases
  BY <1>2 DEF Claims
<1>4. IndexExact'
  <2> SUFFICES ASSUME NEW ref \in Refs, NEW q \in Names
               PROVE  byAlias'[ref] = q <=> mem'[q] # None /\ ref \in mem'[q].aliases
    BY DEF IndexExact, Indexed
  <2>1. byAlias[ref] = q <=> mem[q] # None /\ ref \in mem[q].aliases
    BY DEF IndexExact, Indexed
  <2>2. mem'[q] = IF q = n THEN m ELSE mem[q]  BY DEF Serve, TypeOK
  <2>3. byAlias'[ref] = IF ref = n THEN n ELSE byAlias[ref]  BY DEF Serve
  <2>4. m # None  OBVIOUS
  <2>5. CASE q = n  BY <2>1, <2>2, <2>3, <2>4, <2>5
  <2>6. CASE q # n  BY <2>1, <2>2, <2>3, <2>6, <1>3
  <2> QED  BY <2>5, <2>6
<1>5. KeysExact'
  <2> SUFFICES ASSUME NEW k \in Keys, NEW q \in Names
               PROVE  byFolded'[k] = q <=> mem'[q] # None /\ k \in Claims(mem'[q])
    BY DEF KeysExact
  <2>1. byFolded[k] = q <=> mem[q] # None /\ k \in Claims(mem[q])
    BY DEF KeysExact
  <2>2. mem'[q] = IF q = n THEN m ELSE mem[q]  BY DEF Serve, TypeOK
  <2>3. byFolded'[k] = IF k = Fold[n] THEN n ELSE byFolded[k]  BY <1>1 DEF Serve
  <2>4. m # None  OBVIOUS
  <2>5. CASE q = n  BY <2>1, <2>2, <2>3, <2>4, <2>5, <1>1
  <2>6. CASE q # n  BY <2>1, <2>2, <2>3, <2>6, <1>2
  <2> QED  BY <2>5, <2>6
<1> QED  BY <1>4, <1>5 DEF Serve, TypeOK

-----------------------------------------------------------------------------
(* The initial states: what an earlier run has left, nothing running.       *)
LEMMA InitInv == Init => IInv
<1> SUFFICES ASSUME Init PROVE IInv  OBVIOUS
<1>1. TypeOK
  <2>1. dirs \subseteq Names /\ described \subseteq dirs /\ marked \subseteq dirs
    BY DEF Init
  <2>2. meta \in [Names -> Meta \cup {None}] /\ mem \in [Names -> Meta \cup {None}]
    BY DEF Init
  <2>3. byAlias \in [Refs -> Names \cup {None}] /\ byFolded \in [Keys -> Names \cup {None}]
    BY DEF Init
  <2>4. promise \in [Names -> Meta \cup {None}] /\ unsure \subseteq Keys
    BY DEF Init
  <2>5. failures \in 0..MaxFailures /\ crashes \in 0..MaxCrashes
    BY DEF Init
  <2> QED  BY <2>1, <2>2, <2>3, <2>4, <2>5 DEF Init, TypeOK
<1>2. MetaProper  BY DEF Init, MetaProper
<1>3. MemProper /\ MarksKnown /\ CreationApart
  BY DEF Init, MemProper, MarksKnown, CreationApart
<1>4. IndexExact /\ KeysExact
  <2>1. \A n \in Names : mem[n] = None /\ n # None  BY DEF Init
  <2> QED  BY <2>1 DEF Init, IndexExact, Indexed, KeysExact
<1>5. PromiseKept
  <2> SUFFICES ASSUME NEW n \in Names PROVE Loaded(n) = promise[n] /\ ~up
    BY DEF PromiseKept, Kept
  <2>1. CASE Found[n] = None  BY <2>1 DEF Init, Loaded
  <2>2. CASE Found[n] # None
    <3>1. n \in dirs \ marked /\ meta[n] # None  BY <2>2 DEF Init
    <3>2. Loaded(n) # None
      <4>1. Loaded(n) = [meta[n] EXCEPT !.aliases = @ \cup {n}]
        BY <3>1 DEF Loaded
      <4>2. meta[n] \in Meta  BY <3>1, <1>1 DEF TypeOK
      <4> QED  BY <4>1, <4>2 DEF Meta
    <3> QED  BY <3>1, <3>2, <1>1, <1>2, LoadedProper DEF Init
  <2> QED  BY <2>1, <2>2 DEF Init
<1>6. NoHalfDirectory  BY DEF Init, NoHalfDirectory
<1> QED  BY <1>1, <1>2, <1>3, <1>4, <1>5, <1>6 DEF IInv

-----------------------------------------------------------------------------
(* The start scan.  Repositories whose claims meet are left out, so every   *)
(* ref of what is loaded has one owner.                                     *)
LEMMA StartInv == IInv /\ Start => IInv'
<1> SUFFICES ASSUME IInv, Start PROVE IInv'  OBVIOUS
<1> USE DEF IInv
<1> DEFINE served == [n \in Names |-> IF n \in Contested THEN None ELSE Loaded(n)]
<1>1. /\ up' = TRUE /\ mem' = served
      /\ byAlias' = [ref \in Refs |-> Owner(served, ref)]
      /\ byFolded' = [k \in Keys |-> KeyOwner(served, k)]
      /\ op = None /\ op' = None
  BY DEF Start, CreationApart
<1>2. \A n \in Names : Loaded(n) \in Meta \cup {None}
  BY LoadedProper
<1>3. \A n \in Names : Loaded(n) # None => Proper(n, Loaded(n))
  BY LoadedProper
<1>4. \A n \in Names : Loaded(n) # None => n \in dirs \ marked
  BY LoadedProper
<1>5. \A n \in Names : meta[n] # None /\ Loaded(n) # None => Loaded(n) = meta[n]
  BY LoadedProper
<1>6. \A n \in Names : meta'[n] = IF Loaded(n) # None THEN Loaded(n) ELSE meta[n]
  BY <1>5 DEF Start, TypeOK
<1>7. \A n \in Names : Loaded(n)' = Loaded(n)
  <2> SUFFICES ASSUME NEW n \in Names PROVE Loaded(n)' = Loaded(n)  OBVIOUS
  <2>1. dirs' = dirs /\ marked' = marked /\ described' = described  BY DEF Start
  <2>2. CASE meta'[n] = meta[n]  BY <2>1, <2>2, LoadedSame
  <2>3. CASE meta'[n] # meta[n]
    <3>1. Loaded(n) # None /\ meta[n] = None /\ meta'[n] = Loaded(n)
      BY <2>3, <1>5, <1>6
    <3>2. Loaded(n) = [aliases |-> {n}, kind |-> "plain"]  BY <3>1 DEF Loaded
    <3>3. n \in dirs \ marked  BY <3>1, <1>4
    <3>4. Loaded(n)' = [meta'[n] EXCEPT !.aliases = @ \cup {n}]
      BY <2>1, <3>1, <3>3 DEF Loaded
    <3>5. meta'[n].aliases \cup {n} = meta'[n].aliases  BY <3>1, <3>2
    <3>6. meta'[n] = [meta'[n] EXCEPT !.aliases = meta'[n].aliases]  BY <3>1, <3>2
    <3> QED  BY <3>1, <3>4, <3>5, <3>6
  <2> QED  BY <2>2, <2>3
<1>8. \A n, m \in Names : /\ served[n] # None => served[n] = Loaded(n)
                         /\ n # m /\ served[n] # None /\ served[m] # None
                              => Claims(served[n]) \cap Claims(served[m]) = {}
  BY DEF Contested
<1>9. TypeOK'
  <2>1. meta' \in [Names -> Meta \cup {None}]  BY <1>2 DEF Start, TypeOK
  <2>2. mem' \in [Names -> Meta \cup {None}]  BY <1>1, <1>2
  <2>3. byAlias' \in [Refs -> Names \cup {None}]  BY <1>1 DEF Owner
  <2>4. byFolded' \in [Keys -> Names \cup {None}]  BY <1>1 DEF KeyOwner
  <2>5. unsure' \subseteq Keys
    <3>1. \A n \in Contested : Claims(Loaded(n)) \subseteq Keys
      BY <1>2 DEF Contested, Claims, Keys, Meta
    <3> QED  BY <3>1 DEF Start, TypeOK
  <2> QED  BY <1>1, <2>1, <2>2, <2>3, <2>4, <2>5 DEF Start, TypeOK, bounds
<1>10. MetaProper'  BY <1>3, <1>6 DEF MetaProper
<1>11. MemProper'
  <2> SUFFICES ASSUME NEW n \in Names, mem'[n] # None
               PROVE  (Proper(n, mem[n]) /\ meta[n] # None /\ n \in dirs /\ up)'
    BY DEF MemProper
  <2>1. mem'[n] = Loaded(n)  BY <1>1, <1>8
  <2>2. Loaded(n) # None /\ meta'[n] = Loaded(n)  BY <2>1, <1>6
  <2> QED  BY <1>1, <1>3, <1>4, <2>1, <2>2 DEF Start
<1>12. MarksKnown'
  <2> SUFFICES ASSUME NEW n \in marked'
               PROVE  meta'[n] # None /\ mem'[n] = None
    BY DEF MarksKnown
  <2>1. n \in marked /\ n \in Names  BY DEF Start, TypeOK
  <2>2. Loaded(n) = None  BY <2>1, <1>4
  <2> QED  BY <1>1, <1>6, <2>1, <2>2 DEF MarksKnown
<1>13. IndexExact'
  <2> SUFFICES ASSUME NEW ref \in Refs, NEW n \in Names
               PROVE  Owner(served, ref) = n <=> served[n] # None /\ ref \in served[n].aliases
    BY <1>1 DEF IndexExact, Indexed
  <2> DEFINE Owns(q) == served[q] # None /\ ref \in served[q].aliases
  <2>1. \A p, q \in Names : Owns(p) /\ Owns(q) => p = q
    BY <1>8 DEF Claims
  <2>2. CASE \E q \in Names : Owns(q)
    <3>1. Owner(served, ref) = CHOOSE q \in Names : Owns(q)  BY <2>2 DEF Owner
    <3> HIDE DEF Owns
    <3>2. Owns(CHOOSE q \in Names : Owns(q)) /\ (CHOOSE q \in Names : Owns(q)) \in Names
      BY <2>2
    <3>3. Owner(served, ref) = n <=> Owns(n)  BY <2>1, <3>1, <3>2
    <3> QED  BY <3>3 DEF Owns
  <2>3. CASE ~ \E q \in Names : Owns(q)  BY <2>3 DEF Owner
  <2> QED  BY <2>2, <2>3
<1>14. KeysExact'
  <2> SUFFICES ASSUME NEW k \in Keys, NEW n \in Names
               PROVE  KeyOwner(served, k) = n <=> served[n] # None /\ k \in Claims(served[n])
    BY <1>1 DEF KeysExact
  <2> DEFINE Owns(q) == served[q] # None /\ k \in Claims(served[q])
  <2>1. \A p, q \in Names : Owns(p) /\ Owns(q) => p = q  BY <1>8
  <2>2. CASE \E q \in Names : Owns(q)
    <3>1. KeyOwner(served, k) = CHOOSE q \in Names : Owns(q)  BY <2>2 DEF KeyOwner
    <3> HIDE DEF Owns
    <3>2. Owns(CHOOSE q \in Names : Owns(q)) /\ (CHOOSE q \in Names : Owns(q)) \in Names
      BY <2>2
    <3>3. KeyOwner(served, k) = n <=> Owns(n)  BY <2>1, <3>1, <3>2
    <3> QED  BY <3>3 DEF Owns
  <2>3. CASE ~ \E q \in Names : Owns(q)  BY <2>3 DEF KeyOwner
  <2> QED  BY <2>2, <2>3
<1>15. PromiseKept'
  <2> SUFFICES ASSUME NEW n \in Names, ~Touched(n)'
               PROVE  Loaded(n)' = promise'[n] /\ mem'[n] = promise'[n]
    BY DEF PromiseKept, Kept
  <2>1. promise' = promise /\ unsure \subseteq unsure'  BY DEF Start
  <2>2. ~Touched(n)  BY <2>1 DEF Touched
  <2>3. Loaded(n) = promise[n]  BY <1>1, <2>2 DEF PromiseKept, Kept, InProgress
  <2>4. n \notin Contested
    <3> SUFFICES ASSUME n \in Contested PROVE FALSE  OBVIOUS
    <3>1. Loaded(n) # None  BY DEF Contested
    <3>2. Fold[n] \in Claims(Loaded(n))  BY <3>1, <1>3 DEF Proper, Claims
    <3>3. Fold[n] \in unsure'  BY <3>2 DEF Start
    <3> QED  BY <3>3 DEF Touched
  <2> QED  BY <1>1, <1>7, <2>1, <2>3, <2>4
<1>16. NoHalfDirectory'
  <2>1. dirs' = dirs /\ unsure \subseteq unsure'  BY DEF Start
  <2>2. \A n \in dirs : n \in Names  BY DEF TypeOK
  <2> QED  BY <1>1, <1>6, <2>1, <2>2 DEF NoHalfDirectory
<1>17. CreationApart'  BY <1>1 DEF CreationApart
<1> QED
  BY <1>9, <1>10, <1>11, <1>12, <1>13, <1>14, <1>15, <1>16, <1>17

LEMMA CrashInv == IInv /\ Crash => IInv'
<1> SUFFICES ASSUME IInv, Crash PROVE IInv'  OBVIOUS
<1> USE DEF IInv
<1>1. /\ dirs' = dirs /\ described' = described /\ meta' = meta /\ marked' = marked
      /\ promise' = promise /\ failures' = failures /\ up' = FALSE /\ op' = None
      /\ unsure \subseteq unsure' /\ crashes' \in 0..MaxCrashes
      /\ \A n \in Names : mem'[n] = None
      /\ \A ref \in Refs : byAlias'[ref] = None
      /\ \A k \in Keys : byFolded'[k] = None
  BY DEF Crash, disk, TypeOK
<1>2. op # None => op.name \in Names /\ Fold[op.name] \in unsure'
  BY DEF Crash, TypeOK, Creation
<1>3. TypeOK'
  <2>1. unsure' \subseteq Keys  BY <1>2 DEF Crash, TypeOK, Keys
  <2>2. /\ mem' \in [Names -> Meta \cup {None}]
        /\ byAlias' \in [Refs -> Names \cup {None}]
        /\ byFolded' \in [Keys -> Names \cup {None}]
    BY DEF Crash
  <2> QED  BY <1>1, <2>1, <2>2 DEF TypeOK
<1>4. MetaProper' /\ MemProper' /\ MarksKnown' /\ CreationApart'
  <2>1. \A n \in marked : n \in Names  BY DEF TypeOK
  <2> QED  BY <1>1, <2>1 DEF MetaProper, MemProper, MarksKnown, CreationApart
<1>5. IndexExact' /\ KeysExact'
  <2>1. \A n \in Names : n # None  OBVIOUS
  <2> QED  BY <1>1, <2>1 DEF IndexExact, Indexed, KeysExact
<1>6. PromiseKept'
  <2> SUFFICES ASSUME NEW n \in Names, ~Touched(n)'
               PROVE  Loaded(n)' = promise'[n]
    BY <1>1 DEF PromiseKept, Kept
  <2>1. ~Touched(n) /\ ~InProgress(n)  BY <1>1, <1>2 DEF Touched, InProgress
  <2>2. Loaded(n)' = Loaded(n)  BY <1>1, LoadedSame
  <2> QED  BY <1>1, <2>1, <2>2 DEF PromiseKept, Kept
<1>7. NoHalfDirectory'  BY <1>1, <1>2 DEF NoHalfDirectory
<1> QED  BY <1>3, <1>4, <1>5, <1>6, <1>7

-----------------------------------------------------------------------------
(* Creating a repository: the steps leave everything but the new directory  *)
(* alone.                                                                   *)
LEMMA MakeDirInv == ASSUME NEW n \in Names, NEW kind \in Kinds
                    PROVE  IInv /\ MakeDir(n, kind) => IInv'
<1> SUFFICES ASSUME IInv, MakeDir(n, kind) PROVE IInv'  OBVIOUS
<1> USE DEF IInv
<1>1. /\ dirs' = dirs \cup {n} /\ described' = described /\ meta' = meta
      /\ marked' = marked /\ up /\ up' = up /\ mem' = mem /\ byAlias' = byAlias
      /\ byFolded' = byFolded /\ promise' = promise /\ unsure' = unsure
      /\ failures' = failures /\ crashes' = crashes
      /\ op' = [name |-> n, kind |-> kind, at |-> "files"] /\ op = None
  BY DEF MakeDir, Idle, memory, history, bounds
<1>2. n \notin dirs /\ mem[n] = None /\ byFolded[Fold[n]] = None
  BY DEF MakeDir, Available
<1>3. n \notin marked /\ n \notin described  BY <1>2 DEF TypeOK
<1>4. op' \in Creation /\ op' # None  BY <1>1 DEF Creation
<1>5. TypeOK'  BY <1>1, <1>4 DEF TypeOK
<1>6. MetaProper' /\ MemProper' /\ MarksKnown'
  BY <1>1 DEF MetaProper, MemProper, MarksKnown
<1>7. IndexExact' /\ KeysExact'  BY <1>1 DEF IndexExact, Indexed, KeysExact
<1>8. CreationApart'
  <2>1. Touched(n) \/ promise[n] = None
    <3>1. Loaded(n) = None  BY <1>2 DEF Loaded
    <3> QED  BY <1>1, <3>1 DEF PromiseKept, Kept, InProgress
  <2>2. Touched(n)' \/ promise'[n] = None  BY <1>1, <2>1 DEF Touched
  <2>3. op'.name = n /\ op'.at = "files"  BY <1>1
  <2> QED  BY <1>1, <1>2, <1>3, <2>2, <2>3 DEF CreationApart
<1>9. PromiseKept'
  <2> SUFFICES ASSUME NEW q \in Names PROVE Kept(q)'  BY DEF PromiseKept
  <2>1. CASE q = n  BY <1>1, <1>4, <2>1 DEF Kept, InProgress
  <2>2. CASE q # n
    <3>1. Loaded(q)' = Loaded(q)  BY <1>1, <2>2, LoadedSame
    <3>2. Kept(q) /\ ~InProgress(q)  BY <1>1 DEF PromiseKept, InProgress
    <3> QED  BY <1>1, <3>1, <3>2, KeptSame
  <2> QED  BY <2>1, <2>2
<1>10. NoHalfDirectory'
  <2>1. op'.name = n  BY <1>1
  <2> QED  BY <1>1, <1>4, <2>1 DEF NoHalfDirectory
<1> QED  BY <1>5, <1>6, <1>7, <1>8, <1>9, <1>10

(* Serving the new repository: its metadata is on disk, nobody else claims  *)
(* its name.                                                                *)
LEMMA ServeInv ==
    ASSUME IInv, NEW n \in Names, InProgress(n), NEW m \in Meta, m.aliases = {n},
           meta' = [meta EXCEPT ![n] = m], Serve(n, m), op' = None,
           UNCHANGED <<dirs, described, marked, up, unsure, failures, crashes>>
    PROVE  IInv'
<1> USE DEF IInv, InProgress
<1>1. /\ n \in Names /\ up /\ mem[n] = None /\ byFolded[Fold[n]] = None
      /\ n \in dirs \ marked
  BY DEF TypeOK, Creation, CreationApart
<1>2. Proper(n, m)  BY DEF Proper
<1>3. /\ IndexExact' /\ KeysExact'
      /\ mem' \in [Names -> Meta \cup {None}]
      /\ byAlias' \in [Refs -> Names \cup {None}]
      /\ byFolded' \in [Keys -> Names \cup {None}]
      /\ promise' \in [Names -> Meta \cup {None}]
      /\ mem'[n] = m /\ promise'[n] = m
      /\ \A q \in Names \ {n} : mem'[q] = mem[q] /\ promise'[q] = promise[q]
  BY <1>1, ServeIndexes
<1>4. meta'[n] = m /\ \A q \in Names \ {n} : meta'[q] = meta[q]
  BY <1>1 DEF TypeOK
<1>5. m # None  OBVIOUS
<1>6. TypeOK'
  <2>1. meta' \in [Names -> Meta \cup {None}]  BY DEF TypeOK
  <2> QED  BY <1>3, <2>1 DEF TypeOK
<1>7. MetaProper' /\ MemProper'
  BY <1>1, <1>2, <1>3, <1>4, <1>5 DEF MetaProper, MemProper
<1>8. MarksKnown'
  <2>1. \A q \in marked : q \in Names /\ q # n  BY <1>1 DEF TypeOK
  <2> QED  BY <1>3, <1>4, <2>1 DEF MarksKnown
<1>9. CreationApart'  BY DEF CreationApart
<1>10. PromiseKept'
  <2> SUFFICES ASSUME NEW q \in Names PROVE Kept(q)'  BY DEF PromiseKept
  <2>1. CASE q = n
    <3>1. Loaded(n)' = m  BY <1>1, <1>2, <1>4, LoadedWritten
    <3> QED  BY <1>3, <2>1, <3>1 DEF Kept
  <2>2. CASE q # n
    <3>1. Loaded(q)' = Loaded(q)  BY <1>4, <2>2, LoadedSame
    <3>2. Kept(q) /\ ~InProgress(q)  BY <2>2 DEF PromiseKept, InProgress
    <3> QED  BY <1>3, <2>2, <3>1, <3>2, KeptSame
  <2> QED  BY <2>1, <2>2
<1>11. NoHalfDirectory'
  <2>1. \A q \in dirs : q \in Names  BY DEF TypeOK
  <2> QED  BY <1>4, <1>5, <2>1 DEF NoHalfDirectory
<1> QED  BY <1>3, <1>6, <1>7, <1>8, <1>9, <1>10, <1>11

(* Writing the files, and the first save of a mirror.                       *)
LEMMA CreationStepInv ==
    ASSUME IInv, NEW n \in Names, InProgress(n), op' \in Creation, op'.name = n,
           UNCHANGED <<dirs, marked, up, memory, history, bounds>>,
           \/ described' = described \cup {n} /\ meta' = meta /\ op'.at = "metadata"
           \/ /\ described' = described /\ op.at # "files" /\ op'.at = "mirror"
              /\ meta' = [meta EXCEPT ![n] = [aliases |-> {n}, kind |-> "plain"]]
    PROVE  IInv'
<1> USE DEF IInv, memory, history, bounds, InProgress
<1> DEFINE m == [aliases |-> {n}, kind |-> "plain"]
<1>1. /\ n \in Names /\ up /\ mem[n] = None /\ byFolded[Fold[n]] = None
      /\ n \in dirs \ marked /\ (op.at # "files" => n \in described)
      /\ Touched(n) \/ promise[n] = None
  BY DEF TypeOK, Creation, CreationApart
<1>2. m \in Meta /\ Proper(n, m) /\ m # None
  <2>1. m \in Meta  BY <1>1 DEF Meta, Kinds
  <2>2. Proper(n, m)  BY DEF Proper
  <2> QED  BY <2>1, <2>2
<1>3. op' # None  OBVIOUS
<1>4. \/ meta' = meta /\ op'.at # "mirror"
      \/ meta' = [meta EXCEPT ![n] = m] /\ op'.at = "mirror"
  OBVIOUS
<1>5. \A q \in Names \ {n} : meta'[q] = meta[q]  BY <1>4 DEF TypeOK
<1>6. meta'[n] = m \/ meta'[n] = meta[n]  BY <1>1, <1>4 DEF TypeOK
<1>7. op'.at = "mirror" => meta'[n] = m  BY <1>1, <1>4 DEF TypeOK
<1>8. n \in described' /\ described' \subseteq described \cup {n} /\ described \subseteq described'
  BY <1>1
<1> HIDE DEF m
<1>9. TypeOK'
  <2>1. meta' \in [Names -> Meta \cup {None}]  BY <1>2, <1>4 DEF TypeOK
  <2> QED  BY <1>1, <1>8, <2>1 DEF TypeOK
<1>10. MetaProper' /\ MemProper'
  BY <1>1, <1>2, <1>5, <1>6 DEF MetaProper, MemProper
<1>11. MarksKnown'
  <2>1. \A q \in marked : q \in Names /\ q # n  BY <1>1 DEF TypeOK
  <2> QED  BY <1>5, <2>1 DEF MarksKnown
<1>12. IndexExact' /\ KeysExact'  BY DEF IndexExact, Indexed, KeysExact
<1>13. CreationApart'
  <2>1. Touched(n)' \/ promise'[n] = None  BY <1>1 DEF Touched
  <2>2. op'.at = "mirror" => meta'[n] = [aliases |-> {n}, kind |-> "plain"]
    BY <1>7 DEF m
  <2> QED  BY <1>1, <1>8, <2>1, <2>2 DEF CreationApart
<1>14. PromiseKept'
  <2> SUFFICES ASSUME NEW q \in Names PROVE Kept(q)'  BY DEF PromiseKept
  <2>1. CASE q = n  BY <1>3, <2>1 DEF Kept, InProgress
  <2>2. CASE q # n
    <3>1. Loaded(q)' = Loaded(q)  BY <1>5, <1>8, <2>2, LoadedSame
    <3>2. Kept(q) /\ ~InProgress(q)  BY <2>2 DEF PromiseKept, InProgress
    <3> QED  BY <3>1, <3>2, KeptSame
  <2> QED  BY <2>1, <2>2
<1>15. NoHalfDirectory'
  <2>1. op'.name = n /\ \A q \in dirs : q \in Names  BY DEF TypeOK
  <2> QED  BY <1>3, <1>5, <2>1 DEF NoHalfDirectory
<1> QED  BY <1>9, <1>10, <1>11, <1>12, <1>13, <1>14, <1>15

LEMMA CreateInv == IInv /\ (WriteFiles \/ FirstSave \/ MirrorSave) => IInv'
<1> SUFFICES ASSUME IInv, WriteFiles \/ FirstSave \/ MirrorSave PROVE IInv'
  OBVIOUS
<1>1. op # None  BY DEF WriteFiles, FirstSave, MirrorSave
<1>2. op \in Creation  BY <1>1 DEF IInv, TypeOK
<1>3. PICK n \in Names : op.name = n  BY <1>2 DEF Creation
<1>4. InProgress(n)  BY <1>1, <1>3 DEF InProgress
<1>5. PICK kind \in Kinds : op.kind = kind  BY <1>2 DEF Creation
<1>6. CASE WriteFiles
  <2>1. op' \in Creation /\ op'.name = n /\ op'.at = "metadata"
    BY <1>2, <1>3, <1>6 DEF WriteFiles, Creation
  <2> QED  BY <1>3, <1>4, <1>6, <2>1, CreationStepInv DEF WriteFiles
<1>7. CASE FirstSave
  <2> DEFINE m == [aliases |-> {n}, kind |-> "plain"]
  <2>1. meta' = [meta EXCEPT ![n] = m]  BY <1>3, <1>7 DEF FirstSave
  <2>2. m \in Meta /\ m.aliases = {n}  BY DEF Meta, Kinds
  <2>3. CASE op' = None
    <3>1. Serve(n, m)
      <4>1. [op EXCEPT !.at = "mirror"] # None
        <5>1. [op EXCEPT !.at = "mirror"] \in Creation  BY <1>2 DEF Creation
        <5> QED  BY <5>1
      <4> QED  BY <1>3, <1>7, <2>3, <4>1 DEF FirstSave
    <3>2. UNCHANGED <<dirs, described, marked, up, unsure, failures, crashes>>
      BY <1>7 DEF FirstSave, bounds
    <3> HIDE DEF m
    <3> QED  BY <1>4, <2>1, <2>2, <2>3, <3>1, <3>2, ServeInv
  <2>4. CASE op' # None
    <3>1. op' = [op EXCEPT !.at = "mirror"] /\ UNCHANGED <<memory, promise>>
      BY <1>7, <2>4 DEF FirstSave
    <3>2. op' \in Creation /\ op'.name = n /\ op'.at = "mirror"
      BY <1>2, <1>3, <3>1 DEF Creation
    <3>3. op.at # "files"  BY <1>7 DEF FirstSave
    <3>4. UNCHANGED <<dirs, described, marked, up, memory, history, bounds>>
      BY <1>7, <3>1 DEF FirstSave, history
    <3> QED  BY <1>4, <2>1, <3>2, <3>3, <3>4, CreationStepInv
  <2> QED  BY <2>3, <2>4
<1>8. CASE MirrorSave
  <2> DEFINE m == [aliases |-> {n}, kind |-> kind]
  <2>1. meta[n] = [aliases |-> {n}, kind |-> "plain"]
    BY <1>1, <1>3, <1>8 DEF MirrorSave, IInv, CreationApart
  <2>2. [[aliases |-> {n}, kind |-> "plain"] EXCEPT !.kind = kind]
          = [aliases |-> {n}, kind |-> kind]
    OBVIOUS
  <2> DEFINE w == [meta[op.name] EXCEPT !.kind = op.kind]
  <2>3. meta' = [meta EXCEPT ![op.name] = w] /\ Serve(op.name, w)
    BY <1>8 DEF MirrorSave
  <2>4. w = m  BY <1>3, <1>5, <2>1, <2>2
  <2>5. m \in Meta /\ m.aliases = {n}  BY DEF Meta
  <2>6. /\ op' = None
        /\ UNCHANGED <<dirs, described, marked, up, unsure, failures, crashes>>
    BY <1>8 DEF MirrorSave, bounds
  <2> HIDE DEF m, w
  <2>7. meta' = [meta EXCEPT ![n] = m] /\ Serve(n, m)  BY <1>3, <2>3, <2>4
  <2> QED  BY <1>4, <2>5, <2>6, <2>7, ServeInv
<1> QED  BY <1>6, <1>7, <1>8

(* A failing creation: rolled back, or, for the second save of a mirror, a  *)
(* plain repository on disk that nobody was told about.                     *)
LEMMA CreateFailsInv == IInv /\ CreateFails => IInv'
<1> SUFFICES ASSUME IInv, CreateFails PROVE IInv'  OBVIOUS
<1> USE DEF IInv
<1>1. op # None /\ op \in Creation  BY DEF CreateFails, TypeOK
<1>2. PICK n \in Names : op.name = n  BY <1>1 DEF Creation
<1>3. /\ up /\ mem[n] = None /\ n \in dirs \ marked
      /\ (op.at = "mirror" => meta[n] = [aliases |-> {n}, kind |-> "plain"])
      /\ Touched(n) \/ promise[n] = None
  BY <1>1, <1>2 DEF CreationApart
<1>4. /\ op' = None /\ marked' = marked /\ up' = up /\ mem' = mem /\ byAlias' = byAlias
      /\ byFolded' = byFolded /\ promise' = promise /\ crashes' = crashes
      /\ failures' \in 0..MaxFailures /\ unsure \subseteq unsure'
      /\ unsure' \subseteq unsure \cup {Fold[n]}
  BY <1>2 DEF CreateFails, memory, TypeOK
<1>5. \A q \in Names \ {n} : ~InProgress(q)  BY <1>2 DEF InProgress
<1>6. \/ /\ dirs' = dirs \ {n} /\ described' = described \ {n}
         /\ meta' = [meta EXCEPT ![n] = None]
      \/ /\ dirs' = dirs /\ described' = described /\ meta' = meta
         /\ Fold[n] \in unsure' /\ op.at = "mirror"
  BY <1>2 DEF CreateFails, RollBack
<1>7. \A q \in Names \ {n} : /\ meta'[q] = meta[q] /\ (q \in dirs' <=> q \in dirs)
                            /\ (q \in described' <=> q \in described)
  BY <1>6 DEF TypeOK
<1>8. TypeOK'
  <2>1. n \notin marked /\ Fold[n] \in Keys  BY <1>3 DEF Keys
  <2> QED  BY <1>4, <1>6, <2>1 DEF TypeOK
<1>9. MetaProper'
  <2>1. meta'[n] = None \/ meta'[n] = meta[n]  BY <1>6 DEF TypeOK
  <2> QED  BY <1>7, <2>1 DEF MetaProper
<1>10. MemProper' /\ MarksKnown'
  <2>1. \A q \in marked : q \in Names /\ q # n  BY <1>3 DEF TypeOK
  <2> QED  BY <1>3, <1>4, <1>7, <2>1 DEF MemProper, MarksKnown
<1>11. IndexExact' /\ KeysExact' /\ CreationApart'
  BY <1>4 DEF IndexExact, Indexed, KeysExact, CreationApart
<1>12. PromiseKept'
  <2> SUFFICES ASSUME NEW q \in Names PROVE Kept(q)'  BY DEF PromiseKept
  <2>1. CASE q = n
    <3>1. CASE Fold[n] \in unsure'  BY <2>1, <3>1 DEF Kept, Touched
    <3>2. CASE n \notin dirs'
      <4>1. Loaded(n)' = None  BY <3>2 DEF Loaded
      <4>2. Touched(n)' \/ promise'[n] = None  BY <1>3, <1>4 DEF Touched
      <4> QED  BY <1>3, <1>4, <2>1, <4>1, <4>2 DEF Kept
    <3> QED  BY <1>6, <3>1, <3>2
  <2>2. CASE q # n
    <3>1. Loaded(q)' = Loaded(q)  BY <1>4, <1>7, <2>2, LoadedSame
    <3>2. Kept(q) /\ ~InProgress(q)  BY <1>5, <2>2 DEF PromiseKept
    <3> QED  BY <1>4, <3>1, <3>2, KeptSame
  <2> QED  BY <2>1, <2>2
<1>13. NoHalfDirectory'
  <2> SUFFICES ASSUME NEW q \in dirs', meta'[q] = None PROVE Fold[q] \in unsure'
    BY DEF NoHalfDirectory
  <2>1. q \in Names  BY <1>8 DEF TypeOK
  <2>2. CASE q = n  BY <1>6, <2>2
  <2>3. CASE q # n
    <3>1. q \in dirs /\ meta[q] = None  BY <1>7, <2>1, <2>3
    <3> QED  BY <1>2, <1>4, <2>3, <3>1 DEF NoHalfDirectory
  <2> QED  BY <2>2, <2>3
<1> QED  BY <1>8, <1>9, <1>10, <1>11, <1>12, <1>13

-----------------------------------------------------------------------------
(* A change of one repository in memory, saved or not.                      *)
LEMMA ChangeInv ==
    ASSUME IInv, Idle, NEW n \in Names, mem[n] # None, NEW m \in Meta, Proper(n, m),
           mem' = [mem EXCEPT ![n] = m],
           NEW touched \in SUBSET Keys, Save(n, m, touched),
           byAlias' \in [Refs -> Names \cup {None}],
           byFolded' \in [Keys -> Names \cup {None}], IndexExact', KeysExact',
           UNCHANGED <<dirs, described, marked, up, op, crashes>>
    PROVE  IInv'
<1> USE DEF IInv, Idle
<1>1. /\ mem'[n] = m /\ m # None
      /\ \A q \in Names \ {n} : mem'[q] = mem[q]
  BY DEF TypeOK
<1>2. /\ \/ meta'[n] = m /\ promise'[n] = m
         \/ meta'[n] = meta[n] /\ promise'[n] = promise[n] /\ Fold[n] \in unsure'
      /\ \A q \in Names \ {n} : meta'[q] = meta[q] /\ promise'[q] = promise[q]
      /\ unsure \subseteq unsure'
  BY DEF Save, TypeOK
<1>3. n \in dirs /\ meta[n] # None /\ up /\ (n \in marked => Fold[n] \in unsure)
  BY DEF MemProper, MarksKnown
<1>4. TypeOK'
  <2>1. /\ meta' \in [Names -> Meta \cup {None}] /\ promise' \in [Names -> Meta \cup {None}]
        /\ unsure' \subseteq Keys /\ failures' \in 0..MaxFailures
    <3>1. Fold[n] \in Keys  BY DEF Keys
    <3>2. /\ meta \in [Names -> Meta \cup {None}] /\ promise \in [Names -> Meta \cup {None}]
          /\ unsure \subseteq Keys /\ failures \in 0..MaxFailures
      BY DEF TypeOK
    <3>3. MaxFailures \in Nat  BY RepositoriesAssumption
    <3>4. CASE /\ meta' = [meta EXCEPT ![n] = m] /\ promise' = [promise EXCEPT ![n] = m]
               /\ unsure' = unsure /\ failures' = failures
      <4> HIDE DEF IInv
      <4> QED  BY ONLY <3>2, <3>4, m \in Meta
    <3>5. CASE /\ failures < MaxFailures /\ failures' = failures + 1
               /\ unsure' = unsure \cup {Fold[n]} \cup touched
               /\ meta' = meta /\ promise' = promise
      BY ONLY <3>1, <3>2, <3>3, <3>5, touched \in SUBSET Keys
    <3> QED  BY ONLY <3>4, <3>5, Save(n, m, touched) DEF Save
  <2> QED  BY <2>1 DEF TypeOK
<1>5. MetaProper' /\ MemProper'
  BY <1>1, <1>2, <1>3 DEF MetaProper, MemProper
<1>6. MarksKnown'
  <2>1. \A q \in marked : q \in Names  BY DEF TypeOK
  <2> QED  BY <1>1, <1>2, <1>3, <2>1 DEF MarksKnown
<1>7. CreationApart'  BY DEF CreationApart
<1>8. PromiseKept'
  <2> SUFFICES ASSUME NEW q \in Names PROVE Kept(q)'  BY DEF PromiseKept
  <2>1. CASE q = n
    <3>1. CASE Fold[n] \in unsure'  BY <2>1, <3>1 DEF Kept, Touched
    <3>2. CASE Fold[n] \notin unsure'
      <4>1. meta'[n] = m /\ promise'[n] = m /\ n \notin marked'
        BY <1>2, <1>3, <3>2
      <4>2. Loaded(n)' = m  BY <1>3, <4>1, LoadedWritten
      <4> QED  BY <1>1, <2>1, <4>1, <4>2 DEF Kept
    <3> QED  BY <3>1, <3>2
  <2>2. CASE q # n
    <3>1. Loaded(q)' = Loaded(q)  BY <1>2, <2>2, LoadedSame
    <3>2. Kept(q) /\ ~InProgress(q)  BY DEF PromiseKept, InProgress
    <3> QED  BY <1>1, <1>2, <2>2, <3>1, <3>2, KeptSame
  <2> QED  BY <2>1, <2>2
<1>9. NoHalfDirectory'
  <2>1. \A q \in dirs : q \in Names  BY DEF TypeOK
  <2> QED  BY <1>1, <1>2, <1>3, <2>1 DEF NoHalfDirectory
<1> QED  BY <1>4, <1>5, <1>6, <1>7, <1>8, <1>9

LEMMA AddAliasInv == ASSUME NEW n \in Names, NEW ref \in Refs
                     PROVE  IInv /\ AddAlias(n, ref) => IInv'
<1> SUFFICES ASSUME IInv, AddAlias(n, ref) PROVE IInv'  OBVIOUS
<1>1. mem[n] # None /\ mem[n] \in Meta /\ Proper(n, mem[n])
  BY DEF IInv, TypeOK, AddAlias, Indexed, MemProper
<1>2. PICK m \in Meta : /\ m = [mem[n] EXCEPT !.aliases = @ \cup {ref}]
                        /\ m.aliases = mem[n].aliases \cup {ref}
  <2> DEFINE w == [mem[n] EXCEPT !.aliases = @ \cup {ref}]
  <2>1. w \in Meta /\ w.aliases = mem[n].aliases \cup {ref}  BY <1>1 DEF Meta
  <2> QED  BY <2>1
<1>3. /\ mem' = [mem EXCEPT ![n] = m] /\ Save(n, m, {Fold[ref]})
      /\ byAlias' = [byAlias EXCEPT ![ref] = n]
      /\ byFolded' = [byFolded EXCEPT ![Fold[ref]] = n]
      /\ byFolded[Fold[ref]] = None
  BY <1>2 DEF AddAlias
<1>4. Fold[ref] \in Keys  BY DEF Keys
<1>5. \A q \in Names : mem[q] # None => Fold[ref] \notin Claims(mem[q])
  BY <1>3, <1>4 DEF IInv, KeysExact
<1>6. \A q \in Names : mem[q] # None => ref \notin mem[q].aliases
  BY <1>5 DEF Claims
<1>7. Proper(n, m)  BY <1>1, <1>2, <1>5 DEF Proper, Claims
<1>8. \A q \in Names : mem'[q] = IF q = n THEN m ELSE mem[q]
  BY <1>3 DEF IInv, TypeOK
<1>9. m # None  OBVIOUS
<1>10. IndexExact'
  <2> SUFFICES ASSUME NEW r \in Refs, NEW q \in Names
               PROVE  byAlias'[r] = q <=> mem'[q] # None /\ r \in mem'[q].aliases
    BY DEF IndexExact, Indexed
  <2>1. byAlias[r] = q <=> mem[q] # None /\ r \in mem[q].aliases
    BY DEF IInv, IndexExact, Indexed
  <2>2. byAlias'[r] = IF r = ref THEN n ELSE byAlias[r]
    BY <1>3 DEF IInv, TypeOK
  <2>3. CASE q = n  BY <1>1, <1>2, <1>8, <1>9, <2>1, <2>2, <2>3
  <2>4. CASE q # n  BY <1>6, <1>8, <2>1, <2>2, <2>4
  <2> QED  BY <2>3, <2>4
<1>11. KeysExact'
  <2> SUFFICES ASSUME NEW k \in Keys, NEW q \in Names
               PROVE  byFolded'[k] = q <=> mem'[q] # None /\ k \in Claims(mem'[q])
    BY DEF KeysExact
  <2>1. byFolded[k] = q <=> mem[q] # None /\ k \in Claims(mem[q])
    BY DEF IInv, KeysExact
  <2>2. byFolded'[k] = IF k = Fold[ref] THEN n ELSE byFolded[k]
    BY <1>3 DEF IInv, TypeOK
  <2>3. Claims(m) = Claims(mem[n]) \cup {Fold[ref]}  BY <1>2 DEF Claims
  <2>4. CASE q = n  BY <1>1, <1>8, <1>9, <2>1, <2>2, <2>3, <2>4
  <2>5. CASE q # n  BY <1>5, <1>8, <2>1, <2>2, <2>5
  <2> QED  BY <2>4, <2>5
<1>12. /\ byAlias' \in [Refs -> Names \cup {None}]
       /\ byFolded' \in [Keys -> Names \cup {None}]
  BY <1>3 DEF IInv, TypeOK
<1>13. Idle /\ UNCHANGED <<dirs, described, marked, up, op, crashes>>
  BY DEF AddAlias
<1>14. {Fold[ref]} \in SUBSET Keys  BY <1>4
<1> QED  BY <1>1, <1>3, <1>7, <1>10, <1>11, <1>12, <1>13, <1>14, ChangeInv

LEMMA RemoveAliasInv == ASSUME NEW n \in Names, NEW ref \in Refs
                        PROVE  IInv /\ RemoveAlias(n, ref) => IInv'
<1> SUFFICES ASSUME IInv, RemoveAlias(n, ref) PROVE IInv'  OBVIOUS
<1>1. mem[n] # None /\ mem[n] \in Meta /\ Proper(n, mem[n]) /\ ref \in mem[n].aliases \ {n}
  BY DEF IInv, TypeOK, RemoveAlias, Indexed, MemProper
<1>2. PICK m \in Meta : /\ m = [mem[n] EXCEPT !.aliases = @ \ {ref}]
                        /\ m.aliases = mem[n].aliases \ {ref}
  <2> DEFINE w == [mem[n] EXCEPT !.aliases = @ \ {ref}]
  <2>1. w \in Meta /\ w.aliases = mem[n].aliases \ {ref}  BY <1>1 DEF Meta
  <2> QED  BY <2>1
<1>3. byAlias[ref] = n  BY <1>1 DEF IInv, IndexExact, Indexed
<1>4. Fold[ref] \in Keys  BY DEF Keys
<1>5. byFolded[Fold[ref]] = n  BY <1>1, <1>4 DEF IInv, KeysExact, Claims
<1>6. /\ mem' = [mem EXCEPT ![n] = m] /\ Save(n, m, {Fold[ref]})
      /\ byAlias' = [byAlias EXCEPT ![ref] = None]
      /\ byFolded' = [byFolded EXCEPT ![Fold[ref]] = None]
  BY <1>2, <1>3, <1>5 DEF RemoveAlias
<1>7. Proper(n, m)  BY <1>1, <1>2 DEF Proper
<1>8. \A q \in Names : mem'[q] = IF q = n THEN m ELSE mem[q]
  BY <1>6 DEF IInv, TypeOK
<1>9. m # None  OBVIOUS
<1>10. IndexExact'
  <2> SUFFICES ASSUME NEW r \in Refs, NEW q \in Names
               PROVE  byAlias'[r] = q <=> mem'[q] # None /\ r \in mem'[q].aliases
    BY DEF IndexExact, Indexed
  <2>1. byAlias[r] = q <=> mem[q] # None /\ r \in mem[q].aliases
    BY DEF IInv, IndexExact, Indexed
  <2>2. byAlias'[r] = IF r = ref THEN None ELSE byAlias[r]
    BY <1>6 DEF IInv, TypeOK
  <2>3. CASE q = n  BY <1>1, <1>2, <1>8, <1>9, <2>1, <2>2, <2>3
  <2>4. CASE q # n  BY <1>3, <1>8, <2>1, <2>2, <2>4
  <2> QED  BY <2>3, <2>4
<1>11. KeysExact'
  <2> SUFFICES ASSUME NEW k \in Keys, NEW q \in Names
               PROVE  byFolded'[k] = q <=> mem'[q] # None /\ k \in Claims(mem'[q])
    BY DEF KeysExact
  <2>1. byFolded[k] = q <=> mem[q] # None /\ k \in Claims(mem[q])
    BY DEF IInv, KeysExact
  <2>2. byFolded'[k] = IF k = Fold[ref] THEN None ELSE byFolded[k]
    BY <1>6 DEF IInv, TypeOK
  <2>3. Claims(m) = Claims(mem[n]) \ {Fold[ref]}
    BY <1>1, <1>2 DEF Claims, Proper
  <2>4. CASE q = n  BY <1>1, <1>8, <1>9, <2>1, <2>2, <2>3, <2>4
  <2>5. CASE q # n  BY <1>5, <1>8, <2>1, <2>2, <2>5
  <2> QED  BY <2>4, <2>5
<1>12. /\ byAlias' \in [Refs -> Names \cup {None}]
       /\ byFolded' \in [Keys -> Names \cup {None}]
  BY <1>6 DEF IInv, TypeOK
<1>13. Idle /\ UNCHANGED <<dirs, described, marked, up, op, crashes>>
  BY DEF RemoveAlias
<1>14. {Fold[ref]} \in SUBSET Keys  BY <1>4
<1> QED  BY <1>1, <1>6, <1>7, <1>10, <1>11, <1>12, <1>13, <1>14, ChangeInv

LEMMA UpdateMirrorInv == ASSUME NEW n \in Names, NEW kind \in Kinds
                         PROVE  IInv /\ UpdateMirror(n, kind) => IInv'
<1> SUFFICES ASSUME IInv, UpdateMirror(n, kind) PROVE IInv'  OBVIOUS
<1>1. mem[n] # None /\ mem[n] \in Meta /\ Proper(n, mem[n])
  BY DEF IInv, TypeOK, UpdateMirror, Indexed, MemProper
<1>2. PICK m \in Meta : /\ m = [mem[n] EXCEPT !.kind = kind]
                        /\ m.aliases = mem[n].aliases
  <2> DEFINE w == [mem[n] EXCEPT !.kind = kind]
  <2>1. w \in Meta /\ w.aliases = mem[n].aliases  BY <1>1 DEF Meta
  <2> QED  BY <2>1
<1>3. mem' = [mem EXCEPT ![n] = m] /\ Save(n, m, {})  BY <1>2 DEF UpdateMirror
<1>4. Proper(n, m)  BY <1>1, <1>2 DEF Proper
<1>5. \A q \in Names : mem'[q] = IF q = n THEN m ELSE mem[q]
  BY <1>3 DEF IInv, TypeOK
<1>6. m # None /\ Claims(m) = Claims(mem[n])  BY <1>2 DEF Claims
<1>7. /\ Idle /\ byAlias' = byAlias /\ byFolded' = byFolded
      /\ UNCHANGED <<dirs, described, marked, up, op, crashes>>
  BY DEF UpdateMirror
<1>8. IndexExact'
  <2> SUFFICES ASSUME NEW r \in Refs, NEW q \in Names
               PROVE  byAlias'[r] = q <=> mem'[q] # None /\ r \in mem'[q].aliases
    BY DEF IndexExact, Indexed
  <2>1. byAlias[r] = q <=> mem[q] # None /\ r \in mem[q].aliases
    BY DEF IInv, IndexExact, Indexed
  <2> QED  BY <1>1, <1>2, <1>5, <1>6, <1>7, <2>1
<1>9. KeysExact'  BY <1>1, <1>5, <1>6, <1>7 DEF IInv, KeysExact
<1>10. /\ byAlias' \in [Refs -> Names \cup {None}]
       /\ byFolded' \in [Keys -> Names \cup {None}]
  BY <1>7 DEF IInv, TypeOK
<1> QED  BY <1>1, <1>3, <1>4, <1>7, <1>8, <1>9, <1>10, ChangeInv

-----------------------------------------------------------------------------
(* Deletion and its marks.                                                  *)
LEMMA DeleteInv == ASSUME NEW n \in Names
                   PROVE  IInv /\ DeleteRepository(n) => IInv'
<1> SUFFICES ASSUME IInv, DeleteRepository(n) PROVE IInv'  OBVIOUS
<1> USE DEF IInv
<1>1. /\ mem[n] # None /\ op = None /\ up /\ n \in dirs /\ meta[n] # None
      /\ mem[n] \in Meta
  BY DEF DeleteRepository, Idle, Indexed, MemProper, TypeOK
<1>2. /\ marked' = marked \cup {n} /\ dirs' = dirs /\ described' = described
      /\ meta' = meta /\ up' = up /\ op' = op /\ unsure' = unsure
      /\ failures' = failures /\ crashes' = crashes
      /\ promise' = [promise EXCEPT ![n] = None]
      /\ mem' = [mem EXCEPT ![n] = None]
  BY DEF DeleteRepository, Unregister, bounds
<1>3. \A q \in Names : mem'[q] = IF q = n THEN None ELSE mem[q]
  BY <1>2 DEF TypeOK
<1>4. TypeOK'
  <2>1. /\ byAlias' \in [Refs -> Names \cup {None}]
        /\ byFolded' \in [Keys -> Names \cup {None}]
    BY DEF DeleteRepository, Unregister, TypeOK
  <2>2. /\ mem' \in [Names -> Meta \cup {None}]
        /\ promise' \in [Names -> Meta \cup {None}]
    BY <1>2 DEF TypeOK
  <2> QED  BY <1>1, <1>2, <2>1, <2>2 DEF TypeOK
<1>5. MetaProper' /\ MemProper'
  BY <1>2, <1>3 DEF MetaProper, MemProper
<1>6. MarksKnown'
  <2>1. \A q \in marked' : q \in Names /\ (q = n \/ q \in marked)
    BY <1>2 DEF TypeOK
  <2> QED  BY <1>1, <1>2, <1>3, <2>1 DEF MarksKnown
<1>7. IndexExact'
  <2> SUFFICES ASSUME NEW r \in Refs, NEW q \in Names
               PROVE  byAlias'[r] = q <=> mem'[q] # None /\ r \in mem'[q].aliases
    BY DEF IndexExact, Indexed
  <2>1. \A p \in Names : byAlias[r] = p <=> mem[p] # None /\ r \in mem[p].aliases
    BY DEF IndexExact, Indexed
  <2>2. byAlias'[r] = IF r \in mem[n].aliases /\ byAlias[r] = n THEN None ELSE byAlias[r]
    BY DEF DeleteRepository, Unregister
  <2> QED  BY <1>1, <1>3, <2>1, <2>2
<1>8. KeysExact'
  <2> SUFFICES ASSUME NEW k \in Keys, NEW q \in Names
               PROVE  byFolded'[k] = q <=> mem'[q] # None /\ k \in Claims(mem'[q])
    BY DEF KeysExact
  <2>1. \A p \in Names : byFolded[k] = p <=> mem[p] # None /\ k \in Claims(mem[p])
    BY DEF KeysExact
  <2>2. byFolded'[k] = IF k \in Claims(mem[n]) /\ byFolded[k] = n THEN None ELSE byFolded[k]
    BY DEF DeleteRepository, Unregister
  <2> QED  BY <1>1, <1>3, <2>1, <2>2
<1>9. CreationApart'  BY <1>1, <1>2 DEF CreationApart
<1>10. PromiseKept'
  <2> SUFFICES ASSUME NEW q \in Names PROVE Kept(q)'  BY DEF PromiseKept
  <2>1. CASE q = n
    <3>1. Loaded(n)' = None  BY <1>2 DEF Loaded
    <3>2. promise'[n] = None  BY <1>2 DEF TypeOK
    <3> QED  BY <1>3, <2>1, <3>1, <3>2 DEF Kept
  <2>2. CASE q # n
    <3>1. Loaded(q)' = Loaded(q)  BY <1>2, <2>2, LoadedSame
    <3>2. Kept(q) /\ ~InProgress(q)  BY <1>1 DEF PromiseKept, InProgress
    <3>3. promise'[q] = promise[q]  BY <1>2, <2>2 DEF TypeOK
    <3> QED  BY <1>2, <1>3, <2>2, <3>1, <3>2, <3>3, KeptSame
  <2> QED  BY <2>1, <2>2
<1>11. NoHalfDirectory'  BY <1>2 DEF NoHalfDirectory
<1> QED  BY <1>4, <1>5, <1>6, <1>7, <1>8, <1>9, <1>10, <1>11

(* The mark alone changes: after a failed deletion, or by hand.             *)
LEMMA MarkInv ==
    ASSUME IInv, NEW n \in Names, Fold[n] \in unsure', unsure \subseteq unsure',
           unsure' \subseteq Keys, failures' \in 0..MaxFailures,
           \/ marked' = marked
           \/ marked' = marked \cup {n} /\ n \in dirs /\ meta[n] # None /\ ~InProgress(n)
           \/ marked' = marked \ {n},
           UNCHANGED <<dirs, described, meta, up, memory, op, promise, crashes>>
    PROVE  IInv'
<1> USE DEF IInv, memory
<1>1. TypeOK'  BY DEF TypeOK
<1>2. MetaProper' /\ MemProper'  BY DEF MetaProper, MemProper
<1>3. MarksKnown'  BY DEF MarksKnown
<1>4. IndexExact' /\ KeysExact'  BY DEF IndexExact, Indexed, KeysExact
<1>5. CreationApart'
  <2>1. op # None => op.name \notin marked'  BY DEF CreationApart, InProgress
  <2>2. op # None => Touched(op.name) \/ promise[op.name] = None
    BY DEF CreationApart
  <2>3. op' # None => Touched(op.name)' \/ promise'[op.name] = None
    BY <2>2 DEF Touched
  <2> QED  BY <2>1, <2>3 DEF CreationApart
<1>6. PromiseKept'
  <2> SUFFICES ASSUME NEW q \in Names PROVE Kept(q)'  BY DEF PromiseKept
  <2>1. CASE q = n  BY <2>1 DEF Kept, Touched
  <2>2. CASE InProgress(q)  BY <2>2 DEF Kept, InProgress
  <2>3. CASE q # n /\ ~InProgress(q)
    <3>1. Loaded(q)' = Loaded(q)  BY <2>3, LoadedSame
    <3>2. Kept(q)  BY DEF PromiseKept
    <3> QED  BY <2>3, <3>1, <3>2, KeptSame
  <2> QED  BY <2>1, <2>2, <2>3
<1>7. NoHalfDirectory'  BY DEF NoHalfDirectory
<1> QED  BY <1>1, <1>2, <1>3, <1>4, <1>5, <1>6, <1>7

LEMMA MarksInv == ASSUME NEW n \in Names
                  PROVE  IInv /\ (DeleteFails(n) \/ RemoveMark(n)) => IInv'
<1> SUFFICES ASSUME IInv, DeleteFails(n) \/ RemoveMark(n) PROVE IInv'  OBVIOUS
<1>1. Fold[n] \in Keys  BY DEF Keys
<1>2. CASE DeleteFails(n)
  <2>1. n \in dirs /\ meta[n] # None /\ ~InProgress(n)
    BY <1>2 DEF DeleteFails, Idle, Indexed, IInv, MemProper, InProgress
  <2>2. /\ Fold[n] \in unsure' /\ unsure \subseteq unsure' /\ unsure' \subseteq Keys
        /\ failures' \in 0..MaxFailures
        /\ marked' = marked \/ marked' = marked \cup {n}
        /\ UNCHANGED <<dirs, described, meta, up, memory, op, promise, crashes>>
    BY <1>1, <1>2 DEF DeleteFails, IInv, TypeOK
  <2> QED  BY <2>1, <2>2, MarkInv
<1>3. CASE RemoveMark(n)
  <2>1. meta[n] \in Meta  BY <1>3 DEF RemoveMark, IInv, TypeOK, MarksKnown
  <2>2. Claims(meta[n]) \subseteq Keys  BY <2>1 DEF Claims, Keys, Meta
  <2>3. /\ Fold[n] \in unsure' /\ unsure \subseteq unsure' /\ unsure' \subseteq Keys
        /\ failures' \in 0..MaxFailures
        /\ marked' = marked \ {n}
        /\ UNCHANGED <<dirs, described, meta, up, memory, op, promise, crashes>>
    BY <1>1, <1>3, <2>2 DEF RemoveMark, IInv, TypeOK, bounds
  <2> QED  BY <2>3, MarkInv
<1> QED  BY <1>2, <1>3

-----------------------------------------------------------------------------
LEMMA StutterInv == IInv /\ UNCHANGED vars => IInv'
<1> SUFFICES ASSUME IInv, UNCHANGED vars PROVE IInv'  OBVIOUS
<1> USE DEF IInv, vars
<1>1. TypeOK' /\ MetaProper' /\ MemProper' /\ MarksKnown'
  BY DEF TypeOK, MetaProper, MemProper, MarksKnown
<1>2. IndexExact' /\ KeysExact' /\ NoHalfDirectory'
  BY DEF IndexExact, Indexed, KeysExact, NoHalfDirectory
<1>3. CreationApart'  BY DEF CreationApart, Touched
<1>4. PromiseKept'
  <2> SUFFICES ASSUME NEW q \in Names PROVE Kept(q)'  BY DEF PromiseKept
  <2>1. Loaded(q)' = Loaded(q)  BY LoadedSame
  <2>2. Kept(q)  BY DEF PromiseKept
  <2> QED  BY <2>1, <2>2 DEF Kept, InProgress, Touched
<1> QED  BY <1>1, <1>2, <1>3, <1>4

LEMMA NextInv == IInv /\ [Next]_vars => IInv'
<1> SUFFICES ASSUME IInv, [Next]_vars PROVE IInv'  OBVIOUS
<1>1. CASE Start  BY <1>1, StartInv
<1>2. CASE Crash  BY <1>2, CrashInv
<1>3. CASE Create  BY <1>3, MakeDirInv DEF Create
<1>4. CASE WriteFiles \/ FirstSave \/ MirrorSave  BY <1>4, CreateInv
<1>5. CASE CreateFails  BY <1>5, CreateFailsInv
<1>6. CASE \E n \in Names : DeleteRepository(n)  BY <1>6, DeleteInv
<1>7. CASE \E n \in Names : DeleteFails(n) \/ RemoveMark(n)  BY <1>7, MarksInv
<1>8. CASE \E n \in Names, kind \in Kinds : UpdateMirror(n, kind)
  BY <1>8, UpdateMirrorInv
<1>9. CASE \E n \in Names, ref \in Refs : AddAlias(n, ref)  BY <1>9, AddAliasInv
<1>10. CASE \E n \in Names, ref \in Refs : RemoveAlias(n, ref)
  BY <1>10, RemoveAliasInv
<1>11. CASE UNCHANGED vars  BY <1>11, StutterInv
<1> QED
  BY <1>1, <1>2, <1>3, <1>4, <1>5, <1>6, <1>7, <1>8, <1>9, <1>10, <1>11 DEF Next

LEMMA AlwaysIInv == Spec => []IInv
BY InitInv, NextInv, PTL DEF Spec

-----------------------------------------------------------------------------
(* Disk, memory and indexes keep their ranges (manager.go, repository.go).  *)
THEOREM TypeCorrect == Spec => []TypeOK
<1>1. IInv => TypeOK  BY DEF IInv
<1> QED  BY <1>1, AlwaysIInv, PTL

(* Resolve finds exactly the repositories in memory, by exactly their refs, *)
(* for any names, aliases, spellings, failures and restarts.                *)
THEOREM ResolvesExactly == Spec => []IndexExact
<1>1. IInv => IndexExact  BY DEF IInv
<1> QED  BY <1>1, AlwaysIInv, PTL

(* No two repositories that are served claim the same folded ref.           *)
THEOREM RefsUnique == Spec => []RefSpaceUnique
<1>1. IInv => RefSpaceUnique  BY KeysApart DEF IInv
<1> QED  BY <1>1, AlwaysIInv, PTL

(* Whatever no failed or cut-off operation has touched is served as its     *)
(* client was told, over any number of restarts.                            *)
THEOREM PromisesKept == Spec => []ServedAsPromised
<1>1. IInv => ServedAsPromised
  BY DEF IInv, PromiseKept, Kept, InProgress, Touched, ServedAsPromised, Idle
<1> QED  BY <1>1, AlwaysIInv, PTL

(* A rolled-back creation leaves no directory behind.                       *)
THEOREM NothingHalfMade == Spec => []NoHalfDirectory
<1>1. IInv => NoHalfDirectory  BY DEF IInv
<1> QED  BY <1>1, AlwaysIInv, PTL
=============================================================================
