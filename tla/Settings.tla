------------------------------ MODULE Settings ------------------------------
(***************************************************************************)
(* The configuration of config.go: read at the start, read again by the     *)
(* goroutine of main.go that waits for SIGHUP.  A reload parses the file    *)
(* into a fresh Setting, checks it field by field, and hands some values to *)
(* other packages on the way; only then does it copy the fields that need   *)
(* no restart.  A file is a record of the fields the code treats apart.     *)
(***************************************************************************)
EXTENDS Integers

CONSTANTS
    Files,          \* contents the operator writes:
                    \*   [sound: the checks before the push limit pass,
                    \*    root, dir: gitRoot and mirrorArchiveDir, None for none,
                    \*    push: maxPushBytes, loggable: the log settings are known,
                    \*    users: credentials, syncs: mirrorMaxConcurrentSyncs]
    None,
    DefaultUser,    \* the user of the built-in credentials
    DefaultPush,    \* DefaultMaxPushBytes
    DefaultSyncs,   \* DefaultMaxConcurrentSyncs
    MaxEvents       \* bound: edits of the file (and connections, module Server)

ASSUME SettingsAssumption ==
    /\ DefaultPush \in Nat \ {0} /\ DefaultSyncs \in Nat \ {0}
    /\ None \notin Files
    /\ \A f \in Files : /\ f.push \in Int /\ f.syncs \in Int
                        /\ f.sound => f.push >= 0 /\ f.syncs >= 0

VARIABLES
    file,       \* the file
    live,       \* pgs.Settings
    pushLimit,  \* maxReceivePackBytes of package git
    workers,    \* the concurrency of the sync queue
    pendingHup, \* whether hupCh, of capacity 1, holds a signal
    hup,        \* the goroutine: [at, fresh]
    edits,
    signalled,  \* history: the file at the last SIGHUP, None when edited since
    halfApplied \* history: the last reload failed after the push limit was set

settingVars == <<file, live, pushLimit, workers, pendingHup, hup, edits, signalled, halfApplied>>

(* The checks of mirrorArchiveDir, against the gitRoot of the same file.    *)
DirsApart(f) == f.dir = None \/ f.dir # f.root

Valid(f) == f.sound /\ f.loggable /\ DirsApart(f)

(* 0 stands for the default; so does no directory.                          *)
LimitPushBytes(v) == IF v <= 0 THEN DefaultPush ELSE v
LimitConcurrentSyncs(v) == IF v <= 0 THEN DefaultSyncs ELSE v
Hot(f) == [dir |-> f.dir, push |-> f.push, users |-> f.users, syncs |-> f.syncs]

(* The first Reload decodes into the built-in settings: the entries of the  *)
(* file are added to the built-in credentials.                              *)
Boot(f) == [root |-> f.root, dir |-> f.dir, push |-> f.push,
            users |-> f.users \cup {DefaultUser}, syncs |-> f.syncs]

SettingsInit ==
    /\ file \in {f \in Files : Valid(f)}
    /\ live = Boot(file)
    /\ pushLimit = LimitPushBytes(file.push)
    /\ workers = LimitConcurrentSyncs(file.syncs)
    /\ pendingHup = FALSE
    /\ hup = [at |-> "wait", fresh |-> None]
    /\ edits = 0
    /\ signalled = None
    /\ halfApplied = FALSE

(* A SIGHUP is sent when the file has been edited.                          *)
Edit ==
    /\ edits < MaxEvents
    /\ edits' = edits + 1
    /\ \E f \in Files \ {file} : file' = f
    /\ signalled' = None
    /\ UNCHANGED <<live, pushLimit, workers, pendingHup, hup, halfApplied>>

(* Mutant: a signal that comes during a reload is lost.                     *)
HangupUnbuffered ==
    /\ edits > 0 /\ signalled # file
    /\ pendingHup' = (pendingHup \/ hup.at = "wait")
    /\ signalled' = file
    /\ UNCHANGED <<file, live, pushLimit, workers, hup, edits, halfApplied>>

(* A signal that finds the channel full is dropped.                         *)
Hangup ==
    /\ edits > 0 /\ signalled # file
    /\ pendingHup' = TRUE
    /\ signalled' = file
    /\ UNCHANGED <<file, live, pushLimit, workers, hup, edits, halfApplied>>

HupGoto(s) == hup' = [hup EXCEPT !.at = s]
HupEnds == hup' = [at |-> "wait", fresh |-> None]

TakeHangup ==
    /\ hup.at = "wait" /\ pendingHup
    /\ pendingHup' = FALSE
    /\ HupGoto("read")
    /\ UNCHANGED <<file, live, pushLimit, workers, edits, signalled, halfApplied>>

(* reloadLocked on a fresh Setting: the file and the checks that come       *)
(* before anything is handed on.                                            *)
ReadFile ==
    /\ hup.at = "read"
    /\ IF file.sound THEN hup' = [at |-> "limit", fresh |-> file] ELSE HupEnds
    /\ UNCHANGED <<file, live, pushLimit, workers, pendingHup, edits, signalled,
                   halfApplied>>

(* Mutant: 0 is not replaced by the default.                                *)
SetPushLimitRaw ==
    /\ hup.at = "limit"
    /\ pushLimit' = hup.fresh.push
    /\ HupGoto("check")
    /\ UNCHANGED <<file, live, workers, pendingHup, edits, signalled, halfApplied>>

SetPushLimit ==
    /\ hup.at = "limit"
    /\ pushLimit' = LimitPushBytes(hup.fresh.push)
    /\ HupGoto("check")
    /\ UNCHANGED <<file, live, workers, pendingHup, edits, signalled, halfApplied>>

(* Logging is set up and the archive directory is checked.                  *)
CheckRest ==
    /\ hup.at = "check"
    /\ IF hup.fresh.loggable /\ DirsApart(hup.fresh)
       THEN HupGoto("apply") /\ UNCHANGED halfApplied
       ELSE HupEnds /\ halfApplied' = TRUE
    /\ UNCHANGED <<file, live, pushLimit, workers, pendingHup, edits, signalled>>

(* hotReloadFrom, under the lock.  gitRoot, like the listener, SSH and the  *)
(* web interface, needs a restart.                                          *)
Apply ==
    /\ hup.at = "apply"
    /\ live' = [dir |-> hup.fresh.dir, push |-> hup.fresh.push,
                users |-> hup.fresh.users, syncs |-> hup.fresh.syncs, root |-> live.root]
    /\ HupGoto("resize")
    /\ halfApplied' = FALSE
    /\ UNCHANGED <<file, pushLimit, workers, pendingHup, edits, signalled>>

(* SetConcurrency of the sync manager (and the relay manager).              *)
Resize ==
    /\ hup.at = "resize"
    /\ workers' = LimitConcurrentSyncs(live.syncs)
    /\ HupEnds
    /\ UNCHANGED <<file, live, pushLimit, pendingHup, edits, signalled, halfApplied>>

HupStep == TakeHangup \/ ReadFile \/ SetPushLimit \/ CheckRest \/ Apply \/ Resize

SettingsNext == Edit \/ Hangup \/ HupStep

-----------------------------------------------------------------------------
(* The size of a push is limited twice, by the request body (Settings) and  *)
(* by the pack decoder (package git).  While no reload is under way both    *)
(* have the same limit, except after a reload that was rejected late.       *)
LimitsAgree ==
    hup.at = "wait" /\ ~halfApplied => pushLimit = LimitPushBytes(live.push)

(* The file is in force: the fields that need no restart and the queue.     *)
InForce(f) ==
    /\ \A k \in DOMAIN Hot(f) : live[k] = Hot(f)[k]
    /\ workers = LimitConcurrentSyncs(f.syncs)
=============================================================================
