------------------------------- MODULE Relay -------------------------------
(***************************************************************************)
(* One relay repository: downstream pushes are admitted against the        *)
(* upstream (RelayManager.Admit), land in the local refs, are recorded as  *)
(* pending on disk and forwarded to the upstream by a task of the queue    *)
(* (runRounds), while pulls (SyncRepository), RelayNow, AlignToUpstream,   *)
(* the retry timer, other writers of the upstream and crashes interleave.  *)
(*                                                                         *)
(* A ref update is one compare-and-swap (module AtomicRef) and the queue   *)
(* hands a submitted task to a worker once (module TaskQueue).             *)
(***************************************************************************)
EXTENDS Naturals, FiniteSets

CONSTANTS
    Refs,           \* refs of the repository
    Accepted,       \* those its whitelist forwards (MirrorConfig.AcceptsRef)
    Commits,        \* commit ids
    Zero,           \* the zero oid: no such ref
    Descends,       \* <<a, d>>: d is a or one of its descendants (IsFastForward)
    Pushes,         \* downstream pushes of one command, each happening once
    Tasks,          \* forward tasks that can be alive at the same time
    AllowDelete,    \* MirrorConfig.AllowsDelete()
    RetryOn,        \* relayPendingRetryIntervalSec > 0
    MaxRounds,      \* relayMaxRounds
    Budget          \* bound: how often each kind of disturbance can happen, and
                    \* how often any of them can ("any")

Kinds == {"foreign", "fault", "read", "refuse", "full", "crash", "manual", "sync", "align", "any"}
Oids == Commits \cup {Zero}
Heads == [Refs -> Oids]
NoRefs == [r \in Refs |-> Zero]

ASSUME RelayAssumption ==
    /\ Refs # {} /\ Accepted \subseteq Refs
    /\ Zero \notin Commits
    /\ Descends \subseteq Commits \X Commits
    /\ \A c \in Commits : <<c, c>> \in Descends
    /\ \A a, b, c \in Commits :
          <<a, b>> \in Descends /\ <<b, c>> \in Descends => <<a, c>> \in Descends
    /\ AllowDelete \in BOOLEAN
    /\ RetryOn \in BOOLEAN
    /\ MaxRounds \in Nat \ {0}
    /\ Budget \in [Kinds -> Nat]

VARIABLES
    local,      \* the repository's refs, on disk
    upstream,   \* the upstream's refs
    pending,    \* MirrorConfig.PendingRefs, on disk
    base,       \* relayBase: refs of the upstream as last heard of
    push,       \* push[p]: a receive-pack request and where it stands
    task,       \* task[k]: a forward task and where it stands
    queued,     \* relayState.queued
    running,    \* relayState.running
    releasing,  \* resets of queued still to come from enqueue calls that met a
                \* full queue: two for each of them
    timer,      \* the retry timer is armed
    manual,     \* the RelayNow call
    sync,       \* the SyncRepository call
    align,      \* the AlignToUpstream call
    budget      \* disturbances left

flags == <<queued, running, releasing>>
callers == <<manual, sync, align>>
vars == <<local, upstream, pending, base, push, task, flags, timer, callers, budget>>

FF(a, d) == <<a, d>> \in Descends

NoPush == [pc |-> "idle", ref |-> CHOOSE r \in Refs : TRUE, old |-> Zero, new |-> Zero,
           seen |-> NoRefs]
NoTask == [pc |-> "free", round |-> 0, todo |-> {}, spec |-> NoRefs, seen |-> NoRefs,
           done |-> {}, drop |-> {}, clean |-> FALSE]
NoCall == [pc |-> "idle", protect |-> {}, seen |-> NoRefs, mine |-> NoRefs]

Init ==
    /\ upstream \in Heads
    /\ local \in {upstream, NoRefs}    \* pulled from the upstream, or just created
    /\ pending = {}
    /\ base = NoRefs
    /\ push = [p \in Pushes |-> NoPush]
    /\ task = [k \in Tasks |-> NoTask]
    /\ queued = FALSE
    /\ running = FALSE
    /\ releasing = 0
    /\ timer = FALSE
    /\ manual = NoCall
    /\ sync = NoCall
    /\ align = NoCall
    /\ budget = Budget

Spend(kind) ==
    /\ budget[kind] > 0 /\ budget["any"] > 0
    /\ budget' = [budget EXCEPT ![kind] = @ - 1, !["any"] = @ - 1]

(* Another writer of the upstream moves one of its refs.                   *)
Foreign ==
    /\ Spend("foreign")
    /\ \E r \in Refs, c \in Oids :
          c # upstream[r] /\ upstream' = [upstream EXCEPT ![r] = c]
    /\ UNCHANGED <<local, pending, base, push, task, flags, timer, callers>>

-----------------------------------------------------------------------------
(* Mutant: a task is queued beside the running one.                        *)
EnqueueBeside ==
    /\ IF queued
       THEN UNCHANGED <<queued, task>>
       ELSE /\ queued' = TRUE
            /\ \E k \in Tasks :
                  /\ task[k].pc = "free"
                  /\ task' = [task EXCEPT ![k] = [NoTask EXCEPT !.pc = "queued"]]
    /\ UNCHANGED <<running, releasing, budget>>

(* enqueue: nothing to do when the repository has a task queued or running *)
(* ("the running task checks pending before it ends"), else a new task.    *)
Enqueue ==
    /\ IF queued \/ running
       THEN UNCHANGED <<queued, task>>
       ELSE /\ queued' = TRUE
            /\ \E k \in Tasks :
                  /\ task[k].pc = "free"
                  /\ task' = [task EXCEPT ![k] = [NoTask EXCEPT !.pc = "queued"]]
    /\ UNCHANGED <<running, releasing, budget>>

(* The queue is full: queued is reset twice, by the Dropped callback that  *)
(* Submit runs and by enqueue itself when Submit has returned the error,   *)
(* each in a critical section of its own.                                  *)
EnqueueFull ==
    /\ ~queued /\ ~running
    /\ Spend("full")
    /\ queued' = TRUE
    /\ releasing' = releasing + 2
    /\ UNCHANGED <<running, task>>

Release ==
    /\ releasing > 0
    /\ releasing' = releasing - 1
    /\ queued' = FALSE
    /\ UNCHANGED <<local, upstream, pending, base, push, task, running, timer, callers, budget>>

-----------------------------------------------------------------------------
(* A downstream push, from the ref advertisement to OnRefsUpdated.         *)
PushAt(p, label) == push' = [push EXCEPT ![p].pc = label]
Ended == [NoPush EXCEPT !.pc = "done"]
PushEnd(p) == push' = [push EXCEPT ![p] = Ended]

(* The client has read the advertised refs and sends one command; pack and *)
(* commands are received.                                                  *)
PushStart(p) ==
    /\ push[p].pc = "idle"
    /\ \E r \in Refs, new \in Oids :
          /\ new # local[r]
          /\ push' = [push EXCEPT ![p] = [pc |-> "ls", ref |-> r, old |-> local[r],
                                          new |-> new, seen |-> NoRefs]]
    /\ UNCHANGED <<local, upstream, pending, base, task, flags, timer, callers, budget>>

(* Admit, refreshBase: ask the upstream for its refs; no answer rejects.   *)
PushLs(p) ==
    /\ push[p].pc = "ls"
    /\ \/ /\ push' = [push EXCEPT ![p].pc = "set", ![p].seen = upstream]
          /\ UNCHANGED budget
       \/ Spend("fault") /\ PushEnd(p)
    /\ UNCHANGED <<local, upstream, pending, base, task, flags, timer, callers>>

(* refreshBase: the whole base is replaced by that answer.                 *)
PushSetBase(p) ==
    /\ push[p].pc = "set"
    /\ base' = push[p].seen
    /\ push' = [push EXCEPT ![p].pc = "admit", ![p].seen = NoRefs]
    /\ UNCHANGED <<local, upstream, pending, task, flags, timer, callers, budget>>

(* Mutant: old is compared with the base, new with nothing.                *)
AdmitsAnyNew(r, old, new) ==
    /\ r \in Accepted
    /\ IF base[r] = Zero THEN old = Zero ELSE old = base[r]

(* admitOne: a new ref when the upstream has none, otherwise a fast        *)
(* forward, or an allowed deletion, of the very value the upstream has.    *)
Admits(r, old, new) ==
    /\ r \in Accepted
    /\ IF base[r] = Zero
       THEN old = Zero
       ELSE /\ old = base[r]
            /\ IF new = Zero THEN AllowDelete ELSE FF(base[r], new)

(* Admit, admitOne: the base is read again, whoever set it last.           *)
PushAdmit(p) ==
    /\ push[p].pc = "admit"
    /\ IF Admits(push[p].ref, push[p].old, push[p].new) THEN PushAt(p, "update") ELSE PushEnd(p)
    /\ UNCHANGED <<local, upstream, pending, base, task, flags, timer, callers, budget>>

(* RefStore.Update: compare-and-swap, or an abort that changes nothing.    *)
PushUpdate(p) ==
    /\ push[p].pc = "update"
    /\ \/ /\ local[push[p].ref] = push[p].old
          /\ local' = [local EXCEPT ![push[p].ref] = push[p].new]
          /\ push' = [push EXCEPT ![p] = [NoPush EXCEPT !.pc = "report", !.ref = push[p].ref]]
       \/ PushEnd(p) /\ UNCHANGED local
    /\ UNCHANGED <<upstream, pending, base, task, flags, timer, callers, budget>>

(* writeReportStatus: when the client is gone it fails, and the transport  *)
(* does not call OnRefsUpdated although the ref has moved.                 *)
PushReport(p) ==
    /\ push[p].pc = "report"
    /\ \/ PushAt(p, "mark") /\ UNCHANGED budget
       \/ Spend("fault") /\ PushEnd(p)
    /\ UNCHANGED <<local, upstream, pending, base, task, flags, timer, callers>>

(* OnRefsUpdated, markPending.                                             *)
PushMark(p) ==
    /\ push[p].pc = "mark"
    /\ pending' = pending \cup {push[p].ref}
    /\ PushAt(p, "enqueue")
    /\ UNCHANGED <<local, upstream, base, task, flags, timer, callers, budget>>

(* OnRefsUpdated, enqueue "push"; a full queue is only logged.             *)
PushEnqueue(p) ==
    /\ push[p].pc = "enqueue"
    /\ Enqueue \/ EnqueueFull
    /\ PushEnd(p)
    /\ UNCHANGED <<local, upstream, pending, base, timer, callers>>

Push(p) ==
    \/ PushStart(p) \/ PushLs(p) \/ PushSetBase(p) \/ PushAdmit(p)
    \/ PushUpdate(p) \/ PushReport(p) \/ PushMark(p) \/ PushEnqueue(p)

-----------------------------------------------------------------------------
(* The forward task: runRounds, runRound, git.PushRemote, applyRound.      *)
TaskAt(k, label) == task' = [task EXCEPT ![k].pc = label]
RoundOver(k, label) ==
    task' = [task EXCEPT ![k] = [NoTask EXCEPT !.round = task[k].round, !.pc = label]]

(* A worker runs the task.                                                 *)
TaskStart(k) ==
    /\ task[k].pc = "queued"
    /\ queued' = FALSE
    /\ running' = TRUE
    /\ TaskAt(k, "round")
    /\ UNCHANGED <<local, upstream, pending, base, push, releasing, timer, callers, budget>>

(* runRounds: copy pending; none, or no round left, ends the loop.         *)
TaskRound(k) ==
    /\ task[k].pc = "round"
    /\ IF pending = {} \/ task[k].round = MaxRounds
       THEN TaskAt(k, "retry")
       ELSE task' = [task EXCEPT ![k].pc = "read", ![k].todo = pending,
                                 ![k].round = @ + 1]
    /\ UNCHANGED <<local, upstream, pending, base, push, flags, timer, callers, budget>>

(* Mutant: a vanished ref is a deletion whatever the policy says.          *)
TaskReadDeletes(k) ==
    /\ task[k].pc = "read"
    /\ task' = [task EXCEPT ![k].pc = "advert",
                            ![k].spec = [r \in Refs |-> IF r \in task[k].todo
                                                        THEN local[r] ELSE Zero],
                            ![k].drop = {}, ![k].done = {}, ![k].clean = FALSE]
    /\ UNCHANGED <<local, upstream, pending, base, push, flags, timer, callers, budget>>

(* runRound: what to push is the refs' present values.  A ref that is gone *)
(* is a deletion, dropped when the repository does not forward deletions;  *)
(* so is a ref whose read fails: any error of RefStore.Get counts as gone. *)
TaskRead(k) ==
    /\ task[k].pc = "read"
    /\ \E failed \in SUBSET task[k].todo :
          LET todo == task[k].todo
              gone == failed \cup {r \in todo : local[r] = Zero}
              refused == IF AllowDelete THEN {} ELSE gone
          IN /\ IF failed = {} THEN UNCHANGED budget ELSE Spend("read")
             /\ task' = [task EXCEPT ![k].pc = IF todo = refused THEN "apply" ELSE "advert",
                                     ![k].spec = [r \in Refs |-> IF r \in todo \ gone
                                                                 THEN local[r] ELSE Zero],
                                     ![k].drop = refused, ![k].done = {}, ![k].clean = FALSE]
    /\ UNCHANGED <<local, upstream, pending, base, push, flags, timer, callers>>

(* pushOnce: the upstream advertises its refs; PushRemote gives up when it *)
(* cannot be reached.                                                      *)
TaskAdvert(k) ==
    /\ task[k].pc = "advert"
    /\ \/ /\ task' = [task EXCEPT ![k].pc = "send", ![k].seen = upstream]
          /\ UNCHANGED budget
       \/ Spend("fault") /\ RoundOver(k, "retry")
    /\ UNCHANGED <<local, upstream, pending, base, push, flags, timer, callers>>

Asked(k) == task[k].todo \ task[k].drop
Commands(k) == {r \in Asked(k) : task[k].spec[r] # task[k].seen[r]}

(* The commands of the request the upstream carries out: it compares each  *)
(* with the advertised value and may refuse some by a policy of its own.   *)
Granted(k, refused) == {r \in Commands(k) \ refused : upstream[r] = task[k].seen[r]}
Written(k, refused) ==
    [r \in Refs |-> IF r \in Granted(k, refused) THEN task[k].spec[r] ELSE upstream[r]]

(* pushOnce: the request is carried out and its report-status received.    *)
TaskSend(k) ==
    /\ task[k].pc = "send"
    /\ \E refused \in SUBSET Commands(k) :
          LET granted == Granted(k, refused)
          IN /\ IF refused = {} THEN UNCHANGED budget ELSE Spend("refuse")
             /\ upstream' = Written(k, refused)
             /\ task' = [task EXCEPT
                   ![k].pc = "apply",
                   ![k].done = (Asked(k) \ Commands(k)) \cup granted,
                   ![k].drop = @ \cup (Commands(k) \ granted),
                   ![k].clean = (Commands(k) = granted),
                   ![k].seen = NoRefs, ![k].todo = {}]
    /\ UNCHANGED <<local, pending, base, push, flags, timer, callers>>

(* The request or its answer is lost; PushRemote tries again or gives up.  *)
TaskSendLost(k) ==
    /\ task[k].pc = "send"
    /\ Commands(k) # {}
    /\ Spend("fault")
    /\ upstream' = Written(k, {}) \/ UNCHANGED upstream
    /\ \/ task' = [task EXCEPT ![k].pc = "advert", ![k].seen = NoRefs]
       \/ RoundOver(k, "retry")
    /\ UNCHANGED <<local, pending, base, push, flags, timer, callers>>

(* applyRound, under the manager's lock: done refs advance the base, done  *)
(* and dropped refs leave pending.                                         *)
TaskApply(k) ==
    /\ task[k].pc = "apply"
    /\ base' = [r \in Refs |-> IF r \in task[k].done THEN task[k].spec[r] ELSE base[r]]
    /\ pending' = pending \ (task[k].done \cup task[k].drop)
    /\ RoundOver(k, IF task[k].clean THEN "round" ELSE "retry")
    /\ UNCHANGED <<local, upstream, push, flags, timer, callers, budget>>

(* Mutant: the timer is never armed.                                       *)
TaskRetryUnarmed(k) ==
    /\ task[k].pc = "retry"
    /\ timer' = FALSE
    /\ TaskAt(k, "finish")
    /\ UNCHANGED <<local, upstream, pending, base, push, flags, callers, budget>>

(* updateRetry: cancel the timer when nothing is pending, else arm it.     *)
TaskRetry(k) ==
    /\ task[k].pc = "retry"
    /\ timer' = IF pending = {} THEN FALSE ELSE timer \/ RetryOn
    /\ TaskAt(k, "finish")
    /\ UNCHANGED <<local, upstream, pending, base, push, flags, callers, budget>>

(* The task resets running, after the last look at pending.                *)
TaskFinish(k) ==
    /\ task[k].pc = "finish"
    /\ running' = FALSE
    /\ task' = [task EXCEPT ![k] = NoTask]
    /\ UNCHANGED <<local, upstream, pending, base, push, queued, releasing, timer, callers, budget>>

Task(k) ==
    \/ TaskStart(k) \/ TaskRound(k) \/ TaskRead(k) \/ TaskAdvert(k) \/ TaskSend(k)
    \/ TaskSendLost(k) \/ TaskApply(k) \/ TaskRetry(k) \/ TaskFinish(k)

(* The timer fires: enqueue "retry".  Its delay, a second at least, leaves *)
(* the task that has armed it the time to reset running.                   *)
TimerFire ==
    /\ timer
    /\ \A k \in Tasks : task[k].pc # "finish"
    /\ timer' = FALSE
    /\ Enqueue \/ EnqueueFull
    /\ UNCHANGED <<local, upstream, pending, base, push, callers>>

-----------------------------------------------------------------------------
(* RelayNow: refresh the base, mark what is ahead of it, enqueue "manual". *)
ManualLs ==
    /\ manual.pc = "idle"
    /\ Spend("manual")
    /\ manual' = [NoCall EXCEPT !.pc = "set", !.seen = upstream]
    /\ UNCHANGED <<local, upstream, pending, base, push, task, flags, timer, sync, align>>

ManualSetBase ==
    /\ manual.pc = "set"
    /\ base' = manual.seen
    /\ manual' = [NoCall EXCEPT !.pc = "list"]
    /\ UNCHANGED <<local, upstream, pending, push, task, flags, timer, sync, align, budget>>

(* localAheadRefs: absent upstream, or a proper fast forward of the base.  *)
Ahead == {r \in Accepted : /\ local[r] \notin {Zero, base[r]}
                           /\ base[r] = Zero \/ FF(base[r], local[r])}

(* The base is read again, whoever set it last, then the local refs.       *)
ManualList ==
    /\ manual.pc = "list"
    /\ manual' = [NoCall EXCEPT !.pc = "mark", !.protect = Ahead]
    /\ UNCHANGED <<local, upstream, pending, base, push, task, flags, timer, sync, align, budget>>

ManualMark ==
    /\ manual.pc = "mark"
    /\ pending' = pending \cup manual.protect
    /\ manual' = [NoCall EXCEPT !.pc = "enqueue"]
    /\ UNCHANGED <<local, upstream, base, push, task, flags, timer, sync, align, budget>>

ManualEnqueue ==
    /\ manual.pc = "enqueue"
    /\ Enqueue \/ EnqueueFull
    /\ manual' = NoCall
    /\ UNCHANGED <<local, upstream, pending, base, push, timer, sync, align>>

-----------------------------------------------------------------------------
(* SyncRepository: snapshot pending, then fetch without any lock.          *)
SyncStart ==
    /\ sync.pc = "idle"
    /\ Spend("sync")
    /\ sync' = [NoCall EXCEPT !.pc = "advert", !.protect = pending]
    /\ UNCHANGED <<local, upstream, pending, base, push, task, flags, timer, manual, align>>

(* fetchOnce: the advertisement; an empty or unreachable upstream ends it. *)
SyncAdvert ==
    /\ sync.pc = "advert"
    /\ \/ upstream # NoRefs /\ sync' = [sync EXCEPT !.pc = "list", !.seen = upstream]
       \/ sync' = NoCall
    /\ UNCHANGED <<local, upstream, pending, base, push, task, flags, timer, manual, align, budget>>

Tips(heads) == {heads[r] : r \in Refs} \ {Zero}

(* Whether the upstream's pack for these wants and haves holds an object:  *)
(* a have tells it something only if one of its refs reaches it.           *)
PackSent(wants, haves) ==
    LET common == {h \in haves : \E t \in Tips(upstream) : FF(h, t)}
    IN \E w \in wants : \A h \in common : ~FF(w, h)

(* fetchOnce: list the local refs and fetch; "up to date" (all wanted ids  *)
(* are local tips, or an empty pack) ends it without touching a ref.       *)
SyncList ==
    /\ sync.pc = "list"
    /\ LET wants == Tips(sync.seen)
           haves == Tips(local)
       IN sync' = IF ~(wants \subseteq haves) /\ PackSent(wants, haves)
                  THEN [sync EXCEPT !.pc = "apply", !.mine = local]
                  ELSE NoCall
    /\ UNCHANGED <<local, upstream, pending, base, push, task, flags, timer, manual, align, budget>>

Destructive(r) ==
    /\ sync.mine[r] # Zero
    /\ sync.seen[r] = Zero \/ ~FF(sync.mine[r], sync.seen[r])

(* fetchOnce: unprotected refs take the advertised value or disappear, by  *)
(* compare-and-swap on the value listed; refs about to lose commits are    *)
(* held back when they cannot be archived.                                 *)
SyncApply ==
    /\ sync.pc = "apply"
    /\ \E held \in {{}, {r \in Refs : Destructive(r)}} :
          local' = [r \in Refs |-> IF r \notin sync.protect \cup held /\ local[r] = sync.mine[r]
                                   THEN sync.seen[r] ELSE local[r]]
    /\ sync' = NoCall
    /\ UNCHANGED <<upstream, pending, base, push, task, flags, timer, manual, align, budget>>

-----------------------------------------------------------------------------
(* AlignToUpstream: refresh the base, list the local refs.                 *)
AlignLs ==
    /\ align.pc = "idle"
    /\ Spend("align")
    /\ align' = [NoCall EXCEPT !.pc = "set", !.seen = upstream]
    /\ UNCHANGED <<local, upstream, pending, base, push, task, flags, timer, manual, sync>>

AlignSetBase ==
    /\ align.pc = "set"
    /\ base' = align.seen
    /\ align' = [NoCall EXCEPT !.pc = "list"]
    /\ UNCHANGED <<local, upstream, pending, push, task, flags, timer, manual, sync, budget>>

(* The base is read again, whoever set it last, then the local refs.       *)
AlignList ==
    /\ align.pc = "list"
    /\ align' = [align EXCEPT !.pc = "update", !.seen = base, !.mine = local]
    /\ UNCHANGED <<local, upstream, pending, base, push, task, flags, timer, manual, sync, budget>>

(* Every differing ref is set to the base by compare-and-swap.  For a ref  *)
(* the repository lacks, old is the map's missing entry, the empty string, *)
(* which is not the zero oid: that update always fails.                    *)
AlignUpdate ==
    /\ align.pc = "update"
    /\ local' = [r \in Refs |-> IF r \in Accepted /\ align.mine[r] # Zero
                                   /\ local[r] = align.mine[r]
                                THEN align.seen[r] ELSE local[r]]
    /\ align' = [align EXCEPT !.pc = "clear"]
    /\ UNCHANGED <<upstream, pending, base, push, task, flags, timer, manual, sync, budget>>

(* Pending is emptied and the timer cancelled, whatever the updates did.   *)
AlignClear ==
    /\ align.pc = "clear"
    /\ pending' = {}
    /\ timer' = FALSE
    /\ align' = NoCall
    /\ UNCHANGED <<local, upstream, base, push, task, flags, manual, sync, budget>>

-----------------------------------------------------------------------------
(* The process dies and starts again: refs and pending are on disk, and    *)
(* Bootstrap enqueues "startup" when something is pending.                 *)
Crash ==
    /\ Spend("crash")
    /\ push' = [p \in Pushes |-> IF push[p].pc = "idle" THEN NoPush ELSE Ended]
    /\ IF pending = {}
       THEN task' = [k \in Tasks |-> NoTask]
       ELSE \E k0 \in Tasks :
               task' = [k \in Tasks |-> IF k = k0 THEN [NoTask EXCEPT !.pc = "queued"]
                                        ELSE NoTask]
    /\ queued' = (pending # {})
    /\ running' = FALSE
    /\ releasing' = 0
    /\ timer' = FALSE
    /\ base' = NoRefs
    /\ manual' = NoCall
    /\ sync' = NoCall
    /\ align' = NoCall
    /\ UNCHANGED <<local, upstream, pending>>

Next ==
    \/ \E p \in Pushes : Push(p)
    \/ \E k \in Tasks : Task(k)
    \/ TimerFire \/ Release
    \/ ManualLs \/ ManualSetBase \/ ManualList \/ ManualMark \/ ManualEnqueue
    \/ SyncStart \/ SyncAdvert \/ SyncList \/ SyncApply
    \/ AlignLs \/ AlignSetBase \/ AlignList \/ AlignUpdate \/ AlignClear
    \/ Foreign \/ Crash

Spec == Init /\ [][Next]_vars

(* Running code runs on: a request after its ref has moved, a task a       *)
(* worker has taken or will take, an armed timer, RelayNow once the        *)
(* upstream has answered.                                                  *)
Fairness ==
    /\ \A p \in Pushes : WF_vars(PushReport(p) \/ PushMark(p) \/ PushEnqueue(p))
    /\ \A k \in Tasks : WF_vars(Task(k))
    /\ WF_vars(TimerFire)
    /\ WF_vars(Release)
    /\ WF_vars(ManualSetBase \/ ManualList \/ ManualMark \/ ManualEnqueue)

FairSpec == Spec /\ Fairness

-----------------------------------------------------------------------------
Undisturbed(kinds) == \A kind \in kinds : budget[kind] = Budget[kind]

(* What makes a forward a fast forward: as long as nobody else writes the  *)
(* upstream, nothing is pulled or aligned and deletions are not forwarded, *)
(* a local ref is never behind or beside the upstream's, whatever the      *)
(* order in which concurrent pushes share the one base (relay_base.go).    *)
LocalAhead ==
    ~AllowDelete /\ Undisturbed({"foreign", "sync", "align"}) =>
        \A r \in Refs : \/ Zero \in {local[r], upstream[r]}
                        \/ FF(upstream[r], local[r])

ForwardStep == \A r \in Refs : upstream[r] = Zero \/ FF(upstream[r], upstream'[r])

(* Under the same conditions, and as long as the queue was never full, no   *)
(* step moves a ref of the upstream any other way than forward, lost        *)
(* requests, retries and crashes included: what the task has read is still  *)
(* ahead of the upstream when it is sent (relay_manager.go 412).            *)
UpstreamForward ==
    [][~AllowDelete /\ Undisturbed({"foreign", "sync", "align", "full"})' => ForwardStep]_vars

(* A repository that does not forward deletions never deletes a ref of the *)
(* upstream, also when a pull, an align or a crash has removed the local   *)
(* ref while it was pending: only another writer does.                     *)
UpstreamKept ==
    [][~AllowDelete =>
          \A r \in Refs : upstream[r] # Zero /\ upstream'[r] = Zero =>
                              budget'["foreign"] # budget["foreign"]]_vars

(* One forward task per repository (relay_manager.go: "per-repo dedup, a   *)
(* place is taken when the task is queued"), as long as the queue was      *)
(* never full; a full queue resets queued once too often.                  *)
OneTask ==
    Undisturbed({"full"}) =>
        /\ Cardinality({k \in Tasks : task[k].pc # "free"}) <= 1
        /\ queued = (\E k \in Tasks : task[k].pc = "queued")
        /\ running = (\E k \in Tasks : task[k].pc \notin {"free", "queued"})

(* A pull does not throw away what a client was told is accepted: without  *)
(* another writer, an accepted value stays reachable from the local ref.   *)
PullKeepsPushes ==
    [][Undisturbed(Kinds \ {"sync", "any"})' =>
          \A r \in Accepted : Zero \notin {local[r], upstream[r]} /\ FF(upstream[r], local[r]) =>
                                  FF(local[r], local'[r])]_vars

(* What a push marked as pending, a value or a deletion, is forwarded in   *)
(* the end: connection failures, lost answers and a restart are made good  *)
(* by the retry timer or by the startup task.  A read of a local ref that  *)
(* failed is the exception: it forwards a deletion or drops the ref.       *)
Delivered ==
    \A r \in Accepted, c \in Oids :
        (r \in pending /\ local[r] = c) ~>
            (upstream[r] = c \/ FF(c, upstream[r]) \/ ~Undisturbed({"read"}))
=============================================================================
