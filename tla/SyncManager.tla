---------------------------- MODULE SyncManager ----------------------------
(***************************************************************************)
(* The mirror schedules of sync_manager.go with the HTTP handlers that      *)
(* change them: one goroutine per scheduled mirror, one slot per            *)
(* repository taken when a sync is queued, and the queue's workers.  sm.mu  *)
(* makes Register, Unregister, tryAcquire and release single steps; nothing *)
(* holds it across two of them.  The queue (module TaskQueue) is a bounded  *)
(* channel whose Submit is two steps, as in the code: it asks whether the   *)
(* queue is closed, and sends after the lock is given back.                 *)
(***************************************************************************)
EXTENDS Naturals, FiniteSets, Sequences, SequencesExt

CONSTANTS
    Repos,          \* repository names
    Schedulers,     \* scheduler goroutines alive at the same time
    Callers,        \* HTTP requests, one operation each
    Workers,        \* workers of the task queue
    Capacity,       \* capacity of the task queue
    Boot,           \* Boot[r]: interval in the metadata when the process starts
    Intervals,      \* sync intervals a mirror can be given; 0 is "manual only"
    Absent,         \* interval of a name without a repository
    Gone,           \* interval of a deleted one: its directory keeps the name
    None            \* no scheduler

ASSUME SyncAssumption ==
    /\ Repos # {}
    /\ Schedulers \cap Callers = {}
    /\ IsFiniteSet(Repos) /\ IsFiniteSet(Schedulers)
    /\ Cardinality(Repos) <= Cardinality(Schedulers)
    /\ Capacity \in Nat \ {0}
    /\ Intervals \subseteq Nat
    /\ Boot \in [Repos -> Intervals \cup {Absent}]
    /\ Absent \notin Nat /\ Gone \notin Nat /\ Absent # Gone
    /\ None \notin Schedulers

VARIABLES
    interval,   \* interval[r]: SyncInterval in the repository's metadata
    mirrors,    \* sm.mirrors: the scheduler of each scheduled repository
    intervals,  \* sm.intervals: the interval it was started with
    inflight,   \* sm.inflight: repositories whose slot is taken
    active,     \* sm.active: repositories shown as syncing
    at,         \* at[a]: where goroutine a stands (schedulers and callers)
    on,         \* on[a]: the repository a works on
    op,         \* op[c]: the operation of caller c
    want,       \* want[c]: the interval c replaced, then the one it has read
    stopped,    \* schedulers whose stop channel is closed
    queue,      \* tasks in the channel: [repo, by]
    work,       \* work[w]: the task worker w holds, with the step it is at
    answer,     \* answer[c]: what the outcome channel of c holds
    stop,       \* where Stop stands
    robbed,     \* history: repositories whose slot a second release has freed
    crossed     \* history: repositories two requests changed at the same time

Actors == Schedulers \cup Callers
Task == [repo : Repos, by : Actors]
Idle == [at |-> "idle"]

callVars == <<op, want>>
schedVars == <<mirrors, intervals, stopped>>
history == <<robbed, crossed>>
vars == <<interval, mirrors, intervals, inflight, active, at, on, op, want,
          stopped, queue, work, answer, stop, robbed, crossed>>

SomeRepo == CHOOSE r \in Repos : TRUE
Alive(s) == at[s] # "idle"
Changing(c) == at[c] \in {"update", "unregister", "register", "remove"}

(* main.go 98-112: every mirror with an interval is registered at start.    *)
Init ==
    /\ interval = Boot
    /\ LET boot == CHOOSE f \in [Repos -> Schedulers] :
                      \A r, q \in Repos : f[r] = f[q] => r = q
           timed == {r \in Repos : interval[r] \in Nat \ {0}}
           started == {boot[r] : r \in timed}
       IN  /\ mirrors = [r \in Repos |-> IF r \in timed THEN boot[r] ELSE None]
           /\ intervals = [r \in Repos |-> IF r \in timed THEN interval[r] ELSE 0]
           /\ at = [a \in Actors |-> IF a \in started THEN "acquire" ELSE "idle"]
           /\ on = [a \in Actors |-> IF a \in started
                                     THEN CHOOSE r \in timed : boot[r] = a
                                     ELSE SomeRepo]
    /\ inflight = {} /\ active = {} /\ stopped = {}
    /\ op = [c \in Callers |-> "none"]
    /\ want = [c \in Callers |-> 0]
    /\ queue = <<>>
    /\ work = [w \in Workers |-> Idle]
    /\ answer = [c \in Callers |-> "none"]
    /\ stop = "idle"
    /\ robbed = {} /\ crossed = {}

Goto(a, place) == at' = [at EXCEPT ![a] = place]

Mirrors == {r \in Repos : interval[r] \in Nat}

(* A request that returns forgets its local state.                          *)
Return(c) ==
    /\ Goto(c, "done")
    /\ on' = [on EXCEPT ![c] = SomeRepo]
    /\ op' = [op EXCEPT ![c] = "none"]
    /\ want' = [want EXCEPT ![c] = 0]
    /\ answer' = [answer EXCEPT ![c] = "none"]

(* doSync returns to the scheduler's loop, an enqueue to the request.       *)
EnqueueReturns(a) ==
    \/ a \in Schedulers /\ Goto(a, "loop") /\ UNCHANGED <<on, callVars, answer>>
    \/ a \in Callers /\ Return(a)

Overlap(c, r) ==
    crossed' = IF \E d \in Callers \ {c} : on[d] = r /\ Changing(d)
               THEN crossed \cup {r} ELSE crossed

-----------------------------------------------------------------------------
Release(r) == inflight' = inflight \ {r} /\ active' = active \ {r}

(* sendOutcome: only a caller that still waits will read it.                *)
Outcome(a, result) ==
    answer' = IF at[a] = "wait" THEN [answer EXCEPT ![a] = result] ELSE answer

(* tryAcquire: a taken slot refuses the sync.                               *)
Acquire(a) ==
    /\ at[a] = "acquire"
    /\ \/ /\ on[a] \in inflight
          /\ EnqueueReturns(a)
          /\ UNCHANGED inflight
       \/ /\ on[a] \notin inflight
          /\ inflight' = inflight \cup {on[a]}
          /\ Goto(a, "submit")
          /\ UNCHANGED <<on, callVars, answer>>
    /\ UNCHANGED <<interval, schedVars, active, queue, work, stop, history>>

(* queue.Submit: the closed flag is read under q.mu and the task sent after *)
(* unlocking, so Stop can close, wait and drain in between.  A closed queue *)
(* and a full channel call Dropped.                                         *)
Closed == stop \in {"closed", "done"}

SubmitOpen(a) ==
    /\ at[a] = "submit"
    /\ ~Closed
    /\ Goto(a, "send")
    /\ UNCHANGED <<interval, schedVars, inflight, active, on, callVars, queue,
                   work, answer, stop, history>>

SubmitOk(a) ==
    /\ at[a] = "send"
    /\ Len(queue) < Capacity
    /\ queue' = Append(queue, [repo |-> on[a], by |-> a])
    /\ \/ a \in Callers /\ op[a] = "now" /\ Goto(a, "wait")
          /\ UNCHANGED <<on, callVars, answer>>
       \/ ~(a \in Callers /\ op[a] = "now") /\ EnqueueReturns(a)
    /\ UNCHANGED <<interval, schedVars, inflight, active, work, stop, history>>

SubmitDropped(a) ==
    /\ \/ at[a] = "submit" /\ Closed
       \/ at[a] = "send" /\ Len(queue) >= Capacity
    /\ Release(on[a])
    /\ Goto(a, "refused")
    /\ UNCHANGED <<interval, schedVars, on, callVars, queue, work, answer, stop,
                   history>>

(* enqueue releases the slot once more when Submit has failed.              *)
ReleaseAgain(a) ==
    /\ at[a] = "refused"
    /\ Release(on[a])
    /\ robbed' = IF on[a] \in inflight THEN robbed \cup {on[a]} ELSE robbed
    /\ EnqueueReturns(a)
    /\ UNCHANGED <<interval, schedVars, queue, work, stop, crossed>>

Enqueue(a) ==
    \/ Acquire(a) \/ SubmitOpen(a) \/ SubmitOk(a) \/ SubmitDropped(a)
    \/ ReleaseAgain(a)

-----------------------------------------------------------------------------
(* A scheduler between two ticks: the ticker, or the closed stop channel.   *)
Tick(s) ==
    /\ at[s] = "loop"
    /\ Goto(s, "acquire")
    /\ UNCHANGED <<interval, schedVars, inflight, active, on, callVars, queue,
                   work, answer, stop, history>>

SchedulerEnds(s) ==
    /\ at[s] = "loop"
    /\ s \in stopped
    /\ Goto(s, "idle")
    /\ stopped' = stopped \ {s}
    /\ UNCHANGED <<interval, mirrors, intervals, inflight, active, on, callVars,
                   queue, work, answer, stop, history>>

(* Register: nothing for a manual mirror or an unchanged interval; else the *)
(* old scheduler is told to stop and a new one started.                     *)
(* Mutant: a mirror without an interval is scheduled as well.               *)
NeedsSchedulerAlways(r, i) == mirrors[r] = None \/ intervals[r] # i

NeedsScheduler(r, i) == i # 0 /\ (mirrors[r] = None \/ intervals[r] # i)

(* Mutant: a changed interval starts a scheduler beside the old one.        *)
StartSchedulerBeside(r, i, s) ==
    /\ ~Alive(s)
    /\ stopped' = stopped
    /\ mirrors' = [mirrors EXCEPT ![r] = s]
    /\ intervals' = [intervals EXCEPT ![r] = i]

StartScheduler(r, i, s) ==
    /\ ~Alive(s)
    /\ stopped' = stopped \cup ({mirrors[r]} \ {None})
    /\ mirrors' = [mirrors EXCEPT ![r] = s]
    /\ intervals' = [intervals EXCEPT ![r] = i]

Register(c) ==
    /\ at[c] = "register"
    /\ \/ /\ ~NeedsScheduler(on[c], want[c])
          /\ Return(c)
          /\ UNCHANGED schedVars
       \/ /\ NeedsScheduler(on[c], want[c])
          /\ \E s \in Schedulers :
                /\ StartScheduler(on[c], want[c], s)
                /\ at' = [at EXCEPT ![s] = "acquire", ![c] = "done"]
                /\ on' = [on EXCEPT ![s] = on[c], ![c] = SomeRepo]
          /\ op' = [op EXCEPT ![c] = "none"]
          /\ want' = [want EXCEPT ![c] = 0]
          /\ UNCHANGED answer
    /\ UNCHANGED <<interval, inflight, active, queue, work, stop, history>>

(* Mutant: the stop channel of an unregistered scheduler stays open.        *)
UnregisterForgets(c) ==
    /\ at[c] = "unregister"
    /\ LET r == on[c]
       IN  /\ stopped' = stopped
           /\ mirrors' = [mirrors EXCEPT ![r] = None]
           /\ intervals' = [intervals EXCEPT ![r] = 0]
    /\ Goto(c, IF op[c] = "delete" THEN "remove" ELSE "register")
    /\ UNCHANGED <<interval, inflight, active, on, callVars, queue, work, answer,
                   stop, history>>

(* Unregister: the stop channel is closed and the schedule forgotten.       *)
Unregister(c) ==
    /\ at[c] = "unregister"
    /\ LET r == on[c]
       IN  /\ stopped' = stopped \cup ({mirrors[r]} \ {None})
           /\ mirrors' = [mirrors EXCEPT ![r] = None]
           /\ intervals' = [intervals EXCEPT ![r] = 0]
    /\ Goto(c, IF op[c] = "delete" THEN "remove" ELSE "register")
    /\ UNCHANGED <<interval, inflight, active, on, callVars, queue, work, answer,
                   stop, history>>

-----------------------------------------------------------------------------
(* The requests.  A sync is asked for: SyncNow waits, SyncAsync does not.   *)
Begin(c, kind, r, place) ==
    /\ at[c] = "idle"
    /\ op' = [op EXCEPT ![c] = kind]
    /\ on' = [on EXCEPT ![c] = r]
    /\ Goto(c, place)

RequestSync(c, r) ==
    /\ r \in Mirrors
    /\ \E kind \in {"now", "async"} : Begin(c, kind, r, "acquire")
    /\ UNCHANGED <<interval, schedVars, inflight, active, want, queue, work,
                   answer, stop, history>>

(* createRepo, up to Register: the snapshot GetRepository returns.          *)
CreateMirror(c, r, i) ==
    /\ interval[r] = Absent
    /\ Begin(c, "create", r, "register")
    /\ interval' = [interval EXCEPT ![r] = i]
    /\ want' = [want EXCEPT ![c] = i]
    /\ Overlap(c, r)
    /\ UNCHANGED <<schedVars, inflight, active, queue, work, answer, stop, robbed>>

(* updateSettings: the metadata change is one step under the repositories'  *)
(* lock; when saving it fails the handler answers without rescheduling.     *)
UpdateSettings(c, r, i) ==
    /\ r \in Mirrors
    /\ interval' = [interval EXCEPT ![r] = i]
    /\ want' = [want EXCEPT ![c] = interval[r]]
    /\ Begin(c, "update", r, "update")
    /\ Overlap(c, r)
    /\ UNCHANGED <<schedVars, inflight, active, queue, work, answer, stop, robbed>>

UpdateSettingsUnsaved(c, r, i) ==
    /\ r \in Mirrors
    /\ interval' = [interval EXCEPT ![r] = i]
    /\ at[c] = "idle"
    /\ Goto(c, "done")
    /\ crossed' = crossed \cup {r}
    /\ UNCHANGED <<schedVars, inflight, active, on, callVars, queue, work, answer,
                   stop, robbed>>

(* GetRepository after the update: a snapshot that may already be newer,    *)
(* compared with the interval this update replaced.                         *)
ReadUpdated(c) ==
    /\ at[c] = "update"
    /\ \/ interval[on[c]] \in {Gone, want[c]} /\ Return(c)
       \/ /\ interval[on[c]] \notin {Gone, want[c]}
          /\ want' = [want EXCEPT ![c] = interval[on[c]]]
          /\ Goto(c, "unregister")
          /\ UNCHANGED <<on, op, answer>>
    /\ UNCHANGED <<interval, schedVars, inflight, active, queue, work, stop, history>>

(* deleteRepo: unscheduled first, then marked deleted, which can fail.      *)
DeleteRepo(c, r) ==
    /\ r \in Mirrors
    /\ Begin(c, "delete", r, "unregister")
    /\ Overlap(c, r)
    /\ UNCHANGED <<interval, schedVars, inflight, active, want, queue, work,
                   answer, stop, robbed>>

MarkDeleted(c) ==
    /\ at[c] = "remove"
    /\ Return(c)
    /\ \/ interval' = [interval EXCEPT ![on[c]] = Gone] /\ UNCHANGED crossed
       \/ crossed' = crossed \cup {on[c]} /\ UNCHANGED interval
    /\ UNCHANGED <<schedVars, inflight, active, queue, work, stop, robbed>>

Answered(c) ==
    /\ at[c] = "wait"
    /\ answer[c] # "none"
    /\ Return(c)
    /\ UNCHANGED <<interval, schedVars, inflight, active, queue, work, stop, history>>

(* Mutant: the caller that leaves gives the slot of its task back.          *)
WaitTimesOutReleases(c) ==
    /\ at[c] = "wait"
    /\ Return(c)
    /\ Release(on[c])
    /\ UNCHANGED <<interval, schedVars, queue, work, stop, history>>

(* manualSyncQueueWait: the caller leaves, its task stays where it is.      *)
WaitTimesOut(c) ==
    /\ at[c] = "wait"
    /\ Return(c)
    /\ UNCHANGED <<interval, schedVars, inflight, active, queue, work, stop, history>>

-----------------------------------------------------------------------------
(* A worker runs a task: markActive, runSync, the outcome and markActive     *)
(* again, then release.  A worker of a closed queue may still pick a task   *)
(* (at most one, module TaskQueue), until Stop has seen it end.             *)
Take(w) ==
    /\ work[w] = Idle
    /\ queue # <<>>
    /\ stop # "done"
    /\ work' = [work EXCEPT ![w] = [at |-> "sync", task |-> Head(queue)]]
    /\ queue' = Tail(queue)
    /\ active' = active \cup {Head(queue).repo}
    /\ UNCHANGED <<interval, schedVars, inflight, at, on, callVars, answer, stop,
                   history>>

SyncEnds(w) ==
    /\ work[w].at = "sync"
    /\ work' = [work EXCEPT ![w].at = "synced"]
    /\ active' = active \ {work[w].task.repo}
    /\ Outcome(work[w].task.by, "synced")
    /\ UNCHANGED <<interval, schedVars, inflight, at, on, callVars, queue, stop,
                   history>>

(* Mutant: a task that ends does not release its slot.                      *)
TaskEndsKeeps(w) ==
    /\ work[w].at = "synced"
    /\ work' = [work EXCEPT ![w] = Idle]
    /\ UNCHANGED <<inflight, active>>
    /\ UNCHANGED <<interval, schedVars, at, on, callVars, queue, answer, stop,
                   history>>

TaskEnds(w) ==
    /\ work[w].at = "synced"
    /\ work' = [work EXCEPT ![w] = Idle]
    /\ Release(work[w].task.repo)
    /\ UNCHANGED <<interval, schedVars, at, on, callVars, queue, answer, stop,
                   history>>

-----------------------------------------------------------------------------
(* Stop: every schedule is told to end and forgotten, their goroutines are  *)
(* waited for, then the queue is closed, its workers are waited for, and    *)
(* what is left in it is dropped.                                           *)
StopSweep ==
    /\ stop = "idle"
    /\ stop' = "waiting"
    /\ stopped' = stopped \cup ({mirrors[r] : r \in Repos} \ {None})
    /\ mirrors' = [r \in Repos |-> None]
    /\ intervals' = [r \in Repos |-> 0]
    /\ UNCHANGED <<interval, inflight, active, at, on, callVars, queue, work,
                   answer, history>>

StopCloses ==
    /\ stop = "waiting"
    /\ ~\E s \in Schedulers : Alive(s)
    /\ stop' = "closed"
    /\ UNCHANGED <<interval, schedVars, inflight, active, at, on, callVars,
                   queue, work, answer, history>>

(* Mutant: the drain does not call Dropped for the slot.                    *)
StopDrainsKeeps ==
    /\ stop = "closed"
    /\ \A w \in Workers : work[w] = Idle
    /\ stop' = "done"
    /\ LET dropped == ToSet(queue)
       IN  /\ inflight' = inflight
           /\ active' = active \ {t.repo : t \in dropped}
           /\ answer' = [c \in Callers |->
                           IF at[c] = "wait" /\ \E t \in dropped : t.by = c
                           THEN "full" ELSE answer[c]]
    /\ queue' = <<>>
    /\ UNCHANGED <<interval, schedVars, at, on, callVars, work, history>>

StopDrains ==
    /\ stop = "closed"
    /\ \A w \in Workers : work[w] = Idle
    /\ stop' = "done"
    /\ LET dropped == ToSet(queue)
       IN  /\ inflight' = inflight \ {t.repo : t \in dropped}
           /\ active' = active \ {t.repo : t \in dropped}
           /\ answer' = [c \in Callers |->
                           IF at[c] = "wait" /\ \E t \in dropped : t.by = c
                           THEN "full" ELSE answer[c]]
    /\ queue' = <<>>
    /\ UNCHANGED <<interval, schedVars, at, on, callVars, work, history>>

Request(c) ==
    \E r \in Repos :
       \/ RequestSync(c, r)
       \/ DeleteRepo(c, r)
       \/ \E i \in Intervals :
             CreateMirror(c, r, i) \/ UpdateSettings(c, r, i)
             \/ UpdateSettingsUnsaved(c, r, i)

Continue(c) ==
    \/ Enqueue(c) \/ Register(c) \/ Unregister(c) \/ ReadUpdated(c)
    \/ MarkDeleted(c) \/ Answered(c) \/ WaitTimesOut(c)

Work(w) == Take(w) \/ SyncEnds(w) \/ TaskEnds(w)

Next ==
    \/ \E c \in Callers : Request(c) \/ Continue(c)
    \/ \E s \in Schedulers : Enqueue(s) \/ Tick(s) \/ SchedulerEnds(s)
    \/ \E w \in Workers : Work(w)
    \/ StopSweep \/ StopCloses \/ StopDrains

Spec == Init /\ [][Next]_vars

(* Goroutines that can run do; a select with several ready cases picks each *)
(* of them in the long run (the Go specification's uniform choice), so the  *)
(* stop channel is not passed over forever.  Requests may never come.       *)
Fairness ==
    /\ \A s \in Schedulers : WF_vars(Enqueue(s)) /\ SF_vars(SchedulerEnds(s))
    /\ \A c \in Callers : WF_vars(Continue(c))
    /\ \A w \in Workers : WF_vars(Work(w))
    /\ WF_vars(StopCloses \/ StopDrains)

FairSpec == Spec /\ Fairness

-----------------------------------------------------------------------------
Queued(r) == {i \in DOMAIN queue : queue[i].repo = r}
Running(r) == {w \in Workers : work[w] # Idle /\ work[w].task.repo = r}
Submitting(r) == {a \in Actors : at[a] \in {"submit", "send"} /\ on[a] = r}

(* No two syncs of one repository are queued or running at the same time    *)
(* (sync_manager.go 24), unless a second release has freed the slot of a    *)
(* task that was still on its way.                                          *)
OneSync ==
    \A r \in Repos \ robbed :
       Cardinality(Queued(r)) + Cardinality(Running(r))
          + Cardinality(Submitting(r)) <= 1

(* A taken slot always has a task that stands for it, running, in the       *)
(* channel or about to be sent: no path through a drop, a drain or a        *)
(* refused submission leaves a slot without one.                            *)
SlotHasHolder ==
    \A r \in inflight :
       Queued(r) # {} \/ Running(r) # {} \/ Submitting(r) # {}

(* A scheduler whose stop channel is open is the one in the map: otherwise  *)
(* nobody could ever end it and the repository would be synced twice.       *)
NoStrayScheduler ==
    \A s \in Schedulers :
       Alive(s) /\ s \notin stopped => mirrors[on[s]] = s

(* Between requests the schedule follows the metadata: a mirror with an     *)
(* interval is scheduled with it, anything else is not.  Requests that      *)
(* changed the same repository at the same time, and those whose last step  *)
(* failed, can leave an old schedule behind.                                *)
ScheduleFollows ==
    \A r \in Repos \ crossed :
       stop = "idle" /\ ~(\E c \in Callers : on[c] = r /\ Changing(c)) =>
          IF interval[r] \in {Absent, Gone, 0}
          THEN mirrors[r] = None
          ELSE mirrors[r] # None /\ intervals[r] = interval[r]

(* After the sweep the map holds only what was registered since: Stop has   *)
(* not told those schedulers to end, yet waits for them.                    *)
LateScheduler == \E r \in Repos : mirrors[r] # None

(* Stop returns, although it waits for goroutines that may themselves be    *)
(* queueing syncs; a schedule registered after its sweep keeps it waiting.  *)
StopReturns == (stop # "idle") ~> (stop = "done" \/ LateScheduler)

(* A task sent after Stop's drain by a Submit that had found the queue open *)
(* (task_queue.go 134-144): nobody takes it and nobody drops it.            *)
Stranded(r) == stop = "done" /\ Queued(r) # {}

(* A slot that is taken is given back: a repository is not locked out of    *)
(* synchronisation by any interleaving of drops, timeouts and Stop, except  *)
(* by a task that reached the channel behind Stop's back.                   *)
SlotComesBack ==
    \A r \in Repos : r \in inflight ~> (r \notin inflight \/ Stranded(r))
=============================================================================
