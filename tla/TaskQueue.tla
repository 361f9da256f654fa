----------------------------- MODULE TaskQueue -----------------------------
(***************************************************************************)
(* The bounded queue of task_queue.go that both managers submit to: a      *)
(* buffered channel, a pool of workers that can be resized while it runs,  *)
(* and Stop.  q.mu guards closed and the pool, but not the channel: Submit *)
(* reads closed under q.mu and sends after it has released it.             *)
(***************************************************************************)
EXTENDS Naturals, FiniteSets, Sequences

CONSTANTS
    Tasks,          \* tasks submitted during a behaviour, each once
    Workers,        \* goroutines a pool slot can use: at most that many alive
    Stoppers,       \* concurrent callers of Stop
    Capacity,       \* capacity of the channel
    StartWorkers,   \* workers NewTaskQueue spawns
    MaxWorkers,     \* largest argument of SetWorkers
    MaxResizes,     \* bound: how often the configuration is reloaded
    NoTask          \* a worker without a task

ASSUME QueueAssumption ==
    /\ IsFiniteSet(Workers)
    /\ Capacity \in Nat \ {0}
    /\ StartWorkers \in 1..MaxWorkers
    /\ MaxWorkers \in Nat
    /\ MaxResizes \in Nat
    /\ NoTask \notin Tasks

VARIABLES
    tasks,      \* the channel
    closed,     \* q.closed; close(q.done) happens in the same critical section
    submit,     \* submit[t]: where the Submit call of t stands
    ran,        \* ran[t]: how often Run of t was started
    dropped,    \* dropped[t]: how often Dropped of t was called
    finished,   \* tasks whose Done channel is closed
    at,         \* at[w]: where worker w stands, "none" when it is not alive
    job,        \* job[w]: the task worker w holds
    pool,       \* q.workers: workers that have not been told to retire
    retired,    \* live workers whose retire channel is closed
    late,       \* history, late[w]: tasks w has taken since it was retired
    stop,       \* stop[s]: where the Stop call of s stands
    resizes     \* SetWorkers calls made so far

submitVars == <<submit, dropped>>
workerVars == <<ran, finished, at, job, late>>
poolVars == <<pool, retired, resizes>>
vars == <<tasks, closed, submit, ran, dropped, finished, at, job, pool, retired,
          late, stop, resizes>>

Alive(w) == at[w] # "none"

Init ==
    /\ tasks = <<>>
    /\ closed = FALSE
    /\ submit = [t \in Tasks |-> "new"]
    /\ ran = [t \in Tasks |-> 0]
    /\ dropped = [t \in Tasks |-> 0]
    /\ finished = {}
    /\ \E first \in SUBSET Workers :
          /\ Cardinality(first) = StartWorkers
          /\ pool = first
          /\ at = [w \in Workers |-> IF w \in first THEN "top" ELSE "none"]
    /\ job = [w \in Workers |-> NoTask]
    /\ retired = {}
    /\ late = [w \in Workers |-> 0]
    /\ stop = [s \in Stoppers |-> "idle"]
    /\ resizes = 0

-----------------------------------------------------------------------------
(* Submit: the task is refused, and its Dropped callback called.           *)
Refuse(t) ==
    /\ submit' = [submit EXCEPT ![t] = "refused"]
    /\ dropped' = [dropped EXCEPT ![t] = @ + 1]

(* Submit reads closed under q.mu and unlocks: ErrQueueClosed,             *)
SubmitClosed(t) ==
    /\ submit[t] = "new"
    /\ closed
    /\ Refuse(t)
    /\ UNCHANGED <<tasks, closed, stop, workerVars, poolVars>>

(* ... or it goes on to the send.                                          *)
SubmitOpen(t) ==
    /\ submit[t] = "new"
    /\ ~closed
    /\ submit' = [submit EXCEPT ![t] = "open"]
    /\ UNCHANGED <<tasks, closed, dropped, stop, workerVars, poolVars>>

(* The non-blocking send finds room in the channel.                        *)
SubmitSend(t) ==
    /\ submit[t] = "open"
    /\ Len(tasks) < Capacity
    /\ tasks' = Append(tasks, t)
    /\ submit' = [submit EXCEPT ![t] = "accepted"]
    /\ UNCHANGED <<closed, dropped, stop, workerVars, poolVars>>

(* Mutant: a full queue takes the task and refuses it.                     *)
SubmitFullSends(t) ==
    /\ submit[t] = "open"
    /\ Len(tasks) = Capacity
    /\ tasks' = Append(tasks, t)
    /\ Refuse(t)
    /\ UNCHANGED <<closed, stop, workerVars, poolVars>>

(* It finds none: ErrQueueFull.                                            *)
SubmitFull(t) ==
    /\ submit[t] = "open"
    /\ Len(tasks) = Capacity
    /\ Refuse(t)
    /\ UNCHANGED <<tasks, closed, stop, workerVars, poolVars>>

-----------------------------------------------------------------------------
Leave(w) ==
    /\ at' = [at EXCEPT ![w] = "none"]
    /\ retired' = retired \ {w}
    /\ late' = [late EXCEPT ![w] = 0]

Told(w) == closed \/ w \in retired

(* Mutant: the first look at retire and done is left out.                  *)
WorkerTopSkips(w) ==
    /\ at[w] = "top"
    /\ at' = [at EXCEPT ![w] = "select"]
    /\ UNCHANGED <<tasks, closed, submitVars, ran, finished, job, late, poolVars, stop>>

(* The first select of the loop: look at retire and done alone.            *)
WorkerTop(w) ==
    /\ at[w] = "top"
    /\ \/ Told(w) /\ Leave(w)
       \/ ~Told(w) /\ at' = [at EXCEPT ![w] = "select"] /\ UNCHANGED <<retired, late>>
    /\ UNCHANGED <<tasks, closed, submitVars, ran, finished, job, pool, resizes, stop>>

(* Mutant: the second select has no done case.                             *)
WorkerQuitRetired(w) ==
    /\ at[w] = "select"
    /\ w \in retired
    /\ Leave(w)
    /\ UNCHANGED <<tasks, closed, submitVars, ran, finished, job, pool, resizes, stop>>

(* The second select: retire or done is ready and chosen.                  *)
WorkerQuit(w) ==
    /\ at[w] = "select"
    /\ Told(w)
    /\ Leave(w)
    /\ UNCHANGED <<tasks, closed, submitVars, ran, finished, job, pool, resizes, stop>>

(* The second select: a task is ready and chosen, even when retire or done *)
(* is ready as well (Go picks any ready case).                             *)
WorkerTake(w) ==
    /\ at[w] = "select"
    /\ tasks # <<>>
    /\ job' = [job EXCEPT ![w] = Head(tasks)]
    /\ tasks' = Tail(tasks)
    /\ ran' = [ran EXCEPT ![Head(tasks)] = @ + 1]
    /\ at' = [at EXCEPT ![w] = "run"]
    /\ late' = [late EXCEPT ![w] = IF w \in retired THEN @ + 1 ELSE @]
    /\ UNCHANGED <<closed, submitVars, finished, poolVars, stop>>

(* Run returns or panics: run recovers and closes Done either way.         *)
WorkerFinish(w) ==
    /\ at[w] = "run"
    /\ finished' = finished \cup {job[w]}
    /\ job' = [job EXCEPT ![w] = NoTask]
    /\ at' = [at EXCEPT ![w] = "top"]
    /\ UNCHANGED <<tasks, closed, submitVars, ran, late, poolVars, stop>>

Worker(w) == WorkerTop(w) \/ WorkerQuit(w) \/ WorkerTake(w) \/ WorkerFinish(w)

-----------------------------------------------------------------------------
Spawn(new) ==
    /\ pool' = pool \cup new
    /\ at' = [w \in Workers |-> IF w \in new THEN "top" ELSE at[w]]
    /\ UNCHANGED retired

Retire(some) ==
    /\ pool' = pool \ some
    /\ retired' = retired \cup some
    /\ UNCHANGED at

(* Mutant: a resize does not look whether the queue is closed.             *)
SetWorkersClosed(n) ==
    /\ resizes < MaxResizes
    /\ resizes' = resizes + 1
    /\ \E new \in SUBSET {w \in Workers : ~Alive(w)} :
          Cardinality(pool \cup new) = n /\ Spawn(new)
    /\ UNCHANGED <<tasks, closed, submitVars, ran, finished, job, late, stop>>

(* SetWorkers, under q.mu: new workers are spawned, or any of the pool's   *)
(* workers are told to retire; a closed queue is left alone.               *)
SetWorkers(n) ==
    /\ ~closed
    /\ resizes < MaxResizes
    /\ resizes' = resizes + 1
    /\ \/ \E new \in SUBSET {w \in Workers : ~Alive(w)} :
             Cardinality(pool \cup new) = n /\ Spawn(new)
       \/ \E some \in (SUBSET pool) \ {{}} :
             Cardinality(pool \ some) = n /\ Retire(some)
    /\ UNCHANGED <<tasks, closed, submitVars, ran, finished, job, late, stop>>

-----------------------------------------------------------------------------
(* Stop, under q.mu: closed, close(done), and the pool forgotten.          *)
StopClose(s) ==
    /\ stop[s] = "idle"
    /\ closed' = TRUE
    /\ pool' = {}
    /\ stop' = [stop EXCEPT ![s] = "wait"]
    /\ UNCHANGED <<tasks, submitVars, workerVars, retired, resizes>>

(* q.wg.Wait(): every worker, retired ones included, has returned.         *)
StopWaited(s) ==
    /\ stop[s] = "wait"
    /\ \A w \in Workers : ~Alive(w)
    /\ stop' = [stop EXCEPT ![s] = "drain"]
    /\ UNCHANGED <<tasks, closed, submitVars, workerVars, poolVars>>

(* Mutant: the drain ends with the first task it drops.                    *)
StopDropOnce(s) ==
    /\ stop[s] = "drain"
    /\ tasks # <<>>
    /\ tasks' = Tail(tasks)
    /\ dropped' = [dropped EXCEPT ![Head(tasks)] = @ + 1]
    /\ stop' = [stop EXCEPT ![s] = "stopped"]
    /\ UNCHANGED <<closed, submit, workerVars, poolVars>>

(* The drain loop drops what is left in the channel,                       *)
StopDrop(s) ==
    /\ stop[s] = "drain"
    /\ tasks # <<>>
    /\ tasks' = Tail(tasks)
    /\ dropped' = [dropped EXCEPT ![Head(tasks)] = @ + 1]
    /\ UNCHANGED <<closed, submit, stop, workerVars, poolVars>>

(* and ends when it finds it empty.                                        *)
StopReturn(s) ==
    /\ stop[s] = "drain"
    /\ tasks = <<>>
    /\ stop' = [stop EXCEPT ![s] = "stopped"]
    /\ UNCHANGED <<tasks, closed, submitVars, workerVars, poolVars>>

Submitter(t) == SubmitClosed(t) \/ SubmitOpen(t) \/ SubmitSend(t) \/ SubmitFull(t)
Stopping(s) == StopClose(s) \/ StopWaited(s) \/ StopDrop(s) \/ StopReturn(s)

Next ==
    \/ \E t \in Tasks : Submitter(t)
    \/ \E w \in Workers : Worker(w)
    \/ \E n \in 1..MaxWorkers : SetWorkers(n)
    \/ \E s \in Stoppers : Stopping(s)

Spec == Init /\ [][Next]_vars

(* Goroutines that can run do run: workers, a Submit between its two       *)
(* steps, a Stop that has begun.  Run itself ends (the tasks bound their   *)
(* own time).  Nobody has to submit, resize or stop.                       *)
Fairness ==
    /\ \A w \in Workers : WF_vars(Worker(w))
    /\ \A t \in Tasks : WF_vars(SubmitSend(t) \/ SubmitFull(t))
    /\ \A s \in Stoppers : WF_vars(StopWaited(s) \/ StopDrop(s) \/ StopReturn(s))

FairSpec == Spec /\ Fairness

-----------------------------------------------------------------------------
ChannelOK == tasks \in Seq(Tasks) /\ Len(tasks) <= Capacity
TasksOK ==
    /\ submit \in [Tasks -> {"new", "open", "accepted", "refused"}]
    /\ ran \in [Tasks -> Nat]
    /\ dropped \in [Tasks -> Nat]
    /\ finished \subseteq Tasks
WorkersOK ==
    /\ at \in [Workers -> {"none", "top", "select", "run"}]
    /\ job \in [Workers -> Tasks \cup {NoTask}]
    /\ \A w \in Workers : at[w] = "run" => job[w] \in Tasks
    /\ pool \subseteq Workers
    /\ retired \subseteq Workers
    /\ late \in [Workers -> Nat]
StopOK ==
    /\ closed \in BOOLEAN
    /\ stop \in [Stoppers -> {"idle", "wait", "drain", "stopped"}]
    /\ resizes \in 0..MaxResizes

(* Every variable stays in its range, the channel within its capacity, and *)
(* a running worker holds a task.                                          *)
TypeOK == ChannelOK /\ TasksOK /\ WorkersOK /\ StopOK

(* No task is run twice, dropped twice, or run and dropped, whatever       *)
(* submitting, resizing and stopping do at the same time: the managers     *)
(* release a repository once per task.                                     *)
RunOrDropOnce == \A t \in Tasks : ran[t] + dropped[t] <= 1

(* Once a Stop is past its wait no worker is alive, and none ever appears  *)
(* again: a SetWorkers racing with Stop cannot revive the pool.            *)
StopIsFinal ==
    (\E s \in Stoppers : stop[s] \in {"drain", "stopped"})
        => \A w \in Workers : ~Alive(w)

(* A worker told to retire takes at most one more task (SetWorkers:        *)
(* "in extreme cases one more task is run").                               *)
OneTaskAfterRetire == \A w \in Workers : late[w] <= 1

Settled(t) == t \in finished \/ dropped[t] > 0

(* A task accepted while the queue is open is run to its end or dropped,   *)
(* however the pool is resized and even if Stop comes before its turn.     *)
AcceptedIsSettled ==
    \A t \in Tasks : (submit[t] = "accepted" /\ ~closed) ~> Settled(t)

(* Stop returns: no worker and no task holds it for ever.                  *)
StopReturns == \A s \in Stoppers : (stop[s] = "wait") ~> (stop[s] = "stopped")

=============================================================================
