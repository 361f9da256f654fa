----------------------------- MODULE RelayProofs -----------------------------
(***************************************************************************)
(* Proofs about one relay repository, for any refs, commits, pushes, tasks *)
(* and any number of disturbances.                                         *)
(***************************************************************************)
EXTENDS Relay, FiniteSetTheorems, TLAPS

-----------------------------------------------------------------------------
PushStates == [pc : {"idle", "ls", "set", "admit", "update", "report", "mark", "enqueue", "done"},
               ref : Refs, old : Oids, new : Oids, seen : Heads]
TaskStates == [pc : {"free", "queued", "round", "read", "advert", "send", "apply", "retry", "finish"},
               round : Nat, todo : SUBSET Refs, spec : Heads, seen : Heads,
               done : SUBSET Refs, drop : SUBSET Refs, clean : BOOLEAN]
CallStates == [pc : {"idle", "set", "list", "mark", "enqueue", "advert", "apply", "update", "clear"},
               protect : SUBSET Refs, seen : Heads, mine : Heads]

TypeOK ==
    /\ local \in Heads /\ upstream \in Heads /\ base \in Heads
    /\ pending \subseteq Refs
    /\ push \in [Pushes -> PushStates]
    /\ task \in [Tasks -> TaskStates]
    /\ queued \in BOOLEAN /\ running \in BOOLEAN /\ releasing \in Nat
    /\ timer \in BOOLEAN
    /\ manual \in CallStates /\ sync \in CallStates /\ align \in CallStates
    /\ budget \in [Kinds -> Nat]

(* What was disturbed once stays disturbed.                                *)
BudgetBound == \A kind \in Kinds : budget[kind] <= Budget[kind]

-----------------------------------------------------------------------------
(* Without deletions a task asks for values only, and what it has done is  *)
(* what it was asked.                                                      *)
AsksValues ==
    ~AllowDelete => \A k \in Tasks :
       /\ task[k].pc \in {"advert", "send"} => \A r \in Asked(k) : task[k].spec[r] # Zero
       /\ task[k].pc = "apply" => \A r \in task[k].done : task[k].spec[r] # Zero

(* The one task of a queue that was never full, in a form without counting.*)
Busy(k) == task[k].pc # "free"
OneBusy ==
    Undisturbed({"full"}) =>
       /\ releasing = 0
       /\ \A k, j \in Tasks : Busy(k) /\ Busy(j) => k = j
       /\ queued = (\E k \in Tasks : task[k].pc = "queued")
       /\ running = (\E k \in Tasks : task[k].pc \notin {"free", "queued"})

-----------------------------------------------------------------------------
(* Nobody but this repository writes the upstream, and only pushes write   *)
(* the repository.                                                         *)
Calm == ~AllowDelete /\ Undisturbed({"foreign", "sync", "align"})

QuietCalls == sync.pc = "idle" /\ align.pc = "idle"

(* The values a task has read are behind the refs, which only move forward.*)
SpecsBehind ==
    \A k \in Tasks, r \in Refs :
       task[k].spec[r] # Zero => local[r] # Zero /\ FF(task[k].spec[r], local[r])

(* While a ref does not exist here, nothing was forwarded to it: whoever   *)
(* has heard of the upstream knows its value.                              *)
SeenTrue ==
    \A r \in Refs : local[r] = Zero =>
       /\ \A p \in Pushes : /\ push[p].pc = "set" => push[p].seen[r] = upstream[r]
                            /\ push[p].pc = "admit" => base[r] = upstream[r]
       /\ manual.pc = "set" => manual.seen[r] = upstream[r]

(* A push that was admitted moves its ref forward, or creates one that the *)
(* upstream has not, unless somebody else was faster.                      *)
PushForward ==
    \A p \in Pushes :
       /\ push[p].pc \in {"ls", "set", "admit"} => push[p].old # push[p].new
       /\ push[p].pc = "update" =>
             /\ push[p].new # Zero
             /\ IF push[p].old = Zero
                THEN local[push[p].ref] # Zero \/ upstream[push[p].ref] = Zero
                ELSE FF(push[p].old, push[p].new)

Behind == \A r \in Refs : Zero \in {local[r], upstream[r]} \/ FF(upstream[r], local[r])

CalmInv == Calm => QuietCalls /\ SpecsBehind /\ SeenTrue /\ PushForward /\ Behind

(* As long as the queue was never full, what the task will send is ahead   *)
(* of the upstream.                                                        *)
SendsForward ==
    Calm /\ Undisturbed({"full"}) =>
       \A k \in Tasks : task[k].pc \in {"advert", "send"} =>
          \A r \in Refs : \/ Zero \in {task[k].spec[r], upstream[r]}
                          \/ FF(upstream[r], task[k].spec[r])

IInv == TypeOK /\ BudgetBound /\ AsksValues /\ OneBusy /\ CalmInv /\ SendsForward

-----------------------------------------------------------------------------
(* The initial values are in their ranges.                                 *)
LEMMA Constants ==
    /\ Zero \in Oids /\ Commits \subseteq Oids
    /\ NoRefs \in Heads /\ \A r \in Refs : NoRefs[r] = Zero
    /\ NoPush \in PushStates /\ NoPush.pc = "idle"
    /\ NoTask \in TaskStates /\ NoTask.pc = "free" /\ NoTask.spec = NoRefs
    /\ NoCall \in CallStates /\ NoCall.pc = "idle"
<1>1. Zero \in Oids /\ NoRefs \in Heads  BY DEF Oids, Heads, NoRefs
<1>2. (CHOOSE r \in Refs : TRUE) \in Refs  BY RelayAssumption
<1> QED  BY <1>1, <1>2 DEF NoPush, NoTask, NoCall, PushStates, TaskStates, CallStates, Oids, NoRefs

LEMMA Started ==
    /\ Ended \in PushStates /\ Ended.pc = "done"
    /\ [NoTask EXCEPT !.pc = "queued"] \in TaskStates
    /\ [NoTask EXCEPT !.pc = "queued"].pc = "queued"
    /\ [NoTask EXCEPT !.pc = "queued"].spec = NoRefs
  BY Constants DEF Ended, PushStates, TaskStates, NoTask

LEMMA InitInv == Init => IInv
<1> SUFFICES ASSUME Init PROVE IInv  OBVIOUS
<1>1. TypeOK
  <2>1. Budget \in [Kinds -> Nat] /\ {} \subseteq Refs /\ 0 \in Nat  BY RelayAssumption
  <2>2. local \in Heads /\ upstream \in Heads  BY Constants DEF Init
  <2> QED  BY <2>1, <2>2, Constants DEF Init, TypeOK
<1>2. BudgetBound  BY RelayAssumption DEF Init, BudgetBound
<1>3. AsksValues  BY Constants DEF Init, AsksValues
<1>4. OneBusy  BY Constants DEF Init, OneBusy, Busy
<1>5. CalmInv
  <2>1. \A r \in Refs : Zero \in {local[r], upstream[r]} \/ FF(upstream[r], local[r])
    <3> SUFFICES ASSUME NEW r \in Refs, Zero \notin {local[r], upstream[r]}
                 PROVE  FF(upstream[r], local[r])
      OBVIOUS
    <3>1. local = upstream  BY Constants DEF Init
    <3>2. upstream[r] \in Commits  BY DEF Init, Heads, Oids
    <3> QED  BY <3>1, <3>2, RelayAssumption DEF FF
  <2> QED  BY <2>1, Constants DEF Init, CalmInv, QuietCalls, SpecsBehind, SeenTrue, PushForward,
                                 Behind
<1>6. SendsForward  BY Constants DEF Init, SendsForward
<1> QED  BY <1>1, <1>2, <1>3, <1>4, <1>5, <1>6 DEF IInv

-----------------------------------------------------------------------------
(* Disturbances are spent, never gained.                                   *)
BudgetFalls == budget' \in [Kinds -> Nat] /\ \A kind \in Kinds : budget'[kind] <= budget[kind]

LEMMA Spent ==
    ASSUME TypeOK, NEW kind \in Kinds, Spend(kind)
    PROVE  BudgetFalls /\ budget'[kind] < budget[kind]
<1>1. "any" \in Kinds  BY DEF Kinds
<1> QED  BY <1>1 DEF TypeOK, Spend, BudgetFalls

LEMMA Unspent == TypeOK /\ budget' = budget => BudgetFalls
  BY DEF TypeOK, BudgetFalls

(* What calling enqueue does to the tasks.                                 *)
LEMMA Enqueued ==
    ASSUME TypeOK, Enqueue \/ EnqueueFull
    PROVE  /\ queued' \in BOOLEAN /\ running' = running /\ releasing' \in Nat
           /\ task' \in [Tasks -> TaskStates]
           /\ \A k \in Tasks : \/ task'[k] = task[k]
                               \/ task'[k].pc = "queued" /\ task'[k].spec = NoRefs
           /\ BudgetFalls
<1>1. CASE Enqueue  BY <1>1, Started, Unspent DEF Enqueue, TypeOK
<1>2. CASE EnqueueFull
  <2>1. "full" \in Kinds  BY DEF Kinds
  <2>2. Spend("full") /\ task' = task  BY <1>2 DEF EnqueueFull
  <2>3. BudgetFalls  BY <2>1, <2>2, Spent
  <2> QED  BY <1>2, <2>2, <2>3 DEF EnqueueFull, TypeOK
<1> QED  BY <1>1, <1>2

LEMMA PushType == ASSUME TypeOK, NEW p \in Pushes, Push(p)
                  PROVE  TypeOK' /\ BudgetFalls
<1>1. push[p] \in PushStates  BY DEF TypeOK
<1>2. \A label \in {"set", "admit", "update", "report", "mark", "enqueue"} :
         [push EXCEPT ![p].pc = label] \in [Pushes -> PushStates]
  BY <1>1 DEF PushStates, TypeOK
<1>3. [push EXCEPT ![p] = Ended] \in [Pushes -> PushStates]  BY Started DEF TypeOK
<1>4. "fault" \in Kinds  BY DEF Kinds
<1>5. CASE PushStart(p)
  <2>1. PICK r \in Refs, new \in Oids :
           push' = [push EXCEPT ![p] = [pc |-> "ls", ref |-> r, old |-> local[r],
                                        new |-> new, seen |-> NoRefs]]
    BY <1>5 DEF PushStart
  <2>2. local[r] \in Oids  BY DEF TypeOK, Heads
  <2>3. push' \in [Pushes -> PushStates]  BY <2>1, <2>2, Constants DEF TypeOK, PushStates
  <2> QED  BY <1>5, <2>3, Unspent DEF PushStart, flags, callers, TypeOK
<1>6. CASE PushLs(p)
  <2>1. push' \in [Pushes -> PushStates]
    <3>1. upstream \in Heads  BY DEF TypeOK
    <3>2. [push EXCEPT ![p].pc = "set", ![p].seen = upstream] \in [Pushes -> PushStates]
      BY <1>1, <3>1 DEF PushStates, TypeOK
    <3> QED  BY <1>3, <1>6, <3>2 DEF PushLs, PushEnd
  <2>2. BudgetFalls  BY <1>4, <1>6, Spent, Unspent DEF PushLs
  <2> QED  BY <1>6, <2>1, <2>2 DEF PushLs, flags, callers, TypeOK, BudgetFalls
<1>7. CASE PushSetBase(p)
  <2>1. push[p].seen \in Heads  BY <1>1 DEF PushStates
  <2>2. [push EXCEPT ![p].pc = "admit", ![p].seen = NoRefs] \in [Pushes -> PushStates]
    BY <1>1, Constants DEF PushStates, TypeOK
  <2> QED  BY <1>7, <2>1, <2>2, Unspent DEF PushSetBase, flags, callers, TypeOK
<1>8. CASE PushAdmit(p)
  BY <1>2, <1>3, <1>8, Unspent DEF PushAdmit, PushAt, PushEnd, flags, callers, TypeOK
<1>9. CASE PushUpdate(p)
  <2>1. push[p].ref \in Refs /\ push[p].new \in Oids  BY <1>1 DEF PushStates
  <2>2. local' \in Heads  BY <1>9, <2>1 DEF PushUpdate, TypeOK, Heads
  <2>3. [NoPush EXCEPT !.pc = "report", !.ref = push[p].ref] \in PushStates
    BY <2>1, Constants DEF PushStates, NoPush
  <2>4. push' \in [Pushes -> PushStates]
    BY <1>3, <1>9, <2>3 DEF PushUpdate, PushEnd, TypeOK
  <2> QED  BY <1>9, <2>2, <2>4, Unspent DEF PushUpdate, flags, callers, TypeOK
<1>10. CASE PushReport(p)
  <2>1. BudgetFalls  BY <1>4, <1>10, Spent, Unspent DEF PushReport
  <2> QED  BY <1>2, <1>3, <1>10, <2>1 DEF PushReport, PushAt, PushEnd, flags, callers, TypeOK,
                                         BudgetFalls
<1>11. CASE PushMark(p)
  <2>1. push[p].ref \in Refs  BY <1>1 DEF PushStates
  <2> QED  BY <1>2, <1>11, <2>1, Unspent DEF PushMark, PushAt, flags, callers, TypeOK
<1>12. CASE PushEnqueue(p)
  BY <1>3, <1>12, Enqueued DEF PushEnqueue, PushEnd, callers, TypeOK, BudgetFalls
<1> QED  BY <1>5, <1>6, <1>7, <1>8, <1>9, <1>10, <1>11, <1>12 DEF Push

(* What runRound makes of the refs it has read: those that count as gone,  *)
(* those it will not push, and the task it leaves.                         *)
Gone(k, failed) == failed \cup {r \in task[k].todo : local[r] = Zero}
Refused(k, failed) == IF AllowDelete THEN {} ELSE Gone(k, failed)
AfterRead(k, failed) ==
    [task EXCEPT ![k].pc = IF task[k].todo = Refused(k, failed) THEN "apply" ELSE "advert",
                 ![k].spec = [r \in Refs |-> IF r \in task[k].todo \ Gone(k, failed)
                                             THEN local[r] ELSE Zero],
                 ![k].drop = Refused(k, failed), ![k].done = {}, ![k].clean = FALSE]

LEMMA ReadResult ==
    ASSUME NEW k \in Tasks, TaskRead(k)
    PROVE  \E failed \in SUBSET task[k].todo :
              /\ IF failed = {} THEN UNCHANGED budget ELSE Spend("read")
              /\ task' = AfterRead(k, failed)
  BY DEF TaskRead, AfterRead, Refused, Gone

LEMMA TaskType == ASSUME TypeOK, NEW k \in Tasks, Task(k)
                  PROVE  TypeOK' /\ BudgetFalls
<1>1. task[k] \in TaskStates  BY DEF TypeOK
<1>2. \A label \in {"round", "advert", "retry", "finish"} :
         [task EXCEPT ![k].pc = label] \in [Tasks -> TaskStates]
  BY <1>1 DEF TaskStates, TypeOK
<1>3. \A label \in {"round", "retry"} :
         [task EXCEPT ![k] = [NoTask EXCEPT !.round = task[k].round, !.pc = label]]
            \in [Tasks -> TaskStates]
  BY <1>1, Constants DEF TaskStates, NoTask, TypeOK
<1>4. "fault" \in Kinds /\ "refuse" \in Kinds /\ "read" \in Kinds  BY DEF Kinds
<1>5. CASE TaskStart(k)
  BY <1>2, <1>5, Unspent DEF TaskStart, TaskAt, callers, TypeOK
<1>6. CASE TaskRound(k)
  <2> DEFINE next == task[k].round + 1
  <2>1. next \in Nat /\ pending \in SUBSET Refs  BY <1>1 DEF TaskStates, TypeOK
  <2>2. [task EXCEPT ![k].pc = "read", ![k].todo = pending, ![k].round = next]
           \in [Tasks -> TaskStates]
    <3> HIDE DEF next
    <3>1. [task[k] EXCEPT !.pc = "read", !.todo = pending, !.round = next] \in TaskStates
      BY <1>1, <2>1 DEF TaskStates
    <3> QED  BY <3>1 DEF TypeOK
  <2> QED  BY <1>2, <1>6, <2>2, Unspent DEF TaskRound, TaskAt, flags, callers, TypeOK
<1>7. CASE TaskRead(k)
  <2>1. PICK failed \in SUBSET task[k].todo :
           /\ IF failed = {} THEN UNCHANGED budget ELSE Spend("read")
           /\ task' = AfterRead(k, failed)
    BY <1>7, ReadResult
  <2>2. AfterRead(k, failed) \in [Tasks -> TaskStates]
    <3> DEFINE spec == [r \in Refs |-> IF r \in task[k].todo \ Gone(k, failed)
                                       THEN local[r] ELSE Zero]
               label == IF task[k].todo = Refused(k, failed) THEN "apply" ELSE "advert"
               refused == Refused(k, failed)
    <3>1. refused \subseteq Refs /\ spec \in Heads
      BY <1>1, Constants DEF TaskStates, TypeOK, Heads, Refused, Gone
    <3>2. AfterRead(k, failed) = [task EXCEPT ![k].pc = label, ![k].spec = spec,
                                              ![k].drop = refused, ![k].done = {},
                                              ![k].clean = FALSE]
      BY DEF AfterRead
    <3>3. label \in {"apply", "advert"}  OBVIOUS
    <3> HIDE DEF spec, label, refused
    <3>4. [task[k] EXCEPT !.pc = label, !.spec = spec, !.drop = refused, !.done = {},
                          !.clean = FALSE] \in TaskStates
      BY <1>1, <3>1, <3>3 DEF TaskStates
    <3> QED  BY <3>2, <3>4 DEF TypeOK
  <2>3. BudgetFalls  BY <1>4, <2>1, Spent, Unspent
  <2> QED  BY <1>7, <2>1, <2>2, <2>3 DEF TaskRead, flags, callers, TypeOK, BudgetFalls
<1>8. CASE TaskAdvert(k)
  <2>1. [task EXCEPT ![k].pc = "send", ![k].seen = upstream] \in [Tasks -> TaskStates]
    BY <1>1 DEF TaskStates, TypeOK
  <2>2. BudgetFalls  BY <1>4, <1>8, Spent, Unspent DEF TaskAdvert
  <2> QED  BY <1>3, <1>8, <2>1, <2>2 DEF TaskAdvert, RoundOver, flags, callers, TypeOK, BudgetFalls
<1>9. ASSUME NEW refused PROVE Written(k, refused) \in Heads
  BY <1>1 DEF Written, TaskStates, TypeOK, Heads
<1>10. CASE TaskSend(k)
  <2>1. PICK refused \in SUBSET Commands(k) :
           /\ IF refused = {} THEN UNCHANGED budget ELSE Spend("refuse")
           /\ upstream' = Written(k, refused)
           /\ task' = [task EXCEPT
                 ![k].pc = "apply",
                 ![k].done = (Asked(k) \ Commands(k)) \cup Granted(k, refused),
                 ![k].drop = @ \cup (Commands(k) \ Granted(k, refused)),
                 ![k].clean = (Commands(k) = Granted(k, refused)),
                 ![k].seen = NoRefs, ![k].todo = {}]
    BY <1>10 DEF TaskSend
  <2>2. Commands(k) \subseteq Refs /\ Asked(k) \subseteq Refs /\ Granted(k, refused) \subseteq Refs
    BY <1>1 DEF Asked, Commands, Granted, TaskStates
  <2>3. task' \in [Tasks -> TaskStates]
    <3> DEFINE done == (Asked(k) \ Commands(k)) \cup Granted(k, refused)
               drop == task[k].drop \cup (Commands(k) \ Granted(k, refused))
               clean == (Commands(k) = Granted(k, refused))
               sent == [task[k] EXCEPT !.pc = "apply", !.done = done, !.drop = drop,
                                       !.clean = clean, !.seen = NoRefs, !.todo = {}]
    <3>1. done \subseteq Refs /\ drop \subseteq Refs /\ clean \in BOOLEAN
      BY <1>1, <2>2 DEF TaskStates
    <3>2. task' = [task EXCEPT ![k] = sent]  BY <2>1
    <3>3. sent \in TaskStates
      <4> HIDE DEF done, drop, clean
      <4> QED  BY <1>1, <3>1, Constants DEF TaskStates
    <3> QED  BY <3>2, <3>3 DEF TypeOK
  <2>4. BudgetFalls  BY <1>4, <2>1, Spent, Unspent
  <2> QED  BY <1>9, <1>10, <2>1, <2>3, <2>4 DEF TaskSend, flags, callers, TypeOK, BudgetFalls
<1>11. CASE TaskSendLost(k)
  <2>1. [task EXCEPT ![k].pc = "advert", ![k].seen = NoRefs] \in [Tasks -> TaskStates]
    BY <1>1, Constants DEF TaskStates, TypeOK
  <2>2. BudgetFalls  BY <1>4, <1>11, Spent DEF TaskSendLost
  <2>3. upstream' \in Heads  BY <1>9, <1>11 DEF TaskSendLost, TypeOK
  <2> QED  BY <1>3, <1>11, <2>1, <2>2, <2>3 DEF TaskSendLost, RoundOver, flags, callers, TypeOK,
                                               BudgetFalls
<1>12. CASE TaskApply(k)
  <2>1. base' \in Heads  BY <1>1, <1>12 DEF TaskApply, TaskStates, TypeOK, Heads
  <2> QED  BY <1>3, <1>12, <2>1, Unspent DEF TaskApply, RoundOver, flags, callers, TypeOK
<1>13. CASE TaskRetry(k)
  <2>1. timer' \in BOOLEAN  BY <1>13, RelayAssumption DEF TaskRetry, TypeOK
  <2> QED  BY <1>2, <1>13, <2>1, Unspent DEF TaskRetry, TaskAt, flags, callers, TypeOK
<1>14. CASE TaskFinish(k)
  BY <1>14, Constants, Unspent DEF TaskFinish, callers, TypeOK
<1> QED  BY <1>5, <1>6, <1>7, <1>8, <1>10, <1>11, <1>12, <1>13, <1>14 DEF Task

(* The steps of the calls that are no push and no task.                    *)
CallStep ==
    \/ TimerFire \/ Release
    \/ ManualLs \/ ManualSetBase \/ ManualList \/ ManualMark \/ ManualEnqueue
    \/ SyncStart \/ SyncAdvert \/ SyncList \/ SyncApply
    \/ AlignLs \/ AlignSetBase \/ AlignList \/ AlignUpdate \/ AlignClear
    \/ Foreign \/ Crash

LEMMA CallType == ASSUME TypeOK, CallStep
                  PROVE  TypeOK' /\ BudgetFalls
<1>1. {"foreign", "manual", "sync", "align", "crash"} \subseteq Kinds  BY DEF Kinds
<1>2. CASE TimerFire
  <2>1. Enqueue \/ EnqueueFull  BY <1>2 DEF TimerFire
  <2> QED  BY <1>2, <2>1, Enqueued DEF TimerFire, callers, TypeOK, BudgetFalls
<1>3. CASE Release
  <2>1. releasing' \in Nat  BY <1>3 DEF Release, TypeOK
  <2>2. queued' = FALSE /\ UNCHANGED <<local, upstream, pending, base, push, task, running, timer,
                                      callers, budget>>
    BY <1>3 DEF Release
  <2> QED  BY <2>1, <2>2, Unspent DEF callers, TypeOK
<1>4. CASE ManualLs
  <2>1. BudgetFalls  BY <1>1, <1>4, Spent DEF ManualLs
  <2>2. manual' \in CallStates  BY <1>4, Constants DEF ManualLs, CallStates, NoCall, TypeOK
  <2> QED  BY <1>4, <2>1, <2>2 DEF ManualLs, flags, TypeOK, BudgetFalls
<1>5. CASE ManualSetBase
  <2>1. base' \in Heads  BY <1>5 DEF ManualSetBase, CallStates, TypeOK
  <2>2. manual' \in CallStates  BY <1>5, Constants DEF ManualSetBase, CallStates, NoCall
  <2> QED  BY <1>5, <2>1, <2>2, Unspent DEF ManualSetBase, flags, TypeOK
<1>6. CASE ManualList
  <2>1. Ahead \subseteq Refs  BY RelayAssumption DEF Ahead
  <2>2. manual' \in CallStates  BY <1>6, <2>1, Constants DEF ManualList, CallStates, NoCall
  <2> QED  BY <1>6, <2>2, Unspent DEF ManualList, flags, TypeOK
<1>7. CASE ManualMark
  <2>1. pending' \subseteq Refs  BY <1>7 DEF ManualMark, CallStates, TypeOK
  <2>2. manual' \in CallStates  BY <1>7, Constants DEF ManualMark, CallStates, NoCall
  <2> QED  BY <1>7, <2>1, <2>2, Unspent DEF ManualMark, flags, TypeOK
<1>8. CASE ManualEnqueue
  BY <1>8, Constants, Enqueued DEF ManualEnqueue, TypeOK, BudgetFalls
<1>9. CASE SyncStart
  <2>1. BudgetFalls  BY <1>1, <1>9, Spent DEF SyncStart
  <2>2. sync' \in CallStates  BY <1>9, Constants DEF SyncStart, CallStates, NoCall, TypeOK
  <2> QED  BY <1>9, <2>1, <2>2 DEF SyncStart, flags, TypeOK, BudgetFalls
<1>10. CASE SyncAdvert
  <2>1. sync' \in CallStates  BY <1>10, Constants DEF SyncAdvert, CallStates, TypeOK
  <2> QED  BY <1>10, <2>1, Unspent DEF SyncAdvert, flags, TypeOK
<1>11. CASE SyncList
  <2>1. sync' \in CallStates  BY <1>11, Constants DEF SyncList, CallStates, TypeOK
  <2> QED  BY <1>11, <2>1, Unspent DEF SyncList, flags, TypeOK
<1>12. CASE SyncApply
  <2>1. local' \in Heads  BY <1>12 DEF SyncApply, CallStates, TypeOK, Heads
  <2> QED  BY <1>12, <2>1, Constants, Unspent DEF SyncApply, flags, TypeOK
<1>13. CASE AlignLs
  <2>1. BudgetFalls  BY <1>1, <1>13, Spent DEF AlignLs
  <2>2. align' \in CallStates  BY <1>13, Constants DEF AlignLs, CallStates, NoCall, TypeOK
  <2> QED  BY <1>13, <2>1, <2>2 DEF AlignLs, flags, TypeOK, BudgetFalls
<1>14. CASE AlignSetBase
  <2>1. base' \in Heads  BY <1>14 DEF AlignSetBase, CallStates, TypeOK
  <2>2. align' \in CallStates  BY <1>14, Constants DEF AlignSetBase, CallStates, NoCall
  <2> QED  BY <1>14, <2>1, <2>2, Unspent DEF AlignSetBase, flags, TypeOK
<1>15. CASE AlignList
  <2>1. align' \in CallStates  BY <1>15 DEF AlignList, CallStates, TypeOK
  <2> QED  BY <1>15, <2>1, Unspent DEF AlignList, flags, TypeOK
<1>16. CASE AlignUpdate
  <2>1. local' \in Heads  BY <1>16 DEF AlignUpdate, CallStates, TypeOK, Heads
  <2>2. align' \in CallStates  BY <1>16 DEF AlignUpdate, CallStates, TypeOK
  <2> QED  BY <1>16, <2>1, <2>2, Unspent DEF AlignUpdate, flags, TypeOK
<1>17. CASE AlignClear  BY <1>17, Constants, Unspent DEF AlignClear, flags, TypeOK
<1>18. CASE Foreign
  <2>1. BudgetFalls  BY <1>1, <1>18, Spent DEF Foreign
  <2>2. upstream' \in Heads  BY <1>18 DEF Foreign, TypeOK, Heads
  <2> QED  BY <1>18, <2>1, <2>2 DEF Foreign, flags, callers, TypeOK, BudgetFalls
<1>19. CASE Crash
  <2>1. BudgetFalls  BY <1>1, <1>19, Spent DEF Crash
  <2>2. push' \in [Pushes -> PushStates]  BY <1>19, Constants, Started DEF Crash
  <2>3. task' \in [Tasks -> TaskStates]  BY <1>19, Constants, Started DEF Crash
  <2> QED  BY <1>19, <2>1, <2>2, <2>3, Constants DEF Crash, TypeOK, BudgetFalls
<1> QED  BY <1>2, <1>3, <1>4, <1>5, <1>6, <1>7, <1>8, <1>9, <1>10, <1>11, <1>12, <1>13, <1>14,
            <1>15, <1>16, <1>17, <1>18, <1>19 DEF CallStep

LEMMA NextSteps ==
    Next <=> \/ \E p \in Pushes : Push(p)
             \/ \E k \in Tasks : Task(k)
             \/ CallStep
  BY DEF Next, CallStep

LEMMA TypeStep == ASSUME TypeOK, BudgetBound, [Next]_vars
                  PROVE  TypeOK' /\ BudgetFalls /\ BudgetBound'
<1>1. TypeOK' /\ BudgetFalls
  <2>1. CASE Next  BY <2>1, NextSteps, PushType, TaskType, CallType
  <2>2. CASE UNCHANGED vars  BY <2>2, Unspent DEF vars, flags, callers, TypeOK
  <2> QED  BY <2>1, <2>2
<1>2. BudgetBound'  BY <1>1, RelayAssumption DEF BudgetBound, BudgetFalls, TypeOK
<1> QED  BY <1>1, <1>2

(* What is undisturbed after a step was undisturbed before it, and the step *)
(* was no such disturbance.                                                *)
LEMMA StillUndisturbed ==
    ASSUME TypeOK, BudgetBound, BudgetFalls, NEW kinds \in SUBSET Kinds, Undisturbed(kinds)'
    PROVE  /\ Undisturbed(kinds)
           /\ \A kind \in kinds : ~Spend(kind)
<1> SUFFICES ASSUME NEW kind \in kinds PROVE budget[kind] = Budget[kind] /\ ~Spend(kind)
  BY DEF Undisturbed
<1>1. budget'[kind] = Budget[kind] /\ budget'[kind] <= budget[kind] /\ budget[kind] <= Budget[kind]
  BY DEF Undisturbed, BudgetFalls, BudgetBound
<1>2. budget[kind] \in Nat /\ Budget[kind] \in Nat  BY RelayAssumption DEF TypeOK
<1> QED  BY <1>1, <1>2, Spent

-----------------------------------------------------------------------------
(* Steps that are no step of a task leave a task alone, queue or end it.   *)
LEMMA TasksLeft ==
    ASSUME TypeOK, (\E p \in Pushes : Push(p)) \/ CallStep \/ UNCHANGED vars, NEW k \in Tasks
    PROVE  \/ task'[k] = task[k]
           \/ task'[k].pc \in {"free", "queued"} /\ task'[k].spec = NoRefs
<1>1. CASE \E p \in Pushes : Push(p)
  <2>1. PICK p \in Pushes : Push(p)  BY <1>1
  <2>2. CASE PushEnqueue(p)  BY <2>2, Enqueued DEF PushEnqueue
  <2> QED  BY <2>1, <2>2 DEF Push, PushStart, PushLs, PushSetBase, PushAdmit, PushUpdate,
                             PushReport, PushMark
<1>2. CASE CallStep
  <2>1. CASE TimerFire  BY <2>1, Enqueued DEF TimerFire
  <2>2. CASE ManualEnqueue  BY <2>2, Enqueued DEF ManualEnqueue
  <2>3. CASE Crash  BY <2>3, Constants, Started DEF Crash
  <2> QED  BY <1>2, <2>1, <2>2, <2>3
       DEF CallStep, Release, ManualLs, ManualSetBase, ManualList, ManualMark, SyncStart,
           SyncAdvert, SyncList, SyncApply, AlignLs, AlignSetBase, AlignList, AlignUpdate,
           AlignClear, Foreign
<1>3. CASE UNCHANGED vars  BY <1>3 DEF vars
<1> QED  BY <1>1, <1>2, <1>3

(* The steps of a task touch no other task.                                *)
LEMMA TaskAlone ==
    ASSUME TypeOK, NEW k \in Tasks, Task(k), NEW j \in Tasks, j # k
    PROVE  task'[j] = task[j]
  BY DEF Task, TaskStart, TaskRound, TaskRead, TaskAdvert, TaskSend, TaskSendLost, TaskApply,
         TaskRetry, TaskFinish, TaskAt, RoundOver, TypeOK

(* What a step does to the fields of its own task.                         *)
LEMMA RoundOverFields ==
    ASSUME TypeOK, NEW k \in Tasks, NEW label, RoundOver(k, label)
    PROVE  task'[k].pc = label /\ task'[k].spec = NoRefs
  BY DEF RoundOver, TypeOK, NoTask

LEMMA ReadFields ==
    ASSUME TypeOK, NEW k \in Tasks, TaskRead(k)
    PROVE  /\ task'[k].pc \in {"advert", "apply"}
           /\ task'[k].done = {}
           /\ \A r \in Refs : task'[k].spec[r] \in {local[r], Zero}
           /\ AllowDelete \/ \A r \in Asked(k)' : task'[k].spec[r] # Zero
<1>1. task[k] \in TaskStates  BY DEF TypeOK
<1>2. PICK failed \in SUBSET task[k].todo : task' = AfterRead(k, failed)  BY ReadResult
<1> DEFINE refused == Refused(k, failed)
           gone == Gone(k, failed)
           spec == [r \in Refs |-> IF r \in task[k].todo \ gone THEN local[r] ELSE Zero]
           label == IF task[k].todo = refused THEN "apply" ELSE "advert"
<1>3. /\ task'[k].pc = label /\ task'[k].done = {} /\ task'[k].spec = spec
      /\ task'[k].drop = refused /\ task'[k].todo = task[k].todo
  <2>1. task' = [task EXCEPT ![k].pc = label, ![k].spec = spec, ![k].drop = refused,
                             ![k].done = {}, ![k].clean = FALSE]
    BY <1>2 DEF AfterRead
  <2> HIDE DEF refused, spec, label
  <2> QED  BY <1>1, <2>1 DEF TypeOK, TaskStates
<1>4. task[k].todo \subseteq Refs  BY <1>1 DEF TaskStates
<1>5. task[k].todo \ gone \subseteq {r \in Refs : local[r] # Zero}  BY <1>4 DEF Gone
<1>6. AllowDelete \/ refused = gone  BY DEF Refused
<1> HIDE DEF refused, gone
<1> QED  BY <1>3, <1>4, <1>5, <1>6 DEF Asked

LEMMA TaskAtFields ==
    ASSUME TypeOK, NEW k \in Tasks, NEW label, TaskAt(k, label)
    PROVE  task'[k].pc = label /\ task'[k].spec = task[k].spec
  BY DEF TaskAt, TypeOK, TaskStates

LEMMA RoundFields ==
    ASSUME TypeOK, NEW k \in Tasks, TaskRound(k)
    PROVE  task'[k].pc \in {"read", "retry"} /\ task'[k].spec = task[k].spec
<1> DEFINE next == task[k].round + 1
<1>1. CASE TaskAt(k, "retry")  BY <1>1, TaskAtFields
<1>2. CASE task' = [task EXCEPT ![k].pc = "read", ![k].todo = pending, ![k].round = next]
  <2> HIDE DEF next
  <2> QED  BY <1>2 DEF TypeOK, TaskStates
<1> QED  BY <1>1, <1>2 DEF TaskRound

(* The steps that keep what the task asks the upstream for.                *)
Asking(k) ==
    /\ task[k].pc \in {"advert", "send"} /\ task'[k].pc \in {"advert", "send"}
    /\ task'[k].spec = task[k].spec
    /\ Asked(k)' = Asked(k)

LEMMA AdvertFields ==
    ASSUME TypeOK, NEW k \in Tasks, TaskAdvert(k)
    PROVE  \/ Asking(k)
           \/ task'[k].pc = "retry" /\ task'[k].spec = NoRefs
<1>1. CASE task' = [task EXCEPT ![k].pc = "send", ![k].seen = upstream]
  <2>1. /\ task[k].pc = "advert" /\ task'[k].pc = "send" /\ task'[k].spec = task[k].spec
        /\ task'[k].todo = task[k].todo /\ task'[k].drop = task[k].drop
    BY <1>1 DEF TaskAdvert, TypeOK, TaskStates
  <2>2. Asked(k)' = Asked(k)  BY <2>1 DEF Asked
  <2> QED  BY <2>1, <2>2 DEF Asking
<1> QED  BY <1>1, RoundOverFields DEF TaskAdvert

LEMMA LostFields ==
    ASSUME TypeOK, NEW k \in Tasks, TaskSendLost(k)
    PROVE  \/ Asking(k)
           \/ task'[k].pc = "retry" /\ task'[k].spec = NoRefs
<1>1. CASE task' = [task EXCEPT ![k].pc = "advert", ![k].seen = NoRefs]
  <2>1. /\ task[k].pc = "send" /\ task'[k].pc = "advert" /\ task'[k].spec = task[k].spec
        /\ task'[k].todo = task[k].todo /\ task'[k].drop = task[k].drop
    BY <1>1 DEF TaskSendLost, TypeOK, TaskStates
  <2>2. Asked(k)' = Asked(k)  BY <2>1 DEF Asked
  <2> QED  BY <2>1, <2>2 DEF Asking
<1> QED  BY <1>1, RoundOverFields DEF TaskSendLost

LEMMA SendFields ==
    ASSUME TypeOK, NEW k \in Tasks, TaskSend(k)
    PROVE  /\ task'[k].pc = "apply" /\ task'[k].spec = task[k].spec
           /\ task'[k].done \subseteq Asked(k)
<1>1. PICK refused \in SUBSET Commands(k) :
        task' = [task EXCEPT
             ![k].pc = "apply",
             ![k].done = (Asked(k) \ Commands(k)) \cup Granted(k, refused),
             ![k].drop = @ \cup (Commands(k) \ Granted(k, refused)),
             ![k].clean = (Commands(k) = Granted(k, refused)),
             ![k].seen = NoRefs, ![k].todo = {}]
  BY DEF TaskSend
<1>2. task[k] \in TaskStates  BY DEF TypeOK
<1>3. /\ task'[k].pc = "apply" /\ task'[k].spec = task[k].spec
      /\ task'[k].done = (Asked(k) \ Commands(k)) \cup Granted(k, refused)
  BY <1>1, <1>2 DEF TypeOK, TaskStates
<1> QED  BY <1>3 DEF Commands, Granted

(* A step of a task reads the refs, goes on asking, has sent, or leaves no *)
(* request behind.                                                         *)
LEMMA TaskSteps ==
    ASSUME TypeOK, NEW k \in Tasks, Task(k)
    PROVE  \/ TaskRead(k)
           \/ Asking(k)
           \/ TaskSend(k)
           \/ /\ task'[k].pc \in {"free", "round", "read", "retry", "finish"}
              /\ task'[k].spec \in {task[k].spec, NoRefs}
<1>1. CASE TaskStart(k)  BY <1>1, TaskAtFields DEF TaskStart
<1>2. CASE TaskRound(k)  BY <1>2, RoundFields
<1>3. CASE TaskAdvert(k)  BY <1>3, AdvertFields
<1>4. CASE TaskSendLost(k)  BY <1>4, LostFields
<1>5. CASE TaskApply(k)  BY <1>5, RoundOverFields DEF TaskApply
<1>6. CASE TaskRetry(k)  BY <1>6, TaskAtFields DEF TaskRetry
<1>7. CASE TaskFinish(k)  BY <1>7, Constants DEF TaskFinish, TypeOK
<1> QED  BY <1>1, <1>2, <1>3, <1>4, <1>5, <1>6, <1>7 DEF Task

LEMMA AsksValuesStep == ASSUME TypeOK, AsksValues, [Next]_vars
                        PROVE  AsksValues'
<1> SUFFICES ASSUME ~AllowDelete, NEW k \in Tasks
             PROVE  /\ task'[k].pc \in {"advert", "send"} =>
                          \A r \in Asked(k)' : task'[k].spec[r] # Zero
                    /\ task'[k].pc = "apply" => \A r \in task'[k].done : task'[k].spec[r] # Zero
  BY DEF AsksValues
<1>1. task[k].todo \subseteq Refs  BY DEF TypeOK, TaskStates
<1>2. /\ task[k].pc \in {"advert", "send"} => \A r \in Asked(k) : task[k].spec[r] # Zero
      /\ task[k].pc = "apply" => \A r \in task[k].done : task[k].spec[r] # Zero
  BY DEF AsksValues
<1>3. CASE task'[k] = task[k]  BY <1>2, <1>3 DEF Asked
<1>4. CASE task'[k].pc \notin {"advert", "send", "apply"}  BY <1>4
<1>5. CASE Task(k)
  <2>1. CASE TaskRead(k)  BY <1>1, <2>1, ReadFields
  <2>2. CASE Asking(k)  BY <1>2, <2>2 DEF Asking
  <2>3. CASE TaskSend(k)  BY <1>2, <2>3, SendFields DEF TaskSend
  <2> QED  BY <1>4, <1>5, <2>1, <2>2, <2>3, TaskSteps
<1>6. CASE \E j \in Tasks \ {k} : Task(j)  BY <1>3, <1>6, TaskAlone
<1>7. CASE (\E p \in Pushes : Push(p)) \/ CallStep \/ UNCHANGED vars
  BY <1>3, <1>4, <1>7, TasksLeft
<1> QED  BY <1>5, <1>6, <1>7, NextSteps

-----------------------------------------------------------------------------
(* How a task's steps, and the others, change the two flags.               *)
LEMMA TaskFlags ==
    ASSUME TypeOK, NEW k \in Tasks, Task(k)
    PROVE  /\ releasing' = releasing
           /\ \/ /\ task[k].pc = "queued" /\ task'[k].pc = "round"
                 /\ queued' = FALSE /\ running' = TRUE
              \/ /\ task[k].pc \notin {"free", "queued"} /\ task'[k].pc = "free"
                 /\ queued' = queued /\ running' = FALSE
              \/ /\ task[k].pc \notin {"free", "queued"} /\ task'[k].pc \notin {"free", "queued"}
                 /\ queued' = queued /\ running' = running
<1>1. CASE TaskStart(k)  BY <1>1, TaskAtFields DEF TaskStart
<1>2. CASE TaskRound(k)  BY <1>2, RoundFields DEF TaskRound, flags
<1>3. CASE TaskRead(k)  BY <1>3, ReadFields DEF TaskRead, flags
<1>4. CASE TaskAdvert(k)  BY <1>4, AdvertFields DEF TaskAdvert, flags, Asking
<1>5. CASE TaskSend(k)  BY <1>5, SendFields DEF TaskSend, flags
<1>6. CASE TaskSendLost(k)  BY <1>6, LostFields DEF TaskSendLost, flags, Asking
<1>7. CASE TaskApply(k)  BY <1>7, RoundOverFields DEF TaskApply, flags
<1>8. CASE TaskRetry(k)  BY <1>8, TaskAtFields DEF TaskRetry, flags
<1>9. CASE TaskFinish(k)  BY <1>9, Constants DEF TaskFinish, TypeOK
<1> QED  BY <1>1, <1>2, <1>3, <1>4, <1>5, <1>6, <1>7, <1>8, <1>9 DEF Task

LEMMA OtherFlags ==
    ASSUME (\E p \in Pushes : Push(p)) \/ CallStep \/ UNCHANGED vars
    PROVE  \/ UNCHANGED <<task, flags>>
           \/ Enqueue \/ EnqueueFull \/ Release \/ Crash
<1>1. CASE \E p \in Pushes : Push(p)
  BY <1>1 DEF Push, PushStart, PushLs, PushSetBase, PushAdmit, PushUpdate, PushReport, PushMark,
              PushEnqueue
<1>2. CASE CallStep
  BY <1>2 DEF CallStep, TimerFire, ManualLs, ManualSetBase, ManualList, ManualMark, ManualEnqueue,
              SyncStart, SyncAdvert, SyncList, SyncApply, AlignLs, AlignSetBase, AlignList,
              AlignUpdate, AlignClear, Foreign
<1> QED  BY <1>1, <1>2 DEF vars

LEMMA OneBusyStep == ASSUME TypeOK, BudgetBound, BudgetFalls, OneBusy, [Next]_vars
                     PROVE  OneBusy'
<1> SUFFICES ASSUME Undisturbed({"full"})'
             PROVE  /\ releasing' = 0
                    /\ \A k, j \in Tasks : Busy(k)' /\ Busy(j)' => k = j
                    /\ queued' = (\E k \in Tasks : task'[k].pc = "queued")
                    /\ running' = (\E k \in Tasks : task'[k].pc \notin {"free", "queued"})
  BY DEF OneBusy
<1>1. Undisturbed({"full"}) /\ ~Spend("full")  BY StillUndisturbed DEF Kinds
<1>2. /\ releasing = 0
      /\ \A k, j \in Tasks : Busy(k) /\ Busy(j) => k = j
      /\ queued = (\E k \in Tasks : task[k].pc = "queued")
      /\ running = (\E k \in Tasks : task[k].pc \notin {"free", "queued"})
  BY <1>1 DEF OneBusy
<1>3. CASE \E k \in Tasks : Task(k)
  <2>1. PICK k \in Tasks : Task(k)  BY <1>3
  <2>2. /\ Busy(k)
        /\ \A j \in Tasks : j # k => task'[j] = task[j] /\ task[j].pc = "free"
    BY <1>2, <2>1, TaskFlags, TaskAlone DEF Busy
  <2>3. CASE task[k].pc = "queued" /\ task'[k].pc = "round" /\ queued' = FALSE /\ running' = TRUE
    BY <1>2, <2>1, <2>2, <2>3, TaskFlags DEF Busy
  <2>4. CASE /\ task[k].pc \notin {"free", "queued"} /\ task'[k].pc = "free"
             /\ queued' = queued /\ running' = FALSE
    BY <1>2, <2>1, <2>2, <2>4, TaskFlags DEF Busy
  <2>5. CASE /\ task[k].pc \notin {"free", "queued"} /\ task'[k].pc \notin {"free", "queued"}
             /\ queued' = queued /\ running' = running
    BY <1>2, <2>1, <2>2, <2>5, TaskFlags DEF Busy
  <2> QED  BY <2>1, <2>3, <2>4, <2>5, TaskFlags
<1>4. CASE (\E p \in Pushes : Push(p)) \/ CallStep \/ UNCHANGED vars
  <2>1. CASE UNCHANGED <<task, flags>>  BY <1>2, <2>1 DEF flags, Busy
  <2>2. CASE Enqueue
    <3>1. CASE queued \/ running  BY <1>2, <2>2, <3>1 DEF Enqueue, Busy
    <3>2. CASE ~queued /\ ~running
      <4>1. \A k \in Tasks : task[k].pc = "free"  BY <1>2, <3>2
      <4>2. PICK k \in Tasks : task' = [task EXCEPT ![k] = [NoTask EXCEPT !.pc = "queued"]]
        BY <2>2, <3>2 DEF Enqueue
      <4>3. /\ task'[k].pc = "queued"
            /\ \A j \in Tasks : j # k => task'[j].pc = "free"
        BY <4>1, <4>2, Started DEF TypeOK
      <4> QED  BY <1>2, <2>2, <3>2, <4>3 DEF Enqueue, Busy
    <3> QED  BY <3>1, <3>2 DEF TypeOK
  <2>3. CASE EnqueueFull  BY <1>1, <2>3 DEF EnqueueFull
  <2>4. CASE Release  BY <1>2, <2>4 DEF Release
  <2>5. CASE Crash
    <3>1. CASE pending = {}  BY <2>5, <3>1, Constants DEF Crash, Busy
    <3>2. CASE pending # {}
      <4>1. PICK k0 \in Tasks :
               task' = [k \in Tasks |-> IF k = k0 THEN [NoTask EXCEPT !.pc = "queued"] ELSE NoTask]
        BY <2>5, <3>2 DEF Crash
      <4>2. \A k \in Tasks : task'[k].pc = IF k = k0 THEN "queued" ELSE "free"
        BY <4>1, Constants, Started
      <4> QED  BY <2>5, <3>2, <4>2 DEF Crash, Busy
    <3> QED  BY <3>1, <3>2
  <2> QED  BY <1>4, <2>1, <2>2, <2>3, <2>4, <2>5, OtherFlags
<1> QED  BY <1>3, <1>4, NextSteps

-----------------------------------------------------------------------------
LEMMA FFRelates ==
    /\ \A a, b \in Oids : FF(a, b) => a # Zero /\ b # Zero
    /\ \A a \in Oids : a # Zero => FF(a, a)
    /\ \A a, b, c \in Oids : FF(a, b) /\ FF(b, c) => FF(a, c)
  BY RelayAssumption DEF FF, Oids

(* Only a request of a task or another writer moves the upstream, and      *)
(* without deletions a request writes the values the task has read.        *)
LEMMA UpstreamMoves ==
    ASSUME TypeOK, AsksValues, ~AllowDelete, [Next]_vars, ~Foreign, NEW r \in Refs
    PROVE  \/ upstream'[r] = upstream[r]
           \/ \E k \in Tasks : /\ Task(k) /\ task[k].pc = "send"
                               /\ task[k].spec[r] # Zero /\ upstream'[r] = task[k].spec[r]
<1>1. CASE \E p \in Pushes : Push(p)
  BY <1>1 DEF Push, PushStart, PushLs, PushSetBase, PushAdmit, PushUpdate, PushReport, PushMark,
              PushEnqueue
<1>2. CASE CallStep
  BY <1>2 DEF CallStep, TimerFire, Release, ManualLs, ManualSetBase, ManualList, ManualMark,
              ManualEnqueue, SyncStart, SyncAdvert, SyncList, SyncApply, AlignLs, AlignSetBase,
              AlignList, AlignUpdate, AlignClear, Crash
<1>3. CASE \E k \in Tasks : Task(k)
  <2>1. PICK k \in Tasks : Task(k)  BY <1>3
  <2>2. ASSUME task[k].pc = "send", NEW refused, upstream' = Written(k, refused)
        PROVE  \/ upstream'[r] = upstream[r]
               \/ task[k].spec[r] # Zero /\ upstream'[r] = task[k].spec[r]
    <3>1. Granted(k, refused) \subseteq Asked(k)  BY DEF Granted, Commands
    <3> QED  BY <2>2, <3>1 DEF Written, AsksValues
  <2>3. CASE TaskSend(k)  BY <2>1, <2>2, <2>3 DEF TaskSend
  <2>4. CASE TaskSendLost(k)  BY <2>1, <2>2, <2>4 DEF TaskSendLost
  <2> QED  BY <2>1, <2>3, <2>4 DEF Task, TaskStart, TaskRound, TaskRead, TaskAdvert, TaskApply,
                                   TaskRetry, TaskFinish
<1>4. CASE UNCHANGED vars  BY <1>4 DEF vars
<1> QED  BY <1>1, <1>2, <1>3, <1>4, NextSteps

(* Only pushes, pulls and aligns move the local refs.                      *)
LEMMA LocalMoves ==
    ASSUME [Next]_vars, QuietCalls
    PROVE  local' = local \/ \E p \in Pushes : PushUpdate(p)
<1>1. CASE \E p \in Pushes : Push(p)
  BY <1>1 DEF Push, PushStart, PushLs, PushSetBase, PushAdmit, PushReport, PushMark, PushEnqueue
<1>2. CASE CallStep
  BY <1>2 DEF CallStep, TimerFire, Release, ManualLs, ManualSetBase, ManualList, ManualMark,
              ManualEnqueue, SyncStart, SyncAdvert, SyncList, SyncApply, AlignLs, AlignSetBase,
              AlignList, AlignUpdate, AlignClear, Foreign, Crash, QuietCalls
<1>3. CASE \E k \in Tasks : Task(k)
  BY <1>3 DEF Task, TaskStart, TaskRound, TaskRead, TaskAdvert, TaskSend, TaskSendLost, TaskApply,
              TaskRetry, TaskFinish
<1>4. CASE UNCHANGED vars  BY <1>4 DEF vars
<1> QED  BY <1>1, <1>2, <1>3, <1>4, NextSteps

(* Without disturbances a local ref moves forward, or comes to be where    *)
(* the upstream has none, and the upstream only catches up with it.        *)
Onward ==
    \A r \in Refs :
       /\ \/ local'[r] = local[r]
          \/ local[r] = Zero /\ upstream[r] = Zero
          \/ FF(local[r], local'[r])
       /\ local[r] # Zero => local'[r] # Zero
       /\ upstream'[r] = upstream[r] \/ FF(upstream'[r], local[r])

LEMMA CalmMoves ==
    ASSUME TypeOK, AsksValues, CalmInv, Calm, [Next]_vars, ~Foreign, TypeOK'
    PROVE  Onward
<1> SUFFICES ASSUME NEW r \in Refs
             PROVE  /\ \/ local'[r] = local[r]
                       \/ local[r] = Zero /\ upstream[r] = Zero
                       \/ FF(local[r], local'[r])
                    /\ local[r] # Zero => local'[r] # Zero
                    /\ upstream'[r] = upstream[r] \/ FF(upstream'[r], local[r])
  BY DEF Onward
<1>1. /\ local[r] \in Oids /\ local'[r] \in Oids  BY DEF TypeOK, Heads
<1>2. ASSUME NEW p \in Pushes, PushUpdate(p), local'[r] # local[r]
      PROVE  /\ local'[r] # Zero
             /\ \/ local[r] = Zero /\ upstream[r] = Zero
                \/ FF(local[r], local'[r])
  <2>1. push[p].pc = "update"  BY <1>2 DEF PushUpdate
  <2>2. push[p].ref = r /\ local[r] = push[p].old /\ local'[r] = push[p].new
    BY <1>2 DEF PushUpdate, TypeOK, Heads
  <2> QED  BY <2>1, <2>2 DEF CalmInv, PushForward
<1>3. upstream'[r] = upstream[r] \/ FF(upstream'[r], local[r])
  BY UpstreamMoves DEF Calm, CalmInv, SpecsBehind
<1>4. local' = local \/ \E p \in Pushes : PushUpdate(p)  BY LocalMoves DEF CalmInv
<1> QED  BY <1>2, <1>3, <1>4

(* The steps of a push, as far as the others can tell.                     *)
PushKeeps(p) ==
    /\ push'[p].ref = push[p].ref /\ push'[p].old = push[p].old /\ push'[p].new = push[p].new

LEMMA PushSteps ==
    ASSUME TypeOK, [Next]_vars, NEW p \in Pushes
    PROVE  \/ push'[p] = push[p]
           \/ /\ push'[p].pc = "ls" /\ push'[p].new # push'[p].old
              /\ ~Crash
           \/ PushLs(p) /\ push'[p].pc = "set" /\ push'[p].seen = upstream /\ PushKeeps(p)
           \/ PushSetBase(p) /\ push'[p].pc = "admit" /\ PushKeeps(p)
           \/ /\ PushAdmit(p) /\ push'[p].pc = "update" /\ PushKeeps(p)
              /\ Admits(push[p].ref, push[p].old, push[p].new)
           \/ push'[p].pc \in {"idle", "report", "mark", "enqueue", "done"}
<1>1. push[p] \in PushStates  BY DEF TypeOK
<1>2. CASE Push(p)
  <2>1. CASE PushStart(p)
    <3>1. PICK r \in Refs, new \in Oids :
            /\ new # local[r]
            /\ push' = [push EXCEPT ![p] = [pc |-> "ls", ref |-> r, old |-> local[r],
                                            new |-> new, seen |-> NoRefs]]
      BY <2>1 DEF PushStart
    <3>2. push'[p].pc = "ls" /\ push'[p].new # push'[p].old  BY <3>1 DEF TypeOK
    <3>3. push'[p].pc \notin {"idle", "done"}  BY <3>2
    <3>4. ~Crash
      BY <3>3, Constants, Started DEF Crash
    <3> QED  BY <3>2, <3>4
  <2>2. CASE PushLs(p)
    <3>1. CASE push' = [push EXCEPT ![p].pc = "set", ![p].seen = upstream]
      BY <1>1, <2>2, <3>1 DEF TypeOK, PushStates, PushKeeps
    <3> QED  BY <2>2, <3>1, Started DEF PushLs, PushEnd, TypeOK
  <2>3. CASE PushSetBase(p)
    BY <1>1, <2>3 DEF PushSetBase, TypeOK, PushStates, PushKeeps
  <2>4. CASE PushAdmit(p)
    <3>1. CASE PushEnd(p)  BY <3>1, Started DEF PushEnd, TypeOK
    <3>2. CASE PushAt(p, "update") /\ Admits(push[p].ref, push[p].old, push[p].new)
      BY <1>1, <2>4, <3>2 DEF PushAt, TypeOK, PushStates, PushKeeps
    <3> QED  BY <2>4, <3>1, <3>2 DEF PushAdmit
  <2>5. CASE PushUpdate(p)
    <3>1. [NoPush EXCEPT !.pc = "report", !.ref = push[p].ref].pc = "report"  BY DEF NoPush
    <3> QED  BY <2>5, <3>1, Started DEF PushUpdate, PushEnd, TypeOK
  <2>6. CASE PushReport(p)
    BY <1>1, <2>6, Started DEF PushReport, PushEnd, PushAt, TypeOK, PushStates
  <2>7. CASE PushMark(p)  BY <1>1, <2>7 DEF PushMark, PushAt, TypeOK, PushStates
  <2>8. CASE PushEnqueue(p)  BY <2>8, Started DEF PushEnqueue, PushEnd, TypeOK
  <2> QED  BY <1>2, <2>1, <2>2, <2>3, <2>4, <2>5, <2>6, <2>7, <2>8 DEF Push
<1>3. CASE \E q \in Pushes \ {p} : Push(q)
  BY <1>3 DEF Push, PushStart, PushLs, PushSetBase, PushAdmit, PushUpdate, PushReport, PushMark,
              PushEnqueue, PushAt, PushEnd, TypeOK
<1>4. CASE CallStep
  <2>1. CASE Crash  BY <2>1, Constants, Started DEF Crash
  <2> QED  BY <1>4, <2>1
       DEF CallStep, TimerFire, Release, ManualLs, ManualSetBase, ManualList, ManualMark,
           ManualEnqueue, SyncStart, SyncAdvert, SyncList, SyncApply, AlignLs, AlignSetBase,
           AlignList, AlignUpdate, AlignClear, Foreign
<1>5. CASE \E k \in Tasks : Task(k)
  <2>1. PICK k \in Tasks : Task(k)  BY <1>5
  <2>2. push' = push
    BY <2>1 DEF Task, TaskStart, TaskRound, TaskRead, TaskAdvert, TaskSend, TaskSendLost,
                TaskApply, TaskRetry, TaskFinish
  <2> QED  BY <2>2
<1>6. CASE UNCHANGED vars  BY <1>6 DEF vars
<1> QED  BY <1>2, <1>3, <1>4, <1>5, <1>6, NextSteps

(* Whatever becomes the base knows the upstream's value of a ref that does *)
(* not exist here.                                                         *)
LEMMA BaseTrue ==
    ASSUME TypeOK, AsksValues, CalmInv, Calm, [Next]_vars, NEW r \in Refs, local[r] = Zero
    PROVE  base'[r] = base[r] \/ base'[r] = upstream[r] \/ Crash
<1>1. CASE \E p \in Pushes : Push(p)
  <2>1. PICK p \in Pushes : Push(p)  BY <1>1
  <2>2. CASE PushSetBase(p)  BY <2>2 DEF PushSetBase, CalmInv, SeenTrue
  <2> QED  BY <2>1, <2>2 DEF Push, PushStart, PushLs, PushAdmit, PushUpdate, PushReport, PushMark,
                             PushEnqueue
<1>2. CASE \E k \in Tasks : Task(k)
  <2>1. PICK k \in Tasks : Task(k)  BY <1>2
  <2>2. CASE TaskApply(k)
    <3>1. r \notin task[k].done  BY <2>2 DEF TaskApply, AsksValues, CalmInv, SpecsBehind, Calm
    <3> QED  BY <2>2, <3>1 DEF TaskApply
  <2> QED  BY <2>1, <2>2 DEF Task, TaskStart, TaskRound, TaskRead, TaskAdvert, TaskSend,
                             TaskSendLost, TaskRetry, TaskFinish
<1>3. CASE CallStep
  <2>1. CASE ManualSetBase  BY <2>1 DEF ManualSetBase, CalmInv, SeenTrue
  <2> QED  BY <1>3, <2>1
       DEF CallStep, TimerFire, Release, ManualLs, ManualList, ManualMark, ManualEnqueue, SyncStart,
           SyncAdvert, SyncList, SyncApply, AlignLs, AlignSetBase, AlignList, AlignUpdate,
           AlignClear, Foreign, CalmInv, QuietCalls
<1>4. CASE UNCHANGED vars  BY <1>4 DEF vars
<1> QED  BY <1>1, <1>2, <1>3, <1>4, NextSteps

LEMMA ManualSteps ==
    ASSUME [Next]_vars
    PROVE  \/ manual' = manual
           \/ manual'.pc # "set"
           \/ manual'.seen = upstream
<1>1. CASE \E p \in Pushes : Push(p)
  BY <1>1 DEF Push, PushStart, PushLs, PushSetBase, PushAdmit, PushUpdate, PushReport, PushMark,
              PushEnqueue, callers
<1>2. CASE \E k \in Tasks : Task(k)
  BY <1>2 DEF Task, TaskStart, TaskRound, TaskRead, TaskAdvert, TaskSend, TaskSendLost, TaskApply,
              TaskRetry, TaskFinish, callers
<1>3. CASE CallStep
  BY <1>3, Constants DEF CallStep, TimerFire, Release, ManualLs, ManualSetBase, ManualList,
     ManualMark, ManualEnqueue, SyncStart, SyncAdvert, SyncList, SyncApply, AlignLs, AlignSetBase,
     AlignList, AlignUpdate, AlignClear, Foreign, Crash, callers, NoCall
<1>4. CASE UNCHANGED vars  BY <1>4 DEF vars, callers
<1> QED  BY <1>1, <1>2, <1>3, <1>4, NextSteps

LEMMA QuietStep ==
    ASSUME QuietCalls, [Next]_vars, ~Spend("sync"), ~Spend("align")
    PROVE  QuietCalls'
<1>1. CASE \E p \in Pushes : Push(p)
  BY <1>1 DEF Push, PushStart, PushLs, PushSetBase, PushAdmit, PushUpdate, PushReport, PushMark,
              PushEnqueue, callers, QuietCalls
<1>2. CASE \E k \in Tasks : Task(k)
  BY <1>2 DEF Task, TaskStart, TaskRound, TaskRead, TaskAdvert, TaskSend, TaskSendLost, TaskApply,
              TaskRetry, TaskFinish, callers, QuietCalls
<1>3. CASE CallStep
  BY <1>3, Constants DEF CallStep, TimerFire, Release, ManualLs, ManualSetBase, ManualList,
     ManualMark, ManualEnqueue, SyncStart, SyncAdvert, SyncList, SyncApply, AlignLs, AlignSetBase,
     AlignList, AlignUpdate, AlignClear, Foreign, Crash, callers, QuietCalls
<1>4. CASE UNCHANGED vars  BY <1>4 DEF vars, callers, QuietCalls
<1> QED  BY <1>1, <1>2, <1>3, <1>4, NextSteps

LEMMA SpecsStep ==
    ASSUME TypeOK, SpecsBehind, Onward, CalmInv, Calm, [Next]_vars, TypeOK'
    PROVE  SpecsBehind'
<1> SUFFICES ASSUME NEW k \in Tasks, NEW r \in Refs, task'[k].spec[r] # Zero
             PROVE  local'[r] # Zero /\ FF(task'[k].spec[r], local'[r])
  BY DEF SpecsBehind
<1>1. /\ local[r] \in Oids /\ local'[r] \in Oids
      /\ task[k].spec[r] \in Oids
  BY DEF TypeOK, Heads, TaskStates
<1>2. CASE task'[k].spec = task[k].spec
  <2>1. local[r] # Zero /\ FF(task[k].spec[r], local[r])  BY <1>2 DEF SpecsBehind
  <2> QED  BY <1>1, <1>2, <2>1, FFRelates DEF Onward
<1>3. task'[k].spec # NoRefs  BY Constants
<1>4. CASE TaskRead(k)
  <2>1. task'[k].spec[r] \in {local[r], Zero}  BY <1>4, ReadFields
  <2>2. local' = local  BY <1>4 DEF TaskRead
  <2>3. task'[k].spec[r] = local[r] /\ local[r] # Zero  BY <2>1
  <2> QED  BY <1>1, <2>2, <2>3, FFRelates
<1>5. CASE Task(k)
  <2>1. CASE Asking(k)  BY <1>2, <2>1 DEF Asking
  <2>2. CASE TaskSend(k)  BY <1>2, <2>2, SendFields
  <2> QED  BY <1>2, <1>3, <1>4, <1>5, <2>1, <2>2, TaskSteps
<1>6. CASE \E j \in Tasks \ {k} : Task(j)  BY <1>2, <1>6, TaskAlone
<1>7. CASE (\E p \in Pushes : Push(p)) \/ CallStep \/ UNCHANGED vars
  BY <1>2, <1>3, <1>7, TasksLeft
<1> QED  BY <1>5, <1>6, <1>7, NextSteps

LEMMA SeenStep ==
    ASSUME TypeOK, AsksValues, CalmInv, Calm, Onward, [Next]_vars, TypeOK'
    PROVE  SeenTrue'
<1> SUFFICES ASSUME NEW r \in Refs, local'[r] = Zero
             PROVE  /\ \A p \in Pushes :
                          /\ push'[p].pc = "set" => push'[p].seen[r] = upstream'[r]
                          /\ push'[p].pc = "admit" => base'[r] = upstream'[r]
                    /\ manual'.pc = "set" => manual'.seen[r] = upstream'[r]
  BY DEF SeenTrue
<1>1. local[r] = Zero  BY DEF Onward
<1>2. upstream'[r] = upstream[r]
  <2>1. local[r] \in Oids /\ upstream'[r] \in Oids  BY DEF TypeOK, Heads
  <2> QED  BY <1>1, <2>1, FFRelates DEF Onward
<1>3. /\ \A p \in Pushes : /\ push[p].pc = "set" => push[p].seen[r] = upstream[r]
                           /\ push[p].pc = "admit" => base[r] = upstream[r]
      /\ manual.pc = "set" => manual.seen[r] = upstream[r]
  BY <1>1 DEF CalmInv, SeenTrue
<1>4. ASSUME NEW p \in Pushes
      PROVE  /\ push'[p].pc = "set" => push'[p].seen[r] = upstream[r]
             /\ push'[p].pc = "admit" => base'[r] = upstream[r]
  <2>1. CASE Crash
    <3>1. push'[p].pc \in {"idle", "done"}  BY <2>1, Constants, Started DEF Crash
    <3> QED  BY <3>1
  <2>2. CASE PushSetBase(p)
    BY <1>3, <2>2 DEF PushSetBase, TypeOK, PushStates
  <2>3. CASE push'[p] = push[p] /\ ~Crash  BY <1>1, <1>3, <2>3, BaseTrue
  <2>4. CASE push'[p].pc \in {"ls", "update", "idle", "report", "mark", "enqueue", "done"}  BY <2>4
  <2>5. CASE push'[p].pc = "set" /\ push'[p].seen = upstream  BY <2>5
  <2> QED  BY <2>1, <2>2, <2>3, <2>4, <2>5, PushSteps
<1>5. manual'.pc = "set" => manual'.seen[r] = upstream[r]  BY <1>3, ManualSteps
<1> QED  BY <1>2, <1>4, <1>5

LEMMA PushStep ==
    ASSUME TypeOK, CalmInv, Calm, Onward, [Next]_vars, TypeOK'
    PROVE  PushForward'
<1> SUFFICES ASSUME NEW p \in Pushes
             PROVE  /\ push'[p].pc \in {"ls", "set", "admit"} => push'[p].old # push'[p].new
                    /\ push'[p].pc = "update" =>
                          /\ push'[p].new # Zero
                          /\ IF push'[p].old = Zero
                             THEN \/ local'[push'[p].ref] # Zero
                                  \/ upstream'[push'[p].ref] = Zero
                             ELSE FF(push'[p].old, push'[p].new)
  BY DEF PushForward
<1>1. /\ push[p].pc \in {"ls", "set", "admit"} => push[p].old # push[p].new
      /\ push[p].pc = "update" =>
            /\ push[p].new # Zero
            /\ IF push[p].old = Zero
               THEN local[push[p].ref] # Zero \/ upstream[push[p].ref] = Zero
               ELSE FF(push[p].old, push[p].new)
  BY DEF CalmInv, PushForward
<1>2. push[p].ref \in Refs  BY DEF TypeOK, PushStates
<1>3. ASSUME NEW r \in Refs, local[r] # Zero \/ upstream[r] = Zero
      PROVE  local'[r] # Zero \/ upstream'[r] = Zero
  <2>1. local[r] \in Oids /\ upstream'[r] \in Oids  BY DEF TypeOK, Heads
  <2>2. local[r] # Zero => local'[r] # Zero  BY DEF Onward
  <2>3. local[r] = Zero => upstream'[r] = upstream[r]  BY <2>1, FFRelates DEF Onward
  <2> QED  BY <1>3, <2>2, <2>3
<1>4. CASE push'[p] = push[p]  BY <1>1, <1>2, <1>3, <1>4
<1>5. CASE push'[p].pc = "ls" /\ push'[p].new # push'[p].old  BY <1>5
<1>6. CASE PushLs(p) /\ push'[p].pc = "set" /\ PushKeeps(p)  BY <1>1, <1>6 DEF PushLs, PushKeeps
<1>7. CASE PushSetBase(p) /\ push'[p].pc = "admit" /\ PushKeeps(p)
  BY <1>1, <1>7 DEF PushSetBase, PushKeeps
<1>8. CASE /\ PushAdmit(p) /\ push'[p].pc = "update" /\ PushKeeps(p)
           /\ Admits(push[p].ref, push[p].old, push[p].new)
  <2>1. push[p].pc = "admit" /\ push[p].old # push[p].new  BY <1>1, <1>8 DEF PushAdmit
  <2>2. local[push[p].ref] = Zero => base[push[p].ref] = upstream[push[p].ref]
    BY <1>2, <2>1 DEF CalmInv, SeenTrue
  <2>3. UNCHANGED <<local, upstream>>  BY <1>8 DEF PushAdmit
  <2> QED  BY <1>8, <2>1, <2>2, <2>3 DEF Admits, PushKeeps, Calm
<1>9. CASE push'[p].pc \in {"idle", "report", "mark", "enqueue", "done"}  BY <1>9
<1> QED  BY <1>4, <1>5, <1>6, <1>7, <1>8, <1>9, PushSteps

LEMMA BehindStep ==
    ASSUME TypeOK, Behind, Onward, TypeOK'
    PROVE  Behind'
<1> SUFFICES ASSUME NEW r \in Refs, Zero \notin {local'[r], upstream'[r]}
             PROVE  FF(upstream'[r], local'[r])
  BY DEF Behind
<1>1. {local[r], local'[r], upstream[r], upstream'[r]} \subseteq Oids  BY DEF TypeOK, Heads
<1>2. CASE upstream'[r] = upstream[r]
  BY <1>1, <1>2, FFRelates DEF Behind, Onward
<1>3. CASE FF(upstream'[r], local[r])
  BY <1>1, <1>3, FFRelates DEF Onward
<1> QED  BY <1>2, <1>3 DEF Onward

LEMMA CalmStep ==
    ASSUME TypeOK, BudgetBound, BudgetFalls, AsksValues, CalmInv, [Next]_vars, TypeOK'
    PROVE  CalmInv' /\ (Calm' => Calm /\ Onward)
<1> SUFFICES ASSUME Calm'
             PROVE  /\ QuietCalls' /\ SpecsBehind' /\ SeenTrue' /\ PushForward' /\ Behind'
                    /\ Calm /\ Onward
  BY DEF CalmInv
<1>1. Calm /\ ~Spend("foreign") /\ ~Spend("sync") /\ ~Spend("align")
  BY StillUndisturbed DEF Calm, Kinds
<1>2. ~Foreign  BY <1>1 DEF Foreign
<1>3. Onward  BY <1>1, <1>2, CalmMoves
<1>4. QuietCalls'  BY <1>1, QuietStep DEF CalmInv
<1>5. SpecsBehind'  BY <1>1, <1>3, SpecsStep DEF CalmInv
<1>6. SeenTrue'  BY <1>1, <1>3, SeenStep
<1>7. PushForward'  BY <1>1, <1>3, PushStep
<1>8. Behind'  BY <1>1, <1>3, BehindStep DEF CalmInv
<1> QED  BY <1>1, <1>3, <1>4, <1>5, <1>6, <1>7, <1>8

(* What the one task asks for stays ahead of the upstream: nobody else     *)
(* moves it, and its own requests write what it asks for.                  *)
LEMMA SendsStep ==
    ASSUME TypeOK, BudgetBound, BudgetFalls, AsksValues, OneBusy, CalmInv, SendsForward,
           [Next]_vars, TypeOK'
    PROVE  SendsForward'
<1> SUFFICES ASSUME Calm', Undisturbed({"full"})',
                    NEW k \in Tasks, task'[k].pc \in {"advert", "send"}, NEW r \in Refs
             PROVE  \/ Zero \in {task'[k].spec[r], upstream'[r]}
                    \/ FF(upstream'[r], task'[k].spec[r])
  BY DEF SendsForward
<1>1. Calm /\ Undisturbed({"full"}) /\ ~Spend("foreign")
  BY StillUndisturbed DEF Calm, Kinds
<1>2. ~Foreign  BY <1>1 DEF Foreign
<1>3. task[k].spec[r] \in Oids /\ upstream[r] \in Oids  BY DEF TypeOK, TaskStates, Heads
<1>4. CASE task[k].pc \in {"advert", "send"} /\ task'[k].spec = task[k].spec
  <2>1. CASE upstream'[r] = upstream[r]  BY <1>1, <1>4, <2>1 DEF SendsForward
  <2>2. CASE \E j \in Tasks : task[j].pc = "send" /\ upstream'[r] = task[j].spec[r]
    <3>1. PICK j \in Tasks : task[j].pc = "send" /\ upstream'[r] = task[j].spec[r]  BY <2>2
    <3>2. j = k  BY <1>1, <1>4, <3>1 DEF OneBusy, Busy
    <3> QED  BY <1>3, <1>4, <3>1, <3>2, FFRelates
  <2> QED  BY <1>1, <1>2, <2>1, <2>2, UpstreamMoves DEF Calm
<1>5. CASE TaskRead(k)
  <2>1. task'[k].spec[r] \in {local[r], Zero}  BY <1>5, ReadFields
  <2>2. upstream' = upstream  BY <1>5 DEF TaskRead
  <2> QED  BY <1>1, <2>1, <2>2 DEF CalmInv, Behind
<1>6. CASE Task(k)
  <2>1. CASE Asking(k)  BY <1>4, <2>1 DEF Asking
  <2>2. ~TaskSend(k)  BY SendFields
  <2> QED  BY <1>5, <1>6, <2>1, <2>2, TaskSteps
<1>7. CASE \E j \in Tasks \ {k} : Task(j)  BY <1>4, <1>7, TaskAlone
<1>8. CASE (\E p \in Pushes : Push(p)) \/ CallStep \/ UNCHANGED vars  BY <1>4, <1>8, TasksLeft
<1> QED  BY <1>6, <1>7, <1>8, NextSteps

LEMMA NextInv == IInv /\ [Next]_vars => IInv'
<1> SUFFICES ASSUME IInv, [Next]_vars PROVE IInv'  OBVIOUS
<1>1. TypeOK /\ BudgetBound /\ AsksValues /\ OneBusy /\ CalmInv /\ SendsForward  BY DEF IInv
<1>2. TypeOK' /\ BudgetFalls /\ BudgetBound'  BY <1>1, TypeStep
<1>3. AsksValues'  BY <1>1, AsksValuesStep
<1>4. OneBusy'  BY <1>1, <1>2, OneBusyStep
<1>5. CalmInv'  BY <1>1, <1>2, CalmStep
<1>6. SendsForward'  BY <1>1, <1>2, SendsStep
<1> QED  BY <1>2, <1>3, <1>4, <1>5, <1>6 DEF IInv

(* The inductive invariant of a relay repository.                          *)
THEOREM Invariance == Spec => []IInv
  BY InitInv, NextInv, PTL DEF Spec

-----------------------------------------------------------------------------
(* Every variable keeps its type, whatever the numbers of pushes, tasks    *)
(* and disturbances.                                                       *)
THEOREM TypeCorrect == Spec => []TypeOK
<1>1. IInv => TypeOK  BY DEF IInv
<1> QED  BY <1>1, Invariance, PTL

(* Without other writers, pulls, aligns and forwarded deletions the local  *)
(* refs are never behind or beside the upstream's, for any number of       *)
(* concurrent pushes over the one shared base, of tasks (also after a full *)
(* queue), lost requests and crashes.                                      *)
THEOREM LocalStaysAhead == Spec => []LocalAhead
<1>1. IInv => LocalAhead  BY DEF IInv, CalmInv, Calm, Behind, LocalAhead
<1> QED  BY <1>1, Invariance, PTL

(* As long as the queue was never full the repository has at most one      *)
(* forward task, and the two flags say where it stands.                    *)
THEOREM OneTaskOnly == Spec => []OneTask
<1>1. ASSUME IInv, Undisturbed({"full"})
      PROVE  Cardinality({k \in Tasks : task[k].pc # "free"}) <= 1
  <2> DEFINE busy == {k \in Tasks : task[k].pc # "free"}
  <2>1. \A k, j \in busy : k = j  BY <1>1 DEF IInv, OneBusy, Busy
  <2>2. CASE busy = {}  BY <2>2, FS_EmptySet
  <2>3. CASE busy # {}
    <3>1. PICK k \in busy : busy = {k}  BY <2>1, <2>3
    <3>2. Cardinality(busy) = 1  BY <3>1, FS_Singleton
    <3> QED  BY <3>2
  <2> QED  BY <2>2, <2>3
<1>2. IInv => OneTask  BY <1>1 DEF IInv, OneBusy, OneTask
<1> QED  BY <1>2, Invariance, PTL

(* Under those conditions every step that moves a ref of the upstream      *)
(* moves it forward: the requests of the task, also those whose answer is  *)
(* lost and those that are tried again, and nothing else.                  *)
THEOREM ForwardsOnly == Spec => UpstreamForward
<1>1. ASSUME IInv, [Next]_vars, ~AllowDelete, Undisturbed({"foreign", "sync", "align", "full"})'
      PROVE  ForwardStep
  <2>1. TypeOK /\ BudgetBound /\ AsksValues /\ SendsForward  BY <1>1 DEF IInv
  <2>2. TypeOK' /\ BudgetFalls  BY <1>1, <2>1, TypeStep
  <2>3. Calm /\ Undisturbed({"full"}) /\ ~Spend("foreign")
    <3>1. {"foreign", "sync", "align", "full"} \subseteq Kinds  BY DEF Kinds
    <3>2. /\ Undisturbed({"foreign", "sync", "align", "full"})
          /\ \A kind \in {"foreign", "sync", "align", "full"} : ~Spend(kind)
      BY <1>1, <2>1, <2>2, <3>1, StillUndisturbed
    <3> QED  BY <1>1, <3>2 DEF Calm, Undisturbed
  <2>4. ASSUME NEW r \in Refs PROVE upstream[r] = Zero \/ FF(upstream[r], upstream'[r])
    <3>1. upstream[r] \in Oids  BY <2>1 DEF TypeOK, Heads
    <3>2. CASE upstream'[r] = upstream[r]  BY <3>1, <3>2, FFRelates
    <3>3. CASE \E k \in Tasks : /\ task[k].pc = "send" /\ task[k].spec[r] # Zero
                                /\ upstream'[r] = task[k].spec[r]
      BY <2>1, <2>3, <3>3 DEF SendsForward
    <3> QED  BY <1>1, <2>1, <2>3, <3>2, <3>3, UpstreamMoves DEF Foreign
  <2> QED  BY <2>4 DEF ForwardStep
<1>2. IInv /\ [Next]_vars =>
         [~AllowDelete /\ Undisturbed({"foreign", "sync", "align", "full"})' => ForwardStep]_vars
  BY <1>1
<1> QED  BY <1>2, Invariance, PTL DEF Spec, UpstreamForward

(* A repository that does not forward deletions deletes no ref of the      *)
(* upstream, whatever disturbs it and however often.                       *)
THEOREM NeverDeletesUpstream == Spec => UpstreamKept
<1>1. ASSUME IInv, [Next]_vars, ~AllowDelete,
             NEW r \in Refs, upstream[r] # Zero, upstream'[r] = Zero
      PROVE  budget'["foreign"] # budget["foreign"]
  <2>1. TypeOK /\ AsksValues  BY <1>1 DEF IInv
  <2>2. Foreign  BY <1>1, <2>1, UpstreamMoves
  <2>3. "foreign" \in Kinds /\ Spend("foreign")  BY <2>2 DEF Foreign, Kinds
  <2>4. BudgetFalls /\ budget'["foreign"] < budget["foreign"]  BY <2>1, <2>3, Spent
  <2> QED  BY <2>1, <2>3, <2>4 DEF TypeOK, BudgetFalls
<1>2. IInv /\ [Next]_vars =>
         [~AllowDelete =>
             \A r \in Refs : upstream[r] # Zero /\ upstream'[r] = Zero =>
                                 budget'["foreign"] # budget["foreign"]]_vars
  BY <1>1
<1> QED  BY <1>2, Invariance, PTL DEF Spec, UpstreamKept

=============================================================================
