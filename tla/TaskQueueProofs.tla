--------------------------- MODULE TaskQueueProofs ---------------------------
(***************************************************************************)
(* Proofs about the task queue, for any number of tasks, workers, callers  *)
(* of Stop and resizes.                                                    *)
(***************************************************************************)
EXTENDS TaskQueue, SequenceTheorems, TLAPS

-----------------------------------------------------------------------------
(* The channel holds a task once, and only tasks that were accepted and    *)
(* neither taken nor dropped; a task without an answer is new to everyone. *)
QueueOnce == \A i, j \in 1..Len(tasks) : tasks[i] = tasks[j] => i = j
QueuedIsFresh ==
    \A i \in 1..Len(tasks) : /\ submit[tasks[i]] = "accepted"
                             /\ ran[tasks[i]] = 0 /\ dropped[tasks[i]] = 0
OpenIsFresh ==
    \A t \in Tasks : submit[t] \in {"new", "open"} => ran[t] = 0 /\ dropped[t] = 0

(* Who has begun to stop has closed the queue.                             *)
StopHasClosed == \A s \in Stoppers : stop[s] # "idle" => closed

(* A worker that could take a task has taken none since it was retired.    *)
LateIsLast ==
    \A w \in Workers : /\ at[w] \in {"select", "none"} => late[w] = 0
                       /\ late[w] > 0 => w \in retired

IInv ==
    /\ TypeOK
    /\ QueueOnce
    /\ QueuedIsFresh
    /\ OpenIsFresh
    /\ RunOrDropOnce
    /\ StopHasClosed
    /\ StopIsFinal
    /\ LateIsLast
    /\ OneTaskAfterRetire

-----------------------------------------------------------------------------
(* What receiving from the channel does to it.                             *)
LEMMA Taken ==
    ASSUME ChannelOK, tasks # <<>>
    PROVE  /\ Head(tasks) \in Tasks /\ Head(tasks) = tasks[1]
           /\ 1 \in 1..Len(tasks)
           /\ Tail(tasks) \in Seq(Tasks)
           /\ Len(Tail(tasks)) = Len(tasks) - 1 /\ Len(tasks) - 1 \in Nat
           /\ \A i \in 1..(Len(tasks) - 1) : /\ i + 1 \in 1..Len(tasks)
                                            /\ Tail(tasks)[i] = tasks[i + 1]
           /\ \A i \in 1..Len(tasks) : tasks[i] \in Tasks
<1>1. Len(tasks) \in Nat \ {0}
  BY EmptySeq DEF ChannelOK
<1> QED BY <1>1, HeadTailProperties, ElementOfSeq DEF ChannelOK

(* ... and what sending to it does.                                        *)
LEMMA Sent ==
    ASSUME ChannelOK, NEW t \in Tasks
    PROVE  /\ Append(tasks, t) \in Seq(Tasks)
           /\ Len(Append(tasks, t)) = Len(tasks) + 1 /\ Len(tasks) \in Nat
           /\ \A i \in 1..Len(tasks) : Append(tasks, t)[i] = tasks[i] /\ tasks[i] \in Tasks
           /\ Append(tasks, t)[Len(tasks) + 1] = t
  BY AppendProperties, LenProperties, ElementOfSeq DEF ChannelOK

(* The initial states satisfy the invariant.                               *)
LEMMA InitInv == Init => IInv
<1> SUFFICES ASSUME Init PROVE IInv
  OBVIOUS
<1>1. TypeOK
  <2>1. ChannelOK
    <3>1. tasks = <<>> /\ 0 <= Capacity
      BY QueueAssumption DEF Init
    <3> QED BY <3>1, EmptySeq DEF ChannelOK
  <2>2. TasksOK
    BY DEF Init, TasksOK
  <2>3. WorkersOK
    BY DEF Init, WorkersOK
  <2>4. StopOK
    <3>1. resizes \in 0..MaxResizes
      BY QueueAssumption DEF Init
    <3>2. closed \in BOOLEAN
      BY DEF Init
    <3>3. stop \in [Stoppers -> {"idle", "wait", "drain", "stopped"}]
      BY DEF Init
    <3> QED BY <3>1, <3>2, <3>3 DEF StopOK
  <2> QED BY <2>1, <2>2, <2>3, <2>4 DEF TypeOK
<1>2. QueueOnce /\ QueuedIsFresh /\ OpenIsFresh /\ RunOrDropOnce
  BY EmptySeq DEF Init, QueueOnce, QueuedIsFresh, OpenIsFresh, RunOrDropOnce
<1>3. StopHasClosed /\ StopIsFinal /\ LateIsLast /\ OneTaskAfterRetire
  BY DEF Init, StopHasClosed, StopIsFinal, LateIsLast, OneTaskAfterRetire
<1> QED BY <1>1, <1>2, <1>3 DEF IInv

(* A send is made only when the channel has room.                          *)
LEMMA ChannelStep ==
    ASSUME ChannelOK, [Next]_vars
    PROVE  ChannelOK'
<1> USE DEF ChannelOK, submitVars, workerVars, poolVars
<1>1. ASSUME NEW t \in Tasks, SubmitClosed(t) PROVE ChannelOK'
  BY <1>1 DEF SubmitClosed, Refuse
<1>2. ASSUME NEW t \in Tasks, SubmitOpen(t) PROVE ChannelOK'
  BY <1>2 DEF SubmitOpen
<1>3. ASSUME NEW t \in Tasks, SubmitSend(t) PROVE ChannelOK'
  BY <1>3, Sent, QueueAssumption DEF SubmitSend
<1>4. ASSUME NEW t \in Tasks, SubmitFull(t) PROVE ChannelOK'
  BY <1>4 DEF SubmitFull, Refuse
<1>5. ASSUME NEW w \in Workers, WorkerTop(w) PROVE ChannelOK'
  BY <1>5 DEF WorkerTop, Leave
<1>6. ASSUME NEW w \in Workers, WorkerQuit(w) PROVE ChannelOK'
  BY <1>6 DEF WorkerQuit, Leave
<1>7. ASSUME NEW w \in Workers, WorkerTake(w) PROVE ChannelOK'
  <2>1. tasks # <<>>
    BY <1>7 DEF WorkerTake
  <2> QED BY <1>7, <2>1, Taken, QueueAssumption DEF WorkerTake
<1>8. ASSUME NEW w \in Workers, WorkerFinish(w) PROVE ChannelOK'
  BY <1>8 DEF WorkerFinish
<1>9. ASSUME NEW n \in 1..MaxWorkers, SetWorkers(n) PROVE ChannelOK'
  BY <1>9 DEF SetWorkers, Spawn, Retire
<1>10. ASSUME NEW s \in Stoppers, StopClose(s) PROVE ChannelOK'
  BY <1>10 DEF StopClose
<1>11. ASSUME NEW s \in Stoppers, StopWaited(s) PROVE ChannelOK'
  BY <1>11 DEF StopWaited
<1>12. ASSUME NEW s \in Stoppers, StopDrop(s) PROVE ChannelOK'
  <2>1. tasks # <<>>
    BY <1>12 DEF StopDrop
  <2> QED BY <1>12, <2>1, Taken, QueueAssumption DEF StopDrop
<1>13. ASSUME NEW s \in Stoppers, StopReturn(s) PROVE ChannelOK'
  BY <1>13 DEF StopReturn
<1>14. CASE UNCHANGED vars
  BY <1>14 DEF vars
<1> QED
  BY <1>1, <1>2, <1>3, <1>4, <1>5, <1>6, <1>7, <1>8, <1>9, <1>10,
     <1>11, <1>12, <1>13, <1>14
  DEF Next, Submitter, Worker, Stopping

(* The callbacks are counted for known tasks.                              *)
LEMMA TasksStep ==
    ASSUME ChannelOK, TasksOK, WorkersOK, [Next]_vars
    PROVE  TasksOK'
<1> USE DEF TasksOK, WorkersOK, submitVars, workerVars, poolVars
<1>1. ASSUME NEW t \in Tasks, SubmitClosed(t) PROVE TasksOK'
  BY <1>1 DEF SubmitClosed, Refuse
<1>2. ASSUME NEW t \in Tasks, SubmitOpen(t) PROVE TasksOK'
  BY <1>2 DEF SubmitOpen
<1>3. ASSUME NEW t \in Tasks, SubmitSend(t) PROVE TasksOK'
  BY <1>3, Sent DEF SubmitSend
<1>4. ASSUME NEW t \in Tasks, SubmitFull(t) PROVE TasksOK'
  BY <1>4 DEF SubmitFull, Refuse
<1>5. ASSUME NEW w \in Workers, WorkerTop(w) PROVE TasksOK'
  BY <1>5 DEF WorkerTop, Leave
<1>6. ASSUME NEW w \in Workers, WorkerQuit(w) PROVE TasksOK'
  BY <1>6 DEF WorkerQuit, Leave
<1>7. ASSUME NEW w \in Workers, WorkerTake(w) PROVE TasksOK'
  <2>1. tasks # <<>>
    BY <1>7 DEF WorkerTake
  <2> QED BY <1>7, <2>1, Taken DEF WorkerTake
<1>8. ASSUME NEW w \in Workers, WorkerFinish(w) PROVE TasksOK'
  BY <1>8 DEF WorkerFinish
<1>9. ASSUME NEW n \in 1..MaxWorkers, SetWorkers(n) PROVE TasksOK'
  BY <1>9 DEF SetWorkers, Spawn, Retire
<1>10. ASSUME NEW s \in Stoppers, StopClose(s) PROVE TasksOK'
  BY <1>10 DEF StopClose
<1>11. ASSUME NEW s \in Stoppers, StopWaited(s) PROVE TasksOK'
  BY <1>11 DEF StopWaited
<1>12. ASSUME NEW s \in Stoppers, StopDrop(s) PROVE TasksOK'
  <2>1. tasks # <<>>
    BY <1>12 DEF StopDrop
  <2> QED BY <1>12, <2>1, Taken DEF StopDrop
<1>13. ASSUME NEW s \in Stoppers, StopReturn(s) PROVE TasksOK'
  BY <1>13 DEF StopReturn
<1>14. CASE UNCHANGED vars
  BY <1>14 DEF vars
<1> QED
  BY <1>1, <1>2, <1>3, <1>4, <1>5, <1>6, <1>7, <1>8, <1>9, <1>10,
     <1>11, <1>12, <1>13, <1>14
  DEF Next, Submitter, Worker, Stopping

(* A running worker holds the task it took from the channel.               *)
LEMMA WorkersStep ==
    ASSUME ChannelOK, WorkersOK, [Next]_vars
    PROVE  WorkersOK'
<1> USE DEF WorkersOK, submitVars, workerVars, poolVars
<1>1. ASSUME NEW t \in Tasks, SubmitClosed(t) PROVE WorkersOK'
  BY <1>1 DEF SubmitClosed, Refuse
<1>2. ASSUME NEW t \in Tasks, SubmitOpen(t) PROVE WorkersOK'
  BY <1>2 DEF SubmitOpen
<1>3. ASSUME NEW t \in Tasks, SubmitSend(t) PROVE WorkersOK'
  BY <1>3 DEF SubmitSend
<1>4. ASSUME NEW t \in Tasks, SubmitFull(t) PROVE WorkersOK'
  BY <1>4 DEF SubmitFull, Refuse
<1>5. ASSUME NEW w \in Workers, WorkerTop(w) PROVE WorkersOK'
  BY <1>5 DEF WorkerTop, Leave
<1>6. ASSUME NEW w \in Workers, WorkerQuit(w) PROVE WorkersOK'
  BY <1>6 DEF WorkerQuit, Leave
<1>7. ASSUME NEW w \in Workers, WorkerTake(w) PROVE WorkersOK'
  <2>1. tasks # <<>>
    BY <1>7 DEF WorkerTake
  <2> QED BY <1>7, <2>1, Taken DEF WorkerTake
<1>8. ASSUME NEW w \in Workers, WorkerFinish(w) PROVE WorkersOK'
  BY <1>8 DEF WorkerFinish
<1>9. ASSUME NEW n \in 1..MaxWorkers, SetWorkers(n) PROVE WorkersOK'
  BY <1>9 DEF SetWorkers, Spawn, Retire
<1>10. ASSUME NEW s \in Stoppers, StopClose(s) PROVE WorkersOK'
  BY <1>10 DEF StopClose
<1>11. ASSUME NEW s \in Stoppers, StopWaited(s) PROVE WorkersOK'
  BY <1>11 DEF StopWaited
<1>12. ASSUME NEW s \in Stoppers, StopDrop(s) PROVE WorkersOK'
  BY <1>12 DEF StopDrop
<1>13. ASSUME NEW s \in Stoppers, StopReturn(s) PROVE WorkersOK'
  BY <1>13 DEF StopReturn
<1>14. CASE UNCHANGED vars
  BY <1>14 DEF vars
<1> QED
  BY <1>1, <1>2, <1>3, <1>4, <1>5, <1>6, <1>7, <1>8, <1>9, <1>10,
     <1>11, <1>12, <1>13, <1>14
  DEF Next, Submitter, Worker, Stopping

(* The queue is closed once; the resizes are bounded.                      *)
LEMMA StopStep ==
    ASSUME StopOK, [Next]_vars
    PROVE  StopOK'
<1> USE DEF StopOK, submitVars, workerVars, poolVars
<1>1. ASSUME NEW t \in Tasks, SubmitClosed(t) PROVE StopOK'
  BY <1>1 DEF SubmitClosed, Refuse
<1>2. ASSUME NEW t \in Tasks, SubmitOpen(t) PROVE StopOK'
  BY <1>2 DEF SubmitOpen
<1>3. ASSUME NEW t \in Tasks, SubmitSend(t) PROVE StopOK'
  BY <1>3 DEF SubmitSend
<1>4. ASSUME NEW t \in Tasks, SubmitFull(t) PROVE StopOK'
  BY <1>4 DEF SubmitFull, Refuse
<1>5. ASSUME NEW w \in Workers, WorkerTop(w) PROVE StopOK'
  BY <1>5 DEF WorkerTop, Leave
<1>6. ASSUME NEW w \in Workers, WorkerQuit(w) PROVE StopOK'
  BY <1>6 DEF WorkerQuit, Leave
<1>7. ASSUME NEW w \in Workers, WorkerTake(w) PROVE StopOK'
  BY <1>7 DEF WorkerTake
<1>8. ASSUME NEW w \in Workers, WorkerFinish(w) PROVE StopOK'
  BY <1>8 DEF WorkerFinish
<1>9. ASSUME NEW n \in 1..MaxWorkers, SetWorkers(n) PROVE StopOK'
  BY <1>9, QueueAssumption DEF SetWorkers, Spawn, Retire
<1>10. ASSUME NEW s \in Stoppers, StopClose(s) PROVE StopOK'
  BY <1>10 DEF StopClose
<1>11. ASSUME NEW s \in Stoppers, StopWaited(s) PROVE StopOK'
  BY <1>11 DEF StopWaited
<1>12. ASSUME NEW s \in Stoppers, StopDrop(s) PROVE StopOK'
  BY <1>12 DEF StopDrop
<1>13. ASSUME NEW s \in Stoppers, StopReturn(s) PROVE StopOK'
  BY <1>13 DEF StopReturn
<1>14. CASE UNCHANGED vars
  BY <1>14 DEF vars
<1> QED
  BY <1>1, <1>2, <1>3, <1>4, <1>5, <1>6, <1>7, <1>8, <1>9, <1>10,
     <1>11, <1>12, <1>13, <1>14
  DEF Next, Submitter, Worker, Stopping

(* Only a task that is not accepted yet is sent to the channel.            *)
LEMMA QueueOnceStep ==
    ASSUME ChannelOK, TasksOK, QueueOnce, QueuedIsFresh, [Next]_vars
    PROVE  QueueOnce'
<1> USE DEF TasksOK, QueueOnce, QueuedIsFresh, submitVars, workerVars,
        poolVars
<1>1. ASSUME NEW t \in Tasks, SubmitClosed(t) PROVE QueueOnce'
  BY <1>1 DEF SubmitClosed, Refuse
<1>2. ASSUME NEW t \in Tasks, SubmitOpen(t) PROVE QueueOnce'
  BY <1>2 DEF SubmitOpen
<1>3. ASSUME NEW t \in Tasks, SubmitSend(t) PROVE QueueOnce'
  BY <1>3, Sent DEF SubmitSend
<1>4. ASSUME NEW t \in Tasks, SubmitFull(t) PROVE QueueOnce'
  BY <1>4 DEF SubmitFull, Refuse
<1>5. ASSUME NEW w \in Workers, WorkerTop(w) PROVE QueueOnce'
  BY <1>5 DEF WorkerTop, Leave
<1>6. ASSUME NEW w \in Workers, WorkerQuit(w) PROVE QueueOnce'
  BY <1>6 DEF WorkerQuit, Leave
<1>7. ASSUME NEW w \in Workers, WorkerTake(w) PROVE QueueOnce'
  <2>1. tasks # <<>>
    BY <1>7 DEF WorkerTake
  <2> QED BY <1>7, <2>1, Taken DEF WorkerTake
<1>8. ASSUME NEW w \in Workers, WorkerFinish(w) PROVE QueueOnce'
  BY <1>8 DEF WorkerFinish
<1>9. ASSUME NEW n \in 1..MaxWorkers, SetWorkers(n) PROVE QueueOnce'
  BY <1>9 DEF SetWorkers, Spawn, Retire
<1>10. ASSUME NEW s \in Stoppers, StopClose(s) PROVE QueueOnce'
  BY <1>10 DEF StopClose
<1>11. ASSUME NEW s \in Stoppers, StopWaited(s) PROVE QueueOnce'
  BY <1>11 DEF StopWaited
<1>12. ASSUME NEW s \in Stoppers, StopDrop(s) PROVE QueueOnce'
  <2>1. tasks # <<>>
    BY <1>12 DEF StopDrop
  <2> QED BY <1>12, <2>1, Taken DEF StopDrop
<1>13. ASSUME NEW s \in Stoppers, StopReturn(s) PROVE QueueOnce'
  BY <1>13 DEF StopReturn
<1>14. CASE UNCHANGED vars
  BY <1>14 DEF vars
<1> QED
  BY <1>1, <1>2, <1>3, <1>4, <1>5, <1>6, <1>7, <1>8, <1>9, <1>10,
     <1>11, <1>12, <1>13, <1>14
  DEF Next, Submitter, Worker, Stopping

(* What is taken or dropped leaves the channel.                            *)
LEMMA QueuedIsFreshStep ==
    ASSUME ChannelOK, TasksOK, QueueOnce, QueuedIsFresh, OpenIsFresh,
           [Next]_vars
    PROVE  QueuedIsFresh'
<1> USE DEF TasksOK, QueueOnce, QueuedIsFresh, OpenIsFresh, submitVars,
        workerVars, poolVars
<1>1. ASSUME NEW t \in Tasks, SubmitClosed(t) PROVE QueuedIsFresh'
  BY <1>1 DEF SubmitClosed, Refuse
<1>2. ASSUME NEW t \in Tasks, SubmitOpen(t) PROVE QueuedIsFresh'
  BY <1>2 DEF SubmitOpen
<1>3. ASSUME NEW t \in Tasks, SubmitSend(t) PROVE QueuedIsFresh'
  BY <1>3, Sent DEF SubmitSend
<1>4. ASSUME NEW t \in Tasks, SubmitFull(t) PROVE QueuedIsFresh'
  BY <1>4 DEF SubmitFull, Refuse
<1>5. ASSUME NEW w \in Workers, WorkerTop(w) PROVE QueuedIsFresh'
  BY <1>5 DEF WorkerTop, Leave
<1>6. ASSUME NEW w \in Workers, WorkerQuit(w) PROVE QueuedIsFresh'
  BY <1>6 DEF WorkerQuit, Leave
<1>7. ASSUME NEW w \in Workers, WorkerTake(w) PROVE QueuedIsFresh'
  <2>1. tasks # <<>>
    BY <1>7 DEF WorkerTake
  <2> QED BY <1>7, <2>1, Taken DEF WorkerTake
<1>8. ASSUME NEW w \in Workers, WorkerFinish(w) PROVE QueuedIsFresh'
  BY <1>8 DEF WorkerFinish
<1>9. ASSUME NEW n \in 1..MaxWorkers, SetWorkers(n) PROVE QueuedIsFresh'
  BY <1>9 DEF SetWorkers, Spawn, Retire
<1>10. ASSUME NEW s \in Stoppers, StopClose(s) PROVE QueuedIsFresh'
  BY <1>10 DEF StopClose
<1>11. ASSUME NEW s \in Stoppers, StopWaited(s) PROVE QueuedIsFresh'
  BY <1>11 DEF StopWaited
<1>12. ASSUME NEW s \in Stoppers, StopDrop(s) PROVE QueuedIsFresh'
  <2>1. tasks # <<>>
    BY <1>12 DEF StopDrop
  <2> QED BY <1>12, <2>1, Taken DEF StopDrop
<1>13. ASSUME NEW s \in Stoppers, StopReturn(s) PROVE QueuedIsFresh'
  BY <1>13 DEF StopReturn
<1>14. CASE UNCHANGED vars
  BY <1>14 DEF vars
<1> QED
  BY <1>1, <1>2, <1>3, <1>4, <1>5, <1>6, <1>7, <1>8, <1>9, <1>10,
     <1>11, <1>12, <1>13, <1>14
  DEF Next, Submitter, Worker, Stopping

(* A task that is not accepted is neither taken nor drained.               *)
LEMMA OpenIsFreshStep ==
    ASSUME ChannelOK, TasksOK, QueuedIsFresh, OpenIsFresh, [Next]_vars
    PROVE  OpenIsFresh'
<1> USE DEF TasksOK, QueuedIsFresh, OpenIsFresh, submitVars, workerVars,
        poolVars
<1>1. ASSUME NEW t \in Tasks, SubmitClosed(t) PROVE OpenIsFresh'
  BY <1>1 DEF SubmitClosed, Refuse
<1>2. ASSUME NEW t \in Tasks, SubmitOpen(t) PROVE OpenIsFresh'
  BY <1>2 DEF SubmitOpen
<1>3. ASSUME NEW t \in Tasks, SubmitSend(t) PROVE OpenIsFresh'
  BY <1>3, Sent DEF SubmitSend
<1>4. ASSUME NEW t \in Tasks, SubmitFull(t) PROVE OpenIsFresh'
  BY <1>4 DEF SubmitFull, Refuse
<1>5. ASSUME NEW w \in Workers, WorkerTop(w) PROVE OpenIsFresh'
  BY <1>5 DEF WorkerTop, Leave
<1>6. ASSUME NEW w \in Workers, WorkerQuit(w) PROVE OpenIsFresh'
  BY <1>6 DEF WorkerQuit, Leave
<1>7. ASSUME NEW w \in Workers, WorkerTake(w) PROVE OpenIsFresh'
  <2>1. tasks # <<>>
    BY <1>7 DEF WorkerTake
  <2> QED BY <1>7, <2>1, Taken DEF WorkerTake
<1>8. ASSUME NEW w \in Workers, WorkerFinish(w) PROVE OpenIsFresh'
  BY <1>8 DEF WorkerFinish
<1>9. ASSUME NEW n \in 1..MaxWorkers, SetWorkers(n) PROVE OpenIsFresh'
  BY <1>9 DEF SetWorkers, Spawn, Retire
<1>10. ASSUME NEW s \in Stoppers, StopClose(s) PROVE OpenIsFresh'
  BY <1>10 DEF StopClose
<1>11. ASSUME NEW s \in Stoppers, StopWaited(s) PROVE OpenIsFresh'
  BY <1>11 DEF StopWaited
<1>12. ASSUME NEW s \in Stoppers, StopDrop(s) PROVE OpenIsFresh'
  <2>1. tasks # <<>>
    BY <1>12 DEF StopDrop
  <2> QED BY <1>12, <2>1, Taken DEF StopDrop
<1>13. ASSUME NEW s \in Stoppers, StopReturn(s) PROVE OpenIsFresh'
  BY <1>13 DEF StopReturn
<1>14. CASE UNCHANGED vars
  BY <1>14 DEF vars
<1> QED
  BY <1>1, <1>2, <1>3, <1>4, <1>5, <1>6, <1>7, <1>8, <1>9, <1>10,
     <1>11, <1>12, <1>13, <1>14
  DEF Next, Submitter, Worker, Stopping

(* Whoever runs or drops a task finds it fresh.                            *)
LEMMA RunOrDropOnceStep ==
    ASSUME ChannelOK, TasksOK, QueuedIsFresh, OpenIsFresh, RunOrDropOnce,
           [Next]_vars
    PROVE  RunOrDropOnce'
<1> USE DEF TasksOK, QueuedIsFresh, OpenIsFresh, RunOrDropOnce, submitVars,
        workerVars, poolVars
<1>1. ASSUME NEW t \in Tasks, SubmitClosed(t) PROVE RunOrDropOnce'
  BY <1>1 DEF SubmitClosed, Refuse
<1>2. ASSUME NEW t \in Tasks, SubmitOpen(t) PROVE RunOrDropOnce'
  BY <1>2 DEF SubmitOpen
<1>3. ASSUME NEW t \in Tasks, SubmitSend(t) PROVE RunOrDropOnce'
  BY <1>3, Sent DEF SubmitSend
<1>4. ASSUME NEW t \in Tasks, SubmitFull(t) PROVE RunOrDropOnce'
  BY <1>4 DEF SubmitFull, Refuse
<1>5. ASSUME NEW w \in Workers, WorkerTop(w) PROVE RunOrDropOnce'
  BY <1>5 DEF WorkerTop, Leave
<1>6. ASSUME NEW w \in Workers, WorkerQuit(w) PROVE RunOrDropOnce'
  BY <1>6 DEF WorkerQuit, Leave
<1>7. ASSUME NEW w \in Workers, WorkerTake(w) PROVE RunOrDropOnce'
  <2>1. tasks # <<>>
    BY <1>7 DEF WorkerTake
  <2> QED BY <1>7, <2>1, Taken DEF WorkerTake
<1>8. ASSUME NEW w \in Workers, WorkerFinish(w) PROVE RunOrDropOnce'
  BY <1>8 DEF WorkerFinish
<1>9. ASSUME NEW n \in 1..MaxWorkers, SetWorkers(n) PROVE RunOrDropOnce'
  BY <1>9 DEF SetWorkers, Spawn, Retire
<1>10. ASSUME NEW s \in Stoppers, StopClose(s) PROVE RunOrDropOnce'
  BY <1>10 DEF StopClose
<1>11. ASSUME NEW s \in Stoppers, StopWaited(s) PROVE RunOrDropOnce'
  BY <1>11 DEF StopWaited
<1>12. ASSUME NEW s \in Stoppers, StopDrop(s) PROVE RunOrDropOnce'
  <2>1. tasks # <<>>
    BY <1>12 DEF StopDrop
  <2> QED BY <1>12, <2>1, Taken DEF StopDrop
<1>13. ASSUME NEW s \in Stoppers, StopReturn(s) PROVE RunOrDropOnce'
  BY <1>13 DEF StopReturn
<1>14. CASE UNCHANGED vars
  BY <1>14 DEF vars
<1> QED
  BY <1>1, <1>2, <1>3, <1>4, <1>5, <1>6, <1>7, <1>8, <1>9, <1>10,
     <1>11, <1>12, <1>13, <1>14
  DEF Next, Submitter, Worker, Stopping

(* The queue is never opened again.                                        *)
LEMMA StopHasClosedStep ==
    ASSUME StopOK, StopHasClosed, [Next]_vars
    PROVE  StopHasClosed'
<1> USE DEF StopOK, StopHasClosed, submitVars, workerVars, poolVars
<1>1. ASSUME NEW t \in Tasks, SubmitClosed(t) PROVE StopHasClosed'
  BY <1>1 DEF SubmitClosed, Refuse
<1>2. ASSUME NEW t \in Tasks, SubmitOpen(t) PROVE StopHasClosed'
  BY <1>2 DEF SubmitOpen
<1>3. ASSUME NEW t \in Tasks, SubmitSend(t) PROVE StopHasClosed'
  BY <1>3 DEF SubmitSend
<1>4. ASSUME NEW t \in Tasks, SubmitFull(t) PROVE StopHasClosed'
  BY <1>4 DEF SubmitFull, Refuse
<1>5. ASSUME NEW w \in Workers, WorkerTop(w) PROVE StopHasClosed'
  BY <1>5 DEF WorkerTop, Leave
<1>6. ASSUME NEW w \in Workers, WorkerQuit(w) PROVE StopHasClosed'
  BY <1>6 DEF WorkerQuit, Leave
<1>7. ASSUME NEW w \in Workers, WorkerTake(w) PROVE StopHasClosed'
  BY <1>7 DEF WorkerTake
<1>8. ASSUME NEW w \in Workers, WorkerFinish(w) PROVE StopHasClosed'
  BY <1>8 DEF WorkerFinish
<1>9. ASSUME NEW n \in 1..MaxWorkers, SetWorkers(n) PROVE StopHasClosed'
  BY <1>9 DEF SetWorkers, Spawn, Retire
<1>10. ASSUME NEW s \in Stoppers, StopClose(s) PROVE StopHasClosed'
  BY <1>10 DEF StopClose
<1>11. ASSUME NEW s \in Stoppers, StopWaited(s) PROVE StopHasClosed'
  BY <1>11 DEF StopWaited
<1>12. ASSUME NEW s \in Stoppers, StopDrop(s) PROVE StopHasClosed'
  BY <1>12 DEF StopDrop
<1>13. ASSUME NEW s \in Stoppers, StopReturn(s) PROVE StopHasClosed'
  BY <1>13 DEF StopReturn
<1>14. CASE UNCHANGED vars
  BY <1>14 DEF vars
<1> QED
  BY <1>1, <1>2, <1>3, <1>4, <1>5, <1>6, <1>7, <1>8, <1>9, <1>10,
     <1>11, <1>12, <1>13, <1>14
  DEF Next, Submitter, Worker, Stopping

(* A closed queue spawns no worker.                                        *)
LEMMA StopIsFinalStep ==
    ASSUME StopOK, WorkersOK, StopHasClosed, StopIsFinal, [Next]_vars
    PROVE  StopIsFinal'
<1> USE DEF StopOK, WorkersOK, StopHasClosed, StopIsFinal, Alive, submitVars,
        workerVars, poolVars
<1>1. ASSUME NEW t \in Tasks, SubmitClosed(t) PROVE StopIsFinal'
  BY <1>1 DEF SubmitClosed, Refuse
<1>2. ASSUME NEW t \in Tasks, SubmitOpen(t) PROVE StopIsFinal'
  BY <1>2 DEF SubmitOpen
<1>3. ASSUME NEW t \in Tasks, SubmitSend(t) PROVE StopIsFinal'
  BY <1>3 DEF SubmitSend
<1>4. ASSUME NEW t \in Tasks, SubmitFull(t) PROVE StopIsFinal'
  BY <1>4 DEF SubmitFull, Refuse
<1>5. ASSUME NEW w \in Workers, WorkerTop(w) PROVE StopIsFinal'
  BY <1>5 DEF WorkerTop, Leave
<1>6. ASSUME NEW w \in Workers, WorkerQuit(w) PROVE StopIsFinal'
  BY <1>6 DEF WorkerQuit, Leave
<1>7. ASSUME NEW w \in Workers, WorkerTake(w) PROVE StopIsFinal'
  BY <1>7 DEF WorkerTake
<1>8. ASSUME NEW w \in Workers, WorkerFinish(w) PROVE StopIsFinal'
  BY <1>8 DEF WorkerFinish
<1>9. ASSUME NEW n \in 1..MaxWorkers, SetWorkers(n) PROVE StopIsFinal'
  BY <1>9 DEF SetWorkers, Spawn, Retire
<1>10. ASSUME NEW s \in Stoppers, StopClose(s) PROVE StopIsFinal'
  BY <1>10 DEF StopClose
<1>11. ASSUME NEW s \in Stoppers, StopWaited(s) PROVE StopIsFinal'
  BY <1>11 DEF StopWaited
<1>12. ASSUME NEW s \in Stoppers, StopDrop(s) PROVE StopIsFinal'
  BY <1>12 DEF StopDrop
<1>13. ASSUME NEW s \in Stoppers, StopReturn(s) PROVE StopIsFinal'
  BY <1>13 DEF StopReturn
<1>14. CASE UNCHANGED vars
  BY <1>14 DEF vars
<1> QED
  BY <1>1, <1>2, <1>3, <1>4, <1>5, <1>6, <1>7, <1>8, <1>9, <1>10,
     <1>11, <1>12, <1>13, <1>14
  DEF Next, Submitter, Worker, Stopping

(* A retired worker that has taken a task leaves at the top of its loop.   *)
LEMMA LateIsLastStep ==
    ASSUME WorkersOK, LateIsLast, [Next]_vars
    PROVE  LateIsLast'
<1> USE DEF WorkersOK, LateIsLast, Told, Alive, submitVars, workerVars,
        poolVars
<1>1. ASSUME NEW t \in Tasks, SubmitClosed(t) PROVE LateIsLast'
  BY <1>1 DEF SubmitClosed, Refuse
<1>2. ASSUME NEW t \in Tasks, SubmitOpen(t) PROVE LateIsLast'
  BY <1>2 DEF SubmitOpen
<1>3. ASSUME NEW t \in Tasks, SubmitSend(t) PROVE LateIsLast'
  BY <1>3 DEF SubmitSend
<1>4. ASSUME NEW t \in Tasks, SubmitFull(t) PROVE LateIsLast'
  BY <1>4 DEF SubmitFull, Refuse
<1>5. ASSUME NEW w \in Workers, WorkerTop(w) PROVE LateIsLast'
  BY <1>5 DEF WorkerTop, Leave
<1>6. ASSUME NEW w \in Workers, WorkerQuit(w) PROVE LateIsLast'
  BY <1>6 DEF WorkerQuit, Leave
<1>7. ASSUME NEW w \in Workers, WorkerTake(w) PROVE LateIsLast'
  BY <1>7 DEF WorkerTake
<1>8. ASSUME NEW w \in Workers, WorkerFinish(w) PROVE LateIsLast'
  BY <1>8 DEF WorkerFinish
<1>9. ASSUME NEW n \in 1..MaxWorkers, SetWorkers(n) PROVE LateIsLast'
  BY <1>9 DEF SetWorkers, Spawn, Retire
<1>10. ASSUME NEW s \in Stoppers, StopClose(s) PROVE LateIsLast'
  BY <1>10 DEF StopClose
<1>11. ASSUME NEW s \in Stoppers, StopWaited(s) PROVE LateIsLast'
  BY <1>11 DEF StopWaited
<1>12. ASSUME NEW s \in Stoppers, StopDrop(s) PROVE LateIsLast'
  BY <1>12 DEF StopDrop
<1>13. ASSUME NEW s \in Stoppers, StopReturn(s) PROVE LateIsLast'
  BY <1>13 DEF StopReturn
<1>14. CASE UNCHANGED vars
  BY <1>14 DEF vars
<1> QED
  BY <1>1, <1>2, <1>3, <1>4, <1>5, <1>6, <1>7, <1>8, <1>9, <1>10,
     <1>11, <1>12, <1>13, <1>14
  DEF Next, Submitter, Worker, Stopping

(* ... so that it takes no second one.                                     *)
LEMMA OneTaskAfterRetireStep ==
    ASSUME WorkersOK, LateIsLast, OneTaskAfterRetire, [Next]_vars
    PROVE  OneTaskAfterRetire'
<1> USE DEF WorkersOK, LateIsLast, OneTaskAfterRetire, submitVars, workerVars,
        poolVars
<1>1. ASSUME NEW t \in Tasks, SubmitClosed(t) PROVE OneTaskAfterRetire'
  BY <1>1 DEF SubmitClosed, Refuse
<1>2. ASSUME NEW t \in Tasks, SubmitOpen(t) PROVE OneTaskAfterRetire'
  BY <1>2 DEF SubmitOpen
<1>3. ASSUME NEW t \in Tasks, SubmitSend(t) PROVE OneTaskAfterRetire'
  BY <1>3 DEF SubmitSend
<1>4. ASSUME NEW t \in Tasks, SubmitFull(t) PROVE OneTaskAfterRetire'
  BY <1>4 DEF SubmitFull, Refuse
<1>5. ASSUME NEW w \in Workers, WorkerTop(w) PROVE OneTaskAfterRetire'
  BY <1>5 DEF WorkerTop, Leave
<1>6. ASSUME NEW w \in Workers, WorkerQuit(w) PROVE OneTaskAfterRetire'
  BY <1>6 DEF WorkerQuit, Leave
<1>7. ASSUME NEW w \in Workers, WorkerTake(w) PROVE OneTaskAfterRetire'
  BY <1>7 DEF WorkerTake
<1>8. ASSUME NEW w \in Workers, WorkerFinish(w) PROVE OneTaskAfterRetire'
  BY <1>8 DEF WorkerFinish
<1>9. ASSUME NEW n \in 1..MaxWorkers, SetWorkers(n) PROVE OneTaskAfterRetire'
  BY <1>9 DEF SetWorkers, Spawn, Retire
<1>10. ASSUME NEW s \in Stoppers, StopClose(s) PROVE OneTaskAfterRetire'
  BY <1>10 DEF StopClose
<1>11. ASSUME NEW s \in Stoppers, StopWaited(s) PROVE OneTaskAfterRetire'
  BY <1>11 DEF StopWaited
<1>12. ASSUME NEW s \in Stoppers, StopDrop(s) PROVE OneTaskAfterRetire'
  BY <1>12 DEF StopDrop
<1>13. ASSUME NEW s \in Stoppers, StopReturn(s) PROVE OneTaskAfterRetire'
  BY <1>13 DEF StopReturn
<1>14. CASE UNCHANGED vars
  BY <1>14 DEF vars
<1> QED
  BY <1>1, <1>2, <1>3, <1>4, <1>5, <1>6, <1>7, <1>8, <1>9, <1>10,
     <1>11, <1>12, <1>13, <1>14
  DEF Next, Submitter, Worker, Stopping

(* The invariant is inductive.                                             *)
LEMMA InductiveInv == IInv /\ [Next]_vars => IInv'
<1> SUFFICES ASSUME IInv, [Next]_vars PROVE IInv'
  OBVIOUS
<1>1. TypeOK'
  BY ChannelStep, TasksStep, WorkersStep, StopStep DEF IInv, TypeOK
<1>2. QueueOnce' /\ QueuedIsFresh' /\ OpenIsFresh' /\ RunOrDropOnce'
  BY QueueOnceStep, QueuedIsFreshStep, OpenIsFreshStep, RunOrDropOnceStep DEF IInv, TypeOK
<1>3. StopHasClosed' /\ StopIsFinal' /\ LateIsLast' /\ OneTaskAfterRetire'
  BY StopHasClosedStep, StopIsFinalStep, LateIsLastStep, OneTaskAfterRetireStep DEF IInv, TypeOK
<1> QED BY <1>1, <1>2, <1>3 DEF IInv

LEMMA Invariant == Spec => []IInv
  BY InitInv, InductiveInv, PTL DEF Spec

-----------------------------------------------------------------------------
(* Every variable keeps its range, and the channel its capacity.           *)
THEOREM TypeCorrect == Spec => []TypeOK
<1>1. IInv => TypeOK
  BY DEF IInv
<1> QED BY <1>1, Invariant, PTL

(* A task's Run and Dropped are called once between them at most.          *)
THEOREM SettledOnce == Spec => []RunOrDropOnce
<1>1. IInv => RunOrDropOnce
  BY DEF IInv
<1> QED BY <1>1, Invariant, PTL

(* No worker is alive once a Stop is past its wait.                        *)
THEOREM StopHolds == Spec => []StopIsFinal
<1>1. IInv => StopIsFinal
  BY DEF IInv
<1> QED BY <1>1, Invariant, PTL

(* A worker told to retire takes at most one more task.                    *)
THEOREM RetireIsPrompt == Spec => []OneTaskAfterRetire
<1>1. IInv => OneTaskAfterRetire
  BY DEF IInv
<1> QED BY <1>1, Invariant, PTL
=============================================================================
