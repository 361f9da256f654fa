------------------------- MODULE SyncManagerProofs -------------------------
(***************************************************************************)
(* Proofs about the mirror schedules and sync slots, for any repositories, *)
(* requests, schedulers, workers and capacity of the queue.                *)
(***************************************************************************)
EXTENDS SyncManager, FiniteSetTheorems, FunctionTheorems, TLAPS

-----------------------------------------------------------------------------
SchedulerPlaces == {"idle", "acquire", "submit", "send", "refused", "loop"}
CallerPlaces == {"idle", "acquire", "submit", "send", "refused", "wait",
                 "update", "unregister", "register", "remove", "done"}
Values == Nat \cup {Absent, Gone}
Busy == [at : {"sync", "synced"}, task : Task]

TypeOK ==
    /\ interval \in [Repos -> Values]
    /\ mirrors \in [Repos -> Schedulers \cup {None}]
    /\ intervals \in [Repos -> Values]
    /\ inflight \subseteq Repos /\ active \subseteq Repos
    /\ at \in [Actors -> SchedulerPlaces \cup CallerPlaces]
    /\ \A s \in Schedulers : at[s] \in SchedulerPlaces
    /\ on \in [Actors -> Repos]
    /\ op \in [Callers -> {"none", "now", "async", "create", "update", "delete"}]
    /\ want \in [Callers -> Values]
    /\ stopped \subseteq Schedulers
    /\ queue \in Seq(Task)
    /\ work \in [Workers -> Busy \cup {Idle}]
    /\ answer \in [Callers -> {"none", "synced", "full"}]
    /\ stop \in {"idle", "waiting", "closed", "done"}
    /\ robbed \subseteq Repos /\ crossed \subseteq Repos

-----------------------------------------------------------------------------
(* A mapped scheduler is alive, works for its repository and was not told  *)
(* to stop; only living ones were told; the others are in the map.         *)
MapExact ==
    /\ \A r \in Repos : mirrors[r] # None =>
          Alive(mirrors[r]) /\ mirrors[r] \notin stopped /\ on[mirrors[r]] = r
    /\ \A s \in stopped : Alive(s)
    /\ NoStrayScheduler

-----------------------------------------------------------------------------
(* Whoever will give the slot of r back: a place in the queue, a worker or *)
(* an actor between tryAcquire and the send in Submit.                     *)
QueuedAt(r, i) == i \in DOMAIN queue /\ queue[i].repo = r
RunBy(r, w) == w \in Workers /\ work[w] # Idle /\ work[w].task.repo = r
SentBy(r, a) == a \in Actors /\ at[a] \in {"submit", "send"} /\ on[a] = r

OneHolder(r) ==
    /\ \A i, j \in Nat : QueuedAt(r, i) /\ QueuedAt(r, j) => i = j
    /\ \A w, v \in Workers : RunBy(r, w) /\ RunBy(r, v) => w = v
    /\ \A a, b \in Actors : SentBy(r, a) /\ SentBy(r, b) => a = b
    /\ \A i \in Nat, w \in Workers : ~(QueuedAt(r, i) /\ RunBy(r, w))
    /\ \A i \in Nat, a \in Actors : ~(QueuedAt(r, i) /\ SentBy(r, a))
    /\ \A w \in Workers, a \in Actors : ~(RunBy(r, w) /\ SentBy(r, a))

Held(r) ==
    \/ \E i \in Nat : QueuedAt(r, i)
    \/ \E w \in Workers : RunBy(r, w)
    \/ \E a \in Actors : SentBy(r, a)

(* Until a second release robs it, a slot is taken exactly as long as      *)
(* somebody holds it, and one holds it.                                    *)
SlotExact ==
    \A r \in Repos :
       /\ r \in inflight => Held(r)
       /\ r \notin robbed => OneHolder(r) /\ (Held(r) => r \in inflight)

-----------------------------------------------------------------------------
(* The schedule of r is the one for interval i.                            *)
Scheduled(r, i) ==
    IF i \in {Absent, Gone, 0} THEN mirrors[r] = None
                               ELSE mirrors[r] # None /\ intervals[r] = i

Changes(c, r) == on[c] = r /\ Changing(c)

(* What a request that is alone in changing a repository knows of it.      *)
ChangeExact(c, r) ==
    CASE at[c] = "update" ->
            interval[r] \in Nat /\ want[c] \in Nat /\ Scheduled(r, want[c])
      [] at[c] = "unregister" ->
            op[c] # "delete" => interval[r] \in Nat /\ want[c] = interval[r]
      [] at[c] = "register" ->
            interval[r] \in Nat /\ want[c] = interval[r] /\ mirrors[r] = None
      [] at[c] = "remove" -> mirrors[r] = None
      [] OTHER -> TRUE

Apart(r) ==
    r \notin crossed =>
       /\ \A c, d \in Callers : Changes(c, r) /\ Changes(d, r) => c = d
       /\ stop = "idle" =>
             /\ (~\E c \in Callers : Changes(c, r)) => Scheduled(r, interval[r])
             /\ \A c \in Callers : Changes(c, r) => ChangeExact(c, r)

ChangesApart == \A r \in Repos : Apart(r)

IInv == TypeOK /\ MapExact /\ SlotExact /\ ChangesApart

-----------------------------------------------------------------------------
LEMMA Constants ==
    /\ SomeRepo \in Repos
    /\ Schedulers \subseteq Actors /\ Callers \subseteq Actors
    /\ Intervals \subseteq Values /\ Absent \in Values /\ Gone \in Values /\ 0 \in Values
    /\ None \notin Schedulers
    /\ Idle \notin Busy
  BY SyncAssumption DEF SomeRepo, Actors, Values, Idle, Busy

(* There are schedulers enough for the mirrors the process starts with.    *)
LEMMA EnoughSchedulers ==
    \E f \in [Repos -> Schedulers] : \A r, q \in Repos : f[r] = f[q] => r = q
<1> DEFINE n == Cardinality(Repos)
           m == Cardinality(Schedulers)
<1>1. /\ n \in Nat /\ m \in Nat /\ n <= m
      /\ ExistsBijection(1..n, Repos) /\ ExistsBijection(1..m, Schedulers)
  BY SyncAssumption, FS_CardinalityType
<1> HIDE DEF n, m
<1>2. PICK g \in Bijection(Repos, 1..n) : TRUE
  BY <1>1, Fun_ExistsBijSymmetric DEF ExistsBijection
<1>3. PICK h \in Bijection(1..m, Schedulers) : TRUE  BY <1>1 DEF ExistsBijection
<1>4. g \in [Repos -> 1..n] /\ \A r, q \in Repos : g[r] = g[q] => r = q
  BY <1>2 DEF Bijection, Injection, IsInjective
<1>5. h \in [1..m -> Schedulers] /\ \A i, j \in 1..m : h[i] = h[j] => i = j
  BY <1>3 DEF Bijection, Injection, IsInjective
<1>6. 1..n \subseteq 1..m  BY <1>1
<1> DEFINE f == [r \in Repos |-> h[g[r]]]
<1>7. f \in [Repos -> Schedulers] /\ \A r, q \in Repos : f[r] = f[q] => r = q
  BY <1>4, <1>5, <1>6
<1> QED  BY <1>7

LEMMA InitInv == Init => IInv
<1> SUFFICES ASSUME Init PROVE IInv  OBVIOUS
<1> DEFINE boot == CHOOSE f \in [Repos -> Schedulers] : \A r, q \in Repos : f[r] = f[q] => r = q
           timed == {r \in Repos : interval[r] \in Nat \ {0}}
           started == {boot[r] : r \in timed}
<1>1. boot \in [Repos -> Schedulers] /\ \A r, q \in Repos : boot[r] = boot[q] => r = q
  BY EnoughSchedulers
<1>2. /\ interval = Boot
      /\ mirrors = [r \in Repos |-> IF r \in timed THEN boot[r] ELSE None]
      /\ intervals = [r \in Repos |-> IF r \in timed THEN interval[r] ELSE 0]
      /\ at = [a \in Actors |-> IF a \in started THEN "acquire" ELSE "idle"]
      /\ on = [a \in Actors |-> IF a \in started THEN CHOOSE r \in timed : boot[r] = a
                                                 ELSE SomeRepo]
  BY DEF Init
<1>3. /\ inflight = {} /\ active = {} /\ stopped = {} /\ queue = <<>>
      /\ op = [c \in Callers |-> "none"] /\ want = [c \in Callers |-> 0]
      /\ work = [w \in Workers |-> Idle] /\ answer = [c \in Callers |-> "none"]
      /\ stop = "idle" /\ robbed = {} /\ crossed = {}
  BY DEF Init
<1> HIDE DEF boot
<1>4. started \subseteq Schedulers  BY <1>1
<1>5. \A r \in timed : (CHOOSE q \in timed : boot[q] = boot[r]) = r  BY <1>1
<1>6. \A r \in timed : on[boot[r]] = r  BY <1>2, <1>4, <1>5, Constants
<1>7. interval \in [Repos -> Intervals \cup {Absent}]  BY <1>2, SyncAssumption
<1>8. TypeOK
  <2>1. interval \in [Repos -> Values]  BY <1>7, Constants
  <2>2. mirrors \in [Repos -> Schedulers \cup {None}]  BY <1>1, <1>2
  <2>3. intervals \in [Repos -> Values]  BY <1>2, <2>1, Constants
  <2>4. on \in [Actors -> Repos]
    <3>1. \A a \in started : (CHOOSE q \in timed : boot[q] = a) \in Repos  BY <1>5
    <3> QED  BY <1>2, <3>1, Constants
  <2>5. /\ at \in [Actors -> SchedulerPlaces \cup CallerPlaces]
        /\ \A s \in Schedulers : at[s] \in SchedulerPlaces
    BY <1>2, Constants DEF SchedulerPlaces
  <2>6. queue \in Seq(Task)  BY <1>3
  <2> HIDE DEF timed, started
  <2> QED  BY <1>3, <2>1, <2>2, <2>3, <2>4, <2>5, <2>6, Constants DEF TypeOK
<1>9. MapExact
  <2>1. ASSUME NEW r \in Repos, mirrors[r] # None
        PROVE  Alive(mirrors[r]) /\ mirrors[r] \notin stopped /\ on[mirrors[r]] = r
    <3>1. r \in timed /\ mirrors[r] = boot[r]  BY <1>2, <2>1
    <3> QED  BY <1>2, <1>3, <1>4, <1>6, <3>1, Constants DEF Alive
  <2>2. ASSUME NEW s \in Schedulers, Alive(s) PROVE mirrors[on[s]] = s
    <3>1. s \in started  BY <1>2, <2>2, Constants DEF Alive
    <3>2. PICK r \in timed : s = boot[r]  BY <3>1
    <3> QED  BY <1>2, <1>6, <3>2
  <2> QED  BY <1>3, <2>1, <2>2 DEF MapExact, NoStrayScheduler
<1>10. SlotExact
  <2>1. \A a \in Actors : at[a] \notin {"submit", "send"}  BY <1>2
  <2> QED  BY <1>3, <2>1 DEF SlotExact, OneHolder, Held, QueuedAt, RunBy, SentBy
<1>11. ChangesApart
  <2>1. \A c \in Callers : ~Changing(c)  BY <1>2, Constants DEF Changing
  <2>2. ASSUME NEW r \in Repos PROVE Scheduled(r, interval[r])
    <3>1. interval[r] \in Nat \cup {Absent}  BY <1>7, SyncAssumption
    <3> QED  BY <1>1, <1>2, <3>1, Constants, SyncAssumption DEF Scheduled
  <2> QED  BY <1>3, <2>1, <2>2 DEF ChangesApart, Apart, Changes
<1> QED  BY <1>8, <1>9, <1>10, <1>11 DEF IInv

-----------------------------------------------------------------------------
(* The places of the goroutines and what they carry.                       *)
Places ==
    /\ at \in [Actors -> SchedulerPlaces \cup CallerPlaces]
    /\ \A s \in Schedulers : at[s] \in SchedulerPlaces
    /\ on \in [Actors -> Repos]
    /\ op \in [Callers -> {"none", "now", "async", "create", "update", "delete"}]
    /\ want \in [Callers -> Values]
    /\ answer \in [Callers -> {"none", "synced", "full"}]

LEMMA TypePlaces == TypeOK => Places
  BY DEF TypeOK, Places

LEMMA CallerGoes ==
    ASSUME Places, NEW c \in Callers, NEW place \in CallerPlaces, Goto(c, place)
    PROVE  /\ at' \in [Actors -> SchedulerPlaces \cup CallerPlaces]
           /\ \A s \in Schedulers : at'[s] = at[s]
           /\ at'[c] = place
           /\ \A a \in Actors : a # c => at'[a] = at[a]
  BY SyncAssumption, Constants DEF Places, Goto

LEMMA SchedulerGoes ==
    ASSUME Places, NEW s \in Schedulers, NEW place \in SchedulerPlaces, Goto(s, place)
    PROVE  /\ at' \in [Actors -> SchedulerPlaces \cup CallerPlaces]
           /\ \A t \in Schedulers : at'[t] \in SchedulerPlaces
           /\ at'[s] = place
           /\ \A a \in Actors : a # s => at'[a] = at[a]
  BY Constants DEF Places, Goto

LEMMA ActorGoes ==
    ASSUME Places, NEW a \in Actors, NEW place \in SchedulerPlaces \cap CallerPlaces,
           Goto(a, place)
    PROVE  /\ at' \in [Actors -> SchedulerPlaces \cup CallerPlaces]
           /\ \A s \in Schedulers : at'[s] \in SchedulerPlaces
           /\ at'[a] = place
           /\ \A b \in Actors : b # a => at'[b] = at[b]
  BY Constants DEF Places, Goto

LEMMA Returned ==
    ASSUME Places, NEW c \in Callers, Return(c)
    PROVE  /\ Places'
           /\ at'[c] = "done"
           /\ \A a \in Actors : a # c => at'[a] = at[a] /\ on'[a] = on[a]
           /\ \A d \in Callers : d # c => op'[d] = op[d] /\ want'[d] = want[d]
<1>1. "done" \in CallerPlaces  BY DEF CallerPlaces
<1> QED  BY <1>1, CallerGoes, Constants DEF Return, Places

(* An actor whose enqueue returns is at its loop or done.                  *)
LEMMA EnqueueReturned ==
    ASSUME Places, NEW a \in Actors, EnqueueReturns(a)
    PROVE  /\ Places'
           /\ at'[a] = IF a \in Schedulers THEN "loop" ELSE "done"
           /\ \A b \in Actors : b # a => at'[b] = at[b] /\ on'[b] = on[b]
           /\ \A s \in Schedulers : on'[s] = on[s]
           /\ \A d \in Callers : d # a => op'[d] = op[d] /\ want'[d] = want[d]
<1>1. CASE a \in Schedulers
  <2>1. a \notin Callers  BY <1>1, SyncAssumption
  <2>2. Goto(a, "loop") /\ UNCHANGED <<on, op, want, answer>>
    BY <2>1 DEF EnqueueReturns, callVars
  <2>3. "loop" \in SchedulerPlaces  BY DEF SchedulerPlaces
  <2> QED  BY <1>1, <2>2, <2>3, SchedulerGoes, Constants DEF Places
<1>2. CASE a \in Callers
  <2>1. a \notin Schedulers  BY <1>2, SyncAssumption
  <2>2. Return(a)  BY <2>1 DEF EnqueueReturns
  <2> QED  BY <1>2, <2>1, <2>2, Returned, Constants
<1> QED  BY <1>1, <1>2 DEF Actors

LEMMA EnqueueType ==
    ASSUME TypeOK, NEW a \in Actors, Enqueue(a)
    PROVE  TypeOK'
<1>1. Places /\ on[a] \in Repos  BY TypePlaces DEF TypeOK
<1>2. {"submit", "send", "refused"} \subseteq SchedulerPlaces \cap CallerPlaces
  BY DEF SchedulerPlaces, CallerPlaces
<1>3. CASE Acquire(a)
  <2>1. Places'
    <3>1. CASE EnqueueReturns(a)  BY <1>1, <3>1, EnqueueReturned
    <3>2. CASE Goto(a, "submit") /\ UNCHANGED <<on, callVars, answer>>
      BY <1>1, <1>2, <3>2, ActorGoes DEF Places, callVars
    <3> QED  BY <1>3, <3>1, <3>2 DEF Acquire
  <2>2. inflight' \subseteq Repos  BY <1>1, <1>3 DEF Acquire, TypeOK
  <2> QED  BY <1>3, <2>1, <2>2 DEF Acquire, TypeOK, Places, schedVars, history
<1>4. CASE SubmitOk(a)
  <2>1. Places'
    <3>1. CASE EnqueueReturns(a)  BY <1>1, <3>1, EnqueueReturned
    <3>2. CASE a \in Callers /\ Goto(a, "wait") /\ UNCHANGED <<on, callVars, answer>>
      <4>1. "wait" \in CallerPlaces  BY DEF CallerPlaces
      <4> QED  BY <1>1, <3>2, <4>1, CallerGoes DEF Places, callVars
    <3> QED  BY <1>4, <3>1, <3>2 DEF SubmitOk
  <2>2. queue' \in Seq(Task)
    <3>1. [repo |-> on[a], by |-> a] \in Task  BY <1>1 DEF Task
    <3> QED  BY <1>4, <3>1 DEF SubmitOk, TypeOK
  <2> QED  BY <1>4, <2>1, <2>2 DEF SubmitOk, TypeOK, Places, schedVars, history
<1>5. CASE SubmitDropped(a)
  <2>1. Places'  BY <1>1, <1>2, <1>5, ActorGoes DEF SubmitDropped, Places, callVars
  <2> QED  BY <1>5, <2>1 DEF SubmitDropped, Release, TypeOK, Places, schedVars, history
<1>6. CASE ReleaseAgain(a)
  <2>1. Places'  BY <1>1, <1>6, EnqueueReturned DEF ReleaseAgain
  <2> QED  BY <1>1, <1>6, <2>1 DEF ReleaseAgain, Release, TypeOK, Places, schedVars
<1>7. CASE SubmitOpen(a)
  <2>1. Places'  BY <1>1, <1>2, <1>7, ActorGoes DEF SubmitOpen, Places, callVars
  <2> QED  BY <1>7, <2>1 DEF SubmitOpen, TypeOK, Places, schedVars, history
<1> QED  BY <1>3, <1>4, <1>5, <1>6, <1>7 DEF Enqueue

LEMMA Begun ==
    ASSUME Places, NEW c \in Callers, NEW r \in Repos,
           NEW kind \in {"now", "async", "create", "update", "delete"},
           NEW place \in CallerPlaces, Begin(c, kind, r, place)
    PROVE  /\ at' \in [Actors -> SchedulerPlaces \cup CallerPlaces]
           /\ \A s \in Schedulers : at'[s] \in SchedulerPlaces
           /\ on' \in [Actors -> Repos]
           /\ op' \in [Callers -> {"none", "now", "async", "create", "update", "delete"}]
           /\ at[c] = "idle" /\ at'[c] = place /\ on'[c] = r /\ op'[c] = kind
           /\ \A a \in Actors : a # c => at'[a] = at[a] /\ on'[a] = on[a]
           /\ \A d \in Callers : d # c => op'[d] = op[d]
  BY CallerGoes, Constants DEF Begin, Places

LEMMA CallerType ==
    ASSUME TypeOK, NEW c \in Callers, Request(c) \/ Continue(c)
    PROVE  TypeOK'
<1>1. Places  BY TypePlaces
<1>2. {"acquire", "register", "update", "unregister", "remove", "done"} \subseteq CallerPlaces
  BY DEF CallerPlaces
<1>3. ASSUME NEW r \in Repos PROVE /\ Overlap(c, r) => crossed' \subseteq Repos
                                   /\ r \in Mirrors => interval[r] \in Values
  BY DEF Overlap, TypeOK, Mirrors
<1>4. ASSUME NEW r \in Repos, RequestSync(c, r) PROVE TypeOK'
  <2>1. PICK kind \in {"now", "async"} : Begin(c, kind, r, "acquire")  BY <1>4 DEF RequestSync
  <2>2. Places'  BY <1>1, <1>2, <1>4, <2>1, Begun DEF RequestSync, Places
  <2> QED  BY <1>4, <2>2 DEF RequestSync, TypeOK, Places, schedVars, history
<1>5. ASSUME NEW r \in Repos, DeleteRepo(c, r) PROVE TypeOK'
  <2>1. Places'  BY <1>1, <1>2, <1>5, Begun DEF DeleteRepo, Places
  <2> QED  BY <1>3, <1>5, <2>1 DEF DeleteRepo, TypeOK, Places, schedVars
<1>6. ASSUME NEW r \in Repos, NEW i \in Intervals, CreateMirror(c, r, i) PROVE TypeOK'
  <2>1. Places'
    <3>1. i \in Values  BY Constants
    <3>2. want' \in [Callers -> Values]  BY <1>1, <1>6, <3>1 DEF CreateMirror, Places
    <3> QED  BY <1>1, <1>2, <1>6, <3>2, Begun DEF CreateMirror, Places
  <2>2. interval' \in [Repos -> Values]  BY <1>6, Constants DEF CreateMirror, TypeOK
  <2> QED  BY <1>3, <1>6, <2>1, <2>2 DEF CreateMirror, TypeOK, Places, schedVars
<1>7. ASSUME NEW r \in Repos, NEW i \in Intervals, UpdateSettings(c, r, i) PROVE TypeOK'
  <2>1. Places'
    <3>1. want' \in [Callers -> Values]  BY <1>1, <1>7 DEF UpdateSettings, Places, TypeOK
    <3> QED  BY <1>1, <1>2, <1>7, <3>1, Begun DEF UpdateSettings, Places
  <2>2. interval' \in [Repos -> Values]  BY <1>7, Constants DEF UpdateSettings, TypeOK
  <2> QED  BY <1>3, <1>7, <2>1, <2>2 DEF UpdateSettings, TypeOK, Places, schedVars
<1>8. ASSUME NEW r \in Repos, NEW i \in Intervals, UpdateSettingsUnsaved(c, r, i) PROVE TypeOK'
  <2>1. Places'
    BY <1>1, <1>2, <1>8, CallerGoes DEF UpdateSettingsUnsaved, Places, callVars
  <2>2. interval' \in [Repos -> Values]  BY <1>8, Constants DEF UpdateSettingsUnsaved, TypeOK
  <2> QED  BY <1>8, <2>1, <2>2 DEF UpdateSettingsUnsaved, TypeOK, Places, schedVars
<1>9. CASE Enqueue(c)  BY <1>9, EnqueueType, Constants
<1>10. CASE Register(c)
  <2>1. on[c] \in Repos /\ want[c] \in Values  BY Constants DEF TypeOK
  <2>2. CASE Return(c) /\ UNCHANGED schedVars
    <3>1. Places'  BY <1>1, <2>2, Returned
    <3> QED  BY <1>10, <2>2, <3>1 DEF Register, TypeOK, Places, schedVars, history
  <2>3. ASSUME NEW s \in Schedulers, StartScheduler(on[c], want[c], s),
               at' = [at EXCEPT ![s] = "acquire", ![c] = "done"],
               on' = [on EXCEPT ![s] = on[c], ![c] = SomeRepo],
               op' = [op EXCEPT ![c] = "none"], want' = [want EXCEPT ![c] = 0],
               UNCHANGED answer
        PROVE  TypeOK'
    <3>1. /\ mirrors' \in [Repos -> Schedulers \cup {None}]
          /\ intervals' \in [Repos -> Values]
          /\ stopped' \subseteq Schedulers
      BY <2>1, <2>3 DEF StartScheduler, TypeOK
    <3>2. Places'
      <4>1. at' \in [Actors -> SchedulerPlaces \cup CallerPlaces]
        BY <1>1, <1>2, <2>3 DEF Places
      <4>2. \A t \in Schedulers : at'[t] \in SchedulerPlaces
        BY <1>1, <2>3, SyncAssumption, Constants DEF Places, SchedulerPlaces
      <4>3. on' \in [Actors -> Repos]  BY <1>1, <2>1, <2>3, Constants DEF Places
      <4> QED  BY <1>1, <2>3, <4>1, <4>2, <4>3, Constants DEF Places
    <3> QED  BY <1>10, <3>1, <3>2 DEF Register, TypeOK, Places, history
  <2> QED  BY <1>10, <2>2, <2>3 DEF Register
<1>11. CASE Unregister(c)
  <2>1. on[c] \in Repos  BY Constants DEF TypeOK
  <2>2. Places'
    <3>1. CASE Goto(c, "remove")  BY <1>1, <1>2, <1>11, <3>1, CallerGoes
          DEF Unregister, Places, callVars
    <3>2. CASE Goto(c, "register")  BY <1>1, <1>2, <1>11, <3>2, CallerGoes
          DEF Unregister, Places, callVars
    <3> QED  BY <1>11, <3>1, <3>2 DEF Unregister
  <2>3. /\ mirrors' \in [Repos -> Schedulers \cup {None}]
        /\ intervals' \in [Repos -> Values]
        /\ stopped' \subseteq Schedulers
    BY <1>11, <2>1, Constants DEF Unregister, TypeOK
  <2> QED  BY <1>11, <2>2, <2>3 DEF Unregister, TypeOK, Places, history
<1>12. CASE ReadUpdated(c)
  <2>1. Places'
    <3>1. CASE Return(c)  BY <1>1, <3>1, Returned
    <3>2. CASE /\ want' = [want EXCEPT ![c] = interval[on[c]]] /\ Goto(c, "unregister")
               /\ UNCHANGED <<on, op, answer>>
      <4>1. interval[on[c]] \in Values  BY Constants DEF TypeOK
      <4>2. want' \in [Callers -> Values]  BY <1>1, <3>2, <4>1 DEF Places
      <4> QED  BY <1>1, <1>2, <3>2, <4>2, CallerGoes DEF Places
    <3> QED  BY <1>12, <3>1, <3>2 DEF ReadUpdated
  <2> QED  BY <1>12, <2>1 DEF ReadUpdated, TypeOK, Places, schedVars, history
<1>13. CASE MarkDeleted(c)
  <2>1. Places' /\ on[c] \in Repos  BY <1>1, <1>13, Returned, Constants DEF MarkDeleted, Places
  <2>2. interval' \in [Repos -> Values] /\ crossed' \subseteq Repos
    BY <1>13, <2>1, Constants DEF MarkDeleted, TypeOK
  <2> QED  BY <1>13, <2>1, <2>2 DEF MarkDeleted, TypeOK, Places, schedVars
<1>14. CASE Answered(c)
  BY <1>1, <1>14, Returned DEF Answered, TypeOK, Places, schedVars, history
<1>15. CASE WaitTimesOut(c)
  BY <1>1, <1>15, Returned DEF WaitTimesOut, TypeOK, Places, schedVars, history
<1> QED  BY <1>4, <1>5, <1>6, <1>7, <1>8, <1>9, <1>10, <1>11, <1>12, <1>13, <1>14, <1>15
         DEF Request, Continue

LEMMA OtherType ==
    ASSUME TypeOK,
           \/ \E s \in Schedulers : Enqueue(s) \/ Tick(s) \/ SchedulerEnds(s)
           \/ \E w \in Workers : Work(w)
           \/ StopSweep \/ StopCloses \/ StopDrains
    PROVE  TypeOK'
<1>1. Places  BY TypePlaces
<1>2. {"acquire", "idle"} \subseteq SchedulerPlaces  BY DEF SchedulerPlaces
<1>3. ASSUME NEW s \in Schedulers, Enqueue(s) PROVE TypeOK'  BY <1>3, EnqueueType, Constants
<1>4. ASSUME NEW s \in Schedulers, Tick(s) PROVE TypeOK'
  <2>1. Places'  BY <1>1, <1>2, <1>4, SchedulerGoes DEF Tick, Places, callVars
  <2> QED  BY <1>4, <2>1 DEF Tick, TypeOK, Places, schedVars, history
<1>5. ASSUME NEW s \in Schedulers, SchedulerEnds(s) PROVE TypeOK'
  <2>1. Places'  BY <1>1, <1>2, <1>5, SchedulerGoes DEF SchedulerEnds, Places, callVars
  <2> QED  BY <1>5, <2>1 DEF SchedulerEnds, TypeOK, Places, history
<1>6. ASSUME NEW w \in Workers, Take(w) PROVE TypeOK'
  <2>1. Head(queue) \in Task /\ Tail(queue) \in Seq(Task)  BY <1>6 DEF Take, TypeOK
  <2>2. Head(queue).repo \in Repos  BY <2>1 DEF Task
  <2>3. work' \in [Workers -> Busy \cup {Idle}]  BY <1>6, <2>1 DEF Take, TypeOK, Busy
  <2>4. active' \subseteq Repos  BY <1>6, <2>2 DEF Take, TypeOK
  <2> QED  BY <1>6, <2>1, <2>3, <2>4 DEF Take, TypeOK, schedVars, callVars, history
<1>7. ASSUME NEW w \in Workers, SyncEnds(w) PROVE TypeOK'
  <2>1. work[w] \in Busy  BY <1>7 DEF SyncEnds, TypeOK, Idle
  <2>2. work' \in [Workers -> Busy \cup {Idle}]  BY <1>7, <2>1 DEF SyncEnds, TypeOK, Busy
  <2>3. work[w].task.by \in Actors  BY <2>1 DEF Busy, Task
  <2>4. answer' \in [Callers -> {"none", "synced", "full"}]
    BY <1>7, <2>3 DEF SyncEnds, Outcome, TypeOK
  <2> QED  BY <1>7, <2>2, <2>4 DEF SyncEnds, TypeOK, schedVars, callVars, history
<1>8. ASSUME NEW w \in Workers, TaskEnds(w) PROVE TypeOK'
  BY <1>8 DEF TaskEnds, Release, TypeOK, schedVars, callVars, history
<1>9. CASE StopSweep
  <2>1. /\ mirrors' \in [Repos -> Schedulers \cup {None}]
        /\ intervals' \in [Repos -> Values]
        /\ stopped' \subseteq Schedulers
    BY <1>9, Constants DEF StopSweep, TypeOK
  <2> QED  BY <1>9, <2>1 DEF StopSweep, TypeOK, callVars, history
<1>10. CASE StopDrains
  <2>1. answer' \in [Callers -> {"none", "synced", "full"}]  BY <1>10 DEF StopDrains, TypeOK
  <2>2. inflight' \subseteq Repos /\ active' \subseteq Repos  BY <1>10 DEF StopDrains, TypeOK
  <2>3. queue' \in Seq(Task)  BY <1>10 DEF StopDrains
  <2> QED  BY <1>10, <2>1, <2>2, <2>3 DEF StopDrains, TypeOK, schedVars, callVars, history
<1>11. CASE StopCloses
  BY <1>11 DEF StopCloses, TypeOK, schedVars, callVars, history
<1> QED  BY <1>3, <1>4, <1>5, <1>6, <1>7, <1>8, <1>9, <1>10, <1>11 DEF Work

LEMMA TypeStep == ASSUME TypeOK, [Next]_vars PROVE TypeOK'
<1>1. CASE UNCHANGED vars  BY <1>1 DEF vars, TypeOK
<1> QED  BY <1>1, CallerType, OtherType DEF Next

-----------------------------------------------------------------------------
(* The steps that touch neither the map nor the life of a scheduler.       *)
MapSame ==
    /\ mirrors' = mirrors /\ stopped' = stopped
    /\ \A s \in Schedulers : Alive(s)' = Alive(s) /\ on'[s] = on[s]

LEMMA MapKept == TypeOK /\ MapExact /\ MapSame => MapExact'
<1> SUFFICES ASSUME TypeOK, MapExact, MapSame PROVE MapExact'
  OBVIOUS
<1>1. /\ mirrors' = mirrors /\ stopped' = stopped
      /\ \A s \in Schedulers : Alive(s)' = Alive(s) /\ on'[s] = on[s]
  BY DEF MapSame
<1>2. stopped \subseteq Schedulers /\ \A r \in Repos : mirrors[r] \in Schedulers \cup {None}
  BY DEF TypeOK
<1>3. ASSUME NEW r \in Repos, mirrors'[r] # None
      PROVE  (Alive(mirrors[r]) /\ mirrors[r] \notin stopped /\ on[mirrors[r]] = r)'
  <2>1. mirrors[r] \in Schedulers /\ mirrors'[r] = mirrors[r]  BY <1>1, <1>2, <1>3
  <2>2. Alive(mirrors[r]) /\ mirrors[r] \notin stopped /\ on[mirrors[r]] = r
    BY <1>1, <1>3 DEF MapExact
  <2>3. Alive(mirrors[r])'  BY <1>1, <2>1, <2>2 DEF Alive
  <2>4. on'[mirrors[r]] = r  BY <1>1, <2>1, <2>2
  <2> QED  BY <1>1, <2>1, <2>2, <2>3, <2>4
<1>4. (\A s \in stopped : Alive(s))'
  BY <1>1, <1>2 DEF MapExact, Alive
<1>5. NoStrayScheduler'
  BY <1>1 DEF MapExact, NoStrayScheduler, Alive
<1> QED  BY <1>3, <1>4, <1>5 DEF MapExact

(* enqueue leaves the others alone and its actor alive.                    *)
LEMMA EnqueueSteps ==
    ASSUME TypeOK, NEW a \in Actors, Enqueue(a)
    PROVE  /\ at[a] \in {"acquire", "submit", "send", "refused"}
           /\ at'[a] \in {"submit", "send", "refused", "wait", "loop", "done"}
           /\ \A b \in Actors : b # a => at'[b] = at[b] /\ on'[b] = on[b]
           /\ \A s \in Schedulers : on'[s] = on[s]
           /\ \A d \in Callers : d # a => op'[d] = op[d] /\ want'[d] = want[d]
           /\ UNCHANGED <<interval, mirrors, intervals, stopped, work, stop, crossed>>
<1>1. Places  BY TypePlaces
<1>2. ASSUME NEW place, Goto(a, place), UNCHANGED <<on, op, want>>
      PROVE  /\ at'[a] = place
             /\ \A b \in Actors : b # a => at'[b] = at[b] /\ on'[b] = on[b]
             /\ \A s \in Schedulers : on'[s] = on[s]
             /\ \A d \in Callers : d # a => op'[d] = op[d] /\ want'[d] = want[d]
  BY <1>2 DEF Goto, TypeOK
<1>3. CASE Acquire(a)
  <2>1. CASE EnqueueReturns(a)  BY <1>1, <1>3, <2>1, EnqueueReturned DEF Acquire, schedVars, history
  <2>2. CASE Goto(a, "submit") /\ UNCHANGED <<on, callVars, answer>>
    BY <1>2, <1>3, <2>2 DEF Acquire, schedVars, callVars, history
  <2> QED  BY <1>3, <2>1, <2>2 DEF Acquire
<1>4. CASE SubmitOk(a)
  <2>1. CASE EnqueueReturns(a)  BY <1>1, <1>4, <2>1, EnqueueReturned DEF SubmitOk, schedVars, history
  <2>2. CASE Goto(a, "wait") /\ UNCHANGED <<on, callVars, answer>>
    BY <1>2, <1>4, <2>2 DEF SubmitOk, schedVars, callVars, history
  <2> QED  BY <1>4, <2>1, <2>2 DEF SubmitOk
<1>5. CASE SubmitDropped(a)
  BY <1>2, <1>5 DEF SubmitDropped, schedVars, callVars, history
<1>6. CASE ReleaseAgain(a)
  BY <1>1, <1>6, EnqueueReturned DEF ReleaseAgain, schedVars
<1>7. CASE SubmitOpen(a)
  BY <1>2, <1>7 DEF SubmitOpen, schedVars, callVars, history
<1> QED  BY <1>3, <1>4, <1>5, <1>6, <1>7 DEF Enqueue

(* A request touches no scheduler, but for the one Register starts.        *)
LEMMA CallerSteps ==
    ASSUME TypeOK, NEW c \in Callers, Request(c) \/ Continue(c)
    PROVE  \/ Register(c) /\ NeedsScheduler(on[c], want[c])
           \/ /\ \A a \in Actors : a # c => at'[a] = at[a] /\ on'[a] = on[a]
              /\ \A d \in Callers : d # c => op'[d] = op[d] /\ want'[d] = want[d]
              /\ Unregister(c) \/ UNCHANGED <<mirrors, intervals, stopped>>
<1> DEFINE Alone == /\ \A a \in Actors : a # c => at'[a] = at[a] /\ on'[a] = on[a]
                    /\ \A d \in Callers : d # c => op'[d] = op[d] /\ want'[d] = want[d]
<1>1. Places  BY TypePlaces
<1>2. ASSUME NEW place, Goto(c, place), UNCHANGED <<on, op>>,
             \A d \in Callers : d # c => want'[d] = want[d]
      PROVE  Alone
  BY <1>2 DEF Goto, TypeOK
<1>3. ASSUME Return(c) PROVE Alone  BY <1>1, <1>3, Returned
<1>4. ASSUME NEW kind, NEW r, NEW place, Begin(c, kind, r, place),
             \A d \in Callers : d # c => want'[d] = want[d]
      PROVE  Alone
  BY <1>4 DEF Begin, Goto, TypeOK
<1>5. ASSUME Enqueue(c) PROVE Alone /\ UNCHANGED <<mirrors, intervals, stopped>>
  BY <1>5, EnqueueSteps, Constants
<1>6. CASE Request(c)
  <2>1. ASSUME NEW r \in Repos, RequestSync(c, r)
        PROVE  Alone /\ UNCHANGED <<mirrors, intervals, stopped>>
    BY <1>4, <2>1 DEF RequestSync, schedVars
  <2>2. ASSUME NEW r \in Repos, DeleteRepo(c, r)
        PROVE  Alone /\ UNCHANGED <<mirrors, intervals, stopped>>
    BY <1>4, <2>2 DEF DeleteRepo, schedVars
  <2>3. ASSUME NEW r \in Repos, NEW i \in Intervals, CreateMirror(c, r, i)
        PROVE  Alone /\ UNCHANGED <<mirrors, intervals, stopped>>
    <3>1. \A d \in Callers : d # c => want'[d] = want[d]  BY <2>3 DEF CreateMirror, TypeOK
    <3>2. Alone  BY <1>4, <2>3, <3>1 DEF CreateMirror
    <3> QED  BY <2>3, <3>2 DEF CreateMirror, schedVars
  <2>4. ASSUME NEW r \in Repos, NEW i \in Intervals, UpdateSettings(c, r, i)
        PROVE  Alone /\ UNCHANGED <<mirrors, intervals, stopped>>
    <3>1. \A d \in Callers : d # c => want'[d] = want[d]  BY <2>4 DEF UpdateSettings, TypeOK
    <3>2. Alone  BY <1>4, <2>4, <3>1 DEF UpdateSettings
    <3> QED  BY <2>4, <3>2 DEF UpdateSettings, schedVars
  <2>5. ASSUME NEW r \in Repos, NEW i \in Intervals, UpdateSettingsUnsaved(c, r, i)
        PROVE  Alone /\ UNCHANGED <<mirrors, intervals, stopped>>
    BY <1>2, <2>5 DEF UpdateSettingsUnsaved, schedVars, callVars
  <2> QED  BY <1>6, <2>1, <2>2, <2>3, <2>4, <2>5 DEF Request
<1>7. CASE Continue(c)
  <2>1. ASSUME Register(c), ~NeedsScheduler(on[c], want[c])
        PROVE  Alone /\ UNCHANGED <<mirrors, intervals, stopped>>
    BY <1>3, <2>1 DEF Register, schedVars
  <2>2. ASSUME Unregister(c) PROVE Alone  BY <1>2, <2>2 DEF Unregister, callVars
  <2>3. ASSUME ReadUpdated(c) PROVE Alone /\ UNCHANGED <<mirrors, intervals, stopped>>
    BY <1>2, <1>3, <2>3 DEF ReadUpdated, schedVars, TypeOK
  <2>4. ASSUME MarkDeleted(c) \/ Answered(c) \/ WaitTimesOut(c)
        PROVE  Alone /\ UNCHANGED <<mirrors, intervals, stopped>>
    BY <1>3, <2>4 DEF MarkDeleted, Answered, WaitTimesOut, schedVars
  <2> QED  BY <1>5, <1>7, <2>1, <2>2, <2>3, <2>4 DEF Continue
<1> QED  BY <1>6, <1>7

(* What Register does when it starts a scheduler.                          *)
LEMMA Started ==
    ASSUME TypeOK, NEW c \in Callers, Register(c), NeedsScheduler(on[c], want[c])
    PROVE  \E s \in Schedulers :
              /\ ~Alive(s)
              /\ stopped' = stopped \cup ({mirrors[on[c]]} \ {None})
              /\ mirrors' = [mirrors EXCEPT ![on[c]] = s]
              /\ intervals' = [intervals EXCEPT ![on[c]] = want[c]]
              /\ at'[s] = "acquire" /\ on'[s] = on[c] /\ at'[c] = "done"
              /\ \A a \in Actors \ {c, s} : at'[a] = at[a] /\ on'[a] = on[a]
              /\ \A d \in Callers : d # c => op'[d] = op[d] /\ want'[d] = want[d]
<1>1. PICK s \in Schedulers :
         /\ StartScheduler(on[c], want[c], s)
         /\ at' = [at EXCEPT ![s] = "acquire", ![c] = "done"]
         /\ on' = [on EXCEPT ![s] = on[c], ![c] = SomeRepo]
  BY DEF Register
<1>2. s # c  BY SyncAssumption
<1>3. op' = [op EXCEPT ![c] = "none"] /\ want' = [want EXCEPT ![c] = 0]
  BY <1>1 DEF Register, Return
<1> QED  BY <1>1, <1>2, <1>3, Constants DEF StartScheduler, TypeOK

LEMMA MapStep == ASSUME TypeOK, MapExact, [Next]_vars, TypeOK'
                 PROVE  MapExact'
<1>1. ASSUME NEW c \in Callers, Request(c) \/ Continue(c) PROVE MapExact'
  <2>1. on[c] \in Repos  BY Constants DEF TypeOK
  <2>2. c \notin Schedulers  BY SyncAssumption
  <2>3. CASE Register(c) /\ NeedsScheduler(on[c], want[c])
    <3>1. PICK s \in Schedulers :
              /\ ~Alive(s)
              /\ stopped' = stopped \cup ({mirrors[on[c]]} \ {None})
              /\ mirrors' = [mirrors EXCEPT ![on[c]] = s]
              /\ at'[s] = "acquire" /\ on'[s] = on[c]
              /\ \A a \in Actors \ {c, s} : at'[a] = at[a] /\ on'[a] = on[a]
      BY <2>3, Started
    <3>2. s \notin stopped /\ \A r \in Repos : mirrors[r] # s
      BY <3>1, Constants DEF MapExact
    <3>3. \A t \in Schedulers : t # s => at'[t] = at[t] /\ on'[t] = on[t]
      BY <2>2, <3>1, Constants
    <3>4. ASSUME NEW r \in Repos, mirrors'[r] # None
          PROVE  /\ at'[mirrors'[r]] # "idle" /\ mirrors'[r] \notin stopped'
                 /\ on'[mirrors'[r]] = r
      <4>1. CASE r = on[c]
        BY <2>1, <3>1, <3>2, <4>1 DEF Alive, TypeOK
      <4>2. CASE r # on[c]
        <5>1. mirrors'[r] = mirrors[r] /\ mirrors[r] \in Schedulers
          BY <3>1, <3>4, <4>2 DEF TypeOK
        <5>2. Alive(mirrors[r]) /\ mirrors[r] \notin stopped /\ on[mirrors[r]] = r
          BY <3>4, <5>1 DEF MapExact
        <5>3. mirrors[r] # mirrors[on[c]]
          BY <2>1, <4>2, <5>1, <5>2, Constants DEF MapExact
        <5> QED  BY <3>1, <3>2, <3>3, <5>1, <5>2, <5>3 DEF Alive
      <4> QED  BY <4>1, <4>2
    <3>5. ASSUME NEW t \in stopped' PROVE Alive(t)'
      BY <2>1, <3>1, <3>2, <3>3 DEF MapExact, Alive, TypeOK
    <3>6. ASSUME NEW t \in Schedulers, Alive(t)', t \notin stopped' PROVE mirrors'[on'[t]] = t
      <4>1. CASE t = s  BY <2>1, <3>1, <4>1 DEF TypeOK
      <4>2. CASE t # s
        <5>1. Alive(t) /\ t \notin stopped /\ on'[t] = on[t]  BY <3>1, <3>3, <3>6, <4>2 DEF Alive
        <5>2. mirrors[on[t]] = t  BY <5>1 DEF MapExact, NoStrayScheduler
        <5>3. on[t] # on[c]  BY <3>1, <3>6, <5>2, Constants
        <5> QED  BY <3>1, <5>1, <5>2, <5>3, Constants DEF TypeOK
      <4> QED  BY <4>1, <4>2
    <3> QED  BY <3>4, <3>5, <3>6 DEF MapExact, NoStrayScheduler, Alive
  <2>4. CASE /\ \A a \in Actors : a # c => at'[a] = at[a] /\ on'[a] = on[a]
             /\ Unregister(c)
    <3>1. \A t \in Schedulers : Alive(t)' = Alive(t) /\ on'[t] = on[t]
      BY <2>2, <2>4, Constants DEF Alive
    <3>2. /\ stopped' = stopped \cup ({mirrors[on[c]]} \ {None})
          /\ mirrors' = [mirrors EXCEPT ![on[c]] = None]
      BY <2>4 DEF Unregister
    <3>3. \A r \in Repos : mirrors[r] # None => mirrors[r] \in Schedulers  BY DEF TypeOK
    <3> QED  BY <2>1, <3>1, <3>2, <3>3, Constants DEF MapExact, NoStrayScheduler, TypeOK
  <2>5. CASE /\ \A a \in Actors : a # c => at'[a] = at[a] /\ on'[a] = on[a]
             /\ UNCHANGED <<mirrors, intervals, stopped>>
    BY <2>2, <2>5, MapKept, Constants DEF MapSame, Alive
  <2> QED  BY <1>1, <2>3, <2>4, <2>5, CallerSteps
<1>2. ASSUME NEW s \in Schedulers, Enqueue(s) PROVE MapExact'
  BY <1>2, EnqueueSteps, MapKept, Constants DEF MapSame, Alive
<1>3. ASSUME NEW s \in Schedulers, Tick(s) PROVE MapExact'
  <2>1. MapSame  BY <1>3, Constants DEF MapSame, Tick, Goto, Alive, TypeOK, schedVars
  <2> QED  BY <2>1, MapKept
<1>4. ASSUME NEW s \in Schedulers, SchedulerEnds(s) PROVE MapExact'
  <2>1. /\ s \in stopped /\ stopped' = stopped \ {s} /\ mirrors' = mirrors /\ on' = on
        /\ at'[s] = "idle" /\ \A t \in Schedulers : t # s => at'[t] = at[t]
    BY <1>4, Constants DEF SchedulerEnds, Goto, TypeOK
  <2>2. \A r \in Repos : mirrors[r] # s  BY <2>1, Constants DEF MapExact
  <2>3. \A r \in Repos : mirrors[r] # None => mirrors[r] \in Schedulers  BY DEF TypeOK
  <2>4. stopped \subseteq Schedulers  BY DEF TypeOK
  <2> QED  BY <2>1, <2>2, <2>3, <2>4 DEF MapExact, NoStrayScheduler, Alive
<1>5. ASSUME NEW w \in Workers, Work(w) PROVE MapExact'
  <2>1. UNCHANGED <<mirrors, stopped, at, on>>
    BY <1>5 DEF Work, Take, SyncEnds, TaskEnds, schedVars
  <2> QED  BY <2>1, MapKept DEF MapSame, Alive
<1>6. CASE StopSweep
  <2>1. /\ stopped' = stopped \cup ({mirrors[r] : r \in Repos} \ {None})
        /\ mirrors' = [r \in Repos |-> None] /\ at' = at /\ on' = on
    BY <1>6 DEF StopSweep
  <2>2. \A t \in Schedulers : on[t] \in Repos  BY Constants DEF TypeOK
  <2> QED  BY <2>1, <2>2 DEF MapExact, NoStrayScheduler, Alive
<1>7. CASE StopCloses \/ StopDrains
  <2>1. UNCHANGED <<mirrors, stopped, at, on>>  BY <1>7 DEF StopCloses, StopDrains, schedVars
  <2> QED  BY <2>1, MapKept DEF MapSame, Alive
<1>8. CASE UNCHANGED vars
  <2>1. UNCHANGED <<mirrors, stopped, at, on>>  BY <1>8 DEF vars
  <2> QED  BY <2>1, MapKept DEF MapSame, Alive
<1> QED  BY <1>1, <1>2, <1>3, <1>4, <1>5, <1>6, <1>7, <1>8 DEF Next

-----------------------------------------------------------------------------
(* The steps that leave every slot and its holder alone.                   *)
HoldersSame ==
    /\ inflight' = inflight /\ robbed' = robbed /\ queue' = queue
    /\ \A w \in Workers : (work'[w] # Idle) = (work[w] # Idle) /\ work'[w].task = work[w].task
    /\ \A a \in Actors :
          /\ (at'[a] \in {"submit", "send"}) = (at[a] \in {"submit", "send"})
          /\ at[a] \in {"submit", "send"} => on'[a] = on[a]

LEMMA HoldersKept == SlotExact /\ HoldersSame => SlotExact'
<1> SUFFICES ASSUME SlotExact, HoldersSame PROVE SlotExact'  OBVIOUS
<1>1. \A r \in Repos :
         /\ \A i \in Nat : QueuedAt(r, i)' = QueuedAt(r, i)
         /\ \A w \in Workers : RunBy(r, w)' = RunBy(r, w)
         /\ \A a \in Actors : SentBy(r, a)' = SentBy(r, a)
  BY DEF HoldersSame, QueuedAt, RunBy, SentBy
<1> QED  BY <1>1 DEF SlotExact, HoldersSame, OneHolder, Held

(* The steps of a request that is not enqueueing.                          *)
LEMMA CallerHolders ==
    ASSUME TypeOK, NEW c \in Callers, Request(c) \/ Continue(c), ~Enqueue(c)
    PROVE  HoldersSame
<1> DEFINE Away == /\ at[c] \notin {"submit", "send"} /\ at'[c] \notin {"submit", "send"}
                   /\ UNCHANGED <<inflight, robbed, queue, work>>
<1>1. Places  BY TypePlaces
<1>2. ASSUME Return(c) PROVE at'[c] = "done"  BY <1>1, <1>2, Returned
<1>3. ASSUME NEW place, Goto(c, place) PROVE at'[c] = place
  BY <1>3, Constants DEF Goto, TypeOK
<1>4. Away
  <2>1. CASE Request(c)
    <3>1. ASSUME NEW r \in Repos, RequestSync(c, r) PROVE Away
      BY <1>3, <3>1 DEF RequestSync, Begin, history
    <3>2. ASSUME NEW r \in Repos, DeleteRepo(c, r) PROVE Away
      BY <1>3, <3>2 DEF DeleteRepo, Begin
    <3>3. ASSUME NEW r \in Repos, NEW i \in Intervals, CreateMirror(c, r, i) PROVE Away
      BY <1>3, <3>3 DEF CreateMirror, Begin
    <3>4. ASSUME NEW r \in Repos, NEW i \in Intervals, UpdateSettings(c, r, i) PROVE Away
      BY <1>3, <3>4 DEF UpdateSettings, Begin
    <3>5. ASSUME NEW r \in Repos, NEW i \in Intervals, UpdateSettingsUnsaved(c, r, i) PROVE Away
      BY <1>3, <3>5 DEF UpdateSettingsUnsaved
    <3> QED  BY <2>1, <3>1, <3>2, <3>3, <3>4, <3>5 DEF Request
  <2>2. CASE Continue(c)
    <3>1. ASSUME Register(c) PROVE Away
      <4>1. at'[c] = "done"
        BY <1>2, <3>1, Started DEF Register
      <4> QED  BY <3>1, <4>1 DEF Register, history
    <3>2. ASSUME Unregister(c) PROVE Away  BY <1>3, <3>2 DEF Unregister, history
    <3>3. ASSUME ReadUpdated(c) PROVE Away  BY <1>2, <1>3, <3>3 DEF ReadUpdated, history
    <3>4. ASSUME MarkDeleted(c) PROVE Away  BY <1>2, <3>4 DEF MarkDeleted
    <3>5. ASSUME Answered(c) PROVE Away  BY <1>2, <3>5 DEF Answered, history
    <3>6. ASSUME WaitTimesOut(c) PROVE Away  BY <1>2, <3>6 DEF WaitTimesOut, history
    <3> QED  BY <2>2, <3>1, <3>2, <3>3, <3>4, <3>5, <3>6 DEF Continue
  <2> QED  BY <2>1, <2>2
<1>5. CASE Register(c) /\ NeedsScheduler(on[c], want[c])
  <2>1. PICK s \in Schedulers : /\ ~Alive(s) /\ at'[s] = "acquire"
                                /\ \A a \in Actors \ {c, s} : at'[a] = at[a] /\ on'[a] = on[a]
    BY <1>5, Started
  <2> QED  BY <1>4, <2>1 DEF HoldersSame, Alive
<1>6. CASE \A a \in Actors : a # c => at'[a] = at[a] /\ on'[a] = on[a]
  BY <1>4, <1>6 DEF HoldersSame
<1> QED  BY <1>5, <1>6, CallerSteps

LEMMA EnqueueHolders ==
    ASSUME TypeOK, SlotExact, NEW a \in Actors, Enqueue(a)
    PROVE  SlotExact'
<1>1. PICK r \in Repos : r = on[a]  BY DEF TypeOK
<1>2. \A b \in Actors : b # a => at'[b] = at[b] /\ on'[b] = on[b]  BY EnqueueSteps
<1>3. work' = work  BY EnqueueSteps
<1>4. \A q \in Repos, w \in Workers : RunBy(q, w)' = RunBy(q, w)  BY <1>3 DEF RunBy
<1>5. ASSUME at'[a] \notin {"submit", "send"}
      PROVE  \A q \in Repos, b \in Actors : SentBy(q, b)' = (SentBy(q, b) /\ b # a)
  BY <1>2, <1>5 DEF SentBy
<1>6. ASSUME EnqueueReturns(a) PROVE at'[a] \notin {"submit", "send"}
  BY <1>6, TypePlaces, EnqueueReturned
<1>7. ASSUME queue' = queue PROVE \A q \in Repos, i \in Nat : QueuedAt(q, i)' = QueuedAt(q, i)
  BY <1>7 DEF QueuedAt
<1>8. CASE Acquire(a)
  <2>1. at[a] = "acquire" /\ queue' = queue /\ robbed' = robbed  BY <1>1, <1>8 DEF Acquire, history
  <2>2. CASE EnqueueReturns(a) /\ inflight' = inflight
    <3>1. at'[a] \notin {"submit", "send"}  BY <1>6, <2>2
    <3> QED  BY <1>2, <1>3, <2>1, <2>2, <3>1, HoldersKept DEF HoldersSame
  <2>3. CASE r \notin inflight /\ inflight' = inflight \cup {r} /\ Goto(a, "submit") /\ on' = on
    <3>1. \A q \in Repos, b \in Actors : SentBy(q, b)' = (SentBy(q, b) \/ (b = a /\ q = r))
      BY <1>1, <1>2, <2>1, <2>3 DEF SentBy, Goto, TypeOK
    <3>2. ~SentBy(r, a)  BY <2>1 DEF SentBy
    <3>3. r \notin robbed => ~Held(r)  BY <1>1, <2>3 DEF SlotExact
    <3> QED  BY <1>1, <1>4, <1>7, <2>1, <2>3, <3>1, <3>3 DEF SlotExact, OneHolder, Held
  <2> QED  BY <1>1, <1>8, <2>2, <2>3 DEF Acquire
<1>9. CASE SubmitOk(a)
  <2>1. /\ at[a] = "send" /\ robbed' = robbed /\ inflight' = inflight
        /\ queue' = Append(queue, [repo |-> r, by |-> a])
    BY <1>1, <1>9 DEF SubmitOk, history
  <2>2. at'[a] \notin {"submit", "send"}
    <3>1. Goto(a, "wait") => at'[a] \notin {"submit", "send"}  BY DEF Goto, TypeOK
    <3> QED  BY <1>6, <1>9, <3>1 DEF SubmitOk
  <2>3. \A q \in Repos, i \in Nat :
           QueuedAt(q, i)' = (QueuedAt(q, i) \/ (i = Len(queue) + 1 /\ q = r))
    <3>1. queue \in Seq(Task)  BY DEF TypeOK
    <3>2. /\ Len(queue') = Len(queue) + 1
          /\ \A i \in 1..Len(queue) : queue'[i] = queue[i]
          /\ queue'[Len(queue) + 1] = [repo |-> r, by |-> a]
      BY <2>1, <3>1
    <3>3. DOMAIN queue' = 1..(Len(queue) + 1) /\ DOMAIN queue = 1..Len(queue) /\ Len(queue) \in Nat
      BY <2>1, <3>1, <3>2
    <3> QED  BY <3>2, <3>3 DEF QueuedAt
  <2>4. SentBy(r, a)  BY <1>1, <2>1 DEF SentBy
  <2>5. Len(queue) + 1 \in Nat  BY DEF TypeOK
  <2>6. \A q \in Repos, b \in Actors : SentBy(q, b)' = (SentBy(q, b) /\ b # a)  BY <1>5, <2>2
  <2>7. \A q \in Repos : Held(q)' => Held(q)  BY <1>1, <1>4, <2>3, <2>4, <2>6 DEF Held
  <2>8. \A q \in Repos : Held(q) => Held(q)'
    <3>1. \A q \in Repos : SentBy(q, a) => q = r  BY <1>1 DEF SentBy
    <3> QED  BY <1>1, <1>4, <2>3, <2>5, <2>6, <3>1 DEF Held
  <2>9. \A q \in Repos : OneHolder(q) => OneHolder(q)'
    <3> QED  BY <1>1, <1>4, <2>3, <2>4, <2>6 DEF OneHolder
  <2> QED  BY <2>1, <2>7, <2>8, <2>9 DEF SlotExact
<1>10. CASE SubmitDropped(a)
  <2>1. /\ at[a] \in {"submit", "send"} /\ robbed' = robbed
        /\ inflight' = inflight \ {r} /\ queue' = queue
        /\ Goto(a, "refused")
    BY <1>1, <1>10 DEF SubmitDropped, Release, history
  <2>2. \A q \in Repos, b \in Actors : SentBy(q, b)' = (SentBy(q, b) /\ b # a)
    BY <1>5, <2>1 DEF Goto, TypeOK
  <2>3. SentBy(r, a)  BY <1>1, <2>1 DEF SentBy
  <2>4. \A q \in Repos : q # r => ~SentBy(q, a)  BY <1>1 DEF SentBy
  <2>5. \A q \in Repos : Held(q)' => Held(q)  BY <1>4, <1>7, <2>1, <2>2 DEF Held
  <2>6. \A q \in Repos : q # r /\ Held(q) => Held(q)'  BY <1>4, <1>7, <2>1, <2>2, <2>4 DEF Held
  <2>7. \A q \in Repos : OneHolder(q) => OneHolder(q)'
    BY <1>4, <1>7, <2>1, <2>2 DEF OneHolder
  <2>8. OneHolder(r) => ~Held(r)'  BY <1>1, <1>4, <1>7, <2>1, <2>2, <2>3 DEF OneHolder, Held
  <2> QED  BY <1>1, <2>1, <2>5, <2>6, <2>7, <2>8 DEF SlotExact
<1>11. CASE ReleaseAgain(a)
  <2>1. /\ at[a] = "refused" /\ at'[a] \notin {"submit", "send"}
        /\ inflight' = inflight \ {r} /\ queue' = queue
        /\ robbed' = IF r \in inflight THEN robbed \cup {r} ELSE robbed
    BY <1>1, <1>6, <1>11 DEF ReleaseAgain, Release
  <2>2. \A q \in Repos, b \in Actors : SentBy(q, b)' = SentBy(q, b)  BY <1>5, <2>1 DEF SentBy
  <2>3. \A q \in Repos : Held(q)' = Held(q) /\ OneHolder(q)' = OneHolder(q)
    BY <1>4, <1>7, <2>1, <2>2 DEF Held, OneHolder
  <2> QED  BY <2>1, <2>3 DEF SlotExact
<1>12. CASE SubmitOpen(a)
  <2>1. /\ at[a] = "submit" /\ Goto(a, "send")
        /\ UNCHANGED <<inflight, robbed, queue, on>>
    BY <1>12 DEF SubmitOpen, history
  <2>2. at'[a] = "send"  BY <2>1 DEF Goto, TypeOK
  <2> QED  BY <1>2, <1>3, <2>1, <2>2, HoldersKept DEF HoldersSame
<1> QED  BY <1>8, <1>9, <1>10, <1>11, <1>12 DEF Enqueue

LEMMA TakeHolders ==
    ASSUME TypeOK, SlotExact, NEW w \in Workers, Take(w)
    PROVE  SlotExact'
<1>1. /\ work[w] = Idle /\ queue # <<>> /\ queue' = Tail(queue)
      /\ work' = [work EXCEPT ![w] = [at |-> "sync", task |-> Head(queue)]]
      /\ UNCHANGED <<inflight, robbed, at, on>>
  BY DEF Take, history
<1>2. queue \in Seq(Task) /\ Len(queue) \in Nat /\ Len(queue) # 0
  BY <1>1 DEF TypeOK
<1> DEFINE first == queue[1]
<1>3. PICK r \in Repos : r = queue[1].repo
  <2>1. 1 \in 1..Len(queue)  BY <1>2
  <2>2. first \in Task  BY <1>2, <2>1
  <2> QED  BY <2>2 DEF Task
<1> HIDE DEF first
<1>4. \A q \in Repos, i \in Nat : QueuedAt(q, i)' = (i # 0 /\ QueuedAt(q, i + 1))
  <2>1. DOMAIN queue = 1..Len(queue) /\ DOMAIN queue' = 1..(Len(queue) - 1)
    BY <1>1, <1>2
  <2>2. \A i \in 1..(Len(queue) - 1) : queue'[i] = queue[i + 1]  BY <1>1, <1>2
  <2> QED  BY <1>2, <2>1, <2>2 DEF QueuedAt
<1>5. \A q \in Repos, v \in Workers : RunBy(q, v)' = (RunBy(q, v) \/ (v = w /\ q = r))
  <2>1. work'[w] = [at |-> "sync", task |-> queue[1]] /\ work'[w] # Idle
    BY <1>1 DEF TypeOK, Idle
  <2>2. \A v \in Workers : v # w => work'[v] = work[v]  BY <1>1 DEF TypeOK
  <2> QED  BY <1>1, <1>3, <2>1, <2>2 DEF RunBy
<1>6. \A q \in Repos, a \in Actors : SentBy(q, a)' = SentBy(q, a)  BY <1>1 DEF SentBy
<1>7. QueuedAt(r, 1)
  <2>1. 1 \in DOMAIN queue  BY <1>2
  <2> QED  BY <1>3, <2>1 DEF QueuedAt
<1>8. \A q \in Repos, i \in Nat : QueuedAt(q, i) => i # 0  BY <1>2 DEF QueuedAt
<1>9. \A q \in Repos : QueuedAt(q, 1) => q = r  BY <1>3 DEF QueuedAt
<1>10. ASSUME NEW q \in Repos, Held(q)' PROVE Held(q)
  <2>1. ASSUME NEW i \in Nat, QueuedAt(q, i)' PROVE Held(q)
    <3>1. i + 1 \in Nat  OBVIOUS
    <3>2. QueuedAt(q, i + 1)  BY <1>4, <2>1
    <3> QED  BY <3>1, <3>2 DEF Held
  <2> QED  BY <1>5, <1>6, <1>7, <1>10, <2>1 DEF Held
<1>11. ASSUME NEW q \in Repos, Held(q) PROVE Held(q)'
  <2>1. CASE q = r  BY <1>5, <2>1 DEF Held
  <2>2. ASSUME NEW i \in Nat, QueuedAt(q, i), q # r PROVE Held(q)'
    <3>1. i - 1 \in Nat /\ i - 1 # 0 /\ (i - 1) + 1 = i  BY <1>8, <1>9, <2>2
    <3>2. QueuedAt(q, i - 1)'  BY <1>4, <2>2, <3>1
    <3> QED  BY <3>1, <3>2 DEF Held
  <2> QED  BY <1>5, <1>6, <1>11, <2>1, <2>2 DEF Held
<1>12. ASSUME NEW q \in Repos, OneHolder(q) PROVE OneHolder(q)'
  <2>1. ASSUME NEW i \in Nat, NEW j \in Nat, QueuedAt(q, i)', QueuedAt(q, j)' PROVE i = j
    <3>1. i + 1 \in Nat /\ j + 1 \in Nat  OBVIOUS
    <3>2. QueuedAt(q, i + 1) /\ QueuedAt(q, j + 1)  BY <1>4, <2>1
    <3>3. i + 1 = j + 1  BY <1>12, <3>1, <3>2 DEF OneHolder
    <3> QED  BY <3>3
  <2>2. q = r => ~\E i \in Nat : QueuedAt(q, i)'
    <3> SUFFICES ASSUME q = r, NEW i \in Nat, QueuedAt(q, i)' PROVE FALSE  OBVIOUS
    <3>1. i # 0 /\ QueuedAt(q, i + 1) /\ QueuedAt(q, 1)  BY <1>4, <1>7
    <3>2. i + 1 = 1  BY <1>12, <3>1 DEF OneHolder
    <3> QED  BY <3>1, <3>2
  <2>3. ASSUME NEW i \in Nat, QueuedAt(q, i)'
        PROVE  /\ \A v \in Workers : ~RunBy(q, v)
               /\ \A a \in Actors : ~SentBy(q, a)
    <3>1. i + 1 \in Nat  OBVIOUS
    <3>2. QueuedAt(q, i + 1)  BY <1>4, <2>3
    <3> QED  BY <1>12, <3>1, <3>2 DEF OneHolder
  <2>4. q = r => /\ \A v \in Workers : ~RunBy(q, v)
                 /\ \A a \in Actors : ~SentBy(q, a)
    BY <1>7, <1>12 DEF OneHolder
  <2> QED  BY <1>5, <1>6, <1>12, <2>1, <2>2, <2>3, <2>4 DEF OneHolder
<1> QED  BY <1>1, <1>10, <1>11, <1>12 DEF SlotExact

LEMMA TaskEndsHolders ==
    ASSUME TypeOK, SlotExact, NEW w \in Workers, TaskEnds(w)
    PROVE  SlotExact'
<1>1. work[w] \in Busy /\ work[w] # Idle  BY DEF TaskEnds, TypeOK, Idle
<1>2. PICK r \in Repos : r = work[w].task.repo  BY <1>1 DEF Busy, Task
<1>3. /\ work' = [work EXCEPT ![w] = Idle] /\ inflight' = inflight \ {r}
      /\ UNCHANGED <<robbed, queue, at, on>>
  BY <1>2 DEF TaskEnds, Release, history
<1>4. \A q \in Repos, i \in Nat : QueuedAt(q, i)' = QueuedAt(q, i)  BY <1>3 DEF QueuedAt
<1>5. \A q \in Repos, v \in Workers : RunBy(q, v)' = (RunBy(q, v) /\ v # w)
  BY <1>3 DEF RunBy, TypeOK
<1>6. \A q \in Repos, a \in Actors : SentBy(q, a)' = SentBy(q, a)  BY <1>3 DEF SentBy
<1>7. RunBy(r, w) /\ \A q \in Repos : RunBy(q, w) => q = r  BY <1>1, <1>2 DEF RunBy
<1>8. \A q \in Repos : Held(q)' => Held(q)  BY <1>4, <1>5, <1>6 DEF Held
<1>9. \A q \in Repos : q # r /\ Held(q) => Held(q)'  BY <1>4, <1>5, <1>6, <1>7 DEF Held
<1>10. \A q \in Repos : OneHolder(q) => OneHolder(q)'  BY <1>4, <1>5, <1>6 DEF OneHolder
<1>11. OneHolder(r) => ~Held(r)'  BY <1>4, <1>5, <1>6, <1>7 DEF OneHolder, Held
<1> QED  BY <1>3, <1>8, <1>9, <1>10, <1>11 DEF SlotExact

LEMMA DrainHolders ==
    ASSUME TypeOK, SlotExact, StopDrains
    PROVE  SlotExact'
<1>1. /\ inflight' = inflight \ {t.repo : t \in ToSet(queue)}
      /\ queue' = <<>> /\ UNCHANGED <<robbed, work, at, on>>
  BY DEF StopDrains, history
<1>2. ToSet(queue) = {queue[i] : i \in DOMAIN queue} /\ DOMAIN queue \subseteq Nat
  BY DEF ToSet, TypeOK
<1>3. \A q \in Repos : q \in inflight' <=> q \in inflight /\ ~\E i \in Nat : QueuedAt(q, i)
  BY <1>1, <1>2 DEF QueuedAt
<1>4. \A q \in Repos, i \in Nat : ~QueuedAt(q, i)'  BY <1>1 DEF QueuedAt
<1>5. \A q \in Repos, v \in Workers : RunBy(q, v)' = RunBy(q, v)  BY <1>1 DEF RunBy
<1>6. \A q \in Repos, a \in Actors : SentBy(q, a)' = SentBy(q, a)  BY <1>1 DEF SentBy
<1>7. \A q \in Repos : Held(q)' => Held(q)  BY <1>4, <1>5, <1>6 DEF Held
<1>8. \A q \in Repos : q \in inflight' /\ Held(q) => Held(q)'
  BY <1>3, <1>5, <1>6 DEF Held
<1>9. \A q \in Repos : OneHolder(q) => OneHolder(q)'  BY <1>4, <1>5, <1>6 DEF OneHolder
<1>10. \A q \in Repos : OneHolder(q) /\ Held(q)' => ~\E i \in Nat : QueuedAt(q, i)
  BY <1>4, <1>5, <1>6 DEF OneHolder, Held
<1> QED  BY <1>1, <1>3, <1>7, <1>8, <1>9, <1>10 DEF SlotExact

LEMMA SlotStep == ASSUME TypeOK, SlotExact, [Next]_vars PROVE SlotExact'
<1>1. ASSUME NEW c \in Callers, Request(c) \/ Continue(c) PROVE SlotExact'
  BY <1>1, EnqueueHolders, CallerHolders, HoldersKept, Constants
<1>2. ASSUME NEW s \in Schedulers, Enqueue(s) PROVE SlotExact'
  BY <1>2, EnqueueHolders, Constants
<1>3. ASSUME NEW s \in Schedulers, Tick(s) \/ SchedulerEnds(s) PROVE SlotExact'
  <2>1. /\ at[s] = "loop"
        /\ Goto(s, "acquire") \/ Goto(s, "idle")
        /\ UNCHANGED <<inflight, robbed, queue, work, on>>
    BY <1>3 DEF Tick, SchedulerEnds, history
  <2>2. HoldersSame  BY <2>1, Constants DEF HoldersSame, Goto, TypeOK
  <2> QED  BY <2>2, HoldersKept
<1>4. ASSUME NEW w \in Workers, SyncEnds(w) PROVE SlotExact'
  <2>1. work[w] \in Busy  BY <1>4 DEF SyncEnds, TypeOK, Idle
  <2>2. work'[w] # Idle /\ work'[w].task = work[w].task /\ work[w] # Idle
    BY <1>4, <2>1 DEF SyncEnds, TypeOK, Idle, Busy
  <2>3. \A v \in Workers : v # w => work'[v] = work[v]  BY <1>4 DEF SyncEnds, TypeOK
  <2> QED  BY <1>4, <2>2, <2>3, HoldersKept DEF SyncEnds, HoldersSame, history
<1>5. ASSUME UNCHANGED <<inflight, robbed, queue, work, at, on>> PROVE SlotExact'
  BY <1>5, HoldersKept DEF HoldersSame
<1>6. CASE StopSweep \/ StopCloses \/ UNCHANGED vars
  BY <1>5, <1>6 DEF StopSweep, StopCloses, schedVars, vars, history
<1> QED  BY <1>1, <1>2, <1>3, <1>4, <1>6, TakeHolders, TaskEndsHolders, DrainHolders DEF Next, Work

-----------------------------------------------------------------------------
(* The steps that change neither the schedule of r nor the requests that   *)
(* are about to.                                                           *)
RepoSame(r) ==
    /\ interval'[r] = interval[r]
    /\ r \in crossed => r \in crossed'
    /\ stop' = "idle" => /\ stop = "idle"
                         /\ mirrors'[r] = mirrors[r] /\ intervals'[r] = intervals[r]
    /\ \A c \in Callers :
          /\ Changes(c, r)' = Changes(c, r)
          /\ Changes(c, r) => at'[c] = at[c] /\ op'[c] = op[c] /\ want'[c] = want[c]

LEMMA RepoKept ==
    ASSUME NEW r \in Repos, Apart(r), RepoSame(r)
    PROVE  Apart(r)'
<1> SUFFICES ASSUME r \notin crossed'
             PROVE  /\ \A c, d \in Callers : Changes(c, r)' /\ Changes(d, r)' => c = d
                    /\ stop' = "idle" =>
                          /\ (~\E c \in Callers : Changes(c, r)') => Scheduled(r, interval[r])'
                          /\ \A c \in Callers : Changes(c, r)' => ChangeExact(c, r)'
  BY DEF Apart
<1>1. r \notin crossed  BY DEF RepoSame
<1>2. \A c, d \in Callers : Changes(c, r)' /\ Changes(d, r)' => c = d
  BY <1>1 DEF Apart, RepoSame
<1>3. ASSUME stop' = "idle", ~\E c \in Callers : Changes(c, r)'
      PROVE  Scheduled(r, interval[r])'
  BY <1>1, <1>3 DEF Apart, RepoSame, Scheduled
<1>4. ASSUME stop' = "idle", NEW c \in Callers, Changes(c, r)'
      PROVE  ChangeExact(c, r)'
  <2>1. ChangeExact(c, r)  BY <1>1, <1>4 DEF Apart, RepoSame
  <2>2. /\ at'[c] = at[c] /\ op'[c] = op[c] /\ want'[c] = want[c] /\ interval'[r] = interval[r]
        /\ mirrors'[r] = mirrors[r] /\ intervals'[r] = intervals[r]
    BY <1>4 DEF RepoSame
  <2>3. Changing(c)  BY <1>4 DEF RepoSame, Changes
  <2> QED  BY <2>1, <2>2, <2>3 DEF ChangeExact, Scheduled, Changing
<1> QED  BY <1>2, <1>3, <1>4

(* A step of a request about r is nothing to the other repositories.       *)
OnlyFor(c, r) ==
    /\ \A d \in Callers : d # c => /\ at'[d] = at[d] /\ on'[d] = on[d]
                                   /\ op'[d] = op[d] /\ want'[d] = want[d]
    /\ \A q \in Repos : q # r =>
          /\ interval'[q] = interval[q] /\ mirrors'[q] = mirrors[q] /\ intervals'[q] = intervals[q]
          /\ ~Changes(c, q) /\ ~Changes(c, q)'
    /\ stop' = stop /\ crossed \subseteq crossed'

LEMMA OnlyForApart ==
    ASSUME ChangesApart, NEW c \in Callers, NEW r \in Repos, OnlyFor(c, r), Apart(r)'
    PROVE  ChangesApart'
<1> SUFFICES ASSUME NEW q \in Repos, q # r PROVE Apart(q)'
  BY DEF ChangesApart
<1>1. RepoSame(q)
  BY DEF OnlyFor, RepoSame, Changes, Changing
<1> QED  BY <1>1, RepoKept DEF ChangesApart

LEMMA CallerAlone ==
    ASSUME TypeOK, NEW c \in Callers, Request(c) \/ Continue(c), NEW d \in Callers, d # c
    PROVE  at'[d] = at[d] /\ on'[d] = on[d] /\ op'[d] = op[d] /\ want'[d] = want[d]
<1>1. CASE Register(c) /\ NeedsScheduler(on[c], want[c])
  <2>1. d \notin Schedulers  BY SyncAssumption
  <2> QED  BY <1>1, <2>1, Started, Constants
<1> QED  BY <1>1, CallerSteps, Constants

(* A request that starts to change r, alone unless r is crossed.           *)
LEMMA BeginApart ==
    ASSUME TypeOK, ChangesApart, NEW c \in Callers, NEW r \in Repos, NEW kind,
           NEW place \in {"update", "unregister", "register"},
           Begin(c, kind, r, place), Overlap(c, r),
           \A d \in Callers : d # c => /\ at'[d] = at[d] /\ on'[d] = on[d]
                                       /\ op'[d] = op[d] /\ want'[d] = want[d],
           \A q \in Repos : q # r => interval'[q] = interval[q],
           UNCHANGED <<mirrors, intervals, stop>>,
           stop = "idle" /\ Scheduled(r, interval[r]) /\ at'[c] = place /\ op'[c] = kind =>
              ChangeExact(c, r)'
    PROVE  ChangesApart'
<1>1. /\ at[c] = "idle" /\ at'[c] = place /\ on'[c] = r /\ op'[c] = kind
  BY Constants DEF Begin, Goto, TypeOK
<1>2. OnlyFor(c, r)  BY <1>1 DEF OnlyFor, Overlap, Changes, Changing
<1>3. ASSUME r \notin crossed'
      PROVE  r \notin crossed /\ \A d \in Callers : d # c => ~Changes(d, r) /\ ~Changes(d, r)'
  BY <1>3 DEF Overlap, Changes, Changing
<1>4. ~Changes(c, r)  BY <1>1 DEF Changes, Changing
<1>5. Apart(r)'
  <2> SUFFICES ASSUME r \notin crossed'
               PROVE  /\ \A b, d \in Callers : Changes(b, r)' /\ Changes(d, r)' => b = d
                      /\ stop' = "idle" =>
                            /\ (~\E b \in Callers : Changes(b, r)') => Scheduled(r, interval[r])'
                            /\ \A b \in Callers : Changes(b, r)' => ChangeExact(b, r)'
    BY DEF Apart
  <2>1. stop = "idle" => Scheduled(r, interval[r])  BY <1>3, <1>4 DEF ChangesApart, Apart
  <2>2. Changes(c, r)'  BY <1>1 DEF Changes, Changing
  <2>3. \A b \in Callers : Changes(b, r)' => b = c  BY <1>3
  <2>4. stop' = "idle" => ChangeExact(c, r)'  BY <1>1, <2>1
  <2> QED  BY <2>2, <2>3, <2>4
<1> QED  BY <1>2, <1>5, OnlyForApart

(* A request that changes r takes a step, or its last one.                 *)
LEMMA ContinueApart ==
    ASSUME TypeOK, ChangesApart, NEW c \in Callers, NEW r \in Repos,
           Changes(c, r), Changing(c)' => on'[c] = r,
           \A d \in Callers : d # c => /\ at'[d] = at[d] /\ on'[d] = on[d]
                                       /\ op'[d] = op[d] /\ want'[d] = want[d],
           \A q \in Repos : q # r => /\ interval'[q] = interval[q] /\ mirrors'[q] = mirrors[q]
                                     /\ intervals'[q] = intervals[q],
           stop' = stop, crossed \subseteq crossed',
           stop = "idle" /\ ChangeExact(c, r) /\ r \notin crossed' =>
              IF Changing(c)' THEN ChangeExact(c, r)' ELSE Scheduled(r, interval[r])'
    PROVE  ChangesApart'
<1>1. OnlyFor(c, r)  BY DEF OnlyFor, Changes
<1>2. Apart(r)'
  <2> SUFFICES ASSUME r \notin crossed'
               PROVE  /\ \A b, d \in Callers : Changes(b, r)' /\ Changes(d, r)' => b = d
                      /\ stop' = "idle" =>
                            /\ (~\E b \in Callers : Changes(b, r)') => Scheduled(r, interval[r])'
                            /\ \A b \in Callers : Changes(b, r)' => ChangeExact(b, r)'
    BY DEF Apart
  <2>1. \A d \in Callers : Changes(d, r) => d = c  BY DEF ChangesApart, Apart
  <2>2. \A d \in Callers : Changes(d, r)' => d = c  BY <2>1 DEF Changes, Changing
  <2>3. stop = "idle" => ChangeExact(c, r)  BY DEF ChangesApart, Apart
  <2>4. Changes(c, r)' <=> Changing(c)'  BY DEF Changes
  <2> QED  BY <2>2, <2>3, <2>4
<1> QED  BY <1>1, <1>2, OnlyForApart

(* A request that changes no repository before or after the step.          *)
LEMMA AsideApart ==
    ASSUME ChangesApart, NEW c \in Callers, ~Changing(c), ~Changing(c)',
           \A d \in Callers : d # c => /\ at'[d] = at[d] /\ on'[d] = on[d]
                                       /\ op'[d] = op[d] /\ want'[d] = want[d],
           UNCHANGED <<interval, mirrors, intervals, stop, crossed>>
    PROVE  ChangesApart'
<1> SUFFICES ASSUME NEW r \in Repos PROVE Apart(r)'  BY DEF ChangesApart
<1>1. RepoSame(r)  BY DEF RepoSame, Changes, Changing
<1> QED  BY <1>1, RepoKept DEF ChangesApart

LEMMA RequestApart ==
    ASSUME TypeOK, ChangesApart, NEW c \in Callers, Request(c)
    PROVE  ChangesApart'
<1>1. \A d \in Callers : d # c => /\ at'[d] = at[d] /\ on'[d] = on[d]
                                  /\ op'[d] = op[d] /\ want'[d] = want[d]
  BY CallerAlone
<1>2. ASSUME NEW r \in Repos, RequestSync(c, r) PROVE ChangesApart'
  <2>1. at[c] = "idle" /\ at'[c] = "acquire"
    BY <1>2, Constants DEF RequestSync, Begin, Goto, TypeOK
  <2> QED  BY <1>1, <1>2, <2>1, AsideApart DEF RequestSync, Changing, schedVars, history
<1>3. ASSUME NEW r \in Repos, DeleteRepo(c, r) PROVE ChangesApart'
  <2>1. /\ Begin(c, "delete", r, "unregister") /\ Overlap(c, r)
        /\ UNCHANGED <<interval, mirrors, intervals, stop>>
    BY <1>3 DEF DeleteRepo, schedVars
  <2>2. at'[c] = "unregister" /\ op'[c] = "delete" => ChangeExact(c, r)'
    BY DEF ChangeExact
  <2> QED  BY <1>1, <2>1, <2>2, BeginApart
<1>4. ASSUME NEW r \in Repos, NEW i \in Intervals, CreateMirror(c, r, i)
      PROVE  ChangesApart'
  <2>1. /\ Begin(c, "create", r, "register") /\ Overlap(c, r)
        /\ UNCHANGED <<mirrors, intervals, stop>>
        /\ interval[r] = Absent
        /\ interval'[r] = i /\ want'[c] = i /\ i \in Nat
        /\ \A q \in Repos : q # r => interval'[q] = interval[q]
    BY <1>4, SyncAssumption DEF CreateMirror, schedVars, TypeOK
  <2>2. Scheduled(r, interval[r]) => mirrors[r] = None  BY <2>1 DEF Scheduled
  <2>3. Scheduled(r, interval[r]) /\ at'[c] = "register" => ChangeExact(c, r)'
    BY <2>1, <2>2 DEF ChangeExact
  <2> QED  BY <1>1, <2>1, <2>3, BeginApart
<1>5. ASSUME NEW r \in Repos, NEW i \in Intervals, UpdateSettings(c, r, i)
      PROVE  ChangesApart'
  <2>1. /\ Begin(c, "update", r, "update") /\ Overlap(c, r)
        /\ UNCHANGED <<mirrors, intervals, stop>>
        /\ interval[r] \in Nat
        /\ interval'[r] = i /\ want'[c] = interval[r] /\ i \in Nat
        /\ \A q \in Repos : q # r => interval'[q] = interval[q]
    BY <1>5, SyncAssumption DEF UpdateSettings, Mirrors, schedVars, TypeOK
  <2>2. Scheduled(r, interval[r]) => Scheduled(r, want[c])'
    BY <2>1 DEF Scheduled
  <2>3. Scheduled(r, interval[r]) /\ at'[c] = "update" => ChangeExact(c, r)'
    BY <2>1, <2>2 DEF ChangeExact
  <2> QED  BY <1>1, <2>1, <2>3, BeginApart
<1>6. ASSUME NEW r \in Repos, NEW i \in Intervals, UpdateSettingsUnsaved(c, r, i)
      PROVE  ChangesApart'
  <2>1. /\ at[c] = "idle" /\ at'[c] = "done" /\ crossed' = crossed \cup {r}
        /\ UNCHANGED <<mirrors, intervals, stop>>
        /\ \A q \in Repos : q # r => interval'[q] = interval[q]
    BY <1>6, Constants DEF UpdateSettingsUnsaved, Goto, schedVars, TypeOK
  <2>2. OnlyFor(c, r)  BY <1>1, <2>1 DEF OnlyFor, Changes, Changing
  <2>3. Apart(r)'  BY <2>1 DEF Apart
  <2> QED  BY <2>2, <2>3, OnlyForApart
<1> QED  BY <1>2, <1>3, <1>4, <1>5, <1>6 DEF Request

LEMMA ContinueStepApart ==
    ASSUME TypeOK, ChangesApart, NEW c \in Callers, Continue(c)
    PROVE  ChangesApart'
<1>1. \A d \in Callers : d # c => /\ at'[d] = at[d] /\ on'[d] = on[d]
                                  /\ op'[d] = op[d] /\ want'[d] = want[d]
  BY CallerAlone
<1>2. PICK r \in Repos : r = on[c]  BY Constants DEF TypeOK
<1>3. Return(c) => at'[c] = "done"  BY Returned, TypePlaces
<1>4. CASE Enqueue(c)
  <2>1. ~Changing(c) /\ ~Changing(c)'  BY <1>4, EnqueueSteps, Constants DEF Changing
  <2> QED  BY <1>1, <1>4, <2>1, AsideApart, EnqueueSteps, Constants
<1>5. CASE Answered(c) \/ WaitTimesOut(c)
  <2>1. ~Changing(c) /\ ~Changing(c)'
    BY <1>3, <1>5 DEF Answered, WaitTimesOut, Changing
  <2> QED  BY <1>1, <1>5, <2>1, AsideApart DEF Answered, WaitTimesOut, schedVars, history
<1>6. CASE Register(c)
  <2>1. at[c] = "register" /\ UNCHANGED <<interval, stop, crossed>>
    BY <1>6 DEF Register, history
  <2>2. Changes(c, r)  BY <1>2, <2>1 DEF Changes, Changing
  <2>3. CASE ~NeedsScheduler(on[c], want[c])
    <3>1. Return(c) /\ UNCHANGED <<mirrors, intervals>>
      BY <1>6, <2>3 DEF Register, schedVars
    <3>2. ~Changing(c)'  BY <1>3, <3>1 DEF Changing
    <3>3. ASSUME ChangeExact(c, r) PROVE Scheduled(r, interval[r])'
      <4>1. interval[r] \in Nat /\ want[c] = interval[r] /\ mirrors[r] = None
        BY <2>1, <3>3 DEF ChangeExact
      <4>2. interval[r] = 0  BY <1>2, <2>3, <4>1 DEF NeedsScheduler
      <4> QED  BY <2>1, <3>1, <4>1, <4>2 DEF Scheduled
    <3> QED  BY <1>1, <2>1, <2>2, <3>1, <3>2, <3>3, ContinueApart
  <2>4. CASE NeedsScheduler(on[c], want[c])
    <3>1. PICK s \in Schedulers :
             /\ mirrors' = [mirrors EXCEPT ![on[c]] = s]
             /\ intervals' = [intervals EXCEPT ![on[c]] = want[c]]
             /\ at'[c] = "done"
      BY <1>6, <2>4, Started
    <3>2. ~Changing(c)'  BY <3>1 DEF Changing
    <3>3. /\ mirrors'[r] = s /\ intervals'[r] = want[c] /\ s # None
          /\ \A q \in Repos : q # r => mirrors'[q] = mirrors[q] /\ intervals'[q] = intervals[q]
      BY <1>2, <3>1, Constants DEF TypeOK
    <3>4. ASSUME ChangeExact(c, r) PROVE Scheduled(r, interval[r])'
      <4>1. interval[r] \in Nat /\ want[c] = interval[r]
        BY <2>1, <3>4 DEF ChangeExact
      <4>2. want[c] # 0  BY <2>4 DEF NeedsScheduler
      <4>3. interval[r] \notin {Absent, Gone, 0}  BY <4>1, <4>2, SyncAssumption
      <4> QED  BY <2>1, <3>3, <4>1, <4>3 DEF Scheduled
    <3> QED  BY <1>1, <2>1, <2>2, <3>2, <3>3, <3>4, ContinueApart
  <2> QED  BY <2>3, <2>4
<1>7. CASE Unregister(c)
  <2>1. /\ at[c] = "unregister" /\ on'[c] = r
        /\ at'[c] = IF op[c] = "delete" THEN "remove" ELSE "register"
        /\ UNCHANGED <<interval, stop, crossed, op, want>>
        /\ mirrors'[r] = None
        /\ \A q \in Repos : q # r => mirrors'[q] = mirrors[q] /\ intervals'[q] = intervals[q]
    BY <1>2, <1>7, Constants DEF Unregister, Goto, TypeOK, callVars, history
  <2>2. Changes(c, r)  BY <1>2, <2>1 DEF Changes, Changing
  <2>3. Changing(c)'  BY <2>1 DEF Changing
  <2>4. ChangeExact(c, r) => ChangeExact(c, r)'  BY <2>1 DEF ChangeExact
  <2> QED  BY <1>1, <2>1, <2>2, <2>3, <2>4, ContinueApart
<1>8. CASE ReadUpdated(c)
  <2>1. at[c] = "update" /\ UNCHANGED <<interval, mirrors, intervals, stop, crossed>>
    BY <1>8 DEF ReadUpdated, schedVars, history
  <2>2. Changes(c, r)  BY <1>2, <2>1 DEF Changes, Changing
  <2>3. CASE interval[on[c]] \in {Gone, want[c]} /\ Return(c)
    <3>1. ~Changing(c)'  BY <1>3, <2>3 DEF Changing
    <3>2. ASSUME ChangeExact(c, r) PROVE Scheduled(r, interval[r])'
      <4>1. interval[r] \in Nat /\ Scheduled(r, want[c])  BY <2>1, <3>2 DEF ChangeExact
      <4>2. interval[r] = want[c]  BY <1>2, <2>3, <4>1, SyncAssumption
      <4> QED  BY <2>1, <4>1, <4>2 DEF Scheduled
    <3> QED  BY <1>1, <2>1, <2>2, <3>1, <3>2, ContinueApart
  <2>4. CASE /\ interval[on[c]] \notin {Gone, want[c]}
             /\ want' = [want EXCEPT ![c] = interval[on[c]]]
             /\ Goto(c, "unregister") /\ UNCHANGED <<on, op, answer>>
    <3>1. at'[c] = "unregister" /\ on'[c] = r /\ want'[c] = interval[r]
      BY <1>2, <2>4, Constants DEF Goto, TypeOK
    <3>2. Changing(c)'  BY <3>1 DEF Changing
    <3>3. ChangeExact(c, r) => ChangeExact(c, r)'  BY <2>1, <3>1 DEF ChangeExact
    <3> QED  BY <1>1, <2>1, <2>2, <3>1, <3>2, <3>3, ContinueApart
  <2> QED  BY <1>8, <2>3, <2>4 DEF ReadUpdated
<1>9. CASE MarkDeleted(c)
  <2>1. /\ at[c] = "remove" /\ at'[c] = "done" /\ crossed \subseteq crossed'
        /\ UNCHANGED <<mirrors, intervals, stop>>
        /\ \A q \in Repos : q # r => interval'[q] = interval[q]
        /\ r \in crossed' \/ interval'[r] = Gone
    BY <1>2, <1>3, <1>9 DEF MarkDeleted, schedVars, TypeOK
  <2>2. Changes(c, r)  BY <1>2, <2>1 DEF Changes, Changing
  <2>3. ~Changing(c)'  BY <2>1 DEF Changing
  <2>4. ChangeExact(c, r) /\ r \notin crossed' => Scheduled(r, interval[r])'
    BY <2>1 DEF ChangeExact, Scheduled
  <2> QED  BY <1>1, <2>1, <2>2, <2>3, <2>4, ContinueApart
<1> QED  BY <1>4, <1>5, <1>6, <1>7, <1>8, <1>9 DEF Continue

LEMMA ChangesStep == ASSUME TypeOK, ChangesApart, [Next]_vars PROVE ChangesApart'
<1>1. ASSUME \A c \in Callers : /\ at'[c] = at[c] /\ on'[c] = on[c]
                                /\ op'[c] = op[c] /\ want'[c] = want[c],
             interval' = interval, crossed' = crossed,
             stop' = "idle" => stop = "idle" /\ mirrors' = mirrors /\ intervals' = intervals
      PROVE  ChangesApart'
  <2> SUFFICES ASSUME NEW r \in Repos PROVE Apart(r)'  BY DEF ChangesApart
  <2>1. RepoSame(r)  BY <1>1 DEF RepoSame, Changes, Changing
  <2> QED  BY <2>1, RepoKept DEF ChangesApart
<1>2. ASSUME NEW s \in Schedulers, Enqueue(s) PROVE ChangesApart'
  <2>1. \A c \in Callers : c # s /\ c \in Actors  BY SyncAssumption, Constants
  <2> QED  BY <1>1, <1>2, <2>1, EnqueueSteps, Constants
<1>3. ASSUME NEW s \in Schedulers, Tick(s) \/ SchedulerEnds(s) PROVE ChangesApart'
  <2>1. \A c \in Callers : c # s /\ c \in Actors  BY SyncAssumption, Constants
  <2>2. \A c \in Callers : at'[c] = at[c]
    BY <1>3, <2>1 DEF Tick, SchedulerEnds, Goto, TypeOK
  <2> QED  BY <1>1, <1>3, <2>2 DEF Tick, SchedulerEnds, schedVars, callVars, history
<1>4. ASSUME NEW w \in Workers, Work(w) PROVE ChangesApart'
  BY <1>1, <1>4 DEF Work, Take, SyncEnds, TaskEnds, schedVars, callVars, history
<1>5. CASE StopSweep \/ StopCloses \/ StopDrains
  BY <1>1, <1>5 DEF StopSweep, StopCloses, StopDrains, schedVars, callVars, history
<1>6. CASE UNCHANGED vars
  BY <1>1, <1>6 DEF vars
<1> QED  BY <1>2, <1>3, <1>4, <1>5, <1>6, RequestApart, ContinueStepApart DEF Next

LEMMA NextInv == IInv /\ [Next]_vars => IInv'
  BY TypeStep, MapStep, SlotStep, ChangesStep DEF IInv

(* The inductive invariant of the sync manager.                            *)
THEOREM Invariance == Spec => []IInv
  BY InitInv, NextInv, PTL DEF Spec

-----------------------------------------------------------------------------
(* Every variable keeps its type.                                          *)
THEOREM TypeCorrect == Spec => []TypeOK
  BY Invariance, PTL DEF IInv

LEMMA AtMostOne ==
    ASSUME NEW S, \A x, y \in S : x = y
    PROVE  /\ Cardinality(S) \in {0, 1}
           /\ Cardinality(S) = 0 <=> S = {}
<1>1. CASE S = {}  BY <1>1, FS_EmptySet
<1>2. CASE S # {}
  <2>1. PICK x \in S : TRUE  BY <1>2
  <2>2. S = {x}  OBVIOUS
  <2>3. Cardinality(S) = 1  BY <2>2, FS_Singleton
  <2> QED  BY <1>2, <2>3
<1> QED  BY <1>1, <1>2

(* No two syncs of one repository are queued, running or being submitted   *)
(* at the same time, whatever drops, drains, timeouts and requests are     *)
(* interleaved (sync_manager.go 24), as long as no second release has      *)
(* freed a slot that was in use.                                           *)
THEOREM SyncsOnce == Spec => []OneSync
<1>1. ASSUME IInv, NEW r \in Repos \ robbed
      PROVE  Cardinality(Queued(r)) + Cardinality(Running(r)) + Cardinality(Submitting(r)) <= 1
  <2>1. OneHolder(r)  BY <1>1 DEF IInv, SlotExact
  <2>2. \A i \in Queued(r) : i \in Nat /\ QueuedAt(r, i)
    BY <1>1 DEF Queued, QueuedAt, IInv, TypeOK
  <2>3. \A w \in Running(r) : w \in Workers /\ RunBy(r, w)  BY DEF Running, RunBy
  <2>4. \A a \in Submitting(r) : a \in Actors /\ SentBy(r, a)  BY DEF Submitting, SentBy
  <2>5. /\ \A i, j \in Queued(r) : i = j
        /\ \A w, v \in Running(r) : w = v
        /\ \A a, b \in Submitting(r) : a = b
    BY <2>1, <2>2, <2>3, <2>4 DEF OneHolder
  <2>6. /\ Queued(r) = {} \/ Running(r) = {}
        /\ Queued(r) = {} \/ Submitting(r) = {}
        /\ Running(r) = {} \/ Submitting(r) = {}
    BY <2>1, <2>2, <2>3, <2>4 DEF OneHolder
  <2>7. /\ Cardinality(Queued(r)) \in {0, 1}
        /\ Cardinality(Queued(r)) = 0 <=> Queued(r) = {}
        /\ Cardinality(Running(r)) \in {0, 1}
        /\ Cardinality(Running(r)) = 0 <=> Running(r) = {}
        /\ Cardinality(Submitting(r)) \in {0, 1}
        /\ Cardinality(Submitting(r)) = 0 <=> Submitting(r) = {}
    BY <2>5, AtMostOne
  <2> QED  BY <2>6, <2>7
<1>2. IInv => OneSync  BY <1>1 DEF OneSync
<1> QED  BY <1>2, Invariance, PTL

(* A taken slot always belongs to a sync that is queued, running or about  *)
(* to be submitted: no drop, drain or refused Submit leaves it without.    *)
THEOREM SlotsHeld == Spec => []SlotHasHolder
<1>1. ASSUME IInv, NEW r \in inflight
      PROVE  Queued(r) # {} \/ Running(r) # {} \/ Submitting(r) # {}
  <2>1. Held(r)  BY <1>1 DEF IInv, TypeOK, SlotExact
  <2> QED  BY <2>1 DEF Held, QueuedAt, RunBy, SentBy, Queued, Running, Submitting
<1>2. IInv => SlotHasHolder  BY <1>1 DEF SlotHasHolder
<1> QED  BY <1>2, Invariance, PTL

(* Every living scheduler whose stop channel is open is the one in the     *)
(* map, so that Register, Unregister or Stop can still end it.             *)
THEOREM NoneStray == Spec => []NoStrayScheduler
  BY Invariance, PTL DEF IInv, MapExact

(* Between requests a mirror is scheduled with the interval its metadata   *)
(* says, and nothing else is scheduled, however requests for different     *)
(* repositories, ticks, workers and stops are interleaved.                 *)
THEOREM SchedulesFollow == Spec => []ScheduleFollows
<1>1. IInv => ScheduleFollows
  BY DEF IInv, ChangesApart, Apart, ScheduleFollows, Changes, Scheduled
<1> QED  BY <1>1, Invariance, PTL

=============================================================================
