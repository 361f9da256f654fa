# A TLA+ verification of pgit

pgit is a Git server written in Go. It serves bare repositories over smart HTTP
and SSH, keeps *mirror* repositories in step with an upstream, and runs *relay*
repositories: a relay takes pushes from downstream clients, checks them against
the upstream's refs, applies them locally and forwards them in the background.
This directory holds the TLA+ models of its core, the TLC runs and the TLAPS
proofs. All source paths below are relative to `src/internal/pgs/` unless they
start with `docs/` or `cmd/`.

## 1. Inventory

| component | state | operations | interacts with | what makes it correct |
|---|---|---|---|---|
| ref store, `git/refs.go` | loose ref files, `packed-refs`, `<ref>.lock` files | `Update`, `Get`, `List`, `SetHead` | called by receive-pack, fetch, relay and the API, each with a `RefStore` of its own | an update is one compare-and-swap; readers see whole values; no lock is leaked |
| task queue, `task_queue.go` | bounded channel, worker pool, `closed` | `Submit`, `SetWorkers`, `Stop`, worker loop | one per manager; calls the tasks' `Run`/`Dropped` | each accepted task runs or is dropped, once; `Stop` is final and returns |
| relay manager, `relay_manager.go`, `relay_base.go` | `PendingRefs` on disk; per repository `queued`, `running`, retry timer, upstream base in memory | `Admit`, `OnRefsUpdated`, `enqueue`, `runRounds`/`runRound`/`applyRound`, `updateRetry`, `RelayNow`, `AlignToUpstream`, `Bootstrap`, `Unregister`, `Stop` | receive-pack (callbacks), task queue, push client, repositories manager | forwards are fast forwards and delete nothing unasked; what is ahead is pending; what is pending is forwarded; one task per repository |
| receive-pack, `git/protocol.go` | none of its own | `ServeReceivePack`, `ServeUploadPack`, advertisement | ref store, object store, relay callbacks | objects before refs; refs before callbacks; an honest report |
| push client, `git/push.go` | none | `PushRemote`, `pushOnce` | upstream | commands by compare-and-swap; a lost answer is safe to retry; pack complete for the upstream |
| fetch client, `git/fetch.go` | none | `FetchRemoteWithOptions`, `fetchOnce` | upstream, ref store, archive callback | local refs become the upstream's except protected and held-back ones |
| sync manager, `sync_manager.go` | schedulers, `inflight`, `active`, intervals | `Register`, `Unregister`, `SyncNow`, `SyncAsync`, `Stop` | task queue, repositories manager | one sync per repository; slots always come back |
| repositories manager, `manager.go`, `repository.go` | indexes by name, alias and folded ref; metadata files; deletion markers | scan, create, update, alias, delete, `SyncRepository`, `UpdateMirrorRuntime` | everything | indexes agree with each other and with the disk, after failures and restarts too |
| archive manager, `archive.go`, `git/bundle.go` | bundles and sidecars per repository | `Snapshot`, `Find`, `Delete`, `Restore`, `prune` | fetch callback, API | no destructive update without a snapshot; listings and files agree |
| mux server, `server/mux.go`, `server/ssh.go` | tracked connections, wait group, `closing` | `Serve`, `handleConn`, `Shutdown` | HTTP and SSH handlers | nothing new after shutdown; shutdown ends |
| reachability, `git/reach.go`, `isFastForward` | none | `WalkReachable`, `isFastForward` | push, upload-pack, admission | equal to graph reachability |
| HTTP handlers, `server/http.go` | pack places `packSem` | git requests; create, update, sync and delete repositories | every manager | a place per transfer; the schedule follows the metadata |
| configuration, `config.go`, `cmd/pgit/main.go` | settings behind a lock | load, `HotReload`, start and stop order | everything | a rejected reload changes nothing |
| object store and codecs, `git/loose.go`, `git/pack_*.go`, `git/delta.go`, `git/pktline.go`, `git/parse.go` | loose objects | read, write, encode, decode | receive-pack, fetch, push | decode inverts encode; writes are atomic and idempotent |
| task manager, GitHub import, web UI, metrics, logs, browsing | job lists, counters, files | — | the managers | see section 8 |

Concurrency everywhere: a goroutine per request, per queue worker, per mirror
scheduler, per timer. State on disk (refs, metadata) outlives the process, state
in memory (base, flags, timers, queues) does not. The upstream is another
machine: calls to it fail, their answers get lost, and other clients write it.
`PROJECT.json` lists each hazard at its line with the properties that cover it.

## 2. Modules

| module | models | code it stands for |
|---|---|---|
| `AtomicRef` | the promise of `RefStore.Update`: an atomic compare-and-swap register | abstract |
| `RefStore` | `updateOne` and `readCurrentOid` as file operations | `git/refs.go` 186–294 |
| `TaskQueue` | the bounded queue, its pool and `Stop` | `task_queue.go` 55–230 |
| `Relay` | one relay repository with its clients, upstream, pulls and crashes | `relay_manager.go`, `relay_base.go`, `git/push.go`, parts of `git/protocol.go`, `git/fetch.go`, `manager.go` |
| `SyncManager` | schedules, slots and syncs of mirrors, and the handlers that change them | `sync_manager.go`, parts of `server/http.go`, `cmd/pgit/main.go` |
| `Repositories` | directories, metadata, deletion marks and the three indexes | `manager.go`, `repository.go` |
| `Archive` | snapshots as files: bundle, sidecar, prune, delete | `archive.go`, `git/bundle.go` |
| `Mirror` | a pull mirror, its upstream and restores, on top of `Archive` | `git/fetch.go` 120–600, `manager.go`, `git/bundle.go` |
| `Settings` | the configuration and its reload on SIGHUP | `config.go`, `cmd/pgit/main.go` |
| `Server` | connections, pack places, shutdown, on top of `Settings` | `server/mux.go`, `server/ssh.go`, parts of `server/http.go`, `cmd/pgit/main.go` |
| `Codec` | the variable-length numbers of packs and deltas | `git/delta.go`, `git/pack_encode.go`, `git/pack_decode.go` |
| `Delta` | `EncodeDelta` and `ApplyDelta` | `git/delta.go` |
| `Transfer` | a fetch of objects: walk, pack, stream, decoder | `git/reach.go`, `git/pack_encode.go`, `git/pack_decode.go`, parts of `git/protocol.go`, `git/fetch.go` |
| `RefStoreProofs`, `TaskQueueProofs`, `RepositoriesProofs`, `RelayProofs`, `SyncManagerProofs`, `ServerProofs`, `MirrorProofs`, `TransferProofs` | theorems (section 4) | |
| `MC...` | constants, bounds and symmetry for TLC | |

Composition. `Mirror` extends `Archive`: the fetch waits for a snapshot and
writers of both interleave. `Server` extends `Settings`: one process serves,
reloads and shuts down. `Delta` and `Transfer` share `Codec`, and `Transfer`
takes from `Delta` that a delta restores what it was made from, which is proved
(`DeltaRestores`). `Relay` and
`Mirror` use one atomic step for the update of a ref, which is what `AtomicRef`
promises and `RefStore` implements; that an update can fail, and that a crash
inside it leaves a lock, is in `Mirror`. `SyncManager` and `Relay` use a queue that
settles a task at most once, which is what `TaskQueue` shows. Whether the queue is
closed and the sending of the task are two steps in `SyncManager`, as they are in
`TaskQueue`; `Relay` has no `Stop`, and there the two cannot be told apart.
`Transfer` replaces the refs of a client in one step, `Mirror` has the steps.

An operator with the comment *Mutant:* is the next operator with one plausible
mistake. No specification uses them; they show that a property of a run fails
when the code has that mistake.

### RefStore

A file is known by the update that created it, so that a rename moves the file
the path names at that moment. Each action is one file operation: `OpenLock` is
`OpenFile(O_CREATE|O_EXCL)`, `LockFails` its failure (or `MkdirAll`'s),
`CheckOld` reads the ref and compares, `RemoveLoose` deletes, `WriteLock` writes
the descriptor, `RenameLock` renames whatever file the lock path names,
`IoFails` is the failure of any of these, and `DeferredRemove` is the deferred
`os.Remove(lockPath)`, which runs on every path, after a successful rename too.
`Crash` stops the process and leaves the files. `s.mu` does not appear: callers
build their own `RefStore`. `packed-refs` is read only (the code never writes
it), so a deletion of a packed ref uncovers the packed value; `AtomicRef` says so
in its `floor`. `stolen` is a history variable: a deferred Remove has unlinked
another update's lock file. The several refs of one `Update` call are
independent of each other and one is modelled.

### TaskQueue

`q.mu` makes each critical section one action; the channel is not under it, so
`Submit` is two steps (`SubmitOpen`, then `SubmitSend` or `SubmitFull`). A worker
is at the first `select` (`top`), at the second (`select`), or running a task;
Go's choice among ready cases is the nondeterminism between `WorkerQuit` and
`WorkerTake`. `WorkerFinish` covers a panic, which `run` recovers from. A
goroutine slot in `Workers` can be used again after its worker has returned.
`Stop` is three phases: close, wait for every worker, drain.

### Relay

State on disk: `local` refs and `pending`. In memory: `base`, `queued`,
`running`, `timer`, the control points of requests and of the forward task.
Outside: `upstream`. One action per step between which another goroutine can
run: every read or write of disk or shared memory, and every call to the
upstream.

* **push**: `PushStart` (advertisement read, command and pack received),
  `PushLs` and `PushSetBase` (`refreshBase`), `PushAdmit` (`admitOne` with the
  base read again), `PushUpdate` (the compare-and-swap), `PushReport`
  (report-status; on failure `OnRefsUpdated` is skipped), `PushMark`,
  `PushEnqueue`.
* **forward task**: `TaskStart`, `TaskRound` (copies pending; at most `MaxRounds`
  rounds), `TaskRead` (the refs' present values; vanished refs and those whose
  read fails are deletions, or are dropped when deletions are not forwarded),
  `TaskAdvert` and `TaskSend` (one
  `pushOnce`: the commands' old values come from the advertisement),
  `TaskSendLost` (the request or its answer is lost), `TaskApply`
  (`applyRound`), `TaskRetry` (`updateRetry`), `TaskFinish`.
* **others**: `TimerFire`; `Manual*` for `RelayNow`; `Sync*` for
  `SyncRepository` with `fetchOnce`; `Align*` for `AlignToUpstream`;
  `EnqueueFull` and `Release` for a full queue, whose two resets of `queued` are
  separate critical sections; `Crash` with `Bootstrap`; `Foreign` for another
  writer of the upstream.

Abstractions. Commits are atoms and `Descends` is the relation `IsFastForward`
computes. A push carries one command; a client's old value is the one it was
advertised. The upstream is external: it carries out each command by
compare-and-swap (`Granted`), may refuse some (`refuse`), and answers a fetch
with a pack that is empty when the haves it knows reach every want
(`PackSent`). The retries inside `PushRemote` and `LsRemote` are bounded by the
`fault` budget. The ref updates of one fetch or one align are one step, as each
ref is a compare-and-swap of its own. `TimerFire` waits for a task at its last
instruction, as the delay is a second at least. `Bootstrap`'s asynchronous
calibration writes the base as a push's `refreshBase` does and is not a separate
actor. Shutdown of the manager and deletion of the repository are not in the
model (section 8).

### SyncManager

A scheduler and an HTTP request are goroutines that go through the steps of
`enqueue`: `tryAcquire` takes the slot; `Submit` asks whether the queue is closed
(`SubmitOpen`) and then sends (`SubmitOk`), with `Stop` free to finish in between;
on a full or stopped queue `Dropped` and `enqueue` release the slot each in a
critical section of its own. A worker takes a task, marks the repository active,
syncs, and releases. `RequestSync` is `SyncNow` (which waits for the outcome, or
times out without releasing anything) or `SyncAsync`; `CreateMirror`,
`UpdateSettings` and `DeleteRepo` are the handlers of `server/http.go`, each a
change of the metadata followed by `Register` and `Unregister` as separate
steps. `UpdateSettingsUnsaved` is a failing `SaveMetadata`, after which memory
has changed and the handler returns. `Stop` closes the schedulers' channels
under the lock (`StopSweep`), waits for the schedulers and closes the queue
(`StopCloses`), waits for the workers, which may still take a task that is in the
channel, and drains it (`StopDrains`). What a sync does to the repository is module `Mirror`.
History variables: `robbed`, the repositories whose slot a second release has
freed while somebody else held it; `crossed`, those that two requests changed at
once or whose last change failed half-way.

### Repositories

`r.mu` is held for a whole operation, so operations do not interleave, but the
process can die between two file operations of a creation, each of which can
fail: `MakeDir`, `WriteFiles`, `FirstSave`, `MirrorSave`, and `CreateFails` with
the roll-back that `InitBare` does and `CreateMirrorRepositoryWithBranch` does
not. `Save` writes the metadata after memory has changed, or fails and leaves
memory changed. `DeleteRepository` writes the mark and keeps the directory.
`Start` is the scan of the disk: what has a mark is passed over, a directory
without metadata is migrated, and repositories whose refs meet are left out.
Names and aliases are atoms, `Fold` their lower-case form. `promise` is what
clients were last told of a name, `unsure` the keys touched by an operation that
failed or was cut off.

### Archive and Mirror

Each file operation of `Snapshot` is an action: an id from the clock, the reason
and a number if the bundle exists; the creation of the temporary bundle, which is
empty; the end of its writing; rename; sidecar; prune by count (over sorted ids) and
by size (over file times). A file, temporary or not, has its id, the refs in it, its
age and who is still writing it. `SnapFails` removes the temporary file by name,
whoever has made it, and `SnapRename` moves whatever has the name, finished or not.
Each prune lists the files once (`doomed`) and removes them one by one. An archive
is removed with two calls, in `prune` and in `Delete`: `RemoveSidecar`, then
`RemoveBundle`, which asks nothing; `bare` has the id in between, when a writer can
write the sidecar again. The clock can be set back. `disturbed` marks a snapshot
that was not alone; `orphaned` an id that was listed after its bundle was lost or
while it was being removed; the byte limit of the code counts all repositories and
is counted for one.

`Mirror` has the upstream (`UpstreamMoves`, external), and `fetchOnce` from
`Advertise` and `ListLocal` (or `ListFails`, whose error the code ignores), with
their up-to-date shortcuts, over `Download`, `ArchiveFirst`/`ArchiveReturns` and
`UpdateRef` to `SetHead`. `UpdateRef` is one compare-and-swap per ref, the upstream's
refs before those that are only here; it changes nothing while the lock of the ref
is there, and `UpdateFails` is any other failure. The fetch logs both and goes on to
HEAD, which can then name a branch that was not created. The upstream sends what it
knows the haves to lack: a have outside its own history it may know or not. Beside
the sync run manual snapshots, deletions, a restore (`RestoreBegin`, `RestoreRef`,
`RestoreFails`, `RestoreHead`), failures and crashes. `Crash` can come inside an
update and leave what it has done so far (`Torn`): the lock, with nothing in it
(`Garbled`) or with the new value, and the ref as it was or removed.
`RefStore.List` takes a lock for a ref, so `Refs` has the names of locks
(`LockOf`), `local` says what they hold, and a fetch treats them as refs that the
upstream does not have. The object store is the set of commits present. `moved` is a
history variable: the refs a restore has moved since the running sync listed them;
`unsettled` says that a crash, a restore or a failed write came after the last sync
that ran to its end.

### Settings and Server

A reload reads the file into a fresh `Setting`, hands the push limit to package
git in the middle of the checks (`SetPushLimit`), fails or passes the rest
(`CheckRest`), copies the fields that need no restart (`Apply`) and resizes the
queues (`Resize`). `hupCh` holds one signal.

A connection is peeked at; SSH is counted in the wait group and tracked in
separate steps, HTTP is pushed through `connChanListener` to the one
`http.Server` (external). `handleSession` works in a goroutine of its own. A git
request waits for a place in `packSem` or gives up. `Shutdown` is `Terminate`,
`CloseListener`, `HttpCloses`, `HttpDrained`, `WaitEnds`, `ForceClose`; `MainReturns`
is the return of `Serve` in `main`, which ends the process. `host` is `main` or
the test that keeps the process alive, as `server/mux_test.go` does; without the
second, nothing after `CloseListener` could be relied on.

### Codec, Delta and Transfer

`Delta` has one action per turn of the loop of `EncodeDelta`: an insert byte, a
copy with its split into instructions, the flush of waiting bytes. The index is a
map from a hash to the set of the positions of base with it: the code appends
positions in order, so the ones it scans are the lowest, up to `ScanLimit`.
`IndexOf` builds it with a rolling hash whose modulus is small, so that buckets
collide. `ApplyDelta` is an operator: `Turn` reads one instruction or refuses it,
and `Replay` takes turns until the delta has ended.

`Transfer` has a server that walks from the haves and then the wants, writes a
pack one object or one pair of blobs at a time (the largest blobs first, those of
equal size in any order), and gives up where the code does; a foreign git that may
use any delta; a wire that is a sequence of pieces, of which a deflated content is
one; and the decoder of `fetchOnce`, which stores
what it has read and moves the refs at the end. Reading starts when the response
has ended or was cut. The side-band demultiplexer is there through how a
response can end: `flush`, an end of stream that reads as `io.EOF`, an error that
the remote reports (`RemoteError`), or a broken connection. The decoder refuses what
is beyond its limits: `MaxObject` for an object and a delta, `MaxHead` for the bytes
of an entry's head, `MaxDistance` for the base of an `OFS_DELTA`. The numbers
themselves have no width: what is written is below 2^64. An object may fail to be
written. An object may be lost, or damaged so that its head can be read and
its content cannot.

## 3. Runs

| run | instance | result |
|---|---|---|
| `ref_store` | three updates with any old and new values, two commits, loose/packed/absent start | passes |
| `task_queue` | three tasks, capacity 2, three goroutine slots, pool 1–2, two resizes, two Stops | passes |
| `relay_safety` | one branch, three commits two of which diverge, two pushes, two tasks, any two disturbances, failing reads among them | passes |
| `relay_delivery` | two refs of which one is outside the whitelist, one push, deletions on, up to two lost requests, a failing read and one crash | passes |
| `relay_pull` | one push and one pull | `PullKeepsPushes` fails |
| `sync_manager` | two mirrors, two scheduler goroutines, two requests of any kind, one worker, a queue of one, a Stop | passes |
| `repositories` | two names, an alias in two spellings, one repository of an earlier run, two failures, two crashes | passes |
| `mirror` | two branches and the lock of one, a commit, its successor and a rewrite, one archive kept, three events | passes |
| `server` | two connections and edits of the file, two in sum, one pack place, five files | passes |
| `server_shutdown` | the same | `NoHardCut` fails |
| `delta` | every base and target of up to six bits | passes |
| `transfer` | ten objects, one of them too large, four sets of tips, three starts, one fault, two attempts | passes |

What the passing runs show:

* `LockOwned`, `NeverTorn`, `NoLeakedLock`, `AtomicUntilStolen`: until a deferred
  Remove hits a foreign lock file, the protocol excludes, readers never see an
  empty ref, and every update is one step of `AtomicRef`, disk errors and crashes
  at any point included.
* `RunOrDropOnce`, `StopIsFinal`, `OneTaskAfterRetire`, `AcceptedIsSettled`,
  `StopReturns`: the queue settles each task at most once; a task accepted before
  Stop is not stranded by shrinking or stopping; Stop ends and stays ended.
* `LocalAhead`, `UpstreamForward`: without other writers, pulls, aligns and
  deletions, local refs never fall behind the upstream's and every forward is a
  fast forward, even with the one base shared by concurrent requests, lost
  answers and crashes; for `UpstreamForward` the queue must never have been full,
  for `LocalAhead` it may. `UpstreamKept`: a relay that does not
  forward deletions never deletes. `OneTask`: one task per repository as long as
  the queue was never full. `Delivered`: with one push, what is pending reaches
  the upstream in spite of lost answers and a restart, unless reading the local ref
  has failed.
* `OneSync`, `SlotHasHolder`, `SlotComesBack`: one sync per repository, unless the
  double release of a full queue has freed a foreign slot; a taken slot always has a
  task that stands for it, and drops, drains, timeouts and Stop give it back, with one
  exception: a `Submit` that had found the queue open and sends behind Stop's drain
  leaves a task in the channel that nobody takes, and its slot taken (`Stranded`).
  `NoStrayScheduler`,
  `ScheduleFollows`, `StopReturns`: no scheduler is out of reach; between requests
  the schedules are those of the metadata; Stop returns unless a schedule was
  registered after its sweep.
* `DestroyedIsArchived`, `SnapshotSurvives`, `ListedHasBundle`: no sync drops
  history that a listed archive does not hold; a snapshot does not prune itself; a
  listed archive has its bundle, except for a sidecar that is written when the bundle
  was already removed, or between the two removals of its archive.
  Left out of the first are refs that one restore has moved away from the listed value and a
  second has moved back: the snapshot made between the two holds the value it
  found. That takes five events, two more than the run has; the proof needed the
  exception, and a smaller instance with five events shows the case.
  `RefsComplete`, `HeadResolves`, `CatchesUp`: refs name complete histories; HEAD
  resolves after a sync that has written all it meant to; and the mirror catches up
  where there is something to fetch, also from the lock that a crash has left: the
  next sync finds it in the way of its ref, and deletes it as a ref the upstream does
  not have. An empty lock is the exception: it is listed with no id, is sent as a
  have without one, and git's upload-pack dies of that.
* `IndexExact`, `RefSpaceUnique`, `ServedAsPromised`, `NoHalfDirectory`: the
  indexes agree with the metadata, no ref has two owners, what clients were told
  survives restarts, and a rolled-back creation leaves nothing.
* `PlacesExact`, `DrainedWhenDone`, `ShutdownReturns`: places are neither lost nor
  given back twice; a Shutdown that is waited for drains what it has counted and
  returns whatever clients do. `LimitsAgree`, `Settles`: the two push limits agree
  except after a reload rejected late, and a valid file is in force in the end
  however many signals were merged.
* `Restores`: what `EncodeDelta` has written restores, at each turn of its loop,
  exactly what it has read.
* `Complete`, `Genuine`, `NeverRefused`, `SentExactly`: refs never name an object
  that is not there, whatever is cut, lost or damaged; nothing is decoded on a
  wrong base; a pack that arrives whole is accepted, unless an object, a delta or the
  distance to a base is beyond the decoder's limits, and a decoding fails otherwise
  only on a broken connection or an error that the remote reports; the pack has what
  is needed, once, nothing that the wants do not reach and nothing the server can see
  the client has.

### Disagreements with the documentation

Two runs show them, and quote the promise in `PROJECT.json`: a pull reverts an
accepted push (`manager.go` 541 against `git/fetch.go` 63–65), and a graceful
shutdown ends with the first thing it does (`cmd/pgit/main.go` 179 against 144).

The others are known from modelling; the properties name them as exceptions:

* `relay_manager.go` 374: on a full queue the Dropped callback and `enqueue` both
  reset `queued`. A task queued in between loses its mark, two forward tasks of
  one repository run, and the slower one can move the upstream back to the older
  value it has read; `relay_base.go` 14 says a forward is always a fast forward.
* `git/refs.go` 249 says the deferred Remove has no effect after the rename; it
  can unlink the lock file of the next update, after which two updates that expect
  the same value can both answer ok.
* `task_queue.go` 134: a `Submit` between its two steps can send after Stop's
  drain; 205 promises that what has not started is dropped. A mirror's sync that
  does keeps its slot for ever.
* `relay_manager.go` 421: any error of reading a pending ref counts as the ref being
  gone. A relay that forwards deletions deletes a live ref of the upstream, another
  one drops the ref from pending.
* `git/refs.go` 245: a crash inside an update leaves the lock, and every later update
  of the ref answers "lock". Only a mirror's fetch removes it, since `List` (118)
  takes it for a ref; a relay or a plain repository has nothing that does.
* `relay_manager.go` 526 clears the pending mark of a ref pushed again meanwhile;
  `docs/relay-design.md` 18 states that a ref which is ahead is pending.
* `relay_manager.go` 328: a push that enqueues between the task's last look and
  the reset of `running` wakes nobody, although 320 says the task will see it.
* `git/push.go` 142 takes the old value from a new advertisement, so that a
  forward overwrites another writer; `docs/relay-design.md` 98 expects an `ng`.
* `git/fetch.go` 600: a stream that ends cleanly inside the pack, as when
  `server/http.go` 1055–1063 gives up after the status was sent, is reported as
  "up to date". Refs do not move. The text of a remote's error can have the words
  that `isUpToDate` looks for, too.
* `git/fetch.go` 340: a sync that finds every advertised value, or every object,
  already here does not mirror deletions, rollbacks and new names.
* `git/fetch.go` 551: a crash between the refs and HEAD leaves a HEAD that a sync
  which calls itself up to date does not repair. An update that failed (546) is only
  logged, and HEAD may be set to the branch that was not created.
* `git/fetch.go` 307: an error of `List` is ignored; the sync then tries to create
  every ref, and those that exist are not updated.
* `archive.go` 290, 397: a bundle removed by a concurrent prune between its rename
  and its sidecar is listed without a file, and so is one whose sidecar is written
  between the two removals of its archive. 97, 108: two snapshots in one
  millisecond with one reason can take the same id.
* `sync_manager.go` 99: a schedule registered after Stop's sweep keeps Stop
  waiting. 195: the double release.
* `config.go` 402–410: a reload rejected by a later check has already set the push
  limit and the logging; `CHANGELOG.md` 285 says a rejected file is not half
  applied. 428 compares the archive directory with the file's `gitRoot`, not with
  the one in use. 340: the built-in credentials are merged at the start and
  dropped by the first SIGHUP. `CHANGELOG.md` 283 lists `maxConcurrentPacks` as
  immediate; `server/http.go` 44 fixes it at the start.
* `server/mux.go` 79: a connection can enter the channel of a closed listener,
  where nobody serves or closes it. `server/ssh.go` 121: sessions are not counted,
  so that one whose client has left outlives Shutdown.

### Bounds

`Budget` bounds each kind of disturbance in `Relay` and `"any"` all of them
together; `MaxRounds` is `relayMaxRounds` (3 in the code, 1 where only safety is
checked, 2 for delivery); `MaxResizes` bounds `SetWorkers`. Three updates are
what the lock race needs (one to unlink, one to lose the lock, one to win it);
the theorems hold for any number. Three tasks on two places reach the full
queue, and three slots let a new worker start while a retired one still runs.
Two pushes share the base and overlap a round; three commits give a fast
forward, a rewind and a divergence; two disturbances are, for example, a lost
answer followed by a crash, or a full queue followed by a refused command.
`relay_delivery` has one push because with two the lost wakeup of
`relay_manager.go` 328 really leaves a ref waiting for the next push.

In `SyncManager` two repositories compete for one place and one worker, so the
queue is full while a task runs; the intervals 0, 1, 2 are manual, and two to
change between. `MaxFailures` and `MaxCrashes` of `Repositories` are two each: a
failure on top of what the first left. `MaxEvents` of `Mirror` is three (an
upstream change, a failing archive and a crash, for example), `MaxClock` two
ticks and `MaxStepBacks` one; `Keep` and `MaxBytes` of one make every snapshot
prune. One Delete by request runs at a time (`Request`), a crash catches one update
in the middle, and the lock of one of the two branches is followed (`LockOf`). In `Server` one place and one slot of the channel make two connections
wait for each other; `MaxEvents` bounds edits and connections together. `Delta`
has radix 2, windows of 2, inserts of 3 and chunks of 3 where the code has 128
and 256, 16, 127 and 2^24 - 1, so that six bits reach every split and every
long encoding; `ScanLimit` 2 and `HashMod` 3 make buckets collide and overflow;
`MaxTarget` 6, the length of the longest content, stands for 1 GiB.
`Transfer` has `MaxObject` 20, which one tag exceeds and one blob reaches, for 1 GiB,
`MaxHead` 5 for the ten bytes of a head, and `MaxDistance` 12 for 2^31 - 1. A delta
beyond the largest blob and another delta exceeds it; the packs of `{4, 6}` and
`{2, 3}` stay within it, so that there `NeverRefused` excuses nothing.
`Transfer` has `MaxFaults` 1 and `MaxAttempts` 2: a fault and the fetch that
follows it. Deadlock checking is off in every run: requests, tasks and budgets
end, so every model stops.

Symmetry is used in runs without liveness properties only: for updates, oids,
pushes, tasks, and the two commits of `relay_safety` that lie beside each other on
the first one (`Descends` does not tell them apart).

### Fairness

Weak fairness of goroutines that are already running: queue workers, a `Submit`
between its two steps, a `Stop` that has begun; a request after its ref has
moved, the forward task, an armed timer, the two resets of `queued`; a scheduler
between ticks, a request to the sync manager once it has begun, Shutdown, a
reload, the snapshot of a sync. The Go scheduler runs every runnable
goroutine, tasks bound their own time, and an armed `time.AfterFunc` fires.
Strong fairness in two places: a scheduler whose stop channel is closed, because
`select` chooses uniformly among ready cases and does not pass one over for ever
(`SyncManager`), and the first steps of a sync in `Mirror`, because syncs are
repeated and the network does not fail each of them. A restore is not fair: one
that is stuck changes nothing, and the mirror catches up beside it. Nobody has to push, resize,
stop or call the API, clients and SSH commands may take for ever, and faults
happen or not. `GraceEnds` is fair because the grace period is a timer.

## 4. Proofs

`RefStoreProofs` (for any set of updates and oids; assumption
`ConstantsDistinct`, that the model's markers differ) proves `TypeCorrect`,
`LockExcludes`, `ReadersNeverTorn`, `LocksReleased` and `UpdateIsAtomic`. The
invariant `IInv` adds to `LockOwned`: a lock file that exists belongs to an
update in flight or dead (`LockLive`); the branch after the compare fits the
request and the file about to be renamed is written (`BranchFits`); an update in
flight has no answer (`NoAnswerYet`); a file is not the ref before its creator
renamed it (`NotYetRef`); the ref's file is written (`RefWritten`); and what the
compare established still holds at the rename (`CompareHolds`). `LockOwned`
alone is not inductive: a rename needs `BranchFits` to move a written file, and
the refinement needs `CompareHolds`. Each conjunct has a lemma with a step per
action; `AtomicStep` maps each action to `Commit`, `Refuse`, `Abort` or a
stutter, and `UpdateIsAtomic` is the refinement theorem.

`TaskQueueProofs` (any tasks, workers, capacity; assumption `QueueAssumption`)
proves `TypeCorrect`, `SettledOnce`, `StopHolds` and `RetireIsPrompt`. The
strengthening ties each task to one place: not yet sent, once in the channel,
taken, or dropped (`QueueOnce`, `QueuedIsFresh`, `OpenIsFresh`). `StopIsFinal`
needs that a Stop under way has closed the queue (`StopHasClosed`), since
`SetWorkers` starts workers only in an open one; `OneTaskAfterRetire` that a
worker back at `top` after its last task leaves (`LateIsLast`).

`RepositoriesProofs` (any names, refs and folding, any metadata found on disk,
any number of failures and crashes; assumption `RepositoriesAssumption`: names
differ without regard to case, and what an earlier run has left is `Proper`, a
repository with its own name among its refs and no ref in two spellings) proves
`TypeCorrect`, `ResolvesExactly`, `RefsUnique`, `PromisesKept` and
`NothingHalfMade`, all safety properties of the run. `RefSpaceUnique` is not
inductive: it follows from `KeysExact`, the exactness of the folded index
(`KeysApart`). `IndexExact` and `KeysExact` need that metadata in memory is proper
(`MemProper`), else the removal of an alias would free a key that is still
claimed, and that a creation in progress is nobody's yet (`CreationApart`).
`ServedAsPromised` is about memory and says nothing of the disk, from which the
next start rebuilds memory: `PromiseKept` adds that the scan of an untouched
directory gives what was promised, and `MarksKnown` that a repository that is
served in spite of a mark has a failed deletion behind it. One lemma per action;
`ServeInv`, `ChangeInv` and `MarkInv` hold what creations, changes and marks have
in common.

`RelayProofs` (any refs, commits, pushes, tasks, rounds and number of
disturbances; assumption `RelayAssumption`: `Descends` is reflexive and
transitive) proves `TypeCorrect`, `LocalStaysAhead`, `OneTaskOnly`, `ForwardsOnly`
and `NeverDeletesUpstream`. `LocalAhead` needs to be said as `Behind` together with
what everybody who is under way knows: a value a task has read is behind the ref
now (`SpecsBehind`); while a ref does not exist here, the base and every
advertisement in a caller's hands have its upstream value (`SeenTrue`), which makes
the creation of a branch sound although the base is shared; and an admitted push
moves its ref forward (`PushForward`). `UpstreamForward` adds `SendsForward`, that
what a task is about to send is ahead of the upstream, and this one rests on
`OneBusy`, `OneTask` in a form without counting: a second task could have sent a
newer value meanwhile. TLC shows that it does when the queue may be full. `UpstreamKept`
needs `AsksValues` only: a task without deletions asks for no zero value.

`SyncManagerProofs` (any repositories, callers, workers and queue capacity;
assumption `SyncAssumption`: schedulers are no callers, and there are as many as
repositories at least) proves `TypeCorrect`, `SyncsOnce`, `SlotsHeld`, `NoneStray`
and `SchedulesFollow`, all safety properties of the run. `SlotExact` says who
gives a slot back, a place in the queue, a worker, or an actor between
`tryAcquire` and `Submit`, and that it is one of them at most until the slot is
`robbed`. `MapExact` ties the map of schedulers to the living ones in both
directions. `ScheduleFollows` is about moments without a request:
`ChangesApart` says what a request that is alone in changing a repository knows
at each of its steps (`ChangeExact`).

`ServerProofs` (any finite set of connections, any files, places and buffer;
assumptions `SettingsAssumption`, `ServerAssumption`) proves `TypeCorrect`,
`PlacesKept`, `LimitsKept` and `Drains`. `LimitExact` follows the push limit
through a reload, where it is that of the fresh file before that is in force;
`PackExact` counts the places; `ShutExact` bounds where a connection can be at
each stage of Shutdown, and `SessionExact` where its session can. That files which
pass the checks have no negative limits is an assumption on the files, as the
parser is not modelled. `TypeCorrect` says more than types there: no file gives a
push limit of 0 or a sync queue without a worker.

`MirrorProofs` (any refs, commits, writers and reasons, any `Keep` but 0, any byte
limit, any number of events and steps back of the clock; assumptions
`ArchiveAssumption`, `MirrorAssumption`) proves `TypeCorrect`, `RefsStayComplete`,
`ListedKept`, `HeadKept`, `SurvivesAlone` and `ArchivesFirst`, all safety properties
of the run. `Ancestry` is recursive over the commits and is never unfolded: the
proofs hold for any relation between commits and objects, so that nothing is
assumed of the graph. Steps are grouped: a step changes either the mirror or the
archive, except `ArchiveFirst` and `Crash` (`Steps`). The invariant has

* `ObjectsExact`: the values that somebody is about to write are complete too (the
  listed refs while a fetch downloads, the advertised ones while it updates, the
  bundle's during a restore), a value that a crash leaves in a lock among them
  (`TornRefs`);
* `Tidy`: a writer's id has its own reason, and outside the places where it prunes
  its list `doomed` and its half-removed id `bare` are empty;
* `ListExact`: `ListedHasBundle`; a writer about to write its sidecar has its bundle or
  is known to have lost it; and no remover between its two calls holds an id that is
  listed and not `orphaned`;
* `HeadExact`: when no fetch updates and no restore runs, HEAD resolves and no ref is
  an empty lock, for which the update is followed ref by ref: a listed ref, or one
  that an update without a failure has written, is there (`Present`), and an empty
  lock that is not listed or already swept is gone (`Swept`). Only the update of a
  fetch takes refs away, and one that succeeds ends with a HEAD that resolves;
* `SinceListed` and `SnapshotExact`: what the fetch is going to destroy (`Dying`) has
  not changed since it was listed, and every file with the id of its snapshot has
  the listed values once it is whole, whoever wrote it: two writers with the same id
  in the same millisecond mix their files, and both still serve;
* `AgesGrow` and `AloneExact`: a writer that is alone has the youngest id and, once
  written, the youngest file, so that neither limit reaches it.

`FreshIdFresh` shows that the search for a free id ends: among one more ids than
there are bundles, one is free.

`TransferProofs` (any objects and links, cycles and unknown names included, any
refs, haves, losses and damages; assumption `TransferAssumption`: finitely many
objects, whose links are sequences of numbers) proves `SendsExactly`. The
invariant `SendInv` follows the two walks: while the haves are walked, what is
excluded or waits has every ref of the client that the server has and all that
the readable excluded objects name, and lies in the closure of the client's
refs; while the wants are walked, what is chosen, excluded or waits has every
want and all that the chosen objects name. When nothing waits, the excluded
objects are closed under the links that can be read, and chosen and excluded
objects together under all links, so that the least such sets are inside them.
`Reachable` shows that `Reach`, a recursive function that grows a set until it
stays the same, is that least set: a wrong value has a wrong value above it, and
a finite graph has no endless chain. `Kept` shows what `RefsOf` filters;
`Recursion` and `Counting` say, for functions and sets, what the library's
induction theorems say for operators.

The rest of `TransferProofs` is about the pack. `VarintRoundTrip`, `OfsRoundTrip`
and `EntryHeadRoundTrip` show that what `Codec` reads is what it wrote, for every
natural number and every radix, that nothing is read from a part of it, and that it
is refused exactly when it is beyond the limit (`LimitAssumption`: a size that is
accepted fits into the longest head that is). With them an entry is read as it was written, and one
that is cut short is not read (`Laid` says where the entries of a pack lie). The
invariant `WireInv` of `Delivers` has

* `Phases`: which stage of the server goes with which of the client, and that the
  response ends badly only after a fault (TLC agrees);
* `Packing`: a pack is cut into the entries of the objects written so far, what was
  chosen and not yet written waits, and the base of a delta lies where the writer
  takes it to be;
* `Delivery`: what arrives is such a pack or a part of it, it has its checksum only
  when all objects are in it, and the reader stands at the start of an entry, knows
  the bases it has read by their places, and has stored every object it has read.

`Packing` and `Delivery` name their objects and places by existence, which TLC cannot
enumerate. From them follow `StaysComplete`, `StaysGenuine` and `IsNeverRefused`:
an entry that is refused is `Beyond` a limit, and then an object of the closure of
the wants, a delta or the pack is too large (`TooLarge`; the length of the pack stands
for the longest distance in it).
They rest on `SendInv`: that the pack has all that the client lacks is what the walk
achieves, and that a delta's base is at hand what the order of writing does. Besides
finiteness, `TransferAssumption` says that the server has what its own objects link
to, unless it was lost, that types are the four of git, and that sizes are numbers.

The last part is about deltas, for any contents, hash, window and limit of a scan.
`DeltaAssumption` says what the encoding needs: an insert is of 127 bytes at most,
as a longer one would read as a copy, and no content is longer than `MaxTarget`,
which four bytes of offset can address. The code's 1 GiB is the limit of
`ApplyDelta` and of the decoder through which objects come
(`pack_decode.go` 162); of longer contents nothing is claimed. `Yields(b, d, t)` says
that from wherever d stands in the instructions of a delta, turns that read d and
no more add t. It holds for one copy (`YieldsCopy`: the bits of the first byte name
the bytes of `LowBytes`, from which the offset and the size are summed up again; no
chunk is of size 0, which would be read as 2^16), for one insert, and for what is
put together from such pieces (`YieldsBoth`, `YieldsFlat`), hence for split copies and
inserts. The invariant `EncodeInv` says that what was emitted yields the part of
target that was read, up to the waiting bytes, that these are the rest of it,
and that the index holds positions in base at which a window fits, dropped buckets
or not. That hashes are right is not needed: a match is compared byte by byte. `ApplyYields` adds the head by `VarintRoundTrip`, and
`DeltaRestores` follows. `Yields` quantifies over all deltas, which TLC cannot
enumerate; the run checks `Restores` itself.

Only model-checked remain the liveness properties (`Delivered`, `CatchesUp`,
`AcceptedIsSettled`, `SlotComesBack`, `StopReturns`, `ShutdownReturns`, `Settles`), as
fairness is out of the prover's reach.

## 5. Files and commands

    tlc -workers 2 -config MCRelay.cfg MCRelay
    tlapm MirrorProofs.tla

The runs of one specification share its MC module and differ in the `.cfg`.
`mirror` takes three minutes on two cores,
`sync_manager` and `transfer` two, `relay_safety` one, every other run less
than one. The proofs of `TransferProofs` take about a
quarter of an hour from nothing.

## 6. Plan

In order of importance:

1. `Relay` with `Unregister` and `Stop`, and `List` during an update in
   `RefStore`.
2. An abstract archive that `Archive` implements: a set of snapshots, each made,
   listed and removed in one step.
3. pkt-line framing, and several commands in one push.

## 7. Correspondence

`PROJECT.json` maps every modelled definition to its lines. Definitions of code
outside the repository (the upstream's receive-pack and upload-pack, other
writers, net/http) are marked external there.

## 8. Not modelled

* Parsing of commits, trees and tags, pkt-line framing, the loose file format:
  the links between objects are given, and an object is present, lost or damaged.
* Negotiation rounds, the want check and several commands of one push: the client
  of this program sends all haves at once, and commands are independent
  compare-and-swaps.
* GitHub import and the task manager: remote API calls and housekeeping whose
  effects are the creations and registrations modelled already.
* Web UI, documentation pages, browsing, metrics, logs: no state that a decision of
  the modelled parts reads.
* `RelayManager.Stop` and `Unregister`: `TaskQueue` covers the queue's stop and
  `Crash` what a stop leaves on disk. A repository deleted and created again while
  its task runs can get a second task (`relay_manager.go` 281).
* `AlignToUpstream`'s report for a ref the repository lacks (`relay_manager.go`
  719): its steps are modelled, no property is about its answer.
* `RefStore.List` during an update, which can list the lock of an update under way;
  `Mirror` has the lock that a crash leaves.
* The sidecar's own temporary file, and the lock of HEAD: what they do is that
  writing the sidecar or HEAD fails.
* Authentication and the SSH protocol: they decide whether a session begins.
