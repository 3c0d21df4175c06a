# BaiduDiskLink: a TLA+ verification project

BaiduDiskLink mounts a Baidu netdisk through FUSE and serves its files for
playback.  It is a Go program of some 6700 lines without its tests.  This
directory models the parts of it in which goroutines meet: the streaming
scheduler, its two-tier chunk cache, the shared range reader, the directory
metadata, and the life of the process with its tokens.  TLC checks the models
on small instances.  TLAPS proves, for all values of the constants, every safety
property of the passing runs (one of them, about inflight counts, under a
condition, and one for the default configuration) and that the scheduler implements an
abstract specification of "one download per chunk".

`PROJECT.json` holds the machine-readable side: which definition models which
lines (`map`), the runs, a mutant for each property, the findings, the hazards
and the theorems.

## The system and its parts

| Part | State | Operations | Talks to |
|---|---|---|---|
| stream scheduler `internal/stream/manager.go` | sessions by file version, handles, map and heap of tasks, disk-write queue | Open, ReadAt, Release, workers, hedged requests, idle reclaim, Close | FUSE handles call it; it calls the chunk store and `remote.Reader.ReadStreamRange` |
| chunk store `internal/stream/store.go` | memory LRU, disk index, files | get, peek, putMemory, putDisk, forget, trim, prune, load | the scheduler's readers, workers and its disk writer |
| remote reader `internal/remote/remote.go` | window cache with its LRU list, downloads under way | ReadRange, ReadExactRange, ReadCachedWindow, ClearReadCache | playback, FUSE reads without a stream, the scheduler; calls the API client |
| playback `internal/app/playback.go` | none of its own | parse a Range header, answer it in pieces | remote reader |
| FUSE filesystem `internal/fs/filesystem.go` | inodes, refresh token, file handles | Lookup, Readdir, Unlink, Rmdir, Open, Read, Release, refreshes | metadata store, negative cache, remote reader, scheduler |
| metadata store `internal/store/store.go` | SQLite table `entries` | ListChildren, ReplaceChildren, UpsertEntry, DeletePath, ExpirePath, EnsureRoot | filesystem, application |
| negative cache `internal/cache/negative.go` | missing paths with their times | MarkMissing, IsMissing | filesystem |
| API client `internal/baidu` | access and refresh token, download links | List, Delete, GetDownloadLink, ReadRange, RefreshAuth | the netdisk |
| OAuth `internal/auth` | callback server, token file | start, callback, wait, exchange, save, load | application, API client |
| application `internal/app/app.go` | life cycle, mounted server, refresh loop | New, Run, mountAndWait, unmountServer, Close | everything |
| configuration, benchmarks, command line, logging | none that changes | | |

What is hard in it:

- **Interleaving.** FUSE runs a goroutine per request.  Readers of one file
  share a session and its tasks; eight workers and the hedged requests finish
  tasks in any order; seeks cancel the older ones.
- **Races between two answers.** A hedged request and the worker's own may both
  bring the chunk.
- **Waking and waiting.** Workers sleep on a condition variable that is
  signalled once per task; readers wait for a task's channel, for another
  caller's download, or for their context.
- **Locks given up in the middle.** The chunk store reads and removes files
  outside its locks; a lookup reads the children and the directory's freshness
  in two queries; a refresh lists the netdisk between them.
- **Crash and failure.** Chunk files, SQLite rows, the token file and a stale
  mount outlive the process; reads, writes, removals and calls of the netdisk
  fail one at a time.
- **Secrets that rotate.** The service replaces the refresh token with each use;
  what is in memory, in the file and accepted by the service may come apart.
- **Ending.** Signals, an unmount by the user, downloads under way and the
  refresh loop meet in the shutdown.
- **Limits.** The memory, disk and window budgets, the per-session worker limit
  and the bounded disk-write queue.

The correctness properties per part are listed with the runs below, and each
hazard in `PROJECT.json` names the properties that would catch it.

## Modules

| Module | Models |
|---|---|
| `SingleFlight` | what the scheduler promises: at most one live download of a chunk, settled once |
| `StreamScheduler` | `manager.go`: handles, sessions, epochs, tasks, workers, hedging, disk queue, Close |
| `MCScheduler` | instances of it: files, handles, and which chunks a read plans ahead |
| `StreamSchedulerProofs` | type correctness, the task registry, refinement of `SingleFlight` |
| `StreamSchedulerWorkProofs` | who holds a task, who has to be cancelled, who may still send |
| `StreamSchedulerSessionProofs` | references, active handles and inflight counts of sessions, their clean-up, what readers wait for |
| `Lists` | lists in the order of use with a byte budget, for the next two modules |
| `ListProofs` | facts about them |
| `ChunkStore`, `MCChunkStore` | `internal/stream/store.go` with files, crashes and restarts |
| `ChunkStoreProofs` | accounts, budgets and files of the store |
| `RemoteReader`, `MCRemoteReader` | `internal/remote/remote.go` and the playback loop |
| `RemoteReaderProofs` | the window cache, shared downloads, whole answers |
| `Metadata`, `MCMetadata` | `internal/store`, `internal/cache`, the directory half of `internal/fs`, the refresh loop of `internal/app` |
| `MetadataProofs` | rows that stay, directories that are fresh |
| `Credentials` | tokens and links of `internal/baidu/client.go`, the token file of `internal/auth`, and the attempts of a download that use and renew them |
| `AppLifecycle`, `MCApp` | `internal/app/app.go` and the callback server of `internal/auth`, over `Credentials` |
| `AppLifecycleProofs` | types, tokens and shutdown |

### StreamScheduler

State: `session` (the record of `session` by file, without statistics),
`hstate` (handles), `tasks` (the task map), the fields of tasks by task number
(`tkey`, `tprio`, `tepoch`, `started`, `cancelled`, `foreground`, `result`,
`hedge`, `hcancelled`), `queue` (the heap), `cached` (the chunks the store
answers for), `diskq` (the channel), and the control state of readers (`rpc`,
`read`), workers (`wpc`, `wtask`) and Close (`cpc`).

A step is one critical section of `m.mu`, one call of the store, or one end of a
request.  `PrepareRead` is `prepareRead` with its seek detection, takeover of the
active handle and cancellation of old tasks; `ScheduleBuffer`, `PeekBackground`
and `EnsureBackground` are the plan-ahead; `PeekChunk`, `EnsureForeground`,
`MarkForeground`, `TaskDone` and `Interrupt` are `waitChunk`; `NextTask` and
`AwaitTask` are the two outcomes of `nextTask`, heap scan and discard included;
`DownloadOk`, `DownloadFail`, `FinishTask` and `WorkerSend` are `download` and
`finishTask`; `StartHedge`, `HedgeOk`, `HedgeFail`, `PublishHedge` and
`HedgeSend` the hedged request; `Close`, `CloseChannel`, `CloseReturns` are
`Close`.

Abstracted: bytes and offsets to chunks; whether a read counts as a seek to a
choice of the observation; the plan-ahead window to a constant (`Plans`), which
chunks at which priority a read at a chunk asks for.  The store is the set of
chunks it has, which may shrink by eviction.  The cache starts cold.

### ChunkStore

State: the memory list and map, the disk index with its LRU order and byte
count, the files and temporary files on disk, and the control state of readers
and of the one disk writer.  The steps follow the locks: `MissMemory`,
`LookIndex`, `ReadFile`, `FillMemory` are a `get`; `ForgetIndex` and `ForgetFile`
are `forgetDisk`, which removes the file after unlocking; `WriteTemp`, `Rename`,
`Publish` are `putDisk`.  `Crash` leaves the files, `Start` is `newChunkStore`.
The length of a file stands for its contents.  `unremoved` is a history variable:
a removal of a chunk file failed since the last start.

### RemoteReader

State: cached windows, their order and byte count, downloads under way and
their waiters, and the callers with their concurrent slots.  A caller is a
playback request: `ParseHTTPRange` turns its Range header into a range, which
`StartRequest` refuses or serves piece by piece.  `Wanted` says independently
what a header asks for, and `AnswersWhole` compares the bytes of the answer with
it.  Options and client are set before reading begins, as the application does.

### Metadata

State: the netdisk (`remote`, external), the rows of `entries`, the negative
cache, the directories with inodes, and what each goroutine is doing.  Each SQL
statement or transaction and each call of the netdisk is a step, the two queries
of `ListChildren` are one.  A refresh is `List`, `Replace`, `ReadParent`,
`Upsert`.  `Begin`, `Check` and `Again` are Lookup and Readdir, `BeginDelete`,
`DeleteRemote` and `DeletePath` Unlink and Rmdir.  `Start`, `Mount`, `Known`,
`Walk`, `Tick` and `Ticked` are the application: preload, `OnAdd` with
`RefreshAll`, and the loop of every minute.  FSIDs are paths with the number of
the change that created them.  SQLite does not fail, the order of `RefreshAll`
is left open, and expiry is a step that may happen at any time.  What
the netdisk removes with a path, `Below`, is the least set that has the path and
the entries of each directory in it.

Two ways of the code to lose an entry that is still on the netdisk are in the
model.  `DeletePath` deletes what is `like p/%`, without `ESCAPE`: `_` and `%` in
a name are wildcards and letters match in either case, so `Matched` is what is
below the path and below every path it is a pattern of; `Alike` says which these
are.  `List` takes error code 109 for success, with the entries it got before, and
reads its pages without a snapshot: `ListShort` is a listing that left some
entries out and counts as complete.  The history variable `lost` has the stable
entries that one of the two has taken.  `KnownStays` and `FreshLoaded` except
these and no others; `RootConverges` does not need to.

### Credentials and AppLifecycle

A token is the number of the grant that issued it, a link the token it was
resolved with.  The authorization service is outside the repository: `accepted`
are the access tokens it takes, `renewable` the refresh tokens it renews, and a
renewal may replace the refresh token.  The client's state is `access`,
`refresh`, `links` and `mu` (only while `RefreshAuth` holds it across its call;
shorter sections are one step).  `file` is the token file, replaced by a rename.
A download goes through `LinkHit` or `LinkMiss`, `Metas`, `Resolve` and
`Fetched`; `Refused`, `CallFails` and `Aborted` are its failures, whose message
decides in `ClassifyDownloadError` whether `RefreshAuth` (`Lock`, `Renewed`,
`RenewRefused`, `AnswerLost`, `SaveOk`, `SaveError`) comes before the next
attempt.  A worker makes two attempts, a hedged request one; a context may end
at any time.

`main` is where `Run` stands: `Bind`, `HealthCheck`, `Listen`, `Await`,
`Exchange`, `SaveToken`, `Rebind` are `run`; `Preload`, `Mount`, `Unserve` are
`mountAndWait`, with `WatcherWakes` and `Unmount` the goroutine that waits for
the signal; `Close`, `Drain`, `CloseStore` and `Exit` are `Close`.  `Crash` ends
the process anywhere and leaves its mount stale, which has to be unmounted
before `New` succeeds again.  `missed` and `unreachable` are history variables:
a failure kept the newest grant out of the file; the authorization was asked for
want of a connection.  `hung` is an exchange of the code that never returns: it
uses `http.DefaultClient`, without a timeout.

A `List` call is one step.  Refresh tokens do not expire by themselves, and the
user does not revoke them.  Callbacks with a wrong state change nothing and are
no steps.

## Runs

| Run | Instance | Shows |
|---|---|---|
| `sched_sessions` | two files, two workers under a limit of one per session; spans of chunks, background plans, release | the task map holds exactly the live tasks, a heap scan neither loses a task nor hands it out twice, every wait is for the chunk needed next, inflight counts are exact |
| `sched_disturbed` | two handles of one file, four reads and a background task; seeks, takeovers, interrupts, eviction, idle reclaim, RELEASE under reads | active handle and references are exact, no leaked inflight count, a queued foreground task survives every change of epoch |
| `sched_hedge` | two readers, a worker whose connection may hang, hedged requests; failures, interrupts, release, Close | one settlement, loser cancelled, `SingleFlight` implemented, sessions reclaimed but for `publishHedge`, waiting reads answered, nobody sends on the closed channel, Close returns |
| `store_races` | one reader and the writer, three chunks, the last one short; failing writes, reads, removals, crashes | counts exact, budget kept, no lost file, no partial chunk |
| `store_forgotten` (violation) | the same without failures | `forgetDisk` removes a newly written file |
| `remote_shared` | two requests on shared windows and chunks; failures, departures, clearing | nobody stranded, no double download, whole answers, every request ends |
| `remote_uneven` (violation) | two requests that end apart | a short chunk is taken for a long one |
| `meta_refresh` | one handler and the application; a change, failure, short listing or crash, and deletes, one of them with a pattern of another directory | what stays is lost in the two ways above only, fresh means loaded, the root converges |
| `meta_missing` (violation) | two handlers, one failed listing | an existing file is marked missing |
| `app_life` | two downloads, two grants, a fault, two starts; crashes, signals, unmounts, expiring tokens | the token file keeps up, no replaced refresh token is sent, nobody is asked to authorize again while the newest access token works, shutdown is in order, a signal ends the process |
| `auth_unrefreshed` (violation) | one download, no fault | a token refused at the look-up of a link is not renewed |
| `auth_expired` (violation) | one start, no fault | with an expired access token and a working refresh token the user is asked to authorize again |

**Bounds.** `MaxTasks`, `MaxReads`, `MaxEpoch` cap the scheduler's counters: two
tasks of a chunk are a task and its replacement, or the tasks of two chunks; one
epoch is a seek or a takeover. Four reads are two of each of two handles, which
lets both stream, or one take the stream over from the other after a read of its
own was interrupted and has left its task behind; three read, start a stream
with a background task, join it and seek. `sched_sessions` has no hedging and
`sched_disturbed` neither hedging nor failures; `sched_hedge`, which has both,
keeps to one chunk, one worker and no background tasks. The chunk store has
three chunks in a memory of two and a disk of three units, so that both tiers
evict. The remote reader's file has five bytes in pieces of four and chunks of
two: a full piece and a short last one. The metadata tree of `meta_refresh` has a directory with a
directory in it, which stay, and another one beside it, which comes and goes and
whose path is a pattern of the first; that of `meta_missing` has a file; `MaxChanges` is the number of disturbances. `store_races`
has one reader and `meta_refresh` one handler beside the writer and the
application: two of each exceed what a run can hold, and the violation runs use
two where the race needs them. In `app_life`, two downloads meet an expired
token together, `MaxGrants` allows the first authorization and one renewal or a
second authorization, `MaxFaults` one failure, and `MaxStarts` a restart; the
proofs have no such bounds. Symmetry (the workers, and the two files each with
its handle) is used only in `sched_sessions`, which has no liveness property.

**Deadlock** is not checked in the scheduler's, the reader's and the
application's runs: reads, requests and starts are bounded, so the system comes
to rest.

**Fairness.** Weak fairness for each goroutine that can go on: a reader, a
worker, a hedged request, the disk writer and Close each run when they are not
blocked; no fairness for opening, reading, releasing, interrupts or failures,
which are the environment's.  Downloads end because the code gives every request
a timeout (`downloadRangeTimeout`, `downloadClientTimeout`).  In the scheduler's
`FairSpec` this holds for hedged requests, and for a worker's request only once
its context is cancelled; the hedge timers fire.  `ReadAnswered` adds that the
requests of the workers end, too (`WorkersFair`), and then every waiting read is
answered.  `HangSurvived` does not: a read is answered by the hedged request,
unless that one has failed.  `CloseEnds` needs neither, for Close cancels every
context.  In `Metadata` the application's weak fairness
includes the ticker and that somebody starts the process again after a crash
(the container's restart policy); changes of the netdisk are finitely many.
In `AppLifecycle` the main goroutine, the one that unmounts, and each download
are weakly fair: the HTTP clients of the API have timeouts, and the one call
without a timeout is allowed to hang.  Callbacks, signals, unmounts, expiry,
crashes and faults are the environment's.

Each property has a mutant, a definition changed the way a plausible bug would
change the code (a dropped guard, a missing decrement, a wrong order), with
which TLC finds the property violated under the same configuration.

## Findings

1. `store_forgotten`: `forgetDisk` deletes the file outside the lock and may
   delete the file of a concurrent write, whose index entry stays.
2. `remote_uneven`: chunks under way are shared by offset, and a caller that
   needs more bytes than the shared chunk has returns unread bytes as data.
   It takes a chunk size below the playback piece and more than one connection.
3. `meta_missing`: a lookup in an unloaded directory that overlaps another
   one's refresh answers ENOENT for an existing file, and remembers it for
   thirty seconds.
4. `auth_unrefreshed`: the tokens are renewed only when the text of the error
   has the status 401 or 403.  The range request puts it there; the look-up of
   the link and its HEAD request report the body alone.  With an expired token
   and no cached link, reads fail and nothing renews the token.
5. `auth_expired`: the documentation says that the access token is renewed
   automatically and that a login does not expire while its refresh token is
   valid.  At the start, `run` tries the stored access token once and asks for a
   new authorization when it is refused; nothing renews it there.  A token that
   expires while the process is down costs a new authorization.

Seen while modelling, without a document to hold against it: a background task
that has started and that a foreground read has joined keeps its priority and is
cancelled by a seek; a failed unmount is not tried again; the exchange of the
code has no timeout; a delete takes rows below paths that its own matches as a
pattern; a listing that ends with error code 109 is stored as complete;
`publishHedge` may leave a session in the map.  They are among the hazards in `PROJECT.json`.

## Proofs

The theorems hold for every value of the constants that satisfies the modules'
`ASSUME`s: sets of files, handles, readers and workers, natural bounds and
limits.  Handles and workers of the scheduler and callers of the reader are
finite sets, as those of a running process are; their numbers are counted.
`None`, `NoFile` and `"free"`, which stand for nil and for nobody, are
assumed to differ from what they stand beside.  The bounds are constants too, so
the theorems hold for any number of tasks, reads, epochs, grants, faults, changes
and starts.

**StreamScheduler.**

`TypeInv` strengthens `TypeOK` by what the steps need to keep types: the
pieces of a read that is under way, and that only issued tasks are in use.
There is one lemma per group of actions and one per helper (`EnsureTask`,
`Discard`, `ContinueNeed`...).  From it:

- `EveryTaskStep` reduces every action to what it does to tasks: it issues one,
  finishes one, starts, cancels or drops some.  `Registry`, the conjunction of
  `RegisteredPending` and `LiveRegistered`, is inductive over that, which gives `RegisteredTasksPending` and
  `LiveTasksRegistered`; `ResultsKept` (an action property) and
  `RefinesSingleFlight` follow from the same lemma.  Neither registry invariant
  is inductive alone: that a new task has no live rival needs that a live task
  is always registered, and that needs that finished ones are not.
- `WorkInv` says where a task is: unstarted and pending in the heap, started
  and pending with exactly one worker, and a worker holds only what was started
  (`HeldStarted`, without which a second worker could take it).  It gives `UnstartedTasksQueued` and
  `StartedTasksHeld`.
- `LosersCancelled` uses `WorkInv` (a settled task's only other request is that
  of its worker, or its hedge), and `NobodySendsOnClosed` follows the phases of
  Close.

`StreamSchedulerSessionProofs` is about the counters of a session.  A session
may be absent, and then counts as one with zeros (`RefsOf`, `InflightOf`,
`ActiveOf`).  `CleanedAlike` says that the clean-up drops nothing that these
see; lemmas about the other helpers (`EnsureTask`, `Discard`, the heap scan)
say the same, and `RestStep` collects the actions that open, release, take and
finish nothing.  What is left to prove are the few that do.

- `ReferencesExact` and `ActiveHandlesOpen`: references count the open handles
  of the file, and the active handle is one of them.
- `InflightNeverLeaks` is inductive with `WorkInv`: a worker's task is in no
  other worker's hands, so each end takes one from both sides.  A session that
  is dropped under its workers and made anew starts at zero, which is why only
  the one direction holds in general.
- `InflightIsExact` assumes `ReleaseLast`: no RELEASE overlaps a read of its
  handle.  Two invariants then close the other direction: a read under way has
  an open handle (`ReadsOpen`), and a registered task has a session
  (`TasksHaveSession`), so no session is dropped while a worker may take or
  holds a task of it.
- `SessionsReclaimed` is an action property, with or without hedging: a step
  that leaves a session without handle, worker and task also drops it, or is
  `publishHedge`, which finishes a task and removes it from the map without the
  clean-up (the hazard at `manager.go:1030`); the session then remains until its
  file is opened and released again.  The proof goes over the steps that give up
  a reference, a count or a registered task, and shows that each cleans up
  after it.
- `ForegroundTasksKept` and `ReadersWaitForTheirChunk` are relations of a task's
  flags, priority and key, and of a reader's next piece, kept by every action.

**Lists.** `Total` (bytes of a list), `Without` and `Excess` (how many entries a
trim loop removes) are recursive functions and a `CHOOSE`.  They replace the
folds and `SelectSeq`, about which nothing could be proved here.  The library's
induction theorems have an operator parameter, so `ListProofs` derives
induction over a *set* from the well-foundedness of the naturals (`Induction`,
`ListInduction`), and the existence of recursive functions from that
(`Recursion`).  On these rest what the components use: bytes add up over
concatenation, removal and cuts (`TotalConcat`, `TotalRemoved`, `TotalCut`),
`Without` removes exactly what it should and keeps the order (`WithoutElems`,
`WithoutEmbeds`), and with an exact counter the trim loop ends within its limit
(`TrimFits`).

**ChunkStore.** `StoreInv` is inductive (`StoreInvariant`) and gives the six
theorems.  Beyond the invariants of the run it says that the directory has one
file per chunk and only whole ones (`DirInv`), that the writer's file is whole
once it is renamed (`WriterInv`), and that a reader fills memory with whole
chunks only (`ReadersInv`).  Without these a restart could index a partial file
or one chunk twice, and the counts would be wrong only after it.  The budget
and the orphan invariant are about one life of the process: until a removal
fails.

**RemoteReader.** `ReaderInv` is inductive (`ReaderInvariant`): the cache
(`CacheInv`), ranges within the file (`CallsInv`), slots that fit their caller's
way of reading (`SlotsInv`), and `FlightInv`, by which the map of downloads is
exactly the set of shared downloads under way, in both directions.
`InflightOwned` alone is not inductive: whether an end removes somebody else's
registration depends on the other direction.
`UnchunkedAnswersAreWhole` assumes `Unchunked`: one worker, or pieces no longer
than a chunk (the default: pieces of 4 MiB, chunks of 8 MiB).  `WholeInv`
follows a caller through cached windows, shared downloads and the exact read
of a rest, and says that its buffer is what comes before the slot's offset.
With chunks the property is false in general (`remote_uneven`); the run
`remote_shared` checks it on an instance in which requests end together.

**Metadata.** `MetaInv` is inductive (`MetadataInvariant`).  `Stable` entries,
those that stay, have their first FSID at the netdisk, in the rows and in every
listing or inode a goroutine holds (`Genuine`, `Stored`), and `JobOK` follows a
refresh: the listing it is about to store has every stable entry of its
directory that is not `lost`, and from then until it makes the directory fresh
they have rows.
That is what `FreshLoaded` lacks to be inductive, and what a refresh with an old
listing needs to lose nothing.  `KnownEntriesStay` is an action property: each
step's lemma also says that the table loses no stable row but those it adds to
`lost` (`Stays`).  `StableNotBelow` uses that `Stable` is closed under parents, so
that no deletion of another entry reaches it but by the pattern.  The exception
cannot end with the next listing of the directory: a directory whose row was
missing when a refresh looked for its parent is put under the root, and the
root's next refresh deletes it once more.

**AppLifecycle.** `Inv`, the conjunction of `TypeInv`, `TokenInv` and `ShutInv`,
is inductive (`Invariance`) and gives one theorem per invariant of `app_life`.
None of these is inductive alone.  That a replaced refresh token is not sent
needs that whoever sends holds the lock (`LockHeld`), that it sends the client's
own (`RenewsOwn`), and that this one still works (`ClientRenewable`), which
after a restart rests on what the file holds: `FileRenewable` and `FileNewest`
say that a file from the newest grant has a working refresh token and that,
unless a save is under way or was missed, it is from the newest grant.
`OthersIdle` keeps downloads out of the phases in which `run` changes the
client, and `AskedFor` follows the cause of an authorization from the health
check to the wait.  Assumptions: `"free"` is no reader, `NoFile` no token pair.

Only model-checked: every liveness property (`ReadAnswered`, `HangSurvived`,
`CloseEnds`, `RequestEnds`, `RootConverges`, `SignalEnds`), which is out of the prover's reach;
and `AnswersWhole` with chunks, on an instance.  Nothing is claimed of
`InflightExact` when a RELEASE comes under a read; `sched_sessions`, which checks
it, has none.  That `finishTask`'s Broadcast wakes the workers that the session
limit has held back is not checked: the run of `ReadAnswered` has one worker.
Ranges of a request that end far behind the file are covered by
`UnchunkedAnswersAreWhole` only, not by the headers `remote_shared` chooses from.

## Not modelled

Configuration, benchmarks, command line and logging keep no state that changes.
Attributes, modes and read diagnostics of the filesystem, the summaries of the
scheduler and HTTP response headers are left out.  `Prefetch` of the remote
reader and three methods of the metadata store have no caller outside tests.
The pages of a listing are one step.  The window arithmetic of the scheduler
(`scheduleBuffer`, `observeHandleLocked`) is a constant of the model.  The last
refresh of the refresh loop may overlap `Close`; only that it was told to stop is
modelled.

## Plan

Done: `StreamScheduler` with `SingleFlight`, `ChunkStore`, `RemoteReader` with
the playback range parser, `Metadata`, `Credentials` and `AppLifecycle`, and the
proofs of their invariants.  Next:

1. Proofs: `AnswersWhole` with chunks where all requests of a file end at the
   same byte; abstract specifications of the chunk store (a cache that answers
   with whole chunks or not at all) and of the window cache, and that the
   modules implement them.
2. The window arithmetic of `scheduleBuffer` and `observeHandleLocked`, as
   operators checked against reference definitions.
3. Two handlers in a nested directory: the states behind a hazard that has no
   property yet.  New runs replace or join the present ones, the number of which
   should not grow.
