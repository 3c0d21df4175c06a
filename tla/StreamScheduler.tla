--------------------------- MODULE StreamScheduler ---------------------------
(***************************************************************************)
(* The scheduler of the streaming engine (internal/stream/manager.go):     *)
(* FUSE reads register download tasks for chunks, background scheduling    *)
(* registers more of them ahead of the cursor, a pool of workers takes     *)
(* them by priority, a slow foreground task is raced by a hedged request,  *)
(* seeks and releases cancel the tasks of an old epoch, and Close winds    *)
(* everything down.                                                        *)
(*                                                                         *)
(* Every critical section under Manager.mu is one action; a goroutine that *)
(* leaves the lock between two sections has a program counter between      *)
(* them.  The bytes of a chunk, offsets and latencies are abstracted: a    *)
(* chunk is in the store or not (ChunkStore models the store itself), and  *)
(* how a handle classifies its reads and which chunks a schedule covers    *)
(* are chosen from all the classifications and plans the code can make.    *)
(***************************************************************************)
EXTENDS Integers, Sequences, FiniteSets

CONSTANTS Files,           \* file versions (FSID, size, mtime, chunk size)
          Handles,         \* stream handles, each opened at most once
          HandleFile,      \* the file a handle is opened on
          Readers,         \* goroutines serving FUSE read requests
          Workers,         \* download workers
          Chunks,          \* chunk indexes of a file
          MaxReadChunks,   \* bound: chunks one read covers
          Plans,           \* schedules: sets of <<chunk, background priority>>
          SessionWorkers,  \* cfg.SessionWorkers
          DiskCache,       \* is there a disk cache?
          DiskQueueCap,    \* capacity of the disk-write channel
          Hedge,           \* cfg.Hedge
          Events,          \* which of the environment's events happen
          MaxReads,        \* bound: reads ever started
          MaxTasks,        \* bound: tasks ever created
          MaxEpoch,        \* bound: epochs of a session
          None             \* no session, no handle, no key

Foreground == 0
Near == 1
Ahead == 2
Back == 3
Priority == Foreground..Back

Key == Files \X Chunks
TaskId == 1..MaxTasks
NoTask == 0

ASSUME SchedulerAssumption ==
  /\ IsFiniteSet(Handles)
  /\ IsFiniteSet(Workers)
  /\ HandleFile \in [Handles -> Files]
  /\ Chunks \subseteq Nat
  /\ Plans \subseteq SUBSET (Chunks \X {Near, Ahead, Back})
  /\ SessionWorkers \in Nat \ {0}
  /\ DiskCache \in BOOLEAN
  /\ DiskQueueCap \in Nat \ {0}
  /\ MaxReadChunks \in Nat \ {0}
  /\ MaxReads \in Nat
  /\ MaxTasks \in Nat
  /\ MaxEpoch \in Nat
  /\ Hedge \in BOOLEAN
  /\ Events \subseteq {"fail", "interrupt", "evict", "reclaim", "release",
                            "overlap", "close"}
  /\ None \notin Key
  /\ None \notin Handles

VARIABLES
  session,    \* m.sessions: file -> session, or None
  hstate,     \* handle -> "new", "released", or open and how far its reads
              \* have got: "fresh", "probe" or "stream" (handle.mode)
  tasks,      \* m.tasks: key -> registered task, or NoTask
  nseq,       \* m.sequence: tasks 1..nseq have been created
  tkey,       \* task.key
  tprio,      \* task.priority
  tepoch,     \* task.epoch
  queue,      \* m.queue: the tasks in the heap
  started,    \* task.started
  cancelled,  \* task.ctx.Err() # nil
  foreground, \* task.foreground
  result,     \* "pending" until task.finished, then whether task.err = nil
  hedge,      \* the hedged request of a task and its goroutine
  hcancelled, \* hedged requests whose context is cancelled
  cached,     \* keys the chunk store holds, in memory or on disk
  diskq,      \* m.diskWrites
  rpc, read,  \* reader goroutines: program counter and locals of readAt
  nreads,     \* the number of reads started, for the bound MaxReads
  wpc, wtask, \* worker goroutines: program counter and current task
  cpc         \* Close: "open", "closing", "draining" or "done"

sessVars == <<session, hstate>>
taskVars == <<tasks, nseq, tkey, tprio, tepoch, queue, started, cancelled,
              foreground, result>>
hedgeVars == <<hedge, hcancelled>>
storeVars == <<cached, diskq>>
readVars == <<rpc, read, nreads>>
workVars == <<wpc, wtask>>
vars == <<session, hstate, tasks, nseq, tkey, tprio, tepoch, queue, started,
          cancelled, foreground, result, hedge, hcancelled, cached, diskq,
          rpc, read, nreads, wpc, wtask, cpc>>

-----------------------------------------------------------------------------
(* Sessions, reads and tasks                                               *)

Session == [epoch : Nat, active : Handles \cup {None}, refs : Nat,
            inflight : Nat, slow : 0..2, window : BOOLEAN]

(* A session is never nil.                                                 *)
ASSUME NilAssumption == None \notin Session

(* sessionLocked's &session{}: everything zero; window stands for          *)
(* scheduleSet /\ scheduleEpoch = epoch.                                   *)
FreshSession == [epoch |-> 0, active |-> None, refs |-> 0, inflight |-> 0,
                 slow |-> 0, window |-> FALSE]

SessionOf(f) == IF session[f] = None THEN FreshSession ELSE session[f]

(* kind: "stream" schedules the buffer before and after the read, "probe"  *)
(* prefetches around a file edge, "plain" does neither.                    *)
Read == [handle : Handles, epoch : Nat, kind : {"stream", "probe", "plain"},
         need : SUBSET Chunks, plan : SUBSET (Chunks \X Priority),
         after : BOOLEAN, task : TaskId \cup {NoTask}]

ReadPcs == {"idle", "buffer", "background", "ensureBackground", "peek",
            "ensure", "mark", "wait"}
WorkerPcs == {"ready", "asleep", "try1", "try2", "finishOk", "finishErr",
              "send", "exit"}
HedgePcs == {"none", "run", "publish", "send", "done"}

Closed == cpc # "open"
IsOpen(h) == hstate[h] \in {"fresh", "probe", "stream"}
Issued == 1..nseq
Pending(t) == result[t] = "pending"
FileOf(t) == tkey[t][1]
ReadFile(r) == HandleFile[read[r].handle]
Holding(w) == wpc[w] \in {"try1", "try2", "finishOk", "finishErr"}

(* The ranges of chunks a read or a back-to-back pair of reads can need.   *)
Spans == {S \in SUBSET Chunks :
            /\ S # {}
            /\ Cardinality(S) <= MaxReadChunks
            /\ \A a, b \in S, c \in Chunks : a < c /\ c < b => c \in S}

(* A read walks its chunks in order, a schedule goes by priority first.    *)
FirstChunk(c, S) == c \in S /\ \A d \in S : c <= d

FirstPlanned(x, P) ==
  x \in P /\ \A y \in P : x[2] < y[2] \/ (x[2] = y[2] /\ x[1] <= y[1])

Init ==
  /\ session = [f \in Files |-> None]
  /\ hstate = [h \in Handles |-> "new"]
  /\ tasks = [k \in Key |-> NoTask]
  /\ nseq = 0
  /\ tkey = [t \in TaskId |-> None]
  /\ tprio = [t \in TaskId |-> Foreground]
  /\ tepoch = [t \in TaskId |-> 0]
  /\ queue = {} /\ started = {} /\ cancelled = {} /\ foreground = {}
  /\ result = [t \in TaskId |-> "pending"]
  /\ hedge = [t \in TaskId |-> "none"]
  /\ hcancelled = {}
  /\ cached = {}
  /\ diskq = <<>>
  /\ rpc = [r \in Readers |-> "idle"]
  /\ nreads = 0
  /\ read = [r \in Readers |-> None]
  /\ wpc = [w \in Workers |-> "ready"]
  /\ wtask = [w \in Workers |-> NoTask]
  /\ cpc = "open"

-----------------------------------------------------------------------------
(* Parts of several critical sections                                      *)

(* m.cond: Signal wakes one sleeping worker, Broadcast all of them.        *)
Asleep == {w \in Workers : wpc[w] = "asleep"}

SignalNobody == UNCHANGED wpc  \* mutant: the signal is forgotten

Signal ==
  IF Asleep = {} THEN UNCHANGED wpc
  ELSE \E w \in Asleep : wpc' = [wpc EXCEPT ![w] = "ready"]

AwakeNobody(pcs) == pcs  \* mutant: the broadcast is forgotten

Awake(pcs) == [w \in Workers |-> IF pcs[w] = "asleep" THEN "ready" ELSE pcs[w]]

(* Mutant: a session is dropped although handles are open on it.           *)
CleanedDespiteRefs(ss, fs, map, res) ==
  [f \in Files |->
     IF /\ f \in fs
        /\ ss[f] # None
        /\ ss[f].inflight = 0
        /\ \A c \in Chunks :
             map[<<f, c>>] # NoTask => res[map[<<f, c>>]] # "pending"
     THEN None ELSE ss[f]]

(* Mutant: a session is dropped although workers still count in it.        *)
CleanedDespiteInflight(ss, fs, map, res) ==
  [f \in Files |->
     IF f \in fs /\ ss[f] # None /\ ss[f].refs = 0 THEN None ELSE ss[f]]

(* Mutant: the clean-up is forgotten.                                      *)
CleanedNever(ss, fs, map, res) == ss

(* cleanupSessionLocked for the files fs, on the given sessions, task map  *)
(* and results.                                                            *)
Cleaned(ss, fs, map, res) ==
  [f \in Files |->
     IF /\ f \in fs
        /\ ss[f] # None
        /\ ss[f].refs = 0
        /\ ss[f].inflight = 0
        /\ \A c \in Chunks :
             map[<<f, c>>] # NoTask => res[map[<<f, c>>]] # "pending"
     THEN None ELSE ss[f]]

UnregisteredNone(S) == tasks  \* mutant: the delete is forgotten

(* delete(m.tasks, task.key), if the task is the one registered.           *)
Unregistered(S) == [k \in Key |-> IF tasks[k] \in S THEN NoTask ELSE tasks[k]]

Settled(S, r) == [t \in TaskId |-> IF t \in S THEN r ELSE result[t]]

(* Mutant: foreground tasks are not spared.                                *)
OldTasksOfAnyPriority(f, e) ==
  {t \in Issued : tasks[tkey[t]] = t /\ FileOf(t) = f /\ tepoch[t] < e}

(* cancelSessionTasksLocked: the older tasks of f that are not foreground. *)
OldTasks(f, e) ==
  {t \in Issued : /\ tasks[tkey[t]] = t
                  /\ FileOf(t) = f
                  /\ tepoch[t] < e
                  /\ tprio[t] # Foreground}

(* Mutant: a task that a worker has taken is not shared.                   *)
ReusableUnlessStarted(k) ==
  /\ tasks[k] # NoTask
  /\ Pending(tasks[k])
  /\ tasks[k] \notin cancelled \cup started

(* A task ensureTask can hand out again.                                   *)
Reusable(k) ==
  /\ tasks[k] # NoTask
  /\ Pending(tasks[k])
  /\ tasks[k] \notin cancelled

Promoted(t, p) ==
  IF p < tprio[t] /\ t \notin started THEN [tprio EXCEPT ![t] = p] ELSE tprio

Reuse(k, p, t) ==
  /\ Reusable(k)
  /\ t = tasks[k]
  /\ tprio' = Promoted(t, p)
  /\ UNCHANGED <<tasks, nseq, tkey, tepoch, queue, wpc>>

Create(k, e, p, t) ==
  /\ ~Reusable(k)
  /\ nseq < MaxTasks
  /\ t = nseq + 1
  /\ nseq' = t
  /\ tasks' = [tasks EXCEPT ![k] = t]
  /\ tkey' = [tkey EXCEPT ![t] = k]
  /\ tprio' = [tprio EXCEPT ![t] = p]
  /\ tepoch' = [tepoch EXCEPT ![t] = e]
  /\ queue' = queue \cup {t}
  /\ Signal

(* The locked part of ensureTask; its look into the store has failed       *)
(* earlier, before the lock was taken.                                     *)
EnsureTask(k, e, p, t) ==
  /\ ~Closed
  /\ Reuse(k, p, t) \/ Create(k, e, p, t)
  /\ UNCHANGED <<sessVars, started, cancelled, foreground, result, hedgeVars,
                 storeVars, nreads, wtask, cpc>>

(* ensureTask of a closed manager.                                         *)
Refused ==
  /\ Closed
  /\ UNCHANGED <<sessVars, taskVars, hedgeVars, storeVars, nreads, workVars, cpc>>

-----------------------------------------------------------------------------
(* Handles                                                                 *)

Open(h) ==
  LET f == HandleFile[h] IN
  /\ ~Closed
  /\ hstate[h] = "new"
  /\ hstate' = [hstate EXCEPT ![h] = "fresh"]
  /\ session' = [session EXCEPT
                   ![f] = [SessionOf(f) EXCEPT !.refs = @ + 1]]
  /\ UNCHANGED <<taskVars, hedgeVars, storeVars, readVars, workVars, cpc>>

Busy(h) == \E r \in Readers : rpc[r] # "idle" /\ read[r].handle = h

EndsNothing(s, h) == FALSE  \* mutant: the active handle stays registered

EndsEpoch(s, h) == s # None /\ s.active = h

(* Release gives the reference back; the active handle also ends its epoch *)
(* and cancels its background.  FUSE sends RELEASE after the reads of the  *)
(* handle have returned; the event "overlap" drops that guarantee.         *)
Release(h) ==
  LET f == HandleFile[h]
      s == session[f]
      ends == EndsEpoch(s, h)
      refs1 == IF s.refs > 0 THEN s.refs - 1 ELSE 0
      s1 == IF ends
            THEN [s EXCEPT !.refs = refs1, !.epoch = @ + 1,
                           !.active = None, !.window = FALSE]
            ELSE [s EXCEPT !.refs = refs1]
  IN
  /\ "release" \in Events
  /\ IsOpen(h)
  /\ "overlap" \in Events \/ ~Busy(h)
  /\ ends => s.epoch < MaxEpoch
  /\ hstate' = [hstate EXCEPT ![h] = "released"]
  /\ session' = IF s = None THEN session
                ELSE Cleaned([session EXCEPT ![f] = s1], {f}, tasks, result)
  /\ cancelled' = IF ends THEN cancelled \cup OldTasks(f, s.epoch + 1)
                  ELSE cancelled
  /\ UNCHANGED <<tasks, nseq, tkey, tprio, tepoch, queue, started, foreground,
                 result, hedgeVars, storeVars, readVars, workVars, cpc>>

-----------------------------------------------------------------------------
(* Reads                                                                   *)

(* What observeHandleLocked can report of a read of a handle in mode m: a  *)
(* first read is a probe, two reads in a row start a stream, a jump out of *)
(* a stream is a seek and falls back to a probe, and a small read at an    *)
(* edge of the file may stay outside the stream.                           *)
Observations(m) ==
  (IF m = "stream"
   THEN {[mode |-> "stream", event |-> "none", streamRead |-> TRUE],
         [mode |-> "stream", event |-> "none", streamRead |-> FALSE],
         [mode |-> "probe",  event |-> "seek", streamRead |-> FALSE]}
   ELSE {[mode |-> "probe",  event |-> "none", streamRead |-> FALSE]})
  \cup
  (IF m = "probe"
   THEN {[mode |-> "stream", event |-> "start", streamRead |-> TRUE]}
   ELSE {})

(* A seek outside the window by the active handle, or by any handle when   *)
(* none is active, and a start outside the window by another handle, open  *)
(* a new epoch.                                                            *)
TakesOver(s, h, obs, within) ==
  /\ ~within
  /\ \/ obs.event = "seek" /\ s.active \in {None, h}
     \/ obs.event = "start" /\ s.active \notin {None, h}

(* A stream that starts while no handle is active becomes the active one.  *)
Claims(s, obs) == obs.mode = "stream" /\ s.active = None

(* A seek by a handle that is not the active one only reads.               *)
Independent(s, h, obs, within) ==
  ~within /\ obs.event = "seek" /\ s.active \notin {None, h}

PreparedSession(s, h, obs, within) ==
  IF TakesOver(s, h, obs, within)
  THEN [s EXCEPT !.epoch = @ + 1, !.active = h, !.window = FALSE]
  ELSE IF Claims(s, obs) THEN [s EXCEPT !.active = h] ELSE s

(* prepareRead and the choice readAt makes from it.                        *)
PrepareRead(r, h, obs, within, need) ==
  LET f == HandleFile[h]
      s == SessionOf(f)
      s1 == PreparedSession(s, h, obs, within)
      streams == /\ obs.streamRead
                 /\ ~Independent(s, h, obs, within)
                 /\ s1.active = h \/ within
  IN
  /\ rpc[r] = "idle"
  /\ ~Closed
  /\ IsOpen(h)
  /\ nreads < MaxReads
  /\ within => s.window
  /\ s1.epoch <= MaxEpoch
  /\ nreads' = nreads + 1
  /\ hstate' = [hstate EXCEPT ![h] = obs.mode]
  /\ session' = [session EXCEPT ![f] = s1]
  /\ cancelled' = IF s1.epoch > s.epoch
                  THEN cancelled \cup OldTasks(f, s1.epoch) ELSE cancelled
  /\ \E kind \in {"stream", "probe", "plain"}, plan \in Plans \cup {{}} :
       /\ kind = "stream" <=> (obs.mode = "stream" /\ streams)
       /\ kind = "probe" => obs.mode = "probe" /\ \A x \in plan : x[2] = Near
       /\ kind = "probe" <=> plan # {}
       /\ read' = [read EXCEPT ![r] =
            [handle |-> h, epoch |-> s1.epoch, kind |-> kind, need |-> need,
             plan |-> plan, after |-> FALSE, task |-> NoTask]]
       /\ rpc' = [rpc EXCEPT ![r] =
            CASE kind = "stream" -> "buffer"
              [] plan # {} -> "background"
              [] OTHER -> "peek"]
  /\ UNCHANGED <<tasks, nseq, tkey, tprio, tepoch, queue, started,
                 foreground, result, hedgeVars, storeVars, workVars, cpc>>

(* The read returns to the kernel.                                         *)
Finish(r) ==
  /\ rpc' = [rpc EXCEPT ![r] = "idle"]
  /\ read' = [read EXCEPT ![r] = None]

(* The rest of a plan; a plan that is done leads to the chunks the read    *)
(* needs, or, after the read, to its end.                                  *)
ContinuePlan(r, plan) ==
  IF plan = {} /\ read[r].after THEN Finish(r)
  ELSE /\ read' = [read EXCEPT ![r].plan = plan]
       /\ rpc' = [rpc EXCEPT ![r] = IF plan = {} THEN "peek" ELSE "background"]

(* Mutant: the next chunk is taken from the task of the last one.          *)
ContinueNeedOnSameTask(r, need) ==
  IF need = {} THEN Finish(r)
  ELSE /\ read' = [read EXCEPT ![r].need = need]
       /\ rpc' = [rpc EXCEPT ![r] = IF read[r].task = NoTask THEN "peek" ELSE "wait"]

(* The rest of the needed chunks; a stream read that has them all          *)
(* schedules the buffer once more.                                         *)
ContinueNeed(r, need) ==
  IF need = {} /\ read[r].kind # "stream" THEN Finish(r)
  ELSE /\ read' = [read EXCEPT ![r].need = need, ![r].task = NoTask,
                               ![r].after = (need = {})]
       /\ rpc' = [rpc EXCEPT ![r] = IF need = {} THEN "buffer" ELSE "peek"]

(* scheduleBuffer up to its unlock: an old epoch or a session without an   *)
(* active handle schedules nothing, nor does a cursor at the end of file.  *)
ScheduleBuffer(r) ==
  LET f == ReadFile(r)
      s == session[f]
  IN
  /\ rpc[r] = "buffer"
  /\ \/ /\ ContinuePlan(r, {})
        /\ UNCHANGED session
     \/ /\ s # None
        /\ s.epoch = read[r].epoch
        /\ s.active # None
        /\ session' = [session EXCEPT ![f] = [s EXCEPT !.window = TRUE]]
        /\ \E plan \in Plans : ContinuePlan(r, plan)
  /\ UNCHANGED <<hstate, taskVars, hedgeVars, storeVars, nreads, workVars, cpc>>

(* ensureBackgroundTask's looks into the store.                            *)
PeekBackground(r) ==
  /\ rpc[r] = "background"
  /\ \E x \in read[r].plan :
       /\ FirstPlanned(x, read[r].plan)
       /\ IF <<ReadFile(r), x[1]>> \in cached
          THEN ContinuePlan(r, read[r].plan \ {x})
          ELSE /\ rpc' = [rpc EXCEPT ![r] = "ensureBackground"]
               /\ UNCHANGED read
  /\ UNCHANGED <<sessVars, taskVars, hedgeVars, storeVars, nreads, workVars, cpc>>

EnsureBackground(r) ==
  /\ rpc[r] = "ensureBackground"
  /\ \E x \in read[r].plan :
       /\ FirstPlanned(x, read[r].plan)
       /\ ContinuePlan(r, read[r].plan \ {x})
       /\ \/ Refused
          \/ \E t \in TaskId :
               EnsureTask(<<ReadFile(r), x[1]>>, read[r].epoch, x[2], t)

(* waitChunk's looks into the store.                                       *)
PeekChunk(r) ==
  /\ rpc[r] = "peek"
  /\ \E c \in read[r].need :
       /\ FirstChunk(c, read[r].need)
       /\ IF <<ReadFile(r), c>> \in cached
          THEN ContinueNeed(r, read[r].need \ {c})
          ELSE /\ rpc' = [rpc EXCEPT ![r] = "ensure"]
               /\ UNCHANGED read
  /\ UNCHANGED <<sessVars, taskVars, hedgeVars, storeVars, nreads, workVars, cpc>>

EnsureForeground(r) ==
  /\ rpc[r] = "ensure"
  /\ \/ Refused /\ Finish(r)
     \/ \E c \in read[r].need, t \in TaskId :
          /\ FirstChunk(c, read[r].need)
          /\ EnsureTask(<<ReadFile(r), c>>, read[r].epoch, Foreground, t)
          /\ read' = [read EXCEPT ![r].task = t]
          /\ rpc' = [rpc EXCEPT ![r] = "mark"]

MarkForeground(r) ==
  LET t == read[r].task IN
  /\ rpc[r] = "mark"
  /\ rpc' = [rpc EXCEPT ![r] = "wait"]
  /\ foreground' = IF Pending(t) THEN foreground \cup {t} ELSE foreground
  /\ UNCHANGED <<sessVars, tasks, nseq, tkey, tprio, tepoch, queue, started,
                 cancelled, result, hedgeVars, storeVars, read, nreads, workVars,
                 cpc>>

(* The task is done: its data is the chunk, its error fails the read.      *)
TaskDone(r) ==
  LET t == read[r].task IN
  /\ rpc[r] = "wait"
  /\ ~Pending(t)
  /\ IF result[t] = "ok"
     THEN \E c \in read[r].need :
            FirstChunk(c, read[r].need) /\ ContinueNeed(r, read[r].need \ {c})
     ELSE Finish(r)
  /\ UNCHANGED <<sessVars, taskVars, hedgeVars, storeVars, nreads, workVars, cpc>>

(* The kernel interrupts the request: ctx.Done() ends the wait.            *)
Interrupt(r) ==
  /\ "interrupt" \in Events
  /\ rpc[r] = "wait"
  /\ Finish(r)
  /\ UNCHANGED <<sessVars, taskVars, hedgeVars, storeVars, nreads, workVars, cpc>>

(* Mutant: only a task no worker has taken yet is raced.                   *)
HedgeableIfQueued(t) ==
  Pending(t) /\ hedge[t] = "none" /\ t \notin cancelled /\ t \notin started

Hedgeable(t) == Pending(t) /\ hedge[t] = "none" /\ t \notin cancelled

(* The hedge timer fires while the reader waits.  Every third consecutive  *)
(* slow chunk of a session resets its streak and invalidates the link.     *)
StartHedge(r) ==
  LET t == read[r].task
      f == FileOf(t)
  IN
  /\ Hedge
  /\ rpc[r] = "wait"
  /\ ~Closed
  /\ Hedgeable(t)
  /\ hedge' = [hedge EXCEPT ![t] = "run"]
  /\ session' = IF session[f] = None THEN session
                ELSE [session EXCEPT ![f].slow = (@ + 1) % 3]
  /\ UNCHANGED <<hstate, taskVars, hcancelled, storeVars, readVars, workVars,
                 cpc>>

-----------------------------------------------------------------------------
(* Workers                                                                 *)

ActiveSessions ==
  {f \in Files : /\ session[f] # None
                 /\ session[f].refs > 0
                 /\ session[f].active # None}

(* sessionWorkerLimitLocked                                                *)
WorkerLimit ==
  IF Cardinality(ActiveSessions) > 1 THEN SessionWorkers
  ELSE Cardinality(Workers)

(* Less of taskHeap: priority, then sequence number.                       *)
Before(t, u) == tprio[t] < tprio[u] \/ (tprio[t] = tprio[u] /\ t < u)

Stale(t) == ~Pending(t) \/ t \in cancelled

Limited(t) ==
  LET s == session[FileOf(t)] IN
  /\ s # None
  /\ tprio[t] # Foreground
  /\ s.inflight >= WorkerLimit

Startable(t) == t \in queue /\ ~Stale(t) /\ ~Limited(t)

(* The part of a scan of the heap that pops the stale tasks S: finished    *)
(* ones are forgotten, cancelled ones are discarded with their error and   *)
(* their sessions cleaned up.                                              *)
UnfinishedOrNot(S) == S  \* mutant: finished tasks are discarded once more

Unfinished(S) == {t \in S : Pending(t)}

SessionsAfterDiscard(S) ==
  Cleaned(session, {FileOf(t) : t \in Unfinished(S)},
          Unregistered(Unfinished(S)), Settled(Unfinished(S), "err"))

Discard(S) ==
  /\ result' = Settled(Unfinished(S), "err")
  /\ tasks' = Unregistered(Unfinished(S))

LeftInHeap(popped, t) == queue \ popped  \* mutant: the task stays queued

(* The heap once t is handed out: the skipped tasks are pushed back.       *)
HeapAfter(popped, t) == queue \ (popped \cup {t})

(* nextTask with a task to hand out: the first in heap order that is       *)
(* neither stale nor held back by its session's limit.                     *)
Take(w, t) ==
  LET popped == {u \in queue : Stale(u) /\ Before(u, t)}
      ss == SessionsAfterDiscard(popped)
      f == FileOf(t)
  IN
  /\ Startable(t)
  /\ \A u \in queue : Before(u, t) => ~Startable(u)
  /\ Discard(popped)
  /\ queue' = HeapAfter(popped, t)
  /\ session' = IF ss[f] = None THEN ss
                ELSE [ss EXCEPT ![f].inflight = @ + 1]
  /\ started' = started \cup {t}
  /\ wtask' = [wtask EXCEPT ![w] = t]

NextTask(w) ==
  /\ wpc[w] = "ready"
  /\ ~Closed
  /\ \E t \in queue : Take(w, t)
  /\ wpc' = [wpc EXCEPT ![w] = "try1"]
  /\ UNCHANGED <<hstate, nseq, tkey, tprio, tepoch, cancelled, foreground,
                 hedgeVars, storeVars, readVars, cpc>>

SkippedLost(popped) == {}  \* mutant: the skipped tasks are not pushed back

(* The heap after a scan that found nothing: only skipped tasks are left.  *)
HeapAfterScan(popped) == queue \ popped

(* nextTask with nothing to hand out: stale tasks are popped and the       *)
(* worker waits on the condition.                                          *)
AwaitTask(w) ==
  LET popped == {u \in queue : Stale(u)} IN
  /\ wpc[w] = "ready"
  /\ ~Closed
  /\ ~\E t \in queue : Startable(t)
  /\ Discard(popped)
  /\ queue' = HeapAfterScan(popped)
  /\ session' = SessionsAfterDiscard(popped)
  /\ wpc' = [wpc EXCEPT ![w] = "asleep"]
  /\ UNCHANGED <<hstate, nseq, tkey, tprio, tepoch, started, cancelled,
                 foreground, hedgeVars, storeVars, readVars, wtask, cpc>>

WorkerExit(w) ==
  /\ wpc[w] = "ready"
  /\ Closed
  /\ wpc' = [wpc EXCEPT ![w] = "exit"]
  /\ UNCHANGED <<sessVars, taskVars, hedgeVars, storeVars, readVars, wtask, cpc>>

(* download: two attempts; after a failed one a cancelled context ends it. *)
(* finishTask puts the data of a success into the store before it locks.   *)
DownloadOk(w) ==
  /\ wpc[w] \in {"try1", "try2"}
  /\ wpc' = [wpc EXCEPT ![w] = "finishOk"]
  /\ cached' = cached \cup {tkey[wtask[w]]}
  /\ UNCHANGED <<sessVars, taskVars, hedgeVars, diskq, readVars, wtask, cpc>>

DownloadFail(w) ==
  /\ wpc[w] \in {"try1", "try2"}
  /\ "fail" \in Events \/ wtask[w] \in cancelled
  /\ wpc' = [wpc EXCEPT ![w] =
                IF @ = "try1" /\ wtask[w] \notin cancelled
                THEN "try2" ELSE "finishErr"]
  /\ UNCHANGED <<sessVars, taskVars, hedgeVars, storeVars, readVars, wtask, cpc>>

ReleasedNot(t) == session  \* mutant: inflight is not decremented

(* Mutant: inflight is decremented without a look at its value.            *)
ReleasedUnguarded(t) ==
  LET f == FileOf(t) IN
  IF session[f] # None
  THEN [session EXCEPT ![f].inflight = @ - 1] ELSE session

(* The session after a worker has let go of task t.                        *)
Released(t) ==
  LET f == FileOf(t) IN
  IF session[f] # None /\ session[f].inflight > 0
  THEN [session EXCEPT ![f].inflight = @ - 1] ELSE session

(* A foreground task that was not raced ends the streak of slow ones.      *)
Unslowed(ss, t) ==
  LET f == FileOf(t) IN
  IF t \in foreground /\ hedge[t] = "none" /\ ss[f] # None
  THEN [ss EXCEPT ![f].slow = 0] ELSE ss

(* finishTask when a hedged request has already settled the task.          *)
FinishLost(w) ==
  LET t == wtask[w] IN
  /\ wpc[w] \in {"finishOk", "finishErr"}
  /\ ~Pending(t)
  /\ session' = Cleaned(Released(t), {FileOf(t)}, tasks, result)
  /\ wpc' = Awake([wpc EXCEPT ![w] = "ready"])
  /\ wtask' = [wtask EXCEPT ![w] = NoTask]
  /\ UNCHANGED <<hstate, taskVars, hedgeVars, storeVars, readVars, cpc>>

(* finishTask that settles the task and cancels its hedged request.        *)
FinishTask(w) ==
  LET t == wtask[w]
      ok == wpc[w] = "finishOk"
      sends == ok /\ DiskCache
  IN
  /\ wpc[w] \in {"finishOk", "finishErr"}
  /\ Pending(t)
  /\ result' = Settled({t}, IF ok THEN "ok" ELSE "err")
  /\ tasks' = Unregistered({t})
  /\ hcancelled' = IF hedge[t] = "none" THEN hcancelled ELSE hcancelled \cup {t}
  /\ session' = Cleaned(Unslowed(Released(t), t), {FileOf(t)}, tasks', result')
  /\ wpc' = Awake([wpc EXCEPT ![w] = IF sends THEN "send" ELSE "ready"])
  /\ wtask' = IF sends THEN wtask ELSE [wtask EXCEPT ![w] = NoTask]
  /\ UNCHANGED <<hstate, nseq, tkey, tprio, tepoch, queue, started, cancelled,
                 foreground, hedge, storeVars, readVars, cpc>>

(* queueDiskWrite, of a manager with a disk cache, never blocks: a full    *)
(* channel drops the write.                                                *)
QueueDiskWrite(t) ==
  diskq' = IF Len(diskq) < DiskQueueCap THEN Append(diskq, tkey[t]) ELSE diskq

WorkerSend(w) ==
  /\ wpc[w] = "send"
  /\ QueueDiskWrite(wtask[w])
  /\ wpc' = [wpc EXCEPT ![w] = "ready"]
  /\ wtask' = [wtask EXCEPT ![w] = NoTask]
  /\ UNCHANGED <<sessVars, taskVars, hedgeVars, cached, readVars, cpc>>

-----------------------------------------------------------------------------
(* Hedged requests                                                         *)

(* The hedged request has the chunk: publishHedge puts it into the store.  *)
HedgeOk(t) ==
  /\ hedge[t] = "run"
  /\ hedge' = [hedge EXCEPT ![t] = "publish"]
  /\ cached' = cached \cup {tkey[t]}
  /\ UNCHANGED <<sessVars, taskVars, hcancelled, diskq, readVars, workVars, cpc>>

HedgeFail(t) ==
  /\ hedge[t] = "run"
  /\ "fail" \in Events \/ t \in hcancelled
  /\ hedge' = [hedge EXCEPT ![t] = "done"]
  /\ UNCHANGED <<sessVars, taskVars, hcancelled, storeVars, readVars, workVars,
                 cpc>>

CancelNothing(t) == cancelled  \* mutant: the worker's request goes on

CancelPrimary(t) == cancelled \cup {t}

(* publishHedge: the first to settle the task wins and cancels the other.  *)
PublishHedge(t) ==
  /\ hedge[t] = "publish"
  /\ IF Pending(t)
     THEN /\ result' = Settled({t}, "ok")
          /\ tasks' = Unregistered({t})
          /\ cancelled' = CancelPrimary(t)
          /\ hedge' = [hedge EXCEPT ![t] = IF DiskCache THEN "send" ELSE "done"]
     ELSE /\ hedge' = [hedge EXCEPT ![t] = "done"]
          /\ UNCHANGED <<result, tasks, cancelled>>
  /\ UNCHANGED <<sessVars, nseq, tkey, tprio, tepoch, queue, started,
                 foreground, hcancelled, storeVars, readVars, workVars, cpc>>

HedgeSend(t) ==
  /\ hedge[t] = "send"
  /\ QueueDiskWrite(t)
  /\ hedge' = [hedge EXCEPT ![t] = "done"]
  /\ UNCHANGED <<sessVars, taskVars, hcancelled, cached, readVars, workVars, cpc>>

-----------------------------------------------------------------------------
(* The store as the scheduler sees it, and the end of the manager          *)

(* diskWriter: the write succeeds, and the chunk is in the store, or not.  *)
DiskWrite ==
  /\ diskq # <<>>
  /\ diskq' = Tail(diskq)
  /\ cached' \in {cached, cached \cup {Head(diskq)}}
  /\ UNCHANGED <<sessVars, taskVars, hedgeVars, readVars, workVars, cpc>>

(* Memory and disk budgets and the pruning of a stream's window make the   *)
(* store forget a chunk at any time.                                       *)
Evict(k) ==
  /\ "evict" \in Events
  /\ k \in cached
  /\ cached' = cached \ {k}
  /\ UNCHANGED <<sessVars, taskVars, hedgeVars, diskq, readVars, workVars, cpc>>

(* reclaimIdleMemory once nothing is registered and nobody downloads; what *)
(* only memory held is gone, S is what the disk still has.                 *)
ReclaimIdle(S) ==
  /\ "reclaim" \in Events
  /\ ~Closed
  /\ \A k \in Key : tasks[k] = NoTask
  /\ \A f \in Files : session[f] # None => session[f].inflight = 0
  /\ session' = [f \in Files |-> IF session[f] = None THEN None
                                  ELSE [session[f] EXCEPT !.window = FALSE]]
  /\ cached' = S
  /\ UNCHANGED <<hstate, taskVars, hedgeVars, diskq, readVars, workVars, cpc>>

(* Close: every context is a child of the manager's.                       *)
Close ==
  /\ "close" \in Events
  /\ cpc = "open"
  /\ cpc' = "closing"
  /\ cancelled' = Issued
  /\ hcancelled' = {t \in TaskId : hedge[t] # "none"}
  /\ wpc' = Awake(wpc)
  /\ UNCHANGED <<sessVars, tasks, nseq, tkey, tprio, tepoch, queue, started,
                 foreground, result, hedge, storeVars, readVars, wtask>>

WorkersGone == \A w \in Workers : wpc[w] = "exit"  \* mutant: no wg.Add for hedges

(* The WaitGroup counts the workers and the hedged requests.               *)
AllGone ==
  /\ \A w \in Workers : wpc[w] = "exit"
  /\ \A t \in TaskId : hedge[t] \in {"none", "done"}

(* m.wg.Wait returns and the channel is closed, then the writer ends.      *)
CloseChannel ==
  /\ cpc = "closing"
  /\ AllGone
  /\ cpc' = "draining"
  /\ UNCHANGED <<sessVars, taskVars, hedgeVars, storeVars, readVars, workVars>>

CloseReturns ==
  /\ cpc = "draining"
  /\ diskq = <<>>
  /\ cpc' = "done"
  /\ UNCHANGED <<sessVars, taskVars, hedgeVars, storeVars, readVars, workVars>>

-----------------------------------------------------------------------------
StartRead(r) ==
  \E h \in Handles, within \in BOOLEAN, need \in Spans :
    \E obs \in Observations(hstate[h]) : PrepareRead(r, h, obs, within, need)

ReaderStep(r) ==
  \/ ScheduleBuffer(r)
  \/ PeekBackground(r)
  \/ EnsureBackground(r)
  \/ PeekChunk(r)
  \/ EnsureForeground(r)
  \/ MarkForeground(r)
  \/ TaskDone(r)

WorkerStep(w) ==
  \/ NextTask(w)
  \/ AwaitTask(w)
  \/ WorkerExit(w)
  \/ DownloadOk(w)
  \/ DownloadFail(w)
  \/ FinishLost(w)
  \/ FinishTask(w)
  \/ WorkerSend(w)

HedgeStep(t) == HedgeOk(t) \/ HedgeFail(t) \/ PublishHedge(t) \/ HedgeSend(t)

CloseStep == CloseChannel \/ CloseReturns

Next ==
  \/ \E h \in Handles : Open(h) \/ Release(h)
  \/ \E r \in Readers :
       StartRead(r) \/ ReaderStep(r) \/ Interrupt(r) \/ StartHedge(r)
  \/ \E w \in Workers : WorkerStep(w)
  \/ \E t \in TaskId : HedgeStep(t)
  \/ \E k \in Key : Evict(k)
  \/ \E S \in SUBSET cached : ReclaimIdle(S)
  \/ DiskWrite
  \/ Close
  \/ CloseStep

Spec == Init /\ [][Next]_vars

(* Goroutines that can run do run, the readers' hedge timers fire, and     *)
(* hedged requests end.  A worker's request need not end unless its        *)
(* context is cancelled (the properties add that it does where they need   *)
(* it).  Opening, reading, releasing, evicting and closing are the         *)
(* environment's choice.                                                   *)
WorkerMoves(w) ==
  /\ wpc[w] \in {"try1", "try2"} => wtask[w] \in cancelled
  /\ WorkerStep(w)

Fairness ==
  /\ \A r \in Readers : WF_vars(ReaderStep(r)) /\ WF_vars(StartHedge(r))
  /\ \A w \in Workers : WF_vars(WorkerMoves(w))
  /\ \A t \in TaskId : WF_vars(HedgeStep(t))
  /\ WF_vars(DiskWrite)
  /\ WF_vars(CloseStep)

FairSpec == Spec /\ Fairness

-----------------------------------------------------------------------------
(* Properties                                                              *)

(* The type invariant of the manager's state.                              *)
TypeOK ==
  /\ session \in [Files -> Session \cup {None}]
  /\ hstate \in [Handles -> {"new", "fresh", "probe", "stream", "released"}]
  /\ tasks \in [Key -> TaskId \cup {NoTask}]
  /\ nseq \in 0..MaxTasks
  /\ tkey \in [TaskId -> Key \cup {None}]
  /\ tprio \in [TaskId -> Priority]
  /\ tepoch \in [TaskId -> Nat]
  /\ queue \subseteq TaskId
  /\ started \subseteq TaskId
  /\ cancelled \subseteq TaskId
  /\ foreground \subseteq TaskId
  /\ result \in [TaskId -> {"pending", "ok", "err"}]
  /\ hedge \in [TaskId -> HedgePcs]
  /\ hcancelled \subseteq TaskId
  /\ cached \subseteq Key
  /\ diskq \in Seq(Key)
  /\ rpc \in [Readers -> ReadPcs]
  /\ read \in [Readers -> Read \cup {None}]
  /\ nreads \in 0..MaxReads
  /\ wpc \in [Workers -> WorkerPcs]
  /\ wtask \in [Workers -> TaskId \cup {NoTask}]
  /\ cpc \in {"open", "closing", "draining", "done"}

(* m.tasks holds no finished task and no task under another's key: every   *)
(* path that finishes a task - finishTask, publishHedge, a discard - also  *)
(* unregisters it, and only it.                                            *)
RegisteredPending ==
  \A k \in Key : tasks[k] # NoTask =>
    tasks[k] \in Issued /\ tkey[tasks[k]] = k /\ Pending(tasks[k])

(* A task that is neither finished nor cancelled is the registered one of  *)
(* its chunk, so a chunk never has two of them and every reader that asks  *)
(* for the chunk shares it.                                                *)
LiveRegistered ==
  \A t \in Issued : Pending(t) /\ t \notin cancelled => tasks[tkey[t]] = t

(* A task no worker has taken is in the heap until it is finished, so the  *)
(* heap.Fix of ensureTask never meets the index -1 of a popped task, and   *)
(* no waiting task is lost by a scan; a taken one is never in the heap.    *)
UnstartedQueued ==
  /\ \A t \in Issued : Pending(t) /\ t \notin started => t \in queue
  /\ queue \cap started = {}

(* A started task that is not finished is in the hands of exactly one      *)
(* worker, which will close its done channel.                              *)
StartedHeld ==
  /\ \A t \in started : Pending(t) => \E w \in Workers : Holding(w) /\ wtask[w] = t
  /\ \A w, v \in Workers :
       Holding(w) /\ Holding(v) /\ wtask[w] = wtask[v] => w = v

(* The task a reader waits for is the one of the chunk it needs next.      *)
WaitsForItsChunk ==
  \A r \in Readers : rpc[r] \in {"mark", "wait"} =>
    \E c \in Chunks : /\ FirstChunk(c, read[r].need)
                      /\ tkey[read[r].task] = <<ReadFile(r), c>>

(* Whoever publishes a chunk first, worker or hedged request, cancels the  *)
(* other: no request for a published task is left running uncancelled.     *)
LoserCancelled ==
  \A t \in TaskId : result[t] = "ok" =>
    /\ hedge[t] = "run" => t \in hcancelled
    /\ (\E w \in Workers : wpc[w] \in {"try1", "try2"} /\ wtask[w] = t)
         => t \in cancelled

WorkersOn(f) == {w \in Workers : Holding(w) /\ FileOf(wtask[w]) = f}

(* session.inflight never counts a worker that is gone: a leaked count     *)
(* would hold back the background tasks of the session for good.           *)
InflightNotLeaked ==
  \A f \in Files : session[f] # None =>
    session[f].inflight <= Cardinality(WorkersOn(f))

(* session.inflight is exact, and a file that is being downloaded has its  *)
(* session, if RELEASE comes after the reads of its handle.                *)
InflightExact ==
  \A f \in Files :
    Cardinality(WorkersOn(f)) =
      IF session[f] = None THEN 0 ELSE session[f].inflight

(* The active handle of a session is open on its file: a handle that is    *)
(* gone never keeps the seeks of the others from opening an epoch.         *)
ActiveHandleOpen ==
  \A f \in Files : session[f] # None /\ session[f].active # None =>
    /\ IsOpen(session[f].active)
    /\ HandleFile[session[f].active] = f

(* A session counts exactly the open handles of its file.                  *)
RefsExact ==
  \A f \in Files :
    Cardinality({h \in Handles : IsOpen(h) /\ HandleFile[h] = f}) =
      IF session[f] = None THEN 0 ELSE session[f].refs

(* A session that nobody needs: no handle, no worker and no task.          *)
Useless(f) ==
  /\ session[f] # None
  /\ session[f].refs = 0 /\ session[f].inflight = 0
  /\ \A c \in Chunks : tasks[<<f, c>>] = NoTask

(* Whoever takes the last handle, worker or task away from a session drops *)
(* it from m.sessions - Release, finishTask, the discard of a cancelled    *)
(* task - with one exception: publishHedge cleans nothing up, and may      *)
(* leave a session behind until its file is opened again.                  *)
SessionReclaimed ==
  [][\A f \in Files :
       Useless(f)' =>
         Useless(f) \/ \E t \in TaskId : PublishHedge(t) /\ FileOf(t) = f]_vars

(* Once Close has closed the disk-write channel nobody is left who could   *)
(* send on it.                                                             *)
NoSendOnClosed ==
  cpc \in {"draining", "done"} =>
    /\ \A w \in Workers : wpc[w] = "exit"
    /\ \A t \in TaskId : hedge[t] \in {"none", "done"}

(* What a task was finished with never changes: done is closed once and    *)
(* all its waiters see the same data or error.                             *)
SettledOnce ==
  [][\A t \in TaskId : ~Pending(t) => result'[t] = result[t]]_vars

(* A seek, a start, a takeover or a release never cancels what a reader of *)
(* any session waits for before a worker has it: a queued task that was    *)
(* asked for in the foreground, or that was scheduled in the background    *)
(* and promoted by a read since, survives every change of epoch until the  *)
(* manager is closed.                                                      *)
ForegroundQueueKept ==
  \A t \in queue : tprio[t] = Foreground /\ t \in cancelled =>
    Closed \/ ~Pending(t)

(* A read that waits for a chunk is served, fails or returns to the        *)
(* kernel; Close strands the readers of tasks no worker had taken yet.     *)
Answered(r) == rpc[r] # "wait" \/ (Closed /\ read[r].task \notin started)

WorkersFair == \A w \in Workers : WF_vars(WorkerStep(w))

(* If every request of a worker ends, as the HTTP client's timeout makes   *)
(* it, a read that waits gets its answer whatever fails or is released.    *)
ReadAnswered ==
  WorkersFair => \A r \in Readers : rpc[r] = "wait" ~> Answered(r)

(* If the requests of the workers hang for good, the hedged request takes  *)
(* over: a read is answered unless that one has failed as well.            *)
HangSurvived ==
  \A r \in Readers : rpc[r] = "wait" ~>
    \/ Answered(r)
    \/ hedge[read[r].task] = "done" /\ Pending(read[r].task)

(* Close ends: workers, hedged requests and the disk writer all finish.    *)
CloseEnds == Closed ~> cpc = "done"

-----------------------------------------------------------------------------
(* The abstract promise this module implements.                            *)
SF == INSTANCE SingleFlight
        WITH Ticket <- TaskId, NoKey <- None, abandoned <- cancelled

ImplementsSingleFlight == SF!Spec
=============================================================================
