--------------------- MODULE StreamSchedulerWorkProofs ---------------------
(***************************************************************************)
(* Theorems about the heap, the workers and the hedged requests of         *)
(* StreamScheduler: no task is lost between the heap and the workers, none *)
(* is downloaded by two workers, a settled task leaves no uncancelled      *)
(* request behind, and nobody sends on the closed disk-write channel.      *)
(***************************************************************************)
EXTENDS StreamSchedulerProofs

-----------------------------------------------------------------------------
(* The heap and the workers                                                *)

(* What a worker holds has been started.                                   *)
HeldStarted == \A w \in Workers : Holding(w) => wtask[w] \in started

WorkInv == UnstartedQueued /\ StartedHeld /\ HeldStarted

(* Steps that neither hand a task out nor give it back.                    *)
LEMMA WorkQuiet ==
  ASSUME TypeInv, WorkInv,
         UNCHANGED <<queue, started, nseq>>,
         \A t \in Issued : Pending(t)' => Pending(t),
         \A w \in Workers : /\ Holding(w)' <=> Holding(w)
                            /\ Holding(w) => wtask'[w] = wtask[w]
  PROVE  WorkInv'
<1>1. UnstartedQueued'
  BY DEF WorkInv, UnstartedQueued, Issued
<1>2. HeldStarted'
  BY DEF WorkInv, HeldStarted
<1>3. StartedHeld'
  <2>1. ASSUME NEW t \in started', Pending(t)'
        PROVE  \E w \in Workers : Holding(w)' /\ wtask'[w] = t
    <3>1. t \in started /\ Pending(t)
      BY <2>1 DEF TypeInv, TaskPart
    <3>2. PICK w \in Workers : Holding(w) /\ wtask[w] = t
      BY <3>1 DEF WorkInv, StartedHeld
    <3> QED BY <3>2
  <2>2. ASSUME NEW w \in Workers, NEW v \in Workers, Holding(w)', Holding(v)',
               wtask'[w] = wtask'[v]
        PROVE  w = v
    BY <2>2 DEF WorkInv, StartedHeld
  <2> QED BY <2>1, <2>2 DEF StartedHeld
<1> QED BY <1>1, <1>2, <1>3 DEF WorkInv

(* A new task goes into the heap.                                          *)
LEMMA WorkEnsure ==
  ASSUME TypeInv, WorkInv, NEW k \in Key, NEW e, NEW p, NEW t \in TaskId,
         EnsureTask(k, e, p, t)
  PROVE  WorkInv'
<1>1. CASE Reuse(k, p, t)
  <2>1. UNCHANGED <<queue, started, nseq, result, wpc, wtask>>
    BY <1>1 DEF EnsureTask, Reuse
  <2> QED BY <2>1, WorkQuiet DEF Holding, Pending
<1>2. CASE Create(k, e, p, t)
  <2>1. /\ queue' = queue \cup {t} /\ UNCHANGED <<started, result, wtask>>
        /\ Issued' = Issued \cup {t} /\ t \notin started
    BY <1>2 DEF EnsureTask, Create, Issued, TypeInv, TaskPart
  <2>2. \A w \in Workers : Holding(w)' <=> Holding(w)
    BY <1>2 DEF Create, Signal, Asleep, Holding, TypeInv, WorkPart
  <2>3. UnstartedQueued'
    BY <2>1 DEF WorkInv, UnstartedQueued, Pending
  <2>4. StartedHeld' /\ HeldStarted'
    <3>1. HeldStarted'
      BY <2>1, <2>2 DEF WorkInv, HeldStarted
    <3>2. \A u \in started' : Pending(u)' =>
            \E w \in Workers : Holding(w)' /\ wtask'[w] = u
      BY <2>1, <2>2 DEF WorkInv, StartedHeld, Pending
    <3>3. \A w, v \in Workers :
            Holding(w)' /\ Holding(v)' /\ wtask'[w] = wtask'[v] => w = v
      BY <2>1, <2>2 DEF WorkInv, StartedHeld
    <3> QED BY <3>1, <3>2, <3>3 DEF StartedHeld
  <2> QED BY <2>3, <2>4 DEF WorkInv
<1> QED BY <1>1, <1>2 DEF EnsureTask

(* The stale tasks a scan drops are finished afterwards.                   *)
LEMMA DropStale ==
  ASSUME TypeInv, NEW S \in SUBSET queue, Discard(S)
  PROVE  \A t \in Issued : Pending(t)' => Pending(t) /\ t \notin S
<1> SUFFICES ASSUME NEW t \in Issued, Pending(t)' PROVE Pending(t) /\ t \notin S
  OBVIOUS
<1>1. t \in TaskId
  BY IssuedTask
<1> QED BY <1>1 DEF Discard, Settled, Unfinished, Pending

LEMMA WorkTake ==
  ASSUME TypeInv, WorkInv, NEW w \in Workers, NextTask(w)
  PROVE  WorkInv'
<1>1. PICK t \in queue : Take(w, t)
  BY DEF NextTask
<1> DEFINE popped == {u \in queue : Stale(u) /\ Before(u, t)}
<1>2. \A u \in Issued : Pending(u)' => Pending(u) /\ u \notin popped
  BY <1>1, DropStale DEF Take
<1>3. /\ queue' = queue \ (popped \cup {t})
      /\ started' = started \cup {t}
      /\ wtask' = [wtask EXCEPT ![w] = t]
      /\ wpc' = [wpc EXCEPT ![w] = "try1"]
      /\ wpc[w] = "ready"
      /\ Issued' = Issued
      /\ t \in Issued /\ t \notin started
  BY <1>1 DEF NextTask, Take, HeapAfter, Issued, TypeInv, TaskPart, WorkInv,
              UnstartedQueued
<1> HIDE DEF popped
<1>4. UnstartedQueued'
  BY <1>2, <1>3 DEF WorkInv, UnstartedQueued
<1>5. /\ Holding(w)' /\ wtask'[w] = t /\ ~Holding(w)
      /\ \A v \in Workers \ {w} : Holding(v)' = Holding(v) /\ wtask'[v] = wtask[v]
  BY <1>3 DEF Holding, TypeInv, WorkPart
<1>6. HeldStarted'
  BY <1>3, <1>5 DEF WorkInv, HeldStarted
<1>7. StartedHeld'
  <2>1. ASSUME NEW u \in started', Pending(u)'
        PROVE  \E v \in Workers : Holding(v)' /\ wtask'[v] = u
    <3>1. CASE u = t
      BY <1>5, <3>1
    <3>2. CASE u # t
      <4>1. u \in started /\ Pending(u)
        BY <1>2, <1>3, <2>1, <3>2 DEF TypeInv, TaskPart
      <4>2. PICK v \in Workers : Holding(v) /\ wtask[v] = u
        BY <4>1 DEF WorkInv, StartedHeld
      <4>3. v # w
        BY <1>5, <4>2
      <4> QED BY <1>5, <4>2, <4>3
    <3> QED BY <3>1, <3>2
  <2>2. ASSUME NEW u \in Workers, NEW v \in Workers, Holding(u)', Holding(v)',
               wtask'[u] = wtask'[v]
        PROVE  u = v
    BY <1>3, <1>5, <2>2 DEF WorkInv, StartedHeld, HeldStarted
  <2> QED BY <2>1, <2>2 DEF StartedHeld
<1> QED BY <1>4, <1>6, <1>7 DEF WorkInv

LEMMA WorkAwait ==
  ASSUME TypeInv, WorkInv, NEW w \in Workers, AwaitTask(w)
  PROVE  WorkInv'
<1> DEFINE popped == {u \in queue : Stale(u)}
<1>1. \A u \in Issued : Pending(u)' => Pending(u) /\ u \notin popped
  BY DropStale DEF AwaitTask
<1>2. /\ queue' = queue \ popped
      /\ UNCHANGED <<started, wtask>> /\ Issued' = Issued
      /\ \A v \in Workers : Holding(v)' <=> Holding(v)
  BY DEF AwaitTask, HeapAfterScan, Issued, Holding, TypeInv, WorkPart
<1> HIDE DEF popped
<1>3. UnstartedQueued'
  BY <1>1, <1>2 DEF WorkInv, UnstartedQueued
<1>4. HeldStarted'
  BY <1>2 DEF WorkInv, HeldStarted
<1>5. \A u \in started' : Pending(u)' =>
        \E v \in Workers : Holding(v)' /\ wtask'[v] = u
  BY <1>1, <1>2 DEF WorkInv, StartedHeld, TypeInv, TaskPart
<1>6. \A u, v \in Workers :
        Holding(u)' /\ Holding(v)' /\ wtask'[u] = wtask'[v] => u = v
  BY <1>2 DEF WorkInv, StartedHeld
<1> QED BY <1>3, <1>4, <1>5, <1>6 DEF WorkInv, StartedHeld

(* A worker lets go of a task only when the task is finished.              *)
LEMMA WorkFinish ==
  ASSUME TypeInv, WorkInv, NEW w \in Workers, FinishTask(w) \/ FinishLost(w)
  PROVE  WorkInv'
<1>1. /\ ~Holding(w)'
      /\ \A v \in Workers \ {w} : (Holding(v)' <=> Holding(v)) /\ wtask'[v] = wtask[v]
  BY DEF FinishTask, FinishLost, Awake, Holding, TypeInv, WorkPart
<1>2. /\ UNCHANGED <<queue, started>> /\ Issued' = Issued
      /\ wtask[w] \in TaskId
  <2>1. wtask[w] \in Issued
    BY DEF FinishTask, FinishLost, Holding, TypeInv, WorkPart
  <2> QED BY <2>1, IssuedTask DEF FinishTask, FinishLost, Issued, taskVars
<1>3. \A u \in Issued : Pending(u)' => Pending(u) /\ u # wtask[w]
  <2> SUFFICES ASSUME NEW u \in Issued, Pending(u)' PROVE Pending(u) /\ u # wtask[w]
    OBVIOUS
  <2>1. u \in TaskId
    BY IssuedTask
  <2>2. CASE FinishTask(w)
    BY <1>2, <2>1, <2>2 DEF FinishTask, Settled, Pending
  <2>3. CASE FinishLost(w)
    BY <2>3 DEF FinishLost, taskVars, Pending
  <2> QED BY <2>2, <2>3
<1>4. UnstartedQueued'
  BY <1>2, <1>3 DEF WorkInv, UnstartedQueued
<1>5. HeldStarted'
  BY <1>1, <1>2 DEF WorkInv, HeldStarted
<1>6. ASSUME NEW u \in started', Pending(u)'
      PROVE  \E v \in Workers : Holding(v)' /\ wtask'[v] = u
  <2>1. u \in started /\ Pending(u) /\ u # wtask[w]
    BY <1>2, <1>3, <1>6 DEF TypeInv, TaskPart
  <2>2. PICK v \in Workers : Holding(v) /\ wtask[v] = u
    BY <2>1 DEF WorkInv, StartedHeld
  <2> QED BY <1>1, <2>1, <2>2
<1>7. \A u, v \in Workers :
        Holding(u)' /\ Holding(v)' /\ wtask'[u] = wtask'[v] => u = v
  BY <1>1 DEF WorkInv, StartedHeld
<1> QED BY <1>4, <1>5, <1>6, <1>7 DEF WorkInv, StartedHeld

LEMMA WorkInvStep == TypeInv /\ WorkInv /\ [Next]_vars => WorkInv'
<1> SUFFICES ASSUME TypeInv, WorkInv, [Next]_vars PROVE WorkInv'
  OBVIOUS
<1>1. ASSUME UNCHANGED <<queue, started, nseq, result, wpc, wtask>> PROVE WorkInv'
  BY <1>1, WorkQuiet DEF Holding, Pending
<1>2. ASSUME NEW h \in Handles, Open(h) \/ Release(h) PROVE WorkInv'
  BY <1>1, <1>2 DEF Open, Release, taskVars, workVars
<1>3. ASSUME NEW r \in Readers, StartRead(r) PROVE WorkInv'
  BY <1>1, <1>3 DEF StartRead, PrepareRead, workVars
<1>4. ASSUME NEW r \in Readers, EnsureBackground(r) \/ EnsureForeground(r)
      PROVE  WorkInv'
  <2>1. read[r] \in Read
    BY <1>4 DEF EnsureBackground, EnsureForeground, TypeInv, ReadPart
  <2>2. /\ \A x \in read[r].plan : <<ReadFile(r), x[1]>> \in Key
        /\ \A c \in read[r].need : <<ReadFile(r), c>> \in Key
    BY <2>1, SchedulerAssumption DEF Read, ReadFile, Key
  <2>3. CASE Refused
    BY <1>1, <2>3 DEF Refused, taskVars, workVars
  <2>4. ASSUME NEW k \in Key, NEW e, NEW p, NEW t \in TaskId, EnsureTask(k, e, p, t)
        PROVE  WorkInv'
    BY <2>4, WorkEnsure
  <2> QED BY <1>4, <2>2, <2>3, <2>4 DEF EnsureBackground, EnsureForeground
<1>5. ASSUME NEW r \in Readers,
             \/ ScheduleBuffer(r) \/ PeekBackground(r) \/ PeekChunk(r)
             \/ MarkForeground(r) \/ TaskDone(r) \/ Interrupt(r) \/ StartHedge(r)
      PROVE  WorkInv'
  BY <1>1, <1>5 DEF ScheduleBuffer, PeekBackground, PeekChunk, MarkForeground,
                    TaskDone, Interrupt, StartHedge, taskVars, workVars
<1>6. ASSUME NEW w \in Workers, WorkerStep(w) PROVE WorkInv'
  <2>1. CASE DownloadOk(w) \/ DownloadFail(w) \/ WorkerExit(w)
    <3>1. \A v \in Workers : Holding(v)' <=> Holding(v)
      BY <2>1 DEF DownloadOk, DownloadFail, WorkerExit, Holding, TypeInv, WorkPart
    <3> QED BY <2>1, <3>1, WorkQuiet
            DEF DownloadOk, DownloadFail, WorkerExit, taskVars, Pending
  <2>2. CASE WorkerSend(w)
    <3>1. \A v \in Workers : /\ Holding(v)' <=> Holding(v)
                             /\ Holding(v) => wtask'[v] = wtask[v]
      BY <2>2 DEF WorkerSend, Holding, TypeInv, WorkPart
    <3> QED BY <2>2, <3>1, WorkQuiet DEF WorkerSend, taskVars, Pending
  <2> QED BY <1>6, <2>1, <2>2, WorkTake, WorkAwait, WorkFinish DEF WorkerStep
<1>7. ASSUME NEW t \in TaskId, HedgeStep(t) PROVE WorkInv'
  <2>1. CASE PublishHedge(t)
    <3>1. \A u \in Issued : Pending(u)' => Pending(u)
      <4> SUFFICES ASSUME NEW u \in Issued, Pending(u)' PROVE Pending(u)
        OBVIOUS
      <4>1. u \in TaskId
        BY IssuedTask
      <4> QED BY <2>1, <4>1 DEF PublishHedge, Settled, Pending
    <3> QED BY <2>1, <3>1, WorkQuiet DEF PublishHedge, workVars, Holding
  <2>2. CASE HedgeOk(t) \/ HedgeFail(t) \/ HedgeSend(t)
    BY <1>1, <2>2 DEF HedgeOk, HedgeFail, HedgeSend, taskVars, workVars
  <2> QED BY <1>7, <2>1, <2>2 DEF HedgeStep
<1>8. CASE Close
  <2>1. \A v \in Workers : Holding(v)' <=> Holding(v)
    BY <1>8 DEF Close, Awake, Holding, TypeInv, WorkPart
  <2> QED BY <1>8, <2>1, WorkQuiet DEF Close, Pending
<1>9. CASE \/ \E k \in Key : Evict(k)
           \/ \E S \in SUBSET cached : ReclaimIdle(S)
           \/ DiskWrite \/ CloseStep \/ UNCHANGED vars
  BY <1>1, <1>9 DEF Evict, ReclaimIdle, DiskWrite, CloseStep, CloseChannel,
                    CloseReturns, taskVars, workVars, vars
<1> QED BY <1>2, <1>3, <1>4, <1>5, <1>6, <1>7, <1>8, <1>9 DEF Next, ReaderStep

LEMMA WorkInvariance == Spec => []WorkInv
<1>1. Init => WorkInv
  BY DEF Init, WorkInv, UnstartedQueued, StartedHeld, HeldStarted, Issued, Holding
<1> QED BY <1>1, WorkInvStep, TypeInvariance, PTL DEF Spec

(* A task no worker has taken is in the heap until it is finished, and a   *)
(* taken one is not: nextTask's scans lose nothing and heap.Fix is only    *)
(* called on tasks in the heap.                                            *)
THEOREM UnstartedTasksQueued == Spec => []UnstartedQueued
BY WorkInvariance, PTL DEF WorkInv

(* A started, unfinished task is in the hands of exactly one worker.       *)
THEOREM StartedTasksHeld == Spec => []StartedHeld
BY WorkInvariance, PTL DEF WorkInv

-----------------------------------------------------------------------------
(* The race between a worker and a hedged request                          *)

Trying(w) == wpc[w] \in {"try1", "try2"}

LEMMA LoserQuiet ==
  ASSUME TypeInv, LoserCancelled,
         \A t \in TaskId : result'[t] = "ok" => result[t] = "ok",
         \A t \in TaskId : hedge'[t] = "run" => hedge[t] = "run",
         hcancelled \subseteq hcancelled', cancelled \subseteq cancelled',
         \A w \in Workers : Trying(w)' => Trying(w) /\ wtask'[w] = wtask[w]
  PROVE  LoserCancelled'
BY DEF LoserCancelled, Trying

LEMMA LoserCancelledStep ==
  TypeInv /\ WorkInv /\ LoserCancelled /\ [Next]_vars => LoserCancelled'
<1> SUFFICES ASSUME TypeInv, WorkInv, LoserCancelled, [Next]_vars
             PROVE  LoserCancelled'
  OBVIOUS
<1>1. ASSUME UNCHANGED <<result, hedge, hcancelled, wtask>>,
             cancelled \subseteq cancelled',
             \A w \in Workers : Trying(w)' => Trying(w)
      PROVE  LoserCancelled'
  BY <1>1, LoserQuiet
<1>2. ASSUME NEW h \in Handles, Open(h) \/ Release(h) PROVE LoserCancelled'
  <2>1. /\ UNCHANGED <<result, hedge, hcancelled, wtask, wpc>>
        /\ cancelled \subseteq cancelled'
    BY <1>2 DEF Open, Release, taskVars, hedgeVars, workVars
  <2> QED BY <1>1, <2>1 DEF Trying
<1>3. ASSUME NEW r \in Readers, StartRead(r) PROVE LoserCancelled'
  <2>1. /\ UNCHANGED <<result, hedge, hcancelled, wtask, wpc>>
        /\ cancelled \subseteq cancelled'
    BY <1>3 DEF StartRead, PrepareRead, hedgeVars, workVars
  <2> QED BY <1>1, <2>1 DEF Trying
<1>4. ASSUME NEW r \in Readers, ReaderStep(r) \/ Interrupt(r)
      PROVE  LoserCancelled'
  <2>1. /\ UNCHANGED <<result, hedge, hcancelled, wtask, cancelled>>
        /\ \A w \in Workers : wpc'[w] = wpc[w] \/ wpc'[w] = "ready"
    <3>1. ASSUME NEW k, NEW e, NEW p, NEW t, EnsureTask(k, e, p, t)
          PROVE  /\ UNCHANGED <<result, hedge, hcancelled, wtask, cancelled>>
                 /\ \A w \in Workers : wpc'[w] = wpc[w] \/ wpc'[w] = "ready"
      BY <3>1 DEF EnsureTask, Reuse, Create, Signal, Asleep, hedgeVars, TypeInv, WorkPart
    <3>2. ASSUME Refused
          PROVE  UNCHANGED <<result, hedge, hcancelled, wtask, cancelled, wpc>>
      BY <3>2 DEF Refused, taskVars, hedgeVars, workVars
    <3>3. CASE EnsureBackground(r) \/ EnsureForeground(r)
      BY <3>1, <3>2, <3>3 DEF EnsureBackground, EnsureForeground
    <3>4. CASE \/ ScheduleBuffer(r) \/ PeekBackground(r) \/ PeekChunk(r)
               \/ MarkForeground(r) \/ TaskDone(r) \/ Interrupt(r)
      BY <3>4 DEF ScheduleBuffer, PeekBackground, PeekChunk, MarkForeground,
                  TaskDone, Interrupt, taskVars, hedgeVars, workVars
    <3> QED BY <1>4, <3>3, <3>4 DEF ReaderStep
  <2> QED BY <1>1, <2>1 DEF Trying
<1>5. ASSUME NEW r \in Readers, StartHedge(r) PROVE LoserCancelled'
  <2>1. Pending(read[r].task) /\ hedge' = [hedge EXCEPT ![read[r].task] = "run"]
    BY <1>5 DEF StartHedge, Hedgeable
  <2> QED BY <1>5, <2>1 DEF StartHedge, LoserCancelled, Pending, taskVars, workVars,
                            TypeInv, TaskPart
<1>6. ASSUME NEW w \in Workers, WorkerStep(w) PROVE LoserCancelled'
  <2>1. CASE NextTask(w)
    <3>1. PICK t \in queue : Take(w, t)
      BY <2>1 DEF NextTask
    <3> DEFINE popped == {u \in queue : Stale(u) /\ Before(u, t)}
    <3>2. \A u \in TaskId : result'[u] = "ok" => result[u] = "ok"
      BY <3>1 DEF Take, Discard, Settled
    <3>3. t \in TaskId /\ result[t] # "ok"
      BY <3>1, IssuedTask DEF Take, Startable, Stale, Pending, TypeInv, TaskPart
    <3>4. \A v \in Workers : Trying(v)' =>
            (v = w /\ wtask'[v] = t) \/ (Trying(v) /\ wtask'[v] = wtask[v])
      BY <2>1, <3>1 DEF NextTask, Take, Trying, TypeInv, WorkPart
    <3> QED BY <2>1, <3>2, <3>3, <3>4 DEF NextTask, LoserCancelled, Trying, hedgeVars
  <2>2. CASE AwaitTask(w)
    <3>1. \A u \in TaskId : result'[u] = "ok" => result[u] = "ok"
      BY <2>2 DEF AwaitTask, Discard, Settled
    <3>2. \A v \in Workers : Trying(v)' => Trying(v)
      BY <2>2 DEF AwaitTask, Trying, TypeInv, WorkPart
    <3> QED BY <2>2, <3>1, <3>2, LoserQuiet DEF AwaitTask, hedgeVars
  <2>3. CASE WorkerExit(w) \/ DownloadOk(w) \/ DownloadFail(w)
    <3>1. \A v \in Workers : Trying(v)' => Trying(v)
      BY <2>3 DEF WorkerExit, DownloadOk, DownloadFail, Trying, TypeInv, WorkPart
    <3> QED BY <1>1, <2>3, <3>1
            DEF WorkerExit, DownloadOk, DownloadFail, taskVars, hedgeVars
  <2>4. CASE WorkerSend(w) \/ FinishLost(w)
    <3>1. \A v \in Workers : Trying(v)' => Trying(v) /\ wtask'[v] = wtask[v]
      BY <2>4 DEF WorkerSend, FinishLost, Awake, Trying, TypeInv, WorkPart
    <3> QED BY <2>4, <3>1, LoserQuiet DEF WorkerSend, FinishLost, taskVars, hedgeVars
  <2>5. CASE FinishTask(w)
    <3> DEFINE t == wtask[w]
    <3>1. Holding(w) /\ t \in TaskId
      BY <2>5, IssuedTask DEF FinishTask, Holding, TypeInv, WorkPart
    <3>2. \A v \in Workers : Trying(v)' => v # w /\ Trying(v) /\ wtask'[v] = wtask[v]
      BY <2>5 DEF FinishTask, Awake, Trying, TypeInv, WorkPart
    <3>3. \A v \in Workers : Trying(v)' => wtask'[v] # t
      BY <3>1, <3>2 DEF WorkInv, StartedHeld, Holding, Trying
    <3>4. \A u \in TaskId : result'[u] = "ok" => result[u] = "ok" \/ u = t
      BY <2>5 DEF FinishTask, Settled
    <3>5. hedge' = hedge /\ cancelled' = cancelled /\ hcancelled \subseteq hcancelled'
          /\ (hedge[t] = "run" => t \in hcancelled')
      BY <2>5 DEF FinishTask
    <3> HIDE DEF t
    <3> QED BY <3>2, <3>3, <3>4, <3>5 DEF LoserCancelled, Trying
  <2> QED BY <1>6, <2>1, <2>2, <2>3, <2>4, <2>5 DEF WorkerStep
<1>7. ASSUME NEW t \in TaskId, HedgeStep(t) PROVE LoserCancelled'
  <2>1. \A u \in TaskId : hedge'[u] = "run" => hedge[u] = "run" /\ u # t
    BY <1>7 DEF HedgeStep, HedgeOk, HedgeFail, PublishHedge, HedgeSend, TypeInv, TaskPart
  <2>2. UNCHANGED <<hcancelled, wpc, wtask>>
    BY <1>7 DEF HedgeStep, HedgeOk, HedgeFail, PublishHedge, HedgeSend, workVars
  <2>3. CASE PublishHedge(t) /\ Pending(t)
    <3>1. \A u \in TaskId : result'[u] = "ok" => result[u] = "ok" \/ u = t
      BY <2>3 DEF PublishHedge, Settled
    <3>2. cancelled' = cancelled \cup {t}
      BY <2>3 DEF PublishHedge, CancelPrimary
    <3> QED BY <2>1, <2>2, <3>1, <3>2 DEF LoserCancelled
  <2>4. CASE ~(PublishHedge(t) /\ Pending(t))
    <3>1. UNCHANGED <<result, cancelled>>
      BY <1>7, <2>4 DEF HedgeStep, HedgeOk, HedgeFail, PublishHedge, HedgeSend, taskVars
    <3> QED BY <2>1, <2>2, <3>1 DEF LoserCancelled
  <2> QED BY <2>3, <2>4
<1>8. CASE Close
  <2>1. \A v \in Workers : Trying(v)' => Trying(v)
    BY <1>8 DEF Close, Awake, Trying, TypeInv, WorkPart
  <2>2. cancelled \subseteq cancelled'
    BY <1>8 DEF Close, TypeInv, TaskPart
  <2> QED BY <1>8, <2>1, <2>2 DEF Close, LoserCancelled, Trying
<1>9. CASE \/ \E k \in Key : Evict(k)
           \/ \E S \in SUBSET cached : ReclaimIdle(S)
           \/ DiskWrite \/ CloseStep \/ UNCHANGED vars
  <2>1. UNCHANGED <<result, hedge, hcancelled, wtask, cancelled, wpc>>
    BY <1>9 DEF Evict, ReclaimIdle, DiskWrite, CloseStep, CloseChannel,
                CloseReturns, taskVars, hedgeVars, workVars, vars
  <2> QED BY <1>1, <2>1 DEF Trying
<1> QED BY <1>2, <1>3, <1>4, <1>5, <1>6, <1>7, <1>8, <1>9 DEF Next

(* Whoever publishes a chunk, worker or hedged request, has cancelled the  *)
(* other one.                                                              *)
THEOREM LosersCancelled == Spec => []LoserCancelled
<1>1. Init => LoserCancelled
  BY DEF Init, LoserCancelled
<1> QED BY <1>1, LoserCancelledStep, TypeInvariance, WorkInvariance, PTL DEF Spec

-----------------------------------------------------------------------------
(* Close                                                                   *)

LEMMA NoSendOnClosedStep ==
  TypeInv /\ NoSendOnClosed /\ [Next]_vars => NoSendOnClosed'
<1> SUFFICES ASSUME TypeInv, NoSendOnClosed, [Next]_vars PROVE NoSendOnClosed'
  OBVIOUS
<1>1. CASE cpc \in {"draining", "done"}
  <2>1. /\ \A w \in Workers : wpc[w] = "exit"
        /\ \A t \in TaskId : hedge[t] \in {"none", "done"}
        /\ Closed
    BY <1>1 DEF NoSendOnClosed, Closed
  <2>2. ASSUME NEW w \in Workers, WorkerStep(w) PROVE FALSE
    BY <2>1, <2>2 DEF WorkerStep, NextTask, AwaitTask, WorkerExit, DownloadOk,
                      DownloadFail, FinishLost, FinishTask, WorkerSend
  <2>3. ASSUME NEW t \in TaskId, HedgeStep(t) PROVE FALSE
    BY <2>1, <2>3 DEF HedgeStep, HedgeOk, HedgeFail, PublishHedge, HedgeSend
  <2>4. ASSUME NEW r \in Readers, ReaderStep(r) \/ Interrupt(r)
        PROVE  UNCHANGED <<wpc, hedge>>
    BY <2>1, <2>4 DEF ReaderStep, ScheduleBuffer, PeekBackground, EnsureBackground,
         PeekChunk, EnsureForeground, MarkForeground, TaskDone, Interrupt,
         EnsureTask, Refused, hedgeVars, workVars
  <2>5. ASSUME NEW r \in Readers, StartRead(r) \/ StartHedge(r) PROVE FALSE
    BY <2>1, <2>5 DEF StartRead, PrepareRead, StartHedge
  <2>6. CASE Close
    BY <1>1, <2>6 DEF Close
  <2>7. CASE \/ \E h \in Handles : Open(h) \/ Release(h)
             \/ \E k \in Key : Evict(k)
             \/ \E S \in SUBSET cached : ReclaimIdle(S)
             \/ DiskWrite \/ CloseStep \/ UNCHANGED vars
    <3>1. UNCHANGED <<wpc, hedge>>
      BY <2>7 DEF Open, Release, Evict, ReclaimIdle, DiskWrite, CloseStep,
                  CloseChannel, CloseReturns, hedgeVars, workVars, vars
    <3> QED BY <2>1, <3>1 DEF NoSendOnClosed
  <2> QED BY <2>1, <2>2, <2>3, <2>4, <2>5, <2>6, <2>7 DEF Next, NoSendOnClosed
<1>2. CASE cpc \notin {"draining", "done"}
  <2>1. CASE CloseChannel
    BY <2>1 DEF CloseChannel, AllGone, NoSendOnClosed, hedgeVars, workVars
  <2>2. CASE ~CloseChannel
    <3>1. cpc' = cpc \/ cpc' = "closing"
      <4>1. ASSUME NEW r \in Readers,
                   StartRead(r) \/ ReaderStep(r) \/ Interrupt(r) \/ StartHedge(r)
            PROVE  cpc' = cpc
        <5>1. ASSUME StartRead(r) PROVE cpc' = cpc
          BY <5>1 DEF StartRead, PrepareRead
        <5>2. ASSUME ReaderStep(r) PROVE cpc' = cpc
          BY <5>2 DEF ReaderStep, ScheduleBuffer, PeekBackground, EnsureBackground,
               PeekChunk, EnsureForeground, MarkForeground, TaskDone, EnsureTask,
               Refused
        <5> QED BY <4>1, <5>1, <5>2 DEF Interrupt, StartHedge
      <4>2. ASSUME NEW w \in Workers, WorkerStep(w) PROVE cpc' = cpc
        BY <4>2 DEF WorkerStep, NextTask, AwaitTask, WorkerExit, DownloadOk,
                    DownloadFail, FinishLost, FinishTask, WorkerSend
      <4>3. ASSUME NEW t \in TaskId, HedgeStep(t) PROVE cpc' = cpc
        BY <4>3 DEF HedgeStep, HedgeOk, HedgeFail, PublishHedge, HedgeSend
      <4>4. CASE CloseStep
        BY <1>2, <2>2, <4>4 DEF CloseStep, CloseReturns
      <4>5. CASE \/ \E h \in Handles : Open(h) \/ Release(h)
                 \/ \E k \in Key : Evict(k)
                 \/ \E S \in SUBSET cached : ReclaimIdle(S)
                 \/ DiskWrite \/ Close \/ UNCHANGED vars
        BY <4>5 DEF Open, Release, Evict, ReclaimIdle, DiskWrite, Close, vars
      <4> QED BY <4>1, <4>2, <4>3, <4>4, <4>5 DEF Next
    <3> QED BY <1>2, <3>1 DEF NoSendOnClosed
  <2> QED BY <2>1, <2>2
<1> QED BY <1>1, <1>2

(* Once the disk-write channel is closed, every worker and every hedged    *)
(* request has ended and none starts again: nobody sends on it.            *)
THEOREM NobodySendsOnClosed == Spec => []NoSendOnClosed
<1>1. Init => NoSendOnClosed
  BY DEF Init, NoSendOnClosed
<1> QED BY <1>1, NoSendOnClosedStep, TypeInvariance, PTL DEF Spec
=============================================================================
