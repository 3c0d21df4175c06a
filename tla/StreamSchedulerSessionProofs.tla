-------------------- MODULE StreamSchedulerSessionProofs --------------------
(***************************************************************************)
(* Theorems about the sessions of StreamScheduler: references and workers  *)
(* are counted exactly, the active handle is open, a session ends with its *)
(* last handle and task, and a read waits for the right task, which nobody *)
(* but Close takes from it.                                                *)
(***************************************************************************)
EXTENDS StreamSchedulerWorkProofs, FiniteSetTheorems

-----------------------------------------------------------------------------
(* Sessions as their invariants see them                                   *)

(* The counts and the active handle of a session; no session counts as one *)
(* with nothing in it, for cleaning one up must not change what the        *)
(* invariants count.                                                       *)
RefsOf(s) == IF s = None THEN 0 ELSE s.refs
InflightOf(s) == IF s = None THEN 0 ELSE s.inflight
ActiveOf(s) == IF s = None THEN None ELSE s.active

(* The open handles of a file.                                             *)
OpenOn(f) == {h \in Handles : IsOpen(h) /\ HandleFile[h] = f}

(* A session before and after a step that moves no reference and no        *)
(* worker: it may lose its active handle only by being dropped.            *)
Alike(s, s1) ==
  /\ RefsOf(s1) = RefsOf(s)
  /\ InflightOf(s1) = InflightOf(s)
  /\ ActiveOf(s1) \in {ActiveOf(s), None}

(* There are finitely many handles and workers to count.                   *)
LEMMA OpenOnFinite ==
  ASSUME NEW f
  PROVE  IsFiniteSet(OpenOn(f)) /\ Cardinality(OpenOn(f)) \in Nat
BY SchedulerAssumption, FS_Subset, FS_CardinalityType DEF OpenOn

(* The same of the workers.                                                *)
LEMMA WorkersOnFinite ==
  ASSUME NEW f
  PROVE  IsFiniteSet(WorkersOn(f)) /\ Cardinality(WorkersOn(f)) \in Nat
BY SchedulerAssumption, FS_Subset, FS_CardinalityType DEF WorkersOn

(* InflightNotLeaked in terms of the counts.                               *)
LEMMA NotLeakedView ==
  ASSUME TypeInv
  PROVE  InflightNotLeaked <=>
           \A f \in Files : InflightOf(session[f]) <= Cardinality(WorkersOn(f))
BY WorkersOnFinite DEF InflightNotLeaked, InflightOf, TypeInv, SessPart, Session

(* The fields of a session that an update leaves alone.                    *)
LEMMA SessionFields ==
  ASSUME NEW s \in Session
  PROVE  /\ s # None /\ s.refs \in Nat /\ s.inflight \in Nat /\ s.epoch \in Nat
         /\ s.active \in Handles \cup {None}
         /\ RefsOf(s) = s.refs /\ InflightOf(s) = s.inflight /\ ActiveOf(s) = s.active
BY NilAssumption DEF Session, RefsOf, InflightOf, ActiveOf

(* The window, the streak of slow chunks and inflight are independent of   *)
(* the other fields.                                                       *)
LEMMA WindowAlike ==
  ASSUME NEW s \in Session, NEW b \in BOOLEAN
  PROVE  /\ [s EXCEPT !.window = b] \in Session
         /\ Alike(s, [s EXCEPT !.window = b])
<1> PICK s1 : s1 = [s EXCEPT !.window = b]
  OBVIOUS
<1>1. /\ s1 \in Session
      /\ s1.refs = s.refs
      /\ s1.inflight = s.inflight
      /\ s1.active = s.active
  BY DEF Session
<1> QED BY <1>1, SessionFields DEF Alike

(* See WindowAlike.                                                        *)
LEMMA SlowAlike ==
  ASSUME NEW s \in Session, NEW n \in 0..2
  PROVE  /\ [s EXCEPT !.slow = n] \in Session
         /\ Alike(s, [s EXCEPT !.slow = n])
<1> PICK s1 : s1 = [s EXCEPT !.slow = n]
  OBVIOUS
<1>1. /\ s1 \in Session
      /\ s1.refs = s.refs
      /\ s1.inflight = s.inflight
      /\ s1.active = s.active
  BY DEF Session
<1> QED BY <1>1, SessionFields DEF Alike

(* See WindowAlike.                                                        *)
LEMMA InflightFields ==
  ASSUME NEW s \in Session, NEW n \in Nat
  PROVE  /\ [s EXCEPT !.inflight = n] \in Session
         /\ [s EXCEPT !.inflight = n].inflight = n
         /\ [s EXCEPT !.inflight = n].refs = s.refs
         /\ [s EXCEPT !.inflight = n].active = s.active
BY DEF Session

(* cleanupSessionLocked drops only sessions without references, workers    *)
(* and pending tasks.                                                      *)
LEMMA CleanedAlike ==
  ASSUME NEW ss \in [Files -> Session \cup {None}], NEW fs, NEW map, NEW res,
         NEW f \in Files
  PROVE  LET c == Cleaned(ss, fs, map, res)[f] IN
         /\ c \in {ss[f], None}
         /\ Alike(ss[f], c)
         /\ f \notin fs => c = ss[f]
         /\ ss[f] # None /\ c = None =>
              \A k \in Chunks :
                map[<<f, k>>] # NoTask => res[map[<<f, k>>]] # "pending"
         /\ f \in fs /\ c # None =>
              \/ ss[f].refs # 0
              \/ ss[f].inflight # 0
              \/ \E k \in Chunks : map[<<f, k>>] # NoTask
BY DEF Cleaned, Alike, RefsOf, InflightOf, ActiveOf


-----------------------------------------------------------------------------
(* What the steps do to sessions and workers                               *)

(* No pending task of f is registered after the step.                      *)
TasksGone(f) ==
  \A c \in Chunks :
    tasks'[<<f, c>>] # NoTask => result'[tasks'[<<f, c>>]] # "pending"

(* A step that opens, releases, takes and finishes nothing.                *)
RestStep ==
  \/ \E r \in Readers : ReaderStep(r) \/ Interrupt(r) \/ StartHedge(r)
  \/ \E w \in Workers : \/ AwaitTask(w) \/ WorkerExit(w) \/ DownloadOk(w)
                        \/ DownloadFail(w) \/ WorkerSend(w)
  \/ \E t \in TaskId : HedgeStep(t)
  \/ \E k \in Key : Evict(k)
  \/ \E S \in SUBSET cached : ReclaimIdle(S)
  \/ DiskWrite \/ Close \/ CloseStep \/ UNCHANGED vars

(* The cases of the proofs below.                                          *)
LEMMA StepCases ==
  [Next]_vars =>
    \/ \E h \in Handles : Open(h) \/ Release(h)
    \/ \E r \in Readers : StartRead(r)
    \/ \E w \in Workers : NextTask(w) \/ FinishTask(w) \/ FinishLost(w)
    \/ RestStep
BY DEF Next, RestStep, WorkerStep

(* A session is like itself.                                               *)
LEMMA SameAlike ==
  ASSUME NEW s
  PROVE  Alike(s, s)
BY DEF Alike

(* ensureTask wakes a worker at most, and gives an issued task no other    *)
(* chunk.                                                                  *)
LEMMA EnsureKeeps ==
  ASSUME TypeInv, NEW r \in Readers, EnsureBackground(r) \/ EnsureForeground(r)
  PROVE  /\ UNCHANGED <<session, hstate, wtask>>
         /\ \A w \in Workers :
              wpc'[w] = wpc[w] \/ (wpc[w] = "asleep" /\ wpc'[w] = "ready")
         /\ \A t \in Issued : tkey'[t] = tkey[t]
<1>1. ASSUME Refused
      PROVE  UNCHANGED <<session, hstate, wtask, wpc, tkey>>
  BY <1>1 DEF Refused, sessVars, taskVars, workVars
<1>2. ASSUME NEW k, NEW e, NEW p, NEW t, EnsureTask(k, e, p, t)
      PROVE  /\ UNCHANGED <<session, hstate, wtask>>
             /\ \A w \in Workers :
                  wpc'[w] = wpc[w] \/ (wpc[w] = "asleep" /\ wpc'[w] = "ready")
             /\ \A u \in Issued : tkey'[u] = tkey[u]
  <2>1. UNCHANGED <<session, hstate, wtask>>
    BY <1>2 DEF EnsureTask, sessVars
  <2>2. CASE Reuse(k, p, t)
    BY <2>1, <2>2 DEF Reuse
  <2>3. CASE Create(k, e, p, t)
    <3>1. \A w \in Workers :
            wpc'[w] = wpc[w] \/ (wpc[w] = "asleep" /\ wpc'[w] = "ready")
      BY <2>3 DEF Create, Signal, Asleep, TypeInv, WorkPart
    <3>2. \A u \in Issued : tkey'[u] = tkey[u]
      BY <2>3 DEF Create, TypeInv, TaskPart, Issued, TaskId
    <3> QED BY <2>1, <3>1, <3>2
  <2> QED BY <1>2, <2>2, <2>3 DEF EnsureTask
<1> QED BY <1>1, <1>2 DEF EnsureBackground, EnsureForeground

(* The other steps keep references and counts, and drop a session only     *)
(* when it has neither and nothing pending.                                *)
LEMMA RestSessions ==
  ASSUME TypeInv, RestStep
  PROVE  /\ UNCHANGED hstate
         /\ \A f \in Files :
              /\ Alike(session[f], session'[f])
              /\ session[f] = None => session'[f] = None
              /\ session[f] # None /\ session'[f] = None => TasksGone(f)
<1>t. session \in [Files -> Session \cup {None}]
  BY DEF TypeInv, SessPart
<1>1. CASE UNCHANGED <<session, hstate>>
  BY <1>1, SameAlike
<1>2. ASSUME NEW r \in Readers, EnsureBackground(r) \/ EnsureForeground(r)
      PROVE  UNCHANGED <<session, hstate>>
  BY <1>2, EnsureKeeps
<1>3. ASSUME NEW r \in Readers, ScheduleBuffer(r), ~UNCHANGED session
      PROVE  /\ UNCHANGED hstate
             /\ \A f \in Files :
                  /\ Alike(session[f], session'[f])
                  /\ session[f] = None <=> session'[f] = None
  <2> DEFINE g == ReadFile(r)
  <2>1. /\ session[g] # None
        /\ session' = [session EXCEPT ![g] = [session[g] EXCEPT !.window = TRUE]]
        /\ UNCHANGED hstate
    BY <1>3 DEF ScheduleBuffer
  <2> HIDE DEF g
  <2>2. ASSUME g \in Files
        PROVE  /\ [session[g] EXCEPT !.window = TRUE] \in Session
               /\ Alike(session[g], [session[g] EXCEPT !.window = TRUE])
    BY <1>t, <2>1, <2>2, WindowAlike
  <2> QED BY <1>t, <2>1, <2>2, SameAlike, NilAssumption
<1>4. ASSUME NEW r \in Readers, StartHedge(r), ~UNCHANGED session
      PROVE  /\ UNCHANGED hstate
             /\ \A f \in Files :
                  /\ Alike(session[f], session'[f])
                  /\ session[f] = None <=> session'[f] = None
  <2> DEFINE g == FileOf(read[r].task)
  <2>1. /\ session[g] # None
        /\ session' = [session EXCEPT ![g].slow = (@ + 1) % 3]
        /\ UNCHANGED hstate
    BY <1>4 DEF StartHedge
  <2> HIDE DEF g
  <2>2. ASSUME g \in Files
        PROVE  \E n \in 0..2 : session' = [session EXCEPT ![g] = [session[g] EXCEPT !.slow = n]]
    <3>1. session[g] \in Session
      BY <1>t, <2>1, <2>2
    <3>2. (session[g].slow + 1) % 3 \in 0..2
      BY <3>1 DEF Session
    <3> QED BY <2>1, <3>2
  <2>3. ASSUME g \in Files, NEW n \in 0..2
        PROVE  /\ [session[g] EXCEPT !.slow = n] \in Session
               /\ Alike(session[g], [session[g] EXCEPT !.slow = n])
    BY <1>t, <2>1, <2>3, SlowAlike
  <2> QED BY <1>t, <2>1, <2>2, <2>3, SameAlike, NilAssumption
<1>5. ASSUME NEW w \in Workers, AwaitTask(w)
      PROVE  /\ UNCHANGED hstate
             /\ \A f \in Files :
                  /\ Alike(session[f], session'[f])
                  /\ session[f] = None => session'[f] = None
                  /\ session[f] # None /\ session'[f] = None => TasksGone(f)
  <2>1. PICK fs : session' = Cleaned(session, fs, tasks', result')
    BY <1>5 DEF AwaitTask, Discard, SessionsAfterDiscard
  <2>2. UNCHANGED hstate
    BY <1>5 DEF AwaitTask
  <2> QED BY <1>t, <2>1, <2>2, CleanedAlike DEF TasksGone
<1>6. ASSUME NEW S \in SUBSET cached, ReclaimIdle(S)
      PROVE  /\ UNCHANGED hstate
             /\ \A f \in Files :
                  /\ Alike(session[f], session'[f])
                  /\ session[f] = None <=> session'[f] = None
  <2>1. UNCHANGED hstate /\ \A f \in Files : session'[f] =
               IF session[f] = None THEN None
               ELSE [session[f] EXCEPT !.window = FALSE]
    BY <1>6 DEF ReclaimIdle
  <2>2. ASSUME NEW f \in Files, session[f] # None
        PROVE  /\ [session[f] EXCEPT !.window = FALSE] \in Session
               /\ Alike(session[f], [session[f] EXCEPT !.window = FALSE])
    BY <1>t, <2>2, WindowAlike
  <2> QED BY <2>1, <2>2, SameAlike, NilAssumption
<1>7. ASSUME NEW r \in Readers,
             \/ PeekBackground(r) \/ PeekChunk(r) \/ MarkForeground(r)
             \/ TaskDone(r) \/ Interrupt(r)
      PROVE  UNCHANGED <<session, hstate>>
  BY <1>7 DEF PeekBackground, PeekChunk, MarkForeground, TaskDone, Interrupt, sessVars
<1>8. ASSUME NEW w \in Workers,
             WorkerExit(w) \/ DownloadOk(w) \/ DownloadFail(w) \/ WorkerSend(w)
      PROVE  UNCHANGED <<session, hstate>>
  BY <1>8 DEF WorkerExit, DownloadOk, DownloadFail, WorkerSend, sessVars
<1>9. ASSUME NEW t \in TaskId, HedgeStep(t) PROVE UNCHANGED <<session, hstate>>
  BY <1>9 DEF HedgeStep, HedgeOk, HedgeFail, PublishHedge, HedgeSend, sessVars
<1>10. ASSUME \/ \E k \in Key : Evict(k)
              \/ DiskWrite \/ Close \/ CloseStep \/ UNCHANGED vars
       PROVE  UNCHANGED <<session, hstate>>
  BY <1>10 DEF Evict, DiskWrite, Close, CloseStep, CloseChannel, CloseReturns,
               sessVars, vars
<1>11. ASSUME NEW r \in Readers, ScheduleBuffer(r) \/ StartHedge(r)
       PROVE  UNCHANGED hstate
  BY <1>11 DEF ScheduleBuffer, StartHedge
<1> QED
  <2>1. CASE \E r \in Readers : ReaderStep(r) \/ Interrupt(r) \/ StartHedge(r)
    <3>1. PICK r \in Readers : ReaderStep(r) \/ Interrupt(r) \/ StartHedge(r)
      BY <2>1
    <3> QED BY <1>1, <1>2, <1>3, <1>4, <1>7, <1>11, <3>1 DEF ReaderStep
  <2> QED BY <2>1, <1>1, <1>5, <1>6, <1>8, <1>9, <1>10 DEF RestStep

(* They keep every worker at its task.                                     *)
LEMMA WorkersKept ==
  ASSUME TypeInv, NEW f,
         \A w \in Workers : /\ Holding(w)' <=> Holding(w)
                            /\ Holding(w) => wtask'[w] = wtask[w],
         \A t \in Issued : tkey'[t] = tkey[t]
  PROVE  WorkersOn(f)' = WorkersOn(f)
<1>1. \A w \in Workers : Holding(w) => wtask[w] \in Issued
  BY DEF TypeInv, WorkPart
<1> QED BY <1>1 DEF WorkersOn, FileOf

(* So the workers on a file stay the same.                                 *)
LEMMA RestWorkers ==
  ASSUME TypeInv, RestStep, NEW f
  PROVE  WorkersOn(f)' = WorkersOn(f)
<1>1. ASSUME NEW r \in Readers, ReaderStep(r) \/ Interrupt(r) \/ StartHedge(r)
      PROVE  /\ UNCHANGED wtask
             /\ \A w \in Workers :
                  wpc'[w] = wpc[w] \/ (wpc[w] = "asleep" /\ wpc'[w] = "ready")
             /\ \A t \in Issued : tkey'[t] = tkey[t]
  <2>1. CASE EnsureBackground(r) \/ EnsureForeground(r)
    BY <2>1, EnsureKeeps
  <2> QED BY <1>1, <2>1 DEF ReaderStep, ScheduleBuffer, PeekBackground, PeekChunk,
             MarkForeground, TaskDone, Interrupt, StartHedge, taskVars, workVars
<1>2. ASSUME NEW v \in Workers,
             \/ AwaitTask(v) \/ WorkerExit(v) \/ DownloadOk(v)
             \/ DownloadFail(v) \/ WorkerSend(v)
      PROVE  /\ \A w \in Workers : /\ Holding(w)' <=> Holding(w)
                                   /\ Holding(w) => wtask'[w] = wtask[w]
             /\ UNCHANGED tkey
  BY <1>2 DEF AwaitTask, WorkerExit, DownloadOk, DownloadFail, WorkerSend, Holding,
              taskVars, TypeInv, WorkPart
<1>3. ASSUME NEW t \in TaskId, HedgeStep(t) PROVE UNCHANGED <<wpc, wtask, tkey>>
  BY <1>3 DEF HedgeStep, HedgeOk, HedgeFail, PublishHedge, HedgeSend, taskVars, workVars
<1>4. ASSUME Close
      PROVE  /\ UNCHANGED <<wtask, tkey>>
             /\ \A w \in Workers : Holding(w)' <=> Holding(w)
  BY <1>4 DEF Close, Awake, Holding, TypeInv, WorkPart
<1>5. ASSUME \/ \E k \in Key : Evict(k)
             \/ \E S \in SUBSET cached : ReclaimIdle(S)
             \/ DiskWrite \/ CloseStep \/ UNCHANGED vars
      PROVE  UNCHANGED <<wpc, wtask, tkey>>
  BY <1>5 DEF Evict, ReclaimIdle, DiskWrite, CloseStep, CloseChannel, CloseReturns,
              taskVars, workVars, vars
<1>6. /\ \A w \in Workers : /\ Holding(w)' <=> Holding(w)
                            /\ Holding(w) => wtask'[w] = wtask[w]
      /\ \A t \in Issued : tkey'[t] = tkey[t]
  BY <1>1, <1>2, <1>3, <1>4, <1>5 DEF RestStep, Holding
<1> QED BY <1>6, WorkersKept


(* A worker that takes a task counts in the session of its file, if there  *)
(* is one.                                                                 *)
LEMMA TakeSessions ==
  ASSUME TypeInv, NEW w \in Workers, NextTask(w)
  PROVE  /\ UNCHANGED hstate
         /\ \E t \in queue :
              /\ Pending(t) /\ t \notin cancelled
              /\ result'[t] = result[t]
              /\ \A k \in Key : tasks[k] = t => tasks'[k] = t
              /\ FileOf(t) \in Files
              /\ ~(w \in WorkersOn(FileOf(t)))
              /\ \A f \in Files :
                   /\ WorkersOn(f)' = IF f = FileOf(t) THEN WorkersOn(f) \cup {w}
                                      ELSE WorkersOn(f)
                   /\ RefsOf(session'[f]) = RefsOf(session[f])
                   /\ ActiveOf(session'[f]) \in {ActiveOf(session[f]), None}
                   /\ InflightOf(session'[f]) =
                        IF f = FileOf(t) /\ session'[f] # None
                        THEN InflightOf(session[f]) + 1 ELSE InflightOf(session[f])
                   /\ session[f] = None => session'[f] = None
                   /\ session[f] # None /\ session'[f] = None => TasksGone(f)
<1>t. session \in [Files -> Session \cup {None}]
  BY DEF TypeInv, SessPart
<1>1. PICK t \in queue : Take(w, t)
  BY DEF NextTask
<1> DEFINE popped == {u \in queue : Stale(u) /\ Before(u, t)}
           ss == SessionsAfterDiscard(popped)
           g == FileOf(t)
<1>2. t \in Issued /\ t \in TaskId /\ g \in Files
  BY IssuedTask DEF TypeInv, TaskPart, FileOf, Key
<1>3. Pending(t) /\ t \notin cancelled /\ t \notin Unfinished(popped)
  BY <1>1 DEF Take, Startable, Stale, Unfinished
<1>4. /\ result'[t] = result[t]
      /\ \A k \in Key : tasks[k] = t => tasks'[k] = t
  BY <1>1, <1>2, <1>3 DEF Take, Discard, Settled, Unregistered
<1>5. PICK fs : ss = Cleaned(session, fs, tasks', result')
  BY <1>1 DEF Take, Discard, SessionsAfterDiscard
<1>6. /\ session' = IF ss[g] = None THEN ss ELSE [ss EXCEPT ![g].inflight = @ + 1]
      /\ wtask' = [wtask EXCEPT ![w] = t]
  BY <1>1 DEF Take
<1>7. ss \in [Files -> Session \cup {None}]
  BY <1>t, <1>5, CleanedType
<1>8. \A f \in Files :
        /\ Alike(session[f], ss[f])
        /\ session[f] = None => ss[f] = None
        /\ session[f] # None /\ ss[f] = None => TasksGone(f)
  BY <1>t, <1>5, CleanedAlike DEF TasksGone
<1> HIDE DEF ss
<1>9. \A f \in Files \ {g} : session'[f] = ss[f]
  BY <1>2, <1>6, <1>7
<1>10. ASSUME ss[g] # None
       PROVE  /\ session'[g] # None
              /\ RefsOf(session'[g]) = RefsOf(ss[g])
              /\ ActiveOf(session'[g]) = ActiveOf(ss[g])
              /\ InflightOf(session'[g]) = InflightOf(ss[g]) + 1
  <2>1. ss[g] \in Session
    BY <1>2, <1>7, <1>10
  <2>2. ss[g].inflight + 1 \in Nat
    BY <2>1, SessionFields
  <2> PICK s1 : s1 = [ss[g] EXCEPT !.inflight = ss[g].inflight + 1]
    OBVIOUS
  <2>3. s1 \in Session /\ s1.inflight = ss[g].inflight + 1 /\ s1.refs = ss[g].refs
        /\ s1.active = ss[g].active
    BY <2>1, <2>2, InflightFields, Zenon
  <2>4. session'[g] = s1
    BY <1>2, <1>6, <1>7, <1>10
  <2> QED BY <2>1, <2>3, <2>4, SessionFields
<1>11. /\ Holding(w)' /\ wtask'[w] = t /\ ~Holding(w)
       /\ \A v \in Workers \ {w} : Holding(v)' = Holding(v) /\ wtask'[v] = wtask[v]
       /\ UNCHANGED <<tkey, hstate>>
  BY <1>6 DEF NextTask, Holding, TypeInv, WorkPart
<1>12. /\ w \notin WorkersOn(g)
       /\ \A f \in Files : WorkersOn(f)' = IF f = g THEN WorkersOn(f) \cup {w}
                                           ELSE WorkersOn(f)
  BY <1>11 DEF WorkersOn, FileOf
<1>13. ASSUME NEW f \in Files
       PROVE  /\ RefsOf(session'[f]) = RefsOf(session[f])
              /\ ActiveOf(session'[f]) \in {ActiveOf(session[f]), None}
              /\ InflightOf(session'[f]) =
                   IF f = g /\ session'[f] # None
                   THEN InflightOf(session[f]) + 1 ELSE InflightOf(session[f])
              /\ session[f] = None => session'[f] = None
              /\ session[f] # None /\ session'[f] = None => TasksGone(f)
  <2>1. CASE f # g
    BY <1>8, <1>9, <2>1 DEF Alike
  <2>2. CASE f = g /\ ss[g] = None
    <3>1. session'[g] = None
      BY <1>6, <2>2
    <3>2. Alike(session[g], None)
      BY <1>8, <2>2
    <3> QED BY <1>8, <2>2, <3>1, <3>2 DEF Alike
  <2>3. CASE f = g /\ ss[g] # None
    <3>1. Alike(session[g], ss[g]) /\ (session[g] = None => ss[g] = None)
      BY <1>8, <2>3
    <3> QED BY <1>10, <2>3, <3>1 DEF Alike
  <2> QED BY <2>1, <2>2, <2>3
<1> HIDE DEF g
<1>14. g = FileOf(t)
  BY DEF g
<1>15. \A f \in Files :
        /\ WorkersOn(f)' = IF f = FileOf(t) THEN WorkersOn(f) \cup {w}
                           ELSE WorkersOn(f)
        /\ RefsOf(session'[f]) = RefsOf(session[f])
        /\ ActiveOf(session'[f]) \in {ActiveOf(session[f]), None}
        /\ InflightOf(session'[f]) =
             IF f = FileOf(t) /\ session'[f] # None
             THEN InflightOf(session[f]) + 1 ELSE InflightOf(session[f])
        /\ session[f] = None => session'[f] = None
        /\ session[f] # None /\ session'[f] = None => TasksGone(f)
  BY <1>12, <1>13, <1>14
<1> QED BY <1>2, <1>3, <1>4, <1>11, <1>12, <1>14, <1>15, Zenon

(* A worker that lets go of a task leaves the count, if it is in it.       *)
LEMMA FinishSessions ==
  ASSUME TypeInv, NEW w \in Workers, FinishTask(w) \/ FinishLost(w)
  PROVE  LET g == FileOf(wtask[w]) IN
         /\ UNCHANGED <<hstate, nseq, tkey>>
         /\ g \in Files
         /\ w \in WorkersOn(g)
         /\ \A f \in Files :
              /\ WorkersOn(f)' = IF f = g THEN WorkersOn(f) \ {w} ELSE WorkersOn(f)
              /\ RefsOf(session'[f]) = RefsOf(session[f])
              /\ ActiveOf(session'[f]) \in {ActiveOf(session[f]), None}
              /\ InflightOf(session'[f]) =
                   IF f = g /\ InflightOf(session[f]) > 0
                   THEN InflightOf(session[f]) - 1 ELSE InflightOf(session[f])
              /\ session[f] = None => session'[f] = None
              /\ session[f] # None /\ session'[f] = None => TasksGone(f)
              /\ f = g /\ session'[f] # None =>
                   \/ session'[f].refs > 0
                   \/ session'[f].inflight > 0
                   \/ \E c \in Chunks : tasks'[<<f, c>>] # NoTask
              /\ f # g => session'[f] = session[f]
<1> DEFINE t == wtask[w]
           g == FileOf(t)
<1>t. session \in [Files -> Session \cup {None}]
  BY DEF TypeInv, SessPart
<1>1. Holding(w) /\ t \in Issued /\ g \in Files
  <2>1. Holding(w)
    BY DEF FinishTask, FinishLost, Holding
  <2>2. t \in Issued
    BY <2>1 DEF TypeInv, WorkPart
  <2> QED BY <2>1, <2>2, IssuedTask DEF FileOf, Key
<1>2. UNCHANGED <<hstate, nseq, tkey>>
  BY DEF FinishTask, FinishLost, taskVars
<1>3. /\ ~Holding(w)'
      /\ \A v \in Workers \ {w} : (Holding(v)' <=> Holding(v)) /\ wtask'[v] = wtask[v]
  BY DEF FinishTask, FinishLost, Awake, Holding, TypeInv, WorkPart
<1>4. /\ w \in WorkersOn(g)
      /\ \A f \in Files : WorkersOn(f)' = IF f = g THEN WorkersOn(f) \ {w}
                                          ELSE WorkersOn(f)
  BY <1>1, <1>2, <1>3 DEF WorkersOn, FileOf
<1>5. PICK ss : /\ ss \in {Released(t), Unslowed(Released(t), t)}
                /\ session' = Cleaned(ss, {g}, tasks', result')
  BY DEF FinishTask, FinishLost, taskVars
<1>6. ss \in [Files -> Session \cup {None}]
  BY <1>5, ReleasedType, UnslowedType
<1>7. /\ \A f \in Files \ {g} : Released(t)[f] = session[f]
      /\ session[g] = None <=> Released(t)[g] = None
      /\ RefsOf(Released(t)[g]) = RefsOf(session[g])
      /\ ActiveOf(Released(t)[g]) = ActiveOf(session[g])
      /\ InflightOf(Released(t)[g]) = IF InflightOf(session[g]) > 0
                                      THEN InflightOf(session[g]) - 1
                                      ELSE InflightOf(session[g])
  <2>1. CASE session[g] # None /\ session[g].inflight > 0
    <3>1. session[g] \in Session
      BY <1>t, <1>1, <2>1
    <3>2. session[g].inflight - 1 \in Nat
      BY <2>1, <3>1, SessionFields
    <3> PICK s1 : s1 = [session[g] EXCEPT !.inflight = session[g].inflight - 1]
      OBVIOUS
    <3>3. s1 \in Session /\ s1.inflight = session[g].inflight - 1
          /\ s1.refs = session[g].refs /\ s1.active = session[g].active
      BY <3>1, <3>2, InflightFields, Zenon
    <3>4. Released(t) = [session EXCEPT ![g] = s1]
      BY <2>1 DEF Released
    <3>5. Released(t)[g] = s1 /\ \A f \in Files \ {g} : Released(t)[f] = session[f]
      BY <1>t, <1>1, <3>4
    <3> QED BY <2>1, <3>1, <3>3, <3>5, SessionFields
  <2>2. CASE ~(session[g] # None /\ session[g].inflight > 0)
    <3>1. Released(t) = session
      BY <2>2 DEF Released
    <3>2. ~(InflightOf(session[g]) > 0)
      BY <2>2 DEF InflightOf
    <3> QED BY <3>1, <3>2
  <2> QED BY <2>1, <2>2
<1>8. /\ \A f \in Files \ {g} : ss[f] = session[f]
      /\ session[g] = None <=> ss[g] = None
      /\ Alike(Released(t)[g], ss[g])
  <2>1. CASE ss = Released(t)
    BY <1>7, <2>1, SameAlike
  <2>2. CASE ss # Released(t)
    <3> PICK rel : rel = Released(t)
      OBVIOUS
    <3>0. rel \in [Files -> Session \cup {None}]
      BY ReleasedType
    <3>1. rel[g] # None /\ ss = [rel EXCEPT ![g].slow = 0]
      BY <1>5, <2>2 DEF Unslowed
    <3>2. rel[g] \in Session
      BY <1>1, <3>0, <3>1
    <3>3. /\ [rel[g] EXCEPT !.slow = 0] \in Session
          /\ Alike(rel[g], [rel[g] EXCEPT !.slow = 0])
      <4>1. 0 \in 0..2
        OBVIOUS
      <4> QED BY <3>2, <4>1, SlowAlike, Zenon
    <3>4. /\ ss[g] = [rel[g] EXCEPT !.slow = 0]
          /\ \A f \in Files \ {g} : ss[f] = rel[f]
      BY <1>1, <3>0, <3>1
    <3> QED BY <1>7, <3>1, <3>3, <3>4, NilAssumption
  <2> QED BY <2>1, <2>2
<1>9. \A f \in Files :
        /\ session'[f] \in {ss[f], None}
        /\ Alike(ss[f], session'[f])
        /\ f # g => session'[f] = ss[f]
        /\ ss[f] # None /\ session'[f] = None => TasksGone(f)
        /\ f = g /\ session'[f] # None =>
             \/ ss[f].refs # 0
             \/ ss[f].inflight # 0
             \/ \E c \in Chunks : tasks'[<<f, c>>] # NoTask
  BY <1>5, <1>6, CleanedAlike DEF TasksGone
<1>10. \A f \in Files \ {g} : session'[f] = session[f]
  BY <1>8, <1>9
<1>11. /\ RefsOf(session'[g]) = RefsOf(session[g])
       /\ ActiveOf(session'[g]) \in {ActiveOf(session[g]), None}
       /\ InflightOf(session'[g]) = IF InflightOf(session[g]) > 0
                                    THEN InflightOf(session[g]) - 1
                                    ELSE InflightOf(session[g])
       /\ session[g] = None => session'[g] = None
       /\ session[g] # None /\ session'[g] = None => TasksGone(g)
  <2>1. Alike(ss[g], session'[g]) /\ session'[g] \in {ss[g], None}
        /\ (ss[g] # None /\ session'[g] = None => TasksGone(g))
    BY <1>1, <1>9
  <2> QED BY <1>7, <1>8, <2>1 DEF Alike
<1>12. session'[g] # None =>
         \/ session'[g].refs > 0
         \/ session'[g].inflight > 0
         \/ \E c \in Chunks : tasks'[<<g, c>>] # NoTask
  <2> SUFFICES ASSUME session'[g] # None
               PROVE  \/ session'[g].refs > 0
                      \/ session'[g].inflight > 0
                      \/ \E c \in Chunks : tasks'[<<g, c>>] # NoTask
    OBVIOUS
  <2>1. session'[g] = ss[g] /\ ss[g] \in Session
    BY <1>1, <1>6, <1>9
  <2>2. ss[g].refs \in Nat /\ ss[g].inflight \in Nat
    BY <2>1, SessionFields
  <2>3. \/ ss[g].refs # 0
        \/ ss[g].inflight # 0
        \/ \E c \in Chunks : tasks'[<<g, c>>] # NoTask
    BY <1>1, <1>9, <2>1
  <2> QED BY <2>1, <2>2, <2>3
<1> HIDE DEF g
<1>13. g = FileOf(wtask[w])
  BY DEF g
<1> QED BY <1>1, <1>2, <1>4, <1>10, <1>11, <1>12, <1>13, SameAlike DEF Alike


(* Open counts the handle in the session of its file.                      *)
LEMMA OpenSessions ==
  ASSUME TypeInv, NEW h \in Handles, Open(h)
  PROVE  LET g == HandleFile[h] IN
         /\ g \in Files
         /\ h \notin OpenOn(g)
         /\ \A f \in Files :
              /\ OpenOn(f)' = IF f = g THEN OpenOn(f) \cup {h} ELSE OpenOn(f)
              /\ RefsOf(session'[f]) = IF f = g THEN RefsOf(session[f]) + 1
                                       ELSE RefsOf(session[f])
              /\ ActiveOf(session'[f]) = ActiveOf(session[f])
              /\ InflightOf(session'[f]) = InflightOf(session[f])
              /\ session'[f] = None => session[f] = None
              /\ f # g => session'[f] = session[f]
         /\ \A a \in Handles : IsOpen(a) => IsOpen(a)'
         /\ session'[g] # None
<1> DEFINE g == HandleFile[h]
<1>t. session \in [Files -> Session \cup {None}] /\ g \in Files
  BY SchedulerAssumption DEF TypeInv, SessPart
<1>1. /\ hstate' = [hstate EXCEPT ![h] = "fresh"] /\ hstate[h] = "new"
      /\ session' = [session EXCEPT ![g] = [SessionOf(g) EXCEPT !.refs = @ + 1]]
  BY DEF Open
<1>2. /\ h \notin OpenOn(g)
      /\ \A f \in Files : OpenOn(f)' = IF f = g THEN OpenOn(f) \cup {h} ELSE OpenOn(f)
      /\ \A a \in Handles : IsOpen(a) => IsOpen(a)'
  BY <1>1 DEF OpenOn, IsOpen, TypeInv, SessPart
<1>3. SessionOf(g) \in Session
  BY <1>t, SessionOfType
<1>4. /\ SessionOf(g).refs = RefsOf(session[g])
      /\ SessionOf(g).active = ActiveOf(session[g])
      /\ SessionOf(g).inflight = InflightOf(session[g])
  BY DEF SessionOf, FreshSession, RefsOf, ActiveOf, InflightOf
<1> PICK s1 : s1 = [SessionOf(g) EXCEPT !.refs = @ + 1]
  OBVIOUS
<1>5. /\ s1 \in Session /\ s1.refs = SessionOf(g).refs + 1
      /\ s1.active = SessionOf(g).active /\ s1.inflight = SessionOf(g).inflight
  BY <1>3 DEF Session
<1>6. session'[g] = s1 /\ \A f \in Files \ {g} : session'[f] = session[f]
  BY <1>t, <1>1
<1>7. /\ s1 # None
      /\ RefsOf(s1) = s1.refs
      /\ ActiveOf(s1) = s1.active
      /\ InflightOf(s1) = s1.inflight
  BY <1>5, SessionFields
<1> HIDE DEF g
<1>8. g = HandleFile[h]
  BY DEF g
<1> QED BY <1>t, <1>2, <1>4, <1>5, <1>6, <1>7, <1>8

(* Release takes it out again, and ends its epoch if it is active.         *)
LEMMA ReleaseSessions ==
  ASSUME TypeInv, NEW h \in Handles, Release(h), session[HandleFile[h]] # None
  PROVE  LET g == HandleFile[h] IN
         /\ g \in Files
         /\ h \in OpenOn(g)
         /\ \A f \in Files :
              /\ OpenOn(f)' = IF f = g THEN OpenOn(f) \ {h} ELSE OpenOn(f)
              /\ RefsOf(session'[f]) = IF f = g /\ RefsOf(session[f]) > 0
                                       THEN RefsOf(session[f]) - 1
                                       ELSE RefsOf(session[f])
              /\ ActiveOf(session'[f]) \in {ActiveOf(session[f]), None}
              /\ f = g => ActiveOf(session'[f]) # h
              /\ InflightOf(session'[f]) = InflightOf(session[f])
              /\ session[f] = None => session'[f] = None
              /\ session[f] # None /\ session'[f] = None => TasksGone(f)
              /\ f = g /\ session'[f] # None =>
                   \/ session'[f].refs > 0
                   \/ session'[f].inflight > 0
                   \/ \E c \in Chunks : tasks'[<<f, c>>] # NoTask
              /\ f # g => session'[f] = session[f]
         /\ \A a \in Handles \ {h} : IsOpen(a) => IsOpen(a)'
<1> DEFINE g == HandleFile[h]
           s == session[g]
           refs1 == IF s.refs > 0 THEN s.refs - 1 ELSE 0
           s1 == IF EndsEpoch(s, h)
                 THEN [s EXCEPT !.refs = refs1, !.epoch = @ + 1,
                                !.active = None, !.window = FALSE]
                 ELSE [s EXCEPT !.refs = refs1]
<1>t. session \in [Files -> Session \cup {None}] /\ g \in Files /\ s \in Session
  BY SchedulerAssumption DEF TypeInv, SessPart
<1>1. /\ IsOpen(h) /\ hstate' = [hstate EXCEPT ![h] = "released"]
      /\ session' = Cleaned([session EXCEPT ![g] = s1], {g}, tasks', result')
  BY DEF Release
<1>2. /\ h \in OpenOn(g)
      /\ \A f \in Files : OpenOn(f)' = IF f = g THEN OpenOn(f) \ {h} ELSE OpenOn(f)
      /\ \A a \in Handles \ {h} : IsOpen(a) => IsOpen(a)'
  BY <1>1 DEF OpenOn, IsOpen, TypeInv, SessPart
<1>3. /\ s # None /\ s.refs \in Nat /\ s.epoch \in Nat /\ s.active \in Handles \cup {None}
      /\ RefsOf(s) = s.refs /\ InflightOf(s) = s.inflight /\ ActiveOf(s) = s.active
  BY <1>t, SessionFields
<1>4. /\ s1 \in Session /\ s1.refs = refs1 /\ s1.inflight = s.inflight
      /\ s1.active \in {s.active, None} /\ s1.active # h
  <2>1. refs1 \in Nat /\ s.epoch + 1 \in Nat /\ None # h
    BY <1>3, SchedulerAssumption
  <2> HIDE DEF refs1, s
  <2>2. [s EXCEPT !.refs = refs1] \in Session
    BY <1>t, <2>1 DEF Session
  <2>3. CASE EndsEpoch(s, h)
    <3>1. s1 = [[s EXCEPT !.refs = refs1] EXCEPT !.epoch = s.epoch + 1,
                  !.active = None, !.window = FALSE]
      BY <1>t, <2>3 DEF Session
    <3> PICK s2 : s2 = [s EXCEPT !.refs = refs1]
      OBVIOUS
    <3>2. s2 \in Session /\ s2.refs = refs1 /\ s2.inflight = s.inflight
      BY <1>t, <2>1 DEF Session
    <3> PICK s3 : s3 = [s2 EXCEPT !.epoch = s.epoch + 1, !.active = None, !.window = FALSE]
      OBVIOUS
    <3>3. s3 \in Session
      BY <3>2, <2>1, NewEpochType, Zenon
    <3>4. s3.refs = s2.refs /\ s3.inflight = s2.inflight /\ s3.active = None
      BY <3>2 DEF Session
    <3>5. s1 = s3
      BY <3>1
    <3> HIDE DEF s1
    <3> QED BY <2>1, <3>2, <3>3, <3>4, <3>5
  <2>4. CASE ~EndsEpoch(s, h)
    <3>1. s.active # h
      BY <1>3, <2>4 DEF EndsEpoch
    <3> PICK s2 : s2 = [s EXCEPT !.refs = refs1]
      OBVIOUS
    <3>2. s2 \in Session /\ s2.refs = refs1 /\ s2.inflight = s.inflight
          /\ s2.active = s.active
      BY <1>t, <2>1 DEF Session
    <3> QED BY <2>4, <3>1, <3>2
  <2> QED BY <2>3, <2>4
<1> HIDE DEF s1
<1>ss. PICK ss : ss = [session EXCEPT ![g] = s1]
  OBVIOUS
<1>5. /\ ss \in [Files -> Session \cup {None}]
      /\ ss[g] = s1 /\ \A f \in Files \ {g} : ss[f] = session[f]
  BY <1>t, <1>4, <1>ss
<1>6. \A f \in Files :
        /\ session'[f] \in {ss[f], None}
        /\ Alike(ss[f], session'[f])
        /\ f # g => session'[f] = ss[f]
        /\ ss[f] # None /\ session'[f] = None => TasksGone(f)
        /\ f = g /\ session'[f] # None =>
             \/ ss[f].refs # 0
             \/ ss[f].inflight # 0
             \/ \E c \in Chunks : tasks'[<<f, c>>] # NoTask
  <2>1. session' = Cleaned(ss, {g}, tasks', result')
    BY <1>1, <1>ss
  <2>2. ss \in [Files -> Session \cup {None}]
    BY <1>5
  <2> HIDE DEF g, s, refs1
  <2> QED BY <2>1, <2>2, CleanedAlike DEF TasksGone
<1>7. /\ s1 # None /\ s1.refs \in Nat /\ s1.inflight \in Nat
      /\ RefsOf(s1) = s1.refs /\ InflightOf(s1) = s1.inflight /\ ActiveOf(s1) = s1.active
  BY <1>4, SessionFields
<1>8. \A f \in Files \ {g} : session'[f] = session[f]
  BY <1>5, <1>6
<1>9. /\ RefsOf(session'[g]) = refs1
      /\ ActiveOf(session'[g]) \in {s.active, None} \ {h}
      /\ InflightOf(session'[g]) = s.inflight
      /\ session'[g] = None => TasksGone(g)
  <2>1. /\ Alike(s1, session'[g])
        /\ s1 # None /\ session'[g] = None => TasksGone(g)
    BY <1>t, <1>5, <1>6
  <2>2. None # h
    BY SchedulerAssumption
  <2> HIDE DEF refs1, s
  <2> QED BY <1>4, <1>7, <2>1, <2>2 DEF Alike
<1>10. session'[g] # None =>
         \/ session'[g].refs > 0
         \/ session'[g].inflight > 0
         \/ \E c \in Chunks : tasks'[<<g, c>>] # NoTask
  BY <1>t, <1>5, <1>6, <1>7
<1>11. refs1 = IF RefsOf(s) > 0 THEN RefsOf(s) - 1 ELSE RefsOf(s)
  BY <1>3
<1> HIDE DEF refs1
<1>12. s = session[g] /\ g = HandleFile[h]
  BY DEF s, g
<1> HIDE DEF s, g
<1> QED BY <1>t, <1>2, <1>3, <1>8, <1>9, <1>10, <1>11, <1>12, SameAlike DEF Alike

(* prepareRead may make the reading handle the active one.                 *)
LEMMA StartSessions ==
  ASSUME TypeInv, NEW r \in Readers, StartRead(r)
  PROVE  \E h \in Handles :
           LET g == HandleFile[h] IN
           /\ IsOpen(h)
           /\ \A a \in Handles : IsOpen(a)' <=> IsOpen(a)
           /\ g \in Files
           /\ session'[g] # None
           /\ ActiveOf(session'[g]) \in {ActiveOf(session[g]), None, h}
           /\ \A f \in Files :
                /\ RefsOf(session'[f]) = RefsOf(session[f])
                /\ InflightOf(session'[f]) = InflightOf(session[f])
                /\ f # g => session'[f] = session[f]
           /\ rpc[r] = "idle"
           /\ rpc' = [rpc EXCEPT ![r] = rpc'[r]]
           /\ read' = [read EXCEPT ![r] = read'[r]]
           /\ rpc'[r] \in {"buffer", "background", "peek"}
           /\ read'[r].handle = h
           /\ UNCHANGED <<tasks, result, wpc, wtask, tkey, nseq>>
<1>1. PICK h \in Handles, within \in BOOLEAN, need \in Spans :
        \E obs \in Observations(hstate[h]) : PrepareRead(r, h, obs, within, need)
  BY DEF StartRead
<1>2. PICK obs \in Observations(hstate[h]) : PrepareRead(r, h, obs, within, need)
  BY <1>1
<1> DEFINE g == HandleFile[h]
           s1 == PreparedSession(SessionOf(g), h, obs, within)
<1>t. session \in [Files -> Session \cup {None}] /\ g \in Files
  BY SchedulerAssumption DEF TypeInv, SessPart
<1>3. SessionOf(g) \in Session
  BY <1>t, SessionOfType
<1>4. /\ s1 \in Session
      /\ s1.refs = SessionOf(g).refs /\ s1.inflight = SessionOf(g).inflight
      /\ s1.active \in {SessionOf(g).active, h}
  <2> PICK s : s = SessionOf(g)
    OBVIOUS
  <2>1. s \in Session /\ s.epoch + 1 \in Nat
    BY <1>3 DEF Session
  <2> PICK s2 : s2 = [s EXCEPT !.epoch = @ + 1, !.active = h, !.window = FALSE]
    OBVIOUS
  <2> PICK s3 : s3 = [s EXCEPT !.active = h]
    OBVIOUS
  <2>2. s2.refs = s.refs /\ s2.inflight = s.inflight /\ s2.active = h
    BY <2>1 DEF Session
  <2>3. s3.refs = s.refs /\ s3.inflight = s.inflight /\ s3.active = h
    BY <2>1 DEF Session
  <2>4. s1 \in {s, s2, s3}
    BY DEF PreparedSession
  <2>5. s1 \in Session
    BY <1>3, PreparedSessionType
  <2> HIDE DEF s1
  <2> QED BY <2>2, <2>3, <2>4, <2>5
<1>5. /\ SessionOf(g).refs = RefsOf(session[g])
      /\ SessionOf(g).active = ActiveOf(session[g])
      /\ SessionOf(g).inflight = InflightOf(session[g])
  BY DEF SessionOf, FreshSession, RefsOf, ActiveOf, InflightOf
<1> HIDE DEF s1
<1>6. /\ session' = [session EXCEPT ![g] = s1] /\ IsOpen(h) /\ rpc[r] = "idle"
      /\ hstate' = [hstate EXCEPT ![h] = obs.mode]
      /\ UNCHANGED <<tasks, result, wpc, wtask, tkey, nseq>>
  BY <1>2 DEF PrepareRead, s1, workVars
<1>7. session'[g] = s1 /\ \A f \in Files \ {g} : session'[f] = session[f]
  BY <1>t, <1>6
<1>8. /\ s1 # None
      /\ RefsOf(s1) = s1.refs
      /\ ActiveOf(s1) = s1.active
      /\ InflightOf(s1) = s1.inflight
  BY <1>4, SessionFields
<1>9. \A a \in Handles : IsOpen(a)' <=> IsOpen(a)
  <2>1. obs.mode \in {"probe", "stream"}
    BY DEF Observations
  <2> QED BY <1>6, <2>1 DEF IsOpen, TypeInv, SessPart
<1>10. /\ rpc' = [rpc EXCEPT ![r] = rpc'[r]]
       /\ read' = [read EXCEPT ![r] = read'[r]]
       /\ rpc'[r] \in {"buffer", "background", "peek"}
       /\ read'[r].handle = h
  <2>1. PICK kind \in {"stream", "probe", "plain"}, plan \in Plans \cup {{}} :
          /\ read' = [read EXCEPT ![r] =
               [handle |-> h, epoch |-> s1.epoch, kind |-> kind, need |-> need,
                plan |-> plan, after |-> FALSE, task |-> NoTask]]
          /\ rpc' = [rpc EXCEPT ![r] = CASE kind = "stream" -> "buffer"
                                         [] plan # {} -> "background"
                                         [] OTHER -> "peek"]
    BY <1>2 DEF PrepareRead, s1
  <2> PICK d : d = [handle |-> h, epoch |-> s1.epoch, kind |-> kind, need |-> need,
                    plan |-> plan, after |-> FALSE, task |-> NoTask]
    OBVIOUS
  <2>2. d.handle = h /\ read' = [read EXCEPT ![r] = d]
    BY <2>1
  <2>3. PICK pc : /\ rpc' = [rpc EXCEPT ![r] = pc]
                  /\ pc = CASE kind = "stream" -> "buffer"
                            [] plan # {} -> "background"
                            [] OTHER -> "peek"
    BY <2>1
  <2>4. pc \in {"buffer", "background", "peek"}
    BY <2>3
  <2> QED BY <2>2, <2>3, <2>4 DEF TypeInv, ReadPart
<1> HIDE DEF g
<1>11. g = HandleFile[h]
  BY DEF g
<1>12. /\ session'[g] # None
       /\ ActiveOf(session'[g]) \in {ActiveOf(session[g]), None, h}
       /\ \A f \in Files :
            /\ RefsOf(session'[f]) = RefsOf(session[f])
            /\ InflightOf(session'[f]) = InflightOf(session[f])
            /\ f # g => session'[f] = session[f]
  BY <1>4, <1>5, <1>7, <1>8
<1> QED BY <1>t, <1>6, <1>9, <1>10, <1>11, <1>12


-----------------------------------------------------------------------------
(* References and the active handle                                        *)

(* An open handle keeps its session in m.sessions.                         *)
LEMMA AliveSession ==
  ASSUME TypeInv, RefsExact, NEW h \in Handles, IsOpen(h)
  PROVE  /\ session[HandleFile[h]] # None
         /\ RefsOf(session[HandleFile[h]]) \in Nat \ {0}
<1> DEFINE g == HandleFile[h]
<1>1. g \in Files /\ h \in OpenOn(g)
  BY SchedulerAssumption DEF OpenOn
<1>2. Cardinality(OpenOn(g)) \in Nat \ {0}
  BY <1>1, OpenOnFinite, FS_EmptySet
<1>3. Cardinality(OpenOn(g)) = RefsOf(session[g])
  BY <1>1 DEF RefsExact, OpenOn, RefsOf
<1> QED BY <1>2, <1>3 DEF RefsOf

(* Only Open and Release move references, each by one;                     *)
(* cleanupSessionLocked drops none.                                        *)
LEMMA RefsExactStep == TypeInv /\ RefsExact /\ [Next]_vars => RefsExact'
<1> SUFFICES ASSUME TypeInv, RefsExact, [Next]_vars,
                    NEW f \in Files
             PROVE  Cardinality(OpenOn(f)') = RefsOf(session'[f])
  BY DEF RefsExact, OpenOn, RefsOf
<1>1. Cardinality(OpenOn(f)) = RefsOf(session[f])
  BY DEF RefsExact, OpenOn, RefsOf
<1>2. IsFiniteSet(OpenOn(f)) /\ Cardinality(OpenOn(f)) \in Nat
  BY OpenOnFinite
<1>3. ASSUME NEW h \in Handles, Open(h)
      PROVE  Cardinality(OpenOn(f)') = RefsOf(session'[f])
  <2>1. /\ OpenOn(f)' = IF f = HandleFile[h] THEN OpenOn(f) \cup {h} ELSE OpenOn(f)
        /\ h \notin OpenOn(HandleFile[h])
        /\ RefsOf(session'[f]) = IF f = HandleFile[h] THEN RefsOf(session[f]) + 1
                                 ELSE RefsOf(session[f])
    BY <1>3, OpenSessions
  <2>2. CASE f = HandleFile[h]
    <3>1. Cardinality(OpenOn(f) \cup {h}) = Cardinality(OpenOn(f)) + 1
      BY <1>2, <2>1, <2>2, FS_AddElement
    <3> QED BY <1>1, <2>1, <2>2, <3>1
  <2>3. CASE f # HandleFile[h]
    BY <1>1, <2>1, <2>3
  <2> QED BY <2>2, <2>3
<1>4. ASSUME NEW h \in Handles, Release(h)
      PROVE  Cardinality(OpenOn(f)') = RefsOf(session'[f])
  <2>1. IsOpen(h)
    BY <1>4 DEF Release
  <2>2. /\ session[HandleFile[h]] # None
        /\ RefsOf(session[HandleFile[h]]) \in Nat \ {0}
    BY <2>1, AliveSession
  <2>3. /\ OpenOn(f)' = IF f = HandleFile[h] THEN OpenOn(f) \ {h} ELSE OpenOn(f)
        /\ h \in OpenOn(HandleFile[h])
        /\ RefsOf(session'[f]) = IF f = HandleFile[h] /\ RefsOf(session[f]) > 0
                                 THEN RefsOf(session[f]) - 1 ELSE RefsOf(session[f])
    BY <1>4, <2>2, ReleaseSessions
  <2>4. CASE f = HandleFile[h]
    <3>1. Cardinality(OpenOn(f) \ {h}) = Cardinality(OpenOn(f)) - 1
      BY <1>2, <2>3, <2>4, FS_RemoveElement
    <3> QED BY <1>1, <2>2, <2>3, <2>4, <3>1
  <2>5. CASE f # HandleFile[h]
    BY <1>1, <2>3, <2>5
  <2> QED BY <2>4, <2>5
<1>5. ASSUME NEW r \in Readers, StartRead(r)
      PROVE  Cardinality(OpenOn(f)') = RefsOf(session'[f])
  <2>1. /\ \A a \in Handles : IsOpen(a)' <=> IsOpen(a)
        /\ RefsOf(session'[f]) = RefsOf(session[f])
    BY <1>5, StartSessions
  <2> QED BY <1>1, <2>1 DEF OpenOn
<1>6. ASSUME UNCHANGED hstate, RefsOf(session'[f]) = RefsOf(session[f])
      PROVE  Cardinality(OpenOn(f)') = RefsOf(session'[f])
  BY <1>1, <1>6 DEF OpenOn, IsOpen
<1>7. ASSUME NEW w \in Workers, NextTask(w)
      PROVE  UNCHANGED hstate /\ RefsOf(session'[f]) = RefsOf(session[f])
  BY <1>7, TakeSessions
<1>8. ASSUME NEW w \in Workers, FinishTask(w) \/ FinishLost(w)
      PROVE  UNCHANGED hstate /\ RefsOf(session'[f]) = RefsOf(session[f])
  BY <1>8, FinishSessions
<1>9. ASSUME RestStep
      PROVE  UNCHANGED hstate /\ RefsOf(session'[f]) = RefsOf(session[f])
  BY <1>9, RestSessions DEF Alike
<1> QED BY <1>3, <1>4, <1>5, <1>6, <1>7, <1>8, <1>9, StepCases

(* RefsExact is inductive with the types.                                  *)
LEMMA RefsInvariance == Spec => []RefsExact
<1>1. Init => RefsExact
  <2> SUFFICES ASSUME Init, NEW f \in Files
               PROVE  Cardinality({h \in Handles : IsOpen(h) /\ HandleFile[h] = f})
                      = IF session[f] = None THEN 0 ELSE session[f].refs
    BY DEF RefsExact
  <2>1. {h \in Handles : IsOpen(h) /\ HandleFile[h] = f} = {} /\ session[f] = None
    BY DEF Init, IsOpen
  <2> QED BY <2>1, FS_EmptySet
<1> QED BY <1>1, RefsExactStep, TypeInvariance, PTL DEF Spec

(* session.refs is the number of open handles of the file, after any order *)
(* of Open, Release, reads and clean-ups: no session with handles is ever  *)
(* dropped and none without handles keeps a reference.                     *)
THEOREM ReferencesExact == Spec => []RefsExact
BY RefsInvariance, PTL

(* The modes of an open handle.                                            *)
OpenModes == {"fresh", "probe", "stream"}

(* prepareRead makes only a reading, and so open, handle the active one,   *)
(* and Release of the active handle resets it.                             *)
LEMMA ActiveStep ==
  TypeInv /\ RefsExact /\ ActiveHandleOpen /\ [Next]_vars => ActiveHandleOpen'
<1> SUFFICES ASSUME TypeInv, RefsExact, ActiveHandleOpen, [Next]_vars,
                    NEW f \in Files, ActiveOf(session'[f]) # None
             PROVE  /\ hstate'[ActiveOf(session'[f])] \in OpenModes
                    /\ HandleFile[ActiveOf(session'[f])] = f
  BY DEF ActiveHandleOpen, ActiveOf, IsOpen, OpenModes
<1>a. ActiveOf(session[f]) # None =>
        IsOpen(ActiveOf(session[f])) /\ HandleFile[ActiveOf(session[f])] = f
  BY DEF ActiveHandleOpen, ActiveOf
<1>t. ActiveOf(session[f]) \in Handles \cup {None}
  BY DEF ActiveOf, TypeInv, SessPart, Session
<1>1. ASSUME NEW a, a = ActiveOf(session'[f]), a = ActiveOf(session[f]),
             a \in Handles /\ IsOpen(a) => IsOpen(a)'
      PROVE  /\ hstate'[ActiveOf(session'[f])] \in OpenModes
             /\ HandleFile[ActiveOf(session'[f])] = f
  <2>1. a # None /\ a \in Handles
    BY <1>1, <1>t
  <2>2. IsOpen(a)' /\ HandleFile[a] = f
    BY <1>1, <1>a, <2>1
  <2>3. hstate'[a] \in OpenModes
    BY <2>2 DEF IsOpen, OpenModes
  <2> QED BY <1>1, <2>2, <2>3
<1>2. ASSUME NEW h \in Handles, Open(h)
      PROVE  /\ hstate'[ActiveOf(session'[f])] \in OpenModes
             /\ HandleFile[ActiveOf(session'[f])] = f
  <2>1. /\ ActiveOf(session'[f]) = ActiveOf(session[f])
        /\ \A a \in Handles : IsOpen(a) => IsOpen(a)'
    BY <1>2, OpenSessions
  <2> QED BY <1>1, <2>1
<1>3. ASSUME NEW h \in Handles, Release(h)
      PROVE  /\ hstate'[ActiveOf(session'[f])] \in OpenModes
             /\ HandleFile[ActiveOf(session'[f])] = f
  <2>1. session[HandleFile[h]] # None
    BY <1>3, AliveSession DEF Release
  <2>2. /\ ActiveOf(session'[f]) = ActiveOf(session[f])
        /\ f = HandleFile[h] => ActiveOf(session'[f]) # h
        /\ \A a \in Handles \ {h} : IsOpen(a) => IsOpen(a)'
    BY <1>3, <2>1, ReleaseSessions
  <2>3. ActiveOf(session[f]) # h
    BY <1>a, <2>2
  <2> QED BY <1>1, <2>2, <2>3
<1>4. ASSUME NEW r \in Readers, StartRead(r)
      PROVE  /\ hstate'[ActiveOf(session'[f])] \in OpenModes
             /\ HandleFile[ActiveOf(session'[f])] = f
  <2>1. PICK h \in Handles :
          /\ IsOpen(h)
          /\ \A a \in Handles : IsOpen(a)' <=> IsOpen(a)
          /\ f = HandleFile[h] => ActiveOf(session'[f]) \in {ActiveOf(session[f]), None, h}
          /\ f # HandleFile[h] => session'[f] = session[f]
    BY <1>4, StartSessions
  <2>2. CASE ActiveOf(session'[f]) = ActiveOf(session[f])
    BY <1>1, <2>1, <2>2
  <2>3. CASE ActiveOf(session'[f]) # ActiveOf(session[f])
    <3>1. f = HandleFile[h] /\ ActiveOf(session'[f]) = h /\ IsOpen(h)'
      BY <2>1, <2>3
    <3> QED BY <3>1 DEF IsOpen, OpenModes
  <2> QED BY <2>2, <2>3
<1>5. ASSUME UNCHANGED hstate, ActiveOf(session'[f]) \in {ActiveOf(session[f]), None}
      PROVE  /\ hstate'[ActiveOf(session'[f])] \in OpenModes
             /\ HandleFile[ActiveOf(session'[f])] = f
  BY <1>1, <1>5 DEF IsOpen, OpenModes
<1>6. ASSUME NEW w \in Workers, NextTask(w)
      PROVE  /\ UNCHANGED hstate
             /\ ActiveOf(session'[f]) \in {ActiveOf(session[f]), None}
  BY <1>6, TakeSessions
<1>7. ASSUME NEW w \in Workers, FinishTask(w) \/ FinishLost(w)
      PROVE  /\ UNCHANGED hstate
             /\ ActiveOf(session'[f]) \in {ActiveOf(session[f]), None}
  BY <1>7, FinishSessions
<1>8. ASSUME RestStep
      PROVE  /\ UNCHANGED hstate
             /\ ActiveOf(session'[f]) \in {ActiveOf(session[f]), None}
  BY <1>8, RestSessions DEF Alike
<1> QED BY <1>2, <1>3, <1>4, <1>5, <1>6, <1>7, <1>8, StepCases

(* The active handle of a session is open on its file: prepareRead and     *)
(* Release leave no released handle behind that would make every other     *)
(* one's seek an independent read.                                         *)
THEOREM ActiveHandlesOpen == Spec => []ActiveHandleOpen
<1>1. Init => ActiveHandleOpen
  BY DEF Init, ActiveHandleOpen
<1> QED BY <1>1, ActiveStep, RefsInvariance, TypeInvariance, PTL DEF Spec

-----------------------------------------------------------------------------
(* The count of the workers                                                *)

(* A count is a natural number.                                            *)
LEMMA InflightType ==
  ASSUME TypeInv, NEW f \in Files
  PROVE  InflightOf(session[f]) \in Nat
BY DEF TypeInv, SessPart, Session, InflightOf

(* Only a worker that takes or finishes a task changes the counts.         *)
LEMMA QuietInflight ==
  ASSUME TypeInv, RefsExact, NEW f \in Files,
         \/ RestStep
         \/ \E h \in Handles : Open(h) \/ Release(h)
         \/ \E r \in Readers : StartRead(r)
  PROVE  /\ InflightOf(session'[f]) = InflightOf(session[f])
         /\ WorkersOn(f)' = WorkersOn(f)
<1>1. ASSUME RestStep
      PROVE  /\ InflightOf(session'[f]) = InflightOf(session[f])
             /\ WorkersOn(f)' = WorkersOn(f)
  BY <1>1, RestSessions, RestWorkers DEF Alike
<1>2. ASSUME NEW h \in Handles, Open(h)
      PROVE  /\ InflightOf(session'[f]) = InflightOf(session[f])
             /\ WorkersOn(f)' = WorkersOn(f)
  <2>1. UNCHANGED <<wpc, wtask, tkey>>
    BY <1>2 DEF Open, taskVars, workVars
  <2> QED BY <1>2, <2>1, OpenSessions DEF WorkersOn, Holding, FileOf
<1>3. ASSUME NEW h \in Handles, Release(h)
      PROVE  /\ InflightOf(session'[f]) = InflightOf(session[f])
             /\ WorkersOn(f)' = WorkersOn(f)
  <2>1. UNCHANGED <<wpc, wtask, tkey>>
    BY <1>3 DEF Release, workVars
  <2>2. session[HandleFile[h]] # None
    BY <1>3, AliveSession DEF Release
  <2>3. InflightOf(session'[f]) = InflightOf(session[f])
    BY <1>3, <2>2, ReleaseSessions
  <2> QED BY <2>1, <2>3 DEF WorkersOn, Holding, FileOf
<1>4. ASSUME NEW r \in Readers, StartRead(r)
      PROVE  /\ InflightOf(session'[f]) = InflightOf(session[f])
             /\ WorkersOn(f)' = WorkersOn(f)
  <2>1. /\ UNCHANGED <<wpc, wtask, tkey>>
        /\ InflightOf(session'[f]) = InflightOf(session[f])
    BY <1>4, StartSessions
  <2> QED BY <2>1 DEF WorkersOn, Holding, FileOf
<1> QED BY <1>1, <1>2, <1>3, <1>4

(* Whoever takes a task is on its file before it counts, and gives the     *)
(* count back when it leaves.                                              *)
LEMMA NotLeakedStep ==
  TypeInv /\ RefsExact /\ InflightNotLeaked /\ [Next]_vars => InflightNotLeaked'
<1> SUFFICES ASSUME TypeInv, RefsExact, InflightNotLeaked, [Next]_vars,
                    NEW f \in Files
             PROVE  InflightOf(session'[f]) <= Cardinality(WorkersOn(f)')
  BY DEF InflightNotLeaked, InflightOf
<1>1. InflightOf(session[f]) <= Cardinality(WorkersOn(f))
  BY NotLeakedView
<1>2. IsFiniteSet(WorkersOn(f)) /\ Cardinality(WorkersOn(f)) \in Nat
      /\ InflightOf(session[f]) \in Nat
  BY WorkersOnFinite, InflightType
<1>3. ASSUME NEW w \in Workers, NextTask(w)
      PROVE  InflightOf(session'[f]) <= Cardinality(WorkersOn(f)')
  <2>1. PICK t \in queue :
          /\ w \notin WorkersOn(FileOf(t))
          /\ WorkersOn(f)' = IF f = FileOf(t) THEN WorkersOn(f) \cup {w}
                             ELSE WorkersOn(f)
          /\ InflightOf(session'[f]) =
               IF f = FileOf(t) /\ session'[f] # None
               THEN InflightOf(session[f]) + 1 ELSE InflightOf(session[f])
    BY <1>3, TakeSessions
  <2>2. CASE f = FileOf(t)
    <3>1. Cardinality(WorkersOn(f) \cup {w}) = Cardinality(WorkersOn(f)) + 1
      BY <1>2, <2>1, <2>2, FS_AddElement
    <3> QED BY <1>1, <1>2, <2>1, <2>2, <3>1
  <2>3. CASE f # FileOf(t)
    BY <1>1, <2>1, <2>3
  <2> QED BY <2>2, <2>3
<1>4. ASSUME NEW w \in Workers, FinishTask(w) \/ FinishLost(w)
      PROVE  InflightOf(session'[f]) <= Cardinality(WorkersOn(f)')
  <2> DEFINE g == FileOf(wtask[w])
  <2>1. /\ w \in WorkersOn(g)
        /\ WorkersOn(f)' = IF f = g THEN WorkersOn(f) \ {w} ELSE WorkersOn(f)
        /\ InflightOf(session'[f]) =
             IF f = g /\ InflightOf(session[f]) > 0
             THEN InflightOf(session[f]) - 1 ELSE InflightOf(session[f])
    BY <1>4, FinishSessions
  <2> HIDE DEF g
  <2>2. CASE f = g
    <3>1. Cardinality(WorkersOn(f) \ {w}) = Cardinality(WorkersOn(f)) - 1
          /\ Cardinality(WorkersOn(f)) # 0
      BY <1>2, <2>1, <2>2, FS_RemoveElement, FS_EmptySet
    <3> QED BY <1>1, <1>2, <2>1, <2>2, <3>1
  <2>3. CASE f # g
    BY <1>1, <2>1, <2>3
  <2> QED BY <2>2, <2>3
<1>5. ASSUME InflightOf(session'[f]) = InflightOf(session[f]), WorkersOn(f)' = WorkersOn(f)
      PROVE  InflightOf(session'[f]) <= Cardinality(WorkersOn(f)')
  BY <1>1, <1>5
<1> QED BY <1>3, <1>4, <1>5, QuietInflight, StepCases

(* session.inflight never counts more workers than hold tasks of the file, *)
(* also when a handle is released under its reads: nextTask's limit never  *)
(* holds back a session for workers that have left finishTask.             *)
THEOREM InflightNeverLeaks == Spec => []InflightNotLeaked
<1>1. Init => InflightNotLeaked
  BY DEF Init, InflightNotLeaked
<1> QED BY <1>1, NotLeakedStep, RefsInvariance, TypeInvariance, PTL DEF Spec


(* The goroutine of a read stays on its handle.                            *)
LEMMA RestReads ==
  ASSUME TypeInv, RestStep, NEW q \in Readers, rpc'[q] # "idle"
  PROVE  rpc[q] # "idle" /\ read'[q].handle = read[q].handle
<1>1. CASE UNCHANGED <<rpc, read>>
  BY <1>1
<1>2. ASSUME NEW r \in Readers, rpc[r] # "idle",
             \/ Finish(r)
             \/ \E plan : ContinuePlan(r, plan)
             \/ \E need : ContinueNeed(r, need)
             \/ (\E pc : rpc' = [rpc EXCEPT ![r] = pc]) /\ UNCHANGED read
             \/ /\ \E pc : rpc' = [rpc EXCEPT ![r] = pc]
                /\ \E t : read' = [read EXCEPT ![r].task = t]
      PROVE  rpc[q] # "idle" /\ read'[q].handle = read[q].handle
  <2>t. /\ read[r] \in Read
        /\ read \in [Readers -> Read \cup {None}]
        /\ rpc \in [Readers -> ReadPcs]
    BY <1>2 DEF TypeInv, ReadPart
  <2>1. CASE q # r
    <3>1. rpc'[q] = rpc[q] /\ read'[q] = read[q]
      BY <1>2, <2>t, <2>1 DEF Finish, ContinuePlan, ContinueNeed
    <3> QED BY <3>1
  <2>2. CASE q = r
    <3>1. \A plan : [read[r] EXCEPT !.plan = plan].handle = read[r].handle
      BY <2>t DEF Read
    <3>2. \A need, t, b : [read[r] EXCEPT !.need = need, !.task = t, !.after = b].handle
                          = read[r].handle
      BY <2>t DEF Read
    <3>3. \A t : [read[r] EXCEPT !.task = t].handle = read[r].handle
      BY <2>t DEF Read
    <3>4. CASE Finish(r)
      BY <2>t, <2>2, <3>4 DEF Finish
    <3>5. ASSUME NEW plan, ContinuePlan(r, plan), ~Finish(r)
          PROVE  read'[r].handle = read[r].handle
      <4>1. read' = [read EXCEPT ![r] = [read[r] EXCEPT !.plan = plan]]
        BY <3>5 DEF ContinuePlan
      <4>2. read'[r] = [read[r] EXCEPT !.plan = plan]
        BY <2>t, <4>1
      <4> QED BY <3>1, <4>2
    <3>6. ASSUME NEW need, ContinueNeed(r, need), ~Finish(r)
          PROVE  read'[r].handle = read[r].handle
      <4>1. read'[r] = [read[r] EXCEPT !.need = need, !.task = NoTask,
                                       !.after = (need = {})]
        BY <2>t, <3>6 DEF ContinueNeed
      <4> QED BY <3>2, <4>1
    <3>7. ASSUME NEW t, read' = [read EXCEPT ![r].task = t]
          PROVE  read'[r].handle = read[r].handle
      <4>1. read'[r] = [read[r] EXCEPT !.task = t]
        BY <2>t, <3>7
      <4> QED BY <3>3, <4>1
    <3> QED BY <1>2, <2>2, <3>4, <3>5, <3>6, <3>7
  <2> QED BY <2>1, <2>2
<1>3. ASSUME NEW r \in Readers, ReaderStep(r) \/ Interrupt(r)
      PROVE  rpc[q] # "idle" /\ read'[q].handle = read[q].handle
  <2>1. CASE ScheduleBuffer(r)
    BY <1>2, <2>1 DEF ScheduleBuffer
  <2>2. CASE PeekBackground(r)
    BY <1>2, <2>2 DEF PeekBackground
  <2>3. CASE EnsureBackground(r)
    BY <1>2, <2>3 DEF EnsureBackground
  <2>4. CASE PeekChunk(r)
    BY <1>2, <2>4 DEF PeekChunk
  <2>5. CASE EnsureForeground(r)
    BY <1>2, <2>5 DEF EnsureForeground
  <2>6. CASE MarkForeground(r)
    BY <1>2, <2>6 DEF MarkForeground
  <2>7. CASE TaskDone(r)
    BY <1>2, <2>7 DEF TaskDone
  <2>8. CASE Interrupt(r)
    BY <1>2, <2>8 DEF Interrupt
  <2> QED BY <1>3, <2>1, <2>2, <2>3, <2>4, <2>5, <2>6, <2>7, <2>8 DEF ReaderStep
<1>4. ASSUME NEW r \in Readers, StartHedge(r) PROVE UNCHANGED <<rpc, read>>
  BY <1>4 DEF StartHedge, readVars
<1>5. ASSUME NEW w \in Workers, \/ AwaitTask(w) \/ WorkerExit(w) \/ DownloadOk(w)
                                \/ DownloadFail(w) \/ WorkerSend(w)
      PROVE  UNCHANGED <<rpc, read>>
  BY <1>5 DEF AwaitTask, WorkerExit, DownloadOk, DownloadFail, WorkerSend, readVars
<1>6. ASSUME NEW t \in TaskId, HedgeStep(t) PROVE UNCHANGED <<rpc, read>>
  BY <1>6 DEF HedgeStep, HedgeOk, HedgeFail, PublishHedge, HedgeSend, readVars
<1>7. ASSUME \/ \E k \in Key : Evict(k)
             \/ \E S \in SUBSET cached : ReclaimIdle(S)
             \/ DiskWrite \/ Close \/ CloseStep \/ UNCHANGED vars
      PROVE  UNCHANGED <<rpc, read>>
  BY <1>7 DEF Evict, ReclaimIdle, DiskWrite, Close, CloseStep, CloseChannel,
              CloseReturns, readVars, vars
<1> QED BY <1>1, <1>3, <1>4, <1>5, <1>6, <1>7 DEF RestStep

(* Only the goroutine of a read registers tasks, and of its own file.      *)
LEMMA RestTasks ==
  ASSUME TypeInv, RestStep
  PROVE  \/ \A k \in Key : tasks'[k] \in {tasks[k], NoTask}
         \/ /\ UNCHANGED session
            /\ \E r \in Readers :
                 /\ rpc[r] # "idle"
                 /\ \A k \in Key :
                      tasks'[k] \in {tasks[k], NoTask} \/ k[1] = ReadFile(r)
<1>1. ASSUME NEW r \in Readers, EnsureBackground(r) \/ EnsureForeground(r)
      PROVE  /\ UNCHANGED session
             /\ rpc[r] # "idle"
             /\ \A k \in Key : tasks'[k] \in {tasks[k], NoTask} \/ k[1] = ReadFile(r)
  <2>1. UNCHANGED session
    BY <1>1, EnsureKeeps
  <2>2. rpc[r] # "idle"
    BY <1>1 DEF EnsureBackground, EnsureForeground
  <2>3. CASE Refused
    BY <2>1, <2>2, <2>3 DEF Refused, taskVars
  <2>4. ASSUME NEW c, NEW e, NEW p, NEW t, EnsureTask(<<ReadFile(r), c>>, e, p, t)
        PROVE  \A k \in Key : tasks'[k] \in {tasks[k], NoTask} \/ k[1] = ReadFile(r)
    <3>1. tasks' \in {tasks, [tasks EXCEPT ![<<ReadFile(r), c>>] = t]}
      BY <2>4 DEF EnsureTask, Reuse, Create
    <3> QED BY <3>1 DEF TypeInv, TaskPart, Key
  <2> QED BY <1>1, <2>1, <2>2, <2>3, <2>4 DEF EnsureBackground, EnsureForeground
<1>2. ASSUME NEW r \in Readers,
             \/ ScheduleBuffer(r) \/ PeekBackground(r) \/ PeekChunk(r)
             \/ MarkForeground(r) \/ TaskDone(r) \/ Interrupt(r) \/ StartHedge(r)
      PROVE  UNCHANGED tasks
  BY <1>2 DEF ScheduleBuffer, PeekBackground, PeekChunk, MarkForeground, TaskDone,
              Interrupt, StartHedge, taskVars
<1>3. ASSUME NEW w \in Workers, AwaitTask(w)
      PROVE  \A k \in Key : tasks'[k] \in {tasks[k], NoTask}
  BY <1>3 DEF AwaitTask, Discard, Unregistered
<1>4. ASSUME NEW w \in Workers,
             WorkerExit(w) \/ DownloadOk(w) \/ DownloadFail(w) \/ WorkerSend(w)
      PROVE  UNCHANGED tasks
  BY <1>4 DEF WorkerExit, DownloadOk, DownloadFail, WorkerSend, taskVars
<1>5. ASSUME NEW t \in TaskId, HedgeStep(t)
      PROVE  \A k \in Key : tasks'[k] \in {tasks[k], NoTask}
  BY <1>5 DEF HedgeStep, HedgeOk, HedgeFail, PublishHedge, HedgeSend, Unregistered, taskVars
<1>6. ASSUME \/ \E k \in Key : Evict(k)
             \/ \E S \in SUBSET cached : ReclaimIdle(S)
             \/ DiskWrite \/ Close \/ CloseStep \/ UNCHANGED vars
      PROVE  UNCHANGED tasks
  BY <1>6 DEF Evict, ReclaimIdle, DiskWrite, Close, CloseStep, CloseChannel,
              CloseReturns, taskVars, vars
<1> QED
  <2>1. CASE \E r \in Readers : EnsureBackground(r) \/ EnsureForeground(r)
    BY <1>1, <2>1
  <2>2. CASE ~\E r \in Readers : EnsureBackground(r) \/ EnsureForeground(r)
    BY <1>2, <1>3, <1>4, <1>5, <1>6, <2>2 DEF RestStep, ReaderStep
  <2> QED BY <2>1, <2>2


-----------------------------------------------------------------------------
(* The exact count, when RELEASE comes after the reads of its handle       *)

(* Reads are on open handles, and a registered task has its session.       *)
ReadsOpen == \A r \in Readers : rpc[r] # "idle" => IsOpen(read[r].handle)

TasksHaveSession == \A k \in Key : tasks[k] # NoTask => session[k[1]] # None

(* FUSE sends RELEASE after the reads of the handle have returned.         *)
ReleaseLast == "overlap" \notin Events

(* A handle is released only when no read is on it.                        *)
LEMMA ReadsOpenStep ==
  ASSUME ReleaseLast, TypeInv, ReadsOpen, [Next]_vars, RefsExact
  PROVE  ReadsOpen'
<1> SUFFICES ASSUME NEW q \in Readers, rpc'[q] # "idle"
             PROVE  hstate'[read'[q].handle] \in OpenModes
  BY DEF ReadsOpen, IsOpen, OpenModes
<1>1. ASSUME rpc[q] # "idle", read'[q].handle = read[q].handle
      PROVE  read[q].handle \in Handles /\ IsOpen(read[q].handle)
  BY <1>1 DEF ReadsOpen, TypeInv, ReadPart, Read
<1>2. ASSUME rpc[q] # "idle", read'[q].handle = read[q].handle,
             \A a \in Handles : IsOpen(a) => IsOpen(a)'
      PROVE  hstate'[read'[q].handle] \in OpenModes
  BY <1>1, <1>2 DEF IsOpen, OpenModes
<1>3. ASSUME NEW h \in Handles, Open(h) PROVE hstate'[read'[q].handle] \in OpenModes
  <2>1. \A a \in Handles : IsOpen(a) => IsOpen(a)'
    BY <1>3, OpenSessions
  <2> QED BY <1>2, <1>3, <2>1 DEF Open, readVars
<1>4. ASSUME NEW h \in Handles, Release(h)
      PROVE  hstate'[read'[q].handle] \in OpenModes
  <2>1. UNCHANGED <<rpc, read>> /\ ~Busy(h)
    BY <1>4 DEF Release, ReleaseLast, readVars
  <2>2. read[q].handle # h
    BY <2>1 DEF Busy
  <2>3. \A a \in Handles \ {h} : hstate'[a] = hstate[a]
    BY <1>4 DEF Release, TypeInv, SessPart
  <2> QED BY <1>1, <2>1, <2>2, <2>3 DEF IsOpen, OpenModes
<1>5. ASSUME NEW r \in Readers, StartRead(r)
      PROVE  hstate'[read'[q].handle] \in OpenModes
  <2>1. PICK h \in Handles :
          /\ IsOpen(h)
          /\ \A a \in Handles : IsOpen(a)' <=> IsOpen(a)
          /\ rpc' = [rpc EXCEPT ![r] = rpc'[r]]
          /\ read' = [read EXCEPT ![r] = read'[r]]
          /\ read'[r].handle = h
    BY <1>5, StartSessions
  <2>2. CASE q = r
    BY <2>1, <2>2 DEF IsOpen, OpenModes
  <2>3. CASE q # r
    <3>1. rpc'[q] = rpc[q] /\ read'[q] = read[q]
      BY <2>1, <2>3 DEF TypeInv, ReadPart
    <3> QED BY <1>2, <2>1, <3>1
  <2> QED BY <2>2, <2>3
<1>6. ASSUME NEW w \in Workers, NextTask(w) \/ FinishTask(w) \/ FinishLost(w)
      PROVE  hstate'[read'[q].handle] \in OpenModes
  <2>1. UNCHANGED <<rpc, read, hstate>>
    BY <1>6 DEF NextTask, FinishTask, FinishLost, readVars
  <2> QED BY <1>2, <2>1 DEF IsOpen
<1>7. ASSUME RestStep PROVE hstate'[read'[q].handle] \in OpenModes
  <2>1. UNCHANGED hstate
    BY <1>7, RestSessions
  <2>2. rpc[q] # "idle" /\ read'[q].handle = read[q].handle
    BY <1>7, RestReads
  <2> QED BY <1>2, <2>1, <2>2 DEF IsOpen
<1> QED BY <1>3, <1>4, <1>5, <1>6, <1>7, StepCases

(* A task is registered by a read, whose open handle keeps the session,    *)
(* and a session with a registered task is not cleaned up.                 *)
LEMMA TasksHaveSessionStep ==
  ASSUME TypeInv, RefsExact, ReadsOpen, TasksHaveSession, Registry', [Next]_vars
  PROVE  TasksHaveSession'
<1> SUFFICES ASSUME NEW k \in Key, tasks'[k] # NoTask
             PROVE  session'[k[1]] # None
  BY DEF TasksHaveSession
<1>1. k[1] \in Files /\ k[2] \in Chunks /\ k = <<k[1], k[2]>>
  BY DEF Key
<1>2. result'[tasks'[k]] = "pending"
  BY DEF Registry, RegisteredPending, Pending
<1>3. ~TasksGone(k[1])
  BY <1>1, <1>2 DEF TasksGone
<1>4. ASSUME tasks[k] # NoTask,
             session[k[1]] # None /\ session'[k[1]] = None => TasksGone(k[1])
      PROVE  session'[k[1]] # None
  BY <1>3, <1>4 DEF TasksHaveSession
<1>5. ASSUME NEW h \in Handles, Open(h) PROVE session'[k[1]] # None
  <2>1. session'[k[1]] = None => session[k[1]] = None
    BY <1>1, <1>5, OpenSessions
  <2>2. tasks' = tasks
    BY <1>5 DEF Open, taskVars
  <2> QED BY <1>4, <2>1, <2>2
<1>6. ASSUME NEW h \in Handles, Release(h) PROVE session'[k[1]] # None
  <2>1. session[HandleFile[h]] # None
    BY <1>6, AliveSession DEF Release
  <2>2. session[k[1]] # None /\ session'[k[1]] = None => TasksGone(k[1])
    BY <1>1, <1>6, <2>1, ReleaseSessions
  <2>3. tasks' = tasks
    BY <1>6 DEF Release
  <2> QED BY <1>4, <2>2, <2>3
<1>7. ASSUME NEW r \in Readers, StartRead(r) PROVE session'[k[1]] # None
  <2>1. (session'[k[1]] = None => session[k[1]] = None) /\ tasks' = tasks
    BY <1>1, <1>7, StartSessions
  <2> QED BY <1>4, <2>1
<1>8. ASSUME NEW w \in Workers, NextTask(w) PROVE session'[k[1]] # None
  <2>1. session[k[1]] # None /\ session'[k[1]] = None => TasksGone(k[1])
    BY <1>1, <1>8, TakeSessions
  <2>2. tasks'[k] \in {tasks[k], NoTask}
    BY <1>8 DEF NextTask, Take, Discard, Unregistered
  <2> QED BY <1>4, <2>1, <2>2
<1>9. ASSUME NEW w \in Workers, FinishTask(w) \/ FinishLost(w)
      PROVE  session'[k[1]] # None
  <2>1. session[k[1]] # None /\ session'[k[1]] = None => TasksGone(k[1])
    BY <1>1, <1>9, FinishSessions
  <2>2. tasks'[k] \in {tasks[k], NoTask}
    BY <1>9 DEF FinishTask, FinishLost, Unregistered, taskVars
  <2> QED BY <1>4, <2>1, <2>2
<1>10. ASSUME RestStep PROVE session'[k[1]] # None
  <2>1. session[k[1]] # None /\ session'[k[1]] = None => TasksGone(k[1])
    BY <1>1, <1>10, RestSessions
  <2>2. CASE tasks'[k] \in {tasks[k], NoTask}
    BY <1>4, <2>1, <2>2
  <2>3. CASE tasks'[k] \notin {tasks[k], NoTask}
    <3>1. PICK r \in Readers : rpc[r] # "idle" /\ k[1] = ReadFile(r) /\ UNCHANGED session
      BY <1>10, <2>3, RestTasks
    <3>2. read[r].handle \in Handles /\ IsOpen(read[r].handle)
      BY <3>1 DEF ReadsOpen, TypeInv, ReadPart, Read
    <3> QED BY <3>1, <3>2, AliveSession DEF ReadFile
  <2> QED BY <2>2, <2>3
<1> QED BY <1>5, <1>6, <1>7, <1>8, <1>9, <1>10, StepCases

(* A task that a worker takes is registered, so there is a session to      *)
(* count in.                                                               *)
LEMMA InflightExactStep ==
  ASSUME TypeInv, RefsExact, Registry, TasksHaveSession, InflightExact, Registry',
         [Next]_vars
  PROVE  InflightExact'
<1> SUFFICES ASSUME NEW f \in Files
             PROVE  Cardinality(WorkersOn(f)') = InflightOf(session'[f])
  BY DEF InflightExact, InflightOf
<1>1. Cardinality(WorkersOn(f)) = InflightOf(session[f])
  BY DEF InflightExact, InflightOf
<1>2. IsFiniteSet(WorkersOn(f)) /\ Cardinality(WorkersOn(f)) \in Nat
  BY WorkersOnFinite
<1>3. ASSUME NEW w \in Workers, NextTask(w)
      PROVE  Cardinality(WorkersOn(f)') = InflightOf(session'[f])
  <2>1. PICK t \in queue :
          /\ Pending(t) /\ t \notin cancelled
          /\ result'[t] = result[t]
          /\ \A k \in Key : tasks[k] = t => tasks'[k] = t
          /\ w \notin WorkersOn(FileOf(t))
          /\ WorkersOn(f)' = IF f = FileOf(t) THEN WorkersOn(f) \cup {w}
                             ELSE WorkersOn(f)
          /\ InflightOf(session'[f]) =
               IF f = FileOf(t) /\ session'[f] # None
               THEN InflightOf(session[f]) + 1 ELSE InflightOf(session[f])
          /\ session[f] # None /\ session'[f] = None => TasksGone(f)
    BY <1>3, TakeSessions
  <2>2. CASE f = FileOf(t)
    <3>1. t \in Issued /\ tkey[t] \in Key /\ t # NoTask
      BY IssuedTask DEF TypeInv, TaskPart
    <3>2. tasks[tkey[t]] = t
      BY <2>1, <3>1 DEF Registry, LiveRegistered
    <3>3. session[f] # None
      BY <2>2, <3>1, <3>2 DEF TasksHaveSession, FileOf
    <3>4. ~TasksGone(f)
      <4>1. tasks'[tkey[t]] = t /\ result'[t] = "pending"
        BY <2>1, <3>1, <3>2 DEF Pending
      <4>2. tkey[t] = <<f, tkey[t][2]>> /\ tkey[t][2] \in Chunks
        BY <2>2, <3>1 DEF FileOf, Key
      <4> QED BY <3>1, <4>1, <4>2 DEF TasksGone
    <3>5. InflightOf(session'[f]) = InflightOf(session[f]) + 1
      BY <2>1, <2>2, <3>3, <3>4
    <3>6. Cardinality(WorkersOn(f) \cup {w}) = Cardinality(WorkersOn(f)) + 1
      BY <1>2, <2>1, <2>2, FS_AddElement
    <3> QED BY <1>1, <2>1, <2>2, <3>5, <3>6
  <2>3. CASE f # FileOf(t)
    BY <1>1, <2>1, <2>3
  <2> QED BY <2>2, <2>3
<1>4. ASSUME NEW w \in Workers, FinishTask(w) \/ FinishLost(w)
      PROVE  Cardinality(WorkersOn(f)') = InflightOf(session'[f])
  <2> DEFINE g == FileOf(wtask[w])
  <2>1. /\ w \in WorkersOn(g)
        /\ WorkersOn(f)' = IF f = g THEN WorkersOn(f) \ {w} ELSE WorkersOn(f)
        /\ InflightOf(session'[f]) =
             IF f = g /\ InflightOf(session[f]) > 0
             THEN InflightOf(session[f]) - 1 ELSE InflightOf(session[f])
    BY <1>4, FinishSessions
  <2> HIDE DEF g
  <2>2. CASE f = g
    <3>1. Cardinality(WorkersOn(f) \ {w}) = Cardinality(WorkersOn(f)) - 1
          /\ Cardinality(WorkersOn(f)) # 0
      BY <1>2, <2>1, <2>2, FS_RemoveElement, FS_EmptySet
    <3> QED BY <1>1, <1>2, <2>1, <2>2, <3>1
  <2>3. CASE f # g
    BY <1>1, <2>1, <2>3
  <2> QED BY <2>2, <2>3
<1>5. ASSUME InflightOf(session'[f]) = InflightOf(session[f]), WorkersOn(f)' = WorkersOn(f)
      PROVE  Cardinality(WorkersOn(f)') = InflightOf(session'[f])
  BY <1>1, <1>5
<1> QED BY <1>3, <1>4, <1>5, QuietInflight, StepCases

(* When RELEASE comes after the reads of its handle, session.inflight is   *)
(* the number of workers that hold tasks of the file: nextTask never hands *)
(* out a task whose session is gone, and finishTask finds it again.        *)
THEOREM InflightIsExact ==
  ASSUME ReleaseLast
  PROVE  Spec => []InflightExact
<1> DEFINE Inv == ReadsOpen /\ TasksHaveSession /\ InflightExact
<1>1. Init => Inv
  <2> SUFFICES ASSUME Init PROVE Inv
    OBVIOUS
  <2>1. ReadsOpen /\ TasksHaveSession
    BY DEF Init, ReadsOpen, TasksHaveSession
  <2>2. \A f \in Files : WorkersOn(f) = {} /\ session[f] = None
    BY DEF Init, WorkersOn, Holding
  <2>3. InflightExact
    BY <2>2, FS_EmptySet DEF InflightExact
  <2> QED BY <2>1, <2>3
<1>2. TypeInv /\ RefsExact /\ Registry /\ Inv /\ [Next]_vars => Inv'
  <2> SUFFICES ASSUME TypeInv, RefsExact, Registry, Inv, [Next]_vars PROVE Inv'
    OBVIOUS
  <2>1. Registry'
    BY RegistryStep, EveryTaskStep, TypeInvStep
  <2>2. ReadsOpen'
    BY ReadsOpenStep
  <2>3. TasksHaveSession'
    BY <2>1, TasksHaveSessionStep
  <2>4. InflightExact'
    BY <2>1, InflightExactStep
  <2> QED BY <2>2, <2>3, <2>4
<1> QED BY <1>1, <1>2, TypeInvariance, RefsInvariance, RegistryInvariance, PTL DEF Spec

-----------------------------------------------------------------------------
(* The end of a session                                                    *)

(* What keeps a session: references, workers or registered tasks.          *)
Kept(f, s, map) ==
  \/ RefsOf(s) > 0
  \/ InflightOf(s) > 0
  \/ \E c \in Chunks : map[<<f, c>>] # NoTask

(* A session is useless when nothing keeps it.                             *)
LEMMA UselessView ==
  ASSUME TypeInv, NEW f \in Files, session[f] # None
  PROVE  Useless(f) <=> ~Kept(f, session[f], tasks)
<1>1. session[f] \in Session
  BY DEF TypeInv, SessPart
<1>2. session[f].refs \in Nat /\ session[f].inflight \in Nat
  BY <1>1, SessionFields
<1>3. RefsOf(session[f]) = session[f].refs /\ InflightOf(session[f]) = session[f].inflight
  BY DEF RefsOf, InflightOf
<1>4. session[f].refs = 0 <=> ~(RefsOf(session[f]) > 0)
  BY <1>2, <1>3
<1>5. session[f].inflight = 0 <=> ~(InflightOf(session[f]) > 0)
  BY <1>2, <1>3
<1> QED BY <1>4, <1>5, Zenon DEF Useless, Kept

(* A scan that discards the last task of a session cleans it up.           *)
LEMMA DiscardReclaims ==
  ASSUME TypeInv, Registry, NEW S \in SUBSET queue, Discard(S), NEW f \in Files,
         session[f] # None => Kept(f, session[f], tasks),
         SessionsAfterDiscard(S)[f] # None
  PROVE  Kept(f, SessionsAfterDiscard(S)[f], tasks')
<1> DEFINE U == Unfinished(S)
           fs == {FileOf(t) : t \in U}
<1>t. session \in [Files -> Session \cup {None}]
  BY DEF TypeInv, SessPart
<1>1. PICK ss : ss = SessionsAfterDiscard(S)
  OBVIOUS
<1>2. ss = Cleaned(session, fs, tasks', result')
  BY <1>1 DEF SessionsAfterDiscard, Discard
<1> HIDE DEF fs
<1>3. /\ ss[f] \in {session[f], None}
      /\ f \notin fs => ss[f] = session[f]
      /\ f \in fs /\ ss[f] # None =>
           \/ session[f].refs # 0
           \/ session[f].inflight # 0
           \/ \E c \in Chunks : tasks'[<<f, c>>] # NoTask
  BY <1>t, <1>2, CleanedAlike
<1>4. ss[f] = session[f] /\ session[f] \in Session
  BY <1>t, <1>1, <1>3
<1>5. RefsOf(ss[f]) = session[f].refs /\ InflightOf(ss[f]) = session[f].inflight
      /\ session[f].refs \in Nat /\ session[f].inflight \in Nat
  BY <1>4, SessionFields
<1>6. CASE f \in fs
  <2>1. \/ session[f].refs # 0
        \/ session[f].inflight # 0
        \/ \E c \in Chunks : tasks'[<<f, c>>] # NoTask
    BY <1>1, <1>3, <1>6
  <2> QED BY <1>1, <1>5, <2>1 DEF Kept
<1>7. CASE f \notin fs
  <2>1. \A c \in Chunks : tasks'[<<f, c>>] = tasks[<<f, c>>]
    <3> SUFFICES ASSUME NEW c \in Chunks PROVE tasks'[<<f, c>>] = tasks[<<f, c>>]
      OBVIOUS
    <3>1. <<f, c>> \in Key
      BY DEF Key
    <3>2. CASE tasks[<<f, c>>] \in U
      <4>1. tasks[<<f, c>>] # NoTask
        BY <3>2, IssuedTask DEF Unfinished, TypeInv, TaskPart
      <4>2. tkey[tasks[<<f, c>>]] = <<f, c>>
        BY <3>1, <4>1 DEF Registry, RegisteredPending
      <4>3. FileOf(tasks[<<f, c>>]) = f
        BY <4>2 DEF FileOf
      <4> QED BY <1>7, <3>2, <4>3 DEF fs
    <3>3. CASE tasks[<<f, c>>] \notin U
      BY <3>1, <3>3 DEF Discard, Unregistered
    <3> QED BY <3>2, <3>3
  <2>2. Kept(f, session[f], tasks)
    BY <1>1, <1>4
  <2> QED BY <1>1, <1>4, <2>1, <2>2 DEF Kept
<1> QED BY <1>6, <1>7

(* ensureTask unregisters nothing.                                         *)
LEMMA TaskMapGrows ==
  ASSUME TypeInv, NEW r \in Readers, EnsureBackground(r) \/ EnsureForeground(r),
         NEW k \in Key, tasks[k] # NoTask
  PROVE  tasks'[k] # NoTask
<1>1. CASE Refused
  BY <1>1 DEF Refused, taskVars
<1>2. ASSUME NEW j, NEW e, NEW p, NEW t, EnsureTask(j, e, p, t)
      PROVE  tasks'[k] # NoTask
  BY <1>2 DEF EnsureTask, Reuse, Create, TypeInv, TaskPart, NoTask
<1> QED BY <1>1, <1>2 DEF EnsureBackground, EnsureForeground

(* Every step that takes away a reference, a worker or a task cleans the   *)
(* session up - all but publishHedge.                                      *)
LEMMA ReclaimedStep ==
  ASSUME TypeInv, RefsExact, Registry, [Next]_vars,
         NEW f \in Files, session'[f] # None,
         session[f] # None => Kept(f, session[f], tasks),
         \A t \in TaskId : PublishHedge(t) => FileOf(t) # f
  PROVE  Kept(f, session'[f], tasks')
<1>t. session \in [Files -> Session \cup {None}]
  BY DEF TypeInv, SessPart
<1>0. session[f] # None => Kept(f, session[f], tasks)
  OBVIOUS
<1>1. ASSUME session[f] # None, RefsOf(session'[f]) = RefsOf(session[f]),
             InflightOf(session'[f]) = InflightOf(session[f]),
             \A c \in Chunks : tasks[<<f, c>>] # NoTask => tasks'[<<f, c>>] # NoTask
      PROVE  Kept(f, session'[f], tasks')
  BY <1>0, <1>1 DEF Kept
<1>2. ASSUME NEW h \in Handles, Open(h) PROVE Kept(f, session'[f], tasks')
  <2>1. UNCHANGED tasks
    BY <1>2 DEF Open, taskVars
  <2>2. CASE f = HandleFile[h]
    <3>1. RefsOf(session'[f]) = RefsOf(session[f]) + 1
      BY <1>2, <2>2, OpenSessions
    <3>2. RefsOf(session[f]) \in Nat
      BY <1>t DEF RefsOf, Session
    <3> QED BY <3>1, <3>2 DEF Kept
  <2>3. CASE f # HandleFile[h]
    <3>1. session'[f] = session[f]
      BY <1>2, <2>3, OpenSessions
    <3> QED BY <1>1, <2>1, <3>1
  <2> QED BY <2>2, <2>3
<1>3. ASSUME NEW h \in Handles, Release(h) PROVE Kept(f, session'[f], tasks')
  <2>1. session[HandleFile[h]] # None
    BY <1>3, AliveSession DEF Release
  <2>2. CASE f = HandleFile[h]
    <3>1. \/ session'[f].refs > 0
          \/ session'[f].inflight > 0
          \/ \E c \in Chunks : tasks'[<<f, c>>] # NoTask
      BY <1>3, <2>1, <2>2, ReleaseSessions
    <3> QED BY <3>1 DEF Kept, RefsOf, InflightOf
  <2>3. CASE f # HandleFile[h]
    <3>1. session'[f] = session[f]
      BY <1>3, <2>1, <2>3, ReleaseSessions
    <3>2. UNCHANGED tasks
      BY <1>3 DEF Release
    <3> QED BY <1>1, <3>1, <3>2
  <2> QED BY <2>2, <2>3
<1>4. ASSUME NEW r \in Readers, StartRead(r) PROVE Kept(f, session'[f], tasks')
  <2>1. PICK h \in Handles :
          /\ IsOpen(h)
          /\ RefsOf(session'[f]) = RefsOf(session[f])
          /\ InflightOf(session'[f]) = InflightOf(session[f])
          /\ f # HandleFile[h] => session'[f] = session[f]
          /\ UNCHANGED tasks
    BY <1>4, StartSessions
  <2>2. session[f] # None
    BY <2>1, AliveSession
  <2> QED BY <1>1, <2>1, <2>2
<1>5. ASSUME NEW w \in Workers, NextTask(w) PROVE Kept(f, session'[f], tasks')
  <2>1. PICK t \in queue : Take(w, t)
    BY <1>5 DEF NextTask
  <2> DEFINE popped == {u \in queue : Stale(u) /\ Before(u, t)}
             g == FileOf(t)
  <2>2. /\ Discard(popped)
        /\ session' = IF SessionsAfterDiscard(popped)[g] = None
                      THEN SessionsAfterDiscard(popped)
                      ELSE [SessionsAfterDiscard(popped) EXCEPT ![g].inflight = @ + 1]
    BY <2>1 DEF Take
  <2>3. /\ SessionsAfterDiscard(popped) \in [Files -> Session \cup {None}]
        /\ popped \in SUBSET queue
    BY <2>2, DiscardType
  <2> HIDE DEF popped
  <2>4. PICK ss : ss = SessionsAfterDiscard(popped)
    OBVIOUS
  <2>5. ss \in [Files -> Session \cup {None}]
        /\ session' = IF ss[g] = None THEN ss ELSE [ss EXCEPT ![g].inflight = @ + 1]
    BY <2>2, <2>3, <2>4
  <2>6. CASE session'[f] = ss[f]
    BY <1>0, <2>2, <2>3, <2>4, <2>6, DiscardReclaims
  <2>7. CASE session'[f] # ss[f]
    <3> HIDE DEF g
    <3>1. f = g /\ ss[f] # None
      BY <2>5, <2>7
    <3>2. ss[f] \in Session /\ ss[f].inflight \in Nat
      BY <2>5, <3>1, SessionFields
    <3>3. session'[f] = [ss[f] EXCEPT !.inflight = ss[f].inflight + 1]
      BY <2>5, <3>1
    <3>4. session'[f].inflight = ss[f].inflight + 1
      BY <3>2, <3>3 DEF Session
    <3> QED BY <3>2, <3>4 DEF Kept, InflightOf
  <2> QED BY <2>6, <2>7
<1>6. ASSUME NEW w \in Workers, FinishTask(w) \/ FinishLost(w)
      PROVE  Kept(f, session'[f], tasks')
  <2> DEFINE g == FileOf(wtask[w])
  <2>1. /\ f = g => \/ session'[f].refs > 0
                    \/ session'[f].inflight > 0
                    \/ \E c \in Chunks : tasks'[<<f, c>>] # NoTask
        /\ f # g => session'[f] = session[f]
    BY <1>6, FinishSessions
  <2>2. CASE f = g
    BY <2>1, <2>2 DEF Kept, RefsOf, InflightOf
  <2>3. CASE f # g
    <3>1. ASSUME NEW c \in Chunks, tasks[<<f, c>>] # NoTask
          PROVE  tasks'[<<f, c>>] # NoTask
      <4>1. <<f, c>> \in Key
        BY DEF Key
      <4>2. tkey[tasks[<<f, c>>]] = <<f, c>>
        BY <3>1, <4>1 DEF Registry, RegisteredPending
      <4>3. tasks[<<f, c>>] # wtask[w]
        BY <2>3, <4>2 DEF FileOf
      <4> QED BY <1>6, <3>1, <4>1, <4>3 DEF FinishTask, FinishLost, Unregistered, taskVars
    <3> QED BY <1>1, <2>1, <2>3, <3>1
  <2> QED BY <2>2, <2>3
<1>7. ASSUME NEW w \in Workers, AwaitTask(w) PROVE Kept(f, session'[f], tasks')
  <2> DEFINE popped == {u \in queue : Stale(u)}
  <2>1. /\ popped \in SUBSET queue
        /\ Discard(popped)
        /\ session' = SessionsAfterDiscard(popped)
    BY <1>7 DEF AwaitTask
  <2> HIDE DEF popped
  <2> QED BY <1>0, <2>1, DiscardReclaims
<1>8. ASSUME RestStep, ~\E w \in Workers : AwaitTask(w)
      PROVE  Kept(f, session'[f], tasks')
  <2>1. /\ session[f] # None
        /\ RefsOf(session'[f]) = RefsOf(session[f])
        /\ InflightOf(session'[f]) = InflightOf(session[f])
    BY <1>8, RestSessions DEF Alike
  <2>2. ASSUME NEW t \in TaskId, HedgeStep(t), NEW c \in Chunks, tasks[<<f, c>>] # NoTask
        PROVE  tasks'[<<f, c>>] # NoTask
    <3>1. CASE PublishHedge(t)
      <4>1. <<f, c>> \in Key /\ FileOf(t) # f
        BY <3>1 DEF Key
      <4>2. tkey[tasks[<<f, c>>]] = <<f, c>>
        BY <2>2, <4>1 DEF Registry, RegisteredPending
      <4>3. tasks[<<f, c>>] # t
        BY <4>1, <4>2 DEF FileOf
      <4> QED BY <2>2, <3>1, <4>1, <4>3 DEF PublishHedge, Unregistered
    <3>2. CASE HedgeOk(t) \/ HedgeFail(t) \/ HedgeSend(t)
      BY <2>2, <3>2 DEF HedgeOk, HedgeFail, HedgeSend, taskVars
    <3> QED BY <2>2, <3>1, <3>2 DEF HedgeStep
  <2>3. ASSUME NEW r \in Readers, EnsureBackground(r) \/ EnsureForeground(r),
               NEW c \in Chunks, tasks[<<f, c>>] # NoTask
        PROVE  tasks'[<<f, c>>] # NoTask
    <3>1. <<f, c>> \in Key
      BY DEF Key
    <3> QED BY <2>3, <3>1, TaskMapGrows
  <2>4. ASSUME NEW r \in Readers,
               \/ ScheduleBuffer(r) \/ PeekBackground(r) \/ PeekChunk(r)
               \/ MarkForeground(r) \/ TaskDone(r) \/ Interrupt(r) \/ StartHedge(r)
        PROVE  UNCHANGED tasks
    BY <2>4 DEF ScheduleBuffer, PeekBackground, PeekChunk, MarkForeground, TaskDone,
                Interrupt, StartHedge, taskVars
  <2>5. ASSUME \/ \E w \in Workers : \/ WorkerExit(w) \/ DownloadOk(w)
                                     \/ DownloadFail(w) \/ WorkerSend(w)
               \/ \E k \in Key : Evict(k)
               \/ \E S \in SUBSET cached : ReclaimIdle(S)
               \/ DiskWrite \/ Close \/ CloseStep \/ UNCHANGED vars
        PROVE  UNCHANGED tasks
    BY <2>5 DEF WorkerExit, DownloadOk, DownloadFail, WorkerSend, Evict, ReclaimIdle,
                DiskWrite, Close, CloseStep, CloseChannel, CloseReturns, taskVars, vars
  <2>6. \A c \in Chunks : tasks[<<f, c>>] # NoTask => tasks'[<<f, c>>] # NoTask
    BY <1>8, <2>2, <2>3, <2>4, <2>5 DEF RestStep, ReaderStep
  <2> QED BY <1>1, <2>1, <2>6
<1> QED BY <1>2, <1>3, <1>4, <1>5, <1>6, <1>7, <1>8, StepCases

(* A step leaves a session without handles, workers and tasks in the map   *)
(* only if it was so before or the step is publishHedge of one of its      *)
(* tasks: Release, finishTask and a scan's discard clean up whatever they  *)
(* leave without a use.                                                    *)
THEOREM SessionsReclaimed == Spec => SessionReclaimed
<1>1. TypeInv /\ TypeInv' /\ RefsExact /\ Registry /\ [Next]_vars =>
        [\A f \in Files :
           Useless(f)' =>
             Useless(f) \/ \E t \in TaskId : PublishHedge(t) /\ FileOf(t) = f]_vars
  <2> SUFFICES ASSUME TypeInv, TypeInv', RefsExact, Registry, [Next]_vars,
                      NEW f \in Files, Useless(f)', ~Useless(f),
                      \A t \in TaskId : PublishHedge(t) => FileOf(t) # f
               PROVE  FALSE
    OBVIOUS
  <2>1. session'[f] # None
    BY DEF Useless
  <2>2. session[f] # None => Kept(f, session[f], tasks)
    BY UselessView
  <2>3. Kept(f, session'[f], tasks')
    BY <2>1, <2>2, ReclaimedStep
  <2>4. session'[f] \in Session
    BY <2>1 DEF TypeInv, SessPart
  <2>5. session'[f].refs \in Nat /\ session'[f].inflight \in Nat
    BY <2>4, SessionFields
  <2>6. RefsOf(session'[f]) = session'[f].refs /\ InflightOf(session'[f]) = session'[f].inflight
    BY <2>1 DEF RefsOf, InflightOf
  <2>7. ~(RefsOf(session'[f]) > 0) /\ ~(InflightOf(session'[f]) > 0)
    BY <2>5, <2>6 DEF Useless
  <2> QED BY <2>3, <2>7, Zenon DEF Useless, Kept
<1> QED BY <1>1, TypeInvariance, RefsInvariance, RegistryInvariance, PTL
        DEF Spec, SessionReclaimed

-----------------------------------------------------------------------------
(* What a read waits for                                                   *)

(* Steps that add nothing to the heap and cancel no live foreground task.  *)
LEMMA QueueQuiet ==
  ASSUME ForegroundQueueKept, queue' \subseteq queue, UNCHANGED tprio,
         Closed => Closed',
         \A t \in queue' : Pending(t)' => Pending(t),
         \A t \in queue' : t \in cancelled' =>
           t \in cancelled \/ tprio[t] # Foreground \/ ~Pending(t)' \/ Closed'
  PROVE  ForegroundQueueKept'
BY DEF ForegroundQueueKept


(* ensureTask promotes only tasks that are not cancelled.                  *)
LEMMA EnsureQueue ==
  ASSUME TypeInv, ForegroundQueueKept, NEW k \in Key, NEW e, NEW p, NEW t \in TaskId,
         EnsureTask(k, e, p, t)
  PROVE  ForegroundQueueKept'
<1>1. UNCHANGED <<cancelled, result, cpc>>
  BY DEF EnsureTask
<1>2. CASE Reuse(k, p, t)
  <2>1. /\ queue' = queue
        /\ t \notin cancelled
        /\ \A u \in TaskId \ {t} : tprio'[u] = tprio[u]
    BY <1>2 DEF Reuse, Reusable, Promoted, TypeInv, TaskPart
  <2>2. queue \subseteq TaskId
    BY IssuedTask DEF TypeInv, TaskPart
  <2> QED BY <1>1, <2>1, <2>2 DEF ForegroundQueueKept, Closed, Pending
<1>3. CASE Create(k, e, p, t)
  <2>1. /\ queue' = queue \cup {t}
        /\ t \notin cancelled
        /\ \A u \in TaskId \ {t} : tprio'[u] = tprio[u]
    BY <1>3 DEF Create, TypeInv, TaskPart, Issued
  <2>2. queue \subseteq TaskId
    BY IssuedTask DEF TypeInv, TaskPart
  <2> QED BY <1>1, <2>1, <2>2 DEF ForegroundQueueKept, Closed, Pending
<1> QED BY <1>2, <1>3 DEF EnsureTask

(* cancelSessionTasksLocked spares the foreground, publishHedge settles    *)
(* what it cancels.                                                        *)
LEMMA QueueKeptStep ==
  TypeInv /\ ForegroundQueueKept /\ [Next]_vars => ForegroundQueueKept'
<1> SUFFICES ASSUME TypeInv, ForegroundQueueKept, [Next]_vars
             PROVE  ForegroundQueueKept'
  OBVIOUS
<1>1. ASSUME UNCHANGED <<queue, tprio, cancelled, result>>, Closed => Closed'
      PROVE  ForegroundQueueKept'
  BY <1>1, QueueQuiet DEF Pending
<1>2. queue \subseteq TaskId
  BY IssuedTask DEF TypeInv, TaskPart
<1>3. \A f, e : \A t \in OldTasks(f, e) : tprio[t] # Foreground
  BY DEF OldTasks
<1>4. ASSUME NEW h \in Handles, Open(h) PROVE ForegroundQueueKept'
  BY <1>1, <1>4 DEF Open, taskVars, Closed
<1>5. ASSUME NEW h \in Handles, Release(h) PROVE ForegroundQueueKept'
  <2>1. /\ UNCHANGED <<queue, tprio, result, cpc>>
        /\ \E f, e : cancelled' \in {cancelled, cancelled \cup OldTasks(f, e)}
    BY <1>5 DEF Release
  <2> QED BY <1>3, <2>1, QueueQuiet DEF Closed, Pending
<1>6. ASSUME NEW r \in Readers, StartRead(r) PROVE ForegroundQueueKept'
  <2>1. /\ UNCHANGED <<queue, tprio, result, cpc>>
        /\ \E f, e : cancelled' \in {cancelled, cancelled \cup OldTasks(f, e)}
    BY <1>6 DEF StartRead, PrepareRead
  <2> QED BY <1>3, <2>1, QueueQuiet DEF Closed, Pending
<1>7. ASSUME NEW r \in Readers, EnsureBackground(r) \/ EnsureForeground(r)
      PROVE  ForegroundQueueKept'
  <2>1. read[r] \in Read
    BY <1>7 DEF EnsureBackground, EnsureForeground, TypeInv, ReadPart
  <2>2. /\ \A x \in read[r].plan : <<ReadFile(r), x[1]>> \in Key
        /\ \A c \in read[r].need : <<ReadFile(r), c>> \in Key
    BY <2>1, SchedulerAssumption DEF Read, ReadFile, Key
  <2>3. CASE Refused
    BY <1>1, <2>3 DEF Refused, taskVars, Closed
  <2>4. ASSUME NEW k \in Key, NEW e, NEW p, NEW t \in TaskId, EnsureTask(k, e, p, t)
        PROVE  ForegroundQueueKept'
    BY <2>4, EnsureQueue
  <2> QED BY <1>7, <2>2, <2>3, <2>4 DEF EnsureBackground, EnsureForeground
<1>8. ASSUME NEW r \in Readers,
             \/ ScheduleBuffer(r) \/ PeekBackground(r) \/ PeekChunk(r)
             \/ MarkForeground(r) \/ TaskDone(r) \/ Interrupt(r) \/ StartHedge(r)
      PROVE  ForegroundQueueKept'
  BY <1>1, <1>8 DEF ScheduleBuffer, PeekBackground, PeekChunk, MarkForeground,
                    TaskDone, Interrupt, StartHedge, taskVars, Closed
<1>9. ASSUME NEW S \in SUBSET queue, Discard(S), queue' \subseteq queue,
             UNCHANGED <<tprio, cancelled, cpc>>
      PROVE  ForegroundQueueKept'
  <2>1. \A t \in queue' : Pending(t)' => Pending(t)
    BY <1>2, <1>9 DEF Discard, Settled, Pending
  <2> QED BY <1>9, <2>1, QueueQuiet DEF Closed
<1>10. ASSUME NEW w \in Workers, WorkerStep(w) PROVE ForegroundQueueKept'
  <2>1. CASE NextTask(w)
    <3>1. PICK t \in queue : Take(w, t)
      BY <2>1 DEF NextTask
    <3>2. /\ Discard({u \in queue : Stale(u) /\ Before(u, t)})
          /\ queue' \subseteq queue
      BY <3>1 DEF Take, HeapAfter
    <3> QED BY <1>9, <2>1, <3>2 DEF NextTask
  <2>2. CASE AwaitTask(w)
    BY <1>9, <2>2 DEF AwaitTask, HeapAfterScan
  <2>3. CASE FinishTask(w)
    <3>1. \A t \in queue' : Pending(t)' => Pending(t)
      BY <1>2, <2>3 DEF FinishTask, Settled, Pending
    <3> QED BY <2>3, <3>1, QueueQuiet DEF FinishTask, Closed
  <2>4. CASE \/ WorkerExit(w) \/ DownloadOk(w) \/ DownloadFail(w)
             \/ FinishLost(w) \/ WorkerSend(w)
    BY <1>1, <2>4 DEF WorkerExit, DownloadOk, DownloadFail, FinishLost, WorkerSend,
                      taskVars, Closed
  <2> QED BY <1>10, <2>1, <2>2, <2>3, <2>4 DEF WorkerStep
<1>11. ASSUME NEW t \in TaskId, HedgeStep(t) PROVE ForegroundQueueKept'
  <2>1. CASE PublishHedge(t) /\ Pending(t)
    <3>1. /\ UNCHANGED <<queue, tprio, cpc>>
          /\ cancelled' = cancelled \cup {t}
          /\ \A u \in TaskId : result'[u] = IF u = t THEN "ok" ELSE result[u]
      BY <2>1 DEF PublishHedge, CancelPrimary, Settled
    <3> QED BY <1>2, <3>1, QueueQuiet DEF Closed, Pending
  <2>2. CASE ~(PublishHedge(t) /\ Pending(t))
    BY <1>1, <1>11, <2>2 DEF HedgeStep, HedgeOk, HedgeFail, PublishHedge, HedgeSend,
                             taskVars, Closed
  <2> QED BY <2>1, <2>2
<1>12. CASE Close
  BY <1>12, QueueQuiet DEF Close, Closed, Pending
<1>13. CASE \/ \E k \in Key : Evict(k)
            \/ \E S \in SUBSET cached : ReclaimIdle(S)
            \/ DiskWrite \/ CloseStep \/ UNCHANGED vars
  BY <1>1, <1>13 DEF Evict, ReclaimIdle, DiskWrite, CloseStep, CloseChannel,
                     CloseReturns, taskVars, vars, Closed
<1> QED BY <1>4, <1>5, <1>6, <1>7, <1>8, <1>10, <1>11, <1>12, <1>13 DEF Next, ReaderStep

(* A queued foreground task that is not finished is cancelled by Close     *)
(* only: seeks, starts and releases of any session spare it.               *)
THEOREM ForegroundTasksKept == Spec => []ForegroundQueueKept
<1>1. Init => ForegroundQueueKept
  BY DEF Init, ForegroundQueueKept
<1> QED BY <1>1, QueueKeptStep, TypeInvariance, PTL DEF Spec

(* ensureTask returns a task of the chunk it is asked for.                 *)
LEMMA EnsureTaskOfChunk ==
  ASSUME TypeInv, Registry, NEW k \in Key, NEW e, NEW p, NEW t \in TaskId,
         EnsureTask(k, e, p, t)
  PROVE  tkey'[t] = k
<1>1. CASE Reuse(k, p, t)
  BY <1>1 DEF Reuse, Reusable, Registry, RegisteredPending
<1>2. CASE Create(k, e, p, t)
  BY <1>2 DEF Create, TypeInv, TaskPart
<1> QED BY <1>1, <1>2 DEF EnsureTask

(* A task keeps its chunk.                                                 *)
LEMMA TaskKeysKept ==
  ASSUME TypeInv, TaskStep, NEW t \in Issued
  PROVE  tkey'[t] = tkey[t]
BY IssuedTask DEF TaskStep, Creates, Cancels, Settles, TypeInv, TaskPart, Issued

(* A read asks for its next chunk, and its need does not change while it   *)
(* waits.                                                                  *)
LEMMA WaitsStep ==
  TypeInv /\ Registry /\ WaitsForItsChunk /\ [Next]_vars => WaitsForItsChunk'
<1> SUFFICES ASSUME TypeInv, Registry, WaitsForItsChunk, [Next]_vars,
                    NEW q \in Readers, rpc'[q] \in {"mark", "wait"}
             PROVE  \E c \in Chunks :
                      /\ FirstChunk(c, read'[q].need)
                      /\ tkey'[read'[q].task] = <<HandleFile[read'[q].handle], c>>
  BY DEF WaitsForItsChunk, ReadFile, FirstChunk
<1> DEFINE Goal == \E c \in Chunks :
                      /\ FirstChunk(c, read'[q].need)
                      /\ tkey'[read'[q].task] = <<HandleFile[read'[q].handle], c>>
<1>0. \A t \in Issued : tkey'[t] = tkey[t]
  BY EveryTaskStep, TaskKeysKept
<1>1. ASSUME rpc[q] \in {"mark", "wait"}, read'[q] = read[q]
      PROVE  Goal
  <2>1. read[q].task \in Issued
    BY <1>1 DEF TypeInv, ReadPart
  <2>2. PICK c \in Chunks : /\ FirstChunk(c, read[q].need)
                            /\ tkey[read[q].task] = <<ReadFile(q), c>>
    BY <1>1 DEF WaitsForItsChunk
  <2>3. tkey'[read[q].task] = <<HandleFile[read[q].handle], c>>
    BY <1>0, <2>1, <2>2 DEF ReadFile
  <2> QED BY <1>1, <2>2, <2>3
<1>2. ASSUME UNCHANGED <<rpc, read>> PROVE Goal
  BY <1>1, <1>2
<1>3. ASSUME NEW r \in Readers,
             \/ Finish(r)
             \/ \E plan : ContinuePlan(r, plan)
             \/ \E need : ContinueNeed(r, need)
             \/ /\ \E pc \in {"ensure", "ensureBackground"} :
                     rpc' = [rpc EXCEPT ![r] = pc]
                /\ UNCHANGED read
             \/ rpc[r] = "mark" /\ rpc' = [rpc EXCEPT ![r] = "wait"] /\ UNCHANGED read
      PROVE  Goal
  <2>1. CASE q # r
    <3>1. rpc'[q] = rpc[q] /\ read'[q] = read[q]
      BY <1>3, <2>1 DEF Finish, ContinuePlan, ContinueNeed, TypeInv, ReadPart
    <3> QED BY <1>1, <3>1
  <2>2. CASE q = r
    <3>1. rpc[r] = "mark" /\ UNCHANGED read
      BY <1>3, <2>2 DEF Finish, ContinuePlan, ContinueNeed, TypeInv, ReadPart
    <3> QED BY <1>1, <2>2, <3>1
  <2> QED BY <2>1, <2>2
<1>4. ASSUME NEW r \in Readers, EnsureForeground(r) PROVE Goal
  <2>1. CASE Finish(r)
    BY <1>3, <2>1
  <2>2. ASSUME NEW c \in read[r].need, NEW t \in TaskId,
               FirstChunk(c, read[r].need),
               EnsureTask(<<ReadFile(r), c>>, read[r].epoch, Foreground, t),
               read' = [read EXCEPT ![r].task = t],
               rpc' = [rpc EXCEPT ![r] = "mark"]
        PROVE  Goal
    <3>t. /\ read[r] \in Read
          /\ read \in [Readers -> Read \cup {None}]
          /\ rpc \in [Readers -> ReadPcs]
      BY <1>4 DEF EnsureForeground, TypeInv, ReadPart
    <3>1. c \in Chunks /\ <<ReadFile(r), c>> \in Key
      BY <3>t, SchedulerAssumption DEF Read, ReadFile, Key
    <3>2. tkey'[t] = <<ReadFile(r), c>>
      BY <2>2, <3>1, EnsureTaskOfChunk
    <3>3. CASE q # r
      <4>1. rpc'[q] = rpc[q] /\ read'[q] = read[q]
        BY <2>2, <3>t, <3>3
      <4> QED BY <1>1, <4>1
    <3>4. CASE q = r
      <4>1. PICK d : d = [read[r] EXCEPT !.task = t]
        OBVIOUS
      <4>2. d.task = t /\ d.need = read[r].need /\ d.handle = read[r].handle
        BY <3>t, <4>1 DEF Read
      <4>3. read'[q] = d
        BY <2>2, <3>t, <3>4, <4>1
      <4> QED BY <2>2, <3>1, <3>2, <4>2, <4>3 DEF ReadFile
    <3> QED BY <3>3, <3>4
  <2> QED BY <1>4, <2>1, <2>2 DEF EnsureForeground
<1>5. ASSUME NEW r \in Readers, ReaderStep(r) \/ Interrupt(r) PROVE Goal
  <2> HIDE DEF Goal
  <2>1. CASE ScheduleBuffer(r)
    BY <1>3, <2>1 DEF ScheduleBuffer
  <2>2. CASE PeekBackground(r)
    BY <1>3, <2>2 DEF PeekBackground
  <2>3. CASE EnsureBackground(r)
    BY <1>3, <2>3 DEF EnsureBackground
  <2>4. CASE PeekChunk(r)
    BY <1>3, <2>4 DEF PeekChunk
  <2>5. CASE MarkForeground(r)
    BY <1>3, <2>5 DEF MarkForeground
  <2>6. CASE TaskDone(r)
    BY <1>3, <2>6 DEF TaskDone
  <2>7. CASE Interrupt(r)
    BY <1>3, <2>7 DEF Interrupt
  <2> QED BY <1>4, <1>5, <2>1, <2>2, <2>3, <2>4, <2>5, <2>6, <2>7 DEF ReaderStep
<1>6. ASSUME NEW r \in Readers, StartRead(r) PROVE Goal
  <2>1. /\ rpc' = [rpc EXCEPT ![r] = rpc'[r]]
        /\ read' = [read EXCEPT ![r] = read'[r]]
        /\ rpc'[r] \in {"buffer", "background", "peek"}
    BY <1>6, StartSessions
  <2>2. q # r
    BY <2>1
  <2>3. rpc'[q] = rpc[q] /\ read'[q] = read[q]
    BY <2>1, <2>2 DEF TypeInv, ReadPart
  <2> QED BY <1>1, <2>3
<1> HIDE DEF Goal
<1>7. ASSUME NEW r \in Readers, StartHedge(r) PROVE UNCHANGED <<rpc, read>>
  BY <1>7 DEF StartHedge, readVars
<1>8. ASSUME NEW w \in Workers, WorkerStep(w) PROVE UNCHANGED <<rpc, read>>
  BY <1>8 DEF WorkerStep, NextTask, AwaitTask, WorkerExit, DownloadOk,
              DownloadFail, FinishLost, FinishTask, WorkerSend, readVars
<1>9. ASSUME NEW t \in TaskId, HedgeStep(t) PROVE UNCHANGED <<rpc, read>>
  BY <1>9 DEF HedgeStep, HedgeOk, HedgeFail, PublishHedge, HedgeSend, readVars
<1>10. ASSUME \/ \E h \in Handles : Open(h) \/ Release(h)
              \/ \E k \in Key : Evict(k)
              \/ \E S \in SUBSET cached : ReclaimIdle(S)
              \/ DiskWrite \/ Close \/ CloseStep \/ UNCHANGED vars
       PROVE  UNCHANGED <<rpc, read>>
  BY <1>10 DEF Open, Release, Evict, ReclaimIdle, DiskWrite, Close, CloseStep,
               CloseChannel, CloseReturns, readVars, vars
<1>11. Goal
  BY <1>2, <1>5, <1>6, <1>7, <1>8, <1>9, <1>10 DEF Next
<1> QED BY <1>11 DEF Goal

(* The task a reader of waitChunk waits for is the one of the chunk that   *)
(* it needs next, of the file of its handle.                               *)
THEOREM ReadersWaitForTheirChunk == Spec => []WaitsForItsChunk
<1>1. Init => WaitsForItsChunk
  BY DEF Init, WaitsForItsChunk
<1> QED BY <1>1, WaitsStep, TypeInvariance, RegistryInvariance, PTL DEF Spec
=============================================================================
