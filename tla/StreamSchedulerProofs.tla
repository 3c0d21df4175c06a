----------------------- MODULE StreamSchedulerProofs -----------------------
(***************************************************************************)
(* Theorems about StreamScheduler, for every number of files, handles,     *)
(* readers, workers, chunks and tasks.                                     *)
(***************************************************************************)
EXTENDS StreamScheduler, TLAPS

-----------------------------------------------------------------------------
(* Types: the conjuncts of TypeOK by the actor that owns the variables,    *)
(* with what relates them and makes them inductive.                        *)

SessPart ==
  /\ session \in [Files -> Session \cup {None}]
  /\ hstate \in [Handles -> {"new", "fresh", "probe", "stream", "released"}]

(* Tasks are numbered as they are created, and nothing is known of a task  *)
(* before that.                                                            *)
TaskPart ==
  /\ tasks \in [Key -> TaskId \cup {NoTask}]
  /\ nseq \in 0..MaxTasks
  /\ tkey \in [TaskId -> Key \cup {None}]
  /\ tprio \in [TaskId -> Priority]
  /\ tepoch \in [TaskId -> Nat]
  /\ result \in [TaskId -> {"pending", "ok", "err"}]
  /\ hedge \in [TaskId -> HedgePcs]
  /\ queue \subseteq Issued
  /\ started \subseteq Issued
  /\ cancelled \subseteq Issued
  /\ foreground \subseteq Issued
  /\ hcancelled \subseteq TaskId
  /\ \A t \in Issued : tkey[t] \in Key
  /\ \A t \in TaskId \ Issued :
       tkey[t] = None /\ result[t] = "pending" /\ hedge[t] = "none"
  /\ \A k \in Key : tasks[k] # NoTask => tasks[k] \in Issued

StorePart == cached \subseteq Key /\ diskq \in Seq(Key)

ReadPart ==
  /\ rpc \in [Readers -> ReadPcs]
  /\ read \in [Readers -> Read \cup {None}]
  /\ nreads \in 0..MaxReads
  /\ \A r \in Readers : rpc[r] # "idle" => read[r] \in Read
  /\ \A r \in Readers : rpc[r] \in {"mark", "wait"} => read[r].task \in Issued

WorkPart ==
  /\ wpc \in [Workers -> WorkerPcs]
  /\ wtask \in [Workers -> TaskId \cup {NoTask}]
  /\ \A w \in Workers : Holding(w) \/ wpc[w] = "send" => wtask[w] \in Issued

TypeInv ==
  /\ SessPart
  /\ TaskPart
  /\ StorePart
  /\ ReadPart
  /\ WorkPart
  /\ cpc \in {"open", "closing", "draining", "done"}

(* The parts together are the type invariant of the module.                *)
LEMMA TypeInvTypeOK == TypeInv => TypeOK
<1> SUFFICES ASSUME TypeInv PROVE TypeOK
  OBVIOUS
<1>1. Issued \subseteq TaskId
  BY SchedulerAssumption DEF TypeInv, TaskPart, Issued, TaskId
<1> QED BY <1>1 DEF TypeInv, TypeOK, SessPart, TaskPart, StorePart, ReadPart, WorkPart

(* Issued only grows, so what holds of the issued tasks goes on holding.   *)
LEMMA IssuedTask ==
  ASSUME TypeInv
  PROVE  /\ Issued \subseteq TaskId
         /\ \A t \in Issued : t \in TaskId /\ t # NoTask /\ tkey[t] \in Key
BY SchedulerAssumption DEF TypeInv, TaskPart, Issued, TaskId, NoTask

-----------------------------------------------------------------------------
(* What the parts of several critical sections return                      *)

LEMMA SessionOfType ==
  ASSUME TypeInv, NEW f \in Files
  PROVE  SessionOf(f) \in Session
<1>1. FreshSession \in Session
  BY DEF FreshSession, Session
<1> QED BY <1>1 DEF TypeInv, SessPart, SessionOf

LEMMA NewEpochType ==
  ASSUME NEW s \in Session, NEW e \in Nat, NEW a \in Handles \cup {None}
  PROVE  [s EXCEPT !.epoch = e, !.active = a, !.window = FALSE] \in Session
BY Zenon DEF Session

LEMMA CleanedType ==
  ASSUME NEW ss \in [Files -> Session \cup {None}], NEW fs, NEW map, NEW res
  PROVE  Cleaned(ss, fs, map, res) \in [Files -> Session \cup {None}]
BY DEF Cleaned

LEMMA ReleasedType ==
  ASSUME TypeInv, NEW t
  PROVE  Released(t) \in [Files -> Session \cup {None}]
<1> DEFINE f == FileOf(t)
<1>1. session \in [Files -> Session \cup {None}]
  BY DEF TypeInv, SessPart
<1>2. CASE session[f] # None /\ session[f].inflight > 0
  <2>1. ASSUME f \in Files
        PROVE  [session[f] EXCEPT !.inflight = @ - 1] \in Session
    <3>1. session[f] \in Session
      BY <1>1, <1>2, <2>1
    <3> QED BY <3>1, <1>2 DEF Session
  <2> QED BY <2>1, <1>1, <1>2 DEF Released
<1> QED BY <1>1, <1>2 DEF Released

LEMMA UnslowedType ==
  ASSUME NEW ss \in [Files -> Session \cup {None}], NEW t
  PROVE  Unslowed(ss, t) \in [Files -> Session \cup {None}]
<1> DEFINE f == FileOf(t)
<1>1. CASE t \in foreground /\ hedge[t] = "none" /\ ss[f] # None
  <2>1. ASSUME f \in Files
        PROVE  [ss[f] EXCEPT !.slow = 0] \in Session
    <3>1. ss[f] \in Session
      BY <1>1, <2>1
    <3> QED BY <3>1 DEF Session
  <2> QED BY <2>1, <1>1 DEF Unslowed
<1> QED BY <1>1 DEF Unslowed

(* The goroutine of a read ends it or goes on with a smaller plan or need. *)
LEMMA FinishType ==
  ASSUME TypeInv, NEW r \in Readers, Finish(r),
         UNCHANGED nreads, Issued \subseteq Issued'
  PROVE  ReadPart'
<1> QED BY DEF TypeInv, ReadPart, Finish, ReadPcs

LEMMA ContinuePlanType ==
  ASSUME TypeInv, NEW r \in Readers, read[r] \in Read,
         NEW plan \in SUBSET (Chunks \X Priority), ContinuePlan(r, plan),
         UNCHANGED nreads, Issued \subseteq Issued'
  PROVE  ReadPart'
<1>1. CASE plan = {} /\ read[r].after
  BY <1>1, FinishType DEF ContinuePlan
<1>2. CASE ~(plan = {} /\ read[r].after)
  <2>1. [read[r] EXCEPT !.plan = plan] \in Read
    BY DEF Read
  <2>2. read' = [read EXCEPT ![r] = [read[r] EXCEPT !.plan = plan]]
    BY <1>2 DEF ContinuePlan
  <2>3. rpc' \in [Readers -> ReadPcs] /\ rpc'[r] \in {"peek", "background"}
         /\ \A q \in Readers \ {r} : rpc'[q] = rpc[q]
    BY <1>2 DEF ContinuePlan, TypeInv, ReadPart, ReadPcs
  <2> QED BY <2>1, <2>2, <2>3 DEF TypeInv, ReadPart
<1> QED BY <1>1, <1>2

LEMMA ContinueNeedType ==
  ASSUME TypeInv, NEW r \in Readers, read[r] \in Read,
         NEW need \in SUBSET Chunks, ContinueNeed(r, need),
         UNCHANGED nreads, Issued \subseteq Issued'
  PROVE  ReadPart'
<1>1. CASE need = {} /\ read[r].kind # "stream"
  BY <1>1, FinishType DEF ContinueNeed
<1>2. CASE ~(need = {} /\ read[r].kind # "stream")
  <2> DEFINE d == [read[r] EXCEPT !.need = need, !.task = NoTask,
                                  !.after = (need = {})]
  <2>1. d \in Read
    BY DEF Read
  <2>2. read' = [read EXCEPT ![r] = d]
    BY <1>2 DEF ContinueNeed, TypeInv, ReadPart
  <2>3. rpc' \in [Readers -> ReadPcs] /\ rpc'[r] \in {"peek", "buffer"}
         /\ \A q \in Readers \ {r} : rpc'[q] = rpc[q]
    BY <1>2 DEF ContinueNeed, TypeInv, ReadPart, ReadPcs
  <2> HIDE DEF d
  <2> QED BY <2>1, <2>2, <2>3 DEF TypeInv, ReadPart
<1> QED BY <1>1, <1>2

(* A task is shared or created.                                            *)
LEMMA EnsureTaskType ==
  ASSUME TypeInv, NEW k \in Key, NEW e \in Nat, NEW p \in Priority,
         NEW t \in TaskId, EnsureTask(k, e, p, t)
  PROVE  /\ TaskPart' /\ WorkPart' /\ StorePart'
         /\ Issued \subseteq Issued' /\ t \in Issued'
<1>1. CASE Reuse(k, p, t)
  <2>1. t \in Issued /\ UNCHANGED nseq
    BY <1>1 DEF Reuse, Reusable, TypeInv, TaskPart
  <2>2. tprio' \in [TaskId -> Priority]
    BY <1>1 DEF Reuse, Promoted, TypeInv, TaskPart
  <2>3. TaskPart'
    BY <1>1, <2>1, <2>2 DEF EnsureTask, Reuse, TypeInv, TaskPart, Issued, hedgeVars
  <2>4. WorkPart'
    BY <1>1 DEF EnsureTask, Reuse, TypeInv, WorkPart, Issued, Holding
  <2> QED BY <1>1, <2>1, <2>3, <2>4 DEF Issued, EnsureTask, TypeInv, StorePart, storeVars
<1>2. CASE Create(k, e, p, t)
  <2>1. /\ t = nseq + 1 /\ nseq' = t /\ nseq' \in 0..MaxTasks
        /\ Issued' = Issued \cup {t} /\ t \notin Issued
    BY <1>2, SchedulerAssumption DEF Create, TypeInv, TaskPart, Issued
  <2>2. TaskPart'
    BY <1>2, <2>1 DEF Create, EnsureTask, TypeInv, TaskPart, TaskId, NoTask, hedgeVars
  <2>3. wpc' \in [Workers -> WorkerPcs]
        /\ \A w \in Workers : wpc'[w] = wpc[w] \/ wpc'[w] = "ready"
    BY <1>2 DEF Create, Signal, Asleep, TypeInv, WorkPart, WorkerPcs
  <2>4. WorkPart'
    BY <2>1, <2>3 DEF EnsureTask, TypeInv, WorkPart, Holding
  <2> QED BY <2>1, <2>2, <2>4 DEF EnsureTask, TypeInv, StorePart, storeVars
<1> QED BY <1>1, <1>2 DEF EnsureTask

(* A scan discards the stale tasks S.                                      *)
LEMMA DiscardType ==
  ASSUME TypeInv, NEW S \in SUBSET queue, Discard(S)
  PROVE  /\ tasks' \in [Key -> TaskId \cup {NoTask}]
         /\ \A k \in Key : tasks'[k] \in {tasks[k], NoTask}
         /\ result' \in [TaskId -> {"pending", "ok", "err"}]
         /\ \A t \in TaskId \ Issued : result'[t] = result[t]
         /\ SessionsAfterDiscard(S) \in [Files -> Session \cup {None}]
<1>1. Unfinished(S) \subseteq Issued
  BY DEF Unfinished, TypeInv, TaskPart
<1>2. SessionsAfterDiscard(S) \in [Files -> Session \cup {None}]
  BY CleanedType DEF SessionsAfterDiscard, TypeInv, SessPart
<1> QED BY <1>1, <1>2 DEF Discard, Unregistered, Settled, TypeInv, TaskPart

-----------------------------------------------------------------------------
(* The type invariant                                                      *)

LEMMA InitTypeInv == Init => TypeInv
BY SchedulerAssumption
DEF Init, TypeInv, SessPart, TaskPart, StorePart, ReadPart, WorkPart, Issued,
    TaskId, Key, NoTask, Holding, Priority, Foreground, Back, ReadPcs,
    WorkerPcs, HedgePcs

(* Handles: sessions change, and Release may cancel tasks.                 *)
LEMMA HandleStepType ==
  ASSUME TypeInv, NEW h \in Handles, Open(h) \/ Release(h)
  PROVE  TypeInv'
<1> DEFINE f == HandleFile[h]
<1>1. f \in Files
  BY SchedulerAssumption
<1>2. StorePart' /\ ReadPart' /\ WorkPart' /\ cpc' = cpc
  BY DEF Open, Release, TypeInv, StorePart, ReadPart, WorkPart, Issued, Holding,
         taskVars, storeVars, readVars, workVars
<1>3. CASE Open(h)
  <2>1. [SessionOf(f) EXCEPT !.refs = @ + 1] \in Session
    <3>1. SessionOf(f) \in Session
      BY <1>1, SessionOfType
    <3> QED BY <3>1 DEF Session
  <2>2. SessPart'
    BY <1>3, <2>1 DEF Open, TypeInv, SessPart
  <2>3. TaskPart'
    BY <1>3 DEF Open, TypeInv, TaskPart, Issued, taskVars, hedgeVars
  <2> QED BY <1>2, <2>2, <2>3 DEF TypeInv
<1>4. CASE Release(h)
  <2> DEFINE s == session[f]
             refs1 == IF s.refs > 0 THEN s.refs - 1 ELSE 0
             s1 == IF EndsEpoch(s, h)
                   THEN [s EXCEPT !.refs = refs1, !.epoch = @ + 1,
                                  !.active = None, !.window = FALSE]
                   ELSE [s EXCEPT !.refs = refs1]
  <2>1. ASSUME s # None PROVE s1 \in Session
    <3>1. s \in Session
      BY <1>1, <2>1 DEF TypeInv, SessPart
    <3>2. s.refs \in Nat /\ s.epoch \in Nat /\ s.epoch + 1 \in Nat
      BY <3>1 DEF Session
    <3>3. refs1 \in Nat
      BY <3>2
    <3> HIDE DEF refs1
    <3>4. [s EXCEPT !.refs = refs1] \in Session
      BY <3>1, <3>3 DEF Session
    <3>5. [[s EXCEPT !.refs = refs1] EXCEPT !.epoch = s.epoch + 1,
             !.active = None, !.window = FALSE] \in Session
      BY <3>2, <3>4, NewEpochType, Zenon
    <3>6. [s EXCEPT !.refs = refs1, !.epoch = @ + 1, !.active = None,
                    !.window = FALSE]
          = [[s EXCEPT !.refs = refs1] EXCEPT !.epoch = s.epoch + 1,
             !.active = None, !.window = FALSE]
      BY <3>1 DEF Session
    <3> QED BY <3>4, <3>5, <3>6
  <2>2. session' \in [Files -> Session \cup {None}]
    <3> HIDE DEF s1
    <3>1. ASSUME s # None
          PROVE  [session EXCEPT ![f] = s1] \in [Files -> Session \cup {None}]
      BY <1>1, <2>1, <3>1 DEF TypeInv, SessPart
    <3>2. session' = IF s = None THEN session
                     ELSE Cleaned([session EXCEPT ![f] = s1], {f}, tasks, result)
      BY <1>4 DEF Release, s1
    <3> QED BY <3>1, <3>2, CleanedType DEF TypeInv, SessPart
  <2>3. SessPart'
    BY <1>4, <2>2 DEF Release, TypeInv, SessPart
  <2>4. cancelled' \subseteq Issued
    BY <1>4 DEF Release, OldTasks, TypeInv, TaskPart
  <2>5. TaskPart'
    BY <1>4, <2>4 DEF Release, TypeInv, TaskPart, Issued, hedgeVars
  <2> QED BY <1>2, <2>3, <2>5 DEF TypeInv
<1> QED BY <1>3, <1>4

LEMMA PreparedSessionType ==
  ASSUME NEW s \in Session, NEW h \in Handles, NEW obs, NEW within
  PROVE  PreparedSession(s, h, obs, within) \in Session
<1>1. [s EXCEPT !.epoch = @ + 1, !.active = h, !.window = FALSE] \in Session
  <2>1. s.epoch + 1 \in Nat
    BY DEF Session
  <2> QED BY <2>1, NewEpochType
<1>2. [s EXCEPT !.active = h] \in Session
  BY DEF Session
<1> QED BY <1>1, <1>2 DEF PreparedSession

(* prepareRead changes the session and starts the goroutine of a read.     *)
LEMMA StartReadType ==
  ASSUME TypeInv, NEW r \in Readers, StartRead(r)
  PROVE  TypeInv'
<1>1. PICK h \in Handles, within \in BOOLEAN, need \in Spans :
        \E obs \in Observations(hstate[h]) : PrepareRead(r, h, obs, within, need)
  BY DEF StartRead
<1>2. PICK obs \in Observations(hstate[h]) : PrepareRead(r, h, obs, within, need)
  BY <1>1
<1> DEFINE f == HandleFile[h]
           s1 == PreparedSession(SessionOf(f), h, obs, within)
<1>3. f \in Files /\ s1 \in Session
  BY SchedulerAssumption, SessionOfType, PreparedSessionType
<1>4. s1.epoch \in Nat
  BY <1>3 DEF Session
<1> HIDE DEF s1
<1>5. SessPart'
  <2>1. obs.mode \in {"probe", "stream"}
    BY DEF Observations
  <2> QED BY <1>2, <1>3, <2>1 DEF PrepareRead, TypeInv, SessPart, s1
<1>6. TaskPart'
  BY <1>2 DEF PrepareRead, OldTasks, TypeInv, TaskPart, Issued, hedgeVars
<1>7. ReadPart'
  <2>1. PICK kind \in {"stream", "probe", "plain"}, plan \in Plans \cup {{}} :
          /\ read' = [read EXCEPT ![r] =
               [handle |-> h, epoch |-> s1.epoch, kind |-> kind, need |-> need,
                plan |-> plan, after |-> FALSE, task |-> NoTask]]
          /\ rpc' = [rpc EXCEPT ![r] = CASE kind = "stream" -> "buffer"
                                         [] plan # {} -> "background"
                                         [] OTHER -> "peek"]
    BY <1>2 DEF PrepareRead, s1
  <2>2. need \in SUBSET Chunks /\ plan \in SUBSET (Chunks \X Priority)
    BY SchedulerAssumption DEF Spans, Priority, Foreground, Near, Ahead, Back
  <2>3. [handle |-> h, epoch |-> s1.epoch, kind |-> kind, need |-> need,
         plan |-> plan, after |-> FALSE, task |-> NoTask] \in Read
    BY <1>4, <2>2 DEF Read
  <2>4. read' \in [Readers -> Read \cup {None}] /\ read'[r] \in Read
        /\ \A q \in Readers \ {r} : read'[q] = read[q]
    BY <2>1, <2>3 DEF TypeInv, ReadPart
  <2>5. rpc' \in [Readers -> ReadPcs] /\ rpc'[r] \in {"buffer", "background", "peek"}
        /\ \A q \in Readers \ {r} : rpc'[q] = rpc[q]
    BY <2>1 DEF TypeInv, ReadPart, ReadPcs
  <2>6. nreads' \in 0..MaxReads /\ UNCHANGED nseq
    BY <1>2, SchedulerAssumption DEF PrepareRead, TypeInv, ReadPart
  <2> QED BY <2>4, <2>5, <2>6 DEF TypeInv, ReadPart, Issued
<1>8. StorePart' /\ WorkPart' /\ cpc' = cpc
  BY <1>2 DEF PrepareRead, TypeInv, StorePart, WorkPart, Issued, Holding,
              storeVars, workVars
<1> QED BY <1>5, <1>6, <1>7, <1>8 DEF TypeInv

(* The steps of a read: they walk its plan and its need, register tasks    *)
(* and wait for them.                                                      *)
LEMMA ReaderStepType ==
  ASSUME TypeInv, NEW r \in Readers, ReaderStep(r) \/ Interrupt(r)
  PROVE  TypeInv'
<1>1. ASSUME rpc[r] # "idle"
      PROVE  read[r] \in Read
  BY <1>1 DEF TypeInv, ReadPart
<1>2. ASSUME read[r] \in Read
      PROVE  /\ ReadFile(r) \in Files
             /\ read[r].need \in SUBSET Chunks
             /\ read[r].plan \in SUBSET (Chunks \X Priority)
             /\ read[r].epoch \in Nat
             /\ read[r].task \in TaskId \cup {NoTask}
             /\ \A c \in Chunks : <<ReadFile(r), c>> \in Key
  BY <1>2, SchedulerAssumption DEF Read, ReadFile, Key
<1>3. ASSUME UNCHANGED <<sessVars, taskVars, hedgeVars, storeVars, workVars, cpc>>, ReadPart'
      PROVE  TypeInv'
  BY <1>3 DEF TypeInv, SessPart, TaskPart, StorePart, WorkPart, Issued, Holding,
              sessVars, taskVars, hedgeVars, storeVars, workVars
<1>4. ASSUME ScheduleBuffer(r) PROVE TypeInv'
  <2>1. read[r] \in Read /\ Issued' = Issued
    BY <1>1, <1>4 DEF ScheduleBuffer, Issued, taskVars
  <2>2. ReadPart'
    <3>1. PICK plan \in Plans \cup {{}} : ContinuePlan(r, plan)
      BY <1>4 DEF ScheduleBuffer
    <3>2. plan \in SUBSET (Chunks \X Priority)
      BY SchedulerAssumption DEF Priority, Foreground, Near, Ahead, Back
    <3> QED BY <1>4, <2>1, <3>1, <3>2, ContinuePlanType DEF ScheduleBuffer
  <2>3. SessPart'
    <3> DEFINE f == ReadFile(r)
    <3>1. CASE UNCHANGED session
      BY <1>4, <3>1 DEF ScheduleBuffer, TypeInv, SessPart
    <3>2. CASE /\ session[f] # None
               /\ session' = [session EXCEPT ![f] = [session[f] EXCEPT !.window = TRUE]]
      <4>1. session[f] \in Session
        BY <1>2, <2>1, <3>2 DEF TypeInv, SessPart
      <4>2. [session[f] EXCEPT !.window = TRUE] \in Session
        BY <4>1 DEF Session
      <4> QED BY <1>4, <3>2, <4>2 DEF ScheduleBuffer, TypeInv, SessPart
    <3> QED BY <1>4, <3>1, <3>2 DEF ScheduleBuffer
  <2> QED BY <1>4, <2>2, <2>3
          DEF ScheduleBuffer, TypeInv, TaskPart, StorePart, WorkPart, Issued,
              Holding, taskVars, hedgeVars, storeVars, workVars
<1>5. ASSUME PeekBackground(r) PROVE TypeInv'
  <2>1. read[r] \in Read /\ Issued' = Issued
    BY <1>1, <1>5 DEF PeekBackground, Issued, taskVars
  <2>2. PICK x \in read[r].plan :
          \/ ContinuePlan(r, read[r].plan \ {x})
          \/ /\ rpc' = [rpc EXCEPT ![r] = "ensureBackground"]
             /\ UNCHANGED read
    BY <1>5 DEF PeekBackground
  <2>3. CASE ContinuePlan(r, read[r].plan \ {x})
    <3>1. read[r].plan \ {x} \in SUBSET (Chunks \X Priority)
      BY <1>2, <2>1
    <3>2. ReadPart'
      BY <1>5, <2>1, <2>3, <3>1, ContinuePlanType DEF PeekBackground
    <3> QED BY <1>3, <1>5, <3>2 DEF PeekBackground
  <2>4. CASE rpc' = [rpc EXCEPT ![r] = "ensureBackground"] /\ UNCHANGED read
    <3>1. ReadPart'
      BY <1>5, <2>1, <2>4 DEF PeekBackground, TypeInv, ReadPart, ReadPcs
    <3> QED BY <1>3, <1>5, <3>1 DEF PeekBackground
  <2> QED BY <2>2, <2>3, <2>4
<1>6. ASSUME EnsureBackground(r) PROVE TypeInv'
  <2>1. read[r] \in Read
    BY <1>1, <1>6 DEF EnsureBackground
  <2>2. PICK x \in read[r].plan :
          /\ ContinuePlan(r, read[r].plan \ {x})
          /\ \/ Refused
             \/ \E t \in TaskId :
                  EnsureTask(<<ReadFile(r), x[1]>>, read[r].epoch, x[2], t)
    BY <1>6 DEF EnsureBackground
  <2>3. /\ read[r].plan \ {x} \in SUBSET (Chunks \X Priority)
        /\ <<ReadFile(r), x[1]>> \in Key
        /\ x[2] \in Priority
    BY <1>2, <2>1
  <2>4. CASE Refused
    <3>1. ReadPart'
      BY <2>1, <2>2, <2>3, <2>4, ContinuePlanType DEF Refused, Issued, taskVars
    <3> QED BY <1>3, <2>4, <3>1 DEF Refused
  <2>5. ASSUME NEW t \in TaskId,
               EnsureTask(<<ReadFile(r), x[1]>>, read[r].epoch, x[2], t)
        PROVE  TypeInv'
    <3>1. TaskPart' /\ WorkPart' /\ StorePart' /\ Issued \subseteq Issued'
      BY <1>2, <2>1, <2>3, <2>5, EnsureTaskType
    <3>2. ReadPart'
      BY <2>1, <2>2, <2>3, <2>5, <3>1, ContinuePlanType DEF EnsureTask
    <3> QED BY <2>5, <3>1, <3>2 DEF EnsureTask, TypeInv, SessPart, sessVars
  <2> QED BY <2>2, <2>4, <2>5
<1>7. ASSUME PeekChunk(r) PROVE TypeInv'
  <2>1. read[r] \in Read /\ Issued' = Issued
    BY <1>1, <1>7 DEF PeekChunk, Issued, taskVars
  <2>2. PICK c \in read[r].need :
          \/ ContinueNeed(r, read[r].need \ {c})
          \/ rpc' = [rpc EXCEPT ![r] = "ensure"] /\ UNCHANGED read
    BY <1>7 DEF PeekChunk
  <2>3. CASE ContinueNeed(r, read[r].need \ {c})
    <3>1. read[r].need \ {c} \in SUBSET Chunks
      BY <1>2, <2>1
    <3>2. ReadPart'
      BY <1>7, <2>1, <2>3, <3>1, ContinueNeedType DEF PeekChunk
    <3> QED BY <1>3, <1>7, <3>2 DEF PeekChunk
  <2>4. CASE rpc' = [rpc EXCEPT ![r] = "ensure"] /\ UNCHANGED read
    <3>1. ReadPart'
      BY <1>7, <2>1, <2>4 DEF PeekChunk, TypeInv, ReadPart, ReadPcs
    <3> QED BY <1>3, <1>7, <3>1 DEF PeekChunk
  <2> QED BY <2>2, <2>3, <2>4
<1>8. ASSUME EnsureForeground(r) PROVE TypeInv'
  <2>1. read[r] \in Read
    BY <1>1, <1>8 DEF EnsureForeground
  <2>2. CASE Refused /\ Finish(r)
    <3>1. ReadPart'
      BY <2>2, FinishType DEF Refused, Issued, taskVars
    <3> QED BY <1>3, <2>2, <3>1 DEF Refused
  <2>3. ASSUME NEW c \in read[r].need, NEW t \in TaskId,
               EnsureTask(<<ReadFile(r), c>>, read[r].epoch, Foreground, t),
               read' = [read EXCEPT ![r].task = t],
               rpc' = [rpc EXCEPT ![r] = "mark"]
        PROVE  TypeInv'
    <3>1. <<ReadFile(r), c>> \in Key /\ Foreground \in Priority
      BY <1>2, <2>1 DEF Priority, Foreground, Back
    <3>2. TaskPart' /\ WorkPart' /\ StorePart' /\ Issued \subseteq Issued' /\ t \in Issued'
      BY <1>2, <2>1, <2>3, <3>1, EnsureTaskType
    <3>3. [read[r] EXCEPT !.task = t] \in Read /\ [read[r] EXCEPT !.task = t].task = t
      BY <2>1 DEF Read
    <3>4. read' = [read EXCEPT ![r] = [read[r] EXCEPT !.task = t]]
      BY <2>3
    <3>5. ReadPart'
      BY <2>3, <3>2, <3>3, <3>4 DEF EnsureTask, TypeInv, ReadPart, ReadPcs
    <3> QED BY <2>3, <3>2, <3>5 DEF EnsureTask, TypeInv, SessPart, sessVars
  <2> QED BY <1>8, <2>2, <2>3 DEF EnsureForeground
<1>9. ASSUME MarkForeground(r) PROVE TypeInv'
  <2>1. read[r].task \in Issued
    BY <1>9 DEF MarkForeground, TypeInv, ReadPart
  <2>2. TaskPart'
    BY <1>9, <2>1 DEF MarkForeground, TypeInv, TaskPart, Issued, hedgeVars
  <2>3. ReadPart'
    BY <1>9, <2>1 DEF MarkForeground, TypeInv, ReadPart, ReadPcs, Issued
  <2> QED BY <1>9, <2>2, <2>3
          DEF MarkForeground, TypeInv, SessPart, StorePart, WorkPart, Issued,
              Holding, sessVars, storeVars, workVars
<1>10. ASSUME TaskDone(r) PROVE TypeInv'
  <2>1. read[r] \in Read /\ Issued' = Issued
    BY <1>1, <1>10 DEF TaskDone, Issued, taskVars
  <2>2. CASE Finish(r)
    <3>1. ReadPart'
      BY <1>10, <2>1, <2>2, FinishType DEF TaskDone
    <3> QED BY <1>3, <1>10, <3>1 DEF TaskDone
  <2>3. ASSUME NEW c \in read[r].need, ContinueNeed(r, read[r].need \ {c})
        PROVE  TypeInv'
    <3>1. read[r].need \ {c} \in SUBSET Chunks
      BY <1>2, <2>1
    <3>2. ReadPart'
      BY <1>10, <2>1, <2>3, <3>1, ContinueNeedType DEF TaskDone
    <3> QED BY <1>3, <1>10, <3>2 DEF TaskDone
  <2> QED BY <1>10, <2>2, <2>3 DEF TaskDone
<1>11. ASSUME Interrupt(r) PROVE TypeInv'
  <2>1. ReadPart'
    BY <1>11, FinishType DEF Interrupt, Issued, taskVars
  <2> QED BY <1>3, <1>11, <2>1 DEF Interrupt
<1> QED BY <1>4, <1>5, <1>6, <1>7, <1>8, <1>9, <1>10, <1>11 DEF ReaderStep

LEMMA StartHedgeType ==
  ASSUME TypeInv, NEW r \in Readers, StartHedge(r)
  PROVE  TypeInv'
<1> DEFINE t == read[r].task
           f == FileOf(t)
<1>1. t \in Issued
  BY DEF StartHedge, TypeInv, ReadPart
<1>2. f \in Files /\ t \in TaskId
  BY <1>1, IssuedTask DEF FileOf, Key
<1>3. SessPart'
  <2>1. CASE session[f] # None
    <3>1. session[f] \in Session
      BY <1>2, <2>1 DEF TypeInv, SessPart
    <3>2. session[f].slow \in 0..2
      BY <3>1 DEF Session
    <3>3. (session[f].slow + 1) % 3 \in 0..2
      BY <3>2
    <3>4. [session[f] EXCEPT !.slow = (session[f].slow + 1) % 3] \in Session
      BY <3>1, <3>3 DEF Session
    <3>5. session' = [session EXCEPT ![f] =
                        [session[f] EXCEPT !.slow = (session[f].slow + 1) % 3]]
      BY <2>1 DEF StartHedge
    <3> QED BY <3>4, <3>5 DEF StartHedge, TypeInv, SessPart
  <2> QED BY <2>1 DEF StartHedge, TypeInv, SessPart
<1>4. TaskPart'
  BY <1>1, <1>2 DEF StartHedge, TypeInv, TaskPart, HedgePcs, Issued, taskVars
<1> QED BY <1>3, <1>4
        DEF StartHedge, TypeInv, StorePart, ReadPart, WorkPart, Issued, Holding,
            taskVars, storeVars, readVars, workVars

(* A worker takes, downloads and finishes a task.                          *)
LEMMA WorkerStepType ==
  ASSUME TypeInv, NEW w \in Workers, WorkerStep(w)
  PROVE  TypeInv'
<1>1. ASSUME Holding(w) \/ wpc[w] = "send"
      PROVE  wtask[w] \in Issued /\ wtask[w] \in TaskId /\ tkey[wtask[w]] \in Key
  BY <1>1, IssuedTask DEF TypeInv, WorkPart
<1>2. ASSUME UNCHANGED <<rpc, read, nreads, nseq>>
      PROVE  ReadPart' /\ Issued' = Issued
  BY <1>2 DEF TypeInv, ReadPart, Issued
<1>3. ASSUME NextTask(w) PROVE TypeInv'
  <2>1. PICK t \in queue : Take(w, t)
    BY <1>3 DEF NextTask
  <2> DEFINE popped == {u \in queue : Stale(u) /\ Before(u, t)}
             ss == SessionsAfterDiscard(popped)
             f == FileOf(t)
  <2>2. Discard(popped) /\ popped \in SUBSET queue
    BY <2>1 DEF Take
  <2>3. t \in Issued /\ t \in TaskId /\ Issued' = Issued
    BY <1>3, IssuedTask DEF NextTask, TypeInv, TaskPart, Issued
  <2>4. ss \in [Files -> Session \cup {None}]
    BY <2>2, DiscardType
  <2>5. SessPart'
    <3> HIDE DEF ss
    <3>1. CASE ss[f] # None
      <4>1. ASSUME f \in Files
            PROVE  [ss[f] EXCEPT !.inflight = @ + 1] \in Session
        <5>1. ss[f] \in Session
          BY <2>4, <3>1, <4>1
        <5> QED BY <5>1 DEF Session
      <4> QED BY <1>3, <2>1, <2>4, <3>1, <4>1 DEF NextTask, Take, ss, TypeInv, SessPart
    <3> QED BY <1>3, <2>1, <2>4, <3>1 DEF NextTask, Take, ss, TypeInv, SessPart
  <2>6. TaskPart'
    <3>1. queue' \subseteq queue /\ started' = started \cup {t}
      BY <2>1 DEF Take, HeapAfter
    <3> HIDE DEF popped
    <3>2. /\ tasks' \in [Key -> TaskId \cup {NoTask}]
          /\ \A k \in Key : tasks'[k] \in {tasks[k], NoTask}
          /\ result' \in [TaskId -> {"pending", "ok", "err"}]
          /\ \A u \in TaskId \ Issued : result'[u] = result[u]
      BY <2>2, DiscardType
    <3> QED BY <1>3, <2>3, <3>1, <3>2 DEF NextTask, TypeInv, TaskPart, hedgeVars
  <2>7. WorkPart'
    BY <1>3, <2>1, <2>3 DEF NextTask, Take, TypeInv, WorkPart, WorkerPcs, Holding
  <2> QED BY <1>2, <1>3, <2>5, <2>6, <2>7
          DEF NextTask, TypeInv, StorePart, storeVars, readVars
<1>4. ASSUME AwaitTask(w) PROVE TypeInv'
  <2> DEFINE popped == {u \in queue : Stale(u)}
  <2>1. /\ Discard(popped) /\ popped \in SUBSET queue
        /\ session' = SessionsAfterDiscard(popped)
        /\ queue' \subseteq queue
    BY <1>4 DEF AwaitTask, HeapAfterScan
  <2> HIDE DEF popped
  <2>2. SessPart'
    BY <1>4, <2>1, DiscardType DEF AwaitTask, TypeInv, SessPart
  <2>3. TaskPart'
    <3>1. /\ tasks' \in [Key -> TaskId \cup {NoTask}]
          /\ \A k \in Key : tasks'[k] \in {tasks[k], NoTask}
          /\ result' \in [TaskId -> {"pending", "ok", "err"}]
          /\ \A u \in TaskId \ Issued : result'[u] = result[u]
      BY <2>1, DiscardType
    <3> QED BY <1>4, <2>1, <3>1 DEF AwaitTask, TypeInv, TaskPart, Issued, hedgeVars
  <2>4. WorkPart'
    BY <1>4 DEF AwaitTask, TypeInv, WorkPart, WorkerPcs, Holding, Issued
  <2> QED BY <1>2, <1>4, <2>2, <2>3, <2>4
          DEF AwaitTask, TypeInv, StorePart, storeVars, readVars
<1>5. ASSUME WorkerExit(w) \/ DownloadFail(w) PROVE TypeInv'
  <2>1. WorkPart'
    BY <1>5 DEF WorkerExit, DownloadFail, TypeInv, WorkPart, WorkerPcs, Holding,
                Issued, taskVars
  <2> QED BY <1>5, <2>1
          DEF WorkerExit, DownloadFail, TypeInv, SessPart, TaskPart, StorePart,
              ReadPart, Issued, sessVars, taskVars, hedgeVars, storeVars, readVars
<1>6. ASSUME DownloadOk(w) PROVE TypeInv'
  <2>1. StorePart'
    BY <1>1, <1>6 DEF DownloadOk, TypeInv, StorePart, Holding
  <2>2. WorkPart'
    BY <1>6 DEF DownloadOk, TypeInv, WorkPart, WorkerPcs, Holding, Issued, taskVars
  <2> QED BY <1>6, <2>1, <2>2
          DEF DownloadOk, TypeInv, SessPart, TaskPart, ReadPart, Issued,
              sessVars, taskVars, hedgeVars, readVars
<1>7. ASSUME NEW v \in {"ready", "send"}, v = "send" => Holding(w),
             wpc' = Awake([wpc EXCEPT ![w] = v]), UNCHANGED nseq,
             wtask' \in {IF v = "send" THEN wtask ELSE [wtask EXCEPT ![w] = NoTask]}
      PROVE  WorkPart'
  <2>1. wpc' \in [Workers -> WorkerPcs] /\ wpc'[w] = v
        /\ \A u \in Workers \ {w} : wpc'[u] = wpc[u] \/ wpc'[u] = "ready"
    BY <1>7 DEF Awake, TypeInv, WorkPart, WorkerPcs
  <2> QED BY <1>1, <1>7, <2>1 DEF TypeInv, WorkPart, Holding, Issued
<1>8. ASSUME FinishLost(w) PROVE TypeInv'
  <2>1. SessPart'
    BY <1>8, ReleasedType, CleanedType DEF FinishLost, TypeInv, SessPart
  <2>2. WorkPart'
    BY <1>7, <1>8 DEF FinishLost, taskVars
  <2> QED BY <1>8, <2>1, <2>2
          DEF FinishLost, TypeInv, TaskPart, StorePart, ReadPart, Issued,
              taskVars, hedgeVars, storeVars, readVars
<1>9. ASSUME FinishTask(w) PROVE TypeInv'
  <2>1. wtask[w] \in Issued /\ wtask[w] \in TaskId
    BY <1>1, <1>9 DEF FinishTask, Holding
  <2>2. SessPart'
    BY <1>9, ReleasedType, UnslowedType, CleanedType DEF FinishTask, TypeInv, SessPart
  <2>3. TaskPart'
    BY <1>9, <2>1 DEF FinishTask, Settled, Unregistered, TypeInv, TaskPart, Issued
  <2>4. WorkPart'
    BY <1>7, <1>9 DEF FinishTask, Holding
  <2> QED BY <1>2, <1>9, <2>2, <2>3, <2>4
          DEF FinishTask, TypeInv, StorePart, storeVars, readVars
<1>10. ASSUME WorkerSend(w) PROVE TypeInv'
  <2>1. StorePart'
    BY <1>1, <1>10 DEF WorkerSend, QueueDiskWrite, TypeInv, StorePart
  <2>2. WorkPart'
    BY <1>10 DEF WorkerSend, TypeInv, WorkPart, WorkerPcs, Holding, Issued, taskVars
  <2> QED BY <1>10, <2>1, <2>2
          DEF WorkerSend, TypeInv, SessPart, TaskPart, ReadPart, Issued,
              sessVars, taskVars, hedgeVars, readVars
<1> QED BY <1>3, <1>4, <1>5, <1>6, <1>8, <1>9, <1>10 DEF WorkerStep

(* Hedged requests: only an issued task has one.                           *)
LEMMA HedgeStepType ==
  ASSUME TypeInv, NEW t \in TaskId, HedgeStep(t)
  PROVE  TypeInv'
<1>1. t \in Issued /\ tkey[t] \in Key
  BY DEF HedgeStep, HedgeOk, HedgeFail, PublishHedge, HedgeSend, TypeInv, TaskPart
<1>2. UNCHANGED <<session, hstate, rpc, read, nreads, wpc, wtask, nseq, cpc>>
  BY DEF HedgeStep, HedgeOk, HedgeFail, PublishHedge, HedgeSend, sessVars,
         taskVars, readVars, workVars
<1>3. SessPart' /\ ReadPart' /\ WorkPart' /\ Issued' = Issued
  BY <1>2 DEF TypeInv, SessPart, ReadPart, WorkPart, Issued, Holding
<1>4. CASE PublishHedge(t)
  <2>1. hedge' \in [TaskId -> HedgePcs]
        /\ \A u \in TaskId \ {t} : hedge'[u] = hedge[u]
    BY <1>4 DEF PublishHedge, TypeInv, TaskPart, HedgePcs
  <2>2. ASSUME Pending(t) PROVE TaskPart'
    BY <1>1, <1>3, <1>4, <2>1, <2>2
       DEF PublishHedge, Settled, Unregistered, CancelPrimary, TypeInv, TaskPart
  <2>3. ASSUME ~Pending(t) PROVE TaskPart'
    BY <1>1, <1>3, <1>4, <2>1, <2>3 DEF PublishHedge, TypeInv, TaskPart
  <2>4. TaskPart'
    BY <2>2, <2>3
  <2> QED BY <1>2, <1>3, <1>4, <2>4 DEF PublishHedge, TypeInv, StorePart, storeVars
<1>5. CASE HedgeOk(t) \/ HedgeFail(t) \/ HedgeSend(t)
  <2>1. TaskPart'
    BY <1>1, <1>5 DEF HedgeOk, HedgeFail, HedgeSend, TypeInv, TaskPart, Issued,
                      HedgePcs, taskVars
  <2>2. StorePart'
    BY <1>1, <1>5 DEF HedgeOk, HedgeFail, HedgeSend, QueueDiskWrite, TypeInv,
                      StorePart, storeVars
  <2> QED BY <1>2, <1>3, <2>1, <2>2 DEF TypeInv
<1> QED BY <1>4, <1>5 DEF HedgeStep

(* The store and the end of the manager.                                   *)
LEMMA StoreStepType ==
  ASSUME TypeInv,
         \/ \E k \in Key : Evict(k)
         \/ \E S \in SUBSET cached : ReclaimIdle(S)
         \/ DiskWrite \/ Close \/ CloseStep
  PROVE  TypeInv'
<1>1. ASSUME UNCHANGED <<taskVars, hedgeVars, readVars, workVars>>
      PROVE  TaskPart' /\ ReadPart' /\ WorkPart'
  BY <1>1 DEF TypeInv, TaskPart, ReadPart, WorkPart, Issued, Holding, taskVars,
              hedgeVars, readVars, workVars
<1>2. ASSUME NEW k \in Key, Evict(k) PROVE TypeInv'
  BY <1>1, <1>2 DEF Evict, TypeInv, SessPart, StorePart, sessVars
<1>3. ASSUME NEW S \in SUBSET cached, ReclaimIdle(S) PROVE TypeInv'
  <2>1. ASSUME NEW f \in Files, session[f] # None
        PROVE  [session[f] EXCEPT !.window = FALSE] \in Session
    <3>1. session[f] \in Session
      BY <2>1 DEF TypeInv, SessPart
    <3> QED BY <3>1 DEF Session
  <2>2. SessPart'
    BY <1>3, <2>1 DEF ReclaimIdle, TypeInv, SessPart
  <2> QED BY <1>1, <1>3, <2>2 DEF ReclaimIdle, TypeInv, StorePart
<1>4. ASSUME DiskWrite PROVE TypeInv'
  <2>1. Head(diskq) \in Key /\ Tail(diskq) \in Seq(Key)
    BY <1>4 DEF DiskWrite, TypeInv, StorePart
  <2> QED BY <1>1, <1>4, <2>1 DEF DiskWrite, TypeInv, SessPart, StorePart, sessVars
<1>5. ASSUME Close PROVE TypeInv'
  <2>1. TaskPart'
    BY <1>5 DEF Close, TypeInv, TaskPart, Issued
  <2>2. WorkPart'
    BY <1>5 DEF Close, Awake, TypeInv, WorkPart, WorkerPcs, Holding, Issued
  <2> QED BY <1>5, <2>1, <2>2 DEF Close, TypeInv, SessPart, StorePart, ReadPart,
                                  Issued, sessVars, storeVars, readVars
<1>6. ASSUME CloseStep PROVE TypeInv'
  BY <1>1, <1>6 DEF CloseStep, CloseChannel, CloseReturns, TypeInv, SessPart,
                    StorePart, sessVars, storeVars
<1> QED BY <1>2, <1>3, <1>4, <1>5, <1>6

LEMMA TypeInvStep == TypeInv /\ [Next]_vars => TypeInv'
<1> SUFFICES ASSUME TypeInv, [Next]_vars PROVE TypeInv'
  OBVIOUS
<1>1. CASE UNCHANGED vars
  BY <1>1 DEF vars, TypeInv, SessPart, TaskPart, StorePart, ReadPart, WorkPart,
              Issued, Holding
<1>2. CASE Next
  BY <1>2, HandleStepType, StartReadType, ReaderStepType, StartHedgeType,
     WorkerStepType, HedgeStepType, StoreStepType DEF Next
<1> QED BY <1>1, <1>2

LEMMA TypeInvariance == Spec => []TypeInv
BY InitTypeInv, TypeInvStep, PTL DEF Spec

(* Every reachable state of the manager has its type, whatever the numbers *)
(* of files, handles, readers, workers and tasks.                          *)
THEOREM TypeCorrect == Spec => []TypeOK
BY TypeInvariance, TypeInvTypeOK, PTL

-----------------------------------------------------------------------------
(* What a step may do to the tasks: nothing, create one, cancel some, or   *)
(* settle some.                                                            *)

Creates(k) ==
  /\ ~Reusable(k)
  /\ nseq < MaxTasks
  /\ nseq' = nseq + 1
  /\ tasks' = [tasks EXCEPT ![k] = nseq + 1]
  /\ tkey' = [tkey EXCEPT ![nseq + 1] = k]
  /\ UNCHANGED <<cancelled, result>>

Cancels(S) ==
  /\ cancelled' = cancelled \cup S
  /\ UNCHANGED <<tasks, nseq, tkey, result>>

Settles(S, r) ==
  /\ \A t \in S : Pending(t)
  /\ result' = Settled(S, r)
  /\ tasks' = Unregistered(S)
  /\ cancelled' \in {cancelled, cancelled \cup S}
  /\ UNCHANGED <<nseq, tkey>>

TaskStep ==
  \/ UNCHANGED <<tasks, nseq, tkey, cancelled, result>>
  \/ \E k \in Key : Creates(k)
  \/ \E S \in SUBSET Issued : Cancels(S)
  \/ \E S \in SUBSET Issued, r \in {"ok", "err"} : Settles(S, r)

LEMMA EnsureTaskStep ==
  ASSUME NEW k \in Key, NEW e, NEW p, NEW t \in TaskId, EnsureTask(k, e, p, t)
  PROVE  TaskStep
BY DEF EnsureTask, Reuse, Create, TaskStep, Creates

LEMMA DiscardStep ==
  ASSUME TypeInv, NEW S \in SUBSET queue, Discard(S),
         UNCHANGED <<nseq, tkey, cancelled>>
  PROVE  TaskStep
<1>1. Unfinished(S) \in SUBSET Issued
  BY DEF Unfinished, TypeInv, TaskPart
<1>2. Settles(Unfinished(S), "err")
  BY DEF Discard, Settles, Unfinished
<1> QED BY <1>1, <1>2 DEF TaskStep

LEMMA EveryTaskStep == TypeInv /\ [Next]_vars => TaskStep
<1> SUFFICES ASSUME TypeInv, [Next]_vars PROVE TaskStep
  OBVIOUS
<1>1. ASSUME NEW h \in Handles, Open(h) \/ Release(h) PROVE TaskStep
  <2>1. CASE Open(h)
    BY <2>1 DEF Open, TaskStep, taskVars
  <2>2. CASE Release(h)
    <3> DEFINE old == OldTasks(HandleFile[h], session[HandleFile[h]].epoch + 1)
    <3>1. old \in SUBSET Issued /\ {} \in SUBSET Issued
      BY DEF OldTasks
    <3>2. Cancels({}) \/ Cancels(old)
      BY <2>2 DEF Release, Cancels
    <3> HIDE DEF old
    <3> QED BY <3>1, <3>2 DEF TaskStep
  <2> QED BY <1>1, <2>1, <2>2
<1>2. ASSUME NEW r \in Readers, StartRead(r) PROVE TaskStep
  <2>1. PICK h \in Handles, within \in BOOLEAN, need \in Spans :
          \E obs \in Observations(hstate[h]) : PrepareRead(r, h, obs, within, need)
    BY <1>2 DEF StartRead
  <2>2. PICK obs \in Observations(hstate[h]) : PrepareRead(r, h, obs, within, need)
    BY <2>1
  <2>3. PICK f, e : cancelled' \in {cancelled, cancelled \cup OldTasks(f, e)}
    BY <2>2 DEF PrepareRead
  <2>4. OldTasks(f, e) \in SUBSET Issued
    BY DEF OldTasks
  <2>5. Cancels({}) \/ Cancels(OldTasks(f, e))
    BY <2>2, <2>3 DEF PrepareRead, Cancels
  <2> QED BY <2>4, <2>5 DEF TaskStep
<1>3. ASSUME NEW r \in Readers, ReaderStep(r) \/ Interrupt(r) \/ StartHedge(r)
      PROVE  TaskStep
  <2>1. CASE EnsureBackground(r)
    <3>1. read[r] \in Read
      BY <2>1 DEF EnsureBackground, TypeInv, ReadPart
    <3>2. \A x \in read[r].plan : <<ReadFile(r), x[1]>> \in Key
      BY <3>1, SchedulerAssumption DEF Read, ReadFile, Key
    <3> QED BY <2>1, <3>2, EnsureTaskStep
            DEF EnsureBackground, Refused, TaskStep, taskVars
  <2>2. CASE EnsureForeground(r)
    <3>1. read[r] \in Read
      BY <2>2 DEF EnsureForeground, TypeInv, ReadPart
    <3>2. \A c \in read[r].need : <<ReadFile(r), c>> \in Key
      BY <3>1, SchedulerAssumption DEF Read, ReadFile, Key
    <3> QED BY <2>2, <3>2, EnsureTaskStep
            DEF EnsureForeground, Refused, TaskStep, taskVars
  <2> QED BY <1>3, <2>1, <2>2
          DEF ReaderStep, ScheduleBuffer, PeekBackground, PeekChunk, MarkForeground,
              TaskDone, Interrupt, StartHedge, TaskStep, taskVars
<1>4. ASSUME NEW w \in Workers, WorkerStep(w) PROVE TaskStep
  <2>1. CASE NextTask(w)
    <3>1. PICK t \in queue : Take(w, t)
      BY <2>1 DEF NextTask
    <3>2. Discard({u \in queue : Stale(u) /\ Before(u, t)})
      BY <3>1 DEF Take
    <3> QED BY <2>1, <3>2, DiscardStep DEF NextTask
  <2>2. CASE AwaitTask(w)
    BY <2>2, DiscardStep DEF AwaitTask
  <2>3. CASE FinishTask(w)
    <3>1. wtask[w] \in Issued
      BY <2>3 DEF FinishTask, TypeInv, WorkPart, Holding
    <3>2. Settles({wtask[w]}, "ok") \/ Settles({wtask[w]}, "err")
      BY <2>3 DEF FinishTask, Settles
    <3> QED BY <3>1, <3>2 DEF TaskStep
  <2> QED BY <1>4, <2>1, <2>2, <2>3
          DEF WorkerStep, WorkerExit, DownloadOk, DownloadFail, FinishLost,
              WorkerSend, TaskStep, taskVars
<1>5. ASSUME NEW t \in TaskId, HedgeStep(t) PROVE TaskStep
  <2>1. CASE PublishHedge(t) /\ Pending(t)
    <3>1. t \in Issued
      BY <2>1 DEF PublishHedge, TypeInv, TaskPart
    <3>2. Settles({t}, "ok")
      BY <2>1 DEF PublishHedge, Settles, CancelPrimary
    <3> QED BY <3>1, <3>2 DEF TaskStep
  <2> QED BY <1>5, <2>1 DEF HedgeStep, HedgeOk, HedgeFail, HedgeSend, PublishHedge,
                            TaskStep, taskVars
<1>6. CASE Close
  <2>1. Cancels(Issued)
    BY <1>6 DEF Close, Cancels, TypeInv, TaskPart
  <2> QED BY <2>1 DEF TaskStep
<1>7. CASE \/ \E k \in Key : Evict(k)
           \/ \E S \in SUBSET cached : ReclaimIdle(S)
           \/ DiskWrite \/ CloseStep \/ UNCHANGED vars
  BY <1>7 DEF Evict, ReclaimIdle, DiskWrite, CloseStep, CloseChannel, CloseReturns,
              TaskStep, taskVars, vars
<1> QED BY <1>1, <1>2, <1>3, <1>4, <1>5, <1>6, <1>7 DEF Next

(* The registry: tasks that are registered are pending, tasks that are     *)
(* live are registered.  Each needs the other: a new task may replace only *)
(* one that is no longer live.                                             *)
Registry == RegisteredPending /\ LiveRegistered

LEMMA RegistryStep ==
  ASSUME TypeInv, Registry, TaskStep, TypeInv'
  PROVE  Registry'
<1>1. CASE UNCHANGED <<tasks, nseq, tkey, cancelled, result>>
  BY <1>1 DEF Registry, RegisteredPending, LiveRegistered, Issued, Pending
<1>2. ASSUME NEW k \in Key, Creates(k) PROVE Registry'
  <2> DEFINE n == nseq + 1
  <2>1. /\ Issued' = Issued \cup {n}
        /\ n \in TaskId \ Issued
        /\ result[n] = "pending"
        /\ n # NoTask
    BY <1>2 DEF Creates, TypeInv, TaskPart, Issued, TaskId, NoTask
  <2>2. tasks'[k] = n /\ \A j \in Key \ {k} : tasks'[j] = tasks[j]
    BY <1>2 DEF Creates, TypeInv, TaskPart
  <2>3. tkey'[n] = k /\ \A t \in Issued : tkey'[t] = tkey[t]
    BY <1>2, <2>1, IssuedTask DEF Creates, TypeInv, TaskPart
  <2> HIDE DEF n
  <2>4. RegisteredPending'
    BY <1>2, <2>1, <2>2, <2>3 DEF Creates, Registry, RegisteredPending, Pending
  <2>5. LiveRegistered'
    <3> SUFFICES ASSUME NEW t \in Issued', Pending(t)', t \notin cancelled'
                 PROVE  tasks'[tkey'[t]] = t
      BY DEF LiveRegistered
    <3>1. CASE t = n
      BY <3>1, <2>2, <2>3
    <3>2. CASE t # n
      <4>1. t \in Issued /\ tkey[t] \in Key /\ tasks[tkey[t]] = t /\ t # NoTask
        BY <1>2, <2>1, <3>2, IssuedTask DEF Creates, Registry, LiveRegistered, Pending
      <4>2. tkey[t] # k
        BY <1>2, <4>1 DEF Creates, Reusable, Pending
      <4> QED BY <4>1, <4>2, <2>2, <2>3
    <3> QED BY <3>1, <3>2
  <2> QED BY <2>4, <2>5 DEF Registry
<1>3. ASSUME NEW S \in SUBSET Issued, Cancels(S) PROVE Registry'
  BY <1>3 DEF Cancels, Registry, RegisteredPending, LiveRegistered, Issued, Pending
<1>4. ASSUME NEW S \in SUBSET Issued, NEW r \in {"ok", "err"}, Settles(S, r)
      PROVE  Registry'
  <2>1. /\ \A k \in Key : tasks'[k] = IF tasks[k] \in S THEN NoTask ELSE tasks[k]
        /\ \A t \in TaskId : result'[t] = IF t \in S THEN r ELSE result[t]
        /\ Issued' = Issued /\ tkey' = tkey /\ cancelled \subseteq cancelled'
    BY <1>4 DEF Settles, Settled, Unregistered, Issued
  <2>2. RegisteredPending'
    BY <2>1, IssuedTask DEF Registry, RegisteredPending, Pending
  <2>3. LiveRegistered'
    BY <2>1, IssuedTask DEF Registry, LiveRegistered, Pending
  <2> QED BY <2>2, <2>3 DEF Registry
<1> QED BY <1>1, <1>2, <1>3, <1>4 DEF TaskStep

LEMMA RegistryInvariance == Spec => []Registry
<1>1. Init => Registry
  BY DEF Init, Registry, RegisteredPending, LiveRegistered, Issued
<1>2. TypeInv /\ Registry /\ [Next]_vars => Registry'
  BY RegistryStep, EveryTaskStep, TypeInvStep
<1> QED BY <1>1, <1>2, TypeInvariance, PTL DEF Spec

(* m.tasks never holds a finished task, nor a task under another's key.    *)
THEOREM RegisteredTasksPending == Spec => []RegisteredPending
BY RegistryInvariance, PTL DEF Registry

(* A task that is neither finished nor cancelled is the one registered for *)
(* its chunk: two live downloads of one chunk never exist.                 *)
THEOREM LiveTasksRegistered == Spec => []LiveRegistered
BY RegistryInvariance, PTL DEF Registry

(* A finished task keeps its result: done is closed once.                  *)
THEOREM ResultsKept == Spec => SettledOnce
<1>1. TypeInv /\ [Next]_vars
        => [\A t \in TaskId : ~Pending(t) => result'[t] = result[t]]_vars
  <2> SUFFICES ASSUME TypeInv, TaskStep, NEW t \in TaskId, ~Pending(t)
               PROVE  result'[t] = result[t]
    BY EveryTaskStep
  <2> QED BY DEF TaskStep, Creates, Cancels, Settles, Settled, Pending
<1> QED BY <1>1, TypeInvariance, PTL DEF Spec, SettledOnce

(* The scheduler implements the single flight of chunks: its steps issue,  *)
(* abandon and settle tickets as the abstract specification allows.        *)
THEOREM RefinesSingleFlight == Spec => ImplementsSingleFlight
<1>1. Init => SF!Init
  BY DEF Init, SF!Init
<1>2. TypeInv /\ Registry /\ [Next]_vars => [SF!Next]_SF!vars
  <2> SUFFICES ASSUME TypeInv, Registry, TaskStep, TypeInv'
               PROVE  [SF!Next]_SF!vars
    BY EveryTaskStep, TypeInvStep
  <2>1. SF!Issued = Issued
    BY IssuedTask, SchedulerAssumption DEF SF!Issued, TypeInv, TaskPart
  <2>2. CASE UNCHANGED <<tasks, nseq, tkey, cancelled, result>>
    BY <2>2 DEF SF!vars
  <2>3. ASSUME NEW k \in Key, Creates(k) PROVE SF!Next
    <3> DEFINE n == nseq + 1
    <3>1. n \in TaskId /\ n \notin Issued /\ tkey' = [tkey EXCEPT ![n] = k]
      BY <2>3 DEF Creates, TypeInv, TaskPart, Issued, TaskId
    <3>2. \A u \in SF!Live : tkey[u] # k
      <4> SUFFICES ASSUME NEW u \in SF!Live, tkey[u] = k PROVE FALSE
        OBVIOUS
      <4>1. u \in Issued /\ u \notin cancelled /\ Pending(u)
        BY <2>1 DEF SF!Live, Pending
      <4>2. tasks[k] = u /\ u # NoTask
        BY <4>1, IssuedTask DEF Registry, LiveRegistered
      <4> QED BY <2>3, <4>1, <4>2 DEF Creates, Reusable
    <3>3. SF!Issue(n, k)
      BY <2>1, <2>3, <3>1, <3>2 DEF SF!Issue, Creates
    <3> QED BY <3>1, <3>3 DEF SF!Next
  <2>4. ASSUME NEW S \in SUBSET Issued, Cancels(S) PROVE SF!Next
    <3>1. SF!Abandon(S) /\ S \in SUBSET TaskId
      BY <2>1, <2>4, IssuedTask DEF SF!Abandon, Cancels
    <3> QED BY <3>1 DEF SF!Next
  <2>5. ASSUME NEW S \in SUBSET Issued, NEW r \in {"ok", "err"}, Settles(S, r)
        PROVE  SF!Next
    <3>1. SF!Settle(S, r) /\ S \in SUBSET TaskId /\ r \in SF!Result
      BY <2>1, <2>5, IssuedTask DEF SF!Settle, SF!Result, Settles, Settled, Pending
    <3> QED BY <3>1 DEF SF!Next
  <2> QED BY <2>2, <2>3, <2>4, <2>5 DEF TaskStep
<1> QED BY <1>1, <1>2, TypeInvariance, RegistryInvariance, PTL
        DEF Spec, ImplementsSingleFlight, SF!Spec

=============================================================================
