--------------------------- MODULE ExecutionProofs ---------------------------
(***************************************************************************)
(* TLAPS proofs about Execution: the supervisor implements the work queue, *)
(* so everything proved of WorkQueue holds under it, and it never sends a  *)
(* second prompt on its own, for any number of workers and work items and  *)
(* any number of crashes.                                                  *)
(***************************************************************************)
EXTENDS Execution, WorkQueueProofs, FiniteSetTheorems

TaskRow == [at : Steps, plan : Plans]

RecoveryPlans == {"exhausted", "assigned", "waiting_agent", "stalled"}

TasksOK ==
    /\ tasks \in [Callers -> [Works -> TaskRow]]
    /\ \A c \in Callers, k \in Works :
          At(c, k, "recover") => tasks[c][k].plan \in RecoveryPlans

\* The per-work lock, and what holding it means: the attempts that a first
\* dispatch has seen to be none stay none, and an attempt that is recorded but
\* not made yet is not among the prompts.
Exclusive ==
    \A k \in Works : \A c, d \in Callers :
        (tasks[c][k].at \in LockedSteps /\ tasks[d][k].at \in LockedSteps) => c = d

LockMeaning ==
    \A c \in Callers, k \in Works :
        /\ At(c, k, "checked") /\ tasks[c][k].plan # "retry" => works[k].attempts = 0
        /\ At(c, k, "recorded") => prompts[k] < works[k].attempts
        /\ At(c, k, "recorded") /\ tasks[c][k].plan # "retry" => prompts[k] = 0
        /\ At(c, k, "sent") => prompts[k] > 0

CountersOK ==
    /\ prompts \in [Works -> Nat]
    /\ \A k \in Works : prompts[k] <= works[k].attempts

\* The inductive invariant of the supervisor, on top of that of the queue.
DispatchInv == TasksOK /\ Exclusive /\ LockMeaning /\ CountersOK

-----------------------------------------------------------------------------
(* Tasks *)

LEMMA TaskUpdate ==
    ASSUME TasksOK, NEW c \in Callers, NEW k \in Works, NEW t \in TaskRow,
           t.at = "recover" => t.plan \in RecoveryPlans,
           tasks' = [tasks EXCEPT ![c][k] = t]
    PROVE  /\ TasksOK'
           /\ tasks'[c][k] = t
           /\ \A d \in Callers, j \in Works : d # c \/ j # k => tasks'[d][j] = tasks[d][j]
  BY DEF TasksOK, At

LEMMA TaskType ==
    ASSUME NEW at \in Steps, NEW plan \in Plans
    PROVE  Task(at, plan) \in TaskRow /\ Task(at, plan).at = at /\ Task(at, plan).plan = plan
  BY DEF Task, TaskRow

LEMMA IdleType == Idle \in TaskRow /\ Idle.at = "idle" /\ Idle.plan = "none"
  BY TaskType DEF Idle, Steps, Plans

LEMMA RecoveryPlanType ==
    ASSUME NEW k \in Works
    PROVE  RecoveryPlan(k) \in RecoveryPlans
  BY DEF RecoveryPlan, RecoveryPlans

LEMMA TaskForType ==
    ASSUME NEW k \in Works
    PROVE  /\ TaskFor(k) \in TaskRow
           /\ TaskFor(k).at \in {"idle", "enter", "monitor", "recover"}
           /\ TaskFor(k).at = "recover" => TaskFor(k).plan \in RecoveryPlans
  <1>1. Task("enter", "first") \in TaskRow /\ Task("enter", "first").at = "enter"
      BY TaskType DEF Steps, Plans
  <1>2. Task("monitor", "none") \in TaskRow /\ Task("monitor", "none").at = "monitor"
      BY TaskType DEF Steps, Plans
  <1>3. /\ Task("recover", RecoveryPlan(k)) \in TaskRow
        /\ Task("recover", RecoveryPlan(k)).plan = RecoveryPlan(k)
        /\ Task("recover", RecoveryPlan(k)).at = "recover"
      BY TaskType, RecoveryPlanType DEF Steps, Plans, RecoveryPlans
  <1> QED
      BY <1>1, <1>2, <1>3, IdleType, RecoveryPlanType DEF TaskFor

-----------------------------------------------------------------------------
(* The supervisor implements the work queue *)

LEMMA UpdatesKnown ==
    /\ Update("dispatching", TRUE, FALSE) \in ExecutionUpdates
    /\ Update("waiting_agent", FALSE, TRUE) \in ExecutionUpdates
    /\ \A e \in {"assigned", "waiting_agent", "reconnecting", "recovering",
                 "stalled", "dispatch_uncertain"} :
          Update(e, FALSE, FALSE) \in ExecutionUpdates
  BY DEF ExecutionUpdates

LEMMA WriteIsNext ==
    ASSUME NEW k \in Works, NEW u \in ExecutionUpdates, UpdateWorkExecution(k, u)
    PROVE  Next
  BY DEF Next, Supervision

LEMMA TaskStepIsNext ==
    ASSUME TasksOK, NEW c \in Callers, NEW k \in Works, TaskStep(c, k)
    PROVE  [Next]_vars
  <1> USE UpdatesKnown, WriteIsNext
  <1>1. CASE EnterDispatch(c, k) \/ SendPrompt(c, k) \/ NotYetBack(c, k) \/ Raise(c, k)
      BY <1>1 DEF EnterDispatch, SendPrompt, NotYetBack, Raise, vars
  <1>2. CASE TargetMissing(c, k)
      BY <1>2 DEF TargetMissing, Write
  <1>3. CASE ToolMissing(c, k)
      BY <1>3 DEF ToolMissing, Write
  <1>4. CASE RecordAttempt(c, k)
      BY <1>4 DEF RecordAttempt, Write
  <1>5. CASE PromptAccepted(c, k)
      BY <1>5 DEF PromptAccepted, Write
  <1>6. CASE PromptFailed(c, k)
      BY <1>6 DEF PromptFailed, Write
  <1>7. CASE PaneLost(c, k)
      BY <1>7 DEF PaneLost, Write
  <1>8. CASE PaneObserved(c, k)
      BY <1>8 DEF PaneObserved, Write
  <1>9. CASE NoActivity(c, k)
      BY <1>9 DEF NoActivity, Write
  <1>10. CASE RecoveryExhausted(c, k)
      BY <1>10 DEF RecoveryExhausted, Write
  <1>11. CASE Rebind(c, k)
    <2>1. tasks[c][k].plan \in {"assigned", "waiting_agent", "stalled"}
        BY <1>11 DEF Rebind, TasksOK, RecoveryPlans
    <2> QED
        BY <2>1, <1>11 DEF Rebind
  <1>12. CASE Collect(c, k)
      BY <1>12 DEF Collect, Next, WorkApi
  <1>13. CASE Degrade(c, k)
      BY <1>13 DEF Degrade, Next, Supervision
  <1> QED
      BY <1>1, <1>2, <1>3, <1>4, <1>5, <1>6, <1>7, <1>8, <1>9, <1>10, <1>11, <1>12, <1>13,
         Zenon DEF TaskStep, Dispatching, Supervising

LEMMA ExecNextIsNext == TasksOK /\ [ExecNext]_execVars => [Next]_vars
  <1> SUFFICES ASSUME TasksOK, [ExecNext]_execVars
               PROVE  [Next]_vars
      OBVIOUS
  <1>1. CASE Tick
      BY <1>1 DEF Tick, Next, Background
  <1>2. CASE Operator
      BY <1>2 DEF Operator, OperatorDispatch, OperatorRetry, OperatorRecover
  <1>3. CASE \E c \in Callers, k \in Works : TaskStep(c, k)
      BY <1>3, TaskStepIsNext, Zenon
  <1>4. CASE Elsewhere
      BY <1>4 DEF Elsewhere, Next
  <1>5. CASE Crash
      BY <1>5 DEF Crash, Next
  <1>6. CASE UNCHANGED execVars
      BY <1>6 DEF execVars, vars
  <1> QED
      BY <1>1, <1>2, <1>3, <1>4, <1>5, <1>6 DEF ExecNext

-----------------------------------------------------------------------------
(* Only a recorded attempt changes the attempt counter *)

SameAttempts == \A k \in Works : works'[k].attempts = works[k].attempts

LEMMA QueueKeepsAttempts ==
    ASSUME TypeOK,
           Submission \/ Assignment \/ WorkerApi \/ WorkApi \/ Background \/ Clock \/ Restart
    PROVE  SameAttempts
  BY HistoryOfQueue DEF HistoryKept, SameAttempts

LEMMA WriteAttempts ==
    ASSUME TypeOK, NEW k \in Works, NEW u \in ExecutionUpdates, UpdateWorkExecution(k, u)
    PROVE  /\ ~u.increment => SameAttempts
           /\ u.increment => works'[k].attempts = works[k].attempts + 1
           /\ \A j \in Works : j # k => works'[j].attempts = works[j].attempts
  <1>1. works[k].attempts \in Nat
      BY DEF TypeOK, WorkRow
  <1>2. u.increment \in BOOLEAN
      BY UpdateType
  <1>3. works' = [works EXCEPT ![k] =
                    [@ EXCEPT !.execution = u.execution,
                              !.attempts = works[k].attempts + IF u.increment THEN 1 ELSE 0,
                              !.dispatched = works[k].dispatched \/ u.mark]]
      BY Zenon DEF UpdateWorkExecution
  <1>4. works'[k].attempts = works[k].attempts + IF u.increment THEN 1 ELSE 0
      BY <1>3 DEF TypeOK, WorkRow
  <1>5. \A j \in Works : j # k => works'[j] = works[j]
      BY <1>3 DEF TypeOK
  <1> QED
      BY <1>1, <1>2, <1>4, <1>5 DEF SameAttempts

LEMMA PlainWrite ==
    ASSUME TypeOK, NEW k \in Works,
           NEW e \in {"assigned", "waiting_agent", "reconnecting", "recovering",
                      "stalled", "dispatch_uncertain"},
           NEW m \in BOOLEAN, m => e = "waiting_agent",
           UpdateWorkExecution(k, Update(e, FALSE, m))
    PROVE  SameAttempts
  <1>1. Update(e, FALSE, m) \in ExecutionUpdates /\ ~Update(e, FALSE, m).increment
      BY DEF ExecutionUpdates, Update
  <1> QED
      BY <1>1, WriteAttempts

-----------------------------------------------------------------------------
(* The steps of a task *)

\* A step that makes no attempt and sends nothing may give up the lock and go
\* on to anything that is not the middle of a dispatch.
LEMMA LeavesDispatch ==
    ASSUME DispatchInv, NEW c \in Callers, NEW k \in Works, NEW t \in TaskRow,
           t.at = "recover" => t.plan \in RecoveryPlans,
           t.at \notin {"checked", "recorded", "sent"},
           t.at = "degrade" => tasks[c][k].at \in LockedSteps,
           tasks' = [tasks EXCEPT ![c][k] = t],
           SameAttempts, prompts' = prompts
    PROVE  DispatchInv'
  <1>0. TasksOK
      BY DEF DispatchInv
  <1>1. /\ TasksOK'
        /\ tasks'[c][k] = t
        /\ \A d \in Callers, j \in Works : d # c \/ j # k => tasks'[d][j] = tasks[d][j]
      BY <1>0 DEF TasksOK, At
  <1>2. Exclusive'
      BY <1>1 DEF DispatchInv, Exclusive, LockedSteps
  <1>3. LockMeaning'
      BY <1>1 DEF DispatchInv, LockMeaning, At, SameAttempts
  <1>4. CountersOK'
      BY DEF DispatchInv, CountersOK, SameAttempts
  <1> QED
      BY <1>1, <1>2, <1>3, <1>4 DEF DispatchInv

LEMMA LeavesFor ==
    ASSUME DispatchInv, NEW c \in Callers, NEW k \in Works,
           NEW step \in {"idle", "enter", "monitor", "collect", "stall", "flag", "degrade"},
           NEW plan \in Plans,
           step = "degrade" => tasks[c][k].at \in LockedSteps,
           tasks' = [tasks EXCEPT ![c][k] = Task(step, plan)],
           SameAttempts, prompts' = prompts
    PROVE  DispatchInv'
  <1>1. /\ Task(step, plan) \in TaskRow
        /\ Task(step, plan).at = step
      BY TaskType DEF Steps, LockedSteps
  <1> QED
      BY <1>1, LeavesDispatch

LEMMA ReturnPreserves ==
    ASSUME DispatchInv, NEW c \in Callers, NEW k \in Works, Return(c, k),
           SameAttempts, prompts' = prompts
    PROVE  DispatchInv'
  BY LeavesFor DEF Return, Idle, Plans

LEMMA GoToPreserves ==
    ASSUME DispatchInv, NEW c \in Callers, NEW k \in Works,
           NEW step \in {"idle", "collect", "stall", "flag", "degrade"}, GoTo(c, k, step),
           step = "degrade" => tasks[c][k].at \in LockedSteps,
           SameAttempts, prompts' = prompts
    PROVE  DispatchInv'
  BY LeavesFor DEF GoTo, Plans

LEMMA EnterDispatchPreserves ==
    ASSUME DispatchInv, TypeOK, NEW c \in Callers, NEW k \in Works, EnterDispatch(c, k)
    PROVE  DispatchInv'
  <1>0. SameAttempts /\ prompts' = prompts
      BY DEF EnterDispatch, vars, SameAttempts
  <1>1. CASE Return(c, k)
      BY <1>0, <1>1, ReturnPreserves
  <1>2. CASE MayDispatch(c, k) /\ Proceed(c, k, "checked")
    <2> DEFINE t == Task("checked", tasks[c][k].plan)
    <2>1. tasks[c][k].plan \in Plans
        BY DEF DispatchInv, TasksOK, TaskRow
    <2>2. t \in TaskRow /\ t.at = "checked" /\ t.plan = tasks[c][k].plan
        BY <2>1, TaskType DEF Steps, LockedSteps
    <2>3. tasks' = [tasks EXCEPT ![c][k] = t]
        BY <1>2 DEF Proceed
    <2> HIDE DEF t
    <2>4. /\ TasksOK'
          /\ tasks'[c][k] = t
          /\ \A d \in Callers, j \in Works : d # c \/ j # k => tasks'[d][j] = tasks[d][j]
        BY <2>2, <2>3, TaskUpdate, Zenon DEF DispatchInv
    <2>5. \A d \in Callers : tasks[d][k].at \notin LockedSteps
        BY DEF EnterDispatch, Locked
    <2>6. Exclusive'
        BY <2>4, <2>5 DEF DispatchInv, Exclusive
    <2>7. works[k].attempts \in Nat
        BY DEF TypeOK, WorkRow
    <2>8. t.plan # "retry" => works'[k].attempts = 0
        BY <1>0, <1>2, <2>2, <2>7 DEF MayDispatch, SameAttempts
    <2>9. LockMeaning'
        BY <1>0, <2>2, <2>4, <2>8 DEF DispatchInv, LockMeaning, At, SameAttempts
    <2> QED
        BY <1>0, <2>4, <2>6, <2>9 DEF DispatchInv, CountersOK, SameAttempts
  <1> QED
      BY <1>1, <1>2 DEF EnterDispatch

LEMMA RecordAttemptPreserves ==
    ASSUME DispatchInv, TypeOK, NEW c \in Callers, NEW k \in Works, RecordAttempt(c, k)
    PROVE  DispatchInv'
  <1> DEFINE t == Task("recorded", tasks[c][k].plan)
  <1>1. tasks[c][k].plan \in Plans
      BY DEF DispatchInv, TasksOK, TaskRow
  <1>2. t \in TaskRow /\ t.at = "recorded" /\ t.plan = tasks[c][k].plan
      BY <1>1, TaskType DEF Steps, LockedSteps
  <1>3. tasks' = [tasks EXCEPT ![c][k] = t]
      BY DEF RecordAttempt, Proceed
  <1> HIDE DEF t
  <1>4. /\ TasksOK'
        /\ tasks'[c][k] = t
        /\ \A d \in Callers, j \in Works : d # c \/ j # k => tasks'[d][j] = tasks[d][j]
      BY <1>2, <1>3, TaskUpdate, Zenon DEF DispatchInv
  <1>5. prompts' = prompts /\ UpdateWorkExecution(k, Update("dispatching", TRUE, FALSE))
      BY DEF RecordAttempt, Write
  <1>6. /\ works'[k].attempts = works[k].attempts + 1
        /\ \A j \in Works : j # k => works'[j].attempts = works[j].attempts
    <2>1. Update("dispatching", TRUE, FALSE).increment
        BY DEF Update
    <2> QED
        BY <1>5, <2>1, UpdatesKnown, WriteAttempts
  <1>7. \A d \in Callers : tasks[d][k].at \in LockedSteps => d = c
      BY DEF RecordAttempt, At, DispatchInv, Exclusive, LockedSteps
  <1>8. Exclusive'
      BY <1>4, <1>7 DEF DispatchInv, Exclusive
  <1>9. works[k].attempts \in Nat /\ prompts[k] \in Nat /\ prompts[k] <= works[k].attempts
      BY DEF TypeOK, WorkRow, DispatchInv, CountersOK
  <1>10. tasks[c][k].plan # "retry" => works[k].attempts = 0
      BY DEF RecordAttempt, DispatchInv, LockMeaning
  <1>11. LockMeaning'
    <2> SUFFICES ASSUME NEW d \in Callers, NEW j \in Works
                 PROVE  /\ At(d, j, "checked")' /\ tasks'[d][j].plan # "retry" => works'[j].attempts = 0
                        /\ At(d, j, "recorded")' => prompts'[j] < works'[j].attempts
                        /\ At(d, j, "recorded")' /\ tasks'[d][j].plan # "retry" => prompts'[j] = 0
                        /\ At(d, j, "sent")' => prompts'[j] > 0
        BY DEF LockMeaning
    <2>1. CASE j # k
        BY <1>4, <1>5, <1>6, <2>1 DEF DispatchInv, LockMeaning, At
    <2>2. CASE j = k /\ d # c
        BY <1>4, <1>7, <2>2 DEF At, LockedSteps
    <2>3. CASE j = k /\ d = c
        BY <1>2, <1>4, <1>5, <1>6, <1>9, <1>10, <2>3 DEF At
    <2> QED
        BY <2>1, <2>2, <2>3
  <1>12. CountersOK'
      BY <1>5, <1>6, <1>9 DEF DispatchInv, CountersOK
  <1> QED
      BY <1>4, <1>8, <1>11, <1>12 DEF DispatchInv

LEMMA SendPromptPreserves ==
    ASSUME DispatchInv, TypeOK, NEW c \in Callers, NEW k \in Works, SendPrompt(c, k)
    PROVE  DispatchInv'
  <1> DEFINE t == Task("sent", tasks[c][k].plan)
  <1>1. tasks[c][k].plan \in Plans
      BY DEF DispatchInv, TasksOK, TaskRow
  <1>2. t \in TaskRow /\ t.at = "sent" /\ t.plan = tasks[c][k].plan
      BY <1>1, TaskType DEF Steps, LockedSteps
  <1>3. tasks' = [tasks EXCEPT ![c][k] = t]
      BY DEF SendPrompt, Proceed
  <1> HIDE DEF t
  <1>4. /\ TasksOK'
        /\ tasks'[c][k] = t
        /\ \A d \in Callers, j \in Works : d # c \/ j # k => tasks'[d][j] = tasks[d][j]
      BY <1>2, <1>3, TaskUpdate, Zenon DEF DispatchInv
  <1>5. works' = works /\ prompts' = [prompts EXCEPT ![k] = @ + 1]
      BY DEF SendPrompt, vars
  <1>6. prompts[k] \in Nat /\ prompts[k] < works[k].attempts
      BY DEF SendPrompt, DispatchInv, LockMeaning, CountersOK
  <1>7. \A d \in Callers : tasks[d][k].at \in LockedSteps => d = c
      BY DEF SendPrompt, At, DispatchInv, Exclusive, LockedSteps
  <1>8. Exclusive'
      BY <1>4, <1>7 DEF DispatchInv, Exclusive
  <1>9. \A j \in Works : prompts'[j] = IF j = k THEN prompts[k] + 1 ELSE prompts[j]
      BY <1>5 DEF DispatchInv, CountersOK
  <1>10. LockMeaning'
    <2> SUFFICES ASSUME NEW d \in Callers, NEW j \in Works
                 PROVE  /\ At(d, j, "checked")' /\ tasks'[d][j].plan # "retry" => works'[j].attempts = 0
                        /\ At(d, j, "recorded")' => prompts'[j] < works'[j].attempts
                        /\ At(d, j, "recorded")' /\ tasks'[d][j].plan # "retry" => prompts'[j] = 0
                        /\ At(d, j, "sent")' => prompts'[j] > 0
        BY DEF LockMeaning
    <2>1. CASE j # k
        BY <1>4, <1>5, <1>9, <2>1 DEF DispatchInv, LockMeaning, At
    <2>2. CASE j = k /\ d # c
        BY <1>4, <1>7, <2>2 DEF At, LockedSteps
    <2>3. CASE j = k /\ d = c
        BY <1>2, <1>4, <1>6, <1>9, <2>3 DEF At
    <2> QED
        BY <2>1, <2>2, <2>3
  <1>11. CountersOK'
    <2>1. prompts' \in [Works -> Nat]
        BY <1>5, <1>6 DEF DispatchInv, CountersOK
    <2>2. works[k].attempts \in Nat
        BY DEF TypeOK, WorkRow
    <2>3. \A j \in Works : prompts'[j] <= works[j].attempts
        BY <1>6, <1>9, <2>2 DEF DispatchInv, CountersOK
    <2> QED
        BY <1>5, <2>1, <2>3 DEF CountersOK
  <1> QED
      BY <1>4, <1>8, <1>10, <1>11 DEF DispatchInv

LEMMA TaskStepPreserves ==
    ASSUME DispatchInv, TypeOK, NEW c \in Callers, NEW k \in Works, TaskStep(c, k)
    PROVE  DispatchInv'
  <1> USE DEF Write
  <1>1. CASE EnterDispatch(c, k)
      BY <1>1, EnterDispatchPreserves
  <1>2. CASE RecordAttempt(c, k)
      BY <1>2, RecordAttemptPreserves
  <1>3. CASE SendPrompt(c, k)
      BY <1>3, SendPromptPreserves
  <1>4. CASE TargetMissing(c, k)
    <2>1. SameAttempts
        BY <1>4, PlainWrite DEF TargetMissing
    <2>2. tasks[c][k].at \in LockedSteps
        BY <1>4 DEF TargetMissing, At, LockedSteps
    <2> QED
        BY <1>4, <2>1, <2>2, GoToPreserves DEF TargetMissing
  <1>5. CASE ToolMissing(c, k)
    <2>1. SameAttempts
        BY <1>5, PlainWrite DEF ToolMissing
    <2> QED
        BY <1>5, <2>1, ReturnPreserves DEF ToolMissing
  <1>6. CASE PromptAccepted(c, k)
    <2>1. SameAttempts
        BY <1>6, PlainWrite DEF PromptAccepted
    <2> QED
        BY <1>6, <2>1, ReturnPreserves DEF PromptAccepted
  <1>7. CASE PromptFailed(c, k)
    <2>1. SameAttempts
        BY <1>7, PlainWrite DEF PromptFailed
    <2>2. tasks[c][k].at \in LockedSteps
        BY <1>7 DEF PromptFailed, At, LockedSteps
    <2> QED
        BY <1>7, <2>1, <2>2, GoToPreserves DEF PromptFailed
  <1>8. CASE PaneLost(c, k)
    <2>1. SameAttempts
        BY <1>8, PlainWrite DEF PaneLost
    <2> QED
        BY <1>8, <2>1, GoToPreserves DEF PaneLost
  <1>9. CASE PaneObserved(c, k)
    <2>1. SameAttempts
        BY <1>9, PlainWrite DEF PaneObserved
    <2> QED
        BY <1>9, <2>1, GoToPreserves DEF PaneObserved
  <1>10. CASE NoActivity(c, k)
    <2>1. SameAttempts
        BY <1>10, PlainWrite DEF NoActivity
    <2> QED
        BY <1>10, <2>1, GoToPreserves DEF NoActivity
  <1>11. CASE RecoveryExhausted(c, k)
    <2>1. SameAttempts
        BY <1>11, PlainWrite DEF RecoveryExhausted
    <2> QED
        BY <1>11, <2>1, GoToPreserves DEF RecoveryExhausted
  <1>12. CASE Rebind(c, k)
    <2>1. tasks[c][k].plan \in {"assigned", "waiting_agent", "stalled"}
        BY <1>12 DEF Rebind, DispatchInv, TasksOK, RecoveryPlans
    <2>2. SameAttempts
        BY <1>12, <2>1, PlainWrite DEF Rebind
    <2> QED
        BY <1>12, <2>2, ReturnPreserves DEF Rebind
  <1>13. CASE Collect(c, k)
    <2>1. WorkApi
        BY <1>13 DEF Collect, WorkApi
    <2>2. SameAttempts
        BY <2>1, QueueKeepsAttempts
    <2> QED
        BY <1>13, <2>2, ReturnPreserves DEF Collect
  <1>14. CASE Degrade(c, k)
    <2>1. SameAttempts
        BY <1>14 DEF Degrade, MarkWorkerDegradedForWork, SameAttempts
    <2> QED
        BY <1>14, <2>1, ReturnPreserves DEF Degrade
  <1>15. CASE NotYetBack(c, k) \/ Raise(c, k)
    <2>1. SameAttempts /\ prompts' = prompts
        BY <1>15 DEF NotYetBack, Raise, vars, SameAttempts
    <2> QED
        BY <1>15, <2>1, ReturnPreserves DEF NotYetBack, Raise
  <1> QED
      BY <1>1, <1>2, <1>3, <1>4, <1>5, <1>6, <1>7, <1>8, <1>9, <1>10, <1>11, <1>12, <1>13,
         <1>14, <1>15, Zenon DEF TaskStep, Dispatching, Supervising

-----------------------------------------------------------------------------
(* The other steps *)

\* A step that starts or forgets tasks of one caller or of all of them.
LEMMA RestartsPreserve ==
    ASSUME DispatchInv, SameAttempts, prompts' = prompts,
           tasks' \in [Callers -> [Works -> TaskRow]],
           \A c \in Callers, k \in Works :
              \/ tasks'[c][k] = tasks[c][k]
              \/ /\ tasks'[c][k].at \in {"idle", "enter", "monitor", "recover"}
                 /\ tasks'[c][k].at = "recover" => tasks'[c][k].plan \in RecoveryPlans
    PROVE  DispatchInv'
  <1>1. TasksOK'
      BY DEF DispatchInv, TasksOK, At
  <1>2. Exclusive'
      BY DEF DispatchInv, Exclusive, LockedSteps
  <1>3. LockMeaning'
      BY DEF DispatchInv, LockMeaning, At, SameAttempts
  <1>4. CountersOK'
      BY DEF DispatchInv, CountersOK, SameAttempts
  <1> QED
      BY <1>1, <1>2, <1>3, <1>4 DEF DispatchInv

LEMMA TickPreserves ==
    ASSUME DispatchInv, TypeOK, Tick
    PROVE  DispatchInv'
  <1>1. SameAttempts /\ prompts' = prompts
      BY QueueKeepsAttempts DEF Tick, Background
  <1> DEFINE started == [k \in Works |-> TaskFor(k)]
  <1>2. started \in [Works -> TaskRow]
      BY TaskForType
  <1>3. tasks' = [tasks EXCEPT !["supervisor"] = started]
      BY DEF Tick
  <1>4. \A k \in Works :
           /\ started[k].at \in {"idle", "enter", "monitor", "recover"}
           /\ started[k].at = "recover" => started[k].plan \in RecoveryPlans
      BY TaskForType
  <1> HIDE DEF started
  <1>5. /\ tasks' \in [Callers -> [Works -> TaskRow]]
        /\ tasks'["supervisor"] = started
        /\ \A c \in Callers : c # "supervisor" => tasks'[c] = tasks[c]
      BY <1>2, <1>3 DEF DispatchInv, TasksOK, Callers
  <1> QED
      BY <1>1, <1>4, <1>5, RestartsPreserve

LEMMA OperatorPreserves ==
    ASSUME DispatchInv, Operator
    PROVE  DispatchInv'
  <1>1. SameAttempts /\ prompts' = prompts
      BY DEF Operator, OperatorDispatch, OperatorRetry, OperatorRecover, vars, SameAttempts
  <1>2. PICK o \in Operators, k \in Works :
           \E t \in {Task("enter", "first"), Task("enter", "retry"), Task("recover", RecoveryPlan(k))} :
              tasks' = [tasks EXCEPT ![o][k] = t]
      BY DEF Operator, OperatorDispatch, OperatorRetry, OperatorRecover
  <1>3. PICK t \in {Task("enter", "first"), Task("enter", "retry"), Task("recover", RecoveryPlan(k))} :
           tasks' = [tasks EXCEPT ![o][k] = t]
      BY <1>2
  <1>4. /\ t \in TaskRow
        /\ t.at \in {"enter", "recover"}
        /\ t.at = "recover" => t.plan \in RecoveryPlans
    <2>1. Task("enter", "first") \in TaskRow /\ Task("enter", "first").at = "enter"
        BY TaskType DEF Steps, Plans
    <2>2. Task("enter", "retry") \in TaskRow /\ Task("enter", "retry").at = "enter"
        BY TaskType DEF Steps, Plans
    <2>3. /\ Task("recover", RecoveryPlan(k)) \in TaskRow
          /\ Task("recover", RecoveryPlan(k)).at = "recover"
          /\ Task("recover", RecoveryPlan(k)).plan \in RecoveryPlans
        BY TaskType, RecoveryPlanType DEF Steps, Plans, RecoveryPlans
    <2> QED
        BY <1>3, <2>1, <2>2, <2>3
  <1>5. o \in Callers
      BY DEF Callers
  <1>6. /\ tasks' \in [Callers -> [Works -> TaskRow]]
        /\ tasks'[o][k] = t
        /\ \A d \in Callers, j \in Works : d # o \/ j # k => tasks'[d][j] = tasks[d][j]
      BY <1>3, <1>4, <1>5 DEF DispatchInv, TasksOK
  <1> QED
      BY <1>1, <1>4, <1>5, <1>6, RestartsPreserve

LEMMA ElsewherePreserves ==
    ASSUME DispatchInv, TypeOK, Elsewhere \/ Crash
    PROVE  DispatchInv'
  <1>1. SameAttempts /\ prompts' = prompts
      BY QueueKeepsAttempts DEF Elsewhere, Crash
  <1>2. CASE Elsewhere
      BY <1>1, <1>2, RestartsPreserve DEF Elsewhere, DispatchInv, TasksOK
  <1>3. CASE Crash
    <2>1. tasks' = [c \in Callers |-> [k \in Works |-> Idle]]
        BY <1>3 DEF Crash
    <2>2. tasks' \in [Callers -> [Works -> TaskRow]]
        BY <2>1, IdleType
    <2>3. \A c \in Callers, k \in Works : tasks'[c][k].at = "idle"
        BY <2>1, IdleType
    <2> QED
        BY <1>1, <2>2, <2>3, RestartsPreserve
  <1> QED
      BY <1>2, <1>3

LEMMA ExecNextPreserves ==
    ASSUME DispatchInv, TypeOK, [ExecNext]_execVars
    PROVE  DispatchInv'
  <1>1. CASE UNCHANGED execVars
      BY <1>1 DEF execVars, DispatchInv, TasksOK, Exclusive, LockMeaning, CountersOK, At
  <1>2. CASE \E c \in Callers, k \in Works : TaskStep(c, k)
      BY <1>2, TaskStepPreserves, Zenon
  <1> QED
      BY <1>1, <1>2, TickPreserves, OperatorPreserves, ElsewherePreserves, Zenon DEF ExecNext

LEMMA ExecInitEstablishes == ExecInit => DispatchInv
  <1> SUFFICES ASSUME ExecInit
               PROVE  DispatchInv
      OBVIOUS
  <1>1. TasksOK /\ \A c \in Callers, k \in Works : tasks[c][k].at = "idle"
      BY IdleType DEF ExecInit, TasksOK, At
  <1>2. \A k \in Works : works[k].attempts = 0 /\ prompts[k] = 0
      BY DEF ExecInit, Init, NewWork
  <1>3. prompts \in [Works -> Nat]
      BY DEF ExecInit
  <1> QED
      BY <1>1, <1>2, <1>3 DEF DispatchInv, Exclusive, LockMeaning, CountersOK, At, LockedSteps

-----------------------------------------------------------------------------
(* Theorems *)

LEMMA TasksAreInvariant == ExecSpec => [](TasksOK /\ DispatchInv /\ QueueInv)
  <1>1. ExecInit => TasksOK /\ DispatchInv /\ QueueInv
      BY ExecInitEstablishes, InitEstablishes DEF ExecInit, DispatchInv
  <1>2. (TasksOK /\ DispatchInv /\ QueueInv) /\ [ExecNext]_execVars
            => (TasksOK /\ DispatchInv /\ QueueInv)'
    <2> SUFFICES ASSUME TasksOK, DispatchInv, QueueInv, [ExecNext]_execVars
                 PROVE  TasksOK' /\ DispatchInv' /\ QueueInv'
        OBVIOUS
    <2>1. DispatchInv'
        BY ExecNextPreserves DEF QueueInv
    <2>2. QueueInv'
        BY ExecNextIsNext, NextPreserves DEF Sound
    <2> QED
        BY <2>1, <2>2 DEF DispatchInv
  <1> QED
      BY <1>1, <1>2, PTL DEF ExecSpec

\* The per-work lock excludes: two dispatches of one work item are never in
\* progress at once, and what the holder of the lock knows stays true.
THEOREM DispatchIsInvariant == ExecSpec => []DispatchInv
  BY TasksAreInvariant, PTL

\* Whatever the supervisor and the operator do, and wherever a crash hits them,
\* the tables take only steps of the work queue.
THEOREM ExecutionImplementsWorkQueue == ExecSpec => ImplementsWorkQueue
  <1>1. ExecInit => Init
      BY DEF ExecInit
  <1>2. TasksOK /\ [ExecNext]_execVars => [Next]_vars
      BY ExecNextIsNext
  <1> QED
      BY <1>1, <1>2, TasksAreInvariant, PTL DEF ExecSpec, Spec, ImplementsWorkQueue

\* The fence holds under the supervisor too.
THEOREM FenceUnderExecution == ExecSpec => []OneFencedWriterPerWorkspace
  BY ExecutionImplementsWorkQueue, FenceIsInvariant, PTL DEF ImplementsWorkQueue

\* Two write work items of one workspace run at once only if a worker was declared dead
\* under one of them: the second writer of run second_writer has no other cause.
THEOREM SecondWriterNeedsDeath == ExecSpec /\ []NoWriterDead => []NoSecondWriter
  <1>1. OneFencedWriterPerWorkspace /\ WritersIntend => NoSecondWriter
      BY DEF OneFencedWriterPerWorkspace, WritersIntend, NoSecondWriter, Active
  <1> QED
      BY <1>1, ExecutionImplementsWorkQueue, FenceIsInvariant, OnlyDeathOpensTheFence, PTL
         DEF ImplementsWorkQueue

\* The attempt counter on disk covers every prompt sent and the one that is
\* about to be sent.
THEOREM AttemptsCoverPromptsHolds == ExecSpec => []AttemptsCoverPrompts
  <1>1. DispatchInv /\ TypeOK => AttemptsCoverPrompts
    <2> SUFFICES ASSUME DispatchInv, TypeOK, NEW k \in Works
                 PROVE  prompts[k] + Cardinality({c \in Callers : At(c, k, "recorded")})
                            <= works[k].attempts
        BY DEF AttemptsCoverPrompts
    <2>1. prompts[k] \in Nat /\ prompts[k] <= works[k].attempts /\ works[k].attempts \in Nat
        BY DEF DispatchInv, CountersOK, TypeOK, WorkRow
    <2> DEFINE making == {c \in Callers : At(c, k, "recorded")}
    <2>2. CASE making = {}
        BY <2>1, <2>2, FS_EmptySet
    <2>3. CASE making # {}
      <3>1. PICK c \in Callers : At(c, k, "recorded")
          BY <2>3
      <3>2. making = {c}
          BY <3>1 DEF DispatchInv, Exclusive, At, LockedSteps
      <3>3. Cardinality(making) = 1
          BY <3>2, FS_Singleton
      <3>4. prompts[k] < works[k].attempts
          BY <3>1 DEF DispatchInv, LockMeaning
      <3> QED
          BY <2>1, <3>3, <3>4
    <2> QED
        BY <2>2, <2>3
  <1>2. QueueInv => TypeOK
      BY DEF QueueInv
  <1> QED
      BY <1>1, <1>2, TasksAreInvariant, PTL

\* Cancelled work was never sent to an agent and is not being sent to one, not
\* even by a dispatch that began before the cancellation.
THEOREM CancelledNeverPromptedHolds == ExecSpec => []CancelledNeverPrompted
  <1>1. DispatchInv /\ CancelledMeansNeverDispatched => CancelledNeverPrompted
    <2> SUFFICES ASSUME DispatchInv, NEW k \in Works, works[k].attempts = 0
                 PROVE  prompts[k] = 0 /\ \A c \in Callers : tasks[c][k].at \notin {"recorded", "sent"}
        BY DEF CancelledNeverPrompted, CancelledMeansNeverDispatched
    <2>1. prompts[k] \in Nat /\ prompts[k] <= 0
        BY DEF DispatchInv, CountersOK
    <2> QED
        BY <2>1 DEF DispatchInv, LockMeaning, At
  <1> QED
      BY <1>1, DispatchIsInvariant, ExecutionImplementsWorkQueue, CancelledIsInvariant, PTL
         DEF ImplementsWorkQueue

LEMMA OnlySendPromptSends ==
    ASSUME DispatchInv, [ExecNext]_execVars, NEW j \in Works, prompts'[j] # prompts[j]
    PROVE  \E c \in Callers : Sends(c, j) /\ (prompts[j] > 0 => tasks[c][j].plan = "retry")
  <1>1. CASE \E c \in Callers, k \in Works : SendPrompt(c, k)
    <2>1. PICK c \in Callers, k \in Works : SendPrompt(c, k)
        BY <1>1
    <2>2. j = k /\ prompts'[k] = prompts[k] + 1
        BY <2>1 DEF SendPrompt, DispatchInv, CountersOK
    <2>3. prompts[k] > 0 => tasks[c][k].plan = "retry"
        BY <2>1 DEF SendPrompt, DispatchInv, LockMeaning
    <2>4. At(c, k, "recorded")
        BY <2>1 DEF SendPrompt
    <2> QED
        BY <2>2, <2>3, <2>4 DEF Sends
  <1>2. CASE prompts' = prompts
      BY <1>2
  <1>3. ASSUME NEW c \in Callers, NEW k \in Works, TaskStep(c, k)
        PROVE  SendPrompt(c, k) \/ prompts' = prompts
      BY <1>3, Zenon DEF TaskStep, Dispatching, Supervising, EnterDispatch, TargetMissing,
         ToolMissing, RecordAttempt, PromptAccepted, PromptFailed, PaneLost, PaneObserved,
         Collect, NoActivity, RecoveryExhausted, Rebind, NotYetBack, Degrade, Raise, Write
  <1>4. CASE Tick \/ Operator \/ Elsewhere \/ Crash \/ UNCHANGED execVars
    <2>1. prompts' = prompts
        BY <1>4 DEF Tick, Operator, OperatorDispatch, OperatorRetry, OperatorRecover,
           Elsewhere, Crash, execVars
    <2> QED
        BY <1>2, <2>1
  <1> QED
      BY <1>1, <1>2, <1>3, <1>4, Zenon DEF ExecNext

\* No prompt is sent a second time unless an operator asked for a retry, for any
\* number of crashes, recoveries and concurrent dispatches.
THEOREM NoAutomaticResendHolds == ExecSpec => NoAutomaticResend
  <1> DEFINE Resend == \A k \in Works : prompts'[k] # prompts[k] =>
          \E c \in Callers : Sends(c, k) /\ (prompts[k] > 0 => tasks[c][k].plan = "retry")
  <1>1. DispatchInv /\ [ExecNext]_execVars => [Resend]_execVars
      BY OnlySendPromptSends
  <1> QED
      BY <1>1, DispatchIsInvariant, PTL DEF ExecSpec, NoAutomaticResend

-----------------------------------------------------------------------------
(* Waiting for an agent, and the recovery limit *)

\* A task that takes it for granted that the agent was given the work.
Trusts(c, k) ==
    \/ At(c, k, "monitor")
    \/ At(c, k, "collect")
    \/ At(c, k, "recover") /\ tasks[c][k].plan = "waiting_agent"

WaitInv ==
    /\ \A k \in Works : works[k].dispatched => prompts[k] > 0
    /\ \A k \in Works : works[k].execution = "waiting_agent" => works[k].dispatched
    /\ \A c \in Callers, k \in Works : Trusts(c, k) => works[k].dispatched

\* A recovery that will count itself when the pane is back.
Resumes(c, k) == At(c, k, "recover") /\ tasks[c][k].plan # "exhausted"

Resuming(k) == {c \in Callers : Resumes(c, k)}

\* Everyone may have passed the check before anyone has counted: the recoveries counted
\* and those under way together exceed the limit by one for each operator's call.
RecoveryInv ==
    /\ recoveries \in [Works -> Nat]
    /\ \A k \in Works :
          recoveries[k] + Cardinality(Resuming(k)) <= MaxRecoveries + Cardinality(Operators)

\* A task as it starts, from the row of its work.
Started(t, k) ==
    /\ t.at \in {"idle", "enter", "monitor", "recover"}
    /\ t.at = "monitor" => works[k].execution = "waiting_agent"
    /\ t.at = "recover" => t.plan = RecoveryPlan(k)

LEMMA TaskForStarts ==
    ASSUME NEW k \in Works
    PROVE  Started(TaskFor(k), k)
  <1>1. Task("enter", "first").at = "enter" /\ Task("monitor", "none").at = "monitor"
      BY DEF Task
  <1>2. /\ Task("recover", RecoveryPlan(k)).plan = RecoveryPlan(k)
        /\ Task("recover", RecoveryPlan(k)).at = "recover"
      BY DEF Task
  <1> QED
      BY <1>1, <1>2, IdleType DEF TaskFor, Started

LEMMA StartsAreStarted ==
    ASSUME TasksOK, Tick \/ Operator \/ Crash, NEW c \in Callers, NEW k \in Works
    PROVE  tasks'[c][k] = tasks[c][k] \/ Started(tasks'[c][k], k)
  <1>1. CASE Tick
    <2> DEFINE started == [j \in Works |-> TaskFor(j)]
    <2>1. tasks' = [tasks EXCEPT !["supervisor"] = started]
        BY <1>1 DEF Tick
    <2>2. started[k] = TaskFor(k)
        OBVIOUS
    <2> HIDE DEF started
    <2>3. IF c = "supervisor" THEN tasks'[c][k] = started[k] ELSE tasks'[c][k] = tasks[c][k]
        BY <2>1 DEF TasksOK
    <2> QED
        BY <2>2, <2>3, TaskForStarts
  <1>2. CASE Operator
    <2>1. PICK o \in Operators, j \in Works :
             \E t \in {Task("enter", "first"), Task("enter", "retry"), Task("recover", RecoveryPlan(j))} :
                tasks' = [tasks EXCEPT ![o][j] = t]
        BY <1>2 DEF Operator, OperatorDispatch, OperatorRetry, OperatorRecover
    <2>2. PICK t \in {Task("enter", "first"), Task("enter", "retry"), Task("recover", RecoveryPlan(j))} :
             tasks' = [tasks EXCEPT ![o][j] = t]
        BY <2>1
    <2>3. Started(t, j)
        BY <2>2 DEF Started, Task
    <2>4. tasks'[c][k] = tasks[c][k] \/ (j = k /\ tasks'[c][k] = t)
        BY <2>2 DEF TasksOK
    <2> QED
        BY <2>3, <2>4
  <1>3. CASE Crash
      BY <1>3, IdleType DEF Crash, Started
  <1> QED
      BY <1>1, <1>2, <1>3

\* A step of a task starts no monitoring and no recovery, and only an observed pane
\* leads to the collection of a result.
LEMMA TaskGoesOn ==
    ASSUME TasksOK, NEW c \in Callers, NEW k \in Works, TaskStep(c, k)
    PROVE  /\ \A d \in Callers, j \in Works : d # c \/ j # k => tasks'[d][j] = tasks[d][j]
           /\ ~At(c, k, "monitor")' /\ ~At(c, k, "recover")'
           /\ At(c, k, "collect")' => At(c, k, "monitor")
  <1>1. \E step \in Steps \ {"monitor", "recover"}, plan \in Plans :
           /\ tasks' = [tasks EXCEPT ![c][k] = Task(step, plan)]
           /\ step = "collect" => At(c, k, "monitor")
    <2> DEFINE Goes(step) == \E plan \in Plans : tasks' = [tasks EXCEPT ![c][k] = Task(step, plan)]
    <2>1. Return(c, k) => Goes("idle")
        BY DEF Return, Idle, Plans
    <2>2. ASSUME NEW step \in Steps PROVE GoTo(c, k, step) \/ Proceed(c, k, step) => Goes(step)
        BY DEF GoTo, Proceed, Plans, TasksOK, TaskRow
    <2>3. /\ {"idle", "stall", "flag", "checked", "recorded", "sent", "degrade", "collect"} \subseteq Steps
        BY DEF Steps, LockedSteps
    <2> HIDE DEF Goes
    <2>4. \/ \E step \in {"idle", "stall", "flag", "checked", "recorded", "sent", "degrade"} : Goes(step)
          \/ Goes("collect") /\ At(c, k, "monitor")
      <3>1. CASE Dispatching(c, k)
          BY <2>1, <2>2, <2>3, <3>1, Zenon DEF Dispatching, EnterDispatch, TargetMissing, ToolMissing,
             RecordAttempt, SendPrompt, PromptAccepted, PromptFailed
      <3>2. CASE PaneObserved(c, k)
          BY <2>1, <2>2, <2>3, <3>2 DEF PaneObserved
      <3>3. CASE Supervising(c, k) /\ ~PaneObserved(c, k)
          BY <2>1, <2>2, <2>3, <3>3, Zenon DEF Supervising, PaneLost, Collect, NoActivity,
             RecoveryExhausted, Rebind, NotYetBack
      <3>4. CASE Degrade(c, k) \/ Raise(c, k)
          BY <2>1, <3>4 DEF Degrade, Raise
      <3> QED
          BY <3>1, <3>2, <3>3, <3>4 DEF TaskStep
    <2> QED
        BY <2>3, <2>4 DEF Goes
  <1>2. PICK step \in Steps \ {"monitor", "recover"}, plan \in Plans :
           /\ tasks' = [tasks EXCEPT ![c][k] = Task(step, plan)]
           /\ step = "collect" => At(c, k, "monitor")
      BY <1>1
  <1>3. Task(step, plan) \in TaskRow /\ Task(step, plan).at = step
      BY TaskType
  <1> QED
      BY <1>2, <1>3 DEF TasksOK, At

\* What a write of a task does to the flag and the state that waiting is about.
LEMMA WriteMarks ==
    ASSUME TypeOK, NEW k \in Works, NEW u \in ExecutionUpdates, UpdateWorkExecution(k, u)
    PROVE  /\ works'[k].execution = u.execution
           /\ works'[k].dispatched = (works[k].dispatched \/ u.mark)
           /\ \A j \in Works : j # k => works'[j] = works[j]
  <1>1. u.mark \in BOOLEAN /\ works[k] \in WorkRow
      BY UpdateType DEF TypeOK
  <1>2. works' = [works EXCEPT ![k] =
                    [@ EXCEPT !.execution = u.execution,
                              !.attempts = works[k].attempts + IF u.increment THEN 1 ELSE 0,
                              !.dispatched = works[k].dispatched \/ u.mark]]
      BY Zenon DEF UpdateWorkExecution
  <1> QED
      BY <1>1, <1>2 DEF TypeOK, WorkRow

\* What waiting is about, of the rows.
RowsTrusted ==
    \A k \in Works :
        /\ works[k].dispatched => works'[k].dispatched
        /\ works'[k].dispatched => prompts'[k] > 0
        /\ works'[k].execution = "waiting_agent" => works'[k].dispatched

LEMMA QueueKeepsTrust ==
    ASSUME WaitInv, HistoryKept, prompts' = prompts
    PROVE  RowsTrusted
  BY DEF WaitInv, HistoryKept, RowsTrusted

LEMMA WriteKeepsTrust ==
    ASSUME WaitInv, TypeOK, NEW k \in Works, prompts' = prompts,
           NEW e \in {"dispatching", "assigned", "waiting_agent", "reconnecting", "recovering",
                      "stalled", "dispatch_uncertain"},
           NEW i \in BOOLEAN, NEW m \in BOOLEAN,
           Update(e, i, m) \in ExecutionUpdates, UpdateWorkExecution(k, Update(e, i, m)),
           m => prompts[k] > 0,
           e = "waiting_agent" => m \/ works[k].dispatched
    PROVE  RowsTrusted
  <1>1. Update(e, i, m).execution = e /\ Update(e, i, m).mark = m
      BY DEF Update
  <1>2. /\ works'[k].execution = e
        /\ works'[k].dispatched = (works[k].dispatched \/ m)
        /\ \A j \in Works : j # k => works'[j] = works[j]
      BY <1>1, WriteMarks, Zenon
  <1>3. works[k].dispatched \in BOOLEAN
      BY DEF TypeOK, WorkRow
  <1> QED
      BY <1>2, <1>3 DEF WaitInv, RowsTrusted

LEMMA TaskKeepsTrust ==
    ASSUME WaitInv, DispatchInv, TypeOK, NEW c \in Callers, NEW k \in Works, TaskStep(c, k)
    PROVE  RowsTrusted
  <1> USE UpdatesKnown DEF Write
  <1>1. CASE EnterDispatch(c, k) \/ NotYetBack(c, k) \/ Raise(c, k) \/ Degrade(c, k)
    <2>1. works' = works /\ prompts' = prompts
        BY <1>1 DEF EnterDispatch, NotYetBack, Raise, Degrade, MarkWorkerDegradedForWork, vars
    <2> QED
        BY <2>1 DEF WaitInv, RowsTrusted
  <1>2. CASE SendPrompt(c, k)
    <2>1. works' = works /\ prompts' = [prompts EXCEPT ![k] = @ + 1]
        BY <1>2 DEF SendPrompt, vars
    <2>2. \A j \in Works : prompts[j] \in Nat /\ prompts'[j] \in {prompts[j], prompts[j] + 1}
        BY <2>1 DEF DispatchInv, CountersOK
    <2> QED
        BY <2>1, <2>2 DEF WaitInv, RowsTrusted
  <1>3. CASE RecordAttempt(c, k)
      BY <1>3, WriteKeepsTrust DEF RecordAttempt
  <1>4. CASE TargetMissing(c, k)
      BY <1>4, WriteKeepsTrust DEF TargetMissing
  <1>5. CASE ToolMissing(c, k)
      BY <1>5, WriteKeepsTrust DEF ToolMissing
  <1>6. CASE PromptAccepted(c, k)
    <2>1. prompts[k] > 0
        BY <1>6 DEF PromptAccepted, DispatchInv, LockMeaning
    <2> QED
        BY <1>6, <2>1, WriteKeepsTrust DEF PromptAccepted
  <1>7. CASE PromptFailed(c, k)
      BY <1>7, WriteKeepsTrust DEF PromptFailed
  <1>8. CASE PaneLost(c, k)
      BY <1>8, WriteKeepsTrust DEF PaneLost
  <1>9. CASE PaneObserved(c, k)
    <2>1. works[k].dispatched
        BY <1>9 DEF PaneObserved, WaitInv, Trusts
    <2> QED
        BY <1>9, <2>1, WriteKeepsTrust DEF PaneObserved
  <1>10. CASE NoActivity(c, k)
      BY <1>10, WriteKeepsTrust DEF NoActivity
  <1>11. CASE RecoveryExhausted(c, k)
      BY <1>11, WriteKeepsTrust DEF RecoveryExhausted
  <1>12. CASE Rebind(c, k)
    <2>1. tasks[c][k].plan \in {"assigned", "waiting_agent", "stalled"}
        BY <1>12 DEF Rebind, DispatchInv, TasksOK, RecoveryPlans
    <2>2. tasks[c][k].plan = "waiting_agent" => works[k].dispatched
        BY <1>12 DEF Rebind, WaitInv, Trusts
    <2> QED
        BY <1>12, <2>1, <2>2, WriteKeepsTrust DEF Rebind
  <1>13. CASE Collect(c, k)
    <2>1. WorkApi
        BY <1>13 DEF Collect, WorkApi
    <2> QED
        BY <1>13, <2>1, HistoryOfQueue, QueueKeepsTrust DEF Collect
  <1> QED
      BY <1>1, <1>2, <1>3, <1>4, <1>5, <1>6, <1>7, <1>8, <1>9, <1>10, <1>11, <1>12, <1>13,
         Zenon DEF TaskStep, Dispatching, Supervising

LEMMA WaitPreserved ==
    ASSUME WaitInv, DispatchInv, TypeOK, [ExecNext]_execVars
    PROVE  WaitInv'
  <1>1. CASE UNCHANGED execVars
      BY <1>1 DEF execVars, WaitInv, Trusts, At
  <1>2. ASSUME RowsTrusted,
               \A c \in Callers, k \in Works : Trusts(c, k)' => Trusts(c, k) \/ works[k].dispatched
        PROVE  WaitInv'
      BY <1>2 DEF RowsTrusted, WaitInv
  <1>3. CASE \E c \in Callers, k \in Works : TaskStep(c, k)
    <2>1. PICK c \in Callers, k \in Works : TaskStep(c, k)
        BY <1>3, Zenon
    <2>2. RowsTrusted
        BY <2>1, TaskKeepsTrust
    <2>3. \A d \in Callers, j \in Works : Trusts(d, j)' => Trusts(d, j)
        BY <2>1, TaskGoesOn DEF DispatchInv, Trusts, At
    <2> QED
        BY <1>2, <2>2, <2>3
  <1>4. CASE Tick \/ Operator \/ Crash
    <2>1. RowsTrusted
      <3>1. CASE Operator
          BY <3>1 DEF Operator, OperatorDispatch, OperatorRetry, OperatorRecover, vars, WaitInv,
             RowsTrusted
      <3>2. CASE Tick \/ Crash
          BY <3>2, HistoryOfQueue, QueueKeepsTrust DEF Tick, Crash, Background
      <3> QED
          BY <1>4, <3>1, <3>2
    <2>2. ASSUME NEW c \in Callers, NEW k \in Works, Trusts(c, k)'
          PROVE  Trusts(c, k) \/ works[k].dispatched
      <3>1. CASE tasks'[c][k] = tasks[c][k]
          BY <2>2, <3>1 DEF Trusts, At
      <3>2. CASE Started(tasks'[c][k], k)
          BY <2>2, <3>2 DEF Started, Trusts, At, WaitInv, RecoveryPlan
      <3> QED
          BY <1>4, <3>1, <3>2, StartsAreStarted DEF DispatchInv
    <2> QED
        BY <1>2, <2>1, <2>2
  <1>5. CASE Elsewhere
    <2>1. RowsTrusted
        BY <1>5, HistoryOfQueue, QueueKeepsTrust DEF Elsewhere
    <2> QED
        BY <1>2, <1>5, <2>1 DEF Elsewhere, Trusts, At
  <1> QED
      BY <1>1, <1>3, <1>4, <1>5 DEF ExecNext

\* A caller more than the operators' calls.
LEMMA CallersCounted ==
    /\ IsFiniteSet(Callers) /\ Cardinality(Operators) \in Nat
    /\ Cardinality(Callers) = Cardinality(Operators) + 1
  <1>1. IsFiniteSet(Operators) /\ "supervisor" \notin Operators
      BY SettingsAssumption
  <1>2. /\ IsFiniteSet(Operators \cup {"supervisor"})
        /\ Cardinality(Operators \cup {"supervisor"}) = Cardinality(Operators) + 1
      BY <1>1, FS_AddElement
  <1>3. Callers = Operators \cup {"supervisor"}
      BY DEF Callers
  <1> QED
      BY <1>1, <1>2, <1>3, FS_CardinalityType

LEMMA FewerResume ==
    ASSUME NEW S \in SUBSET Callers, NEW R \in SUBSET S
    PROVE  /\ Cardinality(R) \in Nat /\ Cardinality(S) \in Nat
           /\ Cardinality(R) <= Cardinality(S)
           /\ \A c \in S : c \notin R => Cardinality(R) + 1 <= Cardinality(S)
  <1>1. IsFiniteSet(S)
      BY CallersCounted, FS_Subset
  <1>2. IsFiniteSet(R) /\ Cardinality(R) <= Cardinality(S)
      BY <1>1, FS_Subset
  <1>3. Cardinality(R) \in Nat /\ Cardinality(S) \in Nat
      BY <1>1, <1>2, FS_CardinalityType
  <1>4. ASSUME NEW c \in S, c \notin R
        PROVE  Cardinality(R) + 1 <= Cardinality(S)
    <2>1. R \cup {c} \in SUBSET S
        BY <1>4
    <2>2. Cardinality(R \cup {c}) = Cardinality(R) + 1
        BY <1>2, <1>4, FS_AddElement
    <2>3. Cardinality(R \cup {c}) <= Cardinality(S)
        BY <1>1, <2>1, FS_Subset
    <2> QED
        BY <2>2, <2>3
  <1> QED
      BY <1>2, <1>3, <1>4

LEMMA RecoveryPreserved ==
    ASSUME RecoveryInv, DispatchInv, [ExecNext]_execVars
    PROVE  RecoveryInv'
  <1>0. /\ MaxRecoveries \in Nat
        /\ \A k \in Works : recoveries[k] \in Nat
        /\ \A k \in Works : Resuming(k) \in SUBSET Callers /\ Resuming(k)' \in SUBSET Callers
      BY SettingsAssumption DEF RecoveryInv, Resuming
  <1>1. ASSUME recoveries' = recoveries,
               \A k \in Works : \/ Resuming(k)' \subseteq Resuming(k)
                                \/ recoveries[k] < MaxRecoveries
        PROVE  RecoveryInv'
    <2>1. ASSUME NEW k \in Works
          PROVE  recoveries[k] + Cardinality(Resuming(k)')
                    <= MaxRecoveries + Cardinality(Operators)
      <3>1. CASE Resuming(k)' \subseteq Resuming(k)
        <4>1. /\ Cardinality(Resuming(k)') \in Nat /\ Cardinality(Resuming(k)) \in Nat
              /\ Cardinality(Resuming(k)') <= Cardinality(Resuming(k))
            BY <1>0, <3>1, FewerResume
        <4>2. recoveries[k] + Cardinality(Resuming(k)) <= MaxRecoveries + Cardinality(Operators)
            BY DEF RecoveryInv
        <4> QED
            BY <1>0, <4>1, <4>2, CallersCounted
      <3>2. CASE recoveries[k] < MaxRecoveries
        <4>1. /\ Cardinality(Resuming(k)') \in Nat
              /\ Cardinality(Resuming(k)') <= Cardinality(Callers)
            BY <1>0, FewerResume
        <4> QED
            BY <1>0, <3>2, <4>1, CallersCounted
      <3> QED
          BY <1>1, <3>1, <3>2
    <2> QED
        BY <1>1, <2>1 DEF RecoveryInv
  <1>2. CASE UNCHANGED execVars
      BY <1>1, <1>2 DEF execVars, Resuming, Resumes, At
  <1>3. CASE Elsewhere
      BY <1>1, <1>3 DEF Elsewhere, Resuming, Resumes, At
  <1>4. CASE Tick \/ Operator \/ Crash
    <2>1. recoveries' = recoveries
        BY <1>4 DEF Tick, Operator, OperatorDispatch, OperatorRetry, OperatorRecover, Crash
    <2>2. ASSUME NEW c \in Callers, NEW k \in Works, Resumes(c, k)'
          PROVE  Resumes(c, k) \/ recoveries[k] < MaxRecoveries
      <3>1. CASE tasks'[c][k] = tasks[c][k]
          BY <2>2, <3>1 DEF Resumes, At
      <3>2. CASE Started(tasks'[c][k], k)
          BY <1>0, <2>2, <3>2 DEF Started, Resumes, At, RecoveryPlan
      <3> QED
          BY <1>4, <3>1, <3>2, StartsAreStarted DEF DispatchInv
    <2>3. \A k \in Works : Resuming(k)' \subseteq Resuming(k) \/ recoveries[k] < MaxRecoveries
        BY <2>2 DEF Resuming
    <2> QED
        BY <1>1, <2>1, <2>3
  <1>5. CASE \E c \in Callers, k \in Works : TaskStep(c, k)
    <2>1. PICK c \in Callers, k \in Works : TaskStep(c, k)
        BY <1>5, Zenon
    <2>2. /\ ~Resumes(c, k)'
          /\ \A d \in Callers, j \in Works : Resumes(d, j)' => Resumes(d, j)
        BY <2>1, TaskGoesOn DEF DispatchInv, Resumes, At
    <2>3. \A j \in Works : Resuming(j)' \subseteq Resuming(j)
        BY <2>2 DEF Resuming
    <2>4. CASE recoveries' = recoveries
        BY <1>1, <2>3, <2>4
    <2>5. CASE Rebind(c, k)
      <3>1. c \in Resuming(k) /\ c \notin Resuming(k)'
          BY <2>2, <2>5 DEF Rebind, Resumes, Resuming
      <3>2. recoveries' = [recoveries EXCEPT ![k] = @ + 1]
          BY <2>5 DEF Rebind
      <3>3. /\ recoveries' \in [Works -> Nat]
            /\ recoveries'[k] = recoveries[k] + 1
            /\ \A j \in Works : j # k => recoveries'[j] = recoveries[j]
          BY <1>0, <3>2 DEF RecoveryInv
      <3>4. ASSUME NEW j \in Works
            PROVE  recoveries'[j] + Cardinality(Resuming(j)')
                      <= MaxRecoveries + Cardinality(Operators)
        <4>1. /\ Cardinality(Resuming(j)') \in Nat /\ Cardinality(Resuming(j)) \in Nat
              /\ Cardinality(Resuming(j)') <= Cardinality(Resuming(j))
              /\ j = k => Cardinality(Resuming(j)') + 1 <= Cardinality(Resuming(j))
            BY <1>0, <2>3, <3>1, FewerResume
        <4>2. recoveries[j] + Cardinality(Resuming(j)) <= MaxRecoveries + Cardinality(Operators)
            BY DEF RecoveryInv
        <4> QED
            BY <1>0, <3>3, <4>1, <4>2, CallersCounted
      <3> QED
          BY <3>3, <3>4 DEF RecoveryInv
    <2>6. recoveries' = recoveries \/ Rebind(c, k)
        BY <2>1, Zenon DEF TaskStep, Dispatching, Supervising, EnterDispatch, TargetMissing,
           ToolMissing, RecordAttempt, SendPrompt, PromptAccepted, PromptFailed, PaneLost,
           PaneObserved, Collect, NoActivity, RecoveryExhausted, NotYetBack, Degrade, Raise, Write
    <2> QED
        BY <2>4, <2>5, <2>6
  <1> QED
      BY <1>2, <1>3, <1>4, <1>5 DEF ExecNext

LEMMA WaitingIsInvariant == ExecSpec => [](WaitInv /\ RecoveryInv)
  <1>1. ExecInit => WaitInv /\ RecoveryInv
    <2> SUFFICES ASSUME ExecInit PROVE WaitInv /\ RecoveryInv
        OBVIOUS
    <2>1. \A c \in Callers, k \in Works : tasks[c][k].at = "idle"
        BY IdleType DEF ExecInit
    <2>2. \A k \in Works : ~works[k].dispatched /\ works[k].execution = "none"
        BY DEF ExecInit, Init, NewWork
    <2>3. recoveries \in [Works -> Nat] /\ \A k \in Works : recoveries[k] = 0
        BY DEF ExecInit
    <2>4. WaitInv
        BY <2>1, <2>2 DEF WaitInv, Trusts, At
    <2>5. ASSUME NEW k \in Works
          PROVE  recoveries[k] + Cardinality(Resuming(k)) <= MaxRecoveries + Cardinality(Operators)
      <3>1. Resuming(k) = {}
          BY <2>1 DEF Resuming, Resumes, At
      <3>2. Cardinality(Resuming(k)) = 0
          BY <3>1, FS_EmptySet
      <3>3. MaxRecoveries \in Nat /\ Cardinality(Operators) \in Nat
          BY SettingsAssumption, CallersCounted
      <3> QED
          BY <2>3, <3>2, <3>3
    <2> QED
        BY <2>3, <2>4, <2>5 DEF RecoveryInv
  <1>2. WaitInv /\ RecoveryInv /\ DispatchInv /\ TypeOK /\ [ExecNext]_execVars
            => (WaitInv /\ RecoveryInv)'
      BY WaitPreserved, RecoveryPreserved
  <1>3. QueueInv => TypeOK
      BY DEF QueueInv
  <1> QED
      BY <1>1, <1>2, <1>3, TasksAreInvariant, PTL DEF ExecSpec

\* Nothing waits for, or collects the result of, an agent that was not prompted and did
\* not accept: dispatch marks the row after the prompt, recovery trusts the mark alone
\* (_recover, _monitor_waiting).
THEOREM WaitingWasPromptedHolds == ExecSpec => []WaitingWasPrompted
  <1>1. WaitInv => WaitingWasPrompted
      BY DEF WaitInv, WaitingWasPrompted, Trusts
  <1> QED
      BY <1>1, WaitingIsInvariant, PTL

\* The supervisor's variables keep their types: prompts stay within the attempts, and
\* recoveries exceed their limit by one at most for each operator's call that works on
\* the item at once with the others, when all pass the check before one has counted.
THEOREM ExecTypesAreInvariant == ExecSpec => []ExecTypeOK
  <1>1. QueueInv /\ DispatchInv /\ RecoveryInv => ExecTypeOK
    <2> SUFFICES ASSUME TypeOK, DispatchInv, RecoveryInv PROVE ExecTypeOK
        BY DEF QueueInv
    <2>1. tasks \in [Callers -> [Works -> [at : Steps, plan : Plans]]]
        BY DEF DispatchInv, TasksOK, TaskRow
    <2>2. recoveries \in [Works -> 0 .. MaxRecoveries + Cardinality(Operators)]
      <3>1. ASSUME NEW k \in Works
            PROVE  recoveries[k] \in 0 .. MaxRecoveries + Cardinality(Operators)
        <4>1. Resuming(k) \in SUBSET Callers
            BY DEF Resuming
        <4>2. Cardinality(Resuming(k)) \in Nat
            BY <4>1, FewerResume
        <4> QED
            BY <4>2, SettingsAssumption, CallersCounted DEF RecoveryInv
      <3> QED
          BY <3>1 DEF RecoveryInv
    <2>3. ASSUME NEW k \in Works PROVE prompts[k] \in 0 .. MaxAttempts
      <3>1. works[k].attempts \in 0 .. MaxAttempts /\ MaxAttempts \in Nat
          BY BoundAssumption DEF TypeOK, WorkRow
      <3> QED
          BY <3>1 DEF DispatchInv, CountersOK
    <2>4. prompts \in [Works -> 0 .. MaxAttempts]
        BY <2>3 DEF DispatchInv, CountersOK
    <2> QED
        BY <2>1, <2>2, <2>4 DEF ExecTypeOK
  <1> QED
      BY <1>1, WaitingIsInvariant, TasksAreInvariant, PTL

-----------------------------------------------------------------------------
(* Work that nobody works on *)

\* Every step of a task is a step of a task that was started.
LEMMA IdleTasksRest ==
    ASSUME NEW c \in Callers, NEW k \in Works, TaskStep(c, k)
    PROVE  ~At(c, k, "idle")
  <1>1. CASE Dispatching(c, k)
      BY <1>1 DEF Dispatching, EnterDispatch, TargetMissing, ToolMissing, RecordAttempt, SendPrompt,
         PromptAccepted, PromptFailed, At
  <1>2. CASE Supervising(c, k)
    <2>1. \/ At(c, k, "monitor") \/ At(c, k, "collect") \/ At(c, k, "stall") \/ At(c, k, "recover")
          \/ tasks[c][k] = Task("recover", "exhausted")
        BY <1>2, Zenon DEF Supervising, PaneLost, PaneObserved, Collect, NoActivity,
           RecoveryExhausted, Rebind, NotYetBack
    <2> QED
        BY <2>1 DEF At, Task
  <1>3. CASE Degrade(c, k) \/ Raise(c, k)
      BY <1>3 DEF Degrade, Raise, At
  <1> QED
      BY <1>1, <1>2, <1>3, Zenon DEF TaskStep

\* A task writes to the row of its own work item only.
LEMMA OtherRowsKept ==
    ASSUME TypeOK, NEW c \in Callers, NEW k \in Works, TaskStep(c, k),
           NEW j \in Works, j # k
    PROVE  works'[j] = works[j]
  <1>1. ASSUME NEW u, UpdateWorkExecution(k, u)
        PROVE  works'[j] = works[j]
    <2>1. works' = [works EXCEPT ![k] =
                      [@ EXCEPT !.execution = u.execution,
                                !.attempts = works[k].attempts + IF u.increment THEN 1 ELSE 0,
                                !.dispatched = works[k].dispatched \/ u.mark]]
        BY <1>1, Zenon DEF UpdateWorkExecution
    <2> QED
        BY <2>1 DEF TypeOK
  <1>2. CASE Collect(c, k)
    <2>1. Close(k, "completed")
        BY <1>2, Zenon DEF Collect, FinishWork
    <2> QED
        BY <2>1 DEF Close, TypeOK
  <1>3. UNCHANGED works \/ Collect(c, k) \/ \E u : UpdateWorkExecution(k, u)
      BY Zenon DEF TaskStep, Dispatching, Supervising, EnterDispatch, TargetMissing, ToolMissing,
         RecordAttempt, SendPrompt, PromptAccepted, PromptFailed, PaneLost, PaneObserved,
         NoActivity, RecoveryExhausted, Rebind, NotYetBack, Degrade, Raise, Write, vars,
         MarkWorkerDegradedForWork
  <1> QED
      BY <1>1, <1>2, <1>3

\* What may become of parked work in one step.
LetAlone(k) ==
    \/ Parked(k)' /\ works'[k].execution = works[k].execution
    \/ \E o \in Operators : ~At(o, k, "idle")'
    \/ works'[k].execution = "cancel_pending"
    \/ ~IsRunning(k)'

LEMMA ParkedIsLetAlone ==
    ASSUME TasksOK, TypeOK, [ExecNext]_execVars, NEW k \in Works, Parked(k)
    PROVE  LetAlone(k)
  <1>1. ASSUME works'[k] = works[k], \A c \in Callers : At(c, k, "idle")'
        PROVE  LetAlone(k)
      BY <1>1 DEF LetAlone, Parked, IsRunning
  <1>2. ASSUME HistoryKept, \A c \in Callers : At(c, k, "idle")'
        PROVE  LetAlone(k)
      BY <1>2 DEF LetAlone, Parked, IsRunning, HistoryKept
  <1>3. CASE \E c \in Callers, j \in Works : TaskStep(c, j)
    <2>1. PICK c \in Callers, j \in Works : TaskStep(c, j)
        BY <1>3, Zenon
    <2>2. j # k
        BY <2>1, IdleTasksRest DEF Parked
    <2>3. works'[k] = works[k]
        BY <2>1, <2>2, OtherRowsKept
    <2>4. \A d \in Callers : tasks'[d][k] = tasks[d][k]
        BY <2>1, <2>2, TaskGoesOn
    <2> QED
        BY <1>1, <2>3, <2>4 DEF Parked, At
  <1>4. CASE Tick
    <2>1. TaskFor(k) = Idle
        BY DEF Parked, TaskFor
    <2>2. \A c \in Callers : At(c, k, "idle")'
        BY <1>4, <2>1, IdleType DEF Tick, TasksOK, Parked, At, Callers
    <2>3. works' = works
        BY <1>4 DEF Tick, HeartbeatRunningWork
    <2> QED
        BY <1>1, <2>2, <2>3
  <1>5. CASE Operator
    <2>1. PICK o \in Operators, j \in Works :
             /\ \E t \in {Task("enter", "first"), Task("enter", "retry"), Task("recover", RecoveryPlan(j))} :
                   tasks' = [tasks EXCEPT ![o][j] = t]
             /\ works' = works
        BY <1>5 DEF Operator, OperatorDispatch, OperatorRetry, OperatorRecover, vars
    <2>2. PICK t \in {Task("enter", "first"), Task("enter", "retry"), Task("recover", RecoveryPlan(j))} :
             tasks' = [tasks EXCEPT ![o][j] = t]
        BY <2>1
    <2>3. CASE j = k
      <3>1. t.at # "idle"
          BY <2>2 DEF Task
      <3>2. tasks'[o][k] = t
          BY <2>2, <2>3 DEF TasksOK, Callers
      <3> QED
          BY <3>1, <3>2 DEF LetAlone, At
    <2>4. CASE j # k
      <3>1. \A c \in Callers : tasks'[c][k] = tasks[c][k]
          BY <2>2, <2>4 DEF TasksOK
      <3> QED
          BY <1>1, <2>1, <3>1 DEF Parked, At
    <2> QED
        BY <2>3, <2>4
  <1>6. CASE Elsewhere
    <2>1. HistoryKept
        BY <1>6, HistoryOfQueue DEF Elsewhere
    <2> QED
        BY <1>2, <1>6, <2>1 DEF Elsewhere, Parked, At
  <1>7. CASE Crash
    <2>1. HistoryKept
        BY <1>7, HistoryOfQueue DEF Crash
    <2>2. \A c \in Callers : At(c, k, "idle")'
        BY <1>7, IdleType DEF Crash, At
    <2> QED
        BY <1>2, <2>1, <2>2
  <1>8. CASE UNCHANGED execVars
      BY <1>1, <1>8 DEF execVars, Parked, At
  <1> QED
      BY <1>3, <1>4, <1>5, <1>6, <1>7, <1>8, Zenon DEF ExecNext

\* Work that a crash, a timeout or a failure left in the middle of a dispatch is taken
\* up by no branch of _process_one, before or after any number of restarts.
THEOREM ParkedWorkWaits == ExecSpec => ParkedWorkWaitsForOperator
  <1>1. TasksOK /\ QueueInv /\ [ExecNext]_execVars
            => [\A k \in Works : Parked(k) => LetAlone(k)]_execVars
      BY ParkedIsLetAlone DEF QueueInv
  <1>2. (\A k \in Works : Parked(k) => LetAlone(k)) =>
           (\A k \in Works : Parked(k) =>
              \/ Parked(k)' /\ works'[k].execution = works[k].execution
              \/ \E o \in Operators : ~At(o, k, "idle")'
              \/ works'[k].execution = "cancel_pending"
              \/ ~IsRunning(k)')
      BY DEF LetAlone
  <1> QED
      BY <1>1, <1>2, TasksAreInvariant, PTL DEF ExecSpec, ParkedWorkWaitsForOperator

-----------------------------------------------------------------------------
(* Recovery before the first dispatch *)

\* The supervisor and the operators' calls are never at one work item together.
OneTaskPerWork ==
    \A k \in Works : \A c, d \in Callers :
        c # d => At(c, k, "idle") \/ At(d, k, "idle")

\* Offered for its first dispatch, or about to be.
Offered(k) ==
    \/ IsRunning(k) /\ works[k].execution = "assigned"
    \/ WaitingWork(k)
    \/ \E c \in Callers : At(c, k, "recover") /\ tasks[c][k].plan = "assigned"

OfferInv == \A k \in Works : Offered(k) => works[k].attempts = 0

USE DEF IsRunning, WaitingWork

\* A step that keeps the attempts, and offers nothing but what was offered.
LEMMA OffersKept ==
    ASSUME OfferInv, SameAttempts,
           \A k \in Works : Offered(k)' => Offered(k) \/ works[k].attempts = 0
    PROVE  OfferInv'
  BY DEF OfferInv, SameAttempts

\* What a task writes to the row of its work item.
LEMMA WriteOffers ==
    ASSUME TypeOK, NEW k \in Works, NEW u \in ExecutionUpdates, UpdateWorkExecution(k, u)
    PROVE  /\ works'[k].execution = u.execution
           /\ ~WaitingWork(k)'
           /\ \A j \in Works : j # k => works'[j] = works[j]
  <1>1. works[k] \in WorkRow /\ IsRunning(k)
      BY DEF TypeOK, UpdateWorkExecution
  <1>2. works' = [works EXCEPT ![k] =
                    [@ EXCEPT !.execution = u.execution,
                              !.attempts = works[k].attempts + IF u.increment THEN 1 ELSE 0,
                              !.dispatched = works[k].dispatched \/ u.mark]]
      BY Zenon DEF UpdateWorkExecution
  <1>3. works'[k].state = works[k].state
      BY <1>1, <1>2 DEF TypeOK, WorkRow
  <1> QED
      BY <1>1, <1>3, WriteMarks

\* The task's write changes the row in another way than to "assigned".
LEMMA OtherWriteOffers ==
    ASSUME OfferInv, DispatchInv, TypeOK, NEW c \in Callers, NEW k \in Works, TaskStep(c, k),
           NEW e \in {"waiting_agent", "reconnecting", "recovering", "stalled",
                      "dispatch_uncertain"},
           NEW m \in BOOLEAN, m => e = "waiting_agent",
           UpdateWorkExecution(k, Update(e, FALSE, m))
    PROVE  OfferInv'
  <1>1. SameAttempts
      BY PlainWrite
  <1>2. Update(e, FALSE, m) \in ExecutionUpdates /\ Update(e, FALSE, m).execution = e
      BY DEF ExecutionUpdates, Update
  <1>3. /\ works'[k].execution # "assigned" /\ ~WaitingWork(k)'
        /\ \A j \in Works : j # k => works'[j] = works[j]
      BY <1>2, WriteOffers
  <1>4. \A j \in Works : Offered(j)' => Offered(j)
      BY <1>3, TaskGoesOn DEF DispatchInv, Offered, At
  <1> QED
      BY <1>1, <1>4, OffersKept

LEMMA TaskOffers ==
    ASSUME OfferInv, DispatchInv, TypeOK, OneTaskPerWork,
           NEW c \in Callers, NEW k \in Works, TaskStep(c, k)
    PROVE  OfferInv'
  <1> USE UpdatesKnown DEF Write
  <1>0. /\ \A d \in Callers, j \in Works : d # c \/ j # k => tasks'[d][j] = tasks[d][j]
        /\ ~At(c, k, "recover")'
      BY TaskGoesOn DEF DispatchInv
  <1>1. CASE EnterDispatch(c, k) \/ SendPrompt(c, k) \/ NotYetBack(c, k) \/ Raise(c, k)
             \/ Degrade(c, k)
    <2>1. works' = works
        BY <1>1 DEF EnterDispatch, SendPrompt, NotYetBack, Raise, Degrade,
           MarkWorkerDegradedForWork, vars
    <2> QED
        BY <1>0, <2>1, OffersKept DEF SameAttempts, Offered, At
  <1>2. CASE RecordAttempt(c, k)
    <2>1. UpdateWorkExecution(k, Update("dispatching", TRUE, FALSE))
        BY <1>2 DEF RecordAttempt
    <2>2. Update("dispatching", TRUE, FALSE).execution = "dispatching"
        BY DEF Update
    <2>3. /\ works'[k].execution = "dispatching" /\ ~WaitingWork(k)'
          /\ \A j \in Works : j # k => works'[j] = works[j]
        BY <2>1, <2>2, WriteOffers
    <2>4. \A d \in Callers : d # c => At(d, k, "idle")
        BY <1>2 DEF OneTaskPerWork, RecordAttempt, At, Callers
    <2>5. ~Offered(k)'
        BY <1>0, <2>3, <2>4 DEF Offered, At
    <2>6. ASSUME NEW j \in Works, Offered(j)'
          PROVE  works'[j].attempts = 0
      <3>1. j # k
          BY <2>5, <2>6
      <3> QED
          BY <1>0, <2>3, <2>6, <3>1 DEF Offered, OfferInv, At
    <2> QED
        BY <2>6 DEF OfferInv
  <1>3. CASE TargetMissing(c, k)
      BY <1>3, OtherWriteOffers DEF TargetMissing
  <1>4. CASE ToolMissing(c, k)
      BY <1>4, OtherWriteOffers DEF ToolMissing
  <1>5. CASE PromptAccepted(c, k)
      BY <1>5, OtherWriteOffers DEF PromptAccepted
  <1>6. CASE PromptFailed(c, k)
      BY <1>6, OtherWriteOffers DEF PromptFailed
  <1>7. CASE PaneLost(c, k) \/ PaneObserved(c, k) \/ NoActivity(c, k) \/ RecoveryExhausted(c, k)
    <2>1. \E e \in {"waiting_agent", "reconnecting", "stalled"} :
             UpdateWorkExecution(k, Update(e, FALSE, FALSE))
        BY <1>7 DEF PaneLost, PaneObserved, NoActivity, RecoveryExhausted
    <2> QED
        BY <2>1, OtherWriteOffers
  <1>8. CASE Rebind(c, k)
    <2>1. /\ At(c, k, "recover")
          /\ tasks[c][k].plan \in {"assigned", "waiting_agent", "stalled"}
          /\ UpdateWorkExecution(k, Update(tasks[c][k].plan, FALSE, FALSE))
        BY <1>8 DEF Rebind, DispatchInv, TasksOK, RecoveryPlans
    <2>2. CASE tasks[c][k].plan # "assigned"
        BY <2>1, <2>2, OtherWriteOffers
    <2>3. CASE tasks[c][k].plan = "assigned"
      <3>1. UpdateWorkExecution(k, Update("assigned", FALSE, FALSE))
          BY <2>1, <2>3
      <3>2. SameAttempts
          BY <3>1, PlainWrite
      <3>3. \A j \in Works : j # k => works'[j] = works[j]
          BY <3>1, WriteOffers
      <3>4. Offered(k)
          BY <2>1, <2>3 DEF Offered
      <3>5. \A j \in Works : Offered(j)' => Offered(j)
          BY <1>0, <3>3, <3>4 DEF Offered, At
      <3> QED
          BY <3>2, <3>5, OffersKept
    <2> QED
        BY <2>2, <2>3
  <1>9. CASE Collect(c, k)
    <2>1. HistoryKept
      <3>1. WorkApi
          BY <1>9 DEF Collect, WorkApi
      <3> QED
          BY <3>1, HistoryOfQueue
    <2>2. ~IsRunning(k)' /\ ~WaitingWork(k)' /\ \A j \in Works : j # k => works'[j] = works[j]
      <3>1. Close(k, "completed")
          BY <1>9, Zenon DEF Collect, FinishWork
      <3> QED
          BY <3>1 DEF Close, TypeOK, WorkRow
    <2>3. \A j \in Works : Offered(j)' => Offered(j)
        BY <1>0, <2>2 DEF Offered, At
    <2> QED
        BY <2>1, <2>3, OffersKept DEF HistoryKept, SameAttempts
  <1> QED
      BY <1>1, <1>2, <1>3, <1>4, <1>5, <1>6, <1>7, <1>8, <1>9, Zenon
         DEF TaskStep, Dispatching, Supervising

LEMMA OfferPreserved ==
    ASSUME OfferInv, DispatchInv, TypeOK, OneTaskPerWork, [ExecNext]_execVars
    PROVE  OfferInv'
  <1>1. CASE UNCHANGED execVars
      BY <1>1 DEF execVars, OfferInv, Offered, At
  <1>2. CASE \E c \in Callers, k \in Works : TaskStep(c, k)
      BY <1>2, TaskOffers, Zenon
  <1>3. ASSUME HistoryKept,
               \A c \in Callers, k \in Works :
                  \/ tasks'[c][k] = tasks[c][k]
                  \/ Started(tasks'[c][k], k)
        PROVE  OfferInv'
    <2>1. ASSUME NEW k \in Works, Offered(k)'
          PROVE  Offered(k) \/ works[k].attempts = 0
      <3>1. CASE IsRunning(k)' /\ works'[k].execution = "assigned"
          BY <1>3, <3>1 DEF HistoryKept, Offered
      <3>2. CASE WaitingWork(k)'
          BY <1>3, <3>2 DEF HistoryKept, Offered
      <3>3. CASE \E c \in Callers : At(c, k, "recover")' /\ tasks'[c][k].plan = "assigned"
          BY <1>3, <3>3 DEF Offered, Started, At, RecoveryPlan
      <3> QED
          BY <2>1, <3>1, <3>2, <3>3 DEF Offered
    <2> QED
        BY <1>3, <2>1, OffersKept DEF HistoryKept, SameAttempts
  <1>4. CASE Operator
    <2>1. works' = works
        BY <1>4 DEF Operator, OperatorDispatch, OperatorRetry, OperatorRecover, vars
    <2>2. HistoryKept
        BY <2>1 DEF HistoryKept
    <2> QED
        BY <1>3, <1>4, <2>2, StartsAreStarted DEF DispatchInv
  <1>5. CASE Tick \/ Crash
    <2>1. HistoryKept
        BY <1>5, HistoryOfQueue DEF Tick, Crash, Background
    <2> QED
        BY <1>3, <1>5, <2>1, StartsAreStarted DEF DispatchInv
  <1>6. CASE Elsewhere
      BY <1>3, <1>6, HistoryOfQueue DEF Elsewhere
  <1> QED
      BY <1>1, <1>2, <1>4, <1>5, <1>6 DEF ExecNext

\* Recovery offers work for a first dispatch only if there was none, as long as the
\* supervisor and operators' calls do not work on one item together: the finding of run
\* stale_recovery takes two tasks, and a crash or a cancellation alone does not do it.
THEOREM StaleRecoveryNeedsTwoTasks ==
    ExecSpec /\ []OneTaskPerWork => []AssignedBeforeFirstDispatch
  <1>1. ExecInit => OfferInv
    <2>1. ExecInit => \A k \in Works : works[k].attempts = 0
        BY DEF ExecInit, Init, NewWork
    <2> QED
        BY <2>1 DEF OfferInv
  <1>2. OfferInv /\ DispatchInv /\ QueueInv /\ OneTaskPerWork /\ [ExecNext]_execVars => OfferInv'
      BY OfferPreserved DEF QueueInv
  <1>3. OfferInv => AssignedBeforeFirstDispatch
      BY DEF OfferInv, Offered, AssignedBeforeFirstDispatch
  <1> QED
      BY <1>1, <1>2, <1>3, TasksAreInvariant, PTL DEF ExecSpec

=============================================================================
