------------------------------ MODULE Execution ------------------------------
(***************************************************************************)
(* The execution supervisor of MCP Studio (mcp_studio/execution.py) on top *)
(* of the work queue: who sends the instruction of a work item to its      *)
(* Herdr agent, when, and what is recorded about it.                       *)
(*                                                                         *)
(* A database operation is atomic, a method of the supervisor is not: it   *)
(* reads a row, awaits, and writes what it concluded from the row it read. *)
(* A task is one such method in progress: `at` is the step it will take    *)
(* next, `plan` what it concluded from the row.  The supervisor's tick     *)
(* runs one task per work item, and each of an operator's calls (HTTP API) *)
(* that are under way at once another one.                                 *)
(* Only dispatch() takes the per-work lock; monitoring and recovery do     *)
(* not.  Tasks and locks live in memory and end with the process; the      *)
(* tables, and the prompts already sent, do not.                           *)
(*                                                                         *)
(* Herdr is the environment: at every step it may be down, a pane may be   *)
(* missing or back, a call may be answered, refused or time out.           *)
(* resilience_test_mode (fault injection) is taken to be off.              *)
(***************************************************************************)
EXTENDS WorkQueue

CONSTANTS
    AutomaticDispatch,   \* settings.studio.execution_enabled
    MaxRecoveries,       \* settings.studio.execution_max_recoveries
    Operators            \* calls of the API that may work on one work item at once

ASSUME SettingsAssumption ==
    /\ AutomaticDispatch \in BOOLEAN /\ MaxRecoveries \in Nat
    /\ IsFiniteSet(Operators) /\ "supervisor" \notin Operators

VARIABLES
    tasks,        \* the task of a caller on a work item
    recoveries,   \* column recovery_count
    prompts       \* how often the instruction was sent to the agent

execVars == <<workers, works, leases, tasks, recoveries, prompts>>

Callers == {"supervisor"} \cup Operators

\* The steps of dispatch() between which it holds the per-work lock.
LockedSteps == {"checked", "recorded", "sent", "degrade"}

Steps == {"idle", "enter", "monitor", "collect", "stall", "recover", "flag"}
         \cup LockedSteps

Plans == {"none", "first", "retry", "exhausted", "assigned", "waiting_agent", "stalled"}

Task(at, plan) == [at |-> at, plan |-> plan]

Idle == Task("idle", "none")

At(c, k, step) == tasks[c][k].at = step

Locked(k) == \E c \in Callers : tasks[c][k].at \in LockedSteps

GoTo(c, k, step) == tasks' = [tasks EXCEPT ![c][k] = Task(step, "none")]

\* A dispatch under way remembers whether it may send a second prompt.
Proceed(c, k, step) == tasks' = [tasks EXCEPT ![c][k] = Task(step, tasks[c][k].plan)]

Return(c, k) == tasks' = [tasks EXCEPT ![c][k] = Idle]

ExecInit ==
    /\ Init
    /\ tasks = [c \in Callers |-> [k \in Works |-> Idle]]
    /\ recoveries = [k \in Works |-> 0]
    /\ prompts = [k \in Works |-> 0]

-----------------------------------------------------------------------------
(* Starting a task *)

\* Mutant: off by one.
RecoveryPlanOnceMore(k) ==
    IF recoveries[k] > MaxRecoveries THEN "exhausted"
    ELSE IF works[k].dispatched THEN "waiting_agent"
    ELSE IF works[k].attempts = 0 THEN "assigned"
    ELSE "stalled"

\* Mutant: an attempt is taken for a delivery.
RecoveryPlanTrusting(k) ==
    IF recoveries[k] >= MaxRecoveries THEN "exhausted"
    ELSE IF works[k].attempts > 0 THEN "waiting_agent"
    ELSE "assigned"

\* What _recover decides from the row it is given.
RecoveryPlan(k) ==
    IF recoveries[k] >= MaxRecoveries THEN "exhausted"
    ELSE IF works[k].dispatched THEN "waiting_agent"
    ELSE IF works[k].attempts = 0 THEN "assigned"
    ELSE "stalled"

\* Mutant: work that is "recovering" is forgotten.
TaskForAllButRecovering(k) ==
    IF ~IsRunning(k) \/ DispatchModeOf[k] # "herdr" THEN Idle
    ELSE CASE works[k].execution \in {"none", "assigned"} ->
                  IF AutomaticDispatch THEN Task("enter", "first") ELSE Idle
           [] works[k].execution = "waiting_agent" -> Task("monitor", "none")
           [] works[k].execution = "reconnecting" -> Task("recover", RecoveryPlan(k))
           [] OTHER -> Idle

\* Mutant: a dispatch on record is taken for one that was accepted.
TaskForMonitoringDispatches(k) ==
    IF ~IsRunning(k) \/ DispatchModeOf[k] # "herdr" THEN Idle
    ELSE CASE works[k].execution \in {"none", "assigned"} ->
                  IF AutomaticDispatch THEN Task("enter", "first") ELSE Idle
           [] works[k].execution \in {"dispatching", "waiting_agent"} -> Task("monitor", "none")
           [] works[k].execution \in {"reconnecting", "recovering"} ->
                  Task("recover", RecoveryPlan(k))
           [] OTHER -> Idle

\* What _process_one decides from the row the tick has read.
TaskFor(k) ==
    IF ~IsRunning(k) \/ DispatchModeOf[k] # "herdr" THEN Idle
    ELSE CASE works[k].execution \in {"none", "assigned"} ->
                  IF AutomaticDispatch THEN Task("enter", "first") ELSE Idle
           [] works[k].execution = "waiting_agent" -> Task("monitor", "none")
           [] works[k].execution \in {"reconnecting", "recovering"} ->
                  Task("recover", RecoveryPlan(k))
           [] OTHER -> Idle

\* run_once: one tick at a time; it beats for the busy workers, then reads the
\* running work.  (The scheduler beats at any time, so nothing is lost by
\* making the two one step.)
Tick ==
    /\ \A k \in Works : At("supervisor", k, "idle")
    /\ HeartbeatRunningWork
    /\ tasks' = [tasks EXCEPT !["supervisor"] = [k \in Works |-> TaskFor(k)]]
    /\ UNCHANGED <<recoveries, prompts>>

\* POST /api/work/{id}/dispatch and dispatch-batch.
OperatorDispatch(o, k) ==
    /\ At(o, k, "idle")
    /\ tasks' = [tasks EXCEPT ![o][k] = Task("enter", "first")]
    /\ UNCHANGED <<vars, recoveries, prompts>>

\* retry_dispatch: the acknowledgement is judged before the lock is taken.
OperatorRetry(o, k, acknowledged) ==
    /\ At(o, k, "idle")
    /\ works[k].execution = "dispatch_uncertain" => acknowledged
    /\ tasks' = [tasks EXCEPT ![o][k] = Task("enter", "retry")]
    /\ UNCHANGED <<vars, recoveries, prompts>>

\* recover_work: _recover without a look at the execution state.
OperatorRecover(o, k) ==
    /\ At(o, k, "idle")
    /\ works[k].state # "absent"
    /\ tasks' = [tasks EXCEPT ![o][k] = Task("recover", RecoveryPlan(k))]
    /\ UNCHANGED <<vars, recoveries, prompts>>

-----------------------------------------------------------------------------
(* dispatch() *)

\* update_work_execution, called by a task; it raises when the work is over.
Write(k, u) == UpdateWorkExecution(k, u) /\ UNCHANGED <<recoveries, prompts>>

\* Mutant: earlier attempts are not looked at.
MayDispatchAgain(c, k) == IsRunning(k) /\ DispatchModeOf[k] = "herdr"

MayDispatch(c, k) ==
    /\ IsRunning(k)
    /\ DispatchModeOf[k] = "herdr"
    /\ works[k].attempts > 0 => tasks[c][k].plan = "retry"

EnterDispatch(c, k) ==
    /\ At(c, k, "enter")
    /\ ~Locked(k)
    /\ IF MayDispatch(c, k) THEN Proceed(c, k, "checked") ELSE Return(c, k)
    /\ UNCHANGED <<vars, recoveries, prompts>>

\* Herdr is down or the pane is not discoverable.
TargetMissing(c, k) ==
    /\ At(c, k, "checked")
    /\ Write(k, Update("reconnecting", FALSE, FALSE))
    /\ GoTo(c, k, "degrade")

ToolMissing(c, k) ==
    /\ At(c, k, "checked")
    /\ Write(k, Update("stalled", FALSE, FALSE))
    /\ Return(c, k)

\* Mutant: the attempt is not counted until the agent accepts.
RecordNothing(c, k) ==
    /\ At(c, k, "checked")
    /\ Write(k, Update("dispatching", FALSE, FALSE))
    /\ Proceed(c, k, "recorded")

\* The attempt is on disk before the prompt is on the wire.
RecordAttempt(c, k) ==
    /\ At(c, k, "checked")
    /\ Write(k, Update("dispatching", TRUE, FALSE))
    /\ Proceed(c, k, "recorded")

SendPrompt(c, k) ==
    /\ At(c, k, "recorded")
    /\ prompts' = [prompts EXCEPT ![k] = @ + 1]
    /\ Proceed(c, k, "sent")
    /\ UNCHANGED <<vars, recoveries>>

PromptAccepted(c, k) ==
    /\ At(c, k, "sent")
    /\ Write(k, Update("waiting_agent", FALSE, TRUE))
    /\ Return(c, k)

\* No connection, an error, or a timeout, which says nothing about delivery.
PromptFailed(c, k) ==
    /\ At(c, k, "recorded") \/ At(c, k, "sent")
    /\ \E state \in {"recovering", "dispatch_uncertain"} :
           Write(k, Update(state, FALSE, FALSE))
    /\ GoTo(c, k, "degrade")

-----------------------------------------------------------------------------
(* Supervision of dispatched work, and recovery *)

PaneLost(c, k) ==
    /\ At(c, k, "monitor")
    /\ Write(k, Update("reconnecting", FALSE, FALSE))
    /\ GoTo(c, k, "flag")

\* The pane is there; what it shows decides whether the work is done, has
\* shown no activity for too long, or goes on.
PaneObserved(c, k) ==
    /\ At(c, k, "monitor")
    /\ Write(k, Update("waiting_agent", FALSE, FALSE))
    /\ \E step \in {"idle", "collect", "stall"} : GoTo(c, k, step)

\* Mutant: the row is closed without finish_work, the worker stays behind.
CollectRowOnly(c, k) ==
    /\ At(c, k, "collect")
    /\ IsRunning(k)
    /\ Close(k, "completed")
    /\ Return(c, k)
    /\ UNCHANGED <<workers, leases, recoveries, prompts>>

Collect(c, k) ==
    /\ At(c, k, "collect")
    /\ FinishWork(k, "completed")
    /\ Return(c, k)
    /\ UNCHANGED <<recoveries, prompts>>

NoActivity(c, k) ==
    /\ At(c, k, "stall")
    /\ Write(k, Update("stalled", FALSE, FALSE))
    /\ GoTo(c, k, "flag")

RecoveryExhausted(c, k) ==
    /\ tasks[c][k] = Task("recover", "exhausted")
    /\ Write(k, Update("stalled", FALSE, FALSE))
    /\ GoTo(c, k, "flag")

\* The pane is back: bind the work to it again, never prompt it again.
Rebind(c, k) ==
    /\ At(c, k, "recover")
    /\ tasks[c][k].plan # "exhausted"
    /\ UpdateWorkExecution(k, Update(tasks[c][k].plan, FALSE, FALSE))
    /\ recoveries' = [recoveries EXCEPT ![k] = @ + 1]
    /\ Return(c, k)
    /\ UNCHANGED prompts

\* Herdr is still down or the pane still missing.
NotYetBack(c, k) ==
    /\ At(c, k, "recover")
    /\ tasks[c][k].plan # "exhausted"
    /\ Return(c, k)
    /\ UNCHANGED <<vars, recoveries, prompts>>

Degrade(c, k) ==
    /\ At(c, k, "degrade") \/ At(c, k, "flag")
    /\ MarkWorkerDegradedForWork(k)
    /\ Return(c, k)
    /\ UNCHANGED <<recoveries, prompts>>

\* Mutant: the lock is not released when a write raises after the prompt.
RaiseHoldingLock(c, k) ==
    /\ \/ At(c, k, "checked")
       \/ /\ tasks[c][k].at \in {"monitor", "collect", "stall", "recover"}
          /\ ~IsRunning(k)
    /\ Return(c, k)
    /\ UNCHANGED <<vars, recoveries, prompts>>

\* A write to work that is not running any more raises and ends the task; so
\* does a prompt tool whose schema the arguments do not fit.
Raise(c, k) ==
    /\ \/ At(c, k, "checked")
       \/ /\ tasks[c][k].at \in {"recorded", "sent", "monitor", "collect", "stall", "recover"}
          /\ ~IsRunning(k)
    /\ Return(c, k)
    /\ UNCHANGED <<vars, recoveries, prompts>>

-----------------------------------------------------------------------------
(* Specification *)

Dispatching(c, k) ==
    \/ EnterDispatch(c, k)
    \/ TargetMissing(c, k)
    \/ ToolMissing(c, k)
    \/ RecordAttempt(c, k)
    \/ SendPrompt(c, k)
    \/ PromptAccepted(c, k)
    \/ PromptFailed(c, k)

Supervising(c, k) ==
    \/ PaneLost(c, k)
    \/ PaneObserved(c, k)
    \/ Collect(c, k)
    \/ NoActivity(c, k)
    \/ RecoveryExhausted(c, k)
    \/ Rebind(c, k)
    \/ NotYetBack(c, k)

TaskStep(c, k) ==
    \/ Dispatching(c, k)
    \/ Supervising(c, k)
    \/ Degrade(c, k)
    \/ Raise(c, k)

Operator ==
    \E o \in Operators, k \in Works :
        \/ OperatorDispatch(o, k)
        \/ \E acknowledged \in BOOLEAN : OperatorRetry(o, k, acknowledged)
        \/ OperatorRecover(o, k)

\* The rest of the program, which knows nothing of tasks.
Elsewhere ==
    /\ Submission \/ Assignment \/ WorkerApi \/ WorkApi \/ Background \/ Clock
    /\ UNCHANGED <<tasks, recoveries, prompts>>

\* The process ends, orderly or not, at any step of any task, and starts again.
Crash ==
    /\ Restart
    /\ tasks' = [c \in Callers |-> [k \in Works |-> Idle]]
    /\ UNCHANGED <<recoveries, prompts>>

ExecNext ==
    \/ Tick
    \/ Operator
    \/ \E c \in Callers, k \in Works : TaskStep(c, k)
    \/ Elsewhere
    \/ Crash

ExecSpec == ExecInit /\ [][ExecNext]_execVars

\* A started task goes on (every await of it is bounded by a timeout) and the
\* program does not crash each time just before it would; the per-work lock is
\* first come first served; the two loops repeat whatever an iteration raises;
\* time passes.
ExecFairness ==
    /\ WF_execVars(Tick)
    /\ \A c \in Callers, k \in Works :
           SF_execVars(TaskStep(c, k)) /\ SF_execVars(EnterDispatch(c, k))
    /\ WF_execVars(ReconcileOperations /\ UNCHANGED <<tasks, recoveries, prompts>>)
    /\ \A k \in Works :
           WF_execVars(CancelGraceElapses(k) /\ UNCHANGED <<tasks, recoveries, prompts>>)

FairExecSpec == ExecSpec /\ ExecFairness

\* A lost pane is back in view of the supervisor sooner or later.
PanesComeBack == \A k \in Works : SF_execVars(Rebind("supervisor", k))

FairPanesSpec == FairExecSpec /\ PanesComeBack

\* A cancellation is not requested anew each time the first one is about to be
\* settled (a new request starts the grace period again).
CancelSettlingSpec ==
    /\ FairExecSpec
    /\ SF_execVars(ReconcileOperations /\ UNCHANGED <<tasks, recoveries, prompts>>)
    /\ \A k \in Works :
           SF_execVars(CancelGraceElapses(k) /\ UNCHANGED <<tasks, recoveries, prompts>>)

-----------------------------------------------------------------------------
(* Safety *)

ExecTypeOK ==
    /\ TypeOK
    /\ tasks \in [Callers -> [Works -> [at : Steps, plan : Plans]]]
    /\ recoveries \in [Works -> 0 .. MaxRecoveries + Cardinality(Operators)]
    /\ prompts \in [Works -> 0 .. MaxAttempts]

\* What crosses the wire is on disk first: there are never more prompts than
\* recorded attempts, and an attempt being made is one of the recorded ones.
\* This is what keeps the attempt counter a sound guard across a crash.
AttemptsCoverPrompts ==
    \A k \in Works :
        prompts[k] + Cardinality({c \in Callers : At(c, k, "recorded")}) <= works[k].attempts

\* Work that is reported as cancelled never had its instruction sent, not even
\* by a dispatch that had checked the row before the cancellation.
CancelledNeverPrompted ==
    \A k \in Works : works[k].state = "cancelled" =>
        /\ prompts[k] = 0
        /\ \A c \in Callers : tasks[c][k].at \notin {"recorded", "sent"}

\* Work waits for an agent only if the agent was prompted and accepted, and the
\* dispatched flag on disk is never ahead of the prompt; so monitoring never
\* completes work that nobody was told to do.
WaitingWasPrompted ==
    \A k \in Works :
        /\ works[k].dispatched => prompts[k] > 0
        /\ (works[k].execution = "waiting_agent" \/ \E c \in Callers : At(c, k, "collect"))
               => works[k].dispatched

-----------------------------------------------------------------------------
(* What a step may never do *)

Sends(c, k) == At(c, k, "recorded") /\ prompts'[k] = prompts[k] + 1

\* "Never automatically re-sends a prompt after an ambiguous dispatch": only an
\* operator's retry may prompt an agent a second time, whatever crashes,
\* restarts, recoveries and concurrent dispatches came in between.
NoAutomaticResend ==
    [][\A k \in Works : prompts'[k] # prompts[k] =>
          \E c \in Callers : Sends(c, k) /\ (prompts[k] > 0 => tasks[c][k].plan = "retry")]_execVars

\* Work at which a dispatch was cut off by a crash, timed out or got nowhere, and on
\* which nobody works any more.
Parked(k) ==
    /\ IsRunning(k)
    /\ works[k].execution \in {"dispatching", "dispatch_uncertain", "stalled"}
    /\ \A c \in Callers : At(c, k, "idle")

\* Whether the agent got such work is not known, so the program itself never takes it
\* up again: through ticks and restarts it stays as it is, until an operator
\* dispatches or recovers it, asks for its cancellation, or it ends by the API or
\* with its worker.
ParkedWorkWaitsForOperator ==
    [][\A k \in Works : Parked(k) =>
          \/ Parked(k)' /\ works'[k].execution = works[k].execution
          \/ \E o \in Operators : ~At(o, k, "idle")'
          \/ works'[k].execution = "cancel_pending"
          \/ ~IsRunning(k)']_execVars

\* Every step of the supervisor is, to the tables, a step of the work queue:
\* what holds of WorkQueue holds under the supervisor.
ImplementsWorkQueue == Spec

-----------------------------------------------------------------------------
(* Liveness *)

\* No dispatch holds the lock of its work item for good.
DispatchesEnd == \A k \in Works : []<>~Locked(k)

Recovering(k) ==
    IsRunning(k) /\ DispatchModeOf[k] = "herdr"
        /\ works[k].execution \in {"reconnecting", "recovering"}

\* Work that lost its target does not reconnect for ever once panes come back:
\* it is resumed, offered again, given up as stalled, or ended.
RecoveryEnds == \A k \in Works : Recovering(k) ~> ~Recovering(k)

Orphaned(k) == IsRunning(k) /\ workers[works[k].worker].state = "dead"

\* Work whose worker was declared dead does not stay with it: the reconciler
\* detaches it, or the supervisor revives the worker.
OrphanedWorkIsSettled == \A k \in Works : Orphaned(k) ~> ~Orphaned(k)

-----------------------------------------------------------------------------
(* What the documentation says and the code does not do *)

\* "Degraded workers retain their lock while a running work row still owns the
\* workspace.  This is the fencing rule that prevents reconnect/recovery from
\* opening a second writer" (ARCHITECTURE.md).
Active(k) ==
    IsRunning(k) /\ LeaseModeOf[k] = "write"
        /\ workers[works[k].worker].state \in {"busy", "degraded"}

NoSecondWriter ==
    \A k1, k2 \in Works :
        (Active(k1) /\ Active(k2) /\ WorkspaceOf[k1] = WorkspaceOf[k2]) => k1 = k2

\* "Cancel-pending items eventually detach" (comment of reconcile_operations).
CancelPendingSettles ==
    \A k \in Works :
        (IsRunning(k) /\ works[k].execution = "cancel_pending") ~> ~IsRunning(k)

\* "target recovered before first dispatch": recovery offers work for its first
\* dispatch (assigned) only while there was none.
AssignedBeforeFirstDispatch ==
    \A k \in Works :
        (IsRunning(k) /\ works[k].execution = "assigned") => works[k].attempts = 0

=============================================================================
