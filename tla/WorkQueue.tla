----------------------------- MODULE WorkQueue -----------------------------
(***************************************************************************)
(* The persistent work queue of MCP Studio: the tables `workers`,          *)
(* `work_items` and `workspace_leases` of mcp_studio/db.py and every       *)
(* operation of class Database that writes them.                           *)
(*                                                                         *)
(* Database._run takes one asyncio lock and runs each operation inside one *)
(* sqlite transaction, so an operation is one atomic step here; what       *)
(* happens between two operations of one caller is in the modules that     *)
(* compose this one.  The callers are the HTTP API, the scheduler, the     *)
(* worker monitor, the operations reconciler and the execution supervisor. *)
(* This module lets any of them call at any time, so what is shown here    *)
(* does not depend on their discipline.                                    *)
(*                                                                         *)
(* Abstractions.  A row is a record of the columns that a condition of the *)
(* code reads; labels, panes, sessions, timestamps of the UI and results   *)
(* are left out.  The fields that create_work fixes for good (workspace,   *)
(* lease mode, dispatch mode) are constants of the work item.  Time is     *)
(* two flags: `fresh` (the last heartbeat is within                        *)
(* worker_heartbeat_timeout_seconds) and `due` (the cancellation request   *)
(* is older than cancel_pending_detach_seconds).                           *)
(***************************************************************************)
EXTENDS Integers, FiniteSets

CONSTANTS
    Workers,          \* ids of the logical workers, "worker-1" ...
    Works,            \* ids of the work items that may be submitted
    Workspaces,       \* normalised workspace paths
    WorkspaceOf,      \* the workspace a work item is submitted for
    LeaseModeOf,      \* its lease mode: "write" or "none"
    DispatchModeOf,   \* its dispatch mode: "herdr" or "manual"
    NoWorker, NoWork, NoWorkspace,   \* SQL NULL
    Pools,            \* the worker pools that a start may configure (max_workers)
    ManualWorkers,    \* the workers that are also driven by hand, through the API
    MaxAttempts       \* bound on the dispatch attempts of one work item

ASSUME NullAssumption ==
    /\ NoWorker \notin Workers
    /\ NoWork \notin Works
    /\ NoWorkspace \notin Workspaces

ASSUME SubmissionAssumption ==
    /\ WorkspaceOf \in [Works -> Workspaces]
    /\ LeaseModeOf \in [Works -> {"none", "write"}]
    /\ DispatchModeOf \in [Works -> {"manual", "herdr"}]

ASSUME BoundAssumption == MaxAttempts \in Nat

ASSUME PoolAssumption == Pools \subseteq SUBSET Workers /\ ManualWorkers \subseteq Workers

VARIABLES
    workers,    \* table workers
    works,      \* table work_items
    leases      \* table workspace_leases, keyed by workspace

vars == <<workers, works, leases>>

-----------------------------------------------------------------------------
(* Row types *)

WorkerStates == {"idle", "busy", "degraded", "dead"}
LeaseModes == {"none", "write"}
WorkStates == {"absent", "queued", "running",
               "completed", "failed", "cancelled", "detached"}
ExecutionStates ==
    {"none", "assigned", "dispatching", "waiting_agent", "reconnecting",
     "recovering", "stalled", "dispatch_uncertain", "cancel_pending",
     "completed", "failed", "cancelled", "detached"}

WorkerRow == [state : WorkerStates,
              workspace : Workspaces \cup {NoWorkspace},
              leaseMode : LeaseModes,
              enabled : BOOLEAN,
              fresh : BOOLEAN]

WorkRow == [state : WorkStates,
            execution : ExecutionStates,
            worker : Workers \cup {NoWorker},
            attempts : 0 .. MaxAttempts,
            dispatched : BOOLEAN,
            due : BOOLEAN]

LeaseRow == [worker : Workers \cup {NoWorker}, work : Works \cup {NoWork}]

NoLease == [worker |-> NoWorker, work |-> NoWork]

\* A worker row as ensure_workers inserts it: idle, unbound, no heartbeat.
NewWorker == [state |-> "idle", workspace |-> NoWorkspace,
              leaseMode |-> "none", enabled |-> TRUE, fresh |-> FALSE]

\* A work item that has not been submitted; `absent` stands for "no row".
NewWork == [state |-> "absent", execution |-> "none", worker |-> NoWorker,
            attempts |-> 0, dispatched |-> FALSE, due |-> FALSE]

-----------------------------------------------------------------------------
(* What the operations read and write in common *)

IsRunning(k) == works[k].state = "running"

\* SELECT id FROM work_items WHERE worker_id=? AND state='running'
RunningOn(w) == {k \in Works : IsRunning(k) /\ works[k].worker = w}

\* Mutant: the parameters of the UPDATE in the wrong order.
UnboundMixedUp(row) == [row EXCEPT !.state = "idle",
                                   !.workspace = "none",
                                   !.leaseMode = NoWorkspace,
                                   !.fresh = FALSE]

\* The UPDATE that unbinds a worker and puts it back into the pool.
Unbound(row) == [row EXCEPT !.state = "idle",
                            !.workspace = NoWorkspace,
                            !.leaseMode = "none",
                            !.fresh = FALSE]

\* DELETE FROM workspace_leases WHERE worker_id IN S
LeasesWithout(S) ==
    [s \in Workspaces |-> IF leases[s].worker \in S THEN NoLease ELSE leases[s]]

\* Mutant: the upsert takes the workspace from whoever holds it.
MayLeaseFromAnybody(w, s) == TRUE

\* The lease check: nobody else holds the workspace (else LeaseConflict).
MayLease(w, s) == leases[s].worker \in {NoWorker, w}

\* INSERT ... ON CONFLICT(workspace) DO UPDATE
LeasesWith(s, w, k) == [leases EXCEPT ![s] = [worker |-> w, work |-> k]]

\* Put the worker of work item k, if it has one, back into the pool.
ReturnWorkerOf(k) ==
    /\ leases' = LeasesWithout({works[k].worker} \ {NoWorker})
    /\ workers' = [w \in Workers |-> IF w = works[k].worker
                                     THEN Unbound(workers[w])
                                     ELSE workers[w]]

Close(k, state) ==
    works' = [works EXCEPT ![k] = [@ EXCEPT !.state = state, !.execution = state]]

Init ==
    /\ workers = [w \in Workers |-> NewWorker]
    /\ works = [k \in Works |-> NewWork]
    /\ leases = [s \in Workspaces |-> NoLease]

-----------------------------------------------------------------------------
(* The worker pool *)

\* WorkerManager.start: the configured pool is `pool` (the first max_workers
\* ordinals; which ones is irrelevant, ordinals are interchangeable here).
EnsureWorkers(pool) ==
    /\ workers' = [w \in Workers |-> [workers[w] EXCEPT !.enabled = (w \in pool)]]
    /\ UNCHANGED <<works, leases>>

BindWorker(w, s, mode) ==
    /\ workers[w].enabled
    /\ workers[w].state \notin {"busy", "degraded"}
    /\ RunningOn(w) = {}
    /\ leases' = LeasesWithout({w})
    /\ workers' = [workers EXCEPT ![w] = [@ EXCEPT !.state = "idle",
                                                   !.workspace = s,
                                                   !.leaseMode = mode,
                                                   !.fresh = TRUE]]
    /\ UNCHANGED works

ReleaseWorker(w) ==
    /\ workers[w].enabled
    /\ RunningOn(w) = {}
    /\ leases' = LeasesWithout({w})
    /\ workers' = [workers EXCEPT ![w] = Unbound(@)]
    /\ UNCHANGED works

\* Mutant: a worker may be declared idle or dead under its running work.
MayEnterAnyState(w, state) ==
    /\ workers[w].enabled
    /\ state = "busy" => workers[w].workspace # NoWorkspace

\* The guards heartbeat_worker and set_worker_state share.
MayEnter(w, state) ==
    /\ workers[w].enabled
    /\ state = "busy" => workers[w].workspace # NoWorkspace
    /\ state \in {"idle", "dead"} => RunningOn(w) = {}

\* Their write to the worker row: death also withdraws the lease intent.
EnterState(w, state) ==
    workers' = [workers EXCEPT ![w] =
                  [@ EXCEPT !.state = state,
                            !.leaseMode = IF state = "dead" THEN "none"
                                          ELSE workers[w].leaseMode,
                            !.fresh = TRUE]]

\* Mutant: no look at who holds the workspace.
ClaimFromAnybody(w) == leases' = LeasesWith(workers[w].workspace, w, NoWork)

\* Acquire the worker's workspace for itself; the upsert stores work_id NULL.
ClaimOwnWorkspace(w) ==
    /\ MayLease(w, workers[w].workspace)
    /\ leases' = LeasesWith(workers[w].workspace, w, NoWork)

\* Mutant: a degraded worker gives its lease up.
HeartbeatReleasesDegraded(w, state) ==
    /\ MayEnter(w, state)
    /\ \/ /\ state \in {"idle", "dead", "degraded"}
          /\ leases' = LeasesWithout({w})
       \/ /\ state = "busy"
          /\ workers[w].leaseMode = "write"
          /\ ClaimOwnWorkspace(w)
       \/ /\ state = "busy"
          /\ workers[w].leaseMode # "write"
          /\ UNCHANGED leases
    /\ EnterState(w, state)
    /\ UNCHANGED works

\* heartbeat_worker; a heartbeat without a state keeps the one of the row.
HeartbeatWorker(w, state) ==
    /\ MayEnter(w, state)
    /\ \/ /\ state \in {"idle", "dead"}
          /\ leases' = LeasesWithout({w})
       \/ /\ state \in {"busy", "degraded"}
          /\ workers[w].workspace # NoWorkspace
          /\ workers[w].leaseMode = "write"
          /\ ClaimOwnWorkspace(w)
       \/ /\ state \in {"busy", "degraded"}
          /\ workers[w].workspace = NoWorkspace \/ workers[w].leaseMode # "write"
          /\ UNCHANGED leases
    /\ EnterState(w, state)
    /\ UNCHANGED works

\* set_worker_state; unlike a heartbeat, "degraded" leaves the leases alone.
SetWorkerState(w, state) ==
    /\ MayEnter(w, state)
    /\ \/ /\ state \in {"idle", "dead"}
          /\ leases' = LeasesWithout({w})
       \/ /\ state = "busy"
          /\ workers[w].leaseMode = "write"
          /\ ClaimOwnWorkspace(w)
       \/ /\ state = "degraded" \/ (state = "busy" /\ workers[w].leaseMode # "write")
          /\ UNCHANGED leases
    /\ EnterState(w, state)
    /\ UNCHANGED works

\* No heartbeat for worker_heartbeat_timeout_seconds.  Every way into "busy"
\* refreshes the heartbeat and only busy workers are judged by it.
HeartbeatExpires(w) ==
    /\ workers[w].state = "busy"
    /\ workers[w].fresh
    /\ workers' = [workers EXCEPT ![w].fresh = FALSE]
    /\ UNCHANGED <<works, leases>>

\* Mutant: dead workers keep their leases.
MarkStaleKeepingLeases ==
    LET stale == {w \in Workers : /\ workers[w].enabled
                                  /\ workers[w].state = "busy"
                                  /\ ~workers[w].fresh}
    IN  /\ stale # {}
        /\ workers' = [w \in Workers |->
                          IF w \in stale
                          THEN [workers[w] EXCEPT !.state = "dead", !.leaseMode = "none"]
                          ELSE workers[w]]
        /\ UNCHANGED <<works, leases>>

\* The worker monitor: every enabled busy worker without a fresh heartbeat
\* loses its leases and is dead.  Its running work is not touched.
MarkStaleBusyWorkers ==
    LET stale == {w \in Workers : /\ workers[w].enabled
                                  /\ workers[w].state = "busy"
                                  /\ ~workers[w].fresh}
    IN  /\ stale # {}
        /\ leases' = LeasesWithout(stale)
        /\ workers' = [w \in Workers |->
                          IF w \in stale
                          THEN [workers[w] EXCEPT !.state = "dead", !.leaseMode = "none"]
                          ELSE workers[w]]
        /\ UNCHANGED works

-----------------------------------------------------------------------------
(* Work items *)

CreateWork(k) ==
    /\ works[k].state = "absent"
    /\ works' = [works EXCEPT ![k].state = "queued"]
    /\ UNCHANGED <<workers, leases>>

AssignWork(k, w) ==
    /\ works[k].state = "queued"
    /\ workers[w].enabled
    /\ workers[w].state = "idle"
    /\ workers[w].workspace = NoWorkspace
    /\ \/ /\ LeaseModeOf[k] = "write"
          /\ MayLease(w, WorkspaceOf[k])
          /\ leases' = LeasesWith(WorkspaceOf[k], w, k)
       \/ /\ LeaseModeOf[k] # "write"
          /\ UNCHANGED leases
    /\ workers' = [workers EXCEPT ![w] = [@ EXCEPT !.state = "busy",
                                                   !.workspace = WorkspaceOf[k],
                                                   !.leaseMode = LeaseModeOf[k],
                                                   !.fresh = TRUE]]
    /\ works' = [works EXCEPT ![k] =
                    [@ EXCEPT !.state = "running",
                              !.worker = w,
                              !.execution = IF DispatchModeOf[k] = "herdr"
                                            THEN "assigned" ELSE "none"]]

\* Both supervisors beat for the enabled busy workers of running work.
HeartbeatRunningWork ==
    /\ workers' = [w \in Workers |->
                      IF workers[w].enabled /\ workers[w].state = "busy" /\ RunningOn(w) # {}
                      THEN [workers[w] EXCEPT !.fresh = TRUE]
                      ELSE workers[w]]
    /\ UNCHANGED <<works, leases>>

FinishWork(k, outcome) ==
    /\ IsRunning(k)
    /\ ReturnWorkerOf(k)
    /\ Close(k, outcome)

\* The execution states in which a prompt may already be upstream.
UncertainStates ==
    {"dispatching", "waiting_agent", "reconnecting", "recovering", "stalled",
     "dispatch_uncertain", "cancel_pending"}

\* Mutant: the execution state alone tells whether a prompt may be upstream.
UpstreamByState(k) == works[k].execution \in UncertainStates

\* Mutant: only an accepted prompt counts.
UpstreamByAcceptance(k) == works[k].dispatched

UpstreamMayExist(k) ==
    \/ works[k].attempts > 0
    \/ works[k].dispatched
    \/ works[k].execution \in UncertainStates

RequestCancelWork(k) ==
    /\ works[k].state \in {"queued", "running"}
    /\ \/ /\ ~UpstreamMayExist(k)
          /\ ReturnWorkerOf(k)
          /\ Close(k, "cancelled")
       \/ /\ UpstreamMayExist(k)
          /\ works' = [works EXCEPT ![k] = [@ EXCEPT !.execution = "cancel_pending",
                                                     !.due = FALSE]]
          /\ UNCHANGED <<workers, leases>>

\* cancel_pending_detach_seconds pass after the request.
CancelGraceElapses(k) ==
    /\ IsRunning(k)
    /\ works[k].execution = "cancel_pending"
    /\ ~works[k].due
    /\ works' = [works EXCEPT ![k].due = TRUE]
    /\ UNCHANGED <<workers, leases>>

DetachWork(k) ==
    /\ works[k].state \in {"queued", "running"}
    /\ ReturnWorkerOf(k)
    /\ Close(k, "detached")

-----------------------------------------------------------------------------
(* Execution state, written by the execution supervisor *)

Update(state, sent, done) ==
    [execution |-> state, increment |-> sent, mark |-> done]

\* The calls of update_work_execution: (execution_state, increment_dispatch,
\* mark_dispatched).
ExecutionUpdates ==
    {Update("dispatching", TRUE, FALSE), Update("waiting_agent", FALSE, TRUE)}
    \cup {Update(e, FALSE, FALSE) :
            e \in {"assigned", "waiting_agent", "reconnecting", "recovering",
                   "stalled", "dispatch_uncertain"}}

\* The worker of the row becomes busy with a fresh heartbeat whatever its
\* state was; leases are only refreshed, never acquired.
UpdateWorkExecution(k, u) ==
    /\ IsRunning(k)
    /\ u.increment => works[k].attempts < MaxAttempts
    /\ works' = [works EXCEPT ![k] =
                    [@ EXCEPT !.execution = u.execution,
                              !.attempts = works[k].attempts + IF u.increment THEN 1 ELSE 0,
                              !.dispatched = works[k].dispatched \/ u.mark]]
    /\ workers' = [w \in Workers |->
                      IF w = works[k].worker
                      THEN [workers[w] EXCEPT !.state = "busy", !.fresh = TRUE]
                      ELSE workers[w]]
    /\ UNCHANGED leases

\* The row need not be running any more: worker_id survives a finish.
MarkWorkerDegradedForWork(k) ==
    /\ works[k].worker # NoWorker
    /\ workers' = [workers EXCEPT ![works[k].worker] = [@ EXCEPT !.state = "degraded",
                                                                 !.fresh = TRUE]]
    /\ UNCHANGED <<works, leases>>

-----------------------------------------------------------------------------
(* Operations reconciliation: the four passes of one transaction *)

\* Mutant: only work whose worker row is gone is orphaned.
LostItsWorkerRow(k, pool) == works[k].worker \notin Workers

\* The worker of running work is missing or dead in `pool`.
LostItsWorker(k, pool) == works[k].worker \in Workers => pool[works[k].worker].state = "dead"

ReconcileOperations ==
    LET running == {k \in Works : IsRunning(k)}
        \* 1) cancellations whose grace period is over
        overdue == {k \in running : works[k].execution = "cancel_pending" /\ works[k].due}
        freed == {w \in Workers : \E k \in overdue : works[k].worker = w}
        pool1 == [w \in Workers |-> IF w \in freed THEN Unbound(workers[w]) ELSE workers[w]]
        \* 2) running work whose worker is missing or dead
        orphans == {k \in running \ overdue : LostItsWorker(k, pool1)}
        hosts == {w \in Workers : \E k \in orphans : works[k].worker = w}
        remaining == running \ (overdue \cup orphans)
        \* 3) busy workers without running work
        strays == {w \in Workers : /\ pool1[w].state = "busy"
                                   /\ \A k \in remaining : works[k].worker # w}
        pool2 == [w \in Workers |-> IF w \in strays THEN Unbound(pool1[w]) ELSE pool1[w]]
        held == LeasesWithout(freed \cup hosts \cup strays)
        \* 4) leases without a valid owner
        Valid(s) == LET l == held[s] IN
            /\ l.worker \in Workers
            /\ pool2[l.worker].workspace = s
            /\ pool2[l.worker].leaseMode = "write"
            /\ pool2[l.worker].state \in {"busy", "degraded"}
            /\ l.work # NoWork =>
                 \E k \in remaining : works[k].worker = l.worker /\ WorkspaceOf[k] = s
    IN  /\ works' = [k \in Works |->
                        IF k \in overdue \cup orphans
                        THEN [works[k] EXCEPT !.state = "detached", !.execution = "detached"]
                        ELSE works[k]]
        /\ workers' = pool2
        /\ leases' = [s \in Workspaces |-> IF Valid(s) THEN held[s] ELSE NoLease]

-----------------------------------------------------------------------------
(* Specification *)

\* POST /api/workers/...
WorkerApi ==
    \E w \in ManualWorkers :
        \/ \E s \in Workspaces, mode \in LeaseModes : BindWorker(w, s, mode)
        \/ ReleaseWorker(w)
        \/ HeartbeatWorker(w, workers[w].state)
        \/ \E state \in WorkerStates : HeartbeatWorker(w, state)
        \/ \E state \in WorkerStates : SetWorkerState(w, state)

\* POST /api/work, and the assignments of the scheduler.
Submission == \E k \in Works : CreateWork(k)

Assignment == \E k \in Works, w \in Workers : AssignWork(k, w)

\* POST /api/work/{id}/...
WorkApi ==
    \E k \in Works :
        \/ \E outcome \in {"completed", "failed"} : FinishWork(k, outcome)
        \/ RequestCancelWork(k)
        \/ DetachWork(k)

\* Background loops other than the scheduler and the execution supervisor.
Background ==
    \/ HeartbeatRunningWork
    \/ MarkStaleBusyWorkers
    \/ ReconcileOperations

\* Time.
Clock ==
    \/ \E w \in Workers : HeartbeatExpires(w)
    \/ \E k \in Works : CancelGraceElapses(k)

\* The writes of the execution supervisor.
Supervision ==
    \E k \in Works :
        \/ \E u \in ExecutionUpdates : UpdateWorkExecution(k, u)
        \/ MarkWorkerDegradedForWork(k)

\* The tables survive a restart; the pool may have been reconfigured.
Restart == \E pool \in Pools : EnsureWorkers(pool)

Next ==
    \/ Submission
    \/ Assignment
    \/ WorkerApi
    \/ WorkApi
    \/ Background
    \/ Clock
    \/ Supervision
    \/ Restart

Spec == Init /\ [][Next]_vars

-----------------------------------------------------------------------------
(* Safety *)

TypeOK ==
    /\ workers \in [Workers -> WorkerRow]
    /\ works \in [Works -> WorkRow]
    /\ leases \in [Workspaces -> LeaseRow]

\* Running work always has a worker that is bound to the work's workspace and
\* is out of the pool, whatever calls, reconciliations and worker deaths came
\* before: the scheduler can never hand that worker to other work.
RunningWorkKeepsItsWorker ==
    \A k \in Works : IsRunning(k) =>
        /\ works[k].worker \in Workers
        /\ workers[works[k].worker].state # "idle"
        /\ workers[works[k].worker].workspace = WorkspaceOf[k]

\* A worker never runs two work items.
OneRunningWorkPerWorker ==
    \A k1, k2 \in Works :
        (IsRunning(k1) /\ IsRunning(k2) /\ works[k1].worker = works[k2].worker) => k1 = k2

\* "The write lease exists only while a worker is actively executing or
\* manual-busy": a lease belongs to a busy or degraded worker that is bound to
\* that workspace for writing.  No operation leaves an orphaned lease behind
\* for the reconciler's fourth pass to collect.
LeaseHasLiveWriter ==
    \A s \in Workspaces : leases[s].worker # NoWorker =>
        /\ workers[leases[s].worker].state \in {"busy", "degraded"}
        /\ workers[leases[s].worker].workspace = s
        /\ workers[leases[s].worker].leaseMode = "write"

\* A lease that names a work item names one that runs, for writing, on the
\* holder of the lease.
LinkedLeaseIsRunning ==
    \A s \in Workspaces : leases[s].work # NoWork =>
        /\ IsRunning(leases[s].work)
        /\ works[leases[s].work].worker = leases[s].worker
        /\ WorkspaceOf[leases[s].work] = s
        /\ LeaseModeOf[leases[s].work] = "write"

Writes(w) == workers[w].leaseMode = "write"

Holds(w, s) == s \in Workspaces /\ leases[s].worker = w

\* A busy worker with write intent holds the lease of its workspace, and so
\* does a worker in any state that runs write work and was not declared dead
\* (death is what clears the write intent).
WriterIsFenced ==
    \A w \in Workers :
        (Writes(w) /\ (workers[w].state = "busy" \/ RunningOn(w) # {}))
            => Holds(w, workers[w].workspace)

\* The fence: two workers that were not declared dead never run write work in
\* one workspace.
OneFencedWriterPerWorkspace ==
    \A k1, k2 \in Works :
        ( /\ IsRunning(k1) /\ IsRunning(k2)
          /\ WorkspaceOf[k1] = WorkspaceOf[k2]
          /\ Writes(works[k1].worker) /\ Writes(works[k2].worker) ) => k1 = k2

\* A worker takes its write intent from the work item it runs, and only death
\* withdraws it.
WriteIntentFollowsWork ==
    \A k \in Works :
        (IsRunning(k) /\ Writes(works[k].worker)) => LeaseModeOf[k] = "write"

\* Cancelled is only ever claimed of work whose prompt was never attempted.
CancelledMeansNeverDispatched ==
    \A k \in Works : works[k].state = "cancelled" =>
        works[k].attempts = 0 /\ ~works[k].dispatched

\* Only an assignment ties a work item to a worker, so ending work that still
\* waits in the queue returns nobody's worker to the pool.
WaitingWork(k) == works[k].state \in {"absent", "queued"}

WaitingWorkHasNoWorker ==
    \A k \in Works : WaitingWork(k) => works[k].worker = NoWorker

\* The inductive invariant: together these hold initially and are kept by every
\* step from any state, reachable or not (proved in WorkQueueProofs).
QueueInv ==
    /\ TypeOK
    /\ RunningWorkKeepsItsWorker
    /\ OneRunningWorkPerWorker
    /\ LeaseHasLiveWriter
    /\ LinkedLeaseIsRunning
    /\ WriterIsFenced
    /\ WriteIntentFollowsWork
    /\ WaitingWorkHasNoWorker

-----------------------------------------------------------------------------
(* What a step may never do *)

\* "Degraded workers retain their lock while a running work row still owns the
\* workspace": the holder of a lease keeps it for as long as its work runs,
\* unless the step declares that worker dead.
LeaseOutlivesRecovery ==
    [][\A s \in Workspaces, k \in Works :
          (IsRunning(k) /\ Holds(works[k].worker, s) /\ works[k].worker \in Workers) =>
              \/ leases'[s].worker = works[k].worker
              \/ works'[k].state # "running"
              \/ workers'[works[k].worker].state = "dead"]_vars

-----------------------------------------------------------------------------
(* Refinement *)

Fence == INSTANCE WriteLease WITH owner <- [s \in Workspaces |-> leases[s].worker]

\* The lease table is a write lease: ownership passes from worker to worker
\* only through "free", under every interleaving of API calls, scheduler,
\* monitors and reconciliation, and nobody owns two workspaces.
ImplementsWriteLease == Fence!Spec

=============================================================================
