----------------------------- MODULE Scheduler -----------------------------
(***************************************************************************)
(* The global scheduler of MCP Studio (mcp_studio/scheduler.py) and the    *)
(* submission of work (submit_work in mcp_studio/main.py) on top of the    *)
(* work queue.                                                             *)
(*                                                                         *)
(* A tick of the scheduler is not atomic: it reads the idle workers, then  *)
(* the queue, then assigns item after item from what it has read, while    *)
(* the API, the worker monitor and the reconciler go on.  Submission       *)
(* checks the length of the queue in one operation and inserts in another. *)
(*                                                                         *)
(* `Rank` is the order "priority DESC, queued_at ASC" of the queue and     *)
(* `Ordinal` the order of the workers; both are arbitrary.  The execution  *)
(* supervisor is not part of this composition (execution_enabled is off by *)
(* default); module Execution lets work be assigned at any moment.         *)
(***************************************************************************)
EXTENDS WorkQueue

CONSTANTS
    Rank,        \* position of a work item in the order of the queue
    Ordinal,     \* ordinal of a worker
    MaxQueue,    \* settings.studio.scheduler_max_queue
    MaxRestarts  \* bound on the restarts of the program

ASSUME OrderAssumption ==
    /\ Rank \in [Works -> Nat]
    /\ Ordinal \in [Workers -> Nat]
    /\ \A k1, k2 \in Works : Rank[k1] = Rank[k2] => k1 = k2
    /\ \A w1, w2 \in Workers : Ordinal[w1] = Ordinal[w2] => w1 = w2

ASSUME QueueAssumption == MaxQueue \in Nat \ {0} /\ MaxRestarts \in Nat

VARIABLES
    submitting,   \* the work items whose submission has passed the queue check
    tick,         \* the tick in progress
    restarts      \* how often the program was restarted

schedVars == <<workers, works, leases, submitting, tick, restarts>>

Sleeping == [at |-> "sleep", free |-> {}, queue |-> {}]

Queued == {k \in Works : works[k].state = "queued"}

\* idle_unbound_workers
FreeWorkers ==
    {w \in Workers : /\ workers[w].enabled
                     /\ workers[w].state = "idle"
                     /\ workers[w].workspace = NoWorkspace}

First(order, S) == CHOOSE x \in S : \A y \in S : order[x] <= order[y]

\* queued_work(limit=scheduler_max_queue)
FrontOfQueue ==
    {k \in Queued : Cardinality({j \in Queued : Rank[j] < Rank[k]}) < MaxQueue}

SchedInit ==
    /\ Init
    /\ submitting = {}
    /\ tick = Sleeping
    /\ restarts = 0

-----------------------------------------------------------------------------
(* Submission *)

CheckQueue(k) ==
    /\ works[k].state = "absent"
    /\ k \notin submitting
    /\ Cardinality(Queued) < MaxQueue
    /\ submitting' = submitting \cup {k}
    /\ UNCHANGED <<vars, tick, restarts>>

Submit(k) ==
    /\ k \in submitting
    /\ CreateWork(k)
    /\ submitting' = submitting \ {k}
    /\ UNCHANGED <<tick, restarts>>

-----------------------------------------------------------------------------
(* schedule_once *)

\* Mutant: the tick beats for every worker.
StartTickBeatingForAll ==
    /\ tick.at = "sleep"
    /\ workers' = [w \in Workers |-> [workers[w] EXCEPT !.fresh = TRUE]]
    /\ tick' = [Sleeping EXCEPT !.at = "workers"]
    /\ UNCHANGED <<works, leases, submitting, restarts>>

\* The tick beats for running work; without an upstream that is all it does.
StartTick ==
    /\ tick.at = "sleep"
    /\ HeartbeatRunningWork
    /\ tick' \in {Sleeping, [Sleeping EXCEPT !.at = "workers"]}
    /\ UNCHANGED <<submitting, restarts>>

ReadWorkers ==
    /\ tick.at = "workers"
    /\ tick' = IF FreeWorkers = {} THEN Sleeping
               ELSE [tick EXCEPT !.at = "queue", !.free = FreeWorkers]
    /\ UNCHANGED <<vars, submitting, restarts>>

ReadQueue ==
    /\ tick.at = "queue"
    /\ tick' = [tick EXCEPT !.at = "assign", !.queue = FrontOfQueue]
    /\ UNCHANGED <<vars, submitting, restarts>>

MayAssign(k, w) ==
    /\ works[k].state = "queued"
    /\ w \in FreeWorkers
    /\ LeaseModeOf[k] = "write" => MayLease(w, WorkspaceOf[k])

\* Mutant: a lease conflict ends the tick.
AssignUntilConflict ==
    /\ tick.at = "assign"
    /\ tick.queue # {}
    /\ tick.free # {}
    /\ LET k == First(Rank, tick.queue)
           w == First(Ordinal, tick.free)
       IN  \/ /\ AssignWork(k, w)
              /\ tick' = [tick EXCEPT !.queue = @ \ {k}, !.free = @ \ {w}]
           \/ /\ ~MayAssign(k, w)
              /\ tick' = Sleeping
              /\ UNCHANGED vars
    /\ UNCHANGED <<submitting, restarts>>

\* The first item of the queue goes to the first free worker.  A lease
\* conflict, or a row that has changed since it was read, skips the item and
\* keeps the worker for the next one.
AssignNext ==
    /\ tick.at = "assign"
    /\ tick.queue # {}
    /\ tick.free # {}
    /\ LET k == First(Rank, tick.queue)
           w == First(Ordinal, tick.free)
       IN  \/ /\ AssignWork(k, w)
              /\ tick' = [tick EXCEPT !.queue = @ \ {k}, !.free = @ \ {w}]
           \/ /\ ~MayAssign(k, w)
              /\ tick' = [tick EXCEPT !.queue = @ \ {k}]
              /\ UNCHANGED vars
    /\ UNCHANGED <<submitting, restarts>>

EndTick ==
    /\ tick.at = "assign"
    /\ tick.queue = {} \/ tick.free = {}
    /\ tick' = Sleeping
    /\ UNCHANGED <<vars, submitting, restarts>>

-----------------------------------------------------------------------------
(* Specification *)

TickStep == ReadWorkers \/ ReadQueue \/ AssignNext \/ EndTick

Elsewhere ==
    /\ WorkerApi \/ WorkApi \/ Background \/ Clock
    /\ UNCHANGED <<submitting, tick, restarts>>

Crash ==
    /\ restarts < MaxRestarts
    /\ restarts' = restarts + 1
    /\ Restart
    /\ submitting' = {}
    /\ tick' = Sleeping

SchedNext ==
    \/ \E k \in Works : CheckQueue(k) \/ Submit(k)
    \/ StartTick
    \/ TickStep
    \/ Elsewhere
    \/ Crash

SchedSpec == SchedInit /\ [][SchedNext]_schedVars

\* The loop repeats after an interval whatever a tick raises, and a tick does
\* not stop half-way; the upstream is not down at every tick.
FairSchedSpec ==
    /\ SchedSpec
    /\ SF_schedVars(StartTick /\ tick'.at = "workers")
    /\ WF_schedVars(TickStep)

-----------------------------------------------------------------------------
(* Properties *)

SchedTypeOK ==
    /\ TypeOK
    /\ submitting \subseteq Works
    /\ tick \in [at : {"sleep", "workers", "queue", "assign"},
                 free : SUBSET Workers,
                 queue : SUBSET Works]
    /\ restarts \in 0 .. MaxRestarts

\* Every step of the scheduler and of submission is, to the tables, a step of
\* the work queue: what holds of WorkQueue holds here, stale reads or not.
ImplementsWorkQueue == Spec

\* Work that could start if it were tried.
Startable(k) ==
    /\ works[k].state = "queued"
    /\ LeaseModeOf[k] = "write" => leases[WorkspaceOf[k]].worker = NoWorker

\* "Do not let one workspace at the head of the queue block work for other
\* workspaces": queued work whose workspace is free does not wait for ever
\* while some worker is free, whatever waits in front of it.  (The API may
\* keep a tick from it by binding and releasing workers for ever, so the free
\* workers are to stay the same.)
HeadOfQueueDoesNotBlock ==
    \A k \in Works :
        <>[](Startable(k) /\ FreeWorkers # {}) =>
            []<><<FreeWorkers' # FreeWorkers>>_schedVars

=============================================================================
