# TLA+ models of MCP Studio

This directory models and verifies the part of MCP Studio that decides *who may
work on what, and what is sent to whom*: the persistent work queue with its
workers and workspace leases, the scheduler, the worker monitor, the operations
reconciler and the execution supervisor that drives Herdr agents; the gateway
with its transports, their bindings to managed sessions and their handoff; the
pool of managed servers; capsules and the handoff of their ownership between
agents; and the services beside them that keep state across awaits: the
authorization server, tunnels, the cognitive router, desktops, machines and the
Desktop Commander backend.  The modules are translated from
`src/mcp_studio/*.py`; `PROJECT.json` names, for every definition, the lines it
stands for.

    cd tla
    tlc -workers 2 -config MCWorkQueue.cfg MCWorkQueue     # any run of PROJECT.json
    tlapm WorkQueueProofs.tla                              # about two minutes
    tlapm CapsuleProofs.tla                                # the same for any *Proofs module

Contents: 1 inventory, 2 modules and how they correspond to the code, 3 runs and
bounds, 4 fairness, 5 proofs, 6 where code and text disagree, 7 mutants,
8 what is not modelled, 9 plan.

## 1. Inventory

MCP Studio is one Python process: a FastAPI application, one SQLite database and
a dozen asyncio loops.  `Database._run` takes one asyncio lock and runs each
database operation in one transaction, so a database operation is atomic.
A method that makes several of them is not: between two awaits every other task
of the process may run, and the process may end.

| Component | State | Operations | Hard behaviour | What makes it correct |
|---|---|---|---|---|
| Work queue (`db.py`) | `workers`, `work_items`, `workspace_leases` | submit, assign, finish, cancel, detach, bind, release, heartbeat, expire, reconcile, execution updates | every caller at any time; a lease that outlives or predeceases its writer | one fenced writer per workspace, running work keeps its worker, leases are never orphaned |
| Scheduler (`scheduler.py`) | none on disk; snapshots of a tick | `schedule_once` | assigns from stale snapshots; conflicts at the head of the queue | steps of the queue only; blocked work blocks nobody else |
| Worker monitor (`workers.py`) | none | `mark_stale_busy_workers` | a missed heartbeat is not a dead agent | no lease stays with a dead worker |
| Execution supervisor (`execution.py`) | per-work locks and tasks in memory | dispatch, monitor, recover, retry | concurrent callers, cancellation races, crashes, ambiguous timeouts | no prompt is sent twice on its own account; what is sent is on disk first |
| Operations reconciler (`operations.py`) | disk and alert snapshots | `reconcile_operations` every interval | repairs race everything else | orphaned work is settled |
| Herdr client (`herdr.py`) | inventory of panes | refresh, find pane | panes come and go | external environment of the supervisor |
| Gateway (`gateway.py`, `db.py`) | `gateway_sessions`, `sessions.managed_session_id`, upstream ids | initialize, proxy, bind, detach, reconnect, close | a transport is closed, stale or rebound while a request is in flight with the row it read before | a tool call runs in its managed session or not at all; no two transports use one upstream session |
| Session handoff (`gateway.py`, `db.py`) | `session_handoffs` | prepare, reserve, transfer, release | expiry, competing claimants, crash between reserve and transfer | a claim token is used once; what a claim deletes upstream is in use by nobody |
| Managed sessions (`managed_sessions.py`) | `managed_sessions`, child processes | create, ensure, stop, restart, idle stop, monitor | starts hold a lock, stops do not; users are counted before the stop; ports move | no server is lost, no project has two, no call reaches another project's server except after a move |
| Capsules (`capsules.py`) | events replayed into capsules, lane states | create, stage, complete, request, dispatch, ACK, validate, approve, lanes | reports before or after the recorded outcome, late replies, calls outside the lock, crashes between two appends | ownership moves once, only to the target it was offered to, on the consents asked for, except where a handoff that failed commits all the same |
| OAuth (`oauth.py`) | clients, codes, refresh tokens | register, authorize, token | a secret is consumed in one operation and its successor written in another; requests race | an approval has one line of tokens, none wider than what was approved |
| Connectivity (`connectivity.py`) | `connectivity_tunnels`, child processes | register, start, stop, delete, poll | the poll restarts from a row it read before an operator acted | a wanted tunnel comes back |
| Graft (`graft.py`) | profile in workspace metadata | configure, query, rollback, rearm | read-modify-write across awaits | an opened circuit is closed by rearm only |
| Cognitive router (`cognitive_router.py`) | none; the history of shared panes | plan, prompt, read, failover | late, unfinished and unmarked answers in one pane | what is returned for a request answers it |
| Computer use (`computer.py`) | `registry.json`, servers and browsers | ensure, move, start | a move fails half way and so may its rollback | no two sessions on one desktop |
| Machine enrollment and routing (`machine_*.py`) | registry, sidecar file, session metadata | discover, approve, reject, bind, permissions, backend calls | failed saves, restarts, decisions during a probe, sessions rebound and integrations reconciled during a call | a machine is used only if approved, a call that was checked against a machine runs where that one allows it |
| Desktop Commander (`desktop_commander.py`) | one child process, owners of pids | call under one lock | late answers after a timeout | a process stays with the session that started it |
| Others | | | | pure functions, content generation, input and output (section 8) |

Interaction: the HTTP API calls the database and, for dispatch, retry and
recover, the supervisor; the scheduler moves work from `queued` to `running` and
wakes the supervisor; the supervisor writes execution states, finishes work and
marks workers degraded; monitor and reconciler repair the same tables behind
everybody's back.  All of it is shared state, and none of the callers holds
anything across two database operations except the supervisor's per-work lock in
`dispatch`.

The components around the queue and the gateway share no table with one another:
each has its own rows, files or child processes, and meets the others only
through the requests it is given.  Within each of them the same pattern returns:
read a row, await something slow, act on what was read.

The hazards this leads to are listed in `PROJECT.json`, each at its line, with
the properties that catch it or the reason why none does.

## 2. Modules

**`WorkQueue`** is the three tables and every `Database` operation that writes
them, one action each, with the code's guards and its whole effect.  A row keeps
the columns some condition reads.  Time is two flags: `fresh` (heartbeat within
`worker_heartbeat_timeout_seconds`) and `due` (cancellation older than
`cancel_pending_detach_seconds`).  `ReconcileOperations` is the four passes of
`reconcile_operations` as one step, because they are one transaction; `pool1`,
`pool2`, `remaining` and `held` are the tables between the passes.  Every
operation may be called at any time, so its invariants do not rest on the
discipline of callers.

| Action | Code |
|---|---|
| `EnsureWorkers` | `Database.ensure_workers`, from `WorkerManager.start` |
| `BindWorker`, `ReleaseWorker`, `HeartbeatWorker`, `SetWorkerState` | the `/api/workers` routes |
| `CreateWork`, `FinishWork`, `RequestCancelWork`, `DetachWork` | the `/api/work` routes |
| `AssignWork` | `assign_work`, from the scheduler |
| `HeartbeatRunningWork` | `heartbeat_running_work`, from scheduler and supervisor |
| `MarkStaleBusyWorkers`, `ReconcileOperations` | worker monitor, operations loop |
| `UpdateWorkExecution`, `MarkWorkerDegradedForWork` | the supervisor's writes |
| `HeartbeatExpires`, `CancelGraceElapses` | time |

**`WriteLease`** is what the lease table promises: a workspace has at most one
owner, a worker owns at most one workspace, and ownership passes from one worker
to another only through "free".  `WorkQueue` implements it with
`owner <- [s |-> leases[s].worker]`.

**`Execution`** extends `WorkQueue` with the supervisor.  A *task* is one method
in progress: `at` is the step it takes next, `plan` what it concluded from the
row it was handed.  The tick (`run_once`) starts one task per running work item,
each call of the API (`dispatch`, `retry_dispatch`, `recover_work`) one more;
`Operators` are the calls that may work on one item at once.  The API sets them
no bound, and neither do the theorems; the runs have one, the smallest number at
which every check of the code can be outdated by somebody else.  Between two steps
of a task anything else may happen.  `LockedSteps` are the steps of `dispatch` inside the per-work lock;
monitoring and recovery take no lock, as in the code.  `Crash` drops all tasks
and locks and keeps the tables and `prompts`, which counts what reached the
agent and is not a variable of the program.  Herdr may be down, lack the pane or
the tool, refuse, accept or time out at every step.

| Steps | Code |
|---|---|
| `Tick`, `TaskFor` | `run_once`, `_process_one` |
| `EnterDispatch` ... `PromptFailed` | `dispatch`, one step per await |
| `PaneLost`, `PaneObserved`, `Collect`, `NoActivity` | `_monitor_waiting`, `_complete_from_agent` |
| `RecoveryPlan`, `RecoveryExhausted`, `Rebind`, `NotYetBack` | `_recover` |
| `Degrade` | `_mark_worker_degraded` after a failed step |
| `Raise` | the `ValueError` of a write to work that has ended |

**`Scheduler`** extends `WorkQueue` with `schedule_once` as it runs: it beats,
reads the idle unbound workers, reads the queue in priority order, and assigns
pair by pair from those two snapshots, skipping work whose workspace is leased
and giving up the tick on any other error.  Submission is two steps, the check
of the queue limit and the insertion.

**`Gateway`** is the tables of transports, pins and handoffs, and the requests
being served.  A request is at one await (`at`), keeps the row it read (`seen`),
the upstream session it opened (`fresh`) and the one it must delete (`old`);
every other request, staleness, expiry and a crash may come between two of its
steps.  Each database operation, and each exchange with a Serena server, is one
step.

| Steps | Code |
|---|---|
| `NewTransport`, `FindReusable`, `Reuse` | `initialize`: a new row, or a transport of the logical session that may be reused, which is looked up, then touched |
| `Arrive`, `ArriveApi`, `Touch`, `Load` | `proxy_existing` and the routes of `main.py` up to the first read of the row |
| `ReadPin` | `_reconcile_gateway_managed_binding` |
| `StartBinding` ... `Retire` | `bind_managed_session`, `detach_managed_session`: read, open upstream, write row and pin, delete the old upstream |
| `SendEnds`, `SendNotFound`, `Reopen` ... `WriteUpstream` | forwarding, and one replay after a 404 |
| `ForwardDelete`, `CloseTransport` | DELETE of a transport |
| `IssueHandoff`, `ReserveHandoff`, `Transfer`, `ReleaseHandoff` and the refusals | `create_`, `reserve_`, `transfer_` and `release_session_handoff` (prepare, accept) |
| `MarkStale`, `HandoffFallsDue`, `Crash` | `mark_stale_gateway_sessions`, time, a restart |

Simplifications, each with its reason.  The Serena servers are the environment:
they may start, answer, refuse or know nothing of a session at any time, and a
successful initialize hands out an id that nobody uses, as the protocol
demands, or none at all (`None \in Upstreams`), which the theorems cover and the run
leaves out.  There is one base server.  A managed session
stands for its own endpoint: that one whose port is taken at its start moves to
another (`managed_sessions.py:533-537`), so that rows keep the old address, is
the subject of `ManagedPool`, and `ToolCallsRunInTheirSession` says nothing of
it.  Settings are the
defaults (binding required for tools, reconnect and replay on).  Handoff rows of state
`observed` hold no token and are left out.  `complete_session_handoff` and
`finalize_session_handoff` have no caller in the program.

**`ClaimToken`** is what the table of handoffs promises: a token is live,
reserved for one party, then spent or given back; issuing one voids the older
live ones of its session and is refused while one is reserved.  `Gateway`
implements it with `token <- [state, session, from, to]` of each row.

**`ManagedPool`** is the table `managed_sessions`, the registered instances, the
processes of the machine and the transports that point at them.  `starting` is
the holder of the start lock and the step it takes next, `ending` the
terminations under way (an operator's stop, the idle sweep's, a restart),
`watching` the monitor's handling of an exit, `idle` what the sweep has found
unused, `binding` the row a bind was given.  Only a start holds the lock, so any
of the others may come between two of its steps, and between two of each
other's.

| Steps | Code |
|---|---|
| `CreateSession` | `create`: reserves a free port |
| `BeginStart` ... `Ready`, `StartFails`, `RecordFailure` | `ensure_running`, `_spawn`, `_wait_ready`; `SpawnFails` is a start that fails before there is a process, which nothing records |
| `CountConnected`, `SignalServer`, `StopSession`, `RecordStopWish`, `RecordStop` | `stop`, `restart`, `_terminate_instance` |
| `ScanIdle`, `StopIdle` | the idle sweep |
| `FindExited` ... `RestartExited` | the monitor, which finds an exit in the instances it listed, replaced since or not |
| `EnsureForBind`, `Bind`, `GoStale` | a bind of the gateway |
| `Exit`, `PoolRestart` | a server that exits, Studio's own restart |

**`CapsuleHandoff`** keeps for each capsule its projection, which each append of an
event updates as `_project` does, and for each handoff the kinds of event on
record.  A call of the handoff takes the lock, decides and leaves in `locked` what
it has yet to append, one event a step (`AppendLocked`); the delivery of the
prompt and the recording of its outcome are outside the lock, as are stage,
completion and contract updates, which check and then append (`checked`).  The
check is a database operation and the append the next one of the same call, and
the database serves operations in the order they were asked for
(`asyncio.Lock` in `Database._run`), so what comes between the two was queued already
when the check ended: at most one operation of each other task.  `Overtake` says
so; it is what keeps a handoff from being requested and committed in between.  A
prompt may reach its target whatever the delivery reports, and a target reports
at any time after.  A receipt counts as soon as the handoff is requested: until
`capsule.handoff_dispatched` is on record, and for good when dispatch is uncertain,
`_verify_handoff_correlation` expects no target session, and a receipt that names none
is taken.  `sweep` is the automatic handoff of a closed lane, which reads the lanes
(`ReadLanes`) and then the capsules (`StartSweep`).  `CapsuleCrash` drops the calls
and the lock and keeps the ledger.

**`CapsuleOwnership`** is what a capsule promises: one owner, who changes only
by an offer to one other agent on which every consent it asks for was given, one
offer at a time, each taken up once at most.  It makes one exception, because the
code does: an offer that could not be delivered and is taken up nevertheless
*upsets* its capsule, and from then on offers may stand beside one another
and an agent who has had the capsule may take it back (section 6).
`CapsuleHandoff` implements it with owner, offers and consents read off the
projection and the ledger.

**`OAuthGrants`** is the authorization server: `BeginToken`, `ConsumeGrant` and
`IssueTokens` are a token request's three stretches between awaits, and each of
its failures ends it where the code raises.  `root`, the approval a secret
descends from, is not a column; it is read off `rotated_from`.

**`Tunnels`** is the supervisor of cloudflared: the loop and the requests are
callers with a row they read (`polls`), and a poll, a start or a stop goes on
from it after each await.

**`Cognition`** is the router and the panes it shares: `history` is the markers a
pane shows, `inbox` the prompts its agent has yet to work off.  `Found` is the
code's search for start and end marker in the history, which falls back on an
earlier start when a later one has nothing between the two, and `Extract` what it
returns.  A request whose id the caller gives (`GivenIds`) may be made again.

**`Desktops`** is the registry of display slots and what runs on each; `job` is
the holder of the runtime lock, its step, the pair it moves to and the one it
comes from.  `RegistryUnreadable` is a registry file that cannot be parsed, which is
read as empty.

**`MachineAuthority`** is enrollment with its sidecar file, the metadata of
sessions, read and later written back whole, and backend calls, decided at one
await and run at a later one.  Whether a tool is a backend tool is asked at
both (`offered`): a reconcile takes the tools of its integration away and puts
them back, and a call decided while its tool is away is checked against no machine
(`checked`).  The tools of Desktop Commander run on the session's machine, those of any
other integration in Studio's own process (`Target`).  A configured machine has the
ceiling of its entry, an enrolled one what its operator approved.

**`DesktopCommander`** is the child with its two pipes, the call that holds the
lock, and the owners of processes; a call that is given up leaves its request in
the pipe.

**`Services`** puts these seven (without tunnels) side by side for one run.  They
share no variable, so `focus` picks the one that moves and the others stand
still: the reachable states of each are those it has by itself, and the run is
as good as one run of each.

The theorems stand in modules of their own:

| Module | Theorems about |
|---|---|
| `WorkQueueProofs`, `ExecutionProofs`, `SchedulerProofs` | the queue, and the two systems that extend it |
| `GatewayProofs` | transports, upstream sessions, handoffs |
| `CapsuleProofs` | capsules and their handoff |
| `AccessProofs` | `OAuthGrants`, `Cognition`, `Tunnels` |
| `BackendProofs` | `ManagedPool`, `Desktops`, `MachineAuthority`, `DesktopCommander` |
| `ServicesProofs` | the services side by side |

`MC*` modules give TLC its instances.

## 3. Runs

| Run | Instance | Shows |
|---|---|---|
| `queue` | 2 workers, both also driven by hand; 2 write items of one workspace, one Herdr and one manual; 1 attempt | `QueueInv`, which has the types and all invariants of the tables, the step property `LeaseOutlivesRecovery`, and that the leases implement `WriteLease` |
| `execution` | 1 worker, 1 Herdr item, 2 attempts, 1 recovery, reconfigurations that disable the worker | prompts against attempts, cancellation and recoveries; no automatic resend; a dispatch that was cut off waits for the operator; steps of the work queue only |
| `execution_progress` | 1 worker, 1 item, 1 attempt, 1 recovery | dispatches end, recoveries end, orphaned work is settled |
| `scheduler` | 2 workers, one driven by hand; 2 items of 2 workspaces; 1 restart | steps of the work queue only; the head of the queue does not block the rest |
| `gateway` | 2 transports, 2 logical sessions, 1 managed session, 2 handoffs, 2 requests at a time and 4 in all, 3 upstream ids | a call stays in its managed session, upstream sessions are not shared and not deleted under a user, a token has one claimant, and the handoffs implement `ClaimToken` |
| `services` | each service by itself, see below | servers, grants, answers, desktops, machines, processes and capsules keep their properties; capsules implement `CapsuleOwnership` |
| `tunnels` | 1 managed tunnel, the loop and one operator, 2 processes | a wanted tunnel comes back |
| `second_writer`, `cancel_lost`, `stale_recovery`, `claim_lost`, `unchecked_call` | as small as the behaviour allows | section 6 |

*Bounds.*  Two items of one workspace on two workers are what a second writer
takes; a third adds a bystander.  `MaxAttempts` bounds `dispatch_attempts`: the
code distinguishes 0 from more, `RecordAttempt` is disabled at the bound, and
two attempts are needed for a second prompt.  `MaxRecoveries` is the setting
`execution_max_recoveries`; with 1, both "under" and "at the limit" occur, and
both callers can pass the check at once, which is why `ExecTypeOK` lets recoveries
exceed the limit by one for each operator call.  `MaxQueue` is `max_queue_depth`,
`MaxRestarts` bounds the scheduler's restarts (liveness needs that they end).
`ManualWorkers` are the workers an operator also drives by hand: none in
`execution`, whose subject is dispatch, and those a property needs elsewhere.

*`VIEW QueueView`* in `queue` merges states that no guard and no property tells
apart: execution states count by class (`cancel_pending`, uncertain, other), a
heartbeat counts for busy workers only, and of ended work only its worker and
whether it was cancelled is read again.  Workers are interchangeable there
(`SYMMETRY`); work items are not, and no liveness is checked in that run.
Deadlock is checked in the runs of the queue, the scheduler, the supervisor and
the gateway; `services` and `tunnels` may stop, since their bounds on processes,
prompts, secrets and handoffs use themselves up, and for `unchecked_call` it is
of no interest.

In `gateway` two transports are the two ends of a handoff, and two requests are
what it takes to outdate what one of them has read.  With two handoffs a
token supersedes another, or they compete.  `MaxArrivals` bounds the requests
that arrive: the longest story a property is about, bind, prepare and
claim against one rival, takes four.  Each transport and each request holds at
most one upstream session that matters, so with three ids one is nearly always
free; when none is, opening is disabled and only failing is left.  All the
sets are interchangeable, the run checks safety and a refinement without
fairness, so symmetry is sound.

`services` has 1.34 million distinct states, most of them the capsules' and the pool's,
and takes about three minutes; its
`VIEW ServicesView` leaves out what no guard and no property reads again, such as
the port of a process that has ended or the candidates of a request that is over.
Its instances: two projects on a range of two ports, so that a start may find
its port taken and move, two processes in all and one termination, which with the
idle sweep, the monitor and a restart is what outdates a start; two clients, one
approval and two refresh tokens, so that two requests race for a code and for
a token; two requests to two panes, one of each lane, with three prompts, so
that one pane gets two, one of them with an id that is used again; two sessions
on four slots, of which one may adopt the host's desktop; this machine and one
other, Desktop Commander and an integration that runs here, one update of metadata
and one call (a second update would put an old row back, that is a machine and
permissions which one alone can set as well); two sessions whose calls start two
processes; one capsule, two agents and two handoffs, the second of which may follow
a failed or a committed first, and one crash or call outside the lock
(`MaxUpsets`), stage and completion calls that name their agent included.
Requests, edits, tokens and sessions that are alike are numbered and used in
order, which leaves out renamings only.

`tunnels` needs one tunnel: nothing a poll does looks at another one.  Two
processes are a first and its successor; when no pid is left the property asks
for nothing, so the bound is not what makes it hold.

## 4. Fairness

Safety needs none.  The liveness runs assume, with the reason in the code:

* `WF(Tick)`, `WF(ReconcileOperations)`: both loops catch what an iteration
  raises and repeat it after a bounded wait (`execution.py:270-290`,
  `operations.py:55-76`).
* `SF(TaskStep)` for each task: every await of the supervisor has a timeout,
  so a task goes on unless the process ends first.  It is strong
  because a crash disables the step; it says that the program does not crash
  each time just before that step.
* `SF(EnterDispatch)`: `asyncio.Lock` is first come, first served.
* `PanesComeBack`, for `RecoveryEnds` alone in effect: a pane that is gone for
  good leaves work `reconnecting` without counting as a recovery
  (`execution.py:652-656`), so recovery ends only if panes return.
* `CancelSettlingSpec` adds that an operator does not ask for the same cancellation over and
  over (each request restarts the grace period, `db.py:2733`); the
  counterexample to `CancelPendingSettles` holds even so.
* `TunnelFairness`: the loop polls for ever (`connectivity.py:82`) and each await of a
  poll ends.  It is strong for the loop's steps because an operator's stop, a
  process that lives or a restart of Studio disables them now and then, and
  because a preflight may fail: it says that one that is repeated succeeds some
  time.  Nothing is assumed of operators or of processes.
* `FairSchedSpec`: the scheduler's loop goes on and restarts are finite.

## 5. Proofs

`WorkQueueProofs` proves for any sets of workers, work items and workspaces
that `QueueInv` is an invariant and inductive.  The invariants the project is
about are not inductive by themselves.  `OneFencedWriterPerWorkspace` needs
that a writer holds the lease of the workspace it is bound to
(`WriterIsFenced`), that running work is bound to a worker on its own workspace
(`RunningWorkKeepsItsWorker`), and that no worker runs two items
(`OneRunningWorkPerWorker`); the operations that give a worker back are safe
only because work that waits has no worker (`WaitingWorkHasNoWorker`) and
because write intent is withdrawn by death alone (`WriteIntentFollowsWork`);
`LeaseHasLiveWriter` and `LinkedLeaseIsRunning` say that no lease is orphaned.
The proof that every step keeps them is sorted by what a step does to the
leases: it keeps them, withdraws some, lets a worker claim its own
workspace, or assigns.  Each of the four kinds is one lemma, and each
action one short lemma that places it.  From the invariant follow
`FenceIsInvariant`, the step property `LeaseOutlivesRecoveryHolds` and
`WriteLeaseRefinement`.  `CancelledIsInvariant` has its own induction (the
history of an item never shrinks, and ended work is never dispatched).
`OnlyDeathOpensTheFence` says how far the disagreement `second_writer` reaches: if
no worker is declared dead under running write work, every such worker keeps its
write intent, so the fence covers all of them.

`ExecutionProofs` proves for any constants that the supervised system
implements `WorkQueue` (`ExecutionImplementsWorkQueue`), so every theorem about
`WorkQueue` holds of it too (`FenceUnderExecution`), and the properties of
dispatch through the inductive `DispatchInv`: what a task at each step may
assume of its row (`TasksOK`), that at most one task per item is inside the lock
(`Exclusive`), that a task between recording and sending owns exactly one
attempt that no prompt has used (`LockMeaning`), and the counters' types
(`CountersOK`).  Two more inductions rest on it.  `WaitInv` says that work waiting
for an agent, and every task about to write so or to collect a result, had a
prompt that was accepted; it needs that no step of the queue itself makes work wait
(`HistoryKept`).  `RecoveryInv` counts: the recoveries on record and the tasks about to record another
exceed the limit by no more than the number of `Operators`: each call that passes
the check with an old counter costs one and no more.
`ParkedWorkWaits` is about work whose dispatch was cut off: no tick, however late,
and no crash moves it; an operator, a cancellation or its end does.  Two theorems
give the extent of findings, each under a hypothesis about whole behaviours that
the program meets in ordinary operation and that the counterexample breaks:
`SecondWriterNeedsDeath` (no writer is declared dead under its work) and
`StaleRecoveryNeedsTwoTasks` (supervisor and operator never work on one item at
once).  The second needs that an offer for a first dispatch comes only from a
row without attempts, which is a property of tasks as well as rows (`OfferInv`).

`SchedulerProofs` carries the theorems of the queue over to the scheduled system.
Its own invariant, `TickOK`, says that a tick's snapshots name workers and work
items and that it assigns only from them; that they may be out of date does not
matter, because `assign_work` checks again.  `RoomFor(n)` counts queued items and
submissions under way together: if never more than `n` submissions overlap, the
queue holds at most `MaxQueue + n - 1` items (`QueueOverrunIsBounded`), and with
one at a time a tick, which reads `max_queue_depth` of them, reads them all
(`TickSeesTheWholeQueue`).

`GatewayProofs` proves for any transports, sessions, handoffs and requests three
inductions.  `ShapeInv` says what a row, a handoff and a request at each await look like,
above all that a transport bound to a managed session has its endpoint
(`SoundBindings`), and that a request about to send a tool call carries such a
binding; with `Served`, that requests serve transports that exist,
`ToolCallsRunInTheirSession` follows.  `UpstreamInv` strengthens
`UpstreamsNotShared`: an upstream session a request has opened and not yet written is
that request's alone, and one that a claimant is about to delete is nobody's;
without these the property is lost at the write.  Most steps leave ownership alone
(`QuietSteps`, one lemma); five need their own.  The third invariant is
`OneClaimant /\ OneActiveHandoff`: a claimant that waits to
transfer or release its token finds it `claiming` and reserved for its own
transport.  With it each step of the gateway is a step of `ClaimToken` or leaves
the tokens alone (`HandoffImplementsClaimToken`).  `OneActiveHandoff` also shows
that the unique index on active handoffs never refuses a row, which is why no
action models that error.  `ClaimsMoveTheSession` is the extent of `claim_lost`: a
claim leaves the target pinned and bound whenever the two logical sessions differ.
`CutOffClaimsAreStuck` is about a reservation whose request a restart has ended:
no step ever takes it out of `claiming`, and no other handoff of its session
becomes live beside it.

`CapsuleProofs` proves for any capsules, agents and numbers of handoffs that
`CapsuleInv` is inductive: how far the call of a handoff is and what is on
record about it agree (`CallMatches`), what is on record is in order
(`LedgerInOrder`), what the holder of the lock has yet to append is still due when
it comes to it (`LockKept`: nothing outside the lock can take the decision
back), and until a request is on record its capsule stays as it was when the
lock was taken (`RequestHolds`).  `PendingIsLive` is part of it, in both
directions: what is pending is on record as undecided, and what is undecided is pending, unless a failed handoff has moved
the capsule.  For the refinement `CapsulesImplementOwnership`, which covers stage and
completion calls that name their agent, the invariant also says what a checked call
may still assume (`CallKept`): the agent it names owns the capsule, and as long as the
holder of the lock has not overtaken it, that holder is not about to commit a handoff
of the capsule.  The check found none pending, so a handoff that is to undo it must
be requested under the lock first, and a second operation under the lock cannot come
before the append.  A handoff that failed is the exception: it is not pending,
and may still commit.

`AccessProofs` first counts the claims on an approval: a code or token that is live, or
a request between consuming one and writing its successor.  `Lines` says that
there is at most one, `Spends` that nothing live was ever accepted, `Rows` that each
row descends from its approval and carries no scope that is not in it.

Of the cognitive router it proves that an answer belongs to its request up to other
requests of the same pane.  `CognitionInv` says that every marker in a pane and
every prompt on its way there carries a request that was put to that pane
(`PromptsWereAsked`, `AnswersWereAsked`), and that a request stays with its pane
while it waits (`PaneIsChosen`); what the search returns lies between markers, so
it is made of those.  Of the tunnels it proves that a row, a poll or a stop never
holds the pid of another tunnel's process, for pids the machine does not use twice.

`BackendProofs` proves of the pool, for any sessions, ports, transports and processes that no server
is lost or doubled and that calls go astray after a move only.  Since stops, the
idle sweep and the monitor ignore the start lock, the invariant is what its holder
may still assume at each of its steps (`LockKnows`): until it registers the
process it started, no other server of the session runs, and the row names that
process or nobody; while it waits, the register holds that process or nobody.
`ServersKnown` accounts for each process that was not told to stop, `RowsAgree`
is why a late word about an old process cannot mark a running one as failed
(the monitor writes only if the row still names the process that exited), and
`PortsReserved` is why an address leads to one session: a row reserves its port,
and whoever listens on a reserved port serves that row.

It is also about the three backends of managed sessions.  `DesktopInv`
needs that while the lock is held the slot a session moves to is nobody's until
its old desktop is stopped (`Untouched`), and that the slot it left is still its
own until the move is over, so that a rollback finds it free (`StillOwn`), even if the
registry is lost meanwhile.
`MachineInv` needs that memory and sidecar file are sound each by itself, since a
restart takes up the file (`Enrollment`), and that what was checked stays allowed
(`Decided`).  It also says that with tool permissions off a call that was not checked
has not run: no await lies between its two looks at the catalogue, which is
`UnfilteredCallsAreChecked`, the extent of `unchecked_call`.  `CommanderInv` needs that ids in the pipes are old ones, and
that what carries the id a call waits for is of that call's session
(`AwaitedIsOwn`).

`ServicesProofs` proves that each service behaves in `Services` as it does alone
(`ServicesStandAlone`: a step of the composition is a step of each service or leaves
it alone), so what the other two modules and `CapsuleProofs` prove of the services
holds of the composition that the run checks (`ServicesKeepTheirPromises`,
`ServicesTypesAreInvariant`, `ServicesImplementOwnership`).

Assumptions: the named `ASSUME`s of the modules only (null values are outside
the sets, the tables of constants have their types, bounds are naturals).  TLC
evaluates them in every run.

Model-checked only: the liveness properties, because no prover here does liveness:
`DispatchesEnd`, `RecoveryEnds`, `OrphanedWorkIsSettled`, `HeadOfQueueDoesNotBlock`
and `TunnelComesBack`.  Every invariant and every step property that a passing run
checks, the refinements among them, is stated by a theorem.

## 6. Where the code and its text disagree

* `second_writer`.  `ARCHITECTURE.md:80-82` promises that a degraded worker
  retains its lock while running work owns the workspace, so that recovery
  cannot open a second writer.  The worker monitor takes the lease from a busy
  worker that missed its heartbeat although its work still runs; another work
  item of the workspace may then be assigned; and the supervisor's next write
  to the first item makes its dead worker busy again, without a lease.  It
  takes an interruption longer than the heartbeat timeout, for instance a
  restart after an outage, in which the monitor's loop runs before the first
  heartbeat.  What does hold is `OneFencedWriterPerWorkspace`: two workers with
  *write intent* never run write work in one workspace; death withdraws the
  intent and the revival does not restore it.
* `cancel_lost`.  `db.py:2785` says that cancel-pending items eventually
  detach.  The supervisor writes its conclusions without looking again at the
  execution state, so a cancellation requested during a dispatch, a monitoring
  step or a recovery is overwritten.
* `stale_recovery`.  `_recover` decides from a row read earlier and takes no
  lock.  A recovery that read "no attempt yet" writes `assigned` over a
  dispatch made meanwhile; automatic dispatch then refuses the item because it
  has an attempt, and nothing monitors it.
* `claim_lost`.  `M6_2_5_CHATGPT_CONTROL_TOOLS.md:41-43` says that accepting a
  handoff binds the new transport to the managed session and only then unpins
  the source.  `transfer_session_handoff_ownership` pins the managed session on
  the target's logical session (`db.py:3424-3429`) and then clears the pin of
  the source's (`db.py:3440-3445`).  When a client reconnects under its stable
  identity the two are one logical session, so the claim leaves it unpinned, and
  the next tool call detaches the transport that just took over.
* `unchecked_call`.  `HIRDA_MACHINE_CAPABILITY_LAYER.md:61-62` says that effective
  authority is the intersection of the session's policy and the machine's.  The
  gateway asks whether a tool is a backend tool before it looks at the machine's
  policy (`gateway.py:2778-2781`, `2824-2827`) and again before it runs it
  (`gateway.py:2962-2968`), with awaits between.  A reconcile of the integration
  (`integrations.py:540-616`) makes the first answer no and the second yes, and the call
  runs with no machine asked.  It takes `managed_session_tool_permissions_enabled`, which
  is off by default, and a session that allows the class the tool has by its name alone.
  A call that was checked stays allowed (`CallsRunWhereAllowed`).

What the models show besides, without a run of its own:

* A transport that is bound while its server is stopped and then moves to
  another port keeps the old address (`managed_sessions.py:533-537`,
  `gateway.py:1412`), where another project's server may listen by then.
  `M6_2_3B_SESSION_MANAGER.md:42-45` says otherwise.  `StrayCallsFollowAMove` says
  that this is the only way a call goes astray.
* A handoff whose delivery failed to be confirmed cannot be withdrawn and stays
  pending unless its target reports, and then with a receipt that names no target
  session: one that names it is refused (`capsules.py:1472-1485`).  A handoff that asks
  for approval but not for validation commits on its acknowledgement alone (`Needs`).
* A receipt is refused once its handoff is on record as failed
  (`capsules.py:1491`); evidence and approval are not.  A handoff that its target
  acknowledged before the failure was recorded can therefore still be validated,
  approved and committed, beside another one of the capsule that was requested
  since, and a stage call that was checked in between may then name the former owner.
  `CapsuleOwnership` and `PendingIsLive` except such a capsule.
* A session bound to a remote machine runs the tools of integrations other than
  Desktop Commander, openbrowser's among them, in Studio's own process
  (`machine_router.py:205-238`), though the remote machine's policy is what is asked.
  `HIRDA_MACHINE_CAPABILITY_LAYER.md:56-57` says that a remote session never silently
  falls through to the local filesystem.
* A request for tokens that dies between consuming its secret and writing the
  next one ends the line of that approval.
* The end marker of an answer carries no request id, so an unfinished answer is
  returned together with the next one in its pane; `AnswersTheRequest` bounds
  this to requests put to the same pane.
* Two updates of a session's metadata lose one (`managed_sessions.py:663-675`,
  `machine_registry.py:342-352`).  A call that was decided before is not affected.
* A start of a tunnel that races a stop leaves a process that no row names, or a
  tunnel running that was stopped.  The property is therefore about tunnels that
  are wanted.
* The queue limit is read before the row is inserted (`main.py:1596`), so two
  submissions at once overrun it by one, and `n` by `n - 1`.  The tick reads no
  more than `max_queue_depth` items: with `MaxQueue = 1` and the head of the queue
  blocked by a lease, the second item is never read, and `HeadOfQueueDoesNotBlock`
  fails.  The run has room for both items.
* A handoff whose claim a restart cuts off stays `claiming` for ever, since only the
  claimant releases it, and from then on every handoff of that managed session is
  refused.
* Work whose dispatch a crash or a failed write cut off keeps the state of that
  step; no tick takes it up again, an operator has to.

## 7. Mutants

Every property of a passing run has a mutant, a plausible mistake in the code it
is about, for which the same run reports a violation.  Their operators stand
before the definitions they would replace, marked `Mutant:`, and nothing else
uses them.

## 8. Not modelled

Fault injection (`resilience_test_mode`), labels, results, audit and event rows,
metrics, the disk gauge and alerts.  Database errors other than the exceptions
the operations raise themselves.  Several Studio processes on one database:
`Database._run` locks within one process, and the program is deployed as one.

Graft: its profile is one row that `query`, `rearm` and `rollback` read, hold
across an await and write back; a module would restate that one overwriting,
which is listed under hazards.  Components without state of their own between
calls (classification of tools, action routing, reflexes, context fit), content
generation, discovery of plugins and probes of external programs are listed in
`PROJECT.json` with the reason.

In the modelled components: rendering of prompts and contracts, the order of
several events of one kind and more than one sweep at a time (capsules), hashes and
signatures (OAuth), latency probes and the Cloudflare API (tunnels), health probes,
agents whose pane cannot be read back (`cognitive_router.py:714-716`) and two requests of
one id at the same time (cognition), the shared mode, screenshots and input events
(desktops), disabled machines, sessions that let unclassified tools pass, scopes of
paths, the visual fallback of the browser, the transport to a remote machine and
its agent (machines), the list of tools (Desktop Commander), log files and the Serena
protocol (pool), the deletion of old rows by `cleanup_ephemera`
(`db.py:2881-2888`) and a release of a handoff that fails itself (gateway).

## 9. Where to go on

A second base server in `Gateway`, so that a reconnect may write the upstream
session of one server into a row bound to another; an abstract specification of a
line of grants for `OAuthGrants` to implement, in the manner of `ClaimToken`; an
abstract one of a server's life for `ManagedPool`; and the Graft circuit breaker
should it ever keep more than its one row.
