--------------------------- MODULE WorkQueueProofs ---------------------------
(***************************************************************************)
(* TLAPS proofs about WorkQueue, for any number of workers, work items and *)
(* workspaces.                                                             *)
(*                                                                         *)
(* QueueInv is inductive.  Its proof sorts the operations by what they do  *)
(* to the relation between running work, workers and leases: some leave it *)
(* alone (Kept), some withdraw workers (Withdrawn), some let a worker      *)
(* claim its own workspace (Claimed), and one assigns work.                *)
(***************************************************************************)
EXTENDS WorkQueue, TLAPS

USE DEF IsRunning, RunningOn, Writes, Holds, WaitingWork, LostItsWorker

-----------------------------------------------------------------------------
(* What the classes of operations do *)

SameRunning == \A k \in Works :
    /\ IsRunning(k)' = IsRunning(k)
    /\ IsRunning(k) => works'[k].worker = works[k].worker
    /\ WaitingWork(k)' => WaitingWork(k) /\ works'[k].worker = works[k].worker

\* Bindings, write intents and leases stay; a worker may become degraded, or
\* busy when it runs work or has nothing to fence.
Kept ==
    /\ SameRunning
    /\ leases' = leases
    /\ \A w \in Workers :
          /\ workers'[w].workspace = workers[w].workspace
          /\ workers'[w].leaseMode = workers[w].leaseMode
          /\ \/ workers'[w].state = workers[w].state
             \/ workers'[w].state = "busy" /\ (RunningOn(w) # {} \/ ~Writes(w))
             \/ workers'[w].state = "degraded"

\* The workers in D lose their leases.
Withdrawn(D) ==
    /\ leases' = LeasesWithout(D)
    /\ \A k \in Works :
          /\ IsRunning(k)' => IsRunning(k) /\ works'[k].worker = works[k].worker
          /\ IsRunning(k) /\ works[k].worker \notin D => IsRunning(k)'
          /\ WaitingWork(k)' => WaitingWork(k) /\ works'[k].worker = works[k].worker
    /\ \A w \in Workers \ D : workers'[w] = workers[w]
    /\ \A w \in D :
          /\ \/ \A k \in Works : ~(IsRunning(k)' /\ works'[k].worker = w)
             \/ /\ workers'[w].state = "dead"
                /\ workers'[w].workspace = workers[w].workspace
                /\ workers'[w].leaseMode = "none"
          /\ workers'[w].leaseMode = "none" \/ workers'[w].state # "busy"

\* Worker w is busy or degraded and takes or refreshes its own lease.
Claimed(w, s) ==
    /\ SameRunning
    /\ workers[w].workspace = s
    /\ Writes(w)
    /\ MayLease(w, s)
    /\ leases' = LeasesWith(s, w, NoWork)
    /\ \A v \in Workers \ {w} : workers'[v] = workers[v]
    /\ workers'[w].state \in {"busy", "degraded"}
    /\ workers'[w].workspace = workers[w].workspace
    /\ workers'[w].leaseMode = workers[w].leaseMode

-----------------------------------------------------------------------------
(* What every step does *)

\* Leases become free, or one free lease goes to a worker without a lease.
LeaseStep ==
    \/ \E S \in SUBSET Workspaces : \A s \in Workspaces :
          leases'[s].worker = IF s \in S THEN NoWorker ELSE leases[s].worker
    \/ \E w \in Workers, s \in Workspaces :
          /\ leases[s].worker = NoWorker
          /\ \A t \in Workspaces : leases[t].worker # w
          /\ \A t \in Workspaces :
                leases'[t].worker = IF t = s THEN w ELSE leases[t].worker

\* The step of LeaseOutlivesRecovery.
LeaseKept ==
    \A s \in Workspaces, k \in Works :
        (IsRunning(k) /\ Holds(works[k].worker, s) /\ works[k].worker \in Workers) =>
            \/ leases'[s].worker = works[k].worker
            \/ works'[k].state # "running"
            \/ workers'[works[k].worker].state = "dead"

\* A worker that runs write work has its write intent until it is declared dead.
IntentKept ==
    \A k \in Works : works'[k].state = "running" /\ LeaseModeOf[k] = "write" =>
        \/ workers'[works'[k].worker].leaseMode = "write"
        \/ workers'[works'[k].worker].state = "dead"
        \/ IsRunning(k) /\ ~Writes(works[k].worker)

Sound == QueueInv' /\ LeaseStep /\ LeaseKept /\ IntentKept

LEMMA NoTransfer ==
    ASSUME \A s \in Workspaces : leases'[s].worker = leases[s].worker
    PROVE  LeaseStep
  <1>1. PICK S \in SUBSET Workspaces : S = {}
      OBVIOUS
  <1>2. \A s \in Workspaces :
          leases'[s].worker = IF s \in S THEN NoWorker ELSE leases[s].worker
      BY <1>1
  <1> QED
      BY <1>2 DEF LeaseStep

LEMMA KeptPreserves ==
    ASSUME QueueInv, TypeOK', Kept
    PROVE  Sound
  <1>0. TypeOK
      BY DEF QueueInv
  <1>1. RunningWorkKeepsItsWorker'
      BY DEF QueueInv, RunningWorkKeepsItsWorker, Kept, SameRunning
  <1>2. OneRunningWorkPerWorker'
      BY DEF QueueInv, OneRunningWorkPerWorker, Kept, SameRunning
  <1>3. LeaseHasLiveWriter'
      BY <1>0 DEF QueueInv, LeaseHasLiveWriter, Kept, TypeOK, LeaseRow
  <1>4. LinkedLeaseIsRunning'
      BY <1>0 DEF QueueInv, LinkedLeaseIsRunning, Kept, SameRunning, TypeOK, LeaseRow
  <1>5. WriterIsFenced'
      BY DEF QueueInv, WriterIsFenced, Kept, SameRunning
  <1>6. WriteIntentFollowsWork'
      BY DEF QueueInv, WriteIntentFollowsWork, RunningWorkKeepsItsWorker, Kept, SameRunning
  <1>7. WaitingWorkHasNoWorker'
      BY DEF QueueInv, WaitingWorkHasNoWorker, Kept, SameRunning
  <1>8. LeaseStep
      BY NoTransfer DEF Kept
  <1>9. LeaseKept
      BY DEF Kept, LeaseKept
  <1>10. IntentKept
      BY DEF QueueInv, RunningWorkKeepsItsWorker, Kept, SameRunning, IntentKept
  <1> QED
      BY <1>1, <1>2, <1>3, <1>4, <1>5, <1>6, <1>7, <1>8, <1>9, <1>10 DEF QueueInv, Sound

LEMMA WithdrawnPreserves ==
    ASSUME QueueInv, TypeOK', NEW D \in SUBSET Workers, Withdrawn(D)
    PROVE  Sound
  <1>0. TypeOK
      BY DEF QueueInv
  <1>a. \A s \in Workspaces : leases[s].worker \notin D => leases'[s] = leases[s]
      BY DEF Withdrawn, LeasesWithout
  <1>b. \A s \in Workspaces : leases[s].worker \in D => leases'[s] = NoLease
      BY DEF Withdrawn, LeasesWithout
  <1>c. NoLease.worker = NoWorker /\ NoLease.work = NoWork
      BY DEF NoLease
  <1>1. RunningWorkKeepsItsWorker'
      BY DEF QueueInv, RunningWorkKeepsItsWorker, Withdrawn
  <1>2. OneRunningWorkPerWorker'
      BY DEF QueueInv, OneRunningWorkPerWorker, Withdrawn
  <1>3. LeaseHasLiveWriter'
      BY <1>0, <1>a, <1>b, <1>c DEF QueueInv, LeaseHasLiveWriter, Withdrawn, TypeOK, LeaseRow
  <1>4. LinkedLeaseIsRunning'
      BY <1>0, <1>a, <1>b, <1>c DEF QueueInv, LinkedLeaseIsRunning, Withdrawn, TypeOK, LeaseRow
  <1>5. WriterIsFenced'
      BY <1>a DEF QueueInv, WriterIsFenced, Withdrawn
  <1>6. WriteIntentFollowsWork'
      BY DEF QueueInv, WriteIntentFollowsWork, RunningWorkKeepsItsWorker, Withdrawn
  <1>7. WaitingWorkHasNoWorker'
      BY DEF QueueInv, WaitingWorkHasNoWorker, Withdrawn
  <1>8. LeaseStep
    <2>1. PICK S \in SUBSET Workspaces : S = {s \in Workspaces : leases[s].worker \in D}
        OBVIOUS
    <2>2. \A s \in Workspaces :
            leases'[s].worker = IF s \in S THEN NoWorker ELSE leases[s].worker
        BY <1>a, <1>b, <1>c, <2>1
    <2> QED
        BY <2>2 DEF LeaseStep
  <1>9. LeaseKept
      BY <1>a DEF Withdrawn, LeaseKept
  <1>10. IntentKept
      BY DEF QueueInv, RunningWorkKeepsItsWorker, Withdrawn, IntentKept
  <1> QED
      BY <1>1, <1>2, <1>3, <1>4, <1>5, <1>6, <1>7, <1>8, <1>9, <1>10 DEF QueueInv, Sound

LEMMA ClaimedPreserves ==
    ASSUME QueueInv, TypeOK', NEW w \in Workers, NEW s \in Workspaces, Claimed(w, s)
    PROVE  Sound
  <1>0. TypeOK
      BY DEF QueueInv
  <1>a. leases'[s].worker = w /\ leases'[s].work = NoWork
      BY <1>0 DEF Claimed, LeasesWith, TypeOK
  <1>b. \A t \in Workspaces \ {s} : leases'[t] = leases[t]
      BY <1>0 DEF Claimed, LeasesWith, TypeOK
  <1>1. RunningWorkKeepsItsWorker'
      BY DEF QueueInv, RunningWorkKeepsItsWorker, Claimed, SameRunning
  <1>2. OneRunningWorkPerWorker'
      BY DEF QueueInv, OneRunningWorkPerWorker, Claimed, SameRunning
  <1>3. LeaseHasLiveWriter'
      BY <1>0, <1>a, <1>b DEF QueueInv, LeaseHasLiveWriter, Claimed, TypeOK, LeaseRow
  <1>4. LinkedLeaseIsRunning'
      BY <1>0, <1>a, <1>b DEF QueueInv, LinkedLeaseIsRunning, Claimed, SameRunning, TypeOK, LeaseRow
  <1>5. WriterIsFenced'
      BY <1>a, <1>b, NullAssumption DEF QueueInv, WriterIsFenced, Claimed, SameRunning, MayLease
  <1>6. WriteIntentFollowsWork'
      BY DEF QueueInv, WriteIntentFollowsWork, RunningWorkKeepsItsWorker, Claimed, SameRunning
  <1>7. WaitingWorkHasNoWorker'
      BY DEF QueueInv, WaitingWorkHasNoWorker, Claimed, SameRunning
  <1>8. LeaseStep
    <2>1. CASE leases[s].worker = w
        BY <1>a, <1>b, <2>1, NoTransfer
    <2>2. CASE leases[s].worker = NoWorker
      <3>1. \A t \in Workspaces : leases[t].worker # w
          BY <2>2, NullAssumption DEF QueueInv, LeaseHasLiveWriter, Claimed
      <3>2. \A t \in Workspaces :
              leases'[t].worker = IF t = s THEN w ELSE leases[t].worker
          BY <1>a, <1>b
      <3> QED
          BY <2>2, <3>1, <3>2 DEF LeaseStep
    <2> QED
        BY <2>1, <2>2 DEF Claimed, MayLease
  <1>9. LeaseKept
      BY <1>a, <1>b, NullAssumption DEF Claimed, MayLease, LeaseKept
  <1>10. IntentKept
      BY DEF QueueInv, RunningWorkKeepsItsWorker, Claimed, SameRunning, IntentKept
  <1> QED
      BY <1>1, <1>2, <1>3, <1>4, <1>5, <1>6, <1>7, <1>8, <1>9, <1>10 DEF QueueInv, Sound

-----------------------------------------------------------------------------
(* Types of rows *)

LEMMA UnboundType ==
    ASSUME NEW row \in WorkerRow
    PROVE  /\ Unbound(row) \in WorkerRow
           /\ Unbound(row).state = "idle"
           /\ Unbound(row).leaseMode = "none"
  BY DEF Unbound, WorkerRow, WorkerStates, LeaseModes

LEMMA LeasesWithoutType ==
    ASSUME TypeOK, NEW S
    PROVE  LeasesWithout(S) \in [Workspaces -> LeaseRow]
  BY DEF TypeOK, LeasesWithout, NoLease, LeaseRow

LEMMA LeasesWithType ==
    ASSUME TypeOK, NEW s \in Workspaces, NEW w \in Workers, NEW k \in Works \cup {NoWork}
    PROVE  LeasesWith(s, w, k) \in [Workspaces -> LeaseRow]
  BY DEF TypeOK, LeasesWith, LeaseRow

-----------------------------------------------------------------------------
(* One lemma per operation *)

LEMMA InitEstablishes == Init => QueueInv
  <1> SUFFICES ASSUME Init PROVE QueueInv
      OBVIOUS
  <1>1. TypeOK
      BY NullAssumption, BoundAssumption DEF Init, TypeOK, NewWorker, NewWork, NoLease, WorkerRow, WorkRow, LeaseRow,
         WorkerStates, LeaseModes, WorkStates, ExecutionStates
  <1>2. \A k \in Works : ~IsRunning(k)
      BY DEF Init, NewWork
  <1>3. \A s \in Workspaces : leases[s].worker = NoWorker /\ leases[s].work = NoWork
      BY DEF Init, NoLease
  <1>4. \A w \in Workers : ~Writes(w)
      BY DEF Init, NewWorker
  <1>5. WaitingWorkHasNoWorker
      BY DEF Init, NewWork, WaitingWorkHasNoWorker
  <1> QED
      BY <1>1, <1>2, <1>3, <1>4, <1>5 DEF QueueInv, RunningWorkKeepsItsWorker,
         OneRunningWorkPerWorker, LeaseHasLiveWriter, LinkedLeaseIsRunning,
         WriterIsFenced, WriteIntentFollowsWork

LEMMA EnsureWorkersPreserves ==
    ASSUME QueueInv, NEW pool \in Pools, EnsureWorkers(pool)
    PROVE  Sound
  <1>0. TypeOK
      BY DEF QueueInv
  <1>1. \A w \in Workers : \E b \in BOOLEAN : workers'[w] = [workers[w] EXCEPT !.enabled = b]
    <2> TAKE w \in Workers
    <2>1. workers'[w] = [workers[w] EXCEPT !.enabled = (w \in pool)]
        BY Zenon DEF EnsureWorkers
    <2>2. (w \in pool) \in BOOLEAN
        OBVIOUS
    <2> QED
        BY <2>1, <2>2, Zenon
  <1>2. workers' = [w \in Workers |-> workers'[w]]
      BY Zenon DEF EnsureWorkers
  <1>3. \A w \in Workers : /\ workers'[w] \in WorkerRow
                           /\ workers'[w].state = workers[w].state
                           /\ workers'[w].workspace = workers[w].workspace
                           /\ workers'[w].leaseMode = workers[w].leaseMode
    <2> DEFINE new(row, b) == [row EXCEPT !.enabled = b]
    <2>1. ASSUME NEW row \in WorkerRow, NEW b \in BOOLEAN
          PROVE  /\ new(row, b) \in WorkerRow
                 /\ new(row, b).state = row.state
                 /\ new(row, b).workspace = row.workspace
                 /\ new(row, b).leaseMode = row.leaseMode
        BY DEF WorkerRow
    <2> TAKE w \in Workers
    <2>2. PICK b \in BOOLEAN : workers'[w] = new(workers[w], b)
        BY <1>1
    <2>3. workers[w] \in WorkerRow
        BY <1>0 DEF TypeOK
    <2> HIDE DEF new
    <2> QED
        BY <2>1, <2>2, <2>3
  <1>4. TypeOK'
      BY <1>0, <1>2, <1>3 DEF EnsureWorkers, TypeOK
  <1>5. Kept
      BY <1>3 DEF EnsureWorkers, Kept, SameRunning
  <1> QED
      BY <1>4, <1>5, KeptPreserves

LEMMA BindWorkerPreserves ==
    ASSUME QueueInv, NEW w \in Workers, NEW s \in Workspaces, NEW mode \in LeaseModes,
           BindWorker(w, s, mode)
    PROVE  Sound
  <1>0. TypeOK
      BY DEF QueueInv
  <1>1. TypeOK'
    <2>1. (workers \in [Workers -> WorkerRow])'
        BY <1>0 DEF BindWorker, TypeOK, WorkerRow, WorkerStates
    <2> QED
        BY <1>0, <2>1, LeasesWithoutType DEF TypeOK, BindWorker
  <1>2. Withdrawn({w})
    <2>1. workers'[w].state = "idle" /\ \A v \in Workers \ {w} : workers'[v] = workers[v]
        BY <1>0 DEF BindWorker, TypeOK, WorkerRow
    <2> QED
        BY <2>1 DEF BindWorker, Withdrawn
  <1> QED
      BY <1>1, <1>2, WithdrawnPreserves

LEMMA ReleaseWorkerPreserves ==
    ASSUME QueueInv, NEW w \in Workers, ReleaseWorker(w)
    PROVE  Sound
  <1>0. TypeOK
      BY DEF QueueInv
  <1>1. TypeOK'
      BY <1>0, UnboundType, LeasesWithoutType DEF ReleaseWorker, TypeOK
  <1>2. Withdrawn({w})
      BY <1>0, UnboundType DEF ReleaseWorker, Withdrawn, TypeOK
  <1> QED
      BY <1>1, <1>2, WithdrawnPreserves

\* What heartbeat_worker and set_worker_state do to the row of the worker.
LEMMA EnterStateEffect ==
    ASSUME TypeOK, NEW w \in Workers, NEW state \in WorkerStates, EnterState(w, state)
    PROVE  /\ workers' \in [Workers -> WorkerRow]
           /\ \A v \in Workers \ {w} : workers'[v] = workers[v]
           /\ workers'[w].state = state
           /\ workers'[w].workspace = workers[w].workspace
           /\ workers'[w].leaseMode = IF state = "dead" THEN "none" ELSE workers[w].leaseMode
  <1> DEFINE row == [workers[w] EXCEPT !.state = state,
                                       !.leaseMode = IF state = "dead" THEN "none"
                                                     ELSE workers[w].leaseMode,
                                       !.fresh = TRUE]
  <1>1. workers[w] \in WorkerRow
      BY DEF TypeOK
  <1>2. CASE state = "dead"
    <2>1. row \in WorkerRow /\ row.state = state /\ row.workspace = workers[w].workspace
             /\ row.leaseMode = "none"
        BY <1>1, <1>2 DEF WorkerRow, LeaseModes
    <2>2. workers' = [workers EXCEPT ![w] = row]
        BY DEF EnterState
    <2> HIDE DEF row
    <2> QED
        BY <1>2, <2>1, <2>2 DEF TypeOK
  <1>3. CASE state # "dead"
    <2>1. row \in WorkerRow /\ row.state = state /\ row.workspace = workers[w].workspace
             /\ row.leaseMode = workers[w].leaseMode
        BY <1>1, <1>3 DEF WorkerRow
    <2>2. workers' = [workers EXCEPT ![w] = row]
        BY DEF EnterState
    <2> HIDE DEF row
    <2> QED
        BY <1>3, <2>1, <2>2 DEF TypeOK
  <1> QED
      BY <1>2, <1>3

LEMMA EnterStateWithdraws ==
    ASSUME QueueInv, NEW w \in Workers, NEW state \in {"idle", "dead"},
           MayEnter(w, state), EnterState(w, state),
           leases' = LeasesWithout({w}), UNCHANGED works
    PROVE  Sound
  <1>0. TypeOK /\ state \in WorkerStates
      BY DEF QueueInv, WorkerStates
  <1>1. TypeOK'
      BY <1>0, EnterStateEffect, LeasesWithoutType DEF TypeOK
  <1>2. Withdrawn({w})
      BY <1>0, EnterStateEffect DEF MayEnter, Withdrawn
  <1> QED
      BY <1>1, <1>2, WithdrawnPreserves

LEMMA EnterStateClaims ==
    ASSUME QueueInv, NEW w \in Workers, NEW state \in {"busy", "degraded"},
           workers[w].workspace # NoWorkspace, Writes(w), EnterState(w, state),
           ClaimOwnWorkspace(w), UNCHANGED works
    PROVE  Sound
  <1>0. TypeOK /\ state \in WorkerStates
      BY DEF QueueInv, WorkerStates
  <1>1. workers[w].workspace \in Workspaces
      BY <1>0 DEF TypeOK, WorkerRow
  <1>2. TypeOK'
      BY <1>0, <1>1, EnterStateEffect, LeasesWithType DEF TypeOK, ClaimOwnWorkspace
  <1>3. Claimed(w, workers[w].workspace)
      BY <1>0, EnterStateEffect DEF Claimed, SameRunning, ClaimOwnWorkspace
  <1> QED
      BY <1>1, <1>2, <1>3, ClaimedPreserves

LEMMA EnterStateKeeps ==
    ASSUME QueueInv, NEW w \in Workers, NEW state \in {"busy", "degraded"},
           state = "degraded" \/ ~Writes(w), EnterState(w, state),
           UNCHANGED <<leases, works>>
    PROVE  Sound
  <1>0. TypeOK /\ state \in WorkerStates
      BY DEF QueueInv, WorkerStates
  <1>1. TypeOK'
      BY <1>0, EnterStateEffect DEF TypeOK
  <1>2. Kept
      BY <1>0, EnterStateEffect DEF Kept, SameRunning
  <1> QED
      BY <1>1, <1>2, KeptPreserves

LEMMA HeartbeatWorkerPreserves ==
    ASSUME QueueInv, NEW w \in Workers, NEW state \in WorkerStates, HeartbeatWorker(w, state)
    PROVE  Sound
  <1>0. MayEnter(w, state) /\ EnterState(w, state) /\ UNCHANGED works
      BY DEF HeartbeatWorker
  <1>1. CASE state \in {"idle", "dead"} /\ leases' = LeasesWithout({w})
      BY <1>0, <1>1, EnterStateWithdraws
  <1>2. CASE /\ state \in {"busy", "degraded"}
             /\ workers[w].workspace # NoWorkspace
             /\ Writes(w)
             /\ ClaimOwnWorkspace(w)
      BY <1>0, <1>2, EnterStateClaims
  <1>3. CASE /\ state \in {"busy", "degraded"}
             /\ workers[w].workspace = NoWorkspace \/ ~Writes(w)
             /\ UNCHANGED leases
      BY <1>0, <1>3, EnterStateKeeps DEF MayEnter
  <1> QED
      BY <1>1, <1>2, <1>3 DEF HeartbeatWorker

LEMMA SetWorkerStatePreserves ==
    ASSUME QueueInv, NEW w \in Workers, NEW state \in WorkerStates, SetWorkerState(w, state)
    PROVE  Sound
  <1>0. MayEnter(w, state) /\ EnterState(w, state) /\ UNCHANGED works
      BY DEF SetWorkerState
  <1>1. CASE state \in {"idle", "dead"} /\ leases' = LeasesWithout({w})
      BY <1>0, <1>1, EnterStateWithdraws
  <1>2. CASE state = "busy" /\ Writes(w) /\ ClaimOwnWorkspace(w)
      BY <1>0, <1>2, EnterStateClaims DEF MayEnter
  <1>3. CASE (state = "degraded" \/ (state = "busy" /\ ~Writes(w))) /\ UNCHANGED leases
      BY <1>0, <1>3, EnterStateKeeps
  <1> QED
      BY <1>1, <1>2, <1>3 DEF SetWorkerState

LEMMA HeartbeatExpiresPreserves ==
    ASSUME QueueInv, NEW w \in Workers, HeartbeatExpires(w)
    PROVE  Sound
  <1>0. TypeOK
      BY DEF QueueInv
  <1>1. TypeOK'
      BY <1>0 DEF HeartbeatExpires, TypeOK, WorkerRow
  <1>2. Kept
      BY <1>0 DEF HeartbeatExpires, Kept, SameRunning, TypeOK, WorkerRow
  <1> QED
      BY <1>1, <1>2, KeptPreserves

LEMMA MarkStaleBusyWorkersPreserves ==
    ASSUME QueueInv, MarkStaleBusyWorkers
    PROVE  Sound
  <1> DEFINE stale == {w \in Workers : workers[w].enabled /\ workers[w].state = "busy"
                                        /\ ~workers[w].fresh}
             dead(row) == [row EXCEPT !.state = "dead", !.leaseMode = "none"]
  <1>0. TypeOK
      BY DEF QueueInv
  <1>1. ASSUME NEW row \in WorkerRow
        PROVE  /\ dead(row) \in WorkerRow
               /\ dead(row).state = "dead"
               /\ dead(row).workspace = row.workspace
               /\ dead(row).leaseMode = "none"
      BY DEF WorkerRow, WorkerStates, LeaseModes
  <1>2. /\ leases' = LeasesWithout(stale)
        /\ workers' = [w \in Workers |-> IF w \in stale THEN dead(workers[w]) ELSE workers[w]]
        /\ works' = works
      BY DEF MarkStaleBusyWorkers
  <1>3. stale \in SUBSET Workers
      OBVIOUS
  <1> HIDE DEF stale, dead
  <1>4. TypeOK'
      BY <1>0, <1>1, <1>2, LeasesWithoutType DEF TypeOK
  <1>5. PICK D \in SUBSET Workers : D = stale
      BY <1>3
  <1>6. Withdrawn(D)
      BY <1>0, <1>1, <1>2, <1>5 DEF Withdrawn, TypeOK
  <1> QED
      BY <1>4, <1>6, WithdrawnPreserves

LEMMA CreateWorkPreserves ==
    ASSUME QueueInv, NEW k \in Works, CreateWork(k)
    PROVE  Sound
  <1>0. TypeOK
      BY DEF QueueInv
  <1>1. TypeOK'
      BY <1>0 DEF CreateWork, TypeOK, WorkRow, WorkStates
  <1>2. Kept
      BY <1>0 DEF CreateWork, Kept, SameRunning, TypeOK, WorkRow
  <1> QED
      BY <1>1, <1>2, KeptPreserves

\* What ends one running work item and returns its worker to the pool.
LEMMA CloseType ==
    ASSUME TypeOK, NEW k \in Works,
           NEW state \in {"completed", "failed", "cancelled", "detached"}, Close(k, state)
    PROVE  /\ works' \in [Works -> WorkRow]
           /\ works'[k].state = state
           /\ works'[k].worker = works[k].worker
           /\ \A j \in Works \ {k} : works'[j] = works[j]
  BY DEF Close, TypeOK, WorkRow, WorkStates, ExecutionStates

LEMMA ClosePreserves ==
    ASSUME QueueInv, NEW k \in Works,
           NEW state \in {"completed", "failed", "cancelled", "detached"},
           works[k].state \in {"queued", "running"},
           ReturnWorkerOf(k), Close(k, state)
    PROVE  Sound
  <1>0. TypeOK
      BY DEF QueueInv
  <1>1. PICK D \in SUBSET Workers : D = {works[k].worker} \ {NoWorker}
      BY <1>0 DEF TypeOK, WorkRow
  <1>2. TypeOK'
      BY <1>0, CloseType, UnboundType, LeasesWithoutType DEF ReturnWorkerOf, TypeOK
  <1>3. /\ \A w \in Workers \ D : workers'[w] = workers[w]
        /\ \A w \in D : workers'[w] = Unbound(workers[w])
      BY <1>0, <1>1, NullAssumption DEF ReturnWorkerOf, TypeOK
  <1>a. \A w \in D : workers'[w].state = "idle"
      BY <1>0, <1>1, <1>3, UnboundType DEF TypeOK
  <1>4. \A j \in Works : /\ IsRunning(j)' => IsRunning(j) /\ works'[j].worker = works[j].worker
                         /\ IsRunning(j) /\ j # k => IsRunning(j)'
                         /\ IsRunning(j)' => j # k
                         /\ WaitingWork(j)' => WaitingWork(j) /\ works'[j].worker = works[j].worker
      BY <1>0, CloseType
  <1>5. Withdrawn(D)
    <2>1. \A w \in D, j \in Works : ~(IsRunning(j)' /\ works'[j].worker = w)
        BY <1>1, <1>4 DEF QueueInv, OneRunningWorkPerWorker, WaitingWorkHasNoWorker
    <2>2. IsRunning(k) => works[k].worker \in D
        BY <1>1, NullAssumption DEF QueueInv, RunningWorkKeepsItsWorker
    <2>3. leases' = LeasesWithout(D)
        BY <1>1 DEF ReturnWorkerOf
    <2>4. \A w \in D : workers'[w].state # "busy"
        BY <1>a
    <2> QED
        BY <1>3, <1>4, <2>1, <2>2, <2>3, <2>4 DEF Withdrawn
  <1> QED
      BY <1>2, <1>5, WithdrawnPreserves

LEMMA FinishWorkPreserves ==
    ASSUME QueueInv, NEW k \in Works, NEW outcome \in {"completed", "failed"},
           FinishWork(k, outcome)
    PROVE  Sound
  BY ClosePreserves DEF FinishWork

LEMMA DetachWorkPreserves ==
    ASSUME QueueInv, NEW k \in Works, DetachWork(k)
    PROVE  Sound
  BY ClosePreserves DEF DetachWork

\* A write to columns of one work item other than its state and its worker.
LEMMA ColumnsPreserve ==
    ASSUME QueueInv, NEW k \in Works, NEW row \in WorkRow,
           row.state = works[k].state, row.worker = works[k].worker,
           works' = [works EXCEPT ![k] = row], UNCHANGED <<workers, leases>>
    PROVE  Sound
  <1>0. TypeOK
      BY DEF QueueInv
  <1>1. TypeOK'
      BY <1>0 DEF TypeOK
  <1>2. Kept
      BY <1>0 DEF Kept, SameRunning, TypeOK
  <1> QED
      BY <1>1, <1>2, KeptPreserves

LEMMA RequestCancelWorkPreserves ==
    ASSUME QueueInv, NEW k \in Works, RequestCancelWork(k)
    PROVE  Sound
  <1>1. CASE ReturnWorkerOf(k) /\ Close(k, "cancelled")
      BY <1>1, ClosePreserves DEF RequestCancelWork
  <1>2. CASE /\ works' = [works EXCEPT ![k] = [@ EXCEPT !.execution = "cancel_pending",
                                                        !.due = FALSE]]
             /\ UNCHANGED <<workers, leases>>
    <2> DEFINE row == [works[k] EXCEPT !.execution = "cancel_pending", !.due = FALSE]
    <2>1. works[k] \in WorkRow
        BY DEF QueueInv, TypeOK
    <2>2. row \in WorkRow /\ row.state = works[k].state /\ row.worker = works[k].worker
        BY <2>1 DEF WorkRow, ExecutionStates
    <2>3. works' = [works EXCEPT ![k] = row]
        BY <1>2
    <2> HIDE DEF row
    <2>4. PICK r \in WorkRow : r = row
        BY <2>2
    <2> QED
        BY <1>2, <2>2, <2>3, <2>4, ColumnsPreserve
  <1> QED
      BY <1>1, <1>2 DEF RequestCancelWork

LEMMA CancelGraceElapsesPreserves ==
    ASSUME QueueInv, NEW k \in Works, CancelGraceElapses(k)
    PROVE  Sound
  <1>1. works[k] \in WorkRow
      BY DEF QueueInv, TypeOK
  <1>2. PICK row \in WorkRow : row = [works[k] EXCEPT !.due = TRUE]
      BY <1>1 DEF WorkRow
  <1>3. row.state = works[k].state /\ row.worker = works[k].worker
      BY <1>1, <1>2 DEF WorkRow
  <1>4. works' = [works EXCEPT ![k] = row] /\ UNCHANGED <<workers, leases>>
      BY <1>2 DEF CancelGraceElapses
  <1> QED
      BY <1>3, <1>4, ColumnsPreserve

LEMMA AssignWorkPreserves ==
    ASSUME QueueInv, NEW k \in Works, NEW w \in Workers, AssignWork(k, w)
    PROVE  Sound
  <1> DEFINE s == WorkspaceOf[k]
  <1>0. TypeOK /\ s \in Workspaces /\ LeaseModeOf[k] \in LeaseModes
      BY SubmissionAssumption DEF QueueInv, LeaseModes
  <1>a. /\ workers' \in [Workers -> WorkerRow]
        /\ workers'[w].state = "busy"
        /\ workers'[w].workspace = s
        /\ workers'[w].leaseMode = LeaseModeOf[k]
        /\ \A v \in Workers \ {w} : workers'[v] = workers[v]
      BY <1>0 DEF AssignWork, TypeOK, WorkerRow, WorkerStates
  <1>b. /\ works' \in [Works -> WorkRow]
        /\ works'[k].state = "running"
        /\ works'[k].worker = w
        /\ \A j \in Works \ {k} : works'[j] = works[j]
    <2>1. PICK e \in ExecutionStates :
            works' = [works EXCEPT ![k] = [works[k] EXCEPT !.state = "running", !.worker = w,
                                                           !.execution = e]]
        BY DEF AssignWork, ExecutionStates
    <2>2. works[k] \in WorkRow
        BY <1>0 DEF TypeOK
    <2>3. PICK row \in WorkRow : row = [works[k] EXCEPT !.state = "running", !.worker = w,
                                                       !.execution = e]
        BY <2>2 DEF WorkRow, WorkStates
    <2>4. row.state = "running" /\ row.worker = w
        BY <2>2, <2>3 DEF WorkRow
    <2> QED
        BY <1>0, <2>1, <2>3, <2>4 DEF TypeOK
  <1>c. RunningOn(w) = {} /\ ~IsRunning(k)
      BY DEF QueueInv, RunningWorkKeepsItsWorker, AssignWork
  <1>d. /\ leases' \in [Workspaces -> LeaseRow]
        /\ \A t \in Workspaces \ {s} : leases'[t] = leases[t]
        /\ LeaseModeOf[k] = "write" =>
             /\ leases[s].worker \in {NoWorker, w}
             /\ leases'[s].worker = w
             /\ leases'[s].work = k
        /\ LeaseModeOf[k] # "write" => leases' = leases
      BY <1>0, LeasesWithType DEF AssignWork, LeasesWith, MayLease, TypeOK
  <1>e. \A t \in Workspaces : leases[t].worker # w
      BY NullAssumption DEF QueueInv, LeaseHasLiveWriter, AssignWork
  <1> HIDE DEF s
  <1>1. TypeOK'
      BY <1>a, <1>b, <1>d DEF TypeOK
  <1>2. RunningWorkKeepsItsWorker'
      BY <1>a, <1>b, <1>c DEF QueueInv, RunningWorkKeepsItsWorker, s
  <1>3. OneRunningWorkPerWorker'
      BY <1>b, <1>c DEF QueueInv, OneRunningWorkPerWorker
  <1>4. LeaseHasLiveWriter'
      BY <1>0, <1>a, <1>d, <1>e DEF QueueInv, LeaseHasLiveWriter, TypeOK, LeaseRow
  <1>5. LinkedLeaseIsRunning'
      BY <1>0, <1>b, <1>c, <1>d DEF QueueInv, LinkedLeaseIsRunning, TypeOK, LeaseRow, s
  <1>6. WriterIsFenced'
      BY <1>0, <1>a, <1>b, <1>c, <1>d, <1>e, NullAssumption DEF QueueInv, WriterIsFenced
  <1>7. WriteIntentFollowsWork'
      BY <1>a, <1>b, <1>c DEF QueueInv, WriteIntentFollowsWork, RunningWorkKeepsItsWorker
  <1>8. WaitingWorkHasNoWorker'
      BY <1>b DEF QueueInv, WaitingWorkHasNoWorker
  <1>9. LeaseStep
    <2>1. CASE LeaseModeOf[k] = "write"
      <3>1. leases[s].worker = NoWorker
          BY <1>0, <1>d, <1>e, <2>1
      <3>2. \A t \in Workspaces :
              leases'[t].worker = IF t = s THEN w ELSE leases[t].worker
          BY <1>d, <2>1
      <3> QED
          BY <1>0, <1>e, <3>1, <3>2 DEF LeaseStep
    <2>2. CASE LeaseModeOf[k] # "write"
        BY <1>d, <2>2, NoTransfer
    <2> QED
        BY <2>1, <2>2
  <1>10. LeaseKept
      BY <1>0, <1>c, <1>d, <1>e, NullAssumption DEF LeaseKept
  <1>11. IntentKept
      BY <1>a, <1>b, <1>c DEF QueueInv, RunningWorkKeepsItsWorker, IntentKept
  <1> QED
      BY <1>1, <1>2, <1>3, <1>4, <1>5, <1>6, <1>7, <1>8, <1>9, <1>10, <1>11 DEF QueueInv, Sound

LEMMA HeartbeatRunningWorkPreserves ==
    ASSUME QueueInv, HeartbeatRunningWork
    PROVE  Sound
  <1>0. TypeOK
      BY DEF QueueInv
  <1>1. \A row \in WorkerRow : LET new == [row EXCEPT !.fresh = TRUE]
                               IN  /\ new \in WorkerRow
                                   /\ new.state = row.state
                                   /\ new.workspace = row.workspace
                                   /\ new.leaseMode = row.leaseMode
      BY DEF WorkerRow
  <1>2. TypeOK'
      BY <1>0, <1>1 DEF HeartbeatRunningWork, TypeOK
  <1>3. Kept
      BY <1>0, <1>1 DEF HeartbeatRunningWork, Kept, SameRunning, TypeOK
  <1> QED
      BY <1>2, <1>3, KeptPreserves

LEMMA UpdateType ==
    ASSUME NEW u \in ExecutionUpdates
    PROVE  /\ u.execution \in ExecutionStates
           /\ u.increment \in BOOLEAN
           /\ u.mark \in BOOLEAN
  <1>1. ASSUME NEW e \in ExecutionStates, NEW i \in BOOLEAN, NEW m \in BOOLEAN, u = Update(e, i, m)
        PROVE  u.execution = e /\ u.increment = i /\ u.mark = m
      BY <1>1 DEF Update
  <1>2. CASE u = Update("dispatching", TRUE, FALSE)
      BY <1>1, <1>2 DEF ExecutionStates
  <1>3. CASE u = Update("waiting_agent", FALSE, TRUE)
      BY <1>1, <1>3 DEF ExecutionStates
  <1>4. CASE \E e \in {"assigned", "waiting_agent", "reconnecting", "recovering",
                        "stalled", "dispatch_uncertain"} : u = Update(e, FALSE, FALSE)
      BY <1>1, <1>4 DEF ExecutionStates
  <1> QED
      BY <1>2, <1>3, <1>4, Zenon DEF ExecutionUpdates

LEMMA UpdateWorkExecutionPreserves ==
    ASSUME QueueInv, NEW k \in Works, NEW u \in ExecutionUpdates, UpdateWorkExecution(k, u)
    PROVE  Sound
  <1>0. TypeOK /\ works[k].worker \in Workers
      BY DEF QueueInv, RunningWorkKeepsItsWorker, UpdateWorkExecution
  <1>1. u.execution \in ExecutionStates /\ u.increment \in BOOLEAN /\ u.mark \in BOOLEAN
      BY UpdateType
  <1>2. works[k] \in WorkRow
      BY <1>0 DEF TypeOK
  <1>3. PICK n \in 0 .. MaxAttempts, b \in BOOLEAN :
          works' = [works EXCEPT ![k] = [works[k] EXCEPT !.execution = u.execution,
                                                         !.attempts = n,
                                                         !.dispatched = b]]
    <2>1. works[k].attempts + (IF u.increment THEN 1 ELSE 0) \in 0 .. MaxAttempts
      <3>1. works[k].attempts \in 0 .. MaxAttempts
          BY <1>2 DEF WorkRow
      <3>2. u.increment => works[k].attempts < MaxAttempts
          BY DEF UpdateWorkExecution
      <3> QED
          BY <3>1, <3>2, BoundAssumption
    <2>2. (works[k].dispatched \/ u.mark) \in BOOLEAN
        OBVIOUS
    <2> QED
        BY <2>1, <2>2, Zenon DEF UpdateWorkExecution
  <1>4. PICK row \in WorkRow : row = [works[k] EXCEPT !.execution = u.execution,
                                                      !.attempts = n,
                                                      !.dispatched = b]
      BY <1>1, <1>2 DEF WorkRow
  <1>5. row.state = works[k].state /\ row.worker = works[k].worker
      BY <1>2, <1>4 DEF WorkRow
  <1>6. \A r \in WorkerRow : LET new == [r EXCEPT !.state = "busy", !.fresh = TRUE]
                             IN  /\ new \in WorkerRow
                                 /\ new.state = "busy"
                                 /\ new.workspace = r.workspace
                                 /\ new.leaseMode = r.leaseMode
      BY DEF WorkerRow, WorkerStates
  <1>7. works' = [works EXCEPT ![k] = row]
      BY <1>3, <1>4
  <1>8. k \in RunningOn(works[k].worker)
      BY DEF UpdateWorkExecution
  <1>9. TypeOK'
      BY <1>0, <1>6, <1>7 DEF UpdateWorkExecution, TypeOK
  <1>10. SameRunning
      BY <1>0, <1>5, <1>7 DEF SameRunning, TypeOK
  <1>11. Kept
      BY <1>0, <1>6, <1>8, <1>10 DEF UpdateWorkExecution, Kept, TypeOK
  <1> QED
      BY <1>9, <1>11, KeptPreserves

LEMMA MarkWorkerDegradedForWorkPreserves ==
    ASSUME QueueInv, NEW k \in Works, MarkWorkerDegradedForWork(k)
    PROVE  Sound
  <1>0. TypeOK /\ works[k].worker \in Workers
      BY DEF QueueInv, TypeOK, WorkRow, MarkWorkerDegradedForWork
  <1>1. \A r \in WorkerRow : LET new == [r EXCEPT !.state = "degraded", !.fresh = TRUE]
                             IN  /\ new \in WorkerRow
                                 /\ new.state = "degraded"
                                 /\ new.workspace = r.workspace
                                 /\ new.leaseMode = r.leaseMode
      BY DEF WorkerRow, WorkerStates
  <1>2. TypeOK'
      BY <1>0, <1>1 DEF MarkWorkerDegradedForWork, TypeOK
  <1>3. Kept
      BY <1>0, <1>1 DEF MarkWorkerDegradedForWork, Kept, SameRunning, TypeOK
  <1> QED
      BY <1>2, <1>3, KeptPreserves

\* The reconciler withdraws the workers of overdue cancellations and of orphaned
\* work and the busy workers without work; its last pass then finds no lease
\* to collect, since every lease that is left has a live, running owner.
LEMMA ReconcilePreserves ==
    ASSUME QueueInv, ReconcileOperations
    PROVE  Sound
  <1> DEFINE
        running == {k \in Works : IsRunning(k)}
        overdue == {k \in running : works[k].execution = "cancel_pending" /\ works[k].due}
        freed == {w \in Workers : \E k \in overdue : works[k].worker = w}
        pool1 == [w \in Workers |-> IF w \in freed THEN Unbound(workers[w]) ELSE workers[w]]
        orphans == {k \in running \ overdue : LostItsWorker(k, pool1)}
        hosts == {w \in Workers : \E k \in orphans : works[k].worker = w}
        remaining == running \ (overdue \cup orphans)
        strays == {w \in Workers : /\ pool1[w].state = "busy"
                                   /\ \A k \in remaining : works[k].worker # w}
        pool2 == [w \in Workers |-> IF w \in strays THEN Unbound(pool1[w]) ELSE pool1[w]]
        held == LeasesWithout(freed \cup hosts \cup strays)
        Valid(s) == LET l == held[s] IN
            /\ l.worker \in Workers
            /\ pool2[l.worker].workspace = s
            /\ pool2[l.worker].leaseMode = "write"
            /\ pool2[l.worker].state \in {"busy", "degraded"}
            /\ l.work # NoWork =>
                 \E k \in remaining : works[k].worker = l.worker /\ WorkspaceOf[k] = s
        over == overdue \cup orphans
  <1>0. TypeOK
      BY DEF QueueInv
  <1>1. /\ works' = [k \in Works |->
                       IF k \in over
                       THEN [works[k] EXCEPT !.state = "detached", !.execution = "detached"]
                       ELSE works[k]]
        /\ workers' = pool2
        /\ leases' = [s \in Workspaces |-> IF Valid(s) THEN held[s] ELSE NoLease]
      BY DEF ReconcileOperations
  <1>2. PICK D \in SUBSET Workers : D = freed \cup hosts \cup strays
      OBVIOUS
  <1>3. /\ over \subseteq running
        /\ running \subseteq Works
        /\ remaining = running \ over
        /\ \A k \in over : works[k].worker \in freed \cup hosts
      BY DEF QueueInv, RunningWorkKeepsItsWorker
  <1>4. \A w \in Workers : /\ pool1[w] \in WorkerRow
                           /\ w \notin freed => pool1[w] = workers[w]
                           /\ w \in freed => pool1[w].state = "idle"
      BY <1>0, UnboundType DEF TypeOK
  <1>5. \A w \in Workers : /\ pool2[w] \in WorkerRow
                           /\ w \notin strays => pool2[w] = pool1[w]
                           /\ w \in strays => pool2[w].state = "idle"
      BY <1>4, UnboundType
  <1>6. \A w \in hosts : w \notin freed => workers[w].state = "dead"
      BY <1>4
  <1>7. \A w \in freed \cup hosts : \A k \in remaining : works[k].worker # w
      BY DEF QueueInv, OneRunningWorkPerWorker
  <1>8. \A w \in strays : \A k \in remaining : works[k].worker # w
      OBVIOUS
  <1>9. strays \subseteq Workers /\ freed \subseteq Workers /\ hosts \subseteq Workers
      OBVIOUS
  <1>10. held = LeasesWithout(D)
      BY <1>2
  <1>11. \A k \in Works : k \in running <=> IsRunning(k)
      OBVIOUS
  <1>12. \A s \in Workspaces : Valid(s) <=>
            /\ held[s].worker \in Workers
            /\ pool2[held[s].worker].workspace = s
            /\ pool2[held[s].worker].leaseMode = "write"
            /\ pool2[held[s].worker].state \in {"busy", "degraded"}
            /\ held[s].work # NoWork =>
                 \E k \in remaining : works[k].worker = held[s].worker /\ WorkspaceOf[k] = s
      OBVIOUS
  <1>13. workers' \in [Workers -> WorkerRow]
      BY <1>1, <1>5
  <1> HIDE DEF running, overdue, freed, pool1, orphans, hosts, remaining, strays, pool2,
               held, Valid, over
  <1>14. \A w \in Workers \ D : workers'[w] = workers[w]
      BY <1>1, <1>2, <1>4, <1>5
  <1>15. \A w \in D : workers'[w].state # "busy"
      BY <1>1, <1>2, <1>4, <1>5, <1>6, <1>9
  <1>16. /\ works' \in [Works -> WorkRow]
         /\ \A k \in over : works'[k].state = "detached"
         /\ \A k \in Works \ over : works'[k] = works[k]
      BY <1>0, <1>1, <1>3 DEF TypeOK, WorkRow, WorkStates, ExecutionStates
  <1>17. \A k \in remaining : works[k].worker \notin D
      BY <1>2, <1>7, <1>8
  <1>18. \A s \in Workspaces : Valid(s) \/ held[s] = NoLease
    <2> TAKE s \in Workspaces
    <2>1. CASE leases[s].worker \in D
        BY <1>10, <2>1 DEF LeasesWithout
    <2>2. CASE leases[s].worker = NoWorker
      <3>1. leases[s] \in LeaseRow /\ leases[s].work = NoWork
          BY <1>0, <2>2, NullAssumption
             DEF QueueInv, LinkedLeaseIsRunning, RunningWorkKeepsItsWorker, TypeOK, LeaseRow
      <3> QED
          BY <1>10, <2>2, <3>1 DEF LeasesWithout, NoLease, LeaseRow
    <2>3. CASE leases[s].worker \in Workers \ D
      <3>1. held[s] = leases[s]
          BY <1>10, <2>3 DEF LeasesWithout
      <3>2. pool2[leases[s].worker] = workers[leases[s].worker]
          BY <1>1, <1>14, <2>3
      <3>3. leases[s].work # NoWork =>
              \E k \in remaining : works[k].worker = leases[s].worker /\ WorkspaceOf[k] = s
          BY <1>0, <1>2, <1>3, <1>11, <2>3 DEF QueueInv, LinkedLeaseIsRunning, TypeOK, LeaseRow
      <3>4. leases[s].worker # NoWorker
          BY <2>3, NullAssumption
      <3> QED
          BY <1>12, <2>3, <3>1, <3>2, <3>3, <3>4 DEF QueueInv, LeaseHasLiveWriter
    <2> QED
        BY <1>0, <2>1, <2>2, <2>3 DEF TypeOK, LeaseRow
  <1>19. leases' = LeasesWithout(D)
      BY <1>1, <1>10, <1>18 DEF LeasesWithout
  <1>20. TypeOK'
      BY <1>0, <1>13, <1>16, <1>19, LeasesWithoutType DEF TypeOK
  <1>21. Withdrawn(D)
    <2>1. \A k \in Works : IsRunning(k)' <=> k \in remaining
        BY <1>3, <1>11, <1>16
    <2>2. \A k \in Works : IsRunning(k)' => IsRunning(k) /\ works'[k] = works[k]
        BY <1>3, <1>11, <1>16
    <2>3. \A k \in Works : IsRunning(k) /\ works[k].worker \notin D => IsRunning(k)'
        BY <1>2, <1>3, <1>11, <2>1
    <2>4. \A k \in Works : WaitingWork(k)' => WaitingWork(k) /\ works'[k].worker = works[k].worker
        BY <1>3, <1>16
    <2> QED
        BY <1>14, <1>15, <1>17, <1>19, <2>1, <2>2, <2>3, <2>4 DEF Withdrawn
  <1> QED
      BY <1>20, <1>21, WithdrawnPreserves

-----------------------------------------------------------------------------
(* The theorems *)

LEMMA StutterPreserves ==
    ASSUME QueueInv, UNCHANGED vars
    PROVE  Sound
  <1>1. TypeOK' /\ Kept
      BY DEF QueueInv, TypeOK, vars, Kept, SameRunning
  <1> QED
      BY <1>1, KeptPreserves

LEMMA NextPreserves == QueueInv /\ [Next]_vars => Sound
  <1> SUFFICES ASSUME QueueInv, [Next]_vars PROVE Sound
      OBVIOUS
  <1>1. CASE WorkerApi
    <2>1. ManualWorkers \subseteq Workers /\ \A w \in Workers : workers[w].state \in WorkerStates
        BY PoolAssumption DEF QueueInv, TypeOK, WorkerRow
    <2> QED
        BY <1>1, <2>1, BindWorkerPreserves, ReleaseWorkerPreserves, HeartbeatWorkerPreserves,
           SetWorkerStatePreserves DEF WorkerApi
  <1>2. CASE WorkApi
      BY <1>2, FinishWorkPreserves, RequestCancelWorkPreserves, DetachWorkPreserves DEF WorkApi
  <1>3. CASE Background
      BY <1>3, HeartbeatRunningWorkPreserves, MarkStaleBusyWorkersPreserves,
         ReconcilePreserves DEF Background
  <1>4. CASE Clock
      BY <1>4, HeartbeatExpiresPreserves, CancelGraceElapsesPreserves DEF Clock
  <1>5. CASE Supervision
      BY <1>5, UpdateWorkExecutionPreserves, MarkWorkerDegradedForWorkPreserves DEF Supervision
  <1>6. CASE Submission \/ Assignment \/ Restart
      BY <1>6, CreateWorkPreserves, AssignWorkPreserves, EnsureWorkersPreserves
         DEF Submission, Assignment, Restart
  <1>7. CASE UNCHANGED vars
      BY <1>7, StutterPreserves
  <1> QED
      BY <1>1, <1>2, <1>3, <1>4, <1>5, <1>6, <1>7 DEF Next

\* Every reachable state of the work queue satisfies the inductive invariant.
THEOREM QueueIsInvariant == Spec => []QueueInv
  <1>1. QueueInv /\ [Next]_vars => QueueInv'
      BY NextPreserves DEF Sound
  <1> QED
      BY <1>1, InitEstablishes, PTL DEF Spec

\* The tables always hold rows of their types: no operation, in any order, stores
\* a dangling worker, work item or workspace.
THEOREM TypesAreInvariant == Spec => []TypeOK
  <1>1. QueueInv => TypeOK
      BY DEF QueueInv
  <1> QED
      BY <1>1, QueueIsInvariant, PTL

\* Running work keeps its worker out of the pool, and has it for itself.
THEOREM RunningWorkIsInvariant ==
    Spec => [](RunningWorkKeepsItsWorker /\ OneRunningWorkPerWorker)
  <1>1. QueueInv => RunningWorkKeepsItsWorker /\ OneRunningWorkPerWorker
      BY DEF QueueInv
  <1> QED
      BY <1>1, QueueIsInvariant, PTL

\* Every lease has a live writer, and what it links to runs.
THEOREM LeasesAreInvariant == Spec => [](LeaseHasLiveWriter /\ LinkedLeaseIsRunning)
  <1>1. QueueInv => LeaseHasLiveWriter /\ LinkedLeaseIsRunning
      BY DEF QueueInv
  <1> QED
      BY <1>1, QueueIsInvariant, PTL

LEMMA FenceFollows == QueueInv => OneFencedWriterPerWorkspace
  <1> SUFFICES ASSUME QueueInv,
                      NEW j \in Works, NEW k \in Works, IsRunning(j), IsRunning(k),
                      WorkspaceOf[j] = WorkspaceOf[k],
                      Writes(works[j].worker), Writes(works[k].worker)
               PROVE  j = k
      BY DEF OneFencedWriterPerWorkspace
  <1>1. /\ works[j].worker \in Workers /\ workers[works[j].worker].workspace = WorkspaceOf[j]
        /\ works[k].worker \in Workers /\ workers[works[k].worker].workspace = WorkspaceOf[k]
      BY DEF QueueInv, RunningWorkKeepsItsWorker
  <1>2. j \in RunningOn(works[j].worker) /\ k \in RunningOn(works[k].worker)
      OBVIOUS
  <1>3. /\ leases[WorkspaceOf[j]].worker = works[j].worker
        /\ leases[WorkspaceOf[k]].worker = works[k].worker
      BY <1>1, <1>2 DEF QueueInv, WriterIsFenced
  <1> QED
      BY <1>3 DEF QueueInv, OneRunningWorkPerWorker

\* The fence: two workers that were not declared dead never run write work in
\* one workspace, for any number of workers, work items and workspaces.
THEOREM FenceIsInvariant == Spec => []OneFencedWriterPerWorkspace
  BY FenceFollows, QueueIsInvariant, PTL

\* A degraded or recovering worker keeps its lease while its work runs: no step
\* takes the lease away from it other than by declaring it dead.
THEOREM LeaseOutlivesRecoveryHolds == Spec => LeaseOutlivesRecovery
  <1>1. QueueInv /\ [Next]_vars => [LeaseKept]_vars
      BY NextPreserves DEF Sound
  <1> QED
      BY <1>1, QueueIsInvariant, PTL DEF Spec, LeaseOutlivesRecovery, LeaseKept

\* No worker has been declared dead under its write work.
NoWriterDead ==
    \A k \in Works : IsRunning(k) /\ LeaseModeOf[k] = "write"
        => workers[works[k].worker].state # "dead"

WritersIntend ==
    \A k \in Works : IsRunning(k) /\ LeaseModeOf[k] = "write" => Writes(works[k].worker)

\* The fence covers every worker that runs write work for as long as none is declared
\* dead under it: mark_stale_busy_workers is the only operation that opens it, and no
\* race, heartbeat or repair does.
THEOREM OnlyDeathOpensTheFence == Spec /\ []NoWriterDead => []WritersIntend
  <1>1. Init => WritersIntend
      BY DEF Init, NewWork, WritersIntend
  <1>2. QueueInv /\ [Next]_vars => IntentKept
      BY NextPreserves DEF Sound
  <1>3. WritersIntend /\ IntentKept /\ NoWriterDead' => WritersIntend'
      BY DEF WritersIntend, IntentKept, NoWriterDead
  <1> QED
      BY <1>1, <1>2, <1>3, QueueIsInvariant, PTL DEF Spec

-----------------------------------------------------------------------------
(* Cancelled work was never dispatched *)

\* What is recorded of dispatches stays, work becomes cancelled only if nothing
\* is, and no work is made to wait for an agent.
HistoryKept == \A k \in Works :
    /\ works'[k].attempts = works[k].attempts
    /\ works'[k].dispatched = works[k].dispatched
    /\ works'[k].state = "cancelled" =>
          works[k].state = "cancelled" \/ (works[k].attempts = 0 /\ ~works[k].dispatched)
    /\ works'[k].execution = "waiting_agent" => works[k].execution = "waiting_agent"
    /\ works[k].state = "running" /\ works'[k].state = "running" =>
          works'[k].execution \in {works[k].execution, "cancel_pending"}
    /\ works'[k].state = "running" => works[k].state \in {"queued", "running"}
    /\ WaitingWork(k)' => WaitingWork(k)

\* Every operation but the supervisor's keeps the history.
LEMMA HistoryOfQueue ==
    ASSUME TypeOK,
           Submission \/ Assignment \/ WorkerApi \/ WorkApi \/ Background \/ Clock \/ Restart
    PROVE  HistoryKept
  <1> USE DEF HistoryKept, TypeOK
  <1>1. CASE Submission
      BY <1>1 DEF Submission, CreateWork
  <1>2. CASE Assignment
    <2>1. PICK k \in Works, w \in Workers : AssignWork(k, w)
        BY <1>2, Zenon DEF Assignment
    <2>2. works' = [works EXCEPT ![k] =
                      [@ EXCEPT !.state = "running",
                                !.worker = w,
                                !.execution = IF DispatchModeOf[k] = "herdr"
                                              THEN "assigned" ELSE "none"]]
        BY <2>1, Zenon DEF AssignWork
    <2>3. works[k].state = "queued"
        BY <2>1, Zenon DEF AssignWork
    <2> QED
        BY <2>2, <2>3 DEF WorkRow
  <1>3. CASE WorkerApi
    <2>1. UNCHANGED works
        BY <1>3, Zenon DEF WorkerApi, BindWorker, ReleaseWorker, HeartbeatWorker, SetWorkerState
    <2> QED
        BY <2>1
  <1>4. CASE WorkApi
    <2>1. PICK k \in Works :
              \/ \E outcome \in {"completed", "failed"} : FinishWork(k, outcome)
              \/ RequestCancelWork(k)
              \/ DetachWork(k)
        BY <1>4 DEF WorkApi
    <2>2. ASSUME NEW state \in {"completed", "failed", "cancelled", "detached"}, Close(k, state),
                 state = "cancelled" => works[k].attempts = 0 /\ ~works[k].dispatched
          PROVE  HistoryKept
      <3>1. \A j \in Works : j # k => works'[j] = works[j]
          BY <2>2 DEF Close
      <3>2. works'[k] = [works[k] EXCEPT !.state = state, !.execution = state]
          BY <2>2 DEF Close
      <3>3. works[k] \in WorkRow
          OBVIOUS
      <3>4. /\ works'[k].attempts = works[k].attempts
            /\ works'[k].dispatched = works[k].dispatched
            /\ works'[k].state = state /\ works'[k].execution = state
          BY <3>2, <3>3 DEF WorkRow
      <3> QED
          BY <2>2, <3>1, <3>4
    <2>3. CASE works' = [works EXCEPT ![k] = [@ EXCEPT !.execution = "cancel_pending",
                                                      !.due = FALSE]]
        BY <2>3 DEF WorkRow
    <2>4. CASE RequestCancelWork(k)
      <3>1. ~UpstreamMayExist(k) => works[k].attempts = 0 /\ ~works[k].dispatched
        <4>1. works[k].attempts \in Nat
            BY DEF WorkRow
        <4> QED
            BY <4>1 DEF UpstreamMayExist
      <3> QED
          BY <2>2, <2>3, <2>4, <3>1, Zenon DEF RequestCancelWork
    <2>5. CASE DetachWork(k)
        BY <2>2, <2>5, Zenon DEF DetachWork
    <2>6. CASE \E outcome \in {"completed", "failed"} : FinishWork(k, outcome)
      <3>1. PICK outcome \in {"completed", "failed"} : FinishWork(k, outcome)
          BY <2>6
      <3>2. Close(k, outcome)
          BY <3>1, Zenon DEF FinishWork
      <3> QED
          BY <2>2, <3>2
    <2> QED
        BY <2>1, <2>4, <2>5, <2>6, Zenon
  <1>5. CASE Background
    <2>1. CASE ReconcileOperations
      <3>1. PICK D \in SUBSET Works :
                works' = [k \in Works |->
                            IF k \in D
                            THEN [works[k] EXCEPT !.state = "detached", !.execution = "detached"]
                            ELSE works[k]]
          BY <2>1 DEF ReconcileOperations
      <3> QED
          BY <3>1 DEF WorkRow
    <2>2. CASE HeartbeatRunningWork
        BY <2>2 DEF HeartbeatRunningWork
    <2>3. CASE MarkStaleBusyWorkers
        BY <2>3 DEF MarkStaleBusyWorkers
    <2> QED
        BY <1>5, <2>1, <2>2, <2>3 DEF Background
  <1>6. CASE Clock
    <2>1. UNCHANGED works \/ \E k \in Works : works' = [works EXCEPT ![k].due = TRUE]
        BY <1>6, Zenon DEF Clock, HeartbeatExpires, CancelGraceElapses
    <2> QED
        BY <2>1 DEF WorkRow
  <1>7. CASE Restart
      BY <1>7 DEF Restart, EnsureWorkers
  <1> QED
      BY <1>1, <1>2, <1>3, <1>4, <1>5, <1>6, <1>7

LEMMA CancelledPreserved ==
    ASSUME TypeOK, CancelledMeansNeverDispatched, [Next]_vars
    PROVE  CancelledMeansNeverDispatched'
  <1> USE DEF CancelledMeansNeverDispatched
  <1>1. CASE Submission \/ Assignment \/ WorkerApi \/ WorkApi \/ Background \/ Clock \/ Restart
      BY <1>1, HistoryOfQueue DEF HistoryKept
  <1>2. CASE Supervision
    <2>1. PICK k \in Works :
              \/ \E u \in ExecutionUpdates : UpdateWorkExecution(k, u)
              \/ MarkWorkerDegradedForWork(k)
        BY <1>2 DEF Supervision
    <2>2. CASE MarkWorkerDegradedForWork(k)
        BY <2>2 DEF MarkWorkerDegradedForWork
    <2>3. CASE \E u \in ExecutionUpdates : UpdateWorkExecution(k, u)
      <3>0. PICK u \in ExecutionUpdates : UpdateWorkExecution(k, u)
          BY <2>3
      <3>1. works' = [works EXCEPT ![k] =
                        [@ EXCEPT !.execution = u.execution,
                                  !.attempts = works[k].attempts + IF u.increment THEN 1 ELSE 0,
                                  !.dispatched = works[k].dispatched \/ u.mark]]
          BY <3>0, Zenon DEF UpdateWorkExecution
      <3>2. works[k] \in WorkRow /\ works[k].state = "running"
          BY <3>0 DEF UpdateWorkExecution, TypeOK
      <3>3. \A j \in Works : j # k => works'[j] = works[j]
          BY <3>1 DEF TypeOK
      <3>4. works'[k].state = "running"
          BY <3>1, <3>2 DEF WorkRow, TypeOK
      <3> QED
          BY <3>3, <3>4
    <2> QED
        BY <2>1, <2>2, <2>3
  <1>3. CASE UNCHANGED vars
      BY <1>3 DEF vars
  <1> QED
      BY <1>1, <1>2, <1>3 DEF Next

\* Work that is reported as cancelled has no recorded dispatch attempt and none
\* is recorded later.
THEOREM CancelledIsInvariant == Spec => []CancelledMeansNeverDispatched
  <1>1. Init => CancelledMeansNeverDispatched
      BY DEF Init, NewWork, CancelledMeansNeverDispatched
  <1> QED
      BY <1>1, CancelledPreserved, TypesAreInvariant, PTL DEF Spec

\* The lease table implements the abstract write lease: from free to one worker
\* and back, one workspace per worker, never from one worker to another.
THEOREM WriteLeaseRefinement == Spec => ImplementsWriteLease
  <1> DEFINE Owner == [s \in Workspaces |-> leases[s].worker]
  <1>1. Init => Fence!Init
      BY DEF Init, NoLease, Fence!Init
  <1>2. ASSUME LeaseStep
        PROVE  Fence!Next
    <2>1. Owner' = [s \in Workspaces |-> leases'[s].worker]
        OBVIOUS
    <2>2. CASE \E S \in SUBSET Workspaces : \A s \in Workspaces :
                 leases'[s].worker = IF s \in S THEN NoWorker ELSE leases[s].worker
      <3>1. PICK S \in SUBSET Workspaces : \A s \in Workspaces :
                 leases'[s].worker = IF s \in S THEN NoWorker ELSE leases[s].worker
          BY <2>2
      <3>2. Owner' = [s \in Workspaces |-> IF s \in S THEN NoWorker ELSE Owner[s]]
          BY <3>1
      <3> QED
          BY <3>2 DEF Fence!Next, Fence!Release
    <2>3. CASE \E w \in Workers, s \in Workspaces :
                 /\ leases[s].worker = NoWorker
                 /\ \A t \in Workspaces : leases[t].worker # w
                 /\ \A t \in Workspaces :
                       leases'[t].worker = IF t = s THEN w ELSE leases[t].worker
      <3>1. PICK w \in Workers, s \in Workspaces :
                 /\ leases[s].worker = NoWorker
                 /\ \A t \in Workspaces : leases[t].worker # w
                 /\ \A t \in Workspaces :
                       leases'[t].worker = IF t = s THEN w ELSE leases[t].worker
          BY <2>3
      <3>2. Owner' = [Owner EXCEPT ![s] = w] /\ Owner[s] = NoWorker
               /\ \A t \in Workspaces : Owner[t] # w
          BY <3>1
      <3> QED
          BY <3>2 DEF Fence!Next, Fence!Acquire
    <2> QED
        BY <1>2, <2>2, <2>3 DEF LeaseStep
  <1>3. QueueInv /\ [Next]_vars => [Fence!Next]_Owner
      BY <1>2, NextPreserves DEF Sound
  <1> QED
      BY <1>1, <1>3, QueueIsInvariant, PTL DEF Spec, ImplementsWriteLease, Fence!Spec

=============================================================================
