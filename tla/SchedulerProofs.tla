--------------------------- MODULE SchedulerProofs ---------------------------
(***************************************************************************)
(* TLAPS proofs about Scheduler: a tick that assigns from what it read     *)
(* earlier, and a submission in two operations, implement the work queue,  *)
(* so what is proved of WorkQueue holds under them, for any pool and any   *)
(* queue.                                                                  *)
(***************************************************************************)
EXTENDS Scheduler, WorkQueueProofs, WellFoundedInduction, FiniteSetTheorems

TickOK ==
    /\ submitting \subseteq Works
    /\ tick \in [at : {"sleep", "workers", "queue", "assign"},
                 free : SUBSET Workers,
                 queue : SUBSET Works]
    /\ restarts \in 0 .. MaxRestarts

-----------------------------------------------------------------------------
\* A set of naturals that is not empty has a least element.
LEMMA LeastNatural ==
    ASSUME NEW T, T \subseteq Nat, T # {}
    PROVE  \E x \in T : \A y \in T : x <= y
  <1>1. PICK x \in T : \A y \in T : ~ (<<y, x>> \in OpToRel(<, Nat))
      BY WFMin, NatLessThanWellFounded
  <1>2. ASSUME NEW y \in T PROVE x <= y
    <2>1. ~(y < x)
        BY <1>1 DEF OpToRel
    <2> QED BY <2>1
  <1> QED BY <1>2

\* The first of what is read is one of what is read.
LEMMA FirstIsMember ==
    ASSUME NEW S, NEW D, S \subseteq D, S # {}, NEW order \in [D -> Nat]
    PROVE  First(order, S) \in S
  <1> DEFINE T == {order[x] : x \in S}
  <1>1. PICK n \in T : \A y \in T : n <= y
    <2>1. T \subseteq Nat /\ T # {}
        OBVIOUS
    <2> HIDE DEF T
    <2> QED BY <2>1, LeastNatural
  <1>2. \E x \in S : \A y \in S : order[x] <= order[y]
      BY <1>1
  <1> QED BY <1>2 DEF First

LEMMA AssignNextIsNext ==
    ASSUME TickOK, AssignNext
    PROVE  [Next]_vars
  <1> DEFINE k == First(Rank, tick.queue)
             w == First(Ordinal, tick.free)
  <1>1. k \in Works
    <2>1. tick.queue \subseteq Works /\ tick.queue # {} /\ Rank \in [Works -> Nat]
        BY OrderAssumption DEF TickOK, AssignNext
    <2> QED BY <2>1, FirstIsMember
  <1>2. w \in Workers
    <2>1. tick.free \subseteq Workers /\ tick.free # {} /\ Ordinal \in [Workers -> Nat]
        BY OrderAssumption DEF TickOK, AssignNext
    <2> QED BY <2>1, FirstIsMember
  <1>3. AssignWork(k, w) \/ UNCHANGED vars
      BY DEF AssignNext
  <1> HIDE DEF k, w
  <1> QED BY <1>1, <1>2, <1>3 DEF Next, Assignment

\* Every step of the scheduler, of submission and of the rest is a step of the queue.
LEMMA SchedNextIsNext ==
    ASSUME TickOK, [SchedNext]_schedVars
    PROVE  [Next]_vars
  <1>1. CASE \E k \in Works : CheckQueue(k) \/ Submit(k)
      BY <1>1 DEF CheckQueue, Submit, Next, Submission
  <1>2. CASE StartTick
      BY <1>2 DEF StartTick, Next, Background
  <1>3. CASE TickStep
      BY <1>3, AssignNextIsNext DEF TickStep, ReadWorkers, ReadQueue, EndTick
  <1>4. CASE Elsewhere
      BY <1>4 DEF Elsewhere, Next
  <1>5. CASE Crash
      BY <1>5 DEF Crash, Next
  <1>6. CASE UNCHANGED schedVars
      BY <1>6 DEF schedVars, vars
  <1> QED BY <1>1, <1>2, <1>3, <1>4, <1>5, <1>6 DEF SchedNext

LEMMA TickPreserved ==
    ASSUME TickOK, [SchedNext]_schedVars
    PROVE  TickOK'
  <1> USE QueueAssumption DEF TickOK
  <1>1. CASE \E k \in Works : CheckQueue(k) \/ Submit(k)
      BY <1>1 DEF CheckQueue, Submit
  <1>2. CASE StartTick
    <2>1. tick' = Sleeping \/ tick' = [Sleeping EXCEPT !.at = "workers"]
        BY <1>2 DEF StartTick
    <2>2. UNCHANGED <<submitting, restarts>>
        BY <1>2 DEF StartTick
    <2> QED BY <2>1, <2>2 DEF Sleeping
  <1>3. CASE ReadWorkers
      BY <1>3 DEF ReadWorkers, Sleeping, FreeWorkers
  <1>4. CASE ReadQueue
    <2>1. FrontOfQueue \subseteq Works
        BY DEF FrontOfQueue, Queued
    <2> QED BY <1>4, <2>1 DEF ReadQueue
  <1>5. CASE AssignNext
    <2>1. PICK k, w : \/ tick' = [tick EXCEPT !.queue = tick.queue \ {k}, !.free = tick.free \ {w}]
                      \/ tick' = [tick EXCEPT !.queue = tick.queue \ {k}]
        BY <1>5 DEF AssignNext
    <2>2. tick.queue \ {k} \subseteq Works /\ tick.free \ {w} \subseteq Workers
        OBVIOUS
    <2>3. UNCHANGED <<submitting, restarts>>
        BY <1>5 DEF AssignNext
    <2> QED BY <2>1, <2>2, <2>3
  <1>6. CASE EndTick
      BY <1>6 DEF EndTick, Sleeping
  <1>7. CASE Elsewhere \/ UNCHANGED schedVars
      BY <1>7 DEF Elsewhere, schedVars
  <1>8. CASE Crash
      BY <1>8 DEF Crash, Sleeping
  <1> QED BY <1>1, <1>2, <1>3, <1>4, <1>5, <1>6, <1>7, <1>8 DEF SchedNext, TickStep

LEMMA TickIsInvariant == SchedSpec => []TickOK
  <1>1. SchedInit => TickOK
      BY QueueAssumption DEF SchedInit, TickOK, Sleeping
  <1> QED BY <1>1, TickPreserved, PTL DEF SchedSpec

-----------------------------------------------------------------------------
\* Whatever a tick read before the tables changed, and however submissions overlap, the
\* tables take only steps of the work queue (schedule_once, submit_work).
THEOREM SchedulerImplementsWorkQueue == SchedSpec => ImplementsWorkQueue
  <1>1. SchedInit => Init
      BY DEF SchedInit
  <1>2. TickOK /\ [SchedNext]_schedVars => [Next]_vars
      BY SchedNextIsNext
  <1> QED BY <1>1, <1>2, TickIsInvariant, PTL DEF SchedSpec, Spec, ImplementsWorkQueue

\* The scheduler's snapshots, and the tables under it, keep their types.
THEOREM SchedTypesAreInvariant == SchedSpec => []SchedTypeOK
  <1>1. TickOK /\ TypeOK => SchedTypeOK
      BY DEF TickOK, SchedTypeOK
  <1> QED BY <1>1, TickIsInvariant, SchedulerImplementsWorkQueue, TypesAreInvariant, PTL
          DEF ImplementsWorkQueue

\* Two workers with write intent never have one workspace, though the scheduler assigns
\* from snapshots.
THEOREM FenceUnderScheduler == SchedSpec => []OneFencedWriterPerWorkspace
  BY SchedulerImplementsWorkQueue, FenceIsInvariant, PTL DEF ImplementsWorkQueue

-----------------------------------------------------------------------------
(* The queue limit *)

\* Only create_work puts an item into the queue.
LEMMA OnlySubmissionQueues ==
    ASSUME TypeOK, Assignment \/ WorkerApi \/ WorkApi \/ Background \/ Clock \/ Restart
    PROVE  Queued' \subseteq Queued
  <1> SUFFICES ASSUME NEW j \in Works, works'[j].state = "queued" PROVE works[j].state = "queued"
      BY DEF Queued
  <1>1. works[j] \in WorkRow
      BY DEF TypeOK
  <1>2. CASE Assignment
    <2>1. PICK k \in Works, w \in Workers : AssignWork(k, w)
        BY <1>2, Zenon DEF Assignment
    <2>2. works' = [works EXCEPT ![k] =
                      [@ EXCEPT !.state = "running",
                                !.worker = w,
                                !.execution = IF DispatchModeOf[k] = "herdr"
                                              THEN "assigned" ELSE "none"]]
        BY <2>1, Zenon DEF AssignWork
    <2>3. works[k] \in WorkRow
        BY DEF TypeOK
    <2> QED BY <2>2, <2>3 DEF WorkRow, TypeOK
  <1>3. CASE WorkerApi
    <2>1. UNCHANGED works
        BY <1>3, Zenon DEF WorkerApi, BindWorker, ReleaseWorker, HeartbeatWorker, SetWorkerState
    <2> QED BY <2>1
  <1>4. CASE WorkApi
    <2>1. PICK k \in Works :
              \/ \E outcome \in {"completed", "failed"} : Close(k, outcome)
              \/ Close(k, "cancelled") \/ Close(k, "detached")
              \/ works' = [works EXCEPT ![k] = [@ EXCEPT !.execution = "cancel_pending", !.due = FALSE]]
        BY <1>4, Zenon DEF WorkApi, FinishWork, RequestCancelWork, DetachWork
    <2>2. works[k] \in WorkRow
        BY DEF TypeOK
    <2>3. CASE works' = [works EXCEPT ![k] = [@ EXCEPT !.execution = "cancel_pending", !.due = FALSE]]
        BY <2>2, <2>3 DEF WorkRow, TypeOK
    <2>4. ASSUME NEW state \in {"completed", "failed", "cancelled", "detached"}, Close(k, state)
          PROVE  works[j].state = "queued"
        BY <2>2, <2>4 DEF Close, WorkRow, TypeOK
    <2> QED BY <2>1, <2>3, <2>4
  <1>5. CASE Background
    <2>1. CASE ReconcileOperations
      <3>1. PICK D \in SUBSET Works :
                works' = [k \in Works |->
                            IF k \in D
                            THEN [works[k] EXCEPT !.state = "detached", !.execution = "detached"]
                            ELSE works[k]]
          BY <2>1 DEF ReconcileOperations
      <3> QED BY <1>1, <3>1 DEF WorkRow
    <2>2. CASE HeartbeatRunningWork \/ MarkStaleBusyWorkers
        BY <2>2 DEF HeartbeatRunningWork, MarkStaleBusyWorkers
    <2> QED BY <1>5, <2>1, <2>2 DEF Background
  <1>6. CASE Clock
    <2>1. UNCHANGED works \/ \E k \in Works : works' = [works EXCEPT ![k].due = TRUE]
        BY <1>6, Zenon DEF Clock, HeartbeatExpires, CancelGraceElapses
    <2>2. CASE UNCHANGED works
        BY <2>2
    <2>3. ASSUME NEW k \in Works, works' = [works EXCEPT ![k].due = TRUE] PROVE works[j].state = "queued"
      <3>1. works[k] \in WorkRow
          BY DEF TypeOK
      <3> QED BY <2>3, <3>1 DEF WorkRow, TypeOK
    <2> QED BY <2>1, <2>2, <2>3
  <1>7. CASE Restart
      BY <1>7 DEF Restart, EnsureWorkers
  <1> QED BY <1>2, <1>3, <1>4, <1>5, <1>6, <1>7

\* Each submission that passed the check and is not inserted yet counts against the limit.
RoomFor(n) ==
    /\ IsFiniteSet(Queued) /\ IsFiniteSet(submitting)
    /\ Cardinality(Queued) + Cardinality(submitting) <= MaxQueue + n - 1

\* The queue lost items, or the submissions under way were given up.
LEMMA RoomStays ==
    ASSUME NEW n \in Nat, RoomFor(n), Queued' \subseteq Queued, submitting' \subseteq submitting
    PROVE  RoomFor(n)'
  <1>1. IsFiniteSet(Queued') /\ Cardinality(Queued') <= Cardinality(Queued)
      BY FS_Subset DEF RoomFor
  <1>2. IsFiniteSet(submitting') /\ Cardinality(submitting') <= Cardinality(submitting)
      BY FS_Subset DEF RoomFor
  <1>3. /\ Cardinality(Queued) \in Nat /\ Cardinality(Queued') \in Nat
        /\ Cardinality(submitting) \in Nat /\ Cardinality(submitting') \in Nat
      BY <1>1, <1>2, FS_CardinalityType DEF RoomFor
  <1> QED BY <1>1, <1>2, <1>3, QueueAssumption DEF RoomFor

LEMMA RoomKept ==
    ASSUME NEW n \in Nat, TypeOK, TickOK, RoomFor(n), Cardinality(submitting') <= n, [SchedNext]_schedVars
    PROVE  RoomFor(n)'
  <1>0. Cardinality(Queued) \in Nat /\ Cardinality(submitting) \in Nat
      BY FS_CardinalityType DEF RoomFor
  <1>1. ASSUME NEW k \in Works, CheckQueue(k) PROVE RoomFor(n)'
    <2>1. Queued' = Queued
        BY <1>1 DEF CheckQueue, vars, Queued
    <2>2. IsFiniteSet(submitting')
        BY <1>1, FS_AddElement DEF CheckQueue, RoomFor
    <2>3. Cardinality(submitting') \in Nat
        BY <2>2, FS_CardinalityType
    <2> QED BY <1>0, <1>1, <2>1, <2>2, <2>3, QueueAssumption DEF CheckQueue, RoomFor
  <1>2. ASSUME NEW k \in Works, Submit(k) PROVE RoomFor(n)'
    <2>1. k \in submitting /\ submitting' = submitting \ {k} /\ k \notin Queued
        BY <1>2 DEF Submit, CreateWork, Queued
    <2>2. Queued' = Queued \cup {k}
      <3>1. works' = [works EXCEPT ![k].state = "queued"]
          BY <1>2 DEF Submit, CreateWork
      <3>2. works[k] \in WorkRow
          BY DEF TypeOK
      <3>3. \A j \in Works : works'[j].state = IF j = k THEN "queued" ELSE works[j].state
          BY <3>1, <3>2 DEF TypeOK, WorkRow
      <3> QED BY <3>3 DEF Queued
    <2>3. IsFiniteSet(Queued') /\ Cardinality(Queued') = Cardinality(Queued) + 1
        BY <2>1, <2>2, FS_AddElement DEF RoomFor
    <2>4. IsFiniteSet(submitting') /\ Cardinality(submitting') = Cardinality(submitting) - 1
        BY <2>1, FS_RemoveElement DEF RoomFor
    <2> QED BY <1>0, <2>3, <2>4, QueueAssumption DEF RoomFor
  <1>3. CASE StartTick
      BY <1>3, RoomStays DEF StartTick, HeartbeatRunningWork, Queued
  <1>4. CASE ReadWorkers \/ ReadQueue \/ EndTick \/ UNCHANGED schedVars
      BY <1>4, RoomStays DEF ReadWorkers, ReadQueue, EndTick, schedVars, vars, Queued
  <1>5. CASE AssignNext
    <2> DEFINE k == First(Rank, tick.queue)
               w == First(Ordinal, tick.free)
    <2>1. k \in Works
      <3>1. tick.queue \subseteq Works /\ tick.queue # {} /\ Rank \in [Works -> Nat]
          BY <1>5, OrderAssumption DEF TickOK, AssignNext
      <3> QED BY <3>1, FirstIsMember
    <2>2. w \in Workers
      <3>1. tick.free \subseteq Workers /\ tick.free # {} /\ Ordinal \in [Workers -> Nat]
          BY <1>5, OrderAssumption DEF TickOK, AssignNext
      <3> QED BY <3>1, FirstIsMember
    <2>3. AssignWork(k, w) \/ UNCHANGED vars
        BY <1>5 DEF AssignNext
    <2>4. UNCHANGED submitting
        BY <1>5 DEF AssignNext
    <2> HIDE DEF k, w
    <2>5. Queued' \subseteq Queued
      <3>1. CASE AssignWork(k, w)
          BY <2>1, <2>2, <3>1, OnlySubmissionQueues DEF Assignment
      <3>2. CASE UNCHANGED vars
          BY <3>2 DEF vars, Queued
      <3> QED BY <2>3, <3>1, <3>2
    <2> QED BY <2>4, <2>5, RoomStays
  <1>6. CASE Elsewhere
    <2>1. Queued' \subseteq Queued
        BY <1>6, OnlySubmissionQueues DEF Elsewhere
    <2> QED BY <1>6, <2>1, RoomStays DEF Elsewhere
  <1>7. CASE Crash
    <2>1. Queued' \subseteq Queued
        BY <1>7, OnlySubmissionQueues DEF Crash
    <2> QED BY <1>7, <2>1, RoomStays DEF Crash
  <1> QED BY <1>1, <1>2, <1>3, <1>4, <1>5, <1>6, <1>7 DEF SchedNext, TickStep

\* The limit is checked before the row is inserted, so overlapping submissions overrun it:
\* by one item less than there ever are submissions at once, and no more (submit_work).
THEOREM QueueOverrunIsBounded ==
    ASSUME NEW n \in Nat \ {0}
    PROVE  SchedSpec /\ [](Cardinality(submitting) <= n) => [](Cardinality(Queued) <= MaxQueue + n - 1)
  <1>1. SchedInit => RoomFor(n)
    <2> SUFFICES ASSUME SchedInit PROVE RoomFor(n)
        OBVIOUS
    <2>1. Queued = {} /\ submitting = {}
        BY DEF SchedInit, Init, NewWork, Queued
    <2> QED BY <2>1, FS_EmptySet, QueueAssumption DEF RoomFor
  <1>2. TypeOK /\ TickOK /\ RoomFor(n) /\ (Cardinality(submitting) <= n)' /\ [SchedNext]_schedVars => RoomFor(n)'
      BY RoomKept
  <1>3. RoomFor(n) => Cardinality(Queued) <= MaxQueue + n - 1
      BY FS_CardinalityType, QueueAssumption DEF RoomFor
  <1>4. SchedTypeOK => TypeOK
      BY DEF SchedTypeOK
  <1> QED BY <1>1, <1>2, <1>3, <1>4, TickIsInvariant, SchedTypesAreInvariant, PTL DEF SchedSpec

LEMMA ShortQueueIsReadWhole ==
    ASSUME IsFiniteSet(Queued), Cardinality(Queued) <= MaxQueue
    PROVE  FrontOfQueue = Queued
  <1> SUFFICES ASSUME NEW k \in Queued
               PROVE  Cardinality({j \in Queued : Rank[j] < Rank[k]}) < MaxQueue
      BY DEF FrontOfQueue
  <1> DEFINE Ahead == {j \in Queued : Rank[j] < Rank[k]}
  <1>1. k \notin Ahead
    <2>1. Rank[k] \in Nat
        BY OrderAssumption DEF Queued
    <2> QED BY <2>1
  <1>2. Ahead \subseteq Queued \ {k}
      BY <1>1
  <1>3. IsFiniteSet(Queued \ {k}) /\ Cardinality(Queued \ {k}) = Cardinality(Queued) - 1
      BY FS_RemoveElement
  <1>4. IsFiniteSet(Ahead) /\ Cardinality(Ahead) <= Cardinality(Queued \ {k})
      BY <1>2, <1>3, FS_Subset
  <1>5. Cardinality(Ahead) \in Nat /\ Cardinality(Queued) \in Nat
      BY <1>4, FS_CardinalityType
  <1> QED BY <1>3, <1>4, <1>5, QueueAssumption

\* While submissions come one at a time the queue keeps to its limit, and a tick, which reads
\* no more items than that, sees the whole queue: no item hides behind the limit (queued_work).
THEOREM TickSeesTheWholeQueue ==
    SchedSpec /\ [](Cardinality(submitting) <= 1) => [](Cardinality(Queued) <= MaxQueue /\ FrontOfQueue = Queued)
  <1>1. SchedInit => RoomFor(1)
    <2> SUFFICES ASSUME SchedInit PROVE RoomFor(1)
        OBVIOUS
    <2>1. Queued = {} /\ submitting = {}
        BY DEF SchedInit, Init, NewWork, Queued
    <2> QED BY <2>1, FS_EmptySet, QueueAssumption DEF RoomFor
  <1>2. TypeOK /\ TickOK /\ RoomFor(1) /\ (Cardinality(submitting) <= 1)' /\ [SchedNext]_schedVars => RoomFor(1)'
      BY RoomKept
  <1>3. RoomFor(1) => Cardinality(Queued) <= MaxQueue /\ FrontOfQueue = Queued
    <2> SUFFICES ASSUME RoomFor(1) PROVE Cardinality(Queued) <= MaxQueue /\ FrontOfQueue = Queued
        OBVIOUS
    <2>1. Cardinality(Queued) \in Nat /\ Cardinality(submitting) \in Nat
        BY FS_CardinalityType DEF RoomFor
    <2>2. Cardinality(Queued) <= MaxQueue
        BY <2>1, QueueAssumption DEF RoomFor
    <2> QED BY <2>2, ShortQueueIsReadWhole DEF RoomFor
  <1>4. SchedTypeOK => TypeOK
      BY DEF SchedTypeOK
  <1> QED BY <1>1, <1>2, <1>3, <1>4, TickIsInvariant, SchedTypesAreInvariant, PTL DEF SchedSpec

=============================================================================
