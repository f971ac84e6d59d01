---------------------------- MODULE CapsuleHandoff ----------------------------
(***************************************************************************)
(* Capsules and their handoff between agents (mcp_studio/capsules.py).     *)
(*                                                                         *)
(* A capsule is what the replay of its events says it is: every operation  *)
(* reads that projection, decides, and appends events, each append being   *)
(* one database operation.  `capsules` holds the projection, kept up to    *)
(* date by the effect of each event; `events` holds which kinds of event   *)
(* the ledger has for each handoff.  Both are durable.                     *)
(*                                                                         *)
(* Request, acknowledgement, validation, approval and completion of a      *)
(* handoff decide and append under one lock; stage updates, completion of  *)
(* the capsule, contract updates, the delivery of the prompt and the       *)
(* recording of its outcome do not take it.                                *)
(*                                                                         *)
(* The database serves its operations one at a time in the order in which  *)
(* they were asked for.  A call that reads and then appends at once is     *)
(* therefore overtaken, in between, by the operations that were already    *)
(* queued when its read ended, of which every task has one at most.        *)
(*                                                                         *)
(* The agents are the environment.  A prompt may reach its target whatever *)
(* the call reports, and from then on the target, which then knows the     *)
(* token, the sentinel and the correlation of the prompt, may report at    *)
(* any time and any number of times.  Until the handoff is on record as    *)
(* dispatched a receipt must not name the target's session, from then on   *)
(* it must (_verify_handoff_correlation); the target may do either.  A     *)
(* request whose token, agent or correlation is wrong changes nothing and  *)
(* is left out.                                                            *)
(***************************************************************************)
EXTENDS Naturals, Sequences

CONSTANTS
    Capsules,
    Agents,
    Creators,    \* the agents capsules are created for
    MaxHandoffs, \* bound on handoffs
    MaxUpsets,   \* bound on restarts and on calls that do not take the lock, together
    None         \* absence of an agent, a capsule or a handoff

ASSUME CapsuleAssumption ==
    /\ None \notin Capsules \cup Agents
    /\ Creators \subseteq Agents
    /\ MaxHandoffs \in Nat /\ MaxUpsets \in Nat

VARIABLES
    capsules,    \* the projection of each capsule's events
    events,      \* the kinds of event recorded for each handoff
    handoffs,    \* the call that makes each handoff, and what it asked for
    received,    \* the handoffs whose prompt has reached its target
    locked,      \* the call that holds the handoff lock and what it has yet to append
    checked,     \* calls outside the lock that have passed their check, and who overtook them
    closed,      \* the agents whose lane is not "normal" (table lane_states)
    sweep,       \* the automatic handoff of the capsules of a lane
    notices,     \* approved handoffs whose target is yet to be told to resume
    upsets       \* the restarts and the calls outside the lock so far

capsuleVars == <<capsules, events, handoffs, received, locked, checked, closed, sweep, notices,
          upsets>>

-----------------------------------------------------------------------------
(* Records *)

\* Handoffs, named in the order in which they are asked for (their handoff_id is random).
Deliveries == 1..MaxHandoffs
NoHandoff == 0

\* What a contract allows an automatic handoff; "pinned" forbids it like having none.
Portabilities == {"safe", "guarded", "pinned"}

PendingStates ==
    {"none", "requested", "dispatched", "dispatch_uncertain", "acknowledged", "validated",
     "awaiting_approval", "validation_failed", "approved"}

\* The events of a handoff; those that only blocked it are not kept.
Kinds ==
    {"requested", "dispatched", "dispatch_uncertain", "failed", "acknowledged", "validated",
     "validation_failed", "approved", "committed", "completed"}

\* Where the call of a handoff is; the outcomes are what it is about to record.
Outcomes == {"dispatched", "dispatch_uncertain", "failed"}
Phases == {"unused", "asked", "recording", "delivering", "over"} \cup Outcomes

NoCapsule == [status |-> "absent", owner |-> None, pending |-> NoHandoff, state |-> "none",
              contract |-> "pinned"]

NoRequest == [phase |-> "unused", capsule |-> None, from |-> None, to |-> None,
              validation |-> FALSE, approval |-> FALSE, auto |-> FALSE]

Request(c, from, to, validation, approval, auto) ==
    [phase |-> "asked", capsule |-> c, from |-> from, to |-> to,
     validation |-> validation, approval |-> approval, auto |-> auto]

Unlocked == [handoff |-> NoHandoff, todo |-> <<>>]

\* The tasks whose operations may overtake a call: the one that holds the lock, the sweep,
\* and the call of each handoff, which for an automatic one is the sweep's own.
TheLock == 0
Sweeper == MaxHandoffs + 1
Task(h) == IF handoffs[h].auto THEN Sweeper ELSE h

NoSweep == [at |-> "none", agent |-> None, closed |-> {}, contracts |-> [c \in Capsules |-> "pinned"],
            todo |-> {}, waiting |-> NoHandoff]

CapsuleInit ==
    /\ capsules = [c \in Capsules |-> NoCapsule]
    /\ events = [h \in Deliveries |-> {}]
    /\ handoffs = [h \in Deliveries |-> NoRequest]
    /\ received = {}
    /\ locked = Unlocked
    /\ checked = {}
    /\ closed = {}
    /\ sweep = NoSweep
    /\ notices = {}
    /\ upsets = 0

-----------------------------------------------------------------------------
(* The projection: what each event does to its capsule *)

\* The state of the pending handoff after an event that only moves it on.
StateAfter(h, kind) ==
    IF kind = "validated"
      THEN IF handoffs[h].approval THEN "awaiting_approval" ELSE "validated"
      ELSE kind

NotPending(p) == [p EXCEPT !.pending = NoHandoff, !.state = "none"]

Projected(p, h, kind) ==
    CASE kind = "requested" -> [p EXCEPT !.pending = h, !.state = kind]
      [] kind = "committed" -> [NotPending(p) EXCEPT !.owner = handoffs[h].to]
      [] kind = "failed" -> IF p.pending = h THEN NotPending(p) ELSE p
      [] kind = "completed" -> p
      [] OTHER -> IF p.pending = h THEN [p EXCEPT !.state = StateAfter(h, kind)] ELSE p

Append1(h, kind) ==
    /\ capsules' = [capsules EXCEPT ![handoffs[h].capsule] = Projected(@, h, kind)]
    /\ events' = [events EXCEPT ![h] = @ \cup {kind}]

\* capsule.stage and capsule.completed hand the capsule to the agent they name.
Named(p, a) == IF a \in Agents THEN [p EXCEPT !.owner = a] ELSE p

-----------------------------------------------------------------------------
(* Calls that do not take the lock *)

Upset == upsets < MaxUpsets /\ upsets' = upsets + 1

CreateCapsule(c, a, contract) ==
    /\ capsules[c] = NoCapsule
    /\ capsules' = [capsules EXCEPT ![c] =
         [NoCapsule EXCEPT !.status = "active", !.owner = a, !.contract = contract]]
    /\ UNCHANGED <<events, handoffs, received, locked, checked, closed, sweep, notices, upsets>>

\* Mutant: something else is awaited between a check and its append.
OvertakeFreely(tasks) == UNCHANGED checked

\* One operation of these tasks.
Overtake(tasks) ==
    /\ \A call \in checked : tasks \cap call.passed = {}
    /\ checked' = {[call EXCEPT !.passed = @ \cup tasks] : call \in checked}

\* Calls are numbered in the order of their checks.
Check(c, kind, a, contract) ==
    /\ Upset
    /\ checked' = checked \cup {[capsule |-> c, kind |-> kind, agent |-> a, contract |-> contract,
                                 number |-> upsets, passed |-> {}]}
    /\ UNCHANGED <<capsules, events, handoffs, received, locked, closed, sweep, notices>>

\* set_stage and complete refuse a capsule with a handoff, and an agent that does not own it.
CheckStage(c, kind, a) ==
    /\ capsules[c].status # "absent"
    /\ capsules[c].pending = NoHandoff
    /\ a # None => a = capsules[c].owner
    /\ Check(c, kind, a, "pinned")

CheckContract(c, contract) ==
    /\ capsules[c].status = "active"
    /\ contract # capsules[c].contract
    /\ Check(c, "contract", None, contract)

\* The event a checked call appends, whatever overtook it; checked calls stay in order.
AppendChecked(call) ==
    /\ call \in checked
    /\ \A other \in checked : call.number <= other.number
    /\ checked' = checked \ {call}
    /\ capsules' = [capsules EXCEPT ![call.capsule] =
         CASE call.kind = "stage" -> Named(@, call.agent)
           [] call.kind = "complete" -> [Named(@, call.agent) EXCEPT !.status = "completed"]
           [] call.kind = "contract" -> [@ EXCEPT !.contract = call.contract]]
    /\ UNCHANGED <<events, handoffs, received, locked, closed, sweep, notices, upsets>>

-----------------------------------------------------------------------------
(* The handoff call *)

Phase(h) == handoffs[h].phase

EnterPhase(h, phase) == handoffs' = [handoffs EXCEPT ![h].phase = phase]

\* The lane of the target is looked at before the lock is waited for.
AskHandoff(h, request, override) ==
    /\ handoffs[h] = NoRequest
    /\ \A g \in 1..(h - 1) : handoffs[g] # NoRequest
    /\ request.from # request.to
    /\ request.to \in closed => override
    /\ handoffs' = [handoffs EXCEPT ![h] = request]
    /\ Overtake({IF request.auto THEN Sweeper ELSE h})

AskedByCaller(h) ==
    /\ \E c \in Capsules, from, to \in Agents, v, a, override \in BOOLEAN :
         /\ capsules[c].status # "absent"
         /\ AskHandoff(h, Request(c, from, to, v, a, FALSE), override)
    /\ UNCHANGED <<capsules, events, received, locked, closed, sweep, notices, upsets>>

\* A mismatch, or a contract or context fit that does not allow it.
RefuseHandoff(h) ==
    /\ Phase(h) = "asked"
    /\ locked = Unlocked
    /\ handoffs' = [handoffs EXCEPT ![h] = [NoRequest EXCEPT !.phase = "over"]]
    /\ Overtake({TheLock, Task(h)})
    /\ UNCHANGED <<capsules, events, received, locked, closed, sweep, notices, upsets>>

\* Mutant: a pending handoff is not looked for.
RequestHandoffOverPending(h) ==
    LET r == handoffs[h] IN
    /\ Phase(h) = "asked"
    /\ locked = Unlocked
    /\ capsules[r.capsule].status = "active"
    /\ capsules[r.capsule].owner = r.from
    /\ locked' = [handoff |-> h, todo |-> <<"requested">>]
    /\ EnterPhase(h, "recording")
    /\ Overtake({TheLock, Task(h)})
    /\ UNCHANGED <<capsules, events, received, closed, sweep, notices, upsets>>

RequestHandoff(h) ==
    LET r == handoffs[h] IN
    /\ Phase(h) = "asked"
    /\ locked = Unlocked
    /\ capsules[r.capsule].status = "active"
    /\ capsules[r.capsule].owner = r.from
    /\ capsules[r.capsule].pending = NoHandoff
    /\ locked' = [handoff |-> h, todo |-> <<"requested">>]
    /\ EnterPhase(h, "recording")
    /\ Overtake({TheLock, Task(h)})
    /\ UNCHANGED <<capsules, events, received, closed, sweep, notices, upsets>>

\* Herdr or the pane is missing, or the prompt is sent: what the call reports, and
\* whether the prompt reached the target.
DeliverPrompt(h, outcome, reached) ==
    /\ Phase(h) = "delivering"
    /\ outcome = "dispatched" => reached
    /\ received' = IF reached THEN received \cup {h} ELSE received
    /\ EnterPhase(h, outcome)
    /\ UNCHANGED <<capsules, events, locked, checked, closed, sweep, notices, upsets>>

RecordOutcome(h) ==
    /\ Phase(h) \in Outcomes
    /\ Append1(h, Phase(h))
    /\ EnterPhase(h, "over")
    /\ Overtake({Task(h)})
    /\ UNCHANGED <<received, locked, closed, sweep, notices, upsets>>

-----------------------------------------------------------------------------
(* Calls about a handoff, under the lock *)

Recorded(h, kind) == kind \in events[h]

SourceOwns(h) == capsules[handoffs[h].capsule].owner = handoffs[h].from

\* The call holds the lock and will append these events.
Enter(h, todo) ==
    /\ locked = Unlocked
    /\ todo # <<>>
    /\ locked' = [handoff |-> h, todo |-> todo]
    /\ Overtake({TheLock})
    /\ UNCHANGED <<capsules, events, handoffs, received, closed, sweep, notices, upsets>>

\* A receipt counts before the handoff is on record as dispatched, and when its dispatch
\* is uncertain.
Acknowledge(h) ==
    /\ Recorded(h, "requested") /\ h \in received
    /\ ~Recorded(h, "committed") /\ ~Recorded(h, "failed")
    /\ SourceOwns(h)
    /\ Enter(h, (IF Recorded(h, "acknowledged") THEN <<>> ELSE <<"acknowledged">>)
                  \o (IF handoffs[h].validation THEN <<>> ELSE <<"committed">>))

\* Mutant: evidence is taken without a receipt.
ValidateUnacknowledged(h, passed) ==
    /\ Recorded(h, "requested") /\ h \in received
    /\ ~Recorded(h, "committed")
    /\ SourceOwns(h)
    /\ handoffs[h].validation
    /\ Enter(h, IF ~passed THEN <<"validation_failed">>
                ELSE IF handoffs[h].approval THEN <<"validated">>
                ELSE <<"validated", "committed">>)

\* Every check of the contract passed, or not; a handoff that failed meanwhile is not refused.
Validate(h, passed) ==
    /\ Recorded(h, "requested") /\ h \in received
    /\ ~Recorded(h, "committed")
    /\ Recorded(h, "acknowledged")
    /\ SourceOwns(h)
    /\ handoffs[h].validation
    /\ Enter(h, IF ~passed THEN <<"validation_failed">>
                ELSE IF handoffs[h].approval THEN <<"validated">>
                ELSE <<"validated", "committed">>)

\* The first validation on record decides, whatever was reported after it.
Approve(h) ==
    /\ Recorded(h, "requested")
    /\ ~Recorded(h, "committed")
    /\ handoffs[h].approval
    /\ Recorded(h, "validated")
    /\ SourceOwns(h)
    /\ Enter(h, <<"approved", "committed">>)

CompleteHandoff(h) ==
    /\ Recorded(h, "committed") /\ h \in received
    /\ capsules[handoffs[h].capsule].owner = handoffs[h].to
    /\ ~Recorded(h, "completed")
    /\ Enter(h, <<"completed">>)

\* The next event of the call that holds the lock; with the last one it lets go.
AppendLocked ==
    LET h == locked.handoff
        last == Len(locked.todo) = 1 IN
    /\ locked # Unlocked
    /\ Append1(h, Head(locked.todo))
    /\ locked' = IF last THEN Unlocked ELSE [locked EXCEPT !.todo = Tail(@)]
    /\ handoffs' = IF last /\ Phase(h) = "recording"
                     THEN [handoffs EXCEPT ![h].phase = "delivering"] ELSE handoffs
    /\ notices' = IF Recorded(h, "approved") /\ handoffs[h].auto /\ last
                     /\ Head(locked.todo) = "committed"
                    THEN notices \cup {h} ELSE notices
    /\ Overtake({TheLock} \cup (IF Phase(h) = "recording" THEN {Task(h)} ELSE {}))
    /\ UNCHANGED <<received, closed, sweep, upsets>>

\* The target of an approved automatic handoff is told to go on, or cannot be.
Resume(h) ==
    /\ h \in notices
    /\ notices' = notices \ {h}
    /\ UNCHANGED <<capsules, events, handoffs, received, locked, checked, closed, sweep, upsets>>

-----------------------------------------------------------------------------
(* A lane is taken out of service: its capsules are handed off one by one *)

CloseLane(a) ==
    /\ closed' = closed \cup {a}
    /\ sweep = NoSweep
    /\ sweep' = [NoSweep EXCEPT !.at = "start", !.agent = a]
    /\ Upset
    /\ UNCHANGED <<capsules, events, handoffs, received, locked, checked, notices>>

\* Without the automatic handoff, or back in service.
SwitchLane(a) ==
    /\ closed' = IF a \in closed THEN closed \ {a} ELSE closed \cup {a}
    /\ UNCHANGED sweep
    /\ Upset
    /\ UNCHANGED <<capsules, events, handoffs, received, locked, checked, notices>>

\* The lanes are read once, and then, once the panes are known, the capsules.
ReadLanes ==
    /\ sweep.at = "start"
    /\ sweep' = [sweep EXCEPT !.at = "lanes", !.closed = closed]
    /\ Overtake({Sweeper})
    /\ UNCHANGED <<capsules, events, handoffs, received, locked, closed, notices, upsets>>

StartSweep ==
    /\ sweep.at = "lanes"
    /\ sweep' = [sweep EXCEPT !.at = "next",
         !.contracts = [c \in Capsules |-> capsules[c].contract],
         !.todo = {c \in Capsules : /\ capsules[c].status = "active"
                                    /\ capsules[c].owner = sweep.agent
                                    /\ capsules[c].pending = NoHandoff}]
    /\ Overtake({Sweeper})
    /\ UNCHANGED <<capsules, events, handoffs, received, locked, closed, notices, upsets>>

\* Pinned, without a contract, without a target, or refused by the handoff's lane check.
SweepSkips(c) ==
    /\ sweep.at = "next" /\ c \in sweep.todo
    /\ sweep' = [sweep EXCEPT !.todo = @ \ {c}]
    /\ UNCHANGED <<capsules, events, handoffs, received, locked, checked, closed, notices, upsets>>

SweepHandsOff(c, h, to) ==
    /\ sweep.at = "next" /\ c \in sweep.todo
    /\ sweep.contracts[c] # "pinned"
    /\ to \notin sweep.closed
    /\ AskHandoff(h, Request(c, sweep.agent, to, TRUE, sweep.contracts[c] = "guarded", TRUE),
                  FALSE)
    /\ sweep' = [sweep EXCEPT !.todo = @ \ {c}, !.at = "waiting", !.waiting = h]
    /\ UNCHANGED <<capsules, events, received, locked, closed, notices, upsets>>

SweepGoesOn ==
    /\ \/ sweep.at = "waiting" /\ Phase(sweep.waiting) = "over"
       \/ sweep.at = "next" /\ sweep.todo = {}
    /\ sweep' = IF sweep.at = "waiting" THEN [sweep EXCEPT !.at = "next", !.waiting = NoHandoff]
                ELSE NoSweep
    /\ UNCHANGED <<capsules, events, handoffs, received, locked, checked, closed, notices, upsets>>

\* The process ends; the ledger and the lanes remain.
CapsuleCrash ==
    /\ Upset
    /\ handoffs' = [h \in Deliveries |->
         IF Phase(h) = "unused" THEN handoffs[h] ELSE [handoffs[h] EXCEPT !.phase = "over"]]
    /\ locked' = Unlocked /\ checked' = {} /\ sweep' = NoSweep /\ notices' = {}
    /\ UNCHANGED <<capsules, events, received, closed>>

-----------------------------------------------------------------------------
(* Next *)

OutsideTheLock ==
    \/ \E c \in Capsules, a \in Creators, p \in Portabilities : CreateCapsule(c, a, p)
    \/ \E c \in Capsules, kind \in {"stage", "complete"}, a \in Agents \cup {None} :
         CheckStage(c, kind, a)
    \/ \E c \in Capsules, p \in Portabilities : CheckContract(c, p)
    \/ \E call \in checked : AppendChecked(call)

HandoffCall ==
    \E h \in Deliveries :
        \/ AskedByCaller(h)
        \/ RefuseHandoff(h)
        \/ RequestHandoff(h)
        \/ \E outcome \in Outcomes, reached \in BOOLEAN : DeliverPrompt(h, outcome, reached)
        \/ RecordOutcome(h)

UnderTheLock ==
    \/ \E h \in Deliveries :
        \/ Acknowledge(h)
        \/ \E passed \in BOOLEAN : Validate(h, passed)
        \/ Approve(h)
        \/ CompleteHandoff(h)
    \/ AppendLocked

Lanes ==
    \/ \E a \in Agents : CloseLane(a) \/ SwitchLane(a)
    \/ ReadLanes \/ StartSweep
    \/ \E c \in Capsules : SweepSkips(c) \/ \E h \in Deliveries, to \in Agents : SweepHandsOff(c, h, to)
    \/ SweepGoesOn

CapsuleNext ==
    \/ OutsideTheLock \/ HandoffCall \/ UnderTheLock \/ Lanes
    \/ \E h \in Deliveries : Resume(h)
    \/ CapsuleCrash

CapsuleSpec == CapsuleInit /\ [][CapsuleNext]_capsuleVars

-----------------------------------------------------------------------------
(* Properties *)

\* Every variable keeps its shape.
CapsuleTypeOK ==
    /\ capsules \in [Capsules ->
         [status : {"absent", "active", "completed"}, owner : Agents \cup {None},
          pending : Deliveries \cup {NoHandoff}, state : PendingStates,
          contract : Portabilities]]
    /\ events \in [Deliveries -> SUBSET Kinds]
    /\ handoffs \in [Deliveries ->
         [phase : Phases, capsule : Capsules \cup {None}, from : Agents \cup {None},
          to : Agents \cup {None}, validation : BOOLEAN, approval : BOOLEAN, auto : BOOLEAN]]
    /\ received \subseteq Deliveries /\ notices \subseteq Deliveries
    /\ closed \subseteq Agents
    /\ upsets \in 0..MaxUpsets

\* A handoff that failed, and moved the capsule nevertheless.
Upsetting(h) == Recorded(h, "failed") /\ Recorded(h, "committed")

UpsetBy(c) == \E h \in Deliveries : handoffs[h].capsule = c /\ Upsetting(h)

Live(h) == Recorded(h, "requested") /\ ~Recorded(h, "committed") /\ ~Recorded(h, "failed")

\* A capsule's pending handoff is on record as requested and neither committed nor failed;
\* and unless a handoff of the capsule that had failed was committed nevertheless, it is the
\* only such: no second one starts beside it (capsules.py:958), none is lost from sight.
PendingIsLive ==
    \A c \in Capsules, h \in Deliveries :
        /\ capsules[c].pending = h => handoffs[h].capsule = c /\ Live(h)
        /\ handoffs[h].capsule = c /\ Live(h) => capsules[c].pending = h \/ UpsetBy(c)

Needs(h) ==
    {"receipt"} \cup (IF handoffs[h].validation THEN {"evidence"} ELSE {})
      \cup (IF handoffs[h].validation /\ handoffs[h].approval THEN {"approval"} ELSE {})

Given(h) ==
    {x \in {"receipt", "evidence", "approval"} :
        \/ x = "receipt" /\ Recorded(h, "acknowledged")
        \/ x = "evidence" /\ Recorded(h, "validated")
        \/ x = "approval" /\ Recorded(h, "approved")}

\* The ledger keeps the promise of CapsuleOwnership: a capsule changes hands only by a
\* handoff its owner asked for, once, to that handoff's target, on the receipt, evidence and
\* approval it asked for, across late, early and repeated reports, calls that name their
\* agent and restarts; with the exceptions CapsuleOwnership makes for a handoff that moves
\* the capsule after it failed.
Ownership == INSTANCE CapsuleOwnership WITH
    Offers <- Deliveries,
    owner <- [c \in Capsules |-> capsules[c].owner],
    offers <- [h \in Deliveries |->
        IF Recorded(h, "requested")
          THEN [capsule |-> handoffs[h].capsule, from |-> handoffs[h].from, to |-> handoffs[h].to,
                needs |-> Needs(h)]
          ELSE [capsule |-> None, from |-> None, to |-> None, needs |-> {}]],
    given <- [h \in Deliveries |-> Given(h)],
    lapsed <- {h \in Deliveries : Recorded(h, "failed")},
    taken <- {h \in Deliveries : Recorded(h, "committed")}

\*
\* A step that leaves alone what the mapping reads stutters; naming it spares TLC the mapping.
ImplementsOwnership ==
    /\ Ownership!OwnershipInit
    /\ [][\/ UNCHANGED <<capsules, events, handoffs>>
          \/ Ownership!OwnershipNext]_(Ownership!ownershipVars)
=============================================================================
