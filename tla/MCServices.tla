------------------------------- MODULE MCServices -------------------------------
(* The TLC instance of Services. *)
EXTENDS Services, TLC

CONSTANTS claude, codex, left, right

TwoPanes == (left :> claude) @@ (right :> codex)

Order == [lane \in {"fast", "deep"} |->
            IF lane = "fast" THEN <<claude, codex>> ELSE <<codex, claude>>]

(* What is never read again: the port of a process that has ended, what the sweep found once  *)
(* no termination is left, what a machine allows that is not approved, the candidates of a    *)
(* request that is over and the idle panes once all are; of a capsule, the events that only   *)
(* say how a handoff fares, and contracts and lanes once no sweep can start any more; and the *)
(* services that stand still.                                                                 *)

ProcessesSeen ==
    [p \in Pids |-> IF processes[p].alive \/ processes[p] = NoProcess THEN processes[p]
                    ELSE [NoProcess EXCEPT !.told = TRUE, !.session = processes[p].session]]

IdleSeen == IF stops < MaxStops THEN idle ELSE {}

PolicySeen ==
    [m \in Machines |-> IF m \in candidates.approved \cup sidecar.approved THEN policy[m] ELSE {}]

AsksSeen ==
    [r \in Requests |-> IF asks[r].at \in {"answered", "failed"}
                        THEN [asks[r] EXCEPT !.candidates = <<>>, !.repaired = FALSE]
                        ELSE asks[r]]

SweepsAhead == upsets < MaxUpsets \/ sweep.at \in {"start", "lanes"}

CapsulesSeen ==
    [c \in Capsules |->
        [capsules[c] EXCEPT !.state = "none", !.contract = IF SweepsAhead THEN @ ELSE "pinned"]]

EventsSeen ==
    [h \in Deliveries |-> events[h] \ {"dispatched", "dispatch_uncertain", "validation_failed"}]

HandoffsSeen ==
    [h \in Deliveries |->
        IF Phase(h) = "over" /\ events[h] = {} THEN [NoRequest EXCEPT !.phase = "over"]
        ELSE [handoffs[h] EXCEPT
                !.phase = IF @ = "dispatch_uncertain" THEN "dispatched" ELSE @,
                !.approval = @ /\ handoffs[h].validation,
                !.auto = @ /\ (Phase(h) # "over" \/ (handoffs[h].approval /\ ~Recorded(h, "committed")))]]

CheckedSeen == {[k EXCEPT !.contract = IF SweepsAhead THEN @ ELSE "pinned"] : k \in checked}

SweepSeen ==
    [sweep EXCEPT !.closed = IF sweep.at = "lanes" \/ sweep.todo # {} THEN @ ELSE {},
                  !.contracts = [c \in Capsules |-> IF c \in sweep.todo THEN @[c] ELSE "pinned"]]

PoolSeen ==
    <<sessions, instances, ProcessesSeen, starting, ending, watching, IdleSeen, transports,
      binding, stops>>

CognitionSeen ==
    <<history, inbox,
      IF \E r \in Requests : asks[r].at \in {"next", "prompt", "read"} THEN seenIdle ELSE {},
      AsksSeen, asked>>

MachinesSeen ==
    <<configured, ceiling, registry, PolicySeen, candidates, sidecar, discovering, metadata,
      edits, offered, toolcalls>>

LedgerSeen ==
    <<CapsulesSeen, EventsSeen, HandoffsSeen, received, locked, CheckedSeen,
      IF SweepsAhead THEN closed ELSE {}, SweepSeen, notices, upsets>>

ServicesView ==
    <<focus,
      CASE focus = "pool"      -> PoolSeen
        [] focus = "oauth"     -> oauthVars
        [] focus = "cognition" -> CognitionSeen
        [] focus = "desktops"  -> desktopVars
        [] focus = "machines"  -> MachinesSeen
        [] focus = "commander" -> commanderVars
        [] focus = "capsules"  -> LedgerSeen>>
=============================================================================
