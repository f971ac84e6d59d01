--------------------------- MODULE MachineAuthority ---------------------------
(***************************************************************************)
(* Which machine a tool call runs on, and by whose leave: the registry     *)
(* (mcp_studio/machine_registry.py), the enrollment of machines found on   *)
(* the network (machine_enrollment.py) with its sidecar file, the metadata *)
(* of managed sessions that binds them to a machine and holds their        *)
(* permissions, the gate of backend calls in the gateway, and their router *)
(* (machine_router.py).                                                    *)
(*                                                                         *)
(* A discovery awaits its probes and then updates the candidates in one    *)
(* step; the operator decides about them meanwhile.  Metadata is read and  *)
(* later written back as a whole.  A call is decided on the row it reads   *)
(* and runs some awaits later; whether its tool is a backend tool is asked *)
(* both times, and an integration that is reconciled offers none for a     *)
(* while.  Every write of the sidecar may fail.                            *)
(***************************************************************************)
EXTENDS Naturals

CONSTANTS
    Machines,
    Local,         \* the machine Studio runs on, which is always registered
    BoundSessions, \* managed sessions
    Classes,       \* permission classes
    SafeClasses,   \* those an enrolled machine allows unless the operator says more
    Ceilings,      \* the sets of classes the configuration file may allow a machine
    Edits,         \* updates of metadata that may be under way at once, numbered
    ToolCalls,     \* calls that may be under way at once
    Integrations,  \* which offer backend tools
    OnMachine,     \* those whose tools run on the session's machine: Desktop Commander
    ToolPermissions \* managed_session_tool_permissions_enabled

ASSUME MachineAssumption ==
    /\ Local \in Machines /\ SafeClasses \subseteq Classes /\ Ceilings \subseteq SUBSET Classes
    /\ Edits \subseteq Nat /\ OnMachine \subseteq Integrations /\ ToolPermissions \in BOOLEAN

VARIABLES
    configured, \* the machines of the operator's configuration file
    ceiling,    \* what that file allows them
    registry,   \* where each machine in use comes from; none: it is not known
    policy,     \* what the record of each approved machine allows
    candidates, \* pending, approved and rejected machines, in memory
    sidecar,    \* the same, as last saved
    discovering,
    metadata,   \* the machine each session is bound to, and the classes it allows
    edits,      \* updates of metadata under way: the row that was read
    offered,    \* the integrations that are ready, whose tools are backend tools
    toolcalls   \* calls: what was decided, and where it ran

machineVars == <<configured, ceiling, registry, policy, candidates, sidecar, discovering,
                 metadata, edits, offered, toolcalls>>

-----------------------------------------------------------------------------
(* Records *)

NoCandidates == [pending |-> {}, approved |-> {}, rejected |-> {}]

NoEdit == [session |-> {}, row |-> {}]

NoToolCall ==
    [at |-> "none", session |-> {}, tool |-> {}, class |-> {}, machine |-> {},
     checked |-> FALSE, ran |-> {}]

Policy(m) == IF registry[m] = "configured" THEN ceiling[m] ELSE policy[m]

\* A machine that is no longer known is refused wherever its name turns up.
Known(m) == registry[m] # "none"

CeilingOf(config, ceilings) == [m \in Machines |-> IF m \in config THEN ceilings[m] ELSE {}]

\* Configured machines win over approved ones of the same name.
RegistryOf(config, saved) ==
    [m \in Machines |-> IF m \in config THEN "configured"
                        ELSE IF m \in saved.approved THEN "enrolled" ELSE "none"]

MachineInit ==
    /\ configured = {Local}
    /\ \E own \in Ceilings : ceiling = CeilingOf({Local}, [m \in {Local} |-> own])
    /\ registry = RegistryOf({Local}, NoCandidates)
    /\ policy = [m \in Machines |-> {}]
    /\ candidates = NoCandidates
    /\ sidecar = NoCandidates
    /\ discovering = FALSE
    /\ metadata = [s \in BoundSessions |-> [machine |-> Local, allowed |-> Classes]]
    /\ edits = [e \in Edits |-> NoEdit]
    /\ offered \in SUBSET Integrations
    /\ toolcalls = [c \in ToolCalls |-> NoToolCall]

-----------------------------------------------------------------------------
(* Enrollment *)

\* What is in memory is saved as a whole, or the write fails and the caller is told so;
\* memory keeps the change.
Save(changed) == candidates' = changed /\ sidecar' \in {sidecar, changed}

BeginDiscovery ==
    /\ ~discovering
    /\ discovering' = TRUE
    /\ UNCHANGED <<configured, ceiling, registry, policy, candidates, sidecar, metadata, edits,
                   offered, toolcalls>>

\* Mutant: a machine that is registered is not left out.
UnknownOrRegistered(found) == found \ candidates.rejected

\* The probed machines that are neither registered nor rejected, by now.
Unknown(found) == {m \in found : registry[m] = "none"} \ candidates.rejected

\* Those that answered their probe become candidates.
FinishDiscovery(found) ==
    /\ discovering
    /\ discovering' = FALSE
    /\ Save([candidates EXCEPT !.pending = @ \cup Unknown(found)])
    /\ UNCHANGED <<configured, ceiling, registry, policy, metadata, edits, offered, toolcalls>>

DiscoveryFails ==
    /\ discovering
    /\ discovering' = FALSE
    /\ UNCHANGED <<configured, ceiling, registry, policy, candidates, sidecar, metadata, edits,
                   offered, toolcalls>>

\* Registered first, then recorded; a machine that was configured meanwhile is refused.
ApproveMachine(m, more) ==
    /\ m \in candidates.pending
    /\ registry[m] = "none"
    /\ registry' = [registry EXCEPT ![m] = "enrolled"]
    /\ policy' = [policy EXCEPT ![m] = SafeClasses \cup more]
    /\ Save([pending |-> candidates.pending \ {m},
             approved |-> candidates.approved \cup {m},
             rejected |-> candidates.rejected \ {m}])
    /\ UNCHANGED <<configured, ceiling, discovering, metadata, edits, offered, toolcalls>>

RejectMachine(m) ==
    /\ m \in candidates.pending
    /\ Save([candidates EXCEPT !.pending = @ \ {m}, !.rejected = @ \cup {m}])
    /\ UNCHANGED <<configured, ceiling, registry, policy, discovering, metadata, edits, offered,
                   toolcalls>>

-----------------------------------------------------------------------------
(* Metadata of managed sessions: bind_session and update_permissions *)

ReadMetadata(e, s) ==
    /\ edits[e] = NoEdit /\ \A f \in Edits : f < e => edits[f] # NoEdit
    /\ edits' = [edits EXCEPT ![e] = [session |-> {s}, row |-> {metadata[s]}]]
    /\ UNCHANGED <<configured, ceiling, registry, policy, candidates, sidecar, discovering, metadata,
                   offered, toolcalls>>

\* The row that was read is written back with the one change.
WriteMetadata(e, s, row) ==
    /\ metadata' = [metadata EXCEPT ![s] = row]
    /\ edits' = [edits EXCEPT ![e] = NoEdit]
    /\ UNCHANGED <<configured, ceiling, registry, policy, candidates, sidecar, discovering,
                   offered, toolcalls>>

\* Only a machine in use is bound; a machine without a root for the workspace is refused.
BindMachine(e, m) ==
    /\ Known(m)
    /\ \E s \in edits[e].session, row \in edits[e].row :
         WriteMetadata(e, s, [row EXCEPT !.machine = m])

UpdatePermissions(e, allowed) ==
    \E s \in edits[e].session, row \in edits[e].row :
        WriteMetadata(e, s, [row EXCEPT !.allowed = allowed])

-----------------------------------------------------------------------------
(* Integrations *)

\* A reconcile empties the integration's catalogue first.
BeginReconcile(i) ==
    /\ offered' = offered \ {i}
    /\ UNCHANGED <<configured, ceiling, registry, policy, candidates, sidecar, discovering,
                   metadata, edits, toolcalls>>

\* Validated, certified and listed, it is ready; one that fails stays as BeginReconcile left it.
BecomeReady(i) ==
    /\ offered' = offered \cup {i}
    /\ UNCHANGED <<configured, ceiling, registry, policy, candidates, sidecar, discovering,
                   metadata, edits, toolcalls>>

-----------------------------------------------------------------------------
(* Backend calls *)

\* authorize_session
MachineAllows(m, class) == Known(m) /\ class \in Policy(m)

\* The session's policy by the row that was read; for a backend tool, also the policy of the
\* machine that row names.  A tool that is not on offer passes as any other does, classed by
\* its name, and goes through awaits only if permissions are on; scopes of paths are left out.
DecideCall(c, s, i, class) ==
    LET row == metadata[s] IN
    /\ toolcalls[c].at # "decided"
    /\ class \in row.allowed
    /\ IF i \in offered THEN MachineAllows(row.machine, class) ELSE ToolPermissions
    /\ toolcalls' = [toolcalls EXCEPT ![c] =
         [at |-> "decided", session |-> {s}, tool |-> {i}, class |-> {class},
          machine |-> {row.machine}, checked |-> i \in offered, ran |-> {}]]
    /\ UNCHANGED <<configured, ceiling, registry, policy, candidates, sidecar, discovering,
                   metadata, edits, offered>>

\* Mutant: the machine is taken from the row as it is now.
TargetNow(call) == {metadata[s].machine : s \in call.session}

\* The context of the call names the machine of the row; other tools than Desktop
\* Commander's run in Studio's own process whatever machine that is.
Target(call) == IF call.tool \subseteq OnMachine THEN call.machine ELSE {Local}

\* Advice, recording and events have been awaited.  A tool that is on offer by now runs; a
\* call that is blocked or fails, or whose tool is no backend tool any more, ends here.
RunCall(c) ==
    /\ toolcalls[c].at = "decided"
    /\ \/ /\ toolcalls[c].tool \subseteq offered
          /\ \A m \in toolcalls[c].machine : Known(m)
          /\ \E m \in Target(toolcalls[c]) :
               toolcalls' = [toolcalls EXCEPT ![c] = [@ EXCEPT !.at = "ran", !.ran = {m}]]
       \/ toolcalls' = [toolcalls EXCEPT ![c] = NoToolCall]
    /\ UNCHANGED <<configured, ceiling, registry, policy, candidates, sidecar, discovering,
                   metadata, edits, offered>>

-----------------------------------------------------------------------------
(* Restart, with the configuration file as the operator left it; every integration is        *)
(* reconciled before Studio serves, and some may fail.                                       *)

MachineRestart(config, ceilings) ==
    /\ Local \in config
    /\ configured' = config
    /\ ceiling' = CeilingOf(config, ceilings)
    /\ registry' = RegistryOf(config, sidecar)
    /\ candidates' = sidecar
    /\ discovering' = FALSE
    /\ edits' = [e \in Edits |-> NoEdit]
    /\ offered' \in SUBSET Integrations
    /\ toolcalls' = [c \in ToolCalls |-> NoToolCall]
    /\ UNCHANGED <<policy, sidecar, metadata>>

MachineNext ==
    \/ BeginDiscovery \/ DiscoveryFails
    \/ \E found \in SUBSET (Machines \ {Local}) : FinishDiscovery(found)
    \/ \E m \in Machines : \/ RejectMachine(m)
                           \/ \E more \in SUBSET Classes : ApproveMachine(m, more)
    \/ \E e \in Edits : \/ \E s \in BoundSessions : ReadMetadata(e, s)
                        \/ \E m \in Machines : BindMachine(e, m)
                        \/ \E allowed \in SUBSET Classes : UpdatePermissions(e, allowed)
    \/ \E i \in Integrations : BeginReconcile(i) \/ BecomeReady(i)
    \/ \E c \in ToolCalls :
         \/ \E s \in BoundSessions, i \in Integrations, class \in Classes : DecideCall(c, s, i, class)
         \/ RunCall(c)
    \/ \E config \in SUBSET Machines : \E ceilings \in [config -> Ceilings] :
         MachineRestart(config, ceilings)

MachineSpec == MachineInit /\ [][MachineNext]_machineVars

-----------------------------------------------------------------------------
(* Properties *)

\* Every variable keeps its shape.
MachineTypeOK ==
    /\ configured \subseteq Machines
    /\ ceiling \in [Machines -> SUBSET Classes]
    /\ registry \in [Machines -> {"none", "configured", "enrolled"}]
    /\ policy \in [Machines -> SUBSET Classes]
    /\ discovering \in BOOLEAN
    /\ metadata \in [BoundSessions -> [machine : Machines, allowed : SUBSET Classes]]
    /\ offered \subseteq Integrations

\* Discovery never grants authority: a machine of the network is in use only while it is
\* approved, and none is two of pending, approved and rejected, though decisions fall
\* while a discovery is probing, saves fail and Studio restarts from what was saved.
OnlyApprovedMachines ==
    /\ \A m \in Machines : registry[m] = "enrolled" => m \in candidates.approved
    /\ candidates.pending \cap candidates.approved = {}
    /\ candidates.pending \cap candidates.rejected = {}
    /\ candidates.approved \cap candidates.rejected = {}

\* What a machine was asked for it still allows when the call runs: the machine of the row
\* that was decided on, and for Desktop Commander the one it really runs on, though the
\* session is bound elsewhere between the decision and the call, machines are approved, and
\* integrations reconciled.  Calls decided while their tool was not on offer are excepted:
\* no machine was asked (AuthorityIsIntersection).
CallsRunWhereAllowed ==
    \A c \in ToolCalls : toolcalls[c].at = "ran" /\ toolcalls[c].checked =>
        \A class \in toolcalls[c].class :
            /\ \A m \in toolcalls[c].machine : MachineAllows(m, class)
            /\ toolcalls[c].tool \subseteq OnMachine =>
                   \A m \in toolcalls[c].ran : MachineAllows(m, class)

\* docs/HIRDA_MACHINE_CAPABILITY_LAYER.md: "Effective authority is the intersection of the
\* managed-session policy and the target-machine policy."  So no Desktop Commander call runs
\* on a machine that does not allow it.
AuthorityIsIntersection ==
    \A c \in ToolCalls : toolcalls[c].at = "ran" /\ toolcalls[c].tool \subseteq OnMachine =>
        \A m \in toolcalls[c].ran, class \in toolcalls[c].class : MachineAllows(m, class)
=============================================================================
