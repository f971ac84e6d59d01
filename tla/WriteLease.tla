----------------------------- MODULE WriteLease -----------------------------
(***************************************************************************)
(* What the workspace leases of MCP Studio promise, without the tables     *)
(* that implement them: "The write lease exists only while a worker is     *)
(* actively executing/manual-busy", "the fencing rule that prevents        *)
(* reconnect/recovery from opening a second writer" (ARCHITECTURE.md).     *)
(*                                                                         *)
(* A workspace has at most one owner, a worker owns at most one workspace, *)
(* and ownership changes hands only through "free": it is acquired from    *)
(* nobody, and given up, never taken from its holder for another worker.   *)
(***************************************************************************)
CONSTANTS Workers, Workspaces, NoWorker

VARIABLE owner      \* the worker that may write to a workspace, or NoWorker

Init == owner = [s \in Workspaces |-> NoWorker]

\* Worker w, an owner of nothing, becomes the owner of the free workspace s.
Acquire(w, s) ==
    /\ owner[s] = NoWorker
    /\ \A t \in Workspaces : owner[t] # w
    /\ owner' = [owner EXCEPT ![s] = w]

\* The workspaces in S become free.
Release(S) ==
    owner' = [s \in Workspaces |-> IF s \in S THEN NoWorker ELSE owner[s]]

Next ==
    \/ \E w \in Workers, s \in Workspaces : Acquire(w, s)
    \/ \E S \in SUBSET Workspaces : Release(S)

Spec == Init /\ [][Next]_owner

=============================================================================
