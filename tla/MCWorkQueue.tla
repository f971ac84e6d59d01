---------------------------- MODULE MCWorkQueue ----------------------------
(* TLC instances of WorkQueue. *)
EXTENDS WorkQueue, TLC

CONSTANTS w1, w2, k1, k2, s1, s2

\* k1 is Herdr work and k2 manual work; both write to s1.
SameWorkspace == [k \in Works |-> s1]
BothWrite == [k \in Works |-> "write"]
OneHerdr == [k \in Works |-> IF k = k1 THEN "herdr" ELSE "manual"]

FullPool == {Workers}

\* What the operations and the properties can tell apart.  Execution states
\* matter by class only (see UncertainStates), a heartbeat matters for a busy
\* worker only, and of finished work only the worker, and whether it was
\* cancelled, is ever read again.  States with equal views are explored once.
ExecutionClass(k) ==
    IF works[k].execution = "cancel_pending" THEN "cancel_pending"
    ELSE IF works[k].execution \in UncertainStates THEN "uncertain" ELSE "settled"

WorkView(k) ==
    IF works[k].state \in {"completed", "failed", "detached"}
    THEN <<"finished", works[k].worker>>
    ELSE <<works[k].state, works[k].worker, ExecutionClass(k),
           works[k].attempts, works[k].dispatched, works[k].due>>

WorkerView(w) ==
    IF workers[w].state = "busy" THEN workers[w] ELSE [workers[w] EXCEPT !.fresh = FALSE]

QueueView ==
    <<[w \in Workers |-> WorkerView(w)], leases, [k \in Works |-> WorkView(k)]>>

WorkerSymmetry == Permutations(Workers)
=============================================================================
