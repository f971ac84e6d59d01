---------------------------- MODULE MCScheduler ----------------------------
(* TLC instances of Scheduler. *)
EXTENDS Scheduler, TLC

CONSTANTS w1, w2, k1, k2, s1, s2

\* k1, first in the queue, writes to s1 and k2 writes to s2.
TwoWorkspaces == [k \in Works |-> IF k = k1 THEN s1 ELSE s2]
AllWrite == [k \in Works |-> "write"]
AllManual == [k \in Works |-> "manual"]
QueueOrder == [k \in Works |-> IF k = k1 THEN 1 ELSE 2]
WorkerOrder == [w \in Workers |-> IF w = w1 THEN 1 ELSE 2]
FullPool == {Workers}
=============================================================================
