---------------------------- MODULE MCExecution ----------------------------
(* TLC instances of Execution. *)
EXTENDS Execution, TLC

CONSTANTS w1, w2, k1, k2, s1

SameWorkspace == [k \in Works |-> s1]
AllWrite == [k \in Works |-> "write"]
NoneWrites == [k \in Works |-> "none"]
AllHerdr == [k \in Works |-> "herdr"]
OneHerdr == [k \in Works |-> IF k = k1 THEN "herdr" ELSE "manual"]

FullPool == {Workers}
EmptyOrFullPool == {{}, Workers}
=============================================================================
