----------------------------- MODULE MCHostRuns -----------------------------
(* A launch of each of two processes over two GPUs: c1 wants one, c2 both.  *)
(* The processes share a lock root or not.                                  *)
EXTENDS HostRuns

CONSTANTS c1, c2, p1, p2

MCLaunches == {c1, c2}
MCProcOf == [c \in MCLaunches |-> IF c = c1 THEN p1 ELSE p2]
MCLockRoots == {[p \in EvaProcs |-> "shared"], [p \in EvaProcs |-> p]}
MCKindOf == [s \in Slots |-> "gpu"]
MCNeed == [c \in MCLaunches |-> [k \in {"gpu"} |-> IF c = c2 THEN 2 ELSE 1]]
=============================================================================
