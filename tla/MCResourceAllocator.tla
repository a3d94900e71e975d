------------------------- MODULE MCResourceAllocator -------------------------
(* Instances of ResourceAllocator for TLC: two workers of p1 and one of p2, *)
(* two GPUs and a port.  Each needs the port, c1 and c2 need more GPUs      *)
(* than there are, and the profiles of p1 and p2 list the GPUs in different *)
(* orders.                                                                  *)
EXTENDS ResourceAllocator

CONSTANTS c1, c2, c3, p1, p2, r1, r2, g0, g1, q0

MCClients == {c1, c2, c3}
MCProcOf == [c \in MCClients |-> IF c = c2 THEN p2 ELSE p1]
MCSlots == {g0, g1, q0}
MCKindOf == [s \in MCSlots |-> IF s \in {g0, g1} THEN "gpu" ELSE "port"]
MCScan ==
  [c \in MCClients |->
     CASE c = c1 -> <<g0, g1, q0>>
       [] c = c2 -> <<g1, g0, q0>>
       [] c = c3 -> <<q0>>]
MCNeed ==
  [c \in MCClients |->
     CASE c = c1 -> [k \in {"gpu", "port"} |-> 1]
       [] c = c2 -> [k \in {"gpu", "port"} |-> IF k = "gpu" THEN 2 ELSE 1]
       [] c = c3 -> [k \in {"port"} |-> 1]]

(* --lock-root given: one root for the host.                                *)
MCSharedRoot == [c \in MCClients |-> r1]

(* The default of `eva-agentic run`: a root inside each run directory.      *)
MCRootPerRun == [c \in MCClients |-> IF c = c2 THEN r2 ELSE r1]
=============================================================================
