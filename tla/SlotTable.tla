------------------------------ MODULE SlotTable ------------------------------
(***************************************************************************)
(* What resource allocation promises on a host: a client gets all the      *)
(* slots it asked for or none of them, and a slot that one client holds is *)
(* not given to another.                                                   *)
(*                                                                         *)
(* ResourceAllocator.tla is shown to implement this specification when all *)
(* its clients use one lock root.                                          *)
(***************************************************************************)
EXTENDS Naturals, FiniteSets

CONSTANTS
  Clients,     \* who asks for slots
  Slots,       \* the slots of the host
  KindOf,      \* KindOf[s]: the resource kind of slot s
  Need         \* Need[c][k]: how many slots of kind k client c asks for

VARIABLE leases        \* leases[c]: the slots c may use

TypeOK == leases \in [Clients -> SUBSET Slots]

Init == leases = [c \in Clients |-> {}]

(* S is what c asked for, no more and no less.                             *)
Satisfies(c, S) ==
  /\ S \subseteq {s \in Slots : KindOf[s] \in DOMAIN Need[c]}
  /\ \A k \in DOMAIN Need[c] : Cardinality({s \in S : KindOf[s] = k}) = Need[c][k]

Acquire(c) ==
  /\ leases[c] = {}
  /\ \E S \in SUBSET Slots :
       /\ Satisfies(c, S)
       /\ \A d \in Clients \ {c} : S \cap leases[d] = {}
       /\ leases' = [leases EXCEPT ![c] = S]

(* Slots are given back, one by one or, when a process dies, all at once.  *)
GiveBack ==
  /\ leases' \in [Clients -> SUBSET Slots]
  /\ \A c \in Clients : leases'[c] \subseteq leases[c]

Next == GiveBack \/ \E c \in Clients : Acquire(c)

Spec == Init /\ [][Next]_leases
=============================================================================
