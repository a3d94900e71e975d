---------------------------- MODULE AttemptLedger ----------------------------
(***************************************************************************)
(* What a run directory promises about its evidence, independently of who  *)
(* writes it: the attempts of a job are numbered 1, 2, 3, ... in the order *)
(* in which they are created, none is ever removed, and the result of an   *)
(* attempt is published at most once and then never changes.               *)
(*                                                                         *)
(* Scheduler.tla is shown to implement this specification.                 *)
(***************************************************************************)
EXTENDS Naturals, Sequences

CONSTANT Jobs            \* the jobs of the frozen plan

VARIABLE ledger          \* ledger[j][i]: the evidence of attempt i of job j

Closed == {"COMPLETED", "FAILED"}

TypeOK == ledger \in [Jobs -> Seq(Closed \cup {"open"})]

Init == ledger = [j \in Jobs |-> << >>]

(* A new attempt of j gets the next number. *)
Open(j) == ledger' = [ledger EXCEPT ![j] = Append(@, "open")]

(* The result of an open attempt is published. *)
Close(j, i, s) ==
  /\ i \in DOMAIN ledger[j]
  /\ ledger[j][i] = "open"
  /\ ledger' = [ledger EXCEPT ![j][i] = s]

Next ==
  \E j \in Jobs :
    \/ Open(j)
    \/ \E i \in DOMAIN ledger[j], s \in Closed : Close(j, i, s)

Spec == Init /\ [][Next]_ledger
=============================================================================
