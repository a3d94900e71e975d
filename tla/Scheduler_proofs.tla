--------------------------- MODULE Scheduler_proofs ---------------------------
(***************************************************************************)
(* Proofs about Scheduler for every number of processes, jobs, workers,    *)
(* invocations, crashes and faults.                                        *)
(***************************************************************************)
EXTENDS Scheduler, SequenceTheorems, TLAPS

(* Publishing into, or writing the request of, an existing attempt keeps   *)
(* every other attempt and the number of attempts (store.py:143, 178).     *)
LEMMA WriteAttempt ==
  ASSUME attempts \in [Jobs -> Seq(AttemptState)],
         NEW j \in Jobs, NEW i \in 1 .. Len(attempts[j]), NEW s \in AttemptState,
         attempts' = [attempts EXCEPT ![j][i] = s]
  PROVE  /\ attempts' \in [Jobs -> Seq(AttemptState)]
         /\ \A k \in Jobs : Len(attempts'[k]) = Len(attempts[k])
         /\ \A k \in Jobs : \A n \in 1 .. Len(attempts[k]) :
              attempts'[k][n] = IF k = j /\ n = i THEN s ELSE attempts[k][n]
<1>1. attempts[j] \in Seq(AttemptState)
  OBVIOUS
<1>2. attempts'[j] = [attempts[j] EXCEPT ![i] = s] /\ \A k \in Jobs \ {j} : attempts'[k] = attempts[k]
  OBVIOUS
<1>3. /\ attempts'[j] \in Seq(AttemptState)
      /\ Len(attempts'[j]) = Len(attempts[j])
      /\ \A n \in 1 .. Len(attempts[j]) : attempts'[j][n] = IF n = i THEN s ELSE attempts[j][n]
  BY <1>1, <1>2, ExceptSeq
<1>4. DOMAIN attempts' = Jobs /\ attempts' = [k \in Jobs |-> attempts'[k]]
  OBVIOUS
<1>5. attempts' \in [Jobs -> Seq(AttemptState)]
  BY <1>2, <1>3, <1>4
<1>6. QED
  BY <1>2, <1>3, <1>5

(* A new attempt directory gets the next number and leaves the others      *)
(* alone (store.py:136).                                                   *)
LEMMA NewAttempt ==
  ASSUME attempts \in [Jobs -> Seq(AttemptState)],
         NEW j \in Jobs,
         attempts' = [attempts EXCEPT ![j] = Append(@, "made")]
  PROVE  /\ attempts' \in [Jobs -> Seq(AttemptState)]
         /\ \A k \in Jobs :
              Len(attempts'[k]) = IF k = j THEN Len(attempts[k]) + 1 ELSE Len(attempts[k])
         /\ \A k \in Jobs : \A n \in 1 .. Len(attempts[k]) : attempts'[k][n] = attempts[k][n]
         /\ attempts'[j][Len(attempts[j]) + 1] = "made"
<1>1. attempts[j] \in Seq(AttemptState) /\ "made" \in AttemptState
  BY DEF AttemptState
<1>2. attempts'[j] = Append(attempts[j], "made") /\ \A k \in Jobs \ {j} : attempts'[k] = attempts[k]
  OBVIOUS
<1>3. /\ attempts'[j] \in Seq(AttemptState)
      /\ Len(attempts'[j]) = Len(attempts[j]) + 1
      /\ \A n \in 1 .. Len(attempts[j]) : attempts'[j][n] = attempts[j][n]
      /\ attempts'[j][Len(attempts[j]) + 1] = "made"
  BY <1>1, <1>2, AppendProperties
<1>4. DOMAIN attempts' = Jobs /\ attempts' = [k \in Jobs |-> attempts'[k]]
  OBVIOUS
<1>5. attempts' \in [Jobs -> Seq(AttemptState)]
  BY <1>2, <1>3, <1>4
<1>6. QED
  BY <1>2, <1>3, <1>5

(* Moving one worker leaves every other worker where it is.                *)
LEMMA StepAt ==
  ASSUME step \in [Procs -> [Jobs -> Steps]],
         NEW p \in Procs, NEW j \in Jobs, NEW s \in Steps, Goto(p, j, s)
  PROVE  /\ step' \in [Procs -> [Jobs -> Steps]]
         /\ \A q \in Procs, k \in Jobs :
              step'[q][k] = IF q = p /\ k = j THEN s ELSE step[q][k]
BY DEF Goto

-----------------------------------------------------------------------------
(* The main thread only reads the attempt directories (scheduler.py:66-93). *)
LEMMA AttemptsOnlyByWorkers ==
  ASSUME NEW p \in Procs, Start(p) \/ Interrupt(p) \/ Crash(p) \/ MainStep(p)
  PROVE  UNCHANGED attempts
<1>1. CASE ScanComplete(p)
  <2>1. CASE pending[p] = {}
    BY <1>1, <2>1 DEF ScanComplete, GoDown
  <2>2. CASE pending[p] # {}
    BY <1>1, <2>2 DEF ScanComplete, disk
  <2>3. QED
    BY <2>1, <2>2
<1>2. CASE Start(p) \/ Interrupt(p) \/ Crash(p)
  BY <1>2 DEF Start, Interrupt, Crash, GoDown, disk
<1>3. QED
  BY <1>1, <1>2 DEF MainStep, AcquireRunLock, RefuseRunLock, ScanPending, Collect, Return,
                    Drained, Exited, GoDown, disk

(* What the main thread does to the workers: it leaves them alone, or      *)
(* resets all of those of its own process.                                 *)

(* Types, over the steps of the main thread and of the outside world       *)
(* (scheduler.py:63-93).                                                   *)
LEMMA MainThreadType ==
  ASSUME TypeOK, NEW p \in Procs,
         Start(p) \/ Interrupt(p) \/ Crash(p) \/ MainStep(p)
  PROVE  TypeOK'
<1> USE DEF TypeOK, Phases, Steps, Results, disk, main, workers, Use, GoDown, Seen
<1>1. CASE Start(p)
  BY <1>1 DEF Start
<1>2. CASE Interrupt(p)
  <2>1. /\ phase' \in [Procs -> Phases]
        /\ runLock' \in Procs \cup {NoProc}
    BY <1>2 DEF Interrupt
  <2>2. used' \in [{"start", "crash", "fault", "read", "interrupt"} -> Nat]
    BY <1>2 DEF Interrupt
  <2>3. QED
    BY <1>2, <2>1, <2>2 DEF Interrupt
<1>3. CASE Crash(p)
  BY <1>3 DEF Crash
<1>4. CASE AcquireRunLock(p)
  BY <1>4 DEF AcquireRunLock
<1>5. CASE RefuseRunLock(p)
  BY <1>5 DEF RefuseRunLock
<1>6. CASE ScanPending(p)
  BY <1>6 DEF ScanPending, ScanFaults
<1>7. CASE ScanComplete(p)
  <2>1. used' \in [{"start", "crash", "fault", "read", "interrupt"} -> Nat]
    BY <1>7 DEF ScanComplete, ScanFaults
  <2>2. statuses' \in [Procs -> [Jobs -> Results \cup {"none"}]]
    <3>1. PICK seen \in SUBSET Jobs :
            statuses' = [statuses EXCEPT ![p] =
                           [j \in Jobs |-> IF j \in seen THEN "COMPLETED" ELSE "none"]]
      BY <1>7 DEF ScanComplete
    <3>2. [j \in Jobs |-> IF j \in seen THEN "COMPLETED" ELSE "none"]
            \in [Jobs -> Results \cup {"none"}]
      OBVIOUS
    <3>3. QED
      BY <3>1, <3>2
  <2>3. CASE pending[p] = {}
    <3>1. GoDown(p, "returned")
      BY <1>7, <2>3 DEF ScanComplete
    <3>2. QED
      BY <2>1, <2>2, <3>1
  <2>4. CASE pending[p] # {}
    <3>1. /\ phase' = [phase EXCEPT ![p] = "collecting"]
          /\ step' = [step EXCEPT ![p] =
                        [j \in Jobs |-> IF j \in pending[p] THEN "queued" ELSE "none"]]
          /\ UNCHANGED <<attempts, runLock, pending, outcome, att, ret>>
      BY <1>7, <2>4 DEF ScanComplete
    <3>2. [j \in Jobs |-> IF j \in pending[p] THEN "queued" ELSE "none"] \in [Jobs -> Steps]
      OBVIOUS
    <3>3. phase' \in [Procs -> Phases] /\ step' \in [Procs -> [Jobs -> Steps]]
      BY <3>1, <3>2
    <3>4. QED
      BY <2>1, <2>2, <3>1, <3>3
  <2>5. QED
    BY <2>3, <2>4
<1>8. ASSUME NEW j \in Jobs, Collect(p, j)
      PROVE  TypeOK'
  <2>1. CASE ret[p][j] = "raised"
    BY <1>8, <2>1 DEF Collect
  <2>2. CASE ret[p][j] # "raised"
    <3>1. /\ step[p][j] = "done"
          /\ statuses' = [statuses EXCEPT ![p][j] = ret[p][j]]
          /\ pending' = [pending EXCEPT ![p] = @ \ {j}]
          /\ UNCHANGED <<attempts, runLock, phase, outcome, step, att, ret, used>>
      BY <1>8, <2>2 DEF Collect
    <3>2. ret[p][j] \in Results \cup {"none"}
      BY <2>2
    <3>3. statuses' \in [Procs -> [Jobs -> Results \cup {"none"}]]
      BY <3>1, <3>2
    <3>4. pending' \in [Procs -> SUBSET Jobs]
      BY <3>1
    <3>5. QED
      BY <3>1, <3>3, <3>4
  <2>3. QED
    BY <2>1, <2>2
<1>9. CASE Return(p)
  BY <1>9 DEF Return
<1>10. CASE Drained(p)
  BY <1>10 DEF Drained
<1>11. CASE Exited(p)
  BY <1>11 DEF Exited
<1>12. QED
  BY <1>1, <1>2, <1>3, <1>4, <1>5, <1>6, <1>7, <1>8, <1>9, <1>10, <1>11 DEF MainStep

(* The same steps keep what relates workers to attempt directories: they   *)
(* move no worker but those of a process that goes down.                   *)
LEMMA MainThreadBase ==
  ASSUME BaseInv, NEW p \in Procs,
         Start(p) \/ Interrupt(p) \/ Crash(p) \/ MainStep(p)
  PROVE  BaseInv'
<1> USE DEF BaseInv, AttemptBound, ExecutionKnown, NoSharedAttempt, OwnUndecided, InFlight
<1>1. TypeOK'
  BY MainThreadType
<1>2. UNCHANGED attempts
  BY AttemptsOnlyByWorkers
<1>3. \A q \in Procs, j \in Jobs :
        \/ /\ step'[q][j] = step[q][j]
           /\ att'[q][j] = att[q][j]
           /\ ret'[q][j] = ret[q][j]
        \/ step'[q][j] \in {"none", "queued"}
  <2> USE DEF TypeOK, disk, main, workers, GoDown
  <2>1. CASE Start(p)
    BY <2>1 DEF Start
  <2>2. CASE Interrupt(p)
    BY <2>2 DEF Interrupt
  <2>3. CASE Crash(p)
    BY <2>3 DEF Crash
  <2>4. CASE AcquireRunLock(p)
    BY <2>4 DEF AcquireRunLock
  <2>5. CASE RefuseRunLock(p)
    BY <2>5 DEF RefuseRunLock
  <2>6. CASE ScanPending(p)
    BY <2>6 DEF ScanPending
  <2>7. CASE ScanComplete(p)
    <3>1. CASE pending[p] = {}
      <4>1. GoDown(p, "returned")
        BY <2>7, <3>1 DEF ScanComplete
      <4>2. QED
        BY <4>1
    <3>2. CASE pending[p] # {}
      <4>1. /\ step' = [step EXCEPT ![p] =
                          [j \in Jobs |-> IF j \in pending[p] THEN "queued" ELSE "none"]]
            /\ UNCHANGED <<attempts, att, ret>>
        BY <2>7, <3>2 DEF ScanComplete
      <4>2. QED
        BY <4>1
    <3>3. QED
      BY <3>1, <3>2
  <2>8. ASSUME NEW j \in Jobs, Collect(p, j)
        PROVE  UNCHANGED <<attempts, step, att, ret>>
    BY <2>8 DEF Collect
  <2>9. CASE Return(p)
    BY <2>9 DEF Return
  <2>10. CASE Drained(p)
    BY <2>10 DEF Drained
  <2>11. CASE Exited(p)
    BY <2>11 DEF Exited
  <2>12. QED
    BY <2>1, <2>2, <2>3, <2>4, <2>5, <2>6, <2>7, <2>8, <2>9, <2>10, <2>11 DEF MainStep
<1>4. QED
  BY <1>1, <1>2, <1>3

(* A worker that moves on with the directory it has, or leaves it, keeps   *)
(* the base invariant.                                                     *)
LEMMA MoveBase ==
  ASSUME BaseInv, NEW p \in Procs, NEW j \in Jobs, NEW s \in Steps,
         Goto(p, j, s),
         UNCHANGED <<attempts, att, runLock, phase, pending, statuses, outcome>>,
         ret' \in [Procs -> [Jobs -> Results \cup {"none", "raised"}]],
         \A q \in Procs, k \in Jobs : ~ (q = p /\ k = j) => ret'[q][k] = ret[q][k],
         used' \in [{"start", "crash", "fault", "read", "interrupt"} -> Nat],
         s # "making", s # "requesting",
         s \in {"running", "committing", "recovering"} => InFlight(p, j),
         s = "committing" => ret'[p][j] \in Results
  PROVE  BaseInv'
<1>1. TypeOK /\ AttemptBound /\ ExecutionKnown /\ NoSharedAttempt /\ OwnUndecided
  BY DEF BaseInv
<1>2. /\ step' \in [Procs -> [Jobs -> Steps]]
      /\ \A q \in Procs, k \in Jobs : step'[q][k] = IF q = p /\ k = j THEN s ELSE step[q][k]
  BY <1>1 DEF TypeOK, Goto
<1>3. TypeOK'
  BY <1>1, <1>2 DEF TypeOK
<1>4. \A q \in Procs, k \in Jobs :
        /\ InFlight(q, k)' => InFlight(q, k)
        /\ step'[q][k] = "making" => step[q][k] = "making"
        /\ step'[q][k] = "committing" =>
             \/ ret'[q][k] \in Results
             \/ step[q][k] = "committing" /\ ret'[q][k] = ret[q][k]
  BY <1>2 DEF InFlight
<1>5. AttemptBound'
  BY <1>1, <1>4 DEF AttemptBound
<1>6. ExecutionKnown'
  BY <1>1, <1>4 DEF ExecutionKnown
<1>7. NoSharedAttempt' /\ OwnUndecided'
  BY <1>1, <1>4 DEF NoSharedAttempt, OwnUndecided
<1>8. QED
  BY <1>3, <1>5, <1>6, <1>7 DEF BaseInv

(* The worker steps that change no file.                                   *)
LEMMA WorkerQuietBase ==
  ASSUME BaseInv, NEW p \in Procs, NEW j \in Jobs,
         \/ TakeJob(p, j) \/ Allocate(p, j) \/ AllocateRaises(p, j) \/ PickId(p, j)
         \/ PrepareFails(p, j) \/ RunnerReturns(p, j) \/ RunnerRaises(p, j)
         \/ CommitRejected(p, j) \/ RecoverRaises(p, j) \/ ReleaseLease(p, j)
  PROVE  BaseInv'
<1> TypeOK
  BY DEF BaseInv
<1>1. CASE TakeJob(p, j)
  <2>1. /\ Goto(p, j, "allocating")
        /\ UNCHANGED <<attempts, att, runLock, phase, pending, statuses, outcome>>
        /\ UNCHANGED ret
    BY <1>1 DEF TakeJob, disk, main
  <2>2. ret' \in [Procs -> [Jobs -> Results \cup {"none", "raised"}]]
    BY <2>1 DEF TypeOK, Results
  <2>3. used' \in [{"start", "crash", "fault", "read", "interrupt"} -> Nat]
    BY <1>1 DEF TakeJob, TypeOK, Use
  <2>4. "allocating" \in Steps
    BY DEF Steps
  <2>5. QED
    BY <2>1, <2>2, <2>3, <2>4, MoveBase DEF Steps, InFlight
<1>2. CASE Allocate(p, j)
  <2>1. /\ Goto(p, j, "picking")
        /\ UNCHANGED <<attempts, att, runLock, phase, pending, statuses, outcome>>
        /\ UNCHANGED ret
    BY <1>2 DEF Allocate, disk, main
  <2>2. ret' \in [Procs -> [Jobs -> Results \cup {"none", "raised"}]]
    BY <2>1 DEF TypeOK, Results
  <2>3. used' \in [{"start", "crash", "fault", "read", "interrupt"} -> Nat]
    BY <1>2 DEF Allocate, TypeOK, Use
  <2>4. "picking" \in Steps
    BY DEF Steps
  <2>5. QED
    BY <2>1, <2>2, <2>3, <2>4, MoveBase DEF Steps, InFlight
<1>3. CASE AllocateRaises(p, j)
  <2>1. /\ Goto(p, j, "done")
        /\ UNCHANGED <<attempts, att, runLock, phase, pending, statuses, outcome>>
        /\ ret' = [ret EXCEPT ![p][j] = "raised"]
    BY <1>3 DEF AllocateRaises, disk, main
  <2>2. ret' \in [Procs -> [Jobs -> Results \cup {"none", "raised"}]]
    BY <2>1 DEF TypeOK, Results
  <2>3. used' \in [{"start", "crash", "fault", "read", "interrupt"} -> Nat]
    BY <1>3 DEF AllocateRaises, TypeOK, Use
  <2>4. "done" \in Steps
    BY DEF Steps
  <2>5. QED
    BY <2>1, <2>2, <2>3, <2>4, MoveBase DEF Steps, InFlight
<1>4. CASE PickId(p, j)
  <2> USE DEF BaseInv, TypeOK, AttemptBound, ExecutionKnown, NoSharedAttempt, OwnUndecided,
              InFlight, Steps, Results, disk, main, workers, Goto
  <2>1. NextAttemptId(j) \in 1 .. Len(attempts[j]) + 1 /\ NextAttemptId(j) \in Nat
    BY DEF NextAttemptId
  <2>2. /\ step' = [step EXCEPT ![p][j] = "making"]
        /\ att' = [att EXCEPT ![p][j] = NextAttemptId(j)]
        /\ UNCHANGED <<attempts, runLock, phase, pending, statuses, outcome, ret, used>>
    BY <1>4 DEF PickId
  <2>3. TypeOK'
    BY <2>1, <2>2
  <2>4. \A q \in Procs, k \in Jobs :
          IF q = p /\ k = j
            THEN step'[q][k] = "making" /\ att'[q][k] = NextAttemptId(j)
            ELSE step'[q][k] = step[q][k] /\ att'[q][k] = att[q][k]
    BY <2>2
  <2>5. AttemptBound' /\ ExecutionKnown'
    BY <2>1, <2>2, <2>4
  <2>6. NoSharedAttempt' /\ OwnUndecided'
    BY <2>2, <2>4
  <2>7. QED
    BY <2>3, <2>5, <2>6
<1>5. CASE PrepareFails(p, j)
  <2>1. /\ Goto(p, j, "releasing")
        /\ UNCHANGED <<attempts, att, runLock, phase, pending, statuses, outcome>>
        /\ ret' = [ret EXCEPT ![p][j] = "FAILED"]
    BY <1>5 DEF PrepareFails, disk, main
  <2>2. ret' \in [Procs -> [Jobs -> Results \cup {"none", "raised"}]]
    BY <2>1 DEF TypeOK, Results
  <2>3. used' \in [{"start", "crash", "fault", "read", "interrupt"} -> Nat]
    BY <1>5 DEF PrepareFails, TypeOK, Use
  <2>4. "releasing" \in Steps
    BY DEF Steps
  <2>5. QED
    BY <2>1, <2>2, <2>3, <2>4, MoveBase DEF Steps, InFlight
<1>6. CASE RunnerReturns(p, j)
  <2>1. /\ Goto(p, j, "committing")
        /\ UNCHANGED <<attempts, att, runLock, phase, pending, statuses, outcome>>
        /\ \E s \in Results : ret' = [ret EXCEPT ![p][j] = s]
    BY <1>6 DEF RunnerReturns, disk, main
  <2>2. ret' \in [Procs -> [Jobs -> Results \cup {"none", "raised"}]]
    BY <2>1 DEF TypeOK, Results
  <2>3. used' \in [{"start", "crash", "fault", "read", "interrupt"} -> Nat]
    BY <1>6 DEF RunnerReturns, TypeOK, Use
  <2>4. InFlight(p, j)
    BY <1>6 DEF RunnerReturns, InFlight
  <2>5. QED
    BY <2>1, <2>2, <2>3, <2>4, MoveBase DEF Steps, InFlight
<1>7. CASE RunnerRaises(p, j)
  <2>1. /\ Goto(p, j, "recovering")
        /\ UNCHANGED <<attempts, att, runLock, phase, pending, statuses, outcome>>
        /\ UNCHANGED ret
    BY <1>7 DEF RunnerRaises, disk, main
  <2>2. ret' \in [Procs -> [Jobs -> Results \cup {"none", "raised"}]]
    BY <2>1 DEF TypeOK, Results
  <2>3. used' \in [{"start", "crash", "fault", "read", "interrupt"} -> Nat]
    BY <1>7 DEF RunnerRaises, TypeOK, Use
  <2>4. InFlight(p, j)
    BY <1>7 DEF RunnerRaises, InFlight
  <2>5. QED
    BY <2>1, <2>2, <2>3, <2>4, MoveBase DEF Steps, InFlight
<1>8. CASE CommitRejected(p, j)
  <2>1. /\ Goto(p, j, "recovering")
        /\ UNCHANGED <<attempts, att, runLock, phase, pending, statuses, outcome>>
        /\ UNCHANGED ret
    BY <1>8 DEF CommitRejected, disk, main
  <2>2. ret' \in [Procs -> [Jobs -> Results \cup {"none", "raised"}]]
    BY <2>1 DEF TypeOK, Results
  <2>3. used' \in [{"start", "crash", "fault", "read", "interrupt"} -> Nat]
    BY <1>8 DEF CommitRejected, TypeOK, Use
  <2>4. InFlight(p, j)
    BY <1>8 DEF CommitRejected, InFlight
  <2>5. QED
    BY <2>1, <2>2, <2>3, <2>4, MoveBase DEF Steps, InFlight
<1>9. CASE RecoverRaises(p, j)
  <2>1. /\ Goto(p, j, "releasing")
        /\ UNCHANGED <<attempts, att, runLock, phase, pending, statuses, outcome>>
        /\ ret' = [ret EXCEPT ![p][j] = "raised"]
    BY <1>9 DEF RecoverRaises, disk, main
  <2>2. ret' \in [Procs -> [Jobs -> Results \cup {"none", "raised"}]]
    BY <2>1 DEF TypeOK, Results
  <2>3. used' \in [{"start", "crash", "fault", "read", "interrupt"} -> Nat]
    BY <1>9 DEF RecoverRaises, TypeOK, Use
  <2>4. "releasing" \in Steps
    BY DEF Steps
  <2>5. QED
    BY <2>1, <2>2, <2>3, <2>4, MoveBase DEF Steps, InFlight
<1>10. CASE ReleaseLease(p, j)
  <2>1. /\ Goto(p, j, "done")
        /\ UNCHANGED <<attempts, att, runLock, phase, pending, statuses, outcome>>
        /\ UNCHANGED ret
    BY <1>10 DEF ReleaseLease, disk, main
  <2>2. ret' \in [Procs -> [Jobs -> Results \cup {"none", "raised"}]]
    BY <2>1 DEF TypeOK, Results
  <2>3. used' \in [{"start", "crash", "fault", "read", "interrupt"} -> Nat]
    BY <1>10 DEF ReleaseLease, TypeOK, Use
  <2>4. "done" \in Steps
    BY DEF Steps
  <2>5. QED
    BY <2>1, <2>2, <2>3, <2>4, MoveBase DEF Steps, InFlight
<1>11. QED
  BY <1>1, <1>2, <1>3, <1>4, <1>5, <1>6, <1>7, <1>8, <1>9, <1>10

(* mkdir hands a worker a number that no other worker has.                 *)
LEMMA MakeDirBase ==
  ASSUME BaseInv, NEW p \in Procs, NEW j \in Jobs, MakeDir(p, j)
  PROVE  BaseInv'
<1>1. /\ attempts \in [Jobs -> Seq(AttemptState)]
      /\ step \in [Procs -> [Jobs -> Steps]]
      /\ step[p][j] = "making"
      /\ att \in [Procs -> [Jobs -> Nat]]
      /\ UNCHANGED <<runLock, phase, pending, statuses, outcome, att, ret, used>>
      /\ att[p][j] \in 1 .. Len(attempts[j]) + 1
  BY DEF BaseInv, TypeOK, AttemptBound, MakeDir, main
<1>2. \A k \in Jobs : DOMAIN attempts[k] = 1 .. Len(attempts[k]) /\ Len(attempts[k]) \in Nat
  BY <1>1
<1>3. CASE att[p][j] \in DOMAIN attempts[j]
  <2>1. Goto(p, j, "picking") /\ UNCHANGED attempts
    BY <1>3 DEF MakeDir
  <2>2. \A q \in Procs, k \in Jobs : step'[q][k] = IF q = p /\ k = j THEN "picking" ELSE step[q][k]
    BY <1>1, <2>1, StepAt DEF Steps
  <2>3. TypeOK'
    BY <1>1, <2>1, StepAt DEF BaseInv, TypeOK, Steps
  <2>4. \A q \in Procs, k \in Jobs :
          /\ InFlight(q, k)' => InFlight(q, k)
          /\ step'[q][k] \in {"making", "committing"} => step'[q][k] = step[q][k]
    BY <2>2 DEF InFlight
  <2>5. AttemptBound' /\ ExecutionKnown' /\ NoSharedAttempt' /\ OwnUndecided'
    BY <1>1, <2>1, <2>4
       DEF BaseInv, AttemptBound, ExecutionKnown, NoSharedAttempt, OwnUndecided
  <2>6. QED
    BY <2>3, <2>5 DEF BaseInv
<1>4. CASE att[p][j] \notin DOMAIN attempts[j]
  <2>1. Goto(p, j, "requesting") /\ attempts' = [attempts EXCEPT ![j] = Append(@, "made")]
    BY <1>4 DEF MakeDir
  <2>2. att[p][j] = Len(attempts[j]) + 1
    BY <1>1, <1>2, <1>4
  <2>3. /\ attempts' \in [Jobs -> Seq(AttemptState)]
        /\ \A k \in Jobs :
             Len(attempts'[k]) = IF k = j THEN Len(attempts[k]) + 1 ELSE Len(attempts[k])
        /\ \A k \in Jobs : \A n \in 1 .. Len(attempts[k]) : attempts'[k][n] = attempts[k][n]
        /\ attempts'[j][Len(attempts[j]) + 1] = "made"
    BY <1>1, <2>1, NewAttempt
  <2>4. \A q \in Procs, k \in Jobs :
          step'[q][k] = IF q = p /\ k = j THEN "requesting" ELSE step[q][k]
    BY <1>1, <2>1, StepAt DEF Steps
  <2>5. TypeOK'
    BY <1>1, <2>1, <2>3, StepAt DEF BaseInv, TypeOK, Steps
  <2>6. AttemptBound'
    BY <1>1, <1>2, <2>2, <2>3, <2>4 DEF BaseInv, AttemptBound, InFlight
  <2>7. \A q \in Procs : InFlight(q, j) => att[q][j] # att[p][j]
    BY <1>2, <2>2 DEF BaseInv, AttemptBound
  <2>8. NoSharedAttempt'
    <3>1. \A q \in Procs, k \in Jobs : InFlight(q, k)' => InFlight(q, k) \/ (q = p /\ k = j)
      BY <2>4 DEF InFlight
    <3>2. SUFFICES ASSUME NEW q \in Procs, NEW r \in Procs, NEW k \in Jobs,
                          InFlight(q, k)', InFlight(r, k)', att[q][k] = att[r][k]
                   PROVE  q = r
      BY <1>1 DEF NoSharedAttempt
    <3>3. QED
      BY <2>7, <3>1, <3>2 DEF BaseInv, NoSharedAttempt
  <2>9. ExecutionKnown'
    BY <1>1, <2>4 DEF BaseInv, ExecutionKnown
  <2>10. OwnUndecided'
    <3>1. SUFFICES ASSUME NEW q \in Procs, NEW k \in Jobs, InFlight(q, k)'
                   PROVE  attempts'[k][att[q][k]] \notin Results
      BY <1>1 DEF OwnUndecided
    <3>2. CASE q = p /\ k = j
      BY <2>2, <2>3, <3>2 DEF Results
    <3>3. CASE ~(q = p /\ k = j)
      <4>1. InFlight(q, k)
        BY <2>4, <3>1, <3>3 DEF InFlight
      <4>2. QED
        BY <2>3, <4>1 DEF BaseInv, AttemptBound, OwnUndecided
    <3>4. QED
      BY <3>2, <3>3
  <2>11. QED
    BY <2>5, <2>6, <2>8, <2>9, <2>10 DEF BaseInv
<1>5. QED
  BY <1>3, <1>4

(* The steps that write into the worker's own attempt directory.           *)
LEMMA WorkerWriteBase ==
  ASSUME BaseInv, NEW p \in Procs, NEW j \in Jobs,
         WriteRequest(p, j) \/ Commit(p, j) \/ Recover(p, j)
  PROVE  BaseInv'
<1> USE DEF BaseInv, TypeOK, AttemptBound, ExecutionKnown, NoSharedAttempt, OwnUndecided, InFlight,
            Steps, Results, main, Goto, Publish
<1>1. /\ attempts' \in [Jobs -> Seq(AttemptState)]
      /\ \A k \in Jobs : Len(attempts'[k]) = Len(attempts[k])
      /\ \A k \in Jobs : \A n \in 1 .. Len(attempts[k]) :
           ~(k = j /\ n = att[p][j]) => attempts'[k][n] = attempts[k][n]
  <2>1. \A s \in AttemptState :
          InFlight(p, j) /\ attempts' = [attempts EXCEPT ![j][att[p][j]] = s] =>
            /\ attempts' \in [Jobs -> Seq(AttemptState)]
            /\ \A k \in Jobs : Len(attempts'[k]) = Len(attempts[k])
            /\ \A k \in Jobs : \A n \in 1 .. Len(attempts[k]) :
                 ~(k = j /\ n = att[p][j]) => attempts'[k][n] = attempts[k][n]
    BY WriteAttempt
  <2>2. CASE WriteRequest(p, j)
    BY <2>1, <2>2 DEF WriteRequest, AttemptState
  <2>3. CASE Commit(p, j)
    <3>1. CASE Publishable(p, j)
      <4>1. ret[p][j] \in AttemptState /\ InFlight(p, j)
        BY <2>3 DEF Commit, AttemptState
      <4>2. attempts' = [attempts EXCEPT ![j][att[p][j]] = ret[p][j]]
        BY <2>3, <3>1 DEF Commit
      <4>3. QED
        BY <2>1, <4>1, <4>2
    <3>2. QED
      BY <2>3, <3>1 DEF Commit
  <2>4. CASE Recover(p, j)
    BY <2>1, <2>4 DEF Recover, AttemptState
  <2>5. QED
    BY <2>2, <2>3, <2>4
<1>2. /\ InFlight(p, j)
      /\ UNCHANGED <<runLock, phase, pending, statuses, outcome, att, used>>
      /\ \E s \in {"running", "releasing", "recovering"} : step' = [step EXCEPT ![p][j] = s]
      /\ \/ ret' = ret
         \/ \E s \in Results \cup {"raised"} : ret' = [ret EXCEPT ![p][j] = s]
  <2>1. CASE WriteRequest(p, j)
    BY <2>1 DEF WriteRequest
  <2>2. CASE Commit(p, j)
    BY <2>2 DEF Commit
  <2>3. CASE Recover(p, j)
    BY <2>3 DEF Recover
  <2>4. QED
    BY <2>1, <2>2, <2>3
<1>3. /\ step' \in [Procs -> [Jobs -> Steps]]
      /\ \A q \in Procs, k \in Jobs :
           IF q = p /\ k = j
             THEN step'[q][k] \in {"running", "releasing", "recovering"}
             ELSE step'[q][k] = step[q][k]
  <2>1. PICK s \in {"running", "releasing", "recovering"} : step' = [step EXCEPT ![p][j] = s]
    BY <1>2
  <2>2. /\ step' \in [Procs -> [Jobs -> Steps]]
        /\ \A q \in Procs, k \in Jobs :
             step'[q][k] = IF q = p /\ k = j THEN s ELSE step[q][k]
    BY <2>1
  <2>3. QED
    BY <2>1, <2>2
<1>4. /\ ret' \in [Procs -> [Jobs -> Results \cup {"none", "raised"}]]
      /\ \A q \in Procs, k \in Jobs : ret'[q][k] = ret[q][k] \/ (q = p /\ k = j)
  <2>1. CASE ret' = ret
    BY <2>1
  <2>2. CASE \E s \in Results \cup {"raised"} : ret' = [ret EXCEPT ![p][j] = s]
    <3>1. PICK s \in Results \cup {"raised"} : ret' = [ret EXCEPT ![p][j] = s]
      BY <2>2
    <3>2. QED
      BY <3>1
  <2>3. QED
    BY <1>2, <2>1, <2>2
<1>5. TypeOK'
  BY <1>1, <1>2, <1>3, <1>4
<1>6. ASSUME NEW q \in Procs, NEW k \in Jobs
      PROVE  /\ InFlight(q, k)' => InFlight(q, k)
             /\ step'[q][k] = "making" => step[q][k] = "making"
             /\ step'[q][k] = "committing" => step[q][k] = "committing" /\ ret'[q][k] = ret[q][k]
             /\ att'[q][k] = att[q][k]
             /\ Len(attempts'[k]) = Len(attempts[k])
  <2>1. CASE q = p /\ k = j
    <3>1. step'[q][k] \in {"running", "releasing", "recovering"}
      BY <1>3, <2>1
    <3>2. QED
      BY <1>1, <1>2, <2>1, <3>1
  <2>2. CASE ~(q = p /\ k = j)
    <3>1. step'[q][k] = step[q][k] /\ ret'[q][k] = ret[q][k]
      BY <1>3, <1>4, <2>2
    <3>2. QED
      BY <1>1, <1>2, <3>1
  <2>3. QED
    BY <2>1, <2>2
<1>7. AttemptBound'
  BY <1>6
<1>8. ExecutionKnown'
  BY <1>6
<1>9. NoSharedAttempt'
  BY <1>6
<1>10. OwnUndecided'
  <2>1. SUFFICES ASSUME NEW q \in Procs, NEW k \in Jobs, InFlight(q, k)'
                 PROVE  attempts'[k][att[q][k]] \notin Results
    BY <1>2
  <2>2. CASE q = p /\ k = j
    <3>1. CASE WriteRequest(p, j)
      BY <1>2, <2>2, <3>1 DEF WriteRequest
    <3>2. CASE (Commit(p, j) \/ Recover(p, j)) /\ UNCHANGED attempts
      BY <1>2, <1>6, <2>1, <2>2, <3>2
    <3>3. CASE (Commit(p, j) \/ Recover(p, j)) /\ step' = [step EXCEPT ![p][j] = "releasing"]
      BY <2>1, <2>2, <3>3
    <3>4. QED
      BY <3>1, <3>2, <3>3 DEF Commit, Recover
  <2>3. CASE ~(q = p /\ k = j)
    <3>1. InFlight(q, k) /\ att[q][k] \in 1 .. Len(attempts[k])
      BY <1>6, <2>1
    <3>2. ~(k = j /\ att[q][k] = att[p][j])
      BY <1>2, <2>3, <3>1
    <3>3. QED
      BY <1>1, <3>1, <3>2
  <2>4. QED
    BY <2>2, <2>3
<1>11. QED
  BY <1>5, <1>7, <1>8, <1>9, <1>10

-----------------------------------------------------------------------------

(* Nothing runs in the initial states.                                     *)
LEMMA BaseInit == Init => BaseInv
<1> SUFFICES ASSUME Init PROVE BaseInv
  OBVIOUS
<1>1. \A j \in Jobs : << >> \in Seq(AttemptState)
  OBVIOUS
<1>2. TypeOK
  BY <1>1 DEF Init, TypeOK, Phases, Steps, Results
<1>3. QED
  BY <1>2 DEF Init, BaseInv, AttemptBound, ExecutionKnown, NoSharedAttempt, OwnUndecided, InFlight

(* Every step keeps the base invariant.                                    *)
LEMMA BaseNext == BaseInv /\ [Next]_vars => BaseInv'
<1> SUFFICES ASSUME BaseInv, [Next]_vars PROVE BaseInv'
  OBVIOUS
<1>1. ASSUME NEW p \in Procs, Start(p) \/ Interrupt(p) \/ Crash(p) \/ MainStep(p)
      PROVE  BaseInv'
  BY <1>1, MainThreadBase
<1>2. ASSUME NEW p \in Procs, NEW j \in Jobs, WorkerStep(p, j)
      PROVE  BaseInv'
  BY <1>2, WorkerQuietBase, MakeDirBase, WorkerWriteBase DEF WorkerStep
<1>3. CASE UNCHANGED vars
  BY <1>3 DEF vars, BaseInv, TypeOK, AttemptBound, ExecutionKnown, NoSharedAttempt, OwnUndecided, InFlight
<1>4. QED
  BY <1>1, <1>2, <1>3 DEF Next

(* Types, attempt numbers and the ownership of attempt directories, in     *)
(* every reachable state (scheduler.py:95-186, store.py:123-179).          *)
THEOREM BaseCorrect == Spec => []BaseInv
BY BaseInit, BaseNext, PTL DEF Spec

(* Every variable of the scheduler and the store keeps its type.           *)
THEOREM TypeCorrect == Spec => []TypeOK
<1>1. BaseInv => TypeOK
  BY DEF BaseInv
<1>2. QED
  BY <1>1, BaseCorrect, PTL

(* For any number of schedulers, also of two that run by mistake on one    *)
(* run directory, no attempt directory is shared by two workers.           *)
THEOREM AttemptsNotShared == Spec => []NoSharedAttempt
<1>1. BaseInv => NoSharedAttempt
  BY DEF BaseInv
<1>2. QED
  BY <1>1, BaseCorrect, PTL

-----------------------------------------------------------------------------
(* One scheduler at a time, while nobody interrupts the pool.              *)

(* Initially the run lock is free.                                         *)
LEMMA LockInit == Init => LockInv
BY NoProcAssumption DEF Init, LockInv

(* Without Ctrl-C every step keeps the run lock with the one live pool.    *)
LEMMA LockNext ==
  MaxInterrupts = 0 /\ TypeOK /\ LockInv /\ [Next]_vars => LockInv'
<1> SUFFICES ASSUME MaxInterrupts = 0, TypeOK, LockInv, [Next]_vars
             PROVE  LockInv'
  OBVIOUS
<1> USE NoProcAssumption DEF LockInv, TypeOK, Phases
<1>1. ASSUME NEW p \in Procs, NEW how, GoDown(p, how)
      PROVE  LockInv'
  BY <1>1 DEF GoDown
<1>2. ASSUME NEW p \in Procs, Start(p)
      PROVE  LockInv'
  BY <1>2 DEF Start, workers
<1>3. ASSUME NEW p \in Procs, Interrupt(p)
      PROVE  FALSE
  BY <1>3 DEF Interrupt
<1>4. ASSUME NEW p \in Procs, AcquireRunLock(p)
      PROVE  LockInv'
  BY <1>4 DEF AcquireRunLock, workers
<1>5. ASSUME NEW p \in Procs, ScanPending(p)
      PROVE  LockInv'
  BY <1>5 DEF ScanPending, workers
<1>6. ASSUME NEW p \in Procs, ScanComplete(p)
      PROVE  LockInv'
  <2>1. CASE pending[p] = {}
    BY <1>1, <1>6, <2>1 DEF ScanComplete
  <2>2. CASE pending[p] # {}
    <3>1. /\ phase[p] = "scanned"
          /\ phase' = [phase EXCEPT ![p] = "collecting"]
          /\ step' = [step EXCEPT ![p] =
                        [j \in Jobs |-> IF j \in pending[p] THEN "queued" ELSE "none"]]
          /\ UNCHANGED runLock
      BY <1>6, <2>2 DEF ScanComplete
    <3>2. QED
      BY <3>1
  <2>3. QED
    BY <2>1, <2>2
<1>7. ASSUME NEW p \in Procs, NEW j \in Jobs, Collect(p, j)
      PROVE  LockInv'
  BY <1>7 DEF Collect, workers
<1>8. ASSUME NEW p \in Procs, NEW j \in Jobs, WorkerStep(p, j)
      PROVE  LockInv'
  <2>1. /\ UNCHANGED main
        /\ step[p][j] # "none"
        /\ \E s \in Steps : step' = [step EXCEPT ![p][j] = s]
    BY <1>8 DEF WorkerStep, TakeJob, Allocate, AllocateRaises, PickId, MakeDir, WriteRequest,
                PrepareFails, RunnerReturns, RunnerRaises, Commit, CommitRejected, Recover,
                RecoverRaises, ReleaseLease, Goto, Steps
  <2>2. \A q \in Procs, k \in Jobs : step'[q][k] # "none" => step[q][k] # "none"
    BY <2>1
  <2>3. QED
    BY <2>1, <2>2 DEF main
<1>9. CASE UNCHANGED vars
  BY <1>9 DEF vars
<1>10. ASSUME NEW p \in Procs, MainStep(p) \/ Crash(p)
       PROVE  LockInv'
  BY <1>1, <1>4, <1>5, <1>6, <1>7, <1>10
     DEF MainStep, RefuseRunLock, Return, Drained, Exited, Crash
<1>11. QED
  BY <1>2, <1>3, <1>8, <1>9, <1>10 DEF Next

(* While nobody presses Ctrl-C in a running pool, two invocations never    *)
(* have live workers on the run directory together, whatever is killed.    *)
THEOREM OneSchedulerHolds == MaxInterrupts = 0 => (Spec => []OneScheduler)
<1> SUFFICES ASSUME MaxInterrupts = 0 PROVE Spec => []OneScheduler
  OBVIOUS
<1>1. LockInv => OneScheduler
  <2>1. ASSUME LockInv, NEW p \in Procs, HasLiveWorkers(p)
        PROVE  runLock = p
    <3>1. PICK j \in Jobs : step[p][j] # "none"
      BY <2>1 DEF HasLiveWorkers
    <3>2. QED
      BY <2>1, <3>1 DEF LockInv
  <2>2. QED
    BY <2>1 DEF OneScheduler
<1>2. TypeOK /\ LockInv /\ [Next]_vars => LockInv'
  BY LockNext
<1>3. Spec => []LockInv
  BY <1>2, LockInit, TypeCorrect, PTL DEF Spec
<1>4. QED
  BY <1>1, <1>3, PTL

-----------------------------------------------------------------------------
(* Completed attempts are never rerun, while every result.json can be read *)
(* and nobody interrupts the pool.                                         *)

(* Initially nothing has been scanned.                                     *)
LEMMA FreshInit == Init => FreshScan
BY DEF Init, FreshScan

(* A step changes whether a job is complete only by a commit, and then     *)
(* only the worker of that job in the one live pool was not yet done.      *)
LEMMA FreshNext ==
  MaxInterrupts = 0 /\ MaxReadFaults = 0 /\ SerialInv /\ [Next]_vars => FreshScan'
<1> SUFFICES ASSUME MaxInterrupts = 0, MaxReadFaults = 0, SerialInv, [Next]_vars
             PROVE  FreshScan'
  OBVIOUS
<1> USE DEF SerialInv, BaseInv, FreshScan, JobIsComplete
<1>1. ASSUME NEW p \in Procs, NEW how, GoDown(p, how)
      PROVE  FreshScan'
  BY <1>1 DEF GoDown, TypeOK
<1>2. ASSUME NEW p \in Procs, Start(p) \/ AcquireRunLock(p)
      PROVE  FreshScan'
  <2>1. /\ UNCHANGED <<attempts, pending, step>>
        /\ phase \in [Procs -> Phases]
        /\ (phase' = [phase EXCEPT ![p] = "starting"]) \/ (phase' = [phase EXCEPT ![p] = "locked"])
    BY <1>2 DEF Start, AcquireRunLock, workers, disk, TypeOK
  <2>2. \A q \in Procs : phase'[q] = "scanned" => phase[q] = "scanned"
    BY <2>1
  <2>3. QED
    BY <2>1, <2>2
<1>3. ASSUME NEW p \in Procs, Interrupt(p)
      PROVE  FALSE
  BY <1>3 DEF Interrupt, TypeOK
<1>4. ASSUME NEW p \in Procs, NEW unreadable \in SUBSET Jobs, ScanFaults(unreadable)
      PROVE  unreadable = {}
  BY <1>4 DEF ScanFaults, TypeOK
<1>5. ASSUME NEW p \in Procs, ScanPending(p)
      PROVE  FreshScan'
  <2>1. PICK unreadable \in SUBSET Jobs :
          /\ ScanFaults(unreadable)
          /\ pending' = [pending EXCEPT ![p] = Jobs \ Seen(unreadable)]
    BY <1>5 DEF ScanPending
  <2>2. unreadable = {}
    BY <1>4, <2>1
  <2>3. pending'[p] = {j \in Jobs : ~ JobIsComplete(j)} /\ \A q \in Procs \ {p} : pending'[q] = pending[q]
    BY <2>1, <2>2 DEF Seen, TypeOK
  <2>4. UNCHANGED <<attempts, step>> /\ \A q \in Procs \ {p} : phase'[q] = phase[q]
    BY <1>5 DEF ScanPending, disk, workers, TypeOK
  <2>5. QED
    BY <2>3, <2>4
<1>6. ASSUME NEW p \in Procs, ScanComplete(p)
      PROVE  FreshScan'
  <2>1. CASE pending[p] = {}
    BY <1>1, <1>6, <2>1 DEF ScanComplete
  <2>2. CASE pending[p] # {}
    <3>1. /\ phase[p] = "scanned"
          /\ phase' = [phase EXCEPT ![p] = "collecting"]
          /\ step' = [step EXCEPT ![p] =
                        [j \in Jobs |-> IF j \in pending[p] THEN "queued" ELSE "none"]]
          /\ UNCHANGED <<attempts, pending>>
      BY <1>6, <2>2 DEF ScanComplete, disk
    <3>2. \A j \in pending[p] : ~ JobIsComplete(j)
      BY <3>1
    <3>3. QED
      BY <3>1, <3>2 DEF TypeOK
  <2>3. QED
    BY <2>1, <2>2
<1>7. ASSUME NEW p \in Procs, NEW j \in Jobs, Collect(p, j)
      PROVE  FreshScan'
  <2>1. /\ phase[p] = "collecting"
        /\ \A q \in Procs \ {p} : phase'[q] = phase[q] /\ pending'[q] = pending[q]
        /\ phase'[p] # "scanned"
        /\ UNCHANGED <<attempts, step>>
    BY <1>7 DEF Collect, disk, workers, TypeOK
  <2>2. QED
    BY <2>1
<1>8. ASSUME NEW p \in Procs, NEW j \in Jobs, WorkerStep(p, j)
      PROVE  FreshScan'
  <2>1. /\ phase[p] \in {"collecting", "draining"}
        /\ \A q \in Procs \ {p} : phase[q] # "scanned" /\ \A k \in Jobs : step[q][k] = "none"
    <3>1. step[p][j] # "none"
      BY <1>8 DEF WorkerStep, TakeJob, Allocate, AllocateRaises, PickId, MakeDir, WriteRequest,
                  PrepareFails, RunnerReturns, RunnerRaises, Commit, CommitRejected, Recover,
                  RecoverRaises, ReleaseLease
    <3>2. runLock = p /\ phase[p] \in {"collecting", "draining"}
      BY <3>1 DEF LockInv
    <3>3. QED
      BY <3>2 DEF LockInv
  <2>2. /\ UNCHANGED <<phase, pending>>
        /\ step[p][j] \notin {"none", "releasing", "done"} \/ step'[p][j] = "done"
        /\ \A q \in Procs, k \in Jobs : ~(q = p /\ k = j) => step'[q][k] = step[q][k]
    BY <1>8 DEF WorkerStep, TakeJob, Allocate, AllocateRaises, PickId, MakeDir, WriteRequest,
                PrepareFails, RunnerReturns, RunnerRaises, Commit, CommitRejected, Recover,
                RecoverRaises, ReleaseLease, Goto, main, TypeOK
  <2>3. ASSUME NEW k \in Jobs, k # j \/ step'[p][j] # "releasing", JobIsComplete(k)'
        PROVE  JobIsComplete(k)
    <3>1. CASE UNCHANGED attempts
      BY <2>3, <3>1
    <3>2. CASE MakeDir(p, j) /\ attempts' = [attempts EXCEPT ![j] = Append(@, "made")]
      <4>1. /\ Len(attempts'[k]) \in {Len(attempts[k]), Len(attempts[k]) + 1}
            /\ \A n \in 1 .. Len(attempts'[k]) :
                 attempts'[k][n] = "COMPLETED" => n \in 1 .. Len(attempts[k]) /\ attempts[k][n] = "COMPLETED"
        BY <3>2, NewAttempt DEF TypeOK
      <4>2. QED
        BY <2>3, <3>2, <4>1, NewAttempt DEF TypeOK
    <3>3. CASE InFlight(p, j) /\ attempts' = [attempts EXCEPT ![j][att[p][j]] = "requested"]
      <4>1. att[p][j] \in 1 .. Len(attempts[j]) /\ "requested" \in AttemptState
        BY <3>3 DEF AttemptBound, AttemptState
      <4>2. /\ attempts' \in [Jobs -> Seq(AttemptState)]
            /\ Len(attempts'[k]) = Len(attempts[k])
            /\ \A n \in 1 .. Len(attempts[k]) :
                 attempts'[k][n] = "COMPLETED" => attempts[k][n] = "COMPLETED"
        BY <3>3, <4>1, WriteAttempt DEF TypeOK
      <4>3. /\ DOMAIN attempts'[k] = 1 .. Len(attempts[k])
            /\ DOMAIN attempts[k] = 1 .. Len(attempts[k])
        BY <4>2 DEF TypeOK
      <4>4. QED
        BY <2>3, <4>2, <4>3
    <3>4. CASE k # j /\ \E s : attempts' = [attempts EXCEPT ![j][att[p][j]] = s]
      <4>1. attempts'[k] = attempts[k]
        BY <3>4 DEF TypeOK
      <4>2. QED
        BY <2>3, <4>1
    <3>5. QED
      BY <1>8, <2>3, <3>1, <3>2, <3>3, <3>4
         DEF WorkerStep, TakeJob, Allocate, AllocateRaises, PickId, MakeDir, WriteRequest,
             PrepareFails, RunnerReturns, RunnerRaises, Commit, CommitRejected, Recover,
             RecoverRaises, ReleaseLease, Goto, disk, Publish, InFlight, TypeOK
  <2>4. ASSUME NEW q \in Procs, NEW k \in Jobs, step'[q][k] \notin {"none", "releasing", "done"}
        PROVE  ~ JobIsComplete(k)'
    <3>1. q = p
      BY <2>1, <2>2, <2>4
    <3>2. step[p][k] \notin {"none", "releasing", "done"}
      BY <2>2, <2>4, <3>1
    <3>3. QED
      BY <2>3, <2>4, <3>1, <3>2
  <2>5. \A q \in Procs : phase'[q] # "scanned"
    BY <2>1, <2>2
  <2>6. QED
    BY <2>4, <2>5
<1>9. CASE UNCHANGED vars
  BY <1>9 DEF vars
<1>10. ASSUME NEW p \in Procs, MainStep(p) \/ Crash(p)
       PROVE  FreshScan'
  BY <1>1, <1>2, <1>5, <1>6, <1>7, <1>10
     DEF MainStep, RefuseRunLock, Return, Drained, Exited, Crash
<1>11. QED
  BY <1>2, <1>3, <1>8, <1>9, <1>10 DEF Next

(* Base, lock and scan invariants together, under the two conditions       *)
(* (no interrupt, no unreadable result).                                   *)
THEOREM SerialCorrect ==
  MaxInterrupts = 0 /\ MaxReadFaults = 0 => (Spec => []SerialInv)
<1> SUFFICES ASSUME MaxInterrupts = 0, MaxReadFaults = 0 PROVE Spec => []SerialInv
  OBVIOUS
<1>1. Init => SerialInv
  BY BaseInit, LockInit, FreshInit DEF SerialInv
<1>2. SerialInv /\ [Next]_vars => SerialInv'
  BY BaseNext, LockNext, FreshNext DEF SerialInv, BaseInv
<1>3. QED
  BY <1>1, <1>2, PTL DEF Spec

(* The only step that adds an attempt is MakeDir, and the job it adds one  *)
(* to has not completed.                                                   *)
LEMMA NoRerunStep ==
  ASSUME SerialInv, [Next]_vars, NEW k \in Jobs,
         "COMPLETED" \in {attempts[k][i] : i \in DOMAIN attempts[k]}
  PROVE  DOMAIN attempts'[k] = DOMAIN attempts[k]
<1>1. attempts \in [Jobs -> Seq(AttemptState)] /\ JobIsComplete(k)
  BY DEF SerialInv, BaseInv, TypeOK, JobIsComplete
<1>2. CASE UNCHANGED attempts
  BY <1>2
<1>3. ASSUME NEW p \in Procs, NEW j \in Jobs, MakeDir(p, j)
      PROVE  DOMAIN attempts'[k] = DOMAIN attempts[k]
  <2>1. ~ JobIsComplete(j)
    BY <1>3 DEF MakeDir, SerialInv, FreshScan
  <2>2. attempts'[k] = attempts[k]
    BY <1>1, <1>3, <2>1 DEF MakeDir
  <2>3. QED
    BY <2>2
<1>4. ASSUME NEW j \in Jobs, NEW i, NEW s, attempts' = [attempts EXCEPT ![j][i] = s]
      PROVE  DOMAIN attempts'[k] = DOMAIN attempts[k]
  BY <1>1, <1>4
<1>5. ASSUME NEW p \in Procs, NEW j \in Jobs, WorkerStep(p, j)
      PROVE  DOMAIN attempts'[k] = DOMAIN attempts[k]
  BY <1>2, <1>3, <1>4, <1>5
     DEF WorkerStep, TakeJob, Allocate, AllocateRaises, PickId, WriteRequest,
         PrepareFails, RunnerReturns, RunnerRaises, Commit, CommitRejected, Recover,
         RecoverRaises, ReleaseLease, disk, Publish
<1>6. ASSUME NEW p \in Procs, Start(p) \/ Interrupt(p) \/ Crash(p) \/ MainStep(p)
      PROVE  UNCHANGED attempts
  BY <1>6, AttemptsOnlyByWorkers
<1>7. QED
  BY <1>2, <1>5, <1>6 DEF Next, vars

(* "completed attempts are never rerun" (scheduler.py:62), for every       *)
(* number of invocations, crashes and failed writes: the two conditions    *)
(* are the ones that two runs of the scheduler show to be needed.          *)
THEOREM CompletedNeverRerun ==
  MaxInterrupts = 0 /\ MaxReadFaults = 0 => (Spec => NoRerunOfCompleted)
<1> SUFFICES ASSUME MaxInterrupts = 0, MaxReadFaults = 0 PROVE Spec => NoRerunOfCompleted
  OBVIOUS
<1>1. SerialInv /\ [Next]_vars =>
        [\A j \in Jobs :
           "COMPLETED" \in {attempts[j][i] : i \in DOMAIN attempts[j]}
             => DOMAIN attempts'[j] = DOMAIN attempts[j]]_vars
  BY NoRerunStep
<1>2. Spec => []SerialInv
  BY SerialCorrect
<1>3. QED
  BY <1>1, <1>2, PTL DEF Spec, NoRerunOfCompleted

-----------------------------------------------------------------------------
(* The attempt directories implement AttemptLedger, with any number of     *)
(* schedulers, crashes, failed writes, unreadable results and interrupts.  *)

(* A new attempt directory opens the next entry of the ledger.             *)
LEMMA LedgerOpen ==
  ASSUME BaseInv, NEW p \in Procs, NEW j \in Jobs, MakeDir(p, j),
         attempts' # attempts
  PROVE  Ledger!Open(j)
<1>1. attempts \in [Jobs -> Seq(AttemptState)] /\ attempts' = [attempts EXCEPT ![j] = Append(@, "made")]
  BY DEF BaseInv, TypeOK, MakeDir
<1>2. \A k \in Jobs \ {j} : Evidence'[k] = Evidence[k]
  BY <1>1 DEF Evidence
<1>3. /\ attempts' \in [Jobs -> Seq(AttemptState)]
      /\ Len(attempts'[j]) = Len(attempts[j]) + 1
      /\ \A n \in 1 .. Len(attempts[j]) : attempts'[j][n] = attempts[j][n]
      /\ attempts'[j][Len(attempts[j]) + 1] = "made"
  BY <1>1, NewAttempt
<1>4. Evidence[j] = [i \in 1 .. Len(attempts[j]) |->
                       IF attempts[j][i] \in Results THEN attempts[j][i] ELSE "open"]
  BY <1>1 DEF Evidence
<1>5. Evidence[j] \in Seq(Results \cup {"open"}) /\ Len(Evidence[j]) = Len(attempts[j])
  BY <1>1, <1>4
<1>6. Evidence'[j] = [i \in 1 .. Len(attempts[j]) + 1 |->
                       IF attempts'[j][i] \in Results THEN attempts'[j][i] ELSE "open"]
  BY <1>3 DEF Evidence
<1>7. Evidence'[j] = Append(Evidence[j], "open")
  BY <1>1, <1>3, <1>4, <1>5, <1>6 DEF Results
<1>8. QED
  BY <1>2, <1>7 DEF Ledger!Open, Evidence

(* A write into an attempt without a result closes it, or, for the request,*)
(* is invisible in the ledger.                                             *)
LEMMA LedgerWrite ==
  ASSUME BaseInv, NEW j \in Jobs, NEW i \in 1 .. Len(attempts[j]), NEW s \in AttemptState,
         attempts[j][i] \notin Results,
         attempts' = [attempts EXCEPT ![j][i] = s]
  PROVE  IF s \in Results THEN Ledger!Close(j, i, s) ELSE UNCHANGED Evidence
<1>1. attempts \in [Jobs -> Seq(AttemptState)]
  BY DEF BaseInv, TypeOK
<1>2. /\ \A k \in Jobs : DOMAIN attempts'[k] = DOMAIN attempts[k]
      /\ \A k \in Jobs : \A n \in DOMAIN attempts[k] :
           attempts'[k][n] = IF k = j /\ n = i THEN s ELSE attempts[k][n]
  BY <1>1
<1>3. Evidence[j][i] = "open" /\ i \in DOMAIN Evidence[j]
  BY <1>1 DEF Evidence
<1>4. Evidence' = [Evidence EXCEPT ![j][i] = IF s \in Results THEN s ELSE "open"]
  <2> DEFINE E == [Evidence EXCEPT ![j][i] = IF s \in Results THEN s ELSE "open"]
  <2>1. DOMAIN E = Jobs /\ DOMAIN Evidence' = Jobs
    BY DEF Evidence
  <2>2. ASSUME NEW k \in Jobs
        PROVE  Evidence'[k] = E[k]
    <3>1. /\ Evidence'[k] = [n \in DOMAIN attempts[k] |->
                 IF attempts'[k][n] \in Results THEN attempts'[k][n] ELSE "open"]
          /\ Evidence[k] = [n \in DOMAIN attempts[k] |->
                 IF attempts[k][n] \in Results THEN attempts[k][n] ELSE "open"]
      BY <1>2 DEF Evidence
    <3>2. E[k] = IF k = j THEN [Evidence[j] EXCEPT ![i] = IF s \in Results THEN s ELSE "open"]
                          ELSE Evidence[k]
      BY DEF Evidence
    <3>3. CASE k = j
      <4>1. E[j] = [n \in DOMAIN attempts[j] |->
                      IF n = i THEN (IF s \in Results THEN s ELSE "open")
                      ELSE IF attempts[j][n] \in Results THEN attempts[j][n] ELSE "open"]
        BY <3>1, <3>2, <3>3
      <4>2. Evidence'[j] = [n \in DOMAIN attempts[j] |->
                      IF n = i THEN (IF s \in Results THEN s ELSE "open")
                      ELSE IF attempts[j][n] \in Results THEN attempts[j][n] ELSE "open"]
        BY <1>2, <3>1, <3>3
      <4>3. QED
        BY <3>3, <4>1, <4>2
    <3>4. CASE k # j
      BY <1>2, <3>1, <3>2, <3>4
    <3>5. QED
      BY <3>3, <3>4
  <2>3. QED
    BY <2>1, <2>2 DEF Evidence
<1>5. CASE s \in Results
  BY <1>3, <1>4, <1>5 DEF Ledger!Close
<1>6. CASE s \notin Results
  BY <1>3, <1>4, <1>6 DEF Evidence
<1>7. QED
  BY <1>5, <1>6

(* Every step is a step of the ledger or leaves it as it is.               *)
LEMMA LedgerStep == BaseInv /\ [Next]_vars => [Ledger!Next]_Evidence
<1> SUFFICES ASSUME BaseInv, [Next]_vars PROVE [Ledger!Next]_Evidence
  OBVIOUS
<1>1. CASE UNCHANGED attempts
  BY <1>1 DEF Evidence
<1>2. ASSUME NEW p \in Procs, NEW j \in Jobs, MakeDir(p, j)
      PROVE  [Ledger!Next]_Evidence
  BY <1>1, <1>2, LedgerOpen DEF Ledger!Next
<1>3. ASSUME NEW p \in Procs, NEW j \in Jobs, WriteRequest(p, j)
      PROVE  [Ledger!Next]_Evidence
  <2>1. att[p][j] \in 1 .. Len(attempts[j]) /\ attempts[j][att[p][j]] \notin Results
    BY <1>3 DEF WriteRequest, BaseInv, AttemptBound, OwnUndecided, InFlight
  <2>2. attempts' = [attempts EXCEPT ![j][att[p][j]] = "requested"]
    BY <1>3 DEF WriteRequest
  <2>3. "requested" \in AttemptState /\ "requested" \notin Results
    BY DEF AttemptState, Results
  <2>4. UNCHANGED Evidence
    BY <2>1, <2>2, <2>3, LedgerWrite
  <2>5. QED
    BY <2>4
<1>4. ASSUME NEW p \in Procs, NEW j \in Jobs, Commit(p, j) \/ Recover(p, j)
      PROVE  [Ledger!Next]_Evidence
  <2>1. CASE UNCHANGED attempts
    BY <1>1, <2>1
  <2>2. CASE Publishable(p, j) /\ \E s \in Results : Publish(p, j, s)
    <3>1. PICK s \in Results : Publish(p, j, s)
      BY <2>2
    <3>2. att[p][j] \in 1 .. Len(attempts[j])
      BY <1>4 DEF Commit, Recover, BaseInv, AttemptBound, InFlight
    <3>3. Ledger!Close(j, att[p][j], s)
      BY <2>2, <3>1, <3>2, LedgerWrite DEF Publish, Publishable, AttemptState
    <3>4. att[p][j] \in DOMAIN Evidence[j] /\ s \in Ledger!Closed
      BY <3>1, <3>3 DEF Ledger!Close, Ledger!Closed, Results
    <3>5. QED
      BY <3>3, <3>4 DEF Ledger!Next
  <2>3. QED
    BY <1>4, <2>1, <2>2 DEF Commit, Recover, BaseInv, ExecutionKnown, Results
<1>5. ASSUME NEW p \in Procs, NEW j \in Jobs, WorkerStep(p, j)
      PROVE  [Ledger!Next]_Evidence
  BY <1>1, <1>2, <1>3, <1>4, <1>5
     DEF WorkerStep, TakeJob, Allocate, AllocateRaises, PickId, PrepareFails, RunnerReturns,
         RunnerRaises, CommitRejected, RecoverRaises, ReleaseLease, disk
<1>6. ASSUME NEW p \in Procs, Start(p) \/ Interrupt(p) \/ Crash(p) \/ MainStep(p)
      PROVE  [Ledger!Next]_Evidence
  BY <1>1, <1>6, AttemptsOnlyByWorkers
<1>7. QED
  BY <1>1, <1>5, <1>6 DEF Next, vars

(* Scheduler and store implement the append-only, publish-once ledger.     *)
THEOREM ImplementsLedger == Spec => LedgerSpec
<1>1. Init => Ledger!Init
  BY DEF Init, Ledger!Init, Evidence
<1>2. QED
  BY <1>1, LedgerStep, BaseCorrect, PTL DEF Spec, LedgerSpec, Ledger!Spec

-----------------------------------------------------------------------------
(* No attempt is lost: every directory without a result has a worker that  *)
(* will decide it, unless a process was killed or a write failed.          *)

(* A worker step moves one submitted worker that is not done, and leaves   *)
(* the main threads alone (scheduler.py:95-186).                           *)
LEMMA WorkerMoves ==
  ASSUME TypeOK, NEW p \in Procs, NEW j \in Jobs, WorkerStep(p, j)
  PROVE  /\ UNCHANGED main
         /\ step[p][j] \notin {"none", "done"}
         /\ step'[p][j] \notin {"none", "queued"}
         /\ \A q \in Procs, k \in Jobs : ~(q = p /\ k = j) => step'[q][k] = step[q][k]
<1>1. /\ UNCHANGED main
      /\ step[p][j] \notin {"none", "done"}
      /\ \E s \in Steps \ {"none", "queued"} : step' = [step EXCEPT ![p][j] = s]
  BY DEF WorkerStep, TakeJob, Allocate, AllocateRaises, PickId, MakeDir, WriteRequest,
         PrepareFails, RunnerReturns, RunnerRaises, Commit, CommitRejected, Recover,
         RecoverRaises, ReleaseLease, Goto, Steps
<1>2. QED
  BY <1>1 DEF TypeOK

LEMMA PoolInit == Init => PoolInv
BY DEF Init, PoolInv

LEMMA PoolNext == TypeOK /\ PoolInv /\ [Next]_vars => PoolInv'
<1> SUFFICES ASSUME TypeOK, PoolInv, [Next]_vars
             PROVE  PoolInv'
  OBVIOUS
<1> USE DEF PoolInv, TypeOK, Phases
<1>1. ASSUME NEW p \in Procs, NEW how, GoDown(p, how)
      PROVE  PoolInv'
  BY <1>1 DEF GoDown
<1>2. ASSUME NEW p \in Procs, Start(p) \/ AcquireRunLock(p)
      PROVE  PoolInv'
  BY <1>2 DEF Start, AcquireRunLock, workers
<1>3. ASSUME NEW p \in Procs, Interrupt(p)
      PROVE  PoolInv'
  BY <1>3 DEF Interrupt, workers
<1>4. ASSUME NEW p \in Procs, ScanPending(p)
      PROVE  PoolInv'
  <2>1. /\ phase[p] = "locked"
        /\ phase' = [phase EXCEPT ![p] = "scanned"]
        /\ UNCHANGED step
    BY <1>4 DEF ScanPending, workers
  <2>2. \A q \in Procs \ {p} : pending'[q] = pending[q]
    BY <1>4 DEF ScanPending
  <2>3. QED
    BY <2>1, <2>2
<1>5. ASSUME NEW p \in Procs, ScanComplete(p)
      PROVE  PoolInv'
  <2>1. CASE pending[p] = {}
    BY <1>1, <1>5, <2>1 DEF ScanComplete
  <2>2. CASE pending[p] # {}
    <3>1. /\ phase[p] = "scanned"
          /\ phase' = [phase EXCEPT ![p] = "collecting"]
          /\ step' = [step EXCEPT ![p] =
                        [j \in Jobs |-> IF j \in pending[p] THEN "queued" ELSE "none"]]
          /\ UNCHANGED pending
      BY <1>5, <2>2 DEF ScanComplete
    <3>2. QED
      BY <3>1
  <2>3. QED
    BY <2>1, <2>2
<1>6. ASSUME NEW p \in Procs, NEW j \in Jobs, Collect(p, j)
      PROVE  PoolInv'
  <2>1. /\ phase[p] = "collecting" /\ step[p][j] = "done"
        /\ phase' = phase \/ phase' = [phase EXCEPT ![p] = "draining"]
        /\ pending' = pending \/ pending' = [pending EXCEPT ![p] = @ \ {j}]
        /\ UNCHANGED step
    BY <1>6 DEF Collect, workers
  <2>2. \A q \in Procs : phase'[q] \in {phase[q], "draining"}
    BY <2>1
  <2>3. \A q \in Procs, k \in Jobs : k \in pending[q] /\ ~(q = p /\ k = j) => k \in pending'[q]
    BY <2>1
  <2>4. QED
    BY <2>1, <2>2, <2>3
<1>7. ASSUME NEW p \in Procs, NEW j \in Jobs, WorkerStep(p, j)
      PROVE  PoolInv'
  <2>1. /\ UNCHANGED main
        /\ step[p][j] \notin {"none", "done"}
        /\ \A q \in Procs, k \in Jobs : ~(q = p /\ k = j) => step'[q][k] = step[q][k]
    BY <1>7, WorkerMoves
  <2>2. UNCHANGED <<phase, pending>>
    BY <2>1 DEF main
  <2>3. /\ phase[p] \notin {"down", "starting", "locked", "scanned"}
        /\ phase[p] = "collecting" => j \in pending[p]
    BY <2>1
  <2>4. ASSUME NEW q \in Procs, NEW k \in Jobs
        PROVE  /\ phase[q] \in {"down", "starting", "locked", "scanned"} => step'[q][k] = "none"
               /\ phase[q] = "collecting" /\ step'[q][k] \notin {"none", "done"} => k \in pending[q]
    <3>1. CASE q = p /\ k = j
      BY <2>3, <3>1
    <3>2. CASE ~(q = p /\ k = j)
      BY <2>1, <3>2
    <3>3. QED
      BY <3>1, <3>2
  <2>5. QED
    BY <2>2, <2>4
<1>8. CASE UNCHANGED vars
  BY <1>8 DEF vars
<1>9. ASSUME NEW p \in Procs, MainStep(p) \/ Crash(p)
      PROVE  PoolInv'
  BY <1>1, <1>2, <1>4, <1>5, <1>6, <1>9
     DEF MainStep, RefuseRunLock, Return, Drained, Exited, Crash
<1>10. QED
  BY <1>2, <1>3, <1>7, <1>8, <1>9 DEF Next

(* A step that changes no file and takes nobody off an attempt directory.  *)
LEMMA NobodyLeaves ==
  ASSUME NoLostAttempt,
         used'["crash"] = 0 /\ used'["fault"] = 0 => used["crash"] = 0 /\ used["fault"] = 0,
         UNCHANGED attempts,
         \A q \in Procs, k \in Jobs : InFlight(q, k) => InFlight(q, k)' /\ att'[q][k] = att[q][k]
  PROVE  NoLostAttempt'
BY DEF NoLostAttempt

(* The main thread leaves its workers only when none of them runs.         *)
LEMMA MainThreadLosesNone ==
  ASSUME TypeOK, PoolInv, NoLostAttempt, NEW p \in Procs,
         Start(p) \/ Interrupt(p) \/ Crash(p) \/ MainStep(p)
  PROVE  NoLostAttempt'
<1> USE DEF TypeOK
<1>1. CASE Crash(p)
  <2>1. used'["crash"] # 0
    BY <1>1 DEF Crash, Use
  <2>2. QED
    BY <2>1 DEF NoLostAttempt
<1>2. UNCHANGED attempts
  BY AttemptsOnlyByWorkers
<1>3. ASSUME UNCHANGED <<step, att>>,
             used'["crash"] = used["crash"] /\ used'["fault"] = used["fault"]
      PROVE  NoLostAttempt'
  BY <1>2, <1>3, NobodyLeaves DEF InFlight
<1>4. ASSUME NEW how, GoDown(p, how), used'["crash"] = used["crash"], used'["fault"] = used["fault"],
             \A j \in Jobs : step[p][j] \in {"none", "done"}
      PROVE  NoLostAttempt'
  <2>1. \A q \in Procs, k \in Jobs :
          InFlight(q, k) => InFlight(q, k)' /\ att'[q][k] = att[q][k]
    BY <1>4 DEF GoDown, InFlight
  <2>2. QED
    BY <1>2, <1>4, <2>1, NobodyLeaves
<1>5. CASE Start(p) \/ Interrupt(p)
  BY <1>3, <1>5 DEF Start, Interrupt, Use, workers
<1>6. CASE AcquireRunLock(p)
  BY <1>3, <1>6 DEF AcquireRunLock, workers
<1>7. CASE ScanPending(p)
  BY <1>3, <1>7 DEF ScanPending, ScanFaults, Use, workers
<1>8. CASE ScanComplete(p)
  <2>1. used'["crash"] = used["crash"] /\ used'["fault"] = used["fault"]
    BY <1>8 DEF ScanComplete, ScanFaults, Use
  <2>2. \A j \in Jobs : step[p][j] = "none"
    BY <1>8 DEF ScanComplete, PoolInv
  <2>3. CASE pending[p] = {}
    BY <1>4, <1>8, <2>1, <2>2, <2>3 DEF ScanComplete
  <2>4. CASE pending[p] # {}
    <3>1. /\ step' = [step EXCEPT ![p] =
                        [j \in Jobs |-> IF j \in pending[p] THEN "queued" ELSE "none"]]
          /\ UNCHANGED att
      BY <1>8, <2>4 DEF ScanComplete
    <3>2. \A q \in Procs, k \in Jobs :
            InFlight(q, k) => InFlight(q, k)' /\ att'[q][k] = att[q][k]
      BY <2>2, <3>1 DEF InFlight
    <3>3. QED
      BY <1>2, <2>1, <3>2, NobodyLeaves
  <2>5. QED
    BY <2>3, <2>4
<1>9. ASSUME NEW j \in Jobs, Collect(p, j)
      PROVE  NoLostAttempt'
  BY <1>3, <1>9 DEF Collect, workers
<1>10. CASE RefuseRunLock(p)
  BY <1>4, <1>10 DEF RefuseRunLock, PoolInv
<1>11. CASE Return(p)
  BY <1>4, <1>11 DEF Return, PoolInv
<1>12. CASE Drained(p) \/ Exited(p)
  BY <1>4, <1>12 DEF Drained, Exited, PoolIdle
<1>13. QED
  BY <1>1, <1>5, <1>6, <1>7, <1>8, <1>9, <1>10, <1>11, <1>12 DEF MainStep

(* A worker leaves its attempt directory only with a result in it.         *)
LEMMA WorkerLosesNone ==
  ASSUME BaseInv, NoLostAttempt, NEW p \in Procs, NEW j \in Jobs, WorkerStep(p, j)
  PROVE  NoLostAttempt'
<1>1. TypeOK /\ attempts \in [Jobs -> Seq(AttemptState)]
  BY DEF BaseInv, TypeOK
<1>2. CASE PrepareFails(p, j) \/ RecoverRaises(p, j)
  <2>1. used'["fault"] # 0
    BY <1>1, <1>2 DEF PrepareFails, RecoverRaises, Use, TypeOK
  <2>2. QED
    BY <2>1 DEF NoLostAttempt
<1>3. CASE \/ TakeJob(p, j) \/ Allocate(p, j) \/ AllocateRaises(p, j) \/ PickId(p, j)
           \/ RunnerReturns(p, j) \/ RunnerRaises(p, j) \/ CommitRejected(p, j)
           \/ ReleaseLease(p, j)
  <2>1. UNCHANGED <<attempts, used>>
    BY <1>3 DEF TakeJob, Allocate, AllocateRaises, PickId, RunnerReturns, RunnerRaises,
                CommitRejected, ReleaseLease, disk
  <2>2. /\ InFlight(p, j) => step'[p][j] \in {"committing", "recovering"}
        /\ \A q \in Procs, k \in Jobs :
             (q = p /\ k = j /\ ~ InFlight(p, j)) \/ att'[q][k] = att[q][k]
    BY <1>1, <1>3 DEF TakeJob, Allocate, AllocateRaises, PickId, RunnerReturns, RunnerRaises,
                CommitRejected, ReleaseLease, InFlight, Goto, TypeOK
  <2>3. \A q \in Procs, k \in Jobs :
          InFlight(q, k) => InFlight(q, k)' /\ att'[q][k] = att[q][k]
    BY <1>1, <2>2, WorkerMoves DEF InFlight
  <2>4. QED
    BY <2>1, <2>3, NobodyLeaves
<1>4. CASE MakeDir(p, j)
  <2>1. UNCHANGED <<att, used>> /\ ~ InFlight(p, j)
    BY <1>4 DEF MakeDir, InFlight
  <2>2. \A q \in Procs, k \in Jobs : InFlight(q, k) => InFlight(q, k)'
    BY <1>1, <2>1, WorkerMoves DEF InFlight
  <2>3. CASE att[p][j] \in DOMAIN attempts[j]
    BY <1>4, <2>1, <2>2, <2>3, NobodyLeaves DEF MakeDir
  <2>4. CASE att[p][j] \notin DOMAIN attempts[j]
    <3>1. attempts' = [attempts EXCEPT ![j] = Append(@, "made")] /\ Goto(p, j, "requesting")
      BY <1>4, <2>4 DEF MakeDir
    <3>2. InFlight(p, j)'
      BY <1>1, <3>1, StepAt DEF InFlight, Steps, TypeOK
    <3>3. att[p][j] = Len(attempts[j]) + 1
      BY <1>1, <1>4, <2>4 DEF MakeDir, BaseInv, AttemptBound, TypeOK
    <3>4. /\ attempts' \in [Jobs -> Seq(AttemptState)]
          /\ \A k \in Jobs :
               Len(attempts'[k]) = IF k = j THEN Len(attempts[k]) + 1 ELSE Len(attempts[k])
          /\ \A k \in Jobs : \A n \in 1 .. Len(attempts[k]) : attempts'[k][n] = attempts[k][n]
      BY <1>1, <3>1, NewAttempt
    <3>5. ASSUME NEW k \in Jobs, NEW i \in DOMAIN attempts'[k]
          PROVE  (k = j /\ i = att[p][j]) \/ (i \in DOMAIN attempts[k] /\ attempts'[k][i] = attempts[k][i])
      <4>1. /\ DOMAIN attempts[k] = 1 .. Len(attempts[k])
            /\ DOMAIN attempts'[k] = 1 .. Len(attempts'[k])
            /\ Len(attempts[k]) \in Nat
        BY <1>1, <3>4
      <4>2. QED
        BY <3>3, <3>4, <4>1
    <3>6. QED
      BY <2>1, <2>2, <3>2, <3>5 DEF NoLostAttempt
  <2>5. QED
    BY <2>3, <2>4
<1>5. ASSUME NEW s \in AttemptState, attempts' = [attempts EXCEPT ![j][att[p][j]] = s],
             UNCHANGED <<att, used>>, s \in Results \/ InFlight(p, j)'
      PROVE  NoLostAttempt'
  <2>1. \A q \in Procs, k \in Jobs :
          InFlight(q, k) => InFlight(q, k)' \/ (q = p /\ k = j)
    BY <1>1, WorkerMoves DEF InFlight
  <2>2. ASSUME NEW k \in Jobs, NEW i \in DOMAIN attempts'[k]
        PROVE  /\ i \in DOMAIN attempts[k]
               /\ attempts'[k][i] = IF k = j /\ i = att[p][j] THEN s ELSE attempts[k][i]
    BY <1>1, <1>5, <2>2
  <2>3. QED
    BY <1>5, <2>1, <2>2 DEF NoLostAttempt
<1>6. CASE WriteRequest(p, j)
  <2>1. InFlight(p, j)'
    BY <1>1, <1>6, StepAt DEF WriteRequest, InFlight, Steps, TypeOK
  <2>2. QED
    BY <1>5, <1>6, <2>1 DEF WriteRequest, AttemptState
<1>7. CASE Commit(p, j) \/ Recover(p, j)
  <2>1. Publishable(p, j)
    BY <1>7 DEF Commit, Recover, BaseInv, OwnUndecided, InFlight, Publishable
  <2>2. \E s \in Results : Publish(p, j, s)
    BY <1>7, <2>1 DEF Commit, Recover, BaseInv, ExecutionKnown, Results
  <2>3. UNCHANGED <<att, used>>
    BY <1>7 DEF Commit, Recover
  <2>4. QED
    BY <1>5, <2>2, <2>3 DEF Publish, AttemptState
<1>8. QED
  BY <1>2, <1>3, <1>4, <1>6, <1>7 DEF WorkerStep

(* While no process was killed and no write failed, every attempt          *)
(* directory without a result has a worker that is still responsible for   *)
(* it, also when the pool is interrupted (scheduler.py:112-140).           *)
THEOREM NoAttemptLost == Spec => []NoLostAttempt
<1>1. Init => PoolInv /\ NoLostAttempt
  BY PoolInit DEF Init, NoLostAttempt
<1>2. BaseInv /\ PoolInv /\ NoLostAttempt /\ [Next]_vars => PoolInv' /\ NoLostAttempt'
  <2> SUFFICES ASSUME BaseInv, PoolInv, NoLostAttempt, [Next]_vars
               PROVE  PoolInv' /\ NoLostAttempt'
    OBVIOUS
  <2>1. TypeOK
    BY DEF BaseInv
  <2>2. ASSUME UNCHANGED vars PROVE NoLostAttempt'
    BY <2>2 DEF vars, NoLostAttempt, InFlight
  <2>3. NoLostAttempt'
    BY <2>1, <2>2, MainThreadLosesNone, WorkerLosesNone DEF Next
  <2>4. QED
    BY <2>1, <2>3, PoolNext
<1>3. QED
  BY <1>1, <1>2, BaseCorrect, PTL DEF Spec

-----------------------------------------------------------------------------
(* What run_jobs returns is what the disk says, while every result.json    *)
(* can be read and nobody interrupts the pool.                             *)

(* A worker decides its own job only, and completes it only by publishing  *)
(* COMPLETED (store.py:143).                                               *)
LEMMA PublishCompletes ==
  ASSUME TypeOK, NEW j \in Jobs, NEW i \in 1 .. Len(attempts[j]), NEW s \in AttemptState,
         attempts' = [attempts EXCEPT ![j][i] = s], ~ JobIsComplete(j)
  PROVE  JobIsComplete(j)' <=> s = "COMPLETED"
<1>1. /\ attempts' \in [Jobs -> Seq(AttemptState)]
      /\ Len(attempts'[j]) = Len(attempts[j])
      /\ \A n \in 1 .. Len(attempts[j]) :
           attempts'[j][n] = IF n = i THEN s ELSE attempts[j][n]
  BY WriteAttempt DEF TypeOK
<1>2. DOMAIN attempts'[j] = 1 .. Len(attempts[j]) /\ DOMAIN attempts[j] = 1 .. Len(attempts[j])
  BY <1>1 DEF TypeOK
<1>3. QED
  BY <1>1, <1>2 DEF JobIsComplete

LEMMA DecidesOwnJob ==
  ASSUME BaseInv, NEW p \in Procs, NEW j \in Jobs, WorkerStep(p, j)
  PROVE  /\ \A k \in Jobs \ {j} : attempts'[k] = attempts[k]
         /\ \A q \in Procs, k \in Jobs : ~(q = p /\ k = j) => ret'[q][k] = ret[q][k]
         /\ step[p][j] = "releasing" => UNCHANGED <<attempts, ret>>
         /\ /\ step[p][j] # "releasing"
            /\ ~ JobIsComplete(j)
            /\ step'[p][j] \in {"releasing", "done"}
            /\ ret'[p][j] # "raised"
            => /\ ret'[p][j] \in Results
               /\ ret'[p][j] = "COMPLETED" <=> JobIsComplete(j)'
<1>1. TypeOK
  BY DEF BaseInv
<1>2. CASE \/ TakeJob(p, j) \/ Allocate(p, j) \/ PickId(p, j) \/ MakeDir(p, j)
           \/ WriteRequest(p, j) \/ RunnerReturns(p, j) \/ RunnerRaises(p, j)
           \/ CommitRejected(p, j)
  <2>1. \E s \in Steps \ {"releasing", "done"} : step' = [step EXCEPT ![p][j] = s]
    BY <1>2 DEF TakeJob, Allocate, PickId, MakeDir, WriteRequest, RunnerReturns, RunnerRaises,
                CommitRejected, Goto, Steps
  <2>2. step'[p][j] \notin {"releasing", "done"}
    BY <1>1, <2>1 DEF TypeOK
  <2>3. step[p][j] # "releasing"
    BY <1>2 DEF TakeJob, Allocate, PickId, MakeDir, WriteRequest, RunnerReturns, RunnerRaises,
                CommitRejected
  <2>4. \A k \in Jobs \ {j} : attempts'[k] = attempts[k]
    BY <1>1, <1>2 DEF TakeJob, Allocate, PickId, MakeDir, WriteRequest, RunnerReturns,
                RunnerRaises, CommitRejected, disk, TypeOK
  <2>5. \A q \in Procs, k \in Jobs : ~(q = p /\ k = j) => ret'[q][k] = ret[q][k]
    <3>1. ret' = ret \/ \E s \in Results : ret' = [ret EXCEPT ![p][j] = s]
      BY <1>2 DEF TakeJob, Allocate, PickId, MakeDir, WriteRequest, RunnerReturns,
                  RunnerRaises, CommitRejected
    <3>2. QED
      BY <1>1, <3>1 DEF TypeOK
  <2>6. QED
    BY <2>2, <2>3, <2>4, <2>5
<1>3. CASE AllocateRaises(p, j) \/ RecoverRaises(p, j)
  <2>1. ret' = [ret EXCEPT ![p][j] = "raised"] /\ UNCHANGED attempts /\ step[p][j] # "releasing"
    BY <1>3 DEF AllocateRaises, RecoverRaises, disk
  <2>2. QED
    BY <1>1, <2>1 DEF TypeOK
<1>4. CASE PrepareFails(p, j)
  <2>1. ret' = [ret EXCEPT ![p][j] = "FAILED"] /\ UNCHANGED attempts /\ step[p][j] # "releasing"
    BY <1>4 DEF PrepareFails, disk
  <2>2. JobIsComplete(j)' <=> JobIsComplete(j)
    BY <2>1 DEF JobIsComplete
  <2>3. ret'[p][j] = "FAILED"
    BY <1>1, <2>1 DEF TypeOK
  <2>4. QED
    BY <1>1, <2>1, <2>2, <2>3 DEF TypeOK, Results
<1>5. CASE ReleaseLease(p, j)
  <2>1. step[p][j] = "releasing" /\ UNCHANGED <<attempts, ret>>
    BY <1>5 DEF ReleaseLease, disk
  <2>2. QED
    BY <2>1
<1>6. CASE Commit(p, j) \/ Recover(p, j)
  <2>1. InFlight(p, j) /\ step[p][j] # "releasing" /\ Publishable(p, j)
    BY <1>6 DEF Commit, Recover, InFlight, BaseInv, OwnUndecided, Publishable
  <2>2. PICK s \in Results :
          /\ attempts' = [attempts EXCEPT ![j][att[p][j]] = s]
          /\ ret'[p][j] = s
          /\ \A q \in Procs, k \in Jobs : ~(q = p /\ k = j) => ret'[q][k] = ret[q][k]
    <3>1. CASE Commit(p, j)
      <4>1. /\ ret[p][j] \in Results
            /\ attempts' = [attempts EXCEPT ![j][att[p][j]] = ret[p][j]]
            /\ ret' = ret
        BY <2>1, <3>1 DEF Commit, Publish, BaseInv, ExecutionKnown
      <4>2. QED
        BY <4>1
    <3>2. CASE Recover(p, j)
      <4>1. /\ ret' = [ret EXCEPT ![p][j] = "FAILED"]
            /\ attempts' = [attempts EXCEPT ![j][att[p][j]] = "FAILED"]
        BY <2>1, <3>2 DEF Recover, Publish
      <4>2. QED
        BY <1>1, <4>1 DEF TypeOK, Results
    <3>3. QED
      BY <1>6, <3>1, <3>2
  <2>3. att[p][j] \in 1 .. Len(attempts[j]) /\ s \in AttemptState
    BY <2>1 DEF BaseInv, AttemptBound, AttemptState
  <2>4. ~ JobIsComplete(j) => (JobIsComplete(j)' <=> s = "COMPLETED")
    BY <1>1, <2>2, <2>3, PublishCompletes
  <2>5. \A k \in Jobs \ {j} : attempts'[k] = attempts[k]
    BY <1>1, <2>2 DEF TypeOK
  <2>6. QED
    BY <2>1, <2>2, <2>4, <2>5
<1>7. QED
  BY <1>2, <1>3, <1>4, <1>5, <1>6 DEF WorkerStep

LEMMA ResultInit == Init => ResultInv
BY DEF Init, ResultInv

LEMMA ResultNext ==
  MaxInterrupts = 0 /\ MaxReadFaults = 0 /\ SerialInv /\ PoolInv /\ ResultInv /\ [Next]_vars
    => ResultInv'
<1> SUFFICES ASSUME MaxInterrupts = 0, MaxReadFaults = 0, SerialInv, PoolInv, ResultInv, [Next]_vars
             PROVE  ResultInv'
  OBVIOUS
<1>1. TypeOK
  BY DEF SerialInv, BaseInv
<1>2. ASSUME NEW p \in Procs, UNCHANGED attempts, phase'[p] # "collecting",
             \A q \in Procs \ {p} :
               /\ phase'[q] = phase[q] /\ pending'[q] = pending[q]
               /\ statuses'[q] = statuses[q] /\ step'[q] = step[q] /\ ret'[q] = ret[q]
      PROVE  ResultInv'
  BY <1>2 DEF ResultInv, JobIsComplete
<1>3. ASSUME NEW p \in Procs, NEW how, GoDown(p, how), \A q \in Procs \ {p} : statuses'[q] = statuses[q]
      PROVE  ResultInv'
  BY <1>1, <1>2, <1>3 DEF GoDown, TypeOK
<1>4. ASSUME NEW p \in Procs, Start(p) \/ AcquireRunLock(p) \/ ScanPending(p)
      PROVE  ResultInv'
  <2>1. CASE Start(p)
    BY <1>1, <1>2, <2>1 DEF Start, workers, TypeOK
  <2>2. CASE AcquireRunLock(p)
    BY <1>1, <1>2, <2>2 DEF AcquireRunLock, workers, disk, TypeOK
  <2>3. CASE ScanPending(p)
    <3>1. /\ phase' = [phase EXCEPT ![p] = "scanned"]
          /\ \E S : pending' = [pending EXCEPT ![p] = S]
          /\ UNCHANGED <<attempts, statuses, step, ret>>
      BY <2>3 DEF ScanPending, workers, disk
    <3>2. QED
      BY <1>1, <1>2, <3>1 DEF TypeOK
  <2>4. QED
    BY <1>4, <2>1, <2>2, <2>3
<1>5. ASSUME NEW p \in Procs, Interrupt(p)
      PROVE  FALSE
  BY <1>1, <1>5 DEF Interrupt, TypeOK
<1>6. ASSUME NEW p \in Procs, ScanComplete(p)
      PROVE  ResultInv'
  <2>1. PICK unreadable \in SUBSET Jobs :
          /\ ScanFaults(unreadable)
          /\ statuses' = [statuses EXCEPT ![p] =
               [j \in Jobs |-> IF j \in Seen(unreadable) THEN "COMPLETED" ELSE "none"]]
    BY <1>6 DEF ScanComplete
  <2>2. unreadable = {}
    BY <1>1, <2>1 DEF ScanFaults, TypeOK
  <2>3. statuses' = [statuses EXCEPT ![p] =
               [j \in Jobs |-> IF JobIsComplete(j) THEN "COMPLETED" ELSE "none"]]
    BY <2>1, <2>2 DEF Seen
  <2>4. CASE pending[p] = {}
    <3>1. GoDown(p, "returned") /\ \A q \in Procs \ {p} : statuses'[q] = statuses[q]
      BY <1>1, <1>6, <2>3, <2>4 DEF ScanComplete, TypeOK
    <3>2. QED
      BY <1>3, <3>1
  <2>5. CASE pending[p] # {}
    <3>1. /\ phase[p] = "scanned"
          /\ phase' = [phase EXCEPT ![p] = "collecting"]
          /\ step' = [step EXCEPT ![p] =
                        [j \in Jobs |-> IF j \in pending[p] THEN "queued" ELSE "none"]]
          /\ UNCHANGED <<attempts, pending, ret>>
      BY <1>6, <2>5 DEF ScanComplete, disk
    <3>2. pending[p] = {j \in Jobs : ~ JobIsComplete(j)}
      BY <3>1 DEF SerialInv, FreshScan
    <3>3. \A j \in Jobs : JobIsComplete(j)' <=> JobIsComplete(j)
      BY <3>1 DEF JobIsComplete
    <3>4. \A j \in Jobs :
            /\ step'[p][j] \in {"queued", "none"}
            /\ statuses'[p][j] = IF JobIsComplete(j) THEN "COMPLETED" ELSE "none"
      BY <1>1, <2>3, <3>1 DEF TypeOK
    <3>5. \A q \in Procs \ {p} :
            phase'[q] = phase[q] /\ statuses'[q] = statuses[q] /\ step'[q] = step[q]
      BY <1>1, <2>3, <3>1 DEF TypeOK
    <3>6. QED
      BY <3>1, <3>2, <3>3, <3>4, <3>5 DEF ResultInv
  <2>6. QED
    BY <2>4, <2>5
<1>7. ASSUME NEW p \in Procs, NEW j \in Jobs, Collect(p, j)
      PROVE  ResultInv'
  <2>1. phase[p] = "collecting" /\ step[p][j] = "done" /\ UNCHANGED <<attempts, step, ret>>
    BY <1>7 DEF Collect, disk, workers
  <2>2. CASE ret[p][j] = "raised"
    BY <1>1, <1>2, <1>7, <2>1, <2>2 DEF Collect, TypeOK
  <2>3. CASE ret[p][j] # "raised"
    <3>1. /\ statuses' = [statuses EXCEPT ![p][j] = ret[p][j]]
          /\ pending' = [pending EXCEPT ![p] = @ \ {j}]
          /\ UNCHANGED phase
      BY <1>7, <2>3 DEF Collect
    <3>2. ret[p][j] \in Results /\ (ret[p][j] = "COMPLETED" <=> JobIsComplete(j))
      BY <2>1, <2>3 DEF ResultInv
    <3>3. \A k \in Jobs : JobIsComplete(k)' <=> JobIsComplete(k)
      BY <2>1 DEF JobIsComplete
    <3>4. \A q \in Procs, k \in Jobs :
            /\ statuses'[q][k] = IF q = p /\ k = j THEN ret[p][j] ELSE statuses[q][k]
            /\ k \notin pending'[q] => k \notin pending[q] \/ (q = p /\ k = j)
      BY <1>1, <3>1 DEF TypeOK
    <3>5. ASSUME NEW q \in Procs, NEW k \in Jobs, phase[q] = "collecting"
          PROVE  k \notin pending'[q] =>
                   /\ statuses'[q][k] # "none"
                   /\ statuses'[q][k] = "COMPLETED" <=> JobIsComplete(k)
      <4>1. CASE q = p /\ k = j
        BY <3>2, <3>4, <4>1 DEF Results
      <4>2. CASE ~(q = p /\ k = j)
        BY <3>4, <3>5, <4>2 DEF ResultInv
      <4>3. QED
        BY <4>1, <4>2
    <3>6. QED
      BY <2>1, <3>1, <3>3, <3>5 DEF ResultInv
  <2>4. QED
    BY <2>2, <2>3
<1>8. ASSUME NEW p \in Procs, NEW j \in Jobs, WorkerStep(p, j)
      PROVE  ResultInv'
  <2>1. /\ UNCHANGED main
        /\ step[p][j] \notin {"none", "done"}
        /\ \A q \in Procs, k \in Jobs : ~(q = p /\ k = j) => step'[q][k] = step[q][k]
    BY <1>1, <1>8, WorkerMoves
  <2>2. UNCHANGED <<phase, pending, statuses>>
    BY <2>1 DEF main
  <2>3. /\ \A k \in Jobs \ {j} : attempts'[k] = attempts[k]
        /\ \A q \in Procs, k \in Jobs : ~(q = p /\ k = j) => ret'[q][k] = ret[q][k]
    BY <1>8, DecidesOwnJob DEF SerialInv
  <2>4. \A q \in Procs \ {p} : phase[q] # "collecting"
    <3>1. runLock = p
      BY <2>1 DEF SerialInv, LockInv
    <3>2. QED
      BY <3>1 DEF SerialInv, LockInv
  <2>5. \A k \in Jobs \ {j} : JobIsComplete(k)' <=> JobIsComplete(k)
    BY <2>3 DEF JobIsComplete
  <2>6. ASSUME phase[p] = "collecting"
        PROVE  /\ j \in pending[p]
               /\ step'[p][j] \in {"releasing", "done"} /\ ret'[p][j] # "raised" =>
                    /\ ret'[p][j] \in Results
                    /\ ret'[p][j] = "COMPLETED" <=> JobIsComplete(j)'
    <3>1. j \in pending[p]
      BY <2>1, <2>6 DEF PoolInv
    <3>2. CASE step[p][j] = "releasing"
      <4>1. UNCHANGED <<attempts, ret>>
        BY <1>8, <3>2, DecidesOwnJob DEF SerialInv
      <4>2. JobIsComplete(j)' <=> JobIsComplete(j)
        BY <4>1 DEF JobIsComplete
      <4>3. QED
        BY <2>6, <3>1, <3>2, <4>1, <4>2 DEF ResultInv
    <3>3. CASE step[p][j] # "releasing"
      <4>1. ~ JobIsComplete(j)
        BY <2>1, <3>3 DEF SerialInv, FreshScan
      <4>2. QED
        BY <1>8, <3>1, <3>3, <4>1, DecidesOwnJob DEF SerialInv
    <3>4. QED
      BY <3>2, <3>3
  <2>7. ASSUME NEW q \in Procs, NEW k \in Jobs, phase[q] = "collecting"
        PROVE  /\ k \notin pending[q] =>
                    /\ statuses[q][k] # "none"
                    /\ statuses[q][k] = "COMPLETED" <=> JobIsComplete(k)'
               /\ step'[q][k] \in {"releasing", "done"} /\ ret'[q][k] # "raised" =>
                    /\ ret'[q][k] \in Results
                    /\ ret'[q][k] = "COMPLETED" <=> JobIsComplete(k)'
    <3>1. q = p
      BY <2>4, <2>7
    <3>2. CASE k = j
      BY <2>6, <2>7, <3>1, <3>2
    <3>3. CASE k # j
      <4>1. step'[q][k] = step[q][k] /\ ret'[q][k] = ret[q][k] /\ (JobIsComplete(k)' <=> JobIsComplete(k))
        BY <2>1, <2>3, <2>5, <3>3
      <4>2. QED
        BY <2>7, <4>1 DEF ResultInv
    <3>4. QED
      BY <3>2, <3>3
  <2>8. QED
    BY <2>2, <2>7 DEF ResultInv
<1>9. CASE UNCHANGED vars
  BY <1>9 DEF vars, ResultInv, JobIsComplete
<1>10. ASSUME NEW p \in Procs, MainStep(p) \/ Crash(p)
       PROVE  ResultInv'
  BY <1>3, <1>4, <1>6, <1>7, <1>10
     DEF MainStep, RefuseRunLock, Return, Drained, Exited, Crash
<1>11. QED
  BY <1>4, <1>5, <1>8, <1>9, <1>10 DEF Next

(* run_jobs returns only with an entry for every job of the plan, and      *)
(* calls completed exactly those jobs that are complete on disk            *)
(* (scheduler.py:66-93), under the two conditions of CompletedNeverRerun.  *)
THEOREM ReturnsAreAccurate ==
  MaxInterrupts = 0 /\ MaxReadFaults = 0 => (Spec => ReturnIsAccurate)
<1> SUFFICES ASSUME MaxInterrupts = 0, MaxReadFaults = 0 PROVE Spec => ReturnIsAccurate
  OBVIOUS
<1> DEFINE Accurate ==
      \A p \in Procs :
        outcome[p] # "returned" /\ outcome'[p] = "returned" =>
          \A j \in Jobs :
            /\ statuses'[p][j] # "none"
            /\ statuses'[p][j] = "COMPLETED"
                 <=> "COMPLETED" \in {attempts'[j][i] : i \in DOMAIN attempts'[j]}
<1>1. SerialInv /\ PoolInv /\ ResultInv /\ [Next]_vars => [Accurate]_vars
  <2> SUFFICES ASSUME SerialInv, ResultInv, Next
               PROVE  Accurate
    OBVIOUS
  <2>1. TypeOK
    BY DEF SerialInv, BaseInv
  <2>2. ASSUME NEW p \in Procs, outcome[p] # "returned", outcome'[p] = "returned"
        PROVE  GoDown(p, "returned") /\ (ScanComplete(p) \/ Return(p))
    <3>1. ASSUME NEW q \in Procs, NEW how \in {"refused", "raised", "crashed"}, GoDown(q, how)
          PROVE  FALSE
      BY <2>1, <2>2, <3>1 DEF GoDown, TypeOK
    <3>2. ASSUME NEW q \in Procs, GoDown(q, "returned")
          PROVE  q = p
      BY <2>1, <2>2, <3>2 DEF GoDown, TypeOK
    <3>3. outcome' # outcome
      BY <2>2
    <3>4. ASSUME NEW q \in Procs, Start(q)
          PROVE  FALSE
      BY <2>1, <2>2, <3>4 DEF Start, TypeOK
    <3>5. ASSUME NEW q \in Procs, NEW j \in Jobs, WorkerStep(q, j)
          PROVE  FALSE
      BY <2>1, <3>3, <3>5, WorkerMoves DEF main
    <3>6. PICK q \in Procs : Interrupt(q) \/ Crash(q) \/ MainStep(q)
      BY <3>4, <3>5 DEF Next
    <3>7. (ScanComplete(q) \/ Return(q)) /\ GoDown(q, "returned")
      BY <3>1, <3>3, <3>6
         DEF Interrupt, Crash, MainStep, AcquireRunLock, RefuseRunLock, ScanPending, ScanComplete,
             Collect, Return, Drained, Exited
    <3>8. QED
      BY <3>2, <3>7
  <2>3. ASSUME NEW p \in Procs, outcome[p] # "returned", outcome'[p] = "returned", NEW j \in Jobs
        PROVE  /\ statuses'[p][j] # "none"
               /\ statuses'[p][j] = "COMPLETED" <=> JobIsComplete(j)
    <3>1. CASE ScanComplete(p) /\ GoDown(p, "returned")
      <4>1. PICK unreadable \in SUBSET Jobs :
              /\ ScanFaults(unreadable)
              /\ statuses' = [statuses EXCEPT ![p] =
                   [k \in Jobs |-> IF k \in Seen(unreadable) THEN "COMPLETED" ELSE "none"]]
        BY <3>1 DEF ScanComplete
      <4>2. unreadable = {}
        BY <2>1, <4>1 DEF ScanFaults, TypeOK
      <4>3. pending[p] = {}
        BY <2>1, <2>3, <3>1 DEF ScanComplete
      <4>4. JobIsComplete(j)
        BY <3>1, <4>3 DEF ScanComplete, SerialInv, FreshScan
      <4>5. statuses'[p][j] = "COMPLETED"
        BY <2>1, <4>1, <4>2, <4>4 DEF Seen, TypeOK
      <4>6. QED
        BY <4>4, <4>5
    <3>2. CASE Return(p)
      BY <3>2 DEF Return, ResultInv
    <3>3. QED
      BY <2>2, <2>3, <3>1, <3>2
  <2>4. ASSUME NEW p \in Procs, outcome[p] # "returned", outcome'[p] = "returned", NEW j \in Jobs
        PROVE  JobIsComplete(j) <=> "COMPLETED" \in {attempts'[j][i] : i \in DOMAIN attempts'[j]}
    BY <2>2, <2>4 DEF GoDown, JobIsComplete
  <2>5. QED
    BY <2>3, <2>4
<1>2. BaseInv /\ PoolInv /\ [Next]_vars => PoolInv'
  BY PoolNext DEF BaseInv
<1>3. SerialInv /\ PoolInv /\ ResultInv /\ [Next]_vars => ResultInv'
  BY ResultNext
<1>4. Spec => []SerialInv
  BY SerialCorrect
<1>5. QED
  BY <1>1, <1>2, <1>3, <1>4, PoolInit, ResultInit, BaseCorrect, PTL DEF Spec, ReturnIsAccurate
=============================================================================
