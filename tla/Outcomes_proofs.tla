---------------------------- MODULE Outcomes_proofs ----------------------------
(***************************************************************************)
(* Proofs about Outcomes: a success has its evidence, a verdict is final,  *)
(* and the summary, the charts and the probe's table account for every     *)
(* planned job, whatever the attempts left behind and however many jobs    *)
(* and attempts there are.                                                 *)
(***************************************************************************)
EXTENDS Outcomes, FiniteSetTheorems, TLAPS

-----------------------------------------------------------------------------
(* The inductive invariant. *)

ResultStatuses == {"success", "task_failure", "invalid", "infrastructure_failure"}

Records ==
  [status : {"completed", "failed", "open"},
   result : [status : ResultStatuses \cup {"none"}, success : {"true", "false", "none"}]]

Facts(j) == FactsOf(j) \cup {NoFacts}
AllFacts == UNION {Facts(j) : j \in Jobs}

TypeOK ==
  /\ attempts \in [Jobs -> Seq(Records)]
  /\ facts \in [Jobs -> Seq(AllFacts)]
  /\ \A j \in Jobs : Len(facts[j]) = Len(attempts[j])

(* What the record of one attempt says: a completed one has a result, and  *)
(* one that says success has the evidence.                                 *)
Sound(j, record, f) ==
  record.status = "completed" =>
    /\ record.result.status \in ResultStatuses
    /\ record.result.status = "success" => ShowsSuccess(j, f)

(* A completed attempt is the last one of its job, and of the decided ones *)
(* one is the last.                                                        *)
RecordsInv ==
  \A j \in Jobs :
    /\ \A i \in DOMAIN attempts[j] : Sound(j, attempts[j][i], facts[j][i])
    /\ \A i \in CompletedIds(j) : i = Len(attempts[j])
    /\ Decided(j) # {} => \E m \in Decided(j) : \A i \in Decided(j) : i <= m

IInv == TypeOK /\ RecordsInv

-----------------------------------------------------------------------------
(* Init establishes the invariant.                                         *)
LEMMA InitIInv == Init => IInv
<1> SUFFICES ASSUME Init PROVE IInv
  OBVIOUS
<1>1. TypeOK
  BY DEF Init, TypeOK
<1>2. \A j \in Jobs : DOMAIN attempts[j] = {}
  BY DEF Init
<1>3. RecordsInv
  BY <1>2 DEF RecordsInv, Decided, CompletedIds
<1>4. QED
  BY <1>1, <1>3 DEF IInv

(* What the parsers make of a launch is decided, and a success only with   *)
(* the evidence in hand: a command that exited 0 and an audit of the cell  *)
(* (RPent), a summary of a won trial (RATs).                               *)
LEMMA ParsedSoundly ==
  ASSUME NEW j \in Jobs, NEW f \in FactsOf(j)
  PROVE  /\ Attempt(j, f) \in Records
         /\ Attempt(j, f).status # "open"
         /\ Sound(j, Attempt(j, f), f)
<1> USE DEF Attempt, Records, Sound, ResultStatuses, Failed, Completed, Result
<1>1. CASE f.native # "completed"
  BY <1>1
<1>2. CASE f.native = "completed" /\ j \in RatsJobs
  <2>1. Attempt(j, f) = Completed(ParseRats(f)) /\ j \notin RpentJobs
    BY <1>2, JobsAssumption
  <2>2. CASE f.file = "won"
    BY <1>2, <2>1, <2>2 DEF ParseRats, Verdict, ShowsSuccess
  <2>3. CASE f.file # "won"
    BY <1>2, <2>1, <2>3 DEF ParseRats, Verdict, Invalid
  <2>4. QED
    BY <2>2, <2>3
<1>3. CASE f.native = "completed" /\ j \notin RatsJobs
  <2>1. Attempt(j, f) = Completed(ParseRpent(f)) /\ j \in RpentJobs
    BY <1>3 DEF Jobs
  <2>2. CASE ~ f.ok
    BY <2>1, <2>2 DEF ParseRpent, Verdict, Infrastructure
  <2>3. CASE f.ok /\ f.file = "solved"
    BY <1>3, <2>1, <2>3 DEF ParseRpent, LoadAudit, Verdict, ShowsSuccess
  <2>4. CASE f.ok /\ f.file # "solved"
    BY <2>1, <2>4 DEF ParseRpent, LoadAudit, Verdict, Invalid
  <2>5. QED
    BY <2>2, <2>3, <2>4
<1>4. QED
  BY <1>1, <1>2, <1>3

(* Every step adds one record to a job that has no completed one, and the  *)
(* record is sound.                                                        *)
LEMMA StepAdds ==
  ASSUME NEW j \in Jobs, RunJob(j) \/ RefuseJob(j) \/ RunJobRaises(j) \/ RunJobKilled(j)
  PROVE  \E record \in Records, f \in Facts(j) :
           Add(j, record, f) /\ Sound(j, record, f) /\ ~ JobIsComplete(j)
<1>1. CASE RunJob(j)
  BY <1>1, ParsedSoundly DEF RunJob, Pending, Facts
<1>2. CASE RefuseJob(j)
  <2>1. Completed(Invalid) \in Records /\ Sound(j, Completed(Invalid), NoFacts)
    BY DEF Completed, Invalid, Result, Records, Sound, ResultStatuses
  <2>2. QED
    BY <1>2, <2>1 DEF RefuseJob, Pending, Facts
<1>3. CASE RunJobRaises(j)
  <2>1. Failed \in Records /\ Sound(j, Failed, NoFacts)
    BY DEF Failed, Result, Records, Sound, ResultStatuses
  <2>2. QED
    BY <1>3, <2>1 DEF RunJobRaises, Pending, Facts
<1>4. CASE RunJobKilled(j)
  <2>1. Open \in Records /\ Sound(j, Open, NoFacts)
    BY DEF Open, Result, Records, Sound, ResultStatuses
  <2>2. QED
    BY <1>4, <2>1 DEF RunJobKilled, Pending, Facts
<1>5. QED
  BY <1>1, <1>2, <1>3, <1>4

(* A step of a job keeps the invariant.                                    *)
LEMMA AddStep ==
  ASSUME IInv, NEW j \in Jobs, NEW record \in Records, NEW f \in Facts(j),
         Add(j, record, f), Sound(j, record, f), ~ JobIsComplete(j)
  PROVE  IInv'
<1> DEFINE n == Len(attempts[j])
<1>1. /\ TypeOK /\ RecordsInv
      /\ attempts[j] \in Seq(Records) /\ facts[j] \in Seq(AllFacts)
      /\ n \in Nat /\ Len(facts[j]) = n
  BY DEF IInv, TypeOK
<1>2. /\ attempts' = [attempts EXCEPT ![j] = Append(attempts[j], record)]
      /\ facts' = [facts EXCEPT ![j] = Append(facts[j], f)]
  BY DEF Add
<1>3. f \in AllFacts
  BY DEF AllFacts
<1>4. /\ attempts' \in [Jobs -> Seq(Records)]
      /\ attempts'[j] = Append(attempts[j], record)
      /\ \A k \in Jobs : k # j => attempts'[k] = attempts[k]
  BY <1>1, <1>2 DEF TypeOK
<1>5. /\ facts' \in [Jobs -> Seq(AllFacts)]
      /\ facts'[j] = Append(facts[j], f)
      /\ \A k \in Jobs : k # j => facts'[k] = facts[k]
  BY <1>1, <1>2, <1>3 DEF TypeOK
<1>6. /\ DOMAIN attempts[j] = 1 .. n /\ DOMAIN attempts'[j] = 1 .. n + 1
      /\ Len(attempts'[j]) = n + 1 /\ Len(facts'[j]) = n + 1
      /\ attempts'[j][n + 1] = record /\ facts'[j][n + 1] = f
      /\ \A i \in 1 .. n : attempts'[j][i] = attempts[j][i] /\ facts'[j][i] = facts[j][i]
  BY <1>1, <1>4, <1>5
<1>7. TypeOK'
  BY <1>1, <1>4, <1>5, <1>6 DEF TypeOK
<1>8. \A i \in DOMAIN attempts'[j] : Sound(j, attempts'[j][i], facts'[j][i])
  BY <1>1, <1>6 DEF RecordsInv
<1>9. \A i \in 1 .. n : attempts[j][i].status # "completed"
  BY <1>6 DEF JobIsComplete
<1>10. \A i \in CompletedIds(j)' : i = Len(attempts'[j])
  BY <1>1, <1>6, <1>9 DEF CompletedIds, Decided
<1>11. Decided(j)' = Decided(j) \cup (IF record.status # "open" THEN {n + 1} ELSE {})
  BY <1>1, <1>6 DEF Decided
<1>12. Decided(j)' # {} => \E m \in Decided(j)' : \A i \in Decided(j)' : i <= m
  <2>1. CASE record.status # "open"
    <3>1. n + 1 \in Decided(j)' /\ \A i \in Decided(j)' : i <= n + 1
      BY <1>1, <1>6, <2>1 DEF Decided
    <3>2. QED
      BY <3>1
  <2>2. CASE record.status = "open"
    BY <1>1, <1>11, <2>2 DEF RecordsInv
  <2>3. QED
    BY <2>1, <2>2
<1>13. ASSUME NEW k \in Jobs
       PROVE  /\ \A i \in DOMAIN attempts'[k] : Sound(k, attempts'[k][i], facts'[k][i])
              /\ \A i \in CompletedIds(k)' : i = Len(attempts'[k])
              /\ Decided(k)' # {} => \E m \in Decided(k)' : \A i \in Decided(k)' : i <= m
  <2>1. CASE k = j
    BY <1>8, <1>10, <1>12, <2>1 DEF CompletedIds, Decided
  <2>2. CASE k # j
    <3>1. attempts'[k] = attempts[k] /\ facts'[k] = facts[k]
      BY <1>4, <1>5, <2>2
    <3>2. Decided(k)' = Decided(k) /\ CompletedIds(k)' = CompletedIds(k)
      BY <3>1 DEF CompletedIds, Decided
    <3>3. QED
      BY <1>1, <3>1, <3>2 DEF RecordsInv
  <2>3. QED
    BY <2>1, <2>2
<1>14. RecordsInv'
  BY <1>13 DEF RecordsInv, Sound
<1>15. QED
  BY <1>7, <1>14 DEF IInv

(* The invariant is inductive.                                             *)
LEMMA NextIInv == IInv /\ [Next]_vars => IInv'
<1> SUFFICES ASSUME IInv, [Next]_vars PROVE IInv'
  OBVIOUS
<1>1. CASE Next
  <2>1. PICK j \in Jobs : RunJob(j) \/ RefuseJob(j) \/ RunJobRaises(j) \/ RunJobKilled(j)
    BY <1>1 DEF Next
  <2>2. QED
    BY <2>1, StepAdds, AddStep
<1>2. CASE UNCHANGED vars
  <2>1. attempts' = attempts /\ facts' = facts
    BY <1>2 DEF vars
  <2>2. TypeOK'
    BY <2>1 DEF IInv, TypeOK
  <2>3. \A j \in Jobs : Decided(j)' = Decided(j) /\ CompletedIds(j)' = CompletedIds(j)
    BY <2>1 DEF CompletedIds, Decided
  <2>4. RecordsInv'
    BY <2>1, <2>3 DEF IInv, RecordsInv, Sound
  <2>5. QED
    BY <2>2, <2>4 DEF IInv
<1>3. QED
  BY <1>1, <1>2

(* The records are well-formed, sound, and at most the last is completed.  *)
THEOREM OutcomesCorrect == Spec => []IInv
  BY InitIInv, NextIInv, PTL DEF Spec

-----------------------------------------------------------------------------
(* What the reports look at. *)

(* A set of numbers with a greatest one has that one as its maximum.       *)
LEMMA MaxIs ==
  ASSUME NEW S \in SUBSET Nat, NEW m \in S, \A i \in S : i <= m
  PROVE  Max(S) = m
<1>1. \A x \in S : (\A y \in S : x >= y) <=> x = m
  OBVIOUS
<1>2. QED
  BY <1>1 DEF Max

(* The terminal attempt of a job is one of its decided ones, and it is     *)
(* completed exactly if the scheduler would not run the job again.         *)
LEMMA TerminalIs ==
  ASSUME IInv, NEW j \in Jobs, Decided(j) # {}
  PROVE  \E i \in Decided(j) :
           /\ TerminalAttempt(j) = attempts[j][i]
           /\ attempts[j][i].status = "completed" <=> JobIsComplete(j)
<1>1. /\ attempts[j] \in Seq(Records)
      /\ Decided(j) \subseteq Nat /\ CompletedIds(j) \subseteq Nat
      /\ CompletedIds(j) \subseteq Decided(j) /\ Decided(j) \subseteq DOMAIN attempts[j]
  BY DEF IInv, TypeOK, Decided, CompletedIds
<1>2. JobIsComplete(j) <=> CompletedIds(j) # {}
  BY DEF JobIsComplete, CompletedIds, Decided
<1>3. CASE CompletedIds(j) # {}
  <2>1. PICK i \in CompletedIds(j) : TRUE
    BY <1>3
  <2>2. \A k \in CompletedIds(j) : k = i
    BY <2>1 DEF IInv, RecordsInv
  <2>3. \A k \in CompletedIds(j) : k <= i
    BY <1>1, <2>2
  <2>4. Max(CompletedIds(j)) = i
    BY <1>1, <2>1, <2>3, MaxIs
  <2>5. TerminalAttempt(j) = attempts[j][i] /\ attempts[j][i].status = "completed"
    BY <1>3, <2>1, <2>4 DEF TerminalAttempt, CompletedIds
  <2>6. QED
    BY <1>1, <1>2, <1>3, <2>1, <2>5
<1>4. CASE CompletedIds(j) = {}
  <2>1. PICK i \in Decided(j) : \A k \in Decided(j) : k <= i
    BY DEF IInv, RecordsInv
  <2>2. Max(Decided(j)) = i
    BY <1>1, <2>1, MaxIs
  <2>3. TerminalAttempt(j) = attempts[j][i]
    BY <1>4, <2>2 DEF TerminalAttempt
  <2>4. attempts[j][i].status # "completed"
    BY <1>4, <2>1 DEF CompletedIds
  <2>5. QED
    BY <1>2, <1>4, <2>1, <2>3, <2>4
<1>5. QED
  BY <1>3, <1>4

(* The place of a job in the summary and its status in the charts, by what *)
(* its terminal attempt says.                                              *)
LEMMA Classified ==
  ASSUME IInv, NEW j \in Jobs
  PROVE  /\ (Decided(j) # {} /\ TerminalAttempt(j).status = "completed") <=> JobIsComplete(j)
         /\ ~ JobIsComplete(j) =>
              IF Decided(j) = {}
              THEN SummaryClass(j) = "unstarted" /\ RowStatus(j) = "unstarted"
              ELSE SummaryClass(j) = "infrastructure_failures"
                   /\ RowStatus(j) = "infrastructure_failure"
         /\ JobIsComplete(j) =>
              /\ RowStatus(j) = TerminalAttempt(j).result.status
              /\ RowStatus(j) \in ResultStatuses
              /\ SummaryClass(j) = IF RowStatus(j) = "success" THEN "successes"
                                   ELSE IF RowStatus(j) = "task_failure" THEN "task_failures"
                                   ELSE "invalid"
         /\ RowStatus(j) = "success" =>
              \E i \in DOMAIN facts[j] : ShowsSuccess(j, facts[j][i])
<1>1. CASE Decided(j) = {}
  <2>1. ~ JobIsComplete(j)
    BY <1>1 DEF JobIsComplete, Decided
  <2>2. SummaryClass(j) = "unstarted" /\ RowStatus(j) = "unstarted"
    BY <1>1 DEF SummaryClass, RowStatus
  <2>3. QED
    BY <1>1, <2>1, <2>2
<1>2. CASE Decided(j) # {}
  <2>1. PICK i \in Decided(j) :
          /\ TerminalAttempt(j) = attempts[j][i]
          /\ attempts[j][i].status = "completed" <=> JobIsComplete(j)
    BY <1>2, TerminalIs
  <2>2. Sound(j, TerminalAttempt(j), facts[j][i]) /\ i \in DOMAIN facts[j]
    BY <2>1 DEF IInv, TypeOK, RecordsInv, Decided
  <2>3. CASE ~ JobIsComplete(j)
    <3>1. TerminalAttempt(j).status # "completed"
      BY <2>1, <2>3
    <3>2. /\ SummaryClass(j) = "infrastructure_failures"
          /\ RowStatus(j) = "infrastructure_failure"
      BY <1>2, <3>1 DEF SummaryClass, RowStatus
    <3>3. QED
      BY <1>2, <2>3, <3>1, <3>2
  <2>4. CASE JobIsComplete(j)
    <3>1. TerminalAttempt(j).status = "completed"
      BY <2>1, <2>4
    <3>2. RowStatus(j) = TerminalAttempt(j).result.status
      BY <1>2, <3>1 DEF RowStatus
    <3>3. /\ RowStatus(j) \in ResultStatuses
          /\ RowStatus(j) = "success" => ShowsSuccess(j, facts[j][i])
      BY <2>2, <3>1, <3>2 DEF Sound
    <3>4. SummaryClass(j) = CASE RowStatus(j) = "success"      -> "successes"
                              [] RowStatus(j) = "task_failure" -> "task_failures"
                              [] OTHER                         -> "invalid"
      BY <1>2, <3>1, <3>2 DEF SummaryClass
    <3>5. SummaryClass(j) = IF RowStatus(j) = "success" THEN "successes"
                            ELSE IF RowStatus(j) = "task_failure" THEN "task_failures"
                            ELSE "invalid"
      BY <3>4
    <3>6. QED
      BY <1>2, <2>2, <2>4, <3>1, <3>2, <3>3, <3>5
  <2>5. QED
    BY <2>3, <2>4
<1>3. QED
  BY <1>1, <1>2

-----------------------------------------------------------------------------
(* A job counted as a success has an attempt whose own evidence shows it,  *)
(* whatever was launched before or after and however it ended.             *)
THEOREM SuccessHasEvidence == Spec => []SuccessIsEvidenced
<1>1. IInv => SuccessIsEvidenced
  <2> SUFFICES ASSUME IInv, NEW j \in Jobs, SummaryClass(j) = "successes"
               PROVE  \E i \in DOMAIN facts[j] : ShowsSuccess(j, facts[j][i])
    BY DEF SuccessIsEvidenced
  <2>1. JobIsComplete(j)
    BY Classified
  <2>2. RowStatus(j) = "success"
    BY <2>1, Classified
  <2>3. QED
    BY <2>2, Classified
<1>2. QED
  BY <1>1, OutcomesCorrect, PTL

(* Once the summary and the charts show a verdict, no later attempt, crash *)
(* or invocation changes it: the job is not run again.                     *)
THEOREM VerdictsAreFinal == Spec => VerdictIsFinal
<1>1. IInv /\ [Next]_vars =>
        [\A j \in Jobs : RowStatus(j) \in {"success", "task_failure"} =>
           RowStatus(j)' = RowStatus(j) /\ SummaryClass(j)' = SummaryClass(j)]_vars
  <2> SUFFICES ASSUME IInv, Next, NEW j \in Jobs, RowStatus(j) \in {"success", "task_failure"}
               PROVE  RowStatus(j)' = RowStatus(j) /\ SummaryClass(j)' = SummaryClass(j)
    OBVIOUS
  <2>1. JobIsComplete(j)
    BY Classified
  <2>2. PICK k \in Jobs : RunJob(k) \/ RefuseJob(k) \/ RunJobRaises(k) \/ RunJobKilled(k)
    BY DEF Next
  <2>3. PICK record \in Records, f \in Facts(k) : Add(k, record, f) /\ ~ JobIsComplete(k)
    BY <2>2, StepAdds
  <2>4. attempts'[j] = attempts[j]
    BY <2>1, <2>3 DEF Add, IInv, TypeOK
  <2>5. QED
    BY <2>4 DEF RowStatus, SummaryClass, TerminalAttempt, Decided, CompletedIds
<1>2. QED
  BY <1>1, OutcomesCorrect, PTL DEF Spec, VerdictIsFinal

-----------------------------------------------------------------------------
(* Counting. *)

(* Two kinds of jobs that exclude each other are counted one by one.       *)
LEMMA CountTwo ==
  ASSUME NEW A \in SUBSET Jobs, NEW B \in SUBSET Jobs, A \cap B = {}
  PROVE  /\ Cardinality(A) \in Nat /\ Cardinality(B) \in Nat
         /\ Cardinality(A \cup B) = Cardinality(A) + Cardinality(B)
<1>1. IsFiniteSet(A) /\ IsFiniteSet(B)
  BY FS_Subset, JobsAssumption
<1>2. Cardinality(A) \in Nat /\ Cardinality(B) \in Nat
  BY <1>1, FS_CardinalityType
<1>3. Cardinality(A \cup B) = Cardinality(A) + Cardinality(B) - Cardinality(A \cap B)
  BY <1>1, FS_Union
<1>4. Cardinality(A \cap B) = 0
  <2>1. A \cap B = {}
    OBVIOUS
  <2>2. Cardinality({}) = 0
    BY FS_EmptySet
  <2>3. QED
    BY <2>1, <2>2, Zenon
<1>5. QED
  BY <1>2, <1>3, <1>4

(* No report drops a planned job or counts one twice, and the summary, the *)
(* charts and the scheduler mean the same jobs.                            *)
THEOREM ReportsAreComplete == Spec => []ReportsCountEveryJob
<1>1. IInv => ReportsCountEveryJob
  <2> SUFFICES ASSUME IInv PROVE ReportsCountEveryJob
    OBVIOUS
  <2> DEFINE In(class)    == {j \in Jobs : SummaryClass(j) = class}
             Rows(status) == {j \in Jobs : RowStatus(j) \in status}
             Complete     == {j \in Jobs : JobIsComplete(j)}
  <2>1. {j \in Jobs : Decided(j) # {} /\ TerminalAttempt(j).status = "completed"} = Complete
    BY Classified
  <2>2. Complete = (In("successes") \cup In("task_failures")) \cup In("invalid")
    BY Classified
  <2>3. Jobs = (Complete \cup In("infrastructure_failures")) \cup In("unstarted")
    BY Classified
  <2>4. /\ In("successes") \cap In("task_failures") = {}
        /\ (In("successes") \cup In("task_failures")) \cap In("invalid") = {}
    OBVIOUS
  <2>5. /\ Complete \cap In("infrastructure_failures") = {}
        /\ (Complete \cup In("infrastructure_failures")) \cap In("unstarted") = {}
    BY <2>2
  <2>6. /\ \A class : In(class) \in SUBSET Jobs
        /\ \A status : Rows(status) \in SUBSET Jobs
        /\ Complete \in SUBSET Jobs
    OBVIOUS
  <2>7. CompletedJobs = SummaryCount("successes") + SummaryCount("task_failures")
                          + SummaryCount("invalid")
    <3>1. CompletedJobs = Cardinality(Complete)
      BY <2>1 DEF CompletedJobs
    <3>2. Cardinality(In("successes") \cup In("task_failures"))
            = Cardinality(In("successes")) + Cardinality(In("task_failures"))
      BY <2>4, <2>6, CountTwo
    <3>3. Cardinality(Complete)
            = Cardinality(In("successes") \cup In("task_failures")) + Cardinality(In("invalid"))
      BY <2>2, <2>4, CountTwo
    <3>4. QED
      BY <3>1, <3>2, <3>3 DEF SummaryCount
  <2>8. Cardinality(Jobs) = CompletedJobs + SummaryCount("infrastructure_failures")
                              + SummaryCount("unstarted")
    <3>1. CompletedJobs = Cardinality(Complete)
      BY <2>1 DEF CompletedJobs
    <3>2. Cardinality(Complete \cup In("infrastructure_failures"))
            = Cardinality(Complete) + Cardinality(In("infrastructure_failures"))
      BY <2>5, <2>6, CountTwo
    <3>3. Cardinality(Jobs) = Cardinality(Complete \cup In("infrastructure_failures"))
                                + Cardinality(In("unstarted"))
      BY <2>3, <2>5, <2>6, CountTwo
    <3>4. QED
      BY <3>1, <3>2, <3>3 DEF SummaryCount
  <2>9. Cardinality(Jobs) = RowCount(ValidStatuses) + RowCount(PendingStatuses)
    <3>1. \A j \in Jobs : RowStatus(j) \in ValidStatuses \cup PendingStatuses
      BY Classified DEF ValidStatuses, PendingStatuses, ResultStatuses
    <3>2. Jobs = Rows(ValidStatuses) \cup Rows(PendingStatuses)
      BY <3>1
    <3>3. Rows(ValidStatuses) \cap Rows(PendingStatuses) = {}
      BY DEF ValidStatuses, PendingStatuses
    <3>4. QED
      BY <2>6, <3>2, <3>3, CountTwo DEF RowCount
  <2>10. RowCount({"success"}) = SummaryCount("successes")
    <3>1. Rows({"success"}) = In("successes")
      BY Classified
    <3>2. QED
      BY <3>1 DEF RowCount, SummaryCount
  <2>11. CompletedJobs = Cardinality({j \in Jobs : JobIsComplete(j)})
    BY <2>1 DEF CompletedJobs
  <2>12. QED
    BY <2>7, <2>8, <2>9, <2>10, <2>11 DEF ReportsCountEveryJob
<1>2. QED
  BY <1>1, OutcomesCorrect, PTL

(* On a run that was invoked once the attempt that the probe counts is the *)
(* terminal one.                                                           *)
LEMMA ProbeSees ==
  ASSUME IInv, InvokedOnce, NEW pick \in ProbePicks, NEW j \in Jobs
  PROVE  /\ pick[j] = 0 <=> Decided(j) = {}
         /\ pick[j] # 0 => attempts[j][pick[j]] = TerminalAttempt(j)
<1>1. /\ attempts[j] \in Seq(Records) /\ Len(attempts[j]) <= 1
      /\ DOMAIN attempts[j] = 1 .. Len(attempts[j])
  BY DEF IInv, TypeOK, InvokedOnce
<1>2. Decided(j) \subseteq {1}
  BY <1>1 DEF Decided
<1>3. IF Decided(j) = {} THEN pick[j] = 0 ELSE pick[j] \in Decided(j)
  BY DEF ProbePicks
<1>4. pick[j] = 0 <=> Decided(j) = {}
  BY <1>2, <1>3
<1>5. ASSUME pick[j] # 0 PROVE attempts[j][pick[j]] = TerminalAttempt(j)
  <2>1. Decided(j) # {} /\ pick[j] = 1
    BY <1>2, <1>3, <1>5
  <2>2. PICK i \in Decided(j) : TerminalAttempt(j) = attempts[j][i]
    BY <2>1, TerminalIs
  <2>3. QED
    BY <1>2, <2>1, <2>2
<1>6. QED
  BY <1>4, <1>5

(* The probe's table agrees with the summary of its run, whichever of the  *)
(* results the directory listing gives it last.                            *)
THEOREM ProbeTableAgrees == Spec => []ProbeAgrees
<1>1. IInv => ProbeAgrees
  <2> SUFFICES ASSUME IInv, InvokedOnce, NEW pick \in ProbePicks
               PROVE  /\ ProbeCompleted(pick) = CompletedJobs
                      /\ ProbeCount(pick, "success") = SummaryCount("successes")
                      /\ ProbeCount(pick, "task_failure") = SummaryCount("task_failures")
                      /\ ProbeCount(pick, "infra") + ProbeCount(pick, "invalid")
                           = SummaryCount("infrastructure_failures") + SummaryCount("invalid")
    BY DEF ProbeAgrees
  <2> DEFINE In(class)     == {j \in Jobs : SummaryClass(j) = class}
             Probed(class) == {j \in Jobs : pick[j] # 0
                                            /\ ProbeClass(attempts[j][pick[j]]) = class}
  <2>1. \A j \in Jobs :
          /\ pick[j] = 0 <=> Decided(j) = {}
          /\ pick[j] # 0 => attempts[j][pick[j]] = TerminalAttempt(j)
    BY ProbeSees
  <2>2. ASSUME NEW j \in Jobs
        PROVE  /\ j \in Probed("success") <=> j \in In("successes")
               /\ j \in Probed("task_failure") <=> j \in In("task_failures")
               /\ j \in Probed("infra") \cup Probed("invalid")
                    <=> j \in In("infrastructure_failures") \cup In("invalid")
    <3>1. CASE pick[j] = 0
      <4>1. Decided(j) = {} /\ ~ JobIsComplete(j)
        BY <2>1, <3>1, Classified
      <4>2. SummaryClass(j) = "unstarted"
        BY <4>1, Classified
      <4>3. QED
        BY <3>1, <4>2
    <3>2. CASE pick[j] # 0
      <4>1. /\ Decided(j) # {}
            /\ attempts[j][pick[j]] = TerminalAttempt(j)
            /\ TerminalAttempt(j).status = "completed" <=> JobIsComplete(j)
        BY <2>1, <3>2, Classified
      <4>2. CASE ~ JobIsComplete(j)
        <5>1. SummaryClass(j) = "infrastructure_failures"
          BY <4>1, <4>2, Classified
        <5>2. ProbeClass(attempts[j][pick[j]]) = "infra"
          BY <4>1, <4>2 DEF ProbeClass
        <5>3. QED
          BY <3>2, <5>1, <5>2
      <4>3. CASE JobIsComplete(j)
        <5>1. /\ RowStatus(j) = TerminalAttempt(j).result.status
              /\ RowStatus(j) \in ResultStatuses
              /\ SummaryClass(j) = IF RowStatus(j) = "success" THEN "successes"
                                   ELSE IF RowStatus(j) = "task_failure" THEN "task_failures"
                                   ELSE "invalid"
          BY <4>3, Classified
        <5>2. ProbeClass(attempts[j][pick[j]])
                = IF RowStatus(j) = "infrastructure_failure" THEN "infra" ELSE RowStatus(j)
          BY <4>1, <4>3, <5>1 DEF ProbeClass
        <5>3. QED
          BY <3>2, <5>1, <5>2 DEF ResultStatuses
      <4>4. QED
        BY <4>2, <4>3
    <3>3. QED
      BY <3>1, <3>2
  <2>3. /\ Probed("success") = In("successes")
        /\ Probed("task_failure") = In("task_failures")
        /\ Probed("infra") \cup Probed("invalid") = In("infrastructure_failures") \cup In("invalid")
    BY <2>2
  <2>4. ProbeCompleted(pick) = CompletedJobs
    <3>1. {j \in Jobs : pick[j] # 0 /\ attempts[j][pick[j]].status = "completed"}
            = {j \in Jobs : Decided(j) # {} /\ TerminalAttempt(j).status = "completed"}
      BY <2>1
    <3>2. QED
      BY <3>1 DEF ProbeCompleted, CompletedJobs
  <2>5. /\ ProbeCount(pick, "success") = SummaryCount("successes")
        /\ ProbeCount(pick, "task_failure") = SummaryCount("task_failures")
    BY <2>3 DEF ProbeCount, SummaryCount
  <2>6. ProbeCount(pick, "infra") + ProbeCount(pick, "invalid")
          = SummaryCount("infrastructure_failures") + SummaryCount("invalid")
    <3>1. Cardinality(Probed("infra") \cup Probed("invalid"))
            = Cardinality(Probed("infra")) + Cardinality(Probed("invalid"))
      BY CountTwo
    <3>2. Cardinality(In("infrastructure_failures") \cup In("invalid"))
            = Cardinality(In("infrastructure_failures")) + Cardinality(In("invalid"))
      BY CountTwo
    <3>3. QED
      BY <2>3, <3>1, <3>2 DEF ProbeCount, SummaryCount
  <2>7. QED
    BY <2>4, <2>5, <2>6
<1>2. QED
  BY <1>1, OutcomesCorrect, PTL
===============================================================================
