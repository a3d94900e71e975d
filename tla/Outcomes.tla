------------------------------- MODULE Outcomes -------------------------------
(***************************************************************************)
(* From what a native command leaves behind to what the reports say of a   *)
(* trial: the adapters' parse and run_adapter_job turn one launch into the *)
(* record of an attempt; run_jobs decides by the records which jobs to run *)
(* again; summarize_run, the probe's _collect_metrics and visualize count  *)
(* the jobs by those records, each in its own way.                         *)
(*                                                                         *)
(* The steps of one attempt are in Scheduler and NativeProcess; here an    *)
(* attempt is one step.                                                    *)
(***************************************************************************)
EXTENDS Naturals, SequencesExt

CONSTANTS
  RpentJobs,    \* planned jobs of the participant rpent_libero
  RatsJobs,     \* planned jobs of the participant rats_libero
  OtherSeeds,   \* those of them whose case has a seed other than 0
  MaxAttempts   \* bound: attempts of one job

Jobs == RpentJobs \cup RatsJobs

ASSUME JobsAssumption ==
  /\ IsFiniteSet(Jobs)
  /\ RpentJobs \cap RatsJobs = {}
  /\ OtherSeeds \subseteq RatsJobs
  /\ MaxAttempts \in Nat

-----------------------------------------------------------------------------
(* What a launch may leave behind. *)

(* The audit file of RPent: terminated is TRUE or FALSE in an audit of the *)
(* requested suite, task and seed; one of another cell; none that parses.  *)
Audits == {"solved", "unsolved", "foreign", "unusable"}

(* final_summary.json of RATs: one trial won or lost, other counters, or   *)
(* none that parses.                                                       *)
Summaries == {"won", "lost", "odd", "unusable"}

(* What one launch leaves behind: how the native run ended, whether the    *)
(* command exited 0, whether its logs hold the line that says the cell is  *)
(* unsolved, and its audit or summary.                                     *)
Launches(files) ==
  [native : {"completed"}, ok : BOOLEAN, saysUnsolved : BOOLEAN, file : files]
    \cup [native : {"timeout"}, ok : {FALSE}, saysUnsolved : {FALSE}, file : files]
    \cup [native : {"launch_failed"}, ok : {FALSE}, saysUnsolved : {FALSE}, file : {"unusable"}]

(* EpisodeResult: its status, and task_success: true, false or none.        *)
Result(status, success) == [status |-> status, success |-> success]

Verdict(won) ==
  IF won THEN Result("success", "true") ELSE Result("task_failure", "false")

Invalid == Result("invalid", "none")

Infrastructure == Result("infrastructure_failure", "none")

(* Variant for a mutant: the audit's suite, task and seed are not compared *)
(* with the requested ones.                                                *)
LoadAudit_AnyCell(audit) == audit # "unusable"

(* _load_audit: the audit can be used. *)
LoadAudit(audit) == audit \in {"solved", "unsolved"}

(* RpentLiberoAdapter.parse. *)
ParseRpent(f) ==
  IF ~ f.ok
    THEN IF f.saysUnsolved THEN Verdict(FALSE) ELSE Infrastructure
  ELSE IF LoadAudit(f.file) THEN Verdict(f.file # "unsolved")
  ELSE Invalid

(* RatsLiberoAdapter.parse; it does not look at the exit code.             *)
ParseRats(f) ==
  IF f.file \in {"won", "lost"} THEN Verdict(f.file = "won") ELSE Invalid

(* run_adapter_job: the record of the attempt, status and results[0].      *)
Completed(r) == [status |-> "completed", result |-> r]
Failed       == [status |-> "failed", result |-> Result("none", "none")]

Attempt(j, f) ==
  IF f.native # "completed" THEN Failed
  ELSE Completed(IF j \in RatsJobs THEN ParseRats(f) ELSE ParseRpent(f))

Open == [status |-> "open", result |-> Result("none", "none")]  \* no result.json

-----------------------------------------------------------------------------
VARIABLES
  attempts,   \* attempts[j]: the records of job j, in the order of their ids
  facts       \* history: facts[j][i] is what attempt i left behind

vars == <<attempts, facts>>

FactsOf(j) == Launches(IF j \in RatsJobs THEN Summaries ELSE Audits)

(* There was no launch, or none that came to its end.                      *)
NoFacts == [native |-> "none"]

Init ==
  /\ attempts = [j \in Jobs |-> << >>]
  /\ facts = [j \in Jobs |-> << >>]

(* Variant for a mutant: a job is run again until it succeeds.             *)
JobIsCompleteOnSuccess(j) ==
  \E i \in DOMAIN attempts[j] : attempts[j][i].result.status = "success"

(* _job_is_complete of scheduler.py. *)
JobIsComplete(j) == \E i \in DOMAIN attempts[j] : attempts[j][i].status = "completed"

Pending(j) == ~ JobIsComplete(j) /\ Len(attempts[j]) < MaxAttempts

Add(j, record, f) ==
  /\ attempts' = [attempts EXCEPT ![j] = Append(@, record)]
  /\ facts' = [facts EXCEPT ![j] = Append(@, f)]

(* An invocation runs a pending job. *)
RunJob(j) ==
  /\ Pending(j)
  /\ j \notin OtherSeeds
  /\ \E f \in FactsOf(j) : Add(j, Attempt(j, f), f)

(* The RATs adapter raises UnsupportedCondition for a seed other than 0,   *)
(* and nothing is launched.                                                *)
RefuseJob(j) ==
  /\ Pending(j)
  /\ j \in OtherSeeds
  /\ Add(j, Completed(Invalid), NoFacts)

(* The adapter or the launch raises: run_jobs commits FAILED.              *)
RunJobRaises(j) ==
  /\ Pending(j)
  /\ Add(j, Failed, NoFacts)

(* The invocation is killed under the attempt. *)
RunJobKilled(j) ==
  /\ Pending(j)
  /\ Add(j, Open, NoFacts)

Next == \E j \in Jobs : RunJob(j) \/ RefuseJob(j) \/ RunJobRaises(j) \/ RunJobKilled(j)

Spec == Init /\ [][Next]_vars

-----------------------------------------------------------------------------
(* The reports. *)

Decided(j) == {i \in DOMAIN attempts[j] : attempts[j][i].status # "open"}

CompletedIds(j) == {i \in Decided(j) : attempts[j][i].status = "completed"}

(* terminal_attempt: the last completed attempt, or else the last decided. *)
TerminalAttempt(j) ==
  attempts[j][Max(IF CompletedIds(j) # {} THEN CompletedIds(j) ELSE Decided(j))]

(* summarize_run: the counter a job adds to, besides completed_jobs.       *)
SummaryClass(j) ==
  IF Decided(j) = {} THEN "unstarted"
  ELSE IF TerminalAttempt(j).status # "completed" THEN "infrastructure_failures"
  ELSE CASE TerminalAttempt(j).result.status = "success"      -> "successes"
         [] TerminalAttempt(j).result.status = "task_failure" -> "task_failures"
         [] OTHER                                             -> "invalid"

SummaryCount(class) == Cardinality({j \in Jobs : SummaryClass(j) = class})

CompletedJobs ==
  Cardinality({j \in Jobs : Decided(j) # {} /\ TerminalAttempt(j).status = "completed"})

(* Variant for a mutant: an infrastructure failure that the adapter        *)
(* reported is not counted.                                                *)
ProbeClassFailedOnly(record) ==
  IF record.status # "completed" THEN "infra"
  ELSE IF record.result.status = "infrastructure_failure" THEN "none"
  ELSE record.result.status

(* _collect_metrics: the counter a job adds to, besides completed.         *)
ProbeClass(record) ==
  IF record.status # "completed" THEN "infra"
  ELSE IF record.result.status = "infrastructure_failure" THEN "infra"
  ELSE record.result.status

(* terminal[job_id] = path, over a glob in no particular order: of several *)
(* decided attempts of a job the probe counts any one.                     *)
ProbePicks ==
  {pick \in [Jobs -> 0 .. MaxAttempts] :
     \A j \in Jobs : IF Decided(j) = {} THEN pick[j] = 0 ELSE pick[j] \in Decided(j)}

ProbeCount(pick, class) ==
  Cardinality({j \in Jobs : pick[j] # 0 /\ ProbeClass(attempts[j][pick[j]]) = class})

ProbeCompleted(pick) ==
  Cardinality({j \in Jobs : pick[j] # 0 /\ attempts[j][pick[j]].status = "completed"})

(* _case_row: the status visualize shows. *)
RowStatus(j) ==
  IF Decided(j) = {} THEN "unstarted"
  ELSE IF TerminalAttempt(j).status # "completed" THEN "infrastructure_failure"
  ELSE TerminalAttempt(j).result.status

ValidStatuses   == {"success", "task_failure", "timeout"}

(* Variant for a mutant: trials that were never run are left out.          *)
PendingStatusesStarted == {"infrastructure_failure", "invalid"}

PendingStatuses == {"infrastructure_failure", "invalid", "unstarted"}

RowCount(statuses) == Cardinality({j \in Jobs : RowStatus(j) \in statuses})

-----------------------------------------------------------------------------
(* Properties. *)

(* A job counted as a success has an attempt whose own evidence shows it:  *)
(* for RPent a command that exited 0 and an audit of the requested cell    *)
(* with terminated, for RATs a summary of one won trial.  No crash, retry  *)
(* or foreign file makes one.                                              *)
ShowsSuccess(j, f) ==
  /\ f.native = "completed"
  /\ IF j \in RpentJobs THEN f.ok /\ f.file = "solved" ELSE f.file = "won"

SuccessIsEvidenced ==
  \A j \in Jobs : SummaryClass(j) = "successes" =>
    \E i \in DOMAIN facts[j] : ShowsSuccess(j, facts[j][i])

(* No report drops a planned job or counts one twice: in the summary every *)
(* job has its place, and the charts keep a complete denominator, where    *)
(* every trial is valid or unknown; both count the same successes, and the *)
(* jobs the next invocation skips are those the summary calls completed.   *)
ReportsCountEveryJob ==
  /\ CompletedJobs = SummaryCount("successes") + SummaryCount("task_failures")
                       + SummaryCount("invalid")
  /\ Cardinality(Jobs) = CompletedJobs + SummaryCount("infrastructure_failures")
                           + SummaryCount("unstarted")
  /\ Cardinality(Jobs) = RowCount(ValidStatuses) + RowCount(PendingStatuses)
  /\ RowCount({"success"}) = SummaryCount("successes")
  /\ CompletedJobs = Cardinality({j \in Jobs : JobIsComplete(j)})

(* Once a job has a verdict, in the summary and in the charts, no later    *)
(* attempt changes it.                                                     *)
VerdictIsFinal ==
  [][\A j \in Jobs : RowStatus(j) \in {"success", "task_failure"} =>
       RowStatus(j)' = RowStatus(j) /\ SummaryClass(j)' = SummaryClass(j)]_vars

(* On a run that was invoked once, as the probe does, its table agrees     *)
(* with the summary on what completed, succeeded and failed; they divide   *)
(* the rest differently, since the summary calls an infrastructure failure *)
(* that the adapter reported invalid.                                      *)
InvokedOnce == \A j \in Jobs : Len(attempts[j]) <= 1

ProbeAgrees ==
  InvokedOnce => \A pick \in ProbePicks :
    /\ ProbeCompleted(pick) = CompletedJobs
    /\ ProbeCount(pick, "success") = SummaryCount("successes")
    /\ ProbeCount(pick, "task_failure") = SummaryCount("task_failures")
    /\ ProbeCount(pick, "infra") + ProbeCount(pick, "invalid")
         = SummaryCount("infrastructure_failures") + SummaryCount("invalid")

=============================================================================
