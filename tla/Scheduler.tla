------------------------------ MODULE Scheduler ------------------------------
(***************************************************************************)
(* run_jobs of scheduler.py together with the attempt store of store.py:   *)
(* several invocations of `eva-agentic run` on ONE run directory, each a   *)
(* process with a main thread and a pool of worker threads, one of them    *)
(* per job, over the attempt directories on disk.                          *)
(*                                                                         *)
(* A process may be killed at any step; the kernel then drops its advisory *)
(* lock and its threads vanish, while the files stay.  A later invocation  *)
(* resumes from the files alone.                                           *)
(***************************************************************************)
EXTENDS Naturals, Sequences, FiniteSets

CONSTANTS
  Procs,           \* eva processes that may be started on the run directory
  NoProc,          \* "the advisory lock is free"
  NJobs,           \* number of jobs of the frozen plan
  MaxWorkers,      \* execution.max_jobs
  MaxInvocations,  \* bound: starts of `eva-agentic run`
  MaxCrashes,      \* bound: processes killed
  MaxFaults,       \* bound: failed file-system writes
  MaxReadFaults,   \* bound: scans in which some result.json cannot be read
  MaxInterrupts    \* bound: Ctrl-C while the pool is alive

ASSUME NoProcAssumption == NoProc \notin Procs
ASSUME BoundsAssumption ==
  /\ NJobs \in Nat
  /\ MaxWorkers \in Nat \ {0}
  /\ {MaxInvocations, MaxCrashes, MaxFaults, MaxReadFaults, MaxInterrupts} \subseteq Nat

Jobs == 1 .. NJobs       \* job_0001, job_0002, ... in plan order

Results == {"COMPLETED", "FAILED"}

Phases == {"down", "starting", "locked", "scanned", "collecting", "draining", "exiting"}

Steps == {"none", "queued", "allocating", "picking", "making", "requesting",
          "running", "committing", "recovering", "releasing", "done"}

VARIABLES
  attempts,    \* attempts[j][i]: what directory i of job j holds: "made" (empty),
               \* "requested" (request.json), or the status in its result.json
  runLock,     \* the process that holds .eva/scheduler.lock, or NoProc
  phase,       \* phase[p]: where the main thread of p is in run_jobs
  pending,     \* pending[p]: the jobs p found unfinished
  statuses,    \* statuses[p][j]: the dictionary run_jobs returns
  outcome,     \* outcome[p]: how the last invocation of p ended
  step,        \* step[p][j]: where the worker of job j is in _run_one
  att,         \* att[p][j]: the attempt id that worker computed, 0 before
  ret,         \* ret[p][j]: what _run_one returns or raises
  used         \* how much of each bound has been used

disk    == <<attempts>>
main    == <<runLock, phase, pending, statuses, outcome>>
workers == <<step, att, ret>>
vars    == <<attempts, runLock, phase, pending, statuses, outcome, step, att, ret, used>>

Use(b) == used' = [used EXCEPT ![b] = @ + 1]

-----------------------------------------------------------------------------
(* Reading the run directory. *)

(* Variant for a mutant: only the first attempt is looked at.              *)
JobIsCompleteFirst(j) == attempts[j] # << >> /\ attempts[j][1] = "COMPLETED"

(* _job_is_complete: some attempt directory has a result.json with status  *)
(* completed.                                                              *)
JobIsComplete(j) == \E i \in DOMAIN attempts[j] : attempts[j][i] = "COMPLETED"

HasResult(j) == \E i \in DOMAIN attempts[j] : attempts[j][i] \in Results

(* What one pass over the jobs sees: a result.json that cannot be opened   *)
(* or parsed makes its job incomplete.                                     *)
Seen(unreadable) == {j \in Jobs : JobIsComplete(j) /\ j \notin unreadable}

(* One pass, with the jobs whose evidence it may fail to read.             *)
ScanFaults(unreadable) ==
  /\ unreadable \subseteq {j \in Jobs : HasResult(j)}
  /\ IF unreadable = {}
       THEN UNCHANGED used
       ELSE used["read"] < MaxReadFaults /\ Use("read")

(* _next_attempt_id: one more than the highest directory.                  *)
NextAttemptId(j) == Len(attempts[j]) + 1

(* The workers of p that occupy a pool thread.                             *)
Busy(p) == {j \in Jobs : step[p][j] \notin {"none", "queued", "done"}}

(* Variant for a mutant: the join waits for every job of the plan, though  *)
(* only the pending ones were submitted.                                   *)
PoolIdleAll(p) == \A j \in Jobs : step[p][j] = "done"

(* Every submitted job of p has run to its end.                            *)
PoolIdle(p) == \A j \in Jobs : step[p][j] \in {"none", "done"}

-----------------------------------------------------------------------------
Init ==
  /\ attempts = [j \in Jobs |-> << >>]
  /\ runLock = NoProc
  /\ phase = [p \in Procs |-> "down"]
  /\ pending = [p \in Procs |-> {}]
  /\ statuses = [p \in Procs |-> [j \in Jobs |-> "none"]]
  /\ outcome = [p \in Procs |-> "none"]
  /\ step = [p \in Procs |-> [j \in Jobs |-> "none"]]
  /\ att = [p \in Procs |-> [j \in Jobs |-> 0]]
  /\ ret = [p \in Procs |-> [j \in Jobs |-> "none"]]
  /\ used = [b \in {"start", "crash", "fault", "read", "interrupt"} |-> 0]

(* The process is gone or back at the shell prompt: no pool, and the       *)
(* descriptor of the run lock is closed.                                   *)
GoDown(p, how) ==
  /\ phase' = [phase EXCEPT ![p] = "down"]
  /\ outcome' = [outcome EXCEPT ![p] = how]
  /\ runLock' = IF runLock = p THEN NoProc ELSE runLock
  /\ pending' = [pending EXCEPT ![p] = {}]
  /\ step' = [step EXCEPT ![p] = [j \in Jobs |-> "none"]]
  /\ att' = [att EXCEPT ![p] = [j \in Jobs |-> 0]]
  /\ ret' = [ret EXCEPT ![p] = [j \in Jobs |-> "none"]]
  /\ UNCHANGED attempts

-----------------------------------------------------------------------------
(* The main thread: run_jobs. *)

Start(p) ==
  /\ phase[p] = "down"
  /\ used["start"] < MaxInvocations
  /\ Use("start")
  /\ phase' = [phase EXCEPT ![p] = "starting"]
  /\ outcome' = [outcome EXCEPT ![p] = "none"]
  /\ statuses' = [statuses EXCEPT ![p] = [j \in Jobs |-> "none"]]
  /\ UNCHANGED <<attempts, runLock, pending, workers>>

(* Variant for a mutant: a shared lock instead of an exclusive one.        *)
AcquireSharedRunLock(p) ==
  /\ phase[p] = "starting"
  /\ runLock' = p
  /\ phase' = [phase EXCEPT ![p] = "locked"]
  /\ UNCHANGED <<disk, pending, statuses, outcome, workers, used>>

(* RunLock.__enter__, flock granted. *)
AcquireRunLock(p) ==
  /\ phase[p] = "starting"
  /\ runLock = NoProc
  /\ runLock' = p
  /\ phase' = [phase EXCEPT ![p] = "locked"]
  /\ UNCHANGED <<disk, pending, statuses, outcome, workers, used>>

(* RunLock.__enter__, LOCK_NB refused: "run is already being scheduled".   *)
RefuseRunLock(p) ==
  /\ phase[p] = "starting"
  /\ runLock # NoProc
  /\ GoDown(p, "refused")
  /\ UNCHANGED <<statuses, used>>

(* pending = [job for job in jobs if not _job_is_complete(run_dir, job)]   *)
ScanPending(p) ==
  /\ phase[p] = "locked"
  /\ \E unreadable \in SUBSET Jobs :
       /\ ScanFaults(unreadable)
       /\ pending' = [pending EXCEPT ![p] = Jobs \ Seen(unreadable)]
  /\ phase' = [phase EXCEPT ![p] = "scanned"]
  /\ UNCHANGED <<disk, runLock, statuses, outcome, workers>>

(* The second pass records the complete jobs; with nothing pending run_jobs *)
(* returns, otherwise every pending job is submitted to the pool.          *)
ScanComplete(p) ==
  /\ phase[p] = "scanned"
  /\ \E unreadable \in SUBSET Jobs :
       /\ ScanFaults(unreadable)
       /\ statuses' = [statuses EXCEPT ![p] =
                         [j \in Jobs |-> IF j \in Seen(unreadable)
                                           THEN "COMPLETED" ELSE "none"]]
  /\ IF pending[p] = {}
       THEN GoDown(p, "returned")
       ELSE /\ phase' = [phase EXCEPT ![p] = "collecting"]
            /\ step' = [step EXCEPT ![p] =
                          [j \in Jobs |-> IF j \in pending[p] THEN "queued" ELSE "none"]]
            /\ UNCHANGED <<disk, runLock, pending, outcome, att, ret>>

(* for future in as_completed(futures): statuses[...] = future.result().   *)
(* An exception that escaped _run_one escapes run_jobs here, after the     *)
(* pool's __exit__ has waited for every other job.                         *)
Collect(p, j) ==
  /\ phase[p] = "collecting"
  /\ j \in pending[p]
  /\ step[p][j] = "done"
  /\ IF ret[p][j] = "raised"
       THEN /\ phase' = [phase EXCEPT ![p] = "draining"]
            /\ UNCHANGED <<pending, statuses>>
       ELSE /\ statuses' = [statuses EXCEPT ![p][j] = ret[p][j]]
            /\ pending' = [pending EXCEPT ![p] = @ \ {j}]
            /\ UNCHANGED phase
  /\ UNCHANGED <<disk, runLock, outcome, workers, used>>

(* All futures collected: the pool and the run lock are left.              *)
Return(p) ==
  /\ phase[p] = "collecting"
  /\ pending[p] = {}
  /\ GoDown(p, "returned")
  /\ UNCHANGED <<statuses, used>>

(* Variant for a mutant: the pool is abandoned without waiting.            *)
DrainedWithoutWaiting(p) ==
  /\ phase[p] = "draining"
  /\ GoDown(p, "raised")
  /\ UNCHANGED <<statuses, used>>

(* The pool's __exit__ joins the remaining jobs before run_jobs raises.    *)
Drained(p) ==
  /\ phase[p] = "draining"
  /\ PoolIdle(p)
  /\ GoDown(p, "raised")
  /\ UNCHANGED <<statuses, used>>

(* KeyboardInterrupt in the main thread.  The first one leaves the         *)
(* as_completed loop; a second one leaves the pool's join, so the with     *)
(* statement of the run lock is left while worker threads still run.       *)
Interrupt(p) ==
  /\ used["interrupt"] < MaxInterrupts
  /\ Use("interrupt")
  /\ \/ /\ phase[p] = "collecting"
        /\ phase' = [phase EXCEPT ![p] = "draining"]
        /\ UNCHANGED runLock
     \/ /\ phase[p] = "draining"
        /\ phase' = [phase EXCEPT ![p] = "exiting"]
        /\ runLock' = NoProc
  /\ UNCHANGED <<disk, pending, statuses, outcome, workers>>

(* Interpreter exit joins the worker threads, which first empty the queue. *)
Exited(p) ==
  /\ phase[p] = "exiting"
  /\ PoolIdle(p)
  /\ GoDown(p, "raised")
  /\ UNCHANGED <<statuses, used>>

(* SIGKILL or power loss of the process. *)
Crash(p) ==
  /\ phase[p] # "down"
  /\ used["crash"] < MaxCrashes
  /\ Use("crash")
  /\ GoDown(p, "crashed")
  /\ UNCHANGED statuses

-----------------------------------------------------------------------------
(* A worker thread: _run_one. *)

Goto(p, j, s) == step' = [step EXCEPT ![p][j] = s]

(* A free pool thread takes the oldest submitted job.                      *)
TakeJob(p, j) ==
  /\ step[p][j] = "queued"
  /\ \A k \in Jobs : step[p][k] = "queued" => j <= k
  /\ Cardinality(Busy(p)) < MaxWorkers
  /\ Goto(p, j, "allocating")
  /\ UNCHANGED <<disk, main, att, ret, used>>

(* resource_allocator.allocate: a lease, or none needed. *)
Allocate(p, j) ==
  /\ step[p][j] = "allocating"
  /\ Goto(p, j, "picking")
  /\ UNCHANGED <<disk, main, att, ret, used>>

(* allocate raises (slots exhausted, unknown kind): outside the try, so    *)
(* nothing is recorded for this job.                                       *)
AllocateRaises(p, j) ==
  /\ step[p][j] = "allocating"
  /\ Goto(p, j, "done")
  /\ ret' = [ret EXCEPT ![p][j] = "raised"]
  /\ UNCHANGED <<disk, main, att, used>>

(* _prepare_next_attempt: list the directory ... *)
PickId(p, j) ==
  /\ step[p][j] = "picking"
  /\ Goto(p, j, "making")
  /\ att' = [att EXCEPT ![p][j] = NextAttemptId(j)]
  /\ UNCHANGED <<disk, main, ret, used>>

(* Variants for mutants: an existing directory is used as it is, or is     *)
(* wiped first.                                                            *)
MakeDirExistOk(p, j) ==
  /\ step[p][j] = "making"
  /\ Goto(p, j, "requesting")
  /\ attempts' = IF att[p][j] \in DOMAIN attempts[j]
                   THEN attempts ELSE [attempts EXCEPT ![j] = Append(@, "made")]
  /\ UNCHANGED <<main, att, ret, used>>

MakeDirWiped(p, j) ==
  /\ step[p][j] = "making"
  /\ Goto(p, j, "requesting")
  /\ attempts' = IF att[p][j] \in DOMAIN attempts[j]
                   THEN [attempts EXCEPT ![j][att[p][j]] = "made"]
                   ELSE [attempts EXCEPT ![j] = Append(@, "made")]
  /\ UNCHANGED <<main, att, ret, used>>

(* ... and mkdir(exist_ok=False); an existing directory means try again.   *)
MakeDir(p, j) ==
  /\ step[p][j] = "making"
  /\ IF att[p][j] \in DOMAIN attempts[j]
       THEN /\ Goto(p, j, "picking")
            /\ UNCHANGED attempts
       ELSE /\ Goto(p, j, "requesting")
            /\ attempts' = [attempts EXCEPT ![j] = Append(@, "made")]
  /\ UNCHANGED <<main, att, ret, used>>

(* request.json is written atomically; the attempt is now bound and runs.  *)
WriteRequest(p, j) ==
  /\ step[p][j] = "requesting"
  /\ Goto(p, j, "running")
  /\ attempts' = [attempts EXCEPT ![j][att[p][j]] = "requested"]
  /\ UNCHANGED <<main, att, ret, used>>

(* mkdir or the write of request.json fails: attempt_dir is not bound, so  *)
(* FAILED is returned and no result is written.                            *)
PrepareFails(p, j) ==
  /\ step[p][j] \in {"making", "requesting"}
  /\ used["fault"] < MaxFaults
  /\ Use("fault")
  /\ Goto(p, j, "releasing")
  /\ ret' = [ret EXCEPT ![p][j] = "FAILED"]
  /\ UNCHANGED <<disk, main, att>>

(* _invoke_runner returns an execution ... *)
RunnerReturns(p, j) ==
  /\ step[p][j] = "running"
  /\ Goto(p, j, "committing")
  /\ \E s \in Results : ret' = [ret EXCEPT ![p][j] = s]
  /\ UNCHANGED <<disk, main, att, used>>

(* Variant for a mutant: no except branch around the runner.               *)
RunnerRaisesThrough(p, j) ==
  /\ step[p][j] = "running"
  /\ Goto(p, j, "releasing")
  /\ ret' = [ret EXCEPT ![p][j] = "raised"]
  /\ UNCHANGED <<disk, main, att, used>>

(* ... or raises. *)
RunnerRaises(p, j) ==
  /\ step[p][j] = "running"
  /\ Goto(p, j, "recovering")
  /\ UNCHANGED <<disk, main, att, ret, used>>

(* write_json_no_replace: link fails if result.json exists.                *)
Publishable(p, j) == attempts[j][att[p][j]] \notin Results

Publish(p, j, s) == attempts' = [attempts EXCEPT ![j][att[p][j]] = s]

(* commit_attempt of the execution's status. *)
Commit(p, j) ==
  /\ step[p][j] = "committing"
  /\ IF Publishable(p, j)
       THEN Publish(p, j, ret[p][j]) /\ Goto(p, j, "releasing")
       ELSE UNCHANGED attempts /\ Goto(p, j, "recovering")
  /\ UNCHANGED <<main, att, ret, used>>

(* Variant for a mutant: a rejected commit is ignored.                     *)
CommitRejectionIgnored(p, j) ==
  /\ step[p][j] = "committing"
  /\ Goto(p, j, "releasing")
  /\ UNCHANGED <<disk, main, att, ret, used>>

(* commit_attempt rejects the execution (unknown case ids, a completed     *)
(* attempt without results) or cannot write: nothing was published.        *)
CommitRejected(p, j) ==
  /\ step[p][j] = "committing"
  /\ Goto(p, j, "recovering")
  /\ UNCHANGED <<disk, main, att, ret, used>>

(* The except branch: commit the attempt as FAILED and return FAILED; an   *)
(* existing result.json raises out of _run_one.                            *)
Recover(p, j) ==
  /\ step[p][j] = "recovering"
  /\ Goto(p, j, "releasing")
  /\ IF Publishable(p, j)
       THEN Publish(p, j, "FAILED") /\ ret' = [ret EXCEPT ![p][j] = "FAILED"]
       ELSE UNCHANGED attempts /\ ret' = [ret EXCEPT ![p][j] = "raised"]
  /\ UNCHANGED <<main, att, used>>

(* The FAILED result cannot be written either. *)
RecoverRaises(p, j) ==
  /\ step[p][j] = "recovering"
  /\ used["fault"] < MaxFaults
  /\ Use("fault")
  /\ Goto(p, j, "releasing")
  /\ ret' = [ret EXCEPT ![p][j] = "raised"]
  /\ UNCHANGED <<disk, main, att>>

(* finally: lease.release() *)
ReleaseLease(p, j) ==
  /\ step[p][j] = "releasing"
  /\ Goto(p, j, "done")
  /\ UNCHANGED <<disk, main, att, ret, used>>

-----------------------------------------------------------------------------
MainStep(p) ==
  \/ AcquireRunLock(p) \/ RefuseRunLock(p) \/ ScanPending(p) \/ ScanComplete(p)
  \/ (\E j \in Jobs : Collect(p, j)) \/ Return(p) \/ Drained(p) \/ Exited(p)

WorkerStep(p, j) ==
  \/ TakeJob(p, j) \/ Allocate(p, j) \/ AllocateRaises(p, j) \/ PickId(p, j)
  \/ MakeDir(p, j) \/ WriteRequest(p, j) \/ PrepareFails(p, j)
  \/ RunnerReturns(p, j) \/ RunnerRaises(p, j) \/ Commit(p, j)
  \/ CommitRejected(p, j) \/ Recover(p, j) \/ RecoverRaises(p, j)
  \/ ReleaseLease(p, j)

Next ==
  \E p \in Procs :
    \/ Start(p) \/ Interrupt(p) \/ Crash(p) \/ MainStep(p)
    \/ \E j \in Jobs : WorkerStep(p, j)

Spec == Init /\ [][Next]_vars

(* Threads are scheduled by the OS; allocate has a one-hour deadline and   *)
(* the runner a job timeout, so each of them takes its next step.  Nobody  *)
(* is obliged to start, interrupt or kill a process.                       *)
Fairness ==
  \A p \in Procs : WF_vars(MainStep(p)) /\ \A j \in Jobs : WF_vars(WorkerStep(p, j))

FairSpec == Spec /\ Fairness

-----------------------------------------------------------------------------
(* Types. *)

AttemptState == {"made", "requested"} \cup Results

TypeOK ==
  /\ attempts \in [Jobs -> Seq(AttemptState)]
  /\ runLock \in Procs \cup {NoProc}
  /\ phase \in [Procs -> Phases]
  /\ pending \in [Procs -> SUBSET Jobs]
  /\ statuses \in [Procs -> [Jobs -> Results \cup {"none"}]]
  /\ outcome \in [Procs -> {"none", "refused", "returned", "raised", "crashed"}]
  /\ step \in [Procs -> [Jobs -> Steps]]
  /\ att \in [Procs -> [Jobs -> Nat]]
  /\ ret \in [Procs -> [Jobs -> Results \cup {"none", "raised"}]]
  /\ used \in [{"start", "crash", "fault", "read", "interrupt"} -> Nat]

(* The worker of j in p has its own attempt directory and has not yet left *)
(* the code that publishes its result.                                     *)
InFlight(p, j) == step[p][j] \in {"requesting", "running", "committing", "recovering"}

(* p has jobs submitted and not yet run to their end.                      *)
HasLiveWorkers(p) == \E j \in Jobs : step[p][j] \notin {"none", "done"}

-----------------------------------------------------------------------------
(* Safety. *)

(* RunLock: workers of two invocations never run on one run directory at   *)
(* the same time (scheduler.py:29-51).                                     *)
OneScheduler ==
  \A p, q \in Procs : HasLiveWorkers(p) /\ HasLiveWorkers(q) => p = q

(* "completed attempts are never rerun" (scheduler.py:62): once an attempt *)
(* of a job has completed, no step creates a further attempt of it, in     *)
(* this invocation or any later one, whatever was killed in between.       *)
NoRerunOfCompleted ==
  [][\A j \in Jobs :
       "COMPLETED" \in {attempts[j][i] : i \in DOMAIN attempts[j]}
         => DOMAIN attempts'[j] = DOMAIN attempts[j]]_vars

(* mkdir(exist_ok=False) (store.py:136): no attempt directory is ever      *)
(* worked on by two workers, even when two schedulers run by mistake.      *)
NoSharedAttempt ==
  \A p, q \in Procs, j \in Jobs :
    InFlight(p, j) /\ InFlight(q, j) /\ att[p][j] = att[q][j] => p = q

(* While no process was killed and no write failed, an attempt directory   *)
(* without a result is one that some worker is still responsible for:      *)
(* neither an exception of the runner or of another job, nor a rejected    *)
(* commit leaves an attempt undecided (scheduler.py:112-140).              *)
NoLostAttempt ==
  used["crash"] = 0 /\ used["fault"] = 0 =>
    \A j \in Jobs : \A i \in DOMAIN attempts[j] :
      attempts[j][i] \notin Results =>
        \E p \in Procs : InFlight(p, j) /\ att[p][j] = i

(* When run_jobs returns, its dictionary has every job of the plan, and    *)
(* says completed of exactly those whose evidence on disk is a completed   *)
(* attempt (scheduler.py:66-93).                                           *)
ReturnIsAccurate ==
  [][\A p \in Procs :
       outcome[p] # "returned" /\ outcome'[p] = "returned" =>
         \A j \in Jobs :
           /\ statuses'[p][j] # "none"
           /\ statuses'[p][j] = "COMPLETED"
                <=> "COMPLETED" \in {attempts'[j][i] : i \in DOMAIN attempts'[j]}]_vars

(* The attempt directories implement the append-only, publish-once ledger  *)
(* (store.py:123-179).                                                     *)
Evidence ==
  [j \in Jobs |->
     [i \in DOMAIN attempts[j] |->
        IF attempts[j][i] \in Results THEN attempts[j][i] ELSE "open"]]

Ledger == INSTANCE AttemptLedger WITH ledger <- Evidence

LedgerSpec == Ledger!Spec

-----------------------------------------------------------------------------
(* Liveness. *)

(* Every invocation ends: it is refused, returns, raises or is killed.  No *)
(* order of worker failures leaves the main thread waiting (scheduler.py:  *)
(* 77-91).                                                                 *)
InvocationEnds == \A p \in Procs : phase[p] # "down" ~> phase[p] = "down"

(* Unless a process is killed or a write fails, an attempt that was        *)
(* handed to the runner gets its result.json (scheduler.py:112-137).       *)
RequestedIsDecided ==
  \A j \in Jobs, i \in 1 .. MaxInvocations :
    (i \in DOMAIN attempts[j] /\ attempts[j][i] = "requested")
      ~> \/ i \in DOMAIN attempts[j] /\ attempts[j][i] \in Results
         \/ used["crash"] + used["fault"] > 0

-----------------------------------------------------------------------------
(* Inductive invariants (proved in Scheduler_proofs). *)

(* The attempt number of a worker against the directories on disk: while   *)
(* it may still be stale it is at most one beyond them, and once its mkdir *)
(* has succeeded it names an existing one.                                 *)
AttemptBound ==
  \A p \in Procs, j \in Jobs :
    /\ step[p][j] = "making" => att[p][j] \in 1 .. Len(attempts[j]) + 1
    /\ InFlight(p, j) => att[p][j] \in 1 .. Len(attempts[j])

(* A worker about to commit has an execution, with its status.             *)
ExecutionKnown ==
  \A p \in Procs, j \in Jobs : step[p][j] = "committing" => ret[p][j] \in Results

(* Until its own worker publishes, the attempt has no result.              *)
OwnUndecided ==
  \A p \in Procs, j \in Jobs :
    InFlight(p, j) => attempts[j][att[p][j]] \notin Results

BaseInv ==
  TypeOK /\ AttemptBound /\ ExecutionKnown /\ NoSharedAttempt /\ OwnUndecided

(* Without Ctrl-C, the run lock is held from its acquisition until the     *)
(* last worker of the pool is done.                                        *)
LockInv ==
  \A p \in Procs :
    /\ phase[p] # "exiting"
    /\ phase[p] \in {"locked", "scanned", "collecting", "draining"} <=> runLock = p
    /\ \A j \in Jobs : step[p][j] # "none" => phase[p] \in {"collecting", "draining"}

(* What the scan decided is still true when it is acted upon: a job waiting *)
(* for its attempt has not completed.                                      *)
FreshScan ==
  \A p \in Procs :
    /\ phase[p] = "scanned" => pending[p] = {j \in Jobs : ~ JobIsComplete(j)}
    /\ \A j \in Jobs :
         step[p][j] \notin {"none", "releasing", "done"} => ~ JobIsComplete(j)

SerialInv == BaseInv /\ LockInv /\ FreshScan

(* A pool that is still collecting waits for every worker that runs; there *)
(* is no pool before the jobs are submitted.                               *)
PoolInv ==
  \A p \in Procs, j \in Jobs :
    /\ phase[p] \in {"down", "starting", "locked", "scanned"} => step[p][j] = "none"
    /\ phase[p] = "collecting" /\ step[p][j] \notin {"none", "done"} => j \in pending[p]

(* What is known of a job is what the disk says of it: of a job that is    *)
(* not awaited any more, by the dictionary, and of one whose worker has    *)
(* decided it, by what that worker returns.                                *)
ResultInv ==
  \A p \in Procs, j \in Jobs :
    phase[p] = "collecting" =>
      /\ j \notin pending[p] =>
           /\ statuses[p][j] # "none"
           /\ statuses[p][j] = "COMPLETED" <=> JobIsComplete(j)
      /\ step[p][j] \in {"releasing", "done"} /\ ret[p][j] # "raised" =>
           /\ ret[p][j] \in Results
           /\ ret[p][j] = "COMPLETED" <=> JobIsComplete(j)
=============================================================================
