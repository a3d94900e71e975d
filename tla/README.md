# eva-agentic in TLA+

A model of `eva_agentic` (`src/src/eva_agentic`): a command-line tool that freezes a
benchmark experiment into a run directory, schedules its jobs in parallel, runs each
job as a native framework command on leased GPUs and ports, and keeps evidence of every
attempt on disk so that a run can be killed and resumed at any time.  The repository
also holds the `vllm_user` planner, a language-model tool loop that runs inside one of
those native commands (`src/patches/rpent/libero/vllm_user`).

All paths below are relative to `src/src/eva_agentic` unless they begin with `planner/`
or `rpent-runtime/`, which are under `src/patches/rpent/libero/vllm_user`.

## 1. Inventory

| Component | Code | State | Operations | Talks to |
|---|---|---|---|---|
| Run initialisation | `store.py` `initialize_run`, `load_run`; `snapshot.py` | `inputs/` and its manifest | freeze, verify, load | CLI, probe |
| Run lock | `scheduler.py` `RunLock` | flock on `.eva/scheduler.lock` | enter, exit | kernel |
| Scheduler | `scheduler.py` `run_jobs`, `_run_one` | pending jobs, futures, statuses | scan, submit, collect, run one job | store, allocator, runner |
| Attempt store | `store.py` `prepare_attempt`, `commit_attempt`, `write_json_no_replace` | `attempts/NNNN/{request,result}.json` | mkdir, freeze the request, publish the result once | file system |
| Resource allocator | `resources.py` | flocks on `<root>/<kind>/<slot>.lock` | allocate, try-lock, release | kernel, other processes |
| Native process | `process.py` | `launch.json`, `runtime.json`, one process group | launch, wait, terminate, kill, reap | OS |
| Runner | `runner.py` | none | build, run, classify, parse | adapters, native process |
| Adapters | `adapters/*.py` | none | build a command, parse its evidence | native files |
| Experiment, plan, schema | `experiment.py`, `schema.py` | frozen records | resolve, plan, validate | store |
| Summary | `summary.py` | none | terminal attempt of each job, counts | store's files |
| Probe | `probe.py`, `probing.py` | rows per concurrency level | render, initialise, run, measure | CLI by subprocess |
| Framework declarations | `frameworks.py` | none | parse, validate, expand templates | adapters |
| Visualisation | `viz.py` | none | read a run, draw | files |
| CLI | `cli.py` | none | wire the above | all |
| Planner turn loop | `planner/.../planner.py`, `client.py`, `multi_tool.py` | messages, turn and repair budgets, stop event | solve, request, execute tools, repair, time out | model server, toolkit |
| Dashboard conversation | `planner/.../planner.py` | claimed messages, stop request, monitor thread | claim, acknowledge, fail, stop, end | dashboard |
| History | `planner/.../history.py` | none (a policy over the message list) | compact, summarise, project, fit | planner |
| Workspace | `planner/.../workspace.py` | none | compose a tool surface, search, run a read-only command | planner |
| Result projection | `planner/.../result_projection.py` | none | shorten tool results | planner |
| Tool loop guard | `rpent-runtime/liveness.py` | counters per tool and observation | admit, record, stop | toolkit |
| Planner toolkit | `rpent-runtime/runtime.py` | terminal error, call records | call a tool | guard, environment |

Hard behaviours.  Several invocations may work on one run directory; each has a main
thread and worker threads; all may be killed at any step.  Only two kinds of advisory
lock and three file-system operations (`mkdir`, `os.replace`, `os.link`) coordinate them.
Slots are locked one at a time, by polling.  A native command may exit just when its
time is over, ignore signals, leave helpers behind, and outlive a killed eva process.
A solve of the planner has a worker, a monitor and a caller that share a message queue, a
stop request and a tool call that may never end, while a user types.

What makes each component correct:

* *Run lock and scheduler*: one live scheduler for each run directory; completed jobs are
  never run again; every invocation ends; the returned statuses are those on disk.
* *Attempt store*: attempts are numbered without gaps, never shared between workers, and
  a result is published once.
* *Allocator*: leases are whole, exact and exclusive; whoever waits holds nothing; every
  call returns.
* *Native process and runner*: a launch ends, not before its command is dead and reaped if
  eva may signal it; the evidence says what happened.
* *Composition*: a command that is in eva's hands runs only on slots that are leased for it,
  and shares none with another one under the same lock root.
* *Run directory*: one experiment for each run id; what is loaded is what was frozen, and
  what is frozen and untouched loads.
* *Adapters and reports*: a success is one the evidence shows; summary, probe and charts
  count every planned job, and agree with each other and with the scheduler.
* *Guard and planner toolkit*: the planner never misses that a run was stopped; what was accepted is
  executed; nothing is held against the planner that an action has made stale, or that it
  was not told; no loop of fruitless calls runs on.
* *Turn loop and conversation*: a user message has the fate of the request that carried it;
  the robot acts only on what a model said that had seen everything; a stop or the deadline
  ends the solve, with nothing left open.
* *History*: calls stay with their results, requests stay within every budget, and no more
  is dropped than has to be.

Every known hazard is listed with its source line in `PROJECT.json`.

## 2. Modules

| Module | Models | State and actions |
|---|---|---|
| `AttemptLedger` | what the attempt directories promise | `ledger[j]`: entries, open or closed; `Open`, `Close` |
| `Scheduler` | `scheduler.py`, attempt part of `store.py` | below |
| `MCScheduler` | | symmetry of processes, where no liveness is checked |
| `Scheduler_proofs` | | theorems about `Scheduler` |
| `SlotTable` | what allocation promises | `leases[c]`; `Acquire` a whole set, `GiveBack` |
| `ResourceAllocator` | `resources.py` | below |
| `MCResourceAllocator` | | needs, scan orders and lock roots of an instance |
| `Allocator_proofs` | | theorems about `ResourceAllocator` |
| `NativeProcess` | `process.py`, `runner.py` | below |
| `HostRuns` | worker of `_run_one` from lease to release | leases under lock roots around `NativeProcess` |
| `MCHostRuns` | | an instance of it, with a shared lock root or two |
| `HostRuns_proofs` | | theorems about `NativeProcess` and `HostRuns` |
| `RunDirectory` | `initialize_run`, `load_run`, `snapshot.py` | below |
| `MCRunDirectory` | | symmetry of initialisations and loads |
| `RunDirectory_proofs` | | theorems about `RunDirectory` |
| `Outcomes` | the adapters' `parse`, `summary.py`, metrics of the probe, counters of `viz.py` | below |
| `MCOutcomes` | | one job of each kind |
| `Outcomes_proofs` | | theorems about `Outcomes` |
| `ToolLoopGuard` | `liveness.py` of `rpent-runtime/` | below |
| `PlannerToolkit` | `runtime.py` of `rpent-runtime/`, `multi_tool.py` and the handling of a response in `planner.py` of `planner/` | below |
| `MCPlannerToolkit` | | six calls of four tools and what they return |
| `PlannerToolkit_proofs` | | theorems about `PlannerToolkit` |
| `MessageDesk` | what the user is promised about a message | `status[m]`, `sealed`; `Submit`, `Claim`, `Settle`, `Seal` |
| `PlannerSolve` | `solve`, `_solve_loop` and `_VllmDashboardConversation` of `planner.py` | below |
| `PlannerSolve_proofs` | | theorems about `PlannerSolve` |
| `RequestHistory` | `history.py`, image pruning and the overflow retry of `planner.py`, limits of `result_projection.py` | below |
| `MCRequestHistory` | | eight kinds of responses with their results |
| `RequestHistory_proofs` | | theorems about `RequestHistory` |

**Scheduler.** `attempts[j][i]` is what directory `i` of job `j` holds: nothing yet
(`made`), `request.json` (`requested`) or the status in `result.json`.  `runLock` is the
kernel's lock.  `phase[p]` follows the main thread of process `p` through `run_jobs`:
`AcquireRunLock` or `RefuseRunLock`, `ScanPending` and `ScanComplete` (the two passes read
the disk separately), `Collect` for each future, `Return`, or `Drained` when an exception
escaped, with the join of the pool before it.  `Interrupt` is Ctrl-C.  `step[p][j]`
follows the worker of job `j` through `_run_one`: `TakeJob`, `Allocate`, `PickId` and
`MakeDir` (the id is read before `mkdir`), `WriteRequest`, the runner, `Commit`, the
`except` branch `Recover`, `ReleaseLease`.  `Crash` may strike at any of these steps and
leaves only the disk.  Files are written by one atomic step each, as `os.replace` and
`os.link` make them visible.  The limit of 1000 tries in `_prepare_next_attempt` is
beyond every instance and left out.  Job contents, request contents and case results are
abstracted; a result that `commit_attempt` rejects is `CommitRejected`.

**ResourceAllocator.** `flock[r][s]` is the kernel's table: who has locked the file of
slot `s` under root `r`.  `pos[c]` is where client `c` is in its scan (`Scan[c]`, the
slots by sorted kind), `held[c]` the positions it has locked.  `TryLock` is one
`_try_lock`; `Exhausted`, `LockFileFails` and `BeginRelease` lead to `ReleaseOne`, in
reverse order, one lock for each step; `Released` raises, sleeps or is done; `Retry` starts
over.  `DeadlinePasses` may happen anywhere in between.  `Crash` drops the locks of all
clients of a process.  Clients outside `Patient` pass no timeout.

**NativeProcess.** `stage[c]` follows the worker through `run_adapter_job` and
`run_native_launch`; `leader`, `helper` and `signals` are the process group.  A signal and
what it does to a process are two steps: `SendKill` marks the processes of the group as killed,
each of which is gone some time later (`KilledDies`), and the worker waits for the leader
only.  `killpg` may fail or reach a part of the group, and the fallback signals the leader
alone (`TermSome`, `KillSome`), finds that it has exited (`FallbackFindsExit`) or raises
(`SignalRefused`).  The last is possible because a command may come to run under a user whose
processes eva may not signal (`LeaderChangesUser`): the `PermissionError` of the fallback leaves
`run_adapter_job` while the command runs.  The other system actions, `LeaderForks`,
`LeaderExits` and `HelperExits`, are free to happen at any time and never forced: a command
may run and ignore SIGTERM forever.  `EvaDies` leaves the processes running.  Parsing of
native files is an outcome (results or an exception).

**HostRuns.** `root[p]` is the lock root of eva process `p`: the one of `--lock-root`, or by
default a directory inside its run directory (`cli.py:121`).  A worker leases its slots
atomically, of those that nobody holds *under its own root*; that slot-by-slot locking under
one root amounts to that is what `ResourceAllocator` is shown to implement.  It runs
`NativeProcess` and gives the slots back one by one when the runner is done.  `grants[c]`
remembers what the command was started with.  A command is in hand (`InHand`) unless its eva
process has died or it has changed its user.  Nothing is claimed of two commands under
different roots, which use one GPU together if their runs are started with the default.

**RunDirectory.** One run id.  `at[i]` follows invocation `i` through `initialize_run`,
`load[l]` invocation `l` through `load_run`; `dir`, `files` and `manifest` are the disk.  A
file is abstracted to who wrote it and how it was edited since, which is all that sizes,
digests and the rebuilt plan can tell apart; the manifest maps names to files.  A load
reads the manifest, lists the directory, compares the digests in any order (the code's
order is that of the manifest's list) and then opens
the three inputs a second time.  `EditInput`, `RemoveInput`, `AddOther` and `EditManifest`
are a person with an editor; somebody who edits a file *and* recomputes its digest in the
manifest is not modelled, the manifest does not claim to withstand that.  Only initial
writes may race: everything under `attempts/` is in `Scheduler`.

**Outcomes.** `attempts[j]` is the sequence of records of job `j`, `facts[j]` what each
launch left behind: how the native run ended, whether the command exited 0, whether its logs
say the cell is unsolved, and what its audit or summary holds.  `ParseRpent` and
`ParseRats` are the adapters' `parse`, `Attempt` is the classification by
`run_adapter_job`.  An attempt is one step, since `Scheduler` and `NativeProcess` have its
steps; it may also be refused, raise, or be killed and stay open.  `SummaryClass`,
`ProbeClass` and `RowStatus` are what the three reports make of a job, each translated from
its own code; the probe picks any decided attempt, for its glob has no order.

**ToolLoopGuard.** The memory of `PlannerLoopGuard`: the last result of each call and how
often it came in a row (`lastByCall`, `lastErrorByCall`), failures by family
(`familyRepeats`), what must not be repeated (`recovery`), what ran into its budget
(`capped`), and four counters.  `Blocked` is `validate_proposal` for one call, `Observe`
is `observe` with its three paths (an error, an action, anything else) and `Stop` the loop
error it returns.  A result is what the guard reads in it.  Environment steps are kept
relative to the latest one: a new step makes the stored ones `earlier`, which is all that
comparisons tell apart.  The scopes that make a family count once in a proposal become the
set `counted` of the active one.  The count of environment reads is kept modulo its limit.

**PlannerToolkit.** One `solve` of `PlannerRuntime`.  With the backend `proposals`, the
planner of `planner/`, a response is checked as a whole (`Accept`, `Refuse`, `Malformed`)
and then executed to its end (`ExecuteNext`); with `direct`, an RPent backend whose code is
not in the repository, calls come one by one (`ExecuteDirectly`).  `Call` is
`execute_tool`: `AnswerStopped`, `Reject`, or the toolkit, which may `Raise` or `Return`
any result; `Raise` is not seen by the guard, as in the code.  `pending` and `remaining`
differ: the first is what the planner still executes, the second what the runtime still
counts to the proposal.  `GiveUp` stands for the limits of turns and time and for a model
that cannot be reached; `PlannerSolve` has them.  The
rejection counter is kept up to its limit, beyond which nothing looks at it.  A workspace
call (`ReadWorkspace`) is admitted with its proposal, may be in any batch, and is executed
by `CompositeToolSurface` beside the runtime, also after the runtime has stopped the run.
`last`, `warned` and `since` are history for the properties.

**MessageDesk.** A message is claimed for one request and settled with it; sealing hands
everything open back as unsent, and nothing changes after it.

**PlannerSolve.** `worker` follows the worker thread through `_solve_loop`: `SetUp` and
`Open` (`start()`, which reads whether the task is being replaced before it tells the port
to accept input), then for each turn `BeginTurn`, `Claim` message by message, `Prepare`,
`Send`, the answer (`ModelAnswers`) or its failure (`RequestFails`, `Diagnose`,
`RetryOverflow`), `Acknowledge`, `Read`, a second `Claim` and `Reclaimed`, `Validate`, and
`BeginCall`, `StartCall`, `CallEnds` for each call.  Every place where the code asks whether
it has to stop is a step of its own, so that a stop may arrive right behind it.  `main`
follows the caller: it waits for the worker, and after the deadline cancels the active
call, waits again for `_WORKER_CANCEL_GRACE_S`, seals the conversation and returns without the
worker.  `monitor` is the thread that turns an interrupt or a replacement into a stop and
cancels the active call again and again until the worker has seen it.  `LockFree` is the
lifecycle lock.  The port of the Dashboard is not in the repository; it is modelled from its
use and from the double in the planner's tests.  `DropLocals` resets the local variables of a loop
that has returned: nothing can read them.  What a request contains, and how a response is
admitted, are choices here and models of their own elsewhere.  `contained`, `answered` and
`lateCalls` are history for the properties.

**RequestHistory.** `messages` is `request_messages`, `view` what the model was sent.  A
message is its kind, its size and its images; a result also has the core a projection must
keep.  `Ask` is one request: `_prune_request_images`, then `prepare` as the sequence of its
`Attempts`, the first of which that fits or raises decides (`Prepared`), then the check of
the image budget.  `Retry` is the second request after a context overflow, from a copy with
one image and one exchange; it leaves `messages` alone.  `Accept`, `Repair`, `Supersede` and
`Claim` are what makes the history longer.  Sizes are in units of 512 bytes, the
least limit the policy accepts, and limits that are halved are powers of two of it.  With
the `full` history mode (`bounded = FALSE`) `prepare` first tries to keep everything.  The
texts of summaries, the anchors a summary repeats, and the digests are left out; a summary
may exceed its limit by the line that says how much was omitted, as in the code.

## 3. Runs

`CHECK_DEADLOCK FALSE` is set where the system may really stop: once the invocations or
launches of the instance are used up, nothing has to happen any more.

| Run | Instance | Shows |
|---|---|---|
| `sched_resume` | 2 processes, 2 jobs, pool of 2, 3 invocations, 1 kill, fairness | `OneScheduler`, `NoRerunOfCompleted`, `NoLostAttempt`, `ReturnIsAccurate`, `InvocationEnds` |
| `sched_evidence` | 2 processes, 1 job, 3 invocations, 1 kill, 1 failed write, 1 unreadable scan, 2 interrupts, fairness | `NoSharedAttempt` and the refinement `LedgerSpec`, also with two schedulers at once; `RequestedIsDecided` |
| `sched_unreadable` | 1 unreadable scan | finding: `NoRerunOfCompleted` fails |
| `alloc_shared` | 3 clients in 2 processes, 2 GPUs, 1 port, 1 kill, 1 lock file that cannot be opened, one client with a timeout, fairness | `LeaseExclusive`, refinement `TableSpec`, `AllocateReturns`, `AloneSucceeds` |
| `alloc_default_root` | a lock root for each run | finding: `LeaseExclusive` fails |
| `host_runs` | 2 launches of 2 processes on 2 GPUs, with one lock root or two, 1 kill, 1 failed write, fairness | `CommandEndedOnReturn`, `EvidenceTruthful`, `OneCommandPerSlot`, `CoveredByLease`, `SlotsComeFree` |
| `rundir_edits` | 2 initialisations, 2 loads, 1 kill, 1 failed write, 2 edits by hand | `OneExperimentPerRun`, `LoadsWhatWasFrozen`, `UntouchedRunLoads` |
| `outcomes_reports` | an RPent job, a RATs job, a RATs job with an unsupported seed, up to 2 attempts each, every combination of evidence | `SuccessIsEvidenced`, `ReportsCountEveryJob`, `ProbeAgrees`, `VerdictIsFinal` |
| `toolkit_loops` | 6 calls, of an action, a read, a workspace search and `finish`, with up to 2 results each; responses of up to 2 calls; both backends; limits of 1 to 3; fairness | `RefusalIsFresh`, `AcceptedIsExecuted`, `WarnedBeforeStopped`, `StopIsNoticed`, `NoFruitlessLoop` |
| `solve_threads` | 2 user messages, interrupts and a replacement at any time, 2 turns, responses of up to 2 calls, 1 repair, a deadline, fairness | `FateIsTrue`, `ActsOnAnsweredInput`, `AtMostOneLateCall`, `ReturnIsSealed`, refinement `DeskSpec`, `DeadlineEndsSolve`, `StopEndsSolve` |
| `history_budgets` | 4 turns, 1 user message, 8 kinds of batches with 1 or 2 results and images that fit or do not, both history modes | `RequestIsWellFormed`, `BudgetsDecide`, `KeepsWhatFits`, `NewestImagesKept` |
| `history_projection` | the same | finding: `NeverRejectedIfItFits` fails |

Why the bounds are enough.  Two processes and three invocations give every pair of
concurrent schedulers and a resume after a kill and a second resume; two jobs
and a pool of two, as in `sched_resume`, are needed for one worker failing while another runs,
on which `InvocationEnds`, `NoLostAttempt` and `ReturnIsAccurate` depend.  There a worker may
raise before it has an attempt (`AllocateRaises`), or its runner or commit may fail, in any
order with the steps of the other and with the kill; write failures, interrupts and unreadable
results are left to `sched_evidence`, where one job suffices, because the properties are about
one attempt.  The second Ctrl-C that releases the lock with live workers is only there:
`OneScheduler` does not hold with it, `NoSharedAttempt` and `LedgerSpec` do.  Three clients over two kinds make two compete for
part of what each needs while a third changes what is free.  Two launches of two processes
are enough for `OneCommandPerSlot`, which relates two; the instance starts with a shared lock
root or with one for each process.  Attempts and retries of the
allocator are not bounded at all: its state space is finite.  Two edits let a file change
and change back, or an input and the plan change together, between any two reads of a
load.  Two attempts of a job are every pair of a failed, an unfinished and a completed
one, since nothing follows a completed one.  In `toolkit_loops` two calls share the failures of
a tool, one of two reads depends on the environment, and an action may change nothing, so
every limit of the guard but that on identical outcomes stops some run; the limits are
smaller than the defaults (2 to 16): what matters is that each is reached, and reached
before another one resets its count.  A solve has no bound there: the counters are finite because the guard stops it.
In `solve_threads` the second message can be claimed with the first, after it, or while the
model answers it; the second turn is the last one, which the code treats differently; and
a stop may fall before, between and after two calls.  Interrupts are not bounded.  In
`history_budgets` the limits are two recent exchanges, summaries and results of 4 units, 13
units of text of which 5 are taken by the tools, and 3 of images: with four turns a history
has to be compacted, summarised, projected to each of three limits and refused, and each of
these happens; one batch of two results and one of two images are what a cut may tear apart.
The bounds are constants
(`MaxInvocations`, `MaxCrashes`, `MaxFaults`, `MaxReadFaults`, `MaxInterrupts`, `MaxKills`,
`MaxEdits`, `MaxAttempts`, `MaxMessages`), guards on
things the environment does; no code path is cut by them.

Fairness.  Each thread takes its next step (weak fairness for each main thread and each
worker): the OS schedules threads, `allocate` is called with a one-hour timeout, the
runner with `job_timeout_s`, and flocks are never waited for.  Time passes in the
allocator (`DeadlinePasses`).  Of the native processes it is only assumed
that one that was sent a SIGKILL dies at some time, and nobody is
obliged to start, interrupt or kill anything.  A solve that has not ended takes another
step: the planner asks the model with a timeout, and the model's answer, or the lack of
one, is a step; nothing says which.  In `PlannerSolve` the worker, the monitor and the caller
take their next steps: `client.chat` returns or raises because it has a timeout, and a call
that is *told* to stop ends, which is what `cancel_active_and_wait` waits for.  No fairness is
given to the user, to the deadline, or to a call nobody has cancelled.  The allocator polls without a queue, so
that a client with a satisfiable need gets it eventually is *not* true; what holds is
`AloneSucceeds`.

Findings.  (1) One unreadable `result.json` makes a completed job run again,
against "completed attempts are never rerun".  (2) Slot locks are host-local only if
`--lock-root` is given; by default they are local to a run directory.  (3) A result that
cannot be reduced to one of the limits `prepare` tries ends the search for a request that
fits: `project_tool_messages` raises, and neither the smaller summaries nor the "final
no-summary attempt" are reached, although the comment at `history.py:172` says that this
attempt avoids rejecting a request that would fit.

Observations that no run is devoted to.  A native run that times out is committed as a
failed attempt and reported as an infrastructure failure, while the charts' legend
(`viz.py:1004`) counts timeouts among the decisive outcomes; no code emits the outcome
`timeout`.  The guard's limit on identical outcomes (`max_identical_outcomes`, 4 by default) is
never reached, since a call is turned down after the second identical result (theorem
`OutcomeLimit`).  A tool that raises and a tool of the workspace escape the guard, so that a
loop of such calls ends only with the turns or the time (the last disjunct of
`NoFruitlessLoop` is needed).  Compaction drops the user messages that lie between the first
response and the exchanges it keeps.  That the context was too long once is forgotten in the
next turn, which sends a full-sized request again.  Helpers of a native command may run on
when its slots are free again, since only the leader is waited for; so may a command that has
changed its user, when the fallback of `_terminate_process_tree` raises `PermissionError`, and
one whose eva process was killed.

## 4. Proofs

The theorems hold for every value of the constants, from `NoProcAssumption`,
`BoundsAssumption`, `SentinelAssumption` (that there is no file is not a content),
`ClientAssumption` and `ScanAssumption` (what `ResourceAllocator.__init__` validates: no
slot twice; positive needs), `GuardAssumption` and `ToolkitAssumption` (the limits are
positive, as `__post_init__` demands; `finish` is never safe in a batch), `SolveAssumption`
(at least one turn and one call to a response), `JobsAssumption` (finitely many jobs, each of
one participant), `FaultAssumption` (a bound is a number) and `HistoryAssumption` (the limits
are positive, as the policy demands, and those that are halved a power of two of the unit;
a result is not empty, and its core is a part of it).

* `TypeCorrect`, `AttemptsNotShared` from `BaseInv`.  That no directory is shared is not
  inductive alone: `mkdir` fails for an existing number, so a worker that succeeds has
  `Len + 1`, and all others in flight have at most `Len` (`AttemptBound`); a worker that
  commits has a status (`ExecutionKnown`), and nobody else published in its directory
  (`OwnUndecided`, needed for the refinement).
* `OneSchedulerHolds` from `LockInv`: without interrupts the lock is held from acquisition
  to the last worker.  The hypothesis `MaxInterrupts = 0` is needed: a second Ctrl-C in
  the join of the pool releases the lock while workers run, which `sched_evidence` allows.
* `CompletedNeverRerun` from `SerialInv`, which adds `FreshScan`: what the scan found
  unfinished is still unfinished when its directory is made, since only the one live pool
  publishes.  Hypotheses: no interrupt and no unreadable result, both needed.
* `NoAttemptLost` needs no hypothesis: whoever left `made` or `requested` behind still has it
  in hand, the `except` branch gives it a result before the worker is done, and a process
  that is invoked again has no worker left (`PoolInv`).
* `ReturnsAreAccurate` from `SerialInv` with `PoolInv` (a pool that collects waits for every
  worker that runs) and `ResultInv` (what is known of a job is what the disk says: by the
  dictionary, or by the value its worker returns).  Its hypotheses are those of
  `CompletedNeverRerun`, for another scheduler could complete a job after it was collected.
* `ImplementsLedger`: every step opens or closes an entry, or is invisible.
* `AllocatorCorrect`: held positions and kernel locks agree (`HeldIsLocked`), nothing is
  held outside an allocation (`OnlyAllocatorsHold`), counts stay within the need
  (`CountsRight`).  From it `NothingHeldWhileWaiting` and `LeasesExact` in general, and
  `LeasesExclusive` and `ImplementsTable` if all clients have one lock root, which
  `alloc_default_root` shows to be needed.

* `RunDirectoryCorrect` and its parts from `IInv`: `SealedInv` (once there is a manifest
  nobody writes any more), `SameManifest` and `SeenAgree` (all loads hold the manifest of
  the run), `CheckedInv` and `ParsedInv` (a file that was compared, and contents that were
  parsed, are the frozen ones unless the file was edited during the load).
  `OneExperiment` follows from the exclusive `mkdir` of `inputs/`, not from the check of
  `run_dir.exists()`; `FrozenInputs` and `ResumeSeesTheSameInputs` hold for any number of
  edits, kills and racing initialisations.  `NeverRefusedForNothing` from `UneditedInv`, which
  speaks of runs nobody has edited: the owner has written what its place says (`WriterInv`), so
  the manifest is of all three files there are, by one author (`CompleteInv`), and a load reads
  that manifest and those files (`ReaderInv`).

* `HostRuns_proofs`: `NativeReturn` and `NativeEvidence` from `ProcIInv`, which says of each
  stage of a worker what its leader is (`LeaderInv`), what was sent to the group
  (`SignalInv`), and what is known and recorded of the run (`RunInv`, `RecordInv`).
  `NativeReturn` rests on the wait for the leader that follows every signal, not on what a
  signal does: of helpers it says only that a SIGKILL to the whole group has reached them.
  `HostImplementsNative` carries both over to commands under leases.  `LeaseCoversCommand` and
  `SlotsUsedOnce` add `LeaseInv`: a worker holds what its command was started with until it has
  come back or its process was killed, and nothing is held twice under one lock root.  Both
  speak of commands in hand (`InHandIsCovered`) and hold for any assignment of lock roots; that
  `SlotsUsedOnce` excepts two roots is needed, as `alloc_default_root` shows.

* `Outcomes_proofs` from `IInv`: a record that says success has its evidence (`Sound`), a
  completed attempt is the last one of its job, and of the decided ones one is the last
  (`RecordsInv`); the last part is what makes the maximum in `terminal_attempt` exist.
  `Classified` derives the place of a job in each report; `ReportsAreComplete` and
  `ProbeTableAgrees` count with `CountTwo`, from the library's theorem on unions.

* `PlannerToolkit_proofs`: `Typed`, `OutcomeLimit` and `AcceptedCalls` from `IInv`.  That an accepted call is not rejected needs `PendingIsOpen`: nothing pending is
  blocked while the run is not stopped.  It is inductive because a result puts only its own
  call into `recovery`, because no call is twice in a proposal, and because an action
  forgives the others; and it is the reason why the planner may validate a response
  before it executes it.  `AtMostTwice` bounds the repeats of a result, from which the idle
  limit follows.
  `FreshRefusals` from `SinceInv` (what is held against a call was observed since the last
  action) and `WarnedFirst` from `FamilyInv` and `ScopeInv`: a family beyond its limit has been
  warned of; one that is at its limit has too, or was counted in the scope that is open and
  is warned of when that closes, and a scope counts a family once.
  `StopsAreNoticed` from `NoticeInv`: the planner has been told of a stop exactly when there is
  one.  Two things make it inductive: a result that stops the run or finds it stopped always says
  so, unless it is that of `finish`, and no proposal, with which the planner forgets what it was
  told, is accepted after a stop.

* `PlannerSolve_proofs`: `Typed` (in two lemmas, flags apart from places, since they need
  different provers) and five properties from `IInv`.  `SealInv`: a sealed conversation has
  nothing open, and who finds it open under the lifecycle lock keeps it open until the lock
  is given back; with `ClockInv` (only the deadline lets anybody but the worker seal) it gives
  `ReturnsSealed`.  `FateInv`: what is claimed is exactly what is being sent until the
  conversation is sealed, and a loop that has failed a message never asks again; hence
  `FatesTrue`.  `HandledInv`: everything in the request and not claimed has been acknowledged,
  and nothing is claimed from the acknowledgement to the last call; hence
  `ActsOnlyOnAnswers`.  It needs that an acknowledgement of a sealed conversation leads to a
  stop, which is where `ClockInv` is used again.  `LateInv`: a call that has slipped in is
  followed by a check, and the reasons to stop do not go away; hence `OneLateCall`.
  `ImplementsDesk` maps every step to one of the desk's or to a stutter.

* `RequestHistory_proofs` is about one request at a time, on top of `HistoryInv`
  (`HistoryCorrect`): a history is a sequence of messages in which every result follows a
  response and every response is followed by a result (`Calls`).  The rest of that invariant
  gives `ImagesLeaveForNewerOnes`: the images since a hidden one are too many or too heavy,
  which pruning preserves because it hides the older ones first, and which newer messages only
  add to.  It must speak of all images, for those that are hidden count too.
  `RequestsKeepTheirBudgets`: an attempt has no more and no heavier images than the pruned
  history (`FewerImages`, by an injection from the places of one into those of the other), and
  if all attempts fail, the last ones are what `NothingFits` is about (`RefusedIs`).
  `RequestsAreWellFormed`: the shape of every attempt is made from the shape of the history
  (`CompactFormed`), and pruning twice is pruning once (`PrunedTwice`), so that a request can be
  compared with the history after it was sent.  `RequestsKeepWhatFits`: `StartIs` and `StartOf`
  say that "the n newest results" and "the exchanges from a response on" are two ways to count
  the same thing; then an exchange that was dropped belongs to an attempt before the one that
  was sent, whose weight is `Weight`.  The retry is compared with a history whose images it
  did not prune in place; `SameText` carries sizes and exchanges over.
  Sums and concatenations are folds, and the prover has no induction over them: that a sum
  exists, what it is bounded by (`SumInto`) and what a concatenation contains (`FlattenRange`)
  are proved from a least counterexample instead (`Least`, `Minimal`, from `WFMin` on finite
  sets).  `Limits` is written with powers of two, and `2 ^ n` is known to be a
  positive number as the size of a powerset (`PowerIs`).

Proved but not run: `LeaseExact` and `NoHoldWhileWaiting` of the allocator, `LoadsAgree` of the
run directory, `OutcomeLimitIsIdle` of the toolkit, and the inductive invariants `SerialInv` and
`AllocatorInv`, which hold the types too.

Model-checked only: all liveness (`InvocationEnds`, `RequestedIsDecided`, `AllocateReturns`,
`AloneSucceeds`, `SlotsComeFree`, `NoFruitlessLoop`, `DeadlineEndsSolve`, `StopEndsSolve`):
fairness and ENABLED are beyond the prover.  Every other property of a passing run is a
theorem.

## 5. Plan

In this order; each with its MC module, runs and mutants.

1. Done: `Scheduler`, `ResourceAllocator`, `NativeProcess`, `HostRuns` and their abstract
   specifications; theorems about the first two.
2. Done: `RunDirectory`, with its theorems.
3. Done: `Outcomes`.
4. Done: `ToolLoopGuard` and `PlannerToolkit`, with theorems.
5. Done: `MessageDesk` and `PlannerSolve`, with theorems: turn loop and conversation in
   one module, for what is hard in either is the other.
6. Done: `RequestHistory`.
7. Done: theorems about `NativeProcess`, `HostRuns` and `Outcomes`, and the remaining
   safety properties of `Scheduler`, `PlannerToolkit` and `RunDirectory`.
8. Done: theorems about `RequestHistory`.

## 6. Not modelled

`frameworks.py` and `probing.py` substitute strings in templates; `viz.py` draws; the rest of
`result_projection.py` decides which fields of a result are its core and formats them;
`experiment.py` parses fields and enumerates a plan, which is frozen; the levels of `probe.py`
run one after another (a level that fails raises, and the rows of the levels before it are
lost); `compat.py` adapts imports.  None of them keeps state or takes part in the behaviours
above.  The search and the commands of the workspace are read-only functions of the file
system; only their way around the runtime is modelled.  The solve without a Dashboard is the
one with a user who does nothing.  Transcript, progress events and statistics of the planner
are left out.  HTTP, signing, JSON and YAML are abstracted to success or failure.  Helpers
of native commands are modelled only as far as `process.py` deals with them.  Durability
against power loss (no directory is fsynced) and the temporary file left beside each
`result.json` are below the grain of the models.
