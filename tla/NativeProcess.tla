---------------------------- MODULE NativeProcess ----------------------------
(***************************************************************************)
(* One native framework command per attempt: run_adapter_job of runner.py  *)
(* and run_native_launch of process.py, against a process group whose      *)
(* leader exits when it likes, may ignore SIGTERM, may come to run under   *)
(* another user, and may have started helper processes in its group; those *)
(* outside of it are out of reach.  A signal is sent in one step and acted *)
(* upon in a later one.                                                    *)
(*                                                                         *)
(* The worker thread and the operating system interleave: the leader may   *)
(* exit between any two steps of the thread, in particular between the     *)
(* expiry of a wait and the poll or signal that follows it.                *)
(***************************************************************************)
EXTENDS Naturals

CONSTANTS
  Launches,      \* the attempts, each run by one worker thread of eva
  MaxFaults      \* bound: records that cannot be written

ASSUME FaultAssumption == MaxFaults \in Nat

VARIABLES
  stage,      \* stage[c]: where the worker thread of c is
  leader,     \* leader[c]: the native command: none, running, running under a
              \* user that eva may not signal ("foreign"), sent a SIGKILL
              \* ("killed"), zombie, reaped
  helper,     \* helper[c]: what is left in its process group of what it
              \* started: none, running ("attached"), sent a SIGKILL ("killed")
  signals,    \* signals[c]: what eva set out to send: TERM and KILL to the
              \* whole group, TERM_SOME and KILL_SOME to a part of it at most
  run,        \* run[c]: the NativeRunResult, [status |-> "none"] before
  runtime,    \* runtime[c]: the status in runtime.json, "absent" before
  exec,       \* exec[c]: what run_adapter_job returns, or that it raises,
              \* "refused" when it was not permitted to signal the command
  faults      \* number of failed writes

eva    == <<stage, run, runtime, exec, faults>>
native == <<leader, helper, signals>>
procVars == <<stage, leader, helper, signals, run, runtime, exec, faults>>

Goto(c, s) == stage' = [stage EXCEPT ![c] = s]

NoRun == [status |-> "none", terminated |-> FALSE]

(* The worker has its NativeRunResult and goes on to write runtime.json.   *)
Result(c, s, terminated) ==
  /\ run' = [run EXCEPT ![c] = [status |-> s, terminated |-> terminated]]
  /\ Goto(c, "recording")
  /\ UNCHANGED <<runtime, exec, faults>>

(* run_adapter_job ends.                                                   *)
End(c, how) ==
  /\ Goto(c, "done")
  /\ exec' = [exec EXCEPT ![c] = how]

Reaped(c) ==
  /\ leader[c] = "zombie"
  /\ leader' = [leader EXCEPT ![c] = "reaped"]
  /\ UNCHANGED <<helper, signals>>

-----------------------------------------------------------------------------
Init ==
  /\ stage = [c \in Launches |-> "idle"]
  /\ leader = [c \in Launches |-> "none"]
  /\ helper = [c \in Launches |-> "none"]
  /\ signals = [c \in Launches |-> {}]
  /\ run = [c \in Launches |-> NoRun]
  /\ runtime = [c \in Launches |-> "absent"]
  /\ exec = [c \in Launches |-> "none"]
  /\ faults = 0

(* The scheduler calls run_adapter_job. *)
Begin(c) ==
  /\ stage[c] = "idle"
  /\ Goto(c, "building")
  /\ UNCHANGED <<native, run, runtime, exec, faults>>

(* build_launch returns a launch ... *)
Build(c) ==
  /\ stage[c] = "building"
  /\ Goto(c, "launching")
  /\ UNCHANGED <<native, run, runtime, exec, faults>>

(* ... or raises.  UnsupportedCondition of a one-case job is an INVALID    *)
(* result of a completed attempt, without a launch; anything else is       *)
(* raised.                                                                 *)
BuildRaises(c) ==
  /\ stage[c] = "building"
  /\ \E how \in {"COMPLETED", "raised"} : End(c, how)
  /\ UNCHANGED <<native, run, runtime, faults>>

(* launch.json is written and Popen starts the command in a new session.   *)
Spawn(c) ==
  /\ stage[c] = "launching"
  /\ leader' = [leader EXCEPT ![c] = "running"]
  /\ Goto(c, "waiting")
  /\ UNCHANGED <<helper, signals, run, runtime, exec, faults>>

(* Popen raises OSError: there is no process. *)
PopenFails(c) ==
  /\ stage[c] = "launching"
  /\ Result(c, "LAUNCH_FAILED", FALSE)
  /\ UNCHANGED native

(* process.wait(timeout_s) returns the exit code ... *)
WaitReturns(c) ==
  /\ stage[c] = "waiting"
  /\ Reaped(c)
  /\ Result(c, "COMPLETED", FALSE)

(* ... or its time is over; the leader may still exit right after. *)
WaitTimesOut(c) ==
  /\ stage[c] = "waiting"
  /\ Goto(c, "polling")
  /\ UNCHANGED <<native, run, runtime, exec, faults>>

(* Variant for a mutant: a late exit is reported as a termination.         *)
PollExitedAsTerminated(c) ==
  /\ stage[c] = "polling"
  /\ Reaped(c)
  /\ Result(c, "TIMEOUT", TRUE)

(* _terminate_process_tree: poll finds that the leader has just exited.    *)
PollExited(c) ==
  /\ stage[c] = "polling"
  /\ Reaped(c)
  /\ Result(c, "TIMEOUT", FALSE)

(* It is still running. *)
PollRunning(c) ==
  /\ stage[c] = "polling"
  /\ leader[c] \in {"running", "foreign"}
  /\ Goto(c, "terminating")
  /\ UNCHANGED <<native, run, runtime, exec, faults>>

Signal(c, sig, s) ==
  /\ signals' = [signals EXCEPT ![c] = @ \cup {sig}]
  /\ Goto(c, s)
  /\ UNCHANGED <<run, runtime, exec, faults>>

(* killpg(SIGTERM).  Processes may act on it, late or never.               *)
SendTerm(c) ==
  /\ stage[c] = "terminating" /\ leader[c] \in {"running", "zombie"}
  /\ Signal(c, "TERM", "grace")
  /\ UNCHANGED <<leader, helper>>

(* Only a part of the group gets it: killpg raises, and process.terminate  *)
(* signals the leader alone; or the leader runs under another user, and    *)
(* killpg reaches the others.                                              *)
TermSome(c) ==
  /\ stage[c] = "terminating"
  /\ leader[c] = "running" \/ (leader[c] = "foreign" /\ helper[c] = "attached")
  /\ Signal(c, "TERM_SOME", "grace")
  /\ UNCHANGED <<leader, helper>>

(* process.wait(timeout=2): the leader, and only the leader, has exited.   *)
GraceReturns(c) ==
  /\ stage[c] = "grace"
  /\ Reaped(c)
  /\ Result(c, "TIMEOUT", TRUE)

(* Variant for a mutant: nothing follows the grace period.                 *)
GraceExpiresForGood(c) ==
  /\ stage[c] = "grace"
  /\ Result(c, "TIMEOUT", TRUE)
  /\ UNCHANGED native

GraceExpires(c) ==
  /\ stage[c] = "grace"
  /\ Goto(c, "killing")
  /\ UNCHANGED <<native, run, runtime, exec, faults>>

(* Variants for mutants: the leader alone is killed; SIGTERM again.        *)
KillLeader(c) ==
  /\ stage[c] = "killing" /\ leader[c] \in {"running", "zombie"}
  /\ leader' = [leader EXCEPT ![c] = IF @ = "running" THEN "killed" ELSE @]
  /\ Signal(c, "KILL", "reaping")
  /\ UNCHANGED helper

TermAgain(c) ==
  /\ stage[c] = "killing" /\ leader[c] \in {"running", "zombie"}
  /\ Signal(c, "TERM", "reaping")
  /\ UNCHANGED <<leader, helper>>

(* killpg(SIGKILL): no process of the group goes on, but each takes its    *)
(* time to be gone.                                                        *)
SendKill(c) ==
  /\ stage[c] = "killing" /\ leader[c] \in {"running", "zombie"}
  /\ leader' = [leader EXCEPT ![c] = IF @ = "running" THEN "killed" ELSE @]
  /\ helper' = [helper EXCEPT ![c] = IF @ = "attached" THEN "killed" ELSE @]
  /\ Signal(c, "KILL", "reaping")

(* killpg raises, and process.kill signals the leader alone; or the leader *)
(* runs under another user, and killpg reaches the others.                 *)
KillSome(c) ==
  /\ stage[c] = "killing"
  /\ \/ /\ leader[c] = "running"
        /\ leader' = [leader EXCEPT ![c] = "killed"]
        /\ UNCHANGED helper
     \/ /\ leader[c] = "foreign" /\ helper[c] = "attached"
        /\ helper' = [helper EXCEPT ![c] = "killed"]
        /\ UNCHANGED leader
  /\ Signal(c, "KILL_SOME", "reaping")

(* killpg raises, and process.terminate or process.kill, which poll first, *)
(* find that the leader has exited: the wait that follows returns at once. *)
FallbackFindsExit(c) ==
  /\ stage[c] \in {"terminating", "killing"}
  /\ leader[c] = "zombie"
  /\ leader' = [leader EXCEPT ![c] = "reaped"]
  /\ signals' = [signals EXCEPT ![c] =
                   @ \cup {IF stage[c] = "terminating" THEN "TERM_SOME" ELSE "KILL_SOME"}]
  /\ Result(c, "TIMEOUT", TRUE)
  /\ UNCHANGED helper

(* Nobody in the group may be signalled, nor the leader alone: the         *)
(* PermissionError of process.terminate or process.kill leaves             *)
(* run_adapter_job.                                                        *)
SignalRefused(c) ==
  /\ stage[c] \in {"terminating", "killing"}
  /\ leader[c] = "foreign"
  /\ End(c, "refused")
  /\ UNCHANGED <<native, run, runtime, faults>>

(* process.wait() without a timeout. *)
Reap(c) ==
  /\ stage[c] = "reaping"
  /\ Reaped(c)
  /\ Result(c, "TIMEOUT", TRUE)

(* runtime.json is written and run_native_launch returns.  A run that did  *)
(* not complete is a FAILED attempt.                                       *)
WriteRuntime(c) ==
  /\ stage[c] = "recording"
  /\ runtime' = [runtime EXCEPT ![c] = run[c].status]
  /\ IF run[c].status = "COMPLETED"
       THEN Goto(c, "parsing") /\ UNCHANGED exec
       ELSE End(c, "FAILED")
  /\ UNCHANGED <<native, run, faults>>

(* launch.json, before Popen, or runtime.json cannot be written: the error *)
(* leaves run_adapter_job.                                                 *)
WriteFails(c) ==
  /\ stage[c] \in {"launching", "recording"}
  /\ faults < MaxFaults
  /\ faults' = faults + 1
  /\ End(c, "raised")
  /\ UNCHANGED <<native, run, runtime>>

(* adapter.parse turns the native evidence into results, or raises.        *)
Parse(c) ==
  /\ stage[c] = "parsing"
  /\ \E how \in {"COMPLETED", "raised"} : End(c, how)
  /\ UNCHANGED <<native, run, runtime, faults>>

-----------------------------------------------------------------------------
(* The operating system and the native framework. *)

LeaderForks(c) ==
  /\ leader[c] \in {"running", "foreign"}
  /\ helper[c] = "none"
  /\ helper' = [helper EXCEPT ![c] = "attached"]
  /\ UNCHANGED <<eva, leader, signals>>

(* The command is, or executes, a program that sets its user id.           *)
LeaderChangesUser(c) ==
  /\ leader[c] = "running"
  /\ leader' = [leader EXCEPT ![c] = "foreign"]
  /\ UNCHANGED <<eva, helper, signals>>

LeaderExits(c) ==
  /\ leader[c] \in {"running", "foreign"}
  /\ leader' = [leader EXCEPT ![c] = "zombie"]
  /\ UNCHANGED <<eva, helper, signals>>

HelperExits(c) ==
  /\ helper[c] = "attached"
  /\ helper' = [helper EXCEPT ![c] = "none"]
  /\ UNCHANGED <<eva, leader, signals>>

(* A process that was sent a SIGKILL dies. *)
KilledDies(c) ==
  /\ \/ /\ leader[c] = "killed"
        /\ leader' = [leader EXCEPT ![c] = "zombie"]
        /\ UNCHANGED helper
     \/ /\ helper[c] = "killed"
        /\ helper' = [helper EXCEPT ![c] = "none"]
        /\ UNCHANGED leader
  /\ UNCHANGED <<eva, signals>>

(* The eva process with the worker threads of C dies; the native processes *)
(* have sessions of their own and go on.                                   *)
EvaDies(C) ==
  /\ \E c \in C : stage[c] \notin {"idle", "done", "lost"}
  /\ stage' = [c \in Launches |->
                 IF c \in C /\ stage[c] # "done" THEN "lost" ELSE stage[c]]
  /\ UNCHANGED <<native, run, runtime, exec, faults>>

-----------------------------------------------------------------------------
Thread(c) ==
  \/ Build(c) \/ BuildRaises(c) \/ Spawn(c) \/ PopenFails(c)
  \/ WaitReturns(c) \/ WaitTimesOut(c) \/ PollExited(c) \/ PollRunning(c)
  \/ SendTerm(c) \/ TermSome(c) \/ GraceReturns(c) \/ GraceExpires(c)
  \/ SendKill(c) \/ KillSome(c) \/ Reap(c)
  \/ FallbackFindsExit(c) \/ SignalRefused(c)
  \/ WriteRuntime(c) \/ WriteFails(c) \/ Parse(c)

System(c) ==
  \/ LeaderForks(c) \/ LeaderChangesUser(c) \/ LeaderExits(c)
  \/ HelperExits(c) \/ KilledDies(c)

Next ==
  \/ \E c \in Launches : Begin(c) \/ Thread(c) \/ System(c)
  \/ \E C \in SUBSET Launches : EvaDies(C)

Spec == Init /\ [][Next]_procVars

-----------------------------------------------------------------------------
(* run_adapter_job never comes back, on any path, while the command it     *)
(* started still runs or has not been reaped, unless eva was not permitted *)
(* to signal it.  Helpers may outlive the return; only after a SIGKILL to  *)
(* the whole group has each of them been killed, though it may not be gone *)
(* yet (process.py:85-111, 156-172).                                       *)
CommandEndedOnReturn ==
  \A c \in Launches : stage[c] = "done" =>
    /\ leader[c] \in {"none", "reaped"} \/ exec[c] = "refused"
    /\ "KILL" \in signals[c] => helper[c] # "attached"

(* What the evidence says of the end of the command is what happened:      *)
(* "terminated" exactly when eva set out to end it, although the command   *)
(* may exit by itself just when its time is over, and never for a          *)
(* completed or failed launch; and the status of the attempt agrees with that of its *)
(* runtime.json, which other code writes (process.py:86-109, 156-172,      *)
(* runner.py:45-64).                                                       *)
EvidenceTruthful ==
  \A c \in Launches :
    /\ run[c] # NoRun =>
         /\ run[c].terminated <=> signals[c] # {}
         /\ run[c].status # "TIMEOUT" => signals[c] = {}
         /\ run[c].status = "LAUNCH_FAILED" <=> leader[c] = "none"
    /\ exec[c] = "COMPLETED" /\ leader[c] # "none" => runtime[c] = "COMPLETED"
    /\ exec[c] = "FAILED" => runtime[c] \in {"TIMEOUT", "LAUNCH_FAILED"}
    /\ stage[c] = "done" /\ runtime[c] # "absent" => runtime[c] = run[c].status
=============================================================================
