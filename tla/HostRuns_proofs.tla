--------------------------- MODULE HostRuns_proofs ---------------------------
(***************************************************************************)
(* Proofs about NativeProcess and HostRuns for every number of launches,   *)
(* eva processes, slots, lock roots, crashes and faults, and every         *)
(* assignment of launches to processes and of slots to kinds.              *)
(***************************************************************************)
EXTENDS HostRuns, TLAPS

Unlaunched == {"idle", "building", "launching"}
Unsignalled == Unlaunched \cup {"waiting", "polling", "terminating"}
Undecided == Unsignalled \cup {"grace", "killing", "reaping"}
Stages == Undecided \cup {"recording", "parsing", "done", "lost"}

(* Every NativeRunResult that process.py can build: only an expired wait   *)
(* has signalled the command, and it has not always done so.               *)
RunResults ==
  { [status |-> "COMPLETED", terminated |-> FALSE],
    [status |-> "LAUNCH_FAILED", terminated |-> FALSE],
    [status |-> "TIMEOUT", terminated |-> FALSE],
    [status |-> "TIMEOUT", terminated |-> TRUE] }

Leaders == {"none", "running", "foreign", "killed", "zombie", "reaped"}
Signals == {"TERM", "TERM_SOME", "KILL", "KILL_SOME"}

ProcTypeOK ==
  /\ stage \in [Launches -> Stages]
  /\ leader \in [Launches -> Leaders]
  /\ helper \in [Launches -> {"none", "attached", "killed"}]
  /\ signals \in [Launches -> SUBSET Signals]
  /\ run \in [Launches -> RunResults \cup {NoRun}]
  /\ runtime \in [Launches -> {"absent", "COMPLETED", "LAUNCH_FAILED", "TIMEOUT"}]
  /\ exec \in [Launches -> {"none", "COMPLETED", "FAILED", "raised", "refused"}]
  /\ faults \in Nat

(* The leader at each stage of its worker, and what a SIGKILL to the whole *)
(* group leaves of it.                                                     *)
LeaderInv(c) ==
  /\ stage[c] \in Unlaunched => leader[c] = "none"
  /\ stage[c] \in Undecided \ Unlaunched =>
       leader[c] \in {"running", "foreign", "killed", "zombie"}
  /\ stage[c] \in {"recording", "parsing", "done"} =>
       \/ leader[c] \in {"none", "reaped"}
       \/ leader[c] \in {"foreign", "zombie"} /\ exec[c] = "refused"
  /\ leader[c] = "none" => helper[c] = "none"
  /\ "KILL" \in signals[c] => /\ leader[c] \in {"killed", "zombie", "reaped"}
                              /\ helper[c] # "attached"

(* What eva has sent at each stage.                                        *)
SignalInv(c) ==
  /\ stage[c] \in Unsignalled => signals[c] = {}
  /\ stage[c] \in Undecided \ Unsignalled => signals[c] # {}

(* The result, at each stage and against what happened.                    *)
RunInv(c) ==
  /\ stage[c] \in Undecided => run[c] = NoRun
  /\ stage[c] \in {"recording", "parsing"} => run[c] # NoRun
  /\ run[c] # NoRun =>
       /\ leader[c] \in {"none", "reaped"}
       /\ run[c].terminated <=> signals[c] # {}
       /\ run[c].status = "LAUNCH_FAILED" <=> leader[c] = "none"

(* runtime.json and the outcome of run_adapter_job.                        *)
RecordInv(c) ==
  /\ runtime[c] # "absent" => run[c] # NoRun /\ runtime[c] = run[c].status
  /\ stage[c] = "parsing" => runtime[c] = "COMPLETED"
  /\ stage[c] # "done" => exec[c] = "none"
  /\ exec[c] = "COMPLETED" /\ leader[c] # "none" => runtime[c] = "COMPLETED"
  /\ exec[c] = "FAILED" => runtime[c] \in {"TIMEOUT", "LAUNCH_FAILED"}

ProcInv(c) == LeaderInv(c) /\ SignalInv(c) /\ RunInv(c) /\ RecordInv(c)

ProcIInv == ProcTypeOK /\ \A c \in Launches : ProcInv(c)

(* The worker holds what its command was started with until it has come    *)
(* back or its process was killed, and no slot is held twice under one     *)
(* lock root.                                                              *)
LeaseInv ==
  /\ leases \in [Launches -> SUBSET Slots]
  /\ grants \in [Launches -> SUBSET Slots]
  /\ crashes \in Nat
  /\ \A c \in Launches : stage[c] \notin {"idle", "done", "lost"} => leases[c] = grants[c]
  /\ \A c, d \in Launches : c # d /\ SameRoot(c, d) => leases[c] \cap leases[d] = {}

HostIInv == ProcIInv /\ LeaseInv

-----------------------------------------------------------------------------
(* What the worker reads back from the result it has just built            *)
(* (process.py:86-109).                                                    *)
LEMMA ResultFields ==
  ASSUME NEW r, r \in RunResults
  PROVE  /\ r # NoRun
         /\ r.status \in {"COMPLETED", "LAUNCH_FAILED", "TIMEOUT"}
         /\ r.terminated => r.status = "TIMEOUT"
<1>1. CASE r = [status |-> "COMPLETED", terminated |-> FALSE]
  BY <1>1 DEF NoRun
<1>2. CASE r = [status |-> "LAUNCH_FAILED", terminated |-> FALSE]
  BY <1>2 DEF NoRun
<1>3. CASE r = [status |-> "TIMEOUT", terminated |-> FALSE]
  BY <1>3 DEF NoRun
<1>4. CASE r = [status |-> "TIMEOUT", terminated |-> TRUE]
  BY <1>4 DEF NoRun
<1>5. QED
  BY <1>1, <1>2, <1>3, <1>4 DEF RunResults

(* A worker that gets a result goes on to record it: nothing else has      *)
(* changed for any launch but, for this one, whether its leader is reaped  *)
(* and, if it was by the fallback, what eva set out to send.               *)
LEMMA ResultStep ==
  ASSUME ProcIInv, NEW c \in Launches, NEW s, NEW t \in BOOLEAN,
         Result(c, s, t), [status |-> s, terminated |-> t] \in RunResults,
         UNCHANGED helper,
         stage[c] \in Undecided,
         leader' \in [Launches -> Leaders],
         signals' \in [Launches -> SUBSET Signals],
         \A d \in Launches \ {c} : leader'[d] = leader[d] /\ signals'[d] = signals[d],
         "KILL" \in signals'[c] => "KILL" \in signals[c],
         \/ s = "LAUNCH_FAILED" /\ stage[c] = "launching" /\ leader'[c] = leader[c]
         \/ s # "LAUNCH_FAILED" /\ leader[c] = "zombie" /\ leader'[c] = "reaped",
         t <=> signals'[c] # {}
  PROVE  ProcIInv'
<1> USE DEF ProcIInv
<1>1. /\ stage' = [stage EXCEPT ![c] = "recording"]
      /\ run' = [run EXCEPT ![c] = [status |-> s, terminated |-> t]]
      /\ UNCHANGED <<runtime, exec, faults, helper>>
  BY DEF Result, Goto
<1>2. ProcTypeOK'
  BY <1>1 DEF ProcTypeOK, Stages
<1>3. /\ run'[c] = [status |-> s, terminated |-> t]
      /\ stage'[c] = "recording"
      /\ \A d \in Launches \ {c} : run'[d] = run[d] /\ stage'[d] = stage[d]
  BY <1>1 DEF ProcTypeOK
<1>4. /\ run'[c] # NoRun
      /\ run'[c].status = s
      /\ run'[c].terminated <=> t
  <2>1. run'[c] \in RunResults
    BY <1>3
  <2>2. QED
    BY <1>3, <2>1, ResultFields
<1>5. runtime[c] = "absent" /\ exec[c] = "none"
  <2>1. run[c] = NoRun /\ stage[c] # "done"
    BY DEF ProcInv, RunInv, Undecided, Unsignalled, Unlaunched
  <2>2. QED
    BY <2>1 DEF ProcInv, RecordInv
<1>6. ProcInv(c)'
  <2>1. LeaderInv(c)'
    BY <1>1, <1>2, <1>3 DEF ProcInv, LeaderInv, Undecided, Unsignalled, Unlaunched
  <2>2. SignalInv(c)'
    BY <1>3 DEF SignalInv, Undecided, Unsignalled, Unlaunched
  <2>3. RunInv(c)'
    <3>1. s = "LAUNCH_FAILED" <=> leader'[c] = "none"
      BY DEF ProcInv, LeaderInv, Unlaunched
    <3>2. leader'[c] \in {"none", "reaped"}
      BY DEF ProcInv, LeaderInv, Unlaunched
    <3>3. QED
      BY <1>3, <1>4, <3>1, <3>2 DEF RunInv, Undecided, Unsignalled, Unlaunched
  <2>4. RecordInv(c)'
    BY <1>1, <1>3, <1>5 DEF RecordInv
  <2>5. QED
    BY <2>1, <2>2, <2>3, <2>4 DEF ProcInv
<1>7. ASSUME NEW d \in Launches \ {c} PROVE ProcInv(d)'
  BY <1>1, <1>3 DEF ProcInv, LeaderInv, SignalInv, RunInv, RecordInv
<1>8. QED
  BY <1>2, <1>6, <1>7

-----------------------------------------------------------------------------
(* The worker gets its result from Popen, from a wait, from the poll or    *)
(* from the fallback (process.py:71-111, 159-172).                         *)
LEMMA EndOfCommand ==
  ASSUME ProcIInv, NEW c \in Launches,
         \/ WaitReturns(c) \/ PopenFails(c) \/ PollExited(c) \/ GraceReturns(c) \/ Reap(c)
         \/ FallbackFindsExit(c)
  PROVE  ProcIInv'
<1>1. Reaped(c) => /\ leader[c] = "zombie" /\ leader'[c] = "reaped"
                   /\ leader' \in [Launches -> Leaders]
                   /\ \A d \in Launches \ {c} : leader'[d] = leader[d]
                   /\ UNCHANGED <<helper, signals>>
  BY DEF Reaped, ProcIInv, ProcTypeOK, Leaders
<1>2. /\ SignalInv(c)
      /\ leader \in [Launches -> Leaders]
      /\ signals \in [Launches -> SUBSET Signals]
  BY DEF ProcIInv, ProcInv, ProcTypeOK
<1> USE DEF RunResults, SignalInv, Undecided, Unsignalled, Unlaunched
<1>3. CASE WaitReturns(c)
  <2>1. signals[c] = {} /\ stage[c] \in Undecided
    BY <1>2, <1>3 DEF WaitReturns
  <2>2. QED
    BY <1>1, <1>2, <1>3, <2>1, ResultStep, Zenon DEF WaitReturns
<1>4. CASE PollExited(c)
  <2>1. signals[c] = {} /\ stage[c] \in Undecided
    BY <1>2, <1>4 DEF PollExited
  <2>2. QED
    BY <1>1, <1>2, <1>4, <2>1, ResultStep, Zenon DEF PollExited
<1>5. CASE GraceReturns(c)
  <2>1. signals[c] # {} /\ stage[c] \in Undecided
    BY <1>2, <1>5 DEF GraceReturns
  <2>2. QED
    BY <1>1, <1>2, <1>5, <2>1, ResultStep, Zenon DEF GraceReturns
<1>6. CASE Reap(c)
  <2>1. signals[c] # {} /\ stage[c] \in Undecided
    BY <1>2, <1>6 DEF Reap
  <2>2. QED
    BY <1>1, <1>2, <1>6, <2>1, ResultStep, Zenon DEF Reap
<1>7. CASE PopenFails(c)
  <2>1. signals[c] = {} /\ stage[c] \in Undecided /\ stage[c] = "launching"
    BY <1>2, <1>7 DEF PopenFails
  <2>2. UNCHANGED <<leader, helper, signals>>
    BY <1>7 DEF PopenFails, native
  <2>3. Result(c, "LAUNCH_FAILED", FALSE)
    BY <1>7 DEF PopenFails
  <2>4. QED
    BY <1>2, <2>1, <2>2, <2>3, ResultStep, Zenon
<1>8. CASE FallbackFindsExit(c)
  <2>1. /\ leader[c] = "zombie" /\ leader'[c] = "reaped"
        /\ leader' \in [Launches -> Leaders]
        /\ \A d \in Launches \ {c} : leader'[d] = leader[d]
    BY <1>2, <1>8 DEF FallbackFindsExit, Leaders
  <2>2. /\ signals' \in [Launches -> SUBSET Signals]
        /\ \A d \in Launches \ {c} : signals'[d] = signals[d]
        /\ "KILL" \in signals'[c] => "KILL" \in signals[c]
        /\ signals'[c] # {}
    <3> DEFINE sent == IF stage[c] = "terminating" THEN "TERM_SOME" ELSE "KILL_SOME"
    <3>1. signals' = [signals EXCEPT ![c] = @ \cup {sent}]
      BY <1>8 DEF FallbackFindsExit
    <3>2. sent \in Signals /\ sent # "KILL"
      BY DEF Signals
    <3> HIDE DEF sent
    <3>3. QED
      BY <1>2, <3>1, <3>2
  <2>3. stage[c] \in Undecided /\ Result(c, "TIMEOUT", TRUE) /\ UNCHANGED helper
    BY <1>8 DEF FallbackFindsExit
  <2>4. QED
    BY <2>1, <2>2, <2>3, ResultStep, Zenon
<1>9. QED
  BY <1>3, <1>4, <1>5, <1>6, <1>7, <1>8

(* Steps that only move the worker on, and the steps that start and signal *)
(* the command (runner.py:45-64, process.py:71-75, 159-172).               *)
LEMMA OnTheWay ==
  ASSUME ProcIInv, NEW c \in Launches,
         \/ Begin(c) \/ Build(c) \/ WaitTimesOut(c) \/ PollRunning(c) \/ GraceExpires(c)
         \/ Spawn(c) \/ SendTerm(c) \/ TermSome(c) \/ SendKill(c) \/ KillSome(c)
  PROVE  ProcIInv'
<1> USE DEF ProcIInv, Undecided, Unsignalled, Unlaunched, Goto
<1>1. CASE Begin(c) \/ Build(c) \/ WaitTimesOut(c) \/ PollRunning(c) \/ GraceExpires(c)
  <2>1. ProcTypeOK'
    BY <1>1 DEF Begin, Build, WaitTimesOut, PollRunning, GraceExpires, native, ProcTypeOK, Stages
  <2>2. ASSUME NEW d \in Launches PROVE ProcInv(d)'
    BY <1>1, <2>1 DEF Begin, Build, WaitTimesOut, PollRunning, GraceExpires, native, ProcTypeOK,
                      ProcInv, LeaderInv, SignalInv, RunInv, RecordInv
  <2>3. QED
    BY <2>1, <2>2
<1>2. CASE Spawn(c)
  <2>1. ProcTypeOK'
    BY <1>2 DEF Spawn, ProcTypeOK, Stages, Leaders
  <2>2. ASSUME NEW d \in Launches PROVE ProcInv(d)'
    BY <1>2, <2>1 DEF Spawn, ProcTypeOK, ProcInv, LeaderInv, SignalInv, RunInv,
                      RecordInv
  <2>3. QED
    BY <2>1, <2>2
<1>3. CASE SendTerm(c)
  <2>1. ProcTypeOK'
    BY <1>3 DEF SendTerm, Signal, Signals, ProcTypeOK, Stages, Leaders
  <2>2. ASSUME NEW d \in Launches PROVE ProcInv(d)'
    BY <1>3, <2>1 DEF SendTerm, Signal, ProcTypeOK, ProcInv, LeaderInv, SignalInv, RunInv,
                      RecordInv
  <2>3. QED
    BY <2>1, <2>2
<1>4. CASE TermSome(c)
  <2>1. ProcTypeOK'
    BY <1>4 DEF TermSome, Signal, Signals, ProcTypeOK, Stages, Leaders
  <2>2. ASSUME NEW d \in Launches PROVE ProcInv(d)'
    BY <1>4, <2>1 DEF TermSome, Signal, ProcTypeOK, ProcInv, LeaderInv, SignalInv, RunInv,
                      RecordInv
  <2>3. QED
    BY <2>1, <2>2
<1>5. CASE SendKill(c)
  <2>1. ProcTypeOK'
    BY <1>5 DEF SendKill, Signal, Signals, ProcTypeOK, Stages, Leaders
  <2>2. ASSUME NEW d \in Launches PROVE ProcInv(d)'
    BY <1>5, <2>1 DEF SendKill, Signal, ProcTypeOK, ProcInv, LeaderInv, SignalInv, RunInv,
                      RecordInv
  <2>3. QED
    BY <2>1, <2>2
<1>6. CASE KillSome(c)
  <2>1. ProcTypeOK'
    BY <1>6 DEF KillSome, Signal, Signals, ProcTypeOK, Stages, Leaders
  <2>2. ASSUME NEW d \in Launches PROVE ProcInv(d)'
    BY <1>6, <2>1 DEF KillSome, Signal, ProcTypeOK, ProcInv, LeaderInv, SignalInv, RunInv,
                      RecordInv
  <2>3. QED
    BY <2>1, <2>2
<1>7. QED
  BY <1>1, <1>2, <1>3, <1>4, <1>5, <1>6

(* Steps that end run_adapter_job or record the result (runner.py:45-73,   *)
(* process.py:111, 161-170).                                               *)
LEMMA EndOfJob ==
  ASSUME ProcIInv, NEW c \in Launches,
         \/ BuildRaises(c) \/ WriteRuntime(c) \/ WriteFails(c) \/ Parse(c)
         \/ SignalRefused(c)
  PROVE  ProcIInv'
<1> USE DEF ProcIInv, Undecided, Unsignalled, Unlaunched, Goto, End, native
<1>1. CASE BuildRaises(c)
  <2>1. ProcTypeOK'
    BY <1>1 DEF BuildRaises, ProcTypeOK, Stages
  <2>2. ASSUME NEW d \in Launches PROVE ProcInv(d)'
    BY <1>1, <2>1 DEF BuildRaises, ProcTypeOK, ProcInv, LeaderInv, SignalInv, RunInv, RecordInv
  <2>3. QED
    BY <2>1, <2>2
<1>2. CASE WriteRuntime(c)
  <2>1. ProcTypeOK'
    BY <1>2 DEF WriteRuntime, ProcTypeOK, Stages, ProcInv, RunInv, RunResults, NoRun
  <2>2. ASSUME NEW d \in Launches PROVE ProcInv(d)'
    BY <1>2, <2>1 DEF WriteRuntime, ProcTypeOK, ProcInv, LeaderInv, SignalInv, RunInv, RecordInv,
                      RunResults, NoRun
  <2>3. QED
    BY <2>1, <2>2
<1>3. CASE WriteFails(c)
  <2>1. ProcTypeOK'
    BY <1>3 DEF WriteFails, ProcTypeOK, Stages
  <2>2. ASSUME NEW d \in Launches PROVE ProcInv(d)'
    BY <1>3, <2>1 DEF WriteFails, ProcTypeOK, ProcInv, LeaderInv, SignalInv, RunInv, RecordInv
  <2>3. QED
    BY <2>1, <2>2
<1>4. CASE Parse(c)
  <2>1. ProcTypeOK'
    BY <1>4 DEF Parse, ProcTypeOK, Stages
  <2>2. ASSUME NEW d \in Launches PROVE ProcInv(d)'
    BY <1>4, <2>1 DEF Parse, ProcTypeOK, ProcInv, LeaderInv, SignalInv, RunInv, RecordInv
  <2>3. QED
    BY <2>1, <2>2
<1>5. CASE SignalRefused(c)
  <2>1. ProcTypeOK'
    BY <1>5 DEF SignalRefused, ProcTypeOK, Stages
  <2>2. ASSUME NEW d \in Launches PROVE ProcInv(d)'
    BY <1>5, <2>1 DEF SignalRefused, ProcTypeOK, ProcInv, LeaderInv, SignalInv, RunInv, RecordInv
  <2>3. QED
    BY <2>1, <2>2
<1>6. QED
  BY <1>1, <1>2, <1>3, <1>4, <1>5

(* What the command and its helpers do by themselves, and the death of an  *)
(* eva process, which stops its workers wherever they are (process.py:71). *)
LEMMA OutsideSteps ==
  ASSUME ProcIInv,
         \/ \E c \in Launches : System(c)
         \/ \E C \in SUBSET Launches : EvaDies(C)
  PROVE  ProcIInv'
<1> USE DEF ProcIInv, Undecided, Unsignalled, Unlaunched, eva, native
<1>1. ASSUME NEW c \in Launches, LeaderForks(c) PROVE ProcIInv'
  <2>1. ProcTypeOK'
    BY <1>1 DEF LeaderForks, ProcTypeOK, Stages, Leaders
  <2>2. ASSUME NEW d \in Launches PROVE ProcInv(d)'
    BY <1>1, <2>1 DEF LeaderForks, ProcTypeOK, ProcInv, LeaderInv, SignalInv, RunInv, RecordInv
  <2>3. QED
    BY <2>1, <2>2
<1>2. ASSUME NEW c \in Launches, LeaderChangesUser(c) PROVE ProcIInv'
  <2>1. ProcTypeOK'
    BY <1>2 DEF LeaderChangesUser, ProcTypeOK, Stages, Leaders
  <2>2. ASSUME NEW d \in Launches PROVE ProcInv(d)'
    BY <1>2, <2>1 DEF LeaderChangesUser, ProcTypeOK, ProcInv, LeaderInv, SignalInv, RunInv, RecordInv
  <2>3. QED
    BY <2>1, <2>2
<1>3. ASSUME NEW c \in Launches, LeaderExits(c) PROVE ProcIInv'
  <2>1. ProcTypeOK'
    BY <1>3 DEF LeaderExits, ProcTypeOK, Stages, Leaders
  <2>2. ASSUME NEW d \in Launches PROVE ProcInv(d)'
    BY <1>3, <2>1 DEF LeaderExits, ProcTypeOK, ProcInv, LeaderInv, SignalInv, RunInv, RecordInv
  <2>3. QED
    BY <2>1, <2>2
<1>4. ASSUME NEW c \in Launches, HelperExits(c) PROVE ProcIInv'
  <2>1. ProcTypeOK'
    BY <1>4 DEF HelperExits, ProcTypeOK, Stages, Leaders
  <2>2. ASSUME NEW d \in Launches PROVE ProcInv(d)'
    BY <1>4, <2>1 DEF HelperExits, ProcTypeOK, ProcInv, LeaderInv, SignalInv, RunInv, RecordInv
  <2>3. QED
    BY <2>1, <2>2
<1>5. ASSUME NEW c \in Launches, KilledDies(c) PROVE ProcIInv'
  <2>1. ProcTypeOK'
    BY <1>5 DEF KilledDies, ProcTypeOK, Stages, Leaders
  <2>2. ASSUME NEW d \in Launches PROVE ProcInv(d)'
    BY <1>5, <2>1 DEF KilledDies, ProcTypeOK, ProcInv, LeaderInv, SignalInv, RunInv, RecordInv
  <2>3. QED
    BY <2>1, <2>2
<1>6. ASSUME NEW C \in SUBSET Launches, EvaDies(C) PROVE ProcIInv'
  <2>1. ProcTypeOK'
    BY <1>6 DEF EvaDies, ProcTypeOK, Stages
  <2>2. ASSUME NEW d \in Launches PROVE ProcInv(d)'
    BY <1>6, <2>1 DEF EvaDies, ProcTypeOK, ProcInv, LeaderInv, SignalInv, RunInv, RecordInv
  <2>3. QED
    BY <2>1, <2>2
<1>7. QED
  BY <1>1, <1>2, <1>3, <1>4, <1>5, <1>6 DEF System

LEMMA ProcInit ==
  Init => ProcIInv
BY DEF Init, ProcIInv, ProcTypeOK, Stages, Leaders, Undecided, Unsignalled, Unlaunched, NoRun,
       ProcInv, LeaderInv, SignalInv, RunInv, RecordInv

LEMMA ProcStep ==
  ProcIInv /\ [Next]_procVars => ProcIInv'
<1> SUFFICES ASSUME ProcIInv, [Next]_procVars
             PROVE  ProcIInv'
  OBVIOUS
<1>1. CASE Next
  BY <1>1, EndOfCommand, OnTheWay, EndOfJob, OutsideSteps DEF Next, Thread
<1>2. CASE UNCHANGED procVars
  BY <1>2 DEF procVars, ProcIInv, ProcTypeOK, ProcInv, LeaderInv, SignalInv, RunInv, RecordInv
<1>3. QED
  BY <1>1, <1>2

LEMMA ProcInvImplies ==
  ProcIInv => CommandEndedOnReturn /\ EvidenceTruthful
<1> SUFFICES ASSUME ProcIInv
             PROVE  CommandEndedOnReturn /\ EvidenceTruthful
  OBVIOUS
<1>1. CommandEndedOnReturn
  BY DEF ProcIInv, ProcInv, LeaderInv, CommandEndedOnReturn
<1>2. ASSUME NEW c \in Launches, run[c] # NoRun
      PROVE  /\ run[c].terminated <=> signals[c] # {}
             /\ run[c].status # "TIMEOUT" => signals[c] = {}
             /\ run[c].status = "LAUNCH_FAILED" <=> leader[c] = "none"
  <2>1. run[c] \in RunResults
    BY <1>2 DEF ProcIInv, ProcTypeOK
  <2>2. run[c].terminated => run[c].status = "TIMEOUT"
    BY <2>1, ResultFields
  <2>3. QED
    BY <1>2, <2>2 DEF ProcIInv, ProcInv, RunInv
<1>3. EvidenceTruthful
  BY <1>2 DEF ProcIInv, ProcInv, RecordInv, EvidenceTruthful
<1>4. QED
  BY <1>1, <1>3

(* On every path, a timeout, a failed launch, a failed write and the       *)
(* fallback to signalling the leader alone included, run_adapter_job comes *)
(* back only when its command has been reaped, unless it was not permitted *)
(* to signal it; and a SIGKILL to the whole group has by then reached each *)
(* helper in it, though not all of them need be gone (process.py:85-111,   *)
(* 156-172).                                                               *)
THEOREM NativeReturn ==
  Spec => []CommandEndedOnReturn
BY ProcInit, ProcStep, ProcInvImplies, PTL DEF Spec

(* The recorded end of a command is what happened to it                    *)
(* (process.py:86-109, 156-172, runner.py:45-64).                          *)
THEOREM NativeEvidence ==
  Spec => []EvidenceTruthful
BY ProcInit, ProcStep, ProcInvImplies, PTL DEF Spec

-----------------------------------------------------------------------------
(* A host only adds leases to the native commands: seen without them, each *)
(* of its steps is a step of NativeProcess or none.                        *)
LEMMA HostStepIsProcStep ==
  [HostNext]_allVars => [Next]_procVars
<1> SUFFICES ASSUME [HostNext]_allVars
             PROVE  [Next]_procVars
  OBVIOUS
<1>1. ASSUME NEW c \in Launches, LeaseAndBegin(c) PROVE Next
  BY <1>1 DEF LeaseAndBegin, Next
<1>2. ASSUME NEW c \in Launches, ReleaseSlot(c) PROVE UNCHANGED procVars
  BY <1>2 DEF ReleaseSlot
<1>3. ASSUME NEW c \in Launches, Thread(c) \/ System(c) PROVE Next
  BY <1>3 DEF Next
<1>4. ASSUME NEW p \in EvaProcs, ProcessDies(p) PROVE Next
  <2>1. {c \in Launches : ProcOf[c] = p} \in SUBSET Launches
    OBVIOUS
  <2>2. QED
    BY <1>4, <2>1 DEF ProcessDies, Next
<1>5. CASE UNCHANGED allVars
  BY <1>5 DEF allVars
<1>6. QED
  BY <1>1, <1>2, <1>3, <1>4, <1>5 DEF HostNext

(* Everything that holds of native commands by themselves holds of those   *)
(* that run under leases.                                                  *)
THEOREM HostImplementsNative ==
  HostSpec => Spec
<1>1. HostInit => Init
  BY DEF HostInit
<1>2. QED
  BY <1>1, HostStepIsProcStep, PTL DEF HostSpec, Spec

-----------------------------------------------------------------------------
(* A worker that runs, or its command, begins no launch and goes on with   *)
(* none that is over or lost: only LeaseAndBegin leaves "idle".            *)
LEMMA ThreadStages ==
  ASSUME ProcIInv, NEW c \in Launches, Thread(c) \/ System(c)
  PROVE  \A d \in Launches :
           stage'[d] \notin {"idle", "done", "lost"} => stage[d] \notin {"idle", "done", "lost"}
<1> USE DEF ProcIInv, ProcTypeOK, Goto
<1>1. CASE System(c)
  BY <1>1 DEF System, LeaderForks, LeaderChangesUser, LeaderExits, HelperExits, KilledDies, eva
<1>2. CASE Build(c) \/ BuildRaises(c) \/ Spawn(c) \/ PopenFails(c)
  BY <1>2 DEF Build, BuildRaises, Spawn, PopenFails, End, Result
<1>3. CASE WaitReturns(c) \/ WaitTimesOut(c) \/ PollExited(c) \/ PollRunning(c)
  BY <1>3 DEF WaitReturns, WaitTimesOut, PollExited, PollRunning, Result
<1>4. CASE SendTerm(c) \/ TermSome(c) \/ SendKill(c) \/ KillSome(c)
  BY <1>4 DEF SendTerm, TermSome, SendKill, KillSome, Signal
<1>5. CASE GraceReturns(c) \/ GraceExpires(c) \/ Reap(c) \/ FallbackFindsExit(c)
  BY <1>5 DEF GraceReturns, GraceExpires, Reap, FallbackFindsExit, Result
<1>6. CASE WriteRuntime(c) \/ WriteFails(c) \/ Parse(c) \/ SignalRefused(c)
  BY <1>6 DEF WriteRuntime, WriteFails, Parse, SignalRefused, End
<1>7. QED
  BY <1>1, <1>2, <1>3, <1>4, <1>5, <1>6 DEF Thread

LEMMA HostInitial ==
  HostInit => HostIInv
<1> SUFFICES ASSUME HostInit
             PROVE  HostIInv
  OBVIOUS
<1>1. ProcIInv
  BY ProcInit DEF HostInit
<1>2. LeaseInv
  BY DEF HostInit, Init, LeaseInv
<1>3. QED
  BY <1>1, <1>2 DEF HostIInv

LEMMA LeaseStep ==
  ASSUME HostIInv, [HostNext]_allVars
  PROVE  LeaseInv'
<1> USE DEF HostIInv, LeaseInv
<1>1. stage \in [Launches -> Stages]
  BY DEF ProcIInv, ProcTypeOK
<1>2. ASSUME NEW c \in Launches, LeaseAndBegin(c) PROVE LeaseInv'
  <2>1. PICK S \in SUBSET Slots :
          /\ \A d \in Launches \ {c} : SameRoot(c, d) => S \cap leases[d] = {}
          /\ leases' = [leases EXCEPT ![c] = S]
          /\ grants' = [grants EXCEPT ![c] = S]
    BY <1>2 DEF LeaseAndBegin
  <2>2. root' = root /\ crashes' = crashes
    BY <1>2 DEF LeaseAndBegin
  <2>3. stage' = [stage EXCEPT ![c] = "building"]
    BY <1>2 DEF LeaseAndBegin, Begin, Goto
  <2>4. \A d, e \in Launches : d # e /\ SameRoot(d, e)' => leases'[d] \cap leases'[e] = {}
    <3>1. \A d, e \in Launches : SameRoot(d, e)' => SameRoot(d, e) /\ SameRoot(e, d)
      BY <2>2 DEF SameRoot
    <3>2. QED
      BY <2>1, <3>1
  <2>5. \A d \in Launches :
          stage'[d] \notin {"idle", "done", "lost"} => leases'[d] = grants'[d]
    BY <1>1, <2>1, <2>3
  <2>6. QED
    BY <1>1, <2>1, <2>2, <2>4, <2>5
<1>3. ASSUME NEW c \in Launches, ReleaseSlot(c) PROVE LeaseInv'
  <2>1. PICK s \in leases[c] : leases' = [leases EXCEPT ![c] = @ \ {s}]
    BY <1>3 DEF ReleaseSlot
  <2>2. UNCHANGED <<stage, root, grants, crashes>> /\ stage[c] = "done"
    BY <1>3 DEF ReleaseSlot, procVars
  <2>3. \A d \in Launches : leases'[d] \subseteq leases[d]
    BY <2>1
  <2>4. QED
    BY <2>1, <2>2, <2>3 DEF SameRoot
<1>4. ASSUME NEW c \in Launches, Thread(c) \/ System(c), UNCHANGED hostVars PROVE LeaseInv'
  BY <1>4, ThreadStages DEF hostVars, SameRoot
<1>5. ASSUME NEW p \in EvaProcs, ProcessDies(p) PROVE LeaseInv'
  <2>1. \A d \in Launches :
          stage'[d] = IF ProcOf[d] = p /\ stage[d] # "done" THEN "lost" ELSE stage[d]
    BY <1>5 DEF ProcessDies, EvaDies
  <2>2. \A d \in Launches : leases'[d] = IF ProcOf[d] = p THEN {} ELSE leases[d]
    BY <1>5 DEF ProcessDies
  <2>3. leases' \in [Launches -> SUBSET Slots] /\ UNCHANGED <<root, grants>>
    BY <1>5 DEF ProcessDies
  <2>4. crashes' \in Nat
    BY <1>5 DEF ProcessDies
  <2>5. QED
    BY <2>1, <2>2, <2>3, <2>4 DEF SameRoot
<1>6. CASE UNCHANGED allVars
  BY <1>6 DEF allVars, procVars, hostVars, SameRoot
<1>7. QED
  BY <1>2, <1>3, <1>4, <1>5, <1>6 DEF HostNext

LEMMA HostInvariant ==
  HostSpec => []HostIInv
<1>1. HostIInv /\ [HostNext]_allVars => HostIInv'
  BY LeaseStep, ProcStep, HostStepIsProcStep DEF HostIInv
<1>2. QED
  BY HostInitial, <1>1, PTL DEF HostSpec

(* A command that runs and is in hand holds the slots it was started with. *)
LEMMA InHandIsCovered ==
  ASSUME HostIInv, NEW c \in Launches, Alive(c), InHand(c)
  PROVE  leases[c] = grants[c]
<1>1. stage[c] \notin {"idle", "done", "lost"}
  BY DEF HostIInv, ProcIInv, ProcInv, LeaderInv, Alive, InHand, Unlaunched
<1>2. QED
  BY <1>1 DEF HostIInv, LeaseInv

(* However its launch goes and whatever happens to other processes, a      *)
(* command runs under the lease it was started with until it is out of     *)
(* hand, by the death of its own eva process or a change of its user       *)
(* (process.py:71, scheduler.py:103-140).                                  *)
THEOREM LeaseCoversCommand ==
  HostSpec => []CoveredByLease
<1>1. HostIInv => CoveredByLease
  BY InHandIsCovered DEF CoveredByLease
<1>2. QED
  BY <1>1, HostInvariant, PTL

(* For eva processes of one lock root, and only for those, no slot is in   *)
(* use by two native commands at once, unless one of the two is out of     *)
(* hand (scheduler.py:103-140, process.py:85-111, cli.py:121).             *)
THEOREM SlotsUsedOnce ==
  HostSpec => []OneCommandPerSlot
<1>1. HostIInv => OneCommandPerSlot
  <2> SUFFICES ASSUME HostIInv, NEW c \in Launches, NEW d \in Launches, c # d,
                      Alive(c), Alive(d), InHand(c), InHand(d), SameRoot(c, d)
               PROVE  grants[c] \cap grants[d] = {}
    BY DEF OneCommandPerSlot
  <2>1. leases[c] = grants[c] /\ leases[d] = grants[d]
    BY InHandIsCovered
  <2>2. QED
    BY <2>1 DEF HostIInv, LeaseInv
<1>2. QED
  BY <1>1, HostInvariant, PTL
=============================================================================
