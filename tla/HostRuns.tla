------------------------------ MODULE HostRuns ------------------------------
(***************************************************************************)
(* The workers of several eva processes on one host, from the lease to its *)
(* release: each leases its slots (SlotTable, which ResourceAllocator      *)
(* implements for the clients of one lock root), runs a native command on  *)
(* them (NativeProcess) and gives the slots back in the finally clause of  *)
(* _run_one.  Processes with different lock roots, as two runs have by     *)
(* default, do not see each other's leases.                                *)
(***************************************************************************)
EXTENDS NativeProcess, FiniteSets

CONSTANTS
  EvaProcs,      \* eva processes
  ProcOf,        \* ProcOf[c]: the process whose worker runs launch c
  LockRoots,     \* how lock roots may be given to the processes: functions
                 \* from EvaProcs to directories
  Slots,         \* slots of the host
  KindOf,        \* KindOf[s]: the kind of slot s
  Need,          \* Need[c][k]: slots of kind k that the job of c needs
  MaxCrashes     \* bound: eva processes killed

VARIABLES
  root,        \* root[p]: the lock root p was started with: --lock-root, or
               \* a directory inside its run directory
  leases,      \* leases[c]: the slots that are locked for c
  grants,      \* grants[c]: the slots the native command of c was started with
  crashes      \* number of eva processes killed

hostVars == <<root, leases, grants, crashes>>
allVars == <<procVars, hostVars>>

Table == INSTANCE SlotTable WITH Clients <- Launches

SameRoot(c, d) == root[ProcOf[c]] = root[ProcOf[d]]

HostInit ==
  /\ Init
  /\ root \in LockRoots
  /\ leases = [c \in Launches |-> {}]
  /\ grants = [c \in Launches |-> {}]
  /\ crashes = 0

(* allocate returns a lease of slots that nobody has locked under the same *)
(* root; its grants are given to the runner.                               *)
LeaseAndBegin(c) ==
  /\ Begin(c)
  /\ \E S \in SUBSET Slots :
       /\ Table!Satisfies(c, S)
       /\ \A d \in Launches \ {c} : SameRoot(c, d) => S \cap leases[d] = {}
       /\ leases' = [leases EXCEPT ![c] = S]
       /\ grants' = [grants EXCEPT ![c] = S]
  /\ UNCHANGED <<root, crashes>>

(* Variant for a mutant: slots are given back as soon as the command has   *)
(* been started.                                                           *)
ReleaseAtSpawn(c) ==
  /\ stage[c] \notin {"idle", "building", "launching"}
  /\ \E s \in leases[c] : leases' = [leases EXCEPT ![c] = @ \ {s}]
  /\ UNCHANGED <<procVars, root, grants, crashes>>

(* finally: lease.release(), slot by slot. *)
ReleaseSlot(c) ==
  /\ stage[c] = "done"
  /\ \E s \in leases[c] : leases' = [leases EXCEPT ![c] = @ \ {s}]
  /\ UNCHANGED <<procVars, root, grants, crashes>>

(* An eva process is killed: its locks are dropped, its commands go on.    *)
ProcessDies(p) ==
  /\ crashes < MaxCrashes
  /\ crashes' = crashes + 1
  /\ EvaDies({c \in Launches : ProcOf[c] = p})
  /\ leases' = [c \in Launches |-> IF ProcOf[c] = p THEN {} ELSE leases[c]]
  /\ UNCHANGED <<root, grants>>

HostNext ==
  \/ \E c \in Launches :
       \/ LeaseAndBegin(c) \/ ReleaseSlot(c)
       \/ (Thread(c) \/ System(c)) /\ UNCHANGED hostVars
  \/ \E p \in EvaProcs : ProcessDies(p)

HostSpec == HostInit /\ [][HostNext]_allVars

(* Worker threads are scheduled, timed waits end, release does not block,  *)
(* and a SIGKILL kills.  Nothing else is assumed of the native processes:  *)
(* they may run, and ignore SIGTERM, forever.                              *)
HostFairSpec ==
  /\ HostSpec
  /\ \A c \in Launches : WF_allVars(Thread(c) /\ UNCHANGED hostVars)
  /\ \A c \in Launches : WF_allVars(ReleaseSlot(c))
  /\ \A c \in Launches : WF_allVars(KilledDies(c) /\ UNCHANGED hostVars)

-----------------------------------------------------------------------------
(* The native command of c is using the slots it was started with.         *)
Alive(c) == leader[c] \in {"running", "foreign", "killed"}

(* Neither was its eva process killed nor may eva not signal it.           *)
InHand(c) == stage[c] # "lost" /\ leader[c] # "foreign"

(* Two native commands use one GPU or port at the same time only if their  *)
(* eva processes have different lock roots, or one of the commands got out *)
(* of hand, by the death of its eva process or by a change of its user:    *)
(* no timeout, failed launch, failed write or exception of any worker, nor *)
(* the death of another process, makes room too early (scheduler.py:       *)
(* 103-140, process.py:85-111, cli.py:121).                                *)
OneCommandPerSlot ==
  \A c, d \in Launches :
    c # d /\ Alive(c) /\ Alive(d) /\ grants[c] \cap grants[d] # {}
      => ~ SameRoot(c, d) \/ ~ InHand(c) \/ ~ InHand(d)

(* A dead eva process may leave a command running on slots that are free   *)
(* again, but only its own: a command that is in hand is always covered by *)
(* the lease it was started with (process.py:71).                          *)
CoveredByLease ==
  \A c \in Launches : Alive(c) /\ InHand(c) => leases[c] = grants[c]

(* Every launch comes back, also when its command never exits and ignores  *)
(* SIGTERM, and its slots become free again for the others, as do those of *)
(* a worker that has died, unless eva may not signal the command           *)
(* (process.py:97-109, 163-172, scheduler.py:138-140, resources.py:38-44). *)
SlotsComeFree ==
  \A c \in Launches, s \in Slots :
    s \in leases[c] ~> s \notin leases[c] \/ leader[c] = "foreign"
=============================================================================
