-------------------------- MODULE ResourceAllocator --------------------------
(***************************************************************************)
(* ResourceAllocator of resources.py: worker threads of several eva        *)
(* processes on one host lease slots (GPUs, ports) by taking advisory file *)
(* locks <lock root>/<kind>/<slot>.lock one at a time, without waiting.    *)
(*                                                                         *)
(* A client that finds a kind short gives everything back, one lock at a   *)
(* time, sleeps and scans again from the start, until its deadline.  The   *)
(* kernel drops the locks of a process that dies.                          *)
(***************************************************************************)
EXTENDS Naturals, Sequences, FiniteSets

CONSTANTS
  Clients,      \* worker threads that allocate
  NoClient,     \* "the lock file is not locked"
  EvaProcs,     \* the eva processes they belong to
  ProcOf,       \* ProcOf[c]: the process of c
  Roots,        \* lock root directories
  Root,         \* Root[c]: the lock root of the allocator c uses
  Slots,        \* the slots of the host, named by every profile alike
  KindOf,       \* KindOf[s]: the resource kind of slot s
  Scan,         \* Scan[c]: the slots of the kinds c needs, by sorted kind and
                \* within a kind in the order of c's profile
  Need,         \* Need[c][k]: how many slots of kind k the jobs of c need
  Patient,      \* clients that pass a timeout_s, as the scheduler does
  MaxCrashes,   \* bound: processes killed
  MaxFaults     \* bound: lock files that cannot be opened

ASSUME ClientAssumption ==
  /\ NoClient \notin Clients
  /\ ProcOf \in [Clients -> EvaProcs]
  /\ Root \in [Clients -> Roots]
  /\ Patient \subseteq Clients
  /\ {MaxCrashes, MaxFaults} \subseteq Nat

(* What ResourceAllocator.__init__ and the validation in allocate enforce. *)
ASSUME ScanAssumption ==
  \A c \in Clients :
    /\ Scan[c] \in Seq(Slots)
    /\ \A i, j \in DOMAIN Scan[c] : Scan[c][i] = Scan[c][j] => i = j
    /\ \A i \in DOMAIN Scan[c] : KindOf[Scan[c][i]] \in DOMAIN Need[c]
    /\ \A i, j, k \in DOMAIN Scan[c] :
         i <= j /\ j <= k /\ KindOf[Scan[c][i]] = KindOf[Scan[c][k]]
           => KindOf[Scan[c][j]] = KindOf[Scan[c][i]]
    /\ \A k \in DOMAIN Need[c] : Need[c][k] \in Nat \ {0}

VARIABLES
  flock,    \* flock[r][s]: who has the lock file of slot s under root r
  pc,       \* pc[c]: where c is
  pos,      \* pos[c]: the position in Scan[c] tried last in this pass
  held,     \* held[c]: the positions in Scan[c] whose lock c has
  late,     \* late[c]: the deadline of c's allocate has passed
  used      \* how much of each bound has been used

vars == <<flock, pc, pos, held, late, used>>

-----------------------------------------------------------------------------
Positions(c) == DOMAIN Scan[c]

KindAt(c, i) == KindOf[Scan[c][i]]

HeldOf(c, k) == {i \in held[c] : KindAt(c, i) = k}

(* The requirement for kind k is met: the break of the slot loop.          *)
Enough(c, k) == Cardinality(HeldOf(c, k)) >= Need[c][k]

(* Slots still to be tried in this pass.                                   *)
ToTry(c) == {i \in Positions(c) : i > pos[c] /\ ~ Enough(c, KindAt(c, i))}

(* The loop over the slots of kind k is over and found too few.            *)
Short(c, k) == ~ Enough(c, k) /\ \A i \in ToTry(c) : KindAt(c, i) # k

SomeShort(c) == \E k \in DOMAIN Need[c] : Short(c, k)

(* allocate's first check: every kind needed is in the profile.            *)
KnownKinds(c) == \A k \in DOMAIN Need[c] : \E i \in Positions(c) : KindAt(c, i) = k

Goto(c, l) == pc' = [pc EXCEPT ![c] = l]

Lock(c, i) == flock' = [flock EXCEPT ![Root[c]][Scan[c][i]] = c]

Unlock(c, i) == flock' = [flock EXCEPT ![Root[c]][Scan[c][i]] = NoClient]

-----------------------------------------------------------------------------
Init ==
  /\ flock = [r \in Roots |-> [s \in Slots |-> NoClient]]
  /\ pc = [c \in Clients |-> "idle"]
  /\ pos = [c \in Clients |-> 0]
  /\ held = [c \in Clients |-> {}]
  /\ late = [c \in Clients |-> FALSE]
  /\ used = [b \in {"crash", "fault"} |-> 0]

(* A job calls allocate.  Without a timeout the first shortage is final,   *)
(* as if the deadline had already passed.                                  *)
Begin(c) ==
  /\ pc[c] \in {"idle", "raised"}
  /\ Goto(c, IF KnownKinds(c) THEN "scanning" ELSE "raised")
  /\ pos' = [pos EXCEPT ![c] = 0]
  /\ late' = [late EXCEPT ![c] = c \notin Patient]
  /\ UNCHANGED <<flock, held, used>>

(* Variant for a mutant: flock with LOCK_SH.                               *)
TryLockShared(c) ==
  /\ pc[c] = "scanning"
  /\ ~ SomeShort(c)
  /\ \E i \in ToTry(c) :
       /\ \A j \in ToTry(c) : i <= j
       /\ pos' = [pos EXCEPT ![c] = i]
       /\ held' = [held EXCEPT ![c] = @ \cup {i}]
       /\ Lock(c, i)
  /\ UNCHANGED <<pc, late, used>>

(* _try_lock of the next slot: LOCK_EX | LOCK_NB, granted or passed over.  *)
TryLock(c) ==
  /\ pc[c] = "scanning"
  /\ ~ SomeShort(c)
  /\ \E i \in ToTry(c) :
       /\ \A j \in ToTry(c) : i <= j
       /\ pos' = [pos EXCEPT ![c] = i]
       /\ IF flock[Root[c]][Scan[c][i]] = NoClient
            THEN Lock(c, i) /\ held' = [held EXCEPT ![c] = @ \cup {i}]
            ELSE UNCHANGED <<flock, held>>
  /\ UNCHANGED <<pc, late, used>>

(* The lock file cannot be created or opened: not a shortage, so what is   *)
(* held is given back and the error raised.                                *)
LockFileFails(c) ==
  /\ pc[c] = "scanning"
  /\ ToTry(c) # {} /\ ~ SomeShort(c)
  /\ used["fault"] < MaxFaults
  /\ used' = [used EXCEPT !["fault"] = @ + 1]
  /\ Goto(c, "failing")
  /\ UNCHANGED <<flock, pos, held, late>>

(* "resource slots exhausted": back off. *)
Exhausted(c) ==
  /\ pc[c] = "scanning"
  /\ SomeShort(c)
  /\ Goto(c, "backing")
  /\ UNCHANGED <<flock, pos, held, late, used>>

(* Every kind is satisfied: the lease is returned.                         *)
Grant(c) ==
  /\ pc[c] = "scanning"
  /\ \A k \in DOMAIN Need[c] : Enough(c, k)
  /\ Goto(c, "granted")
  /\ UNCHANGED <<flock, pos, held, late, used>>

(* The job is over; its finally clause calls release.                      *)
BeginRelease(c) ==
  /\ pc[c] = "granted"
  /\ Goto(c, "releasing")
  /\ UNCHANGED <<flock, pos, held, late, used>>

(* Variant for a mutant: only the newest lock is given back.               *)
ReleaseNewest(c) ==
  /\ pc[c] \in {"backing", "failing", "releasing"}
  /\ \E i \in held[c] :
       /\ \A j \in held[c] : j <= i
       /\ Unlock(c, i)
  /\ held' = [held EXCEPT ![c] = {}]
  /\ UNCHANGED <<pc, pos, late, used>>

(* ResourceLease.release: unlock in reverse order of locking.              *)
ReleaseOne(c) ==
  /\ pc[c] \in {"backing", "failing", "releasing"}
  /\ \E i \in held[c] :
       /\ \A j \in held[c] : j <= i
       /\ Unlock(c, i)
       /\ held' = [held EXCEPT ![c] = @ \ {i}]
  /\ UNCHANGED <<pc, pos, late, used>>

(* The deadline of an allocate in progress passes.                         *)
DeadlinePasses(c) ==
  /\ pc[c] \in {"scanning", "backing", "sleeping"}
  /\ ~ late[c]
  /\ late' = [late EXCEPT ![c] = TRUE]
  /\ UNCHANGED <<flock, pc, pos, held, used>>

(* Variant for a mutant: the deadline is not looked at.                    *)
ReleasedForever(c) ==
  /\ held[c] = {}
  /\ \/ pc[c] = "backing" /\ Goto(c, "sleeping")
     \/ pc[c] = "failing" /\ Goto(c, "raised")
     \/ pc[c] = "releasing" /\ Goto(c, "idle")
  /\ UNCHANGED <<flock, pos, held, late, used>>

(* release has returned: raise, sleep before the next pass, or be done.    *)
Released(c) ==
  /\ held[c] = {}
  /\ \/ pc[c] = "backing" /\ Goto(c, IF late[c] THEN "raised" ELSE "sleeping")
     \/ pc[c] = "failing" /\ Goto(c, "raised")
     \/ pc[c] = "releasing" /\ Goto(c, "idle")
  /\ UNCHANGED <<flock, pos, held, late, used>>

(* poll_interval_s is over: scan again from the start.                     *)
Retry(c) ==
  /\ pc[c] = "sleeping"
  /\ Goto(c, "scanning")
  /\ pos' = [pos EXCEPT ![c] = 0]
  /\ UNCHANGED <<flock, held, late, used>>

(* An eva process dies: the kernel closes its descriptors.                 *)
Crash(p) ==
  /\ used["crash"] < MaxCrashes
  /\ used' = [used EXCEPT !["crash"] = @ + 1]
  /\ flock' = [r \in Roots |-> [s \in Slots |->
       IF flock[r][s] # NoClient /\ ProcOf[flock[r][s]] = p
         THEN NoClient ELSE flock[r][s]]]
  /\ pc' = [c \in Clients |-> IF ProcOf[c] = p THEN "idle" ELSE pc[c]]
  /\ pos' = [c \in Clients |-> IF ProcOf[c] = p THEN 0 ELSE pos[c]]
  /\ held' = [c \in Clients |-> IF ProcOf[c] = p THEN {} ELSE held[c]]
  /\ late' = [c \in Clients |-> IF ProcOf[c] = p THEN FALSE ELSE late[c]]

-----------------------------------------------------------------------------
(* What a client does once it has called allocate.                         *)
Proceed(c) ==
  \/ TryLock(c) \/ LockFileFails(c) \/ Exhausted(c) \/ Grant(c)
  \/ BeginRelease(c) \/ ReleaseOne(c) \/ Released(c) \/ Retry(c)

Next ==
  \/ \E c \in Clients : Begin(c) \/ Proceed(c) \/ DeadlinePasses(c)
  \/ \E p \in EvaProcs : Crash(p)

Spec == Init /\ [][Next]_vars

(* Threads are scheduled, jobs end (job_timeout_s), sleeps end, and the    *)
(* monotonic clock reaches every deadline.                                 *)
Fairness == \A c \in Clients : WF_vars(Proceed(c)) /\ WF_vars(DeadlinePasses(c))

FairSpec == Spec /\ Fairness

-----------------------------------------------------------------------------
TypeOK ==
  /\ flock \in [Roots -> [Slots -> Clients \cup {NoClient}]]
  /\ pc \in [Clients -> {"idle", "scanning", "backing", "failing", "sleeping",
                         "granted", "releasing", "raised"}]
  /\ pos \in [Clients -> Nat]
  /\ held \in [Clients -> SUBSET Nat]
  /\ \A c \in Clients : held[c] \subseteq Positions(c)
  /\ late \in [Clients -> BOOLEAN]
  /\ used \in [{"crash", "fault"} -> Nat]

(* The slots c may use: those of a lease that has been returned and not    *)
(* given back yet.                                                         *)
Lease(c) ==
  IF pc[c] \in {"granted", "releasing"} THEN {Scan[c][i] : i \in held[c]} ELSE {}

-----------------------------------------------------------------------------
(* Safety. *)

(* "host-local exclusive file locks" (resources.py:54): no slot is in the  *)
(* leases of two clients, whatever runs or processes they belong to.       *)
LeaseExclusive ==
  \A c, d \in Clients : c # d => Lease(c) \cap Lease(d) = {}

(* A returned lease has exactly the number of slots required of each kind, *)
(* although locks are taken one at a time between those of other clients   *)
(* (resources.py:84-97).                                                   *)
LeaseExact ==
  \A c \in Clients : pc[c] = "granted" =>
    \A k \in DOMAIN Need[c] :
      Cardinality({s \in Lease(c) : KindOf[s] = k}) = Need[c][k]

(* A client that sleeps, has given up or is not allocating has no lock     *)
(* file locked: no partial acquisition is kept from the others or leaked   *)
(* by an error path (resources.py:98-111).                                 *)
NoHoldWhileWaiting ==
  \A c \in Clients : pc[c] \in {"idle", "sleeping", "raised"} =>
    \A r \in Roots, s \in Slots : flock[r][s] # c

(* Leases are granted whole and given back, as in SlotTable.               *)
Leases == [c \in Clients |-> Lease(c)]

Table == INSTANCE SlotTable WITH leases <- Leases

TableSpec == Table!Spec

-----------------------------------------------------------------------------
(* Liveness. *)

(* allocate always comes back, with a lease or with an error, however the  *)
(* clients interleave (resources.py:81-111).                               *)
AllocateReturns ==
  \A c \in Clients :
    pc[c] = "scanning" ~> pc[c] \in {"granted", "raised", "idle"}

(* A pass that starts when nobody else is allocating or holding anything   *)
(* gets its lease, unless somebody disturbs it: no earlier history of      *)
(* failures, crashes and retries leaves a slot locked (resources.py:38-44, *)
(* 99-110).                                                                *)
Alone(c) ==
  /\ \A d \in Clients \ {c} : pc[d] \in {"idle", "raised"}
  /\ used["fault"] = MaxFaults /\ used["crash"] = MaxCrashes

AloneSucceeds ==
  \A c \in Clients :
    pc[c] = "scanning" /\ pos[c] = 0 /\ Alone(c) ~> pc[c] = "granted" \/ ~ Alone(c)

-----------------------------------------------------------------------------
(* Inductive invariant (proved in Allocator_proofs). *)

(* A position is held exactly when the kernel has its lock file locked for *)
(* this client.                                                            *)
HeldIsLocked ==
  /\ \A c \in Clients : \A i \in held[c] : flock[Root[c]][Scan[c][i]] = c
  /\ \A r \in Roots, s \in Slots : flock[r][s] # NoClient =>
       /\ r = Root[flock[r][s]]
       /\ \E i \in held[flock[r][s]] : Scan[flock[r][s]][i] = s

OnlyAllocatorsHold ==
  \A c \in Clients : pc[c] \in {"idle", "sleeping", "raised"} => held[c] = {}

(* No pass takes more slots of a kind than needed, and a lease has all.    *)
CountsRight ==
  \A c \in Clients : \A k \in DOMAIN Need[c] :
    /\ Cardinality(HeldOf(c, k)) <= Need[c][k]
    /\ pc[c] = "granted" => Enough(c, k)

AllocatorInv == TypeOK /\ HeldIsLocked /\ OnlyAllocatorsHold /\ CountsRight
=============================================================================
