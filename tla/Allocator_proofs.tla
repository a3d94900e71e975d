--------------------------- MODULE Allocator_proofs ---------------------------
(***************************************************************************)
(* Proofs about ResourceAllocator for every set of clients, processes,     *)
(* lock roots, slots, scan orders and requirements.                        *)
(***************************************************************************)
EXTENDS ResourceAllocator, FiniteSetTheorems, TLAPS

(* The positions of a scan are numbers, and there are finitely many of     *)
(* them (resources.py:57-59).                                              *)
LEMMA PositionFacts ==
  ASSUME NEW c \in Clients
  PROVE  /\ Positions(c) \subseteq Nat \ {0}
         /\ IsFiniteSet(Positions(c))
         /\ \A i \in Positions(c) : Scan[c][i] \in Slots /\ KindAt(c, i) \in DOMAIN Need[c]
<1>1. Scan[c] \in Seq(Slots)
  BY ScanAssumption
<1>2. PICK n \in Nat : DOMAIN Scan[c] = 1 .. n /\ Scan[c] \in [1 .. n -> Slots]
  BY <1>1
<1>3. IsFiniteSet(1 .. n)
  BY FS_Interval
<1>4. \A i \in DOMAIN Scan[c] : KindOf[Scan[c][i]] \in DOMAIN Need[c]
  BY ScanAssumption
<1>5. QED
  BY <1>2, <1>3, <1>4 DEF Positions, KindAt

(* What locking the file of a free slot does to the kernel's table, to the *)
(* positions held and to nothing else (resources.py:113-123).              *)
LEMMA Taken ==
  ASSUME TypeOK, HeldIsLocked, NEW c \in Clients, NEW i \in Positions(c),
         flock[Root[c]][Scan[c][i]] = NoClient,
         Lock(c, i), held' = [held EXCEPT ![c] = @ \cup {i}]
  PROVE  /\ flock' \in [Roots -> [Slots -> Clients \cup {NoClient}]]
         /\ HeldIsLocked'
<1>1. Root[c] \in Roots /\ Scan[c][i] \in Slots /\ NoClient \notin Clients
  BY PositionFacts, ClientAssumption
<1>2. \A r \in Roots, s \in Slots :
        flock'[r][s] = IF r = Root[c] /\ s = Scan[c][i] THEN c ELSE flock[r][s]
  BY <1>1 DEF TypeOK, Lock
<1>3. flock' \in [Roots -> [Slots -> Clients \cup {NoClient}]]
  BY <1>1 DEF TypeOK, Lock
<1>4. \A d \in Clients : held'[d] = IF d = c THEN held[c] \cup {i} ELSE held[d]
  BY DEF TypeOK
<1>5. ASSUME NEW d \in Clients, NEW j \in held'[d]
      PROVE  flock'[Root[d]][Scan[d][j]] = d
  <2>1. CASE d = c /\ j = i
    BY <1>1, <1>2, <2>1
  <2>2. CASE j \in held[d]
    <3>1. flock[Root[d]][Scan[d][j]] = d /\ d # NoClient
      BY <1>1, <2>2 DEF HeldIsLocked
    <3>2. Root[d] \in Roots /\ Scan[d][j] \in Slots
      BY <2>2, PositionFacts, ClientAssumption DEF TypeOK
    <3>3. QED
      BY <1>2, <3>1, <3>2
  <2>3. QED
    BY <1>4, <2>1, <2>2
<1>6. ASSUME NEW r \in Roots, NEW s \in Slots, flock'[r][s] # NoClient
      PROVE  /\ r = Root[flock'[r][s]]
             /\ \E j \in held'[flock'[r][s]] : Scan[flock'[r][s]][j] = s
  <2>1. CASE r = Root[c] /\ s = Scan[c][i]
    BY <1>2, <1>4, <2>1
  <2>2. CASE ~ (r = Root[c] /\ s = Scan[c][i])
    <3>1. flock'[r][s] = flock[r][s] /\ flock[r][s] \in Clients
      BY <1>2, <1>6, <2>2 DEF TypeOK
    <3>2. r = Root[flock[r][s]] /\ \E j \in held[flock[r][s]] : Scan[flock[r][s]][j] = s
      BY <1>6, <3>1 DEF HeldIsLocked
    <3>3. held[flock[r][s]] \subseteq held'[flock[r][s]]
      BY <1>4, <3>1
    <3>4. QED
      BY <3>1, <3>2, <3>3
  <2>3. QED
    BY <2>1, <2>2
<1>7. QED
  BY <1>3, <1>5, <1>6 DEF HeldIsLocked

(* What giving back one lock does (resources.py:38-43).                    *)
LEMMA GivenBack ==
  ASSUME TypeOK, HeldIsLocked, NEW c \in Clients, NEW i \in held[c],
         Unlock(c, i), held' = [held EXCEPT ![c] = @ \ {i}]
  PROVE  /\ flock' \in [Roots -> [Slots -> Clients \cup {NoClient}]]
         /\ HeldIsLocked'
<1>1. /\ Root[c] \in Roots /\ Scan[c][i] \in Slots /\ NoClient \notin Clients
      /\ i \in Positions(c)
  BY PositionFacts, ClientAssumption DEF TypeOK
<1>2. \A r \in Roots, s \in Slots :
        flock'[r][s] = IF r = Root[c] /\ s = Scan[c][i] THEN NoClient ELSE flock[r][s]
  BY <1>1 DEF TypeOK, Unlock
<1>3. flock' \in [Roots -> [Slots -> Clients \cup {NoClient}]]
  BY <1>1 DEF TypeOK, Unlock
<1>4. \A d \in Clients : held'[d] = IF d = c THEN held[c] \ {i} ELSE held[d]
  BY DEF TypeOK
<1>5. ASSUME NEW d \in Clients, NEW j \in held'[d]
      PROVE  flock'[Root[d]][Scan[d][j]] = d
  <2>1. j \in held[d] /\ (d = c => j # i)
    BY <1>4
  <2>2. flock[Root[d]][Scan[d][j]] = d /\ flock[Root[c]][Scan[c][i]] = c
    BY <2>1 DEF HeldIsLocked
  <2>3. Root[d] \in Roots /\ Scan[d][j] \in Slots /\ j \in Positions(d)
    BY <2>1, PositionFacts, ClientAssumption DEF TypeOK
  <2>4. ~ (Root[d] = Root[c] /\ Scan[d][j] = Scan[c][i])
    BY <1>1, <2>1, <2>2, <2>3, ScanAssumption DEF Positions
  <2>5. QED
    BY <1>2, <2>2, <2>3, <2>4
<1>6. ASSUME NEW r \in Roots, NEW s \in Slots, flock'[r][s] # NoClient
      PROVE  /\ r = Root[flock'[r][s]]
             /\ \E j \in held'[flock'[r][s]] : Scan[flock'[r][s]][j] = s
  <2>1. flock'[r][s] = flock[r][s] /\ ~ (r = Root[c] /\ s = Scan[c][i])
    BY <1>2, <1>6
  <2>2. flock[r][s] \in Clients
    BY <1>6, <2>1 DEF TypeOK
  <2>3. r = Root[flock[r][s]]
    BY <1>6, <2>1 DEF HeldIsLocked
  <2>4. PICK j \in held[flock[r][s]] : Scan[flock[r][s]][j] = s
    BY <1>6, <2>1 DEF HeldIsLocked
  <2>5. j \in held'[flock[r][s]]
    BY <1>4, <2>1, <2>2, <2>3, <2>4
  <2>6. QED
    BY <2>1, <2>3, <2>4, <2>5
<1>7. QED
  BY <1>3, <1>5, <1>6 DEF HeldIsLocked

(* What the death of a process does: its locks, and no others, are dropped. *)
LEMMA Dropped ==
  ASSUME TypeOK, HeldIsLocked, NEW p \in EvaProcs, Crash(p)
  PROVE  /\ flock' \in [Roots -> [Slots -> Clients \cup {NoClient}]]
         /\ HeldIsLocked'
<1>1. NoClient \notin Clients
  BY ClientAssumption
<1>2. \A r \in Roots, s \in Slots :
        flock'[r][s] = IF flock[r][s] # NoClient /\ ProcOf[flock[r][s]] = p
                         THEN NoClient ELSE flock[r][s]
  BY DEF Crash
<1>3. flock' \in [Roots -> [Slots -> Clients \cup {NoClient}]]
  BY DEF TypeOK, Crash
<1>4. \A d \in Clients : held'[d] = IF ProcOf[d] = p THEN {} ELSE held[d]
  BY DEF Crash
<1>5. ASSUME NEW d \in Clients, NEW j \in held'[d]
      PROVE  flock'[Root[d]][Scan[d][j]] = d
  <2>1. j \in held[d] /\ ProcOf[d] # p
    BY <1>4
  <2>2. flock[Root[d]][Scan[d][j]] = d
    BY <2>1 DEF HeldIsLocked
  <2>3. Root[d] \in Roots /\ Scan[d][j] \in Slots
    BY <2>1, PositionFacts, ClientAssumption DEF TypeOK
  <2>4. QED
    BY <1>2, <2>1, <2>2, <2>3
<1>6. ASSUME NEW r \in Roots, NEW s \in Slots, flock'[r][s] # NoClient
      PROVE  /\ r = Root[flock'[r][s]]
             /\ \E j \in held'[flock'[r][s]] : Scan[flock'[r][s]][j] = s
  <2>1. flock'[r][s] = flock[r][s] /\ ProcOf[flock[r][s]] # p
    BY <1>2, <1>6
  <2>2. flock[r][s] \in Clients
    BY <1>6, <2>1 DEF TypeOK
  <2>3. held'[flock[r][s]] = held[flock[r][s]]
    BY <1>4, <2>1, <2>2
  <2>4. QED
    BY <1>6, <2>1, <2>3 DEF HeldIsLocked
<1>7. QED
  BY <1>3, <1>5, <1>6 DEF HeldIsLocked

(* The actions of one client that touch no lock.                           *)
Quiet(c) ==
  \/ Begin(c) \/ LockFileFails(c) \/ Exhausted(c) \/ Grant(c) \/ BeginRelease(c)
  \/ DeadlinePasses(c) \/ Released(c) \/ Retry(c)

(* Every step is that of one client or the death of a process.             *)
LEMMA StepCases ==
  ASSUME [Next]_vars
  PROVE  \/ \E c \in Clients : Quiet(c) \/ TryLock(c) \/ ReleaseOne(c)
         \/ \E p \in EvaProcs : Crash(p)
         \/ UNCHANGED vars
BY DEF Next, Proceed, Quiet

(* Quiet steps leave the lock files and what is held as they are.          *)
LEMMA QuietFrame ==
  ASSUME NEW c \in Clients, Quiet(c)
  PROVE  UNCHANGED <<flock, held>>
BY DEF Quiet, Begin, LockFileFails, Exhausted, Grant, BeginRelease, DeadlinePasses,
       Released, Retry

(* Trying a slot either takes its free lock or leaves everything as it is. *)
LEMMA TryCases ==
  ASSUME NEW c \in Clients, TryLock(c)
  PROVE  \/ UNCHANGED <<flock, held>>
         \/ \E i \in ToTry(c) :
              /\ flock[Root[c]][Scan[c][i]] = NoClient
              /\ Lock(c, i)
              /\ held' = [held EXCEPT ![c] = @ \cup {i}]
<1>1. PICK i \in ToTry(c) :
        IF flock[Root[c]][Scan[c][i]] = NoClient
          THEN Lock(c, i) /\ held' = [held EXCEPT ![c] = @ \cup {i}]
          ELSE UNCHANGED <<flock, held>>
  BY DEF TryLock
<1>2. CASE flock[Root[c]][Scan[c][i]] = NoClient
  BY <1>1, <1>2
<1>3. CASE flock[Root[c]][Scan[c][i]] # NoClient
  BY <1>1, <1>3
<1>4. QED
  BY <1>2, <1>3

(* Types and the agreement of what clients hold with what the kernel has   *)
(* locked, over one step.                                                  *)
LEMMA LockStep ==
  ASSUME TypeOK, HeldIsLocked, [Next]_vars
  PROVE  TypeOK' /\ HeldIsLocked'
<1>1. ASSUME NEW c \in Clients, Quiet(c)
      PROVE  TypeOK' /\ HeldIsLocked'
  <2>1. UNCHANGED <<flock, held>>
    BY <1>1, QuietFrame
  <2>2. HeldIsLocked'
    BY <2>1 DEF HeldIsLocked
  <2>3. late' \in [Clients -> BOOLEAN]
    <3>1. UNCHANGED late \/ \E b \in BOOLEAN : late' = [late EXCEPT ![c] = b]
      BY <1>1, Zenon DEF Quiet, Begin, LockFileFails, Exhausted, Grant, BeginRelease,
         DeadlinePasses, Released, Retry
    <3>2. QED
      BY <3>1, Zenon DEF TypeOK
  <2>4. pc' \in [Clients -> {"idle", "scanning", "backing", "failing", "sleeping",
                             "granted", "releasing", "raised"}]
    BY <1>1 DEF TypeOK, Quiet, Begin, LockFileFails, Exhausted, Grant, BeginRelease,
       DeadlinePasses, Released, Retry, Goto
  <2>5. pos' \in [Clients -> Nat] /\ used' \in [{"crash", "fault"} -> Nat]
    BY <1>1 DEF TypeOK, Quiet, Begin, LockFileFails, Exhausted, Grant, BeginRelease,
       DeadlinePasses, Released, Retry
  <2>6. TypeOK'
    BY <2>1, <2>3, <2>4, <2>5 DEF TypeOK, Positions
  <2>7. QED
    BY <2>2, <2>6
<1>2. ASSUME NEW c \in Clients, TryLock(c)
      PROVE  TypeOK' /\ HeldIsLocked'
  <2>1. /\ pos' \in [Clients -> Nat]
        /\ UNCHANGED <<pc, late, used>>
    <3>1. PICK i \in ToTry(c) : pos' = [pos EXCEPT ![c] = i]
      BY <1>2 DEF TryLock
    <3>2. i \in Nat
      BY PositionFacts DEF ToTry
    <3>3. QED
      BY <1>2, <3>1, <3>2 DEF TryLock, TypeOK
  <2>2. CASE UNCHANGED <<flock, held>>
    BY <2>1, <2>2 DEF TypeOK, Positions, HeldIsLocked
  <2>3. ASSUME NEW i \in ToTry(c),
               flock[Root[c]][Scan[c][i]] = NoClient,
               Lock(c, i), held' = [held EXCEPT ![c] = @ \cup {i}]
        PROVE  TypeOK' /\ HeldIsLocked'
    <3>1. i \in Positions(c) /\ i \in Nat
      BY PositionFacts DEF ToTry
    <3>2. flock' \in [Roots -> [Slots -> Clients \cup {NoClient}]] /\ HeldIsLocked'
      BY <2>3, <3>1, Taken
    <3>3. /\ held' \in [Clients -> SUBSET Nat]
          /\ \A d \in Clients : held'[d] \subseteq Positions(d)
      BY <2>3, <3>1 DEF TypeOK
    <3>4. QED
      BY <2>1, <3>2, <3>3 DEF TypeOK, Positions
  <2>4. QED
    BY <1>2, <2>2, <2>3, TryCases
<1>3. ASSUME NEW c \in Clients, ReleaseOne(c)
      PROVE  TypeOK' /\ HeldIsLocked'
  <2>1. PICK i \in held[c] : Unlock(c, i) /\ held' = [held EXCEPT ![c] = @ \ {i}]
    BY <1>3 DEF ReleaseOne
  <2>2. flock' \in [Roots -> [Slots -> Clients \cup {NoClient}]] /\ HeldIsLocked'
    BY <2>1, GivenBack
  <2>3. /\ held' \in [Clients -> SUBSET Nat]
        /\ \A d \in Clients : held'[d] \subseteq Positions(d)
    BY <2>1 DEF TypeOK
  <2>4. QED
    BY <1>3, <2>2, <2>3 DEF TypeOK, Positions, ReleaseOne
<1>4. ASSUME NEW p \in EvaProcs, Crash(p)
      PROVE  TypeOK' /\ HeldIsLocked'
  <2>1. flock' \in [Roots -> [Slots -> Clients \cup {NoClient}]] /\ HeldIsLocked'
    BY <1>4, Dropped
  <2>2. late' \in [Clients -> BOOLEAN]
    BY <1>4, Zenon DEF TypeOK, Crash
  <2>3. pc' \in [Clients -> {"idle", "scanning", "backing", "failing", "sleeping",
                             "granted", "releasing", "raised"}]
    BY <1>4 DEF TypeOK, Crash
  <2>4. /\ pos' \in [Clients -> Nat]
        /\ held' \in [Clients -> SUBSET Nat]
        /\ \A d \in Clients : held'[d] \subseteq Positions(d)
        /\ used' \in [{"crash", "fault"} -> Nat]
    BY <1>4 DEF TypeOK, Crash
  <2>5. QED
    BY <2>1, <2>2, <2>3, <2>4 DEF TypeOK, Positions
<1>5. CASE UNCHANGED vars
  BY <1>5 DEF vars, TypeOK, Positions, HeldIsLocked
<1>6. QED
  BY <1>1, <1>2, <1>3, <1>4, <1>5, StepCases

(* A client that is not allocating holds nothing, over one step.           *)
LEMMA HoldStep ==
  ASSUME TypeOK, OnlyAllocatorsHold, [Next]_vars
  PROVE  OnlyAllocatorsHold'
<1>1. ASSUME NEW c \in Clients, Quiet(c)
      PROVE  OnlyAllocatorsHold'
  <2>1. UNCHANGED held
    BY <1>1, QuietFrame
  <2>2. \A d \in Clients : d # c => pc'[d] = pc[d]
    BY <1>1 DEF TypeOK, Quiet, Begin, LockFileFails, Exhausted, Grant, BeginRelease,
       DeadlinePasses, Released, Retry, Goto
  <2>3. pc'[c] \in {"idle", "sleeping", "raised"} => held[c] = {}
    BY <1>1 DEF TypeOK, OnlyAllocatorsHold, Quiet, Begin, LockFileFails, Exhausted, Grant,
       BeginRelease, DeadlinePasses, Released, Retry, Goto
  <2>4. QED
    BY <2>1, <2>2, <2>3 DEF OnlyAllocatorsHold
<1>2. ASSUME NEW c \in Clients, TryLock(c)
      PROVE  OnlyAllocatorsHold'
  <2>1. pc[c] = "scanning" /\ UNCHANGED pc
    BY <1>2 DEF TryLock
  <2>2. \A d \in Clients \ {c} : held'[d] = held[d]
    BY <1>2, TryCases DEF TypeOK
  <2>3. QED
    BY <2>1, <2>2 DEF OnlyAllocatorsHold
<1>3. ASSUME NEW c \in Clients, ReleaseOne(c)
      PROVE  OnlyAllocatorsHold'
  <2>1. UNCHANGED pc /\ \E i \in held[c] : held' = [held EXCEPT ![c] = @ \ {i}]
    BY <1>3 DEF ReleaseOne
  <2>2. \A d \in Clients : held'[d] \subseteq held[d]
    BY <2>1 DEF TypeOK
  <2>3. QED
    BY <2>1, <2>2 DEF OnlyAllocatorsHold
<1>4. ASSUME NEW p \in EvaProcs, Crash(p)
      PROVE  OnlyAllocatorsHold'
  BY <1>4 DEF OnlyAllocatorsHold, Crash
<1>5. CASE UNCHANGED vars
  BY <1>5 DEF vars, OnlyAllocatorsHold
<1>6. QED
  BY <1>1, <1>2, <1>3, <1>4, <1>5, StepCases

(* The positions of one kind that a client holds are finitely many.        *)
LEMMA HeldFinite ==
  ASSUME TypeOK, NEW c \in Clients, NEW k
  PROVE  /\ IsFiniteSet(HeldOf(c, k))
         /\ Cardinality(HeldOf(c, k)) \in Nat
<1>1. HeldOf(c, k) \in SUBSET Positions(c)
  BY DEF HeldOf, TypeOK
<1>2. IsFiniteSet(HeldOf(c, k))
  BY <1>1, PositionFacts, FS_Subset
<1>3. QED
  BY <1>2, FS_CardinalityType

(* A step that leaves what is held alone keeps the counts, if whoever it   *)
(* gives a lease to has enough of every kind.                              *)
LEMMA CountsFrame ==
  ASSUME TypeOK, CountsRight, UNCHANGED held,
         \A d \in Clients : pc'[d] = "granted" =>
           pc[d] = "granted" \/ \A k \in DOMAIN Need[d] : Enough(d, k)
  PROVE  CountsRight'
<1>1. \A d \in Clients : \A k \in DOMAIN Need[d] :
        HeldOf(d, k)' = HeldOf(d, k) /\ (Enough(d, k)' <=> Enough(d, k))
  BY DEF HeldOf, Enough, KindAt
<1>2. QED
  BY <1>1 DEF CountsRight

(* Counts of each kind, over one step: a lock is only taken for a kind     *)
(* that is still short, so the count grows to at most the requirement      *)
(* (resources.py:84-97).                                                   *)
LEMMA CountsStep ==
  ASSUME TypeOK, CountsRight, [Next]_vars
  PROVE  CountsRight'
<1>1. ASSUME NEW c \in Clients, Quiet(c)
      PROVE  CountsRight'
  <2>1. UNCHANGED held
    BY <1>1, QuietFrame
  <2>2. CASE Grant(c)
    BY <2>1, <2>2, CountsFrame DEF Grant, Goto, TypeOK
  <2>3. CASE ~ Grant(c)
    <3>1. \A d \in Clients : pc'[d] = "granted" => pc[d] = "granted"
      BY <1>1, <2>3 DEF TypeOK, Quiet, Begin, LockFileFails, Exhausted, BeginRelease,
         DeadlinePasses, Released, Retry, Goto
    <3>2. QED
      BY <2>1, <3>1, CountsFrame
  <2>4. QED
    BY <2>2, <2>3
<1>2. ASSUME NEW c \in Clients, TryLock(c)
      PROVE  CountsRight'
  <2>1. pc[c] = "scanning" /\ UNCHANGED pc
    BY <1>2 DEF TryLock
  <2>2. CASE UNCHANGED held
    BY <2>1, <2>2, CountsFrame
  <2>3. ASSUME NEW i \in ToTry(c), held' = [held EXCEPT ![c] = @ \cup {i}]
        PROVE  CountsRight'
    <3>1. i \in Positions(c) /\ ~ Enough(c, KindAt(c, i))
      BY DEF ToTry
    <3>2. \A d \in Clients : held'[d] = IF d = c THEN held[c] \cup {i} ELSE held[d]
      BY <2>3 DEF TypeOK
    <3>3. ASSUME NEW k \in DOMAIN Need[c]
          PROVE  Cardinality(HeldOf(c, k)') <= Need[c][k]
      <4>1. Cardinality(HeldOf(c, k)) \in Nat /\ IsFiniteSet(HeldOf(c, k))
        BY HeldFinite
      <4>2. Cardinality(HeldOf(c, k)) <= Need[c][k] /\ Need[c][k] \in Nat
        BY ScanAssumption DEF CountsRight
      <4>3. CASE KindAt(c, i) = k
        <5>1. HeldOf(c, k)' = HeldOf(c, k) \cup {i}
          BY <3>2, <4>3 DEF HeldOf, KindAt
        <5>2. Cardinality(HeldOf(c, k)') <= Cardinality(HeldOf(c, k)) + 1
          <6>1. Cardinality(HeldOf(c, k) \cup {i}) =
                  IF i \in HeldOf(c, k) THEN Cardinality(HeldOf(c, k))
                                        ELSE Cardinality(HeldOf(c, k)) + 1
            BY <4>1, FS_AddElement
          <6>2. Cardinality(HeldOf(c, k)') = Cardinality(HeldOf(c, k) \cup {i})
            BY <5>1
          <6>3. QED
            BY <4>1, <6>1, <6>2
        <5>3. Cardinality(HeldOf(c, k)') \in Nat
          BY <4>1, <5>1, FS_AddElement, FS_CardinalityType
        <5>4. ~ (Cardinality(HeldOf(c, k)) >= Need[c][k])
          BY <3>1, <4>3 DEF Enough
        <5>5. QED
          BY <4>1, <4>2, <5>2, <5>3, <5>4
      <4>4. CASE KindAt(c, i) # k
        <5>1. HeldOf(c, k)' = HeldOf(c, k)
          BY <3>2, <4>4 DEF HeldOf, KindAt
        <5>2. QED
          BY <4>2, <5>1
      <4>5. QED
        BY <4>3, <4>4
    <3>4. ASSUME NEW d \in Clients \ {c}, NEW k \in DOMAIN Need[d]
          PROVE  HeldOf(d, k)' = HeldOf(d, k)
      BY <3>2 DEF HeldOf, KindAt
    <3>5. QED
      BY <2>1, <3>3, <3>4 DEF CountsRight, Enough
  <2>4. QED
    BY <1>2, <2>2, <2>3, TryCases
<1>3. ASSUME NEW c \in Clients, ReleaseOne(c)
      PROVE  CountsRight'
  <2>1. PICK i \in held[c] : held' = [held EXCEPT ![c] = @ \ {i}]
    BY <1>3 DEF ReleaseOne
  <2>2. pc[c] # "granted" /\ UNCHANGED pc
    BY <1>3 DEF ReleaseOne
  <2>3. \A d \in Clients : held'[d] = IF d = c THEN held[c] \ {i} ELSE held[d]
    BY <2>1 DEF TypeOK
  <2>4. ASSUME NEW k \in DOMAIN Need[c]
        PROVE  Cardinality(HeldOf(c, k)') <= Need[c][k]
    <3>1. HeldOf(c, k)' \in SUBSET HeldOf(c, k)
      BY <2>3 DEF HeldOf, KindAt
    <3>2. /\ Cardinality(HeldOf(c, k)') <= Cardinality(HeldOf(c, k))
          /\ Cardinality(HeldOf(c, k)) \in Nat
          /\ IsFiniteSet(HeldOf(c, k)')
      BY <3>1, HeldFinite, FS_Subset
    <3>3. Cardinality(HeldOf(c, k)') \in Nat
      BY <3>2, FS_CardinalityType
    <3>4. Cardinality(HeldOf(c, k)) <= Need[c][k] /\ Need[c][k] \in Nat
      BY ScanAssumption DEF CountsRight
    <3>5. QED
      BY <3>2, <3>3, <3>4
  <2>5. ASSUME NEW d \in Clients \ {c}, NEW k \in DOMAIN Need[d]
        PROVE  HeldOf(d, k)' = HeldOf(d, k)
    BY <2>3 DEF HeldOf, KindAt
  <2>6. QED
    BY <2>2, <2>4, <2>5 DEF CountsRight, Enough
<1>4. ASSUME NEW p \in EvaProcs, Crash(p)
      PROVE  CountsRight'
  <2>1. \A d \in Clients :
          /\ held'[d] = IF ProcOf[d] = p THEN {} ELSE held[d]
          /\ pc'[d] = IF ProcOf[d] = p THEN "idle" ELSE pc[d]
    BY <1>4 DEF Crash
  <2>2. ASSUME NEW d \in Clients, NEW k \in DOMAIN Need[d], ProcOf[d] = p
        PROVE  Cardinality(HeldOf(d, k)') <= Need[d][k] /\ pc'[d] # "granted"
    <3>1. HeldOf(d, k)' = {} /\ pc'[d] = "idle"
      BY <2>1, <2>2 DEF HeldOf
    <3>2. Cardinality(HeldOf(d, k)') = 0 /\ Need[d][k] \in Nat
      BY <3>1, FS_EmptySet, ScanAssumption
    <3>3. QED
      BY <3>1, <3>2
  <2>3. ASSUME NEW d \in Clients, NEW k \in DOMAIN Need[d], ProcOf[d] # p
        PROVE  HeldOf(d, k)' = HeldOf(d, k) /\ pc'[d] = pc[d]
    BY <2>1, <2>3 DEF HeldOf, KindAt
  <2>4. QED
    BY <2>2, <2>3 DEF CountsRight, Enough
<1>5. CASE UNCHANGED vars
  BY <1>5, CountsFrame DEF vars
<1>6. QED
  BY <1>1, <1>2, <1>3, <1>4, <1>5, StepCases

(* The initial states: nothing is locked and nobody allocates.             *)
LEMMA AllocatorInit ==
  ASSUME Init
  PROVE  AllocatorInv
<1>1. TypeOK
  BY Zenon DEF Init, TypeOK, Positions
<1>2. HeldIsLocked /\ OnlyAllocatorsHold
  BY DEF Init, HeldIsLocked, OnlyAllocatorsHold
<1>3. ASSUME NEW c \in Clients, NEW k \in DOMAIN Need[c]
      PROVE  Cardinality(HeldOf(c, k)) <= Need[c][k] /\ pc[c] # "granted"
  <2>1. HeldOf(c, k) = {} /\ pc[c] = "idle"
    BY DEF Init, HeldOf
  <2>2. Need[c][k] \in Nat /\ Cardinality({}) = 0
    BY ScanAssumption, FS_EmptySet
  <2>3. QED
    BY <2>1, <2>2
<1>4. QED
  BY <1>1, <1>2, <1>3 DEF AllocatorInv, CountsRight

(* The invariant holds for any clients, roots, slots and requirements.     *)
THEOREM AllocatorCorrect == Spec => []AllocatorInv
<1>1. Init => AllocatorInv
  BY AllocatorInit
<1>2. AllocatorInv /\ [Next]_vars => AllocatorInv'
  BY LockStep, HoldStep, CountsStep DEF AllocatorInv
<1>3. QED
  BY <1>1, <1>2, PTL DEF Spec

(* Whoever waits, has given up or is done keeps no lock file locked, in    *)
(* every configuration (resources.py:98-111).                              *)
THEOREM NothingHeldWhileWaiting == Spec => []NoHoldWhileWaiting
<1>1. AllocatorInv => NoHoldWhileWaiting
  BY ClientAssumption DEF AllocatorInv, HeldIsLocked, OnlyAllocatorsHold, NoHoldWhileWaiting
<1>2. QED
  BY <1>1, AllocatorCorrect, PTL

(* With one lock root for the host, no slot is ever in two leases          *)
(* (resources.py:54).                                                      *)
THEOREM LeasesExclusive ==
  ASSUME \A c, d \in Clients : Root[c] = Root[d]
  PROVE  Spec => []LeaseExclusive
<1>1. AllocatorInv => LeaseExclusive
  <2>1. SUFFICES ASSUME AllocatorInv, NEW c \in Clients, NEW d \in Clients, NEW s,
                        s \in Lease(c), s \in Lease(d)
                 PROVE  c = d
    BY DEF LeaseExclusive
  <2>2. PICK i \in held[c] : s = Scan[c][i]
    BY <2>1 DEF Lease
  <2>3. PICK j \in held[d] : s = Scan[d][j]
    BY <2>1 DEF Lease
  <2>4. \A e \in Clients : \A n \in held[e] : flock[Root[e]][Scan[e][n]] = e
    BY <2>1 DEF AllocatorInv, HeldIsLocked
  <2>5. flock[Root[c]][s] = c
    BY <2>2, <2>4
  <2>6. flock[Root[d]][s] = d
    BY <2>3, <2>4
  <2>7. QED
    BY <2>5, <2>6
<1>2. QED
  BY <1>1, AllocatorCorrect, PTL

(* A scan lists no slot twice, so a lease has as many slots of each kind   *)
(* as positions are held (resources.py:61).                                *)
LEMMA SlotCount ==
  ASSUME TypeOK, NEW c \in Clients, pc[c] = "granted", NEW k \in DOMAIN Need[c]
  PROVE  Cardinality({s \in Lease(c) : KindOf[s] = k}) = Cardinality(HeldOf(c, k))
<1> DEFINE S == {s \in Lease(c) : KindOf[s] = k}
           f == [i \in HeldOf(c, k) |-> Scan[c][i]]
<1>1. held[c] \subseteq Positions(c)
  BY DEF TypeOK
<1>2. S = {Scan[c][i] : i \in HeldOf(c, k)}
  BY DEF Lease, HeldOf, KindAt
<1>3. f \in [HeldOf(c, k) -> S] /\ \A s \in S : \E i \in HeldOf(c, k) : f[i] = s
  BY <1>2
<1>4. \A i, j \in HeldOf(c, k) : f[i] = f[j] => i = j
  BY <1>1, ScanAssumption DEF HeldOf, Positions
<1>5. f \in Bijection(HeldOf(c, k), S)
  BY <1>3, <1>4 DEF Bijection, Injection, Surjection, IsInjective
<1>6. QED
  BY <1>5, HeldFinite, FS_Bijection DEF ExistsBijection

(* A lease has exactly the number of slots required of each kind           *)
(* (resources.py:84-97).                                                   *)
THEOREM LeasesExact == Spec => []LeaseExact
<1>1. AllocatorInv => LeaseExact
  <2>1. SUFFICES ASSUME AllocatorInv, NEW c \in Clients, pc[c] = "granted",
                        NEW k \in DOMAIN Need[c]
                 PROVE  Cardinality({s \in Lease(c) : KindOf[s] = k}) = Need[c][k]
    BY DEF LeaseExact
  <2>2. Cardinality(HeldOf(c, k)) \in Nat /\ Need[c][k] \in Nat
    BY <2>1, HeldFinite, ScanAssumption DEF AllocatorInv
  <2>3. Cardinality(HeldOf(c, k)) <= Need[c][k] /\ Cardinality(HeldOf(c, k)) >= Need[c][k]
    BY <2>1 DEF AllocatorInv, CountsRight, Enough
  <2>4. QED
    BY <2>1, <2>2, <2>3, SlotCount DEF AllocatorInv
<1>2. QED
  BY <1>1, AllocatorCorrect, PTL

(* A step that gives nobody more slots, and those only to leaseholders, is *)
(* a return of slots in the table.                                         *)
LEMMA ShrinkIsGiveBack ==
  ASSUME TypeOK, TypeOK',
         \A d \in Clients : Lease(d)' \subseteq Lease(d)
  PROVE  [Table!Next]_Leases
<1>1. \A d \in Clients : Lease(d)' \subseteq Slots
  BY PositionFacts DEF Lease, TypeOK, Positions
<1>2. Leases' = [d \in Clients |-> Lease(d)'] /\ Leases = [d \in Clients |-> Lease(d)]
  BY DEF Leases
<1>3. Table!GiveBack
  BY <1>1, <1>2 DEF Table!GiveBack
<1>4. QED
  BY <1>3 DEF Table!Next

(* The cardinality that the table counts with is the usual one.            *)
LEMMA TableCardinality ==
  ASSUME NEW S
  PROVE  Table!Cardinality(S) = Cardinality(S)
BY Zenon DEF Cardinality, Table!Cardinality

(* Returning a lease acquires all its slots in the table at once.          *)
LEMMA GrantIsAcquire ==
  ASSUME AllocatorInv, AllocatorInv', LeaseExclusive', LeaseExact', NEW c \in Clients, Grant(c)
  PROVE  Table!Acquire(c)
<1>1. /\ pc[c] = "scanning" /\ pc'[c] = "granted"
      /\ \A d \in Clients \ {c} : pc'[d] = pc[d]
      /\ UNCHANGED held
  BY DEF Grant, Goto, AllocatorInv, TypeOK
<1>2. Lease(c) = {} /\ \A d \in Clients \ {c} : Lease(d)' = Lease(d)
  BY <1>1 DEF Lease
<1>3. Lease(c)' = {Scan[c][i] : i \in held[c]}
  BY <1>1 DEF Lease
<1>4. Lease(c)' \subseteq {s \in Slots : KindOf[s] \in DOMAIN Need[c]}
  BY <1>3, PositionFacts DEF AllocatorInv, TypeOK, Positions, KindAt
<1>5. \A k \in DOMAIN Need[c] : Cardinality({s \in Lease(c)' : KindOf[s] = k}) = Need[c][k]
  BY <1>1 DEF LeaseExact
<1>6. ASSUME NEW S, S = Lease(c)'
      PROVE  Table!Satisfies(c, S)
  <2>1. S \subseteq {s \in Slots : KindOf[s] \in DOMAIN Need[c]}
    BY <1>4, <1>6
  <2>2. ASSUME NEW k \in DOMAIN Need[c]
        PROVE  Cardinality({s \in S : KindOf[s] = k}) = Need[c][k]
    <3>1. {s \in S : KindOf[s] = k} = {s \in Lease(c)' : KindOf[s] = k}
      BY <1>6
    <3>2. QED
      BY <1>5, <3>1
  <2>3. QED
    BY <2>1, <2>2, TableCardinality DEF Table!Satisfies
<1>7. \A d \in Clients \ {c} : Lease(c)' \cap Leases[d] = {}
  <2>1. \A d \in Clients \ {c} : Lease(c)' \cap Lease(d)' = {}
    BY DEF LeaseExclusive
  <2>2. QED
    BY <1>2, <2>1 DEF Leases
<1>8. Leases' = [Leases EXCEPT ![c] = Lease(c)'] /\ Leases[c] = {}
  <2>1. Leases' = [d \in Clients |-> Lease(d)']
    BY DEF Leases
  <2>2. Leases = [d \in Clients |-> Lease(d)]
    BY DEF Leases
  <2>3. QED
    BY <1>2, <2>1, <2>2
<1>9. Lease(c)' \in SUBSET Slots
  BY <1>4
<1>10. QED
  BY <1>6, <1>7, <1>8, <1>9 DEF Table!Acquire

(* Every step is a step of the table or leaves it as it is.                *)
LEMMA TableStep ==
  ASSUME AllocatorInv, AllocatorInv', LeaseExclusive', LeaseExact', [Next]_vars
  PROVE  [Table!Next]_Leases
<1> USE DEF AllocatorInv
<1>1. ASSUME NEW c \in Clients, Quiet(c)
      PROVE  [Table!Next]_Leases
  <2>1. UNCHANGED held
    BY <1>1, QuietFrame
  <2>2. CASE Grant(c)
    BY <2>2, GrantIsAcquire DEF Table!Next
  <2>3. CASE ~ Grant(c)
    <3>1. \A d \in Clients :
            pc'[d] \in {"granted", "releasing"} => pc[d] \in {"granted", "releasing"}
      BY <1>1, <2>3 DEF TypeOK, Quiet, Begin, LockFileFails, Exhausted, BeginRelease,
         DeadlinePasses, Released, Retry, Goto
    <3>2. \A d \in Clients : Lease(d)' \subseteq Lease(d)
      BY <2>1, <3>1 DEF Lease
    <3>3. QED
      BY <3>2, ShrinkIsGiveBack
  <2>4. QED
    BY <2>2, <2>3
<1>2. ASSUME NEW c \in Clients, TryLock(c)
      PROVE  [Table!Next]_Leases
  <2>1. pc[c] = "scanning" /\ UNCHANGED pc
    BY <1>2 DEF TryLock
  <2>2. \A d \in Clients \ {c} : held'[d] = held[d]
    BY <1>2, TryCases DEF TypeOK
  <2>3. \A d \in Clients : Lease(d)' \subseteq Lease(d)
    BY <2>1, <2>2 DEF Lease
  <2>4. QED
    BY <2>3, ShrinkIsGiveBack
<1>3. ASSUME NEW c \in Clients, ReleaseOne(c)
      PROVE  [Table!Next]_Leases
  <2>1. UNCHANGED pc /\ \E i \in held[c] : held' = [held EXCEPT ![c] = @ \ {i}]
    BY <1>3 DEF ReleaseOne
  <2>2. \A d \in Clients : held'[d] \subseteq held[d]
    BY <2>1 DEF TypeOK
  <2>3. \A d \in Clients : Lease(d)' \subseteq Lease(d)
    BY <2>1, <2>2 DEF Lease
  <2>4. QED
    BY <2>3, ShrinkIsGiveBack
<1>4. ASSUME NEW p \in EvaProcs, Crash(p)
      PROVE  [Table!Next]_Leases
  <2>1. \A d \in Clients :
          /\ held'[d] = IF ProcOf[d] = p THEN {} ELSE held[d]
          /\ pc'[d] = IF ProcOf[d] = p THEN "idle" ELSE pc[d]
    BY <1>4 DEF Crash
  <2>2. \A d \in Clients : Lease(d)' \subseteq Lease(d)
    BY <2>1 DEF Lease
  <2>3. QED
    BY <2>2, ShrinkIsGiveBack
<1>5. CASE UNCHANGED vars
  BY <1>5 DEF vars, Leases, Lease
<1>6. QED
  BY <1>1, <1>2, <1>3, <1>4, <1>5, StepCases

(* With one lock root, the allocator implements the table: slots are       *)
(* leased whole and exclusively, although they are locked one at a time.   *)
THEOREM ImplementsTable ==
  ASSUME \A c, d \in Clients : Root[c] = Root[d]
  PROVE  Spec => TableSpec
<1>1. Init => Table!Init
  BY DEF Init, Table!Init, Leases, Lease
<1>2. Spec => []LeaseExclusive
  BY LeasesExclusive
<1>3. AllocatorInv /\ AllocatorInv' /\ LeaseExclusive' /\ LeaseExact' /\ [Next]_vars
        => [Table!Next]_Leases
  BY TableStep
<1>4. QED
  BY <1>1, <1>2, <1>3, AllocatorCorrect, LeasesExact, PTL DEF Spec, TableSpec, Table!Spec
=============================================================================
