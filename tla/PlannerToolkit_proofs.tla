------------------------ MODULE PlannerToolkit_proofs ------------------------
(***************************************************************************)
(* Proofs about PlannerToolkit: for any calls, results and limits, no call *)
(* of an accepted proposal is turned down, the planner misses no stop of   *)
(* the run, and the limit on identical outcomes never acts.                *)
(***************************************************************************)
EXTENDS PlannerToolkit, TLAPS

USE GuardAssumption, ToolkitAssumption

-----------------------------------------------------------------------------
(* The guard. *)

(* A stored result stays one when it ages, and keeps its count.            *)
LEMMA AgedStored ==
  ASSUME NEW o \in Stored, NEW r \in ResultType
  PROVE  /\ Aged(o, r) \in Stored
         /\ Aged(o, r).repeats = o.repeats
         /\ Aged(o, r).environment = o.environment
<1>1. CASE r.step = "later" /\ o # NoOutcome /\ o.result.step = "same"
  <2>1. o \in [result : ResultType, repeats : Nat \ {0}, environment : BOOLEAN]
    BY <1>1 DEF Stored
  <2>2. [o.result EXCEPT !.step = "earlier"] \in ResultType
    BY <2>1 DEF ResultType
  <2>3. Aged(o, r) = [o EXCEPT !.result = [o.result EXCEPT !.step = "earlier"]]
    BY <1>1, <2>1 DEF Aged
  <2> QED BY <2>1, <2>2, <2>3 DEF Stored
<1>2. CASE ~ (r.step = "later" /\ o # NoOutcome /\ o.result.step = "same")
  BY <1>2 DEF Aged
<1> QED BY <1>1, <1>2

(* What is stored of a result: its count is one more than before, or 1.    *)
LEMMA AgainStored ==
  ASSUME NEW o \in Stored, NEW r \in ResultType
  PROVE  /\ Again(o, r) \in [result : ResultType, repeats : Nat \ {0}, environment : BOOLEAN]
         /\ Again(o, r).repeats \in {1, o.repeats + 1}
         /\ Again(o, r).environment = FALSE
<1>1. Fingerprint(r) \in ResultType
  BY DEF Fingerprint, ResultType
<1>2. o.repeats \in Nat
  BY DEF Stored, NoOutcome
<1> QED BY <1>1, <1>2 DEF Again

(* Every failure belongs to a family.                                      *)
LEMMA FamilyExists ==
  ASSUME NEW c \in Calls, NEW r \in ResultType, r.text # None
  PROVE  FailureFamily(c, r) \in FailureFamilies
<1>1. ToolOf[c] \in Tools
  BY DEF Tools
<1>2. r.code = None \/ r.code \in Codes
  BY DEF ResultType
<1>3. r.text \in Texts
  BY DEF ResultType
<1>4. CASE r.code # None
  <2>1. <<"code", r.code>> \in {"code"} \X Codes
    BY <1>2, <1>4
  <2> QED BY <1>1, <1>4, <2>1 DEF FailureFamily, FailureFamilies
<1>5. CASE r.code = None
  <2>1. <<"error", r.text>> \in {"error"} \X Texts
    BY <1>3
  <2> QED BY <1>1, <1>5, <2>1 DEF FailureFamily, FailureFamilies
<1> QED BY <1>4, <1>5

(* What observe does to the memory of the calls, and keeps of the types.   *)
LEMMA ObserveErrorType ==
  ASSUME GuardTypeOK, NEW c \in Calls, NEW r \in ResultType, r.text # None,
         NEW p, ObserveError(c, r, p)
  PROVE  GuardTypeOK'
<1> DEFINE f == FailureFamily(c, r)
<1>1. f \in FailureFamilies
  BY FamilyExists
<1> HIDE DEF f
<1>2. lastErrorByCall \in [Calls -> Stored] /\ lastErrorByCall[c] \in Stored
  BY DEF GuardTypeOK
<1>3. Again(lastErrorByCall[c], r) \in Stored
  BY <1>2, AgainStored DEF Stored
<1>4. lastErrorByCall' \in [Calls -> Stored]
  BY <1>2, <1>3 DEF ObserveError
<1>5. familyRepeats' \in [FailureFamilies -> Nat]
  BY <1>1 DEF ObserveError, GuardTypeOK, f
<1>6. counted' \subseteq FailureFamilies /\ recovery' \subseteq Calls
  BY <1>1 DEF ObserveError, GuardTypeOK, f
<1>7. consecutiveErrors' \in Nat
  BY DEF ObserveError, GuardTypeOK
<1> QED BY <1>4, <1>5, <1>6, <1>7 DEF ObserveError, GuardTypeOK

LEMMA ObserveOutcomeType ==
  ASSUME GuardTypeOK, NEW c \in Calls, NEW r \in ResultType, r.text = None,
         ObserveOutcome(c, r)
  PROVE  GuardTypeOK'
<1>1. /\ lastByCall \in [Calls -> Stored]
      /\ \A d \in Calls : lastByCall[d] \in Stored
      /\ NoOutcome \in Stored
  BY DEF GuardTypeOK, Stored
<1>2. \A d \in Calls : Aged(lastByCall[d], r) \in Stored
  BY <1>1, AgedStored
<1>3. Again(lastByCall[c], r) \in [result : ResultType, repeats : Nat \ {0}, environment : BOOLEAN]
  BY <1>1, AgainStored
<1>4. /\ lastByCall' \in [Calls -> Stored]
      /\ lastErrorByCall' \in [Calls -> Stored]
      /\ recovery' \subseteq Calls
      /\ lastAction' \in Calls \cup {None}
      /\ identicalActions' \in Nat
      /\ observations' \in Nat
      /\ stagnantActions' \in Nat
  <2>1. CASE IsAction(r)
    <3>1. ObserveAction(c, r)
      BY <2>1 DEF ObserveOutcome
    <3>2. lastByCall' \in [Calls -> Stored]
      BY <3>1, <1>1, <1>2, <1>3 DEF ObserveAction, Stored
    <3>3. lastErrorByCall' \in [Calls -> Stored]
      BY <3>1, <1>1 DEF ObserveAction
    <3> QED BY <3>1, <3>2, <3>3 DEF ObserveAction, GuardTypeOK
  <2>2. CASE ~ IsAction(r)
    <3>1. ObserveOther(c, r)
      BY <2>2 DEF ObserveOutcome
    <3>2. IsRead(r) \in BOOLEAN
      BY DEF IsRead
    <3>3. [Again(lastByCall[c], r) EXCEPT !.environment = IsRead(r)] \in Stored
      BY <1>3, <3>2 DEF Stored
    <3>4. lastByCall' \in [Calls -> Stored]
      BY <3>1, <3>3, <1>1, <1>2 DEF ObserveOther
    <3>5. observations' \in Nat
      BY <3>1 DEF ObserveOther, GuardTypeOK, Limits
    <3> QED BY <3>1, <3>4, <3>5 DEF ObserveOther, GuardTypeOK
  <2> QED BY <2>1, <2>2
<1>5. familyRepeats' \in [FailureFamilies -> Nat] /\ counted' \subseteq FailureFamilies
  BY DEF ObserveOutcome, ForgetFailures, GuardTypeOK
<1>6. capped' \in [Families -> Nat]
  BY DEF ObserveOutcome, IsCapped, ResultType, GuardTypeOK
<1>7. consecutiveErrors' \in Nat
  BY DEF ObserveOutcome
<1>8. hasStep' \in BOOLEAN /\ stateSeen' \in States \cup {None}
  BY DEF ObserveOutcome, ResultType, GuardTypeOK
<1> QED BY <1>4, <1>5, <1>6, <1>7, <1>8 DEF GuardTypeOK

LEMMA ObserveType ==
  ASSUME GuardTypeOK, NEW c \in Calls, NEW r \in ResultType, NEW p,
         Observe(c, r, p)
  PROVE  GuardTypeOK'
<1>1. CASE r.finish
  BY <1>1 DEF Observe, guardVars, GuardTypeOK
<1>2. CASE ~ r.finish /\ r.text # None
  BY <1>2, ObserveErrorType DEF Observe
<1>3. CASE ~ r.finish /\ r.text = None
  BY <1>3, ObserveOutcomeType DEF Observe
<1> QED BY <1>1, <1>2, <1>3

(* Observing a call makes no other call less welcome, and the count of its *)
(* own unchanged results grows by one at most.                             *)
LEMMA ObserveMemory ==
  ASSUME GuardTypeOK, NEW c \in Calls, NEW r \in ResultType, NEW p,
         Observe(c, r, p)
  PROVE  /\ lastByCall'[c].repeats \in {1, lastByCall[c].repeats, lastByCall[c].repeats + 1}
         /\ \A d \in Calls \ {c} :
              /\ lastByCall'[d].repeats \in {0, lastByCall[d].repeats}
              /\ d \in recovery' => d \in recovery
              /\ d = lastAction' => d = lastAction /\ identicalActions' = identicalActions
<1>1. \A d \in Calls : lastByCall[d] \in Stored /\ lastByCall[d].repeats \in Nat
  BY DEF GuardTypeOK, Stored, NoOutcome
<1>2. CASE r.finish
  <2>1. UNCHANGED guardVars
    BY <1>2 DEF Observe
  <2>2. lastByCall' = lastByCall
    BY <2>1 DEF guardVars
  <2> QED BY <1>1, <2>1, <2>2 DEF guardVars
<1>3. CASE ~ r.finish /\ r.text # None
  <2>1. ObserveError(c, r, p)
    BY <1>3 DEF Observe
  <2> QED BY <1>1, <2>1 DEF ObserveError
<1>4. CASE ~ r.finish /\ r.text = None /\ IsAction(r)
  <2>1. ObserveAction(c, r)
    BY <1>4 DEF Observe, ObserveOutcome
  <2>2. lastByCall'[c].repeats \in {1, lastByCall[c].repeats, lastByCall[c].repeats + 1}
    <3>1. Again(lastByCall[c], r).repeats \in {1, lastByCall[c].repeats + 1}
      BY <1>1, AgainStored
    <3>2. lastByCall'[c] = Again(lastByCall[c], r)
      BY <2>1 DEF ObserveAction
    <3> QED BY <1>1, <3>1, <3>2
  <2>3. \A d \in Calls \ {c} : lastByCall'[d].repeats \in {0, lastByCall[d].repeats}
    BY <1>1, <2>1, AgedStored DEF ObserveAction, NoOutcome
  <2>4. \A d \in Calls \ {c} :
          (d \in recovery' => d \in recovery)
          /\ (d = lastAction' => d = lastAction /\ identicalActions' = identicalActions)
    BY <2>1 DEF ObserveAction
  <2> QED BY <2>2, <2>3, <2>4
<1>5. CASE ~ r.finish /\ r.text = None /\ ~ IsAction(r)
  <2>1. ObserveOther(c, r)
    BY <1>5 DEF Observe, ObserveOutcome
  <2>2. lastByCall'[c].repeats \in {1, lastByCall[c].repeats, lastByCall[c].repeats + 1}
    <3>1. Again(lastByCall[c], r) \in [result : ResultType, repeats : Nat \ {0}, environment : BOOLEAN]
          /\ Again(lastByCall[c], r).repeats \in {1, lastByCall[c].repeats + 1}
      BY <1>1, AgainStored
    <3>2. lastByCall'[c] = [Again(lastByCall[c], r) EXCEPT !.environment = IsRead(r)]
      BY <2>1 DEF ObserveOther
    <3>3. lastByCall'[c].repeats = Again(lastByCall[c], r).repeats
      BY <3>1, <3>2
    <3> QED BY <1>1, <3>1, <3>3
  <2>3. \A d \in Calls \ {c} : lastByCall'[d].repeats \in {0, lastByCall[d].repeats}
    BY <1>1, <2>1, AgedStored DEF ObserveOther
  <2> QED BY <2>1, <2>2, <2>3 DEF ObserveOther
<1> QED BY <1>2, <1>3, <1>4, <1>5

LEMMA ObserveKeepsOpen ==
  ASSUME GuardTypeOK, NEW c \in Calls, NEW r \in ResultType, NEW p,
         Observe(c, r, p), NEW d \in Calls \ {c}, ~ Blocked(d)
  PROVE  ~ Blocked(d)'
<1>1. lastByCall[d].repeats \in Nat /\ lastByCall[d].repeats < 2
  BY DEF Blocked, ThirdUnchanged, GuardTypeOK, Stored, NoOutcome
<1>2. /\ lastByCall'[d].repeats \in {0, lastByCall[d].repeats}
      /\ d \in recovery' => d \in recovery
      /\ d = lastAction' => d = lastAction /\ identicalActions' = identicalActions
  BY ObserveMemory
<1> QED BY <1>1, <1>2 DEF Blocked, FailedBefore, ActedTooOften, ThirdUnchanged

-----------------------------------------------------------------------------
(* The toolkit: the inductive invariant.                                   *)

(* What the guard said of an accepted call still holds when its turn comes.*)
PendingIsOpen ==
  /\ \A i \in DOMAIN pending : ~ Blocked(pending[i])
  /\ \A i, j \in DOMAIN pending : i # j => pending[i] # pending[j]

(* A call with two unchanged results is not executed a third time.         *)
AtMostTwice == \A c \in Calls : lastByCall[c].repeats <= 2

(* A backend that executes calls directly has made no proposal.            *)
DirectHasNone == backend = "direct" => pending = <<>>

RepairsAreLeft == outcome = "running" => repairs <= MaxProposalRepairs

IInv == /\ TypeOK /\ PendingIsOpen /\ DirectHasNone /\ RepairsAreLeft
        /\ AtMostTwice /\ OutcomeLimitIsIdle

LEMMA InitIInv == ASSUME Init PROVE IInv
<1>1. GuardTypeOK
  BY DEF Init, GuardInit, GuardTypeOK, Stored
<1>2. TypeOK
  <2>1. told \in BOOLEAN
    BY Zenon DEF Init
  <2>2. /\ backend \in {"proposals", "direct"}
        /\ pending = <<>> /\ remaining = 0
        /\ terminal = None /\ rejections = 0 /\ repairs = 0
        /\ outcome = "running"
        /\ last = NoCall /\ warned = {} /\ since = {}
    BY DEF Init
  <2> QED BY <1>1, <2>1, <2>2 DEF TypeOK, NoCall, Limits
<1>3. AtMostTwice
  BY DEF Init, GuardInit, AtMostTwice, NoOutcome
<1>4. PendingIsOpen
  BY DEF Init, PendingIsOpen
<1>5. OutcomeLimitIsIdle
  BY DEF Init, OutcomeLimitIsIdle, LoopErrors
<1>6. DirectHasNone /\ RepairsAreLeft
  BY DEF Init, DirectHasNone, RepairsAreLeft
<1> QED BY <1>2, <1>3, <1>4, <1>5, <1>6 DEF IInv

(* observe answers with one of its own loop errors, and with the one about *)
(* identical outcomes only when the limit is below three.                  *)
LEMMA StopOfTwo ==
  ASSUME TypeOK, AtMostTwice', NEW c \in Calls, NEW r \in ResultType, GuardTypeOK'
  PROVE  /\ Stop(c, r) \in LoopErrors \cup {None}
         /\ MaxIdenticalOutcomes >= 3 => Stop(c, r) # "outcomes"
<1>1. ErrorStop(c, r) \in {"family", "identical_errors", "consecutive_errors", None}
  BY DEF ErrorStop
<1>2. OutcomeStop(c, r) \in {"stagnant", "capped", "outcomes", None}
  BY DEF OutcomeStop
<1>3. ASSUME MaxIdenticalOutcomes >= 3
      PROVE  OutcomeStop(c, r) # "outcomes"
  <2>1. lastByCall'[c].repeats <= 2
    BY DEF AtMostTwice
  <2>2. lastByCall'[c].repeats \in Nat
    BY DEF GuardTypeOK, Stored, NoOutcome
  <2>3. ~ (lastByCall'[c].repeats >= MaxIdenticalOutcomes)
    BY <1>3, <2>1, <2>2 DEF Limits
  <2>4. None # "outcomes"
    BY DEF LoopErrors
  <2> QED BY <2>3, <2>4 DEF OutcomeStop
<1>4. None # "outcomes"
  BY DEF LoopErrors
<1>5. Stop(c, r) \in {None, ErrorStop(c, r), OutcomeStop(c, r)}
  BY DEF Stop
<1>6. Stop(c, r) \in LoopErrors \cup {None}
  BY <1>1, <1>2, <1>5 DEF LoopErrors
<1>7. MaxIdenticalOutcomes >= 3 => Stop(c, r) # "outcomes"
  BY <1>1, <1>3, <1>4, <1>5
<1> QED BY <1>6, <1>7

(* What may become of a call.                                              *)
Fates == {"none", "stopped", "rejected", "raised", "executed", "finished", "read"}

(* One call through execute_tool.                                          *)
LEMMA CallStep ==
  ASSUME TypeOK, AtMostTwice, OutcomeLimitIsIdle, NEW c \in Calls, Call(c)
  PROVE  /\ GuardTypeOK' /\ AtMostTwice' /\ OutcomeLimitIsIdle'
         /\ remaining' \in Nat
         /\ rejections' \in 0..MaxIdenticalErrors
         /\ terminal' \in LoopErrors \cup {None} /\ told' \in BOOLEAN
         /\ /\ last'.call \in Calls \cup {None} /\ last'.useful \in BOOLEAN
            /\ last'.how \in Fates
         /\ since' \subseteq Calls
         /\ \A d \in Calls \ {c} : ~ Blocked(d) => ~ Blocked(d)'
<1>1. remaining' \in Nat
  BY DEF Call, TakeScope, TypeOK
<1>2. GuardTypeOK
  BY DEF TypeOK
<1>3. CASE AnswerStopped(c) \/ Reject(c) \/ Raise(c)
  <2>1. UNCHANGED guardVars
    BY <1>3 DEF AnswerStopped, Reject, Raise
  <2>2. /\ UNCHANGED <<lastByCall, recovery, lastAction, identicalActions>>
        /\ GuardTypeOK' /\ AtMostTwice'
        /\ \A d \in Calls : ~ Blocked(d) => ~ Blocked(d)'
    BY <1>2, <2>1
    DEF guardVars, GuardTypeOK, AtMostTwice, Blocked, FailedBefore, ActedTooOften, ThirdUnchanged
  <2>3. CASE AnswerStopped(c)
    BY <1>1, <2>2, <2>3 DEF AnswerStopped, Became, TypeOK, OutcomeLimitIsIdle, Fates
  <2>4. CASE Reject(c)
    BY <1>1, <2>2, <2>4 DEF Reject, Became, TypeOK, OutcomeLimitIsIdle, LoopErrors, Limits,
                                Fates
  <2>5. CASE Raise(c)
    BY <1>1, <2>2, <2>5 DEF Raise, Dispatched, Became, TypeOK, OutcomeLimitIsIdle, Limits,
                                Fates
  <2> QED BY <1>3, <2>3, <2>4, <2>5
<1>4. ASSUME NEW r \in Results[c], Return(c, r)
      PROVE  /\ GuardTypeOK' /\ AtMostTwice' /\ OutcomeLimitIsIdle'
             /\ rejections' \in 0..MaxIdenticalErrors
             /\ terminal' \in LoopErrors \cup {None} /\ told' \in BOOLEAN
             /\ /\ last'.call \in Calls \cup {None} /\ last'.useful \in BOOLEAN
                /\ last'.how \in Fates
             /\ since' \subseteq Calls
             /\ \A d \in Calls \ {c} : ~ Blocked(d) => ~ Blocked(d)'
  <2>1. r \in ResultType
    OBVIOUS
  <2>2. Observe(c, r, remaining > 0)
    BY <1>4 DEF Return
  <2>3. GuardTypeOK'
    BY <1>2, <2>1, <2>2, ObserveType
  <2>4. \A d \in Calls \ {c} : ~ Blocked(d) => ~ Blocked(d)'
    BY <1>2, <2>1, <2>2, ObserveKeepsOpen
  <2>5. AtMostTwice'
    <3>1. lastByCall[c].repeats < 2
      <4>1. lastByCall[c].repeats \in Nat
        BY <1>2 DEF GuardTypeOK, Stored, NoOutcome
      <4> QED BY <1>4, <4>1 DEF Return, Dispatched, Blocked, ThirdUnchanged
    <3>2. \A d \in Calls : lastByCall[d].repeats \in Nat /\ lastByCall'[d].repeats \in Nat
      BY <1>2, <2>3 DEF GuardTypeOK, Stored, NoOutcome
    <3>3. lastByCall'[c].repeats \in {1, lastByCall[c].repeats, lastByCall[c].repeats + 1}
      BY <1>2, <2>1, <2>2, <3>2, ObserveMemory
    <3>4. \A d \in Calls \ {c} : lastByCall'[d].repeats \in {0, lastByCall[d].repeats}
      BY <1>2, <2>1, <2>2, ObserveMemory
    <3> QED BY <3>1, <3>2, <3>3, <3>4 DEF AtMostTwice
  <2>6. /\ Stop(c, r) \in LoopErrors \cup {None}
        /\ MaxIdenticalOutcomes >= 3 => Stop(c, r) # "outcomes"
    BY <2>1, <2>3, <2>5, StopOfTwo
  <2>7. terminal' \in {terminal, Stop(c, r)}
    BY <1>4 DEF Return
  <2>8. OutcomeLimitIsIdle' /\ terminal' \in LoopErrors \cup {None}
    BY <2>6, <2>7 DEF OutcomeLimitIsIdle, TypeOK
  <2>9. rejections' \in 0..MaxIdenticalErrors
    BY <1>4 DEF Return, Dispatched, Limits
  <2>10. TellsMore(c, r) \in BOOLEAN
    BY DEF TellsMore, Stagnates, IsAction
  <2>11. /\ last'.call \in Calls \cup {None} /\ last'.useful \in BOOLEAN
         /\ last'.how \in Fates
    BY <1>4, <2>10 DEF Return, Became, Fates
  <2>12. since' \subseteq Calls
    BY <1>4 DEF Return, TypeOK
  <2>13. told' \in BOOLEAN
    BY <1>4 DEF Return, TypeOK
  <2> QED BY <2>3, <2>4, <2>5, <2>8, <2>9, <2>11, <2>12, <2>13
<1>5. AnswerStopped(c) \/ Reject(c) \/ Raise(c) \/ \E r \in Results[c] : Return(c, r)
  BY DEF Call
<1> QED BY <1>1, <1>3, <1>4, <1>5

(* A step that leaves the guard alone keeps what is said of it.            *)
LEMMA GuardUnchanged ==
  ASSUME TypeOK, AtMostTwice, UNCHANGED guardVars
  PROVE  GuardTypeOK' /\ AtMostTwice' /\ \A c \in Calls : Blocked(c)' = Blocked(c)
<1>1. GuardTypeOK
  BY DEF TypeOK
<1> QED BY <1>1 DEF guardVars, GuardTypeOK, AtMostTwice, Blocked, FailedBefore, ActedTooOften,
                    ThirdUnchanged

(* One call of the workspace.                                              *)
LEMMA ReadWorkspaceStep ==
  ASSUME TypeOK, AtMostTwice, OutcomeLimitIsIdle, NEW c \in Calls, ReadWorkspace(c)
  PROVE  /\ GuardTypeOK' /\ AtMostTwice' /\ OutcomeLimitIsIdle'
         /\ remaining' \in Nat
         /\ rejections' \in 0..MaxIdenticalErrors
         /\ terminal' \in LoopErrors \cup {None} /\ told' \in BOOLEAN
         /\ /\ last'.call \in Calls \cup {None} /\ last'.useful \in BOOLEAN
            /\ last'.how \in Fates
         /\ since' \subseteq Calls
         /\ \A d \in Calls \ {c} : ~ Blocked(d) => ~ Blocked(d)'
<1>1. UNCHANGED guardVars
  BY DEF ReadWorkspace
<1>2. GuardTypeOK' /\ AtMostTwice' /\ \A d \in Calls : Blocked(d)' = Blocked(d)
  BY <1>1, GuardUnchanged
<1> QED BY <1>2 DEF ReadWorkspace, Became, TypeOK, OutcomeLimitIsIdle, Fates

LEMMA AcceptStep ==
  ASSUME IInv, NEW s \in Proposals, Accept(s)
  PROVE  IInv'
<1> USE DEF IInv
<1>1. s \in Seq(Calls) /\ Len(s) \in Nat \ {0} /\ s[1] \in Calls
  BY DEF Proposals
<1>2. Kept(s) \in Seq(Calls)
  BY <1>1 DEF Kept
<1>3. /\ \A i \in DOMAIN Kept(s) : ~ Blocked(Kept(s)[i])
      /\ \A i, j \in DOMAIN Kept(s) : i # j => Kept(s)[i] # Kept(s)[j]
  <2>1. \A i \in DOMAIN Kept(s) : ~ Blocked(Kept(s)[i])
    BY DEF Accept, Admitted
  <2>2. \A i, j \in DOMAIN s : i # j => s[i] # s[j]
    BY DEF Accept, HasDuplicate
  <2>3. \A i, j \in DOMAIN <<s[1]>> : i = j
    OBVIOUS
  <2> QED BY <2>1, <2>2, <2>3 DEF Kept
<1>4. \A c \in Calls : Blocked(c)' = Blocked(c)
  BY DEF Accept, Blocked, FailedBefore, ActedTooOften, ThirdUnchanged
<1>5. PendingIsOpen'
  <2>1. pending' = Kept(s)
    BY DEF Accept
  <2>2. \A i \in DOMAIN Kept(s) : Kept(s)[i] \in Calls
    BY <1>2
  <2> QED BY <1>3, <1>4, <2>1, <2>2 DEF PendingIsOpen
<1>6. GuardTypeOK'
  BY DEF Accept, TypeOK, GuardTypeOK
<1>7. pending' \in Seq(Calls) /\ remaining' \in Nat
  BY <1>2 DEF Accept
<1>8. last' = NoCall /\ repairs' = 0 /\ warned' \subseteq FailureFamilies
  BY DEF Accept, AtLimit
<1>9. TypeOK'
  <2>1. told' \in BOOLEAN
    BY Zenon DEF Accept
  <2>2. UNCHANGED <<backend, terminal, rejections, outcome, since>>
    BY DEF Accept
  <2> QED BY <1>6, <1>7, <1>8, <2>1, <2>2 DEF TypeOK, NoCall
<1>10. AtMostTwice' /\ OutcomeLimitIsIdle' /\ DirectHasNone' /\ RepairsAreLeft'
  BY DEF Accept, Choosing, AtMostTwice, OutcomeLimitIsIdle, DirectHasNone, RepairsAreLeft
<1> QED BY <1>5, <1>9, <1>10

(* A rejected response, and the end of the solve from outside.             *)
LEMMA QuietStep ==
  ASSUME IInv, \/ Malformed
               \/ \E s \in Proposals : Refuse(s)
               \/ GiveUp
  PROVE  IInv'
<1> USE DEF IInv
<1>1. UNCHANGED <<guardVars, pending, backend, terminal, told, rejections, warned, since>>
  BY DEF Malformed, Refuse, Repair, GiveUp
<1>2. GuardTypeOK' /\ AtMostTwice' /\ \A c \in Calls : Blocked(c)' = Blocked(c)
  BY <1>1, GuardUnchanged
<1>3. PendingIsOpen' /\ DirectHasNone' /\ OutcomeLimitIsIdle'
  <2>1. \A i \in DOMAIN pending : pending[i] \in Calls
    BY DEF TypeOK
  <2> QED BY <1>1, <1>2, <2>1 DEF PendingIsOpen, DirectHasNone, OutcomeLimitIsIdle
<1>4. remaining' \in Nat /\ last' = NoCall
  BY DEF Malformed, Refuse, Repair, GiveUp, TypeOK
<1>5. /\ repairs' \in 0..(MaxProposalRepairs + 1)
      /\ outcome' \in {"running", "stopped", "finished", "gave_up", "repairs_exhausted"}
      /\ RepairsAreLeft'
  <2>1. repairs \in 0..(MaxProposalRepairs + 1) /\ MaxProposalRepairs \in Nat
    BY DEF TypeOK
  <2>2. CASE GiveUp
    BY <2>1, <2>2 DEF GiveUp, RepairsAreLeft
  <2>3. CASE Repair /\ Choosing
    <3>1. outcome = "running" /\ repairs <= MaxProposalRepairs /\ repairs' = repairs + 1
      BY <2>3 DEF Repair, Choosing, RepairsAreLeft
    <3> QED BY <2>1, <2>3, <3>1 DEF Repair, RepairsAreLeft
  <2> QED BY <2>2, <2>3 DEF Malformed, Refuse
<1>6. TypeOK'
  BY <1>1, <1>2, <1>4, <1>5 DEF TypeOK, NoCall
<1> QED BY <1>2, <1>3, <1>5, <1>6

LEMMA ExecuteNextStep ==
  ASSUME IInv, ExecuteNext
  PROVE  IInv'
<1> USE DEF IInv
<1> DEFINE c == Head(pending)
<1>1. /\ pending \in Seq(Calls) /\ pending # <<>> /\ c \in Calls
      /\ ReadWorkspace(c) \/ Call(c)
      /\ pending' = Tail(pending) /\ Tail(pending) \in Seq(Calls)
  BY DEF ExecuteNext, TypeOK
<1>2. /\ GuardTypeOK' /\ AtMostTwice' /\ OutcomeLimitIsIdle'
      /\ remaining' \in Nat
      /\ rejections' \in 0..MaxIdenticalErrors
      /\ terminal' \in LoopErrors \cup {None} /\ told' \in BOOLEAN
      /\ /\ last'.call \in Calls \cup {None} /\ last'.useful \in BOOLEAN
         /\ last'.how \in Fates
      /\ since' \subseteq Calls
      /\ \A d \in Calls \ {c} : ~ Blocked(d) => ~ Blocked(d)'
  BY <1>1, CallStep, ReadWorkspaceStep
<1>3. PendingIsOpen'
  <2>1. \A i \in DOMAIN Tail(pending) :
          /\ i + 1 \in DOMAIN pending /\ i + 1 # 1 /\ 1 \in DOMAIN pending
          /\ Tail(pending)[i] = pending[i + 1] /\ c = pending[1]
          /\ pending[i + 1] \in Calls
    BY <1>1
  <2>2. \A i \in DOMAIN Tail(pending) :
          Tail(pending)[i] \in Calls \ {c} /\ ~ Blocked(Tail(pending)[i])
    BY <2>1 DEF PendingIsOpen
  <2>3. \A i, j \in DOMAIN Tail(pending) : i # j => Tail(pending)[i] # Tail(pending)[j]
    <3>1. DOMAIN Tail(pending) \subseteq Nat
      BY <1>1
    <3> QED BY <2>1, <3>1 DEF PendingIsOpen
  <2>4. PICK q : q = Tail(pending)
    OBVIOUS
  <2>5. PICK d : d = c
    OBVIOUS
  <2>6. \A e \in Calls \ {d} : ~ Blocked(e) => ~ Blocked(e)'
    BY <1>2, <2>5
  <2>7. \A i \in DOMAIN q : ~ Blocked(q[i])'
    BY <2>2, <2>4, <2>5, <2>6
  <2>8. pending' = q
    BY <1>1, <2>4
  <2> QED BY <2>3, <2>4, <2>7, <2>8 DEF PendingIsOpen
<1>4. DirectHasNone' /\ RepairsAreLeft'
  BY <1>1 DEF ExecuteNext, DirectHasNone, RepairsAreLeft
<1>5. outcome' \in {"running", "stopped", "finished", "gave_up", "repairs_exhausted"}
  BY DEF ExecuteNext, TypeOK
<1>6. TypeOK'
  BY <1>1, <1>2, <1>5 DEF ExecuteNext, TypeOK, Fates
<1> QED BY <1>2, <1>3, <1>4, <1>6

LEMMA ExecuteDirectlyStep ==
  ASSUME IInv, NEW c \in Calls, ExecuteDirectly(c)
  PROVE  IInv'
<1> USE DEF IInv
<1>1. /\ GuardTypeOK' /\ AtMostTwice' /\ OutcomeLimitIsIdle'
      /\ remaining' \in Nat
      /\ rejections' \in 0..MaxIdenticalErrors
      /\ terminal' \in LoopErrors \cup {None} /\ told' \in BOOLEAN
      /\ /\ last'.call \in Calls \cup {None} /\ last'.useful \in BOOLEAN
         /\ last'.how \in Fates
      /\ since' \subseteq Calls
  BY CallStep DEF ExecuteDirectly
<1>2. pending' = <<>>
  BY DEF ExecuteDirectly, DirectHasNone
<1>3. PendingIsOpen' /\ DirectHasNone' /\ RepairsAreLeft'
  BY <1>2 DEF PendingIsOpen, DirectHasNone, RepairsAreLeft, ExecuteDirectly
<1>4. /\ outcome' \in {"running", "stopped", "finished", "gave_up", "repairs_exhausted"}
      /\ warned' \subseteq FailureFamilies
  BY DEF ExecuteDirectly, TypeOK, AtLimit
<1>5. TypeOK'
  BY <1>1, <1>4 DEF ExecuteDirectly, TypeOK, Fates
<1> QED BY <1>1, <1>3, <1>5

LEMMA StepIInv == ASSUME IInv, [Next]_vars PROVE IInv'
<1>1. CASE UNCHANGED vars
  <2> USE DEF IInv
  <2>1. UNCHANGED guardVars /\ UNCHANGED toolkitVars
    BY <1>1 DEF vars
  <2>2. GuardTypeOK' /\ AtMostTwice' /\ \A c \in Calls : Blocked(c)' = Blocked(c)
    BY <2>1, GuardUnchanged
  <2>3. TypeOK'
    BY <2>1, <2>2 DEF toolkitVars, TypeOK
  <2>4. DirectHasNone' /\ RepairsAreLeft' /\ OutcomeLimitIsIdle'
    BY <2>1 DEF toolkitVars, DirectHasNone, RepairsAreLeft, OutcomeLimitIsIdle
  <2>5. PendingIsOpen'
    <3>1. \A i \in DOMAIN pending : pending[i] \in Calls
      BY DEF TypeOK
    <3> QED BY <2>1, <2>2, <3>1 DEF toolkitVars, PendingIsOpen
  <2> QED BY <2>2, <2>3, <2>4, <2>5
<1>2. CASE \E s \in Proposals : Accept(s)
  BY <1>2, AcceptStep
<1>3. CASE Malformed \/ (\E s \in Proposals : Refuse(s)) \/ GiveUp
  BY <1>3, QuietStep
<1>4. CASE ExecuteNext
  BY <1>4, ExecuteNextStep
<1>5. CASE \E c \in Calls : ExecuteDirectly(c)
  BY <1>5, ExecuteDirectlyStep
<1> QED BY <1>1, <1>2, <1>3, <1>4, <1>5 DEF Next

(* Every reachable state satisfies the inductive invariant.                *)
THEOREM Invariant == Spec => []IInv
<1>1. Init => IInv
  BY InitIInv
<1>2. IInv /\ [Next]_vars => IInv'
  BY StepIInv
<1> QED BY <1>1, <1>2, PTL DEF Spec

(* Whatever the calls, the results and the limits are, the state keeps its *)
(* types: no count leaves its range.                                       *)
THEOREM Typed == Spec => []TypeOK
<1>1. IInv => TypeOK
  BY DEF IInv
<1> QED BY <1>1, Invariant, PTL

(* A limit of three or more on identical outcomes, as the default of four, *)
(* stops no run that goes through the toolkit.                             *)
THEOREM OutcomeLimit == Spec => []OutcomeLimitIsIdle
<1>1. IInv => OutcomeLimitIsIdle
  BY DEF IInv
<1> QED BY <1>1, Invariant, PTL

(* A call the guard has accepted with its proposal is not turned down when *)
(* its turn comes, for any toolkit and any number of calls.                *)
THEOREM AcceptedCalls == Spec => AcceptedIsExecuted
<1>1. ASSUME IInv, [Next]_vars, pending # <<>>, terminal = None
      PROVE  vars' = vars \/ last'.how # "rejected"
  <2>1. CASE ExecuteNext
    <3> DEFINE c == Head(pending)
    <3>1. pending \in Seq(Calls) /\ c = pending[1] /\ 1 \in DOMAIN pending
      BY <1>1 DEF IInv, TypeOK
    <3>2. ~ Blocked(c)
      BY <1>1, <3>1 DEF IInv, PendingIsOpen
    <3>3. ReadWorkspace(c) \/ Call(c)
      BY <2>1 DEF ExecuteNext
    <3> QED BY <3>2, <3>3
            DEF ReadWorkspace, Call, AnswerStopped, Reject, Raise, Return, Became
  <2>2. CASE GiveUp
    BY <2>2 DEF GiveUp, NoCall
  <2>3. ~ Malformed /\ ~ (\E s \in Proposals : Accept(s) \/ Refuse(s))
    BY <1>1 DEF Malformed, Accept, Refuse, Choosing
  <2>4. ~ \E c \in Calls : ExecuteDirectly(c)
    BY <1>1 DEF ExecuteDirectly, IInv, DirectHasNone
  <2> QED BY <1>1, <2>1, <2>2, <2>3, <2>4 DEF Next
<1>2. IInv /\ [Next]_vars => [pending # <<>> /\ terminal = None => last'.how # "rejected"]_vars
  BY <1>1
<1> QED BY <1>2, Invariant, PTL DEF Spec, AcceptedIsExecuted

(* The planner has been told of a stop exactly when there is one: whatever *)
(* follows in the proposal, and none is accepted after a stop.             *)
NoticeInv ==
  /\ backend = "proposals" => (told <=> terminal # None)
  /\ StopIsNoticed

(* What a call does to the terminal error it does to what has been told.   *)
LEMMA CallTells ==
  ASSUME NEW c, Call(c), told <=> terminal # None
  PROVE  told' <=> terminal' # None
<1>1. CASE AnswerStopped(c)
  BY <1>1 DEF AnswerStopped
<1>2. CASE Reject(c)
  BY <1>2 DEF Reject, LoopErrors
<1>3. CASE Raise(c)
  BY <1>3 DEF Raise
<1>4. CASE \E r \in Results[c] : Return(c, r)
  BY <1>4 DEF Return
<1> QED BY <1>1, <1>2, <1>3, <1>4 DEF Call

LEMMA NoticeStep ==
  ASSUME NoticeInv, [Next]_vars
  PROVE  NoticeInv'
<1> USE DEF NoticeInv, StopIsNoticed
<1>1. CASE \E s \in Proposals : Accept(s)
  <2>1. terminal = None
    BY <1>1 DEF Accept, Choosing
  <2> QED BY <1>1, <2>1 DEF Accept, Choosing
<1>2. CASE Malformed \/ \E s \in Proposals : Refuse(s)
  <2>1. terminal = None /\ outcome' \in {"running", "repairs_exhausted"}
    BY <1>2 DEF Malformed, Refuse, Repair, Choosing
  <2> QED BY <1>2, <2>1 DEF Malformed, Refuse, Repair
<1>3. CASE ExecuteNext
  <2> DEFINE c == Head(pending)
  <2>1. backend' = backend /\ pending' = Tail(pending) /\ outcome = "running"
    BY <1>3 DEF ExecuteNext
  <2>2. CASE backend = "proposals"
    <3>1. told' <=> terminal' # None
      <4>1. CASE ReadWorkspace(c)
        BY <2>2, <4>1 DEF ReadWorkspace
      <4>2. CASE Call(c)
        BY <2>2, <4>2, CallTells
      <4> QED BY <1>3, <4>1, <4>2 DEF ExecuteNext
    <3>2. /\ Tail(pending) # <<>> => outcome' = "running"
          /\ Tail(pending) = <<>> /\ told' => outcome' = "stopped"
          /\ outcome' = "stopped" => told'
      BY <1>3, <2>1 DEF ExecuteNext
    <3> QED BY <2>1, <2>2, <3>1, <3>2
  <2> QED BY <2>1, <2>2
<1>4. CASE \E c \in Calls : ExecuteDirectly(c)
  BY <1>4 DEF ExecuteDirectly
<1>5. CASE GiveUp
  BY <1>5 DEF GiveUp
<1>6. CASE UNCHANGED vars
  BY <1>6 DEF vars, toolkitVars
<1> QED BY <1>1, <1>2, <1>3, <1>4, <1>5, <1>6 DEF Next

(* The planner never misses that the runtime has stopped the run, and ends *)
(* none as stopped that is not, whatever else the proposal holds behind    *)
(* the call that stopped it (planner.py:1090-1143, runtime.py:91-161).     *)
THEOREM StopsAreNoticed == Spec => []StopIsNoticed
<1>1. Init => NoticeInv
  BY DEF Init, NoticeInv, StopIsNoticed
<1>2. NoticeInv /\ [Next]_vars => NoticeInv'
  BY NoticeStep
<1>3. NoticeInv => StopIsNoticed
  BY DEF NoticeInv
<1> QED BY <1>1, <1>2, <1>3, PTL DEF Spec

-----------------------------------------------------------------------------
(* What is remembered of a call, and of a failure family.                  *)

(* The last action and everything executed after it is in "since"; nothing *)
(* older is held against a call.                                           *)
SinceInv ==
  \A c \in Calls : FailedBefore(c) \/ lastByCall[c].environment => c \in since

(* The scope of a proposal is open at least until its last call.           *)
ScopeInv ==
  /\ Len(pending) <= remaining
  /\ backend = "direct" => remaining = 0 /\ counted = {}

(* The planner has been warned of a family that is beyond its limit, and   *)
(* of one that its next failure will take there.                           *)
FamilyInv ==
  \A f \in FailureFamilies :
    /\ familyRepeats[f] > MaxRepeatedFailureFamilies => f \in warned
    /\ familyRepeats[f] >= MaxRepeatedFailureFamilies => f \in warned \cup counted

(* A call is held against the planner only when it is executed, and an     *)
(* action that is executed clears what was held before (liveness.py:344).  *)
LEMMA ReturnSince ==
  ASSUME TypeOK, SinceInv, NEW c \in Calls, NEW r \in Results[c], Return(c, r)
  PROVE  SinceInv'
<1>1. r \in ResultType /\ Observe(c, r, remaining > 0)
  BY DEF Return
<1>2. CASE r.finish
  <2>1. UNCHANGED <<lastByCall, recovery>> /\ since \subseteq since'
    BY <1>1, <1>2 DEF Observe, guardVars, Return
  <2> QED BY <2>1 DEF SinceInv, FailedBefore
<1>3. CASE ~ r.finish /\ r.text # None
  <2>1. lastByCall' = lastByCall /\ recovery' \subseteq recovery \cup {c}
    BY <1>1, <1>3 DEF Observe, ObserveError
  <2>2. since' = since \cup {c}
    BY <1>3 DEF Return
  <2> QED BY <2>1, <2>2 DEF SinceInv, FailedBefore
<1>4. CASE ~ r.finish /\ r.text = None /\ IsAction(r)
  <2>1. ObserveAction(c, r) /\ since' = {c}
    BY <1>1, <1>4 DEF Observe, ObserveOutcome, Return
  <2>2. recovery' \subseteq {c}
    BY <2>1 DEF ObserveAction
  <2>3. \A d \in Calls \ {c} : ~ lastByCall'[d].environment
    <3>1. \A d \in Calls : lastByCall[d] \in Stored
      BY DEF TypeOK, GuardTypeOK
    <3>2. ASSUME NEW d \in Calls \ {c} PROVE ~ lastByCall'[d].environment
      <4>1. CASE lastByCall[d].environment
        BY <2>1, <4>1 DEF ObserveAction, NoOutcome
      <4>2. CASE ~ lastByCall[d].environment
        <5>1. lastByCall'[d] = Aged(lastByCall[d], r)
          BY <2>1, <4>2 DEF ObserveAction
        <5>2. lastByCall'[d].environment = lastByCall[d].environment
          BY <1>1, <3>1, <5>1, AgedStored
        <5> QED BY <4>2, <5>2, Zenon
      <4> QED BY <4>1, <4>2
    <3> QED BY <3>2
  <2> QED BY <2>1, <2>2, <2>3 DEF SinceInv, FailedBefore
<1>5. CASE ~ r.finish /\ r.text = None /\ ~ IsAction(r)
  <2>1. ObserveOther(c, r) /\ since' = since \cup {c}
    BY <1>1, <1>5 DEF Observe, ObserveOutcome, Return
  <2>2. \A d \in Calls \ {c} : lastByCall'[d].environment = lastByCall[d].environment
    BY <1>1, <2>1, AgedStored DEF ObserveOther, TypeOK, GuardTypeOK
  <2>3. recovery' = recovery
    BY <2>1 DEF ObserveOther
  <2> QED BY <2>1, <2>2, <2>3 DEF SinceInv, FailedBefore
<1> QED BY <1>2, <1>3, <1>4, <1>5

LEMMA SinceStep ==
  ASSUME TypeOK, SinceInv, [Next]_vars
  PROVE  SinceInv'
<1>1. ASSUME UNCHANGED <<lastByCall, recovery>>, since \subseteq since'
      PROVE  SinceInv'
  BY <1>1 DEF SinceInv, FailedBefore
<1>2. ASSUME NEW c \in Calls, Call(c)
      PROVE  SinceInv'
  BY <1>1, <1>2, ReturnSince DEF Call, AnswerStopped, Reject, Raise, guardVars
<1>3. ASSUME NEW s \in Proposals, Accept(s)
      PROVE  SinceInv'
  BY <1>1, <1>3 DEF Accept
<1>4. CASE Malformed \/ (\E s \in Proposals : Refuse(s)) \/ GiveUp
  BY <1>1, <1>4 DEF Malformed, Refuse, Repair, GiveUp, guardVars
<1>5. CASE ExecuteNext
  <2>1. Head(pending) \in Calls
    BY <1>5 DEF ExecuteNext, TypeOK
  <2>2. CASE ReadWorkspace(Head(pending))
    BY <1>1, <2>2 DEF ReadWorkspace, guardVars
  <2> QED BY <1>2, <1>5, <2>1, <2>2 DEF ExecuteNext
<1>6. ASSUME NEW c \in Calls, ExecuteDirectly(c)
      PROVE  SinceInv'
  BY <1>2, <1>6 DEF ExecuteDirectly
<1>7. CASE UNCHANGED vars
  BY <1>1, <1>7 DEF vars, guardVars, toolkitVars
<1> QED BY <1>3, <1>4, <1>5, <1>6, <1>7 DEF Next

(* A call is turned down as failed before, and the environment read as     *)
(* unchanged, only for what the call did since the last action             *)
(* (liveness.py:344-354), for any calls and any results.                   *)
THEOREM FreshRefusals == Spec => []RefusalIsFresh
<1>1. Init => SinceInv
  BY DEF Init, GuardInit, NoOutcome, SinceInv, FailedBefore
<1>2. TypeOK /\ SinceInv /\ [Next]_vars => SinceInv'
  BY SinceStep
<1>3. SinceInv => RefusalIsFresh
  BY DEF SinceInv, RefusalIsFresh
<1> QED BY <1>1, <1>2, <1>3, Typed, PTL DEF Spec

-----------------------------------------------------------------------------
(* A failure counts once in a proposal, and every time outside of one.     *)
LEMMA ReturnFamilies ==
  ASSUME TypeOK, FamilyInv, NEW c \in Calls, NEW r \in Results[c], Return(c, r)
  PROVE  /\ \A f \in FailureFamilies :
              familyRepeats'[f] > MaxRepeatedFailureFamilies =>
                \/ f \in warned
                \/ remaining = 0 /\ f \in counted
         /\ \A f \in FailureFamilies :
              familyRepeats'[f] >= MaxRepeatedFailureFamilies =>
                \/ f \in warned \cup counted'
                \/ remaining = 0
         /\ remaining = 0 => counted' \subseteq counted
<1>1. r \in ResultType /\ Observe(c, r, remaining > 0)
  BY DEF Return
<1>2. familyRepeats \in [FailureFamilies -> Nat] /\ remaining \in Nat
  BY DEF TypeOK, GuardTypeOK
<1>3. MaxRepeatedFailureFamilies \in Nat \ {0}
  BY DEF Limits
<1>4. CASE UNCHANGED <<familyRepeats, counted>>
  BY <1>2, <1>4 DEF FamilyInv
<1>5. CASE ~ r.finish /\ r.text # None
  <2> DEFINE g == FailureFamily(c, r)
  <2>1. g \in FailureFamilies
    BY <1>1, <1>5, FamilyExists
  <2>2. /\ IF remaining > 0 /\ g \in counted
               THEN familyRepeats' = familyRepeats
               ELSE familyRepeats' = [familyRepeats EXCEPT ![g] = @ + 1]
        /\ counted' = IF remaining > 0 THEN counted \cup {g} ELSE counted
    BY <1>1, <1>5 DEF Observe, ObserveError
  <2> HIDE DEF g
  <2>3. CASE remaining > 0 /\ g \in counted
    BY <1>2, <2>2, <2>3 DEF FamilyInv
  <2>4. CASE ~ (remaining > 0 /\ g \in counted)
    <3>1. \A f \in FailureFamilies :
            familyRepeats'[f] = IF f = g THEN familyRepeats[g] + 1 ELSE familyRepeats[f]
      BY <1>2, <2>1, <2>2, <2>4
    <3>2. familyRepeats[g] \in Nat
      BY <1>2, <2>1
    <3>3. familyRepeats'[g] > MaxRepeatedFailureFamilies
            => g \in warned \/ (remaining = 0 /\ g \in counted)
      BY <1>2, <1>3, <2>1, <2>4, <3>1, <3>2 DEF FamilyInv
    <3>4. familyRepeats'[g] >= MaxRepeatedFailureFamilies => g \in counted' \/ remaining = 0
      BY <1>2, <2>2
    <3>5. \A f \in FailureFamilies \ {g} :
            /\ familyRepeats'[f] > MaxRepeatedFailureFamilies => f \in warned
            /\ familyRepeats'[f] >= MaxRepeatedFailureFamilies => f \in warned \cup counted'
      BY <2>2, <3>1 DEF FamilyInv
    <3> QED BY <1>2, <2>2, <3>3, <3>4, <3>5
  <2> QED BY <2>3, <2>4
<1>6. CASE ~ r.finish /\ r.text = None
  <2>1. ForgetFailures(c)
    BY <1>1, <1>6 DEF Observe, ObserveOutcome
  <2>2. \A f \in FailureFamilies :
          familyRepeats'[f] = IF f \in Forgiven(c) THEN 0 ELSE familyRepeats[f]
    BY <2>1 DEF ForgetFailures
  <2>3. counted' = counted \ Forgiven(c)
    BY <2>1 DEF ForgetFailures
  <2>4. ASSUME NEW f \in FailureFamilies, familyRepeats'[f] >= MaxRepeatedFailureFamilies
        PROVE  f \notin Forgiven(c) /\ familyRepeats'[f] = familyRepeats[f]
    BY <1>3, <2>2, <2>4
  <2>5. ASSUME NEW f \in FailureFamilies
        PROVE  /\ familyRepeats'[f] > MaxRepeatedFailureFamilies => f \in warned
               /\ familyRepeats'[f] >= MaxRepeatedFailureFamilies => f \in warned \cup counted'
    <3>1. familyRepeats'[f] \in Nat
      BY <1>2, <2>2
    <3>2. familyRepeats'[f] > MaxRepeatedFailureFamilies
            => familyRepeats'[f] >= MaxRepeatedFailureFamilies
      BY <1>3, <3>1
    <3> QED BY <2>3, <2>4, <3>2 DEF FamilyInv
  <2> QED BY <2>3, <2>5
<1>7. r.finish => UNCHANGED <<familyRepeats, counted>>
  BY <1>1 DEF Observe, guardVars
<1> QED BY <1>4, <1>5, <1>6, <1>7

(* The run is stopped for a family only by the failure of a call.          *)
LEMMA FamilyStop ==
  ASSUME TypeOK, NEW c \in Calls, Call(c), terminal' = "family", terminal # "family"
  PROVE  \E r \in Results[c] :
           /\ Return(c, r)
           /\ \E f \in FailureFamilies : familyRepeats'[f] > MaxRepeatedFailureFamilies
<1>1. "family" \in LoopErrors /\ None # "family" /\ "rejections" # "family"
  BY DEF LoopErrors
<1>2. PICK r \in Results[c] : Return(c, r)
  BY <1>1 DEF Call, AnswerStopped, Reject, Raise
<1>3. r \in ResultType /\ Stop(c, r) = "family"
  BY <1>1, <1>2 DEF Return
<1>4. ~ r.finish /\ r.text # None /\ ErrorStop(c, r) = "family"
  BY <1>1, <1>3 DEF Stop, OutcomeStop
<1>5. familyRepeats'[FailureFamily(c, r)] > MaxRepeatedFailureFamilies
  BY <1>1, <1>4 DEF ErrorStop
<1>6. FailureFamily(c, r) \in FailureFamilies
  BY <1>3, <1>4, FamilyExists
<1> QED BY <1>2, <1>5, <1>6

(* One call through execute_tool, of either backend.                       *)
LEMMA CallFamilies ==
  ASSUME TypeOK, FamilyInv, NEW c \in Calls, Call(c),
         remaining = 0 => counted = {}
  PROVE  /\ \A f \in FailureFamilies :
              familyRepeats'[f] > MaxRepeatedFailureFamilies => f \in warned
         /\ remaining > 0 =>
              \A f \in FailureFamilies :
                familyRepeats'[f] >= MaxRepeatedFailureFamilies => f \in warned \cup counted'
         /\ remaining = 0 => counted' = {}
<1>1. CASE AnswerStopped(c) \/ Reject(c) \/ Raise(c)
  <2>1. UNCHANGED <<familyRepeats, counted>>
    BY <1>1 DEF AnswerStopped, Reject, Raise, guardVars
  <2> QED BY <2>1 DEF FamilyInv
<1>2. ASSUME NEW r \in Results[c], Return(c, r)
      PROVE  /\ \A f \in FailureFamilies :
                  familyRepeats'[f] > MaxRepeatedFailureFamilies => f \in warned
             /\ remaining > 0 =>
                  \A f \in FailureFamilies :
                    familyRepeats'[f] >= MaxRepeatedFailureFamilies => f \in warned \cup counted'
             /\ remaining = 0 => counted' = {}
  <2>1. remaining \in Nat
    BY DEF TypeOK
  <2> QED BY <1>2, <2>1, ReturnFamilies
<1> QED BY <1>1, <1>2 DEF Call

LEMMA ExecuteNextFamilies ==
  ASSUME IInv, ScopeInv, FamilyInv, ExecuteNext
  PROVE  /\ ScopeInv' /\ FamilyInv'
         /\ terminal' = "family" /\ terminal # "family" =>
              \E f \in warned : familyRepeats'[f] > MaxRepeatedFailureFamilies
<1> DEFINE c == Head(pending)
<1>1. TypeOK /\ backend # "direct" /\ UNCHANGED <<backend, warned>>
  BY DEF IInv, DirectHasNone, ExecuteNext
<1>2. /\ c \in Calls /\ Len(pending) \in Nat \ {0}
      /\ Len(pending') = Len(pending) - 1
      /\ remaining \in Nat /\ remaining > 0
  <2>1. pending \in Seq(Calls) /\ pending # <<>> /\ pending' = Tail(pending) /\ remaining \in Nat
    BY <1>1 DEF ExecuteNext, TypeOK
  <2>2. c \in Calls /\ Len(pending) \in Nat \ {0} /\ Len(pending') = Len(pending) - 1
    BY <2>1
  <2> QED BY <2>1, <2>2 DEF ScopeInv
<1> HIDE DEF c
<1>3. CASE ReadWorkspace(c)
  <2>1. UNCHANGED <<remaining, terminal, familyRepeats, counted>>
    BY <1>3 DEF ReadWorkspace, guardVars
  <2> QED BY <1>1, <1>2, <2>1 DEF ScopeInv, FamilyInv
<1>4. CASE Call(c)
  <2>1. remaining' = remaining - 1
    BY <1>2, <1>4 DEF Call, TakeScope
  <2>2. ScopeInv'
    BY <1>1, <1>2, <2>1 DEF ScopeInv
  <2>3. FamilyInv'
    BY <1>1, <1>2, <1>4, CallFamilies DEF FamilyInv
  <2>4. ASSUME terminal' = "family", terminal # "family"
        PROVE  \E f \in warned : familyRepeats'[f] > MaxRepeatedFailureFamilies
    <3>1. PICK f \in FailureFamilies : familyRepeats'[f] > MaxRepeatedFailureFamilies
      BY <1>1, <1>2, <1>4, <2>4, FamilyStop
    <3> QED BY <1>1, <2>3, <3>1 DEF FamilyInv
  <2> QED BY <2>2, <2>3, <2>4
<1> QED BY <1>3, <1>4 DEF ExecuteNext, c

LEMMA ExecuteDirectlyFamilies ==
  ASSUME IInv, ScopeInv, FamilyInv, NEW c \in Calls, ExecuteDirectly(c)
  PROVE  /\ ScopeInv' /\ FamilyInv'
         /\ terminal' = "family" /\ terminal # "family" =>
              \E f \in warned : familyRepeats'[f] > MaxRepeatedFailureFamilies
<1>1. /\ TypeOK /\ backend = "direct" /\ Call(c) /\ remaining = 0 /\ counted = {}
      /\ UNCHANGED <<backend, pending>> /\ warned' = AtLimit'
  BY DEF IInv, ScopeInv, ExecuteDirectly
<1>2. remaining' = 0
  BY <1>1 DEF Call, TakeScope
<1>3. counted' = {}
  BY <1>1, CallFamilies
<1>4. ScopeInv'
  BY <1>1, <1>2, <1>3 DEF ScopeInv
<1>5. familyRepeats' \in [FailureFamilies -> Nat]
  BY ExecuteDirectlyStep DEF IInv, TypeOK, GuardTypeOK
<1>6. FamilyInv'
  <2>1. MaxRepeatedFailureFamilies \in Nat
    BY DEF Limits
  <2>2. \A f \in FailureFamilies :
          /\ familyRepeats'[f] > MaxRepeatedFailureFamilies
               => familyRepeats'[f] >= MaxRepeatedFailureFamilies
          /\ familyRepeats'[f] >= MaxRepeatedFailureFamilies => f \in warned'
    BY <1>1, <1>5, <2>1 DEF AtLimit
  <2> QED BY <2>2 DEF FamilyInv
<1>7. ASSUME terminal' = "family", terminal # "family"
      PROVE  \E f \in warned : familyRepeats'[f] > MaxRepeatedFailureFamilies
  <2>1. PICK f \in FailureFamilies : familyRepeats'[f] > MaxRepeatedFailureFamilies
    BY <1>1, <1>7, FamilyStop
  <2>2. f \in warned
    BY <1>1, <2>1, CallFamilies
  <2> QED BY <2>1, <2>2
<1> QED BY <1>4, <1>6, <1>7

(* A new proposal opens a new scope, and the planner has just chosen.      *)
LEMMA AcceptFamilies ==
  ASSUME IInv, NEW s \in Proposals, Accept(s)
  PROVE  ScopeInv' /\ FamilyInv' /\ terminal' = terminal
<1>1. /\ familyRepeats \in [FailureFamilies -> Nat] /\ MaxRepeatedFailureFamilies \in Nat
      /\ UNCHANGED <<familyRepeats, backend, terminal>>
      /\ backend = "proposals" /\ warned' = AtLimit
      /\ pending' = Kept(s) /\ remaining' = Len(Kept(s))
  BY DEF IInv, TypeOK, GuardTypeOK, Limits, Accept, Choosing
<1>2. Kept(s) \in Seq(Calls)
  <2>1. s \in Seq(Calls) /\ s[1] \in Calls
    BY DEF Proposals
  <2> QED BY <2>1 DEF Kept
<1>3. ScopeInv'
  <2>1. Len(Kept(s)) \in Nat
    BY <1>2
  <2> QED BY <1>1, <2>1 DEF ScopeInv
<1>4. FamilyInv'
  BY <1>1 DEF FamilyInv, AtLimit
<1> QED BY <1>1, <1>3, <1>4

LEMMA WarnedStep ==
  ASSUME IInv, ScopeInv, FamilyInv, [Next]_vars
  PROVE  /\ ScopeInv' /\ FamilyInv'
         /\ terminal' = "family" /\ terminal # "family" =>
              \E f \in warned : familyRepeats'[f] > MaxRepeatedFailureFamilies
<1>1. CASE Malformed \/ (\E s \in Proposals : Refuse(s))
  <2>1. UNCHANGED <<familyRepeats, counted, warned, terminal, backend, pending>>
    BY <1>1 DEF Malformed, Refuse, Repair, guardVars
  <2>2. pending = <<>> /\ backend = "proposals" /\ remaining' \in {remaining, 0}
    BY <1>1 DEF Malformed, Refuse, Choosing
  <2>3. remaining \in Nat
    BY DEF IInv, TypeOK
  <2>4. Len(pending) = 0
    BY <2>2
  <2> QED BY <2>1, <2>2, <2>3, <2>4 DEF ScopeInv, FamilyInv
<1>2. CASE GiveUp \/ UNCHANGED vars
  <2>1. UNCHANGED <<familyRepeats, counted, warned, terminal, backend, pending, remaining>>
    BY <1>2 DEF GiveUp, vars, guardVars, toolkitVars
  <2> QED BY <2>1 DEF ScopeInv, FamilyInv
<1>3. CASE \E s \in Proposals : Accept(s)
  BY <1>3, AcceptFamilies
<1> QED BY <1>1, <1>2, <1>3, ExecuteNextFamilies, ExecuteDirectlyFamilies DEF Next

(* No run is stopped for a failure family before the planner could choose  *)
(* with the feedback about it, for any limits and any size of a proposal   *)
(* (liveness.py:211-222).                                                  *)
THEOREM WarnedFirst == Spec => WarnedBeforeStopped
<1>1. Init => ScopeInv /\ FamilyInv
  BY DEF Init, GuardInit, ScopeInv, FamilyInv, Limits
<1>2. IInv /\ ScopeInv /\ FamilyInv /\ [Next]_vars
        => /\ ScopeInv' /\ FamilyInv'
           /\ [terminal' = "family" /\ terminal # "family"
                 => \E f \in warned : familyRepeats'[f] > MaxRepeatedFailureFamilies]_vars
  BY WarnedStep
<1> QED BY <1>1, <1>2, Invariant, PTL DEF Spec, WarnedBeforeStopped
=============================================================================
