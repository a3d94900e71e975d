---------------------------- MODULE ToolLoopGuard ----------------------------
(***************************************************************************)
(* The liveness policy of rpent-runtime/liveness.py: from the calls and    *)
(* the results it has seen, the guard says which calls may not be made     *)
(* (validate_proposal) and when a run has to stop (observe).  The guard is *)
(* enabled; statistics and the wording of the feedback are left out.       *)
(***************************************************************************)
EXTENDS Naturals, FiniteSets

CONSTANTS
  Calls,               \* tool calls: a tool with its arguments
  ToolOf,              \* ToolOf[c]: the tool of call c
  Results,             \* Results[c]: what call c may return
  States,              \* fingerprints of the observable environment state
  Codes,               \* codes of deterministic failures
  Texts,               \* texts of errors
  Families,            \* families of learned actions
  Prints,              \* what else tells two results apart
  None,                \* "no code", "no text", "no state", ...
  MaxIdenticalErrors, MaxConsecutiveErrors, MaxIdenticalOutcomes,
  MaxRepeatedFailureFamilies, MaxObservationsWithoutAction, MaxStagnantActions,
  MaxConsecutiveIdenticalActions, MaxEquivalentCappedActions

(* What the guard reads in a result.  text is the error, or None, and code *)
(* its code; step places the environment step against the latest one seen; *)
(* acted is an elapsed time or the log of a command of the tool itself;    *)
(* outcome, family and success come from the tool's planner_progress.      *)
ResultType ==
  [text : Texts \cup {None}, code : Codes \cup {None}, finish : BOOLEAN,
   state : States \cup {None}, step : {"none", "earlier", "same", "later"},
   acted : BOOLEAN, outcome : {"none", "observed", "budget_exhausted"},
   family : Families \cup {None}, success : BOOLEAN, print : Prints]

Limits == {MaxIdenticalErrors, MaxConsecutiveErrors, MaxIdenticalOutcomes,
           MaxRepeatedFailureFamilies, MaxObservationsWithoutAction, MaxStagnantActions,
           MaxConsecutiveIdenticalActions, MaxEquivalentCappedActions}

(* The limits are those __post_init__ accepts.                             *)
ASSUME GuardAssumption ==
  /\ None \notin Calls \cup States \cup Codes \cup Texts \cup Families \cup ResultType
  /\ \A c \in Calls : Results[c] \subseteq ResultType
  /\ Limits \subseteq Nat \ {0}

Tools == {ToolOf[c] : c \in Calls}

VARIABLES
  lastByCall,      \* lastByCall[c]: the last result of c, and how often in a row
  lastErrorByCall, \* the same for its errors
  familyRepeats,   \* familyRepeats[f]: failures in the failure family f
  counted,         \* the families already counted for the active proposal
  recovery,        \* the calls that must not be repeated as they are
  capped,          \* capped[a]: executions of action family a that hit their budget
  lastAction,      \* the last call that changed the environment
  identicalActions,\* how often it was executed in a row
  consecutiveErrors,
  observations,    \* environment reads since the last feedback about them
  stagnantActions,
  hasStep,         \* an environment step has been seen
  stateSeen        \* the fingerprint of the environment state seen last

guardVars == <<lastByCall, lastErrorByCall, familyRepeats, counted, recovery, capped,
               lastAction, identicalActions, consecutiveErrors, observations,
               stagnantActions, hasStep, stateSeen>>

(* _ToolOutcome, and the absence of one. *)
NoOutcome == [result |-> None, repeats |-> 0, environment |-> FALSE]
Stored == {NoOutcome} \cup [result : ResultType, repeats : Nat \ {0}, environment : BOOLEAN]

(* _failure_family_key: the code, or the text when there is none.          *)
FailureFamilies == Tools \X ({"code"} \X Codes \cup {"error"} \X Texts)
FailureFamily(c, r) ==
  <<ToolOf[c], IF r.code # None THEN <<"code", r.code>> ELSE <<"error", r.text>> >>

(* reset, before every solve.                                              *)
GuardInit ==
  /\ lastByCall = [c \in Calls |-> NoOutcome]
  /\ lastErrorByCall = [c \in Calls |-> NoOutcome]
  /\ familyRepeats = [f \in FailureFamilies |-> 0]
  /\ counted = {}
  /\ recovery = {}
  /\ capped = [a \in Families |-> 0]
  /\ lastAction = None
  /\ identicalActions = 0
  /\ consecutiveErrors = 0
  /\ observations = 0
  /\ stagnantActions = 0
  /\ hasStep = FALSE
  /\ stateSeen = None

-----------------------------------------------------------------------------
(* validate_proposal, for one call. *)
FailedBefore(c)   == c \in recovery
ActedTooOften(c)  == c = lastAction /\ identicalActions >= MaxConsecutiveIdenticalActions
ThirdUnchanged(c) == lastByCall[c].repeats >= 2

Blocked(c) == FailedBefore(c) \/ ActedTooOften(c) \/ ThirdUnchanged(c)

-----------------------------------------------------------------------------
(* observe. *)

(* The fingerprint of a result; a stored one grows old when the            *)
(* environment takes another step.                                         *)
Fingerprint(r) == IF r.step = "later" THEN [r EXCEPT !.step = "same"] ELSE r

Aged(o, r) ==
  IF r.step = "later" /\ o # NoOutcome /\ o.result.step = "same"
    THEN [o EXCEPT !.result.step = "earlier"]
    ELSE o

(* Variant for a mutant: the same result again counts as the first.        *)
AgainFirst(o, r) == [result |-> Fingerprint(r), repeats |-> 1, environment |-> FALSE]

Again(o, r) ==
  [result |-> Fingerprint(r),
   repeats |-> IF Aged(o, r).result = Fingerprint(r) THEN o.repeats + 1 ELSE 1,
   environment |-> FALSE]

(* Variant for a mutant: every call of a proposal counts.                  *)
ObserveErrorEachTime(c, r, inProposal) ==
  LET f == FailureFamily(c, r) IN
  /\ consecutiveErrors' = consecutiveErrors + 1
  /\ lastErrorByCall' = [lastErrorByCall EXCEPT ![c] = Again(@, r)]
  /\ recovery' = IF r.code # None THEN recovery \cup {c} ELSE recovery
  /\ familyRepeats' = [familyRepeats EXCEPT ![f] = @ + 1]
  /\ counted' = IF inProposal THEN counted \cup {f} ELSE counted
  /\ UNCHANGED <<lastByCall, capped, lastAction, identicalActions, observations,
                 stagnantActions, hasStep, stateSeen>>

(* A proposal with several calls of one family counts once; a call that    *)
(* belongs to no proposal always counts.                                   *)
ObserveError(c, r, inProposal) ==
  LET f == FailureFamily(c, r) IN
  /\ consecutiveErrors' = consecutiveErrors + 1
  /\ lastErrorByCall' = [lastErrorByCall EXCEPT ![c] = Again(@, r)]
  /\ recovery' = IF r.code # None THEN recovery \cup {c} ELSE recovery
  /\ IF inProposal /\ f \in counted
       THEN UNCHANGED familyRepeats
       ELSE familyRepeats' = [familyRepeats EXCEPT ![f] = @ + 1]
  /\ counted' = IF inProposal THEN counted \cup {f} ELSE counted
  /\ UNCHANGED <<lastByCall, capped, lastAction, identicalActions, observations,
                 stagnantActions, hasStep, stateSeen>>

(* A tool that works again takes its failure families with it; a reset     *)
(* takes all.                                                              *)
Forgiven(c) == {f \in FailureFamilies : ToolOf[c] = "reset" \/ f[1] = ToolOf[c]}

ForgetFailures(c) ==
  /\ familyRepeats' = [f \in FailureFamilies |-> IF f \in Forgiven(c) THEN 0 ELSE familyRepeats[f]]
  /\ counted' = counted \ Forgiven(c)

(* _is_environment_action. *)
IsAction(r) ==
  /\ r.outcome # "observed"
  /\ r.acted \/ (r.step = "later" /\ hasStep)

Stagnates(r) ==
  IsAction(r) /\ ~ r.success /\ stateSeen # None /\ r.state = stateSeen

(* Variant for a mutant: environment reads survive an action.              *)
ObserveActionKeepsReads(c, r) ==
  /\ lastByCall' =
       [d \in Calls |-> IF d = c THEN Again(lastByCall[c], r) ELSE Aged(lastByCall[d], r)]
  /\ lastErrorByCall' = [d \in Calls |-> NoOutcome]
  /\ recovery' = IF Stagnates(r) THEN {c} ELSE {}
  /\ observations' = 0
  /\ stagnantActions' = IF Stagnates(r) THEN stagnantActions + 1 ELSE 0
  /\ IF r.success
       THEN lastAction' = None /\ identicalActions' = 0
       ELSE /\ lastAction' = c
            /\ identicalActions' = IF c = lastAction THEN identicalActions + 1 ELSE 1

(* The part of _observe_progress for an action: what was read before is    *)
(* stale, what failed before may be tried again, but for an action that    *)
(* changed nothing.                                                        *)
ObserveAction(c, r) ==
  /\ lastByCall' =
       [d \in Calls |-> IF d = c THEN Again(lastByCall[c], r)
                        ELSE IF lastByCall[d].environment THEN NoOutcome
                        ELSE Aged(lastByCall[d], r)]
  /\ lastErrorByCall' = [d \in Calls |-> NoOutcome]
  /\ recovery' = IF Stagnates(r) THEN {c} ELSE {}
  /\ observations' = 0
  /\ stagnantActions' = IF Stagnates(r) THEN stagnantActions + 1 ELSE 0
  /\ IF r.success
       THEN lastAction' = None /\ identicalActions' = 0
       ELSE /\ lastAction' = c
            /\ identicalActions' = IF c = lastAction THEN identicalActions + 1 ELSE 1

(* The part for anything else.  Of the count of environment reads only the *)
(* remainder matters: at 0 there is feedback about them.                   *)
IsRead(r) == ~ IsAction(r) /\ (r.step # "none" \/ r.state # None)

ObserveOther(c, r) ==
  /\ lastByCall' =
       [d \in Calls |-> IF d = c THEN [Again(lastByCall[c], r) EXCEPT !.environment = IsRead(r)]
                        ELSE Aged(lastByCall[d], r)]
  /\ observations' =
       IF IsRead(r) THEN (observations + 1) % MaxObservationsWithoutAction ELSE observations
  /\ UNCHANGED <<lastErrorByCall, recovery, stagnantActions, lastAction, identicalActions>>

(* _observe_equivalent_capped_action. *)
IsCapped(r) == r.outcome = "budget_exhausted" /\ ~ r.success /\ r.family # None

ObserveOutcome(c, r) ==
  /\ consecutiveErrors' = 0
  /\ ForgetFailures(c)
  /\ IF IsAction(r) THEN ObserveAction(c, r) ELSE ObserveOther(c, r)
  /\ capped' = IF IsCapped(r) THEN [capped EXCEPT ![r.family] = @ + 1] ELSE capped
  /\ hasStep' = (hasStep \/ r.step # "none")
  /\ stateSeen' = IF r.state # None THEN r.state ELSE stateSeen

Observe(c, r, inProposal) ==
  IF r.finish THEN UNCHANGED guardVars
  ELSE IF r.text # None THEN ObserveError(c, r, inProposal)
  ELSE ObserveOutcome(c, r)

-----------------------------------------------------------------------------
(* The loop error observe returns, if any, named for the limit it is about.*)
ErrorStop(c, r) ==
  IF familyRepeats'[FailureFamily(c, r)] > MaxRepeatedFailureFamilies THEN "family"
  ELSE IF lastErrorByCall'[c].repeats >= MaxIdenticalErrors THEN "identical_errors"
  ELSE IF consecutiveErrors' >= MaxConsecutiveErrors THEN "consecutive_errors"
  ELSE None

(* Identical outcomes are looked at only when nothing else was to be said. *)
OtherFeedback(r) ==
  \/ Stagnates(r)
  \/ IsRead(r) /\ observations' = 0
  \/ IsCapped(r) /\ capped'[r.family] >= 2

OutcomeStop(c, r) ==
  IF Stagnates(r) /\ stagnantActions' >= MaxStagnantActions THEN "stagnant"
  ELSE IF IsCapped(r) /\ capped'[r.family] >= 2 /\ capped'[r.family] >= MaxEquivalentCappedActions
    THEN "capped"
  ELSE IF ~ OtherFeedback(r) /\ lastByCall'[c].repeats >= 2
          /\ lastByCall'[c].repeats >= MaxIdenticalOutcomes
    THEN "outcomes"
  ELSE None

Stop(c, r) ==
  IF r.finish THEN None
  ELSE IF r.text # None THEN ErrorStop(c, r) ELSE OutcomeStop(c, r)

GuardTypeOK ==
  /\ lastByCall \in [Calls -> Stored]
  /\ lastErrorByCall \in [Calls -> Stored]
  /\ familyRepeats \in [FailureFamilies -> Nat]
  /\ counted \subseteq FailureFamilies
  /\ recovery \subseteq Calls
  /\ capped \in [Families -> Nat]
  /\ lastAction \in Calls \cup {None}
  /\ identicalActions \in Nat /\ consecutiveErrors \in Nat
  /\ observations \in Nat /\ stagnantActions \in Nat
  /\ hasStep \in BOOLEAN
  /\ stateSeen \in States \cup {None}
=============================================================================
