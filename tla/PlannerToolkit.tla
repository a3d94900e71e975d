---------------------------- MODULE PlannerToolkit ----------------------------
(***************************************************************************)
(* One solve of the planner: PlannerRuntimeToolkit of                      *)
(* rpent-runtime/runtime.py around the robot's toolkit, with the guard of  *)
(* ToolLoopGuard.  The "proposals" backend is the planner of               *)
(* rpent_vllm_user/planner.py, which shows the guard a whole response      *)
(* before it executes it; a "direct" backend executes calls one by one and *)
(* is known only through the interface of the runtime.  The tools of the   *)
(* workspace (CompositeToolSurface of rpent_vllm_user/workspace.py) are    *)
(* proposed like any other and executed beside the runtime.  What the      *)
(* model proposes and what the toolkit returns are arbitrary.              *)
(***************************************************************************)
EXTENDS ToolLoopGuard, Sequences

CONSTANTS
  BatchSafe,           \* the tools of the robot that are marked safe in a batch
  WorkspaceTools,      \* the tools that read the repository, if it is shown
  MaxBatch,            \* calls in one response, at most
  MaxProposalRepairs,  \* rejected responses in a row, at most
  Fallible             \* the calls that may raise instead of returning

LoopErrors == {"family", "identical_errors", "consecutive_errors", "stagnant", "capped",
               "outcomes", "rejections"}

ASSUME ToolkitAssumption ==
  /\ None \notin LoopErrors
  /\ BatchSafe \subseteq Tools \ {"finish"}
  /\ WorkspaceTools \subseteq Tools \ {"finish"}
  /\ MaxBatch \in Nat \ {0}
  /\ MaxProposalRepairs \in Nat
  /\ Fallible \subseteq Calls

VARIABLES
  backend,    \* "proposals" or "direct"
  pending,    \* the calls of the accepted proposal that are not executed yet
  remaining,  \* how many calls still belong to the active proposal
  terminal,   \* the terminal error of the runtime, or None
  told,       \* a result since the last accepted proposal has carried a
              \* planner_loop_error, which is all the planner looks at
  rejections, \* calls rejected in a row at their execution
  repairs,    \* responses rejected in a row
  outcome,    \* "running", or how the solve ended
  last,       \* the call of the last step, if it had one, and what became of it
  warned,     \* the families at their limit when the planner last made a choice
  since       \* the calls executed since the last action, it included

toolkitVars == <<backend, pending, remaining, terminal, told, rejections, repairs, outcome,
                 last, warned, since>>
vars == <<guardVars, toolkitVars>>

(* how is "stopped" or "rejected" for a call that did not reach the        *)
(* toolkit, "raised", "executed" or "finished" for one that did, and       *)
(* "read" for one of the workspace.  useful says that the result told      *)
(* something new or that the action was not seen to be idle.               *)
NoCall == [call |-> None, how |-> "none", useful |-> FALSE]
Became(c, how, useful) == [call |-> c, how |-> how, useful |-> useful]

Proposals == UNION {[1..n -> Calls] : n \in 1..MaxBatch}

Init ==
  /\ GuardInit
  /\ backend \in {"proposals", "direct"}
  /\ pending = <<>> /\ remaining = 0
  /\ terminal = None /\ told = FALSE /\ rejections = 0 /\ repairs = 0
  /\ outcome = "running"
  /\ last = NoCall /\ warned = {} /\ since = {}

-----------------------------------------------------------------------------
(* MultiToolPolicy.validate: nothing is wrong with one call; a response    *)
(* with a repeated call is rejected, of one with a tool that is not safe   *)
(* in a batch only the first call is kept.                                 *)
HasDuplicateNever(s) == FALSE     \* variant for a mutant: the check is dropped
HasDuplicate(s) == \E i, j \in DOMAIN s : i # j /\ s[i] = s[j]
AllSafe(s)      == \A i \in DOMAIN s : ToolOf[s[i]] \in BatchSafe \cup WorkspaceTools
Kept(s)         == IF Len(s) > 1 /\ ~ AllSafe(s) THEN <<s[1]>> ELSE s

(* PlannerRuntimeToolkit.validate_planner_proposal.                        *)
Admitted(s) == \A i \in DOMAIN s : ~ Blocked(s[i])

AtLimit == {f \in FailureFamilies : familyRepeats[f] >= MaxRepeatedFailureFamilies}

Choosing == outcome = "running" /\ backend = "proposals" /\ pending = <<>>

Accept(s) ==
  /\ Choosing
  /\ ~ HasDuplicate(s) /\ Admitted(Kept(s))
  /\ pending' = Kept(s)
  /\ remaining' = Len(Kept(s))
  /\ counted' = {}
  /\ told' = FALSE
  /\ repairs' = 0
  /\ last' = NoCall
  /\ warned' = AtLimit
  /\ UNCHANGED <<lastByCall, lastErrorByCall, familyRepeats, recovery, capped, lastAction,
                 identicalActions, consecutiveErrors, observations, stagnantActions, hasStep,
                 stateSeen, backend, terminal, rejections, outcome, since>>

Repair ==
  /\ repairs' = repairs + 1
  /\ outcome' = IF repairs' > MaxProposalRepairs THEN "repairs_exhausted" ELSE outcome
  /\ last' = NoCall
  /\ UNCHANGED <<guardVars, backend, pending, terminal, told, rejections, warned, since>>

(* A response without calls, with arguments that do not parse, ...         *)
Malformed == Choosing /\ Repair /\ UNCHANGED remaining

Refuse(s) ==
  /\ Choosing
  /\ IF HasDuplicate(s) THEN UNCHANGED remaining
     ELSE ~ Admitted(Kept(s)) /\ remaining' = 0
  /\ Repair

-----------------------------------------------------------------------------
(* PlannerRuntimeToolkit.execute_tool.                                     *)

TakeScope == remaining' = IF remaining > 0 THEN remaining - 1 ELSE 0

AnswerStopped(c) ==
  /\ terminal # None /\ ToolOf[c] # "finish"
  /\ told' = TRUE
  /\ last' = Became(c, "stopped", FALSE)
  /\ UNCHANGED <<guardVars, terminal, rejections, since>>

(* rejections is only compared with its limit, where it saturates.         *)
Reject(c) ==
  /\ terminal = None \/ ToolOf[c] = "finish"
  /\ Blocked(c)
  /\ rejections' = IF rejections < MaxIdenticalErrors THEN rejections + 1 ELSE rejections
  /\ terminal' = IF rejections' >= MaxIdenticalErrors THEN "rejections" ELSE terminal
  /\ told' = (told \/ rejections' >= MaxIdenticalErrors)
  /\ last' = Became(c, "rejected", FALSE)
  /\ UNCHANGED <<guardVars, since>>

Dispatched(c) ==
  /\ terminal = None \/ ToolOf[c] = "finish"
  /\ ~ Blocked(c)
  /\ rejections' = 0

(* The guard does not see a call that raises.                              *)
Raise(c) ==
  /\ Dispatched(c) /\ c \in Fallible
  /\ last' = Became(c, "raised", FALSE)
  /\ since' = since \cup {c}
  /\ UNCHANGED <<guardVars, terminal, told>>

TellsMore(c, r) ==
  /\ r.text = None
  /\ IF IsAction(r) THEN ~ Stagnates(r) ELSE Aged(lastByCall[c], r).result # Fingerprint(r)

Return(c, r) ==
  /\ Dispatched(c) /\ r \in Results[c]
  /\ Observe(c, r, remaining > 0)
  /\ terminal' = IF Stop(c, r) # None THEN Stop(c, r) ELSE terminal
  /\ told' = (told \/ Stop(c, r) # None)
  /\ last' = Became(c, IF r.finish THEN "finished" ELSE "executed", TellsMore(c, r))
  /\ since' = IF ~ r.finish /\ r.text = None /\ IsAction(r) THEN {c} ELSE since \cup {c}

Call(c) ==
  /\ TakeScope
  /\ AnswerStopped(c) \/ Reject(c) \/ Raise(c) \/ \E r \in Results[c] : Return(c, r)

(* Variant for a mutant: only the last result of a proposal counts.        *)
ReadWorkspaceForgets(c) ==
  /\ ToolOf[c] \in WorkspaceTools
  /\ last' = Became(c, "read", FALSE)
  /\ told' = FALSE
  /\ UNCHANGED <<guardVars, remaining, terminal, rejections, since>>

(* A workspace tool is executed without the runtime: no scope is taken, no *)
(* terminal error looked at, and the guard sees neither call nor result.   *)
ReadWorkspace(c) ==
  /\ ToolOf[c] \in WorkspaceTools
  /\ last' = Became(c, "read", FALSE)
  /\ UNCHANGED <<guardVars, remaining, terminal, told, rejections, since>>

IsOfRobot(c) == ToolOf[c] \notin WorkspaceTools

(* The planner executes an accepted proposal to its end and then looks     *)
(* whether a result has told it of a stop or the model has finished.       *)
ExecuteNext ==
  /\ outcome = "running" /\ pending # <<>>
  /\ ReadWorkspace(Head(pending)) \/ (IsOfRobot(Head(pending)) /\ Call(Head(pending)))
  /\ pending' = Tail(pending)
  /\ outcome' = IF Tail(pending) # <<>> THEN outcome
                ELSE IF told' THEN "stopped"
                ELSE IF last'.how = "finished" THEN "finished"
                ELSE outcome
  /\ UNCHANGED <<backend, repairs, warned>>

ExecuteDirectly(c) ==
  /\ outcome = "running" /\ backend = "direct" /\ IsOfRobot(c)
  /\ Call(c)
  /\ outcome' = IF last'.how = "finished" THEN "finished" ELSE outcome
  /\ warned' = AtLimit'
  /\ UNCHANGED <<backend, pending, repairs>>

(* The turns or the time are used up, or the model cannot be reached:      *)
(* the solve ends between two steps, and the runtime puts its own error    *)
(* where the backend has none (PlannerRuntime.solve).                      *)
GiveUp ==
  /\ outcome = "running"
  /\ outcome' = "gave_up"
  /\ last' = NoCall
  /\ UNCHANGED <<guardVars, backend, pending, remaining, terminal, told, rejections, repairs,
                 warned, since>>

Next ==
  \/ \E s \in Proposals : Accept(s)
  \/ \E s \in Proposals : Refuse(s)
  \/ Malformed
  \/ ExecuteNext
  \/ \E c \in Calls : ExecuteDirectly(c)
  \/ GiveUp

(* The model answers, a call returns: a solve that has not ended goes on.  *)
Spec == Init /\ [][Next]_vars
FairSpec == Spec /\ WF_vars(Next)

-----------------------------------------------------------------------------
TypeOK ==
  /\ GuardTypeOK
  /\ backend \in {"proposals", "direct"}
  /\ pending \in Seq(Calls)
  /\ remaining \in Nat /\ rejections \in 0..MaxIdenticalErrors
  /\ repairs \in 0..(MaxProposalRepairs + 1)
  /\ terminal \in LoopErrors \cup {None}
  /\ told \in BOOLEAN
  /\ outcome \in {"running", "stopped", "finished", "gave_up", "repairs_exhausted"}
  /\ last.call \in Calls \cup {None} /\ last.useful \in BOOLEAN
  /\ last.how \in {"none", "stopped", "rejected", "raised", "executed", "finished", "read"}
  /\ warned \subseteq FailureFamilies
  /\ since \subseteq Calls

(* A call of an accepted proposal is not turned down when its turn comes,  *)
(* whatever the calls before it have returned, unless they stopped the run.*)
(* The guard is asked twice, on the proposal and at the execution, with    *)
(* the results of other calls observed in between (runtime.py:74-132).     *)
AcceptedIsExecuted ==
  [][pending # <<>> /\ terminal = None => last'.how # "rejected"]_vars

(* No run is stopped for a failure family before the planner could choose  *)
(* with the feedback about that family in front of it, however many calls  *)
(* of the family one proposal holds (liveness.py:211-222).                 *)
WarnedBeforeStopped ==
  [][terminal' = "family" /\ terminal # "family"
       => \E f \in warned : familyRepeats'[f] > MaxRepeatedFailureFamilies]_vars

(* A call is turned down as failed before, and an environment read as      *)
(* unchanged, only for what it did since the last action: an action of any *)
(* call makes both possible again (liveness.py:344-354).                   *)
RefusalIsFresh ==
  \A c \in Calls :
    FailedBefore(c) \/ (ThirdUnchanged(c) /\ lastByCall[c].environment) => c \in since

(* Two times the same result and a call is turned down, so the limit on    *)
(* identical outcomes, 4 unless it is configured, never stops a run.       *)
OutcomeLimitIsIdle == MaxIdenticalOutcomes >= 3 => terminal # "outcomes"

(* The planner never misses that the runtime has stopped the run: once the *)
(* proposal it was executing is worked off, the model is not asked again   *)
(* and the solve does not count as finished; nor does it end as stopped    *)
(* for another reason.  The planner does not look at the runtime but for   *)
(* one field in the results of the proposal; results after that one may    *)
(* lack it (planner.py:1090-1143, runtime.py:91-161).                      *)
StopIsNoticed ==
  backend = "proposals" =>
    /\ terminal # None => \/ outcome = "running" /\ pending # <<>>
                          \/ outcome \in {"stopped", "gave_up"}
    /\ outcome = "stopped" => terminal # None

(* Without any limit on turns or time, a solve goes on for ever only if it *)
(* goes on to learn something, or to act and not to be seen idle, or if    *)
(* its tools raise or it reads the workspace, which the guard does not     *)
(* see: any other loop of calls that lead nowhere is stopped.              *)
NoFruitlessLoop ==
  \/ <>(outcome # "running" \/ terminal # None)
  \/ []<>(last.useful \/ last.how \in {"raised", "read"})
=============================================================================
