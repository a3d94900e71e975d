---------------------------- MODULE PlannerSolve ----------------------------
(***************************************************************************)
(* ModelApiUtilsPlanner.solve of rpent_vllm_user/planner.py with a         *)
(* Dashboard attached: the worker thread that asks the model and executes  *)
(* the calls it proposes (_solve_loop), the thread of solve that waits for *)
(* it until the deadline, the monitor thread of                            *)
(* _VllmDashboardConversation that turns an interrupt or the replacement   *)
(* of the task into a stop, and the user.  Requests and responses are      *)
(* reduced to what decides where the loop goes; RequestHistory models what *)
(* a request contains, PlannerToolkit how calls are admitted.              *)
(***************************************************************************)
EXTENDS Naturals

CONSTANTS
  MaxMessages,         \* bound: messages the user submits
  MaxTurns,            \* max_turns
  MaxBatch,            \* calls of one response, at most
  MaxProposalRepairs   \* rejected responses in a row, at most

ASSUME SolveAssumption ==
  /\ MaxMessages \in Nat
  /\ MaxTurns \in Nat \ {0}
  /\ MaxBatch \in Nat \ {0}
  /\ MaxProposalRepairs \in Nat

Messages == 1 .. MaxMessages

VARIABLES
  (* DashboardInteractionPort, known from its use and from the double the  *)
  (* tests put in its place                                                *)
  activity,        \* "starting", "busy" or "ended"
  accepting,       \* the port takes messages
  status,          \* status[m]
  interrupt,       \* an interrupt is requested and not claimed
  inFlight,        \* an interrupt is claimed and not completed
  replacement,     \* the task is to be replaced
  (* _VllmDashboardConversation *)
  claimed,         \* _claimed: the messages of the request in preparation
  done,            \* _done
  stopKind,        \* _stop_kind, and "none" while _stop_requested is not set
  stopObserved,    \* _stop_observed
  cancelDone,      \* _cancel_done
  cancelError,     \* _cancel_error is set
  monitor,         \* where the monitor thread is
  (* solve *)
  main,            \* where the calling thread is
  stopEvent,       \* stop_event
  late,            \* the deadline has passed
  (* _solve_loop *)
  worker,          \* where the worker thread is
  turn,            \* turn
  repairs,         \* consecutive_repairs
  retrying,        \* context_overflow_retry
  batch,           \* calls of the accepted response still to be executed
  ending,          \* what the results of the batch ask for: "no", "finish" or "loop"
  result,          \* how _solve_loop returned
  (* toolkit *)
  tool,            \* the active call: "idle", "running" or "cancelled"
  (* history variables *)
  contained,       \* messages that are in request_messages
  answered,        \* messages in a request that the model answered
  lateCalls        \* calls that started after the solve was to stop, at most 2

portVars == <<activity, accepting, status, interrupt, inFlight, replacement>>
stopVars == <<stopKind, stopObserved, cancelDone, cancelError>>
loopVars == <<turn, repairs, retrying, batch, ending, result>>
noteVars == <<contained, answered, lateCalls>>
vars == <<portVars, claimed, done, stopVars, monitor, main, stopEvent, late, worker, loopVars,
          tool, noteVars>>

FlagsTyped ==
  /\ accepting \in BOOLEAN /\ interrupt \in BOOLEAN /\ inFlight \in BOOLEAN
  /\ replacement \in BOOLEAN /\ done \in BOOLEAN /\ stopObserved \in BOOLEAN
  /\ cancelDone \in BOOLEAN /\ cancelError \in BOOLEAN /\ stopEvent \in BOOLEAN
  /\ late \in BOOLEAN /\ retrying \in BOOLEAN

PlacesTyped ==
  /\ activity \in {"starting", "busy", "ended"}
  /\ status \in [Messages -> {"none", "pending", "sending", "sent", "failed", "unsent"}]
  /\ claimed \subseteq contained /\ contained \subseteq Messages /\ answered \subseteq contained
  /\ stopKind \in {"none", "interrupt", "replacement"}
  /\ monitor \in {"none", "watching", "interrupt", "replacement", "looping", "waiting", "gone"}
  /\ main \in {"joining", "cancelling", "waiting", "grace", "sealing", "returned"}
  /\ worker \in {"setup", "opening", "shutting", "top", "claiming", "preparing", "sending",
                 "asking", "diagnosing", "answered", "acknowledged", "reading", "reclaiming",
                 "validating", "calling", "starting", "executing", "returned", "stopping",
                 "closing", "over"}
  /\ turn \in 1 .. MaxTurns /\ repairs \in 0 .. MaxProposalRepairs
  /\ batch \in 0 .. MaxBatch /\ ending \in {"no", "finish", "loop"}
  /\ result \in {"none", "error", "timeout", "stopped", "loop", "finished"}
  /\ tool \in {"idle", "running", "cancelled"}
  /\ lateCalls \in 0 .. 2

TypeOK == FlagsTyped /\ PlacesTyped

Init ==
  /\ activity = "starting" /\ accepting = FALSE
  /\ status = [m \in Messages |-> "none"]
  /\ interrupt = FALSE /\ inFlight = FALSE /\ replacement = FALSE
  /\ claimed = {} /\ done = FALSE
  /\ stopKind = "none" /\ stopObserved = FALSE /\ cancelDone = FALSE /\ cancelError = FALSE
  /\ monitor = "none" /\ main = "joining" /\ stopEvent = FALSE /\ late = FALSE
  /\ worker = "setup" /\ turn = 1 /\ repairs = 0 /\ retrying = FALSE
  /\ batch = 0 /\ ending = "no" /\ result = "none"
  /\ tool = "idle"
  /\ contained = {} /\ answered = {} /\ lateCalls = 0

-----------------------------------------------------------------------------
(* The user, through the Dashboard, and the clock.                         *)

Submit(m) ==
  /\ accepting
  /\ status[m] = "none" /\ \A k \in 1 .. m - 1 : status[k] # "none"
  /\ status' = [status EXCEPT ![m] = "pending"]
  /\ UNCHANGED <<activity, accepting, interrupt, inFlight, replacement, claimed, done, stopVars,
                 monitor, main, stopEvent, late, worker, loopVars, tool, noteVars>>

RequestInterrupt ==
  /\ activity # "ended" /\ ~ interrupt
  /\ interrupt' = TRUE
  /\ UNCHANGED <<activity, accepting, status, inFlight, replacement, claimed, done, stopVars,
                 monitor, main, stopEvent, late, worker, loopVars, tool, noteVars>>

RequestReplacement ==
  /\ activity # "ended" /\ ~ replacement
  /\ replacement' = TRUE /\ accepting' = FALSE
  /\ UNCHANGED <<activity, status, interrupt, inFlight, claimed, done, stopVars, monitor, main,
                 stopEvent, late, worker, loopVars, tool, noteVars>>

DeadlinePasses ==
  /\ ~ late /\ late' = TRUE
  /\ UNCHANGED <<portVars, claimed, done, stopVars, monitor, main, stopEvent, worker, loopVars,
                 tool, noteVars>>

-----------------------------------------------------------------------------
(* The lifecycle lock.  Only the worker holds it over several steps.       *)
LockFree == worker \notin {"opening", "shutting", "claiming", "reclaiming"}

(* end(), and what the port does when the interaction is sealed.           *)
End ==
  /\ done' = TRUE
  /\ stopObserved' = TRUE
  /\ IF done THEN UNCHANGED <<activity, accepting, status>>
     ELSE /\ activity' = "ended" /\ accepting' = FALSE
          /\ status' = [m \in Messages |-> IF status[m] \in {"pending", "sending"}
                                           THEN "unsent" ELSE status[m]]
  /\ UNCHANGED <<interrupt, inFlight, replacement, stopKind, cancelDone, cancelError>>

-----------------------------------------------------------------------------
(* The worker.  Goes(at, next) moves it; a step that returns from          *)
(* _solve_loop leaves it at "closing", the finally clause of _solve.       *)

StopRequested == stopKind # "none"
ToldToStop    == StopRequested \/ stopEvent \/ late

(* Variant for a mutant: between its steps the loop looks at the clock only.*)
MustStopOnTime == stopEvent \/ late

MustStop == ToldToStop

Goes(at, next) ==
  /\ worker = at /\ worker' = next
  /\ UNCHANGED <<activity, accepting, interrupt, inFlight, replacement, done, stopKind,
                 cancelDone, cancelError, main, stopEvent, late>>

Idle == UNCHANGED <<status, claimed, stopObserved, monitor, loopVars, tool, noteVars>>

(* The locals of _solve_loop are dead when it returns.                     *)
DropLocals == turn' = 1 /\ repairs' = 0 /\ retrying' = FALSE /\ batch' = 0 /\ ending' = "no"

Returns(at, how) ==
  /\ Goes(at, "closing")
  /\ result' = how /\ DropLocals
  /\ UNCHANGED <<stopObserved, monitor, tool, noteVars>>

(* stopped_result() of the loop, where it does not return None: a stop is  *)
(* observed and waited for, a timeout returns.                             *)
StopsHere(at) ==
  /\ MustStop
  /\ IF StopRequested
     THEN /\ Goes(at, "stopping")
          /\ stopObserved' = TRUE
          /\ DropLocals
          /\ UNCHANGED <<monitor, result, tool, noteVars>>
     ELSE Returns(at, "timeout")

Stops(at) == StopsHere(at) /\ UNCHANGED <<status, claimed>>

GoesUnlessStopped(at, next) == Goes(at, next) /\ ~ MustStop /\ Idle

(* fail_request                                                            *)
FailClaimed ==
  /\ claimed' = {}
  /\ status' = IF done THEN status
               ELSE [m \in Messages |-> IF m \in claimed THEN "failed" ELSE status[m]]

NextTurn(at, used) ==
  /\ IF turn < MaxTurns
     THEN /\ Goes(at, "top")
          /\ turn' = turn + 1 /\ repairs' = used /\ retrying' = FALSE
          /\ UNCHANGED <<stopObserved, monitor, batch, ending, result, tool, noteVars>>
     ELSE Returns(at, "error")
  /\ UNCHANGED <<status, claimed>>

(* The tool surface cannot be composed, or is empty.                       *)
SetupFails == Returns("setup", "error") /\ UNCHANGED <<status, claimed>>

(* start(): whether input is accepted is read from the port before it is   *)
(* set there.                                                              *)
SetUp ==
  /\ IF done THEN Goes("setup", "top")
     ELSE Goes("setup", IF replacement THEN "shutting" ELSE "opening")
  /\ Idle

Open ==
  /\ worker \in {"opening", "shutting"}
  /\ activity' = "busy" /\ accepting' = (worker = "opening")
  /\ monitor' = "watching"
  /\ worker' = "top"
  /\ UNCHANGED <<status, interrupt, inFlight, replacement, claimed, done, stopVars, main,
                 stopEvent, late, loopVars, tool, noteVars>>

BeginTurn == GoesUnlessStopped("top", "claiming")

(* claim_messages, one message at a time, at both of its calls.            *)
Claimable == {m \in Messages : status[m] = "pending"}
ClaimsAny == ~ done /\ ~ StopRequested /\ ~ interrupt /\ ~ replacement /\ Claimable # {}

Claim ==
  /\ worker \in {"claiming", "reclaiming"} /\ ClaimsAny
  /\ \E m \in Claimable :
       /\ \A k \in Claimable : m <= k
       /\ status' = [status EXCEPT ![m] = "sending"]
       /\ claimed' = claimed \cup {m}
       /\ contained' = contained \cup {m}
  /\ UNCHANGED <<activity, accepting, interrupt, inFlight, replacement, done, stopVars, monitor,
                 main, stopEvent, late, worker, loopVars, tool, answered, lateCalls>>

ClaimedForRequest == ~ ClaimsAny /\ Goes("claiming", "preparing") /\ Idle

(* The request is brought within its budgets, or cannot be.                *)
Prepare == Goes("preparing", "sending") /\ Idle

PrepareFails ==
  \/ ~ retrying /\ Returns("preparing", "error") /\ FailClaimed
  \/ /\ retrying /\ FailClaimed
     /\ StopsHere("preparing") \/ (~ MustStop /\ Returns("preparing", "error"))

(* Variant for a mutant: messages are acknowledged when the request leaves.*)
SendAndAcknowledge ==
  /\ ~ late /\ Goes("sending", "asking")
  /\ claimed' = {}
  /\ status' = [m \in Messages |-> IF m \in claimed THEN "sent" ELSE status[m]]
  /\ UNCHANGED <<stopObserved, monitor, loopVars, tool, noteVars>>

Send ==
  \/ ~ late /\ Goes("sending", "asking") /\ Idle
  \/ late /\ Returns("sending", "timeout") /\ UNCHANGED <<status, claimed>>

ModelAnswers ==
  /\ Goes("asking", "answered")
  /\ answered' = contained
  /\ UNCHANGED <<status, claimed, stopObserved, monitor, loopVars, tool, contained, lateCalls>>

(* client.chat raises.  A first error is looked at in two steps, between   *)
(* which a stop may be requested; the error of the retry ends the solve.   *)
RequestFails ==
  IF retrying
  THEN FailClaimed /\ (StopsHere("asking") \/ (~ MustStop /\ Returns("asking", "error")))
  ELSE IF StopRequested THEN FailClaimed /\ StopsHere("asking")
  ELSE Goes("asking", "diagnosing") /\ Idle

Diagnose ==
  \/ (stopEvent \/ late) /\ Stops("diagnosing")
  \/ ~ stopEvent /\ ~ late /\ Returns("diagnosing", "error") /\ FailClaimed

(* The context was too long: one more try, with less of it.                *)
RetryOverflow ==
  /\ ~ stopEvent /\ ~ late
  /\ Goes("diagnosing", "preparing")
  /\ retrying' = TRUE
  /\ UNCHANGED <<status, claimed, stopObserved, monitor, turn, repairs, batch, ending, result,
                 tool, noteVars>>

(* Variant for a mutant: messages are settled after the conversation has   *)
(* ended, when the Dashboard has been told that they were not sent.        *)
AcknowledgeAlways ==
  /\ Goes("answered", "acknowledged")
  /\ claimed' = {}
  /\ status' = [m \in Messages |-> IF m \in claimed THEN "sent" ELSE status[m]]
  /\ UNCHANGED <<stopObserved, monitor, loopVars, tool, noteVars>>

(* acknowledge_request                                                     *)
Acknowledge ==
  /\ Goes("answered", "acknowledged")
  /\ claimed' = {}
  /\ status' = IF done THEN status
               ELSE [m \in Messages |-> IF m \in claimed THEN "sent" ELSE status[m]]
  /\ UNCHANGED <<stopObserved, monitor, loopVars, tool, noteVars>>

Acknowledged == GoesUnlessStopped("acknowledged", "reading")

(* A response that cannot be used: feedback goes into the next request.    *)
Repair(at) ==
  IF repairs < MaxProposalRepairs THEN NextTurn(at, repairs + 1)
  ELSE Returns(at, "error") /\ UNCHANGED <<status, claimed>>

(* _assistant_message: without a tool call the response is not looked at   *)
(* again, and messages that came meanwhile wait for the next turn.         *)
Read == (Goes("reading", "reclaiming") /\ Idle) \/ Repair("reading")

(* Variant for a mutant: the response is used although input superseded it.*)
ReclaimedAndIgnored == ~ ClaimsAny /\ Goes("reclaiming", "validating") /\ Idle

(* Input that came while the model answered supersedes the response.       *)
Reclaimed ==
  /\ worker = "reclaiming" /\ ~ ClaimsAny
  /\ IF claimed = {} THEN Goes("reclaiming", "validating") /\ Idle
     ELSE NextTurn("reclaiming", repairs)

(* The calls are parsed and checked against the schemas, the batch policy  *)
(* and the guard; anything but a refusal ends the solve.                   *)
Validate ==
  \/ Repair("validating")
  \/ Returns("validating", "error") /\ UNCHANGED <<status, claimed>>
  \/ \E n \in 1 .. MaxBatch :
       /\ Goes("validating", "calling")
       /\ repairs' = 0 /\ batch' = n /\ ending' = "no"
       /\ UNCHANGED <<status, claimed, stopObserved, monitor, turn, retrying, result, tool,
                      noteVars>>

BeginCall == GoesUnlessStopped("calling", "starting")

StartCall ==
  /\ Goes("starting", "executing")
  /\ tool' = "running"
  /\ lateCalls' = IF ToldToStop /\ lateCalls < 2 THEN lateCalls + 1 ELSE lateCalls
  /\ UNCHANGED <<status, claimed, stopObserved, monitor, loopVars, contained, answered>>

(* execute_tool returns or raises, by itself or because it was cancelled.  *)
CallEnds ==
  /\ tool # "idle" /\ tool' = "idle"
  /\ Goes("executing", "returned")
  /\ batch' = batch - 1
  /\ \E asks \in {"no", "finish", "loop"} :
       ending' = IF "loop" \in {ending, asks} THEN "loop"
                 ELSE IF "finish" \in {ending, asks} THEN "finish" ELSE "no"
  /\ UNCHANGED <<status, claimed, stopObserved, monitor, turn, repairs, retrying, result,
                 noteVars>>

CancelledCallEnds == tool = "cancelled" /\ CallEnds

(* The result cannot be shown to the model.                                *)
ProjectionFails == Returns("returned", "error") /\ UNCHANGED <<status, claimed>>

AfterCall ==
  /\ worker = "returned" /\ ~ MustStop
  /\ IF batch > 0 THEN Goes("returned", "calling") /\ Idle
     ELSE IF ending = "no" THEN NextTurn("returned", repairs)
     ELSE /\ Returns("returned", IF ending = "loop" THEN "loop" ELSE "finished")
          /\ UNCHANGED <<status, claimed>>

Stop == \E at \in {"top", "acknowledged", "calling", "returned"} : Stops(at)

(* stopped_result of the conversation: what the user asked for is complete *)
(* when nothing is left to cancel.                                         *)
CompleteStop ==
  /\ worker = "stopping" /\ cancelDone
  /\ worker' = "closing" /\ result' = "stopped"
  /\ IF done THEN UNCHANGED portVars
     ELSE /\ IF stopKind = "replacement"
             THEN activity' = "ended" /\ accepting' = FALSE /\ UNCHANGED inFlight
             ELSE inFlight' = FALSE /\ UNCHANGED <<activity, accepting>>
          /\ UNCHANGED <<status, interrupt, replacement>>
  /\ UNCHANGED <<claimed, done, stopVars, monitor, main, stopEvent, late, turn, repairs,
                 retrying, batch, ending, tool, noteVars>>

(* The finally clause of _solve.                                           *)
Close ==
  /\ worker = "closing" /\ worker' = "over"
  /\ End
  /\ UNCHANGED <<claimed, monitor, main, stopEvent, late, loopVars, tool, noteVars>>

Worker ==
  \/ SetupFails \/ SetUp \/ Open \/ BeginTurn \/ Claim \/ ClaimedForRequest
  \/ Prepare \/ PrepareFails \/ Send \/ ModelAnswers \/ RequestFails \/ Diagnose \/ RetryOverflow
  \/ Acknowledge \/ Acknowledged \/ Read \/ Reclaimed \/ Validate
  \/ BeginCall \/ StartCall \/ CancelledCallEnds \/ ProjectionFails \/ AfterCall
  \/ Stop \/ CompleteStop \/ Close

-----------------------------------------------------------------------------
(* The monitor thread.                                                     *)

MonitorGoes(at, next) ==
  /\ monitor = at /\ monitor' = next
  /\ UNCHANGED <<activity, accepting, status, replacement, claimed, done, stopObserved, main,
                 stopEvent, late, worker, loopVars, noteVars>>

Watch ==
  /\ LockFree
  /\ IF done \/ StopRequested THEN MonitorGoes("watching", "gone") /\ UNCHANGED <<interrupt, inFlight>>
     ELSE IF replacement
     THEN MonitorGoes("watching", "replacement") /\ UNCHANGED <<interrupt, inFlight>>
     ELSE /\ interrupt
          /\ MonitorGoes("watching", "interrupt")
          /\ interrupt' = FALSE /\ inFlight' = TRUE
  /\ UNCHANGED <<stopKind, cancelDone, cancelError, tool>>

RequestStop ==
  /\ LockFree
  /\ \E kind \in {"interrupt", "replacement"} :
       IF done THEN MonitorGoes(kind, "gone") /\ UNCHANGED stopKind
       ELSE MonitorGoes(kind, "looping") /\ stopKind' = kind
  /\ UNCHANGED <<interrupt, inFlight, cancelDone, cancelError, tool>>

(* toolkit.cancel_active_and_wait(): the active call is told to stop, and  *)
(* the caller waits for its end.  It may raise.                            *)
CancelActive == tool' = IF tool = "running" THEN "cancelled" ELSE tool

CancelAgain ==
  /\ ~ stopObserved
  /\ MonitorGoes("looping", "waiting") /\ CancelActive
  /\ UNCHANGED <<interrupt, inFlight, stopKind, cancelDone, cancelError>>

CancelRaises ==
  /\ ~ stopObserved
  /\ MonitorGoes("looping", "gone")
  /\ cancelError' = TRUE /\ cancelDone' = TRUE
  /\ UNCHANGED <<interrupt, inFlight, stopKind, tool>>

(* Variant for a mutant: one cancellation is taken to be enough.           *)
CancelledOnce ==
  /\ tool # "cancelled"
  /\ MonitorGoes("waiting", "gone")
  /\ cancelDone' = TRUE
  /\ UNCHANGED <<interrupt, inFlight, stopKind, cancelError, tool>>

Cancelled ==
  /\ tool # "cancelled"
  /\ MonitorGoes("waiting", "looping")
  /\ UNCHANGED <<interrupt, inFlight, stopKind, cancelDone, cancelError, tool>>

CancelEnough ==
  /\ stopObserved
  /\ MonitorGoes("looping", "gone")
  /\ cancelDone' = TRUE
  /\ UNCHANGED <<interrupt, inFlight, stopKind, cancelError, tool>>

Monitor == Watch \/ RequestStop \/ CancelAgain \/ CancelRaises \/ Cancelled \/ CancelEnough

-----------------------------------------------------------------------------
(* The thread that called solve.                                           *)

MainGoes(at, next) ==
  /\ main = at /\ main' = next
  /\ UNCHANGED <<interrupt, inFlight, replacement, claimed, stopKind, cancelDone, cancelError,
                 monitor, late, worker, loopVars, noteVars>>

PortUntouched == UNCHANGED <<activity, accepting, status, done, stopObserved>>

Joined ==
  /\ worker = "over"
  /\ MainGoes("joining", "returned") \/ MainGoes("grace", "returned")
  /\ PortUntouched /\ UNCHANGED <<stopEvent, tool>>

TimesOut ==
  /\ late /\ worker # "over"
  /\ MainGoes("joining", "cancelling") /\ stopEvent' = TRUE
  /\ PortUntouched /\ UNCHANGED tool

CancelOnTimeout ==
  /\ \/ MainGoes("cancelling", "waiting") /\ CancelActive
     \/ MainGoes("cancelling", "grace") /\ UNCHANGED tool    \* cancel() raised
  /\ PortUntouched /\ UNCHANGED stopEvent

CancelReturns ==
  /\ tool # "cancelled"
  /\ MainGoes("waiting", "grace")
  /\ PortUntouched /\ UNCHANGED <<stopEvent, tool>>

(* Variant for a mutant: the worker is joined without a limit.             *)
GraceNeverEnds ==
  /\ main = "grace" /\ worker = "over" /\ MainGoes("grace", "sealing")
  /\ PortUntouched /\ UNCHANGED <<stopEvent, tool>>

(* _WORKER_CANCEL_GRACE_S is over.                                         *)
GraceEnds ==
  /\ worker # "over" /\ MainGoes("grace", "sealing")
  /\ PortUntouched /\ UNCHANGED <<stopEvent, tool>>

(* Variant for a mutant: solve leaves the conversation to a worker that    *)
(* may never come back.                                                    *)
ReturnUnsealed ==
  /\ MainGoes("sealing", "returned")
  /\ PortUntouched /\ UNCHANGED <<stopEvent, tool>>

SealAndReturn ==
  /\ LockFree
  /\ MainGoes("sealing", "returned") /\ End
  /\ UNCHANGED <<stopEvent, tool>>

Main == Joined \/ TimesOut \/ CancelOnTimeout \/ CancelReturns \/ GraceEnds \/ SealAndReturn

-----------------------------------------------------------------------------
User == RequestInterrupt \/ RequestReplacement \/ \E m \in Messages : Submit(m)

Next == Worker \/ CallEnds \/ Monitor \/ Main \/ User \/ DeadlinePasses

Spec == Init /\ [][Next]_vars

(* The threads are scheduled, the model answers or fails (its client has a *)
(* timeout) and a call that is told to stop ends.  Nothing is assumed of a *)
(* call that is not told to, of the user, or of the deadline.              *)
FairSpec == Spec /\ WF_vars(Worker) /\ WF_vars(Monitor) /\ WF_vars(Main)

-----------------------------------------------------------------------------
(* The messages are handled as MessageDesk promises, whatever the worker,  *)
(* the monitor and solve do at the same time (planner.py:114-149,176-186). *)
Desk == INSTANCE MessageDesk WITH sealed <- done
DeskSpec == Desk!Spec

(* A message is sent only if a request that contained it was answered, and *)
(* failed only if none was (planner.py:128-149).                           *)
FateIsTrue ==
  \A m \in Messages :
    /\ status[m] = "sent" => m \in answered
    /\ status[m] = "failed" => m \notin answered

(* A call is executed only on the word of a model that has seen every      *)
(* message taken from the user so far, and the user has been told so: no   *)
(* superseded or unacknowledged response reaches the robot                 *)
(* (planner.py:805-808,862-881).                                           *)
ActsOnAnsweredInput ==
  worker \in {"calling", "starting", "executing"} =>
    \A m \in contained : m \in answered /\ status[m] = "sent"

(* After an interrupt, a replacement or the deadline at most the one call  *)
(* that had already passed its check is still started                      *)
(* (planner.py:533-561,998-1017,1108-1109).                                *)
AtMostOneLateCall == lateCalls <= 1

(* When solve has returned, the Dashboard takes no input, no message is    *)
(* left open and the planner is not shown as busy, also when the worker is *)
(* still inside a call (planner.py:176-186,353-383).                       *)
ReturnIsSealed ==
  main = "returned" =>
    /\ done /\ ~ accepting /\ activity = "ended"
    /\ \A m \in Messages : status[m] \notin {"pending", "sending"}

(* solve returns after its deadline, even if a call never ends by itself   *)
(* and was started just after it was cancelled (planner.py:353-383).       *)
DeadlineEndsSolve == late ~> main = "returned"

(* An interrupt or a replacement ends the solve, without help from the     *)
(* deadline, unless the toolkit cannot cancel: the call that is active, or *)
(* the one that slips in, is cancelled (planner.py:151-174,188-225).       *)
StopEndsSolve ==
  (monitor = "watching" /\ (interrupt \/ replacement)) ~> (main = "returned" \/ cancelError)
=============================================================================
