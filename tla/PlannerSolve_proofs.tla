------------------------- MODULE PlannerSolve_proofs -------------------------
(***************************************************************************)
(* Proofs about PlannerSolve: for any number of messages, turns and calls, *)
(* and any interleaving of the worker, the monitor, the thread of solve    *)
(* and the user, what the user is told of a message is true, calls are     *)
(* executed only on the word of a model that has seen everything, a solve  *)
(* that is told to stop starts at most one more call, what it leaves       *)
(* behind is sealed, and the messages are handled as MessageDesk promises. *)
(***************************************************************************)
EXTENDS PlannerSolve, TLAPS

USE SolveAssumption

USE DEF Goes, Idle, DropLocals, MonitorGoes, MainGoes, PortUntouched, CancelActive,
        portVars, stopVars, loopVars, noteVars

-----------------------------------------------------------------------------
(* The inductive invariant, in parts.                                      *)

(* There is a call to execute when one is to be executed.                  *)
BatchInv == worker \in {"calling", "starting", "executing"} => batch > 0

(* What a sealed conversation looks like, and who must have sealed it.     *)
SealInv ==
  /\ done => /\ activity = "ended" /\ ~ accepting
             /\ \A m \in Messages : status[m] \notin {"pending", "sending"}
  /\ worker \in {"opening", "shutting"} => ~ done
  /\ worker = "over" => done
  /\ main = "returned" => done

(* solve gives up on the worker, and seals in its place, only when the     *)
(* deadline has passed.                                                    *)
ClockInv ==
  /\ main \in {"cancelling", "waiting", "grace", "sealing"} => late
  /\ done /\ worker # "over" => late

(* A message that failed was in no request that was answered, because the  *)
(* loop never asks again after it has failed one; a claimed message is one *)
(* that is being sent, until the conversation is sealed over it.           *)
FateInv ==
  /\ \A m \in Messages : status[m] \in {"none", "pending"} => m \notin contained
  /\ \A m \in Messages : status[m] = "sent" => m \in answered
  /\ \A m \in Messages :
       status[m] = "failed" => m \notin answered /\ worker \in {"stopping", "closing", "over"}
  /\ IF worker = "answered" THEN claimed \subseteq answered ELSE claimed \cap answered = {}
  /\ ~ done => claimed = {m \in Messages : status[m] = "sending"}

(* What is in the messages of the loop and not claimed has been sent.      *)
HandledInv ==
  /\ worker \notin {"acknowledged", "stopping", "closing", "over"} =>
       \A m \in contained \ claimed : status[m] = "sent"
  /\ worker = "acknowledged" => done \/ \A m \in contained : status[m] = "sent"
  /\ worker \in {"acknowledged", "reading", "validating", "calling", "starting", "executing",
                 "returned"} => claimed = {}

(* A call that slipped in after the stop is the last one.                  *)
LateInv ==
  /\ lateCalls <= 1
  /\ lateCalls > 0 =>
       ToldToStop /\ worker \in {"executing", "returned", "stopping", "closing", "over"}

-----------------------------------------------------------------------------
(* Types.  The flags go apart: they need another prover.                   *)

LEMMA ReturnsKeepsFlags ==
  ASSUME FlagsTyped, NEW at, NEW how, Returns(at, how)
  PROVE  FlagsTyped'
BY DEF FlagsTyped, Returns

LEMMA StopsKeepsFlags ==
  ASSUME FlagsTyped, NEW at, StopsHere(at)
  PROVE  FlagsTyped'
<1>1. CASE StopRequested
  <2>1. /\ Goes(at, "stopping") /\ stopObserved' = TRUE /\ DropLocals
        /\ UNCHANGED <<monitor, result, tool, noteVars>>
    BY <1>1 DEF StopsHere
  <2> QED BY <2>1 DEF FlagsTyped
<1>2. CASE ~ StopRequested
  <2>1. Returns(at, "timeout") BY <1>2 DEF StopsHere
  <2> QED BY <2>1, ReturnsKeepsFlags
<1> QED BY <1>1, <1>2

LEMMA NextTurnKeepsFlags ==
  ASSUME FlagsTyped, NEW at, NEW used, NextTurn(at, used)
  PROVE  FlagsTyped'
<1>1. CASE turn < MaxTurns
  <2>1. Goes(at, "top") /\ retrying' = FALSE /\ UNCHANGED stopObserved
    BY <1>1 DEF NextTurn
  <2> QED BY <2>1 DEF FlagsTyped
<1>2. CASE ~ (turn < MaxTurns)
  <2>1. Returns(at, "error") BY <1>2 DEF NextTurn
  <2> QED BY <2>1, ReturnsKeepsFlags
<1> QED BY <1>1, <1>2

LEMMA RepairKeepsFlags ==
  ASSUME FlagsTyped, NEW at, Repair(at)
  PROVE  FlagsTyped'
<1>1. CASE repairs < MaxProposalRepairs
  BY <1>1, NextTurnKeepsFlags DEF Repair
<1>2. CASE ~ (repairs < MaxProposalRepairs)
  BY <1>2, ReturnsKeepsFlags DEF Repair
<1> QED BY <1>1, <1>2

(* Every step keeps the flags flags.                                       *)
LEMMA FlagsStep ==
  ASSUME FlagsTyped, [Next]_vars
  PROVE  FlagsTyped'
<1> USE DEF FlagsTyped
<1>1. CASE SetupFails BY <1>1 DEF SetupFails, Returns
<1>2. CASE SetUp BY <1>2 DEF SetUp
<1>3. CASE Open BY <1>3 DEF Open
<1>4. CASE BeginTurn BY <1>4 DEF BeginTurn, GoesUnlessStopped
<1>5. CASE Claim BY <1>5 DEF Claim, Claimable, ClaimsAny
<1>6. CASE ClaimedForRequest BY <1>6 DEF ClaimedForRequest
<1>7. CASE Prepare BY <1>7 DEF Prepare
<1>8. CASE PrepareFails
  BY <1>8, ReturnsKeepsFlags, StopsKeepsFlags DEF PrepareFails
<1>9. CASE Send
  <2>1. CASE Goes("sending", "asking") /\ Idle BY <2>1
  <2> QED BY <1>9, <2>1, ReturnsKeepsFlags DEF Send
<1>10. CASE ModelAnswers BY <1>10 DEF ModelAnswers
<1>11. CASE RequestFails
  <2>1. CASE Goes("asking", "diagnosing") /\ Idle BY <2>1
  <2> QED BY <1>11, <2>1, ReturnsKeepsFlags, StopsKeepsFlags DEF RequestFails
<1>12. CASE Diagnose
  BY <1>12, ReturnsKeepsFlags, StopsKeepsFlags DEF Diagnose, Stops
<1>13. CASE RetryOverflow BY <1>13 DEF RetryOverflow
<1>14. CASE Acknowledge BY <1>14 DEF Acknowledge
<1>15. CASE Acknowledged BY <1>15 DEF Acknowledged, GoesUnlessStopped
<1>16. CASE Read
  <2>1. CASE Goes("reading", "reclaiming") /\ Idle BY <2>1
  <2> QED BY <1>16, <2>1, RepairKeepsFlags DEF Read
<1>17. CASE Reclaimed
  <2>1. CASE Goes("reclaiming", "validating") /\ Idle BY <2>1
  <2> QED BY <1>17, <2>1, NextTurnKeepsFlags DEF Reclaimed
<1>18. CASE Validate
  <2>1. ASSUME Goes("validating", "calling"), UNCHANGED <<stopObserved, retrying>>
        PROVE  FlagsTyped'
    BY <2>1
  <2> QED BY <1>18, <2>1, RepairKeepsFlags, ReturnsKeepsFlags DEF Validate
<1>19. CASE BeginCall BY <1>19 DEF BeginCall, GoesUnlessStopped
<1>20. CASE StartCall BY <1>20 DEF StartCall
<1>21. CASE ProjectionFails BY <1>21 DEF ProjectionFails, Returns
<1>22. CASE AfterCall
  <2>1. CASE Goes("returned", "calling") /\ Idle BY <2>1
  <2> QED BY <1>22, <2>1, NextTurnKeepsFlags, ReturnsKeepsFlags DEF AfterCall
<1>23. CASE Stop
  BY <1>23, StopsKeepsFlags DEF Stop, Stops
<1>24. CASE CompleteStop BY <1>24 DEF CompleteStop
<1>25. CASE Close BY <1>25 DEF Close, End
<1>26. CASE CallEnds BY <1>26 DEF CallEnds
<1>27. CASE Watch
  <2>1. UNCHANGED <<accepting, replacement, done, stopObserved, cancelDone, cancelError,
                    stopEvent, late, retrying>>
    BY <1>27 DEF Watch
  <2>2. UNCHANGED <<interrupt, inFlight>> \/ (interrupt' = FALSE /\ inFlight' = TRUE)
    BY <1>27 DEF Watch
  <2> QED BY <2>1, <2>2
<1>28. CASE RequestStop BY <1>28 DEF RequestStop
<1>29. CASE CancelAgain BY <1>29 DEF CancelAgain
<1>30. CASE CancelRaises BY <1>30 DEF CancelRaises
<1>31. CASE Cancelled BY <1>31 DEF Cancelled
<1>32. CASE CancelEnough BY <1>32 DEF CancelEnough
<1>33. CASE Joined BY <1>33 DEF Joined
<1>34. CASE TimesOut BY <1>34 DEF TimesOut
<1>35. CASE CancelOnTimeout BY <1>35 DEF CancelOnTimeout
<1>36. CASE CancelReturns BY <1>36 DEF CancelReturns
<1>37. CASE GraceEnds BY <1>37 DEF GraceEnds
<1>38. CASE SealAndReturn BY <1>38 DEF SealAndReturn, End
<1>39. CASE RequestInterrupt BY <1>39 DEF RequestInterrupt
<1>40. CASE RequestReplacement BY <1>40 DEF RequestReplacement
<1>41. CASE DeadlinePasses BY <1>41 DEF DeadlinePasses
<1>42. ASSUME NEW m \in Messages, Submit(m) PROVE FlagsTyped' BY <1>42 DEF Submit
<1>43. CASE UNCHANGED vars BY <1>43 DEF vars
<1> QED
  BY <1>1, <1>2, <1>3, <1>4, <1>5, <1>6, <1>7, <1>8, <1>9, <1>10, <1>11, <1>12,
     <1>13, <1>14, <1>15, <1>16, <1>17, <1>18, <1>19, <1>20, <1>21, <1>22, <1>23, <1>24,
     <1>25, <1>26, <1>27, <1>28, <1>29, <1>30, <1>31, <1>32, <1>33, <1>34, <1>35, <1>36,
     <1>37, <1>38, <1>39, <1>40, <1>41, <1>42, <1>43
  DEF Next, Worker, Monitor, Main, User, CancelledCallEnds

(* Every step keeps the other variables in their types.                    *)
LEMMA PlacesStep ==
  ASSUME PlacesTyped, BatchInv, [Next]_vars
  PROVE  PlacesTyped' /\ BatchInv'
<1> USE DEF Returns, StopsHere, Stops, GoesUnlessStopped, FailClaimed, NextTurn, End,
            PlacesTyped, BatchInv
<1>1. CASE SetupFails BY <1>1 DEF SetupFails
<1>2. CASE SetUp BY <1>2 DEF SetUp
<1>3. CASE Open BY <1>3 DEF Open
<1>4. CASE BeginTurn BY <1>4 DEF BeginTurn
<1>5. CASE Claim
  <2>1. PICK m \in Claimable : /\ status' = [status EXCEPT ![m] = "sending"]
                               /\ claimed' = claimed \cup {m}
                               /\ contained' = contained \cup {m}
    BY <1>5 DEF Claim
  <2> QED BY <1>5, <2>1 DEF Claim, Claimable
<1>6. CASE ClaimedForRequest BY <1>6 DEF ClaimedForRequest
<1>7. CASE Prepare BY <1>7 DEF Prepare
<1>8. CASE PrepareFails BY <1>8 DEF PrepareFails
<1>9. CASE Send BY <1>9 DEF Send
<1>10. CASE ModelAnswers BY <1>10 DEF ModelAnswers
<1>11. CASE RequestFails BY <1>11 DEF RequestFails
<1>12. CASE Diagnose BY <1>12 DEF Diagnose
<1>13. CASE RetryOverflow BY <1>13 DEF RetryOverflow
<1>14. CASE Acknowledge BY <1>14 DEF Acknowledge
<1>15. CASE Acknowledged BY <1>15 DEF Acknowledged
<1>16. CASE Read BY <1>16 DEF Read, Repair
<1>17. CASE Reclaimed BY <1>17 DEF Reclaimed
<1>18. CASE Validate BY <1>18 DEF Validate, Repair
<1>19. CASE BeginCall BY <1>19 DEF BeginCall
<1>20. CASE StartCall BY <1>20 DEF StartCall
<1>21. CASE ProjectionFails BY <1>21 DEF ProjectionFails
<1>22. CASE AfterCall BY <1>22 DEF AfterCall
<1>23. CASE Stop BY <1>23 DEF Stop
<1>24. CASE CompleteStop BY <1>24 DEF CompleteStop
<1>25. CASE Close BY <1>25 DEF Close
<1>26. CASE CallEnds BY <1>26 DEF CallEnds
<1>27. CASE Watch BY <1>27 DEF Watch
<1>28. CASE RequestStop BY <1>28 DEF RequestStop
<1>29. CASE CancelAgain BY <1>29 DEF CancelAgain
<1>30. CASE CancelRaises BY <1>30 DEF CancelRaises
<1>31. CASE Cancelled BY <1>31 DEF Cancelled
<1>32. CASE CancelEnough BY <1>32 DEF CancelEnough
<1>33. CASE Joined BY <1>33 DEF Joined
<1>34. CASE TimesOut BY <1>34 DEF TimesOut
<1>35. CASE CancelOnTimeout BY <1>35 DEF CancelOnTimeout
<1>36. CASE CancelReturns BY <1>36 DEF CancelReturns
<1>37. CASE GraceEnds BY <1>37 DEF GraceEnds
<1>38. CASE SealAndReturn BY <1>38 DEF SealAndReturn
<1>39. CASE RequestInterrupt BY <1>39 DEF RequestInterrupt
<1>40. CASE RequestReplacement BY <1>40 DEF RequestReplacement
<1>41. CASE DeadlinePasses BY <1>41 DEF DeadlinePasses
<1>42. ASSUME NEW m \in Messages, Submit(m) PROVE PlacesTyped' /\ BatchInv' BY <1>42 DEF Submit
<1>43. CASE UNCHANGED vars BY <1>43 DEF vars
<1> QED
  BY <1>1, <1>2, <1>3, <1>4, <1>5, <1>6, <1>7, <1>8, <1>9, <1>10, <1>11, <1>12,
     <1>13, <1>14, <1>15, <1>16, <1>17, <1>18, <1>19, <1>20, <1>21, <1>22, <1>23, <1>24,
     <1>25, <1>26, <1>27, <1>28, <1>29, <1>30, <1>31, <1>32, <1>33, <1>34, <1>35, <1>36,
     <1>37, <1>38, <1>39, <1>40, <1>41, <1>42, <1>43
  DEF Next, Worker, Monitor, Main, User, CancelledCallEnds

-----------------------------------------------------------------------------
(* Safety.                                                                 *)

(* Nothing is opened behind the seal: the lifecycle lock keeps it off a    *)
(* worker that is about to open the conversation, or to claim a message.   *)
LEMMA SealStep ==
  ASSUME PlacesTyped, SealInv, [Next]_vars
  PROVE  SealInv'
<1> USE DEF Returns, StopsHere, Stops, GoesUnlessStopped, FailClaimed, NextTurn, End,
            PlacesTyped, SealInv, LockFree
<1>1. CASE SetupFails BY <1>1 DEF SetupFails
<1>2. CASE SetUp BY <1>2 DEF SetUp
<1>3. CASE Open BY <1>3 DEF Open
<1>4. CASE BeginTurn BY <1>4 DEF BeginTurn
<1>5. CASE Claim BY <1>5 DEF Claim, Claimable, ClaimsAny
<1>6. CASE ClaimedForRequest BY <1>6 DEF ClaimedForRequest
<1>7. CASE Prepare BY <1>7 DEF Prepare
<1>8. CASE PrepareFails BY <1>8 DEF PrepareFails
<1>9. CASE Send BY <1>9 DEF Send
<1>10. CASE ModelAnswers BY <1>10 DEF ModelAnswers
<1>11. CASE RequestFails BY <1>11 DEF RequestFails
<1>12. CASE Diagnose BY <1>12 DEF Diagnose
<1>13. CASE RetryOverflow BY <1>13 DEF RetryOverflow
<1>14. CASE Acknowledge BY <1>14 DEF Acknowledge
<1>15. CASE Acknowledged BY <1>15 DEF Acknowledged
<1>16. CASE Read BY <1>16 DEF Read, Repair
<1>17. CASE Reclaimed BY <1>17 DEF Reclaimed
<1>18. CASE Validate BY <1>18 DEF Validate, Repair
<1>19. CASE BeginCall BY <1>19 DEF BeginCall
<1>20. CASE StartCall BY <1>20 DEF StartCall
<1>21. CASE ProjectionFails BY <1>21 DEF ProjectionFails
<1>22. CASE AfterCall BY <1>22 DEF AfterCall
<1>23. CASE Stop BY <1>23 DEF Stop
<1>24. CASE CompleteStop BY <1>24 DEF CompleteStop
<1>25. CASE Close BY <1>25 DEF Close
<1>26. CASE CallEnds BY <1>26 DEF CallEnds
<1>27. CASE Watch BY <1>27 DEF Watch
<1>28. CASE RequestStop BY <1>28 DEF RequestStop
<1>29. CASE CancelAgain BY <1>29 DEF CancelAgain
<1>30. CASE CancelRaises BY <1>30 DEF CancelRaises
<1>31. CASE Cancelled BY <1>31 DEF Cancelled
<1>32. CASE CancelEnough BY <1>32 DEF CancelEnough
<1>33. CASE Joined BY <1>33 DEF Joined
<1>34. CASE TimesOut BY <1>34 DEF TimesOut
<1>35. CASE CancelOnTimeout BY <1>35 DEF CancelOnTimeout
<1>36. CASE CancelReturns BY <1>36 DEF CancelReturns
<1>37. CASE GraceEnds BY <1>37 DEF GraceEnds
<1>38. CASE SealAndReturn BY <1>38 DEF SealAndReturn
<1>39. CASE RequestInterrupt BY <1>39 DEF RequestInterrupt
<1>40. CASE RequestReplacement BY <1>40 DEF RequestReplacement
<1>41. CASE DeadlinePasses BY <1>41 DEF DeadlinePasses
<1>42. ASSUME NEW m \in Messages, Submit(m) PROVE SealInv' BY <1>42 DEF Submit
<1>43. CASE UNCHANGED vars BY <1>43 DEF vars
<1> QED
  BY <1>1, <1>2, <1>3, <1>4, <1>5, <1>6, <1>7, <1>8, <1>9, <1>10, <1>11, <1>12,
     <1>13, <1>14, <1>15, <1>16, <1>17, <1>18, <1>19, <1>20, <1>21, <1>22, <1>23, <1>24,
     <1>25, <1>26, <1>27, <1>28, <1>29, <1>30, <1>31, <1>32, <1>33, <1>34, <1>35, <1>36,
     <1>37, <1>38, <1>39, <1>40, <1>41, <1>42, <1>43
  DEF Next, Worker, Monitor, Main, User, CancelledCallEnds

(* Only a deadline makes solve seal the conversation of a live worker.     *)
LEMMA ClockStep ==
  ASSUME SealInv, ClockInv, [Next]_vars
  PROVE  ClockInv'
<1> USE DEF Returns, StopsHere, Stops, GoesUnlessStopped, FailClaimed, NextTurn, End,
            SealInv, ClockInv, LockFree
<1>1. CASE SetupFails BY <1>1 DEF SetupFails
<1>2. CASE SetUp BY <1>2 DEF SetUp
<1>3. CASE Open BY <1>3 DEF Open
<1>4. CASE BeginTurn BY <1>4 DEF BeginTurn
<1>5. CASE Claim BY <1>5 DEF Claim, Claimable, ClaimsAny
<1>6. CASE ClaimedForRequest BY <1>6 DEF ClaimedForRequest
<1>7. CASE Prepare BY <1>7 DEF Prepare
<1>8. CASE PrepareFails BY <1>8 DEF PrepareFails
<1>9. CASE Send BY <1>9 DEF Send
<1>10. CASE ModelAnswers BY <1>10 DEF ModelAnswers
<1>11. CASE RequestFails BY <1>11 DEF RequestFails
<1>12. CASE Diagnose BY <1>12 DEF Diagnose
<1>13. CASE RetryOverflow BY <1>13 DEF RetryOverflow
<1>14. CASE Acknowledge BY <1>14 DEF Acknowledge
<1>15. CASE Acknowledged BY <1>15 DEF Acknowledged
<1>16. CASE Read BY <1>16 DEF Read, Repair
<1>17. CASE Reclaimed BY <1>17 DEF Reclaimed
<1>18. CASE Validate BY <1>18 DEF Validate, Repair
<1>19. CASE BeginCall BY <1>19 DEF BeginCall
<1>20. CASE StartCall BY <1>20 DEF StartCall
<1>21. CASE ProjectionFails BY <1>21 DEF ProjectionFails
<1>22. CASE AfterCall BY <1>22 DEF AfterCall
<1>23. CASE Stop BY <1>23 DEF Stop
<1>24. CASE CompleteStop BY <1>24 DEF CompleteStop
<1>25. CASE Close BY <1>25 DEF Close
<1>26. CASE CallEnds BY <1>26 DEF CallEnds
<1>27. CASE Watch BY <1>27 DEF Watch
<1>28. CASE RequestStop BY <1>28 DEF RequestStop
<1>29. CASE CancelAgain BY <1>29 DEF CancelAgain
<1>30. CASE CancelRaises BY <1>30 DEF CancelRaises
<1>31. CASE Cancelled BY <1>31 DEF Cancelled
<1>32. CASE CancelEnough BY <1>32 DEF CancelEnough
<1>33. CASE Joined BY <1>33 DEF Joined
<1>34. CASE TimesOut BY <1>34 DEF TimesOut
<1>35. CASE CancelOnTimeout BY <1>35 DEF CancelOnTimeout
<1>36. CASE CancelReturns BY <1>36 DEF CancelReturns
<1>37. CASE GraceEnds BY <1>37 DEF GraceEnds
<1>38. CASE SealAndReturn BY <1>38 DEF SealAndReturn
<1>39. CASE RequestInterrupt BY <1>39 DEF RequestInterrupt
<1>40. CASE RequestReplacement BY <1>40 DEF RequestReplacement
<1>41. CASE DeadlinePasses BY <1>41 DEF DeadlinePasses
<1>42. ASSUME NEW m \in Messages, Submit(m) PROVE ClockInv' BY <1>42 DEF Submit
<1>43. CASE UNCHANGED vars BY <1>43 DEF vars
<1> QED
  BY <1>1, <1>2, <1>3, <1>4, <1>5, <1>6, <1>7, <1>8, <1>9, <1>10, <1>11, <1>12,
     <1>13, <1>14, <1>15, <1>16, <1>17, <1>18, <1>19, <1>20, <1>21, <1>22, <1>23, <1>24,
     <1>25, <1>26, <1>27, <1>28, <1>29, <1>30, <1>31, <1>32, <1>33, <1>34, <1>35, <1>36,
     <1>37, <1>38, <1>39, <1>40, <1>41, <1>42, <1>43
  DEF Next, Worker, Monitor, Main, User, CancelledCallEnds

(* A message has the fate of the request it was claimed for.               *)
LEMMA FateStep ==
  ASSUME PlacesTyped, SealInv, FateInv, [Next]_vars
  PROVE  FateInv'
<1> USE DEF Returns, StopsHere, Stops, GoesUnlessStopped, FailClaimed, NextTurn, End,
            PlacesTyped, SealInv, FateInv
<1>1. CASE SetupFails BY <1>1 DEF SetupFails
<1>2. CASE SetUp BY <1>2 DEF SetUp
<1>3. CASE Open BY <1>3 DEF Open
<1>4. CASE BeginTurn BY <1>4 DEF BeginTurn
<1>5. CASE Claim BY <1>5 DEF Claim, Claimable, ClaimsAny
<1>6. CASE ClaimedForRequest BY <1>6 DEF ClaimedForRequest
<1>7. CASE Prepare BY <1>7 DEF Prepare
<1>8. CASE PrepareFails BY <1>8 DEF PrepareFails
<1>9. CASE Send BY <1>9 DEF Send
<1>10. CASE ModelAnswers BY <1>10 DEF ModelAnswers
<1>11. CASE RequestFails BY <1>11 DEF RequestFails
<1>12. CASE Diagnose BY <1>12 DEF Diagnose
<1>13. CASE RetryOverflow BY <1>13 DEF RetryOverflow
<1>14. CASE Acknowledge BY <1>14 DEF Acknowledge
<1>15. CASE Acknowledged BY <1>15 DEF Acknowledged
<1>16. CASE Read BY <1>16 DEF Read, Repair
<1>17. CASE Reclaimed BY <1>17 DEF Reclaimed
<1>18. CASE Validate BY <1>18 DEF Validate, Repair
<1>19. CASE BeginCall BY <1>19 DEF BeginCall
<1>20. CASE StartCall BY <1>20 DEF StartCall
<1>21. CASE ProjectionFails BY <1>21 DEF ProjectionFails
<1>22. CASE AfterCall BY <1>22 DEF AfterCall
<1>23. CASE Stop BY <1>23 DEF Stop
<1>24. CASE CompleteStop BY <1>24 DEF CompleteStop
<1>25. CASE Close BY <1>25 DEF Close
<1>26. CASE CallEnds BY <1>26 DEF CallEnds
<1>27. CASE Watch BY <1>27 DEF Watch
<1>28. CASE RequestStop BY <1>28 DEF RequestStop
<1>29. CASE CancelAgain BY <1>29 DEF CancelAgain
<1>30. CASE CancelRaises BY <1>30 DEF CancelRaises
<1>31. CASE Cancelled BY <1>31 DEF Cancelled
<1>32. CASE CancelEnough BY <1>32 DEF CancelEnough
<1>33. CASE Joined BY <1>33 DEF Joined
<1>34. CASE TimesOut BY <1>34 DEF TimesOut
<1>35. CASE CancelOnTimeout BY <1>35 DEF CancelOnTimeout
<1>36. CASE CancelReturns BY <1>36 DEF CancelReturns
<1>37. CASE GraceEnds BY <1>37 DEF GraceEnds
<1>38. CASE SealAndReturn BY <1>38 DEF SealAndReturn
<1>39. CASE RequestInterrupt BY <1>39 DEF RequestInterrupt
<1>40. CASE RequestReplacement BY <1>40 DEF RequestReplacement
<1>41. CASE DeadlinePasses BY <1>41 DEF DeadlinePasses
<1>42. ASSUME NEW m \in Messages, Submit(m) PROVE FateInv' BY <1>42 DEF Submit
<1>43. CASE UNCHANGED vars BY <1>43 DEF vars
<1> QED
  BY <1>1, <1>2, <1>3, <1>4, <1>5, <1>6, <1>7, <1>8, <1>9, <1>10, <1>11, <1>12,
     <1>13, <1>14, <1>15, <1>16, <1>17, <1>18, <1>19, <1>20, <1>21, <1>22, <1>23, <1>24,
     <1>25, <1>26, <1>27, <1>28, <1>29, <1>30, <1>31, <1>32, <1>33, <1>34, <1>35, <1>36,
     <1>37, <1>38, <1>39, <1>40, <1>41, <1>42, <1>43
  DEF Next, Worker, Monitor, Main, User, CancelledCallEnds

(* The loop goes on only when everything it has taken is acknowledged: a   *)
(* conversation sealed in the meantime means that the deadline has passed, *)
(* and the loop looks at the clock before it uses the response.            *)
LEMMA HandledStep ==
  ASSUME PlacesTyped, ClockInv, FateInv, HandledInv, [Next]_vars
  PROVE  HandledInv'
<1> USE DEF Returns, StopsHere, Stops, GoesUnlessStopped, FailClaimed, NextTurn, End,
            PlacesTyped, ClockInv, FateInv, HandledInv,
            MustStop, ToldToStop
<1>1. CASE SetupFails BY <1>1 DEF SetupFails
<1>2. CASE SetUp BY <1>2 DEF SetUp
<1>3. CASE Open BY <1>3 DEF Open
<1>4. CASE BeginTurn BY <1>4 DEF BeginTurn
<1>5. CASE Claim BY <1>5 DEF Claim, Claimable, ClaimsAny
<1>6. CASE ClaimedForRequest BY <1>6 DEF ClaimedForRequest
<1>7. CASE Prepare BY <1>7 DEF Prepare
<1>8. CASE PrepareFails BY <1>8 DEF PrepareFails
<1>9. CASE Send BY <1>9 DEF Send
<1>10. CASE ModelAnswers BY <1>10 DEF ModelAnswers
<1>11. CASE RequestFails BY <1>11 DEF RequestFails
<1>12. CASE Diagnose BY <1>12 DEF Diagnose
<1>13. CASE RetryOverflow BY <1>13 DEF RetryOverflow
<1>14. CASE Acknowledge BY <1>14 DEF Acknowledge
<1>15. CASE Acknowledged BY <1>15 DEF Acknowledged
<1>16. CASE Read BY <1>16 DEF Read, Repair
<1>17. CASE Reclaimed BY <1>17 DEF Reclaimed
<1>18. CASE Validate BY <1>18 DEF Validate, Repair
<1>19. CASE BeginCall BY <1>19 DEF BeginCall
<1>20. CASE StartCall BY <1>20 DEF StartCall
<1>21. CASE ProjectionFails BY <1>21 DEF ProjectionFails
<1>22. CASE AfterCall BY <1>22 DEF AfterCall
<1>23. CASE Stop BY <1>23 DEF Stop
<1>24. CASE CompleteStop BY <1>24 DEF CompleteStop
<1>25. CASE Close BY <1>25 DEF Close
<1>26. CASE CallEnds BY <1>26 DEF CallEnds
<1>27. CASE Watch BY <1>27 DEF Watch
<1>28. CASE RequestStop BY <1>28 DEF RequestStop
<1>29. CASE CancelAgain BY <1>29 DEF CancelAgain
<1>30. CASE CancelRaises BY <1>30 DEF CancelRaises
<1>31. CASE Cancelled BY <1>31 DEF Cancelled
<1>32. CASE CancelEnough BY <1>32 DEF CancelEnough
<1>33. CASE Joined BY <1>33 DEF Joined
<1>34. CASE TimesOut BY <1>34 DEF TimesOut
<1>35. CASE CancelOnTimeout BY <1>35 DEF CancelOnTimeout
<1>36. CASE CancelReturns BY <1>36 DEF CancelReturns
<1>37. CASE GraceEnds BY <1>37 DEF GraceEnds
<1>38. CASE SealAndReturn BY <1>38 DEF SealAndReturn
<1>39. CASE RequestInterrupt BY <1>39 DEF RequestInterrupt
<1>40. CASE RequestReplacement BY <1>40 DEF RequestReplacement
<1>41. CASE DeadlinePasses BY <1>41 DEF DeadlinePasses
<1>42. ASSUME NEW m \in Messages, Submit(m) PROVE HandledInv' BY <1>42 DEF Submit
<1>43. CASE UNCHANGED vars BY <1>43 DEF vars
<1> QED
  BY <1>1, <1>2, <1>3, <1>4, <1>5, <1>6, <1>7, <1>8, <1>9, <1>10, <1>11, <1>12,
     <1>13, <1>14, <1>15, <1>16, <1>17, <1>18, <1>19, <1>20, <1>21, <1>22, <1>23, <1>24,
     <1>25, <1>26, <1>27, <1>28, <1>29, <1>30, <1>31, <1>32, <1>33, <1>34, <1>35, <1>36,
     <1>37, <1>38, <1>39, <1>40, <1>41, <1>42, <1>43
  DEF Next, Worker, Monitor, Main, User, CancelledCallEnds

(* A stop is never taken back, and the loop looks at it before each call.  *)
LEMMA LateStep ==
  ASSUME PlacesTyped, LateInv, [Next]_vars
  PROVE  LateInv'
<1> USE DEF Returns, StopsHere, Stops, GoesUnlessStopped, FailClaimed, NextTurn, End,
            PlacesTyped, LateInv, MustStop, ToldToStop,
            StopRequested
<1>1. CASE SetupFails BY <1>1 DEF SetupFails
<1>2. CASE SetUp BY <1>2 DEF SetUp
<1>3. CASE Open BY <1>3 DEF Open
<1>4. CASE BeginTurn BY <1>4 DEF BeginTurn
<1>5. CASE Claim BY <1>5 DEF Claim, Claimable, ClaimsAny
<1>6. CASE ClaimedForRequest BY <1>6 DEF ClaimedForRequest
<1>7. CASE Prepare BY <1>7 DEF Prepare
<1>8. CASE PrepareFails BY <1>8 DEF PrepareFails
<1>9. CASE Send BY <1>9 DEF Send
<1>10. CASE ModelAnswers BY <1>10 DEF ModelAnswers
<1>11. CASE RequestFails BY <1>11 DEF RequestFails
<1>12. CASE Diagnose BY <1>12 DEF Diagnose
<1>13. CASE RetryOverflow BY <1>13 DEF RetryOverflow
<1>14. CASE Acknowledge BY <1>14 DEF Acknowledge
<1>15. CASE Acknowledged BY <1>15 DEF Acknowledged
<1>16. CASE Read BY <1>16 DEF Read, Repair
<1>17. CASE Reclaimed BY <1>17 DEF Reclaimed
<1>18. CASE Validate BY <1>18 DEF Validate, Repair
<1>19. CASE BeginCall BY <1>19 DEF BeginCall
<1>20. CASE StartCall BY <1>20 DEF StartCall
<1>21. CASE ProjectionFails BY <1>21 DEF ProjectionFails
<1>22. CASE AfterCall BY <1>22 DEF AfterCall
<1>23. CASE Stop BY <1>23 DEF Stop
<1>24. CASE CompleteStop BY <1>24 DEF CompleteStop
<1>25. CASE Close BY <1>25 DEF Close
<1>26. CASE CallEnds BY <1>26 DEF CallEnds
<1>27. CASE Watch BY <1>27 DEF Watch
<1>28. CASE RequestStop BY <1>28 DEF RequestStop
<1>29. CASE CancelAgain BY <1>29 DEF CancelAgain
<1>30. CASE CancelRaises BY <1>30 DEF CancelRaises
<1>31. CASE Cancelled BY <1>31 DEF Cancelled
<1>32. CASE CancelEnough BY <1>32 DEF CancelEnough
<1>33. CASE Joined BY <1>33 DEF Joined
<1>34. CASE TimesOut BY <1>34 DEF TimesOut
<1>35. CASE CancelOnTimeout BY <1>35 DEF CancelOnTimeout
<1>36. CASE CancelReturns BY <1>36 DEF CancelReturns
<1>37. CASE GraceEnds BY <1>37 DEF GraceEnds
<1>38. CASE SealAndReturn BY <1>38 DEF SealAndReturn
<1>39. CASE RequestInterrupt BY <1>39 DEF RequestInterrupt
<1>40. CASE RequestReplacement BY <1>40 DEF RequestReplacement
<1>41. CASE DeadlinePasses BY <1>41 DEF DeadlinePasses
<1>42. ASSUME NEW m \in Messages, Submit(m) PROVE LateInv' BY <1>42 DEF Submit
<1>43. CASE UNCHANGED vars BY <1>43 DEF vars
<1> QED
  BY <1>1, <1>2, <1>3, <1>4, <1>5, <1>6, <1>7, <1>8, <1>9, <1>10, <1>11, <1>12,
     <1>13, <1>14, <1>15, <1>16, <1>17, <1>18, <1>19, <1>20, <1>21, <1>22, <1>23, <1>24,
     <1>25, <1>26, <1>27, <1>28, <1>29, <1>30, <1>31, <1>32, <1>33, <1>34, <1>35, <1>36,
     <1>37, <1>38, <1>39, <1>40, <1>41, <1>42, <1>43
  DEF Next, Worker, Monitor, Main, User, CancelledCallEnds

(* Every step settles the messages of one request, seals the desk, takes   *)
(* or claims one message, or leaves the messages alone.                    *)
LEMMA DeskStep ==
  ASSUME PlacesTyped, SealInv, FateInv, [Next]_vars
  PROVE  [Desk!Next]_Desk!deskVars
<1> USE DEF Returns, StopsHere, Stops, GoesUnlessStopped, FailClaimed, NextTurn, End,
            PlacesTyped, SealInv, FateInv,
            Desk!Next, Desk!Submit, Desk!Claim, Desk!Settle, Desk!Seal, Desk!deskVars
<1>1. CASE SetupFails BY <1>1 DEF SetupFails
<1>2. CASE SetUp BY <1>2 DEF SetUp
<1>3. CASE Open BY <1>3 DEF Open
<1>4. CASE BeginTurn BY <1>4 DEF BeginTurn
<1>5. CASE Claim BY <1>5 DEF Claim, Claimable, ClaimsAny
<1>6. CASE ClaimedForRequest BY <1>6 DEF ClaimedForRequest
<1>7. CASE Prepare BY <1>7 DEF Prepare
<1>8. CASE PrepareFails BY <1>8 DEF PrepareFails
<1>9. CASE Send BY <1>9 DEF Send
<1>10. CASE ModelAnswers BY <1>10 DEF ModelAnswers
<1>11. CASE RequestFails BY <1>11 DEF RequestFails
<1>12. CASE Diagnose BY <1>12 DEF Diagnose
<1>13. CASE RetryOverflow BY <1>13 DEF RetryOverflow
<1>14. CASE Acknowledge BY <1>14 DEF Acknowledge
<1>15. CASE Acknowledged BY <1>15 DEF Acknowledged
<1>16. CASE Read BY <1>16 DEF Read, Repair
<1>17. CASE Reclaimed BY <1>17 DEF Reclaimed
<1>18. CASE Validate BY <1>18 DEF Validate, Repair
<1>19. CASE BeginCall BY <1>19 DEF BeginCall
<1>20. CASE StartCall BY <1>20 DEF StartCall
<1>21. CASE ProjectionFails BY <1>21 DEF ProjectionFails
<1>22. CASE AfterCall BY <1>22 DEF AfterCall
<1>23. CASE Stop BY <1>23 DEF Stop
<1>24. CASE CompleteStop BY <1>24 DEF CompleteStop
<1>25. CASE Close BY <1>25 DEF Close
<1>26. CASE CallEnds BY <1>26 DEF CallEnds
<1>27. CASE Watch BY <1>27 DEF Watch
<1>28. CASE RequestStop BY <1>28 DEF RequestStop
<1>29. CASE CancelAgain BY <1>29 DEF CancelAgain
<1>30. CASE CancelRaises BY <1>30 DEF CancelRaises
<1>31. CASE Cancelled BY <1>31 DEF Cancelled
<1>32. CASE CancelEnough BY <1>32 DEF CancelEnough
<1>33. CASE Joined BY <1>33 DEF Joined
<1>34. CASE TimesOut BY <1>34 DEF TimesOut
<1>35. CASE CancelOnTimeout BY <1>35 DEF CancelOnTimeout
<1>36. CASE CancelReturns BY <1>36 DEF CancelReturns
<1>37. CASE GraceEnds BY <1>37 DEF GraceEnds
<1>38. CASE SealAndReturn BY <1>38 DEF SealAndReturn
<1>39. CASE RequestInterrupt BY <1>39 DEF RequestInterrupt
<1>40. CASE RequestReplacement BY <1>40 DEF RequestReplacement
<1>41. CASE DeadlinePasses BY <1>41 DEF DeadlinePasses
<1>42. ASSUME NEW m \in Messages, Submit(m) PROVE [Desk!Next]_Desk!deskVars BY <1>42 DEF Submit
<1>43. CASE UNCHANGED vars BY <1>43 DEF vars
<1> QED
  BY <1>1, <1>2, <1>3, <1>4, <1>5, <1>6, <1>7, <1>8, <1>9, <1>10, <1>11, <1>12,
     <1>13, <1>14, <1>15, <1>16, <1>17, <1>18, <1>19, <1>20, <1>21, <1>22, <1>23, <1>24,
     <1>25, <1>26, <1>27, <1>28, <1>29, <1>30, <1>31, <1>32, <1>33, <1>34, <1>35, <1>36,
     <1>37, <1>38, <1>39, <1>40, <1>41, <1>42, <1>43
  DEF Next, Worker, Monitor, Main, User, CancelledCallEnds

-----------------------------------------------------------------------------
IInv == BatchInv /\ SealInv /\ ClockInv /\ FateInv /\ HandledInv /\ LateInv

LEMMA InitInv == Init => TypeOK /\ IInv
<1> SUFFICES ASSUME Init PROVE TypeOK /\ IInv
  OBVIOUS
<1>1. FlagsTyped BY DEF Init, FlagsTyped
<1>2. PlacesTyped BY DEF Init, PlacesTyped
<1>3. BatchInv /\ SealInv /\ ClockInv BY DEF Init, BatchInv, SealInv, ClockInv
<1>4. FateInv /\ HandledInv /\ LateInv BY DEF Init, FateInv, HandledInv, LateInv
<1> QED BY <1>1, <1>2, <1>3, <1>4 DEF TypeOK, IInv

LEMMA StepInv == TypeOK /\ IInv /\ [Next]_vars => TypeOK' /\ IInv'
BY FlagsStep, PlacesStep, SealStep, ClockStep, FateStep, HandledStep, LateStep DEF TypeOK, IInv

LEMMA AlwaysInv == Spec => [](TypeOK /\ IInv)
BY InitInv, StepInv, PTL DEF Spec

(* Every variable keeps its type, for any number of messages, turns, calls *)
(* and rejected responses (planner.py:68-225,304-1157).                    *)
THEOREM Typed == Spec => []TypeOK
BY AlwaysInv, PTL

(* When solve has returned, the conversation is sealed, whoever sealed it  *)
(* and whatever the worker is still doing (planner.py:176-186,304-390).    *)
THEOREM ReturnsSealed == Spec => []ReturnIsSealed
<1>1. TypeOK /\ IInv => ReturnIsSealed
  BY DEF IInv, SealInv, ReturnIsSealed
<1> QED BY <1>1, AlwaysInv, PTL

(* What the user is told of a message is what happened to the request that *)
(* contained it (planner.py:114-149).                                      *)
THEOREM FatesTrue == Spec => []FateIsTrue
<1>1. TypeOK /\ IInv => FateIsTrue
  BY DEF IInv, FateInv, FateIsTrue
<1> QED BY <1>1, AlwaysInv, PTL

(* The robot moves only on a response to all input taken so far            *)
(* (planner.py:805-881).                                                   *)
THEOREM ActsOnlyOnAnswers == Spec => []ActsOnAnsweredInput
<1>1. TypeOK /\ IInv => ActsOnAnsweredInput
  BY DEF IInv, TypeOK, PlacesTyped, FateInv, HandledInv, ActsOnAnsweredInput
<1> QED BY <1>1, AlwaysInv, PTL

(* One call at most starts after the solve was told to stop                *)
(* (planner.py:533-557,998-1023).                                          *)
THEOREM OneLateCall == Spec => []AtMostOneLateCall
<1>1. TypeOK /\ IInv => AtMostOneLateCall
  BY DEF IInv, LateInv, AtMostOneLateCall
<1> QED BY <1>1, AlwaysInv, PTL

(* The three threads together implement the desk                           *)
(* (planner.py:114-186).                                                   *)
THEOREM ImplementsDesk == Spec => DeskSpec
<1>1. Init => Desk!Init
  BY DEF Init, Desk!Init
<1>2. TypeOK /\ IInv /\ [Next]_vars => [Desk!Next]_Desk!deskVars
  BY DeskStep DEF TypeOK, IInv
<1> QED BY <1>1, <1>2, AlwaysInv, PTL DEF Spec, DeskSpec, Desk!Spec
=============================================================================
