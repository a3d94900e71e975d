----------------------------- MODULE MessageDesk -----------------------------
(***************************************************************************)
(* What the Dashboard is promised about the messages a user sends to a     *)
(* running solve: a message is claimed for one request to the model and    *)
(* shares the fate of that request, sent when the model answered it and    *)
(* failed when it did not; when the conversation is sealed everything that *)
(* is still open is handed back as unsent, and from then on nothing        *)
(* changes.                                                                *)
(***************************************************************************)
CONSTANT Messages

VARIABLES
  status,  \* status[m]: "none" before m is submitted
  sealed   \* no further message is accepted or settled

deskVars == <<status, sealed>>

Init ==
  /\ status = [m \in Messages |-> "none"]
  /\ sealed = FALSE

Submit(m) ==
  /\ ~ sealed /\ status[m] = "none"
  /\ status' = [status EXCEPT ![m] = "pending"]
  /\ UNCHANGED sealed

Claim(m) ==
  /\ ~ sealed /\ status[m] = "pending"
  /\ status' = [status EXCEPT ![m] = "sending"]
  /\ UNCHANGED sealed

Settle(fate) ==
  /\ ~ sealed
  /\ status' = [m \in Messages |-> IF status[m] = "sending" THEN fate ELSE status[m]]
  /\ UNCHANGED sealed

Seal ==
  /\ ~ sealed /\ sealed' = TRUE
  /\ status' = [m \in Messages |->
                  IF status[m] \in {"pending", "sending"} THEN "unsent" ELSE status[m]]

Next ==
  \/ \E m \in Messages : Submit(m) \/ Claim(m)
  \/ \E fate \in {"sent", "failed"} : Settle(fate)
  \/ Seal

Spec == Init /\ [][Next]_deskVars
=============================================================================
