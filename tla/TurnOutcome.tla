---------------------------- MODULE TurnOutcome ----------------------------
(***************************************************************************)
(* What a client of SantiService may rely on about a turn: the status its  *)
(* row shows when it is read, and the terminal event it is told.           *)
(* SantiService is shown to implement this module (its OutcomeSpec), and   *)
(* Mqueue takes it for the server, so the client is checked against every  *)
(* server that keeps the promise and not against one schedule of ours.     *)
(***************************************************************************)
CONSTANT Turns

VARIABLES
    status,   \* the turn's status column, "none" before the row exists
    told      \* its terminal event: nothing yet, completed or failed

outcomeVars == <<status, told>>

\* start_turn
Start(t) ==
    /\ status[t] = "none"
    /\ status' = [status EXCEPT ![t] = "running"]
    /\ UNCHANGED told

\* The row is completed and message_completed is published: one step, since
\* the event never leaves before the row or without it.
Finish(t) ==
    /\ status[t] = "running"
    /\ told[t] = "nothing"
    /\ status' = [status EXCEPT ![t] = "completed"]
    /\ told' = [told EXCEPT ![t] = "completed"]

\* The row is completed and nobody is told: the process died after the first
\* UPDATE, or reading the row back failed.
FinishSilently(t) ==
    /\ status[t] = "running"
    /\ told[t] = "nothing"
    /\ status' = [status EXCEPT ![t] = "completed"]
    /\ UNCHANGED told

\* The row is failed some time before the event: the notice is written between.
Break(t) ==
    /\ status[t] \in {"running", "completed"}
    /\ told[t] = "nothing"
    /\ status' = [status EXCEPT ![t] = "failed"]
    /\ UNCHANGED told

\* turn_failed: the last word on the turn even when fail_turn itself failed,
\* and then the row keeps the status it had.
ReportFailure(t) ==
    /\ status[t] # "none"
    /\ told[t] = "nothing"
    /\ told' = [told EXCEPT ![t] = "failed"]
    /\ \/ UNCHANGED status
       \/ status[t] # "failed" /\ status' = [status EXCEPT ![t] = "failed"]

-----------------------------------------------------------------------------
Init ==
    /\ status = [t \in Turns |-> "none"]
    /\ told = [t \in Turns |-> "nothing"]

Next ==
    \E t \in Turns :
        \/ Start(t)
        \/ Finish(t)
        \/ FinishSilently(t)
        \/ Break(t)
        \/ ReportFailure(t)

Spec == Init /\ [][Next]_outcomeVars
=============================================================================
