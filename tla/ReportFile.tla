------------------------------ MODULE ReportFile ------------------------------
(***************************************************************************)
(* What results.json is to the evaluator that may stop the runner at any   *)
(* moment: a list of rows that only grows, shown whole or not at all, one  *)
(* row behind at most while nothing has broken.  No task is worked on      *)
(* before the rows of those before it are shown.                           *)
(***************************************************************************)
EXTENDS Sequences

CONSTANT Rows

VARIABLES
    log,      \* the rows recorded
    file,     \* what the evaluator finds
    working,  \* a task is under way
    broken    \* a save has failed, or the tasks were left early

reportVars == <<log, file, working, broken>>

Showing(list) == [whole |-> TRUE, rows |-> list]
Current == file = Showing(log)

Start == log = <<>> /\ file = Showing(<<>>) /\ ~working /\ ~broken

BeginTask ==
    /\ ~working /\ ~broken /\ Current
    /\ working' = TRUE
    /\ UNCHANGED <<log, file, broken>>

Add ==
    /\ Current \/ broken
    /\ \E row \in Rows : log' = Append(log, row)
    /\ working' = FALSE
    /\ UNCHANGED <<file, broken>>

Publish ==
    /\ ~working
    /\ file' = Showing(log)
    /\ UNCHANGED <<log, working, broken>>

Break ==
    /\ broken' = TRUE /\ working' = FALSE
    /\ UNCHANGED <<log, file>>

Step == BeginTask \/ Add \/ Publish \/ Break

Spec == Start /\ [][Step]_reportVars
=============================================================================
