------------------------------ MODULE MCRotIndex ------------------------------
(* A book of up to three rows out of these, on three deals: d1 and d2 of one  *)
(* customer, d3 of none.  Today is day 6; the platform flags from 3 days on.  *)
EXTENDS RotIndex, TLC

CONSTANTS d1, d2, d3, p1, p2

Owners == (d1 :> p1) @@ (d2 :> p1) @@ (d3 :> None)
SomeUpdates == [{d1, d2, d3} -> {1, 3, 5}]
OpenedEarly == [d \in {d1, d2, d3} |-> 2]

A(id, deal, party, kind, state, due, created, agent) ==
    [id |-> id, deal |-> deal, party |-> party, kind |-> kind,
     done |-> state \in {"done", "void"}, cancelled |-> state \in {"cancelled", "void"},
     due |-> due, created |-> created, agent |-> agent]

OpenRows ==
    {A(1, d1, None, "task", "open", 7, 6, TRUE), A(2, d1, p1, "call", "open", 6, 2, FALSE),
     A(3, d1, None, "task", "open", 5, 1, FALSE), A(4, d1, None, "task", "open", 4, 1, FALSE),
     A(5, d1, None, "call", "cancelled", 6, 4, FALSE), A(6, d1, None, "task", "open", 8, 3, FALSE),
     A(7, None, p1, "task", "open", 3, 3, FALSE), A(8, d2, None, "task", "open", 8, 5, TRUE)}

DoneRows ==
    {A(11, d1, None, "call", "done", 4, 4, FALSE), A(12, None, p1, "email", "done", 5, 5, FALSE),
     A(13, d1, p1, "call", "done", 7, 3, FALSE), A(14, None, p1, "call", "done", 0, 2, FALSE),
     A(15, d1, None, "call", "void", 5, 5, FALSE), A(16, d1, None, "task", "done", 6, 4, FALSE),
     A(17, d2, None, "email", "done", 3, 2, FALSE), A(18, d3, None, "call", "done", 5, 6, TRUE)}

(* Rows with another customer than their deal's, one of them the agent's.     *)
Strangers ==
    {A(21, d2, p2, "call", "done", 5, 5, FALSE), A(22, d1, p2, "task", "open", 8, 6, TRUE)}

AllRows == OpenRows \cup DoneRows \cup Strangers

(* d1 is written to by the agent; a call with another customer is on d2.      *)
WithMismatch ==
    {A(1, d1, None, "task", "open", 7, 6, TRUE), A(11, d1, None, "call", "done", 3, 3, FALSE),
     A(21, d2, p2, "call", "done", 5, 5, FALSE), A(23, d2, p1, "call", "done", 5, 1, FALSE)}
=============================================================================
