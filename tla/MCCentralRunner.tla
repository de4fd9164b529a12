--------------------------- MODULE MCCentralRunner ---------------------------
(* Values for TLC: limits of a few ticks; a budget that is already inside the *)
(* margin, one that runs out in the middle, one that never binds, and none.   *)
EXTENDS CentralRunner

MCLimit == [t \in Tasks |-> IF t \in {"canonical", "loop"} THEN 2 ELSE 1]
MCDeadlines == {NoDeadline, 1, 4, 9}

(* In units of five seconds the code's margin, floor and request timeout are  *)
(* 4, 1 and 6; here with a budget of thirty seconds.                          *)
HalfMinute == {6}
=============================================================================
