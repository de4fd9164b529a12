---------------------------- MODULE MCFixtureLedger ----------------------------
(* D8, D10 and D15, which Run C may all write to, and one of the parties. *)
EXTENDS FixtureLedger

CONSTANTS D8, D10, D15

ThreeDeals == {D8, D10, D15}
InOrder == <<D8, D10, D15>>
=============================================================================
