---------------------------- MODULE MCDerivedReads ----------------------------
(* Two deals of one customer; pages of one row. *)
EXTENDS DerivedReads

CONSTANTS d1, d2, acme

DealSet == {d1, d2}
PartySet == {acme}
PartyMap == [d \in DealSet |-> acme]
Any == {Absent, PlainRow("open", None, acme, Today + 1), PlainRow("contact", None, acme, 1),
        PlainRow("contact", d2, acme, Today + 1)}
OnePage == [tool : {"contact_status"}, rotting : {TRUE}, offset : {0, 1}, limit : {1}]
TwoRows == [tool : {"contact_status"}, rotting : {FALSE}, offset : {0}, limit : {2}]
OneSum == [tool : {"aggregate"}, scope : {"Activity"}, openOnly : {FALSE}]
TwoSums == [tool : {"aggregate"}, scope : {"Deal"}, openOnly : BOOLEAN]
Evening == {Today, Today + 1}
=============================================================================
