--------------------------- MODULE MCCanonicalRun ---------------------------
(* Small instances of CanonicalRun for TLC. *)
EXTENDS CanonicalRun, TLC

CONSTANTS d1, d2, elsewhere, p1, p2, r1, r2, r3, template, other, closed

Ask(mode, ids, limit) == [mode |-> mode, ids |-> ids, limit |-> limit, tests |-> TRUE]
NoTests(r) == [r EXCEPT !.tests = FALSE]

\* Two deals of one customer; two deals, one of them of no customer; one deal.
SameCustomer == [d \in {d1, d2} |-> p1]
OneUnowned == (d1 :> p1) @@ (d2 :> None)
OneDeal == [d \in {d1} |-> p1]

AllCreates == {Ask("create", {}, {})}
Mixed == AllCreates \cup
         {NoTests(Ask("create", {}, {})), NoTests(Ask("create", {d2}, {1})),
          Ask("create", {d1, d2}, {1}), Ask("create", {d2}, {-1}),
          Ask("create", {d1, elsewhere}, {}), Ask("create", {}, {0}),
          Ask("propose", {}, {}), Ask("create", {}, {1})}
CreateThenPropose == {Ask("create", {}, {}), Ask("propose", {}, {})}

AnyRow == Permutations(RowIds)
=============================================================================
