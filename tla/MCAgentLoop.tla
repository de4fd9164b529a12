----------------------------- MODULE MCAgentLoop -----------------------------
(* Small instances of AgentLoop for TLC. *)
EXTENDS AgentLoop, TLC

CONSTANTS d1, d2, p1, p2, r1, r2, r3, page, single, status, template, closed

NoReads == {}
OneOwned == [d \in {d1} |-> p1]
OneUnowned == (d1 :> p1) @@ (d2 :> None)

\* page and single read the same entity with the same tool.
Tools == (page :> "list Deal") @@ (single :> "list Deal") @@ (status :> "contact_status")

Allow(max) ==
    [allows |-> TRUE, deals |-> {d1}, records |-> {r1}, max |-> max]
TwoOnFirst == Allow(2)
OneOnFirst == Allow(1)
ReadOnly == [allows |-> FALSE, deals |-> {}, records |-> {}, max |-> 0]

\* A field left out, given in `data` as the prompt shows it, or given twice.
Out == [p \in Places |-> Unset]
Data(v) == [Out EXCEPT !["data"] = v]
Beside(v) == [Out EXCEPT !["top"] = v]
Twice(v, place, w) == [Beside(v) EXCEPT ![place] = w]

Create(deal, party, done) ==
    [tool |-> "create", deal |-> deal, party |-> party, done |-> done]
Update(id) == [tool |-> "update", id |-> id]

PlainCreates(deals, parties) ==
    {Create(d, p, Out) : d \in {Out} \cup {Data(x) : x \in deals},
                         p \in {Out} \cup {Data(x) : x \in parties}}
OnlyReads == Lookups \cup Foreign
PlainWrites == PlainCreates(Deals, Parties) \cup {Update(Beside(i)) : i \in RowIds}
EveryWrite ==
    PlainCreates(Deals, Parties) \cup Foreign
    \cup {Create(Data(d1), Out, Data(done)) : done \in {"true", "false"}}
    \cup {Create(Beside(d1), Out, Twice("false", "data", "true")),
          Create(Twice(d1, "data", d2), Out, Out), Create(Twice(d1, "filters", d2), Out, Out),
          Create(Twice(None, "data", d1), Out, Out)}
    \cup {Update(Beside(r1)), Update(Beside(r2)), Update(Twice(r1, "data", r2))}

\* A book without rows, and one whose deal has a cancelled row before the open one.
Empty == [i \in RowIds |-> Absent]
OnFirst(state) == [deal |-> d1, party |-> None, state |-> state, by |-> Others]
Crowded ==
    [i \in RowIds |-> IF i = r1 THEN OnFirst("cancelled")
                      ELSE IF i = r2 THEN OnFirst("open") ELSE Absent]
EmptyBook == {Empty}
TwoBooks == {Empty, Crowded}
=============================================================================
