---------------------------- MODULE AgentLoopProofs ----------------------------
(***************************************************************************)
(* What holds of the model-driven loop whatever the model replies, for     *)
(* every budget, WritePolicy, set of reads and book.                       *)
(***************************************************************************)
EXTENDS AgentLoop, TLAPS

-----------------------------------------------------------------------------
(* What the proofs need of the book: its types.                            *)

\* The teammates keep the book's types.
LEMMA TeammateWritesType ==
  ASSUME NEW i \in RowIds, BookTypeOK, TeammateWrites(i) PROVE BookTypeOK'
<1>1. PICK d \in Deals \cup {None}, p \in Parties \cup {None},
           s \in {"open", "done", "cancelled"} :
           rows' = [rows EXCEPT ![i] = [@ EXCEPT !.deal = d, !.party = p, !.state = s]]
  BY DEF TeammateWrites
<1>2. [rows[i] EXCEPT !.deal = d, !.party = p, !.state = s] \in Row
  BY DEF BookTypeOK, Row
<1>3. rows' \in [RowIds -> Row]
  BY <1>1, <1>2 DEF BookTypeOK
<1>4. edits' \in 0 .. MaxEdits /\ UNCHANGED stage
  BY BookAssumption DEF TeammateWrites, BookTypeOK
<1> QED
  BY <1>3, <1>4 DEF BookTypeOK

\* So does a deal they move.
LEMMA TeammateMovesType ==
  ASSUME NEW d \in Deals, BookTypeOK, TeammateMoves(d) PROVE BookTypeOK'
  BY BookAssumption DEF TeammateMoves, BookTypeOK

\* And every row its author; no row becomes absent again.
LEMMA TeammatesKeepAuthor ==
  ASSUME BookTypeOK, \/ \E i \in RowIds : TeammateWrites(i)
                     \/ \E d \in Deals : TeammateMoves(d)
  PROVE \A j \in RowIds : rows'[j].by = rows[j].by
                           /\ (rows'[j].state = "absent" => rows[j].state = "absent")
<1>1. CASE \E i \in RowIds : TeammateWrites(i)
  <2>1. PICK i \in RowIds : TeammateWrites(i)
    BY <1>1
  <2>2. PICK d \in Deals \cup {None}, p \in Parties \cup {None},
             s \in {"open", "done", "cancelled"} :
             rows' = [rows EXCEPT ![i] = [@ EXCEPT !.deal = d, !.party = p, !.state = s]]
    BY <2>1 DEF TeammateWrites
  <2>3. [rows[i] EXCEPT !.deal = d, !.party = p, !.state = s].by = rows[i].by
    BY DEF BookTypeOK, Row
  <2>4. [rows[i] EXCEPT !.deal = d, !.party = p, !.state = s].state = s
    BY DEF BookTypeOK, Row
  <2> QED
    BY <2>2, <2>3, <2>4 DEF BookTypeOK
<1>2. CASE \E d \in Deals : TeammateMoves(d)
  BY <1>2 DEF TeammateMoves
<1> QED
  BY <1>1, <1>2

-----------------------------------------------------------------------------
(* Types, and what the gates have established of the call in hand.         *)

\* From its admission until it is over, the call in hand would pass the gates.
GateInv ==
    pc \in Guarding \cup {"calling"} => ~Refused(act) /\ ~RepeatOf(act) /\ ~Blocked(act)

\* The shapes a call can have.
LEMMA CallShapes ==
  ASSUME NEW a \in Asked
  PROVE \/ /\ a.tool = "create"
           /\ a.deal \in Arguments(Deals \cup {None})
           /\ a.party \in Arguments(Parties \cup {None})
           /\ a.done \in Arguments({"true", "false"})
        \/ a.tool = "update" /\ a.id \in Arguments(RowIds) /\ a.id["top"] # Unset
        \/ a.tool = "foreign"
        \/ a.tool = "read" /\ a.key \in Reads
<1>0. a \in Calls
  BY CallAssumption
<1>1. CASE a \in Creates
  BY <1>1 DEF Creates
<1>2. CASE a \in Updates
  BY <1>2 DEF Updates
<1>3. CASE a \in Foreign
  BY <1>3 DEF Foreign
<1>4. CASE a \in Lookups
  BY <1>4 DEF Lookups
<1> QED
  BY <1>0, <1>1, <1>2, <1>3, <1>4 DEF Calls

\* A field holds one of its values, or None, whoever reads it.
LEMMA FieldTypes ==
  ASSUME NEW values, NEW f \in Arguments(values)
  PROVE /\ WriteField(f) \in values \cup {None}
        /\ WriteTargetDeal(f) \in values \cup {None}
        /\ ToWire(f) \in values \cup {None}
<1>1. \A p \in Places : f[p] \in values \cup {Unset}
  BY DEF Arguments
<1>2. {"top", "filters", "data"} = Places
  BY DEF Places
<1> QED
  BY <1>1, <1>2 DEF WriteField, WriteTargetDeal, ToWire

\* A field given once is sent as the gates read it.
LEMMA SingleField ==
  ASSUME NEW f, Single(f)
  PROVE ToWire(f) = WriteField(f) /\ WriteTargetDeal(f) = WriteField(f)
  BY DEF Single, ToWire, WriteField, WriteTargetDeal

\* A call has a key, and is not the missing one.
LEMMA CallTypes ==
  ASSUME NEW a \in Asked
  PROVE /\ KeyOf(a) \in Keys /\ a # NoCall
        /\ ~Writes(a) => a.key \in Reads
<1>1. NoCall.tool = "none"
  BY DEF NoCall
<1>2. KeyOf(a) \in Keys
  BY CallShapes DEF KeyOf, Keys
<1>3. a # NoCall
  BY CallShapes, <1>1
<1> QED
  BY CallShapes, <1>2, <1>3 DEF Writes

\* The initial state is well typed.
LEMMA LoopInitType == Init => TypeOK /\ GateInv
<1> SUFFICES ASSUME Init PROVE TypeOK /\ GateInv
  OBVIOUS
<1>1. BookTypeOK
  BY BookAssumption, CallAssumption DEF Init, BookTypeOK, Stages
<1>2. reads \in [Reads -> [times : 0 .. MaxIdenticalReads, at : Nat]]
  BY DEF Init, MaxIdenticalReads
<1>3. denied \in [Keys -> 0 .. MaxRepeatDenials] /\ rounds \in 0 .. MaxSteps
  BY LoopAssumption DEF Init, MaxRepeatDenials
<1> QED
  BY <1>1, <1>2, <1>3
  DEF Init, TypeOK, GateInv, Pcs, Guarding, Endings, Reasons

\* What the server stores for a create.
CreatedRow(a) ==
    [deal |-> ToWire(a.deal), party |-> ToWire(a.party),
     state |-> IF ToWire(a.done) = "true" THEN "done" ELSE "open", by |-> 1]

LEMMA StoresCreateRow ==
  ASSUME TypeOK, act \in Asked, NEW i \in RowIds, StoresCreate(i)
  PROVE /\ rows' = [rows EXCEPT ![i] = CreatedRow(act)]
        /\ CreatedRow(act) \in Row
        /\ CreatedRow(act).by # Others /\ CreatedRow(act).state # "absent"
<1>1. rows' = [rows EXCEPT ![i] =
                 [NewAction(ToWire(act.deal), ToWire(act.party), 1) EXCEPT
                    !.state = IF ToWire(act.done) = "true" THEN "done" ELSE "open"]]
  BY DEF StoresCreate
<1>2. [NewAction(ToWire(act.deal), ToWire(act.party), 1) EXCEPT
         !.state = IF ToWire(act.done) = "true" THEN "done" ELSE "open"] = CreatedRow(act)
  BY DEF NewAction, CreatedRow
<1>3. act.deal \in Arguments(Deals \cup {None}) /\ act.party \in Arguments(Parties \cup {None})
  BY CallShapes DEF StoresCreate
<1>4. ToWire(act.deal) \in Deals \cup {None} /\ ToWire(act.party) \in Parties \cup {None}
  BY <1>3, FieldTypes
<1>5. PICK s \in {"done", "open"} :
        CreatedRow(act) = [deal |-> ToWire(act.deal), party |-> ToWire(act.party),
                           state |-> s, by |-> 1]
  <2>1. CASE ToWire(act.done) = "true"
    BY <2>1 DEF CreatedRow
  <2>2. CASE ToWire(act.done) # "true"
    BY <2>2 DEF CreatedRow
  <2> QED
    BY <2>1, <2>2
<1>6. CreatedRow(act) \in Row /\ CreatedRow(act).by # Others /\ CreatedRow(act).state # "absent"
  BY <1>4, <1>5 DEF Row, Others
<1> QED
  BY <1>1, <1>2, <1>6

\* A row the run stores is a Row, and the book keeps its types.
LEMMA StoresType ==
  ASSUME TypeOK, act \in Asked, NEW i \in RowIds, Stores(i)
  PROVE BookTypeOK'
<1>1. CASE StoresCreate(i)
  BY <1>1, StoresCreateRow DEF Stores, TypeOK, BookTypeOK
<1>2. CASE StoresUpdate(i)
  <2>1. PICK d \in Deals \cup {None}, p \in Parties \cup {None},
             s \in {"open", "done", "cancelled"} :
             rows' = [rows EXCEPT ![i] = [@ EXCEPT !.deal = d, !.party = p, !.state = s]]
    BY <1>2 DEF StoresUpdate
  <2>2. [rows[i] EXCEPT !.deal = d, !.party = p, !.state = s] \in Row
    BY DEF TypeOK, BookTypeOK, Row
  <2> QED
    BY <2>1, <2>2 DEF Stores, TypeOK, BookTypeOK
<1> QED
  BY <1>1, <1>2 DEF Stores

\* An update leaves a row its author.
LEMMA UpdateKeepsAuthor ==
  ASSUME TypeOK, NEW i \in RowIds, StoresUpdate(i)
  PROVE \A j \in RowIds : rows'[j].by = rows[j].by
                           /\ (rows'[j].state = "absent" => rows[j].state = "absent")
<1>1. PICK d \in Deals \cup {None}, p \in Parties \cup {None},
           s \in {"open", "done", "cancelled"} :
           rows' = [rows EXCEPT ![i] = [@ EXCEPT !.deal = d, !.party = p, !.state = s]]
  BY DEF StoresUpdate
<1>2. [rows[i] EXCEPT !.deal = d, !.party = p, !.state = s].by = rows[i].by
  BY DEF TypeOK, BookTypeOK, Row
<1>3. [rows[i] EXCEPT !.deal = d, !.party = p, !.state = s].state = s
  BY DEF TypeOK, BookTypeOK, Row
<1> QED
  BY <1>1, <1>2, <1>3 DEF TypeOK, BookTypeOK

\* While what the gates look at stands, so does what they say.
LEMMA SameGates ==
  ASSUME UNCHANGED <<act, hist, reads, denied, writes>>
  PROVE /\ Refused(act)' <=> Refused(act)
        /\ RepeatOf(act)' <=> RepeatOf(act)
        /\ Blocked(act)' <=> Blocked(act)
  BY DEF Refused, RepeatOf, InWindow, Blocked, OutOfScope

\* No step takes a variable out of its type, nor the call in hand past a gate.
LEMMA LoopStepType == TypeOK /\ GateInv /\ [Next]_vars => TypeOK' /\ GateInv'
<1> SUFFICES ASSUME TypeOK, GateInv, [Next]_vars PROVE TypeOK' /\ GateInv'
  OBVIOUS
<1> USE DEF Pcs, Guarding, Endings, Reasons, End, NextRound, Goto, Drop, KeepHand,
            budget, memory, bookVars
<1>1. CASE ReadClock
  BY <1>1 DEF ReadClock, TypeOK, BookTypeOK, GateInv
<1>2. CASE BeginRound
  <2>1. UNCHANGED <<bookVars, used, last, now, wrapped, memory, lost, repeated>>
    BY <1>2 DEF BeginRound
  <2>2. /\ rounds' \in 0 .. MaxSteps /\ began' \in 0 .. now /\ hist' = hist
        /\ final' \in Reasons /\ act' = NoCall
        /\ touched' \subseteq RowIds /\ hidden' \subseteq RowIds
        /\ \/ pc' = "asking" /\ ended' = "running"
           \/ pc' = "over" /\ ended' \in Endings \ {"running"}
    <3>1. CASE rounds = MaxSteps
      BY <1>2, <3>1 DEF BeginRound, TypeOK
    <3>2. CASE rounds # MaxSteps
      <4>1. rounds + 1 \in 0 .. MaxSteps
        BY LoopAssumption, <3>2 DEF TypeOK
      <4>2. CASE WrapUpSpent
        BY <1>2, <3>2, <4>1, <4>2 DEF BeginRound, BudgetEnding, TypeOK
      <4>3. CASE ~WrapUpSpent
        <5>1. /\ final' \in {"token", "time", "none"}
              /\ rounds' = rounds + 1 /\ began' = now /\ pc' = "asking"
              /\ UNCHANGED <<hist, ended, act, touched, hidden>>
          BY <1>2, <3>2, <4>3, Zenon DEF BeginRound
        <5>2. /\ act = NoCall /\ ended = "running" /\ now \in 0 .. now
              /\ touched \subseteq RowIds /\ hidden \subseteq RowIds
          BY <1>2 DEF BeginRound, TypeOK
        <5> QED
          BY <4>1, <5>1, <5>2
      <4> QED
        BY <4>2, <4>3
    <3> QED
      BY <3>1, <3>2
  <2>3. lastRound' \in Nat
    BY <1>2 DEF BeginRound, TypeOK
  <2> QED
    BY <2>1, <2>2, <2>3 DEF TypeOK, BookTypeOK, GateInv
<1>3. CASE ModelFails
  BY <1>3 DEF ModelFails, TypeOK, BookTypeOK, GateInv
<1>4. CASE ModelReplies
  <2>1. used' \in Nat /\ last' \in Nat /\ now' \in Nat /\ began' \in 0 .. now'
    BY <1>4, LoopAssumption DEF ModelReplies, TypeOK
  <2> QED
    BY <1>4, <2>1 DEF ModelReplies, TypeOK, BookTypeOK, GateInv
<1>5. CASE Unparseable \/ EndOffTurn \/ Note \/ Malformed \/ Done
  BY <1>5
  DEF Unparseable, EndOffTurn, Note, Malformed, Done, BudgetEnding, TypeOK, BookTypeOK,
      GateInv
<1>6. ASSUME NEW a \in Asked, StopRepeatedDenial(a) \/ RefuseRepeat(a)
      PROVE TypeOK' /\ GateInv'
  BY <1>6, CallTypes
  DEF StopRepeatedDenial, RefuseRepeat, InWindow, TypeOK, BookTypeOK, GateInv
<1>7. ASSUME NEW a \in Asked, BlockWrite(a) PROVE TypeOK' /\ GateInv'
  <2>1. denied' \in [Keys -> 0 .. MaxRepeatDenials]
    BY <1>7, CallTypes DEF BlockWrite, Refused, MaxRepeatDenials, TypeOK
  <2> QED
    BY <1>7, <2>1 DEF BlockWrite, TypeOK, BookTypeOK, GateInv
<1>8. ASSUME NEW a \in Asked, Admit(a) PROVE TypeOK' /\ GateInv'
  <2>1. TypeOK'
    BY <1>8, CallTypes DEF Admit, FirstGuard, TypeOK, BookTypeOK
  <2>2. GateInv'
    BY <1>8 DEF Admit, GateInv, Refused, RepeatOf, InWindow, Blocked, OutOfScope
  <2> QED
    BY <2>1, <2>2
<1>9. CASE GuardDeal
  <2>1. CASE NextRound
    BY <1>9, <2>1 DEF GuardDeal, TypeOK, BookTypeOK, GateInv
  <2>2. CASE ~NextRound
    <3>1. /\ pc' \in {"getDeal", "byParty"} /\ touched' = {} /\ hidden' \subseteq RowIds
          /\ UNCHANGED <<bookVars, budget, memory, lost, repeated, act, hist, ended>>
      BY <1>9, <2>2 DEF GuardDeal, NotDoneOnDeal
    <3>2. TypeOK'
      BY <1>9, <3>1 DEF GuardDeal, TypeOK, BookTypeOK
    <3> QED
      BY <1>9, <3>1, <3>2, SameGates DEF GuardDeal, GateInv
  <2> QED
    BY <2>1, <2>2
<1>10. CASE GetDeal \/ GuardParty \/ GuardFails
  <2>1. CASE pc' \notin Guarding \cup {"calling"}
    BY <1>10, <2>1 DEF GetDeal, GuardParty, GuardFails, TypeOK, BookTypeOK, GateInv
  <2>2. CASE pc' \in Guarding \cup {"calling"}
    <3>1. /\ pc \in Guarding
          /\ UNCHANGED <<bookVars, budget, memory, lost, repeated, act, touched, hist, ended>>
          /\ hidden' \subseteq hidden \cup RowIds
      BY <1>10, <2>2 DEF GetDeal, GuardParty, GuardFails, NotDoneOnParty
    <3>2. TypeOK'
      BY <2>2, <3>1 DEF TypeOK, BookTypeOK
    <3> QED
      BY <3>1, <3>2, SameGates DEF GateInv
  <2> QED
    BY <2>1, <2>2
<1>11. CASE ReadAnswers
  <2>1. act.key \in Reads /\ reads[act.key].times < MaxIdenticalReads
    BY <1>11, CallTypes DEF ReadAnswers, GateInv, RepeatOf, TypeOK, MaxIdenticalReads
  <2>2. reads' \in [Reads -> [times : 0 .. MaxIdenticalReads, at : Nat]]
    BY <1>11, <2>1 DEF ReadAnswers, TypeOK, MaxIdenticalReads
  <2> QED
    BY <1>11, <2>2 DEF ReadAnswers, TypeOK, BookTypeOK, GateInv
<1>12. CASE WriteAnswered
  <2>1. PICK i \in RowIds : Stores(i) /\ ids' = Recorded(i)
    BY <1>12 DEF WriteAnswered
  <2>2. BookTypeOK' /\ ids' \subseteq RowIds
    BY <1>12, <2>1, StoresType DEF WriteAnswered, Recorded, TypeOK
  <2> QED
    BY <1>12, <2>2 DEF WriteAnswered, TypeOK, GateInv
<1>13. CASE WriteLost
  <2>1. BookTypeOK'
    BY <1>13, StoresType DEF WriteLost, TypeOK
  <2> QED
    BY <1>13, <2>1 DEF WriteLost, TypeOK, GateInv
<1>14. CASE CallFails \/ CallCrashes
  BY <1>14 DEF CallFails, CallCrashes, TypeOK, BookTypeOK, GateInv
<1>15. CASE CallDenied
  <2>1. denied' \in [Keys -> 0 .. MaxRepeatDenials]
    BY <1>15, CallTypes DEF CallDenied, GateInv, Refused, MaxRepeatDenials, TypeOK
  <2> QED
    BY <1>15, <2>1 DEF CallDenied, TypeOK, BookTypeOK, GateInv
<1>16. CASE Teammates
  <2>1. BookTypeOK'
    BY <1>16, TeammateWritesType, TeammateMovesType DEF Teammates, TypeOK
  <2>2. touched' \subseteq RowIds /\ UNCHANGED <<loopVars, hidden, lost, repeated>>
    BY <1>16 DEF Teammates, TypeOK
  <2> QED
    BY <2>1, <2>2, SameGates DEF loopVars, TypeOK, GateInv
<1>17. CASE UNCHANGED vars
  BY <1>17, SameGates DEF vars, loopVars, TypeOK, BookTypeOK, GateInv
<1> QED
  BY <1>1, <1>2, <1>3, <1>4, <1>5, <1>6, <1>7, <1>8, <1>9, <1>10, <1>11, <1>12, <1>13,
     <1>14, <1>15, <1>16, <1>17
  DEF Next, Loop, Reply, Guard, Call

LEMMA TypesAndGates == Spec => [](TypeOK /\ GateInv)
  BY LoopInitType, LoopStepType, PTL DEF Spec

\* Every variable keeps its type; in particular a read runs at most
\* MaxIdenticalReads times and a refusal is counted at most once.
THEOREM LoopTypeCorrect == Spec => []TypeOK
  BY TypesAndGates, PTL

\* What was refused is not sent again.
THEOREM RefusedOnce == Spec => []RefusedOnceOnly
<1>1. TypeOK /\ GateInv => RefusedOnceOnly
  BY CallTypes
  DEF TypeOK, GateInv, Refused, RefusedOnceOnly, MaxRepeatDenials, Guarding
<1> QED
  BY <1>1, TypesAndGates, PTL

-----------------------------------------------------------------------------
(* The budgets.                                                            *)

\* A reply on the wrap-up is known as such, and until the wrap-up the run has
\* stayed within its token budget.
BudgetInv ==
    /\ NothingAfterWrapUp
    /\ pc = "reply" => (final = "none" <=> wrapped = "none")
    /\ pc # "over" /\ wrapped = "none" =>
         \A cap \in TokenBudget : used = 0 \/ used < cap
    /\ OvershootAtMostOneCall

LEMMA BudgetInit == Init => BudgetInv
<1> SUFFICES ASSUME Init PROVE BudgetInv
  OBVIOUS
<1>1. pc = "clock" /\ used = 0 /\ last = 0 /\ wrapped = "none"
  BY DEF Init
<1>2. \A cap \in TokenBudget : ~(0 > cap)
  BY LoopAssumption
<1> QED
  BY <1>1, <1>2 DEF BudgetInv, NothingAfterWrapUp, OvershootAtMostOneCall

LEMMA BudgetStep == TypeOK /\ BudgetInv /\ [Next]_vars => BudgetInv'
<1> SUFFICES ASSUME TypeOK, BudgetInv, [Next]_vars PROVE BudgetInv'
  OBVIOUS
<1> USE DEF End, NextRound, Goto, budget
<1>1. ASSUME UNCHANGED budget, pc # "over",
             wrapped = "none" \/ pc' \in {"round", "over"},
             pc' # "reply" \/ pc = "reply"
      PROVE BudgetInv'
  BY <1>1 DEF BudgetInv, NothingAfterWrapUp, OvershootAtMostOneCall
<1>2. CASE ReadClock \/ ModelFails
  BY <1>1, <1>2 DEF ReadClock, ModelFails, BudgetInv, NothingAfterWrapUp
<1>3. CASE BeginRound
  <2>1. /\ UNCHANGED <<used, last, wrapped>> /\ pc = "round"
        /\ pc' \in {"asking", "over"} /\ (pc' = "asking" => wrapped = "none")
    BY <1>3 DEF BeginRound, WrapUpSpent
  <2> QED
    BY <2>1 DEF BudgetInv, NothingAfterWrapUp, OvershootAtMostOneCall
<1>4. CASE ModelReplies
  <2>1. PICK cost \in Costs : used' = used + cost /\ last' = cost
    BY <1>4 DEF ModelReplies
  <2>2. cost \in Nat /\ used \in Nat /\ TokenBudget \subseteq Nat
    BY LoopAssumption DEF TypeOK
  <2>3. /\ pc = "asking" /\ wrapped = "none" /\ wrapped' = final
        /\ UNCHANGED final
        /\ pc' \in {"reply", "over"}
        /\ pc' = "reply" /\ final = "none" => ~OverBudget(used')
    BY <1>4 DEF ModelReplies, BudgetInv, NothingAfterWrapUp
  <2>4. OvershootAtMostOneCall'
    BY <2>1, <2>2, <2>3 DEF BudgetInv, OvershootAtMostOneCall
  <2>5. pc' = "reply" /\ final = "none" => \A cap \in TokenBudget : used' < cap
    BY <2>1, <2>2, <2>3 DEF OverBudget
  <2> QED
    BY <2>3, <2>4, <2>5 DEF BudgetInv, NothingAfterWrapUp
<1>5. CASE Reply
  <2>1. pc = "reply" /\ UNCHANGED budget
    BY <1>5
    DEF Reply, Unparseable, EndOffTurn, Note, Malformed, Done, StopRepeatedDenial,
        RefuseRepeat, BlockWrite, Admit
  <2>2. CASE pc' \in {"round", "over"}
    BY <1>1, <2>1, <2>2
  <2>3. CASE pc' \notin {"round", "over"}
    <3>1. ~OffTurn /\ pc' # "reply"
      BY <1>5, <2>3
      DEF Reply, Unparseable, EndOffTurn, Note, Malformed, Done, StopRepeatedDenial,
          RefuseRepeat, BlockWrite, Admit, FirstGuard
    <3>2. wrapped = "none"
      BY <2>1, <3>1 DEF OffTurn, BudgetInv
    <3> QED
      BY <1>1, <2>1, <3>1, <3>2
  <2> QED
    BY <2>2, <2>3
<1>6. CASE Guard \/ Call
  <2>1. pc \in Guarding \cup {"calling"} /\ pc' # "reply" /\ UNCHANGED budget
    BY <1>6
    DEF Guard, Call, Guarding, GuardDeal, GetDeal, GuardParty, GuardFails, ReadAnswers,
        WriteAnswered, WriteLost, CallFails, CallDenied, CallCrashes
  <2> QED
    BY <1>1, <2>1 DEF BudgetInv, NothingAfterWrapUp, Guarding
<1>7. CASE Teammates \/ UNCHANGED vars
  BY <1>7
  DEF Teammates, vars, loopVars, BudgetInv, NothingAfterWrapUp, OvershootAtMostOneCall
<1> QED
  BY <1>2, <1>3, <1>4, <1>5, <1>6, <1>7 DEF Next, Loop

LEMMA BudgetHolds == Spec => []BudgetInv
  BY TypesAndGates, BudgetInit, BudgetStep, PTL DEF Spec

\* A run goes over its token budget with one model call at most.
THEOREM OvershootBounded == Spec => []OvershootAtMostOneCall
<1>1. BudgetInv => OvershootAtMostOneCall
  BY DEF BudgetInv
<1> QED
  BY <1>1, BudgetHolds, PTL

\* The wrap-up reply is the last thing a run asks for.
THEOREM WrapUpIsLast == Spec => []NothingAfterWrapUp
<1>1. BudgetInv => NothingAfterWrapUp
  BY DEF BudgetInv
<1> QED
  BY <1>1, BudgetHolds, PTL

-----------------------------------------------------------------------------
(* The writes.                                                             *)

\* A write is made within the policy; and what it changes is within its scope
\* whenever no field of the call stands in two places.
THEOREM PolicyKept == Spec => StaysInPolicy
<1>1. TypeOK /\ GateInv /\ [Next]_vars =>
        [pc = "calling" /\ pc' # pc /\ rows' # rows =>
            /\ Policy.allows /\ writes < Policy.max
            /\ Plain(act) => \A i \in RowIds : rows'[i] # rows[i] =>
                                  WithinScope(i, rows[i], rows'[i])]_vars
  <2> SUFFICES ASSUME TypeOK, GateInv, Next, pc = "calling", pc' # pc, rows' # rows
               PROVE /\ Policy.allows /\ writes < Policy.max
                     /\ Plain(act) => \A i \in RowIds : rows'[i] # rows[i] =>
                                           WithinScope(i, rows[i], rows'[i])
    OBVIOUS
  <2>1. WriteAnswered \/ WriteLost
    BY DEF Next, Loop, ReadClock, BeginRound, ModelFails, ModelReplies, Reply,
           Unparseable, EndOffTurn, Note, Malformed, Done, StopRepeatedDenial,
           RefuseRepeat, BlockWrite, Admit, Guard, GuardDeal, GetDeal, GuardParty,
           GuardFails, Guarding, Call, ReadAnswers, CallFails, CallDenied, CallCrashes,
           Teammates, loopVars, bookVars
  <2>2. ~Blocked(act) /\ Writes(act) /\ act \in Asked /\ \E i \in RowIds : Stores(i)
    BY <2>1 DEF WriteAnswered, WriteLost, GateInv, TypeOK
  <2>3. PICK i \in RowIds : Stores(i)
    BY <2>2
  <2>4. Policy.allows /\ writes < Policy.max
    <3>1. Policy.allows /\ ~(writes >= Policy.max)
      BY <2>2 DEF Blocked, OutOfScope
    <3>2. writes \in Nat /\ Policy.max \in Nat
      BY LoopAssumption DEF TypeOK
    <3>3. ~(writes >= Policy.max) => writes < Policy.max
      BY <3>2
    <3> QED
      BY <3>1, <3>3, Zenon
  <2>5. \A j \in RowIds : rows'[j] # rows[j] => j = i
    BY <2>3 DEF Stores, StoresCreate, StoresUpdate, TypeOK, BookTypeOK
  <2>6. ASSUME Plain(act) PROVE WithinScope(i, rows[i], rows'[i])
    <3>1. CASE StoresCreate(i)
      <4>1. rows'[i] = CreatedRow(act) /\ rows[i].state = "absent" /\ act.tool = "create"
        BY <2>2, <3>1, StoresCreateRow DEF StoresCreate, TypeOK, BookTypeOK
      <4>2. ToWire(act.done) = WriteField(act.done) /\ ToWire(act.deal) = WriteTargetDeal(act.deal)
        BY <2>6, <4>1, SingleField DEF Plain
      <4>3. /\ WriteField(act.done) # "true"
            /\ Policy.deals # {} => WriteTargetDeal(act.deal) \in Policy.deals
        BY <2>2, <4>1 DEF Blocked, OutOfScope
      <4> QED
        BY <4>1, <4>2, <4>3 DEF CreatedRow, WithinScope
    <3>2. CASE StoresUpdate(i)
      <4>1. act.tool = "update" /\ i = ToWire(act.id) /\ rows[i].state # "absent"
        BY <3>2 DEF StoresUpdate
      <4>2. Single(act.id) /\ act.id["top"] # Unset
        BY <2>2, <2>6, <4>1, CallShapes DEF Plain
      <4>3. i = act.id["top"] /\ act.id["top"] \in Policy.records
        BY <2>2, <4>1, <4>2 DEF Single, ToWire, Blocked, OutOfScope
      <4> QED
        BY <4>1, <4>3 DEF WithinScope
    <3> QED
      BY <2>3, <3>1, <3>2 DEF Stores
  <2> QED
    BY <2>4, <2>5, <2>6
<1> QED
  BY <1>1, TypesAndGates, PTL DEF Spec, StaysInPolicy

\* Whose ids the run holds.
RecordInv ==
    /\ \A i \in RowIds : rows[i].state = "absent" => rows[i].by = Others
    /\ RecordsItsCreates

LEMMA RecordStep ==
  TypeOK /\ TypeOK' /\ RecordInv /\ [Next]_vars => RecordInv'
<1> SUFFICES ASSUME TypeOK, TypeOK', RecordInv, [Next]_vars PROVE RecordInv'
  OBVIOUS
<1>1. ASSUME UNCHANGED <<rows, ids, lost>> PROVE RecordInv'
  BY <1>1 DEF RecordInv, RecordsItsCreates
<1>2. CASE WriteAnswered
  <2>1. PICK i \in RowIds : Stores(i) /\ ids' = Recorded(i) /\ lost' = lost
    BY <1>2 DEF WriteAnswered
  <2>2. CASE StoresCreate(i)
    <3>1. ids' = ids \cup {i}
      BY <2>1, <2>2 DEF StoresCreate, Recorded
    <3>2. /\ rows' = [rows EXCEPT ![i] = CreatedRow(act)]
          /\ CreatedRow(act).by # Others /\ CreatedRow(act).state # "absent"
      BY <1>2, <2>2, StoresCreateRow DEF WriteAnswered, TypeOK
    <3>3. rows'[i] = CreatedRow(act) /\ \A j \in RowIds \ {i} : rows'[j] = rows[j]
      BY <3>2 DEF TypeOK, BookTypeOK
    <3> QED
      BY <2>1, <3>1, <3>2, <3>3 DEF RecordInv, RecordsItsCreates
  <2>3. CASE StoresUpdate(i)
    <3>1. ids' = ids
      BY <2>1, <2>3 DEF StoresUpdate, Recorded
    <3>2. \A j \in RowIds : rows'[j].by = rows[j].by
                            /\ (rows'[j].state = "absent" => rows[j].state = "absent")
      BY <2>3, UpdateKeepsAuthor
    <3> QED
      BY <2>1, <3>1, <3>2 DEF RecordInv, RecordsItsCreates
  <2> QED
    BY <2>1, <2>2, <2>3 DEF Stores
<1>3. CASE WriteLost
  <2>1. PICK i \in RowIds : Stores(i)
    BY <1>3 DEF WriteLost
  <2>2. UNCHANGED ids /\ lost' # 0
    <3>1. UNCHANGED ids /\ lost' = lost + 1
      BY <1>3 DEF WriteLost, memory
    <3> QED
      BY <3>1 DEF TypeOK
  <2>3. \A j \in RowIds : /\ rows[j].by # Others => rows'[j].by # Others
                          /\ rows'[j].state = "absent" =>
                               rows[j].state = "absent" /\ rows'[j].by = rows[j].by
    <3>1. CASE StoresCreate(i)
      <4>1. rows' = [rows EXCEPT ![i] = CreatedRow(act)] /\ CreatedRow(act).by # Others
            /\ CreatedRow(act).state # "absent"
        BY <1>3, <3>1, StoresCreateRow DEF WriteLost, TypeOK
      <4> QED
        BY <4>1 DEF TypeOK, BookTypeOK
    <3>2. CASE StoresUpdate(i)
      BY <3>2, UpdateKeepsAuthor
    <3> QED
      BY <2>1, <3>1, <3>2 DEF Stores
  <2> QED
    BY <2>2, <2>3 DEF RecordInv, RecordsItsCreates
<1>4. CASE Teammates
  <2>1. UNCHANGED <<ids, lost>>
    BY <1>4 DEF Teammates, loopVars, memory
  <2>2. \A j \in RowIds : rows'[j].by = rows[j].by
                          /\ (rows'[j].state = "absent" => rows[j].state = "absent")
    BY <1>4, TeammatesKeepAuthor DEF Teammates, TypeOK
  <2> QED
    BY <2>1, <2>2 DEF RecordInv, RecordsItsCreates
<1>5. CASE \/ ReadClock \/ BeginRound \/ ModelFails \/ ModelReplies \/ Guard
           \/ ReadAnswers \/ CallFails \/ CallDenied \/ CallCrashes \/ UNCHANGED vars
  BY <1>1, <1>5
  DEF ReadClock, BeginRound, ModelFails, ModelReplies, Guard, GuardDeal, GetDeal,
      GuardParty, GuardFails, ReadAnswers, CallFails, CallDenied, CallCrashes, vars,
      loopVars, memory, bookVars
<1>6. CASE Reply
  BY <1>1, <1>6
  DEF Reply, Unparseable, EndOffTurn, Note, Malformed, Done, StopRepeatedDenial,
      RefuseRepeat, BlockWrite, Admit, memory, bookVars
<1> QED
  BY <1>2, <1>3, <1>4, <1>5, <1>6 DEF Next, Loop, Call

\* A row the loop adds is in created_record_ids, unless a reply was lost.
THEOREM CreatesRecorded == Spec => []RecordsItsCreates
<1>1. Init => RecordInv
  BY CallAssumption DEF Init, RecordInv, RecordsItsCreates
<1>2. RecordInv => RecordsItsCreates
  BY DEF RecordInv
<1> QED
  BY <1>1, <1>2, RecordStep, LoopTypeCorrect, PTL DEF Spec

-----------------------------------------------------------------------------
(* The duplicate guard.                                                    *)

\* The open rows the guard looks for: on the deal it reads in the call, and on
\* the customer it then asks for.
OnDeal(book, a) ==
    {i \in RowIds : /\ WriteField(a.deal) # None
                    /\ book[i].state = "open" /\ book[i].deal = WriteField(a.deal)}
OnCustomer(book, a) ==
    {i \in RowIds : /\ book[i].state = "open" /\ book[i].deal = None
                    /\ GuardedCustomer(a) # None /\ book[i].party = GuardedCustomer(a)}

\* What the guard has established by the time the create is made.
DuplicateInv ==
    /\ pc \in Guarding => act.tool = "create"
    /\ pc = "byDeal" => WriteField(act.deal) # None
    /\ pc \in {"getDeal", "byParty"} => OnDeal(rows, act) \subseteq touched \cup hidden
    /\ pc = "calling" /\ act.tool = "create" =>
          OnDeal(rows, act) \cup OnCustomer(rows, act) \subseteq touched \cup hidden

\* Where no field is given twice, the guard looks for what the create duplicates.
LEMMA GuardSeesTarget ==
  ASSUME NEW book, NEW a, a.tool = "create", Plain(a)
  PROVE Duplicates(book, a) \subseteq OnDeal(book, a) \cup OnCustomer(book, a)
<1>1. ToWire(a.deal) = WriteField(a.deal) /\ ToWire(a.party) = WriteField(a.party)
  BY SingleField DEF Plain
<1>2. CustomerOf(ToWire(a.deal), ToWire(a.party)) = GuardedCustomer(a)
  BY <1>1 DEF GuardedCustomer
<1> QED
  BY <1>1, <1>2 DEF Duplicates, OnDeal, OnCustomer

\* Rows nobody touched are as they were.
LEMMA UntouchedRows ==
  ASSUME NEW a, TypeOK, TypeOK', \A i \in RowIds : rows'[i] # rows[i] => i \in touched'
  PROVE /\ OnDeal(rows', a) \subseteq OnDeal(rows, a) \cup touched'
        /\ OnCustomer(rows', a) \subseteq OnCustomer(rows, a) \cup touched'
  BY DEF OnDeal, OnCustomer

LEMMA DuplicateStep == TypeOK /\ TypeOK' /\ DuplicateInv /\ [Next]_vars => DuplicateInv'
<1> SUFFICES ASSUME TypeOK, TypeOK', DuplicateInv, [Next]_vars PROVE DuplicateInv'
  OBVIOUS
<1> USE DEF End, NextRound, Goto, Drop, KeepHand, bookVars
<1>1. ASSUME pc' \notin Guarding \cup {"calling"} PROVE DuplicateInv'
  BY <1>1 DEF DuplicateInv, Guarding
<1>2. CASE \/ ReadClock \/ BeginRound \/ ModelFails \/ ModelReplies
           \/ (Reply /\ ~\E a \in Asked : Admit(a)) \/ GuardFails \/ Call
  <2>1. pc' \notin Guarding \cup {"calling"}
    BY <1>2
    DEF Guarding, ReadClock, BeginRound, ModelFails, ModelReplies, Reply, Unparseable,
        EndOffTurn, Note, Malformed, Done, StopRepeatedDenial, RefuseRepeat, BlockWrite,
        GuardFails, Call, ReadAnswers, WriteAnswered, WriteLost, CallFails, CallDenied,
        CallCrashes
  <2> QED
    BY <1>1, <2>1
<1>3. ASSUME NEW a \in Asked, Admit(a) PROVE DuplicateInv'
  <2>1. act' = a /\ pc' = FirstGuard(a) /\ UNCHANGED rows
    BY <1>3 DEF Admit
  <2> QED
    BY <2>1
    DEF FirstGuard, DuplicateInv, OnDeal, OnCustomer, GuardedCustomer, CustomerOf, Guarding
<1>4. CASE GuardDeal
  <2> DEFINE deal == WriteField(act.deal)
             matches == NotDoneOnDeal(rows, deal)
  <2>1. PICK found \in Replies(matches) :
           pc' # "round" =>
              /\ LiveOnDeal(rows, found) = {}
              /\ pc' \in {"getDeal", "byParty"} /\ hidden' = matches \ found
              /\ UNCHANGED <<rows, act>>
    BY <1>4 DEF GuardDeal
  <2>2. OnDeal(rows, act) \subseteq matches
    BY DEF OnDeal, NotDoneOnDeal
  <2>3. pc' # "round" => OnDeal(rows, act) \cap found = {}
    BY <2>1 DEF LiveOnDeal, IsCancelled, OnDeal
  <2>4. CASE pc' = "round"
    BY <1>1, <2>4 DEF Guarding
  <2>5. CASE pc' # "round"
    <3>1. OnDeal(rows, act)' = OnDeal(rows, act)
      BY <2>1, <2>5 DEF OnDeal
    <3>2. OnDeal(rows, act) \subseteq hidden'
      BY <2>1, <2>2, <2>3, <2>5
    <3>3. act'.tool = "create" /\ pc' \in {"getDeal", "byParty"}
      BY <1>4, <2>1, <2>5 DEF GuardDeal, DuplicateInv, Guarding
    <3> QED
      BY <3>1, <3>2, <3>3 DEF DuplicateInv, Guarding
  <2> QED
    BY <2>4, <2>5
<1>5. CASE GetDeal
  BY <1>5 DEF GetDeal, DuplicateInv, OnDeal, OnCustomer, Guarding
<1>6. CASE GuardParty
  <2> DEFINE matches == NotDoneOnParty(rows, GuardedCustomer(act))
  <2>1. PICK found \in Replies(matches) :
           pc' # "round" =>
              /\ LiveOnParty(rows, found) = {}
              /\ pc' = "calling" /\ hidden' = hidden \cup (matches \ found)
              /\ UNCHANGED <<rows, act, touched>>
    BY <1>6 DEF GuardParty
  <2>2. OnCustomer(rows, act) \subseteq matches
    BY DEF OnCustomer, NotDoneOnParty
  <2>3. pc' # "round" => OnCustomer(rows, act) \cap found = {}
    BY <2>1 DEF LiveOnParty, IsCancelled, OnCustomer
  <2>4. CASE pc' = "round"
    BY <1>1, <2>4 DEF Guarding
  <2>5. CASE pc' # "round"
    <3>1. OnDeal(rows, act)' = OnDeal(rows, act) /\ OnCustomer(rows, act)' = OnCustomer(rows, act)
      BY <2>1, <2>5 DEF OnDeal, OnCustomer, GuardedCustomer
    <3>2. OnDeal(rows, act) \subseteq touched \cup hidden
      BY <1>6 DEF GuardParty, DuplicateInv
    <3>3. OnCustomer(rows, act) \subseteq hidden'
      BY <2>1, <2>2, <2>3, <2>5
    <3> QED
      BY <2>1, <2>5, <3>1, <3>2, <3>3 DEF DuplicateInv, Guarding
  <2> QED
    BY <2>4, <2>5
<1>7. ASSUME UNCHANGED <<pc, act, hidden>>, touched \subseteq touched',
             pc \in Guarding \cup {"calling"} =>
               \A i \in RowIds : rows'[i] # rows[i] => i \in touched'
      PROVE DuplicateInv'
  <2>1. CASE pc' \notin Guarding \cup {"calling"}
    BY <1>1, <2>1
  <2>2. CASE pc' \in Guarding \cup {"calling"}
    <3>1. /\ OnDeal(rows', act) \subseteq OnDeal(rows, act) \cup touched'
          /\ OnCustomer(rows', act) \subseteq OnCustomer(rows, act) \cup touched'
      BY <1>7, <2>2, UntouchedRows
    <3>2. OnDeal(rows, act)' = OnDeal(rows', act) /\ OnCustomer(rows, act)' = OnCustomer(rows', act)
      BY <1>7 DEF OnDeal, OnCustomer, GuardedCustomer
    <3> QED
      BY <1>7, <3>1, <3>2 DEF DuplicateInv
  <2> QED
    BY <2>1, <2>2
<1>8. CASE Teammates
  <2>1. CASE \E i \in RowIds : /\ TeammateWrites(i)
                               /\ touched' = IF act = NoCall THEN {} ELSE touched \cup {i}
    <3>1. pc \notin Guarding \cup {"calling"} => DuplicateInv'
      BY <1>1, <1>8 DEF Teammates, loopVars
    <3>2. pc \in Guarding \cup {"calling"} => act # NoCall
      BY CallTypes DEF TypeOK
    <3> QED
      BY <1>7, <1>8, <2>1, <3>1, <3>2
      DEF Teammates, TeammateWrites, loopVars, TypeOK, BookTypeOK
  <2>2. CASE (\E d \in Deals : TeammateMoves(d)) /\ UNCHANGED touched
    BY <1>7, <1>8, <2>2 DEF Teammates, TeammateMoves, loopVars
  <2> QED
    BY <1>8, <2>1, <2>2 DEF Teammates
<1>9. CASE UNCHANGED vars
  BY <1>7, <1>9 DEF vars, loopVars
<1> QED
  BY <1>2, <1>3, <1>4, <1>5, <1>6, <1>8, <1>9 DEF Next, Loop, Guard

\* A create that gives no field twice is made past an open activity only if it
\* is newer than the guard's first read or stood beyond the end of its page,
\* whatever the size of the book and of the pages.
THEOREM GuardOverlooksNothing == Spec => []NoUncheckedCreate
<1>1. Init => DuplicateInv
  BY DEF Init, DuplicateInv, Guarding
<1>2. DuplicateInv => NoUncheckedCreate
  BY GuardSeesTarget DEF DuplicateInv, NoUncheckedCreate
<1> QED
  BY <1>1, <1>2, DuplicateStep, LoopTypeCorrect, PTL DEF Spec
=============================================================================
