-------------------------- MODULE CanonicalRunProofs --------------------------
(***************************************************************************)
(* What holds of the canonical task for every book, every set of requests  *)
(* and any number of runs, teammates' writes and rows.                     *)
(***************************************************************************)
EXTENDS CanonicalRun, FiniteSetTheorems, TLAPS

-----------------------------------------------------------------------------
(* What the proofs need of the book: its types, and what a reply to a list *)
(* call tells.                                                             *)

\* Every initial book is well typed.
LEMMA BookInitType == BookInit => BookTypeOK
<1>1. Absent \in Row
  BY DEF Absent, Row, Others
<1> QED
  BY <1>1, BookAssumption DEF BookInit, BookTypeOK, Stages

\* The teammates keep the book's types.
LEMMA TeammateWritesType ==
  ASSUME NEW i \in RowIds, BookTypeOK, TeammateWrites(i) PROVE BookTypeOK'
<1>1. PICK d \in Deals \cup {None}, p \in Parties \cup {None},
           s \in {"open", "done", "cancelled"} :
           rows' = [rows EXCEPT ![i] = [@ EXCEPT !.deal = d, !.party = p, !.state = s]]
  BY DEF TeammateWrites
<1>2. [rows[i] EXCEPT !.deal = d, !.party = p, !.state = s] \in Row
  BY DEF BookTypeOK, Row
<1>3. rows' \in [RowIds -> Row]
  BY <1>1, <1>2 DEF BookTypeOK
<1>4. edits' \in 0 .. MaxEdits /\ UNCHANGED stage
  BY BookAssumption DEF TeammateWrites, BookTypeOK
<1> QED
  BY <1>3, <1>4 DEF BookTypeOK

\* So does a deal they move.
LEMMA TeammateMovesType ==
  ASSUME NEW d \in Deals, BookTypeOK, TeammateMoves(d) PROVE BookTypeOK'
  BY BookAssumption DEF TeammateMoves, BookTypeOK

\* A page is empty only when nothing matches.
LEMMA EmptyPage ==
  ASSUME NEW matches \in SUBSET RowIds, {} \in Replies(matches) PROVE matches = {}
<1>1. Cardinality({}) = 0 /\ ReadLimit # 0
  BY FS_EmptySet, BookAssumption
<1> QED
  BY <1>1 DEF Replies

-----------------------------------------------------------------------------
(* Types.                                                                  *)

\* Every initial state is well typed.
LEMMA InitType == Init => TypeOK
<1> SUFFICES ASSUME Init PROVE TypeOK
  OBVIOUS
<1>1. BookTypeOK
  BY BookInitType DEF Init
<1>2. listed \in [Deals -> 0 .. 1] /\ assessed \in [Deals -> 0 .. 1]
      /\ todo \in [Deals -> 0 .. 1] /\ sent \in [Deals -> Nat]
  BY DEF Init, Nothing
<1>3. seen \in [Deals -> Stages]
  BY DEF Init, BookInit, Stages
<1>4. action \in [Deals -> Statuses] /\ run \in 1 .. MaxRuns
  BY RunAssumption DEF Init, Statuses
<1>5. /\ pc \in Pcs /\ pc \notin Acting /\ outcome \in Outcomes
      /\ outcome = "running" <=> pc # "over"
  BY DEF Init, Pcs, Reading, Acting, Outcomes
<1> QED
  BY <1>1, <1>2, <1>3, <1>4, <1>5 DEF Init, TypeOK

\* A step of the preamble keeps every variable in its type.
LEMMA PreambleType == TypeOK /\ Preamble => TypeOK'
<1> SUFFICES ASSUME TypeOK, Preamble PROVE TypeOK'
  OBVIOUS
<1> USE DEF Pcs, Reading, Acting, Outcomes, KeepEnd, KeepReads, KeepIds, KeepWork,
            End, Fail, Refuse, ghosts, bookVars
<1>1. CASE LoadRotThreshold
  BY <1>1 DEF LoadRotThreshold, TypeOK, BookTypeOK
<1>2. CASE LoadDeals
  <2>1. listed' \in [Deals -> 0 .. 1] /\ seen' \in [Deals -> Stages]
    BY <1>2 DEF LoadDeals, TypeOK, BookTypeOK, UniqueDeals
  <2>2. /\ outcome' \in Outcomes /\ pc' \in Reading \cup {"over"}
        /\ outcome' = "running" <=> pc' # "over"
        /\ reported' \subseteq RowIds
        /\ refusedOn' \subseteq {"Deal", "Activity"}
    BY <1>2 DEF LoadDeals, TypeOK
  <2> QED
    BY <1>2, <2>1, <2>2 DEF LoadDeals, TypeOK, BookTypeOK
<1>3. CASE LoadActivityIndex
  BY <1>3 DEF LoadActivityIndex, TypeOK, BookTypeOK, IndexedOpen
<1>4. CASE SelectDeals
  BY <1>4 DEF SelectDeals, TypeOK, BookTypeOK
<1> QED
  BY <1>1, <1>2, <1>3, <1>4 DEF Preamble

\* So does a step for one deal.
LEMMA ActionType == TypeOK /\ DetermineNextAction => TypeOK'
<1> SUFFICES ASSUME TypeOK, DetermineNextAction PROVE TypeOK'
  OBVIOUS
<1> USE DEF Pcs, Reading, Acting, Outcomes, Statuses, KeepEnd, KeepReads, KeepIds,
            KeepWork, End, Fail, Conclude, ghosts, bookVars
<1>1. CASE \E d \in Deals : Consider(d)
  BY <1>1 DEF Consider, TypeOK, BookTypeOK
<1>2. CASE RereadMoved
  BY <1>2 DEF RereadMoved, TypeOK, BookTypeOK
<1>3. CASE RereadUnmoved
  BY <1>3 DEF RereadUnmoved, TypeOK, BookTypeOK
<1>4. CASE RereadUnreadable
  BY <1>4 DEF RereadUnreadable, TypeOK, BookTypeOK
<1>5. CASE RecheckDeal
  <2>1. hidden' \subseteq RowIds
    BY <1>5 DEF RecheckDeal, NotDoneOnDeal
  <2> QED
    BY <1>5, <2>1 DEF RecheckDeal, TypeOK, BookTypeOK
<1>6. CASE RecheckParty
  <2>1. hidden' \subseteq RowIds
    BY <1>6 DEF RecheckParty, NotDoneOnParty, TypeOK
  <2> QED
    BY <1>6, <2>1 DEF RecheckParty, TypeOK, BookTypeOK
<1>7. CASE RecheckFails
  BY <1>7 DEF RecheckFails, TypeOK, BookTypeOK
<1>8. CASE SendCreate
  BY <1>8 DEF SendCreate, TypeOK, BookTypeOK
<1>9. CASE CreateAnswered
  BY <1>9 DEF CreateAnswered, TypeOK, BookTypeOK
<1>10. CASE CreateRejected
  BY <1>10 DEF CreateRejected, TypeOK, BookTypeOK
<1>11. CASE CreateTimesOut
  BY <1>11 DEF CreateTimesOut, TypeOK, BookTypeOK
<1> QED
  BY <1>1, <1>2, <1>3, <1>4, <1>5, <1>6, <1>7, <1>8, <1>9, <1>10, <1>11
  DEF DetermineNextAction

\* A served create leaves a row of the right shape behind.
LEMMA ServeType == TypeOK /\ (\E w \in wire : Serve(w)) => TypeOK'
<1> SUFFICES ASSUME TypeOK, \E w \in wire : Serve(w) PROVE TypeOK'
  OBVIOUS
<1>1. PICK w \in wire : Serve(w)
  OBVIOUS
<1>2. PICK i \in RowIds :
          /\ rows' = [rows EXCEPT ![i] = NewAction(w.deal, None, w.run)]
          /\ wire' \subseteq wire \cup {[w EXCEPT !.row = i]}
          /\ touched' = touched \cup {i}
          /\ late' \in BOOLEAN
  BY <1>1 DEF Serve, TypeOK
<1>3. w \in [deal : Deals, run : 1 .. MaxRuns, row : RowIds \cup {None}]
  BY DEF TypeOK
<1>4. NewAction(w.deal, None, w.run) \in Row
  BY <1>3 DEF NewAction, Row
<1>5. rows' \in [RowIds -> Row]
  BY <1>2, <1>4 DEF TypeOK, BookTypeOK
<1>6. [w EXCEPT !.row = i] \in
          [deal : Deals, run : 1 .. MaxRuns, row : RowIds \cup {None}]
  BY <1>3
<1>7. exposed' \subseteq Deals
  BY <1>1 DEF Serve, TypeOK, CoveredDeals
<1> QED
  <2>1. wire' \subseteq [deal : Deals, run : 1 .. MaxRuns, row : RowIds \cup {None}]
    BY <1>2, <1>6 DEF TypeOK
  <2>2. BookTypeOK' /\ touched' \subseteq RowIds
    BY <1>1, <1>2, <1>5 DEF Serve, TypeOK, BookTypeOK
  <2>3. UNCHANGED <<stage, edits, pc, run, req, listed, seen, indexed, assessed,
                    todo, cur, action, created, reported, outcome, hidden, confirmed,
                    sent, refusedOn>>
    BY <1>1 DEF Serve
  <2> QED
    BY <1>2, <1>7, <2>1, <2>2, <2>3 DEF TypeOK

\* And the server, the teammates and the operator.
LEMMA EnvironmentType == TypeOK /\ Environment => TypeOK'
<1> SUFFICES ASSUME TypeOK, Environment PROVE TypeOK'
  OBVIOUS
<1> USE DEF Pcs, Reading, Acting, Outcomes, Statuses, KeepReads, KeepIds, End,
            ghosts, bookVars, runVars
<1>1. CASE \E w \in wire : Serve(w)
  BY <1>1, ServeType
<1>2. CASE \E w \in wire : Lose(w)
  BY <1>2 DEF Lose, TypeOK, BookTypeOK
<1>3. CASE Teammates
  <2>1. BookTypeOK' /\ touched' \subseteq RowIds
    <3>1. CASE \E i \in RowIds : TeammateWrites(i) /\ touched' = touched \cup {i}
      BY <3>1, TeammateWritesType DEF TypeOK
    <3>2. CASE \E d \in Deals : TeammateMoves(d) /\ UNCHANGED touched
      BY <3>2, TeammateMovesType DEF TypeOK
    <3> QED
      BY <1>3, <3>1, <3>2 DEF Teammates
  <2> QED
    BY <1>3, <2>1 DEF Teammates, TypeOK, CoveredDeals
<1>4. CASE Kill
  BY <1>4 DEF Kill, TypeOK, BookTypeOK
<1>5. CASE Restart
  BY <1>5, RunAssumption DEF Restart, TypeOK, BookTypeOK, Nothing, CoveredDeals
<1> QED
  BY <1>1, <1>2, <1>3, <1>4, <1>5 DEF Environment

LEMMA StepType == TypeOK /\ [Next]_vars => TypeOK'
<1> SUFFICES ASSUME TypeOK, [Next]_vars PROVE TypeOK'
  OBVIOUS
<1>1. CASE Answer
  BY <1>1 DEF Answer, End, TypeOK, BookTypeOK, Pcs, Reading, Acting, Outcomes,
              KeepReads, KeepIds, KeepWork, ghosts, bookVars
<1>2. CASE UNCHANGED vars
  BY <1>2 DEF vars, runVars, bookVars, ghosts, TypeOK, BookTypeOK
<1> QED
  BY <1>1, <1>2, PreambleType, ActionType, EnvironmentType DEF Next, Agent

\* Types are never left: the state the task keeps is always one its code can
\* represent, each deal with at most one entry however paging returned it.
THEOREM TypeCorrect == Spec => []TypeOK
  BY InitType, StepType, PTL DEF Spec

-----------------------------------------------------------------------------
(* The work of a run.                                                      *)

\* Which deals are done with, which is in hand, which are to come.
WorkInv ==
    /\ \A d \in Deals : sent[d] <= 1
    /\ pc \in Reading => /\ sent = Nothing /\ assessed = Nothing /\ todo = Nothing
                         /\ action = [d \in Deals |-> "none"]
    /\ pc \in Acting \cup {"loop"} =>
         \A d \in Deals :
            /\ todo[d] > 0 => sent[d] = 0 /\ assessed[d] > 0
            /\ action[d] = "created" <=>
                  sent[d] > 0 /\ ~(pc = "awaiting" /\ d = cur)
    /\ pc \in Acting =>
            /\ req.mode = "create" /\ assessed[cur] > 0 /\ todo[cur] = 0
            /\ sent[cur] = IF pc = "awaiting" THEN 1 ELSE 0

LEMMA WorkStep == TypeOK /\ TypeOK' /\ WorkInv /\ [Next]_vars => WorkInv'
<1> SUFFICES ASSUME TypeOK, TypeOK', WorkInv, [Next]_vars PROVE WorkInv'
  OBVIOUS
<1> USE DEF Reading, Acting, KeepEnd, KeepReads, KeepIds, KeepWork, End, Fail,
            Refuse, ghosts, bookVars
<1>1. CASE LoadRotThreshold
  BY <1>1 DEF LoadRotThreshold, WorkInv
<1>2. CASE LoadDeals
  BY <1>2 DEF LoadDeals, WorkInv
<1>3. CASE LoadActivityIndex
  BY <1>3 DEF LoadActivityIndex, WorkInv
<1>4. CASE SelectDeals
  BY <1>4 DEF SelectDeals, WorkInv, TypeOK, Nothing
<1>5. CASE \E d \in Deals : Consider(d)
  BY <1>5 DEF Consider, Conclude, WorkInv, TypeOK, Statuses
<1>6. CASE RereadMoved
  BY <1>6 DEF RereadMoved, Conclude, WorkInv, TypeOK
<1>7. CASE RereadUnmoved
  BY <1>7 DEF RereadUnmoved, WorkInv
<1>8. CASE RereadUnreadable
  BY <1>8 DEF RereadUnreadable, WorkInv
<1>9. CASE RecheckDeal
  BY <1>9 DEF RecheckDeal, Conclude, WorkInv, TypeOK
<1>10. CASE RecheckParty
  BY <1>10 DEF RecheckParty, Conclude, WorkInv, TypeOK
<1>11. CASE RecheckFails
  BY <1>11 DEF RecheckFails, WorkInv
<1>12. CASE SendCreate
  BY <1>12 DEF SendCreate, WorkInv, TypeOK
<1>13. CASE CreateAnswered
  BY <1>13 DEF CreateAnswered, Conclude, WorkInv, TypeOK
<1>14. CASE CreateRejected
  BY <1>14 DEF CreateRejected, WorkInv
<1>15. CASE CreateTimesOut
  BY <1>15 DEF CreateTimesOut, WorkInv
<1>16. CASE Answer
  BY <1>16 DEF Answer, WorkInv
<1>17. CASE \E w \in wire : Serve(w) \/ Lose(w)
  BY <1>17 DEF Serve, Lose, WorkInv
<1>18. CASE Teammates
  BY <1>18 DEF Teammates, WorkInv, runVars
<1>19. CASE Kill
  BY <1>19 DEF Kill, WorkInv
<1>20. CASE Restart
  BY <1>20 DEF Restart, WorkInv, Nothing
<1>21. CASE UNCHANGED vars
  BY <1>21 DEF vars, runVars, WorkInv
<1> QED
  BY <1>1, <1>2, <1>3, <1>4, <1>5, <1>6, <1>7, <1>8, <1>9, <1>10, <1>11, <1>12,
     <1>13, <1>14, <1>15, <1>16, <1>17, <1>18, <1>19, <1>20, <1>21
  DEF Next, Agent, Preamble, DetermineNextAction, Environment

LEMMA WorkHolds == Spec => [](TypeOK /\ WorkInv)
<1>1. Init => WorkInv
  BY DEF Init, WorkInv, Nothing, Reading, Acting
<1> QED
  BY <1>1, InitType, StepType, WorkStep, PTL DEF Spec

\* One run creates at most one Activity for a deal.
THEOREM AtMostOneCreate == Spec => []OneCreatePerDeal
<1>1. WorkInv => OneCreatePerDeal
  BY DEF WorkInv, OneCreatePerDeal
<1> QED
  BY <1>1, WorkHolds, PTL

-----------------------------------------------------------------------------
(* The promise to the operator.                                            *)

Chosen == {d \in Deals : assessed[d] > 0}
Wrote == {d \in Deals : sent[d] > 0}

\* The contract counts as the task does.
LEMMA SameCardinality == \A S : Contract!Cardinality(S) = Cardinality(S)
  BY DEF Contract!Cardinality, Cardinality

\* --deal-id and --limit keep the selection within the request.
LEMMA SelectionPermitted ==
  ASSUME TypeOK, SelectDeals, pc' = "loop" PROVE Contract!Permitted(req, Chosen')
<1>1. PICK rolesKnown \in BOOLEAN :
        \E rotting \in SUBSET {d \in InScope(req, rolesKnown) : seen[d] \notin Closed} :
        \E kept \in SUBSET Asked(req, rotting) :
           /\ Keeps(req, Asked(req, rotting), kept)
           /\ assessed' = [d \in Deals |-> IF d \in kept THEN listed[d] ELSE 0]
  BY DEF SelectDeals, Fail, End
<1>a. PICK rotting \in SUBSET {d \in InScope(req, rolesKnown) : seen[d] \notin Closed} :
        \E kept \in SUBSET Asked(req, rotting) :
           /\ Keeps(req, Asked(req, rotting), kept)
           /\ assessed' = [d \in Deals |-> IF d \in kept THEN listed[d] ELSE 0]
  BY <1>1
<1>b. PICK kept \in SUBSET Asked(req, rotting) :
           /\ Keeps(req, Asked(req, rotting), kept)
           /\ assessed' = [d \in Deals |-> IF d \in kept THEN listed[d] ELSE 0]
  BY <1>a
<1>2. kept \subseteq rotting /\ rotting \subseteq Deals
  BY <1>a, <1>b DEF Asked, InScope
<1>3. Chosen' = kept
  BY <1>b, <1>2 DEF Chosen, InScope, TypeOK
<1>4. (~req.tests => kept \cap TestDeals = {}) /\ (req.ids # {} => kept \subseteq req.ids)
  BY <1>a, <1>b, <1>2 DEF Asked, InScope
<1>5. ASSUME NEW m \in req.limit, m >= 0 PROVE Cardinality(kept) <= m
  <2> DEFINE asked == Asked(req, rotting)
  <2>1. IsFiniteSet(asked)
    BY <1>2, FS_Subset, RunAssumption DEF Asked
  <2>2. Cardinality(asked) \in Nat /\ m \in Int
    BY <2>1, FS_CardinalityType, RunAssumption DEF TypeOK
  <2>3. CASE m < Cardinality(asked)
    BY <1>b, <1>5, <2>2, <2>3, RunAssumption DEF Keeps, TypeOK
  <2>4. CASE ~(m < Cardinality(asked))
    <3>1. \A n \in req.limit : n = m
      BY RunAssumption DEF TypeOK
    <3>2. kept = asked
      BY <1>b, <2>4, <3>1 DEF Keeps
    <3> QED
      BY <2>2, <2>4, <3>2
  <2> QED
    BY <2>3, <2>4
<1> QED
  BY <1>3, <1>4, <1>5, SameCardinality DEF Contract!Permitted

\* Every step of the task is a step of the contract or changes nothing in it.
LEMMA ContractStep ==
  TypeOK /\ TypeOK' /\ WorkInv /\ WorkInv' /\ [Next]_vars
    => [Contract!Step]_(Contract!contractVars)
<1> SUFFICES ASSUME TypeOK, TypeOK', WorkInv, WorkInv', [Next]_vars
             PROVE Contract!Step \/ UNCHANGED Contract!contractVars
  OBVIOUS
<1> USE DEF KeepEnd, KeepReads, KeepIds, KeepWork, End, Fail, Refuse, ghosts, bookVars
<1>1. ASSUME pc # "over", pc' = "over", outcome' \in {"failed", "killed"},
             UNCHANGED <<req, assessed, sent, action>>
      PROVE Contract!BreakOff
  BY <1>1 DEF Contract!BreakOff, TypeOK, Reading, Acting, Outcomes
<1>2. ASSUME pc \in Reading, pc' = "over", outcome' = "refusal",
             UNCHANGED <<req, assessed, sent, action>>
      PROVE Contract!Refuse
  BY <1>2 DEF Contract!Refuse, TypeOK, Reading, Acting, Outcomes
<1>3. ASSUME \/ pc \in Reading /\ pc' \in Reading
             \/ pc \in Acting \cup {"loop"} /\ pc' \in Acting \cup {"loop"},
             UNCHANGED <<req, assessed, sent, outcome>>
      PROVE UNCHANGED Contract!contractVars
  BY <1>3 DEF Contract!contractVars, TypeOK, Reading, Acting
<1>4. CASE LoadRotThreshold \/ LoadDeals \/ LoadActivityIndex
  <2>1. pc \in Reading /\ pc' \in Reading \cup {"over"} /\ pc # "over"
    BY <1>4 DEF LoadRotThreshold, LoadDeals, LoadActivityIndex, Reading
  <2>2. UNCHANGED <<req, assessed, sent, action>>
    BY <1>4 DEF LoadRotThreshold, LoadDeals, LoadActivityIndex
  <2>3. CASE pc' = "over"
    <3>1. outcome' \in {"failed", "refusal"}
      BY <1>4, <2>3 DEF LoadRotThreshold, LoadDeals, LoadActivityIndex
    <3> QED
      BY <1>1, <1>2, <2>1, <2>2, <2>3, <3>1 DEF Contract!Step
  <2>4. CASE pc' # "over"
    <3>1. UNCHANGED outcome
      BY <1>4, <2>4 DEF LoadRotThreshold, LoadDeals, LoadActivityIndex
    <3> QED
      BY <1>3, <2>1, <2>2, <2>4, <3>1 DEF Contract!contractVars
  <2> QED
    BY <2>3, <2>4
<1>7. CASE SelectDeals
  <2>1. CASE pc' = "loop"
    <3>1. Contract!Permitted(req, Chosen') /\ Chosen' \in SUBSET Deals
      BY <1>7, <2>1, SelectionPermitted DEF Chosen
    <3> QED
      BY <1>7, <2>1, <3>1
      DEF SelectDeals, Contract!Step, Contract!Choose, Chosen, Reading, Acting
  <2>2. CASE pc' # "loop"
    BY <1>1, <1>7, <2>2 DEF SelectDeals, Contract!Step
  <2> QED
    BY <2>1, <2>2
<1>8. CASE DetermineNextAction /\ ~SendCreate
  <2>1. CASE pc' = "over"
    BY <1>1, <1>8, <2>1
    DEF Contract!Step, DetermineNextAction, Consider, Conclude, RereadMoved,
        RereadUnmoved, RereadUnreadable, RecheckDeal, RecheckParty, RecheckFails,
        CreateAnswered, CreateRejected, CreateTimesOut
  <2>2. CASE pc' # "over"
    BY <1>3, <1>8, <2>2
    DEF Acting, DetermineNextAction, Consider, Conclude, RereadMoved,
        RereadUnmoved, RereadUnreadable, RecheckDeal, RecheckParty, RecheckFails,
        CreateAnswered, CreateRejected, CreateTimesOut
  <2> QED
    BY <2>1, <2>2
<1>9. CASE SendCreate
  <2>1. cur \in Chosen \ Wrote /\ req.mode = "create"
    BY <1>9 DEF SendCreate, WorkInv, Chosen, Wrote, Acting, TypeOK
  <2>2. Wrote' = Wrote \cup {cur}
    BY <1>9, <2>1 DEF SendCreate, Wrote, Chosen, TypeOK
  <2>3. Contract!Write(cur)
    BY <1>9, <2>1, <2>2
    DEF SendCreate, Contract!Write, Chosen, Wrote, Reading, Acting
  <2> QED
    BY <2>1, <2>3 DEF Contract!Step, Contract!Write, Chosen
<1>10. CASE Answer
  <2>1. {d \in Deals : action[d] = "created"} = Wrote
    BY <1>10 DEF Answer, WorkInv, Wrote, TypeOK
  <2>2. Contract!Answer
    BY <1>10, <2>1
    DEF Answer, Contract!Answer, Wrote, Reading, Acting, TypeOK, Outcomes
  <2> QED
    BY <2>2 DEF Contract!Step
<1>11. CASE Kill
  BY <1>1, <1>11 DEF Kill, Contract!Step, TypeOK
<1>12. CASE Restart
  BY <1>12 DEF Restart, Contract!Step, Contract!StartAgain, Contract!Begin,
               Contract!Ended, Nothing, Reading, Acting, TypeOK, Outcomes
<1>13. CASE (\E w \in wire : Serve(w) \/ Lose(w)) \/ Teammates \/ UNCHANGED vars
  BY <1>13 DEF Serve, Lose, Teammates, vars, runVars, Contract!contractVars
<1> QED
  BY <1>4, <1>7, <1>8, <1>9, <1>10, <1>11, <1>12, <1>13
  DEF Next, Agent, Preamble, Environment, Contract!Step

\* The canonical task keeps the contract.
THEOREM ContractKept == Spec => KeepsContract
<1>1. Init => Contract!Begin
  BY DEF Init, Contract!Begin, Nothing, Reading
<1> QED
  BY <1>1, WorkHolds, ContractStep, PTL DEF Spec, KeepsContract, Contract!Spec

-----------------------------------------------------------------------------
(* The rows of a run.                                                      *)

\* Which rows are the run's, and where their ids are.
AccountInv ==
    /\ \A i \in RowIds : /\ rows[i].by <= run
                         /\ rows[i].state = "absent" => rows[i].by = Others
    /\ \A w \in wire : w.run <= run
    /\ \A w \in wire : w.row # None => w.run = run /\ pc = "awaiting"
    /\ pc = "awaiting" => \A v, w \in wire : v.run = run /\ w.run = run => v = w
    /\ outcome \in {"failed", "killed"} \/ pc = "awaiting"
         \/ \A w \in wire : w.run # run
    /\ outcome = "running" =>
         \A i \in RowIds : rows[i].by = run <=>
                              i \in created \/ \E w \in wire : w.row = i
    /\ outcome = "answer" => \A i \in RowIds : rows[i].by = run <=> i \in reported

LEMMA AccountStep == TypeOK /\ TypeOK' /\ AccountInv /\ [Next]_vars => AccountInv'
<1> SUFFICES ASSUME TypeOK, TypeOK', AccountInv, [Next]_vars PROVE AccountInv'
  OBVIOUS
<1> USE DEF KeepEnd, KeepReads, KeepIds, KeepWork, End, Fail, Refuse, ghosts, bookVars
<1>1. ASSUME UNCHANGED <<rows, run, created, wire>>, pc # "awaiting",
             pc' # "awaiting", outcome = "running", outcome' # "answer"
      PROVE AccountInv'
  BY <1>1 DEF AccountInv
<1>2. CASE Preamble
  BY <1>1, <1>2
  DEF Preamble, LoadRotThreshold, LoadDeals, LoadActivityIndex, SelectDeals, TypeOK
<1>3. CASE \E d \in Deals : Consider(d)
  BY <1>1, <1>3 DEF Consider, Conclude, TypeOK
<1>4. CASE RereadMoved \/ RereadUnmoved \/ RereadUnreadable
  BY <1>1, <1>4 DEF RereadMoved, RereadUnmoved, RereadUnreadable, Conclude, TypeOK
<1>5. CASE RecheckDeal \/ RecheckParty \/ RecheckFails
  BY <1>1, <1>5 DEF RecheckDeal, RecheckParty, RecheckFails, Conclude, TypeOK
<1>6. CASE SendCreate
  <2>1. \A w \in wire : w.run # run
    BY <1>6 DEF SendCreate, AccountInv, TypeOK, Outcomes
  <2> DEFINE request == [deal |-> cur, run |-> run, row |-> None]
  <2>2. wire' = wire \cup {request} /\ request.run = run /\ request.row = None
    BY <1>6 DEF SendCreate
  <2>3. None \notin RowIds
    BY BookAssumption
  <2> QED
    BY <1>6, <2>1, <2>2, <2>3 DEF SendCreate, AccountInv, TypeOK
<1>7. CASE CreateAnswered
  BY <1>7 DEF CreateAnswered, Conclude, AccountInv, TypeOK
<1>8. CASE CreateRejected \/ CreateTimesOut \/ Kill
  BY <1>8 DEF CreateRejected, CreateTimesOut, Kill, AccountInv, TypeOK
<1>9. CASE Answer
  <2>1. \A w \in wire : w.row = None
    BY <1>9 DEF Answer, AccountInv
  <2> QED
    BY <1>9, <2>1, BookAssumption DEF Answer, AccountInv, TypeOK
<1>10. CASE \E w \in wire : Serve(w)
  <2>1. PICK w \in wire : Serve(w)
    BY <1>10
  <2> DEFINE waiting == pc = "awaiting" /\ w.run = run
  <2>2. PICK i \in RowIds :
           /\ rows[i].state = "absent"
           /\ rows' = [rows EXCEPT ![i] = NewAction(w.deal, None, w.run)]
           /\ wire' = (wire \ {w})
                         \cup (IF waiting THEN {[w EXCEPT !.row = i]} ELSE {})
    BY <2>1 DEF Serve
  <2>3. /\ UNCHANGED <<pc, run, created, reported, outcome>>
        /\ w.row = None /\ None \notin RowIds
    BY <2>1, BookAssumption DEF Serve
  <2>4. /\ rows'[i].by = w.run /\ rows'[i].state = "open"
        /\ \A j \in RowIds \ {i} : rows'[j] = rows[j]
    BY <2>2 DEF NewAction, TypeOK, BookTypeOK
  <2>5. /\ \A v \in wire' : v.run <= run
        /\ \A j \in RowIds : /\ rows'[j].by <= run
                             /\ rows'[j].state = "absent" => rows'[j].by = Others
    BY <2>2, <2>4 DEF AccountInv, TypeOK
  <2>6. CASE waiting
    <3> DEFINE reply == [w EXCEPT !.row = i]
    <3>1. reply.run = run /\ reply.row = i /\ wire' = (wire \ {w}) \cup {reply}
      BY <2>2, <2>6 DEF TypeOK
    <3>2. \A v \in wire \ {w} : v.run # run /\ v.row = None
      BY <2>6 DEF AccountInv
    <3>3. \A j \in RowIds : rows'[j].by = run <=> j \in created \/ j = i
      BY <2>3, <2>4, <2>6, <3>2 DEF AccountInv, TypeOK
    <3>4. /\ \A v \in wire' : v.row # None => v.run = run /\ pc = "awaiting"
          /\ \A u, v \in wire' : u.run = run /\ v.run = run => u = v
      BY <2>6, <3>1, <3>2
    <3>5. outcome = "running" =>
             \A j \in RowIds : rows'[j].by = run <=>
                                  j \in created \/ \E v \in wire' : v.row = j
      BY <2>3, <3>1, <3>2, <3>3
    <3>6. outcome # "answer"
      BY <2>6 DEF TypeOK
    <3> QED
      BY <2>3, <2>5, <2>6, <3>4, <3>5, <3>6 DEF AccountInv
  <2>7. CASE ~waiting
    <3>1. wire' = wire \ {w}
      BY <2>2, <2>7
    <3>2. outcome \in {"running", "answer"} => w.run # run /\ rows[i].by # run
      BY <2>2, <2>7 DEF AccountInv, TypeOK, Others
    <3> QED
      BY <2>3, <2>4, <2>5, <3>1, <3>2 DEF AccountInv
  <2> QED
    BY <2>6, <2>7
<1>11. CASE \E w \in wire : Lose(w)
  BY <1>11, BookAssumption DEF Lose, AccountInv, TypeOK
<1>12. CASE Teammates
  <2>1. \A i \in RowIds : /\ rows'[i].by = rows[i].by
                          /\ rows'[i].state = "absent" => rows[i].state = "absent"
    <3>1. CASE UNCHANGED rows
      BY <3>1
    <3>2. ASSUME NEW i \in RowIds, TeammateWrites(i),
                 NEW j \in RowIds
          PROVE /\ rows'[j].by = rows[j].by
                /\ rows'[j].state = "absent" => rows[j].state = "absent"
      <4>1. PICK d \in Deals \cup {None}, p \in Parties \cup {None},
                 s \in {"open", "done", "cancelled"} :
                 rows' = [rows EXCEPT ![i] =
                            [@ EXCEPT !.deal = d, !.party = p, !.state = s]]
        BY <3>2 DEF TeammateWrites
      <4>2. rows[i] \in Row
        BY DEF TypeOK, BookTypeOK
      <4> QED
        BY <4>1, <4>2 DEF Row, TypeOK, BookTypeOK
    <3> QED
      BY <1>12, <3>1, <3>2 DEF Teammates, TeammateMoves
  <2> QED
    BY <1>12, <2>1 DEF Teammates, runVars, AccountInv
<1>13. CASE Restart
  <2>1. \A w \in wire : w.row = None
    BY <1>13 DEF Restart, AccountInv, TypeOK
  <2>2. \A i \in RowIds : rows[i].by \in Nat /\ rows[i].by # run'
    BY <1>13 DEF Restart, AccountInv, TypeOK, BookTypeOK, Row
  <2>3. \A w \in wire : w.run <= run' /\ w.run # run'
    BY <1>13 DEF Restart, AccountInv, TypeOK
  <2>4. \A i \in RowIds : rows[i].by <= run'
    BY <1>13, <2>2 DEF Restart, AccountInv, TypeOK
  <2> QED
    BY <1>13, <2>1, <2>2, <2>3, <2>4, BookAssumption DEF Restart, AccountInv
<1>14. CASE UNCHANGED vars
  BY <1>14 DEF vars, runVars, AccountInv
<1> QED
  BY <1>2, <1>3, <1>4, <1>5, <1>6, <1>7, <1>8, <1>9, <1>10, <1>11, <1>12, <1>13,
     <1>14
  DEF Next, Agent, DetermineNextAction, Environment

\* A run that answers reports every row it has added to the book.
THEOREM AnswersAccount == Spec => []AnswerAccountsForWrites
<1>1. Init => AccountInv
  BY RunAssumption DEF Init, BookInit, AccountInv, Absent, Others
<1>2. TypeOK /\ AccountInv => AnswerAccountsForWrites
  BY DEF TypeOK, AccountInv, AnswerAccountsForWrites
<1> QED
  BY <1>1, <1>2, InitType, StepType, AccountStep, PTL DEF Spec

-----------------------------------------------------------------------------
(* The re-reads before the write.                                          *)

\* The open rows on the deal in hand, and on its customer alone.
OnDeal(book) == {i \in RowIds : book[i].state = "open" /\ book[i].deal = cur}
OnCustomer(book) ==
    {i \in RowIds : /\ book[i].state = "open" /\ book[i].deal = None
                    /\ PartyOf[cur] # None /\ book[i].party = PartyOf[cur]}

\* What the re-reads have established by the time the create is sent.
RecheckInv ==
    /\ pc \in {"byParty", "create"} => OnDeal(rows) \subseteq touched \cup hidden
    /\ pc = "create" => OnCustomer(rows) \subseteq touched \cup hidden

LEMMA RecheckStep == TypeOK /\ TypeOK' /\ RecheckInv /\ [Next]_vars => RecheckInv'
<1> SUFFICES ASSUME TypeOK, TypeOK', RecheckInv, [Next]_vars PROVE RecheckInv'
  OBVIOUS
<1> USE DEF KeepEnd, KeepReads, KeepIds, KeepWork, End, Fail, Refuse, ghosts, bookVars
<1>1. ASSUME pc' \notin {"byParty", "create"} PROVE RecheckInv'
  BY <1>1 DEF RecheckInv
<1>2. CASE Preamble
  BY <1>1, <1>2
  DEF Preamble, LoadRotThreshold, LoadDeals, LoadActivityIndex, SelectDeals
<1>3. CASE RecheckDeal
  <2> DEFINE matches == NotDoneOnDeal(rows, cur)
  <2>1. PICK page \in Replies(matches) :
           /\ hidden' = matches \ page
           /\ pc' \in {"byParty", "create"} =>
                /\ LiveOnDeal(rows, page) = {}
                /\ pc' = "create" => PartyOf[cur] = None
    BY <1>3 DEF RecheckDeal, Conclude
  <2>2. UNCHANGED <<rows, cur>>
    BY <1>3 DEF RecheckDeal
  <2>3. OnDeal(rows) \subseteq matches
    BY DEF OnDeal, NotDoneOnDeal
  <2>4. pc' \in {"byParty", "create"} => OnDeal(rows) \cap page = {}
    BY <2>1 DEF LiveOnDeal, IsCancelled, OnDeal
  <2>5. pc' \in {"byParty", "create"} => OnDeal(rows) \subseteq hidden'
    BY <2>1, <2>3, <2>4
  <2>6. pc' = "create" => OnCustomer(rows) = {}
    BY <2>1 DEF OnCustomer
  <2>7. OnDeal(rows)' = OnDeal(rows) /\ OnCustomer(rows)' = OnCustomer(rows)
    BY <2>2 DEF OnDeal, OnCustomer
  <2> QED
    BY <2>5, <2>6, <2>7 DEF RecheckInv
<1>4. CASE RecheckParty
  <2> DEFINE matches == NotDoneOnParty(rows, PartyOf[cur])
  <2>1. PICK page \in Replies(matches) :
           /\ hidden' = hidden \cup (matches \ page)
           /\ pc' # "loop" => pc' = "create" /\ LiveOnParty(rows, page) = {}
    BY <1>4 DEF RecheckParty, Conclude
  <2>2. pc = "byParty" /\ UNCHANGED <<rows, cur, touched>>
    BY <1>4 DEF RecheckParty
  <2>3. OnCustomer(rows) \subseteq matches
    BY DEF OnCustomer, NotDoneOnParty
  <2>4. pc' = "create" => OnCustomer(rows) \cap page = {}
    BY <2>1 DEF LiveOnParty, IsCancelled, OnCustomer
  <2>5. pc' = "create" => OnCustomer(rows) \subseteq hidden'
    BY <2>1, <2>3, <2>4
  <2>6. OnDeal(rows)' = OnDeal(rows) /\ OnCustomer(rows)' = OnCustomer(rows)
    BY <2>2 DEF OnDeal, OnCustomer
  <2> QED
    BY <2>1, <2>2, <2>5, <2>6 DEF RecheckInv
<1>5. CASE DetermineNextAction /\ ~RecheckDeal /\ ~RecheckParty
  BY <1>1, <1>5
  DEF DetermineNextAction, Consider, Conclude, RereadMoved, RereadUnmoved,
      RereadUnreadable, RecheckFails, SendCreate, CreateAnswered, CreateRejected,
      CreateTimesOut
<1>6. CASE Answer \/ Kill \/ Restart
  BY <1>1, <1>6 DEF Answer, Kill, Restart
<1>7. ASSUME UNCHANGED <<pc, cur, hidden>>, touched \subseteq touched',
             \A i \in RowIds : rows'[i] # rows[i] => i \in touched'
      PROVE RecheckInv'
  <2>1. /\ OnDeal(rows)' \subseteq OnDeal(rows) \cup touched'
        /\ OnCustomer(rows)' \subseteq OnCustomer(rows) \cup touched'
    BY <1>7 DEF OnDeal, OnCustomer
  <2> QED
    BY <1>7, <2>1 DEF RecheckInv
<1>8. CASE \E w \in wire : Serve(w)
  BY <1>7, <1>8 DEF Serve, TypeOK, BookTypeOK
<1>9. CASE \E w \in wire : Lose(w)
  BY <1>7, <1>9 DEF Lose
<1>10. CASE Teammates
  BY <1>7, <1>10
  DEF Teammates, TeammateWrites, TeammateMoves, runVars, TypeOK, BookTypeOK
<1>11. CASE UNCHANGED vars
  BY <1>7, <1>11 DEF vars, runVars
<1> QED
  BY <1>2, <1>3, <1>4, <1>5, <1>6, <1>8, <1>9, <1>10, <1>11
  DEF Next, Agent, Environment

\* No create goes out past an open action on the deal, or on its customer alone,
\* that the two re-reads returned: it is newer than they are, or it stood beyond
\* the end of a page, whatever the size of the book and of the pages.
THEOREM NothingOverlooked == Spec => NoBlindCreate
<1>1. Init => RecheckInv
  BY DEF Init, RecheckInv
<1>2. Covering(rows, cur) \subseteq OnDeal(rows) \cup OnCustomer(rows)
  BY DEF Covering, OnDeal, OnCustomer
<1>3. RecheckInv /\ [Next]_vars
        => [SendCreate => Covering(rows, cur) \subseteq touched \cup hidden]_vars
  BY <1>2 DEF RecheckInv, SendCreate
<1> QED
  BY <1>1, <1>3, InitType, StepType, RecheckStep, PTL DEF Spec, NoBlindCreate

-----------------------------------------------------------------------------
(* Starting the task again.                                                *)

\* While nobody else writes and no create is served late.
QuietInv ==
    ~late /\ edits = 0 =>
        /\ \A i \in RowIds : \/ rows[i] = Absent
                             \/ rows[i].state = "open" /\ rows[i].deal \in Deals
        /\ pc \in {"byParty", "create"} => \A i \in RowIds : rows[i].deal # cur
        /\ pc = "awaiting" =>
             \A w \in wire : w.run = run =>
                /\ w.deal = cur
                /\ w.row = None => \A i \in RowIds : rows[i].deal # cur
        /\ \A i, j \in RowIds : rows[i].deal = rows[j].deal /\ rows[i].deal # None
                                 => i = j

LEMMA QuietStep ==
  TypeOK /\ TypeOK' /\ AccountInv /\ AccountInv' /\ QuietInv /\ [Next]_vars => QuietInv'
<1> SUFFICES ASSUME TypeOK, TypeOK', AccountInv, AccountInv', QuietInv, [Next]_vars,
                    ~late', edits' = 0
             PROVE QuietInv'
  BY DEF QuietInv
<1> USE DEF KeepEnd, KeepReads, KeepIds, KeepWork, End, Fail, Refuse, ghosts, bookVars
<1>1. ASSUME UNCHANGED <<rows, late, edits>>,
             pc' \notin {"byParty", "create", "awaiting"}
      PROVE QuietInv'
  BY <1>1 DEF QuietInv
<1>2. CASE Preamble
  BY <1>1, <1>2
  DEF Preamble, LoadRotThreshold, LoadDeals, LoadActivityIndex, SelectDeals
<1>3. CASE RecheckDeal
  <2>1. CASE pc' \in {"byParty", "create"}
    <3>1. PICK page \in Replies(NotDoneOnDeal(rows, cur)) : LiveOnDeal(rows, page) = {}
      BY <1>3, <2>1 DEF RecheckDeal, Conclude
    <3>2. \A i \in RowIds : rows[i].deal = cur => i \in NotDoneOnDeal(rows, cur)
                                                /\ ~IsCancelled(rows, i)
      BY <1>3, BookAssumption
      DEF RecheckDeal, QuietInv, NotDoneOnDeal, IsCancelled, Absent, TypeOK, Acting
    <3>3. page \subseteq NotDoneOnDeal(rows, cur)
      BY <3>1 DEF Replies
    <3>4. page = {}
      BY <3>1, <3>2, <3>3 DEF LiveOnDeal, NotDoneOnDeal
    <3>5. \A i \in RowIds : rows[i].deal # cur
      BY <3>1, <3>2, <3>4, EmptyPage DEF NotDoneOnDeal
    <3> QED
      BY <1>3, <2>1, <3>5 DEF RecheckDeal, QuietInv
  <2>2. CASE pc' \notin {"byParty", "create"}
    BY <1>1, <1>3, <2>2 DEF RecheckDeal, Conclude
  <2> QED
    BY <2>1, <2>2
<1>4. CASE RecheckParty
  BY <1>4 DEF RecheckParty, Conclude, QuietInv
<1>5. CASE SendCreate
  <2>1. \A w \in wire : w.run # run
    BY <1>5 DEF SendCreate, AccountInv, TypeOK, Outcomes
  <2> DEFINE request == [deal |-> cur, run |-> run, row |-> None]
  <2>2. wire' = wire \cup {request} /\ request.run = run /\ request.deal = cur
    BY <1>5 DEF SendCreate
  <2> QED
    BY <1>5, <2>1, <2>2 DEF SendCreate, QuietInv
<1>6. CASE DetermineNextAction /\ ~RecheckDeal /\ ~RecheckParty /\ ~SendCreate
  BY <1>1, <1>6
  DEF DetermineNextAction, Consider, Conclude, RereadMoved, RereadUnmoved,
      RereadUnreadable, RecheckFails, CreateAnswered, CreateRejected, CreateTimesOut
<1>7. CASE Answer \/ Kill \/ Restart
  BY <1>1, <1>7 DEF Answer, Kill, Restart
<1>8. CASE \E w \in wire : Serve(w)
  <2>1. PICK w \in wire : Serve(w)
    BY <1>8
  <2>2. /\ ~late /\ edits = 0 /\ pc = "awaiting" /\ w.run = run /\ w.row = None
        /\ UNCHANGED <<pc, cur, run>>
    BY <2>1 DEF Serve
  <2>3. PICK i \in RowIds :
           /\ rows' = [rows EXCEPT ![i] = NewAction(w.deal, None, w.run)]
           /\ wire' = (wire \ {w}) \cup {[w EXCEPT !.row = i]}
    BY <2>1, <2>2 DEF Serve
  <2>4. w.deal = cur /\ cur \in Deals /\ \A j \in RowIds : rows[j].deal # cur
    BY <2>2 DEF QuietInv, TypeOK, Acting
  <2>5. rows'[i].deal = cur /\ rows'[i].state = "open"
        /\ \A j \in RowIds \ {i} : rows'[j] = rows[j]
    BY <2>3, <2>4 DEF NewAction, TypeOK, BookTypeOK
  <2>6. \A v \in wire' : v.run = run => v.deal = cur /\ v.row = i
    BY <2>2, <2>3, <2>4 DEF AccountInv, TypeOK
  <2>7. i # None
    BY BookAssumption
  <2> QED
    BY <2>2, <2>4, <2>5, <2>6, <2>7 DEF QuietInv
<1>9. CASE \E w \in wire : Lose(w)
  BY <1>9 DEF Lose, QuietInv
<1>10. CASE Teammates
  <2>1. edits \in Nat
    BY BookAssumption DEF TypeOK, BookTypeOK
  <2>2. edits' = edits + 1
    BY <1>10 DEF Teammates, TeammateWrites, TeammateMoves
  <2> QED
    BY <2>1, <2>2
<1>11. CASE UNCHANGED vars
  BY <1>11 DEF vars, runVars, QuietInv
<1> QED
  BY <1>2, <1>3, <1>4, <1>5, <1>6, <1>7, <1>8, <1>9, <1>10, <1>11
  DEF Next, Agent, Environment

\* Runs, however many and however they end, add no second action to a deal, as
\* long as nobody else writes and no create is served after it was given up.
THEOREM RerunsAddNothing == Spec => []RerunAddsNothing
<1>1. Init => AccountInv /\ QuietInv
  BY RunAssumption, BookAssumption
  DEF Init, BookInit, AccountInv, QuietInv, Absent, Others
<1>2. QuietInv => RerunAddsNothing
  BY BookAssumption DEF QuietInv, RerunAddsNothing, Absent
<1> QED
  BY <1>1, <1>2, InitType, StepType, AccountStep, QuietStep, PTL DEF Spec

-----------------------------------------------------------------------------
(* What is reported as there.                                              *)

\* The history has every deal that is covered now, and every one the index
\* found covered.
SeenInv ==
    /\ CoveredDeals(rows) \subseteq exposed
    /\ indexed \subseteq exposed
    /\ ExistingWasSeen

LEMMA RepliesWithin == \A matches : \A page \in Replies(matches) : page \subseteq matches
  BY DEF Replies

LEMMA IndexedIsCovered == IndexedOpen(rows) \subseteq CoveredDeals(rows)
  BY DEF IndexedOpen, CoveredDeals

\* What a re-read finds live covers the deal.
LEMMA LiveCovers ==
  ASSUME TypeOK, cur \in Deals, NEW page
  PROVE  /\ page \in Replies(NotDoneOnDeal(rows, cur)) /\ LiveOnDeal(rows, page) # {}
              => cur \in CoveredDeals(rows)
         /\ page \in Replies(NotDoneOnParty(rows, PartyOf[cur])) /\ LiveOnParty(rows, page) # {}
              => cur \in CoveredDeals(rows)
<1>1. ASSUME page \in Replies(NotDoneOnDeal(rows, cur)), LiveOnDeal(rows, page) # {}
      PROVE  cur \in CoveredDeals(rows)
  <2>1. PICK i \in page : ~IsCancelled(rows, i)
    BY <1>1 DEF LiveOnDeal
  <2>2. i \in NotDoneOnDeal(rows, cur)
    BY <1>1, <2>1, RepliesWithin
  <2>3. i \in Covering(rows, cur)
    BY <2>1, <2>2 DEF NotDoneOnDeal, IsCancelled, Covering
  <2> QED BY <2>3 DEF CoveredDeals
<1>2. ASSUME page \in Replies(NotDoneOnParty(rows, PartyOf[cur])), LiveOnParty(rows, page) # {}
      PROVE  cur \in CoveredDeals(rows)
  <2>1. PICK i \in page : rows[i].deal = None /\ ~IsCancelled(rows, i)
    BY <1>2 DEF LiveOnParty
  <2>2. i \in NotDoneOnParty(rows, PartyOf[cur])
    BY <1>2, <2>1, RepliesWithin
  <2>3. i \in Covering(rows, cur)
    BY <2>1, <2>2 DEF NotDoneOnParty, IsCancelled, Covering
  <2> QED BY <2>3 DEF CoveredDeals
<1> QED BY <1>1, <1>2

LEMMA SeenStep == TypeOK /\ SeenInv /\ [Next]_vars => SeenInv'
<1> SUFFICES ASSUME TypeOK, SeenInv, [Next]_vars PROVE SeenInv'
  OBVIOUS
<1> USE DEF KeepEnd, KeepReads, KeepIds, KeepWork, End, Fail, Refuse, ghosts
<1>1. ASSUME UNCHANGED <<rows, exposed, indexed, action>> PROVE SeenInv'
  BY <1>1 DEF SeenInv, ExistingWasSeen, CoveredDeals, Covering
<1>2. ASSUME UNCHANGED <<rows, exposed, indexed>>, cur' \in Deals,
             NEW status \in Statuses, action' = [action EXCEPT ![cur'] = status],
             status \in {"existing", "overdue"} => cur' \in exposed
      PROVE  SeenInv'
  <2>1. \A d \in Deals : action'[d] \in {"existing", "overdue"} => d \in exposed
    BY <1>2 DEF SeenInv, ExistingWasSeen, TypeOK
  <2> QED BY <1>2, <2>1 DEF SeenInv, ExistingWasSeen, CoveredDeals, Covering
<1>3. ASSUME UNCHANGED <<indexed, action>>, exposed' = exposed \cup CoveredDeals(rows')
      PROVE  SeenInv'
  <2>1. CoveredDeals(rows)' = CoveredDeals(rows')
    BY DEF CoveredDeals, Covering
  <2> QED BY <1>3, <2>1 DEF SeenInv, ExistingWasSeen
<1>4. CASE LoadRotThreshold \/ LoadDeals \/ SelectDeals \/ Answer
  BY <1>1, <1>4 DEF LoadRotThreshold, LoadDeals, SelectDeals, Answer, bookVars
<1>5. CASE LoadActivityIndex
  <2>1. UNCHANGED <<rows, exposed, action>> /\ (indexed' = IndexedOpen(rows) \/ UNCHANGED indexed)
    BY <1>5 DEF LoadActivityIndex, bookVars
  <2>2. indexed' \subseteq exposed
    BY <2>1, IndexedIsCovered DEF SeenInv
  <2> QED BY <2>1, <2>2 DEF SeenInv, ExistingWasSeen, CoveredDeals, Covering
<1>6. ASSUME NEW d \in Deals, Consider(d) PROVE SeenInv'
  <2>1. UNCHANGED <<rows, exposed, indexed>> /\ cur' = d
    BY <1>6 DEF Consider, bookVars
  <2>2. CASE UNCHANGED action
    BY <1>1, <2>1, <2>2
  <2>3. CASE \E status \in Statuses : /\ action' = [action EXCEPT ![d] = status]
                                      /\ status \in {"existing", "overdue"} => d \in indexed
    BY <1>2, <2>1, <2>3 DEF SeenInv
  <2> QED BY <1>6, <2>2, <2>3 DEF Consider, Conclude, Statuses
<1>7. CASE RereadMoved \/ CreateAnswered
  <2>1. /\ UNCHANGED <<rows, exposed, indexed, cur>> /\ cur \in Deals
        /\ \E status \in {"recommended", "created"} : action' = [action EXCEPT ![cur] = status]
    BY <1>7 DEF RereadMoved, CreateAnswered, Conclude, bookVars, TypeOK, Acting
  <2> QED BY <1>2, <2>1 DEF Statuses
<1>8. CASE RecheckDeal
  <2>1. UNCHANGED <<rows, exposed, indexed, cur>> /\ cur \in Deals
    BY <1>8 DEF RecheckDeal, bookVars, TypeOK, Acting
  <2>2. PICK page \in Replies(NotDoneOnDeal(rows, cur)) :
           IF LiveOnDeal(rows, page) # {} THEN Conclude(cur, "existing") ELSE UNCHANGED action
    BY <1>8 DEF RecheckDeal
  <2>3. CASE LiveOnDeal(rows, page) # {}
    BY <1>2, <2>1, <2>2, <2>3, LiveCovers DEF Conclude, Statuses, SeenInv
  <2> QED BY <1>1, <2>1, <2>2, <2>3
<1>9. CASE RecheckParty
  <2>1. UNCHANGED <<rows, exposed, indexed, cur>> /\ cur \in Deals
    BY <1>9 DEF RecheckParty, bookVars, TypeOK, Acting
  <2>2. PICK page \in Replies(NotDoneOnParty(rows, PartyOf[cur])) :
           IF LiveOnParty(rows, page) # {} THEN Conclude(cur, "existing") ELSE UNCHANGED action
    BY <1>9 DEF RecheckParty
  <2>3. CASE LiveOnParty(rows, page) # {}
    BY <1>2, <2>1, <2>2, <2>3, LiveCovers DEF Conclude, Statuses, SeenInv
  <2> QED BY <1>1, <2>1, <2>2, <2>3
<1>10. CASE RereadUnmoved \/ RereadUnreadable \/ RecheckFails \/ SendCreate
            \/ CreateRejected \/ CreateTimesOut
  BY <1>1, <1>10
  DEF RereadUnmoved, RereadUnreadable, RecheckFails, SendCreate, CreateRejected,
      CreateTimesOut, bookVars
<1>11. CASE \E w \in wire : Serve(w)
  BY <1>3, <1>11 DEF Serve
<1>12. CASE (\E w \in wire : Lose(w)) \/ Kill
  BY <1>1, <1>12 DEF Lose, Kill, bookVars
<1>13. CASE Teammates
  BY <1>3, <1>13 DEF Teammates, runVars
<1>14. CASE Restart
  <2>1. /\ UNCHANGED rows /\ exposed' = CoveredDeals(rows) /\ indexed' = {}
        /\ \A d \in Deals : action'[d] = "none"
    BY <1>14 DEF Restart, bookVars
  <2>2. CoveredDeals(rows)' = CoveredDeals(rows)
    BY <2>1 DEF CoveredDeals, Covering
  <2> QED BY <2>1, <2>2 DEF SeenInv, ExistingWasSeen
<1>15. CASE UNCHANGED vars
  BY <1>1, <1>15 DEF vars, bookVars, runVars
<1> QED
  BY <1>4, <1>5, <1>6, <1>7, <1>8, <1>9, <1>10, <1>11, <1>12, <1>13, <1>14, <1>15
  DEF Next, Agent, Preamble, DetermineNextAction, Environment

\* A deal is reported as having an open action only if it had one during the
\* run, on the deal or on its customer alone.
THEOREM ReportedWasThere == Spec => []ExistingWasSeen
<1>1. Init => SeenInv
  <2> SUFFICES ASSUME Init PROVE SeenInv
    OBVIOUS
  <2>1. \A i \in RowIds : rows[i].state = "absent"
    BY DEF Init, BookInit, Absent
  <2>2. CoveredDeals(rows) = {}
    BY <2>1 DEF CoveredDeals, Covering
  <2> QED BY <2>2 DEF Init, SeenInv, ExistingWasSeen
<1>2. SeenInv => ExistingWasSeen
  BY DEF SeenInv
<1> QED BY <1>1, <1>2, SeenStep, TypeCorrect, PTL DEF Spec
=============================================================================
