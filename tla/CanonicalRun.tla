----------------------------- MODULE CanonicalRun -----------------------------
(***************************************************************************)
(* `--task canonical`: run_canonical_task reads the book, picks the deals  *)
(* to act on and calls determine_next_action for each, which may create    *)
(* one Activity after a fresh re-read.  Teammates write to the same book   *)
(* throughout; any call may be refused, fail or lose its reply; a run may  *)
(* be killed and started again, and a create request whose sender has      *)
(* given up may still reach the server.                                    *)
(***************************************************************************)
EXTENDS Book

CONSTANTS
    Requests,       \* the AgentRequests a run may be started with: a mode, the
                    \* deal ids asked for ({}: all), at most one max_deals; and
                    \* whether PIPELINE_INCLUDE_TEST_DATA is set
    SupplierDeals,  \* deals whose party is a supplier or an employee
    TestDeals,      \* deals tagged as test fixtures
    MaxRuns         \* how many times the task is started

ASSUME RunAssumption ==
    /\ \A r \in Requests : /\ r.mode \in {"propose", "create"}
                           /\ r.limit \in SUBSET Int
                           /\ \A m, n \in r.limit : m = n
                           /\ r.tests \in BOOLEAN
    /\ IsFiniteSet(Deals)
    /\ MaxRuns \in Nat \ {0}

VARIABLES
    pc,        \* the call the run is about to make
    run,       \* which start of the task this is
    req,       \* its AgentRequest
    listed,    \* how many rows of all_deals stand for each deal
    seen,      \* the stage list(Deal) gave for it
    indexed,   \* the deals with an open action in the ActivityIndex
    assessed,  \* how many entries each deal has in `assessed`, once narrowed
    todo,      \* how many of them are still to come
    cur,       \* the deal determine_next_action is working on
    action,    \* the ActionStatus reported for each deal
    created,   \* ids of the rows the create calls returned
    reported,  \* created_record_ids of the artifact
    outcome,   \* what the run came to
    wire       \* create requests sent and not yet answered

runVars == <<pc, run, req, listed, seen, indexed, assessed, todo, cur, action, created,
             reported, outcome, wire>>

\* History: what the properties compare the run with.
VARIABLES
    touched,   \* rows changed since the last by-deal re-read
    hidden,    \* rows the re-reads asked for that did not fit in their page
    confirmed, \* the stage the last re-read of the deal returned, or None
    sent,      \* how many creates the run has sent for each deal
    exposed,   \* deals an open row has covered at some time during the run
    refusedOn, \* required entities this run was refused on
    late       \* a create reached the server after its sender gave up

ghosts == <<touched, hidden, confirmed, sent, exposed, refusedOn, late>>
vars == <<bookVars, runVars, ghosts>>

Statuses == {"none", "existing", "overdue", "needs_human_review",
             "recommended", "created"}
Outcomes == {"running", "answer", "refusal", "failed", "killed"}
Reading == {"prefs", "deals", "index", "select"}
Acting == {"reread", "byDeal", "byParty", "create", "awaiting"}
Pcs == Reading \cup Acting \cup {"loop", "over"}

CoveredDeals(book) == {d \in Deals : Covering(book, d) # {}}
Nothing == [d \in Deals |-> 0]

Init ==
    /\ BookInit
    /\ run = 1 /\ wire = {}
    /\ pc = "prefs" /\ req \in Requests
    /\ listed = Nothing /\ seen = stage /\ indexed = {}
    /\ assessed = Nothing /\ todo = Nothing
    /\ cur = None /\ action = [d \in Deals |-> "none"]
    /\ created = {} /\ reported = {} /\ outcome = "running"
    /\ touched = {} /\ hidden = {} /\ confirmed = None /\ sent = Nothing /\ exposed = {}
    /\ refusedOn = {} /\ late = FALSE

-----------------------------------------------------------------------------
(* The end of a run.                                                       *)

KeepEnd == UNCHANGED <<outcome, reported>>

End(o, ids) == pc' = "over" /\ outcome' = o /\ reported' = ids

\* Fail, if the error were caught per deal and the loop went on.
SkipDeal == pc' = "loop" /\ KeepEnd

\* Fail, if a create whose reply is lost were sent again.
RetryCreate ==
    IF pc = "awaiting" /\ sent[cur] < 2
    THEN pc' = "create" /\ KeepEnd ELSE End("failed", {})

\* A call raises MCPToolError, or anything else, where nothing catches it:
\* the exception reaches main_async, which persists a run without the ids.
Fail == End("failed", {})

\* PermissionDeniedError in the preamble: a RefusalResult.
Refuse(entity) == End("refusal", {}) /\ refusedOn' = refusedOn \cup {entity}

KeepReads == UNCHANGED <<listed, seen, indexed>>
KeepIds == UNCHANGED <<run, req>>
KeepWork == UNCHANGED <<assessed, todo, cur, action, created, wire>>

-----------------------------------------------------------------------------
(* The preamble: what the run reads before it picks deals.                 *)

\* load_rot_threshold: a refusal only degrades the threshold.
LoadRotThreshold ==
    /\ pc = "prefs"
    /\ \/ pc' = "deals" /\ KeepEnd
       \/ Fail
    /\ UNCHANGED <<bookVars, ghosts>> /\ KeepReads /\ KeepIds /\ KeepWork

\* UniqueDeals, if duplicate rows were kept.
AllCopies(copies) == copies

\* One row per deal id: paging over a book in use can return a row twice, or
\* step over it.
UniqueDeals(copies) == [d \in Deals |-> IF copies[d] > 0 THEN 1 ELSE 0]

\* Explicit deal ids must all be in this tenant.
AbsentIds(r, rowsRead) == {id \in r.ids : id \notin Deals \/ rowsRead[id] = 0}

LoadDeals ==
    /\ pc = "deals"
    /\ \/ \E copies \in [Deals -> 0 .. 2] :
             /\ listed' = UniqueDeals(copies)
             /\ seen' = stage
             /\ IF AbsentIds(req, UniqueDeals(copies)) # {}
                THEN End("refusal", {})
                ELSE pc' = "index" /\ KeepEnd
             /\ UNCHANGED refusedOn
       \/ Refuse("Deal") /\ UNCHANGED <<listed, seen>>
       \/ Fail /\ UNCHANGED <<listed, seen, refusedOn>>
    /\ UNCHANGED <<bookVars, indexed, touched, hidden, confirmed, sent, exposed, late>>
    /\ KeepIds /\ KeepWork

LoadActivityIndex ==
    /\ pc = "index"
    /\ \/ indexed' = IndexedOpen(rows) /\ pc' = "select" /\ KeepEnd /\ UNCHANGED refusedOn
       \/ Refuse("Activity") /\ UNCHANGED indexed
       \/ Fail /\ UNCHANGED <<indexed, refusedOn>>
    /\ UNCHANGED <<bookVars, listed, seen, touched, hidden, confirmed, sent, exposed, late>>
    /\ KeepIds /\ KeepWork

\* Supplier-side and employee deals leave when Party could be read; tagged
\* test deals leave unless they are asked for.
InScope(r, rolesKnown) ==
    {d \in Deals : /\ listed[d] > 0
                   /\ rolesKnown => d \notin SupplierDeals
                   /\ ~r.tests => d \notin TestDeals}

\* --deal-id keeps the candidates asked for.
Asked(r, candidates) == IF r.ids = {} THEN candidates ELSE candidates \cap r.ids

\* Keeps, if --limit were dropped.
KeepsAll(r, asked, kept) == kept = asked

\* --limit keeps that many of them, worst rot first; a negative cap is ignored.
Keeps(r, asked, kept) ==
    IF \E m \in r.limit : 0 <= m /\ m < Cardinality(asked)
    THEN Cardinality(kept) \in r.limit
    ELSE kept = asked

\* assess_rot decides which open in-scope deals are rotting (a closed one never
\* is); the request narrows them.
SelectDeals ==
    /\ pc = "select"
    /\ \/ /\ \E rolesKnown \in BOOLEAN :
             \E rotting \in SUBSET {d \in InScope(req, rolesKnown) : seen[d] \notin Closed} :
             \E kept \in SUBSET Asked(req, rotting) :
                /\ Keeps(req, Asked(req, rotting), kept)
                /\ assessed' = [d \in Deals |-> IF d \in kept THEN listed[d] ELSE 0]
          /\ todo' = assessed'
          /\ pc' = "loop" /\ KeepEnd
       \/ Fail /\ UNCHANGED <<assessed, todo>>
    /\ UNCHANGED <<bookVars, cur, action, created, wire, ghosts>>
    /\ KeepReads /\ KeepIds

-----------------------------------------------------------------------------
(* determine_next_action, one deal at a time.                              *)

\* It returns a status for the current deal and the run goes on to the next.
Conclude(d, status) ==
    /\ action' = [action EXCEPT ![d] = status]
    /\ pc' = "loop"

\* The first checks need no call: the index, the stage map, the mode.
Consider(d) ==
    /\ pc = "loop" /\ todo[d] > 0
    /\ todo' = [todo EXCEPT ![d] = @ - 1]
    /\ cur' = d
    /\ \/ /\ d \in indexed
          /\ \E status \in {"existing", "overdue"} : Conclude(d, status)
       \/ /\ d \notin indexed /\ seen[d] \notin Actionable
          /\ Conclude(d, "needs_human_review")
       \/ /\ d \notin indexed /\ seen[d] \in Actionable /\ req.mode = "propose"
          /\ Conclude(d, "recommended")
       \/ /\ d \notin indexed /\ seen[d] \in Actionable /\ req.mode = "create"
          /\ pc' = "reread" /\ UNCHANGED action
    /\ UNCHANGED <<bookVars, assessed, created, wire, ghosts>>
    /\ KeepEnd /\ KeepReads /\ KeepIds

\* get(Deal): closed or moved since it was listed, so nothing is written.
RereadMoved ==
    /\ pc = "reread"
    /\ stage[cur] \in Closed \/ stage[cur] # seen[cur]
    /\ Conclude(cur, "recommended")
    /\ UNCHANGED <<bookVars, assessed, todo, cur, created, wire, ghosts>>
    /\ KeepEnd /\ KeepReads /\ KeepIds

RereadUnmoved ==
    /\ pc = "reread"
    /\ stage[cur] \notin Closed /\ stage[cur] = seen[cur]
    /\ confirmed' = stage[cur]
    /\ pc' = "byDeal"
    /\ UNCHANGED <<bookVars, touched, hidden, sent, exposed, refusedOn, late>>
    /\ KeepEnd /\ KeepReads /\ KeepIds /\ KeepWork

\* Any MCPToolError on it, a refusal included, is swallowed: current = None.
RereadUnreadable ==
    /\ pc = "reread"
    /\ confirmed' = None
    /\ pc' = "byDeal"
    /\ \E refused \in SUBSET {"Deal"} : refusedOn' = refusedOn \cup refused
    /\ UNCHANGED <<bookVars, touched, hidden, sent, exposed, late>>
    /\ KeepEnd /\ KeepReads /\ KeepIds /\ KeepWork

\* list(Activity) by deal: an open row stops the write.
RecheckDeal ==
    /\ pc = "byDeal"
    /\ touched' = {}
    /\ LET matches == NotDoneOnDeal(rows, cur)
       IN \E page \in Replies(matches) :
             /\ hidden' = matches \ page
             /\ IF LiveOnDeal(rows, page) # {}
                THEN Conclude(cur, "existing")
                ELSE /\ pc' = IF PartyOf[cur] = None THEN "create" ELSE "byParty"
                     /\ UNCHANGED action
    /\ UNCHANGED <<bookVars, assessed, todo, cur, created, wire, confirmed, sent, exposed,
                   refusedOn, late>>
    /\ KeepEnd /\ KeepReads /\ KeepIds

\* list(Activity) by party: an open row that names no deal stops it too.
RecheckParty ==
    /\ pc = "byParty"
    /\ LET matches == NotDoneOnParty(rows, PartyOf[cur])
       IN \E page \in Replies(matches) :
             /\ hidden' = hidden \cup (matches \ page)
             /\ IF LiveOnParty(rows, page) # {}
                THEN Conclude(cur, "existing")
                ELSE pc' = "create" /\ UNCHANGED action
    /\ UNCHANGED <<bookVars, assessed, todo, cur, created, wire, touched, confirmed, sent,
                   exposed, refusedOn, late>>
    /\ KeepEnd /\ KeepReads /\ KeepIds

\* A re-read of Activity that is refused or fails is caught nowhere; nor is an
\* error of the deal's re-read that is no MCPToolError.
RecheckFails ==
    /\ pc \in {"reread", "byDeal", "byParty"}
    /\ Fail
    /\ \E refused \in SUBSET (IF pc = "reread" THEN {} ELSE {"Activity"}) :
          refusedOn' = refusedOn \cup refused
    /\ UNCHANGED <<bookVars, touched, hidden, confirmed, sent, exposed, late>>
    /\ KeepReads /\ KeepIds /\ KeepWork

\* create(Activity) leaves for the server.
SendCreate ==
    /\ pc = "create"
    /\ wire' = wire \cup {[deal |-> cur, run |-> run, row |-> None]}
    /\ sent' = [sent EXCEPT ![cur] = @ + 1]
    /\ pc' = "awaiting"
    /\ UNCHANGED <<bookVars, assessed, todo, cur, action, created, touched, hidden, confirmed,
                   exposed, refusedOn, late>>
    /\ KeepEnd /\ KeepReads /\ KeepIds

\* The reply arrives with the created row.
CreateAnswered ==
    /\ pc = "awaiting"
    /\ \E w \in wire :
          /\ w.run = run /\ w.row # None
          /\ created' = created \cup {w.row}
          /\ wire' = wire \ {w}
    /\ Conclude(cur, "created")
    /\ UNCHANGED <<bookVars, assessed, todo, cur, ghosts>>
    /\ KeepEnd /\ KeepReads /\ KeepIds

\* The server turns the create down.
CreateRejected ==
    /\ pc = "awaiting"
    /\ \E w \in wire : w.run = run /\ w.row = None /\ wire' = wire \ {w}
    /\ Fail
    /\ \E refused \in SUBSET {"Activity"} : refusedOn' = refusedOn \cup refused
    /\ UNCHANGED <<bookVars, assessed, todo, cur, action, created, touched, hidden, confirmed, sent,
                   exposed, late>>
    /\ KeepReads /\ KeepIds

\* No reply in time: the request may have been served, or be served later.
CreateTimesOut ==
    /\ pc = "awaiting"
    /\ Fail
    /\ wire' = {w \in wire : w.row = None}
    /\ UNCHANGED <<bookVars, assessed, todo, cur, action, created, ghosts>>
    /\ KeepReads /\ KeepIds

\* Every deal has its DealResult: the CanonicalAnswer is built and persisted.
Answer ==
    /\ pc = "loop" /\ todo = Nothing
    /\ End("answer", created)
    /\ UNCHANGED <<bookVars, ghosts>> /\ KeepReads /\ KeepIds /\ KeepWork

-----------------------------------------------------------------------------
(* The server, the teammates, the operator.                                *)

\* The server stores the row of a request, its sender waiting or gone.
Serve(w) ==
    /\ w.row = None
    /\ LET waiting == pc = "awaiting" /\ w.run = run
       IN \E i \in RowIds :
             /\ rows[i].state = "absent"
             /\ rows' = [rows EXCEPT ![i] = NewAction(w.deal, None, w.run)]
             /\ wire' = (wire \ {w})
                           \cup (IF waiting THEN {[w EXCEPT !.row = i]} ELSE {})
             /\ touched' = touched \cup {i}
             /\ late' = (late \/ ~waiting)
    /\ exposed' = exposed \cup CoveredDeals(rows')
    /\ UNCHANGED <<stage, edits, pc, run, req, listed, seen, indexed, assessed, todo, cur,
                   action, created, reported, outcome, hidden, confirmed, sent, refusedOn>>

\* A request nobody waits for never arrives.
Lose(w) ==
    /\ w.row = None
    /\ ~(pc = "awaiting" /\ w.run = run)
    /\ wire' = wire \ {w}
    /\ UNCHANGED <<bookVars, pc, run, req, listed, seen, indexed, assessed, todo, cur, action,
                   created, reported, outcome, ghosts>>

Teammates ==
    /\ \/ \E i \in RowIds : TeammateWrites(i) /\ touched' = touched \cup {i}
       \/ \E d \in Deals : TeammateMoves(d) /\ UNCHANGED touched
    /\ exposed' = exposed \cup CoveredDeals(rows')
    /\ UNCHANGED <<runVars, hidden, confirmed, sent, refusedOn, late>>

\* The process dies; nothing more reaches the artifact.
Kill ==
    /\ outcome = "running"
    /\ End("killed", {})
    /\ wire' = {w \in wire : w.row = None}
    /\ UNCHANGED <<bookVars, assessed, todo, cur, action, created, ghosts>>
    /\ KeepReads /\ KeepIds

\* The task is started again, with a request of its own.
Restart ==
    /\ outcome # "running" /\ run < MaxRuns
    /\ run' = run + 1
    /\ pc' = "prefs" /\ req' \in Requests
    /\ listed' = Nothing /\ seen' = stage /\ indexed' = {}
    /\ assessed' = Nothing /\ todo' = Nothing
    /\ cur' = None /\ action' = [d \in Deals |-> "none"]
    /\ created' = {} /\ reported' = {} /\ outcome' = "running"
    /\ sent' = Nothing /\ exposed' = CoveredDeals(rows) /\ refusedOn' = {}
    /\ touched' = {} /\ hidden' = {} /\ confirmed' = None
    /\ UNCHANGED <<bookVars, wire, late>>

-----------------------------------------------------------------------------
Preamble == LoadRotThreshold \/ LoadDeals \/ LoadActivityIndex \/ SelectDeals

DetermineNextAction ==
    \/ \E d \in Deals : Consider(d)
    \/ RereadMoved \/ RereadUnmoved \/ RereadUnreadable
    \/ RecheckDeal \/ RecheckParty \/ RecheckFails
    \/ SendCreate \/ CreateAnswered \/ CreateRejected \/ CreateTimesOut

Agent == Preamble \/ DetermineNextAction \/ Answer

Environment ==
    \/ \E w \in wire : Serve(w) \/ Lose(w)
    \/ Teammates \/ Kill \/ Restart

Next == Agent \/ Environment

Spec == Init /\ [][Next]_vars

-----------------------------------------------------------------------------
(* What the task must never do.                                            *)

\* Types of the variables.  No deal is listed, or worked on, twice, and the run
\* is over exactly when it has an outcome.
TypeOK ==
    /\ BookTypeOK
    /\ pc \in Pcs /\ run \in 1 .. MaxRuns /\ req \in Requests
    /\ listed \in [Deals -> 0 .. 1] /\ seen \in [Deals -> Stages]
    /\ indexed \subseteq Deals
    /\ assessed \in [Deals -> 0 .. 1] /\ todo \in [Deals -> 0 .. 1]
    /\ cur \in Deals \cup {None}
    /\ (pc \in Acting => cur \in Deals)
    /\ action \in [Deals -> Statuses]
    /\ created \subseteq RowIds /\ reported \subseteq RowIds
    /\ outcome \in Outcomes /\ (outcome = "running" <=> pc # "over")
    /\ wire \subseteq [deal : Deals, run : 1 .. MaxRuns, row : RowIds \cup {None}]
    /\ touched \subseteq RowIds /\ hidden \subseteq RowIds
    /\ confirmed \in Stages \cup {None}
    /\ sent \in [Deals -> Nat] /\ exposed \subseteq Deals
    /\ refusedOn \subseteq {"Deal", "Activity"} /\ late \in BOOLEAN

\* The create is only ever sent when every open action that covers the deal,
\* through the deal or through its customer alone, came or changed after the
\* last re-read by deal, or stood beyond the ReadLimit rows of a re-read: what
\* there is to be seen on the two pages stops the write.
NoBlindCreate == [][SendCreate => Covering(rows, cur) \subseteq touched \cup hidden]_vars

\* A deal gets at most one create from one run, however often paging returned
\* it and whatever teammates do to the row in between.
OneCreatePerDeal == \A d \in Deals : sent[d] <= 1

\* A run that answers has accounted for every row it added to the book: no
\* reply lost on the way, no deal skipped, can leave one out.
AnswerAccountsForWrites ==
    outcome = "answer" => {i \in RowIds : rows[i].by = run} = reported

\* A deal reported as having an open action had one at some time in the run:
\* neither a cancelled row nor a sibling deal's counts.
ExistingWasSeen ==
    \A d \in Deals : action[d] \in {"existing", "overdue"} => d \in exposed

\* Starting the task again adds no second action to a deal that has one of the
\* agent's, even after failures, lost replies and kills, as long as teammates
\* leave the book alone and no create is served after its sender gave up.
RerunAddsNothing ==
    ~late /\ edits = 0 =>
        \A i, j \in RowIds :
            /\ rows[i].by # Others /\ rows[j].by # Others
            /\ rows[i].deal = rows[j].deal
            => i = j

\* The promise made to the operator.
Contract == INSTANCE RunContract WITH
    phase   <- IF pc \in Reading THEN "reading"
               ELSE IF pc = "over" THEN outcome ELSE "acting",
    request <- req,
    chosen  <- {d \in Deals : assessed[d] > 0},
    wrote   <- {d \in Deals : sent[d] > 0},
    told    <- IF outcome = "answer"
               THEN {d \in Deals : action[d] = "created"} ELSE {}

KeepsContract == Contract!Spec

-----------------------------------------------------------------------------
(* What the documents say, where the code does otherwise.                  *)

\* refusal.py: nothing attempts a write once a required entity was refused.
NoWriteAfterDenial == [][SendCreate => refusedOn = {}]_vars

\* agent_contract.md, error policy: a refusal on Deal or Activity becomes a
\* RefusalResult.
DenialBecomesRefusal ==
    refusedOn # {} /\ pc = "over" => outcome \in {"refusal", "killed"}

\* agent_contract.md: the deal is re-read before a write, and one that changed
\* stage since it was listed is not written for.
MovedDealNotWritten ==
    [][SendCreate /\ stage[cur] # seen[cur] => confirmed = seen[cur]]_vars

\* agent_contract.md: open activities are re-read right before the write, and if
\* one exists by then the run stops; here wherever in the book it stands.
PageIsEnough == [][SendCreate => Covering(rows, cur) \subseteq touched]_vars

\* agent_contract.md: at most one Activity for a deal without an open one; here
\* with teammates leaving the book alone.
OneAgentActionPerDeal ==
    edits = 0 =>
        \A i, j \in RowIds :
            /\ rows[i].by # Others /\ rows[j].by # Others
            /\ rows[i].deal = rows[j].deal
            => i = j
=============================================================================
