----------------------------- MODULE DerivedReads -----------------------------
(***************************************************************************)
(* contact_status and aggregate, the tools run_loop answers itself: what   *)
(* they read is kept for the rest of the run, while the run, teammates and *)
(* `--task log-contact` go on writing to the same book.  The analysis is   *)
(* put together from two passes over the book, one inside the canonical    *)
(* task and one of its own; its rows are shown page by page.               *)
(***************************************************************************)
EXTENDS Integers, Sequences, FiniteSets, FiniteSetsExt

CONSTANTS
    Deals, Parties,
    PartyOf,       \* a deal's party_id, or None
    None,
    RowIds,
    Today,         \* the company's day; contacts are had on day 1 or later
    ServerDays,    \* the days it may be where the server is
    Contents,      \* what a row may be made to say
    Pages,         \* the pages of deal rows the model may ask for
    Sums,          \* the aggregates it may ask for
    MaxTurns,      \* bound on the turns of the run
    MaxEdits,      \* bound on what teammates do
    MaxLogs        \* bound on starts of log-contact

\* A page of contact_status: all deals or those rotting, and where it begins.
\* An aggregate names its scope, entity and filters; the rest of its arguments
\* choose how its records are put together.
Page == [tool : {"contact_status"}, rotting : BOOLEAN, offset : Nat, limit : Nat \ {0}]
Sum == [tool : {"aggregate"}, scope : {"Deal", "Activity"}, openOnly : BOOLEAN]
Questions == Pages \cup Sums

\* What is cached: a count, and rows that say of a deal when its last contact
\* was, whether an action is open, and why it rots: since which contact, as the
\* canonical answer has it; {}: it does not rot.
Analysis == [count : Nat,
             rows : Seq([deal : Deals, contact : Nat, action : BOOLEAN, why : SUBSET Nat])]

ASSUME DerivedAssumption ==
    /\ None \notin Deals \cup Parties \cup Analysis
    /\ PartyOf \in [Deals -> Parties \cup {None}]
    /\ IsFiniteSet(Deals) /\ IsFiniteSet(RowIds) /\ RowIds \subseteq Nat
    /\ Today \in Nat \ {0} /\ ServerDays \subseteq {Today, Today + 1}
    /\ Pages \subseteq Page /\ Sums \subseteq Sum
    /\ \A q \in Sums : q.openOnly => q.scope = "Deal"
    /\ {MaxTurns, MaxEdits, MaxLogs} \subseteq Nat

\* An Activity: open; a completed call, meeting or email, which counts as a
\* contact on the day it was due; or over, and no contact (a task, cancelled).  A
\* row that log_contact wrote names the day the contact was had.
Row == [kind : {"absent", "open", "contact", "over"}, deal : Deals \cup {None},
        party : Parties \cup {None}, due : 0 .. Today + 1, actual : 0 .. Today]

\* A row that reports no day but its own.
PlainRow(kind, deal, party, due) ==
    [kind |-> kind, deal |-> deal, party |-> party, due |-> due, actual |-> 0]
Absent == PlainRow("absent", None, None, 0)

ASSUME ContentsAssumption == Contents \subseteq {r \in Row : r.actual = 0}

VARIABLES
    rows,      \* the book's Activity rows
    closed,    \* the deals that are closed
    serverDay, \* the server's day
    pc,        \* where run_loop is
    turns,
    ask,       \* the question in hand
    told,      \* the last answer to each question
    listed,    \* the open deals of the pass under way
    flagged,   \* the canonical answer: its rotting deals, and since which contact
    analysis,  \* cache["analysis"]
    store,     \* cache["aggregate"]
    logPc, logDeal, logDay, logs

loopVars == <<pc, turns, ask, told, listed, flagged, analysis, store>>
logVars == <<logPc, logDeal, logDay, logs>>

\* History: what the properties compare the answers with.
VARIABLES
    edits,
    since,     \* deals something was written about since the analysis began
    between,   \* whether anything was, before its last read
    spoke      \* the days of contacts, as reported, or as completed rows say

history == <<edits, since, between, spoke>>
vars == <<rows, closed, serverDay, loopVars, logVars, history>>

NoFlags == [d \in {} |-> 0]
Unasked == [tool |-> "none"]
Untold == [tool |-> "none"]
Error == [tool |-> "error"]

Init ==
    /\ rows = [i \in RowIds |-> Absent] /\ closed = {} /\ serverDay \in ServerDays
    /\ pc = "asking" /\ turns = 0 /\ ask = Unasked
    /\ told = [q \in Questions |-> Untold]
    /\ listed = {} /\ flagged = NoFlags /\ analysis = None /\ store = [s \in {} |-> {}]
    /\ logPc = "idle" /\ logDeal = None /\ logDay = 0 /\ logs = 0
    /\ edits = 0 /\ since = {} /\ between = FALSE /\ spoke = {}

-----------------------------------------------------------------------------
(* What the index says of a deal.                                          *)

\* RealDay, if the row's due_date were taken for the day.
DueDay(r) == r.due

\* actual_contact_date, else the due_date.
RealDay(r) == IF r.actual # 0 THEN r.actual ELSE r.due

\* The rows that count for a deal: its own, and its customer's that name no deal.
About(r, d) ==
    r.kind # "absent" /\ (r.deal = d \/ (r.deal = None /\ r.party # None /\ r.party = PartyOf[d]))

\* The completed contacts that count, up to today.
ContactDays(book, d) ==
    {RealDay(book[i]) : i \in {j \in DOMAIN book :
        book[j].kind = "contact" /\ About(book[j], d) /\ RealDay(book[j]) <= Today}}

\* last_contacted; 0: never.
LastContact(book, d) == Max({0} \cup ContactDays(book, d))

HasAction(book, d) == \E i \in RowIds : book[i].kind = "open" /\ About(book[i], d)

\* The row of a deal: what the second pass says of it, and what rots as the first
\* pass found.
RowOf(book, d, flags) ==
    [deal |-> d, contact |-> LastContact(book, d), action |-> HasAction(book, d),
     why |-> {flags[e] : e \in DOMAIN flags \cap {d}}]

\* The rows, longest silence first.
Sorted(set) ==
    {s \in [1 .. Cardinality(set) -> set] :
        /\ \A i, j \in DOMAIN s : i # j => s[i] # s[j]
        /\ \A i, j \in DOMAIN s : i < j => s[i].contact <= s[j].contact}

\* A change of the book that says something about these deals.
Writes(about) ==
    /\ since' = since \cup about
    /\ between' = (between \/ pc \in {"rows1", "deals2", "rows2"})

Quiet == UNCHANGED <<since, between>>

DealsOf(r) == {d \in Deals : About(r, d)}

-----------------------------------------------------------------------------
(* A turn of run_loop.                                                     *)

Asks == pc = "asking" /\ turns < MaxTurns

\* What a call put together and did not cache goes with it.
EndTurn ==
    /\ pc' = "asking" /\ turns' = turns + 1 /\ ask' = Unasked
    /\ listed' = {} /\ flagged' = NoFlags

\* An answer is read into the history, an {"error": ...} like any other.
Tell(q, answer) == told' = [told EXCEPT ![q] = answer] /\ EndTurn

\* A tool error is told to the model and counts for no read.
ReadRaises ==
    /\ pc \in {"deals1", "rows1", "deals2", "rows2", "counting"}
    /\ EndTurn
    /\ UNCHANGED <<rows, closed, serverDay, told, analysis, store,
                   logVars, history>>

\* A slice of a list: what it reaches beyond the ends is left out.
Slice(rowSeq, from, to) == SubSeq(rowSeq, Max({1, from}), Min({to, Len(rowSeq)}))

\* CutAfter, if the page began at the last row of the page before.
CutBefore(part, page) == Slice(part, page.offset, page.offset + page.limit - 1)

\* _page's slice.
CutAfter(part, page) == Slice(part, page.offset + 1, page.offset + page.limit)

\* The deals section, or its rotting rows: the rows keep their order.
Section(a, rottingOnly) ==
    LET kept == {k \in DOMAIN a.rows : rottingOnly => a.rows[k].why # {}}
        place(k) == Cardinality({j \in kept : j <= k})
    IN [n \in 1 .. Cardinality(kept) |-> a.rows[CHOOSE k \in kept : place(k) = n]]

\* view: one page of a section.  A text that overruns RESULT_CHAR_BUDGET is cut
\* off, and so shows the first rows only; the rows are as long as they are.  Where
\* to go on is in next_offset, or in the call's line of calls_so_far.
ViewOf(a, page, whole) ==
    LET part == Section(a, page.rotting)
        chunk == CutAfter(part, page)
        end == page.offset + Len(chunk)
    IN [tool |-> "view", total |-> Len(part), returned |-> Len(chunk),
        next |-> IF end < Len(part) THEN end ELSE 0,
        shown |-> Slice(chunk, 1, whole)]

Show(a, page) == \E whole \in 0 .. page.limit : Tell(page, ViewOf(a, page, whole))

\* Cached, if the analysis were made anew for every call.
NotCached == FALSE

Cached == analysis # None

\* contact_status: the cached analysis, or the first read of a new one.
AskPage(q) ==
    /\ Asks /\ q \in Pages
    /\ IF Cached
       THEN Show(analysis, q) /\ Quiet
       ELSE /\ pc' = "deals1" /\ ask' = q /\ since' = {} /\ between' = FALSE
            /\ UNCHANGED <<turns, told, listed, flagged>>
    /\ UNCHANGED <<rows, closed, serverDay, analysis, store, logVars, edits,
                   spoke>>

\* ListFirst, if the deals were not sifted by their stage.
ListEvery ==
    /\ pc = "deals1"
    /\ listed' = Deals /\ pc' = "rows1"
    /\ UNCHANGED <<rows, closed, serverDay, turns, ask, told, flagged, analysis,
                   store, logVars, history>>

\* The canonical task's load_deals.
ListFirst ==
    /\ pc = "deals1"
    /\ listed' = Deals \ closed /\ pc' = "rows1"
    /\ UNCHANGED <<rows, closed, serverDay, turns, ask, told, flagged, analysis,
                   store, logVars, history>>

\* IndexFirst, if only the rows on the deal itself counted there.
IndexDealRows ==
    /\ pc = "rows1" /\ pc' = "deals2"
    /\ \E rotting \in SUBSET listed :
          flagged' = [d \in rotting |->
                        LastContact([i \in {j \in RowIds : rows[j].deal = d} |-> rows[i]], d)]
    /\ UNCHANGED <<rows, closed, serverDay, turns, ask, told, listed, analysis,
                   store, logVars, history>>

\* Its load_activity_index, and the deals it finds rotting: by its contact, by the
\* platform's level or by the line drawn from all deals' ages (RotIndex has these
\* rules), so any of them; and each with the contact it is judged by.
IndexFirst ==
    /\ pc = "rows1" /\ pc' = "deals2"
    /\ \E rotting \in SUBSET listed : flagged' = [d \in rotting |-> LastContact(rows, d)]
    /\ UNCHANGED <<rows, closed, serverDay, turns, ask, told, listed, analysis,
                   store, logVars, history>>

\* The platform refuses a read of the canonical task: a RefusalResult, told as
\* an answer and not cached.
AnalysisRefused ==
    /\ pc \in {"deals1", "rows1"}
    /\ Tell(ask, Error)
    /\ UNCHANGED <<rows, closed, serverDay, analysis, store, logVars, history>>

\* analyse reads the deals again.
ListAgain ==
    /\ pc = "deals2"
    /\ listed' = Deals \ closed /\ pc' = "rows2"
    /\ UNCHANGED <<rows, closed, serverDay, turns, ask, told, flagged, analysis,
                   store, logVars, history>>

\* What is cached: the canonical answer's count, and a row of each deal listed.
AnalysisOf(ordered) == [count |-> Cardinality(DOMAIN flagged), rows |-> ordered]

\* And the rows; what both passes say is joined, cached and shown.
IndexAgain ==
    /\ pc = "rows2"
    /\ \E ordered \in Sorted({RowOf(rows, d, flagged) : d \in listed}) :
          /\ analysis' = AnalysisOf(ordered)
          /\ Show(AnalysisOf(ordered), ask)
    /\ UNCHANGED <<rows, closed, serverDay, store, logVars, history>>

-----------------------------------------------------------------------------
(* aggregate.                                                              *)

\* The records of an entity, as _read_all brings them (its paging is Paging's).
Records(scope) ==
    IF scope = "Deal" THEN {[id |-> d, open |-> d \notin closed] : d \in Deals}
    ELSE {[id |-> i, open |-> rows[i].kind = "open"] :
             i \in {j \in RowIds : rows[j].kind # "absent"}}

\* open_only picks among the records read.
SumOf(records, q) ==
    [tool |-> "sum", read |-> records,
     used |-> {r \in records : q.openOnly => r.open}]

\* The key of the records read.
KeyOf(q) == q.scope

AskSum(q) ==
    /\ Asks /\ q \in Sums
    /\ IF KeyOf(q) \in DOMAIN store
       THEN Tell(q, SumOf(store[KeyOf(q)], q))
       ELSE pc' = "counting" /\ ask' = q /\ UNCHANGED <<turns, told, listed, flagged>>
    /\ UNCHANGED <<rows, closed, serverDay, analysis, store, logVars, history>>

ReadAll ==
    /\ pc = "counting"
    /\ store' = [k \in DOMAIN store \cup {KeyOf(ask)} |->
                    IF k = KeyOf(ask) THEN Records(ask.scope) ELSE store[k]]
    /\ Tell(ask, SumOf(Records(ask.scope), ask))
    /\ UNCHANGED <<rows, closed, serverDay, analysis, logVars, history>>

-----------------------------------------------------------------------------
(* Writes of others: teammates, and the run itself, whose creates and updates  *)
(* go past the derived tools (AgentLoop has their gates).                  *)

\* A row comes, changes in any way, or goes.
Rewrites(i, row) ==
    /\ rows' = [rows EXCEPT ![i] = row] /\ closed' = closed
    /\ Writes(DealsOf(rows[i]) \cup DealsOf(row))
    /\ spoke' = spoke \cup {[deal |-> c.deal, party |-> c.party, day |-> c.due] :
                               c \in {r \in {row} : r.kind = "contact"}}

\* A deal is closed, or opened again.
Moves(d) ==
    /\ closed' \in {closed \cup {d}, closed \ {d}}
    /\ Writes({d})
    /\ UNCHANGED <<rows, spoke>>

Changes == (\E i \in RowIds, row \in Contents : Rewrites(i, row)) \/ \E d \in Deals : Moves(d)

\* A turn that writes; the caches stay as they are.
LoopWrites ==
    /\ Asks /\ Changes /\ EndTurn
    /\ UNCHANGED <<serverDay, told, analysis, store, logVars, edits>>

Mates ==
    /\ edits < MaxEdits /\ edits' = edits + 1
    /\ Changes
    /\ UNCHANGED <<serverDay, loopVars, logVars>>

-----------------------------------------------------------------------------
(* log_contact, started by a person for a deal and the day they name.      *)

\* The dates are checked against the company clock before anything is read.
StartLog(d, day) ==
    /\ logPc = "idle" /\ logs < MaxLogs /\ day <= Today
    /\ logPc' = "create" /\ logDeal' = d /\ logDay' = day /\ logs' = logs + 1
    /\ spoke' = spoke \cup {[deal |-> d, party |-> PartyOf[d], day |-> day]}
    /\ UNCHANGED <<rows, closed, serverDay, loopVars, edits, since, between>>

\* build_logged_contact: dated today, the real day in its text.
LoggedContact(d, day) ==
    [kind |-> "contact", deal |-> d, party |-> PartyOf[d], due |-> Today, actual |-> day]

\* A new row, on the first free id.
Stores(row) ==
    \E i \in RowIds :
        /\ rows[i].kind = "absent" /\ \A j \in RowIds : j < i => rows[j].kind # "absent"
        /\ rows' = [rows EXCEPT ![i] = row]
        /\ Writes(DealsOf(row))

\* The server refuses a due_date that is over where it is.
Accepts(row) == row.due >= serverDay

LogEnds(how) == logPc' = how /\ logDeal' = None /\ logDay' = 0

LogAnswered ==
    /\ logPc = "create" /\ Accepts(LoggedContact(logDeal, logDay))
    /\ Stores(LoggedContact(logDeal, logDay))
    /\ LogEnds("logged")
    /\ UNCHANGED <<closed, serverDay, loopVars, logs, edits, spoke>>

\* Its reply is lost: the run ends in an error, and may be started again.
LogLost ==
    /\ logPc = "create" /\ Accepts(LoggedContact(logDeal, logDay))
    /\ Stores(LoggedContact(logDeal, logDay))
    /\ LogEnds("failed")
    /\ UNCHANGED <<closed, serverDay, loopVars, logs, edits, spoke>>

LogRejected ==
    /\ logPc = "create" /\ ~Accepts(LoggedContact(logDeal, logDay))
    /\ LogEnds("rejected")
    /\ UNCHANGED <<rows, closed, serverDay, loopVars, logs, history>>

\* A read or the create fails, or it was a proposal.
LogFails ==
    /\ logPc = "create"
    /\ LogEnds("failed")
    /\ UNCHANGED <<rows, closed, serverDay, loopVars, logs, history>>

\* The same report again after an error, or another one.
LogAgain ==
    /\ logPc \in {"logged", "failed", "rejected"}
    /\ logPc' = "idle"
    /\ UNCHANGED <<rows, closed, serverDay, loopVars, logDeal, logDay, logs, history>>

Loop ==
    \/ \E q \in Questions : AskPage(q) \/ AskSum(q)
    \/ ListFirst \/ IndexFirst \/ AnalysisRefused \/ ListAgain \/ IndexAgain
    \/ ReadAll \/ ReadRaises \/ LoopWrites

LogContact ==
    \/ \E d \in Deals, day \in 1 .. Today : StartLog(d, day)
    \/ LogAnswered \/ LogLost \/ LogRejected \/ LogFails \/ LogAgain

Next == Loop \/ LogContact \/ Mates

Spec == Init /\ [][Next]_vars

-----------------------------------------------------------------------------
(* Properties.                                                             *)

Shown(a) == {a.shown[k].deal : k \in DOMAIN a.shown}

\* Each deal of the section was shown, as many as total says.
SeesAll(run) ==
    \A p \in run : told[p].total = Cardinality(UNION {Shown(told[o]) : o \in run})

\* The pages of a model that begins a section at its start and goes on, as far
\* as next_offset leads.
Followed(run) ==
    /\ \E q \in run : q.offset = 0
    /\ \A q \in run : told[q].next = 0 \/ \E p \in run : p.offset = told[q].next
    /\ \A q \in run : q.offset = 0 \/ \E p \in run : told[p].next = q.offset

Viewed(rottingOnly, limit) ==
    {q \in Pages : q.rotting = rottingOnly /\ q.limit = limit /\ told[q].tool = "view"}

\* No deal comes twice, and where no answer was cut off each came once, as many
\* as total says, whatever was asked and written meanwhile.
PagesTile ==
    \A q \in Pages : \A run \in SUBSET Viewed(q.rotting, q.limit) : Followed(run) =>
        /\ \A o, p \in run : o # p => Shown(told[o]) \cap Shown(told[p]) = {}
        /\ (\A p \in run : Len(told[p].shown) = told[p].returned) => SeesAll(run)

\* What the cached analysis says of a deal's contact and action still holds unless
\* something was written about that deal since the analysis began, by the run
\* itself too.  That it rots may have changed with the others' ages.
StaleOnlyWhereWritten ==
    analysis # None /\ pc \notin {"deals1", "rows1", "deals2", "rows2"} =>
        \A d \in Deals \ since :
            LET mine == {k \in DOMAIN analysis.rows : analysis.rows[k].deal = d}
            IN IF d \in closed THEN mine = {}
               ELSE /\ Cardinality(mine) = 1
                    /\ \A k \in mine :
                          /\ analysis.rows[k].contact = LastContact(rows, d)
                          /\ analysis.rows[k].action = HasAction(rows, d)
                          /\ analysis.rows[k].why \subseteq {LastContact(rows, d)}

\* The summary's count agrees with the rows that rot, and why a deal rots with
\* the last contact its row shows, unless the book was written to between the
\* two passes.
TornOnlyByWrites ==
    analysis # None /\ ~between =>
        /\ analysis.count = Cardinality({k \in DOMAIN analysis.rows : analysis.rows[k].why # {}})
        /\ \A k \in DOMAIN analysis.rows :
              analysis.rows[k].why \subseteq {analysis.rows[k].contact}

\* Aggregates of one entity and filter are made of the same records, however
\* they are grouped and whatever was written between them.
OneReadPerScope ==
    \A p, q \in Sums :
        told[p].tool = "sum" /\ told[q].tool = "sum" /\ p.scope = q.scope =>
            told[p].read = told[q].read

\* A last contact is the day on which a contact was had according to the person
\* who reported it, or for which the row was due that somebody completed: never
\* the day on which someone got round to reporting it, as often as that was tried.
DatesAsSaid ==
    \A d \in Deals :
        LastContact(rows, d) \in
            {0} \cup {c.day : c \in {s \in spoke : s.deal = d \/ s.party = PartyOf[d]}}

\* A report of a contact is one row, also when it was run again because the
\* reply to its create was lost.
OneRowPerReport ==
    \A i, j \in RowIds :
        rows[i].actual # 0 /\ rows[j].actual # 0 /\ i # j => rows[i] # rows[j]

\* Where a model is led by the pages it sees the whole section, as DESCRIPTION's
\* "Each page says total and next_offset" lets it expect.
PagesSuffice ==
    \A q \in Pages : \A run \in SUBSET Viewed(q.rotting, q.limit) :
        Followed(run) => SeesAll(run)

\* What log_contact's docstring promises of the row's date: the platform
\* refuses a past one, so it is today's, and is taken.
ReportIsTaken == logPc # "rejected"
=============================================================================
