------------------------------ MODULE AgentLoop ------------------------------
(***************************************************************************)
(* `--task loop`: run_loop asks the model what to do, round after round,   *)
(* runs the tool it names if the harness's gates let it, and stops on an   *)
(* answer, a repeated refusal, an error or a spent budget.  The model may  *)
(* reply anything; teammates write to the same book while it thinks.       *)
(***************************************************************************)
EXTENDS Book

CONSTANTS
    MaxSteps,      \* max_steps
    TokenBudget,   \* token_budget: at most one number
    Deadline,      \* deadline: at most one number
    Costs,         \* what one model call may cost, in tokens
    Durations,     \* how long one round may take
    Reads,         \* the distinct reads (tool and arguments) the model may ask for
    Derived,       \* those of contact_status and aggregate
    KindOf,        \* (tool, entity) of each read
    HistoryWindow, \* HISTORY_WINDOW
    Policy,        \* the WritePolicy
    Asked,         \* the calls the model may reply with
    Before,        \* the books the run may find
    Unset          \* a field that is not among the arguments

MaxRepeatDenials == 1
MaxIdenticalReads == 2

ASSUME LoopAssumption ==
    /\ MaxSteps \in Nat \ {0}
    /\ TokenBudget \in SUBSET Nat /\ \A m, n \in TokenBudget : m = n
    /\ Deadline \in SUBSET Nat /\ \A m, n \in Deadline : m = n
    /\ Costs \subseteq Nat \ {0} /\ Durations \subseteq Nat
    /\ Derived \subseteq Reads
    /\ HistoryWindow \in Nat
    /\ Policy.allows \in BOOLEAN /\ Policy.max \in Nat
    /\ Policy.deals \subseteq Deals /\ Policy.records \subseteq RowIds
    /\ Unset \notin Deals \cup Parties \cup RowIds \cup {None, "true", "false"}

\* A field of a write may stand beside `data`, in it, or in `filters`, which the
\* shape gate lets by; given as null it is None.
Places == {"top", "filters", "data"}
Arguments(values) == [Places -> values \cup {Unset}]

\* What the model may ask for: creates and updates of Activities, a write to
\* another entity or by another tool, reads.
Creates == [tool : {"create"}, deal : Arguments(Deals \cup {None}),
            party : Arguments(Parties \cup {None}), done : Arguments({"true", "false"})]
Updates == [tool : {"update"}, id : {f \in Arguments(RowIds) : f["top"] # Unset}]
Foreign == [tool : {"foreign"}]
Lookups == [tool : {"read"}, key : Reads]
Calls == Creates \cup Updates \cup Foreign \cup Lookups

ASSUME CallAssumption ==
    /\ Asked \subseteq Calls
    /\ Before \subseteq {book \in [RowIds -> Row] : \A i \in RowIds : book[i].by = Others}

Writes(a) == a.tool # "read"
IsDerived(a) == ~Writes(a) /\ a.key \in Derived

\* How the duplicate guard and the ban on completed Activities read a field.
WriteField(f) ==
    IF f["top"] # Unset THEN f["top"] ELSE IF f["data"] # Unset THEN f["data"] ELSE None

\* And how the WritePolicy reads the deal of a create.
WriteTargetDeal(f) ==
    IF f["top"] \notin {Unset, None} THEN f["top"]
    ELSE IF f["data"] # Unset THEN f["data"] ELSE None

\* What is sent: `filters`, then `data`, are laid over the top level.
ToWire(f) ==
    IF f["data"] # Unset THEN f["data"]
    ELSE IF f["filters"] # Unset THEN f["filters"]
    ELSE IF f["top"] # Unset THEN f["top"] ELSE None

\* The (tool, entity) of a call.
KeyOf(a) == IF a.tool = "read" THEN KindOf[a.key] ELSE a.tool
Keys == {"create", "update", "foreign"} \cup {KindOf[k] : k \in Reads}
NoCall == [tool |-> "none"]

VARIABLES
    pc,        \* where run_loop is
    rounds,    \* rounds begun
    used,      \* input and output tokens so far
    last,      \* what the last model call cost
    now,       \* the clock
    began,     \* when this round began
    lastRound, \* how long the round before it took
    final,     \* why this round is the wrap-up, if it is
    wrapped,   \* why the wrap-up call was made, once it has been
    hist,      \* how many entries history has
    reads,     \* times each read has answered, and where its result stands
    denied,    \* refusals of each (tool, entity)
    act,       \* the call in hand
    writes,    \* writes_done
    ids,       \* created_record_ids
    ended      \* how the run ended

budget == <<rounds, used, last, now, began, lastRound, final, wrapped>>
memory == <<reads, denied, writes, ids>>
loopVars == <<pc, budget, hist, memory, act, ended>>

\* History: what the properties compare the run with.
VARIABLES
    touched,   \* rows changed since the guard's first read for the call in hand
    hidden,    \* rows those reads asked for that did not fit in their page
    lost,      \* writes that were made and reported as errors
    repeated   \* reads the harness has just refused to repeat

vars == <<bookVars, loopVars, touched, hidden, lost, repeated>>

Reasons == {"none", "token", "time"}
Endings == {"running", "done", "refused", "error", "crashed", "max_steps", "token_budget",
            "time_budget"}
BudgetEnding(reason) == IF reason = "token" THEN "token_budget" ELSE "time_budget"
Guarding == {"byDeal", "getDeal", "byParty"}

Init ==
    /\ rows \in Before /\ stage \in [Deals -> Actionable \cup OtherOpen] /\ edits = 0
    /\ pc = "clock" /\ rounds = 0 /\ used = 0 /\ last = 0
    /\ now = 0 /\ began = 0 /\ lastRound = 0
    /\ final = "none" /\ wrapped = "none" /\ hist = 0
    /\ reads = [k \in Reads |-> [times |-> 0, at |-> 0]]
    /\ denied = [k \in Keys |-> 0]
    /\ act = NoCall /\ writes = 0 /\ ids = {} /\ ended = "running"
    /\ touched = {} /\ hidden = {} /\ lost = 0 /\ repeated = {}

\* The call in hand, if any, is over.
Drop == act' = NoCall /\ touched' = {} /\ hidden' = {}
KeepHand == UNCHANGED <<act, touched, hidden>>

End(how) == pc' = "over" /\ ended' = how /\ Drop /\ UNCHANGED hist

\* The turn is spent; what it came to is one more entry of the history.
NextRound == pc' = "round" /\ hist' = hist + 1 /\ Drop /\ UNCHANGED ended

\* The run goes on to its next step within the turn.
Goto(step) == pc' = step /\ UNCHANGED <<hist, ended>>

\* Only the company clock's tool errors are caught.
ReadClock ==
    /\ pc = "clock"
    /\ (Goto("round") /\ KeepHand) \/ End("crashed")
    /\ UNCHANGED <<bookVars, budget, memory, lost, repeated>>

-----------------------------------------------------------------------------
(* The budgets.                                                            *)

\* Another call like the last would leave no room for a third.
TokenShort(spent, cost) == \E cap \in TokenBudget : cost > 0 /\ spent + 2 * cost > cap

TimeShort(time, len) == \E limit \in Deadline : len > 0 /\ time + 2 * len > limit

\* WrapUpSpent, if the wrap-up could be asked for again.
NeverSpent == FALSE

WrapUpSpent == wrapped # "none"

BeginRound ==
    /\ pc = "round"
    /\ IF rounds = MaxSteps
       THEN End("max_steps") /\ UNCHANGED <<rounds, began, lastRound, final>>
       ELSE /\ rounds' = rounds + 1
            /\ began' = now
            /\ lastRound' = IF rounds > 0 THEN now - began ELSE 0
            /\ IF WrapUpSpent
               THEN End(BudgetEnding(wrapped)) /\ UNCHANGED final
               ELSE /\ final' = IF TokenShort(used, last) THEN "token"
                                ELSE IF TimeShort(now, lastRound') THEN "time" ELSE "none"
                    /\ Goto("asking") /\ KeepHand
    /\ UNCHANGED <<bookVars, used, last, now, wrapped, memory, lost, repeated>>

\* The model call fails, twice if it failed for a passing reason.
ModelFails ==
    /\ pc = "asking"
    /\ End("error")
    /\ UNCHANGED <<bookVars, budget, memory, lost, repeated>>

OverBudget(spent) == \E cap \in TokenBudget : spent >= cap

\* A reply arrives.  The wrap-up call is exempt from the stop.
ModelReplies ==
    /\ pc = "asking"
    /\ \E cost \in Costs, time \in Durations :
          used' = used + cost /\ last' = cost /\ now' = now + time
    /\ wrapped' = IF final # "none" THEN final ELSE wrapped
    /\ IF final = "none" /\ OverBudget(used')
       THEN End("token_budget")
       ELSE Goto("reply") /\ KeepHand
    /\ repeated' = {}
    /\ UNCHANGED <<bookVars, rounds, began, lastRound, final, memory, lost>>

-----------------------------------------------------------------------------
(* The reply.                                                              *)

\* Not JSON: the turn is spent, on the wrap-up too.
Unparseable ==
    /\ pc = "reply"
    /\ NextRound
    /\ UNCHANGED <<bookVars, budget, memory, lost, repeated>>

\* OffTurn, if the wrap-up reply were taken like any other.
AnyReply == FALSE

OffTurn == final # "none"

\* Anything but an answer on the wrap-up ends the run.
EndOffTurn ==
    /\ pc = "reply" /\ OffTurn
    /\ End(BudgetEnding(final))
    /\ UNCHANGED <<bookVars, budget, memory, lost, repeated>>

\* Note, if a note cost neither its turn nor its tokens.
FreeNote ==
    /\ pc = "reply" /\ ~OffTurn
    /\ Goto("round") /\ KeepHand
    /\ rounds' = rounds - 1 /\ used' = used - last
    /\ UNCHANGED <<bookVars, last, now, began, lastRound, final, wrapped, memory, lost,
                   repeated>>

\* A note takes a turn and leaves no entry; an unknown action, or a call the
\* shape gate turns down, leaves one.
Note ==
    /\ pc = "reply" /\ ~OffTurn
    /\ Goto("round") /\ KeepHand
    /\ UNCHANGED <<bookVars, budget, memory, lost, repeated>>

Malformed ==
    /\ pc = "reply" /\ ~OffTurn
    /\ NextRound
    /\ UNCHANGED <<bookVars, budget, memory, lost, repeated>>

Done ==
    /\ pc = "reply"
    /\ End("done")
    /\ UNCHANGED <<bookVars, budget, memory, lost, repeated>>

-----------------------------------------------------------------------------
(* The gates a call passes before it is made.                              *)

\* Refused, without the stop.
NeverRefused(a) == FALSE

Refused(a) == denied[KeyOf(a)] >= MaxRepeatDenials

\* The result of the same read is in the history window still.
InWindow(a) ==
    ~Writes(a) /\ reads[a.key].times > 0 /\ hist - reads[a.key].at <= HistoryWindow

\* Or it has run often enough.
RepeatOf(a) == InWindow(a) \/ (~Writes(a) /\ reads[a.key].times >= MaxIdenticalReads)

\* write_block_reason, without the write budget.
OutOfScope(a) ==
    /\ Writes(a)
    /\ \/ ~Policy.allows \/ Policy.max = 0
       \/ a.tool = "foreign"
       \/ a.tool = "update" /\ a.id["top"] \notin Policy.records
       \/ a.tool = "create" /\ WriteField(a.done) = "true"
       \/ /\ a.tool = "create" /\ Policy.deals # {}
          /\ WriteTargetDeal(a.deal) \notin Policy.deals

Blocked(a) == OutOfScope(a) \/ (Writes(a) /\ writes >= Policy.max)

StopRepeatedDenial(a) ==
    /\ pc = "reply" /\ ~OffTurn /\ Refused(a)
    /\ End("refused")
    /\ UNCHANGED <<bookVars, budget, memory, lost, repeated>>

RefuseRepeat(a) ==
    /\ pc = "reply" /\ ~OffTurn /\ ~Refused(a) /\ RepeatOf(a)
    /\ NextRound
    /\ repeated' = IF InWindow(a) THEN {a.key} ELSE {}
    /\ UNCHANGED <<bookVars, budget, memory, lost>>

\* A blocked write counts as a refusal of its (tool, entity).
BlockWrite(a) ==
    /\ pc = "reply" /\ ~OffTurn /\ ~Refused(a) /\ Blocked(a)
    /\ denied' = [denied EXCEPT ![KeyOf(a)] = @ + 1]
    /\ NextRound
    /\ UNCHANGED <<bookVars, budget, reads, writes, ids, lost, repeated>>

\* A create passes the duplicate guard first.
FirstGuard(a) ==
    IF a.tool # "create" THEN "calling"
    ELSE IF WriteField(a.deal) # None THEN "byDeal"
    ELSE IF WriteField(a.party) # None THEN "byParty" ELSE "calling"

Admit(a) ==
    /\ pc = "reply" /\ ~OffTurn /\ ~Refused(a) /\ ~RepeatOf(a) /\ ~Blocked(a)
    /\ act' = a
    /\ Goto(FirstGuard(a))
    /\ UNCHANGED <<bookVars, budget, memory, touched, hidden, lost, repeated>>

-----------------------------------------------------------------------------
(* open_activity_duplicate.                                                *)

\* A duplicate found is told to the model, and is no refusal.
GuardDeal ==
    /\ pc = "byDeal"
    /\ LET matches == NotDoneOnDeal(rows, WriteField(act.deal))
       IN \E found \in Replies(matches) :
             IF LiveOnDeal(rows, found) # {}
             THEN NextRound
             ELSE /\ Goto(IF WriteField(act.party) = None THEN "getDeal" ELSE "byParty")
                  /\ touched' = {} /\ hidden' = matches \ found /\ UNCHANGED act
    /\ UNCHANGED <<bookVars, budget, memory, lost, repeated>>

\* The customer of a row: the one it names, or else its deal's.
CustomerOf(deal, party) ==
    IF party # None THEN party ELSE IF deal # None THEN PartyOf[deal] ELSE None

GuardedCustomer(a) == CustomerOf(WriteField(a.deal), WriteField(a.party))

GetDeal ==
    /\ pc = "getDeal"
    /\ Goto(IF GuardedCustomer(act) = None THEN "calling" ELSE "byParty") /\ KeepHand
    /\ UNCHANGED <<bookVars, budget, memory, lost, repeated>>

GuardParty ==
    /\ pc = "byParty"
    /\ LET matches == NotDoneOnParty(rows, GuardedCustomer(act))
       IN \E found \in Replies(matches) :
             IF LiveOnParty(rows, found) # {}
             THEN NextRound
             ELSE /\ Goto("calling") /\ UNCHANGED <<act, touched>>
                  /\ hidden' = hidden \cup (matches \ found)
    /\ UNCHANGED <<bookVars, budget, memory, lost, repeated>>

\* The guard runs outside the try: an error of its reads leaves run_loop.
GuardFails ==
    /\ pc \in Guarding
    /\ End("crashed")
    /\ UNCHANGED <<bookVars, budget, memory, lost, repeated>>

-----------------------------------------------------------------------------
(* The call.                                                               *)

ReadAnswers ==
    /\ pc = "calling" /\ ~Writes(act)
    /\ reads' = [reads EXCEPT ![act.key] = [times |-> @.times + 1, at |-> hist]]
    /\ NextRound
    /\ UNCHANGED <<bookVars, budget, denied, writes, ids, lost, repeated>>

\* The server stores what was sent: a new row for the create, or the links and
\* the state the model asked for in the row of the update.
StoresCreate(i) ==
    /\ act.tool = "create" /\ rows[i].state = "absent"
    /\ LET sent == NewAction(ToWire(act.deal), ToWire(act.party), 1)
       IN rows' = [rows EXCEPT ![i] =
                     [sent EXCEPT !.state = IF ToWire(act.done) = "true" THEN "done" ELSE "open"]]

StoresUpdate(i) ==
    /\ act.tool = "update" /\ i = ToWire(act.id) /\ rows[i].state # "absent"
    /\ \E d \in Deals \cup {None}, p \in Parties \cup {None},
          s \in {"open", "done", "cancelled"} :
          rows' = [rows EXCEPT ![i] = [@ EXCEPT !.deal = d, !.party = p, !.state = s]]

Stores(i) == (StoresCreate(i) \/ StoresUpdate(i)) /\ UNCHANGED <<stage, edits>>

\* Recorded, if the id were dropped.
Unrecorded(i) == ids

Recorded(i) == IF act.tool = "create" THEN ids \cup {i} ELSE ids

WriteAnswered ==
    /\ pc = "calling" /\ Writes(act)
    /\ \E i \in RowIds : Stores(i) /\ ids' = Recorded(i)
    /\ writes' = writes + 1
    /\ NextRound
    /\ UNCHANGED <<budget, reads, denied, lost, repeated>>

\* The write is made and its reply lost: the model is told of an error, or, if
\* the error is no MCPToolError, it leaves run_loop.
WriteLost ==
    /\ pc = "calling" /\ Writes(act)
    /\ \E i \in RowIds : Stores(i)
    /\ lost' = lost + 1
    /\ NextRound \/ End("crashed")
    /\ UNCHANGED <<budget, memory, repeated>>

CallFails ==
    /\ pc = "calling"
    /\ NextRound
    /\ UNCHANGED <<bookVars, budget, memory, lost, repeated>>

\* The platform refuses; from a derived tool it comes back as an error.
CallDenied ==
    /\ pc = "calling" /\ ~IsDerived(act)
    /\ denied' = [denied EXCEPT ![KeyOf(act)] = @ + 1]
    /\ NextRound
    /\ UNCHANGED <<bookVars, budget, reads, writes, ids, lost, repeated>>

\* Nothing is done, and the error is no MCPToolError.
CallCrashes ==
    /\ pc = "calling"
    /\ End("crashed")
    /\ UNCHANGED <<bookVars, budget, memory, lost, repeated>>

-----------------------------------------------------------------------------
\* A row written by a teammate is new to a guard that has begun.
Teammates ==
    /\ \/ /\ \E i \in RowIds :
                /\ TeammateWrites(i)
                /\ touched' = IF act = NoCall THEN {} ELSE touched \cup {i}
       \/ (\E d \in Deals : TeammateMoves(d)) /\ UNCHANGED touched
    /\ UNCHANGED <<loopVars, hidden, lost, repeated>>

Reply ==
    \/ Unparseable \/ EndOffTurn \/ Note \/ Malformed \/ Done
    \/ \E a \in Asked : \/ StopRepeatedDenial(a) \/ RefuseRepeat(a)
                        \/ BlockWrite(a) \/ Admit(a)

Guard == GuardDeal \/ GetDeal \/ GuardParty \/ GuardFails

Call == ReadAnswers \/ WriteAnswered \/ WriteLost \/ CallFails \/ CallDenied \/ CallCrashes

Loop == ReadClock \/ BeginRound \/ ModelFails \/ ModelReplies \/ Reply \/ Guard \/ Call

Next == Loop \/ Teammates

Spec == Init /\ [][Next]_vars

\* Nothing but the model and the server is waited for, and both answer or fail.
FairSpec == Spec /\ WF_vars(Loop)

-----------------------------------------------------------------------------
(* What the loop must never do.                                            *)

Pcs == {"clock", "round", "asking", "reply", "calling", "over"} \cup Guarding

\* A read runs at most MaxIdenticalReads times, however the history slides.
TypeOK ==
    /\ BookTypeOK
    /\ pc \in Pcs /\ ended \in Endings /\ (ended # "running" <=> pc = "over")
    /\ rounds \in 0 .. MaxSteps /\ hist \in Nat
    /\ used \in Nat /\ last \in Nat /\ now \in Nat /\ began \in 0 .. now
    /\ lastRound \in Nat
    /\ final \in Reasons /\ wrapped \in Reasons
    /\ reads \in [Reads -> [times : 0 .. MaxIdenticalReads, at : Nat]]
    /\ denied \in [Keys -> 0 .. MaxRepeatDenials]
    /\ (IF pc \in Guarding \cup {"calling"} THEN act \in Asked ELSE act = NoCall)
    /\ writes \in Nat /\ ids \subseteq RowIds
    /\ touched \subseteq RowIds /\ hidden \subseteq RowIds
    /\ lost \in Nat /\ repeated \subseteq Reads

\* A run over its token budget got there with its last model call, the wrap-up
\* included: before that call it was within it.
OvershootAtMostOneCall ==
    \A cap \in TokenBudget : used > cap => used - last <= cap

\* Once the wrap-up reply is in, neither the model nor the server is called.
NothingAfterWrapUp == wrapped # "none" => pc \in {"reply", "round", "over"}

\* A (tool, entity) that was refused, by the platform or by the write gate, is
\* not sent again, nor are the duplicate guard's reads made for it.
RefusedOnceOnly == pc \in Guarding \cup {"calling"} => denied[KeyOf(act)] = 0

\* No field of the call stands in two places, or where no gate looks.
Single(f) == f["filters"] = Unset /\ (f["top"] = Unset \/ f["data"] = Unset)
Plain(a) ==
    /\ a.tool = "create" => Single(a.deal) /\ Single(a.party) /\ Single(a.done)
    /\ a.tool = "update" => Single(a.id)

\* The rows a write may leave in place of old.
WithinScope(i, old, new) ==
    IF old.state = "absent"
    THEN new.state = "open" /\ (Policy.deals # {} => new.deal \in Policy.deals)
    ELSE i \in Policy.records

\* A write reaches the book only when the WritePolicy allows writes and fewer
\* than max were answered before.  Where no field is given twice it adds an
\* open row on an allowed deal, or changes an allowed record.
StaysInPolicy ==
    [][pc = "calling" /\ pc' # pc /\ rows' # rows =>
          /\ Policy.allows /\ writes < Policy.max
          /\ Plain(act) => \A i \in RowIds : rows'[i] # rows[i] =>
                                WithinScope(i, rows[i], rows'[i])]_vars

\* The open rows a create would duplicate: on the deal it is about to store, or
\* on the customer alone.
Duplicates(book, a) ==
    LET deal == ToWire(a.deal)
        customer == CustomerOf(deal, ToWire(a.party))
    IN {i \in RowIds :
           /\ book[i].state = "open"
           /\ \/ deal # None /\ book[i].deal = deal
              \/ book[i].deal = None /\ customer # None /\ book[i].party = customer}

\* A create that gives no field twice is only made when every open row on its
\* deal, and every one on its customer alone, came or changed after the guard's
\* first read for it, or stood beyond the ReadLimit rows of one of its reads.
NoUncheckedCreate ==
    pc = "calling" /\ act.tool = "create" /\ Plain(act) =>
        Duplicates(rows, act) \subseteq touched \cup hidden

\* Every row the run added is among its created_record_ids, unless a reply was
\* lost; and nothing else is.
RecordsItsCreates ==
    LET mine == {i \in RowIds : rows[i].by # Others}
    IN ids \subseteq mine /\ (lost = 0 => mine \subseteq ids)

\* Whatever the model replies and the gates decide, the run comes to an end.
Terminates == <>(pc = "over")

-----------------------------------------------------------------------------
(* What the documents say, where the code does otherwise.                  *)

\* architecture.md: an unusable reply on the wrap-up ends the run as
\* token_budget.
WrapUpDecidesEnding ==
    pc = "over" /\ wrapped # "none" => ended \in {"done", BudgetEnding(wrapped)}

\* run_loop's docstring: before the budget stops a run, it gets a wrap-up call.
WrapUpBeforeStop == ended = "token_budget" => wrapped = "token"

\* WritePolicy.describe: at most max_writes records are created.
AtMostMaxRecords == Cardinality({i \in RowIds : rows[i].by # Others}) <= Policy.max

\* WritePolicy.describe: everything outside the scope is blocked by the harness.
ScopeIsKept ==
    [][pc = "calling" /\ rows' # rows /\ pc' # pc =>
          \A i \in RowIds : rows'[i] # rows[i] => WithinScope(i, rows[i], rows'[i])]_vars

\* open_activity_duplicate's docstring: the guard holds whatever the model
\* checked, or did not.
GuardAlwaysHolds ==
    pc = "calling" /\ act.tool = "create" =>
        Duplicates(rows, act) \subseteq touched \cup hidden

\* The same docstring: an open Activity on the deal stops the create, wherever
\* in the book it stands.
PageIsEnough ==
    pc = "calling" /\ act.tool = "create" /\ Plain(act) =>
        Duplicates(rows, act) \subseteq touched

\* And so does an open one on the deal's customer with no deal set.
CustomerChecked ==
    pc = "calling" /\ act.tool = "create" /\ Plain(act) /\ ToWire(act.deal) # None =>
        Covering(rows, ToWire(act.deal)) \subseteq touched \cup hidden

\* The message of a refused repeat: the result is still in the history the
\* model is shown.
RepeatIsInHistory ==
    pc = "asking" => \A k \in repeated : hist - reads[k].at <= HistoryWindow

\* What the artifact holds of the ids: an error that leaves run_loop takes its
\* TaskRun with it, and main_async persists another.
Persisted == IF ended = "crashed" THEN {} ELSE ids

\* agent_contract.md, audit policy: every tool call is persisted.
CreatesArePersisted == pc = "over" => Persisted = ids
=============================================================================
