----------------------------- MODULE FixtureLedger -----------------------------
(***************************************************************************)
(* tasks/it01: the integration test seeds records on the shared book and   *)
(* keeps their ids in fixtures.json, the one thing its adversary and its   *)
(* cleanup go by.  Run C lets the adversary write while the agent pauses   *)
(* before a write.  Any command may stop between two steps: a call fails,  *)
(* a reply is lost, the operator gives up.  One command runs at a time;    *)
(* the agent of a Run C whose controller stopped goes on beside the next.  *)
(***************************************************************************)
EXTENDS Integers, Sequences, FiniteSets

CONSTANTS
    Deals, Parties,
    Contacted, \* the deals seeded with an Activity that is done
    Planned,   \* those seeded with one that is open (D8, D9b)
    Approved,  \* the deals Run C may write to, in the order it takes them
    Rivalled,  \* the deal whose customer the adversary gives an Activity (D10)
    Shut,      \* the deal it closes (D15)
    MaxStops,  \* bound on interrupted commands
    MaxRenames \* bound on the records a teammate renames

Hits == {Rivalled, Shut}

ASSUME LedgerAssumption ==
    /\ IsFiniteSet(Deals) /\ IsFiniteSet(Parties)
    /\ Contacted \subseteq Deals /\ Planned \subseteq Deals /\ Hits \subseteq Deals
    /\ Rivalled # Shut /\ Approved \in Seq(Deals) /\ MaxStops \in Nat /\ MaxRenames \in Nat

Records ==
    [kind : {"party"}, of : Parties] \cup [kind : {"deal", "agent"}, of : Deals]
    \cup [kind : {"contact"}, of : Contacted] \cup [kind : {"planned"}, of : Planned]
    \cup {[kind |-> "rival", of |-> Rivalled], [kind |-> "quote", of |-> Shut]}

DealOf(d) == [kind |-> "deal", of |-> d]
RowOf(d) == [kind |-> "agent", of |-> d]
PlanOf(d) == [kind |-> "planned", of |-> d]
Rival == [kind |-> "rival", of |-> Rivalled]
Quote == [kind |-> "quote", of |-> Shut]

\* The Activities the ledger may name.
Activities == {r \in Records : r.kind \in {"contact", "planned", "rival"}}

\* What seed creates.
Fixtures == {r \in Records : r.kind \notin {"agent", "rival"}}

VARIABLES
    crm,    \* each record: "none", "draft" (a quotation), "open", "moved", "over"
    untagged, \* the deals and agent's rows without the TAG in title or subject
    ledger, \* fixtures.json
    cmd,     \* the command under way, and where it is
    hand,   \* the record a command works on
    todo, pending, \* what a cleanup has before it, and what it could not close
    lines,  \* the deals whose pause Run C's agent has printed
    fired,  \* those the controller has answered
    agent, turn,   \* Run C's agent, and its place in Approved
    known, listed, \* the rows it knows it created, and those in its result.json
    runC    \* how Run C came out

\* History: interrupted commands; whether the last command was a cleanup that had
\* nothing left to report, and what it was told the agent wrote; the deals the
\* adversary was to close and could not.
VARIABLES stops, cleaned, swept, spared

crmVars == <<crm, untagged, ledger, stops, spared>>
cleanVars == <<todo, pending, cleaned, swept>>
runVars == <<lines, fired, agent, turn, known, listed, runC>>
ledgerVars == <<crmVars, cmd, hand, cleanVars, runVars>>

NoLedger == [state |-> "missing", ids |-> {}, manual |-> {}]
TornLedger == [state |-> "torn", ids |-> {}, manual |-> {}]

LedgerInit ==
    /\ crm = [r \in Records |-> "none"] /\ ledger = NoLedger
    /\ cmd = "idle" /\ hand = Quote /\ todo = {} /\ pending = {}
    /\ lines = {} /\ fired = {} /\ agent = "off" /\ turn = 1 /\ known = {} /\ listed = {}
    /\ runC = "none" /\ stops = 0 /\ cleaned = FALSE
    /\ untagged = {} /\ swept = {} /\ spared = {}

Sets(r, state) == crm' = [crm EXCEPT ![r] = state]

\* An Activity can always be completed.  A deal that is lost already is in order;
\* another stage, or a quotation that was not sent or is declined already, has no
\* transition to be closed with.
Closable(r) ==
    \/ r.kind \in {"contact", "planned", "rival", "agent"}
    \/ r.kind = "deal" /\ crm[r] \in {"open", "over"}
    \/ r.kind = "quote" /\ crm[r] = "open"

-----------------------------------------------------------------------------
(* seed                                                                    *)

\* Only where there is no ledger: a seed that stopped is never gone on with.  It
\* may stop in the first writing of it.
SeedStarts ==
    /\ cmd = "idle" /\ ledger.state = "missing" /\ cleaned' = FALSE
    /\ \/ ledger' = [NoLedger EXCEPT !.state = "kept"] /\ cmd' = "seed" /\ UNCHANGED stops
       \/ stops < MaxStops /\ stops' = stops + 1 /\ ledger' = TornLedger /\ UNCHANGED cmd
    /\ UNCHANGED <<crm, untagged, spared, hand, todo, pending, swept, runVars>>

Unseeded == {r \in Fixtures : crm[r] = "none"}

\* The parties, the deals each with its contact, the planned Activities, the quotation.
Stage(r) ==
    CASE r.kind = "party" -> 1 [] r.kind = "planned" -> 3 [] r.kind = "quote" -> 4 [] OTHER -> 2

\* A contact is created done, a quotation as a draft.
Seeded(r) ==
    CASE r.kind = "contact" -> "over" [] r.kind = "quote" -> "draft" [] OTHER -> "open"

SeedCreates(r) ==
    /\ cmd = "seed" /\ r \in Unseeded /\ \A q \in Unseeded : Stage(r) <= Stage(q)
    /\ r.kind = "contact" => crm[DealOf(r.of)] # "none"
    /\ Sets(r, Seeded(r))
    /\ hand' = r /\ cmd' = "record"
    /\ UNCHANGED <<untagged, ledger, stops, spared, cleanVars, runVars>>

\* Noted, if the ledger were written when all is seeded.
NotedLast(r) == IF Unseeded = {} THEN Fixtures ELSE ledger.ids

\* The ledger with the id of a record just created.
Noted(r) == ledger.ids \cup {r}

SeedRecords ==
    /\ cmd = "record"
    /\ ledger' = [ledger EXCEPT !.ids = Noted(hand)]
    /\ cmd' = IF hand = Quote THEN "send" ELSE "seed"
    /\ UNCHANGED <<crm, untagged, stops, spared, hand, cleanVars, runVars>>

SeedSends ==
    /\ cmd = "send"
    /\ Sets(Quote, "open") /\ cmd' = "idle"
    /\ UNCHANGED <<untagged, ledger, stops, spared, hand, cleanVars, runVars>>

-----------------------------------------------------------------------------
(* Run C: the controller and its adversary.                                *)

\* approve looks every deal up in the ledger.
CanApprove ==
    ledger.state = "kept" /\ \A k \in DOMAIN Approved : DealOf(Approved[k]) \in ledger.ids

\* The controller looks up both deals it will hit.
RunCStarts ==
    /\ cmd = "idle" /\ agent = "off" /\ CanApprove
    /\ \A d \in Hits : DealOf(d) \in ledger.ids
    /\ cmd' = "watch" /\ agent' = "ask" /\ cleaned' = FALSE
    /\ UNCHANGED <<crmVars, hand, todo, pending, swept, lines, fired, turn, known, listed, runC>>

\* A pause on a deal to hit: the adversary is run and waited for.
HitStarts(d) ==
    /\ cmd = "watch" /\ d \in (lines \cap Hits) \ fired
    /\ hand' = DealOf(d) /\ cmd' = "hit"
    /\ UNCHANGED <<crmVars, cleanVars, runVars>>

\* It gives the customer an Activity, or closes the deal: mark_lost answers that a
\* stage has no transition to be lost with, and nobody asks.
HitLands ==
    /\ cmd = "hit" /\ cmd' = "hitRecord"
    /\ \/ hand = DealOf(Rivalled) /\ Sets(Rival, "open") /\ UNCHANGED spared
       \/ hand # DealOf(Rivalled) /\ Closable(hand) /\ Sets(hand, "over") /\ UNCHANGED spared
       \/ /\ hand # DealOf(Rivalled) /\ ~Closable(hand)
          /\ spared' = spared \cup {hand} /\ UNCHANGED crm
    /\ UNCHANGED <<untagged, ledger, stops, hand, cleanVars, runVars>>

HitRecords ==
    /\ cmd = "hitRecord"
    /\ ledger' = [ledger EXCEPT !.ids = IF hand = DealOf(Rivalled) THEN Noted(Rival) ELSE @]
    /\ fired' = fired \cup {hand.of} /\ cmd' = "watch"
    /\ UNCHANGED <<crm, untagged, stops, spared, hand, cleanVars, lines, agent, turn, known, listed, runC>>

\* AllFired, if it were enough that the run's pauses were answered.
PausesAnswered == lines \cap Hits \subseteq fired

\* No trigger is left over.
AllFired == Hits \subseteq fired

\* The run is over and its output read to the end.
RunCEnds ==
    /\ cmd = "watch" /\ agent \in {"done", "failed"} /\ lines \cap Hits \subseteq fired
    /\ runC' = IF AllFired /\ agent = "done" THEN "ok" ELSE "raised"
    /\ cmd' = "idle"
    /\ UNCHANGED <<crmVars, hand, cleanVars, lines, fired, agent, turn, known, listed>>

-----------------------------------------------------------------------------
(* Its agent, a canonical run: CanonicalRun takes its reads apart.         *)

\* An open Activity from the seed: there before the run, so all its reads see it.
HasPlan(d) == d \in Planned /\ crm[PlanOf(d)] = "open"

\* What the re-read finds: the deal is where it was, and neither it nor, for
\* Rivalled, its customer has an open Activity.
MayWrite(d) ==
    /\ crm[DealOf(d)] = "open" /\ crm[RowOf(d)] # "open" /\ ~HasPlan(d)
    /\ ~(d = Rivalled /\ crm[Rival] = "open")

AgentNext == agent' = "ask" /\ turn' = turn + 1

\* What it read before shows nothing to do on the deal: no pause, no write.
AgentSkips ==
    /\ agent = "ask" /\ turn <= Len(Approved) /\ ~MayWrite(Approved[turn])
    /\ AgentNext
    /\ UNCHANGED <<crmVars, cmd, hand, cleanVars, lines, fired, known, listed, runC>>

AgentPauses ==
    /\ agent = "ask" /\ turn <= Len(Approved) /\ ~HasPlan(Approved[turn])
    /\ lines' = lines \cup {Approved[turn]} /\ agent' = "paused"
    /\ UNCHANGED <<crmVars, cmd, hand, cleanVars, fired, turn, known, listed, runC>>

\* The pause is over, whether or not the adversary is done.
AgentWakes ==
    /\ agent = "paused"
    /\ IF MayWrite(Approved[turn]) THEN agent' = "write" /\ UNCHANGED turn ELSE AgentNext
    /\ UNCHANGED <<crmVars, cmd, hand, cleanVars, lines, fired, known, listed, runC>>

\* The subject repeats the deal's title as the run read it, which a teammate may
\* have changed since.
Titled(d) ==
    untagged' \in {untagged} \cup IF DealOf(d) \in untagged THEN {untagged \cup {RowOf(d)}} ELSE {}

RunCWrites ==
    /\ agent = "write"
    /\ Sets(RowOf(Approved[turn]), "open") /\ Titled(Approved[turn])
    /\ known' = known \cup {RowOf(Approved[turn])} /\ AgentNext
    /\ UNCHANGED <<ledger, stops, spared, cmd, hand, cleanVars, lines, fired, listed, runC>>

\* A call raises, the create stored or not, or the run is killed: the result
\* that is written, if any, lists no created record.
AgentFails ==
    /\ agent \in {"ask", "paused", "write"} /\ agent' = "failed"
    /\ \/ UNCHANGED <<crm, untagged>>
       \/ agent = "write" /\ Sets(RowOf(Approved[turn]), "open") /\ Titled(Approved[turn])
    /\ UNCHANGED <<ledger, stops, spared, cmd, hand, cleanVars, lines, fired, turn, known, listed, runC>>

AgentEnds ==
    /\ agent = "ask" /\ turn > Len(Approved)
    /\ agent' = "done" /\ listed' = known
    /\ UNCHANGED <<crmVars, cmd, hand, cleanVars, lines, fired, turn, known, runC>>

-----------------------------------------------------------------------------
(* cleanup                                                                 *)

\* The ledger's parties have no end.
CleanupStarts ==
    /\ cmd = "idle" /\ ledger.state = "kept"
    /\ todo' = {r \in ledger.ids : r.kind # "party"} /\ pending' = {} /\ swept' = {}
    /\ cmd' = "clean" /\ cleaned' = FALSE
    /\ UNCHANGED <<crmVars, hand, runVars>>

\* agent_written_activities, once the ledger's own are closed.
CleanupSweeps ==
    /\ cmd = "clean" /\ todo \cap Activities = {}
    /\ todo' = todo \cup listed /\ swept' = listed /\ cmd' = "sweep"
    /\ UNCHANGED <<crmVars, hand, pending, cleaned, runVars>>

\* The agent's Activities, the deals, the quotation.
Rank(r) == CASE r.kind = "deal" -> 2 [] r.kind = "quote" -> 3 [] OTHER -> 1

\* Spares, if it were asked of deals too.
SparesAny(r) == r \in untagged

\* A row of the agent's without the TAG is left alone, and nothing is said of it.
Spares(r) == r.kind = "agent" /\ r \in untagged

CleanupCloses(r) ==
    /\ r \in todo /\ todo' = todo \ {r}
    /\ \/ cmd = "clean" /\ r \in Activities
       \/ cmd = "sweep" /\ \A q \in todo : Rank(r) <= Rank(q)
    /\ \/ Spares(r) /\ UNCHANGED <<crm, pending>>
       \/ ~Spares(r) /\ Closable(r) /\ Sets(r, "over") /\ UNCHANGED pending
       \/ ~Spares(r) /\ ~Closable(r) /\ pending' = pending \cup {r} /\ UNCHANGED crm
    /\ UNCHANGED <<untagged, ledger, stops, spared, cmd, hand, cleaned, swept, runVars>>

\* What is left for a person is noted in the ledger, or an earlier note removed.
CleanupEnds ==
    /\ cmd = "sweep" /\ todo = {}
    /\ ledger' = [ledger EXCEPT !.manual = pending]
    /\ cleaned' = (pending = {}) /\ pending' = {} /\ cmd' = "idle"
    /\ UNCHANGED <<crm, untagged, stops, spared, hand, todo, swept, runVars>>

-----------------------------------------------------------------------------
(* A command stops where it is; one that was writing the ledger may leave  *)
(* half of it.  A create may have been stored, which is to stop after it.  *)

WritesLedger == cmd \in {"record", "hitRecord"} \/ (cmd = "sweep" /\ todo = {})

Stops ==
    /\ cmd # "idle" /\ stops < MaxStops
    /\ stops' = stops + 1 /\ cmd' = "idle" /\ todo' = {} /\ pending' = {}
    /\ UNCHANGED ledger \/ (WritesLedger /\ ledger' = TornLedger)
    /\ UNCHANGED <<crm, untagged, spared, hand, cleaned, swept, runVars>>

\* A teammate moves a deal to a stage it cannot be lost from.
MateMoves(d) ==
    /\ crm[DealOf(d)] = "open"
    /\ Sets(DealOf(d), "moved")
    /\ UNCHANGED <<untagged, ledger, stops, spared, cmd, hand, cleanVars, runVars>>

\* Or gives a deal, or the agent's row, another title without the TAG.
MateRenames(r) ==
    /\ r.kind \in {"deal", "agent"} /\ crm[r] # "none" /\ Cardinality(untagged) < MaxRenames
    /\ untagged' = untagged \cup {r}
    /\ UNCHANGED <<crm, ledger, stops, spared, cmd, hand, cleanVars, runVars>>

Seed == SeedStarts \/ (\E r \in Records : SeedCreates(r)) \/ SeedRecords \/ SeedSends
Controller == RunCStarts \/ (\E d \in Deals : HitStarts(d)) \/ HitLands \/ HitRecords \/ RunCEnds
Agent == AgentSkips \/ AgentPauses \/ AgentWakes \/ RunCWrites \/ AgentFails \/ AgentEnds
Cleanup ==
    CleanupStarts \/ CleanupSweeps \/ (\E r \in Records : CleanupCloses(r)) \/ CleanupEnds
Mate == (\E d \in Deals : MateMoves(d)) \/ (\E r \in Records : MateRenames(r))

LedgerNext == Seed \/ Controller \/ Agent \/ Cleanup \/ Stops \/ Mate

LedgerSpec == LedgerInit /\ [][LedgerNext]_ledgerVars

-----------------------------------------------------------------------------
(* Properties.                                                             *)

States == {"none", "draft", "open", "moved", "over"}

LedgerTypeOK ==
    /\ crm \in [Records -> States]
    /\ ledger \in [state : {"missing", "torn", "kept"},
                   ids : SUBSET Records, manual : SUBSET Records]
    /\ cmd \in {"idle", "seed", "record", "send", "watch", "hit", "hitRecord", "clean", "sweep"}
    /\ untagged \subseteq Records /\ swept \subseteq listed /\ spared \subseteq Records
    /\ hand \in Records /\ todo \subseteq Records /\ pending \subseteq Records
    /\ lines \subseteq Deals /\ fired \subseteq Hits
    /\ agent \in {"off", "ask", "paused", "write", "done", "failed"}
    /\ turn \in 1 .. Len(Approved) + 1 /\ known \subseteq Records /\ listed \subseteq known
    /\ runC \in {"none", "ok", "raised"} /\ stops \in 0 .. MaxStops /\ cleaned \in BOOLEAN

Made == {r \in Records : r.kind # "agent" /\ crm[r] # "none"}

\* A ledger that can be read misses at most one record for each command that
\* was interrupted, besides the one in hand.
OrphansAreStops ==
    ledger.state = "kept" =>
        Cardinality(Made \ ledger.ids)
            <= stops + (IF cmd \in {"record", "hitRecord"} THEN 1 ELSE 0)

\* After a cleanup that reports nothing, every record the ledger names except the
\* parties, and every row it was told the agent wrote except those that lost the
\* TAG, is over, however often earlier cleanups stopped half way.
CleanupIsWhole ==
    cleaned =>
        /\ \A r \in ledger.ids : r.kind # "party" => crm[r] = "over"
        /\ \A r \in swept : crm[r] = "over" \/ r \in untagged

\* A Run C that came out well was hit both times: cleanup knows of the rival, and
\* the deal was closed, or was at a stage that mark_lost said it cannot close.
RunCWasHit ==
    runC = "ok" /\ ledger.state = "kept" =>
        Rival \in ledger.ids /\ (crm[DealOf(Shut)] = "over" \/ DealOf(Shut) \in spared)

\* A Run C that came out well had its deal closed under it.
HitsHold == runC = "ok" => crm[DealOf(Shut)] = "over"

\* A cleanup that reports nothing leaves nothing that can be closed open.
NothingLeft == cleaned => \A r \in ledger.ids \cup swept : r.kind # "party" => crm[r] = "over"

\* Persist after every create: a failed seed is still cleanable.
SeedIsCleanable == cleaned => \A r \in Made : crm[r] = "over"

\* agent_written_activities: every row the agent created is closed.
AgentRowsAreClosed == cleaned => \A d \in Deals : crm[RowOf(d)] \in {"none", "over"}

\* A concurrent adversary's close is the desired state, not a manual cleanup.
ManualIsOpen == cmd = "idle" => \A r \in ledger.manual : crm[r] # "over"

\* Run C's hit comes before the write it is to stop.
HitComesFirst == runC = "ok" => \A d \in Hits : crm[RowOf(d)] = "none"
=============================================================================
