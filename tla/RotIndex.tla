------------------------------- MODULE RotIndex -------------------------------
(***************************************************************************)
(* load_activity_index and what the task concludes from it: the Activity   *)
(* rows arrive page by page in the server's order, some of them twice, and *)
(* leave behind each deal's open action, its contact dates and its touches *)
(* by others than the agent; from these follow the contact status of a     *)
(* deal and whether it is rotting.  Deals are the open ones: a closed deal *)
(* is never rotting and calibrates nothing.  Days are numbered; a row that *)
(* was reported after the fact carries its real day.                       *)
(***************************************************************************)
EXTENDS Integers, FiniteSets, FiniteSetsExt

CONSTANTS
    Deals, Parties,
    PartyOf,     \* a deal's party_id, or None
    None,
    Menu,        \* the rows the book may hold
    MaxRows,     \* bound on how many of them it holds
    MaxCopies,   \* bound on the rows that paging returns again
    Updates,     \* the updated_at the deals may have, as functions on Deals
    Opened,      \* a deal's created_at
    Today,
    Threshold,   \* deal_rot_days
    PlatformLine,\* from this many days on the platform flags a deal
    Fallback     \* ROT_BOUNDARY_FALLBACK

\* The days a due_date may name.  One that names none is text that sorts
\* before them all, 0, or after.  The platform requires one on every row.
Days == 1 .. Today + 1
Dues == 0 .. Today + 2
Row == [id : Nat, deal : Deals \cup {None}, party : Parties \cup {None},
        kind : {"call", "email", "task"}, done : BOOLEAN, cancelled : BOOLEAN,
        due : Dues, created : 1 .. Today, agent : BOOLEAN]

ASSUME RotAssumption ==
    /\ None \notin Deals \cup Parties \cup Menu /\ PartyOf \in [Deals -> Parties \cup {None}]
    /\ Today \in Nat
    /\ Menu \subseteq Row /\ IsFiniteSet(Menu)
    /\ \A r, s \in Menu : r.id = s.id => r = s
    /\ Updates \subseteq [Deals -> 1 .. Today] /\ Opened \in [Deals -> 1 .. Today]
    /\ Threshold \in Nat /\ PlatformLine \in Nat /\ Fallback \in Nat
    /\ MaxRows \in Nat /\ MaxCopies \in Nat

VARIABLES
    book,        \* the rows of the book
    updated,     \* each deal's updated_at
    scanned,     \* seen_ids, as the rows they belong to
    copies,      \* duplicate_rows
    open,        \* open_by_deal
    openParty,   \* open_by_party
    contact,     \* last_contact_by_deal; 0: none
    unlinked,    \* last_unlinked_contact_by_party; 0: none
    vague,       \* undated_ and future_contact_by_deal: the deals in them
    vagueParty,  \* undated_ and future_contact_by_party
    touch,       \* last_touch_by_deal; 0: none
    agentWrote,  \* agent_written_deals
    pile         \* how long overdue_open_by_deal is

index == <<open, openParty, contact, unlinked, vague, vagueParty, touch, agentWrote, pile>>
vars == <<book, updated, scanned, copies, index>>

Init ==
    /\ book \in {rows \in SUBSET Menu : Cardinality(rows) <= MaxRows}
    /\ updated \in Updates
    /\ scanned = {} /\ copies = 0
    /\ open = [d \in Deals |-> None] /\ openParty = [p \in Parties |-> None]
    /\ contact = [d \in Deals |-> 0] /\ unlinked = [p \in Parties |-> 0]
    /\ vague = {} /\ vagueParty = {}
    /\ touch = [d \in Deals |-> 0] /\ agentWrote = {}
    /\ pile = [d \in Deals |-> 0]

-----------------------------------------------------------------------------
(* One row.                                                                *)

\* The row's deal is another customer's: it counts for neither.
Mismatched(r) ==
    /\ r.deal # None /\ r.party # None
    /\ PartyOf[r.deal] # None /\ PartyOf[r.deal] # r.party

IsContact(r) == r.done /\ r.kind # "task" /\ ~r.cancelled
IsOpen(r) == ~r.done /\ ~r.cancelled
Dated(r) == r.due \in Days
Live(r) == r.due >= Today
Overdue(r) == Dated(r) /\ r.due < Today

\* A contact on a day that has come.
Happened(r) == IsContact(r) /\ Dated(r) /\ r.due <= Today

\* VagueContact, if text that is no date were passed over.
FutureContact(r) == IsContact(r) /\ Dated(r) /\ r.due > Today

\* A contact that happened nobody knows when.
VagueContact(r) == IsContact(r) /\ ~Happened(r)

\* PreferOpen, if the first row seen stayed.
FirstSeen(cur, new) == cur = None

\* _prefer_open: one that is still current before one that is overdue, the
\* earliest of the former and the latest of the latter.
PreferOpen(cur, new) ==
    \/ cur = None
    \/ Live(new) /\ ~Live(cur)
    \/ Live(new) /\ Live(cur) /\ new.due < cur.due
    \/ ~Live(new) /\ ~Live(cur) /\ new.due > cur.due

\* Touches, if the agent's own rows counted.
AnyTouch(r) == TRUE

\* The agent's own rows do not touch a deal.
Touches(r) == ~r.agent

OnDeal(r, d) == r.deal = d
Unlinked(r, p) == r.deal = None /\ r.party = p /\ p # None

Later(day, r) == IF day >= r.due THEN day ELSE r.due

\* load_activity_index's body for a row it has not seen and does not drop.
Add(r) ==
    /\ open' = [d \in Deals |-> IF IsOpen(r) /\ OnDeal(r, d) /\ PreferOpen(open[d], r)
                                THEN r ELSE open[d]]
    /\ openParty' =
          [p \in Parties |-> IF IsOpen(r) /\ Unlinked(r, p) /\ PreferOpen(openParty[p], r)
                             THEN r ELSE openParty[p]]
    /\ contact' = [d \in Deals |-> IF Happened(r) /\ OnDeal(r, d)
                                   THEN Later(contact[d], r) ELSE contact[d]]
    /\ unlinked' = [p \in Parties |-> IF Happened(r) /\ Unlinked(r, p)
                                      THEN Later(unlinked[p], r) ELSE unlinked[p]]
    /\ vague' = vague \cup {d \in Deals : VagueContact(r) /\ OnDeal(r, d)}
    /\ vagueParty' = vagueParty \cup {p \in Parties : VagueContact(r) /\ Unlinked(r, p)}
    /\ touch' = [d \in Deals |-> IF OnDeal(r, d) /\ Touches(r) /\ r.created > touch[d]
                                 THEN r.created ELSE touch[d]]
    /\ agentWrote' = agentWrote \cup {d \in Deals : r.agent /\ OnDeal(r, d)}
    /\ pile' = [d \in Deals |-> IF IsOpen(r) /\ OnDeal(r, d) /\ Overdue(r)
                                THEN pile[d] + 1 ELSE pile[d]]

\* seen_ids holds the row's id.
Known(r) == r \in scanned

\* The next row of a page.
Scan ==
    \E r \in book :
        /\ IF r \in scanned THEN copies < MaxCopies /\ copies' = copies + 1
                            ELSE UNCHANGED copies
        /\ scanned' = scanned \cup {r}
        /\ IF Known(r) \/ Mismatched(r) THEN UNCHANGED index ELSE Add(r)
        /\ UNCHANGED <<book, updated>>

Next == Scan

Spec == Init /\ [][Next]_vars

-----------------------------------------------------------------------------
(* What the task concludes from the index.                                 *)

\* TakesDeal, if a contact on the deal always came first.
DealFirst(d, byParty) == contact[d] > 0

\* last_contacted takes the deal's own date unless the customer's is later.
TakesDeal(d, byParty) == contact[d] > 0 /\ (byParty = 0 \/ contact[d] >= byParty)

ByParty(d) == IF PartyOf[d] = None THEN 0 ELSE unlinked[PartyOf[d]]

\* Its other answers: a contact on a day nobody can tell, and none.
Never == 0
UnknownDay == -1

LastContacted(d) ==
    IF TakesDeal(d, ByParty(d)) THEN contact[d]
    ELSE IF ByParty(d) > 0 THEN ByParty(d)
    ELSE IF d \in vague \/ PartyOf[d] \in vagueParty THEN UnknownDay ELSE Never

\* _rot_age: days since the contact, else since the deal was opened.
ContactDay(d) == IF ByParty(d) > contact[d] THEN ByParty(d) ELSE contact[d]
RotAge(d) == Today - (IF ContactDay(d) > 0 THEN ContactDay(d) ELSE Opened[d])

\* platform_mirror_days: the platform's formula without the agent's rows.
Mirror(d) == Today - Max({updated[d], touch[d]})

\* _rot_level, as the platform computes it from every row linked to the deal.
PlatformAge(d, rows) ==
    Today - Max({updated[d]} \cup {r.created : r \in {s \in rows : s.deal = d}})
PlatformFlags(d) == PlatformAge(d, book) >= PlatformLine

\* calibrate_rot_boundary looks at the deals the agent has not written to.
FreshAges == {Mirror(d) : d \in {e \in Deals \ agentWrote : ~PlatformFlags(e)}}
FlaggedAges == {Mirror(d) : d \in {e \in Deals \ agentWrote : PlatformFlags(e)}}

Measured == FreshAges # {} /\ FlaggedAges # {}

Boundary == IF Measured THEN Min({Max(FreshAges) + 1, Min(FlaggedAges)}) ELSE Fallback

\* assess_rot: the platform says so, nobody was in touch for longer than the
\* threshold, or the agent's own rows hide that the platform would say so.
Rotting(d) ==
    \/ PlatformFlags(d)
    \/ RotAge(d) > Threshold
    \/ d \in agentWrote /\ Mirror(d) >= Boundary

-----------------------------------------------------------------------------
(* Properties.                                                             *)

Counted == {r \in scanned : ~Mismatched(r)}
OpenOn(d) == {r \in Counted : IsOpen(r) /\ OnDeal(r, d)}
Done == scanned = book

\* Types of the variables.  The pile of overdue rows that is reported counts
\* each row once, however often paging returned it.
TypeOK ==
    /\ book \subseteq Menu /\ scanned \subseteq book /\ copies \in 0 .. MaxCopies
    /\ open \in [Deals -> Menu \cup {None}] /\ openParty \in [Parties -> Menu \cup {None}]
    /\ contact \in [Deals -> 0 .. Today] /\ unlinked \in [Parties -> 0 .. Today]
    /\ vague \subseteq Deals /\ vagueParty \subseteq Parties
    /\ touch \in [Deals -> 0 .. Today] /\ agentWrote \subseteq Deals
    /\ \A d \in Deals : pile[d] = Cardinality({r \in OpenOn(d) : Overdue(r)})

\* In whatever order the rows came, the open action of a deal is the earliest
\* that is still current, and an overdue one only when all are (_prefer_open).
OpenIsBest ==
    \A d \in Deals :
        IF OpenOn(d) = {} THEN open[d] = None
        ELSE /\ open[d] \in OpenOn(d)
             /\ \A r \in OpenOn(d) :
                   IF Live(open[d]) THEN Live(r) => open[d].due <= r.due
                   ELSE ~Live(r) /\ open[d].due >= r.due

\* The contact date a row shows and the one its rot is aged from are the same,
\* and it is the latest day anyone was in touch about the deal or, outside any
\* deal, with its customer (last_contacted, _rot_age).
OneContactDate ==
    \A d \in Deals :
        LET days == {r.due : r \in {s \in Counted :
                        Happened(s) /\ (OnDeal(s, d) \/ Unlinked(s, PartyOf[d]))}}
        IN IF days = {} THEN ContactDay(d) = 0 /\ LastContacted(d) \notin Days
           ELSE ContactDay(d) = Max(days) /\ LastContacted(d) = Max(days)

\* A deal that reads never_contacted was not contacted, on any day, known or
\* not (last_contacted, classify_contact).
NeverIsNever ==
    \A d \in Deals :
        LastContacted(d) = Never =>
            \A r \in Counted : IsContact(r) =>
                ~OnDeal(r, d) /\ ~Unlinked(r, PartyOf[d])

\* The deal's rows with another customer, which the platform counts and the index
\* drops.
Strays(d) == {r \in book : r.deal = d /\ Mismatched(r)}

\* A deal that the platform would flag, had the agent written nothing, is rotting
\* to the agent too, unless a deal the agent's index takes as untouched has such a
\* row and is fresh to the platform, or the platform's line could not be measured
\* and the fallback lies above it (assess_rot, calibrate_rot_boundary).
LaunderingHasCause ==
    Done => \A d \in Deals :
        PlatformAge(d, {r \in book : ~r.agent}) >= PlatformLine =>
            \/ Rotting(d)
            \/ \E e \in Deals \ agentWrote : ~PlatformFlags(e) /\ Strays(e) # {}
            \/ ~Measured /\ Fallback > PlatformLine

\* The agent's own rows never make a deal look fresh.
NoLaundering ==
    Done => \A d \in Deals :
        PlatformAge(d, {r \in book : ~r.agent}) >= PlatformLine => Rotting(d)
=============================================================================
