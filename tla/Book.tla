-------------------------------- MODULE Book --------------------------------
(***************************************************************************)
(* The shared CRM book as the agent meets it through MCP: the deals with   *)
(* their stages, the Activity rows, and the teammates who write to the     *)
(* same book while the agent runs.  The book itself is a service outside   *)
(* the repository; what is modelled here is what the agent's calls observe *)
(* of it.  The rules that decide which Activity counts as a deal's open    *)
(* next action are the repository's own.                                   *)
(***************************************************************************)
EXTENDS Integers, FiniteSets

CONSTANTS
    Deals,        \* deal ids of this tenant
    Parties,      \* customers
    None,         \* the absent link of a row, or the absent party of a deal
    PartyOf,      \* the customer of each deal, or None
    RowIds,       \* the ids an Activity row can take
    Actionable,   \* open stages with an action template, known to the pipeline
    OtherOpen,    \* open stages outside that map
    Closed,       \* stages that start with "closed"
    ReadLimit,    \* limit=100 of the filtered Activity re-reads
    MaxEdits      \* bound on the teammates' writes

Stages == Actionable \cup OtherOpen \cup Closed

ASSUME BookAssumption ==
    /\ None \notin Deals \cup Parties \cup RowIds
    /\ PartyOf \in [Deals -> Parties \cup {None}]
    /\ IsFiniteSet(RowIds)
    /\ Closed \cap (Actionable \cup OtherOpen) = {}
    /\ Actionable \cap OtherOpen = {}
    /\ ReadLimit \in Nat \ {0}
    /\ MaxEdits \in Nat

VARIABLES
    rows,         \* the Activity row behind each id
    stage,        \* the stage each deal is in
    edits         \* how many writes the teammates have made

bookVars == <<rows, stage, edits>>

Others == 0       \* the author of a row the agent did not write

Row == [deal  : Deals \cup {None},
        party : Parties \cup {None},
        state : {"absent", "open", "done", "cancelled"},
        by    : Nat]

Absent == [deal |-> None, party |-> None, state |-> "absent", by |-> Others]

\* What determine_next_action and the loop send: linked to the deal and, from
\* the loop only, to a party; open; written by run r of the agent.
NewAction(d, p, r) == [deal |-> d, party |-> p, state |-> "open", by |-> r]

(***************************************************************************)
(* Which rows count.  `book` is a value of rows.                           *)
(***************************************************************************)

\* list(Activity, deal_id = d, done = false): a cancelled row was never done.
NotDoneOnDeal(book, d) ==
    {i \in RowIds : /\ book[i].deal = d
                    /\ book[i].state \in {"open", "cancelled"}}

\* list(Activity, party_id = p, done = false), rows of sibling deals included.
NotDoneOnParty(book, p) ==
    {i \in RowIds : /\ p # None
                    /\ book[i].party = p
                    /\ book[i].state \in {"open", "cancelled"}}

IsCancelled(book, i) == book[i].state = "cancelled"

\* One reply of a list call: every match, or ReadLimit of them.
Replies(matches) ==
    IF Cardinality(matches) <= ReadLimit
    THEN {matches}
    ELSE {page \in SUBSET matches : Cardinality(page) = ReadLimit}

\* LiveOnDeal, if a cancelled row counted.
AnyOnDeal(book, page) == page

\* LiveOnParty, before the party was re-read at all.
NoneOnParty(book, page) == {}

\* What the by-deal re-read keeps of a reply, and the by-party one.
LiveOnDeal(book, page) == {i \in page : ~IsCancelled(book, i)}
LiveOnParty(book, page) ==
    {i \in page : book[i].deal = None /\ ~IsCancelled(book, i)}

\* The open next actions of deal d: linked to it, or to its customer alone.
Covering(book, d) ==
    {i \in RowIds :
        /\ book[i].state = "open"
        /\ \/ book[i].deal = d
           \/ /\ book[i].deal = None
              /\ PartyOf[d] # None
              /\ book[i].party = PartyOf[d]}

\* A row that links a deal of one customer to another customer.
Mismatched(book, i) ==
    /\ book[i].deal # None
    /\ book[i].party # None
    /\ PartyOf[book[i].deal] \notin {None, book[i].party}

\* The deals ActivityIndex.open_activity finds an open action for.
IndexedOpen(book) ==
    {d \in Deals : \E i \in Covering(book, d) : ~Mismatched(book, i)}

(***************************************************************************)
(* The teammates.                                                          *)
(***************************************************************************)

\* A teammate adds a row or changes the links or the state of one; rows are
\* never deleted (no delete tool is served on the shared book).
TeammateWrites(i) ==
    /\ edits < MaxEdits
    /\ \E d \in Deals \cup {None}, p \in Parties \cup {None},
          s \in {"open", "done", "cancelled"} :
          /\ d # None \/ p # None
          /\ rows[i].state = "absent" => s = "open"
          /\ rows' = [rows EXCEPT ![i] = [@ EXCEPT !.deal = d, !.party = p, !.state = s]]
          /\ rows' # rows
    /\ edits' = edits + 1
    /\ UNCHANGED stage

\* A teammate moves or closes a deal.
TeammateMoves(d) ==
    /\ edits < MaxEdits
    /\ \E s \in Stages \ {stage[d]} : stage' = [stage EXCEPT ![d] = s]
    /\ edits' = edits + 1
    /\ UNCHANGED rows

BookInit ==
    /\ rows = [i \in RowIds |-> Absent]
    /\ stage \in [Deals -> Actionable \cup OtherOpen]
    /\ edits = 0

BookTypeOK ==
    /\ rows \in [RowIds -> Row]
    /\ stage \in [Deals -> Stages]
    /\ edits \in 0 .. MaxEdits
=============================================================================
