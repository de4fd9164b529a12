-------------------------------- MODULE Paging --------------------------------
(***************************************************************************)
(* The offset reads: load_deals, load_activity_index, load_party_roles,    *)
(* the advisory sources and the aggregate tool all ask for page after page *)
(* of one entity while teammates write to it.  The list's order is the     *)
(* server's own (the client asks for it descending, by no named field), so *)
(* a page is any PageSize of the rows beyond the offset: what matters is   *)
(* on which side of the offset a row stands.  A new row, or one that a     *)
(* write moves to the front of the list, pushes a row that stood before    *)
(* the offset to the far side of it.                                       *)
(***************************************************************************)
EXTENDS Integers, FiniteSets

CONSTANTS
    Ids,        \* the ids a row of the entity can take
    NoTotal,    \* no total was reported
    PageSize,   \* page_size
    Readers,    \* which of the reads below may be under way
    MaxEdits    \* bound on the teammates' writes

AllReaders == {"deals", "activities", "parties", "context", "aggregate"}

ASSUME PagingAssumption ==
    /\ IsFiniteSet(Ids)
    /\ NoTotal \notin Nat
    /\ PageSize \in Nat \ {0}
    /\ Readers \subseteq AllReaders
    /\ MaxEdits \in Nat

VARIABLES
    pc,         \* reading, or how the read ended
    reader,     \* whose read this is
    totals,     \* the server reports `total`
    before,     \* the rows that stand before the offset now
    ahead,      \* the rows from the offset on
    kept,       \* how many times each row is in what was read
    total,      \* the last `total` reported
    edits,      \* how many writes the teammates have made
    jumped      \* rows that came before the offset without being read there

places == <<before, ahead>>
readVars == <<pc, reader, totals, places, kept, total, edits, jumped>>

Min2(a, b) == IF a <= b THEN a ELSE b
Size == Cardinality(before) + Cardinality(ahead)

\* The offset to ask for next: how many rows the read has passed.
offset == Cardinality(before)

ReadInit ==
    /\ pc = "reading" /\ reader \in Readers /\ totals \in BOOLEAN
    /\ before = {} /\ ahead \in SUBSET Ids
    /\ kept = [i \in Ids |-> 0] /\ total = NoTotal
    /\ edits = 0 /\ jumped = {}

-----------------------------------------------------------------------------
(* The reader.                                                             *)

\* LastPage, if a missing total were taken for zero.
NoTotalIsZero(off, got) == off >= (IF totals THEN Size ELSE 0)

\* _last_page, once `got` rows have brought the offset to `off`.
LastPage(off, got) == IF totals THEN off >= Size ELSE got < PageSize

\* Passed, if the offset stayed where it is, or stopped one row short.
Nothing(page) == {}
AllButOne(page) ==
    IF Cardinality(page) < 2 THEN page
    ELSE CHOOSE part \in SUBSET page : Cardinality(part) = Cardinality(page) - 1

\* offset += len(records): the rows received, not the rows asked for.
Passed(page) == page

\* load_deals' caller keeps one row per id, the Activity index and the party
\* roles do so as they go; the advisory sources and aggregate keep every row.
Dedupes == reader \in {"deals", "activities", "parties"}

Keep(page) ==
    [i \in Ids |-> IF i \notin page THEN kept[i]
                   ELSE IF Dedupes THEN 1 ELSE kept[i] + 1]

\* list(entity, limit, offset) is answered.
ReadPage ==
    /\ pc = "reading"
    /\ \E page \in SUBSET ahead :
          /\ Cardinality(page) = Min2(PageSize, Cardinality(ahead))
          /\ kept' = Keep(page)
          /\ before' = before \cup Passed(page)
          /\ ahead' = ahead \ Passed(page)
          /\ pc' = IF page = {} \/ LastPage(Cardinality(before'), Cardinality(page))
                   THEN "done" ELSE "reading"
    /\ total' = IF totals THEN Size ELSE NoTotal
    /\ UNCHANGED <<reader, totals, edits, jumped>>

\* A page that is refused or fails takes what was read before with it.
ReadFails ==
    /\ pc = "reading"
    /\ pc' = "failed"
    /\ UNCHANGED <<reader, totals, places, kept, total, edits, jumped>>

-----------------------------------------------------------------------------
(* The teammates.  No row is ever deleted, and a write moves a row towards *)
(* the front of the list or leaves it where it is.                         *)

\* A row that is new, or stood beyond the offset, comes to stand before it.
ComesBefore(i) ==
    /\ i \notin before
    /\ \E pushed \in before :
          /\ before' = (before \ {pushed}) \cup {i}
          /\ ahead' = (ahead \ {i}) \cup {pushed}
    /\ jumped' = jumped \cup {i}

\* A new row stands beyond the offset.
ComesAfter(i) ==
    /\ i \notin before \cup ahead
    /\ ahead' = ahead \cup {i}
    /\ UNCHANGED <<before, jumped>>

Teammates ==
    /\ pc = "reading" /\ edits < MaxEdits
    /\ edits' = edits + 1
    /\ \E i \in Ids : ComesBefore(i) \/ ComesAfter(i)
    /\ UNCHANGED <<pc, reader, totals, kept, total>>

ReadNext == ReadPage \/ ReadFails \/ Teammates

ReadSpec == ReadInit /\ [][ReadNext]_readVars

\* A page that does not fail is answered: every request has a timeout.
FairReadSpec == ReadSpec /\ WF_readVars(ReadPage)

-----------------------------------------------------------------------------
(* Properties.                                                             *)

\* Types of the variables.  A row is at most once in the deals, the Activity
\* index and the party roles, however often it was received.
ReadTypeOK ==
    /\ pc \in {"reading", "done", "failed"}
    /\ reader \in Readers /\ totals \in BOOLEAN
    /\ before \subseteq Ids /\ ahead \subseteq Ids /\ before \cap ahead = {}
    /\ kept \in [Ids -> Nat]
    /\ total \in Nat \cup {NoTotal}
    /\ reader \in {"deals", "activities", "parties"} => \A i \in Ids : kept[i] <= 1
    /\ edits \in 0 .. MaxEdits /\ jumped \subseteq Ids

\* A read that ends has every row of the book, except those that a teammate
\* brought before the offset while it went on: rows pushed back and forth
\* across the offset are never lost, with or without a total (_last_page).
OnlyJumpedMissed ==
    pc = "done" => \A i \in before \cup ahead : kept[i] > 0 \/ i \in jumped

\* A row is read again only after a write: each copy too many has an edit of
\* its own, and a book nobody writes to is read exactly once (load_deals,
\* aggregate._read_all).
CopiesNeedEdits == \A i \in Ids : kept[i] <= 1 + edits

\* A read that ends misses no more rows than there were writes under it: with
\* none, and with CopiesNeedEdits, it has every row once (load_deals, _read_all).
MissesNeedEdits ==
    pc = "done" => Cardinality({i \in before \cup ahead : kept[i] = 0}) <= edits

\* The read ends, although the book grows under it.
ReadEnds == <>(pc # "reading")

\* "complete (true when every record was read)" (aggregate.DESCRIPTION), as
\* aggregate computes it: records_read, which is the offset the read came to,
\* against total_reported.  A row the read jumped and a row it read twice
\* cancel out.
CompleteIsWhole ==
    reader = "aggregate" /\ pc = "done" /\ (total = NoTotal \/ offset >= total)
        => \A i \in before \cup ahead : kept[i] > 0
=============================================================================
