------------------------------ MODULE ReadProofs ------------------------------
(***************************************************************************)
(* Proofs about how the book is read: page by page (Paging), for every     *)
(* page size, every book and every number of writes; and into the index    *)
(* (RotIndex), for every set of rows and every order in which paging may   *)
(* bring them.  The two systems share no variable.                         *)
(***************************************************************************)
EXTENDS Paging, RotIndex, FiniteSetTheorems, WellFoundedInduction, TLAPS

-----------------------------------------------------------------------------
(* Paging.  The rows that stand before the offset were read or jumped      *)
(* (SideInv), and a read that is done has nothing beyond it (DoneInv).     *)

\* Before the offset a row was read or jumped, and has at most one copy more
\* than there were writes; beyond it, no more copies than writes.
SideInv ==
    /\ \A i \in before : kept[i] > 0 \/ i \in jumped
    /\ \A i \in Ids : kept[i] <= (IF i \in before THEN 1 + edits ELSE edits)

DoneInv == pc = "done" => ahead = {}

PagingInv == ReadTypeOK /\ SideInv /\ DoneInv

-----------------------------------------------------------------------------

\* A page that is not full, or that brings the offset to the reported total,
\* is all that was left.
LEMMA LastPageIsLast ==
  ASSUME ReadTypeOK, NEW page \in SUBSET ahead,
         Cardinality(page) = Min2(PageSize, Cardinality(ahead)),
         page = {} \/ LastPage(Cardinality(before \cup page), Cardinality(page))
  PROVE  page = ahead
<1>1. IsFiniteSet(before) /\ IsFiniteSet(ahead) /\ IsFiniteSet(page)
  BY FS_Subset, PagingAssumption DEF ReadTypeOK
<1>2. /\ Cardinality(before) \in Nat /\ Cardinality(ahead) \in Nat /\ Cardinality(page) \in Nat
      /\ Cardinality(before \cup page) = Cardinality(before) + Cardinality(page)
  <2>1. before \cap page = {}
    BY DEF ReadTypeOK
  <2>2. Cardinality({}) = 0
    BY FS_EmptySet
  <2>3. Cardinality(before \cup page)
           = Cardinality(before) + Cardinality(page) - Cardinality(before \cap page)
    BY <1>1, FS_Union
  <2>4. Cardinality(before) \in Nat /\ Cardinality(ahead) \in Nat /\ Cardinality(page) \in Nat
    BY <1>1, FS_CardinalityType
  <2> QED
    BY <2>1, <2>2, <2>3, <2>4
<1>3. Cardinality(page) = Cardinality(ahead)
  <2>1. CASE page = {}
    <3>1. Cardinality(page) = 0
      BY <2>1, FS_EmptySet
    <3> QED
      BY <1>2, <3>1, PagingAssumption DEF Min2
  <2>2. CASE LastPage(Cardinality(before \cup page), Cardinality(page))
    BY <1>2, <2>2, PagingAssumption DEF LastPage, Size, Min2
  <2> QED
    BY <2>1, <2>2
<1> QED
  BY <1>1, <1>3, FS_Subset

LEMMA PagingStarts == ReadInit => PagingInv
BY PagingAssumption DEF ReadInit, PagingInv, ReadTypeOK, SideInv, DoneInv

LEMMA ReadPageKeeps ==
  ASSUME PagingInv, ReadPage PROVE PagingInv'
<1>1. PICK page \in SUBSET ahead :
        /\ Cardinality(page) = Min2(PageSize, Cardinality(ahead))
        /\ kept' = Keep(page)
        /\ before' = before \cup page
        /\ ahead' = ahead \ page
        /\ pc' = IF page = {} \/ LastPage(Cardinality(before'), Cardinality(page))
                 THEN "done" ELSE "reading"
  BY DEF ReadPage, Passed
<1>2. UNCHANGED <<reader, totals, edits, jumped>>
  BY DEF ReadPage
<1>3. kept' \in [Ids -> Nat] /\ (Dedupes => \A i \in Ids : kept'[i] <= 1)
  BY <1>1 DEF Keep, PagingInv, ReadTypeOK, Dedupes
<1>4. total' \in Nat \cup {NoTotal}
  <2>1. IsFiniteSet(before) /\ IsFiniteSet(ahead)
    BY FS_Subset, PagingAssumption DEF PagingInv, ReadTypeOK
  <2>2. Cardinality(before) \in Nat /\ Cardinality(ahead) \in Nat
    BY <2>1, FS_CardinalityType
  <2> QED
    BY <2>2 DEF ReadPage, Size
<1>5. ReadTypeOK'
  BY <1>1, <1>2, <1>3, <1>4 DEF PagingInv, ReadTypeOK, Dedupes
<1>6. SideInv'
  <2>1. ASSUME NEW i \in before' PROVE kept'[i] > 0 \/ i \in jumped'
    BY <1>1, <1>2, <2>1 DEF PagingInv, ReadTypeOK, SideInv, Keep
  <2>2. ASSUME NEW i \in Ids
        PROVE kept'[i] <= (IF i \in before' THEN 1 + edits' ELSE edits')
    BY <1>1, <1>2 DEF PagingInv, ReadTypeOK, SideInv, Keep
  <2> QED
    BY <2>1, <2>2 DEF SideInv
<1>7. DoneInv'
  BY <1>1, LastPageIsLast DEF PagingInv, DoneInv
<1> QED
  BY <1>5, <1>6, <1>7 DEF PagingInv

LEMMA TeammatesKeep ==
  ASSUME PagingInv, Teammates PROVE PagingInv'
<1>1. PICK i \in Ids : ComesBefore(i) \/ ComesAfter(i)
  BY DEF Teammates
<1>2. edits' = edits + 1 /\ edits' \in 0 .. MaxEdits /\ pc = "reading"
  BY PagingAssumption DEF Teammates, PagingInv, ReadTypeOK
<1>3. UNCHANGED <<pc, reader, totals, kept, total>>
  BY DEF Teammates
<1>4. CASE ComesBefore(i)
  <2>1. PICK pushed \in before : /\ before' = (before \ {pushed}) \cup {i}
                                 /\ ahead' = (ahead \ {i}) \cup {pushed}
    BY <1>4 DEF ComesBefore
  <2>2. i \notin before /\ jumped' = jumped \cup {i}
    BY <1>4 DEF ComesBefore
  <2>3. ReadTypeOK'
    BY <1>2, <1>3, <2>1, <2>2 DEF PagingInv, ReadTypeOK
  <2>4. SideInv'
    BY <1>2, <1>3, <2>1, <2>2 DEF PagingInv, ReadTypeOK, SideInv
  <2> QED
    BY <1>2, <1>3, <2>3, <2>4 DEF PagingInv, DoneInv
<1>5. CASE ComesAfter(i)
  <2>1. ReadTypeOK'
    BY <1>2, <1>3, <1>5 DEF ComesAfter, PagingInv, ReadTypeOK
  <2>2. SideInv'
    BY <1>2, <1>3, <1>5 DEF ComesAfter, PagingInv, ReadTypeOK, SideInv
  <2> QED
    BY <1>2, <1>3, <2>1, <2>2 DEF PagingInv, DoneInv
<1> QED
  BY <1>1, <1>4, <1>5

LEMMA PagingStepKeeps == PagingInv /\ [ReadNext]_readVars => PagingInv'
<1> SUFFICES ASSUME PagingInv, [ReadNext]_readVars PROVE PagingInv'
  OBVIOUS
<1>1. CASE ReadFails
  BY <1>1 DEF ReadFails, places, PagingInv, ReadTypeOK, SideInv, DoneInv
<1>2. CASE UNCHANGED readVars
  BY <1>2 DEF readVars, places, PagingInv, ReadTypeOK, SideInv, DoneInv
<1> QED
  BY <1>1, <1>2, ReadPageKeeps, TeammatesKeep DEF ReadNext

LEMMA PagingInvHolds == ReadSpec => []PagingInv
BY PagingStarts, PagingStepKeeps, PTL DEF ReadSpec

-----------------------------------------------------------------------------

\* Types hold, and what a deduplicating read keeps holds each row once
\* (load_deals' caller, load_activity_index, load_party_roles).
THEOREM PagingTypeCorrect == ReadSpec => []ReadTypeOK
<1>1. PagingInv => ReadTypeOK
  BY DEF PagingInv
<1> QED
  BY <1>1, PagingInvHolds, PTL

\* A read that ends misses only the rows a write brought before the offset,
\* with or without a reported total (_last_page).
THEOREM NothingElseMissed == ReadSpec => []OnlyJumpedMissed
<1>1. PagingInv => OnlyJumpedMissed
  BY DEF PagingInv, SideInv, DoneInv, OnlyJumpedMissed
<1> QED
  BY <1>1, PagingInvHolds, PTL

\* A row is in a read once, and once more for each write (_read_all).
THEOREM CopiesAreBounded == ReadSpec => []CopiesNeedEdits
<1>1. PagingInv => CopiesNeedEdits
  BY DEF PagingInv, ReadTypeOK, SideInv, CopiesNeedEdits
<1> QED
  BY <1>1, PagingInvHolds, PTL

\* Each write brings one row before the offset at most.
JumpInv == Cardinality(jumped) <= edits

LEMMA JumpStepKeeps == ReadTypeOK /\ JumpInv /\ [ReadNext]_readVars => JumpInv'
<1> SUFFICES ASSUME ReadTypeOK, JumpInv, [ReadNext]_readVars PROVE JumpInv'
  OBVIOUS
<1>1. CASE UNCHANGED <<jumped, edits>>
  BY <1>1 DEF JumpInv
<1>2. CASE Teammates
  <2>1. PICK i \in Ids : jumped' = jumped \/ jumped' = jumped \cup {i}
    BY <1>2 DEF Teammates, ComesBefore, ComesAfter
  <2>2. edits' = edits + 1 /\ edits \in Nat
    BY <1>2, PagingAssumption DEF Teammates, ReadTypeOK
  <2>3. IsFiniteSet(jumped)
    BY FS_Subset, PagingAssumption DEF ReadTypeOK
  <2>4. Cardinality(jumped) \in Nat
    BY <2>3, FS_CardinalityType
  <2>5. Cardinality(jumped \cup {i}) <= Cardinality(jumped) + 1
    BY <2>3, <2>4, FS_AddElement
  <2>6. CASE jumped' = jumped
    BY <2>2, <2>4, <2>6 DEF JumpInv
  <2>7. CASE jumped' = jumped \cup {i}
    <3>1. Cardinality(jumped') <= Cardinality(jumped) + 1
      BY <2>5, <2>7
    <3>2. Cardinality(jumped') \in Nat
      <4>1. IsFiniteSet(jumped')
        BY <2>3, <2>7, FS_AddElement
      <4> QED
        BY <4>1, FS_CardinalityType
    <3> QED
      BY <2>2, <2>4, <3>1, <3>2 DEF JumpInv
  <2> QED
    BY <2>1, <2>6, <2>7
<1> QED
  BY <1>1, <1>2 DEF ReadNext, ReadPage, ReadFails, readVars

\* A read that ends misses no more rows than there were writes under it, for
\* every page size, with or without a reported total (load_deals, _read_all).
THEOREM MissesAreBounded == ReadSpec => []MissesNeedEdits
<1>1. ReadInit => JumpInv
  <2>1. Cardinality({}) = 0
    BY FS_EmptySet
  <2> QED
    BY <2>1 DEF ReadInit, JumpInv
<1>2. PagingInv /\ JumpInv => MissesNeedEdits
  <2> SUFFICES ASSUME PagingInv, JumpInv, pc = "done"
               PROVE Cardinality({i \in before \cup ahead : kept[i] = 0}) <= edits
    BY DEF MissesNeedEdits
  <2> DEFINE missed == {i \in before \cup ahead : kept[i] = 0}
  <2>1. missed \subseteq jumped
    BY DEF PagingInv, SideInv, DoneInv
  <2>2. IsFiniteSet(jumped)
    BY FS_Subset, PagingAssumption DEF PagingInv, ReadTypeOK
  <2>3. /\ Cardinality(missed) <= Cardinality(jumped)
        /\ Cardinality(missed) \in Nat /\ Cardinality(jumped) \in Nat
    <3>1. IsFiniteSet(missed) /\ Cardinality(missed) <= Cardinality(jumped)
      BY <2>1, <2>2, FS_Subset
    <3> QED
      BY <2>2, <3>1, FS_CardinalityType
  <2>4. edits \in Nat
    BY PagingAssumption DEF PagingInv, ReadTypeOK
  <2> QED
    BY <2>3, <2>4 DEF JumpInv
<1>3. PagingInv => ReadTypeOK
  BY DEF PagingInv
<1>4. ReadSpec => []JumpInv
  BY <1>1, <1>3, JumpStepKeeps, PagingInvHolds, PTL DEF ReadSpec
<1> QED
  BY <1>2, <1>4, PagingInvHolds, PTL

-----------------------------------------------------------------------------
(* RotIndex.  The tables of the index are functions of the rows counted so *)
(* far (IndexInv); each property follows from that.                        *)

\* day is the latest day of those rows, 0 if there is none.
Latest(day, rows) ==
    /\ day = 0 \/ \E r \in rows : r.due = day
    /\ \A r \in rows : r.due <= day

ContactsOn(d) == {r \in Counted : Happened(r) /\ OnDeal(r, d)}
ContactsWith(p) == {r \in Counted : Happened(r) /\ Unlinked(r, p)}
TouchesOn(d) == {r \in Counted : Touches(r) /\ OnDeal(r, d)}
OverdueOn(d) == {r \in OpenOn(d) : Overdue(r)}

\* What the tables say of the rows counted so far.
Sets ==
    /\ book \subseteq Menu /\ scanned \subseteq book /\ copies \in 0 .. MaxCopies
    /\ updated \in Updates
Tables ==
    /\ open \in [Deals -> Menu \cup {None}] /\ openParty \in [Parties -> Menu \cup {None}]
    /\ contact \in [Deals -> 0 .. Today] /\ unlinked \in [Parties -> 0 .. Today]
    /\ touch \in [Deals -> 0 .. Today]
    /\ pile \in [Deals -> Nat] /\ \A d \in Deals : pile[d] = Cardinality(OverdueOn(d))
ContactInv ==
    /\ \A d \in Deals : Latest(contact[d], ContactsOn(d))
    /\ \A p \in Parties : Latest(unlinked[p], ContactsWith(p))
VagueInv ==
    /\ vague = {d \in Deals : \E r \in Counted : VagueContact(r) /\ OnDeal(r, d)}
    /\ vagueParty = {p \in Parties : \E r \in Counted : VagueContact(r) /\ Unlinked(r, p)}
TouchInv ==
    /\ \A d \in Deals : /\ touch[d] = 0 \/ \E r \in TouchesOn(d) : r.created = touch[d]
                        /\ \A r \in TouchesOn(d) : r.created <= touch[d]
    /\ agentWrote = {d \in Deals : \E r \in Counted : r.agent /\ OnDeal(r, d)}
IndexInv == Sets /\ Tables /\ OpenIsBest /\ ContactInv /\ VagueInv /\ TouchInv

-----------------------------------------------------------------------------
(* One row more.                                                           *)

LEMMA RowFields ==
  ASSUME NEW r \in Menu
  PROVE  /\ r.due \in 0 .. Today + 2 /\ r.created \in 1 .. Today
         /\ r.deal \in Deals \cup {None} /\ r.party \in Parties \cup {None}
         /\ r.done \in BOOLEAN /\ r.cancelled \in BOOLEAN /\ r.agent \in BOOLEAN
         /\ r # None
  BY RotAssumption DEF Row, Dues

LEMMA ScanAddsOrKeeps ==
  ASSUME Sets, Scan
  PROVE  /\ UNCHANGED <<book, updated>> /\ Sets'
         /\ \/ UNCHANGED index /\ Counted' = Counted
            \/ \E r \in Menu : Add(r) /\ r \notin Counted /\ Counted' = Counted \cup {r}
<1>1. PICK r \in book :
        /\ IF r \in scanned THEN copies < MaxCopies /\ copies' = copies + 1
                            ELSE UNCHANGED copies
        /\ scanned' = scanned \cup {r}
        /\ IF Known(r) \/ Mismatched(r) THEN UNCHANGED index ELSE Add(r)
        /\ UNCHANGED <<book, updated>>
  BY DEF Scan
<1>2. Sets'
  BY <1>1, RotAssumption DEF Sets
<1>3. r \in Menu
  BY <1>1 DEF Sets
<1>4. CASE Known(r) \/ Mismatched(r)
  <2>1. Counted' = Counted
    BY <1>1, <1>4 DEF Counted, Known
  <2> QED
    BY <1>1, <1>2, <1>4, <2>1
<1>5. CASE ~(Known(r) \/ Mismatched(r))
  <2>1. Counted' = Counted \cup {r} /\ r \notin Counted
    BY <1>1, <1>5 DEF Counted, Known
  <2> QED
    BY <1>1, <1>2, <1>3, <1>5, <2>1
<1> QED
  BY <1>4, <1>5

LEMMA AddKeepsOpenIsBest ==
  ASSUME NEW r \in Menu, Add(r), Counted' = Counted \cup {r}, Counted \subseteq Menu,
         Tables, OpenIsBest
  PROVE  OpenIsBest'
<1> SUFFICES ASSUME NEW d \in Deals
             PROVE IF OpenOn(d)' = {} THEN open'[d] = None
                   ELSE /\ open'[d] \in OpenOn(d)'
                        /\ \A s \in OpenOn(d)' :
                              IF Live(open'[d]) THEN Live(s) => open'[d].due <= s.due
                              ELSE ~Live(s) /\ open'[d].due >= s.due
  BY DEF OpenIsBest, Live
<1>1. open'[d] = IF IsOpen(r) /\ OnDeal(r, d) /\ PreferOpen(open[d], r) THEN r ELSE open[d]
  BY DEF Add
<1>2. OpenOn(d)' = IF IsOpen(r) /\ OnDeal(r, d) THEN OpenOn(d) \cup {r} ELSE OpenOn(d)
  BY DEF OpenOn, IsOpen, OnDeal
<1>3. \A s \in OpenOn(d) \cup {r} : s # None /\ s.due \in Int
  BY RowFields DEF OpenOn
<1>4. CASE ~(IsOpen(r) /\ OnDeal(r, d))
  BY <1>1, <1>2, <1>4 DEF OpenIsBest
<1>5. CASE IsOpen(r) /\ OnDeal(r, d) /\ OpenOn(d) = {}
  <2>1. open'[d] = r /\ OpenOn(d)' = {r}
    BY <1>1, <1>2, <1>5 DEF OpenIsBest, PreferOpen
  <2> QED
    BY <2>1, <1>3
<1>6. CASE IsOpen(r) /\ OnDeal(r, d) /\ OpenOn(d) # {}
  <2>1. /\ open[d] \in OpenOn(d) /\ open[d] # None
        /\ \A s \in OpenOn(d) :
              IF Live(open[d]) THEN Live(s) => open[d].due <= s.due
              ELSE ~Live(s) /\ open[d].due >= s.due
    BY <1>3, <1>6 DEF OpenIsBest
  <2>2. CASE PreferOpen(open[d], r)
    BY <1>1, <1>2, <1>3, <1>6, <2>1, <2>2, RotAssumption DEF PreferOpen, Live
  <2>3. CASE ~PreferOpen(open[d], r)
    BY <1>1, <1>2, <1>3, <1>6, <2>1, <2>3, RotAssumption DEF PreferOpen, Live
  <2> QED
    BY <2>2, <2>3
<1> QED
  BY <1>4, <1>5, <1>6

LEMMA AddKeepsContacts ==
  ASSUME NEW r \in Menu, Add(r), Counted' = Counted \cup {r}, Counted \subseteq Menu,
         Tables, ContactInv
  PROVE  /\ ContactInv'
         /\ contact' \in [Deals -> 0 .. Today] /\ unlinked' \in [Parties -> 0 .. Today]
<1>1. \A s \in Counted \cup {r} : s.due \in Int
  BY RowFields
<1>2. Happened(r) => r.due \in 1 .. Today
  BY RotAssumption, RowFields DEF Happened, Dated, Days
<1>3. ASSUME NEW d \in Deals
      PROVE Latest(contact'[d], ContactsOn(d)') /\ contact'[d] \in 0 .. Today
  <2>1. contact'[d] = IF Happened(r) /\ OnDeal(r, d) THEN Later(contact[d], r) ELSE contact[d]
    BY DEF Add
  <2>2. ContactsOn(d)' = IF Happened(r) /\ OnDeal(r, d) THEN ContactsOn(d) \cup {r} ELSE ContactsOn(d)
    BY DEF ContactsOn, Happened, IsContact, Dated, OnDeal
  <2>3. contact[d] \in 0 .. Today /\ Latest(contact[d], ContactsOn(d))
    BY DEF Tables, ContactInv
  <2>4. ContactsOn(d) \subseteq Counted
    BY DEF ContactsOn
  <2> QED
    BY <1>1, <1>2, <2>1, <2>2, <2>3, <2>4, RotAssumption DEF Latest, Later
<1>4. ASSUME NEW p \in Parties
      PROVE Latest(unlinked'[p], ContactsWith(p)') /\ unlinked'[p] \in 0 .. Today
  <2>1. unlinked'[p] = IF Happened(r) /\ Unlinked(r, p) THEN Later(unlinked[p], r) ELSE unlinked[p]
    BY DEF Add
  <2>2. ContactsWith(p)' = IF Happened(r) /\ Unlinked(r, p)
                           THEN ContactsWith(p) \cup {r} ELSE ContactsWith(p)
    BY DEF ContactsWith, Happened, IsContact, Dated, Unlinked
  <2>3. unlinked[p] \in 0 .. Today /\ Latest(unlinked[p], ContactsWith(p))
    BY DEF Tables, ContactInv
  <2>4. ContactsWith(p) \subseteq Counted
    BY DEF ContactsWith
  <2> QED
    BY <1>1, <1>2, <2>1, <2>2, <2>3, <2>4, RotAssumption DEF Latest, Later
<1> QED
  BY <1>3, <1>4 DEF ContactInv, Add

LEMMA AddKeepsVague ==
  ASSUME NEW r \in Menu, Add(r), Counted' = Counted \cup {r}, VagueInv
  PROVE  VagueInv'
<1>1. vague' = {d \in Deals : \E s \in Counted' : VagueContact(s) /\ OnDeal(s, d)}
  BY DEF Add, VagueInv
<1>2. vagueParty' = {p \in Parties : \E s \in Counted' : VagueContact(s) /\ Unlinked(s, p)}
  BY DEF Add, VagueInv
<1> QED
  BY <1>1, <1>2 DEF VagueInv, VagueContact, OnDeal, Unlinked, IsContact, Happened, Dated

LEMMA AddKeepsTouches ==
  ASSUME NEW r \in Menu, Add(r), Counted' = Counted \cup {r}, Counted \subseteq Menu,
         Tables, TouchInv
  PROVE  TouchInv' /\ touch' \in [Deals -> 0 .. Today]
<1>1. \A s \in Counted \cup {r} : s.created \in 1 .. Today
  BY RowFields
<1>2. ASSUME NEW d \in Deals
      PROVE /\ touch'[d] = 0 \/ \E s \in TouchesOn(d)' : s.created = touch'[d]
            /\ \A s \in TouchesOn(d)' : s.created <= touch'[d]
            /\ touch'[d] \in 0 .. Today
  <2>1. touch'[d] = IF OnDeal(r, d) /\ Touches(r) /\ r.created > touch[d]
                    THEN r.created ELSE touch[d]
    BY DEF Add
  <2>2. TouchesOn(d)' = IF OnDeal(r, d) /\ Touches(r) THEN TouchesOn(d) \cup {r} ELSE TouchesOn(d)
    BY DEF TouchesOn, OnDeal, Touches
  <2>3. /\ touch[d] \in 0 .. Today
        /\ touch[d] = 0 \/ \E s \in TouchesOn(d) : s.created = touch[d]
        /\ \A s \in TouchesOn(d) : s.created <= touch[d]
    BY DEF Tables, TouchInv
  <2>4. TouchesOn(d) \subseteq Counted
    BY DEF TouchesOn
  <2> QED
    BY <1>1, <2>1, <2>2, <2>3, <2>4, RotAssumption
<1>3. agentWrote' = {d \in Deals : \E s \in Counted' : s.agent /\ OnDeal(s, d)}
  BY DEF Add, TouchInv
<1> QED
  BY <1>2, <1>3 DEF TouchInv, Add, OnDeal

LEMMA AddKeepsPile ==
  ASSUME NEW r \in Menu, Add(r), r \notin Counted, Counted' = Counted \cup {r},
         Counted \subseteq Menu, Tables
  PROVE  pile' \in [Deals -> Nat] /\ \A d \in Deals : pile'[d] = Cardinality(OverdueOn(d)')
<1>1. ASSUME NEW d \in Deals PROVE pile'[d] \in Nat /\ pile'[d] = Cardinality(OverdueOn(d)')
  <2>1. pile'[d] = IF IsOpen(r) /\ OnDeal(r, d) /\ Overdue(r) THEN pile[d] + 1 ELSE pile[d]
    BY DEF Add
  <2>2. OverdueOn(d)' = IF IsOpen(r) /\ OnDeal(r, d) /\ Overdue(r)
                        THEN OverdueOn(d) \cup {r} ELSE OverdueOn(d)
    BY DEF OverdueOn, OpenOn, IsOpen, OnDeal, Overdue, Dated
  <2>3. IsFiniteSet(OverdueOn(d)) /\ r \notin OverdueOn(d)
    BY FS_Subset, RotAssumption DEF OverdueOn, OpenOn
  <2>4. Cardinality(OverdueOn(d) \cup {r}) = Cardinality(OverdueOn(d)) + 1
    BY <2>3, FS_AddElement
  <2>5. pile[d] \in Nat /\ pile[d] = Cardinality(OverdueOn(d))
    BY DEF Tables
  <2> QED
    BY <2>1, <2>2, <2>4, <2>5
<1> QED
  BY <1>1 DEF Add

\* A row that was not counted before keeps the invariant.
LEMMA AddKeepsIndex ==
  ASSUME NEW r \in Menu, Add(r), r \notin Counted, Counted' = Counted \cup {r}, Sets', IndexInv
  PROVE  IndexInv'
<1>1. Counted \subseteq Menu
  BY DEF IndexInv, Sets, Counted
<1>2. OpenIsBest' /\ ContactInv' /\ VagueInv' /\ TouchInv'
  BY <1>1, AddKeepsOpenIsBest, AddKeepsContacts, AddKeepsVague, AddKeepsTouches DEF IndexInv
<1>3. open' \in [Deals -> Menu \cup {None}] /\ openParty' \in [Parties -> Menu \cup {None}]
  BY DEF Add, IndexInv, Tables
<1>4. Tables'
  BY <1>1, <1>3, AddKeepsContacts, AddKeepsTouches, AddKeepsPile DEF IndexInv, Tables
<1> QED
  BY <1>2, <1>4 DEF IndexInv

LEMMA StartsEmpty == Init => IndexInv
<1> SUFFICES ASSUME Init PROVE IndexInv
  OBVIOUS
<1>1. Counted = {}
  BY DEF Init, Counted
<1>2. \A d \in Deals : /\ OpenOn(d) = {} /\ OverdueOn(d) = {}
                       /\ ContactsOn(d) = {} /\ TouchesOn(d) = {}
  BY <1>1 DEF OpenOn, OverdueOn, ContactsOn, TouchesOn
<1>3. \A p \in Parties : ContactsWith(p) = {}
  BY <1>1 DEF ContactsWith
<1>4. Sets
  BY RotAssumption DEF Init, Sets
<1>5. Tables
  <2>1. 0 \in 0 .. Today /\ Cardinality({}) = 0
    BY FS_EmptySet, RotAssumption
  <2> QED
    BY <1>2, <2>1 DEF Init, Tables
<1>6. ContactInv
  BY <1>2, <1>3 DEF Init, ContactInv, Latest
<1>7. VagueInv
  BY <1>1 DEF Init, VagueInv
<1>8. TouchInv
  BY <1>1, <1>2 DEF Init, TouchInv
<1> QED
  BY <1>2, <1>4, <1>5, <1>6, <1>7, <1>8 DEF IndexInv, OpenIsBest, Init

LEMMA StepKeepsIndex == IndexInv /\ [Next]_vars => IndexInv'
<1> SUFFICES ASSUME IndexInv, [Next]_vars PROVE IndexInv'
  OBVIOUS
<1>1. ASSUME UNCHANGED index, Counted' = Counted, Sets' PROVE IndexInv'
  <2> USE <1>1 DEF index
  <2>1. OpenIsBest'
    BY DEF IndexInv, OpenIsBest, OpenOn, IsOpen, OnDeal, Live
  <2>2. Tables'
    BY DEF IndexInv, Tables, OverdueOn, OpenOn, IsOpen, OnDeal, Overdue, Dated
  <2>3. ContactInv'
    BY DEF IndexInv, ContactInv, Latest, ContactsOn, ContactsWith, Happened, IsContact, Dated,
           OnDeal, Unlinked
  <2>4. VagueInv'
    BY DEF IndexInv, VagueInv
  <2>5. TouchInv'
    BY DEF IndexInv, TouchInv, TouchesOn, Touches, OnDeal
  <2> QED
    BY <2>1, <2>2, <2>3, <2>4, <2>5 DEF IndexInv
<1>2. CASE Scan
  BY <1>1, <1>2, ScanAddsOrKeeps, AddKeepsIndex DEF IndexInv
<1>3. CASE UNCHANGED vars
  BY <1>1, <1>3 DEF vars, Sets, IndexInv, Counted
<1> QED
  BY <1>2, <1>3 DEF Next

\* After every page the tables are what the rows counted so far make of them,
\* whatever their order (load_activity_index).
THEOREM IndexFollowsRows == Spec => []IndexInv
BY StartsEmpty, StepKeepsIndex, PTL DEF Spec

-----------------------------------------------------------------------------
(* What follows from the index.                                            *)

\* Types hold, and the pile of overdue rows counts each row once, whatever
\* paging returns again (load_activity_index).
THEOREM IndexTypeCorrect == Spec => []TypeOK
<1>1. IndexInv => TypeOK
  BY DEF IndexInv, Sets, Tables, VagueInv, TouchInv, TypeOK, OverdueOn
<1> QED
  BY <1>1, IndexFollowsRows, PTL

\* A deal's open action is the same for every order of the rows (_prefer_open).
THEOREM BestRowIsOpen == Spec => []OpenIsBest
<1>1. IndexInv => OpenIsBest
  BY DEF IndexInv
<1> QED
  BY <1>1, IndexFollowsRows, PTL

\* The contacts of a deal, with its customer's outside any deal.
ContactsFor(d) == {s \in Counted : Happened(s) /\ (OnDeal(s, d) \/ Unlinked(s, PartyOf[d]))}

LEMMA LargestIsMax ==
  ASSUME NEW S, S \subseteq Int, NEW x \in S, \A y \in S : x >= y
  PROVE  Max(S) = x
<1>1. \A z \in S : (\A y \in S : z >= y) => z = x
  OBVIOUS
<1> QED
  BY <1>1 DEF Max

\* ContactDay is the latest of them.
LEMMA ContactDayIsLatest ==
  ASSUME IndexInv, NEW d \in Deals
  PROVE  /\ ContactDay(d) \in 0 .. Today /\ Latest(ContactDay(d), ContactsFor(d))
         /\ ContactDay(d) = 0 => ContactsFor(d) = {}
         /\ ContactDay(d) > 0 => LastContacted(d) = ContactDay(d)
         /\ ContactDay(d) = 0 => contact[d] = 0 /\ ByParty(d) = 0
<1>1. \A s \in Counted : s.due \in Int /\ (Happened(s) => s.due >= 1)
  BY RowFields DEF IndexInv, Sets, Counted, Happened, Dated, Days
<1>2. contact[d] \in 0 .. Today /\ Latest(contact[d], ContactsOn(d))
  BY DEF IndexInv, Tables, ContactInv
<1>3. CASE PartyOf[d] = None
  <2>1. ByParty(d) = 0 /\ ContactsFor(d) = ContactsOn(d)
    BY <1>3 DEF ByParty, ContactsFor, ContactsOn, Unlinked
  <2>2. \A s \in ContactsOn(d) : s.due \in Int /\ s.due >= 1
    BY <1>1 DEF ContactsOn
  <2>3. ContactDay(d) = contact[d]
    BY <1>2, <2>1, RotAssumption DEF ContactDay
  <2>4. ContactDay(d) = 0 => ContactsFor(d) = {}
    BY <1>2, <2>1, <2>2, <2>3 DEF Latest
  <2>5. ContactDay(d) > 0 => LastContacted(d) = ContactDay(d)
    BY <2>1, <2>3 DEF LastContacted, TakesDeal
  <2> QED
    BY <1>2, <2>1, <2>3, <2>4, <2>5
<1>4. CASE PartyOf[d] # None
  <2>1. PartyOf[d] \in Parties
    BY <1>4, RotAssumption
  <2>2. /\ ByParty(d) = unlinked[PartyOf[d]] /\ ByParty(d) \in 0 .. Today
        /\ Latest(ByParty(d), ContactsWith(PartyOf[d]))
    BY <1>4, <2>1 DEF ByParty, IndexInv, Tables, ContactInv
  <2>3. ContactsFor(d) = ContactsOn(d) \cup ContactsWith(PartyOf[d])
    BY DEF ContactsFor, ContactsOn, ContactsWith
  <2>4. \A s \in ContactsFor(d) : s.due \in Int /\ s.due >= 1
    BY <1>1 DEF ContactsFor
  <2>5. /\ ContactDay(d) \in 0 .. Today /\ Latest(ContactDay(d), ContactsFor(d))
        /\ ContactDay(d) = 0 => ContactsFor(d) = {}
    BY <1>2, <2>2, <2>3, <2>4, RotAssumption DEF ContactDay, Latest
  <2>6. /\ ContactDay(d) > 0 => LastContacted(d) = ContactDay(d)
        /\ ContactDay(d) = 0 => contact[d] = 0 /\ ByParty(d) = 0
    BY <1>2, <2>2, RotAssumption DEF ContactDay, LastContacted, TakesDeal
  <2> QED
    BY <2>5, <2>6
<1> QED
  BY <1>3, <1>4

\* The two readings of the contact dates agree, on the latest day anyone was in
\* touch about the deal or with its customer (last_contacted, _rot_age).
THEOREM OneDateEverywhere == Spec => []OneContactDate
<1>1. ASSUME IndexInv PROVE OneContactDate
  <2> SUFFICES ASSUME NEW d \in Deals
               PROVE LET days == {r.due : r \in ContactsFor(d)}
                     IN IF days = {} THEN ContactDay(d) = 0 /\ LastContacted(d) \notin Days
                        ELSE ContactDay(d) = Max(days) /\ LastContacted(d) = Max(days)
    BY DEF OneContactDate, ContactsFor
  <2> DEFINE days == {r.due : r \in ContactsFor(d)}
  <2>1. \A r \in ContactsFor(d) : r.due \in Int /\ r.due >= 1
    BY <1>1, RowFields DEF IndexInv, Sets, Counted, ContactsFor, Happened, Dated, Days
  <2>2. CASE ContactDay(d) = 0
    <3>1. days = {}
      BY <1>1, <2>2, ContactDayIsLatest
    <3>2. LastContacted(d) \in {UnknownDay, Never}
      BY <1>1, <2>2, ContactDayIsLatest DEF LastContacted, TakesDeal
    <3>3. LastContacted(d) \notin Days
      BY <3>2, RotAssumption DEF UnknownDay, Never, Days
    <3> QED
      BY <2>2, <3>1, <3>3
  <2>3. CASE ContactDay(d) # 0
    <3>1. ContactDay(d) > 0 /\ LastContacted(d) = ContactDay(d)
      BY <1>1, <2>3, ContactDayIsLatest, RotAssumption
    <3>2. ContactDay(d) \in days /\ \A y \in days : ContactDay(d) >= y
      BY <1>1, <2>1, <2>3, ContactDayIsLatest, RotAssumption DEF Latest
    <3>3. Max(days) = ContactDay(d)
      BY <2>1, <3>2, LargestIsMax
    <3> QED
      BY <3>1, <3>2, <3>3
  <2> QED
    BY <2>2, <2>3
<1> QED
  BY <1>1, IndexFollowsRows, PTL

\* never_contacted is said only where no row tells of a contact, on whatever
\* day (last_contacted, classify_contact).
THEOREM NeverMeansNever == Spec => []NeverIsNever
<1>1. ASSUME IndexInv PROVE NeverIsNever
  <2> SUFFICES ASSUME NEW d \in Deals, LastContacted(d) = Never,
                      NEW r \in Counted, IsContact(r), OnDeal(r, d) \/ Unlinked(r, PartyOf[d])
               PROVE FALSE
    BY DEF NeverIsNever
  <2>1. ContactDay(d) = 0
    BY <1>1, ContactDayIsLatest, RotAssumption DEF Never
  <2>2. ContactsFor(d) = {} /\ contact[d] = 0 /\ ByParty(d) = 0
    BY <1>1, <2>1, ContactDayIsLatest
  <2>3. VagueContact(r)
    BY <2>2 DEF ContactsFor, VagueContact
  <2>4. d \in vague \/ PartyOf[d] \in vagueParty
    BY <1>1, <2>3, RotAssumption DEF IndexInv, VagueInv, Unlinked
  <2> QED
    BY <2>2, <2>4 DEF LastContacted, TakesDeal, UnknownDay, Never
<1> QED
  BY <1>1, IndexFollowsRows, PTL

-----------------------------------------------------------------------------
(* The agent's own rows do not make a deal look fresh.                     *)

LEMMA SmallestIsMin ==
  ASSUME NEW S, S \subseteq Int, NEW x \in S, \A y \in S : x <= y
  PROVE  Min(S) = x
<1>1. \A z \in S : (\A y \in S : z =< y) => z = x
  OBVIOUS
<1> QED
  BY <1>1 DEF Min

LEMMA NatHasMin ==
  ASSUME NEW S, S \subseteq Nat, S # {}
  PROVE  Min(S) \in S /\ \A y \in S : Min(S) <= y
<1>1. PICK x \in S : \A y \in S : ~(<<y, x>> \in OpToRel(<, Nat))
  BY NatLessThanWellFounded, WFMin
<1>2. \A y \in S : ~(y < x)
  BY <1>1, Zenon DEF OpToRel
<1>3. S \subseteq Int /\ \A y \in S : x <= y
  BY <1>2
<1>4. Min(S) = x
  BY <1>3, SmallestIsMin
<1> QED
  BY <1>3, <1>4

LEMMA BoundedHasMax ==
  ASSUME NEW n \in Nat, NEW S, S \subseteq 0 .. n, S # {}
  PROVE  Max(S) \in S /\ \A y \in S : Max(S) >= y
<1> DEFINE T == {n - x : x \in S}
<1>1. T \subseteq Nat
  <2> SUFFICES ASSUME NEW x \in S PROVE n - x \in Nat
    OBVIOUS
  <2> QED
    OBVIOUS
<1>2. PICK x \in S : Min(T) = n - x
  <2>1. T # {}
    OBVIOUS
  <2>2. Min(T) \in T
    BY <1>1, <2>1, NatHasMin
  <2> QED
    BY <2>2
<1>3. \A y \in S : Min(T) <= n - y
  <2> SUFFICES ASSUME NEW y \in S PROVE Min(T) <= n - y
    OBVIOUS
  <2>1. n - y \in T
    OBVIOUS
  <2> QED
    BY <1>1, <2>1, NatHasMin
<1>4. S \subseteq Int /\ \A y \in S : x >= y
  BY <1>2, <1>3
<1>5. Max(S) = x
  BY <1>4, LargestIsMax
<1> QED
  BY <1>4, <1>5

\* platform_mirror_days is never less than the platform's age without the
\* agent's rows: the index may know fewer of a deal's rows than the platform.
LEMMA MirrorIsOlder ==
  ASSUME IndexInv, Done, NEW d \in Deals
  PROVE  /\ Mirror(d) \in 0 .. Today
         /\ PlatformAge(d, {r \in book : ~r.agent}) \in Int
         /\ Mirror(d) >= PlatformAge(d, {r \in book : ~r.agent})
<1> DEFINE human == {s \in {r \in book : ~r.agent} : s.deal = d}
           days == {updated[d]} \cup {r.created : r \in human}
           m == IF touch[d] > updated[d] THEN touch[d] ELSE updated[d]
<1>1. TouchesOn(d) \subseteq human
  BY DEF IndexInv, Sets, Done, Counted, TouchesOn, Touches, OnDeal
<1>2. \A r \in human : r.created \in 1 .. Today
  BY RowFields DEF IndexInv, Sets
<1>3. updated[d] \in 1 .. Today /\ touch[d] \in 0 .. Today
  BY RotAssumption DEF IndexInv, Sets, Tables
<1>4. touch[d] = 0 \/ \E r \in human : r.created = touch[d]
  BY <1>1 DEF IndexInv, TouchInv
<1>5. PlatformAge(d, {r \in book : ~r.agent}) = Today - Max(days)
  BY DEF PlatformAge
<1> HIDE DEF human
<1>6. m \in days
  BY <1>3, <1>4
<1>7. Max(days) \in 0 .. Today /\ Max(days) >= m
  <2>1. days \subseteq 0 .. Today /\ days # {}
    BY <1>2, <1>3, RotAssumption
  <2>2. Max(days) \in days /\ \A y \in days : Max(days) >= y
    BY <2>1, BoundedHasMax, RotAssumption
  <2> HIDE DEF days, m
  <2> QED
    BY <1>6, <2>1, <2>2
<1> HIDE DEF days
<1>8. Max({updated[d], touch[d]}) = m
  <2>1. {updated[d], touch[d]} \subseteq Int /\ m \in {updated[d], touch[d]}
    BY <1>3, RotAssumption
  <2>2. \A y \in {updated[d], touch[d]} : m >= y
    BY <1>3, RotAssumption
  <2> QED
    BY <2>1, <2>2, LargestIsMax
<1>9. Mirror(d) = Today - m
  BY <1>8 DEF Mirror
<1> QED
  BY <1>3, <1>5, <1>7, <1>9, RotAssumption

\* It is that age on a deal whose rows the index all counts.
LEMMA MirrorIsPlatformAge ==
  ASSUME IndexInv, Done, NEW d \in Deals, Strays(d) = {}
  PROVE  Mirror(d) = PlatformAge(d, {r \in book : ~r.agent})
<1> DEFINE human == {s \in {r \in book : ~r.agent} : s.deal = d}
           days == {updated[d]} \cup {r.created : r \in human}
           m == IF touch[d] > updated[d] THEN touch[d] ELSE updated[d]
<1>1. human = TouchesOn(d)
  BY DEF IndexInv, Sets, Done, Counted, TouchesOn, Touches, OnDeal, Strays
<1>2. \A r \in human : r.created \in 1 .. Today
  BY RowFields DEF IndexInv, Sets
<1>3. updated[d] \in 1 .. Today /\ touch[d] \in 0 .. Today
  BY RotAssumption DEF IndexInv, Sets, Tables
<1>4. /\ touch[d] = 0 \/ \E r \in human : r.created = touch[d]
      /\ \A r \in human : r.created <= touch[d]
  BY <1>1 DEF IndexInv, TouchInv
<1> HIDE DEF human
<1>5. Max(days) = m
  <2>1. days \subseteq Int /\ m \in days /\ \A y \in days : m >= y
    BY <1>2, <1>3, <1>4, RotAssumption
  <2> QED
    BY <2>1, LargestIsMax
<1>6. Max({updated[d], touch[d]}) = m
  <2>1. {updated[d], touch[d]} \subseteq Int /\ m \in {updated[d], touch[d]}
    BY <1>3, RotAssumption
  <2>2. \A y \in {updated[d], touch[d]} : m >= y
    BY <1>3, RotAssumption
  <2> QED
    BY <2>1, <2>2, LargestIsMax
<1> QED
  BY <1>5, <1>6 DEF Mirror, PlatformAge, human

\* On a deal the agent's index takes as untouched, and whose rows it all counts,
\* the platform's level is what it would be without the agent's rows.
LEMMA UnwrittenKeepsAge ==
  ASSUME IndexInv, Done, NEW d \in Deals \ agentWrote, Strays(d) = {}
  PROVE  PlatformAge(d, {r \in book : ~r.agent}) = PlatformAge(d, book)
<1>1. {s \in {r \in book : ~r.agent} : s.deal = d} = {s \in book : s.deal = d}
  BY DEF IndexInv, Sets, TouchInv, Done, Counted, OnDeal, Strays
<1> QED
  BY <1>1 DEF PlatformAge

\* The line is not above the platform's, if it was measured or the fallback is
\* not, and if the index counts all rows of the deals that are fresh.
LEMMA BoundaryIsCautious ==
  ASSUME IndexInv, Done, Measured \/ Fallback <= PlatformLine,
         \A e \in Deals \ agentWrote : ~PlatformFlags(e) => Strays(e) = {}
  PROVE  Boundary \in Int /\ Boundary <= PlatformLine
<1>1. CASE ~Measured
  BY <1>1, RotAssumption DEF Boundary
<1>2. CASE Measured
  <2>0. FreshAges # {} /\ FlaggedAges # {}
    BY <1>2 DEF Measured
  <2>1. FreshAges \subseteq 0 .. Today /\ FlaggedAges \subseteq 0 .. Today
    BY MirrorIsOlder DEF FreshAges, FlaggedAges
  <2>2. \A a \in FreshAges : a < PlatformLine
    <3> SUFFICES ASSUME NEW e \in Deals \ agentWrote, ~PlatformFlags(e)
                 PROVE Mirror(e) < PlatformLine
      BY DEF FreshAges
    <3>1. Mirror(e) = PlatformAge(e, book)
      BY MirrorIsPlatformAge, UnwrittenKeepsAge
    <3>2. Mirror(e) \in 0 .. Today
      BY MirrorIsOlder
    <3> QED
      BY <3>1, <3>2, RotAssumption DEF PlatformFlags
  <2>3. Max(FreshAges) \in FreshAges /\ Min(FlaggedAges) \in FlaggedAges
    <3>1. Max(FreshAges) \in FreshAges
      BY <2>0, <2>1, BoundedHasMax, RotAssumption
    <3>2. Min(FlaggedAges) \in FlaggedAges
      <4>1. FlaggedAges \subseteq Nat
        BY <2>1
      <4> QED
        BY <2>0, <4>1, NatHasMin
    <3> QED
      BY <3>1, <3>2
  <2> DEFINE a == Max(FreshAges) + 1
             b == Min(FlaggedAges)
             least == IF a <= b THEN a ELSE b
  <2>4. a \in Int /\ b \in Int /\ a <= PlatformLine
    <3>1. Max(FreshAges) \in Int /\ Min(FlaggedAges) \in Int
      <4>1. Max(FreshAges) \in 0 .. Today /\ Min(FlaggedAges) \in 0 .. Today
        BY <2>1, <2>3, Zenon
      <4> QED
        BY <4>1
    <3>2. Max(FreshAges) < PlatformLine
      BY <2>2, <2>3
    <3> QED
      BY <3>1, <3>2, RotAssumption
  <2> HIDE DEF a, b
  <2>5. Min({a, b}) = least
    <3>1. {a, b} \subseteq Int /\ least \in {a, b} /\ \A y \in {a, b} : least <= y
      BY <2>4
    <3> QED
      BY <3>1, SmallestIsMin
  <2>6. Min({a, b}) \in Int /\ Min({a, b}) <= PlatformLine
    BY <2>4, <2>5, RotAssumption
  <2> QED
    BY <1>2, <2>6 DEF Boundary, a, b
<1> QED
  BY <1>1, <1>2

\* A deal the platform would flag without the agent's rows is rotting, unless a
\* deal taken as untouched and fresh has a row the index dropped, or the line was
\* not measured and the fallback lies above it (assess_rot,
\* calibrate_rot_boundary).
THEOREM NothingLaundered == Spec => []LaunderingHasCause
<1>1. ASSUME IndexInv PROVE LaunderingHasCause
  <2> SUFFICES ASSUME Done, NEW d \in Deals,
                      PlatformAge(d, {r \in book : ~r.agent}) >= PlatformLine,
                      \A e \in Deals \ agentWrote : ~PlatformFlags(e) => Strays(e) = {},
                      Measured \/ ~(Fallback > PlatformLine)
               PROVE Rotting(d)
    BY DEF LaunderingHasCause
  <2>1. CASE d \in agentWrote
    <3>1. /\ Mirror(d) \in 0 .. Today
          /\ PlatformAge(d, {r \in book : ~r.agent}) \in Int
          /\ Mirror(d) >= PlatformAge(d, {r \in book : ~r.agent})
      BY <1>1, MirrorIsOlder
    <3>2. Measured \/ Fallback <= PlatformLine
      BY RotAssumption
    <3>3. Boundary \in Int /\ Boundary <= PlatformLine
      BY <1>1, <3>2, BoundaryIsCautious
    <3>4. Mirror(d) >= Boundary
      BY <3>1, <3>3, RotAssumption
    <3> QED
      BY <2>1, <3>4 DEF Rotting
  <2>2. CASE d \notin agentWrote /\ PlatformFlags(d)
    BY <2>2 DEF Rotting
  <2>3. CASE d \notin agentWrote /\ ~PlatformFlags(d)
    <3>1. Strays(d) = {}
      BY <2>3
    <3>2. PlatformAge(d, {r \in book : ~r.agent}) = PlatformAge(d, book)
      BY <1>1, <2>3, <3>1, UnwrittenKeepsAge
    <3> QED
      BY <2>3, <3>2 DEF PlatformFlags
  <2> QED
    BY <2>1, <2>2, <2>3
<1> QED
  BY <1>1, IndexFollowsRows, PTL
=============================================================================
