-------------------------- MODULE DerivedReadsProofs --------------------------
(***************************************************************************)
(* Proofs about DerivedReads, for every set of deals, rows and pages, any  *)
(* contents of a row, every number of turns, writes and reports, and       *)
(* wherever a result is cut off.                                           *)
(* What a pass has read is followed from read to read (FreshInv, TornInv): *)
(* a write either says something about a deal, which is remembered, or     *)
(* leaves what the book says of that deal as it was.                       *)
(***************************************************************************)
EXTENDS DerivedReads, FiniteSetTheorems, SequenceTheorems, WellFoundedInduction, TLAPS

Phases == {"deals1", "rows1", "deals2", "rows2"}

DerivedTypeOK ==
    /\ rows \in [RowIds -> Row] /\ closed \subseteq Deals /\ serverDay \in ServerDays
    /\ pc \in Phases \cup {"asking", "counting"}
    /\ turns \in 0 .. MaxTurns /\ (pc # "asking" => turns < MaxTurns)
    /\ pc \in Phases => ask \in Pages
    /\ pc = "counting" => ask \in Sums
    /\ DOMAIN told = Questions
    /\ listed \subseteq Deals
    /\ DOMAIN flagged \subseteq Deals /\ \A d \in DOMAIN flagged : flagged[d] \in Nat
    /\ DOMAIN store \subseteq {"Deal", "Activity"}
    /\ logPc \in {"idle", "create", "logged", "failed", "rejected"} /\ logs \in 0 .. MaxLogs
    /\ logPc = "create" => logDeal \in Deals /\ logDay \in 1 .. Today
    /\ edits \in 0 .. MaxEdits /\ since \subseteq Deals /\ between \in BOOLEAN
    /\ spoke \subseteq [deal : Deals \cup {None}, party : Parties \cup {None}, day : 0 .. Today + 1]

\* A contact in the book, or one about to be reported, was spoken of, with its day.
SpokenInv ==
    /\ \A i \in RowIds : rows[i].kind = "contact" =>
          \E c \in spoke : /\ c.deal = rows[i].deal /\ c.party = rows[i].party
                           /\ c.day = RealDay(rows[i])
    /\ logPc = "create" => [deal |-> logDeal, party |-> PartyOf[logDeal], day |-> logDay] \in spoke

\* The pass under way is the first: nothing is cached yet.
PassInv == pc \in Phases => analysis = None

Mine(d) == {k \in DOMAIN analysis.rows : analysis.rows[k].deal = d}

\* What the cached analysis says of a deal is what the book says.
HoldsOf(d) ==
    IF d \in closed THEN Mine(d) = {}
    ELSE /\ Cardinality(Mine(d)) = 1
         /\ \A k \in Mine(d) :
               /\ analysis.rows[k].contact = LastContact(rows, d)
               /\ analysis.rows[k].action = HasAction(rows, d)
               /\ analysis.rows[k].why \subseteq {LastContact(rows, d)}

\* What was read of a deal that nothing was written about still holds.
FreshInv ==
    \A d \in Deals \ since :
        /\ pc \in {"rows1", "rows2"} => (d \in listed <=> d \notin closed)
        /\ pc \in {"deals2", "rows2"} /\ d \in DOMAIN flagged => flagged[d] = LastContact(rows, d)
        /\ pc \notin Phases /\ analysis # None => HoldsOf(d)

RottingRows == {k \in DOMAIN analysis.rows : analysis.rows[k].why # {}}

\* The passes agree so far, or something was written between them.
TornInv ==
    ~between =>
        /\ pc \in {"rows1", "rows2"} => listed = Deals \ closed
        /\ pc \in {"deals2", "rows2"} =>
              /\ DOMAIN flagged \subseteq Deals \ closed
              /\ \A d \in DOMAIN flagged : flagged[d] = LastContact(rows, d)
        /\ analysis # None =>
              /\ analysis.count = Cardinality(RottingRows)
              /\ \A k \in DOMAIN analysis.rows :
                    analysis.rows[k].why \subseteq {analysis.rows[k].contact}

\* Each aggregate told is made of the records kept for its scope, and a scope is
\* read only while nothing is kept for it.
SumInv ==
    /\ pc = "counting" => ask.scope \notin DOMAIN store
    /\ \A q \in Sums : told[q].tool = "sum" =>
          q.scope \in DOMAIN store /\ told[q].read = store[q.scope]

-----------------------------------------------------------------------------
(* Rows, and what a write leaves as it was.                                *)

LEMMA RowTypes ==
  /\ Absent \in Row
  /\ \A d \in Deals, day \in 0 .. Today :
        /\ LoggedContact(d, day) \in Row
        /\ LoggedContact(d, day).kind = "contact" /\ LoggedContact(d, day).deal = d
        /\ LoggedContact(d, day).party = PartyOf[d] /\ LoggedContact(d, day).actual = day
<1>1. Today \in Nat /\ Today >= 1 /\ \A d \in Deals : PartyOf[d] \in Parties \cup {None}
  BY DerivedAssumption
<1>2. Absent \in Row
  BY <1>1 DEF Absent, PlainRow, Row
<1>3. ASSUME NEW d \in Deals, NEW day \in 0 .. Today
      PROVE  /\ LoggedContact(d, day) \in Row
             /\ LoggedContact(d, day).kind = "contact" /\ LoggedContact(d, day).deal = d
             /\ LoggedContact(d, day).party = PartyOf[d] /\ LoggedContact(d, day).actual = day
  BY <1>1 DEF LoggedContact, Row
<1> QED
  BY <1>2, <1>3

LEMMA StoresType ==
  ASSUME rows \in [RowIds -> Row], NEW row \in Row, Stores(row)
  PROVE  \E i \in RowIds :
            /\ rows[i].kind = "absent" /\ rows' \in [RowIds -> Row]
            /\ rows'[i] = row /\ \A j \in RowIds : j # i => rows'[j] = rows[j]
            /\ Writes(DealsOf(row))
BY DEF Stores

LEMMA StoresKeepsTypes ==
  ASSUME rows \in [RowIds -> Row], since \subseteq Deals, between \in BOOLEAN,
         NEW row \in Row, Stores(row)
  PROVE  rows' \in [RowIds -> Row] /\ since' \subseteq Deals /\ between' \in BOOLEAN
<1>1. rows' \in [RowIds -> Row] /\ Writes(DealsOf(row))
  BY StoresType
<1>2. DealsOf(row) \subseteq Deals
  BY DEF DealsOf
<1> QED
  BY <1>1, <1>2 DEF Writes

\* A step that says nothing about the deals outside `about`.
Wrote(about) ==
    /\ Writes(about)
    /\ \A d \in Deals \ about :
          /\ d \in closed' <=> d \in closed
          /\ \A i \in RowIds : \/ rows'[i] = rows[i]
                               \/ ~About(rows[i], d) /\ ~About(rows'[i], d)

LEMMA StoresWrites ==
  ASSUME rows \in [RowIds -> Row], NEW row \in Row, Stores(row), closed' = closed
  PROVE  \E about \in SUBSET Deals : Wrote(about)
<1>1. PICK i \in RowIds : /\ rows[i].kind = "absent"
                          /\ rows'[i] = row /\ \A j \in RowIds : j # i => rows'[j] = rows[j]
                          /\ Writes(DealsOf(row))
  BY StoresType
<1>2. \A d \in Deals \ DealsOf(row) : ~About(rows[i], d) /\ ~About(rows'[i], d)
  BY <1>1 DEF DealsOf, About
<1>3. Wrote(DealsOf(row))
  BY <1>1, <1>2 DEF Wrote
<1>4. DealsOf(row) \in SUBSET Deals
  BY DEF DealsOf
<1> QED
  BY <1>3, <1>4

\* What others write: a row, or whether a deal is closed.
LEMMA ChangesWrite ==
  ASSUME rows \in [RowIds -> Row], closed \subseteq Deals, since \subseteq Deals,
         between \in BOOLEAN, Changes
  PROVE  /\ rows' \in [RowIds -> Row] /\ closed' \subseteq Deals
         /\ since' \subseteq Deals /\ between' \in BOOLEAN
         /\ \E about \in SUBSET Deals : Wrote(about)
<1>1. ASSUME NEW i \in RowIds, NEW row \in Contents, Rewrites(i, row)
      PROVE  /\ rows' \in [RowIds -> Row] /\ closed' = closed
             /\ \E about \in SUBSET Deals : Wrote(about)
  <2>1. row \in Row
    BY ContentsAssumption
  <2>2. /\ rows'[i] = row /\ \A j \in RowIds : j # i => rows'[j] = rows[j]
        /\ rows' \in [RowIds -> Row] /\ closed' = closed
        /\ Writes(DealsOf(rows[i]) \cup DealsOf(row))
    BY <1>1, <2>1 DEF Rewrites
  <2>3. Wrote(DealsOf(rows[i]) \cup DealsOf(row))
    BY <2>2 DEF Wrote, DealsOf
  <2>4. DealsOf(rows[i]) \cup DealsOf(row) \in SUBSET Deals
    BY DEF DealsOf
  <2> QED
    BY <2>2, <2>3, <2>4
<1>2. ASSUME NEW d \in Deals, Moves(d)
      PROVE  /\ rows' = rows /\ closed' \subseteq Deals /\ Wrote({d})
  BY <1>2 DEF Moves, Wrote
<1>3. /\ rows' \in [RowIds -> Row] /\ closed' \subseteq Deals
      /\ \E about \in SUBSET Deals : Wrote(about)
  BY <1>1, <1>2 DEF Changes
<1> QED
  BY <1>3 DEF Wrote, Writes

\* A row that others write is spoken of with the day it says.
LEMMA ChangesSpeak ==
  ASSUME rows \in [RowIds -> Row], Changes
  PROVE  /\ spoke \subseteq spoke'
         /\ \A i \in RowIds :
               \/ rows'[i] = rows[i]
               \/ /\ rows'[i] \in Row /\ RealDay(rows'[i]) = rows'[i].due
                  /\ rows'[i].kind = "contact" =>
                        [deal |-> rows'[i].deal, party |-> rows'[i].party,
                         day |-> rows'[i].due] \in spoke'
         /\ \A c \in spoke' : c \in spoke \/ \E r \in Row : c = [deal |-> r.deal, party |-> r.party, day |-> r.due]
<1>1. ASSUME NEW i \in RowIds, NEW row \in Contents, Rewrites(i, row)
      PROVE  /\ spoke \subseteq spoke' /\ row \in Row /\ RealDay(row) = row.due
             /\ rows'[i] = row /\ \A j \in RowIds : j # i => rows'[j] = rows[j]
             /\ row.kind = "contact" =>
                   [deal |-> row.deal, party |-> row.party, day |-> row.due] \in spoke'
             /\ \A c \in spoke' : c \in spoke \/ c = [deal |-> row.deal, party |-> row.party, day |-> row.due]
  BY <1>1, ContentsAssumption DEF Rewrites, RealDay
<1>2. ASSUME NEW d \in Deals, Moves(d) PROVE UNCHANGED <<rows, spoke>>
  BY <1>2 DEF Moves
<1>3. CASE \E i \in RowIds, row \in Contents : Rewrites(i, row)
  <2>1. PICK i \in RowIds, row \in Contents : Rewrites(i, row)
    BY <1>3
  <2> QED
    BY <1>1, <2>1
<1>4. CASE \E d \in Deals : Moves(d)
  BY <1>2, <1>4
<1> QED
  BY <1>3, <1>4 DEF Changes

\* What the book says of a deal that is not written about stays the same.
LEMMA Unaffected ==
  ASSUME rows \in [RowIds -> Row], rows' \in [RowIds -> Row],
         NEW about, Wrote(about), NEW d \in Deals \ about
  PROVE  /\ LastContact(rows', d) = LastContact(rows, d)
         /\ HasAction(rows', d) = HasAction(rows, d)
         /\ d \in closed' <=> d \in closed
<1>1. \A i \in RowIds : \/ rows'[i] = rows[i]
                        \/ ~About(rows[i], d) /\ ~About(rows'[i], d)
  BY DEF Wrote
<1> DEFINE Had(book) == {j \in DOMAIN book : /\ book[j].kind = "contact" /\ About(book[j], d)
                                              /\ RealDay(book[j]) <= Today}
           Days(book) == {RealDay(book[i]) : i \in Had(book)}
<1>2. Had(rows') = Had(rows) /\ \A i \in Had(rows) : rows'[i] = rows[i]
  BY <1>1
<1> HIDE DEF Had
<1>3. Days(rows') = Days(rows)
  BY <1>2
<1>4. /\ LastContact(rows', d) = Max({0} \cup Days(rows'))
      /\ LastContact(rows, d) = Max({0} \cup Days(rows))
  BY DEF LastContact, ContactDays, Had
<1>5. HasAction(rows', d) = HasAction(rows, d)
  BY <1>1 DEF HasAction
<1> QED
  BY <1>3, <1>4, <1>5 DEF Wrote

-----------------------------------------------------------------------------
(* Days.                                                                   *)

LEMMA LargestIsMax ==
  ASSUME NEW S, S \subseteq Int, NEW x \in S, \A y \in S : x >= y
  PROVE  Max(S) = x
<1>1. \A z \in S : (\A y \in S : z >= y) => z = x
  OBVIOUS
<1> QED
  BY <1>1 DEF Max

\* A bounded set of days has a latest: the least of its bounds.
LEMMA BoundedHasMax ==
  ASSUME NEW n \in Nat, NEW S, S \subseteq 0 .. n, S # {}
  PROVE  Max(S) \in S
<1> DEFINE Bounds == {m \in Nat : \A y \in S : y <= m}
<1>1. n \in Bounds
  OBVIOUS
<1>2. PICK x \in Bounds : \A y \in Bounds : ~(<<y, x>> \in OpToRel(<, Nat))
  BY <1>1, NatLessThanWellFounded, WFMin
<1>3. \A y \in Bounds : ~(y < x)
  BY <1>2, Zenon DEF OpToRel
<1>4. x \in Nat /\ \A y \in S : y \in Nat /\ y <= x
  OBVIOUS
<1>5. x \in S
  <2> SUFFICES ASSUME x \notin S PROVE FALSE
    OBVIOUS
  <2>1. ASSUME NEW y \in S PROVE y <= x - 1
    <3>1. y \in Nat /\ x \in Nat /\ y <= x /\ y # x
      BY <1>4
    <3> QED
      BY <3>1
  <2>2. x - 1 \in Nat
    <3>1. PICK y \in S : y \in Nat
      BY <1>4
    <3>2. y <= x - 1
      BY <2>1
    <3> QED
      BY <1>4, <3>1, <3>2
  <2>3. x - 1 \in Bounds
    BY <2>1, <2>2
  <2> QED
    BY <1>3, <1>4, <2>3
<1>6. S \subseteq Int /\ \A y \in S : x >= y
  BY <1>4
<1> HIDE DEF Bounds
<1> QED
  BY <1>5, <1>6, LargestIsMax

\* The last contact is a day on which one of the rows about the deal was.
LEMMA LastIsADay ==
  ASSUME NEW book, \A i \in DOMAIN book : book[i] \in Row, NEW d
  PROVE  /\ LastContact(book, d) \in Nat
         /\ \/ LastContact(book, d) = 0
            \/ \E i \in DOMAIN book : /\ book[i].kind = "contact" /\ About(book[i], d)
                                      /\ LastContact(book, d) = RealDay(book[i])
<1> DEFINE Days == {0} \cup ContactDays(book, d)
<1>1. Today \in Nat
  BY DerivedAssumption
<1>2. \A i \in DOMAIN book : RealDay(book[i]) \in 0 .. Today + 1
  BY <1>1 DEF RealDay, Row
<1>3. Days \subseteq 0 .. Today + 1 /\ Days # {}
  BY <1>1, <1>2 DEF ContactDays
<1>4. LastContact(book, d) = Max(Days)
  BY DEF LastContact
<1>5. Max(Days) \in Days
  <2> HIDE DEF Days
  <2>1. Today + 1 \in Nat
    BY <1>1
  <2> QED
    BY <1>3, <2>1, BoundedHasMax
<1>6. LastContact(book, d) \in 0 .. Today + 1
  <2> HIDE DEF Days
  <2> QED
    BY <1>3, <1>4, <1>5
<1>7. ASSUME NEW x \in Days, x # 0
      PROVE  \E i \in DOMAIN book : /\ book[i].kind = "contact" /\ About(book[i], d)
                                    /\ x = RealDay(book[i])
  BY <1>7 DEF ContactDays
<1>8. LastContact(book, d) \in Days
  BY <1>4, <1>5
<1>9. LastContact(book, d) \in Nat
  BY <1>1, <1>6
<1> HIDE DEF Days
<1> QED
  BY <1>7, <1>8, <1>9

-----------------------------------------------------------------------------
(* Types.                                                                  *)

LEMMA DerivedStarts == Init => DerivedTypeOK
<1> SUFFICES ASSUME Init PROVE DerivedTypeOK
  OBVIOUS
<1>1. rows \in [RowIds -> Row]
  BY RowTypes DEF Init
<1>2. DOMAIN told = Questions /\ DOMAIN store = {}
  BY DEF Init
<1>3. turns \in 0 .. MaxTurns /\ logs \in 0 .. MaxLogs /\ edits \in 0 .. MaxEdits
  BY DerivedAssumption DEF Init
<1>4. DOMAIN flagged = {}
  BY DEF Init, NoFlags
<1> QED
  BY <1>1, <1>2, <1>3, <1>4 DEF Init, DerivedTypeOK, Phases

LEMMA ChangesAreTyped ==
  ASSUME DerivedTypeOK, Changes
  PROVE  spoke' \subseteq [deal : Deals \cup {None}, party : Parties \cup {None}, day : 0 .. Today + 1]
<1>1. \A c \in spoke' :
        c \in spoke \/ \E r \in Row : c = [deal |-> r.deal, party |-> r.party, day |-> r.due]
  BY ChangesSpeak DEF DerivedTypeOK
<1> QED
  BY <1>1 DEF DerivedTypeOK, Row

LEMMA ShowTells ==
  ASSUME NEW a, NEW q, Show(a, q) PROVE \E answer : Tell(q, answer)
BY DEF Show

LEMMA NoFlagsAtAll == DOMAIN NoFlags = {}
BY DEF NoFlags

\* The steps of run_loop keep the types, and leave log-contact alone.
LEMMA LoopKeepsTypes == DerivedTypeOK /\ Loop => DerivedTypeOK'
<1> SUFFICES ASSUME DerivedTypeOK, Loop PROVE DerivedTypeOK'
  OBVIOUS
<1> USE NoFlagsAtAll DEF DerivedTypeOK, Phases
<1>1. CASE \E q \in Questions : AskPage(q)
  <2>1. PICK q \in Pages : AskPage(q)
    BY <1>1 DEF AskPage
  <2>2. CASE Cached
    <3>1. PICK answer : Tell(q, answer)
      BY <2>1, <2>2, ShowTells DEF AskPage
    <3> QED
      BY <2>1, <2>2, <3>1, DerivedAssumption DEF AskPage, Asks, Tell, EndTurn, Quiet, logVars
  <2>3. CASE ~Cached
    BY <2>1, <2>3, DerivedAssumption DEF AskPage, Asks, logVars
  <2> QED
    BY <2>2, <2>3
<1>2. CASE \E q \in Questions : AskSum(q)
  <2>1. PICK q \in Sums : AskSum(q)
    BY <1>2 DEF AskSum
  <2>2. CASE KeyOf(q) \in DOMAIN store
    BY <2>1, <2>2, DerivedAssumption DEF AskSum, Asks, Tell, EndTurn, logVars, history
  <2>3. CASE KeyOf(q) \notin DOMAIN store
    BY <2>1, <2>3, DerivedAssumption DEF AskSum, Asks, logVars, history
  <2> QED
    BY <2>2, <2>3
<1>3. CASE ListFirst \/ ListAgain
  BY <1>3 DEF ListFirst, ListAgain, logVars, history
<1>4. CASE IndexFirst
  <2>1. PICK rotting \in SUBSET listed : flagged' = [d \in rotting |-> LastContact(rows, d)]
    BY <1>4 DEF IndexFirst
  <2>2. \A d : LastContact(rows, d) \in Nat
    BY LastIsADay
  <2>3. DOMAIN flagged' \subseteq Deals /\ \A d \in DOMAIN flagged' : flagged'[d] \in Nat
    BY <2>1, <2>2
  <2> QED
    BY <1>4, <2>3 DEF IndexFirst, logVars, history
<1>5. CASE AnalysisRefused
  BY <1>5, DerivedAssumption DEF AnalysisRefused, Tell, EndTurn, logVars, history
<1>6. CASE IndexAgain
  <2>1. PICK answer : Tell(ask, answer)
    BY <1>6, ShowTells DEF IndexAgain
  <2> QED
    BY <1>6, <2>1, DerivedAssumption DEF IndexAgain, Tell, EndTurn, logVars, history
<1>7. CASE ReadAll
  <2>1. ask.scope \in {"Deal", "Activity"} /\ pc = "counting"
    BY <1>7, DerivedAssumption DEF ReadAll, Sum
  <2>2. DOMAIN store' \subseteq {"Deal", "Activity"}
    BY <1>7, <2>1 DEF ReadAll, KeyOf
  <2> QED
    BY <1>7, <2>2, DerivedAssumption DEF ReadAll, Tell, EndTurn, logVars, history
<1>8. CASE ReadRaises
  BY <1>8, DerivedAssumption DEF ReadRaises, EndTurn, logVars, history
<1>9. CASE LoopWrites
  <2>1. Changes /\ rows \in [RowIds -> Row]
    BY <1>9 DEF LoopWrites
  <2>2. /\ rows' \in [RowIds -> Row] /\ closed' \subseteq Deals
        /\ since' \subseteq Deals /\ between' \in BOOLEAN
    BY <2>1, ChangesWrite
  <2>3. spoke' \subseteq [deal : Deals \cup {None}, party : Parties \cup {None}, day : 0 .. Today + 1]
    BY <2>1, ChangesAreTyped
  <2> QED
    BY <1>9, <2>2, <2>3, DerivedAssumption DEF LoopWrites, Asks, EndTurn, logVars
<1> QED
  BY <1>1, <1>2, <1>3, <1>4, <1>5, <1>6, <1>7, <1>8, <1>9 DEF Loop

\* log-contact leaves run_loop alone.
LEMMA LogKeepsTypes == DerivedTypeOK /\ LogContact => DerivedTypeOK' /\ UNCHANGED loopVars
<1> SUFFICES ASSUME DerivedTypeOK, LogContact PROVE DerivedTypeOK' /\ UNCHANGED loopVars
  OBVIOUS
<1> USE DEF DerivedTypeOK, Phases
<1>1. CASE \E d \in Deals, day \in 1 .. Today : StartLog(d, day)
  <2>1. PICK d \in Deals, day \in 1 .. Today : StartLog(d, day)
    BY <1>1
  <2>2. spoke' \subseteq [deal : Deals \cup {None}, party : Parties \cup {None}, day : 0 .. Today + 1]
    BY <2>1, DerivedAssumption DEF StartLog
  <2> QED
    BY <2>1, <2>2, DerivedAssumption DEF StartLog, loopVars
<1>2. CASE LogAnswered \/ LogLost
  <2>1. /\ LoggedContact(logDeal, logDay) \in Row
        /\ Stores(LoggedContact(logDeal, logDay))
    BY <1>2, RowTypes, DerivedAssumption DEF LogAnswered, LogLost
  <2>2. rows' \in [RowIds -> Row] /\ since' \subseteq Deals /\ between' \in BOOLEAN
    BY <2>1, StoresKeepsTypes
  <2> QED
    BY <1>2, <2>2 DEF LogAnswered, LogLost, LogEnds, loopVars
<1>3. CASE LogRejected \/ LogFails \/ LogAgain
  BY <1>3 DEF LogRejected, LogFails, LogAgain, LogEnds, loopVars, history
<1> QED
  BY <1>1, <1>2, <1>3 DEF LogContact

LEMMA MatesKeepTypes == DerivedTypeOK /\ Mates => DerivedTypeOK' /\ UNCHANGED <<loopVars, logVars>>
<1> SUFFICES ASSUME DerivedTypeOK, Mates PROVE DerivedTypeOK' /\ UNCHANGED <<loopVars, logVars>>
  OBVIOUS
<1>1. Changes /\ rows \in [RowIds -> Row] /\ closed \subseteq Deals /\ since \subseteq Deals
      /\ between \in BOOLEAN
  BY DEF Mates, DerivedTypeOK
<1>2. /\ rows' \in [RowIds -> Row] /\ closed' \subseteq Deals
      /\ since' \subseteq Deals /\ between' \in BOOLEAN
  BY <1>1, ChangesWrite
<1>3. spoke' \subseteq [deal : Deals \cup {None}, party : Parties \cup {None}, day : 0 .. Today + 1]
  BY <1>1, ChangesAreTyped
<1>4. edits' \in 0 .. MaxEdits /\ UNCHANGED <<serverDay, loopVars, logVars>>
  BY DerivedAssumption DEF Mates, DerivedTypeOK
<1> QED
  BY <1>2, <1>3, <1>4 DEF DerivedTypeOK, Phases, loopVars, logVars

\* Types of the book, the conversation and what it keeps (contact_status,
\* aggregate, log_contact).
THEOREM DerivedTypeCorrect == Spec => []DerivedTypeOK
<1>1. DerivedTypeOK /\ UNCHANGED vars => DerivedTypeOK'
  BY DEF DerivedTypeOK, vars, loopVars, logVars, history
<1>2. DerivedTypeOK /\ [Next]_vars => DerivedTypeOK'
  BY <1>1, LoopKeepsTypes, LogKeepsTypes, MatesKeepTypes DEF Next
<1> QED
  BY <1>2, DerivedStarts, PTL DEF Spec

-----------------------------------------------------------------------------
(* Dates.                                                                  *)

\* A row a step leaves as it is goes on being spoken of.
LEMMA StaysSpoken ==
  ASSUME SpokenInv, spoke \subseteq spoke', NEW i \in RowIds, rows'[i] = rows[i],
         rows'[i].kind = "contact"
  PROVE  \E c \in spoke' : /\ c.deal = rows'[i].deal /\ c.party = rows'[i].party
                           /\ c.day = RealDay(rows'[i])
BY DEF SpokenInv

LEMMA SpokenStep == DerivedTypeOK /\ SpokenInv /\ [Next]_vars => SpokenInv'
<1> SUFFICES ASSUME DerivedTypeOK, SpokenInv, [Next]_vars PROVE SpokenInv'
  OBVIOUS
<1> DEFINE Heard(i) == rows[i].kind = "contact" =>
                          \E c \in spoke : /\ c.deal = rows[i].deal /\ c.party = rows[i].party
                                           /\ c.day = RealDay(rows[i])
           Said == logPc = "create" =>
                      [deal |-> logDeal, party |-> PartyOf[logDeal], day |-> logDay] \in spoke
<1>0. rows \in [RowIds -> Row] /\ Said /\ \A i \in RowIds : Heard(i)
  BY DEF DerivedTypeOK, SpokenInv
<1>1. SUFFICES Said' /\ \A i \in RowIds : Heard(i)'
  BY DEF SpokenInv
<1>2. CASE (Loop /\ ~LoopWrites) \/ UNCHANGED vars
  <2>1. UNCHANGED <<rows, spoke, logVars>>
    BY <1>2 DEF Loop, AskPage, AskSum, ListFirst, IndexFirst, AnalysisRefused, ListAgain, IndexAgain,
                ReadAll, ReadRaises, history, vars
  <2> QED
    BY <1>0, <2>1 DEF logVars
<1>3. ASSUME NEW d \in Deals, NEW day \in 1 .. Today, StartLog(d, day)
      PROVE  Said' /\ \A i \in RowIds : Heard(i)'
  BY <1>0, <1>3 DEF StartLog
<1>4. CASE LogAnswered \/ LogLost
  <2> DEFINE row == LoggedContact(logDeal, logDay)
  <2>1. logPc = "create" /\ Stores(row) /\ UNCHANGED spoke /\ logPc' # "create"
    BY <1>4 DEF LogAnswered, LogLost, LogEnds
  <2>2. /\ row \in Row /\ row.deal = logDeal /\ row.party = PartyOf[logDeal]
        /\ RealDay(row) = logDay
    BY <2>1, RowTypes DEF DerivedTypeOK, RealDay
  <2>3. PICK i \in RowIds : /\ rows'[i] = row /\ \A j \in RowIds : j # i => rows'[j] = rows[j]
    BY <1>0, <2>1, <2>2, StoresType
  <2> HIDE DEF row
  <2>4. [deal |-> logDeal, party |-> PartyOf[logDeal], day |-> logDay] \in spoke'
    BY <1>0, <2>1
  <2>5. Heard(i)'
    BY <2>2, <2>3, <2>4
  <2> QED
    BY <1>0, <2>1, <2>3, <2>5
<1>5. CASE LogRejected \/ LogFails \/ LogAgain
  <2>1. UNCHANGED <<rows, spoke>> /\ logPc' # "create"
    BY <1>5 DEF LogRejected, LogFails, LogAgain, LogEnds, history
  <2> QED
    BY <1>0, <2>1
<1>6. CASE LoopWrites \/ Mates
  <2>1. Changes /\ UNCHANGED logVars
    BY <1>6 DEF LoopWrites, Mates
  <2>2. /\ spoke \subseteq spoke'
        /\ \A i \in RowIds :
              \/ rows'[i] = rows[i]
              \/ /\ rows'[i] \in Row /\ RealDay(rows'[i]) = rows'[i].due
                 /\ rows'[i].kind = "contact" =>
                       [deal |-> rows'[i].deal, party |-> rows'[i].party,
                        day |-> rows'[i].due] \in spoke'
    BY <1>0, <2>1, ChangesSpeak
  <2>3. Said'
    BY <1>0, <2>1, <2>2 DEF logVars
  <2>4. ASSUME NEW i \in RowIds PROVE Heard(i)'
    <3>1. CASE rows'[i] = rows[i]
      BY <1>0, <2>2, <3>1
    <3>2. CASE rows'[i] # rows[i]
      BY <2>2, <3>2
    <3> QED
      BY <3>1, <3>2
  <2> QED
    BY <2>3, <2>4
<1> QED
  BY <1>2, <1>3, <1>4, <1>5, <1>6 DEF Next, LogContact

\* A last contact is the day that the person who reported it named, or for which
\* a row was due that somebody completed, and never that of the report
\* (log_contact, RealDay).
THEOREM ContactDatesAsSaid == Spec => []DatesAsSaid
<1>1. Init => SpokenInv
  BY DEF Init, SpokenInv, Absent, PlainRow
<1>2. DerivedTypeOK /\ SpokenInv => DatesAsSaid
  <2> SUFFICES ASSUME DerivedTypeOK, SpokenInv, NEW d \in Deals
               PROVE  LastContact(rows, d) \in
                        {0} \cup {c.day : c \in {s \in spoke : s.deal = d \/ s.party = PartyOf[d]}}
    BY DEF DatesAsSaid
  <2>1. \/ LastContact(rows, d) = 0
        \/ \E i \in RowIds : /\ rows[i].kind = "contact" /\ About(rows[i], d)
                            /\ LastContact(rows, d) = RealDay(rows[i])
    <3>1. DOMAIN rows = RowIds /\ \A i \in DOMAIN rows : rows[i] \in Row
      BY DEF DerivedTypeOK
    <3> QED
      BY <3>1, LastIsADay
  <2>2. ASSUME NEW i \in RowIds, rows[i].kind = "contact", About(rows[i], d)
        PROVE  RealDay(rows[i]) \in {c.day : c \in {s \in spoke : s.deal = d \/ s.party = PartyOf[d]}}
    <3>1. PICK c \in spoke : /\ c.deal = rows[i].deal /\ c.party = rows[i].party
                             /\ c.day = RealDay(rows[i])
      BY <2>2 DEF SpokenInv
    <3>2. c.deal = d \/ c.party = PartyOf[d]
      BY <2>2, <3>1 DEF About
    <3> QED
      BY <3>1, <3>2
  <2> QED
    BY <2>1, <2>2
<1> QED
  BY <1>1, <1>2, SpokenStep, DerivedTypeCorrect, PTL DEF Spec

-----------------------------------------------------------------------------
(* What was read.                                                          *)

ReadsInv == PassInv /\ FreshInv /\ TornInv

\* A write leaves what was read of the other deals true.
LEMMA WriteKeepsReads ==
  ASSUME DerivedTypeOK, rows' \in [RowIds -> Row], ReadsInv, NEW about, Wrote(about),
         analysis' = analysis, flagged' = flagged \/ pc' \notin Phases,
         listed' = listed \/ pc' \notin Phases,
         pc' = pc \/ (pc \notin Phases /\ pc' \notin Phases)
  PROVE  ReadsInv'
<1>1. /\ since' = since \cup about
      /\ between' = (between \/ pc \in {"rows1", "deals2", "rows2"})
  BY DEF Wrote, Writes
<1>2. PassInv'
  BY DEF ReadsInv, PassInv
<1>3. ASSUME NEW d \in Deals \ since'
      PROVE  /\ pc' \in {"rows1", "rows2"} => (d \in listed' <=> d \notin closed')
             /\ pc' \in {"deals2", "rows2"} /\ d \in DOMAIN flagged' =>
                   flagged'[d] = LastContact(rows', d)
             /\ pc' \notin Phases /\ analysis' # None => HoldsOf(d)'
  <2>1. d \in Deals \ since /\ d \in Deals \ about
    BY <1>1
  <2>2. /\ LastContact(rows', d) = LastContact(rows, d)
        /\ HasAction(rows', d) = HasAction(rows, d)
        /\ d \in closed' <=> d \in closed
    BY <2>1, Unaffected DEF DerivedTypeOK
  <2>3. Mine(d)' = Mine(d)
    BY DEF Mine
  <2>4. HoldsOf(d)' <=> HoldsOf(d)
    BY <2>2, <2>3 DEF HoldsOf
  <2> QED
    BY <2>1, <2>2, <2>3, <2>4 DEF ReadsInv, FreshInv, Phases
<1>4. TornInv'
  <2>1. CASE pc \in Phases
    <3>1. pc' = pc /\ analysis' = None
      BY <2>1 DEF ReadsInv, PassInv
    <3> QED
      BY <1>1, <2>1, <3>1 DEF TornInv, Phases
  <2>2. CASE pc \notin Phases
    BY <1>1, <2>2 DEF ReadsInv, TornInv, RottingRows, Phases
  <2> QED
    BY <2>1, <2>2
<1> QED
  BY <1>2, <1>3, <1>4 DEF ReadsInv, FreshInv

\* So does a step without a write that leaves the pass where it is, or ends it.
LEMMA QuietKeepsReads ==
  ASSUME ReadsInv, UNCHANGED <<rows, closed, analysis, since, between>>,
         UNCHANGED <<pc, listed, flagged>> \/ pc' \notin Phases
  PROVE  ReadsInv'
<1>1. \A d \in Deals : HoldsOf(d)' <=> HoldsOf(d)
  BY DEF HoldsOf, Mine
<1>2. PassInv'
  BY DEF ReadsInv, PassInv
<1>3. FreshInv'
  BY <1>1 DEF ReadsInv, PassInv, FreshInv, Phases
<1>4. TornInv'
  BY <1>1 DEF ReadsInv, PassInv, TornInv, RottingRows, Phases
<1> QED
  BY <1>2, <1>3, <1>4 DEF ReadsInv

-----------------------------------------------------------------------------
(* The reads of a pass.                                                    *)

LEMMA PassStarts ==
  ASSUME ReadsInv, pc' = "deals1", analysis' = None
  PROVE  ReadsInv'
BY DEF ReadsInv, PassInv, FreshInv, TornInv, Phases

LEMMA ListFirstReads ==
  ASSUME ReadsInv, ListFirst PROVE ReadsInv'
<1>1. /\ pc = "deals1" /\ pc' = "rows1" /\ listed' = Deals \ closed
      /\ UNCHANGED <<closed, analysis, since, between>>
  BY DEF ListFirst, history
<1> QED
  BY <1>1 DEF ReadsInv, PassInv, FreshInv, TornInv, Phases

LEMMA IndexFirstReads ==
  ASSUME ReadsInv, IndexFirst, listed \subseteq Deals PROVE ReadsInv'
<1>1. /\ pc = "rows1" /\ pc' = "deals2"
      /\ UNCHANGED <<rows, closed, analysis, since, between>>
  BY DEF IndexFirst, history
<1>2. PICK rotting \in SUBSET listed : flagged' = [d \in rotting |-> LastContact(rows, d)]
  BY DEF IndexFirst
<1>3. DOMAIN flagged' \subseteq listed /\ \A d \in DOMAIN flagged' : flagged'[d] = LastContact(rows', d)
  BY <1>1, <1>2
<1> QED
  BY <1>1, <1>3 DEF ReadsInv, PassInv, FreshInv, TornInv, Phases

LEMMA ListAgainReads ==
  ASSUME ReadsInv, ListAgain PROVE ReadsInv'
<1>1. /\ pc = "deals2" /\ pc' = "rows2" /\ listed' = Deals \ closed
      /\ UNCHANGED <<rows, closed, flagged, analysis, since, between>>
  BY DEF ListAgain, history
<1> QED
  BY <1>1 DEF ReadsInv, PassInv, FreshInv, TornInv, Phases

\* The rows, ordered: one for each deal listed, and none besides.
LEMMA OrderedRows ==
  ASSUME NEW S, NEW D \in SUBSET Deals, NEW flags,
         S = {RowOf(rows, d, flags) : d \in D}, NEW ordered \in Sorted(S)
  PROVE  /\ \A k \in DOMAIN ordered : \E d \in D : ordered[k] = RowOf(rows, d, flags)
         /\ \A d \in D : \E k \in DOMAIN ordered : ordered[k] = RowOf(rows, d, flags)
         /\ \A i, j \in DOMAIN ordered : ordered[i] = ordered[j] => i = j
         /\ IsFiniteSet(DOMAIN ordered)
<1>1. IsFiniteSet(S)
  <2> DEFINE f == [d \in D |-> RowOf(rows, d, flags)]
  <2>1. f \in Surjection(D, S)
    BY DEF Surjection
  <2>2. IsFiniteSet(D)
    BY FS_Subset, DerivedAssumption
  <2> HIDE DEF f
  <2> QED
    BY <2>1, <2>2, FS_Surjection
<1>2. Cardinality(S) \in Nat
  BY <1>1, FS_CardinalityType
<1> DEFINE N == 1 .. Cardinality(S)
<1>3. /\ ordered \in [N -> S] /\ DOMAIN ordered = N
      /\ \A i, j \in N : ordered[i] = ordered[j] => i = j
  BY DEF Sorted
<1>4. IsFiniteSet(N) /\ Cardinality(N) = Cardinality(S)
  <2>1. 1 \in Int /\ Cardinality(S) \in Int
    BY <1>2
  <2>2. /\ IsFiniteSet(1 .. Cardinality(S))
        /\ Cardinality(1 .. Cardinality(S)) =
              IF 1 > Cardinality(S) THEN 0 ELSE Cardinality(S) - 1 + 1
    BY <2>1, FS_Interval
  <2> QED
    BY <1>2, <2>2
<1> HIDE DEF N
<1>5. ordered \in Injection(N, S)
  BY <1>3 DEF Injection, IsInjective
<1>6. ordered \in Surjection(N, S)
  BY <1>1, <1>4, <1>5, FS_Injection
<1>7. \A r \in S : \E k \in N : ordered[k] = r
  BY <1>6 DEF Surjection
<1> QED
  BY <1>3, <1>4, <1>7

\* There is one row for each deal of D, and each row is known by its deal.
RowsOf(ordered, D, flags) ==
    /\ \A k \in DOMAIN ordered :
          /\ ordered[k].deal \in D
          /\ ordered[k] = RowOf(rows, ordered[k].deal, flags)
          /\ ordered[k].contact = LastContact(rows, ordered[k].deal)
          /\ ordered[k].action = HasAction(rows, ordered[k].deal)
          /\ ordered[k].why # {} <=> ordered[k].deal \in DOMAIN flags
          /\ \A v \in ordered[k].why : v = flags[ordered[k].deal]
    /\ \A d \in D : \E k \in DOMAIN ordered : ordered[k].deal = d
    /\ \A i, j \in DOMAIN ordered : ordered[i].deal = ordered[j].deal => i = j
    /\ IsFiniteSet(DOMAIN ordered)

LEMMA RowsByDeal ==
  ASSUME NEW D \in SUBSET Deals, NEW flags,
         NEW ordered \in Sorted({RowOf(rows, d, flags) : d \in D})
  PROVE  RowsOf(ordered, D, flags)
<1>1. \A d : /\ RowOf(rows, d, flags).deal = d
             /\ RowOf(rows, d, flags).contact = LastContact(rows, d)
             /\ RowOf(rows, d, flags).action = HasAction(rows, d)
             /\ RowOf(rows, d, flags).why # {} <=> d \in DOMAIN flags
             /\ \A v \in RowOf(rows, d, flags).why : v = flags[d]
  BY DEF RowOf
<1>2. /\ \A k \in DOMAIN ordered : \E d \in D : ordered[k] = RowOf(rows, d, flags)
      /\ \A d \in D : \E k \in DOMAIN ordered : ordered[k] = RowOf(rows, d, flags)
      /\ \A i, j \in DOMAIN ordered : ordered[i] = ordered[j] => i = j
      /\ IsFiniteSet(DOMAIN ordered)
  BY OrderedRows
<1>3. ASSUME NEW k \in DOMAIN ordered
      PROVE  /\ ordered[k].deal \in D
             /\ ordered[k] = RowOf(rows, ordered[k].deal, flags)
             /\ ordered[k].contact = LastContact(rows, ordered[k].deal)
             /\ ordered[k].action = HasAction(rows, ordered[k].deal)
             /\ ordered[k].why # {} <=> ordered[k].deal \in DOMAIN flags
             /\ \A v \in ordered[k].why : v = flags[ordered[k].deal]
  <2>1. PICK d \in D : ordered[k] = RowOf(rows, d, flags)
    BY <1>2
  <2>2. ordered[k].deal = d
    BY <1>1, <2>1
  <2> QED
    BY <1>1, <2>1, <2>2, Zenon
<1> QED
  BY <1>1, <1>2, <1>3 DEF RowsOf

\* The last read joins both passes.
LEMMA IndexAgainReads ==
  ASSUME DerivedTypeOK, ReadsInv, IndexAgain PROVE ReadsInv'
<1>1. PICK ordered \in Sorted({RowOf(rows, d, flagged) : d \in listed}) :
         analysis' = AnalysisOf(ordered) /\ Show(AnalysisOf(ordered), ask)
  BY DEF IndexAgain
<1>2. /\ pc = "rows2" /\ pc' = "asking"
      /\ UNCHANGED <<rows, closed, since, between>>
  <2>1. PICK answer : Tell(ask, answer)
    BY <1>1, ShowTells
  <2> QED
    BY <2>1 DEF IndexAgain, Tell, EndTurn, history
<1>3. analysis'.rows = ordered /\ analysis'.count = Cardinality(DOMAIN flagged)
  BY <1>1, Zenon DEF AnalysisOf
<1>4. RowsOf(ordered, listed, flagged)
  BY <1>1, RowsByDeal DEF DerivedTypeOK
<1>5. PassInv'
  BY <1>2 DEF PassInv, Phases
<1>6. ASSUME NEW d \in Deals \ since PROVE HoldsOf(d)'
  <2>1. Mine(d)' = {k \in DOMAIN ordered : ordered[k].deal = d}
    BY <1>3 DEF Mine
  <2>2. /\ d \in listed <=> d \notin closed
        /\ d \in DOMAIN flagged => flagged[d] = LastContact(rows, d)
    BY <1>2 DEF ReadsInv, FreshInv
  <2>3. CASE d \in closed
    <3>1. Mine(d)' = {}
      BY <1>4, <2>1, <2>2, <2>3 DEF RowsOf
    <3> QED
      BY <1>2, <2>3, <3>1 DEF HoldsOf
  <2>4. CASE d \notin closed
    <3>1. PICK k \in DOMAIN ordered : ordered[k].deal = d
      BY <1>4, <2>2, <2>4 DEF RowsOf
    <3>2. Mine(d)' = {k}
      BY <1>4, <2>1, <3>1 DEF RowsOf
    <3>3. Cardinality(Mine(d)') = 1
      BY <3>2, FS_Singleton
    <3>4. /\ ordered[k].contact = LastContact(rows, d)
          /\ ordered[k].action = HasAction(rows, d)
          /\ ordered[k].why \subseteq {LastContact(rows, d)}
      BY <1>4, <2>2, <3>1 DEF RowsOf
    <3> QED
      BY <1>2, <1>3, <2>4, <3>2, <3>3, <3>4 DEF HoldsOf
  <2> QED
    BY <2>3, <2>4
<1>7. ASSUME ~between
      PROVE  /\ Cardinality(DOMAIN flagged) = Cardinality(RottingRows')
             /\ \A k \in DOMAIN ordered : ordered[k].why \subseteq {ordered[k].contact}
  <2> DEFINE F == DOMAIN flagged
  <2>1. /\ listed = Deals \ closed /\ F \subseteq Deals \ closed
        /\ \A d \in F : flagged[d] = LastContact(rows, d)
    BY <1>2, <1>7 DEF ReadsInv, TornInv
  <2>2. RottingRows' = {k \in DOMAIN ordered : ordered[k].why # {}}
    BY <1>3 DEF RottingRows
  <2>3. F \subseteq listed
    BY <2>1
  <2>4. \A k \in DOMAIN ordered : ordered[k].why # {} <=> ordered[k].deal \in F
    BY <1>4 DEF RowsOf
  <2>5. \A k \in DOMAIN ordered : ordered[k].why \subseteq {ordered[k].contact}
    BY <1>4, <2>1, <2>4 DEF RowsOf
  <2> HIDE DEF F
  <2> DEFINE f == [k \in RottingRows' |-> ordered[k].deal]
  <2>6. f \in Bijection(RottingRows', F)
    <3>1. \A k \in RottingRows' : ordered[k].deal \in F
      BY <2>2, <2>4
    <3>2. \A i, j \in RottingRows' : ordered[i].deal = ordered[j].deal => i = j
      BY <1>4, <2>2 DEF RowsOf
    <3>3. \A d \in F : \E k \in RottingRows' : ordered[k].deal = d
      BY <1>4, <2>2, <2>3, <2>4 DEF RowsOf
    <3> QED
      BY <3>1, <3>2, <3>3 DEF Bijection, Injection, Surjection, IsInjective
  <2>7. IsFiniteSet(RottingRows')
    BY <1>4, <2>2, FS_Subset DEF RowsOf
  <2>8. Cardinality(F) = Cardinality(RottingRows')
    <3> HIDE DEF f
    <3>1. ExistsBijection(RottingRows', F)
      BY <2>6 DEF ExistsBijection
    <3> QED
      BY <2>7, <3>1, FS_Bijection
  <2> QED
    BY <2>5, <2>8 DEF F
<1>8. FreshInv'
  BY <1>2, <1>6 DEF FreshInv, Phases
<1>9. TornInv'
  BY <1>2, <1>3, <1>7 DEF TornInv
<1> QED
  BY <1>5, <1>8, <1>9 DEF ReadsInv

-----------------------------------------------------------------------------
(* Every step.                                                             *)

\* A row stored by anyone, while the pass stays where it is or none goes on.
LEMMA StoreKeepsReads ==
  ASSUME DerivedTypeOK, ReadsInv, NEW row \in Row, Stores(row), UNCHANGED <<closed, analysis>>,
         UNCHANGED <<pc, listed, flagged>> \/ (pc \notin Phases /\ pc' \notin Phases)
  PROVE  ReadsInv'
<1>1. rows \in [RowIds -> Row] /\ closed' = closed
  BY DEF DerivedTypeOK
<1>2. PICK about \in SUBSET Deals : Wrote(about)
  BY <1>1, StoresWrites
<1>3. rows' \in [RowIds -> Row]
  BY <1>1, StoresType
<1> QED
  BY <1>2, <1>3, WriteKeepsReads

LEMMA LoopKeepsReads == DerivedTypeOK /\ ReadsInv /\ Loop => ReadsInv'
<1> SUFFICES ASSUME DerivedTypeOK, ReadsInv, Loop PROVE ReadsInv'
  OBVIOUS
<1>1. CASE \E q \in Questions : AskPage(q)
  <2>1. PICK q \in Questions : AskPage(q)
    BY <1>1
  <2>2. CASE Cached
    <3>1. PICK answer : Tell(q, answer)
      BY <2>1, <2>2, ShowTells DEF AskPage
    <3>2. UNCHANGED <<rows, closed, analysis, since, between>> /\ pc' = "asking"
      BY <2>1, <2>2, <3>1 DEF AskPage, Quiet, Tell, EndTurn
    <3> QED
      BY <3>2, QuietKeepsReads DEF Phases
  <2>3. CASE ~Cached
    <3>1. pc' = "deals1" /\ analysis' = None
      BY <2>1, <2>3 DEF AskPage, Cached
    <3> QED
      BY <3>1, PassStarts
  <2> QED
    BY <2>2, <2>3
<1>2. CASE (\E q \in Questions : AskSum(q)) \/ AnalysisRefused \/ ReadAll \/ ReadRaises
  <2>1. UNCHANGED <<rows, closed, analysis, since, between>>
    BY <1>2 DEF AskSum, AnalysisRefused, ReadAll, ReadRaises, history
  <2>2. pc' \in {"asking", "counting"}
    BY <1>2 DEF AskSum, AnalysisRefused, ReadAll, ReadRaises, Tell, EndTurn
  <2> QED
    BY <2>1, <2>2, QuietKeepsReads DEF Phases
<1>3. CASE ListFirst \/ IndexFirst \/ ListAgain \/ IndexAgain
  BY <1>3, ListFirstReads, IndexFirstReads, ListAgainReads, IndexAgainReads DEF DerivedTypeOK
<1>4. CASE LoopWrites
  <2>1. Changes /\ pc = "asking" /\ pc' = "asking" /\ UNCHANGED analysis
    BY <1>4 DEF LoopWrites, Asks, EndTurn
  <2>2. rows' \in [RowIds -> Row] /\ \E about \in SUBSET Deals : Wrote(about)
    BY <2>1, ChangesWrite DEF DerivedTypeOK
  <2> QED
    BY <2>1, <2>2, WriteKeepsReads DEF Phases
<1> QED
  BY <1>1, <1>2, <1>3, <1>4 DEF Loop

LEMMA LogKeepsReads == DerivedTypeOK /\ ReadsInv /\ LogContact => ReadsInv'
<1> SUFFICES ASSUME DerivedTypeOK, ReadsInv, LogContact PROVE ReadsInv'
  OBVIOUS
<1>1. UNCHANGED <<closed, pc, listed, flagged, analysis>>
  BY LogKeepsTypes DEF LogContact, StartLog, LogAnswered, LogLost, LogRejected, LogFails, LogAgain,
                       loopVars
<1>2. CASE LogAnswered \/ LogLost
  <2>1. /\ LoggedContact(logDeal, logDay) \in Row
        /\ Stores(LoggedContact(logDeal, logDay))
    BY <1>2, RowTypes, DerivedAssumption DEF LogAnswered, LogLost, DerivedTypeOK
  <2> QED
    BY <1>1, <2>1, StoreKeepsReads
<1>3. CASE \/ \E d \in Deals, day \in 1 .. Today : StartLog(d, day)
           \/ LogRejected \/ LogFails \/ LogAgain
  <2>1. UNCHANGED <<rows, since, between>>
    BY <1>3 DEF StartLog, LogRejected, LogFails, LogAgain, history
  <2> QED
    BY <1>1, <2>1, QuietKeepsReads
<1> QED
  BY <1>2, <1>3 DEF LogContact

LEMMA MatesKeepReads == DerivedTypeOK /\ ReadsInv /\ Mates => ReadsInv'
<1> SUFFICES ASSUME DerivedTypeOK, ReadsInv, Mates PROVE ReadsInv'
  OBVIOUS
<1>1. UNCHANGED <<pc, listed, flagged, analysis>> /\ Changes
  BY DEF Mates, loopVars
<1>2. rows' \in [RowIds -> Row] /\ \E about \in SUBSET Deals : Wrote(about)
  BY <1>1, ChangesWrite DEF DerivedTypeOK
<1> QED
  BY <1>1, <1>2, WriteKeepsReads

LEMMA ReadsKept == Spec => []ReadsInv
<1>1. Init => ReadsInv
  BY DEF Init, ReadsInv, PassInv, FreshInv, TornInv, Phases
<1>2. DerivedTypeOK /\ ReadsInv /\ [Next]_vars => ReadsInv'
  <2>1. ReadsInv /\ UNCHANGED vars => ReadsInv'
    BY QuietKeepsReads DEF vars, loopVars, history
  <2> QED
    BY <2>1, LoopKeepsReads, LogKeepsReads, MatesKeepReads DEF Next
<1> QED
  BY <1>1, <1>2, DerivedTypeCorrect, PTL DEF Spec

\* What the cached analysis says of a deal's contact and action still holds, unless
\* something was written about that deal since the analysis began (contact_status,
\* analyse).
THEOREM StaleMeansWritten == Spec => []StaleOnlyWhereWritten
<1>1. ReadsInv => StaleOnlyWhereWritten
  BY DEF ReadsInv, FreshInv, HoldsOf, Mine, StaleOnlyWhereWritten, Phases
<1> QED
  BY <1>1, ReadsKept, PTL

\* The count of an analysis agrees with its rows, and why a deal rots with the last
\* contact its row shows, unless the book was written to between the two passes
\* (analyse, run_canonical_task).
THEOREM TornMeansWritten == Spec => []TornOnlyByWrites
<1>1. ReadsInv => TornOnlyByWrites
  BY DEF ReadsInv, TornInv, RottingRows, TornOnlyByWrites
<1> QED
  BY <1>1, ReadsKept, PTL

-----------------------------------------------------------------------------
(* aggregate.                                                              *)

LEMMA QuestionsApart == \A p \in Pages, q \in Sums : p # q
BY DerivedAssumption DEF Page, Sum

\* A turn that ends with an answer changes what was told of that question only.
LEMMA TellOne ==
  ASSUME DOMAIN told = Questions, NEW q \in Questions, NEW answer, Tell(q, answer)
  PROVE  told'[q] = answer /\ \A p \in Questions : p # q => told'[p] = told[p]
BY DEF Tell

LEMMA SumStep == DerivedTypeOK /\ SumInv /\ [Next]_vars => SumInv'
<1> SUFFICES ASSUME DerivedTypeOK, SumInv, [Next]_vars PROVE SumInv'
  OBVIOUS
<1>0. DOMAIN told = Questions /\ Sums \subseteq Questions /\ Pages \subseteq Questions
  BY DEF DerivedTypeOK, Questions
<1>1. ASSUME NEW q \in Pages, NEW answer, Tell(q, answer), UNCHANGED store PROVE SumInv'
  <2>1. pc' = "asking" /\ \A p \in Sums : told'[p] = told[p]
    BY <1>0, <1>1, TellOne, QuestionsApart DEF Tell, EndTurn
  <2> QED
    BY <1>1, <2>1 DEF SumInv
<1>2. CASE \E q \in Questions : AskPage(q) /\ Cached
  <2>1. PICK q \in Pages : Show(analysis, q) /\ UNCHANGED store
    BY <1>2 DEF AskPage
  <2> QED
    BY <1>1, <2>1, ShowTells
<1>3. CASE AnalysisRefused
  BY <1>1, <1>3 DEF AnalysisRefused, DerivedTypeOK, Phases
<1>4. CASE IndexAgain
  <2>1. (\E answer : Tell(ask, answer)) /\ UNCHANGED store
    BY <1>4, ShowTells DEF IndexAgain
  <2>2. ask \in Pages
    BY <1>4 DEF IndexAgain, DerivedTypeOK, Phases
  <2> QED
    BY <1>1, <2>1, <2>2
<1>5. CASE \E q \in Questions : AskSum(q) /\ KeyOf(q) \in DOMAIN store
  <2>1. PICK q \in Sums : /\ Tell(q, SumOf(store[KeyOf(q)], q)) /\ UNCHANGED store
                          /\ KeyOf(q) \in DOMAIN store
    BY <1>5 DEF AskSum
  <2>2. /\ pc' = "asking"
        /\ told'[q].read = store[q.scope] /\ q.scope \in DOMAIN store
    BY <1>0, <2>1, TellOne DEF SumOf, KeyOf, Tell, EndTurn
  <2>3. \A p \in Sums : p # q => told'[p] = told[p]
    BY <1>0, <2>1, TellOne
  <2> QED
    BY <2>1, <2>2, <2>3 DEF SumInv
<1>6. CASE \E q \in Questions : AskSum(q) /\ KeyOf(q) \notin DOMAIN store
  BY <1>6 DEF AskSum, KeyOf, SumInv
<1>7. CASE ReadAll
  <2>1. ask \in Sums /\ Tell(ask, SumOf(Records(ask.scope), ask))
    BY <1>7 DEF ReadAll, DerivedTypeOK
  <2>2. /\ DOMAIN store' = DOMAIN store \cup {ask.scope}
        /\ store'[ask.scope] = Records(ask.scope)
        /\ \A k \in DOMAIN store : k # ask.scope => store'[k] = store[k]
    BY <1>7 DEF ReadAll, KeyOf
  <2>3. pc' = "asking" /\ told'[ask].read = store'[ask.scope]
    BY <1>0, <2>1, <2>2, TellOne DEF SumOf, Tell, EndTurn
  <2>4. \A p \in Sums : p # ask => told'[p] = told[p]
    BY <1>0, <2>1, TellOne
  <2>5. ask.scope \notin DOMAIN store
    BY <1>7 DEF ReadAll, SumInv
  <2>6. ASSUME NEW p \in Sums, told'[p].tool = "sum"
        PROVE  p.scope \in DOMAIN store' /\ told'[p].read = store'[p.scope]
    <3>1. CASE p = ask
      BY <2>2, <2>3, <3>1
    <3>2. CASE p # ask
      <4>1. p.scope \in DOMAIN store /\ told[p].read = store[p.scope]
        BY <2>4, <2>6, <3>2 DEF SumInv
      <4> QED
        BY <2>2, <2>4, <2>5, <3>2, <4>1
    <3> QED
      BY <3>1, <3>2
  <2> QED
    BY <2>3, <2>6 DEF SumInv
<1>8. CASE UNCHANGED <<told, store>> /\ pc' # "counting"
  BY <1>8 DEF SumInv
<1>9. CASE UNCHANGED <<told, store, pc, ask>>
  BY <1>9 DEF SumInv
<1>10. \/ \E q \in Questions : AskPage(q) /\ Cached
       \/ AnalysisRefused \/ IndexAgain
       \/ \E q \in Questions : AskSum(q) /\ KeyOf(q) \in DOMAIN store
       \/ \E q \in Questions : AskSum(q) /\ KeyOf(q) \notin DOMAIN store
       \/ ReadAll \/ (UNCHANGED <<told, store>> /\ pc' # "counting")
       \/ UNCHANGED <<told, store, pc, ask>>
  <2>1. CASE Loop
    BY <2>1 DEF Loop, AskPage, ListFirst, IndexFirst, ListAgain, ReadRaises, LoopWrites, EndTurn
  <2>2. CASE LogContact \/ Mates
    BY <2>2, LogKeepsTypes, MatesKeepTypes DEF loopVars
  <2>3. CASE UNCHANGED vars
    BY <2>3 DEF vars, loopVars
  <2> QED
    BY <2>1, <2>2, <2>3 DEF Next
<1> QED
  BY <1>2, <1>3, <1>4, <1>5, <1>6, <1>7, <1>8, <1>9, <1>10

\* Aggregates of one scope are made of the same records, whatever was written
\* between the questions (aggregate's cache of the records read).
THEOREM AggregatesAgree == Spec => []OneReadPerScope
<1>1. Init => SumInv
  BY DEF Init, SumInv, Untold, Questions
<1>2. SumInv => OneReadPerScope
  BY DEF SumInv, OneReadPerScope
<1> QED
  BY <1>1, <1>2, SumStep, DerivedTypeCorrect, PTL DEF Spec

-----------------------------------------------------------------------------
(* Pages.                                                                  *)

\* The k of a finite set that has n elements up to it: there is one for each n.
LEMMA PlacesOf ==
  ASSUME NEW kept \in SUBSET Nat, IsFiniteSet(kept)
  PROVE  /\ \A n \in 1 .. Cardinality(kept) :
               \E k \in kept : Cardinality({j \in kept : j <= k}) = n
         /\ Cardinality(kept) \in Nat
<1> DEFINE UpTo(k) == {j \in kept : j <= k}
           N == Cardinality(kept)
           place == [k \in kept |-> Cardinality(UpTo(k))]
<1>1. N \in Nat
  BY FS_CardinalityType
<1>2. \A k \in kept : IsFiniteSet(UpTo(k)) /\ Cardinality(UpTo(k)) \in Nat
                      /\ Cardinality(UpTo(k)) <= N
  <2> SUFFICES ASSUME NEW k \in kept
               PROVE  IsFiniteSet(UpTo(k)) /\ Cardinality(UpTo(k)) \in Nat
                      /\ Cardinality(UpTo(k)) <= N
    OBVIOUS
  <2>1. UpTo(k) \in SUBSET kept
    OBVIOUS
  <2> HIDE DEF UpTo
  <2>2. IsFiniteSet(UpTo(k)) /\ Cardinality(UpTo(k)) <= N
    BY <2>1, FS_Subset
  <2> QED
    BY <2>2, FS_CardinalityType
<1>3. \A k \in kept : Cardinality(UpTo(k)) \in 1 .. N
  <2> SUFFICES ASSUME NEW k \in kept PROVE Cardinality(UpTo(k)) \in 1 .. N
    OBVIOUS
  <2>1. UpTo(k) # {}
    OBVIOUS
  <2> HIDE DEF UpTo
  <2>2. Cardinality(UpTo(k)) # 0
    BY <1>2, <2>1, FS_EmptySet
  <2> QED
    BY <1>1, <1>2, <2>2
<1>4. ASSUME NEW k \in kept, NEW l \in kept, k < l
      PROVE  Cardinality(UpTo(k)) < Cardinality(UpTo(l))
  <2>1. UpTo(k) \in SUBSET UpTo(l) /\ UpTo(k) # UpTo(l)
    <3>1. k \in Nat /\ l \in Nat /\ \A j \in kept : j \in Nat
      OBVIOUS
    <3>2. \A j \in kept : j <= k => j <= l
      BY <1>4, <3>1
    <3>3. UpTo(k) \in SUBSET UpTo(l)
      BY <3>2
    <3>4. l \in UpTo(l) /\ l \notin UpTo(k)
      BY <1>4, <3>1
    <3> QED
      BY <3>3, <3>4
  <2> HIDE DEF UpTo
  <2>2. /\ Cardinality(UpTo(k)) <= Cardinality(UpTo(l))
        /\ Cardinality(UpTo(k)) # Cardinality(UpTo(l))
    BY <1>2, <2>1, FS_Subset
  <2> QED
    BY <1>2, <2>2
<1>5. \A k, l \in kept : Cardinality(UpTo(k)) = Cardinality(UpTo(l)) => k = l
  <2> SUFFICES ASSUME NEW k \in kept, NEW l \in kept, k # l
               PROVE Cardinality(UpTo(k)) # Cardinality(UpTo(l))
    OBVIOUS
  <2> HIDE DEF UpTo
  <2>1. k < l \/ l < k
    OBVIOUS
  <2> QED
    BY <1>2, <1>4, <2>1
<1> HIDE DEF UpTo
<1>6. place \in Injection(kept, 1 .. N)
  BY <1>3, <1>5 DEF Injection, IsInjective
<1>7. IsFiniteSet(1 .. N) /\ Cardinality(1 .. N) = N
  <2>1. /\ IsFiniteSet(1 .. N) /\ Cardinality(1 .. N) = IF 1 > N THEN 0 ELSE N - 1 + 1
    BY <1>1, FS_Interval
  <2> QED
    BY <1>1, <2>1
<1> HIDE DEF place
<1>8. place \in Surjection(kept, 1 .. N)
  BY <1>6, <1>7, FS_Injection
<1>9. \A n \in 1 .. N : \E k \in kept : place[k] = n
  BY <1>8 DEF Surjection
<1> QED
  BY <1>1, <1>9 DEF place, UpTo

\* A list in which each deal has one row.
Listing(s) ==
    /\ s \in Seq({s[i] : i \in DOMAIN s})
    /\ \A i, j \in DOMAIN s : s[i].deal = s[j].deal => i = j

LEMMA FunctionIsSeq ==
  ASSUME NEW n \in Nat, NEW s, s = [i \in 1 .. n |-> s[i]]
  PROVE  s \in Seq({s[i] : i \in DOMAIN s}) /\ Len(s) = n
<1>1. DOMAIN s = 1 .. n
  OBVIOUS
<1>2. s \in [1 .. n -> {s[i] : i \in DOMAIN s}]
  BY <1>1
<1> QED
  BY <1>1, <1>2

\* A section of a list is a list.
LEMMA SectionIsListing ==
  ASSUME NEW a, Listing(a.rows), NEW rottingOnly
  PROVE  Listing(Section(a, rottingOnly))
<1> DEFINE kept == {k \in DOMAIN a.rows : rottingOnly => a.rows[k].why # {}}
           UpTo(k) == Cardinality({j \in kept : j <= k})
           pick(n) == CHOOSE k \in kept : UpTo(k) = n
           s == Section(a, rottingOnly)
<1>1. DOMAIN a.rows = 1 .. Len(a.rows) /\ Len(a.rows) \in Nat
  BY DEF Listing
<1>2. kept \in SUBSET Nat /\ IsFiniteSet(kept)
  <2>1. IsFiniteSet(1 .. Len(a.rows))
    BY <1>1, FS_Interval
  <2>2. kept \in SUBSET (1 .. Len(a.rows))
    BY <1>1
  <2> HIDE DEF kept
  <2>3. IsFiniteSet(kept)
    BY <2>1, <2>2, FS_Subset
  <2>4. kept \in SUBSET Nat
    BY <1>1, <2>2
  <2> QED
    BY <2>3, <2>4
<1>3. \A k \in kept : k \in DOMAIN a.rows
  OBVIOUS
<1>4. s = [n \in 1 .. Cardinality(kept) |-> a.rows[pick(n)]]
  BY DEF Section
<1> HIDE DEF kept, s
<1>5. Cardinality(kept) \in Nat
      /\ \A n \in 1 .. Cardinality(kept) : pick(n) \in kept /\ UpTo(pick(n)) = n
  BY <1>2, PlacesOf
<1> HIDE DEF pick, UpTo
<1>6. DOMAIN s = 1 .. Cardinality(kept) /\ s = [n \in 1 .. Cardinality(kept) |-> s[n]]
  BY <1>4
<1>7. \A i, j \in DOMAIN s : s[i].deal = s[j].deal => i = j
  <2> SUFFICES ASSUME NEW i \in DOMAIN s, NEW j \in DOMAIN s, s[i].deal = s[j].deal
               PROVE i = j
    OBVIOUS
  <2>1. s[i] = a.rows[pick(i)] /\ s[j] = a.rows[pick(j)]
    BY <1>4, <1>6
  <2>2. pick(i) = pick(j)
    BY <1>3, <1>5, <1>6, <2>1 DEF Listing
  <2> QED
    BY <1>5, <1>6, <2>2
<1>8. s \in Seq({s[i] : i \in DOMAIN s})
  BY <1>5, <1>6, FunctionIsSeq
<1>9. Listing(s)
  BY <1>7, <1>8 DEF Listing
<1> QED
  BY <1>9 DEF s

LEMMA SmallerOfTwo ==
  ASSUME NEW m \in Nat, NEW n \in Nat
  PROVE  Min({m, n}) = IF m <= n THEN m ELSE n
<1> DEFINE least == IF m <= n THEN m ELSE n
<1>1. least \in {m, n} /\ \A y \in {m, n} : least <= y
  OBVIOUS
<1> HIDE DEF least
<1>2. \A z \in {m, n} : (\A y \in {m, n} : z =< y) => z = least
  BY <1>1
<1>3. Min({m, n}) = least
  BY <1>1, <1>2 DEF Min
<1> QED
  BY <1>3 DEF least

\* A slice that begins in or behind a sequence ends with it at the latest.
EndOf(s, to) == IF to <= Len(s) THEN to ELSE Len(s)

Sliced(s, from, to, part) ==
    /\ Len(part) = IF from < EndOf(s, to) THEN EndOf(s, to) - from ELSE 0
    /\ DOMAIN part = 1 .. Len(part)
    /\ \A i \in 1 .. Len(part) : part[i] = s[from + i]

LEMMA SliceIs ==
  ASSUME NEW T, NEW s \in Seq(T), NEW from \in Nat, NEW to \in Nat
  PROVE  /\ Slice(s, from + 1, to) \in Seq(T)
         /\ Sliced(s, from, to, Slice(s, from + 1, to))
<1> DEFINE end == EndOf(s, to)
           part == SubSeq(s, from + 1, end)
<1>1. Len(s) \in Nat /\ DOMAIN s = 1 .. Len(s) /\ \A i \in DOMAIN s : s[i] \in T
  OBVIOUS
<1>2. end \in Nat /\ end <= Len(s) /\ end <= to /\ end \in {to, Len(s)}
  BY <1>1 DEF EndOf
<1>3. Max({1, from + 1}) = from + 1
  <2>1. {1, from + 1} \subseteq Int /\ \A y \in {1, from + 1} : from + 1 >= y
    OBVIOUS
  <2> QED
    BY <2>1, LargestIsMax
<1> HIDE DEF end
<1>4. Min({to, Len(s)}) = end
  BY <1>1, SmallerOfTwo DEF end, EndOf
<1>5. Slice(s, from + 1, to) = part
  BY <1>3, <1>4 DEF Slice
<1>6. \A i \in from + 1 .. end : s[i] \in T
  <2> SUFFICES ASSUME NEW i \in from + 1 .. end PROVE s[i] \in T
    OBVIOUS
  <2>1. end \in Nat /\ Len(s) \in Nat /\ end <= Len(s)
    BY <1>1, <1>2
  <2>2. i \in Nat /\ 1 <= i /\ i <= end
    BY <2>1
  <2>3. i \in 1 .. Len(s)
    BY <2>1, <2>2
  <2> QED
    BY <1>1, <2>3
<1> HIDE DEF part
<1>7. /\ part \in Seq(T)
      /\ Len(part) = IF from + 1 <= end THEN end - (from + 1) + 1 ELSE 0
      /\ \A i \in 1 .. end - (from + 1) + 1 : part[i] = s[(from + 1) + i - 1]
  BY <1>2, <1>6, SubSeqProperties DEF part
<1>8. Len(part) = IF from < end THEN end - from ELSE 0
  BY <1>2, <1>7
<1>9. DOMAIN part = 1 .. Len(part)
  BY <1>7
<1>10. ASSUME NEW i \in 1 .. Len(part) PROVE part[i] = s[from + i]
  <2>1. i \in 1 .. end - (from + 1) + 1 /\ (from + 1) + i - 1 = from + i
    BY <1>2, <1>8
  <2>2. part[i] = s[(from + 1) + i - 1]
    BY <1>7, <2>1
  <2> QED
    BY <2>1, <2>2
<1> QED
  BY <1>5, <1>7, <1>8, <1>9, <1>10 DEF Sliced, end

\* The places of a page.
Between(s, offset, limit) == {m \in 1 .. Len(s) : offset < m /\ m <= offset + limit}

\* What an answer shows of a section, all of its page if it was not cut off, and
\* where it leads.
Shows(s, offset, limit, v) ==
    /\ v.total = Len(s)
    /\ v.next = IF offset + limit < Len(s) THEN offset + limit ELSE 0
    /\ \A d \in Shown(v) : \E n \in Between(s, offset, limit) : d = s[n].deal
    /\ Len(v.shown) = v.returned => \A n \in Between(s, offset, limit) : s[n].deal \in Shown(v)

LEMMA PageOf ==
  ASSUME NEW a, Listing(a.rows), NEW q \in Pages, NEW whole \in Nat
  PROVE  Shows(Section(a, q.rotting), q.offset, q.limit, ViewOf(a, q, whole))
<1> DEFINE s == Section(a, q.rotting)
           T == {s[i] : i \in DOMAIN s}
           chunk == CutAfter(s, q)
           shown == Slice(chunk, 1, whole)
           v == ViewOf(a, q, whole)
<1>1. s \in Seq(T) /\ Len(s) \in Nat
  BY SectionIsListing DEF Listing
<1>2. q.offset \in Nat /\ q.limit \in Nat \ {0}
  BY DerivedAssumption DEF Page
<1>3. v = [tool |-> "view", total |-> Len(s), returned |-> Len(chunk),
                      next |-> IF q.offset + Len(chunk) < Len(s) THEN q.offset + Len(chunk) ELSE 0,
                      shown |-> shown]
  BY DEF ViewOf
<1> HIDE DEF s, T, v
<1>4. chunk \in Seq(T) /\ Sliced(s, q.offset, q.offset + q.limit, chunk)
  <2>1. q.offset + q.limit \in Nat
    BY <1>2
  <2>2. /\ Slice(s, q.offset + 1, q.offset + q.limit) \in Seq(T)
        /\ Sliced(s, q.offset, q.offset + q.limit, Slice(s, q.offset + 1, q.offset + q.limit))
    BY <1>1, <1>2, <2>1, SliceIs
  <2> QED
    BY <2>2 DEF CutAfter
<1> HIDE DEF chunk
<1>5. Len(chunk) \in Nat /\ Len(chunk) <= q.limit
  BY <1>1, <1>2, <1>4 DEF Sliced, EndOf
<1>6. Sliced(chunk, 0, whole, shown)
  <2>1. /\ Slice(chunk, 0 + 1, whole) \in Seq(T)
        /\ Sliced(chunk, 0, whole, Slice(chunk, 0 + 1, whole))
    BY <1>4, SliceIs
  <2>2. 0 + 1 = 1
    OBVIOUS
  <2> QED
    BY <2>1, <2>2
<1> HIDE DEF shown
<1>7. /\ Len(shown) \in Nat /\ Len(shown) <= Len(chunk) /\ DOMAIN shown = 1 .. Len(shown)
      /\ \A i \in 1 .. Len(shown) : shown[i] = s[q.offset + i]
  <2>1. EndOf(chunk, whole) \in Nat /\ EndOf(chunk, whole) <= Len(chunk)
    BY <1>5 DEF EndOf
  <2>2. /\ Len(shown) \in Nat /\ Len(shown) <= Len(chunk) /\ DOMAIN shown = 1 .. Len(shown)
    BY <1>5, <1>6, <2>1 DEF Sliced
  <2>3. ASSUME NEW i \in 1 .. Len(shown) PROVE shown[i] = s[q.offset + i]
    <3>1. shown[i] = chunk[0 + i] /\ 0 + i = i
      BY <1>6, <2>2, <2>3 DEF Sliced
    <3>2. chunk[i] = s[q.offset + i]
      BY <1>4, <1>5, <2>2, <2>3 DEF Sliced
    <3> QED
      BY <3>1, <3>2
  <2> QED
    BY <2>2, <2>3
<1>8. q.offset + Len(chunk) = q.offset + q.limit
      \/ (q.offset + Len(chunk) >= Len(s) /\ q.offset + q.limit >= Len(s))
  BY <1>1, <1>2, <1>4 DEF Sliced, EndOf
<1>9. v.next = IF q.offset + q.limit < Len(s) THEN q.offset + q.limit ELSE 0
  <2>1. v.next = IF q.offset + Len(chunk) < Len(s) THEN q.offset + Len(chunk) ELSE 0
    BY <1>3
  <2> QED
    BY <1>1, <1>2, <1>5, <1>8, <2>1
<1>10. \A i \in 1 .. Len(chunk) : q.offset + i \in Between(s, q.offset, q.limit)
  BY <1>1, <1>2, <1>4 DEF Sliced, EndOf, Between
<1>11. \A n \in Between(s, q.offset, q.limit) :
          n - q.offset \in 1 .. Len(chunk) /\ q.offset + (n - q.offset) = n
  BY <1>1, <1>2, <1>4 DEF Sliced, EndOf, Between
<1>12. Shown(v) = {shown[k].deal : k \in 1 .. Len(shown)}
  BY <1>3, <1>7 DEF Shown
<1>13. \A d \in Shown(v) : \E n \in Between(s, q.offset, q.limit) : d = s[n].deal
  <2> SUFFICES ASSUME NEW k \in 1 .. Len(shown)
               PROVE  \E n \in Between(s, q.offset, q.limit) : shown[k].deal = s[n].deal
    BY <1>12
  <2>1. k \in 1 .. Len(chunk)
    BY <1>5, <1>7
  <2> QED
    BY <1>7, <1>10, <2>1
<1>14. ASSUME Len(v.shown) = v.returned, NEW n \in Between(s, q.offset, q.limit)
       PROVE  s[n].deal \in Shown(v)
  <2>1. Len(shown) = Len(chunk)
    BY <1>3, <1>14
  <2>2. shown[n - q.offset] = s[n] /\ n - q.offset \in 1 .. Len(shown)
    BY <1>7, <1>11, <2>1
  <2> QED
    BY <1>12, <2>2
<1>15. v.total = Len(s)
  BY <1>3
<1>16. Shows(s, q.offset, q.limit, v)
  BY <1>9, <1>13, <1>14, <1>15 DEF Shows
<1> QED
  BY <1>16 DEF s, v

\* The offsets of pages that follow each other.
Tiling(O, limit, len) ==
    /\ 0 \in O
    /\ \A o \in O : o + limit < len => o + limit \in O
    /\ \A o \in O : o # 0 => \E m \in O : m + limit < len /\ o = m + limit

\* They leave no row out and take none twice.
LEMMA TilingCovers ==
  ASSUME NEW O \in SUBSET Nat, NEW limit \in Nat \ {0}, NEW len \in Nat, Tiling(O, limit, len),
         NEW n \in 1 .. len
  PROVE  \E o \in O : o < n /\ n <= o + limit
<1> DEFINE Gaps == {g \in Nat : \E o \in O : o < n /\ g = n - o}
<1>1. n - 0 \in Gaps
  BY DEF Tiling
<1>2. PICK g \in Gaps : \A h \in Gaps : ~(<<h, g>> \in OpToRel(<, Nat))
  BY <1>1, NatLessThanWellFounded, WFMin
<1>3. \A h \in Gaps : ~(h < g)
  BY <1>2, Zenon DEF OpToRel
<1>4. PICK o \in O : o < n /\ g = n - o
  OBVIOUS
<1>5. ASSUME o + limit < n PROVE FALSE
  <2>1. o + limit \in O /\ o \in Nat
    BY <1>5 DEF Tiling
  <2>2. n - (o + limit) \in Gaps
    BY <1>5, <2>1
  <2>3. n - (o + limit) < g
    BY <1>4, <2>1
  <2> QED
    BY <1>3, <2>2, <2>3
<1> QED
  BY <1>4, <1>5

LEMMA TilingApart ==
  ASSUME NEW O \in SUBSET Nat, NEW limit \in Nat \ {0}, NEW len \in Nat, Tiling(O, limit, len),
         NEW o \in O, NEW p \in O, o < p
  PROVE  o + limit <= p
<1> DEFINE Bad == {b \in O : \E a \in O : a < b /\ b < a + limit}
<1>1. SUFFICES ASSUME Bad # {} PROVE FALSE
  OBVIOUS
<1>2. PICK b \in Bad : \A c \in Bad : ~(<<c, b>> \in OpToRel(<, Nat))
  <2>1. Bad \subseteq Nat
    OBVIOUS
  <2> HIDE DEF Bad
  <2> QED
    BY <1>1, <2>1, NatLessThanWellFounded, WFMin
<1>3. \A c \in Bad : ~(c < b)
  BY <1>2, Zenon DEF OpToRel
<1>4. PICK a \in O : a < b /\ b < a + limit
  OBVIOUS
<1>5. PICK m \in O : b = m + limit
  BY <1>4 DEF Tiling
<1>6. a \in Nat /\ b \in Nat /\ m \in Nat
  OBVIOUS
<1>7. m < a /\ a < m + limit
  BY <1>4, <1>5, <1>6
<1>8. a \in Bad
  BY <1>7
<1> QED
  BY <1>3, <1>4, <1>8

\* A page of the analysis kept.
IsView(q, answer) == analysis # None /\ \E whole \in Nat : answer = ViewOf(analysis, q, whole)

\* What was told of a page is one.
ViewInv ==
    /\ analysis # None => Listing(analysis.rows)
    /\ \A q \in Pages : told[q].tool = "view" => IsView(q, told[q])

LEMMA OrderedIsListing ==
  ASSUME NEW D \in SUBSET Deals, NEW flags,
         NEW ordered \in Sorted({RowOf(rows, d, flags) : d \in D})
  PROVE  Listing(ordered)
<1> DEFINE S == {RowOf(rows, d, flags) : d \in D}
<1>1. RowsOf(ordered, D, flags)
  BY RowsByDeal
<1>2. IsFiniteSet(S)
  <2> DEFINE f == [d \in D |-> RowOf(rows, d, flags)]
  <2>1. f \in Surjection(D, S)
    BY DEF Surjection
  <2>2. IsFiniteSet(D)
    BY FS_Subset, DerivedAssumption
  <2> HIDE DEF f
  <2> QED
    BY <2>1, <2>2, FS_Surjection
<1> HIDE DEF S
<1>3. Cardinality(S) \in Nat
  BY <1>2, FS_CardinalityType
<1>4. ordered = [n \in 1 .. Cardinality(S) |-> ordered[n]]
  BY DEF Sorted, S
<1>5. ordered \in Seq({ordered[i] : i \in DOMAIN ordered})
  BY <1>3, <1>4, FunctionIsSeq
<1> QED
  BY <1>1, <1>5 DEF RowsOf, Listing

\* What is cached is an analysis, and not None.
LEMMA AnalysisIsOne ==
  ASSUME DerivedTypeOK, NEW ordered \in Sorted({RowOf(rows, d, flagged) : d \in listed})
  PROVE  AnalysisOf(ordered) # None
<1> DEFINE R == [deal : Deals, contact : Nat, action : BOOLEAN, why : SUBSET Nat]
<1>1. \A d \in Deals : RowOf(rows, d, flagged) \in R
  <2> SUFFICES ASSUME NEW d \in Deals PROVE RowOf(rows, d, flagged) \in R
    OBVIOUS
  <2>1. LastContact(rows, d) \in Nat
    BY LastIsADay DEF DerivedTypeOK
  <2>2. HasAction(rows, d) \in BOOLEAN
    BY DEF HasAction
  <2>3. {flagged[e] : e \in DOMAIN flagged \cap {d}} \in SUBSET Nat
    BY DEF DerivedTypeOK
  <2> QED
    BY <2>1, <2>2, <2>3 DEF RowOf
<1>2. RowsOf(ordered, listed, flagged)
  BY RowsByDeal DEF DerivedTypeOK
<1>3. \A k \in DOMAIN ordered : ordered[k] \in R
  <2> HIDE DEF R
  <2> QED
    BY <1>1, <1>2 DEF RowsOf, DerivedTypeOK
<1>4. Listing(ordered)
  BY OrderedIsListing DEF DerivedTypeOK
<1>5. ordered \in Seq(R)
  <2> HIDE DEF R
  <2> QED
    BY <1>3, <1>4 DEF Listing
<1>6. Cardinality(DOMAIN flagged) \in Nat
  <2>1. IsFiniteSet(DOMAIN flagged)
    BY FS_Subset, DerivedAssumption DEF DerivedTypeOK
  <2> QED
    BY <2>1, FS_CardinalityType
<1>7. AnalysisOf(ordered) \in Analysis
  BY <1>5, <1>6 DEF AnalysisOf, Analysis
<1> QED
  BY <1>7, DerivedAssumption

LEMMA ViewStep == DerivedTypeOK /\ ReadsInv /\ ViewInv /\ [Next]_vars => ViewInv'
<1> SUFFICES ASSUME DerivedTypeOK, ReadsInv, ViewInv, [Next]_vars PROVE ViewInv'
  OBVIOUS
<1>0. DOMAIN told = Questions /\ Sums \subseteq Questions /\ Pages \subseteq Questions
  BY DEF DerivedTypeOK, Questions
<1>1. ASSUME NEW q \in Questions, NEW answer, Tell(q, answer), UNCHANGED analysis,
             q \in Pages /\ answer.tool = "view" => IsView(q, answer)
      PROVE  ViewInv'
  <2>1. told'[q] = answer /\ \A p \in Questions : p # q => told'[p] = told[p]
    BY <1>0, <1>1, TellOne
  <2>2. ASSUME NEW p \in Pages, told'[p].tool = "view"
        PROVE  IsView(p, told'[p])
    <3>1. CASE p = q
      BY <1>1, <2>1, <2>2, <3>1
    <3>2. CASE p # q
      BY <1>0, <2>1, <2>2, <3>2 DEF ViewInv
    <3> QED
      BY <3>1, <3>2
  <2> QED
    BY <1>1, <2>2 DEF ViewInv, IsView
<1>2. CASE \E q \in Questions : AskPage(q) /\ Cached
  <2>1. PICK q \in Pages : Show(analysis, q) /\ UNCHANGED analysis /\ analysis # None
    BY <1>2 DEF AskPage, Cached
  <2>2. PICK whole \in 0 .. q.limit : Tell(q, ViewOf(analysis, q, whole))
    BY <2>1 DEF Show
  <2>3. whole \in Nat
    BY DerivedAssumption DEF Page
  <2>4. IsView(q, ViewOf(analysis, q, whole))
    BY <2>1, <2>3 DEF IsView
  <2> QED
    BY <1>0, <1>1, <2>1, <2>2, <2>4
<1>3. CASE AnalysisRefused
  <2>1. Tell(ask, Error) /\ UNCHANGED analysis /\ ask \in Questions /\ Error.tool # "view"
    BY <1>0, <1>3 DEF AnalysisRefused, DerivedTypeOK, Phases, Error
  <2> QED
    BY <1>1, <2>1
<1>4. CASE IndexAgain
  <2>1. PICK ordered \in Sorted({RowOf(rows, d, flagged) : d \in listed}) :
           analysis' = AnalysisOf(ordered) /\ Show(AnalysisOf(ordered), ask)
    BY <1>4 DEF IndexAgain
  <2>2. ask \in Pages /\ analysis = None
    BY <1>4 DEF IndexAgain, DerivedTypeOK, ReadsInv, PassInv, Phases
  <2>3. Listing(analysis'.rows)
    <3>1. analysis'.rows = ordered
      BY <2>1, Zenon DEF AnalysisOf
    <3>2. Listing(ordered)
      BY <2>1, OrderedIsListing DEF DerivedTypeOK
    <3> QED
      BY <3>1, <3>2
  <2>4. analysis' # None
    BY <2>1, AnalysisIsOne
  <2>5. PICK whole \in 0 .. ask.limit : Tell(ask, ViewOf(analysis', ask, whole))
    BY <2>1 DEF Show
  <2>7. whole \in Nat
    BY <2>2, DerivedAssumption DEF Page
  <2>8. /\ told'[ask] = ViewOf(analysis', ask, whole)
        /\ \A p \in Questions : p # ask => told'[p] = told[p]
    BY <1>0, <2>2, <2>5, TellOne, Zenon
  <2>6. \A p \in Pages : told[p].tool # "view"
    BY <2>2 DEF ViewInv, IsView
  <2> QED
    <3>1. \A p \in Pages : told'[p].tool = "view" => p = ask
      BY <1>0, <2>6, <2>8
    <3>2. \A p \in Pages : told'[p].tool = "view" =>
             analysis' # None /\ \E w \in Nat : told'[p] = ViewOf(analysis', p, w)
      BY <2>4, <2>7, <2>8, <3>1
    <3> QED
      BY <2>3, <3>2 DEF ViewInv, IsView
<1>5. CASE \E q \in Sums : \E answer : Tell(q, answer) /\ UNCHANGED analysis
  BY <1>0, <1>1, <1>5, QuestionsApart
<1>6. CASE UNCHANGED <<told, analysis>>
  BY <1>6 DEF ViewInv, IsView
<1>7. \/ \E q \in Questions : AskPage(q) /\ Cached
      \/ AnalysisRefused \/ IndexAgain
      \/ \E q \in Sums : \E answer : Tell(q, answer) /\ UNCHANGED analysis
      \/ UNCHANGED <<told, analysis>>
  <2>1. CASE Loop
    <3>1. CASE \E q \in Questions : AskSum(q)
      BY <3>1 DEF AskSum
    <3>2. CASE ReadAll
      BY <3>2 DEF ReadAll, DerivedTypeOK
    <3>3. CASE \E q \in Questions : AskPage(q)
      BY <3>3 DEF AskPage
    <3> QED
      BY <2>1, <3>1, <3>2, <3>3 DEF Loop, ListFirst, IndexFirst, ListAgain, ReadRaises, LoopWrites
  <2>2. CASE LogContact \/ Mates
    BY <2>2, LogKeepsTypes, MatesKeepTypes DEF loopVars
  <2>3. CASE UNCHANGED vars
    BY <2>3 DEF vars, loopVars
  <2> QED
    BY <2>1, <2>2, <2>3 DEF Next
<1> QED
  BY <1>2, <1>3, <1>4, <1>5, <1>6, <1>7

\* Each page told, of one section, shows its part of the analysis kept.
LEMMA RunShows ==
  ASSUME ViewInv, NEW q \in Pages,
         NEW run \in SUBSET Viewed(q.rotting, q.limit), run # {}
  PROVE  /\ Listing(Section(analysis, q.rotting))
         /\ \A p \in run : /\ p \in Page /\ p.rotting = q.rotting /\ p.limit = q.limit
                           /\ Shows(Section(analysis, q.rotting), p.offset, q.limit, told[p])
<1>1. \A p \in run : /\ p \in Pages /\ p.rotting = q.rotting /\ p.limit = q.limit
                     /\ told[p].tool = "view"
  BY DEF Viewed
<1>2. /\ Listing(analysis.rows)
      /\ \A p \in run : \E whole \in Nat : told[p] = ViewOf(analysis, p, whole)
  BY <1>1 DEF ViewInv, IsView
<1>3. Listing(Section(analysis, q.rotting))
  BY <1>2, SectionIsListing
<1>4. ASSUME NEW p \in run
      PROVE  Shows(Section(analysis, q.rotting), p.offset, q.limit, told[p])
  BY <1>1, <1>2, PageOf
<1> QED
  BY <1>1, <1>3, <1>4, DerivedAssumption

LEMMA RunTiles ==
  ASSUME NEW s, Len(s) \in Nat, NEW limit \in Nat \ {0}, NEW run \in SUBSET Page,
         \A p \in run : Shows(s, p.offset, limit, told[p]), Followed(run)
  PROVE  Tiling({p.offset : p \in run}, limit, Len(s))
<1> DEFINE O == {p.offset : p \in run}
<1>1. \A p \in run : p.offset \in Nat
  BY DEF Page
<1>2. \A p \in run :
         told[p].next = IF p.offset + limit < Len(s) THEN p.offset + limit ELSE 0
  BY DEF Shows
<1>3. 0 \in O
  BY DEF Followed
<1>4. ASSUME NEW p \in run, p.offset + limit < Len(s) PROVE p.offset + limit \in O
  <2>1. told[p].next = p.offset + limit /\ told[p].next # 0
    BY <1>1, <1>2, <1>4
  <2> QED
    BY <2>1 DEF Followed
<1>5. ASSUME NEW p \in run, p.offset # 0
      PROVE  \E m \in O : m + limit < Len(s) /\ p.offset = m + limit
  <2>1. PICK o \in run : told[o].next = p.offset
    BY <1>5 DEF Followed
  <2>2. o.offset + limit < Len(s) /\ p.offset = o.offset + limit
    BY <1>2, <1>5, <2>1
  <2> QED
    BY <2>2
<1> QED
  BY <1>3, <1>4, <1>5 DEF Tiling

\* The deals of a list are as many as its rows.
LEMMA ListedDeals ==
  ASSUME NEW s, Listing(s)
  PROVE  Cardinality({s[n].deal : n \in 1 .. Len(s)}) = Len(s)
<1> DEFINE D == {s[n].deal : n \in 1 .. Len(s)}
           f == [n \in 1 .. Len(s) |-> s[n].deal]
<1>1. Len(s) \in Nat /\ DOMAIN s = 1 .. Len(s)
  BY DEF Listing
<1>2. \A i, j \in 1 .. Len(s) : s[i].deal = s[j].deal => i = j
  BY <1>1 DEF Listing
<1>3. f \in Bijection(1 .. Len(s), D)
  <2>1. f \in [1 .. Len(s) -> D]
    OBVIOUS
  <2>2. \A i, j \in 1 .. Len(s) : f[i] = f[j] => i = j
    BY <1>2
  <2>3. \A d \in D : \E n \in 1 .. Len(s) : f[n] = d
    OBVIOUS
  <2> HIDE DEF f, D
  <2> QED
    BY <2>1, <2>2, <2>3 DEF Bijection, Injection, Surjection, IsInjective
<1>4. IsFiniteSet(1 .. Len(s)) /\ Cardinality(1 .. Len(s)) = Len(s)
  <2>1. /\ IsFiniteSet(1 .. Len(s))
        /\ Cardinality(1 .. Len(s)) = IF 1 > Len(s) THEN 0 ELSE Len(s) - 1 + 1
    BY <1>1, FS_Interval
  <2> QED
    BY <1>1, <2>1
<1> HIDE DEF f, D
<1>5. ExistsBijection(1 .. Len(s), D)
  BY <1>3 DEF ExistsBijection
<1>6. Cardinality(1 .. Len(s)) = Cardinality(D)
  BY <1>4, <1>5, FS_Bijection
<1> QED
  BY <1>4, <1>6 DEF D

LEMMA RunsTile ==
  ASSUME ViewInv, NEW q \in Pages,
         NEW run \in SUBSET Viewed(q.rotting, q.limit), Followed(run)
  PROVE  /\ \A o, p \in run : o # p => Shown(told[o]) \cap Shown(told[p]) = {}
         /\ (\A p \in run : Len(told[p].shown) = told[p].returned) => SeesAll(run)
<1> DEFINE s == Section(analysis, q.rotting)
           O == {p.offset : p \in run}
<1>1. Listing(s)
  BY RunShows DEF Followed
<1>2. \A p \in run : p \in Page /\ p.rotting = q.rotting /\ p.limit = q.limit
                     /\ Shows(s, p.offset, q.limit, told[p])
  BY RunShows
<1> HIDE DEF s
<1>3. Len(s) \in Nat /\ DOMAIN s = 1 .. Len(s) /\ q.limit \in Nat \ {0}
  BY <1>1, DerivedAssumption DEF Listing, Page
<1>4. \A p \in run : p.offset \in Nat
  BY <1>2 DEF Page
<1>5. Tiling(O, q.limit, Len(s)) /\ O \in SUBSET Nat
  <2>1. run \in SUBSET Page
    BY <1>2
  <2> QED
    BY <1>2, <1>3, <1>4, <2>1, RunTiles
<1>6. \A p \in run : /\ told[p].total = Len(s)
                     /\ \A d \in Shown(told[p]) :
                           \E n \in Between(s, p.offset, q.limit) : d = s[n].deal
                     /\ Len(told[p].shown) = told[p].returned =>
                           \A n \in Between(s, p.offset, q.limit) : s[n].deal \in Shown(told[p])
  BY <1>2 DEF Shows
<1> DEFINE D == {s[n].deal : n \in 1 .. Len(s)}
<1>7. ASSUME \A p \in run : Len(told[p].shown) = told[p].returned
      PROVE  UNION {Shown(told[o]) : o \in run} = D
  <2>1. ASSUME NEW o \in run PROVE Shown(told[o]) \subseteq D
    BY <1>6, <2>1 DEF Between
  <2>2. ASSUME NEW n \in 1 .. Len(s)
        PROVE  \E o \in run : s[n].deal \in Shown(told[o])
    <3>1. PICK m \in O : m < n /\ n <= m + q.limit
      BY <1>3, <1>5, TilingCovers
    <3>2. PICK o \in run : o.offset = m
      OBVIOUS
    <3>3. n \in Between(s, o.offset, q.limit)
      BY <3>1, <3>2 DEF Between
    <3> QED
      BY <1>6, <1>7, <3>3
  <2>3. \A d \in D : \E o \in run : d \in Shown(told[o])
    BY <2>2
  <2> HIDE DEF D
  <2> QED
    BY <2>1, <2>3
<1>8. (\A p \in run : Len(told[p].shown) = told[p].returned) => SeesAll(run)
  <2> SUFFICES ASSUME \A p \in run : Len(told[p].shown) = told[p].returned
               PROVE  \A p \in run : told[p].total = Cardinality(UNION {Shown(told[o]) : o \in run})
    BY DEF SeesAll
  <2>1. Cardinality(D) = Len(s)
    BY <1>1, ListedDeals
  <2> HIDE DEF D
  <2> QED
    BY <1>6, <1>7, <2>1
<1>9. ASSUME NEW o \in run, NEW p \in run, o # p
      PROVE  Shown(told[o]) \cap Shown(told[p]) = {}
  <2>1. o.offset # p.offset
    BY <1>2, <1>9 DEF Page
  <2>2. o.offset + q.limit <= p.offset \/ p.offset + q.limit <= o.offset
    <3>1. o.offset \in O /\ p.offset \in O /\ (o.offset < p.offset \/ p.offset < o.offset)
      BY <1>4, <2>1
    <3> HIDE DEF O
    <3> QED
      BY <1>3, <1>5, <3>1, TilingApart
  <2>3. \A m \in Between(s, o.offset, q.limit), n \in Between(s, p.offset, q.limit) : m # n
    BY <1>3, <1>4, <2>2 DEF Between
  <2>4. \A m \in Between(s, o.offset, q.limit), n \in Between(s, p.offset, q.limit) :
           s[m].deal # s[n].deal
    BY <1>1, <1>3, <2>3 DEF Listing, Between
  <2> QED
    BY <1>6, <2>4
<1> QED
  BY <1>8, <1>9

LEMMA ViewKept == Spec => []ViewInv
<1>1. Init => ViewInv
  BY DEF Init, ViewInv, Untold, Questions
<1> QED
  BY <1>1, ViewStep, DerivedTypeCorrect, ReadsKept, PTL DEF Spec

\* A model that pages a section from its start as far as it is led never sees a
\* deal twice, and where no answer was cut off it has seen each, as many as total
\* says, whatever was asked and written meanwhile (view, _page).
THEOREM PagesFollow == Spec => []PagesTile
<1>1. ViewInv => PagesTile
  BY RunsTile DEF PagesTile
<1> QED
  BY <1>1, ViewKept, PTL
=============================================================================
