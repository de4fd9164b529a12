--------------------------- MODULE TransportProofs ---------------------------
(***************************************************************************)
(* The handshake, proved for any number of callers and operations.         *)
(***************************************************************************)
EXTENDS Transport, TLAPS

USE TransportAssumption

LEMMA PostType ==
    ASSUME TypeOK, NEW c \in Callers, NEW stage \in Posting,
           NEW others \in SUBSET wire, Post(c, stage, others)
    PROVE  /\ at' \in [Callers -> {"idle", "lock"} \cup Posting]
           /\ wire' \subseteq [by : Callers, turn : Nat, stage : Posting]
<1>1. Message(c, stage) \in [by : Callers, turn : Nat, stage : Posting]
    BY DEF Message, TypeOK
<1>2. wire' = others \cup {Message(c, stage)}
    BY DEF Post
<1>3. wire' \subseteq [by : Callers, turn : Nat, stage : Posting]
    BY <1>1, <1>2 DEF TypeOK
<1> QED
    BY <1>3 DEF Post, TypeOK

LEMMA ReturnType ==
    ASSUME TypeOK, NEW c \in Callers, NEW f \in Ends, Return(c, f)
    PROVE  /\ at' \in [Callers -> {"idle", "lock"} \cup Posting]
           /\ ops' \in [Callers -> Nat]
           /\ end' \in [Callers -> Ends]
BY DEF Return, TypeOK

LEMMA PlainEnds ==
    \A kind \in {"none", "ok", "cancelled", "transport", "raw"} : Plain(kind) \in Ends
BY DEF Plain, Ends

LEMMA ServedType ==
    ASSUME TypeOK, NEW m \in wire, Served(m)
    PROVE  accepted' \in Nat /\ acked' \in Nat
BY DEF Served, TypeOK

LEMMA FateType ==
    ASSUME TypeOK, NEW c \in Callers, Fate(c)
    PROVE  accepted' \in Nat /\ acked' \in Nat /\ wire' \subseteq wire
BY ServedType DEF Fate, Pending, TypeOK

LEMMA ReleaseType ==
    ASSUME TypeOK, NEW c \in Callers, Release(c)
    PROVE  holder' \in Callers \cup {None}
BY DEF Release, TypeOK

\* TypeOK holds of every reachable state (the variables' types).
THEOREM TransportTypeCorrect == Spec => []TypeOK
<1>1. Init => TypeOK
    <2> SUFFICES ASSUME Init PROVE TypeOK
        OBVIOUS
    <2>1. end \in [Callers -> Ends]
        BY PlainEnds DEF Init
    <2>2. op \in [Callers -> Ops] /\ at \in [Callers -> {"idle", "lock"} \cup Posting]
        BY DEF Init, Ops
    <2>3. pages \in [Callers -> 0 .. 2] /\ ops \in [Callers -> Nat]
        BY DEF Init
    <2>4. wire \subseteq [by : Callers, turn : Nat, stage : Posting]
        BY DEF Init
    <2> QED
        BY <2>1, <2>2, <2>3, <2>4 DEF Init, TypeOK
<1>2. ASSUME TypeOK, [Next]_vars
      PROVE  TypeOK'
    <2> USE <1>2
    <2>1. ASSUME NEW c \in Callers, Begin(c)
          PROVE  TypeOK'
        <3>1. /\ op' \in [Callers -> Ops] /\ pages' \in [Callers -> 0 .. 2]
              /\ UNCHANGED <<initialised, holder, end, ops, accepted, acked, completed>>
            BY <2>1 DEF Begin, TypeOK
        <3>2. CASE Post(c, "request", wire)
            BY <3>1, <3>2, PostType DEF TypeOK, Posting
        <3>3. CASE at' = [at EXCEPT ![c] = "lock"] /\ UNCHANGED wire
            BY <3>1, <3>3 DEF TypeOK
        <3> QED
            BY <2>1, <3>2, <3>3 DEF Begin
    <2>2. ASSUME NEW c \in Callers, Acquire(c)
          PROVE  TypeOK'
        <3>1. /\ Post(c, "initialize", wire) \/ Post(c, "request", wire)
              /\ holder' \in Callers \cup {None}
              /\ UNCHANGED <<initialised, op, pages, end, ops, accepted, acked, completed>>
            BY <2>2 DEF Acquire, TypeOK
        <3> QED
            BY <3>1, PostType DEF TypeOK, Posting, Handshake
    <2>3. ASSUME NEW c \in Callers, Initialized(c)
          PROVE  TypeOK'
        <3>1. PICK m \in wire : Served(m) /\ Post(c, "notify", wire \ {m})
            BY <2>3 DEF Initialized, Pending
        <3>2. UNCHANGED <<initialised, holder, op, pages, end, ops, completed>>
            BY <2>3 DEF Initialized
        <3> QED
            BY <3>1, <3>2, PostType, ServedType DEF TypeOK, Posting, Handshake
    <2>4. ASSUME NEW c \in Callers, Notified(c)
          PROVE  TypeOK'
        <3>1. PICK m \in wire : Served(m) /\ Post(c, "request", wire \ {m})
            BY <2>4 DEF Notified, Pending
        <3>2. /\ initialised' = TRUE /\ completed' = completed + 1 /\ Release(c)
              /\ UNCHANGED <<op, pages, end, ops>>
            BY <2>4 DEF Notified
        <3>3. completed' \in Nat /\ holder' \in Callers \cup {None}
            BY <3>2, ReleaseType DEF TypeOK
        <3>4. accepted' \in Nat /\ acked' \in Nat
            BY <3>1, ServedType
        <3>5. /\ at' \in [Callers -> {"idle", "lock"} \cup Posting]
              /\ wire' \subseteq [by : Callers, turn : Nat, stage : Posting]
            BY <3>1, PostType DEF Posting
        <3>6. end' = end
            BY <2>4 DEF Notified
        <3> QED
            BY <3>2, <3>3, <3>4, <3>5, <3>6 DEF TypeOK
    <2>5. ASSUME NEW c \in Callers, CallAnswered(c)
          PROVE  TypeOK'
        <3>1. PICK m \in wire : Served(m) /\ wire' = wire \ {m}
            BY <2>5 DEF CallAnswered, Pending
        <3>2. /\ Return(c, Plain("ok"))
              /\ UNCHANGED <<initialised, holder, op, pages, completed>>
            BY <2>5 DEF CallAnswered
        <3> QED
            BY <3>1, <3>2, ReturnType, ServedType, PlainEnds DEF TypeOK
    <2>6. ASSUME NEW c \in Callers, PageAnswered(c)
          PROVE  TypeOK'
        <3>1. UNCHANGED <<initialised, holder, op, completed>>
            BY <2>6 DEF PageAnswered
        <3>2. PICK m \in wire :
                 /\ Served(m)
                 /\ \/ /\ wire' = wire \ {m}
                       /\ \E kind \in {"ok", "transport"} : Return(c, Plain(kind))
                       /\ UNCHANGED pages
                    \/ /\ pages' = [pages EXCEPT ![c] = IF @ = 1 THEN 2 ELSE 1]
                       /\ Post(c, "request", wire \ {m})
                       /\ UNCHANGED <<end, ops>>
            BY <2>6 DEF PageAnswered, Pending
        <3>3. CASE /\ wire' = wire \ {m}
                   /\ \E kind \in {"ok", "transport"} : Return(c, Plain(kind))
                   /\ UNCHANGED pages
            BY <3>1, <3>2, <3>3, ReturnType, ServedType, PlainEnds DEF TypeOK
        <3>4. CASE /\ pages' = [pages EXCEPT ![c] = IF @ = 1 THEN 2 ELSE 1]
                   /\ Post(c, "request", wire \ {m})
                   /\ UNCHANGED <<end, ops>>
            <4>1. pages' \in [Callers -> 0 .. 2]
                BY <3>4 DEF TypeOK
            <4>2. /\ at' \in [Callers -> {"idle", "lock"} \cup Posting]
                  /\ wire' \subseteq [by : Callers, turn : Nat, stage : Posting]
                BY <3>4, PostType DEF Posting
            <4>3. accepted' \in Nat /\ acked' \in Nat
                BY <3>2, ServedType
            <4>4. UNCHANGED <<end, ops>>
                BY <3>4
            <4> QED
                BY <3>1, <4>1, <4>2, <4>3, <4>4 DEF TypeOK
        <3> QED
            BY <3>2, <3>3, <3>4
    <2>7. ASSUME NEW c \in Callers, PostFails(c) \/ Cancelled(c)
          PROVE  TypeOK'
        <3>1. /\ Release(c)
              /\ UNCHANGED <<initialised, op, pages, completed>>
            BY <2>7 DEF PostFails, Cancelled
        <3>2. \E f \in Ends : Return(c, f)
            BY <2>7, PlainEnds DEF PostFails, Cancelled, PostFailures, Answers
        <3>3. accepted' \in Nat /\ acked' \in Nat /\ wire' \subseteq wire
            BY <2>7, FateType DEF PostFails, Cancelled, TypeOK
        <3> QED
            BY <3>1, <3>2, <3>3, ReturnType, ReleaseType DEF TypeOK
    <2>8. ASSUME NEW m \in wire, ServedLate(m)
          PROVE  TypeOK'
        BY <2>8, ServedType DEF ServedLate, TypeOK, caller
    <2>9. CASE UNCHANGED vars
        BY <2>9 DEF vars, caller, server, TypeOK
    <2> QED
        BY <2>1, <2>2, <2>3, <2>4, <2>5, <2>6, <2>7, <2>8, <2>9 DEF Next, Proceeds
<1> QED
    BY <1>1, <1>2, PTL DEF Spec
-----------------------------------------------------------------------------
(* Which POST is whose.                                                    *)

\* A caller's POST that is still on the wire is of the stage it is at, or of
\* an operation that has ended.
LinkInv ==
    \A c \in Callers : \A m \in wire : m.by = c =>
        /\ m.turn <= ops[c]
        /\ m.turn = ops[c] => at[c] \in Posting /\ m.stage = at[c]

LEMMA LinkPost ==
    ASSUME TypeOK, LinkInv, NEW c \in Callers, NEW stage \in Posting,
           NEW others \in SUBSET wire, Post(c, stage, others), UNCHANGED ops,
           \A m \in others : m.by = c => m.turn # ops[c]
    PROVE  LinkInv'
<1>1. /\ at' = [at EXCEPT ![c] = stage]
      /\ wire' = others \cup {Message(c, stage)}
    BY DEF Post
<1>2. ASSUME NEW d \in Callers, NEW m \in wire', m.by = d
      PROVE  /\ m.turn <= ops'[d]
             /\ m.turn = ops'[d] => at'[d] \in Posting /\ m.stage = at'[d]
    <2>1. CASE m \in others
        BY <1>1, <1>2, <2>1 DEF LinkInv, TypeOK
    <2>2. CASE m = Message(c, stage)
        BY <1>1, <1>2, <2>2 DEF Message, TypeOK
    <2> QED
        BY <1>1, <2>1, <2>2
<1> QED
    BY <1>2 DEF LinkInv

\* The POST that a caller waits for is its only one of this operation.
LEMMA LinkServed ==
    ASSUME TypeOK, LinkInv, NEW c \in Callers, NEW m \in Pending(c)
    PROVE  \A n \in wire \ {m} : n.by = c => n.turn # ops[c]
<1>1. m \in wire /\ m.by = c /\ m.turn = ops[c] /\ m.stage = at[c]
    BY DEF Pending, LinkInv
<1>2. ASSUME NEW n \in wire \ {m}, n.by = c, n.turn = ops[c]
      PROVE  FALSE
    <2>1. n.stage = at[c]
        BY <1>2 DEF LinkInv
    <2>2. /\ m \in [by : Callers, turn : Nat, stage : Posting]
          /\ n \in [by : Callers, turn : Nat, stage : Posting]
        BY <1>1 DEF TypeOK
    <2>3. m = n
        BY <1>1, <1>2, <2>1, <2>2
    <2> QED
        BY <2>3
<1> QED
    BY <1>2

\* A caller that has nothing posted has none of this operation.
LEMMA LinkIdle ==
    ASSUME LinkInv, NEW c \in Callers, at[c] \notin Posting
    PROVE  \A n \in wire : n.by = c => n.turn # ops[c]
BY DEF LinkInv

LEMMA LinkReturn ==
    ASSUME TypeOK, LinkInv, NEW c \in Callers, NEW f, Return(c, f), wire' \subseteq wire
    PROVE  LinkInv'
<1>1. /\ at' = [at EXCEPT ![c] = "idle"]
      /\ ops' = [ops EXCEPT ![c] = @ + 1]
    BY DEF Return
<1>2. ASSUME NEW d \in Callers, NEW m \in wire', m.by = d
      PROVE  /\ m.turn <= ops'[d]
             /\ m.turn = ops'[d] => at'[d] \in Posting /\ m.stage = at'[d]
    <2>1. m \in wire /\ m.turn \in Nat /\ m.turn <= ops[d] /\ ops[d] \in Nat
        BY <1>2 DEF LinkInv, TypeOK
    <2>2. CASE d = c
        <3>1. ops'[d] = ops[d] + 1
            BY <1>1, <2>2 DEF TypeOK
        <3> QED
            BY <2>1, <3>1
    <2>3. CASE d # c
        BY <1>1, <1>2, <2>1, <2>3 DEF LinkInv, TypeOK
    <2> QED
        BY <2>2, <2>3
<1> QED
    BY <1>2 DEF LinkInv

LEMMA FateShrinks == ASSUME NEW c \in Callers, Fate(c) PROVE wire' \subseteq wire
BY DEF Fate

LEMMA LinkKept == Spec => []LinkInv
<1>1. Init => LinkInv
    BY DEF Init, LinkInv
<1>2. ASSUME TypeOK, LinkInv, [Next]_vars
      PROVE  LinkInv'
    <2> USE <1>2
    <2>1. ASSUME NEW c \in Callers, Begin(c)
          PROVE  LinkInv'
        <3>1. /\ at[c] \notin Posting /\ UNCHANGED ops
              /\ \A n \in wire : n.by = c => n.turn # ops[c]
            BY <2>1, LinkIdle DEF Begin, Posting, Handshake
        <3>2. CASE Post(c, "request", wire)
            BY <3>1, <3>2, LinkPost DEF Posting
        <3>3. CASE at' = [at EXCEPT ![c] = "lock"] /\ UNCHANGED wire
            BY <3>1, <3>3 DEF LinkInv, TypeOK
        <3> QED
            BY <2>1, <3>2, <3>3 DEF Begin
    <2>2. ASSUME NEW c \in Callers, Acquire(c)
          PROVE  LinkInv'
        <3>1. /\ at[c] \notin Posting /\ UNCHANGED ops
              /\ \A n \in wire : n.by = c => n.turn # ops[c]
            BY <2>2, LinkIdle DEF Acquire, Posting, Handshake
        <3> QED
            BY <2>2, <3>1, LinkPost DEF Acquire, Posting, Handshake
    <2>3. ASSUME NEW c \in Callers, Initialized(c) \/ Notified(c)
          PROVE  LinkInv'
        <3>1. PICK m \in Pending(c) : \E stage \in {"notify", "request"} :
                 Post(c, stage, wire \ {m})
            BY <2>3 DEF Initialized, Notified
        <3>2. UNCHANGED ops
            BY <2>3 DEF Initialized, Notified
        <3> QED
            BY <3>1, <3>2, LinkServed, LinkPost DEF Posting, Handshake
    <2>4. ASSUME NEW c \in Callers, CallAnswered(c)
          PROVE  LinkInv'
        BY <2>4, LinkReturn DEF CallAnswered
    <2>5. ASSUME NEW c \in Callers, PageAnswered(c)
          PROVE  LinkInv'
        <3>1. PICK m \in Pending(c) :
                 \/ (\E f : Return(c, f)) /\ wire' = wire \ {m}
                 \/ Post(c, "request", wire \ {m}) /\ UNCHANGED ops
            BY <2>5 DEF PageAnswered
        <3>2. CASE (\E f : Return(c, f)) /\ wire' = wire \ {m}
            BY <3>2, LinkReturn
        <3>3. CASE Post(c, "request", wire \ {m}) /\ UNCHANGED ops
            BY <3>3, LinkServed, LinkPost DEF Posting
        <3> QED
            BY <3>1, <3>2, <3>3
    <2>6. ASSUME NEW c \in Callers, PostFails(c) \/ Cancelled(c)
          PROVE  LinkInv'
        <3>1. (\E f : Return(c, f)) /\ wire' \subseteq wire
            BY <2>6, FateShrinks DEF PostFails, Cancelled
        <3> QED
            BY <3>1, LinkReturn
    <2>7. ASSUME NEW m \in wire, ServedLate(m)
          PROVE  LinkInv'
        BY <2>7 DEF ServedLate, caller, LinkInv
    <2>8. CASE UNCHANGED vars
        BY <2>8 DEF vars, caller, server, LinkInv
    <2> QED
        BY <2>1, <2>2, <2>3, <2>4, <2>5, <2>6, <2>7, <2>8 DEF Next, Proceeds
<1> QED
    BY <1>1, <1>2, TransportTypeCorrect, PTL DEF Spec

-----------------------------------------------------------------------------
(* The handshake.                                                          *)

\* OneHandshake and NoEarlyRequest rest on who can be inside the handshake, on
\* initialised being set only after both replies, and on a request being on
\* the wire only then.
DoneInv ==
    /\ initialised => accepted > 0 /\ acked > 0
    /\ completed = IF initialised THEN 1 ELSE 0
    /\ \A m \in wire : m.stage = "request" => initialised

StageInv ==
    \A c \in Callers :
        /\ at[c] \in Handshake => ~initialised
        /\ at[c] = "notify" => accepted > 0
        /\ at[c] = "request" => initialised

HandshakeInv == LockIsHandshake /\ DoneInv /\ StageInv

LEMMA ServedGrows ==
    ASSUME TypeOK, NEW m \in wire, Served(m)
    PROVE  /\ accepted' >= accepted /\ acked' >= acked
           /\ m.stage = "initialize" => accepted' > 0
           /\ m.stage = "notify" => acked' > 0
BY DEF Served, TypeOK

LEMMA FateGrows ==
    ASSUME TypeOK, NEW c \in Callers, Fate(c)
    PROVE  accepted' >= accepted /\ acked' >= acked
BY ServedGrows DEF Fate, Pending, TypeOK

\* A caller that leaves gives up its stage and the lock.
LEMMA LeaveHandshake ==
    ASSUME TypeOK, HandshakeInv, NEW c \in Callers, NEW f, Return(c, f), Release(c),
           wire' \subseteq wire, accepted' >= accepted, acked' >= acked,
           accepted' \in Nat, acked' \in Nat,
           UNCHANGED <<initialised, completed>>
    PROVE  HandshakeInv'
<1>1. at' = [at EXCEPT ![c] = "idle"]
    BY DEF Return
<1>2. LockIsHandshake'
    BY <1>1 DEF Release, HandshakeInv, LockIsHandshake, TypeOK, Handshake
<1>3. DoneInv'
    BY DEF HandshakeInv, DoneInv, TypeOK
<1>4. StageInv'
    BY <1>1 DEF HandshakeInv, StageInv, TypeOK, Handshake
<1> QED
    BY <1>2, <1>3, <1>4 DEF HandshakeInv

\* A request follows a completed handshake.
LEMMA RequestAfterHandshake ==
    ASSUME TypeOK, HandshakeInv, initialised, NEW c \in Callers, at[c] \notin Handshake,
           NEW others \in SUBSET wire, Post(c, "request", others),
           accepted' >= accepted, acked' >= acked, accepted' \in Nat, acked' \in Nat,
           UNCHANGED <<initialised, completed, holder>>
    PROVE  HandshakeInv'
<1>1. at' = [at EXCEPT ![c] = "request"]
    BY DEF Post
<1>2. LockIsHandshake'
    BY <1>1 DEF HandshakeInv, LockIsHandshake, TypeOK, Handshake
<1>3. DoneInv'
    BY DEF HandshakeInv, DoneInv, TypeOK
<1>4. StageInv'
    BY <1>1 DEF HandshakeInv, StageInv, TypeOK, Handshake
<1> QED
    BY <1>2, <1>3, <1>4 DEF HandshakeInv

LEMMA HandshakeKept ==
    ASSUME TypeOK, LinkInv, HandshakeInv, [Next]_vars
    PROVE  HandshakeInv'
<1>1. ASSUME NEW c \in Callers, Begin(c)
      PROVE  HandshakeInv'
    <2>1. CASE SkipsHandshake /\ Post(c, "request", wire)
        <3>1. /\ initialised /\ at[c] \notin Handshake
              /\ UNCHANGED <<initialised, completed, holder, accepted, acked>>
            BY <1>1, <2>1 DEF Begin, SkipsHandshake, Handshake
        <3>2. accepted' >= accepted /\ acked' >= acked /\ accepted' \in Nat /\ acked' \in Nat
            BY <3>1 DEF TypeOK
        <3> QED
            BY <2>1, <3>1, <3>2, RequestAfterHandshake
    <2>2. CASE at' = [at EXCEPT ![c] = "lock"] /\ UNCHANGED wire
        <3>1. /\ at[c] = "idle"
              /\ UNCHANGED <<initialised, completed, holder, accepted, acked>>
            BY <1>1 DEF Begin
        <3> QED
            BY <2>2, <3>1 DEF HandshakeInv, LockIsHandshake, DoneInv, StageInv, TypeOK, Handshake
    <2> QED
        BY <1>1, <2>1, <2>2 DEF Begin
<1>2. ASSUME NEW c \in Callers, Acquire(c)
      PROVE  HandshakeInv'
    <2>1. /\ at[c] = "lock" /\ holder = None
          /\ UNCHANGED <<initialised, completed, accepted, acked>>
        BY <1>2 DEF Acquire
    <2>2. CASE ~initialised
        <3>1. holder' = c /\ Post(c, "initialize", wire)
            BY <1>2, <2>2 DEF Acquire, NeedsHandshake
        <3>2. /\ at' = [at EXCEPT ![c] = "initialize"]
              /\ wire' = wire \cup {Message(c, "initialize")}
            BY <3>1 DEF Post
        <3>3. Message(c, "initialize").stage # "request"
            BY DEF Message
        <3>4. LockIsHandshake'
            BY <2>1, <3>1, <3>2 DEF HandshakeInv, LockIsHandshake, TypeOK, Handshake
        <3>5. DoneInv'
            BY <2>1, <3>2, <3>3 DEF HandshakeInv, DoneInv
        <3>6. StageInv'
            BY <2>1, <2>2, <3>2 DEF HandshakeInv, StageInv, TypeOK, Handshake
        <3> QED
            BY <3>4, <3>5, <3>6 DEF HandshakeInv
    <2>3. CASE initialised
        <3>1. Post(c, "request", wire) /\ UNCHANGED holder
            BY <1>2, <2>3 DEF Acquire, NeedsHandshake
        <3>2. accepted' >= accepted /\ acked' >= acked /\ accepted' \in Nat /\ acked' \in Nat
            BY <2>1 DEF TypeOK
        <3> QED
            BY <2>1, <2>3, <3>1, <3>2, RequestAfterHandshake DEF Handshake
    <2> QED
        BY <2>2, <2>3
<1>3. ASSUME NEW c \in Callers, Initialized(c)
      PROVE  HandshakeInv'
    <2>1. PICK m \in Pending(c) : Served(m) /\ Post(c, "notify", wire \ {m})
        BY <1>3 DEF Initialized
    <2>2. at[c] = "initialize" /\ UNCHANGED <<initialised, holder, completed>>
        BY <1>3 DEF Initialized
    <2>3. m \in wire /\ m.stage = "initialize"
        BY <2>2 DEF Pending, LinkInv
    <2>4. /\ accepted' > 0 /\ accepted' >= accepted /\ acked' >= acked
          /\ accepted' \in Nat /\ acked' \in Nat
        BY <2>1, <2>3, ServedGrows, ServedType
    <2>5. /\ at' = [at EXCEPT ![c] = "notify"]
          /\ wire' = (wire \ {m}) \cup {Message(c, "notify")}
        BY <2>1 DEF Post
    <2>6. Message(c, "notify").stage # "request"
        BY DEF Message
    <2>7. LockIsHandshake'
        BY <2>2, <2>5 DEF HandshakeInv, LockIsHandshake, TypeOK, Handshake
    <2>8. DoneInv'
        BY <2>2, <2>4, <2>5, <2>6 DEF HandshakeInv, DoneInv, TypeOK
    <2>9. StageInv'
        BY <2>2, <2>4, <2>5 DEF HandshakeInv, StageInv, TypeOK, Handshake
    <2> QED
        BY <2>7, <2>8, <2>9 DEF HandshakeInv
<1>4. ASSUME NEW c \in Callers, Notified(c)
      PROVE  HandshakeInv'
    <2>1. PICK m \in Pending(c) : Served(m) /\ Post(c, "request", wire \ {m})
        BY <1>4 DEF Notified
    <2>2. /\ at[c] = "notify" /\ initialised' = TRUE /\ completed' = completed + 1
          /\ Release(c)
        BY <1>4 DEF Notified
    <2>3. m \in wire /\ m.stage = "notify"
        BY <2>2 DEF Pending, LinkInv
    <2>4. /\ acked' > 0 /\ accepted' >= accepted
          /\ accepted' \in Nat /\ acked' \in Nat
        BY <2>1, <2>3, ServedGrows, ServedType
    <2>5. at' = [at EXCEPT ![c] = "request"]
        BY <2>1 DEF Post
    <2>6. accepted > 0 /\ ~initialised /\ completed = 0
        BY <2>2 DEF HandshakeInv, StageInv, DoneInv, Handshake
    <2>7. \A d \in Callers : at[d] \in Handshake => d = c
        BY <2>2 DEF HandshakeInv, LockIsHandshake, Handshake
    <2>8. LockIsHandshake'
        BY <2>2, <2>5, <2>7 DEF Release, HandshakeInv, LockIsHandshake, TypeOK, Handshake
    <2>9. DoneInv'
        BY <2>2, <2>4, <2>6 DEF DoneInv, TypeOK
    <2>10. StageInv'
        BY <2>2, <2>4, <2>5, <2>6, <2>7 DEF StageInv, TypeOK, Handshake
    <2> QED
        BY <2>8, <2>9, <2>10 DEF HandshakeInv
<1>5. ASSUME NEW c \in Callers, at[c] = "request",
             \E m \in wire : Served(m) /\ wire' = wire \ {m},
             \E f : Return(c, f), UNCHANGED <<initialised, holder, completed>>
      PROVE  HandshakeInv'
    <2>1. /\ accepted' >= accepted /\ acked' >= acked /\ wire' \subseteq wire
          /\ accepted' \in Nat /\ acked' \in Nat
        BY <1>5, ServedGrows, ServedType
    <2>2. Release(c)
        BY <1>5 DEF Release, HandshakeInv, LockIsHandshake, Handshake
    <2> QED
        BY <1>5, <2>1, <2>2, LeaveHandshake
<1>6. ASSUME NEW c \in Callers, CallAnswered(c)
      PROVE  HandshakeInv'
    BY <1>5, <1>6 DEF CallAnswered, Pending
<1>7. ASSUME NEW c \in Callers, PageAnswered(c)
      PROVE  HandshakeInv'
    <2>1. at[c] = "request" /\ UNCHANGED <<initialised, holder, completed>>
        BY <1>7 DEF PageAnswered
    <2>2. PICK m \in wire : /\ Served(m)
                            /\ \/ (\E f : Return(c, f)) /\ wire' = wire \ {m}
                               \/ Post(c, "request", wire \ {m})
        BY <1>7 DEF PageAnswered, Pending
    <2>3. CASE (\E f : Return(c, f)) /\ wire' = wire \ {m}
        BY <2>1, <2>2, <2>3, <1>5
    <2>4. CASE Post(c, "request", wire \ {m})
        <3>1. initialised /\ at[c] \notin Handshake
            BY <2>1 DEF HandshakeInv, StageInv, Handshake
        <3>2. /\ accepted' >= accepted /\ acked' >= acked
              /\ accepted' \in Nat /\ acked' \in Nat
            BY <2>2, ServedGrows, ServedType
        <3> QED
            BY <2>1, <2>4, <3>1, <3>2, RequestAfterHandshake
    <2> QED
        BY <2>2, <2>3, <2>4
<1>8. ASSUME NEW c \in Callers, PostFails(c) \/ Cancelled(c)
      PROVE  HandshakeInv'
    <2>1. Release(c) /\ UNCHANGED <<initialised, completed>> /\ \E f : Return(c, f)
        BY <1>8 DEF PostFails, Cancelled
    <2>2. /\ accepted' >= accepted /\ acked' >= acked /\ wire' \subseteq wire
          /\ accepted' \in Nat /\ acked' \in Nat
        <3>1. CASE Fate(c)
            BY <3>1, FateGrows, FateType
        <3>2. CASE wire' = wire \ Pending(c) /\ UNCHANGED <<accepted, acked>>
            BY <3>2 DEF TypeOK
        <3> QED
            BY <1>8, <3>1, <3>2 DEF PostFails, Cancelled
    <2> QED
        BY <2>1, <2>2, LeaveHandshake
<1>9. ASSUME NEW m \in wire, ServedLate(m)
      PROVE  HandshakeInv'
    <2>1. /\ accepted' >= accepted /\ acked' >= acked
          /\ accepted' \in Nat /\ acked' \in Nat
        BY <1>9, ServedGrows, ServedType DEF ServedLate
    <2>2. UNCHANGED <<initialised, holder, at, completed>> /\ wire' \subseteq wire
        BY <1>9 DEF ServedLate, caller
    <2> QED
        BY <2>1, <2>2 DEF HandshakeInv, LockIsHandshake, DoneInv, StageInv, TypeOK
<1>10. CASE UNCHANGED vars
    BY <1>10 DEF vars, caller, server, HandshakeInv, LockIsHandshake, DoneInv, StageInv
<1> QED
    BY <1>1, <1>2, <1>3, <1>4, <1>6, <1>7, <1>8, <1>9, <1>10 DEF Next, Proceeds

LEMMA HandshakeHolds == Spec => []HandshakeInv
<1>1. Init => HandshakeInv
    BY DEF Init, HandshakeInv, LockIsHandshake, DoneInv, StageInv, Handshake
<1> QED
    BY <1>1, HandshakeKept, LinkKept, TransportTypeCorrect, PTL DEF Spec

\* One handshake is completed at most, whoever races, fails or is cancelled.
THEOREM HandshakeOnce == Spec => []OneHandshake
<1>1. HandshakeInv => OneHandshake
    BY DEF HandshakeInv, DoneInv, OneHandshake
<1> QED
    BY <1>1, HandshakeHolds, PTL

\* No request is on the wire before the server has seen the whole handshake.
THEOREM RequestsWait == Spec => []NoEarlyRequest
<1>1. HandshakeInv => NoEarlyRequest
    BY DEF HandshakeInv, DoneInv, NoEarlyRequest
<1> QED
    BY <1>1, HandshakeHolds, PTL

\* The lock is held exactly by the caller inside the handshake.
THEOREM LockHeldInHandshake == Spec => []LockIsHandshake
<1>1. HandshakeInv => LockIsHandshake
    BY DEF HandshakeInv
<1> QED
    BY <1>1, HandshakeHolds, PTL
=============================================================================
