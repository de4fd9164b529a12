------------------------------ MODULE Transport ------------------------------
(***************************************************************************)
(* The MCP wire under concurrent callers: JsonRpcTransport, with its lazy  *)
(* handshake behind a lock and its paged tools/list, and the mapping       *)
(* RealMCPClient gives its failures.  Every POST runs in a worker thread,  *)
(* so a caller can be cancelled while its request lives on; a POST may be  *)
(* answered, fail before or after the server acts on it, or act later.     *)
(***************************************************************************)
EXTENDS Integers, FiniteSets

CONSTANTS
    Callers,   \* the coroutines that share the client
    None,      \* nobody holds the lock
    Statuses,  \* the HTTP statuses a failure can have, 0 for none
    Markings,  \* whether a failure's text may carry a refusal marker
    MaxOps     \* bound on each caller's operations

ASSUME TransportAssumption ==
    /\ None \notin Callers
    /\ 0 \in Statuses /\ FALSE \in Markings
    /\ MaxOps \in Nat

VARIABLES
    initialised,  \* self._initialised
    holder,       \* who holds self._initialise_lock
    at,           \* what each caller is doing
    op,           \* the operation it is in: a tool with or without an entity
                  \* argument, an endpoint.* tool, or tools/list
    pages,        \* the new cursors its tools/list has followed: 0 for none,
                  \* then 1 and 2 by turns
    end,          \* how its last operation ended
    ops,          \* how many operations it has ended
    wire,         \* POSTs the server has not acted on and still may
    accepted,     \* initialize requests the server has answered with a result
    acked,        \* notifications/initialized it has acknowledged
    completed     \* handshakes a caller has completed

caller == <<at, op, pages, end, ops>>
server == <<wire, accepted, acked>>
vars == <<initialised, holder, caller, server, completed>>

Ops == {"tool", "bare", "endpoint", "list"}
Handshake == {"initialize", "notify"}
Posting == Handshake \cup {"request"}

(***************************************************************************)
(* How an operation ends.  A failure is the exception the transport raises,*)
(* with its HTTP status and whether its text carries one of the markers of *)
(* _permission_message ("unauthorized" is one).                            *)
(***************************************************************************)
Plain(kind) == [kind |-> kind, status |-> 0, marked |-> FALSE]

Ends == [kind : {"none", "ok", "cancelled", "transport", "rpc", "tool", "raw"},
         status : Statuses, marked : Markings]

\* TransportError: an HTTP error, no connection, or a reply that is not a
\* JSON-RPC reply to this request.  Raw: what _post_blocking does not catch,
\* such as the TimeoutError of a server that stops answering.
PostFailures ==
    {f \in Ends : f.kind = "transport"} \cup {Plain("raw")}

\* The server's own errors: JsonRpcError, ToolResultError.
Answers(stage, o) ==
    {f \in Ends : /\ f.status = 0
                  /\ \/ f.kind = "rpc" /\ stage # "notify"
                     \/ f.kind = "tool" /\ stage = "request" /\ o # "list"}

\* _is_permission_denied.
IsPermissionDenied(f) == f.marked \/ (f.kind = "transport" /\ f.status = 403)

\* What the caller of RealMCPClient gets: list_tools never raises
\* PermissionDeniedError, call_tool only for a call that names an entity.
Outcome(o, f) ==
    IF f.kind \notin {"transport", "rpc", "tool"} THEN f.kind
    ELSE IF o \in {"tool", "endpoint"} /\ IsPermissionDenied(f) THEN "denied"
    ELSE "failed"

Init ==
    /\ initialised = FALSE /\ holder = None
    /\ at = [c \in Callers |-> "idle"]
    /\ op = [c \in Callers |-> "tool"]
    /\ pages = [c \in Callers |-> 0]
    /\ end = [c \in Callers |-> Plain("none")]
    /\ ops = [c \in Callers |-> 0]
    /\ wire = {} /\ accepted = 0 /\ acked = 0 /\ completed = 0

-----------------------------------------------------------------------------
(* Posting, and what becomes of a POST.                                    *)

\* A caller has one POST under way at a time, so its operation and the stage
\* name a POST as the JSON-RPC id does.
Message(c, stage) == [by |-> c, turn |-> ops[c], stage |-> stage]

\* Caller c sends the next POST and waits for it; `others` is what is left on
\* the wire by then.
Post(c, stage, others) ==
    /\ at' = [at EXCEPT ![c] = stage]
    /\ wire' = others \cup {Message(c, stage)}

\* The POST that c waits for.
Pending(c) ==
    {m \in wire : at[c] \in Posting /\ m.by = c /\ m.turn = ops[c]}

\* The server acts on m.
Served(m) ==
    /\ accepted' = IF m.stage = "initialize" THEN accepted + 1 ELSE accepted
    /\ acked' = IF m.stage = "notify" THEN acked + 1 ELSE acked

\* The reply is lost with the request, or the server has acted on the request,
\* or will.
Fate(c) ==
    \/ wire' = wire \ Pending(c) /\ UNCHANGED <<accepted, acked>>
    \/ \E m \in Pending(c) : Served(m) /\ wire' = wire \ {m}
    \/ UNCHANGED <<wire, accepted, acked>>

\* Release, if only a completed handshake gave the lock back.
Keep(c) == UNCHANGED holder

\* `async with`: whoever leaves gives the lock back.
Release(c) == holder' = IF holder = c THEN None ELSE holder

\* The operation is over.
Return(c, f) ==
    /\ at' = [at EXCEPT ![c] = "idle"]
    /\ end' = [end EXCEPT ![c] = f]
    /\ ops' = [ops EXCEPT ![c] = @ + 1]

-----------------------------------------------------------------------------
(* The operations.                                                         *)

\* SkipsHandshake, if one in progress were taken for one that is done.
SkipsIfBegun == initialised \/ holder # None

\* The test before the lock.
SkipsHandshake == initialised

\* NeedsHandshake, without the second test.
NeedsAlways == TRUE

\* The test under the lock.
NeedsHandshake == ~initialised

\* call_tool, call_endpoint or list_tools: initialise() and, if the handshake
\* is done, the request itself; nothing is awaited in between.
Begin(c) ==
    /\ at[c] = "idle" /\ ops[c] < MaxOps
    /\ \E o \in Ops : op' = [op EXCEPT ![c] = o]
    /\ pages' = [pages EXCEPT ![c] = 0]
    /\ \/ SkipsHandshake /\ Post(c, "request", wire)
       \/ /\ ~SkipsHandshake
          /\ at' = [at EXCEPT ![c] = "lock"]
          /\ UNCHANGED wire
    /\ UNCHANGED <<initialised, holder, end, ops, accepted, acked, completed>>

\* The lock is free: handshake, unless somebody has done it meanwhile.
Acquire(c) ==
    /\ at[c] = "lock" /\ holder = None
    /\ IF NeedsHandshake
       THEN holder' = c /\ Post(c, "initialize", wire)
       ELSE Post(c, "request", wire) /\ UNCHANGED holder
    /\ UNCHANGED <<initialised, op, pages, end, ops, accepted, acked, completed>>

\* initialize is answered with a result: the notification follows.
Initialized(c) ==
    /\ at[c] = "initialize"
    /\ \E m \in Pending(c) : Served(m) /\ Post(c, "notify", wire \ {m})
    /\ UNCHANGED <<initialised, holder, op, pages, end, ops, completed>>

\* The notification is acknowledged: the request follows.
Notified(c) ==
    /\ at[c] = "notify"
    /\ \E m \in Pending(c) : Served(m) /\ Post(c, "request", wire \ {m})
    /\ initialised' = TRUE /\ completed' = completed + 1
    /\ Release(c)
    /\ UNCHANGED <<op, pages, end, ops>>

\* tools/call is answered with a result.
CallAnswered(c) ==
    /\ at[c] = "request" /\ op[c] # "list"
    /\ \E m \in Pending(c) : Served(m) /\ wire' = wire \ {m}
    /\ Return(c, Plain("ok"))
    /\ UNCHANGED <<initialised, holder, op, pages, completed>>

\* tools/list is answered with a page: the last one, one whose cursor was
\* followed before, or one that leads on, of which there is no limit.
PageAnswered(c) ==
    /\ at[c] = "request" /\ op[c] = "list"
    /\ \E m \in Pending(c) :
          /\ Served(m)
          /\ \/ Return(c, Plain("ok")) /\ wire' = wire \ {m} /\ UNCHANGED pages
             \/ /\ pages[c] # 0
                /\ Return(c, Plain("transport")) /\ wire' = wire \ {m}
                /\ UNCHANGED pages
             \/ /\ pages' = [pages EXCEPT ![c] = IF @ = 1 THEN 2 ELSE 1]
                /\ Post(c, "request", wire \ {m})
                /\ UNCHANGED <<end, ops>>
    /\ UNCHANGED <<initialised, holder, op, completed>>

\* The POST raises, or the server answers it with an error.
PostFails(c) ==
    /\ at[c] \in Posting
    /\ \/ \E f \in PostFailures : Return(c, f) /\ Fate(c)
       \/ /\ \E f \in Answers(at[c], op[c]) : Return(c, f)
          /\ wire' = wire \ Pending(c) /\ UNCHANGED <<accepted, acked>>
    /\ Release(c)
    /\ UNCHANGED <<initialised, op, pages, completed>>

\* wait_for cancels the caller; the thread behind its POST carries on.
Cancelled(c) ==
    /\ at[c] # "idle"
    /\ Return(c, Plain("cancelled"))
    /\ Release(c)
    /\ Fate(c)
    /\ UNCHANGED <<initialised, op, pages, completed>>

\* The server acts on a POST nobody waits for any more.
ServedLate(m) ==
    /\ m \in wire /\ m \notin Pending(m.by)
    /\ Served(m) /\ wire' = wire \ {m}
    /\ UNCHANGED <<initialised, holder, caller, completed>>

Proceeds(c) ==
    \/ Acquire(c) \/ Initialized(c) \/ Notified(c) \/ CallAnswered(c)
    \/ PageAnswered(c) \/ PostFails(c)

Next ==
    \/ \E c \in Callers : Begin(c) \/ Proceeds(c) \/ Cancelled(c)
    \/ \E m \in wire : ServedLate(m)

Spec == Init /\ [][Next]_vars

\* A POST is answered or fails: urlopen has a timeout.  The lock is fair, so a
\* caller that waits is not overtaken for ever.
FairSpec == Spec /\ \A c \in Callers : WF_vars(Proceeds(c))

-----------------------------------------------------------------------------
(* Properties.                                                             *)

\* Types of the variables.
TypeOK ==
    /\ initialised \in BOOLEAN
    /\ holder \in Callers \cup {None}
    /\ at \in [Callers -> {"idle", "lock"} \cup Posting]
    /\ op \in [Callers -> Ops]
    /\ pages \in [Callers -> 0 .. 2]
    /\ end \in [Callers -> Ends]
    /\ ops \in [Callers -> Nat]
    /\ wire \subseteq [by : Callers, turn : Nat, stage : Posting]
    /\ accepted \in Nat /\ acked \in Nat /\ completed \in Nat

\* However many callers race for it, fail in it or are cancelled in it, one
\* handshake is completed at most (initialise, "once, safely under concurrent
\* callers").
OneHandshake == completed <= 1

\* No tools/call or tools/list is sent, not even late, before the server has
\* accepted an initialize and acknowledged its notification (initialise).
NoEarlyRequest ==
    (\E m \in wire : m.stage = "request") => accepted > 0 /\ acked > 0

\* A caller inside the handshake is the only one there and holds the lock, and
\* nobody holds the lock outside it: a failure never leaves it locked.
LockIsHandshake == \A c \in Callers : at[c] \in Handshake <=> holder = c

\* "must not send two initialize requests if reused" (initialise).
OneInitialize == accepted <= 1

\* "A 401 means a bad or expired credential, not a policy refusal"
\* (_is_permission_denied).
BadCredentialIsNoRefusal ==
    \A c \in Callers : end[c].status = 401 => Outcome(op[c], end[c]) # "denied"

\* The server answers page after page of c's tools/list with a new cursor.
NewForEver(c) == []<>(pages[c] = 1) /\ []<>(pages[c] = 2)

\* Every operation ends, whoever fails or is cancelled while holding the lock
\* and whatever another caller's server goes on serving, unless it is a
\* tools/list whose server serves a new cursor for ever (list_tools, initialise).
OperationsEnd ==
    \A c \in Callers : NewForEver(c) \/ (at[c] # "idle" ~> at[c] = "idle")

\* Every operation ends ("A server that repeats a cursor would page forever; stop
\* instead", list_tools; new cursors are followed without a limit).
ListEnds == \A c \in Callers : at[c] # "idle" ~> at[c] = "idle"
=============================================================================
