----------------------------- MODULE RunContract -----------------------------
(***************************************************************************)
(* What one start of the canonical task promises its operator, whatever    *)
(* the book, the teammates and the network do: it picks its deals once,    *)
(* within the request; it writes for those deals only, at most once each,  *)
(* and only when asked to create; a refusal comes before any write; an     *)
(* answer names every deal written for; and a run that breaks off names    *)
(* none.                                                                   *)
(***************************************************************************)
EXTENDS Integers, FiniteSets

CONSTANTS Deals, TestDeals, Requests

VARIABLES
    phase,    \* "reading", "acting", or what the run came to
    request,  \* what the operator asked for
    chosen,   \* the deals the run works on
    wrote,    \* the deals it has sent a create for
    told      \* the deals its artifact reports as created

contractVars == <<phase, request, chosen, wrote, told>>

Ended == {"answer", "refusal", "failed", "killed"}

\* A choice of deals the request allows.
Permitted(r, S) ==
    /\ ~r.tests => S \cap TestDeals = {}
    /\ r.ids # {} => S \subseteq r.ids
    /\ \A m \in r.limit : m >= 0 => Cardinality(S) <= m

Begin ==
    /\ phase = "reading" /\ request \in Requests
    /\ chosen = {} /\ wrote = {} /\ told = {}

Choose ==
    /\ phase = "reading" /\ phase' = "acting"
    /\ chosen' \in SUBSET Deals /\ Permitted(request, chosen')
    /\ UNCHANGED <<request, wrote, told>>

Write(d) ==
    /\ phase = "acting" /\ request.mode = "create"
    /\ d \in chosen \ wrote
    /\ wrote' = wrote \cup {d}
    /\ UNCHANGED <<phase, request, chosen, told>>

Answer ==
    /\ phase = "acting" /\ phase' = "answer"
    /\ told' = wrote
    /\ UNCHANGED <<request, chosen, wrote>>

Refuse ==
    /\ phase = "reading" /\ phase' = "refusal"
    /\ UNCHANGED <<request, chosen, wrote, told>>

BreakOff ==
    /\ phase \in {"reading", "acting"} /\ phase' \in {"failed", "killed"}
    /\ UNCHANGED <<request, chosen, wrote, told>>

StartAgain == phase \in Ended /\ Begin'

Step ==
    \/ Choose \/ (\E d \in Deals : Write(d)) \/ Answer
    \/ Refuse \/ BreakOff \/ StartAgain

Spec == Begin /\ [][Step]_contractVars
=============================================================================
