------------------------------ MODULE TaskProofs ------------------------------
(***************************************************************************)
(* Proofs about the programs under tasks/: what verify may say of a        *)
(* directory of the refusal task (RefusalTask), for every number of rows,  *)
(* runs and writes; and what the integration test's ledger is worth        *)
(* (FixtureLedger), for every set of deals and every number of interrupted *)
(* commands.  The two systems share no variable.                           *)
(***************************************************************************)
EXTENDS RefusalTask, FixtureLedger, FiniteSetTheorems, TLAPS

-----------------------------------------------------------------------------
(* RefusalTask.                                                            *)

\* A run under way has a number.
Numbered == pc # "idle" => run >= 1

TypeInv == TypeOK /\ Numbered

-----------------------------------------------------------------------------
(* Types.                                                                  *)

\* The files keep their types when one of them is replaced by one of its type,
\* or torn.
LEMMA FilesType ==
  ASSUME TypeOK, NEW f \in Files, NEW value,
         files' = [files EXCEPT ![f] = value],
         \/ value = Torn
         \/ f \in {"before", "after"} /\ value \in Saved(Snapshots)
         \/ f = "result" /\ value \in Saved(Results)
         \/ f = "status" /\ value \in Statuses
  PROVE  /\ DOMAIN files' = Files
         /\ files'["before"] \in Saved(Snapshots) /\ files'["after"] \in Saved(Snapshots)
         /\ files'["result"] \in Saved(Results)
         /\ files'["status"] \in Statuses \cup {Missing, Torn}
<1> DEFINE S == Saved(Snapshots)
           R == Saved(Results)
<1>1. Torn \in S /\ Torn \in R
  BY Zenon DEF Saved
<1>2. /\ DOMAIN files = Files
      /\ files["before"] \in S /\ files["after"] \in S /\ files["result"] \in R
      /\ files["status"] \in Statuses \cup {Missing, Torn}
  BY Zenon DEF TypeOK
<1> HIDE DEF S, R
<1>3. /\ DOMAIN files' = Files
      /\ files'["before"] \in S /\ files'["after"] \in S /\ files'["result"] \in R
      /\ files'["status"] \in Statuses \cup {Missing, Torn}
  <2>1. \/ value = Torn
        \/ f \in {"before", "after"} /\ value \in S
        \/ f = "result" /\ value \in R
        \/ f = "status" /\ value \in Statuses
    BY Zenon DEF S, R
  <2>2. \A g \in Files : files'[g] = IF g = f THEN value ELSE files[g]
    BY <1>2
  <2>3. DOMAIN files' = Files
    BY <1>2
  <2>4. files'["before"] \in S
    BY <1>1, <1>2, <2>1, <2>2 DEF Files
  <2>5. files'["after"] \in S
    BY <1>1, <1>2, <2>1, <2>2 DEF Files
  <2>6. files'["result"] \in R
    BY <1>1, <1>2, <2>1, <2>2 DEF Files
  <2>7. files'["status"] \in Statuses \cup {Missing, Torn}
    BY <1>2, <2>1, <2>2 DEF Files
  <2> QED BY <2>3, <2>4, <2>5, <2>6, <2>7
<1> QED BY <1>3 DEF S, R

LEMMA RunType == ASSUME RefusalAssumption, TypeInv, pc # "idle" PROVE run \in 1 .. MaxRuns
  BY DEF RefusalAssumption, TypeInv, TypeOK, Numbered

LEMMA SavedType ==
  ASSUME RefusalAssumption, TypeInv, pc # "idle", NEW set, NEW value \in set
  PROVE  [kind |-> "value", run |-> run, value |-> value] \in Saved(set)
  BY RunType DEF Saved

LEMMA BlockedType == ASSUME RefusalAssumption, TypeInv, pc # "idle" PROVE Blocked \in Statuses
  BY RunType DEF Blocked, Statuses

LEMMA VerdictType ==
  ASSUME RefusalAssumption, TypeInv, pc # "idle", NEW r, NEW b, NEW a
  PROVE  Verdict(r, b, a) \in Statuses
<1>1. A1(r) \in BOOLEAN /\ A3(b, a) \in BOOLEAN
  BY Zenon DEF A1, A3
<1> QED BY <1>1, RunType DEF Verdict, Statuses

LEMMA WritingFiles == Writing \subseteq Files
  BY DEF Writing

LEMMA NothingType == Nothing \in [Ids -> Contents] /\ NoSnapshot \in Snapshots
  BY DEF Nothing, NoSnapshot, Snapshots, Contents, Absent

\* Taking or giving up a snapshot keeps its types.
LEMMA TakesType ==
  ASSUME TypeOK, pc \in {"before", "after"}, NEW complete \in BOOLEAN,
         NEW rows \in [Ids -> Contents], Takes(complete, rows)
  PROVE  /\ taken' \in [{"before", "after"} -> Snapshots]
         /\ offset' \in Nat /\ rowsRead' \in [Ids -> Contents]
         /\ pc' \in {"keepBefore", "keepAfter"}
<1>1. [complete |-> complete, rows |-> rows] \in Snapshots
  BY DEF Snapshots
<1> QED BY <1>1, NothingType DEF Takes, TypeOK

LEMMA ResultTypes ==
  /\ \A body \in Bodies : ResultOf(body) \in Results
  /\ \A reason \in {"transport_error", "auth_error", "server_error"} : Failure(reason) \in Results
  /\ NoResult \in Results
<1>1. \A body \in Bodies : Declines(body) \in BOOLEAN
  BY Zenon DEF Declines, Structured, Bodies
<1>2. \A body \in Bodies : ResultOf(body) \in Results
  BY <1>1 DEF ResultOf, Results, ReasonOf
<1> QED BY <1>2 DEF Failure, Results, NoResult

\* Somebody writes to the rows, other than the agent of this run a row of its own.
Foreign == {MateWrote, Absent} \cup {AgentWrote(r) : r \in busy \ {run}}

LEMMA WritesAre ==
  ASSUME \E i \in Ids : MateWrites(i) \/ \E r \in 1 .. MaxRuns : AgentWrites(r, i)
  PROVE  \E i \in Ids : \E content :
            /\ Stores(i, content)
            /\ content \in Foreign \/ (run \in busy /\ content = AgentWrote(run))
<1>1. PICK i \in Ids : MateWrites(i) \/ \E r \in 1 .. MaxRuns : AgentWrites(r, i)
  OBVIOUS
<1>2. CASE MateWrites(i)
  BY <1>2 DEF MateWrites, Foreign
<1>3. ASSUME NEW r \in 1 .. MaxRuns, AgentWrites(r, i)
      PROVE  \E content : /\ Stores(i, content)
                          /\ content \in Foreign \/ (run \in busy /\ content = AgentWrote(run))
  BY <1>3 DEF AgentWrites, Foreign
<1> QED BY <1>1, <1>2, <1>3

\* Every variable stays in its type, and a run that began has a number.
THEOREM RefusalTypeCorrect == Spec => []TypeInv
<1> USE RefusalAssumption
<1>1. Init => TypeInv
  <2> SUFFICES ASSUME Init PROVE TypeInv
    OBVIOUS
  <2>1. files["before"] \in Saved(Snapshots) /\ files["after"] \in Saved(Snapshots)
    BY Zenon DEF Init, Saved, Files
  <2>2. files["result"] \in Saved(Results) /\ files["status"] \in Statuses \cup {Missing, Torn}
    BY Zenon DEF Init, Saved, Files
  <2>3. DOMAIN files = Files
    BY DEF Init
  <2>4. book \in [Ids -> Contents] /\ rowsRead \in [Ids -> Contents]
    BY NothingType DEF Init, Contents
  <2>5. taken \in [{"before", "after"} -> Snapshots] /\ result \in Results
    BY NothingType, ResultTypes DEF Init
  <2>6. pc = "idle" /\ busy \subseteq 1 .. MaxRuns /\ jumped \in BOOLEAN
    BY Zenon DEF Init
  <2>7. /\ run \in 0 .. MaxRuns /\ offset \in Nat
        /\ writes \in 0 .. MaxWrites /\ edits \in 0 .. MaxEdits
    <3>1. MaxRuns \in Nat /\ MaxWrites \in Nat /\ MaxEdits \in Nat
      BY Zenon DEF RefusalAssumption
    <3>2. run = 0 /\ offset = 0 /\ writes = 0 /\ edits = 0
      BY Zenon DEF Init
    <3> QED BY <3>1, <3>2
  <2> QED BY <2>1, <2>2, <2>3, <2>4, <2>5, <2>6, <2>7, Zenon DEF TypeInv, TypeOK, Numbered
<1>2. TypeInv /\ [Next]_vars => TypeInv'
  <2> SUFFICES ASSUME TypeInv, [Next]_vars PROVE TypeInv'
    OBVIOUS
  <2> USE DEF TypeInv
  <2>1. CASE Start
    <3>1. pc' = "preflight" /\ run' >= 1 /\ run' \in 0 .. MaxRuns
      BY <2>1 DEF Start, TypeOK, RefusalAssumption
    <3>2. taken' \in [{"before", "after"} -> Snapshots] /\ rowsRead' \in [Ids -> Contents]
          /\ result' \in Results /\ offset' \in Nat
      BY <2>1, NothingType, ResultTypes DEF Start
    <3>3. UNCHANGED <<book, files, busy, writes, edits>> /\ jumped' \in BOOLEAN
      BY <2>1, Zenon DEF Start
    <3> QED BY <3>1, <3>2, <3>3 DEF TypeOK, Numbered
  <2>2. CASE Blocks
    <3>1. pc # "idle" /\ files' = [files EXCEPT !["status"] = Blocked]
      BY <2>2 DEF Blocks, Finish
    <3>2. Blocked \in Statuses
      BY <3>1, BlockedType
    <3> QED BY <3>1, <3>2, FilesType, <2>2 DEF Blocks, Finish, TypeOK, Numbered, Files
  <2>3. CASE PreflightPasses
    BY <2>3 DEF PreflightPasses, TypeOK, Numbered
  <2>4. CASE ReadPage
    <3> DEFINE read == [i \in Ids |-> IF i \in Batch THEN book[i] ELSE rowsRead[i]]
    <3>1. read \in [Ids -> Contents]
      BY DEF TypeOK
    <3>2. pc \in {"before", "after"} /\ UNCHANGED <<book, run, result, files, busy, writes, edits, jumped>>
      BY <2>4 DEF ReadPage
    <3> HIDE DEF read
    <3>3. \/ Takes(TRUE, read)
          \/ Takes(FALSE, Nothing)
          \/ offset' = offset + PageSize /\ rowsRead' = read /\ UNCHANGED <<pc, taken>>
      BY <2>4 DEF ReadPage, read
    <3>4. /\ taken' \in [{"before", "after"} -> Snapshots]
          /\ offset' \in Nat /\ rowsRead' \in [Ids -> Contents]
          /\ pc' \in {"before", "after", "keepBefore", "keepAfter"}
      <4>1. CASE Takes(TRUE, read)
        BY <4>1, <3>1, <3>2, TakesType
      <4>2. CASE Takes(FALSE, Nothing)
        BY <4>2, <3>2, NothingType, TakesType
      <4>3. CASE offset' = offset + PageSize /\ rowsRead' = read /\ UNCHANGED <<pc, taken>>
        BY <4>3, <3>1, <3>2 DEF TypeOK, RefusalAssumption
      <4> QED BY <3>3, <4>1, <4>2, <4>3
    <3> QED BY <3>2, <3>4 DEF TypeOK, Numbered
  <2>5. CASE ReadFails
    <3>1. pc \in {"before", "after"} /\ Takes(FALSE, Nothing)
      BY <2>5 DEF ReadFails
    <3>2. /\ taken' \in [{"before", "after"} -> Snapshots]
          /\ offset' \in Nat /\ rowsRead' \in [Ids -> Contents]
          /\ pc' \in {"keepBefore", "keepAfter"}
      BY <3>1, NothingType, TakesType
    <3> QED BY <3>1, <3>2, <2>5 DEF ReadFails, TypeOK, Numbered
  <2>6. CASE KeepBefore
    <3>1. /\ pc # "idle" /\ taken["before"] \in Snapshots
          /\ files' = [files EXCEPT !["before"] =
                          [kind |-> "value", run |-> run, value |-> taken["before"]]]
      BY <2>6 DEF KeepBefore, Saves, TypeOK
    <3>2. [kind |-> "value", run |-> run, value |-> taken["before"]] \in Saved(Snapshots)
      BY <3>1, SavedType
    <3> QED BY <3>1, <3>2, FilesType, <2>6 DEF KeepBefore, TypeOK, Numbered, Files
  <2>7. CASE CatalogueAgrees
    BY <2>7, RunType DEF CatalogueAgrees, TypeOK, Numbered
  <2>8. CASE Replies
    BY <2>8, ResultTypes DEF Replies, Probed, TypeOK, Numbered
  <2>9. CASE ReplyFails
    <3>1. result' \in Results /\ pc' = "keepResult" /\ pc = "probe"
      BY <2>9, ResultTypes DEF ReplyFails, Probed
    <3> QED BY <3>1, <2>9 DEF ReplyFails, TypeOK, Numbered
  <2>10. CASE KeepResult
    <3>1. /\ pc # "idle" /\ result \in Results
          /\ files' = [files EXCEPT !["result"] =
                          [kind |-> "value", run |-> run, value |-> result]]
      BY <2>10 DEF KeepResult, Saves, TypeOK
    <3>2. [kind |-> "value", run |-> run, value |-> result] \in Saved(Results)
      BY <3>1, SavedType
    <3> QED BY <3>1, <3>2, FilesType, <2>10 DEF KeepResult, TypeOK, Numbered, Files
  <2>11. CASE KeepAfter
    <3>1. /\ pc # "idle" /\ taken["after"] \in Snapshots
          /\ files' = [files EXCEPT !["after"] =
                          [kind |-> "value", run |-> run, value |-> taken["after"]]]
      BY <2>11 DEF KeepAfter, Saves, TypeOK
    <3>2. [kind |-> "value", run |-> run, value |-> taken["after"]] \in Saved(Snapshots)
      BY <3>1, SavedType
    <3> QED BY <3>1, <3>2, FilesType, <2>11 DEF KeepAfter, TypeOK, Numbered, Files
  <2>12. CASE Conclude
    <3> DEFINE verdict == Verdict(result, taken["before"], taken["after"])
    <3>1. pc # "idle" /\ files' = [files EXCEPT !["status"] = verdict]
      BY <2>12 DEF Conclude, Finish
    <3>2. verdict \in Statuses
      BY <3>1, VerdictType
    <3> HIDE DEF verdict
    <3> QED BY <3>1, <3>2, FilesType, <2>12 DEF Conclude, Finish, TypeOK, Numbered, Files
  <2>13. CASE Kill
    <3>1. CASE UNCHANGED files
      BY <2>13, <3>1 DEF Kill, TypeOK, Numbered
    <3>2. CASE \E f \in Writing : files' = [files EXCEPT ![f] = Torn]
      <4>1. PICK f \in Files : files' = [files EXCEPT ![f] = Torn]
        BY <3>2, WritingFiles
      <4> QED BY <4>1, FilesType, <2>13 DEF Kill, TypeOK, Numbered
    <3> QED BY <2>13, <3>1, <3>2 DEF Kill
  <2>14. ASSUME NEW i \in Ids, NEW content \in Contents, Stores(i, content),
                writes' \in 0 .. MaxWrites, edits' \in 0 .. MaxEdits
         PROVE  TypeInv'
    <3>1. book' \in [Ids -> Contents]
      BY <2>14 DEF Stores, TypeOK
    <3>2. jumped' \in BOOLEAN
      BY <2>14, Zenon DEF Stores, TypeOK
    <3> QED BY <2>14, <3>1, <3>2 DEF Stores, TypeOK, Numbered
  <2>16. ASSUME NEW i \in Ids, NEW r \in 1 .. MaxRuns, AgentWrites(r, i) PROVE TypeInv'
    <3>1. PICK content \in {AgentWrote(r), Absent} : Stores(i, content)
      BY <2>16 DEF AgentWrites
    <3>2. content \in Contents
      BY <3>1 DEF Contents
    <3> QED BY <2>14, <2>16, <3>1, <3>2 DEF AgentWrites, TypeOK
  <2>17. ASSUME NEW i \in Ids, MateWrites(i) PROVE TypeInv'
    <3>1. PICK content \in {MateWrote, Absent} : Stores(i, content)
      BY <2>17 DEF MateWrites
    <3>2. content \in Contents
      BY <3>1 DEF Contents
    <3> QED BY <2>14, <2>17, <3>1, <3>2 DEF MateWrites, TypeOK
  <2>15. CASE UNCHANGED vars
    BY <2>15 DEF vars, TypeOK, Numbered
  <2> QED
    BY <2>1, <2>2, <2>3, <2>4, <2>5, <2>6, <2>7, <2>8, <2>9, <2>10, <2>11, <2>12, <2>13,
       <2>15, <2>16, <2>17 DEF Next, Run
<1> QED BY <1>1, <1>2, PTL DEF Spec

-----------------------------------------------------------------------------
(* What verify needs.                                                      *)

\* A verdict on file is "pass" exactly when both assertions are on file as true.
VerdictInv ==
    Readable("status") =>
        (files["status"].verdict = "pass" <=> files["status"].a1 /\ files["status"].a3)

\* A blocked run and a concluded one leave such a verdict.
LEMMA VerdictsAgree ==
  /\ Blocked.verdict = "pass" <=> Blocked.a1 /\ Blocked.a3
  /\ \A r, b, a : LET v == Verdict(r, b, a) IN v.verdict = "pass" <=> v.a1 /\ v.a3
<1>1. Blocked.verdict = "pass" <=> Blocked.a1 /\ Blocked.a3
  BY DEF Blocked
<1>2. ASSUME NEW r, NEW b, NEW a
      PROVE  LET v == Verdict(r, b, a) IN v.verdict = "pass" <=> v.a1 /\ v.a3
  <2>1. A1(r) \in BOOLEAN /\ A3(b, a) \in BOOLEAN
    BY Zenon DEF A1, A3
  <2> QED BY <2>1 DEF Verdict
<1> QED BY <1>1, <1>2

LEMMA VerdictKept ==
  ASSUME VerdictInv, files'["status"] = files["status"] PROVE VerdictInv'
  BY Zenon DEF VerdictInv, Readable

\* A step that saves another file, or tears one, keeps it.
LEMMA OthersKeepVerdict ==
  ASSUME VerdictInv, NEW f \in Files, NEW value, DOMAIN files = Files,
         files' = [files EXCEPT ![f] = value], value = Torn \/ f # "status"
  PROVE  VerdictInv'
<1>1. CASE f # "status"
  BY <1>1, VerdictKept DEF Files
<1>2. CASE f = "status" /\ value = Torn
  <2>1. files'["status"].kind = "torn"
    BY <1>2 DEF Files, Torn
  <2> QED BY <2>1, Zenon DEF VerdictInv, Readable
<1> QED BY <1>1, <1>2

\* Concluding or blocking leaves a status that agrees with itself.
LEMMA FinishKeepsVerdict ==
  ASSUME DOMAIN files = Files, NEW status, Finish(status),
         status.verdict = "pass" <=> status.a1 /\ status.a3
  PROVE  VerdictInv'
<1>1. files'["status"] = status
  BY DEF Finish, Files
<1> QED BY <1>1, Zenon DEF VerdictInv

\* The recorded verdict agrees with the recorded assertions at every moment.
LEMMA VerdictsOnFile == Spec => []VerdictInv
<1>1. Init => VerdictInv
  BY DEF Init, VerdictInv, Readable, Missing, Files
<1>2. TypeInv /\ VerdictInv /\ [Next]_vars => VerdictInv'
  <2> SUFFICES ASSUME TypeInv, VerdictInv, [Next]_vars PROVE VerdictInv'
    OBVIOUS
  <2>1. DOMAIN files = Files
    BY DEF TypeInv, TypeOK
  <2>2. CASE UNCHANGED files
    BY <2>2, VerdictKept
  <2>3. CASE Blocks
    BY <2>1, <2>3, VerdictsAgree, FinishKeepsVerdict DEF Blocks
  <2>4. CASE Conclude
    BY <2>1, <2>4, VerdictsAgree, FinishKeepsVerdict DEF Conclude
  <2>5. CASE KeepBefore
    BY <2>1, <2>5, OthersKeepVerdict DEF KeepBefore, Saves, Files
  <2>6. CASE KeepResult
    BY <2>1, <2>6, OthersKeepVerdict DEF KeepResult, Saves, Files
  <2>7. CASE KeepAfter
    BY <2>1, <2>7, OthersKeepVerdict DEF KeepAfter, Saves, Files
  <2>8. CASE Kill
    <3>1. CASE \E f \in Writing : files' = [files EXCEPT ![f] = Torn]
      BY <2>1, <3>1, WritingFiles, OthersKeepVerdict
    <3> QED BY <2>2, <2>8, <3>1 DEF Kill
  <2> QED
    BY <2>2, <2>3, <2>4, <2>5, <2>6, <2>7, <2>8
       DEF Next, Run, Start, PreflightPasses, ReadPage, ReadFails, CatalogueAgrees, Replies,
           ReplyFails, AgentWrites, MateWrites, Stores, vars
<1> QED BY <1>1, <1>2, RefusalTypeCorrect, PTL DEF Spec

\* However many runs wrote into a directory, and whichever were killed there,
\* verify passes it only when the run that left the verdict recorded a pass.
THEOREM PassIsOnFile == Spec => []VerifyNeedsPass
<1>1. VerdictInv => VerifyNeedsPass
  <2> SUFFICES ASSUME VerdictInv, VerifyExit = 0 PROVE files["status"].verdict = "pass"
    BY DEF VerifyNeedsPass
  <2>1. ~Unverifiable /\ Agrees
        /\ A1(files["result"].value) /\ A3(files["before"].value, files["after"].value)
    BY DEF VerifyExit
  <2>2. Readable("status")
    BY <2>1, Zenon DEF Unverifiable
  <2>3. files["status"].a1 /\ files["status"].a3
    BY <2>1, Zenon DEF Agrees
  <2> QED BY <2>2, <2>3, Zenon DEF VerdictInv
<1> QED BY <1>1, VerdictsOnFile, PTL

-----------------------------------------------------------------------------
(* What verify finds after a run.                                          *)

Holding(f, value) == files[f] = [kind |-> "value", run |-> run, value |-> value]

\* A run under way has saved what it has gone past.
SavedInv ==
    /\ pc \in {"catalogue", "probe", "keepResult", "after", "keepAfter", "conclude"} =>
          Holding("before", taken["before"])
    /\ pc \in {"after", "keepAfter", "conclude"} => Holding("result", result)
    /\ pc = "conclude" => Holding("after", taken["after"])

\* The status file says what the files beside it say.
Supported ==
    /\ \A f \in Files : Readable(f)
    /\ Agrees
    /\ files["status"].verdict = "pass" <=>
          A1(files["result"].value) /\ A3(files["before"].value, files["after"].value)

\* A status is of an earlier run, or ended this one.
EndedInv ==
    Readable("status") =>
        \/ files["status"].run < run
        \/ /\ pc = "idle" /\ files["status"].run = run
           /\ files["status"].verdict = "blocked" \/ Supported

LEMMA SavedStep == TypeInv /\ SavedInv /\ [Next]_vars => SavedInv'
<1> SUFFICES ASSUME TypeInv, SavedInv, [Next]_vars PROVE SavedInv'
  OBVIOUS
<1>0. DOMAIN files = Files
  BY DEF TypeInv, TypeOK
<1>1. CASE pc' \in {"idle", "preflight", "before", "keepBefore"}
  BY <1>1 DEF SavedInv
<1>2. ASSUME UNCHANGED <<pc, run, taken, result, files>> PROVE SavedInv'
  BY <1>2, Zenon DEF SavedInv, Holding
<1>3. CASE Start \/ Blocks \/ PreflightPasses \/ Conclude \/ Kill
  BY <1>1, <1>3 DEF Start, Blocks, PreflightPasses, Conclude, Kill, Finish
<1>4. CASE KeepBefore
  <2>1. /\ pc' = "catalogue" /\ UNCHANGED <<taken, run>>
        /\ files'["before"] = [kind |-> "value", run |-> run, value |-> taken["before"]]
    BY <1>0, <1>4 DEF KeepBefore, Saves, Files
  <2> QED BY <2>1 DEF SavedInv, Holding
<1>5. CASE ReadPage \/ ReadFails
  <2>1. /\ UNCHANGED <<run, result, files>> /\ pc \in {"before", "after"}
        /\ \/ UNCHANGED <<pc, taken>>
           \/ \E complete, rows : Takes(complete, rows)
    <3>1. CASE ReadPage
      BY <3>1, Zenon DEF ReadPage
    <3>2. CASE ReadFails
      BY <3>2, Zenon DEF ReadFails
    <3> QED BY <1>5, <3>1, <3>2
  <2>2. CASE UNCHANGED <<pc, taken>>
    BY <1>2, <2>1, <2>2
  <2>3. ASSUME NEW complete, NEW rows, Takes(complete, rows) PROVE SavedInv'
    <3>1. CASE pc = "before"
      BY <1>1, <2>3, <3>1 DEF Takes
    <3>2. CASE pc = "after"
      <4>1. taken'["before"] = taken["before"] /\ pc' = "keepAfter"
        BY <2>3, <3>2 DEF Takes, TypeInv, TypeOK
      <4> QED BY <2>1, <3>2, <4>1 DEF SavedInv, Holding
    <3> QED BY <2>1, <3>1, <3>2
  <2> QED BY <2>1, <2>2, <2>3
<1>6. CASE CatalogueAgrees
  <2>1. pc = "catalogue" /\ pc' = "probe" /\ UNCHANGED <<run, taken, files>>
    BY <1>6 DEF CatalogueAgrees
  <2> QED BY <2>1 DEF SavedInv, Holding
<1>7. CASE Replies \/ ReplyFails
  <2>1. pc = "probe" /\ pc' = "keepResult" /\ UNCHANGED <<run, taken, files>>
    BY <1>7, Zenon DEF Replies, ReplyFails, Probed
  <2> QED BY <2>1 DEF SavedInv, Holding
<1>8. CASE KeepResult
  <2>1. /\ pc = "keepResult" /\ pc' = "after" /\ UNCHANGED <<taken, run, result>>
        /\ files'["before"] = files["before"]
        /\ files'["result"] = [kind |-> "value", run |-> run, value |-> result]
    BY <1>0, <1>8 DEF KeepResult, Saves, Files
  <2> QED BY <2>1 DEF SavedInv, Holding
<1>9. CASE KeepAfter
  <2>1. /\ pc = "keepAfter" /\ pc' = "conclude" /\ UNCHANGED <<taken, run, result>>
        /\ files'["before"] = files["before"] /\ files'["result"] = files["result"]
        /\ files'["after"] = [kind |-> "value", run |-> run, value |-> taken["after"]]
    BY <1>0, <1>9 DEF KeepAfter, Saves, Files
  <2> QED BY <2>1 DEF SavedInv, Holding
<1>10. ASSUME NEW i, NEW content, Stores(i, content) PROVE SavedInv'
  BY <1>2, <1>10 DEF Stores
<1>11. CASE UNCHANGED vars
  BY <1>2, <1>11 DEF vars
<1> QED
  BY <1>3, <1>4, <1>5, <1>6, <1>7, <1>8, <1>9, <1>10, <1>11, WritesAre DEF Next, Run

\* The number of a status is a number.
LEMMA StatusRun == TypeInv /\ Readable("status") => files["status"].run \in Nat
<1> SUFFICES ASSUME TypeInv, Readable("status") PROVE files["status"].run \in Nat
  OBVIOUS
<1>1. files["status"] \in Statuses
  BY DEF TypeInv, TypeOK, Readable, Missing, Torn
<1>2. MaxRuns \in Nat
  BY Zenon, RefusalAssumption DEF RefusalAssumption
<1> QED BY <1>1, <1>2 DEF Statuses

\* Saving another file, or tearing one, under way leaves the status of an
\* earlier run, or none.
LEMMA OthersKeepEnded ==
  ASSUME TypeInv, EndedInv, pc # "idle", run' = run, NEW f \in Files, NEW value,
         files' = [files EXCEPT ![f] = value], value = Torn \/ f # "status"
  PROVE  EndedInv'
<1>1. Readable("status") => files["status"].run < run
  BY Zenon DEF EndedInv
<1>2. DOMAIN files = Files
  BY DEF TypeInv, TypeOK
<1>3. CASE f # "status"
  <2>1. files'["status"] = files["status"]
    BY <1>2, <1>3 DEF Files
  <2> QED BY <1>1, <2>1, Zenon DEF EndedInv, Readable
<1>4. CASE f = "status" /\ value = Torn
  <2>1. files'["status"].kind = "torn"
    BY <1>2, <1>4 DEF Files, Torn
  <2> QED BY <2>1, Zenon DEF EndedInv, Readable
<1> QED BY <1>3, <1>4

\* Concluding leaves the files that it judged.
LEMMA ConcludeEnds ==
  ASSUME TypeInv, SavedInv, Conclude
  PROVE  EndedInv'
<1>1. /\ pc = "conclude" /\ pc' = "idle" /\ run' = run
      /\ files' = [files EXCEPT !["status"] = Verdict(result, taken["before"], taken["after"])]
  BY DEF Conclude, Finish
<1>2. PICK b, a, r : b = taken["before"] /\ a = taken["after"] /\ r = result
  OBVIOUS
<1>3. Holding("before", b) /\ Holding("result", r) /\ Holding("after", a)
  BY <1>1, <1>2 DEF SavedInv
<1>4. DOMAIN files = Files
  BY DEF TypeInv, TypeOK
<1>5. /\ files'["before"] = files["before"] /\ files'["result"] = files["result"]
      /\ files'["after"] = files["after"] /\ files'["status"] = Verdict(r, b, a)
  BY <1>1, <1>2, <1>4 DEF Files
<1>6. /\ files'["before"].value = b /\ files'["result"].value = r
      /\ files'["after"].value = a
      /\ files'["before"].kind = "value" /\ files'["result"].kind = "value"
      /\ files'["after"].kind = "value"
  BY <1>3, <1>5 DEF Holding
<1>7. A1(r) \in BOOLEAN /\ A3(b, a) \in BOOLEAN
  BY Zenon DEF A1, A3
<1>8. /\ files'["status"].kind = "status" /\ files'["status"].run = run
      /\ files'["status"].a1 = A1(r) /\ files'["status"].a3 = A3(b, a)
      /\ files'["status"].verdict = "pass" <=> A1(r) /\ A3(b, a)
  BY <1>5, <1>7 DEF Verdict
<1>9. \A f \in Files : Readable(f)'
  <2>1. \A f \in Files : files'[f].kind \in {"value", "status"}
    BY <1>6, <1>8 DEF Files
  <2> QED BY <2>1 DEF Readable
<1>10. Agrees'
  BY <1>6, <1>8, Zenon DEF Agrees, A1, A3, ChangedIn
<1>11. (files["status"].verdict = "pass" <=>
          A1(files["result"].value) /\ A3(files["before"].value, files["after"].value))'
  BY <1>6, <1>8, Zenon DEF A1, A3, ChangedIn
<1>12. Supported'
  BY <1>9, <1>10, <1>11, Zenon DEF Supported
<1> QED BY <1>1, <1>8, <1>12, Zenon DEF EndedInv

LEMMA EndedStep == TypeInv /\ SavedInv /\ EndedInv /\ [Next]_vars => EndedInv'
<1> SUFFICES ASSUME TypeInv, SavedInv, EndedInv, [Next]_vars PROVE EndedInv'
  OBVIOUS
<1>0. DOMAIN files = Files
  BY DEF TypeInv, TypeOK
<1>1. ASSUME UNCHANGED <<files, run>>, pc # "idle" \/ UNCHANGED pc PROVE EndedInv'
  <2>1. CASE UNCHANGED pc
    BY <1>1, <2>1, Zenon DEF EndedInv, Readable, Supported, Agrees, A1, A3, ChangedIn
  <2>2. CASE pc # "idle"
    <3>1. Readable("status") => files["status"].run < run
      BY <2>2, Zenon DEF EndedInv
    <3> QED BY <1>1, <3>1, Zenon DEF EndedInv, Readable
  <2> QED BY <1>1, <2>1, <2>2
<1>2. CASE Start
  <2>1. run' = run + 1 /\ UNCHANGED files /\ run \in Nat
    BY <1>2 DEF Start, TypeInv, TypeOK
  <2>2. Readable("status") =>
            files["status"].run \in Nat /\ (files["status"].run < run \/ files["status"].run = run)
    BY StatusRun, Zenon DEF EndedInv
  <2>3. Readable("status") => files["status"].run < run + 1
    BY <2>1, <2>2
  <2> QED BY <2>1, <2>3, Zenon DEF EndedInv, Readable
<1>3. CASE Blocks
  <2>1. /\ pc' = "idle" /\ run' = run
        /\ files'["status"] = Blocked
    BY <1>0, <1>3 DEF Blocks, Finish, Files
  <2>2. files'["status"].run = run' /\ files'["status"].verdict = "blocked"
    BY <2>1 DEF Blocked
  <2> QED BY <2>1, <2>2, Zenon DEF EndedInv
<1>4. CASE Conclude
  BY <1>4, ConcludeEnds
<1>5. CASE KeepBefore
  BY <1>5, OthersKeepEnded DEF KeepBefore, Saves, Files
<1>6. CASE KeepResult
  BY <1>6, OthersKeepEnded DEF KeepResult, Saves, Files
<1>7. CASE KeepAfter
  BY <1>7, OthersKeepEnded DEF KeepAfter, Saves, Files
<1>8. CASE Kill
  <2>1. CASE UNCHANGED files
    BY <1>1, <1>8, <2>1 DEF Kill
  <2>2. CASE \E f \in Writing : files' = [files EXCEPT ![f] = Torn]
    BY <1>8, <2>2, WritingFiles, OthersKeepEnded DEF Kill
  <2> QED BY <1>8, <2>1, <2>2 DEF Kill
<1>9. CASE PreflightPasses \/ ReadPage \/ ReadFails \/ CatalogueAgrees \/ Replies \/ ReplyFails
  <2>1. pc # "idle" /\ UNCHANGED <<files, run>>
    BY <1>9 DEF PreflightPasses, ReadPage, ReadFails, CatalogueAgrees, Replies, ReplyFails
  <2> QED BY <1>1, <2>1
<1>10. ASSUME NEW i, NEW content, Stores(i, content) PROVE EndedInv'
  BY <1>1, <1>10 DEF Stores
<1>11. CASE UNCHANGED vars
  BY <1>1, <1>11 DEF vars
<1> QED
  BY <1>2, <1>3, <1>4, <1>5, <1>6, <1>7, <1>8, <1>9, <1>10, <1>11, WritesAre DEF Next, Run

\* Whatever the run met, and whatever earlier runs left in the directory,
\* verify repeats the verdict of a run that came to its end.
THEOREM VerifyRepeats == Spec => []VerifyAgrees
<1>1. Init => SavedInv /\ EndedInv
  BY DEF Init, SavedInv, EndedInv, Readable, Missing, Files
<1>2. TypeInv /\ EndedInv => VerifyAgrees
  <2> SUFFICES ASSUME TypeInv, EndedInv, pc = "idle", Readable("status"),
                      files["status"].run = run
               PROVE  /\ files["status"].verdict = "pass" => VerifyExit = 0
                      /\ files["status"].verdict = "fail" => VerifyExit = 1
                      /\ files["status"].verdict = "blocked" => VerifyExit = 3
    BY DEF VerifyAgrees
  <2>1. ~(files["status"].run < run)
    BY StatusRun
  <2>2. files["status"].verdict = "blocked" \/ Supported
    BY <2>1, Zenon DEF EndedInv
  <2>3. files["status"].verdict = "blocked" => Unverifiable
    BY Zenon DEF Unverifiable
  <2>4. files["status"].verdict # "blocked" => ~Unverifiable
    BY <2>2, Zenon DEF Unverifiable, Supported
  <2>5. files["status"].verdict # "blocked" =>
            /\ Agrees
            /\ files["status"].verdict = "pass" <=>
                  A1(files["result"].value) /\ A3(files["before"].value, files["after"].value)
    BY <2>2, Zenon DEF Supported
  <2>6. CASE files["status"].verdict = "blocked"
    BY <2>3, <2>6 DEF VerifyExit
  <2>7. CASE files["status"].verdict = "pass"
    <3>1. A1(files["result"].value) /\ A3(files["before"].value, files["after"].value)
      BY <2>5, <2>7
    <3> QED BY <2>4, <2>5, <2>7, <3>1 DEF VerifyExit
  <2>8. CASE files["status"].verdict = "fail"
    <3>1. ~(A1(files["result"].value) /\ A3(files["before"].value, files["after"].value))
      BY <2>5, <2>8
    <3> QED BY <2>4, <2>8, <3>1 DEF VerifyExit
  <2> QED BY <2>6, <2>7, <2>8
<1> QED BY <1>1, <1>2, SavedStep, EndedStep, RefusalTypeCorrect, PTL DEF Spec

-----------------------------------------------------------------------------
(* Pages of a finite list.                                                 *)

LEMMA PlaceType ==
  ASSUME RefusalAssumption
  PROVE  /\ IsFiniteSet(Existing) /\ Existing \subseteq Nat
         /\ \A i \in Existing :
               i \in Ids /\ Place(i) \in Nat /\ IsFiniteSet({j \in Existing : j < i})
<1>1. IsFiniteSet(Existing) /\ Existing \subseteq Nat
  BY FS_Subset DEF RefusalAssumption, Existing
<1>2. ASSUME NEW i \in Existing
      PROVE  i \in Ids /\ Place(i) \in Nat /\ IsFiniteSet({j \in Existing : j < i})
  <2>1. {j \in Existing : j < i} \in SUBSET Existing
    OBVIOUS
  <2>2. IsFiniteSet({j \in Existing : j < i})
    BY <1>1, <2>1, FS_Subset
  <2>3. Cardinality({j \in Existing : j < i}) \in Nat
    BY <2>2, FS_CardinalityType
  <2> QED BY <2>2, <2>3 DEF Place, Existing
<1> QED BY <1>1, <1>2

\* Places go up with the ids.
LEMMA PlacesAscend ==
  ASSUME RefusalAssumption, NEW i \in Existing, NEW j \in Existing, j < i
  PROVE  Place(j) < Place(i)
<1> DEFINE B(k) == {m \in Existing : m < k}
<1>1. i \in Nat /\ j \in Nat
  BY PlaceType
<1>2. IsFiniteSet(B(i)) /\ B(j) \in SUBSET B(i)
  <2>1. IsFiniteSet(B(i))
    BY PlaceType
  <2>2. ASSUME NEW m \in Existing, m < j PROVE m < i
    <3>1. m \in Nat
      BY PlaceType
    <3> QED BY <1>1, <2>2, <3>1
  <2> QED BY <2>1, <2>2
<1>3. /\ Cardinality(B(j)) <= Cardinality(B(i))
      /\ (Cardinality(B(i)) = Cardinality(B(j)) => B(i) = B(j))
  BY <1>2, FS_Subset
<1>4. j \in B(i) /\ j \notin B(j)
  BY <1>1
<1>5. Cardinality(B(j)) # Cardinality(B(i))
  BY <1>3, <1>4
<1> QED BY <1>3, <1>5, PlaceType DEF Place

\* Every number below a place is the place of a row.
LEMMA PlacesFilled ==
  ASSUME RefusalAssumption, NEW i \in Existing, NEW r \in 0 .. Place(i) - 1
  PROVE  \E j \in Existing : Place(j) = r
<1> DEFINE below == {j \in Existing : j < i}
           n == Place(i)
           f == [j \in below |-> Place(j)]
<1>1. IsFiniteSet(below) /\ n \in Nat /\ Cardinality(below) = n
  BY PlaceType DEF Place
<1>2. \A j \in below : Place(j) \in 0 .. n - 1
  <2> SUFFICES ASSUME NEW j \in below PROVE Place(j) \in 0 .. n - 1
    OBVIOUS
  <2>1. Place(j) < Place(i) /\ Place(j) \in Nat
    BY PlacesAscend, PlaceType
  <2> QED BY <1>1, <2>1
<1>3. \A j, k \in below : Place(j) = Place(k) => j = k
  <2> SUFFICES ASSUME NEW j \in below, NEW k \in below, j # k PROVE Place(j) # Place(k)
    OBVIOUS
  <2>1. j \in Nat /\ k \in Nat /\ j \in Existing /\ k \in Existing
    BY PlaceType
  <2>a. Place(j) \in Nat /\ Place(k) \in Nat
    BY <2>1, PlaceType
  <2>2. CASE j < k
    <3>1. Place(j) < Place(k)
      BY <2>1, <2>2, PlacesAscend
    <3> QED BY <2>a, <3>1
  <2>3. CASE k < j
    <3>1. Place(k) < Place(j)
      BY <2>1, <2>3, PlacesAscend
    <3> QED BY <2>a, <3>1
  <2> QED BY <2>1, <2>2, <2>3
<1>4. IsFiniteSet(0 .. n - 1) /\ Cardinality(0 .. n - 1) = n
  <2>1. 0 \in Int /\ n - 1 \in Int
    BY <1>1
  <2>2. IsFiniteSet(0 .. n - 1) /\ Cardinality(0 .. n - 1) = IF 0 > n - 1 THEN 0 ELSE n - 1 - 0 + 1
    BY <2>1, FS_Interval
  <2> QED BY <1>1, <2>2
<1> HIDE DEF n
<1>5. f \in Injection(below, 0 .. n - 1)
  <2>1. f \in [below -> 0 .. n - 1]
    BY <1>2 DEF n
  <2>2. \A j, k \in below : f[j] = f[k] => j = k
    BY <1>3
  <2> HIDE DEF f, below
  <2> QED BY <2>1, <2>2 DEF Injection, IsInjective
<1>6. f \in Surjection(below, 0 .. n - 1)
  BY <1>1, <1>4, <1>5, FS_Injection
<1>7. \A t \in 0 .. n - 1 : \E j \in below : f[j] = t
  BY <1>6 DEF Surjection
<1>8. PICK j \in below : f[j] = r
  BY <1>7 DEF n
<1> QED BY <1>8

\* A page that is short has the last row.
LEMMA ShortIsLast ==
  ASSUME RefusalAssumption, TypeOK, Cardinality(Batch) < PageSize, NEW i \in Existing
  PROVE  Place(i) < offset + PageSize
<1> SUFFICES ASSUME ~(Place(i) < offset + PageSize) PROVE FALSE
  OBVIOUS
<1>1. /\ PageSize \in Nat \ {0} /\ offset \in Nat /\ Place(i) \in Nat
      /\ Place(i) >= offset + PageSize
  <2>1. PageSize \in Nat \ {0} /\ offset \in Nat
    <3>1. PageSize \in Nat \ {0}
      BY Zenon DEF RefusalAssumption
    <3>2. offset \in Nat
      BY Zenon DEF TypeOK
    <3> QED BY <3>1, <3>2
  <2>2. Place(i) \in Nat
    BY PlaceType
  <2> QED BY <2>1, <2>2
<1> DEFINE page == offset .. offset + PageSize - 1
           f == [j \in Batch |-> Place(j)]
<1>2. \A r \in page : \E j \in Existing : Place(j) = r
  <2> SUFFICES ASSUME NEW r \in page PROVE \E j \in Existing : Place(j) = r
    OBVIOUS
  <2>1. r \in 0 .. Place(i) - 1
    BY <1>1
  <2> QED BY <2>1, PlacesFilled
<1>3. \A r \in page : \E j \in Batch : Place(j) = r
  BY <1>1, <1>2 DEF Batch
<1>4. \A j \in Batch : Place(j) \in page
  <2> SUFFICES ASSUME NEW j \in Batch PROVE Place(j) \in page
    OBVIOUS
  <2>1. j \in Existing /\ offset <= Place(j) /\ Place(j) < offset + PageSize
    BY DEF Batch
  <2>2. Place(j) \in Nat
    BY <2>1, PlaceType
  <2> QED BY <1>1, <2>1, <2>2
<1>5. f \in Surjection(Batch, page)
  <2>1. f \in [Batch -> page]
    BY <1>4
  <2>2. \A t \in page : \E j \in Batch : f[j] = t
    BY <1>3
  <2> HIDE DEF f, page
  <2> QED BY <2>1, <2>2 DEF Surjection
<1>6. IsFiniteSet(Batch) /\ Cardinality(Batch) \in Nat
  BY PlaceType, FS_Subset, FS_CardinalityType DEF Batch
<1>7. Cardinality(page) <= Cardinality(Batch)
  BY <1>5, <1>6, FS_Surjection
<1>8. Cardinality(page) = PageSize
  <2>1. offset \in Int /\ offset + PageSize - 1 \in Int
    BY <1>1
  <2>2. Cardinality(page) = IF offset > offset + PageSize - 1 THEN 0
                            ELSE offset + PageSize - 1 - offset + 1
    BY <2>1, FS_Interval
  <2> QED BY <1>1, <2>2
<1> QED BY <1>1, <1>6, <1>7, <1>8

\* When no row goes, none comes to an earlier place.
LEMMA PlacesStay ==
  ASSUME RefusalAssumption, NEW i \in Existing, Existing \subseteq Existing',
         IsFiniteSet(Existing')
  PROVE  Place(i) <= Place(i)'
<1> DEFINE now == {j \in Existing : j < i}
           then == {j \in Existing' : j < i}
<1>1. now \in SUBSET then /\ then \in SUBSET Existing'
  OBVIOUS
<1>2. IsFiniteSet(then)
  BY <1>1, FS_Subset
<1>3. Cardinality(now) <= Cardinality(then)
  BY <1>1, <1>2, FS_Subset
<1>4. Place(i)' = Cardinality(then)
  BY DEF Place
<1> QED BY <1>3, <1>4 DEF Place

-----------------------------------------------------------------------------
(* What the agent wrote.                                                   *)

\* The content is of a write the agent made in this run.
Wrote(content) == run >= 1 /\ content = AgentWrote(run)

Early == {"preflight", "before", "keepBefore", "catalogue"}

\* Before the agent is asked nothing of this run's is in the rows, nor is it in
\* the first snapshot at any time.  No row and no agent is of a later run.
FreshInv ==
    /\ \A i \in Ids : book[i] <= AgentWrote(run)
    /\ \A r \in busy : r <= run
    /\ pc \in Early => run \notin busy /\ \A i \in Ids : ~Wrote(book[i])
    /\ pc \in {"preflight", "before"} => \A i \in Ids : ~Wrote(rowsRead[i])
    /\ \A i \in Ids : ~Wrote(taken["before"].rows[i])

\* Between the snapshots nothing is read.
RestInv ==
    pc \in {"keepBefore", "catalogue", "probe", "keepResult"} =>
        offset = 0 /\ rowsRead = Nothing

\* An agent that answered is at work no longer; the second snapshot comes after.
AnsweredInv ==
    /\ result.http = "ok" =>
          run \notin busy /\ pc \in {"idle", "keepResult", "after", "keepAfter", "conclude"}
    /\ taken["after"].complete => pc \in {"idle", "keepAfter", "conclude"}

\* The second snapshot under way misses no row that stands and that it went
\* past, unless a row was deleted under it.
SightInv ==
    result.http = "ok" /\ pc = "after" =>
        \A i \in Ids : Wrote(book[i]) =>
            /\ rowsRead[i] = Absent \/ Wrote(rowsRead[i])
            /\ ~jumped /\ Place(i) < offset => Wrote(rowsRead[i])

\* Nor does it when it is complete.
TakenInv ==
    result.http = "ok" /\ taken["after"].complete =>
        \A i \in Ids : Wrote(book[i]) =>
            \/ jumped /\ taken["after"].rows[i] = Absent
            \/ Wrote(taken["after"].rows[i])

\* A verdict of this run is of what it took.
JudgedInv ==
    Readable("status") /\ files["status"].run = run /\ files["status"].verdict # "blocked" =>
        /\ files["result"].value = result
        /\ files["before"].value = taken["before"]
        /\ files["after"].value = taken["after"]

LEMMA ContentsAre ==
  ASSUME TypeInv
  PROVE  /\ run \in Nat /\ AgentWrote(run) = 2 + run
         /\ \A i \in Ids : book[i] \in Nat
<1>1. MaxRuns \in Nat
  BY Zenon, RefusalAssumption DEF RefusalAssumption
<1>2. book \in [Ids -> Contents] /\ run \in 0 .. MaxRuns
  BY Zenon DEF TypeInv, TypeOK
<1>3. \A c \in Contents : c \in Nat
  BY <1>1 DEF Contents, Absent, Old, MateWrote, AgentWrote
<1> QED BY <1>1, <1>2, <1>3 DEF AgentWrote

\* What a request read, and what became of it.
LEMMA ReadsPage ==
  ASSUME ReadPage
  PROVE  /\ pc \in {"before", "after"}
         /\ UNCHANGED <<book, run, result, files, busy, writes, edits, jumped>>
         /\ \E rows :
               /\ rows = [i \in Ids |-> IF i \in Batch THEN book[i] ELSE rowsRead[i]]
               /\ \/ Cardinality(Batch) < PageSize /\ Takes(TRUE, rows)
                  \/ Takes(FALSE, Nothing)
                  \/ offset' = offset + PageSize /\ rowsRead' = rows /\ UNCHANGED <<pc, taken>>
BY DEF ReadPage

LEMMA NothingUnwritten ==
  ASSUME TypeInv, NEW i \in Ids PROVE ~Wrote(Nothing[i])
BY ContentsAre DEF Wrote, Nothing, Absent

LEMMA FreshStep == TypeInv /\ FreshInv /\ [Next]_vars => FreshInv'
<1> SUFFICES ASSUME TypeInv, FreshInv, [Next]_vars PROVE FreshInv'
  OBVIOUS
<1>0. /\ run \in Nat /\ AgentWrote(run) = 2 + run
      /\ \A i \in Ids : book[i] \in Nat /\ book[i] <= 2 + run
  BY ContentsAre DEF FreshInv
<1>t. taken \in [{"before", "after"} -> Snapshots]
  BY Zenon DEF TypeInv, TypeOK
<1>1. ASSUME UNCHANGED <<book, run>>, \A r \in busy' : r <= run,
             taken'["before"] = taken["before"], pc' \notin Early
      PROVE  FreshInv'
  BY <1>1 DEF FreshInv, Wrote, AgentWrote, Early
<1>2. ASSUME UNCHANGED <<book, run, busy, rowsRead>>, taken'["before"] = taken["before"],
             pc \in Early, pc' \in {"preflight", "before"} => pc \in {"preflight", "before"}
      PROVE  FreshInv'
  BY <1>2 DEF FreshInv, Wrote, AgentWrote, Early
<1>3. CASE Start
  <2>1. /\ run' = run + 1 /\ UNCHANGED <<book, busy>> /\ rowsRead' = Nothing
        /\ taken'["before"] = NoSnapshot
    BY <1>3 DEF Start
  <2>2. \A i \in Ids : rowsRead'[i] = 0 /\ taken'["before"].rows[i] = 0
    BY <2>1 DEF Nothing, NoSnapshot, Absent
  <2>3. AgentWrote(run)' = 3 + run
    BY <1>0, <2>1 DEF AgentWrote
  <2>4. /\ \A i \in Ids : book'[i] <= AgentWrote(run)' /\ book'[i] # AgentWrote(run)'
        /\ AgentWrote(run)' # 0
    BY <1>0, <2>1, <2>3
  <2>5. run' \notin busy' /\ \A r \in busy' : r <= run'
    <3>1. \A r \in busy : r \in Nat /\ r <= run
      BY DEF FreshInv, TypeInv, TypeOK
    <3> QED BY <1>0, <2>1, <3>1
  <2> QED BY <2>1, <2>2, <2>4, <2>5 DEF FreshInv, Wrote
<1>4. CASE Blocks \/ Conclude \/ Kill
  BY <1>1, <1>4 DEF Blocks, Conclude, Kill, Finish, Early, FreshInv
<1>5. CASE PreflightPasses \/ KeepBefore
  BY <1>2, <1>5 DEF PreflightPasses, KeepBefore, Early
<1>6. CASE CatalogueAgrees \/ KeepResult \/ KeepAfter
  <2>1. \A r \in busy' : r <= run
    BY <1>0, <1>6 DEF CatalogueAgrees, KeepResult, KeepAfter, FreshInv
  <2> QED BY <1>1, <1>6, <2>1 DEF CatalogueAgrees, KeepResult, KeepAfter, Early
<1>7. CASE Replies \/ ReplyFails
  <2>1. \A r \in busy' : r <= run
    BY <1>7, Zenon DEF Replies, ReplyFails, FreshInv
  <2> QED BY <1>1, <1>7, <2>1, Zenon DEF Replies, ReplyFails, Probed, Early
<1>8. ASSUME NEW complete, NEW rows, Takes(complete, rows), pc \in {"before", "after"},
             UNCHANGED <<book, run, busy>>, pc = "before" => \A i \in Ids : ~Wrote(rows[i])
      PROVE  FreshInv'
  <2>1. CASE pc = "after"
    BY <1>1, <1>8, <1>t, <2>1 DEF Takes, Early, FreshInv
  <2>2. CASE pc = "before"
    <3>1. /\ pc' = "keepBefore"
          /\ taken'["before"].rows = rows
      BY <1>8, <1>t, <2>2 DEF Takes
    <3>2. busy' = busy /\ run \notin busy /\ \A i \in Ids : ~Wrote(book[i])
      BY <2>2, <1>8, Zenon DEF FreshInv, Early
    <3> QED BY <3>1, <1>8, <2>2 DEF FreshInv, Wrote, AgentWrote, Early
  <2> QED BY <1>8, <2>1, <2>2
<1>9. CASE ReadFails
  BY <1>8, <1>9, NothingUnwritten DEF ReadFails
<1>10. CASE ReadPage
  <2>1. PICK rows :
            /\ rows = [i \in Ids |-> IF i \in Batch THEN book[i] ELSE rowsRead[i]]
            /\ \/ Takes(TRUE, rows)
               \/ Takes(FALSE, Nothing)
               \/ rowsRead' = rows /\ UNCHANGED <<pc, taken>>
    BY <1>10, ReadsPage
  <2>2. pc \in {"before", "after"} /\ UNCHANGED <<book, run, busy>>
    BY <1>10, ReadsPage
  <2>3. pc = "before" => \A i \in Ids : ~Wrote(rows[i])
    BY <2>1 DEF FreshInv, Early
  <2>4. CASE Takes(TRUE, rows)
    BY <1>8, <2>2, <2>3, <2>4
  <2>5. CASE Takes(FALSE, Nothing)
    BY <1>8, <2>2, <2>5, NothingUnwritten
  <2>6. CASE rowsRead' = rows /\ UNCHANGED <<pc, taken>>
    BY <2>2, <2>3, <2>6 DEF FreshInv, Wrote, AgentWrote, Early
  <2> QED BY <2>1, <2>4, <2>5, <2>6
<1>11. ASSUME NEW i \in Ids, run \in busy, Stores(i, AgentWrote(run)) PROVE FreshInv'
  <2>1. /\ book' = [book EXCEPT ![i] = AgentWrote(run)]
        /\ UNCHANGED <<pc, run, busy, taken>>
    BY <1>11 DEF Stores
  <2>2. pc' \notin Early
    BY <1>11, <2>1, Zenon DEF FreshInv
  <2>3. \A k \in Ids : book'[k] = book[k] \/ book'[k] = 2 + run
    BY <1>0, <2>1 DEF TypeInv, TypeOK
  <2>4. \A k \in Ids : book'[k] <= 2 + run
    BY <1>0, <2>3
  <2> QED BY <2>1, <2>2, <2>4 DEF FreshInv, Wrote, AgentWrote, Early
<1>12. ASSUME NEW i \in Ids, NEW content \in Foreign, Stores(i, content) PROVE FreshInv'
  <2>1. book' = [book EXCEPT ![i] = content]
    BY <1>12 DEF Stores
  <2>2. UNCHANGED <<pc, run, taken, busy, rowsRead>>
    BY <1>12 DEF Stores
  <2>3. content <= 2 + run /\ (run >= 1 => content # 2 + run)
    <3>1. \A r \in busy : r \in Nat /\ r <= run
      BY DEF FreshInv, TypeInv, TypeOK
    <3> QED BY <1>0, <3>1 DEF Foreign, AgentWrote, MateWrote, Absent
  <2>4. \A k \in Ids : book'[k] = book[k] \/ book'[k] = content
    BY <1>0, <2>1 DEF TypeInv, TypeOK
  <2>5. \A k \in Ids : book'[k] <= 2 + run /\ (~Wrote(book[k]) => ~Wrote(book'[k]))
    BY <1>0, <2>3, <2>4 DEF Wrote
  <2> QED BY <2>2, <2>5 DEF FreshInv, Wrote, AgentWrote, Early
<1>13. CASE UNCHANGED vars
  BY <1>13 DEF vars, FreshInv, Wrote, AgentWrote, Early
<1> QED
  BY <1>3, <1>4, <1>5, <1>6, <1>7, <1>9, <1>10, <1>11, <1>12, <1>13, WritesAre DEF Next, Run

LEMMA RestStep == TypeInv /\ RestInv /\ [Next]_vars => RestInv'
<1> SUFFICES ASSUME TypeInv, RestInv, [Next]_vars PROVE RestInv'
  OBVIOUS
<1>1. ASSUME UNCHANGED <<offset, rowsRead>>,
             \/ pc' \notin {"keepBefore", "catalogue", "probe", "keepResult"}
             \/ UNCHANGED pc
             \/ pc \in {"keepBefore", "catalogue", "probe", "keepResult"}
      PROVE  RestInv'
  BY <1>1 DEF RestInv, Nothing
<1>2. ASSUME NEW complete, NEW rows, Takes(complete, rows) PROVE RestInv'
  BY <1>2 DEF RestInv, Takes, Nothing
<1>3. CASE ReadFails
  BY <1>2, <1>3 DEF ReadFails
<1>4. CASE ReadPage
  <2>1. \/ \E complete, rows : Takes(complete, rows)
        \/ UNCHANGED pc /\ pc \in {"before", "after"}
    BY <1>4, ReadsPage
  <2> QED BY <1>2, <2>1 DEF RestInv
<1>5. CASE Start
  BY <1>5 DEF Start, RestInv
<1>6. CASE Blocks \/ Conclude \/ Kill
  BY <1>1, <1>6 DEF Blocks, Conclude, Kill, Finish
<1>7. CASE PreflightPasses \/ KeepBefore \/ CatalogueAgrees \/ KeepResult \/ KeepAfter
  BY <1>1, <1>7 DEF PreflightPasses, KeepBefore, CatalogueAgrees, KeepResult, KeepAfter
<1>8. CASE Replies \/ ReplyFails
  BY <1>1, <1>8, Zenon DEF Replies, ReplyFails
<1>9. ASSUME NEW i, NEW content, Stores(i, content) PROVE RestInv'
  BY <1>1, <1>9, Zenon DEF Stores
<1>10. CASE UNCHANGED vars
  BY <1>1, <1>10 DEF vars
<1> QED
  BY <1>3, <1>4, <1>5, <1>6, <1>7, <1>8, <1>9, <1>10, WritesAre DEF Next, Run

LEMMA AnsweredStep == TypeInv /\ AnsweredInv /\ [Next]_vars => AnsweredInv'
<1> SUFFICES ASSUME TypeInv, AnsweredInv, [Next]_vars PROVE AnsweredInv'
  OBVIOUS
<1>t. taken \in [{"before", "after"} -> Snapshots]
  BY Zenon DEF TypeInv, TypeOK
<1> DEFINE answered == {"idle", "keepResult", "after", "keepAfter", "conclude"}
           over == {"idle", "keepAfter", "conclude"}
<1>1. ASSUME UNCHANGED <<result, busy, run>>, taken'["after"] = taken["after"],
             pc \in answered => pc' \in answered, pc \in over => pc' \in over
      PROVE  AnsweredInv'
  BY <1>1, Zenon DEF AnsweredInv
<1>2. ASSUME NEW complete, NEW rows, Takes(complete, rows), UNCHANGED <<result, busy, run>>,
             pc \in {"before", "after"}
      PROVE  AnsweredInv'
  <2>1. CASE pc = "before"
    <3>1. pc' = "keepBefore" /\ taken'["after"] = taken["after"]
      BY <1>2, <1>t, <2>1 DEF Takes
    <3> QED BY <1>1, <1>2, <2>1, <3>1
  <2>2. CASE pc = "after"
    <3>1. pc' = "keepAfter"
      BY <1>2, <2>2 DEF Takes
    <3>2. result.http = "ok" => run \notin busy
      BY Zenon DEF AnsweredInv
    <3>3. pc' \in over /\ pc' \in answered
      BY <3>1
    <3> QED BY <1>2, <3>2, <3>3, Zenon DEF AnsweredInv
  <2> QED BY <1>2, <2>1, <2>2
<1>3. CASE ReadFails
  BY <1>2, <1>3 DEF ReadFails
<1>4. CASE ReadPage
  <2>1. /\ pc \in {"before", "after"} /\ UNCHANGED <<result, busy, run>>
        /\ \/ \E complete, rows : Takes(complete, rows)
           \/ UNCHANGED <<pc, taken>>
    BY <1>4, ReadsPage
  <2> QED BY <1>1, <1>2, <2>1
<1>5. CASE Start
  <2>1. result' = NoResult /\ taken'["after"] = NoSnapshot
    BY <1>5 DEF Start
  <2>2. result'.http # "ok" /\ ~taken'["after"].complete
    BY <2>1 DEF NoResult, NoSnapshot
  <2> QED BY <2>2, Zenon DEF AnsweredInv
<1>6. CASE Blocks \/ Conclude \/ Kill
  BY <1>1, <1>6 DEF Blocks, Conclude, Kill, Finish
<1>7. CASE PreflightPasses \/ KeepBefore \/ KeepResult \/ KeepAfter
  BY <1>1, <1>7 DEF PreflightPasses, KeepBefore, KeepResult, KeepAfter
<1>8. CASE CatalogueAgrees
  <2>1. pc \notin answered /\ pc \notin over /\ UNCHANGED <<result, taken>>
    BY <1>8 DEF CatalogueAgrees
  <2> QED BY <2>1, Zenon DEF AnsweredInv
<1>9. CASE Replies
  <2>1. /\ run' \notin busy' /\ pc' = "keepResult" /\ UNCHANGED taken
    BY <1>9, Zenon DEF Replies, Probed
  <2>2. pc' \in answered
    BY <2>1
  <2>3. pc \notin over
    BY <1>9 DEF Replies
  <2> QED BY <2>1, <2>2, <2>3, Zenon DEF AnsweredInv
<1>10. CASE ReplyFails
  <2>1. PICK reason : result' = Failure(reason)
    BY <1>10, Zenon DEF ReplyFails, Probed
  <2>2. result'.http # "ok"
    BY <2>1 DEF Failure
  <2>3. pc \notin over /\ UNCHANGED taken
    BY <1>10, Zenon DEF ReplyFails
  <2> QED BY <2>2, <2>3, Zenon DEF AnsweredInv
<1>11. ASSUME NEW i, NEW content, Stores(i, content) PROVE AnsweredInv'
  BY <1>1, <1>11, Zenon DEF Stores
<1>12. CASE UNCHANGED vars
  BY <1>1, <1>12 DEF vars
<1> QED
  BY <1>3, <1>4, <1>5, <1>6, <1>7, <1>8, <1>9, <1>10, <1>11, <1>12, WritesAre DEF Next, Run

\* What others leave standing was standing.
LEMMA StoodBefore ==
  ASSUME TypeInv, NEW j \in Ids, NEW content \in Foreign, Stores(j, content),
         NEW i \in Ids, Wrote(book'[i])
  PROVE  i # j /\ book'[i] = book[i] /\ Wrote(book[i])
<1>1. book' = [book EXCEPT ![j] = content]
  BY DEF Stores
<1>2. book'[i] = book[i] \/ (i = j /\ book'[i] = content)
  BY <1>1 DEF TypeInv, TypeOK
<1>3. book'[i] = 2 + run /\ run >= 1 /\ run \in Nat
  BY ContentsAre DEF Wrote
<1>4. book'[i] # content
  <2>1. \A r \in busy : r \in Nat
    BY DEF TypeInv, TypeOK
  <2> QED BY <1>3, <2>1 DEF Foreign, AgentWrote, MateWrote, Absent
<1>5. book'[j] = content
  BY <1>1 DEF TypeInv, TypeOK
<1> QED BY <1>2, <1>4, <1>5

LEMMA SightStep ==
  TypeInv /\ RestInv /\ AnsweredInv /\ SightInv /\ [Next]_vars => SightInv'
<1> SUFFICES ASSUME TypeInv, RestInv, AnsweredInv, SightInv, [Next]_vars,
                    result'.http = "ok", pc' = "after", NEW i \in Ids, Wrote(book[i])'
             PROVE  /\ rowsRead'[i] = Absent \/ Wrote(rowsRead[i])'
                    /\ ~jumped' /\ Place(i)' < offset' => Wrote(rowsRead[i])'
  BY DEF SightInv
<1>1. ASSUME UNCHANGED <<book, run, rowsRead, result, pc, offset, jumped>>
      PROVE  /\ rowsRead'[i] = Absent \/ Wrote(rowsRead[i])'
             /\ ~jumped' /\ Place(i)' < offset' => Wrote(rowsRead[i])'
  BY <1>1 DEF SightInv, Wrote, AgentWrote, Place, Existing
<1>2. ~(Start \/ Blocks \/ PreflightPasses \/ ReadFails \/ KeepBefore \/ CatalogueAgrees
        \/ KeepAfter \/ Conclude \/ Kill)
  BY DEF Start, Blocks, PreflightPasses, ReadFails, Takes, KeepBefore, CatalogueAgrees,
         KeepAfter, Conclude, Kill, Finish
<1>3. ~(Replies \/ ReplyFails)
  BY Zenon DEF Replies, ReplyFails, Probed
<1>4. CASE KeepResult
  <2>1. rowsRead' = Nothing /\ offset' = 0
    BY <1>4 DEF KeepResult, RestInv
  <2>2. UNCHANGED <<book, run>>
    BY <1>4 DEF KeepResult
  <2>3. i \in Existing /\ Place(i)' = Place(i)
    <3>1. book[i] # Absent
      BY <2>2, ContentsAre DEF Wrote, Absent, AgentWrote
    <3> QED BY <2>2, <3>1 DEF Place, Existing
  <2>4. Place(i) \in Nat
    BY <2>3, PlaceType, RefusalAssumption
  <2> QED BY <2>1, <2>3, <2>4 DEF Nothing
<1>5. CASE ReadPage
  <2>1. PICK rows :
            /\ rows = [k \in Ids |-> IF k \in Batch THEN book[k] ELSE rowsRead[k]]
            /\ offset' = offset + PageSize /\ rowsRead' = rows /\ UNCHANGED <<pc, taken>>
    BY <1>5, ReadsPage DEF Takes
  <2>2. UNCHANGED <<book, run, result, jumped>>
    BY <1>5, ReadsPage
  <2>3. /\ Wrote(book[i]) /\ book[i] # Absent /\ i \in Existing
        /\ Place(i)' = Place(i)
    <3>1. Wrote(book[i]) /\ book[i] # Absent
      BY <2>2, ContentsAre DEF Wrote, Absent, AgentWrote
    <3> QED BY <2>2, <3>1 DEF Place, Existing
  <2>4. /\ rowsRead[i] = Absent \/ Wrote(rowsRead[i])
        /\ ~jumped /\ Place(i) < offset => Wrote(rowsRead[i])
    BY <2>1, <2>2, <2>3 DEF SightInv
  <2>5. rowsRead'[i] = IF i \in Batch THEN book[i] ELSE rowsRead[i]
    BY <2>1
  <2>6. CASE i \in Batch
    BY <2>2, <2>3, <2>5, <2>6 DEF Wrote, AgentWrote
  <2>7. CASE i \notin Batch
    <3>1. Place(i) \in Nat /\ offset \in Nat /\ PageSize \in Nat
      <4>1. Place(i) \in Nat
        BY <2>3, PlaceType, RefusalAssumption
      <4>2. offset \in Nat
        BY Zenon DEF TypeInv, TypeOK
      <4>3. PageSize \in Nat
        BY Zenon, RefusalAssumption DEF RefusalAssumption
      <4> QED BY <4>1, <4>2, <4>3
    <3>2. Place(i)' < offset' => Place(i) < offset
      BY <2>1, <2>3, <2>7, <3>1 DEF Batch
    <3> QED BY <2>2, <2>4, <2>5, <2>7, <3>2 DEF Wrote, AgentWrote
  <2> QED BY <2>6, <2>7
<1>6. ASSUME NEW j, NEW content, Stores(j, content), run \in busy
      PROVE  FALSE
  BY <1>6, Zenon DEF Stores, AnsweredInv
<1>7. ASSUME NEW j \in Ids, NEW content \in Foreign, Stores(j, content)
      PROVE  /\ rowsRead'[i] = Absent \/ Wrote(rowsRead[i])'
             /\ ~jumped' /\ Place(i)' < offset' => Wrote(rowsRead[i])'
  <2>1. UNCHANGED <<pc, run, offset, rowsRead, result>>
    BY <1>7 DEF Stores
  <2>2. Wrote(book'[i])
    BY <2>1 DEF Wrote, AgentWrote
  <2>3. i # j /\ book'[i] = book[i] /\ Wrote(book[i])
    BY <1>7, <2>2, StoodBefore
  <2>4. /\ rowsRead[i] = Absent \/ Wrote(rowsRead[i])
        /\ ~jumped /\ Place(i) < offset => Wrote(rowsRead[i])
    BY <2>1, <2>3 DEF SightInv
  <2>5. ASSUME ~jumped', Place(i)' < offset' PROVE Wrote(rowsRead[i])
    <3>1. ~jumped /\ book'[j] # Absent
      <4>1. ~jumped /\ content # Absent
        BY <1>7, <2>1, <2>5, Zenon DEF Stores
      <4> QED BY <1>7, <4>1 DEF Stores, TypeInv, TypeOK
    <3>2. Existing \subseteq Existing'
      <4>1. \A k \in Ids : k # j => book'[k] = book[k]
        BY <1>7 DEF Stores, TypeInv, TypeOK
      <4> QED BY <3>1, <4>1 DEF Existing
    <3>3. i \in Existing
      BY <2>3, ContentsAre DEF Wrote, Existing, Absent, AgentWrote
    <3>4. IsFiniteSet(Existing')
      <4>1. Existing' \in SUBSET Ids
        BY DEF Existing
      <4>2. IsFiniteSet(Ids)
        BY Zenon, RefusalAssumption DEF RefusalAssumption
      <4> QED BY <4>1, <4>2, FS_Subset
    <3>5. Place(i) <= Place(i)'
      BY <3>2, <3>3, <3>4, PlacesStay, RefusalAssumption
    <3>6. Place(i) \in Nat /\ Place(i)' \in Nat /\ offset \in Nat
      <4>1. Place(i) \in Nat
        BY <3>3, PlaceType, RefusalAssumption
      <4>2. Place(i)' \in Nat
        <5>1. {k \in Existing' : k < i} \in SUBSET Existing'
          OBVIOUS
        <5>2. IsFiniteSet({k \in Existing' : k < i})
          BY <3>4, <5>1, FS_Subset
        <5> QED BY <5>2, FS_CardinalityType DEF Place
      <4>3. offset \in Nat
        BY Zenon DEF TypeInv, TypeOK
      <4> QED BY <4>1, <4>2, <4>3
    <3>7. Place(i) < offset
      BY <2>1, <2>5, <3>5, <3>6
    <3> QED BY <2>4, <3>1, <3>7
  <2> QED BY <2>1, <2>4, <2>5 DEF Wrote, AgentWrote
<1>8. CASE UNCHANGED vars
  BY <1>1, <1>8 DEF vars
<1> QED
  BY <1>2, <1>3, <1>4, <1>5, <1>6, <1>7, <1>8, WritesAre DEF Next, Run

LEMMA TakenStep ==
  TypeInv /\ AnsweredInv /\ SightInv /\ TakenInv /\ [Next]_vars => TakenInv'
<1> SUFFICES ASSUME TypeInv, AnsweredInv, SightInv, TakenInv, [Next]_vars,
                    result'.http = "ok", taken'["after"].complete,
                    NEW i \in Ids, Wrote(book[i])'
             PROVE  \/ jumped' /\ taken'["after"].rows[i] = Absent
                    \/ Wrote(taken["after"].rows[i])'
  BY DEF TakenInv
<1> DEFINE Seen == \/ jumped' /\ taken'["after"].rows[i] = Absent
                   \/ Wrote(taken["after"].rows[i])'
<1>t. taken \in [{"before", "after"} -> Snapshots]
  BY Zenon DEF TypeInv, TypeOK
<1>1. ASSUME UNCHANGED <<book, run, result, jumped>>, taken'["after"] = taken["after"]
      PROVE  Seen
  BY <1>1 DEF TakenInv, Wrote, AgentWrote
<1>2. CASE Start
  <2>1. taken'["after"] = NoSnapshot
    BY <1>2 DEF Start
  <2> QED BY <2>1 DEF NoSnapshot
<1>3. CASE Blocks \/ Conclude \/ Kill \/ PreflightPasses \/ KeepBefore \/ CatalogueAgrees
           \/ KeepResult \/ KeepAfter
  BY <1>1, <1>3 DEF Blocks, Conclude, Kill, PreflightPasses, KeepBefore, CatalogueAgrees,
                    KeepResult, KeepAfter, Finish
<1>4. CASE Replies \/ ReplyFails
  <2>1. pc = "probe" /\ UNCHANGED taken
    BY <1>4, Zenon DEF Replies, ReplyFails
  <2> QED BY <2>1, Zenon DEF AnsweredInv
<1>5. ASSUME NEW complete, NEW rows, Takes(complete, rows), pc \in {"before", "after"},
             UNCHANGED <<book, run, result, jumped>>,
             pc = "after" /\ complete =>
                (jumped /\ rows[i] = Absent) \/ Wrote(rows[i])
      PROVE  Seen
  <2>1. CASE pc = "before"
    <3>1. taken'["after"] = taken["after"]
      BY <1>5, <1>t, <2>1 DEF Takes
    <3> QED BY <1>1, <1>5, <3>1
  <2>2. CASE pc = "after"
    <3>1. taken'["after"].rows = rows /\ complete
      BY <1>5, <1>t, <2>2 DEF Takes
    <3> QED BY <1>5, <2>2, <3>1 DEF Wrote, AgentWrote
  <2> QED BY <1>5, <2>1, <2>2
<1>6. CASE ReadFails
  BY <1>5, <1>6 DEF ReadFails
<1>7. CASE ReadPage
  <2>1. PICK rows :
            /\ rows = [k \in Ids |-> IF k \in Batch THEN book[k] ELSE rowsRead[k]]
            /\ \/ Cardinality(Batch) < PageSize /\ Takes(TRUE, rows)
               \/ Takes(FALSE, Nothing)
               \/ UNCHANGED <<pc, taken>>
    BY <1>7, ReadsPage
  <2>2. UNCHANGED <<book, run, result, jumped>> /\ pc \in {"before", "after"}
    BY <1>7, ReadsPage
  <2>3. Wrote(book[i]) /\ i \in Existing
    <3>1. Wrote(book[i]) /\ book[i] # Absent
      BY <2>2, ContentsAre DEF Wrote, Absent, AgentWrote
    <3> QED BY <3>1 DEF Existing
  <2>4. ASSUME Cardinality(Batch) < PageSize, pc = "after"
        PROVE  (jumped /\ rows[i] = Absent) \/ Wrote(rows[i])
    <3>1. /\ rowsRead[i] = Absent \/ Wrote(rowsRead[i])
          /\ ~jumped /\ Place(i) < offset => Wrote(rowsRead[i])
      BY <2>2, <2>3, <2>4 DEF SightInv
    <3>2. rows[i] = IF i \in Batch THEN book[i] ELSE rowsRead[i]
      BY <2>1
    <3>3. CASE i \in Batch
      BY <2>3, <3>2, <3>3
    <3>4. CASE i \notin Batch
      <4>1. Place(i) < offset + PageSize
        BY <2>3, <2>4, ShortIsLast, RefusalAssumption DEF TypeInv
      <4>2. Place(i) \in Nat /\ offset \in Nat
        <5>1. Place(i) \in Nat
          BY <2>3, PlaceType, RefusalAssumption
        <5>2. offset \in Nat
          BY Zenon DEF TypeInv, TypeOK
        <5> QED BY <5>1, <5>2
      <4>3. Place(i) < offset
        BY <2>3, <3>4, <4>1, <4>2 DEF Batch
      <4> QED BY <3>1, <3>2, <3>4, <4>3
    <3> QED BY <3>3, <3>4
  <2>5. CASE Cardinality(Batch) < PageSize /\ Takes(TRUE, rows)
    BY <1>5, <2>2, <2>4, <2>5
  <2>6. CASE Takes(FALSE, Nothing)
    BY <1>5, <2>2, <2>6
  <2>7. CASE UNCHANGED <<pc, taken>>
    BY <1>1, <2>2, <2>7
  <2> QED BY <2>1, <2>5, <2>6, <2>7
<1>8. ASSUME NEW j, NEW content, Stores(j, content), run \in busy PROVE FALSE
  BY <1>8, Zenon DEF Stores, AnsweredInv
<1>9. ASSUME NEW j \in Ids, NEW content \in Foreign, Stores(j, content) PROVE Seen
  <2>1. UNCHANGED <<run, taken, result>> /\ (jumped => jumped')
    BY <1>9, Zenon DEF Stores
  <2>2. Wrote(book'[i])
    BY <2>1 DEF Wrote, AgentWrote
  <2>3. Wrote(book[i])
    BY <1>9, <2>2, StoodBefore
  <2> QED BY <2>1, <2>3 DEF TakenInv, Wrote, AgentWrote
<1>10. CASE UNCHANGED vars
  BY <1>1, <1>10 DEF vars
<1> QED
  BY <1>2, <1>3, <1>4, <1>6, <1>7, <1>8, <1>9, <1>10, WritesAre DEF Next, Run

LEMMA JudgedStep ==
  TypeInv /\ SavedInv /\ EndedInv /\ JudgedInv /\ [Next]_vars => JudgedInv'
<1> SUFFICES ASSUME TypeInv, SavedInv, EndedInv, JudgedInv, [Next]_vars PROVE JudgedInv'
  OBVIOUS
<1>0. DOMAIN files = Files
  BY DEF TypeInv, TypeOK
<1>1. ASSUME UNCHANGED <<files, run, result, taken>> PROVE JudgedInv'
  BY <1>1, Zenon DEF JudgedInv, Readable
<1>2. ASSUME pc # "idle", run' = run, files'["status"] = files["status"] PROVE JudgedInv'
  <2>1. Readable("status") => files["status"].run # run
    <3> SUFFICES ASSUME Readable("status") PROVE files["status"].run # run
      OBVIOUS
    <3>1. files["status"].run < run
      BY <1>2, Zenon DEF EndedInv
    <3>2. files["status"].run \in Nat
      BY StatusRun
    <3> QED BY <3>1, <3>2
  <2> QED BY <1>2, <2>1, Zenon DEF JudgedInv, Readable
<1>3. CASE Start
  <2>1. run' = run + 1 /\ UNCHANGED files /\ run \in Nat
    BY <1>3 DEF Start, TypeInv, TypeOK
  <2>2. Readable("status") => files["status"].run # run + 1
    <3> SUFFICES ASSUME Readable("status") PROVE files["status"].run # run + 1
      OBVIOUS
    <3>1. files["status"].run < run \/ files["status"].run = run
      BY Zenon DEF EndedInv
    <3>2. files["status"].run \in Nat
      BY StatusRun
    <3> QED BY <2>1, <3>1, <3>2
  <2> QED BY <2>1, <2>2, Zenon DEF JudgedInv, Readable
<1>4. CASE Blocks
  <2>1. files'["status"] = Blocked
    BY <1>0, <1>4 DEF Blocks, Finish, Files
  <2>2. files'["status"].verdict = "blocked"
    BY <2>1 DEF Blocked
  <2> QED BY <2>2, Zenon DEF JudgedInv
<1>5. CASE Conclude
  <2>1. /\ files'["before"] = files["before"] /\ files'["result"] = files["result"]
        /\ files'["after"] = files["after"]
        /\ UNCHANGED <<result, taken>>
    BY <1>0, <1>5 DEF Conclude, Finish, Files
  <2>2. /\ Holding("before", taken["before"]) /\ Holding("result", result)
        /\ Holding("after", taken["after"])
    BY <1>5 DEF Conclude, SavedInv
  <2>3. /\ files["before"].value = taken["before"] /\ files["result"].value = result
        /\ files["after"].value = taken["after"]
    BY <2>2 DEF Holding
  <2> QED BY <2>1, <2>3, Zenon DEF JudgedInv
<1>6. CASE KeepBefore \/ KeepResult \/ KeepAfter
  BY <1>0, <1>2, <1>6 DEF KeepBefore, KeepResult, KeepAfter, Saves, Files
<1>7. CASE Kill
  <2>1. CASE UNCHANGED files
    BY <1>2, <1>7, <2>1 DEF Kill
  <2>2. CASE \E f \in Writing : files' = [files EXCEPT ![f] = Torn]
    <3>1. PICK f \in Files : files' = [files EXCEPT ![f] = Torn]
      BY <2>2, WritingFiles
    <3>2. CASE f # "status"
      BY <1>0, <1>2, <1>7, <3>1, <3>2 DEF Kill, Files
    <3>3. CASE f = "status"
      <4>1. files'["status"].kind = "torn"
        BY <1>0, <3>1, <3>3 DEF Files, Torn
      <4> QED BY <4>1, Zenon DEF JudgedInv, Readable
    <3> QED BY <3>2, <3>3
  <2> QED BY <1>7, <2>1, <2>2 DEF Kill
<1>8. CASE PreflightPasses \/ ReadPage \/ ReadFails \/ CatalogueAgrees \/ Replies \/ ReplyFails
  <2>1. pc # "idle" /\ UNCHANGED <<files, run>>
    BY <1>8 DEF PreflightPasses, ReadPage, ReadFails, CatalogueAgrees, Replies, ReplyFails
  <2> QED BY <1>2, <2>1
<1>9. ASSUME NEW i, NEW content, Stores(i, content) PROVE JudgedInv'
  BY <1>1, <1>9 DEF Stores
<1>10. CASE UNCHANGED vars
  BY <1>1, <1>10 DEF vars
<1> QED
  BY <1>3, <1>4, <1>5, <1>6, <1>7, <1>8, <1>9, <1>10, WritesAre DEF Next, Run

\* When verify passes the run that was made last, what its agent wrote does not
\* stand in the rows, but for a row the first snapshot has not: and then somebody
\* deleted a row while the second one was read.  The agents of earlier runs may
\* go on writing throughout.
THEOREM AgentChangesShow == Spec => []AgentChangeShows
<1> DEFINE ChangeInv == /\ FreshInv /\ RestInv /\ AnsweredInv /\ SightInv /\ TakenInv
                        /\ SavedInv /\ EndedInv /\ JudgedInv
<1>1. Init => ChangeInv
  <2> SUFFICES ASSUME Init PROVE ChangeInv
    OBVIOUS
  <2>1. /\ \A i \in Ids : book[i] \in {0, 1}
        /\ run = 0 /\ pc = "idle" /\ busy = {}
    BY DEF Init, Absent, Old
  <2>2. result.http # "ok" /\ ~taken["after"].complete
    BY DEF Init, NoResult, NoSnapshot
  <2>3. FreshInv
    BY <2>1 DEF FreshInv, Wrote, AgentWrote, Early
  <2>4. RestInv /\ AnsweredInv /\ SightInv /\ TakenInv
    BY <2>1, <2>2 DEF RestInv, AnsweredInv, SightInv, TakenInv
  <2>5. SavedInv /\ EndedInv /\ JudgedInv
    BY DEF Init, SavedInv, EndedInv, JudgedInv, Readable, Missing, Files
  <2> QED BY <2>3, <2>4, <2>5
<1>2. TypeInv /\ ChangeInv /\ [Next]_vars => ChangeInv'
  <2> SUFFICES ASSUME TypeInv, ChangeInv, [Next]_vars PROVE ChangeInv'
    OBVIOUS
  <2>1. FreshInv' /\ RestInv' /\ AnsweredInv'
    BY FreshStep, RestStep, AnsweredStep
  <2>2. SightInv' /\ TakenInv'
    BY SightStep, TakenStep
  <2>3. SavedInv' /\ EndedInv' /\ JudgedInv'
    BY SavedStep, EndedStep, JudgedStep
  <2> QED BY <2>1, <2>2, <2>3
<1>3. TypeInv /\ ChangeInv => AgentChangeShows
  <2> SUFFICES ASSUME TypeInv, ChangeInv, OfThisRun, VerifyExit = 0, NEW i \in Standing
               PROVE  jumped /\ files["before"].value.rows[i] = Absent
    BY DEF AgentChangeShows
  <2>1. /\ ~Unverifiable
        /\ A1(files["result"].value) /\ A3(files["before"].value, files["after"].value)
    BY DEF VerifyExit
  <2>2. Readable("status") /\ files["status"].run = run /\ files["status"].verdict # "blocked"
    <3>1. "status" \in Files
      BY DEF Files
    <3> QED BY <2>1, <3>1, Zenon DEF Unverifiable, OfThisRun
  <2>3. /\ files["result"].value = result
        /\ files["before"].value = taken["before"]
        /\ files["after"].value = taken["after"]
    BY <2>2, Zenon DEF JudgedInv
  <2>4. /\ result.http = "ok"
        /\ taken["after"].complete
        /\ taken["before"].rows = taken["after"].rows
    BY <2>1, <2>3, Zenon DEF A1, A3, ChangedIn
  <2>5. i \in Ids /\ Wrote(book[i])
    BY ContentsAre DEF Standing, Wrote
  <2>6. ~Wrote(taken["before"].rows[i])
    BY <2>5 DEF FreshInv
  <2>7. jumped /\ taken["after"].rows[i] = Absent
    BY <2>4, <2>5, <2>6 DEF TakenInv
  <2> QED BY <2>3, <2>4, <2>7
<1> QED BY <1>1, <1>2, <1>3, RefusalTypeCorrect, PTL DEF Spec

-----------------------------------------------------------------------------
(* FixtureLedger.  The invariants.                                         *)

\* While the agent is on a deal there is one at its place in Approved.
OnADeal == agent \in {"paused", "write"} => turn <= Len(Approved)

\* Every command but the first seed works on a ledger that can be read, and
\* nothing was made before there is one.
KeptInv ==
    /\ cmd # "idle" => ledger.state = "kept"
    /\ ledger.state = "missing" => Made = {} /\ fired = {}

\* What a command is about to note in the ledger exists already.
HandInv ==
    /\ cmd = "record" => hand \in Fixtures
    /\ cmd = "send" => Quote \in ledger.ids
    /\ cmd \in {"hit", "hitRecord"} => hand \in {DealOf(d) : d \in Hits}
    /\ \A r \in known : r.kind = "agent"
    /\ \A r \in ledger.ids : r.kind # "agent"
    /\ listed # {} => agent = "done"

LedgerInv == LedgerTypeOK /\ OnADeal /\ KeptInv /\ HandInv

InHand ==
    IF cmd = "record" THEN {hand}
    ELSE IF cmd = "hitRecord" /\ hand = DealOf(Rivalled) THEN {Rival} ELSE {}

Orphans == Made \ (ledger.ids \cup InHand)

\* Each record the ledger misses, besides the one in hand, has an interrupted
\* command of its own; a cleanup works on records that are no orphans.
OrphanInv ==
    /\ ledger.state = "kept" => Cardinality(Orphans) <= stops
    /\ cmd \in {"clean", "sweep"} => \A r \in todo : r \in ledger.ids \/ r.kind = "agent"

Ours == {r \in ledger.ids : r.kind # "party"}

\* What a cleanup has behind it is over or pending, or was spared; nothing
\* reopens it.
CleanInv ==
    /\ cmd \in {"clean", "sweep"} =>
          \A r \in Ours \ todo : r \in pending \/ crm[r] = "over"
    /\ cmd = "clean" => swept = {}
    /\ cmd = "sweep" =>
          \A r \in swept \ todo : r \in pending \/ crm[r] = "over" \/ r \in untagged
    /\ cleaned =>
          /\ cmd = "idle" /\ \A r \in Ours : crm[r] = "over"
          /\ \A r \in swept : crm[r] = "over" \/ r \in untagged

\* The second deal was closed, or answered that it cannot be.
WasHit == crm[DealOf(Shut)] = "over" \/ DealOf(Shut) \in spared

\* Where Run C's hits have got to.
HitInv ==
    /\ \A r \in ledger.ids : crm[r] # "none"
    /\ cmd = "record" => crm[hand] # "none"
    /\ cmd \in {"watch", "hit", "hitRecord"} => crm[DealOf(Shut)] # "none"
    /\ cmd = "hitRecord" /\ hand = DealOf(Rivalled) => crm[Rival] # "none"
    /\ (cmd = "hitRecord" /\ hand = DealOf(Shut)) \/ Shut \in fired => WasHit
    /\ Rivalled \in fired /\ ledger.state = "kept" => Rival \in ledger.ids
    /\ runC = "ok" => Hits \subseteq fired

-----------------------------------------------------------------------------
(* FixtureLedger.  Records.                                                *)

LEMMA RecordsOf ==
  /\ \A d \in Deals : DealOf(d) \in Records /\ RowOf(d) \in Records
  /\ Rival \in Records /\ Quote \in Records
  /\ Rivalled \in Deals /\ Shut \in Deals /\ Rivalled # Shut
  /\ DealOf(Rivalled) # DealOf(Shut)
BY LedgerAssumption DEF Records, DealOf, RowOf, Rival, Quote, Hits

LEMMA ApprovedType ==
  /\ Len(Approved) \in Nat
  /\ \A k \in 1 .. Len(Approved) : Approved[k] \in Deals
BY LedgerAssumption

LEMMA FixturesAre == Quote \in Fixtures /\ Fixtures \subseteq Records
BY RecordsOf DEF Fixtures, Quote

LEMMA SeededType ==
  ASSUME NEW r PROVE Seeded(r) \in States /\ Seeded(r) # "none"
BY Zenon DEF Seeded, States

\* One record changes its state, to one of the states.
LEMMA SetsType ==
  ASSUME crm \in [Records -> States], NEW r \in Records, NEW state \in States,
         Sets(r, state)
  PROVE  /\ crm' \in [Records -> States]
         /\ crm'[r] = state /\ \A q \in Records : q # r => crm'[q] = crm[q]
BY DEF Sets

LEMMA RecordsFinite == IsFiniteSet(Records)
<1> DEFINE Whose == Deals \cup Parties
<1>0. IsFiniteSet(Whose)
  BY LedgerAssumption, FS_Union
<1> DEFINE Of(k) == {[kind |-> k, of |-> d] : d \in Whose}
<1> HIDE DEF Whose
<1>1. ASSUME NEW k
      PROVE  IsFiniteSet(Of(k))
  <2> DEFINE T == Of(k)
             f == [d \in Whose |-> [kind |-> k, of |-> d]]
  <2>1. f \in Surjection(Whose, T)
    BY DEF Surjection
  <2> HIDE DEF f, T
  <2>2. IsFiniteSet(T)
    BY <1>0, <2>1, FS_Surjection
  <2> QED
    BY <2>2 DEF T
<1>2. Records \subseteq Of("party") \cup Of("deal") \cup Of("agent") \cup Of("contact")
                        \cup Of("planned") \cup Of("rival") \cup Of("quote")
  BY LedgerAssumption DEF Records, Hits, Whose
<1>3. \A k : IsFiniteSet(Of(k))
  BY <1>1
<1> HIDE DEF Of
<1>4. IsFiniteSet(Of("party") \cup Of("deal") \cup Of("agent") \cup Of("contact")
                  \cup Of("planned") \cup Of("rival") \cup Of("quote"))
  <2>1. IsFiniteSet(Of("party") \cup Of("deal"))
    BY <1>3, FS_Union
  <2>2. IsFiniteSet(Of("party") \cup Of("deal") \cup Of("agent"))
    BY <1>3, <2>1, FS_Union
  <2>3. IsFiniteSet(Of("party") \cup Of("deal") \cup Of("agent") \cup Of("contact"))
    BY <1>3, <2>2, FS_Union
  <2>4. IsFiniteSet(Of("planned") \cup Of("rival"))
    BY <1>3, FS_Union
  <2>5. IsFiniteSet(Of("planned") \cup Of("rival") \cup Of("quote"))
    BY <1>3, <2>4, FS_Union
  <2>6. IsFiniteSet((Of("party") \cup Of("deal") \cup Of("agent") \cup Of("contact"))
                    \cup (Of("planned") \cup Of("rival") \cup Of("quote")))
    BY <2>3, <2>5, FS_Union
  <2> QED
    BY <2>6, Zenon
<1> QED
  BY <1>2, <1>4, FS_Subset

-----------------------------------------------------------------------------
(* Types, and what the command under way may count on.                     *)

LEMMA LedgerStarts == LedgerInit => LedgerInv
<1> SUFFICES ASSUME LedgerInit PROVE LedgerInv
  OBVIOUS
<1>1. Made = {} /\ crm \in [Records -> States]
  BY DEF LedgerInit, Made, States
<1>2. ledger \in [state : {"missing", "torn", "kept"}, ids : SUBSET Records, manual : SUBSET Records]
  BY DEF LedgerInit, NoLedger
<1>3. LedgerTypeOK
  <2>1. turn \in 1 .. Len(Approved) + 1 /\ stops \in 0 .. MaxStops
    BY LedgerAssumption, ApprovedType DEF LedgerInit
  <2>2. hand \in Records /\ fired \subseteq Hits /\ lines \subseteq Deals /\ cleaned \in BOOLEAN
    BY RecordsOf DEF LedgerInit
  <2> QED
    BY <1>1, <1>2, <2>1, <2>2 DEF LedgerInit, LedgerTypeOK
<1> QED
  BY <1>1, <1>3 DEF LedgerInit, NoLedger, LedgerInv, OnADeal, KeptInv, HandInv

LEMMA SeedKeepsLedger == LedgerInv /\ Seed => LedgerInv'
<1> SUFFICES ASSUME LedgerInv, Seed PROVE LedgerInv'
  OBVIOUS
<1> USE DEF LedgerInv, LedgerTypeOK, OnADeal, KeptInv, HandInv
<1>1. CASE SeedStarts
  <2>1. /\ ledger'.state \in {"kept", "torn"} /\ ledger'.ids = {}
        /\ ledger' \in [state : {"missing", "torn", "kept"}, ids : SUBSET Records, manual : SUBSET Records]
        /\ (cmd' = "seed" /\ ledger'.state = "kept") \/ cmd' = "idle"
        /\ stops' \in 0 .. MaxStops
    BY <1>1, LedgerAssumption DEF SeedStarts, NoLedger, TornLedger
  <2> QED
    BY <1>1, <2>1 DEF SeedStarts, runVars
<1>2. CASE \E r \in Records : SeedCreates(r)
  <2>1. PICK r \in Records : SeedCreates(r)
    BY <1>2
  <2>2. crm' \in [Records -> States]
    BY <2>1, SeededType, SetsType DEF SeedCreates
  <2> QED
    BY <2>1, <2>2 DEF SeedCreates, cleanVars, runVars, Unseeded
<1>3. CASE SeedRecords
  <2>1. hand \in Records /\ hand.kind # "agent"
    BY <1>3 DEF SeedRecords, Fixtures
  <2> QED
    BY <1>3, <2>1 DEF SeedRecords, cleanVars, runVars, Noted
<1>4. CASE SeedSends
  <2>1. crm' \in [Records -> States]
    BY <1>4, RecordsOf, SetsType DEF SeedSends, States
  <2> QED
    BY <1>4, <2>1 DEF SeedSends, cleanVars, runVars
<1> QED
  BY <1>1, <1>2, <1>3, <1>4 DEF Seed

LEMMA ControllerKeepsLedger == LedgerInv /\ Controller => LedgerInv'
<1> SUFFICES ASSUME LedgerInv, Controller PROVE LedgerInv'
  OBVIOUS
<1> USE DEF LedgerInv, LedgerTypeOK, OnADeal, KeptInv, HandInv
<1>1. CASE RunCStarts
  BY <1>1 DEF RunCStarts, crmVars, Made, CanApprove
<1>2. CASE \E d \in Deals : HitStarts(d)
  BY <1>2, RecordsOf DEF HitStarts, crmVars, cleanVars, runVars, Made, Hits
<1>3. CASE HitLands
  <2>1. crm' \in [Records -> States]
    BY <1>3, RecordsOf, SetsType DEF HitLands, States
  <2> QED
    BY <1>3, <2>1 DEF HitLands, cleanVars, runVars
<1>4. CASE HitRecords
  <2>1. hand.of \in Hits
    BY <1>4 DEF HitRecords, DealOf
  <2> QED
    BY <1>4, <2>1, RecordsOf DEF HitRecords, cleanVars, Noted, Hits, Rival
<1>5. CASE RunCEnds
  BY <1>5 DEF RunCEnds, crmVars, cleanVars, Made
<1> QED
  BY <1>1, <1>2, <1>3, <1>4, <1>5 DEF Controller

\* The agent touches its own rows only.
LEMMA AgentKeepsLedger ==
  LedgerInv /\ Agent =>
    /\ LedgerInv' /\ untagged \subseteq untagged' /\ agent # "done"
    /\ UNCHANGED <<ledger, stops, spared, cmd, hand, cleanVars, fired, runC>>
    /\ \A r \in Records : r.kind # "agent" => crm'[r] = crm[r]
    /\ \A r \in Records : crm'[r] # crm[r] => crm'[r] = "open"
<1> SUFFICES ASSUME LedgerInv, Agent
             PROVE  /\ LedgerInv' /\ untagged \subseteq untagged' /\ agent # "done"
                    /\ UNCHANGED <<ledger, stops, spared, cmd, hand, cleanVars, fired, runC>>
                    /\ \A r \in Records : r.kind # "agent" => crm'[r] = crm[r]
                    /\ \A r \in Records : crm'[r] # crm[r] => crm'[r] = "open"
  OBVIOUS
<1> USE DEF LedgerInv, LedgerTypeOK, OnADeal, KeptInv, HandInv
<1>1. CASE AgentSkips
  BY <1>1, ApprovedType DEF AgentSkips, AgentNext, crmVars, cleanVars, Made
<1>2. CASE AgentPauses
  BY <1>2, ApprovedType DEF AgentPauses, crmVars, cleanVars, Made
<1>3. CASE AgentWakes
  BY <1>3, ApprovedType DEF AgentWakes, AgentNext, crmVars, cleanVars, Made
<1>4. ASSUME agent = "write"
      PROVE  /\ RowOf(Approved[turn]) \in Records
             /\ RowOf(Approved[turn]).kind = "agent"
  BY <1>4, ApprovedType, RecordsOf DEF RowOf
<1>5. CASE RunCWrites
  <2> DEFINE row == RowOf(Approved[turn])
  <2>1. /\ crm' \in [Records -> States]
        /\ crm'[row] = "open" /\ \A q \in Records : q # row => crm'[q] = crm[q]
    BY <1>4, <1>5, SetsType DEF RunCWrites, States
  <2>2. row \in Records /\ row.kind = "agent"
    BY <1>4, <1>5 DEF RunCWrites
  <2> HIDE DEF row
  <2>3. Made' = Made
    BY <2>1, <2>2 DEF Made
  <2>4. known' = known \cup {row} /\ untagged' \in {untagged, untagged \cup {row}}
    BY <1>5 DEF RunCWrites, Titled, row
  <2> QED
    BY <1>5, <2>1, <2>2, <2>3, <2>4, ApprovedType DEF RunCWrites, AgentNext, cleanVars
<1>6. CASE AgentFails
  <2>1. CASE UNCHANGED <<crm, untagged>>
    BY <1>6, <2>1 DEF AgentFails, cleanVars, Made
  <2>2. CASE agent = "write" /\ Sets(RowOf(Approved[turn]), "open") /\ Titled(Approved[turn])
    <3> DEFINE row == RowOf(Approved[turn])
    <3>1. /\ crm' \in [Records -> States]
          /\ crm'[row] = "open" /\ \A q \in Records : q # row => crm'[q] = crm[q]
      BY <1>4, <2>2, SetsType DEF States
    <3>2. row \in Records /\ row.kind = "agent"
      BY <1>4, <2>2
    <3>4. untagged' \in {untagged, untagged \cup {row}}
      BY <2>2 DEF Titled, row
    <3> HIDE DEF row
    <3>3. Made' = Made
      BY <3>1, <3>2 DEF Made
    <3> QED
      BY <1>6, <3>1, <3>2, <3>3, <3>4 DEF AgentFails, cleanVars
  <2> QED
    BY <1>6, <2>1, <2>2 DEF AgentFails
<1>7. CASE AgentEnds
  BY <1>7 DEF AgentEnds, crmVars, cleanVars, Made
<1> QED
  BY <1>1, <1>2, <1>3, <1>5, <1>6, <1>7 DEF Agent

LEMMA CleanupKeepsLedger == LedgerInv /\ Cleanup => LedgerInv'
<1> SUFFICES ASSUME LedgerInv, Cleanup PROVE LedgerInv'
  OBVIOUS
<1> USE DEF LedgerInv, LedgerTypeOK, OnADeal, KeptInv, HandInv
<1>1. CASE CleanupStarts
  BY <1>1 DEF CleanupStarts, crmVars, runVars, Made
<1>4. CASE CleanupSweeps
  BY <1>4 DEF CleanupSweeps, crmVars, runVars, Made
<1>2. CASE \E r \in Records : CleanupCloses(r)
  <2>1. PICK r \in Records : CleanupCloses(r)
    BY <1>2
  <2>2. crm' \in [Records -> States]
    BY <2>1, SetsType DEF CleanupCloses, States
  <2> QED
    BY <2>1, <2>2 DEF CleanupCloses, runVars
<1>3. CASE CleanupEnds
  BY <1>3 DEF CleanupEnds, runVars, Made
<1> QED
  BY <1>1, <1>2, <1>3, <1>4 DEF Cleanup

LEMMA StopsKeepsLedger == LedgerInv /\ Stops => LedgerInv'
BY LedgerAssumption
   DEF LedgerInv, LedgerTypeOK, OnADeal, KeptInv, HandInv, Stops, TornLedger, runVars

\* A teammate's move leaves every record made, and none it moved was over.
LEMMA MovesKeepLedger ==
  ASSUME LedgerInv, NEW d \in Deals, MateMoves(d)
  PROVE  /\ LedgerInv' /\ Made' = Made
         /\ \A r \in Records : crm'[r] # crm[r] => crm[r] = "open" /\ crm'[r] = "moved"
<1>1. /\ crm' \in [Records -> States]
      /\ \A r \in Records : crm'[r] # crm[r] => crm[r] = "open" /\ crm'[r] = "moved"
  BY RecordsOf DEF MateMoves, Sets, LedgerInv, LedgerTypeOK, States
<1>2. Made' = Made
  BY <1>1 DEF Made
<1> QED
  BY <1>1, <1>2 DEF MateMoves, cleanVars, runVars, LedgerInv, LedgerTypeOK, OnADeal, KeptInv, HandInv

LEMMA RenamesKeepLedger ==
  ASSUME LedgerInv, NEW r \in Records, MateRenames(r)
  PROVE  /\ LedgerInv' /\ Made' = Made /\ untagged \subseteq untagged'
         /\ UNCHANGED <<crm, ledger, stops, spared, cmd, hand, cleanVars, fired, listed, runC>>
BY DEF MateRenames, cleanVars, runVars, Made, LedgerInv, LedgerTypeOK, OnADeal, KeptInv, HandInv

LEMMA IdleKeepsLedger == LedgerInv /\ UNCHANGED ledgerVars => LedgerInv'
BY DEF LedgerInv, LedgerTypeOK, OnADeal, KeptInv, HandInv, Made, ledgerVars, crmVars, cleanVars,
       runVars

LEMMA LedgerKept == LedgerSpec => []LedgerInv
<1>1. LedgerInv /\ [LedgerNext]_ledgerVars => LedgerInv'
  BY SeedKeepsLedger, ControllerKeepsLedger, AgentKeepsLedger, CleanupKeepsLedger,
     StopsKeepsLedger, MovesKeepLedger, RenamesKeepLedger, IdleKeepsLedger DEF LedgerNext, Mate
<1> QED
  BY LedgerStarts, <1>1, PTL DEF LedgerSpec

\* The ledger, the commands and Run C keep their types; while the agent is on
\* a deal there is one at its place (it01, controller).
THEOREM LedgerTypeCorrect == LedgerSpec => [](LedgerTypeOK /\ OnADeal)
<1>1. LedgerInv => LedgerTypeOK /\ OnADeal
  BY DEF LedgerInv
<1> QED
  BY <1>1, LedgerKept, PTL

-----------------------------------------------------------------------------
(* FixtureLedger.  What the ledger misses.                                 *)

LEMMA OrphansType ==
  /\ IsFiniteSet(Made) /\ IsFiniteSet(Orphans)
  /\ Cardinality(Orphans) \in Nat
<1>1. Made \in SUBSET Records /\ Orphans \in SUBSET Records
  BY DEF Made, Orphans
<1> QED
  BY <1>1, RecordsFinite, FS_Subset, FS_CardinalityType

\* No new orphan, no stop too many.
LEMMA FewerOrphans ==
  ASSUME LedgerInv, OrphanInv, Orphans' \subseteq Orphans, stops' = stops,
         ledger.state = "kept"
  PROVE  Cardinality(Orphans') <= stops'
<1>1. Cardinality(Orphans') <= Cardinality(Orphans)
  BY OrphansType, FS_Subset
<1>2. IsFiniteSet(Orphans')
  BY OrphansType, FS_Subset
<1>3. Cardinality(Orphans') \in Nat
  BY <1>2, FS_CardinalityType
<1> QED
  BY <1>1, <1>3, OrphansType DEF OrphanInv, LedgerInv, LedgerTypeOK

\* A set with one element more than a finite one.
LEMMA OneMore ==
  ASSUME NEW S, NEW T, NEW x, IsFiniteSet(T), S \subseteq T \cup {x}
  PROVE  Cardinality(S) \in Nat /\ Cardinality(S) <= Cardinality(T) + 1
<1>1. IsFiniteSet(T \cup {x}) /\ Cardinality(T \cup {x}) <= Cardinality(T) + 1
  <2>1. Cardinality(T) \in Nat
    BY FS_CardinalityType
  <2>2. /\ IsFiniteSet(T \cup {x})
        /\ Cardinality(T \cup {x}) = IF x \in T THEN Cardinality(T) ELSE Cardinality(T) + 1
    BY Zenon, FS_AddElement
  <2> QED
    BY <2>1, <2>2
<1>2. IsFiniteSet(S) /\ Cardinality(S) <= Cardinality(T \cup {x})
  BY <1>1, FS_Subset
<1>3. Cardinality(S) \in Nat /\ Cardinality(T) \in Nat /\ Cardinality(T \cup {x}) \in Nat
  BY <1>1, <1>2, FS_CardinalityType
<1> QED
  BY <1>1, <1>2, <1>3

LEMMA SeedKeepsOrphans == LedgerInv /\ OrphanInv /\ Seed => OrphanInv'
<1> SUFFICES ASSUME LedgerInv, OrphanInv, Seed PROVE OrphanInv'
  OBVIOUS
<1>0. LedgerInv'
  BY SeedKeepsLedger
<1>1. CASE SeedStarts
  <2>1. Orphans' = {} /\ cmd' \in {"seed", "idle"}
    BY <1>1 DEF SeedStarts, NoLedger, Made, Orphans, LedgerInv, KeptInv
  <2>2. stops' \in Nat
    BY <1>0 DEF LedgerInv, LedgerTypeOK
  <2> QED
    BY <2>1, <2>2, FS_EmptySet DEF OrphanInv
<1>2. CASE \E r \in Records : SeedCreates(r)
  <2>1. PICK r \in Records : SeedCreates(r)
    BY <1>2
  <2>2. \A q \in Records : q # r => crm'[q] = crm[q]
    BY <2>1, SeededType, SetsType DEF SeedCreates, LedgerInv, LedgerTypeOK
  <2>3. cmd = "seed" /\ cmd' = "record" /\ hand' = r /\ UNCHANGED <<ledger, stops>>
    BY <2>1 DEF SeedCreates
  <2>4. Orphans' \subseteq Orphans
    BY <2>2, <2>3 DEF Orphans, Made, InHand
  <2> QED
    BY <2>3, <2>4, FewerOrphans DEF OrphanInv
<1>3. CASE SeedRecords
  <2>1. /\ ledger' \in [state : {"missing", "torn", "kept"}, ids : SUBSET Records, manual : SUBSET Records]
        /\ ledger'.ids = ledger.ids \cup {hand} /\ ledger'.state = ledger.state
    BY <1>3, <1>0 DEF SeedRecords, Noted, LedgerInv, LedgerTypeOK
  <2>2. cmd = "record" /\ cmd' \in {"send", "seed"} /\ UNCHANGED <<crm, stops>>
    BY <1>3 DEF SeedRecords
  <2>3. Orphans' \subseteq Orphans
    BY <2>1, <2>2 DEF Orphans, Made, InHand
  <2> QED
    BY <2>1, <2>2, <2>3, FewerOrphans DEF OrphanInv
<1>4. CASE SeedSends
  <2>1. \A q \in Records : q # Quote => crm'[q] = crm[q]
    BY <1>4, RecordsOf, SetsType DEF SeedSends, LedgerInv, LedgerTypeOK, States
  <2>2. Quote \in ledger.ids /\ cmd = "send" /\ cmd' = "idle" /\ UNCHANGED <<ledger, stops>>
    BY <1>4 DEF SeedSends, LedgerInv, HandInv
  <2>3. Orphans' \subseteq Orphans
    BY <2>1, <2>2 DEF Orphans, Made, InHand
  <2> QED
    BY <2>2, <2>3, FewerOrphans DEF OrphanInv
<1> QED
  BY <1>1, <1>2, <1>3, <1>4 DEF Seed

LEMMA ControllerKeepsOrphans == LedgerInv /\ OrphanInv /\ Controller => OrphanInv'
<1> SUFFICES ASSUME LedgerInv, OrphanInv, Controller PROVE OrphanInv'
  OBVIOUS
<1>0. LedgerInv'
  BY ControllerKeepsLedger
<1>1. CASE RunCStarts \/ (\E d \in Deals : HitStarts(d)) \/ RunCEnds
  <2>1. /\ UNCHANGED <<crm, ledger, stops>>
        /\ cmd \in {"idle", "watch"} /\ cmd' \in {"watch", "hit", "idle"}
    BY <1>1 DEF RunCStarts, HitStarts, RunCEnds, crmVars
  <2>2. Orphans' \subseteq Orphans
    BY <2>1 DEF Orphans, Made, InHand
  <2> QED
    BY <2>1, <2>2, FewerOrphans DEF OrphanInv
<1>2. CASE HitLands
  <2>1. cmd = "hit" /\ cmd' = "hitRecord" /\ UNCHANGED <<ledger, stops, hand>>
    BY <1>2 DEF HitLands
  <2>2. CASE hand = DealOf(Rivalled)
    <3>1. \A q \in Records : q # Rival => crm'[q] = crm[q]
      BY <1>2, <2>2, RecordsOf, SetsType DEF HitLands, LedgerInv, LedgerTypeOK, States
    <3>2. Orphans' \subseteq Orphans
      BY <2>1, <2>2, <3>1 DEF Orphans, Made, InHand
    <3> QED
      BY <2>1, <3>2, FewerOrphans DEF OrphanInv
  <2>3. CASE hand # DealOf(Rivalled)
    <3>1. \A q \in Records : crm'[q] = crm[q] \/ crm[q] = "open"
      <4>1. hand.kind = "deal"
        BY <2>1 DEF LedgerInv, HandInv, DealOf
      <4> QED
        BY <1>2, <2>3, <4>1 DEF HitLands, Closable, Sets, LedgerInv, LedgerTypeOK
    <3>2. Orphans' \subseteq Orphans
      BY <2>1, <2>3, <3>1 DEF Orphans, Made, InHand
    <3> QED
      BY <2>1, <3>2, FewerOrphans DEF OrphanInv
  <2> QED
    BY <2>2, <2>3
<1>3. CASE HitRecords
  <2>1. /\ ledger'.ids = IF hand = DealOf(Rivalled) THEN ledger.ids \cup {Rival} ELSE ledger.ids
        /\ ledger'.state = ledger.state
    BY <1>3 DEF HitRecords, Noted, LedgerInv, LedgerTypeOK
  <2>2. cmd = "hitRecord" /\ cmd' = "watch" /\ UNCHANGED <<crm, stops>>
    BY <1>3 DEF HitRecords
  <2>3. Orphans' \subseteq Orphans
    BY <2>1, <2>2 DEF Orphans, Made, InHand
  <2> QED
    BY <2>1, <2>2, <2>3, FewerOrphans DEF OrphanInv
<1> QED
  BY <1>1, <1>2, <1>3 DEF Controller

LEMMA AgentKeepsOrphans == LedgerInv /\ OrphanInv /\ Agent => OrphanInv'
<1> SUFFICES ASSUME LedgerInv, OrphanInv, Agent PROVE OrphanInv'
  OBVIOUS
<1>1. /\ UNCHANGED <<ledger, stops, cmd, hand, todo>>
      /\ \A r \in Records : r.kind # "agent" => crm'[r] = crm[r]
  BY AgentKeepsLedger DEF cleanVars
<1>2. Orphans' \subseteq Orphans
  BY <1>1 DEF Orphans, Made, InHand
<1> QED
  BY <1>1, <1>2, FewerOrphans DEF OrphanInv

LEMMA CleanupKeepsOrphans == LedgerInv /\ OrphanInv /\ Cleanup => OrphanInv'
<1> SUFFICES ASSUME LedgerInv, OrphanInv, Cleanup PROVE OrphanInv'
  OBVIOUS
<1>1. CASE CleanupStarts
  <2>1. /\ UNCHANGED <<crm, ledger, stops>> /\ cmd = "idle" /\ cmd' = "clean"
        /\ todo' \subseteq ledger.ids
    BY <1>1 DEF CleanupStarts, crmVars
  <2>2. Orphans' \subseteq Orphans
    BY <2>1 DEF Orphans, Made, InHand
  <2> QED
    BY <2>1, <2>2, FewerOrphans DEF OrphanInv
<1>4. CASE CleanupSweeps
  <2>1. /\ UNCHANGED <<crm, ledger, stops>> /\ cmd = "clean" /\ cmd' = "sweep"
        /\ todo' = todo \cup listed
    BY <1>4 DEF CleanupSweeps, crmVars
  <2>2. Orphans' \subseteq Orphans
    BY <2>1 DEF Orphans, Made, InHand
  <2>3. \A r \in listed : r.kind = "agent"
    BY DEF LedgerInv, LedgerTypeOK, HandInv
  <2> QED
    BY <2>1, <2>2, <2>3, FewerOrphans DEF OrphanInv
<1>2. CASE \E r \in Records : CleanupCloses(r)
  <2>1. PICK r \in Records : CleanupCloses(r)
    BY <1>2
  <2>2. /\ cmd \in {"clean", "sweep"} /\ r \in todo /\ todo' = todo \ {r}
        /\ UNCHANGED <<ledger, stops, cmd, hand>>
    BY <2>1 DEF CleanupCloses
  <2>3. \A q \in Records : q # r => crm'[q] = crm[q]
    BY <2>1, SetsType DEF CleanupCloses, LedgerInv, LedgerTypeOK, States
  <2>4. r \in ledger.ids \/ r.kind = "agent"
    BY <2>2 DEF OrphanInv
  <2>5. Orphans' \subseteq Orphans
    BY <2>2, <2>3, <2>4 DEF Orphans, Made, InHand
  <2> QED
    BY <2>2, <2>5, FewerOrphans DEF OrphanInv
<1>3. CASE CleanupEnds
  <2>1. /\ cmd = "sweep" /\ cmd' = "idle" /\ UNCHANGED <<crm, stops>>
        /\ ledger'.ids = ledger.ids /\ ledger'.state = ledger.state
    BY <1>3 DEF CleanupEnds, LedgerInv, LedgerTypeOK
  <2>2. Orphans' \subseteq Orphans
    BY <2>1 DEF Orphans, Made, InHand
  <2> QED
    BY <2>1, <2>2, FewerOrphans DEF OrphanInv
<1> QED
  BY <1>1, <1>2, <1>3, <1>4 DEF Cleanup

\* The record in hand becomes an orphan, and the stop pays for it.
LEMMA StopsKeepsOrphans == LedgerInv /\ OrphanInv /\ Stops => OrphanInv'
<1> SUFFICES ASSUME LedgerInv, OrphanInv, Stops PROVE OrphanInv'
  OBVIOUS
<1>1. /\ cmd' = "idle" /\ crm' = crm /\ stops' = stops + 1 /\ stops \in Nat
      /\ ledger' = ledger \/ ledger'.state = "torn"
  BY DEF Stops, TornLedger, LedgerInv, LedgerTypeOK
<1>2. ASSUME ledger' = ledger, ledger.state = "kept" PROVE Cardinality(Orphans') <= stops'
  <2>1. PICK r : Orphans' \subseteq Orphans \cup {r}
    BY <1>1, <1>2 DEF Orphans, Made, InHand
  <2>2. Cardinality(Orphans') \in Nat /\ Cardinality(Orphans') <= Cardinality(Orphans) + 1
    BY <2>1, OneMore, OrphansType
  <2> QED
    BY <1>1, <1>2, <2>2, OrphansType DEF OrphanInv
<1> QED
  BY <1>1, <1>2 DEF OrphanInv

LEMMA OrphansKept == LedgerSpec => [](LedgerInv /\ OrphanInv)
<1>1. LedgerInit => OrphanInv
  BY DEF LedgerInit, OrphanInv, NoLedger
<1>2. LedgerInv /\ OrphanInv /\ [LedgerNext]_ledgerVars => OrphanInv'
  <2> SUFFICES ASSUME LedgerInv, OrphanInv, [LedgerNext]_ledgerVars PROVE OrphanInv'
    OBVIOUS
  <2>1. ASSUME NEW d \in Deals, MateMoves(d) PROVE OrphanInv'
    <3>1. UNCHANGED <<ledger, stops, cmd, hand, todo>>
      BY <2>1 DEF MateMoves, cleanVars
    <3>2. Orphans' \subseteq Orphans
      BY <2>1, <3>1, MovesKeepLedger DEF Orphans, InHand
    <3> QED
      BY <3>1, <3>2, FewerOrphans DEF OrphanInv
  <2>3. ASSUME NEW r \in Records, MateRenames(r) PROVE OrphanInv'
    <3>1. /\ UNCHANGED <<crm, ledger, stops, cmd, hand, todo>>
      BY <2>3, RenamesKeepLedger DEF cleanVars
    <3> QED
      BY <3>1 DEF OrphanInv, Orphans, InHand, Made
  <2>2. CASE UNCHANGED ledgerVars
    BY <2>2 DEF ledgerVars, crmVars, cleanVars, OrphanInv, Orphans, InHand, Made
  <2> QED
    BY <2>1, <2>2, <2>3, SeedKeepsOrphans, ControllerKeepsOrphans, AgentKeepsOrphans,
       CleanupKeepsOrphans, StopsKeepsOrphans DEF LedgerNext, Mate
<1> QED
  BY <1>1, <1>2, LedgerKept, PTL DEF LedgerSpec

\* A ledger that can be read misses at most one record for each interrupted
\* command, besides the one in hand (seed, adversary, write_json).
THEOREM OrphansHaveStops == LedgerSpec => []OrphansAreStops
<1>1. LedgerInv /\ OrphanInv => OrphansAreStops
  <2> SUFFICES ASSUME LedgerInv, OrphanInv, ledger.state = "kept"
               PROVE  Cardinality(Made \ ledger.ids)
                        <= stops + (IF cmd \in {"record", "hitRecord"} THEN 1 ELSE 0)
    BY DEF OrphansAreStops
  <2>1. Cardinality(Orphans) <= stops /\ stops \in Nat
    BY DEF OrphanInv, LedgerInv, LedgerTypeOK
  <2>2. CASE cmd \notin {"record", "hitRecord"}
    BY <2>1, <2>2 DEF Orphans, InHand
  <2>3. CASE cmd \in {"record", "hitRecord"}
    <3>1. PICK r : Made \ ledger.ids \subseteq Orphans \cup {r}
      <4>1. InHand \subseteq {hand} \/ InHand \subseteq {Rival}
        BY DEF InHand
      <4> QED
        BY <4>1 DEF Orphans
    <3>2. Cardinality(Made \ ledger.ids) \in Nat /\ Cardinality(Made \ ledger.ids) <= Cardinality(Orphans) + 1
      BY <3>1, OneMore, OrphansType
    <3> QED
      BY <2>1, <2>3, <3>2, OrphansType
  <2> QED
    BY <2>2, <2>3
<1> QED
  BY <1>1, OrphansKept, PTL

-----------------------------------------------------------------------------
(* FixtureLedger.  What a cleanup leaves.                                  *)

LEMMA CommandsKeepClean == LedgerInv /\ CleanInv /\ (Seed \/ Controller) => CleanInv'
<1> SUFFICES ASSUME LedgerInv, CleanInv, Seed \/ Controller PROVE CleanInv'
  OBVIOUS
<1>1. CASE SeedStarts \/ RunCStarts
  <2>1. cmd' \in {"idle", "seed", "watch"} /\ ~cleaned'
    BY <1>1 DEF SeedStarts, RunCStarts
  <2> QED
    BY <2>1 DEF CleanInv
<1>2. CASE \/ \E r \in Records : SeedCreates(r)
           \/ SeedRecords \/ SeedSends \/ HitLands \/ HitRecords \/ RunCEnds
           \/ \E d \in Deals : HitStarts(d)
  <2>1. cmd # "idle" /\ cmd' \notin {"clean", "sweep"} /\ cleaned' = cleaned
    BY <1>2 DEF SeedCreates, SeedRecords, SeedSends, HitLands, HitRecords, RunCEnds, HitStarts,
                cleanVars
  <2> QED
    BY <2>1 DEF CleanInv
<1> QED
  BY <1>1, <1>2 DEF Seed, Controller

LEMMA CleanupKeepsClean == LedgerInv /\ CleanInv /\ Cleanup => CleanInv'
<1> SUFFICES ASSUME LedgerInv, CleanInv, Cleanup PROVE CleanInv'
  OBVIOUS
<1>1. CASE CleanupStarts
  <2>1. /\ cmd' = "clean" /\ ~cleaned' /\ swept' = {}
        /\ Ours' = Ours /\ todo' = Ours
    BY <1>1 DEF CleanupStarts, Ours, crmVars
  <2> QED
    BY <2>1 DEF CleanInv
<1>2. CASE CleanupSweeps
  <2>1. /\ cmd = "clean" /\ cmd' = "sweep" /\ todo' = todo \cup listed /\ swept' = listed
        /\ UNCHANGED <<crm, untagged, pending, cleaned>> /\ Ours' = Ours
    BY <1>2 DEF CleanupSweeps, Ours, crmVars
  <2> QED
    BY <2>1 DEF CleanInv
<1>3. CASE \E r \in Records : CleanupCloses(r)
  <2>1. PICK r \in Records : CleanupCloses(r)
    BY <1>3
  <2>2. /\ cmd \in {"clean", "sweep"} /\ UNCHANGED <<untagged, cmd, cleaned, swept>>
        /\ todo' = todo \ {r} /\ pending \subseteq pending' /\ Ours' = Ours
    BY <2>1 DEF CleanupCloses, Ours
  <2>3. r \in pending' \/ crm'[r] = "over" \/ (r.kind = "agent" /\ r \in untagged)
    BY <2>1, SetsType DEF CleanupCloses, Spares, LedgerInv, LedgerTypeOK, States
  <2>4. \A q \in Records : q # r => crm'[q] = crm[q]
    BY <2>1, SetsType DEF CleanupCloses, LedgerInv, LedgerTypeOK, States
  <2>5. /\ Ours \subseteq Records /\ swept \subseteq Records
        /\ \A q \in Ours : q.kind # "agent"
    BY DEF Ours, LedgerInv, LedgerTypeOK, HandInv
  <2>6. \A q \in Ours \ todo' : q \in pending' \/ crm'[q] = "over"
    BY <2>2, <2>3, <2>4, <2>5 DEF CleanInv
  <2>7. cmd = "sweep" => \A q \in swept \ todo' : q \in pending' \/ crm'[q] = "over" \/ q \in untagged
    BY <2>2, <2>3, <2>4, <2>5 DEF CleanInv
  <2>8. ~cleaned
    BY <2>2 DEF CleanInv
  <2> QED
    BY <2>2, <2>6, <2>7, <2>8 DEF CleanInv
<1>4. CASE CleanupEnds
  <2>1. /\ cmd = "sweep" /\ cmd' = "idle" /\ todo = {} /\ UNCHANGED <<crm, untagged, swept>>
        /\ cleaned' = (pending = {}) /\ ledger'.ids = ledger.ids
    BY <1>4 DEF CleanupEnds, runVars, LedgerInv, LedgerTypeOK
  <2>2. Ours' = Ours
    BY <2>1 DEF Ours
  <2> QED
    BY <2>1, <2>2 DEF CleanInv
<1> QED
  BY <1>1, <1>2, <1>3, <1>4 DEF Cleanup

\* A step that closes nothing again and keeps the tags that are gone.
LEMMA OthersKeepClean ==
  ASSUME LedgerInv, CleanInv,
         \A r \in Records : crm[r] = "over" /\ (swept # {} \/ r.kind # "agent") => crm'[r] = "over",
         untagged \subseteq untagged',
         UNCHANGED <<ledger, cmd, todo, pending, cleaned, swept>>
  PROVE  CleanInv'
<1>1. Ours' = Ours /\ \A r \in Ours : r \in Records /\ r.kind # "agent"
  BY DEF Ours, LedgerInv, LedgerTypeOK, HandInv
<1>2. \A r \in swept : r \in Records
  BY DEF LedgerInv, LedgerTypeOK
<1> QED
  BY <1>1, <1>2 DEF CleanInv

LEMMA CleanKept == LedgerSpec => [](LedgerInv /\ CleanInv)
<1>1. LedgerInit => CleanInv
  BY DEF LedgerInit, CleanInv
<1>2. LedgerInv /\ CleanInv /\ [LedgerNext]_ledgerVars => CleanInv'
  <2> SUFFICES ASSUME LedgerInv, CleanInv, [LedgerNext]_ledgerVars PROVE CleanInv'
    OBVIOUS
  <2>1. CASE Agent
    <3>1. /\ UNCHANGED <<ledger, cmd, todo, pending, cleaned, swept>> /\ untagged \subseteq untagged'
          /\ \A r \in Records : r.kind # "agent" => crm'[r] = crm[r]
      BY <2>1, AgentKeepsLedger DEF cleanVars
    <3>2. swept = {}
      BY <2>1, AgentKeepsLedger DEF LedgerInv, LedgerTypeOK, HandInv
    <3> QED
      BY <3>1, <3>2, OthersKeepClean
  <2>2. CASE Stops
    <3>1. cmd # "idle" /\ cmd' = "idle" /\ cleaned' = cleaned
      BY <2>2 DEF Stops
    <3> QED
      BY <3>1 DEF CleanInv
  <2>3. ASSUME NEW d \in Deals, MateMoves(d) PROVE CleanInv'
    <3>1. UNCHANGED <<untagged, ledger, cmd, todo, pending, cleaned, swept>>
      BY <2>3 DEF MateMoves, cleanVars
    <3>2. \A r \in Records : crm[r] = "over" => crm'[r] = "over"
      BY <2>3, MovesKeepLedger
    <3> QED
      BY <3>1, <3>2, OthersKeepClean
  <2>4. ASSUME NEW r \in Records, MateRenames(r) PROVE CleanInv'
    <3>1. /\ UNCHANGED <<crm, ledger, cmd, todo, pending, cleaned, swept>>
          /\ untagged \subseteq untagged'
      BY <2>4, RenamesKeepLedger DEF cleanVars
    <3> QED
      BY <3>1, OthersKeepClean
  <2>5. CASE UNCHANGED ledgerVars
    BY <2>5, OthersKeepClean DEF ledgerVars, crmVars, cleanVars
  <2> QED
    BY <2>1, <2>2, <2>3, <2>4, <2>5, CommandsKeepClean, CleanupKeepsClean DEF LedgerNext, Mate
<1> QED
  BY <1>1, <1>2, LedgerKept, PTL DEF LedgerSpec

\* After a cleanup that reports nothing, every record the ledger names but the
\* parties, and every row a result named that kept its TAG, is over, wherever
\* earlier commands were interrupted (cleanup).
THEOREM CleanupLeavesNothing == LedgerSpec => []CleanupIsWhole
<1>1. CleanInv => CleanupIsWhole
  BY DEF CleanInv, CleanupIsWhole, Ours
<1> QED
  BY <1>1, CleanKept, PTL

-----------------------------------------------------------------------------
(* FixtureLedger.  Run C and its hits.                                     *)

\* What exists goes on existing, and a deal that was hit stays hit.
LEMMA CrmGoesOn ==
  ASSUME LedgerInv, [LedgerNext]_ledgerVars
  PROVE  /\ \A r \in Records : crm[r] # "none" => crm'[r] # "none"
         /\ WasHit => WasHit'
<1> DEFINE Good == /\ \A r \in Records : crm[r] # "none" => crm'[r] # "none"
                   /\ crm[DealOf(Shut)] = "over" => crm'[DealOf(Shut)] = "over"
<1>0. DealOf(Shut) \in Records /\ DealOf(Shut) # Quote /\ DealOf(Shut) # Rival
      /\ DealOf(Shut).kind = "deal"
  BY RecordsOf DEF DealOf, Quote, Rival
<1>1. ASSUME \E r \in Records : SeedCreates(r) PROVE Good
  <2>1. PICK r \in Records : SeedCreates(r)
    BY <1>1
  <2>2. crm[r] = "none" /\ crm'[r] # "none" /\ \A q \in Records : q # r => crm'[q] = crm[q]
    BY <2>1, SeededType, SetsType DEF SeedCreates, Unseeded, LedgerInv, LedgerTypeOK
  <2> QED
    BY <1>0, <2>2
<1>2. ASSUME SeedSends PROVE Good
  BY <1>0, <1>2, RecordsOf DEF SeedSends, Sets, LedgerInv, LedgerTypeOK
<1>3. ASSUME HitLands PROVE Good
  BY <1>0, <1>3, RecordsOf DEF HitLands, Sets, LedgerInv, LedgerTypeOK
<1>4. ASSUME Agent PROVE Good
  <2>1. \A r \in Records : crm'[r] # crm[r] => crm'[r] = "open" /\ r.kind = "agent"
    BY <1>4, AgentKeepsLedger
  <2> QED
    BY <1>0, <2>1
<1>5. ASSUME \E r \in Records : CleanupCloses(r) PROVE Good
  <2>1. PICK r \in Records : CleanupCloses(r)
    BY <1>5
  <2>2. \A q \in Records : crm'[q] = crm[q] \/ crm'[q] = "over"
    BY <2>1, SetsType DEF CleanupCloses, LedgerInv, LedgerTypeOK, States
  <2> QED
    BY <1>0, <2>2
<1>6. ASSUME NEW d \in Deals, MateMoves(d) PROVE Good
  <2>1. \A r \in Records : crm'[r] # crm[r] => crm[r] = "open" /\ crm'[r] = "moved"
    BY <1>6, MovesKeepLedger
  <2> QED
    BY <1>0, <2>1
<1>7. ASSUME UNCHANGED crm PROVE Good
  BY <1>7
<1>8. \/ \E r \in Records : SeedCreates(r)
      \/ SeedSends \/ HitLands \/ Agent
      \/ \E r \in Records : CleanupCloses(r)
      \/ \E d \in Deals : MateMoves(d)
      \/ UNCHANGED crm
  BY DEF LedgerNext, Seed, Controller, Cleanup, Mate, SeedStarts, SeedRecords, RunCStarts,
         HitStarts, HitRecords, RunCEnds, CleanupStarts, CleanupSweeps, CleanupEnds, Stops,
         MateRenames, crmVars, ledgerVars
<1>9. Good
  BY <1>1, <1>2, <1>3, <1>4, <1>5, <1>6, <1>7, <1>8
<1>10. spared \subseteq spared'
  <2>1. CASE Agent
    BY <2>1, AgentKeepsLedger
  <2>2. CASE Seed \/ Controller
    BY <2>2 DEF Seed, Controller, SeedStarts, SeedCreates, SeedRecords, SeedSends, RunCStarts,
                HitStarts, HitLands, HitRecords, RunCEnds, crmVars
  <2>3. CASE Cleanup \/ Stops \/ Mate
    BY <2>3 DEF Cleanup, CleanupStarts, CleanupSweeps, CleanupCloses, CleanupEnds, Stops, Mate,
                MateMoves, MateRenames, crmVars
  <2>4. CASE UNCHANGED ledgerVars
    BY <2>4 DEF ledgerVars, crmVars
  <2> QED
    BY <2>1, <2>2, <2>3, <2>4 DEF LedgerNext
<1> QED
  BY <1>9, <1>10 DEF WasHit

LEMMA SeedKeepsHits == LedgerInv /\ HitInv /\ Seed => HitInv'
<1> SUFFICES ASSUME LedgerInv, HitInv, Seed PROVE HitInv'
  OBVIOUS
<1>0. /\ [LedgerNext]_ledgerVars /\ DealOf(Shut) \in Records
      /\ ledger.ids \subseteq Records /\ hand \in Records
  BY RecordsOf DEF LedgerNext, LedgerInv, LedgerTypeOK
<1>1. CASE SeedStarts
  <2>1. /\ UNCHANGED <<crm, fired, runC>> /\ cmd' \in {"seed", "idle"}
        /\ ledger'.ids = {} /\ fired = {}
    BY <1>1 DEF SeedStarts, NoLedger, TornLedger, runVars, LedgerInv, KeptInv
  <2> QED
    BY <1>0, <2>1, CrmGoesOn DEF HitInv
<1>2. CASE \E r \in Records : SeedCreates(r)
  <2>1. PICK r \in Records : SeedCreates(r)
    BY <1>2
  <2>2. crm'[r] # "none"
    BY <2>1, SeededType, SetsType DEF SeedCreates, LedgerInv, LedgerTypeOK
  <2>3. cmd' = "record" /\ hand' = r /\ UNCHANGED <<ledger, fired, runC>>
    BY <2>1 DEF SeedCreates, runVars
  <2> QED
    BY <1>0, <2>2, <2>3, CrmGoesOn DEF HitInv
<1>3. CASE SeedRecords
  <2>1. /\ UNCHANGED <<crm, fired, runC>> /\ cmd = "record" /\ cmd' \in {"seed", "send"}
        /\ ledger'.ids = ledger.ids \cup {hand} /\ ledger'.state = ledger.state
    BY <1>3 DEF SeedRecords, Noted, runVars, LedgerInv, LedgerTypeOK
  <2> QED
    BY <1>0, <2>1, CrmGoesOn DEF HitInv
<1>4. CASE SeedSends
  <2>1. UNCHANGED <<ledger, fired, runC>> /\ cmd' = "idle"
    BY <1>4 DEF SeedSends, runVars
  <2> QED
    BY <1>0, <2>1, CrmGoesOn DEF HitInv
<1> QED
  BY <1>1, <1>2, <1>3, <1>4 DEF Seed

LEMMA ControllerKeepsHits == LedgerInv /\ HitInv /\ Controller => HitInv'
<1> SUFFICES ASSUME LedgerInv, HitInv, Controller PROVE HitInv'
  OBVIOUS
<1>0. /\ [LedgerNext]_ledgerVars /\ DealOf(Shut) \in Records /\ Rival \in Records
      /\ ledger.ids \subseteq Records /\ DealOf(Rivalled) # DealOf(Shut)
  BY RecordsOf DEF LedgerNext, LedgerInv, LedgerTypeOK
<1>1. CASE RunCStarts
  <2>1. UNCHANGED <<crm, ledger, fired, runC>> /\ cmd' = "watch" /\ DealOf(Shut) \in ledger.ids
    BY <1>1 DEF RunCStarts, crmVars, Hits
  <2> QED
    BY <1>0, <2>1, CrmGoesOn DEF HitInv
<1>2. CASE \E d \in Deals : HitStarts(d)
  <2>1. UNCHANGED <<crm, ledger, fired, runC>> /\ cmd = "watch" /\ cmd' = "hit"
    BY <1>2 DEF HitStarts, crmVars, runVars
  <2> QED
    BY <1>0, <2>1, CrmGoesOn DEF HitInv
<1>3. CASE HitLands
  <2>1. /\ cmd = "hit" /\ cmd' = "hitRecord" /\ UNCHANGED <<ledger, hand, fired, runC>>
    BY <1>3 DEF HitLands, runVars
  <2>2. hand = DealOf(Rivalled) => crm'[Rival] # "none"
    BY <1>3, RecordsOf, SetsType DEF HitLands, LedgerInv, LedgerTypeOK, States
  <2>3. hand = DealOf(Shut) => WasHit'
    BY <1>0, <1>3, <2>1 DEF HitLands, Sets, WasHit, LedgerInv, LedgerTypeOK
  <2> QED
    BY <1>0, <2>1, <2>2, <2>3, CrmGoesOn DEF HitInv
<1>4. CASE HitRecords
  <2>1. PICK d \in Hits : hand = DealOf(d) /\ hand.of = d
    BY <1>4 DEF HitRecords, LedgerInv, HandInv, DealOf
  <2>2. /\ cmd = "hitRecord" /\ cmd' = "watch" /\ UNCHANGED <<crm, runC>>
        /\ fired' = fired \cup {d}
        /\ ledger'.ids = IF hand = DealOf(Rivalled) THEN ledger.ids \cup {Rival} ELSE ledger.ids
        /\ ledger'.state = ledger.state
    BY <1>4, <2>1 DEF HitRecords, Noted, LedgerInv, LedgerTypeOK
  <2>3. CASE d = Rivalled
    BY <1>0, <2>1, <2>2, <2>3, RecordsOf, CrmGoesOn DEF HitInv
  <2>4. CASE d = Shut
    BY <1>0, <2>1, <2>2, <2>4, RecordsOf, CrmGoesOn DEF HitInv
  <2> QED
    BY <2>1, <2>3, <2>4 DEF Hits
<1>5. CASE RunCEnds
  <2>1. /\ UNCHANGED <<crm, ledger, fired>> /\ cmd' = "idle"
        /\ runC' = "ok" => Hits \subseteq fired
    BY <1>5 DEF RunCEnds, crmVars, AllFired
  <2> QED
    BY <1>0, <2>1, CrmGoesOn DEF HitInv
<1> QED
  BY <1>1, <1>2, <1>3, <1>4, <1>5 DEF Controller

\* The others note nothing new and fire nothing.
LEMMA OthersKeepHits ==
  LedgerInv /\ HitInv /\ (Agent \/ Cleanup \/ Stops \/ Mate) => HitInv'
<1> SUFFICES ASSUME LedgerInv, HitInv, Agent \/ Cleanup \/ Stops \/ Mate
             PROVE  HitInv'
  OBVIOUS
<1>0. /\ [LedgerNext]_ledgerVars /\ DealOf(Shut) \in Records /\ Rival \in Records
      /\ ledger.ids \subseteq Records /\ hand \in Records
  BY RecordsOf DEF LedgerNext, LedgerInv, LedgerTypeOK
<1>1. /\ UNCHANGED <<hand, fired, runC>>
      /\ cmd' = cmd \/ cmd' \in {"idle", "clean", "sweep"}
      /\ ledger'.ids = {} \/ ledger'.ids = ledger.ids
      /\ ledger'.state = "kept" => ledger.state = "kept" /\ ledger'.ids = ledger.ids
  <2>1. CASE Agent
    BY <2>1, AgentKeepsLedger
  <2>2. CASE Cleanup
    BY <2>2 DEF Cleanup, CleanupStarts, CleanupSweeps, CleanupCloses, CleanupEnds, crmVars,
                runVars, LedgerInv, LedgerTypeOK
  <2>3. CASE Stops
    BY <2>3 DEF Stops, TornLedger, runVars
  <2>4. ASSUME NEW d \in Deals, MateMoves(d)
        PROVE  UNCHANGED <<hand, fired, runC, cmd, ledger>>
    BY <2>4 DEF MateMoves, runVars
  <2>5. ASSUME NEW r \in Records, MateRenames(r)
        PROVE  UNCHANGED <<hand, fired, runC, cmd, ledger>>
    BY <2>5 DEF MateRenames, runVars
  <2> QED
    BY <2>1, <2>2, <2>3, <2>4, <2>5 DEF Mate
<1> QED
  BY <1>0, <1>1, CrmGoesOn DEF HitInv

LEMMA HitsKept == LedgerSpec => [](LedgerInv /\ HitInv)
<1>1. LedgerInit => HitInv
  BY DEF LedgerInit, HitInv, NoLedger
<1>2. LedgerInv /\ HitInv /\ UNCHANGED ledgerVars => HitInv'
  BY DEF ledgerVars, crmVars, cleanVars, runVars, HitInv, WasHit
<1>3. LedgerInv /\ HitInv /\ [LedgerNext]_ledgerVars => HitInv'
  BY <1>2, SeedKeepsHits, ControllerKeepsHits, OthersKeepHits DEF LedgerNext
<1> QED
  BY <1>1, <1>3, LedgerKept, PTL DEF LedgerSpec

\* A Run C that came out well was hit both times: its rival is in the ledger,
\* unless that was torn since, and its second deal is closed, or was found at a
\* stage that has no transition to be closed with (run_c, mark_lost).
THEOREM RunCHitTwice == LedgerSpec => []RunCWasHit
<1>1. HitInv => RunCWasHit
  BY DEF HitInv, WasHit, RunCWasHit, Hits
<1> QED
  BY <1>1, HitsKept, PTL
=============================================================================
