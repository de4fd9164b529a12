-------------------------- MODULE RunArtifactProofs --------------------------
(***************************************************************************)
(* Proofs about RunArtifact, for every set of tasks and number of calls:   *)
(* what the directory holds at each point of a run (StageInv), and that    *)
(* its status is "completed" only over a whole, traced result.             *)
(***************************************************************************)
EXTENDS RunArtifact, TLAPS

Result == Write("result", "whole")
Outcome == Write("status", IF run.error /\ run.ended # "refused" THEN "failed" ELSE "completed")
Failed == Write("status", "failed")
Input == Write("input", "whole")
Config == Write("config", "whole")
Marker == Write("status", "running")

Idle == todo = <<>> /\ ~open

\* Each stage of the run, by the writes it still has to make.
Starting ==
    \/ /\ todo \in {<<Input, Config, Marker>>, <<Config, Marker>>}
       /\ files["status"] = "absent"
    \/ todo = <<Marker>> /\ files["status"] \in {"absent", "torn"}
    \/ Idle /\ files["status"] = "running"
Closed ==
    \/ todo = <<Result, Outcome>> /\ files["status"] = "running"
    \/ todo = <<Outcome>> /\ files["result"] = "whole" /\ files["status"] \in {"running", "torn"}
    \/ Idle /\ files["result"] = "whole" /\ files["status"] = Outcome.content
Marked ==
    \/ todo = MarkFailed
    \/ todo = <<Failed>> /\ files["error"] = "whole"
    \/ Idle /\ files["error"] = "whole" /\ files["status"] = "failed"

StageInv ==
    /\ open => todo # <<>>
    /\ pc = "starting" => Starting
    /\ pc \in {"working", "reporting", "interrupted"} => Idle /\ files["status"] = "running"
    /\ pc \in {"finalizing", "failing"} => Closed
    /\ pc = "failing" => run = [error |-> TRUE, ended |-> "error"]
    /\ pc = "marking" => Marked
    /\ pc \in {"done", "raised"} => Idle
    /\ pc = "raised" => broke \/ (files["error"] = "whole" /\ files["status"] = "failed")

\* A recorded task that has not raised has every call in its trace.
TraceInv ==
    pc \in {"starting", "working", "reporting", "finalizing"} /\ task \in {"canonical", "log-contact"}
        => traced = made

Types ==
    /\ pc \in Pcs /\ task \in Tasks /\ files \in [Names -> Contents]
    /\ open \in BOOLEAN /\ run \in Run /\ broke \in BOOLEAN
    /\ made \in 0 .. MaxCalls /\ traced \in 0 .. made

Inv == Types /\ StageInv /\ TraceInv /\ CompletedIsWhole /\ CompletedIsTraced

LEMMA HeadsAndTails ==
  ASSUME NEW a, NEW b, NEW c
  PROVE  /\ <<a>> # <<>> /\ <<a, b>> # <<>> /\ <<a, b, c>> # <<>>
         /\ Head(<<a>>) = a /\ Head(<<a, b>>) = a /\ Head(<<a, b, c>>) = a
         /\ Tail(<<a>>) = <<>> /\ Tail(<<a, b>>) = <<b>> /\ Tail(<<a, b, c>>) = <<b, c>>
OBVIOUS

LEMMA WritesDiffer ==
  /\ Result.name = "result" /\ Result.content = "whole"
  /\ Outcome.name = "status" /\ Outcome.content \in {"failed", "completed"}
  /\ Outcome.content = "completed" <=> ~(run.error /\ run.ended # "refused")
  /\ Failed.name = "status" /\ Failed.content = "failed"
  /\ Input.name = "input" /\ Input.content = "whole"
  /\ Config.name = "config" /\ Config.content = "whole"
  /\ Marker.name = "status" /\ Marker.content = "running"
  /\ MarkFailed = <<Write("error", "whole"), Failed>>
  /\ Write("error", "whole").name = "error" /\ Write("error", "whole").content = "whole"
BY DEF Result, Outcome, Failed, Input, Config, Marker, Write, MarkFailed

\* A write under way belongs to one of four stages.
LEMMA WriteHasStage ==
  ASSUME Inv, todo # <<>>
  PROVE  \/ pc = "starting" /\ Starting
         \/ pc \in {"finalizing", "failing"} /\ Closed
         \/ pc = "marking" /\ Marked
BY DEF Inv, Types, Pcs, StageInv, Idle

LEMMA StartsInv == Init => Inv
<1> SUFFICES ASSUME Init PROVE Inv
  OBVIOUS
<1>1. Types
  <2>1. run \in Run
    BY DEF Init, Fresh, Run, Endings
  <2>2. files \in [Names -> Contents]
    BY DEF Init, Contents
  <2>3. made \in 0 .. MaxCalls /\ traced \in 0 .. made
    BY ArtifactAssumption DEF Init
  <2>4. open \in BOOLEAN /\ broke \in BOOLEAN
    BY Zenon DEF Init
  <2>5. pc \in Pcs /\ task \in Tasks
    BY DEF Init, Pcs
  <2> QED
    BY <2>1, <2>2, <2>3, <2>4, <2>5 DEF Types
<1>2. StageInv
  BY DEF Init, StageInv, Starting, Input, Config, Marker, Names
<1> QED
  BY <1>1, <1>2 DEF Init, Inv, TraceInv, CompletedIsWhole, CompletedIsTraced, Names

-----------------------------------------------------------------------------
(* Writes.                                                                 *)

LEMMA TruncateKeepsInv ==
  ASSUME Inv, Truncate PROVE Inv'
<1> USE DEF Inv
<1>1. /\ todo # <<>> /\ ~open /\ open' /\ UNCHANGED <<pc, todo, task, run, made, traced, broke>>
      /\ files' = [files EXCEPT ![Head(todo).name] = "torn"]
  BY DEF Truncate, record
<1>2. files \in [Names -> Contents] /\ "torn" \in Contents
  BY DEF Types, Contents
<1>3. Types'
  BY <1>1, <1>2 DEF Types
<1>4. CASE pc = "starting" /\ Starting
  <2>1. CASE todo \in {<<Input, Config, Marker>>, <<Config, Marker>>}
    <3>1. Head(todo).name \in {"input", "config"}
      BY <2>1, HeadsAndTails, WritesDiffer
    <3> QED
      BY <1>1, <1>2, <1>3, <1>4, <2>1, <3>1, HeadsAndTails
      DEF StageInv, Starting, Idle, TraceInv, CompletedIsWhole, CompletedIsTraced, Names, Marker, Input, Config
  <2>2. CASE todo = <<Marker>>
    <3>1. Head(todo).name = "status"
      BY <2>2, HeadsAndTails, WritesDiffer
    <3> QED
      BY <1>1, <1>2, <1>3, <1>4, <2>2, <3>1
      DEF StageInv, Starting, TraceInv, CompletedIsWhole, CompletedIsTraced, Names, Marker
  <2> QED
    BY <1>1, <1>4, <2>1, <2>2 DEF Starting, Idle
<1>5. CASE pc \in {"finalizing", "failing"} /\ Closed
  <2>1. CASE todo = <<Result, Outcome>>
    <3>1. Head(todo).name = "result" /\ files["status"] = "running"
      BY <1>5, <2>1, HeadsAndTails, WritesDiffer DEF Closed, Idle
    <3>2. files'["status"] = "running" /\ todo' = <<Result, Outcome>>' /\ todo' # <<>>
      BY <1>1, <1>2, <2>1, <3>1 DEF Names, Result, Outcome
    <3> QED
      BY <1>1, <1>3, <1>5, <3>2
      DEF StageInv, Closed, TraceInv, CompletedIsWhole, CompletedIsTraced
  <2>2. CASE todo = <<Outcome>>
    <3>1. Head(todo).name = "status" /\ files["result"] = "whole"
      BY <1>1, <1>5, <2>2, HeadsAndTails, WritesDiffer DEF Closed, Idle
    <3>2. /\ files'["status"] = "torn" /\ files'["result"] = "whole"
          /\ todo' = <<Outcome>>' /\ todo' # <<>>
      BY <1>1, <1>2, <2>2, <3>1 DEF Names, Outcome
    <3> QED
      BY <1>1, <1>3, <1>5, <3>2
      DEF StageInv, Closed, TraceInv, CompletedIsWhole, CompletedIsTraced
  <2> QED
    BY <1>1, <1>5, <2>1, <2>2 DEF Closed, Idle
<1>6. CASE pc = "marking" /\ Marked
  <2>1. CASE todo = MarkFailed
    <3>1. Head(todo).name = "error"
      BY <2>1, HeadsAndTails, WritesDiffer
    <3> QED
      BY <1>1, <1>2, <1>3, <1>6, <2>1, <3>1
      DEF StageInv, Marked, TraceInv, CompletedIsWhole, CompletedIsTraced, Names, MarkFailed
  <2>2. CASE todo = <<Failed>> /\ files["error"] = "whole"
    <3>1. Head(todo).name = "status"
      BY <2>2, HeadsAndTails, WritesDiffer
    <3> QED
      BY <1>1, <1>2, <1>3, <1>6, <2>2, <3>1
      DEF StageInv, Marked, TraceInv, CompletedIsWhole, CompletedIsTraced, Names, Failed
  <2> QED
    BY <1>1, <1>6, <2>1, <2>2 DEF Marked, Idle
<1> QED
  BY <1>1, <1>4, <1>5, <1>6, WriteHasStage

LEMMA FillKeepsInv ==
  ASSUME Inv, Fill PROVE Inv'
<1> USE DEF Inv
<1>1. /\ todo # <<>> /\ open /\ ~open' /\ todo' = Tail(todo)
      /\ UNCHANGED <<pc, task, run, made, traced, broke>>
      /\ files' = [files EXCEPT ![Head(todo).name] = Head(todo).content]
  BY DEF Fill, record
<1>2. files \in [Names -> Contents] /\ open' \in BOOLEAN
  BY DEF Types, Fill
<1>3. CASE pc = "starting" /\ Starting
  <2>1. CASE todo = <<Input, Config, Marker>> /\ files["status"] = "absent"
    <3>1. /\ Head(todo).name = "input" /\ Head(todo).content = "whole"
          /\ Tail(todo) = <<Config, Marker>> /\ Tail(todo) # <<>>
      BY <2>1, HeadsAndTails, WritesDiffer
    <3>2. files' \in [Names -> Contents] /\ files'["status"] = "absent"
      BY <1>1, <1>2, <2>1, <3>1 DEF Names, Contents
    <3> QED
      BY <1>1, <1>2, <1>3, <3>1, <3>2
      DEF Types, StageInv, Starting, TraceInv, CompletedIsWhole, CompletedIsTraced, Config, Marker
  <2>2. CASE todo = <<Config, Marker>> /\ files["status"] = "absent"
    <3>1. /\ Head(todo).name = "config" /\ Head(todo).content = "whole"
          /\ Tail(todo) = <<Marker>> /\ Tail(todo) # <<>>
      BY <2>2, HeadsAndTails, WritesDiffer
    <3>2. files' \in [Names -> Contents] /\ files'["status"] = "absent"
      BY <1>1, <1>2, <2>2, <3>1 DEF Names, Contents
    <3> QED
      BY <1>1, <1>2, <1>3, <3>1, <3>2
      DEF Types, StageInv, Starting, TraceInv, CompletedIsWhole, CompletedIsTraced, Marker
  <2>3. CASE todo = <<Marker>>
    <3>1. Head(todo).name = "status" /\ Head(todo).content = "running" /\ Tail(todo) = <<>>
      BY <2>3, HeadsAndTails, WritesDiffer
    <3>2. files' \in [Names -> Contents] /\ files'["status"] = "running"
      BY <1>1, <1>2, <3>1 DEF Names, Contents, Statuses
    <3> QED
      BY <1>1, <1>2, <1>3, <3>1, <3>2
      DEF Types, StageInv, Starting, Idle, TraceInv, CompletedIsWhole, CompletedIsTraced
  <2> QED
    BY <1>1, <1>3, <2>1, <2>2, <2>3 DEF Starting, Idle
<1>4. CASE pc \in {"finalizing", "failing"} /\ Closed
  <2>1. CASE todo = <<Result, Outcome>>
    <3>1. /\ Head(todo).name = "result" /\ Head(todo).content = "whole"
          /\ Tail(todo) = <<Outcome>> /\ Tail(todo) # <<>>
      BY <2>1, HeadsAndTails, WritesDiffer
    <3>2. files["status"] = "running"
      BY <1>1, <1>4, <2>1, HeadsAndTails, WritesDiffer DEF Closed, Idle
    <3>3. /\ files' \in [Names -> Contents]
          /\ files'["status"] = "running" /\ files'["result"] = "whole"
      BY <1>1, <1>2, <3>1, <3>2 DEF Names, Contents
    <3>4. todo' = <<Outcome>>'
      BY <1>1, <3>1 DEF Outcome
    <3> QED
      BY <1>1, <1>2, <1>4, <3>1, <3>3, <3>4
      DEF Types, StageInv, Closed, TraceInv, CompletedIsWhole, CompletedIsTraced
  <2>2. CASE todo = <<Outcome>>
    <3>1. /\ Head(todo).name = "status" /\ Head(todo).content = Outcome.content
          /\ Outcome.content \in {"failed", "completed"} /\ Tail(todo) = <<>>
      BY <2>2, HeadsAndTails, WritesDiffer
    <3>2. files["result"] = "whole"
      BY <1>1, <1>4, <2>2, HeadsAndTails, WritesDiffer DEF Closed, Idle
    <3>3. /\ files' \in [Names -> Contents]
          /\ files'["status"] = Outcome.content /\ files'["result"] = "whole"
      BY <1>1, <1>2, <3>1, <3>2 DEF Names, Contents, Statuses
    <3>4. Outcome' = Outcome
      BY <1>1 DEF Outcome
    <3>5. StageInv'
      BY <1>1, <1>4, <3>1, <3>3, <3>4 DEF StageInv, Closed, Idle
    <3>6. CompletedIsWhole'
      BY <1>1, <3>3, WritesDiffer DEF CompletedIsWhole
    <3>7. pc = "failing" => Outcome.content = "failed"
      BY WritesDiffer DEF StageInv
    <3>8. CompletedIsTraced' /\ TraceInv'
      BY <1>1, <1>4, <3>3, <3>7 DEF CompletedIsTraced, TraceInv
    <3> QED
      BY <1>1, <1>2, <3>3, <3>5, <3>6, <3>8 DEF Types
  <2> QED
    BY <1>1, <1>4, <2>1, <2>2 DEF Closed, Idle
<1>5. CASE pc = "marking" /\ Marked
  <2>1. CASE todo = MarkFailed
    <3>1. /\ Head(todo).name = "error" /\ Head(todo).content = "whole"
          /\ Tail(todo) = <<Failed>> /\ Tail(todo) # <<>>
      BY <2>1, HeadsAndTails, WritesDiffer
    <3>2. /\ files' \in [Names -> Contents] /\ files'["error"] = "whole"
          /\ files'["status"] = files["status"] /\ files'["result"] = files["result"]
      BY <1>1, <1>2, <3>1 DEF Names, Contents
    <3> QED
      BY <1>1, <1>2, <1>5, <3>1, <3>2
      DEF Types, StageInv, Marked, TraceInv, CompletedIsWhole, CompletedIsTraced, Failed
  <2>2. CASE todo = <<Failed>> /\ files["error"] = "whole"
    <3>1. Head(todo).name = "status" /\ Head(todo).content = "failed" /\ Tail(todo) = <<>>
      BY <2>2, HeadsAndTails, WritesDiffer
    <3>2. /\ files' \in [Names -> Contents] /\ files'["error"] = "whole"
          /\ files'["status"] = "failed"
      BY <1>1, <1>2, <2>2, <3>1 DEF Names, Contents, Statuses
    <3> QED
      BY <1>1, <1>2, <1>5, <3>1, <3>2
      DEF Types, StageInv, Marked, Idle, TraceInv, CompletedIsWhole, CompletedIsTraced
  <2> QED
    BY <1>1, <1>5, <2>1, <2>2 DEF Marked, Idle
<1> QED
  BY <1>1, <1>3, <1>4, <1>5, WriteHasStage

LEMMA WriteFailsKeepsInv ==
  ASSUME Inv, WriteFails PROVE Inv'
<1>1. /\ ~open' /\ open' \in BOOLEAN /\ broke' /\ broke' \in BOOLEAN
      /\ UNCHANGED <<files, task, run, made, traced>>
  BY DEF WriteFails, record
<1>2. CASE pc \in {"starting", "marking"} /\ pc' = "raised" /\ todo' = <<>>
  BY <1>1, <1>2
  DEF Inv, Types, Pcs, StageInv, Idle, TraceInv, CompletedIsWhole, CompletedIsTraced
<1>3. CASE pc \in {"finalizing", "failing"} /\ pc' = "marking" /\ todo' = MarkFailed
  BY <1>1, <1>3, HeadsAndTails
  DEF Inv, Types, Pcs, StageInv, Marked, MarkFailed, TraceInv, CompletedIsWhole, CompletedIsTraced
<1> QED
  BY <1>2, <1>3 DEF WriteFails

-----------------------------------------------------------------------------
(* main_async.                                                             *)

LEMMA ReturnIsRun ==
  /\ \A t \in Tasks : Ended(t) \subseteq Run
  /\ [error |-> TRUE, ended |-> "error"] \in Run
  /\ \A r \in Run : [r EXCEPT !.ended = "refused"] \in Run
<1>1. ASSUME NEW t \in Tasks PROVE Ended(t) \subseteq Run
  <2>1. /\ [error |-> FALSE, ended |-> "done"] \in Run
        /\ [error |-> FALSE, ended |-> "refused"] \in Run
        /\ [error |-> FALSE, ended |-> "max_steps"] \in Run
    BY DEF Run, Endings
  <2>2. [error : {TRUE}, ended : {"refused", "error", "token_budget", "time_budget"}] \subseteq Run
    BY DEF Run, Endings
  <2> QED
    BY <2>1, <2>2 DEF Ended
<1> QED
  BY <1>1 DEF Run, Endings

LEMMA WorkingKeepsInv ==
  ASSUME Inv, Working PROVE Inv'
<1>1. CASE Guard
  <2>1. run' \in Run
    BY <1>1, ReturnIsRun DEF Guard, Inv, Types
  <2>2. Idle /\ files["status"] = "running"
    BY <1>1, HeadsAndTails DEF Guard, Inv, StageInv, Starting
  <2> QED
    BY <1>1, <2>1, <2>2
    DEF Guard, Inv, Types, Pcs, StageInv, Idle, TraceInv, CompletedIsWhole, CompletedIsTraced
<1>2. CASE Returns \/ Interrupted
  <2>1. run' \in Run
    BY <1>2, ReturnIsRun DEF Returns, Interrupted, record, Inv, Types
  <2>2. /\ pc = "working" /\ pc' \in {"reporting", "interrupted"}
        /\ UNCHANGED <<task, files, todo, open, made, traced, broke>>
    BY <1>2 DEF Returns, Interrupted, record
  <2> QED
    BY <2>1, <2>2
    DEF Inv, Types, Pcs, StageInv, Idle, TraceInv, CompletedIsWhole, CompletedIsTraced
<1>3. CASE Call
  <2>1. /\ pc = "working" /\ Idle /\ files["status"] = "running"
        /\ made' = made + 1 /\ made' \in 0 .. MaxCalls
        /\ UNCHANGED <<task, files, open, broke>>
    BY <1>3, ArtifactAssumption DEF Call, Inv, Types, StageInv
  <2>1a. PICK answer \in {"ok", "denied", "failed", "raw"} : \E noted \in Steps(answer) :
          \/ /\ Survives(answer)
             /\ traced' = traced + noted
             /\ UNCHANGED <<pc, run, todo>>
          \/ /\ CanRaise(answer)
             /\ Raises
             /\ traced' = IF task = "loop" THEN 0 ELSE traced + noted
    BY <1>3 DEF Call
  <2>2. PICK noted \in Steps(answer) :
          \/ /\ Survives(answer)
             /\ traced' = traced + noted
             /\ UNCHANGED <<pc, run, todo>>
          \/ /\ CanRaise(answer)
             /\ Raises
             /\ traced' = IF task = "loop" THEN 0 ELSE traced + noted
    BY <2>1a
  <2>3. noted \in {0, 1} /\ (answer # "raw" /\ task # "loop" => noted = 1)
    BY DEF Steps, Traced
  <2>4. traced' \in 0 .. made'
    BY <2>1, <2>2, <2>3 DEF Inv, Types
  <2>5. CASE Survives(answer) /\ traced' = traced + noted /\ UNCHANGED <<pc, run, todo>>
    <3>1. task \in {"canonical", "log-contact"} => traced' = made'
      BY <2>1, <2>3, <2>5 DEF Inv, Types, TraceInv, Survives
    <3> QED
      BY <2>1, <2>4, <2>5, <3>1
      DEF Inv, Types, StageInv, Idle, TraceInv, CompletedIsWhole, CompletedIsTraced
  <2>6. CASE Raises
    <3>1. /\ run' = [error |-> TRUE, ended |-> "error"] /\ run' \in Run /\ pc' = "failing"
          /\ todo' = <<Result, Outcome>>' /\ todo' # <<>>
      BY <2>6, ReturnIsRun, HeadsAndTails DEF Raises, Finalize, Result, Outcome
    <3> QED
      BY <2>1, <2>4, <3>1
      DEF Inv, Types, Pcs, StageInv, Closed, Idle, TraceInv, CompletedIsWhole, CompletedIsTraced
  <2> QED
    BY <2>2, <2>5, <2>6
<1> QED
  BY <1>1, <1>2, <1>3 DEF Working

LEMMA ClosingKeepsInv ==
  ASSUME Inv, Closing PROVE Inv'
<1>1. CASE Report
  <2>1. todo' = <<Result, Outcome>>' /\ todo' # <<>>
    BY <1>1, HeadsAndTails DEF Report, record, Finalize, Result, Outcome
  <2> QED
    BY <1>1, <2>1
    DEF Report, record, Inv, Types, Pcs, StageInv, Closed, Idle, TraceInv,
        CompletedIsWhole, CompletedIsTraced
<1>2. CASE ConsoleFails
  BY <1>2, HeadsAndTails
  DEF ConsoleFails, record, Inv, Types, Pcs, StageInv, Marked, MarkFailed, Idle, TraceInv,
      CompletedIsWhole, CompletedIsTraced
<1>3. CASE Finished /\ pc = "failing"
  BY <1>3, HeadsAndTails
  DEF Finished, record, Inv, Types, Pcs, StageInv, Marked, MarkFailed, Idle, TraceInv,
      CompletedIsWhole, CompletedIsTraced
<1>4. CASE Finished /\ pc = "finalizing"
  BY <1>4
  DEF Finished, record, Inv, Types, Pcs, StageInv, Idle, TraceInv, CompletedIsWhole, CompletedIsTraced
<1>5. CASE Finished /\ pc = "marking"
  <2>1. Idle /\ files["error"] = "whole" /\ files["status"] = "failed"
    BY <1>5, HeadsAndTails, WritesDiffer DEF Finished, Inv, StageInv, Marked
  <2> QED
    BY <1>5, <2>1
    DEF Finished, record, Inv, Types, Pcs, StageInv, Idle, TraceInv, CompletedIsWhole, CompletedIsTraced
<1> QED
  BY <1>1, <1>2, <1>3, <1>4, <1>5 DEF Closing, Finished

LEMMA StepKeepsInv == Inv /\ [Next]_vars => Inv'
<1> SUFFICES ASSUME Inv, [Next]_vars PROVE Inv'
  OBVIOUS
<1>1. CASE UNCHANGED vars
  BY <1>1
  DEF vars, record, Inv, Types, StageInv, Starting, Closed, Marked, Idle, Result, Outcome, Failed,
      Input, Config, Marker, MarkFailed, TraceInv, CompletedIsWhole, CompletedIsTraced
<1> QED
  BY <1>1, TruncateKeepsInv, FillKeepsInv, WriteFailsKeepsInv, WorkingKeepsInv, ClosingKeepsInv
  DEF Next, Writing

LEMMA InvHolds == Spec => []Inv
BY StartsInv, StepKeepsInv, PTL DEF Spec

-----------------------------------------------------------------------------

\* Types hold, with at most one write under way and nothing traced that was not
\* called (RunArtifactWriter, RecordingMCPClient).
THEOREM ArtifactTypeCorrect == Spec => []TypeOK
<1>1. ASSUME Inv PROVE TypeOK
  <2> DEFINE S == [name : Names, content : Contents]
  <2>1. /\ Input \in S /\ Config \in S /\ Marker \in S /\ Failed \in S
        /\ Result \in S /\ Outcome \in S /\ Write("error", "whole") \in S
    BY DEF Input, Config, Marker, Failed, Result, Outcome, Write, Names, Contents, Statuses
  <2>2. todo \in Seq(S)
    <3>1. \A a \in S, b \in S, c \in S :
             <<>> \in Seq(S) /\ <<a>> \in Seq(S) /\ <<a, b>> \in Seq(S) /\ <<a, b, c>> \in Seq(S)
      OBVIOUS
    <3>2. \/ todo = <<Input, Config, Marker>> \/ todo = <<Config, Marker>> \/ todo = <<Marker>>
          \/ todo = <<Result, Outcome>> \/ todo = <<Outcome>>
          \/ todo = <<Write("error", "whole"), Failed>> \/ todo = <<Failed>> \/ todo = <<>>
      BY <1>1, WritesDiffer DEF Inv, Types, Pcs, StageInv, Idle, Starting, Closed, Marked
    <3> HIDE DEF S
    <3> QED
      BY <2>1, <3>1, <3>2
  <2> QED
    BY <1>1, <2>2 DEF Inv, Types, StageInv, TypeOK
<1> QED
  BY <1>1, InvHolds, PTL

\* A status of completed stands over a whole result that is no error, whenever
\* the process dies (finalize, mark_failed).
THEOREM CompletedWhole == Spec => []CompletedIsWhole
<1>1. Inv => CompletedIsWhole
  BY DEF Inv
<1> QED
  BY <1>1, InvHolds, PTL

\* If the run is a canonical or a log-contact one, it also has every call in its
\* trace (RecordingMCPClient).
THEOREM CompletedTraced == Spec => []CompletedIsTraced
<1>1. Inv => CompletedIsTraced
  BY DEF Inv
<1> QED
  BY <1>1, InvHolds, PTL

\* A run that leaves with an exception is marked failed, with its exception, if
\* files can be written at all (run_artifact).
THEOREM CrashDiagnosed == Spec => []CrashIsDiagnosable
<1>1. Inv => CrashIsDiagnosable
  BY DEF Inv, StageInv, CrashIsDiagnosable
<1> QED
  BY <1>1, InvHolds, PTL
=============================================================================
