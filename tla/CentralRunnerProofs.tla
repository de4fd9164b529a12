------------------------- MODULE CentralRunnerProofs -------------------------
(***************************************************************************)
(* What is proved of the central runner for every budget, limit, margin    *)
(* and thread time: its file is whole and current, a passing loop row      *)
(* follows a passing probe, and the whole run is late by no more than the  *)
(* floors of its tasks and one abandoned thread.                           *)
(***************************************************************************)
EXTENDS CentralRunner, SequenceTheorems, TLAPS

USE CentralAssumption DEF Tasks

\* What task_timeout returns: at least the time a task needs not to start
\* overdue, and an end inside the budget or one floor away.
LEMMA TimeoutBounds ==
    ASSUME NEW limit \in Nat, now \in Nat, deadline \in Deadlines
    PROVE  /\ TaskTimeout(limit) \in Nat
           /\ deadline # NoDeadline =>
                 \/ now + TaskTimeout(limit) <= deadline - Margin
                 \/ now + TaskTimeout(limit) <= now + MinTask
BY SMT DEF TaskTimeout, Min2, Max2

\* The variables that never change.
LEMMA ConfigKept ==
    ASSUME Next
    PROVE  UNCHANGED config
BY DEF Next, Save, WriteTmp, Swap, SaveFails, RunAll, CheckEnv, ReadSettings, MakeClient,
       BuildLlm, RunTask, Start, BodyEnds, CutOff, Interrupt, Main, Shutdown, RecordCrash,
       RecordContract, Tick, config

-----------------------------------------------------------------------------
(* Types.                                                                  *)

LEMMA RecordType ==
    ASSUME TypeOK, NEW t \in Tasks \cup {"env-contract", "runner-crash", "result-contract"},
           NEW passed \in BOOLEAN, Record(t, passed)
    PROVE  /\ rows' \in Seq(Row) /\ Len(rows') = Len(rows) + 1
           /\ phase' \in {"idle", "body", "write", "swap"}
           /\ tmp' \in File /\ disk' \in File
<1> DEFINE row == [task |-> t, passed |-> passed]
<1>1. row \in Row
    BY Zenon DEF Row
<1> HIDE DEF row
<1>2. rows' = Append(rows, row) /\ phase' = "write" /\ tmp' = Torn /\ disk' = disk
    BY DEF Record, BeginSave, row
<1>3. Torn \in File
    BY DEF Torn, File
<1> QED
    BY <1>1, <1>2, <1>3 DEF TypeOK

LEMMA AfterStage ==
    ASSUME NEW p \in Stages, dry \in BOOLEAN
    PROVE  After(p) \subseteq Stages
BY DEF After, Stages

\* TypeOK holds of every reachable state (the variables' types).
THEOREM CentralTypeCorrect == Spec => []TypeOK
<1>1. Init => TypeOK
    <2> SUFFICES ASSUME Init PROVE TypeOK
        OBVIOUS
    <2>1. NoRows \in File
        BY DEF NoRows, File
    <2>2. rows \in Seq(Row) /\ pc \in Stages
        BY DEF Init, Stages
    <2> QED
        BY <2>1, <2>2 DEF Init, TypeOK
<1>2. ASSUME TypeOK, [Next]_vars
      PROVE  TypeOK'
    <2> USE <1>2
    <2>1. CASE Save
        <3>1. CASE WriteTmp
            BY <3>1 DEF WriteTmp, TypeOK, File, config, found, times
        <3>2. CASE Swap
            BY <3>2, AfterStage DEF Swap, TypeOK, config, found, times
        <3>3. CASE SaveFails
            BY <3>3, AfterStage DEF SaveFails, TypeOK, Stages, config, found, times, files
        <3> QED
            BY <2>1, <3>1, <3>2, <3>3 DEF Save
    <2>2. CASE RunAll
        <3>1. CASE CheckEnv
            <4>1. PICK passed \in BOOLEAN : Record("env-contract", passed)
                BY <3>1 DEF CheckEnv
            <4> QED
                BY <3>1, <4>1, RecordType DEF CheckEnv, TypeOK, config, found, times
        <3>2. CASE ReadSettings
            BY <3>2 DEF ReadSettings, TypeOK, Stages, config, found, times, files
        <3>3. CASE MakeClient
            BY <3>3 DEF MakeClient, TypeOK, Stages, config, times, files
        <3>4. CASE BuildLlm
            BY <3>4 DEF BuildLlm, TypeOK, Stages, config, times, files
        <3> QED
            BY <2>2, <3>1, <3>2, <3>3, <3>4 DEF RunAll
    <2>3. ASSUME NEW t \in Tasks, RunTask(t)
          PROVE  TypeOK'
        <3>1. CASE Start(t)
            <4> DEFINE limit == IF CanRun(t) THEN Limit[t] ELSE Skipped
            <4>1. limit \in Nat
                <5>1. Limit[t] \in Nat /\ Skipped \in Nat
                    OBVIOUS
                <5>2. CASE CanRun(t)
                    BY <5>1, <5>2
                <5>3. CASE ~CanRun(t)
                    BY <5>1, <5>3
                <5> QED
                    BY <5>2, <5>3
            <4> HIDE DEF limit
            <4>2. due' = now + TaskTimeout(limit)
                BY <3>1 DEF Start, limit
            <4>3. due' \in Nat
                <5>1. now \in Nat /\ deadline \in Deadlines
                    BY DEF TypeOK
                <5>2. TaskTimeout(limit) \in Nat
                    BY <4>1, <5>1, TimeoutBounds, Zenon
                <5> QED
                    BY <4>2, <5>1, <5>2
            <4>4. /\ phase' = "body"
                  /\ UNCHANGED <<pc, config, found, rows, files, now, threads, crashed, exit>>
                BY <3>1 DEF Start
            <4> QED
                BY <4>3, <4>4 DEF TypeOK, config, found, files
        <3>2. CASE BodyEnds(t)
            <4>1. PICK passed \in BOOLEAN :
                      /\ Record(t, passed)
                      /\ model_ok' = IF t = "model" THEN passed ELSE model_ok
                BY <3>2 DEF BodyEnds
            <4>2. model_ok' \in BOOLEAN
                <5>1. model_ok \in BOOLEAN
                    BY DEF TypeOK
                <5>2. CASE t = "model"
                    BY <4>1, <5>2
                <5>3. CASE t # "model"
                    BY <4>1, <5>1, <5>3
                <5> QED
                    BY <5>2, <5>3
            <4>3. /\ rows' \in Seq(Row)
                  /\ phase' \in {"idle", "body", "write", "swap"}
                  /\ tmp' \in File /\ disk' \in File
                BY <4>1, RecordType
            <4>4. UNCHANGED <<pc, config, client, llm, times, crashed, exit>>
                BY <3>2 DEF BodyEnds
            <4> QED
                BY <4>2, <4>3, <4>4 DEF TypeOK, config, times
        <3>3. CASE CutOff(t)
            <4>0. PICK left \in 0 .. ThreadTime : threads' = Max2(threads, now + left)
                BY <3>3 DEF CutOff, LeavesThread
            <4>1. Record(t, FALSE) /\ threads' \in Nat
                <5>1. now \in Nat /\ threads \in Nat /\ left \in Nat
                    BY DEF TypeOK
                <5>2. threads' \in Nat
                    BY <4>0, <5>1 DEF Max2
                <5> QED
                    BY <3>3, <5>2, Zenon DEF CutOff
            <4>2. /\ rows' \in Seq(Row)
                  /\ phase' \in {"idle", "body", "write", "swap"}
                  /\ tmp' \in File /\ disk' \in File
                BY <4>1, RecordType
            <4>3. UNCHANGED <<pc, config, found, now, due, crashed, exit>>
                BY <3>3 DEF CutOff
            <4> QED
                BY <4>1, <4>2, <4>3 DEF TypeOK, config, found
        <3>4. CASE Interrupt(t)
            <4>1. threads' \in Nat
                BY <3>4 DEF Interrupt, LeavesThread, Max2, TypeOK
            <4> QED
                BY <3>4, <4>1 DEF Interrupt, TypeOK, Stages, config, found, files
        <3> QED
            BY <2>3, <3>1, <3>2, <3>3, <3>4 DEF RunTask
    <2>4. CASE Main
        <3>1. CASE Shutdown
            BY <3>1 DEF Shutdown, TypeOK, Stages, config, found, times, files
        <3>2. CASE RecordCrash
            BY <3>2, RecordType DEF RecordCrash, TypeOK, config, found, times
        <3>3. CASE RecordContract
            <4>1. UniqueIds(rows) \in BOOLEAN
                BY DEF UniqueIds
            <4>2. Record("result-contract", UniqueIds(rows))
                BY <3>3 DEF RecordContract
            <4> HIDE DEF UniqueIds
            <4>3. /\ rows' \in Seq(Row)
                  /\ phase' \in {"idle", "body", "write", "swap"}
                  /\ tmp' \in File /\ disk' \in File
                BY <4>1, <4>2, RecordType
            <4> QED
                BY <3>3, <4>3 DEF RecordContract, TypeOK, config, found, times
        <3> QED
            BY <2>4, <3>1, <3>2, <3>3 DEF Main
    <2>5. CASE Tick
        BY <2>5 DEF Tick, TypeOK, config, found, files
    <2>6. CASE UNCHANGED vars
        BY <2>6 DEF vars, TypeOK, config, found, times, files
    <2> QED
        BY <2>1, <2>2, <2>3, <2>4, <2>5, <2>6 DEF Next
<1> QED
    BY <1>1, <1>2, PTL DEF Spec

-----------------------------------------------------------------------------
(* The file.                                                               *)

\* ReportIsCurrent is not inductive: that the swap keeps the file whole rests
\* on the temp file having been written out, and that a body starts with a
\* current file on a failed save leaving run_all for good.
Ending == {"shutdown", "crash", "contract", "over"}

FileInv ==
    /\ disk.whole
    /\ disk.upto <= Len(rows)
    /\ phase = "swap" => tmp.whole /\ tmp.upto = Len(rows)
    /\ phase \in {"idle", "body"} /\ pc \notin Ending => disk.upto = Len(rows)
    /\ phase = "body" => pc \in Tasks

LEMMA FileKept == Spec => []FileInv
<1>1. Init => FileInv
    BY DEF Init, FileInv, NoRows
<1>2. ASSUME TypeOK, FileInv, [Next]_vars
      PROVE  FileInv'
    <2> USE <1>2
    <2>0. ASSUME NEW t \in Tasks \cup {"env-contract", "runner-crash", "result-contract"},
                 NEW passed \in BOOLEAN, Record(t, passed)
          PROVE  FileInv'
        <3>1. phase' = "write" /\ disk' = disk
            BY <2>0 DEF Record, BeginSave
        <3>2. Len(rows') = Len(rows) + 1
            BY <2>0, RecordType
        <3> QED
            BY <3>1, <3>2 DEF FileInv, TypeOK, File
    <2>1. CASE Save
        <3>1. CASE WriteTmp
            BY <3>1 DEF WriteTmp, FileInv, TypeOK
        <3>2. CASE Swap
            BY <3>2 DEF Swap, FileInv, TypeOK
        <3>3. CASE SaveFails
            <4>1. pc' \in Ending /\ phase' = "idle" /\ UNCHANGED <<rows, disk>>
                BY <3>3 DEF SaveFails, After, Order, Stages, Ending, files
            <4> QED
                BY <4>1 DEF FileInv
        <3> QED
            BY <2>1, <3>1, <3>2, <3>3 DEF Save
    <2>2. CASE RunAll
        <3>1. CASE CheckEnv
            BY <3>1, <2>0 DEF CheckEnv
        <3>2. CASE ReadSettings \/ MakeClient \/ BuildLlm
            <4>1. UNCHANGED <<phase, rows, tmp, disk>> /\ pc \notin Ending /\ pc \notin Tasks
                BY <3>2 DEF ReadSettings, MakeClient, BuildLlm, files, Ending
            <4> QED
                BY <4>1 DEF FileInv
        <3> QED
            BY <2>2, <3>1, <3>2 DEF RunAll
    <2>3. ASSUME NEW t \in Tasks, RunTask(t)
          PROVE  FileInv'
        <3>1. CASE Start(t)
            BY <3>1 DEF Start, FileInv, files, Ending
        <3>2. CASE BodyEnds(t)
            BY <3>2, <2>0 DEF BodyEnds
        <3>3. CASE CutOff(t)
            BY <3>3, <2>0 DEF CutOff
        <3>4. CASE Interrupt(t)
            BY <3>4 DEF Interrupt, FileInv, files, Ending
        <3> QED
            BY <2>3, <3>1, <3>2, <3>3, <3>4 DEF RunTask
    <2>4. CASE Main
        <3>1. CASE Shutdown
            BY <3>1 DEF Shutdown, FileInv, files, Ending
        <3>2. CASE RecordCrash
            BY <3>2, <2>0 DEF RecordCrash
        <3>3. CASE RecordContract
            <4>1. UniqueIds(rows) \in BOOLEAN
                BY DEF UniqueIds
            <4>2. Record("result-contract", UniqueIds(rows))
                BY <3>3 DEF RecordContract
            <4> QED
                BY <4>1, <4>2, <2>0
        <3> QED
            BY <2>4, <3>1, <3>2, <3>3 DEF Main
    <2>5. CASE Tick
        BY <2>5 DEF Tick, FileInv, files
    <2>6. CASE UNCHANGED vars
        BY <2>6 DEF vars, FileInv, files
    <2> QED
        BY <2>1, <2>2, <2>3, <2>4, <2>5, <2>6 DEF Next
<1> QED
    BY <1>1, <1>2, CentralTypeCorrect, PTL DEF Spec

\* results.json is whole at every moment and current while a task runs.
THEOREM ReportCurrent == Spec => []ReportIsCurrent
<1>1. FileInv => ReportIsCurrent
    BY DEF FileInv, ReportIsCurrent, Ending
<1> QED
    BY <1>1, FileKept, PTL
-----------------------------------------------------------------------------
(* The report as the evaluator has it.                                     *)

Broken == crashed \/ exit = "raised"

\* Until something breaks, only a save under way leaves the file behind; what
\* breaks leaves the tasks for good.
ReportInv ==
    /\ FileInv
    /\ Broken => pc \in Ending
    /\ phase \in {"idle", "body"} /\ ~Broken => disk.upto = Len(rows)

LEMMA ReportInvKept == TypeOK /\ ReportInv /\ FileInv' /\ [Next]_vars => ReportInv'
<1> SUFFICES ASSUME TypeOK, ReportInv, FileInv', [Next]_vars PROVE ReportInv'
    OBVIOUS
<1>1. CASE WriteTmp
    BY <1>1 DEF WriteTmp, ReportInv, Broken
<1>2. CASE Swap
    <2>1. pc \in Ending => pc' \in Ending
        BY <1>2 DEF Swap, After, Order, Ending
    <2> QED
        BY <1>2, <2>1 DEF Swap, ReportInv, FileInv, Broken, TypeOK
<1>3. CASE SaveFails
    <2>1. pc' \in Ending /\ Broken'
        BY <1>3 DEF SaveFails, After, Order, Stages, Ending, Broken
    <2> QED
        BY <2>1 DEF ReportInv
<1>4. CASE \E t \in Tasks \cup {"env-contract", "runner-crash", "result-contract"},
              passed \in BOOLEAN : Record(t, passed) /\ UNCHANGED <<pc, crashed, exit>>
    <2>1. phase' = "write" /\ UNCHANGED <<pc, crashed, exit>>
        BY <1>4 DEF Record
    <2> QED
        BY <2>1 DEF ReportInv, Broken
<1>5. CASE \E t \in Tasks : Start(t)
    BY <1>5 DEF Start, ReportInv, Broken, files
<1>6. CASE \E t \in Tasks : Interrupt(t)
    BY <1>6 DEF Interrupt, ReportInv, Broken, Ending
<1>7. CASE ReadSettings \/ MakeClient \/ BuildLlm \/ Shutdown
    BY <1>7 DEF ReadSettings, MakeClient, BuildLlm, Shutdown, ReportInv, Broken, Ending, files
<1>8. CASE Tick \/ UNCHANGED vars
    BY <1>8 DEF Tick, vars, files, ReportInv, Broken
<1>9. CASE CheckEnv \/ RecordCrash \/ RecordContract
    BY <1>4, <1>9 DEF CheckEnv, RecordCrash, RecordContract, UniqueIds
<1>10. CASE \E t \in Tasks : BodyEnds(t) \/ CutOff(t)
    BY <1>4, <1>10 DEF BodyEnds, CutOff
<1> QED
    BY <1>1, <1>2, <1>3, <1>5, <1>6, <1>7, <1>8, <1>9, <1>10
    DEF Next, Save, RunAll, RunTask, Main

\* A row that joins the list leaves what is shown as it was.
LEMMA ShownKept ==
    ASSUME TypeOK, FileInv, NEW row \in Row, rows' = Append(rows, row), disk' = disk
    PROVE  Shown' = Shown
<1>1. disk.upto \in 0 .. Len(rows) /\ rows \in Seq(Row)
    BY DEF TypeOK, FileInv, File
<1>2. SubSeq(rows', 1, disk.upto) = SubSeq(rows, 1, disk.upto)
    BY <1>1
<1> QED
    BY <1>2 DEF Shown

LEMMA ShownWhole ==
    ASSUME TypeOK, FileInv, disk.upto = Len(rows)
    PROVE  Shown = Report!Showing(rows)
<1>1. SubSeq(rows, 1, Len(rows)) = rows
    BY DEF TypeOK
<1> QED
    BY <1>1 DEF Shown, Report!Showing, FileInv

\* A row is recorded: the report's Add.
LEMMA RecordAdds ==
    ASSUME TypeOK, ReportInv, phase \in {"idle", "body"},
           NEW t \in Tasks \cup {"env-contract", "runner-crash", "result-contract"},
           NEW passed \in BOOLEAN, Record(t, passed), UNCHANGED <<crashed, exit>>
    PROVE  Report!Add
<1> DEFINE row == [task |-> t, passed |-> passed]
<1>1. row \in Row
    BY Zenon DEF Row
<1>2. rows' = Append(rows, row) /\ phase' = "write" /\ disk' = disk
    BY DEF Record, BeginSave
<1> HIDE DEF row
<1>3. Shown' = Shown
    BY <1>1, <1>2, ShownKept DEF ReportInv
<1>4. Shown = Report!Showing(rows) \/ Broken
    BY ShownWhole DEF ReportInv
<1> QED
    BY <1>1, <1>2, <1>3, <1>4 DEF Report!Add, Report!Current, Broken

\* Every step of the runner is one of the report's, or none.
LEMMA ReportStep ==
    ASSUME TypeOK, ReportInv, [Next]_vars
    PROVE  [Report!Step]_(Report!reportVars)
<1>0. ASSUME UNCHANGED <<rows, disk, crashed, exit>>, (phase' = "body") <=> (phase = "body")
      PROVE  UNCHANGED Report!reportVars
    <2>1. Shown' = Shown
        BY <1>0 DEF Shown
    <2>2. (phase' = "body") = (phase = "body")
        BY <1>0
    <2> QED
        BY <1>0, <2>1, <2>2 DEF Report!reportVars
<1>b. ASSUME Broken', phase' # "body", UNCHANGED <<rows, disk>> PROVE Report!Break
    BY <1>b DEF Report!Break, Broken, Shown
<1>1. CASE WriteTmp
    BY <1>0, <1>1 DEF WriteTmp
<1>2. CASE Swap
    <2>1. disk' = tmp /\ tmp.whole /\ tmp.upto = Len(rows) /\ phase = "swap" /\ phase' = "idle"
          /\ UNCHANGED <<rows, crashed, exit>>
        BY <1>2 DEF Swap, ReportInv, FileInv
    <2>2. SubSeq(rows, 1, Len(rows)) = rows
        BY DEF TypeOK
    <2>3. Shown' = Report!Showing(rows)
        <3>1. Shown' = [whole |-> tmp.whole, rows |-> SubSeq(rows, 1, tmp.upto)]
            BY <2>1 DEF Shown
        <3>2. tmp.whole = TRUE
            BY <2>1 DEF TypeOK, File
        <3> QED
            BY <2>1, <2>2, <3>1, <3>2 DEF Report!Showing
    <2> QED
        BY <2>1, <2>3 DEF Report!Publish, Report!Step
<1>3. CASE SaveFails
    <2>1. Broken' /\ phase' # "body" /\ UNCHANGED <<rows, disk>>
        BY <1>3 DEF SaveFails, Broken, files
    <2> QED
        BY <1>b, <2>1 DEF Report!Step
<1>4. CASE CheckEnv \/ RecordCrash \/ RecordContract
    <2>1. PICK t \in {"env-contract", "runner-crash", "result-contract"}, passed \in BOOLEAN :
              Record(t, passed)
        BY <1>4 DEF CheckEnv, RecordCrash, RecordContract, UniqueIds
    <2>2. phase = "idle" /\ UNCHANGED <<crashed, exit>>
        BY <1>4 DEF CheckEnv, RecordCrash, RecordContract
    <2> QED
        BY <2>1, <2>2, RecordAdds DEF Report!Step
<1>5. CASE \E t \in Tasks : BodyEnds(t) \/ CutOff(t)
    <2>1. PICK t \in Tasks, passed \in BOOLEAN : Record(t, passed)
        BY <1>5 DEF BodyEnds, CutOff
    <2>2. phase = "body" /\ UNCHANGED <<crashed, exit>>
        BY <1>5 DEF BodyEnds, CutOff
    <2> QED
        BY <2>1, <2>2, RecordAdds DEF Report!Step
<1>6. CASE \E t \in Tasks : Start(t)
    <2>1. phase = "idle" /\ phase' = "body" /\ pc \notin Ending
          /\ UNCHANGED <<rows, disk, crashed, exit>>
        BY <1>6 DEF Start, files, Ending
    <2>2. Shown = Report!Showing(rows) /\ ~Broken
        BY <2>1, ShownWhole DEF ReportInv
    <2>3. Shown' = Shown
        BY <2>1 DEF Shown
    <2> QED
        BY <2>1, <2>2, <2>3 DEF Report!BeginTask, Report!Current, Report!Step, Broken
<1>7. CASE \E t \in Tasks : Interrupt(t)
    <2>1. Broken' /\ phase' # "body" /\ UNCHANGED <<rows, disk>>
        BY <1>7 DEF Interrupt, Broken, files
    <2> QED
        BY <1>b, <2>1 DEF Report!Step
<1>8. CASE ReadSettings
    <2>0. UNCHANGED <<phase, rows, disk, exit>> /\ pc \notin Ending /\ pc \notin Tasks
        BY <1>8 DEF ReadSettings, files, Ending
    <2>1. CASE crashed' = crashed
        BY <1>0, <2>0, <2>1
    <2>2. CASE crashed' = TRUE
        BY <1>b, <2>0, <2>2 DEF Report!Step, Broken, ReportInv, FileInv
    <2> QED
        BY <1>8, <2>1, <2>2 DEF ReadSettings
<1>9. CASE MakeClient \/ BuildLlm \/ Shutdown \/ Tick \/ UNCHANGED vars
    BY <1>0, <1>9 DEF MakeClient, BuildLlm, Shutdown, Tick, vars, files
<1> QED
    BY <1>1, <1>2, <1>3, <1>4, <1>5, <1>6, <1>7, <1>8, <1>9
    DEF Next, Save, RunAll, RunTask, Main

\* The runner keeps its report as ReportFile promises: what the evaluator finds
\* is whole, a row behind at most, and current while a task runs (Results).
THEOREM ReportKept == Spec => KeepsReport
<1>1. Init => ReportInv /\ Report!Start
    <2>1. ASSUME Init PROVE ReportInv /\ Report!Start
        <3>1. /\ rows = <<>> /\ disk.whole = TRUE /\ disk.upto = 0
              /\ phase = "idle" /\ ~Broken
            BY <2>1 DEF Init, NoRows, Broken
        <3>2. Shown = Report!Showing(<<>>)
            <4>1. SubSeq(rows, 1, 0) = <<>>
                BY <3>1
            <4> QED
                BY <3>1, <4>1 DEF Shown, Report!Showing
        <3> QED
            BY <3>1, <3>2 DEF ReportInv, FileInv, Report!Start, Broken
    <2> QED
        BY <2>1
<1>2. Spec => []FileInv
    BY FileKept
<1>3. Spec => []ReportInv
    BY <1>1, <1>2, ReportInvKept, CentralTypeCorrect, PTL DEF Spec
<1>4. TypeOK /\ ReportInv /\ [Next]_vars => [Report!Step]_(Report!reportVars)
    BY ReportStep
<1> QED
    BY <1>1, <1>3, <1>4, CentralTypeCorrect, PTL DEF Spec, KeepsReport, Report!Spec
-----------------------------------------------------------------------------
(* The probe.                                                              *)

Probed == \E j \in DOMAIN rows : rows[j].task = "model" /\ rows[j].passed

ProbeInv ==
    /\ LoopNeedsProbe
    /\ model_ok => Probed

LEMMA Appended ==
    ASSUME TypeOK, NEW t \in Tasks \cup {"env-contract", "runner-crash", "result-contract"},
           NEW passed \in BOOLEAN, Record(t, passed)
    PROVE  /\ DOMAIN rows = 1 .. Len(rows) /\ DOMAIN rows' = 1 .. Len(rows) + 1
           /\ Len(rows) \in Nat
           /\ \A i \in 1 .. Len(rows) : rows'[i] = rows[i]
           /\ rows'[Len(rows) + 1].task = t
           /\ rows'[Len(rows) + 1].passed = passed
<1> DEFINE row == [task |-> t, passed |-> passed]
<1>1. row \in Row
    BY Zenon DEF Row
<1>2. row.task = t /\ row.passed = passed
    OBVIOUS
<1>3. rows' = Append(rows, row)
    BY DEF Record
<1> HIDE DEF row
<1>4. rows \in Seq(Row)
    BY DEF TypeOK
<1>5. /\ DOMAIN rows = 1 .. Len(rows) /\ DOMAIN rows' = 1 .. Len(rows) + 1
      /\ Len(rows) \in Nat
      /\ \A i \in 1 .. Len(rows) : rows'[i] = rows[i]
      /\ rows'[Len(rows) + 1] = row
    BY <1>1, <1>3, <1>4
<1> QED
    BY <1>2, <1>5, Zenon

\* A row that joins the list keeps what was said of the earlier ones, if a
\* passing loop row joins only after a passing probe.
LEMMA RecordKeepsProbe ==
    ASSUME TypeOK, ProbeInv,
           NEW t \in Tasks \cup {"env-contract", "runner-crash", "result-contract"},
           NEW passed \in BOOLEAN, Record(t, passed),
           t = "loop" /\ passed => model_ok
    PROVE  /\ LoopNeedsProbe'
           /\ Probed => Probed'
           /\ t = "model" /\ passed => Probed'
<1> USE Appended
<1>1. ASSUME NEW i \in DOMAIN rows', rows'[i].task = "loop" /\ rows'[i].passed
      PROVE  \E j \in 1 .. i - 1 : rows'[j].task = "model" /\ rows'[j].passed
    <2>1. CASE i \in 1 .. Len(rows)
        <3>1. rows[i].task = "loop" /\ rows[i].passed
            BY <1>1, <2>1, Zenon
        <3>2. PICK j \in 1 .. i - 1 : rows[j].task = "model" /\ rows[j].passed
            BY <3>1, <2>1 DEF ProbeInv, LoopNeedsProbe
        <3>3. j \in 1 .. Len(rows)
            BY <2>1
        <3> QED
            BY <3>2, <3>3, Zenon
    <2>2. CASE i = Len(rows) + 1
        <3>1. model_ok
            BY <1>1, <2>2, Zenon
        <3>2. PICK j \in 1 .. Len(rows) : rows[j].task = "model" /\ rows[j].passed
            BY <3>1 DEF ProbeInv, Probed
        <3>3. rows'[j].task = "model" /\ rows'[j].passed
            BY <3>2, Zenon
        <3>4. j \in 1 .. i - 1
            BY <2>2
        <3> QED
            BY <3>3, <3>4, Zenon
    <2> QED
        BY <1>1, <2>1, <2>2
<1>2. ASSUME Probed
      PROVE  Probed'
    <2>1. PICK j \in 1 .. Len(rows) : rows[j].task = "model" /\ rows[j].passed
        BY <1>2, Zenon DEF Probed
    <2>2. rows'[j].task = "model" /\ rows'[j].passed
        BY <2>1, Zenon
    <2>3. j \in DOMAIN rows'
        OBVIOUS
    <2> QED
        BY <2>2, <2>3, Zenon DEF Probed
<1>3. ASSUME t = "model" /\ passed
      PROVE  Probed'
    <2>1. Len(rows) + 1 \in DOMAIN rows'
        OBVIOUS
    <2>2. rows'[Len(rows) + 1].task = "model" /\ rows'[Len(rows) + 1].passed
        BY <1>3, Zenon
    <2> QED
        BY <2>1, <2>2, Zenon DEF Probed
<1> QED
    BY <1>1, <1>2, <1>3, Zenon DEF LoopNeedsProbe

\* A passing loop row follows a passing probe.
THEOREM LoopProbed == Spec => []LoopNeedsProbe
<1>1. Init => ProbeInv
    BY DEF Init, ProbeInv, LoopNeedsProbe
<1>2. ASSUME TypeOK, ProbeInv, [Next]_vars
      PROVE  ProbeInv'
    <2> USE <1>2
    <2>0. ASSUME UNCHANGED <<rows, model_ok>>
          PROVE  ProbeInv'
        BY <2>0, Zenon DEF ProbeInv, LoopNeedsProbe, Probed
    <2>1. ASSUME NEW t \in {"env-contract", "runner-crash", "result-contract"},
                 NEW passed \in BOOLEAN, Record(t, passed), UNCHANGED model_ok
          PROVE  ProbeInv'
        BY <2>1, RecordKeepsProbe, Zenon DEF ProbeInv
    <2>2. CASE Save
        BY <2>2, <2>0 DEF Save, WriteTmp, Swap, SaveFails, found
    <2>3. CASE RunAll
        <3>1. CASE CheckEnv
            BY <3>1, <2>1 DEF CheckEnv, found
        <3>2. CASE ReadSettings \/ MakeClient \/ BuildLlm
            BY <3>2, <2>0 DEF ReadSettings, MakeClient, BuildLlm, found
        <3> QED
            BY <2>3, <3>1, <3>2 DEF RunAll
    <2>4. ASSUME NEW t \in Tasks, RunTask(t)
          PROVE  ProbeInv'
        <3>1. CASE Start(t)
            BY <3>1, <2>0 DEF Start, found
        <3>2. CASE BodyEnds(t)
            <4>1. PICK passed \in BOOLEAN :
                      /\ passed => CanRun(t)
                      /\ Record(t, passed)
                      /\ model_ok' = IF t = "model" THEN passed ELSE model_ok
                BY <3>2 DEF BodyEnds
            <4>2. t = "loop" /\ passed => model_ok
                BY <4>1, Zenon DEF CanRun
            <4>3. /\ LoopNeedsProbe'
                  /\ Probed => Probed'
                  /\ t = "model" /\ passed => Probed'
                BY <4>1, <4>2, RecordKeepsProbe, Zenon
            <4> QED
                BY <4>1, <4>3, Zenon DEF ProbeInv
        <3>3. CASE CutOff(t)
            <4>1. Record(t, FALSE) /\ UNCHANGED model_ok
                BY <3>3 DEF CutOff, found
            <4>2. LoopNeedsProbe' /\ (Probed => Probed')
                BY <4>1, RecordKeepsProbe, Zenon
            <4> QED
                BY <4>1, <4>2, Zenon DEF ProbeInv
        <3>4. CASE Interrupt(t)
            BY <3>4, <2>0 DEF Interrupt, found
        <3> QED
            BY <2>4, <3>1, <3>2, <3>3, <3>4 DEF RunTask
    <2>5. CASE Main
        <3>1. CASE Shutdown
            BY <3>1, <2>0 DEF Shutdown, found
        <3>2. CASE RecordCrash
            BY <3>2, <2>1 DEF RecordCrash, found
        <3>3. CASE RecordContract
            <4>1. UniqueIds(rows) \in BOOLEAN
                BY DEF UniqueIds
            <4>2. Record("result-contract", UniqueIds(rows)) /\ UNCHANGED model_ok
                BY <3>3 DEF RecordContract, found
            <4> QED
                BY <4>1, <4>2, <2>1
        <3> QED
            BY <2>5, <3>1, <3>2, <3>3 DEF Main
    <2>6. CASE Tick \/ UNCHANGED vars
        BY <2>6, <2>0 DEF Tick, vars, found
    <2> QED
        BY <2>2, <2>3, <2>4, <2>5, <2>6 DEF Next
<1>3. ProbeInv => LoopNeedsProbe
    BY DEF ProbeInv
<1> QED
    BY <1>1, <1>2, <1>3, CentralTypeCorrect, PTL DEF Spec

-----------------------------------------------------------------------------
(* Time.                                                                   *)

\* LatenessBounded is not inductive either: it needs to know how many of the
\* five tasks may already have spent their floor.
Base == Max2(0, deadline - Margin)

\* Position of each stage among the five tasks: how many may have run.
Begun ==
    IF pc \in {"env", "settings", "client"} \/ (pc = "preflight" /\ phase = "idle") THEN 0
    ELSE IF pc = "preflight" \/ (pc = "canonical" /\ phase = "idle") THEN 1
    ELSE IF pc = "canonical" \/ (pc = "refusal" /\ phase = "idle") THEN 2
    ELSE IF pc \in {"refusal", "llm"} \/ (pc = "model" /\ phase = "idle") THEN 3
    ELSE IF pc = "model" \/ (pc = "loop" /\ phase = "idle") THEN 4
    ELSE 5

Floors(n) == n * MinTask

TimeInv ==
    deadline # NoDeadline =>
        /\ phase = "body" => pc \in Tasks /\ now <= due /\ due <= Base + Floors(Begun)
        /\ pc \notin Ending => now <= Base + Floors(Begun)
        /\ now <= Base + Floors(5) + ThreadTime
        /\ threads <= Base + Floors(5) + ThreadTime

\* The stages between tasks record nothing.
Quiet == pc \in {"settings", "client", "llm"} => phase = "idle"

LEMMA StaysQuiet == Spec => []Quiet
<1>1. Init => Quiet
    BY DEF Init, Quiet
<1>2. ASSUME Quiet, [Next]_vars
      PROVE  Quiet'
    <2> USE <1>2 DEF Quiet
    <2>1. CASE Save
        BY <2>1 DEF Save, WriteTmp, Swap, SaveFails, After, Order
    <2>2. CASE RunAll
        BY <2>2 DEF RunAll, CheckEnv, ReadSettings, MakeClient, BuildLlm
    <2>3. ASSUME NEW t \in Tasks, RunTask(t)
          PROVE  Quiet'
        BY <2>3 DEF RunTask, Start, BodyEnds, CutOff, Interrupt
    <2>4. CASE Main
        BY <2>4 DEF Main, Shutdown, RecordCrash, RecordContract
    <2>5. CASE Tick \/ UNCHANGED vars
        BY <2>5 DEF Tick, vars
    <2> QED
        BY <2>1, <2>2, <2>3, <2>4, <2>5 DEF Next
<1> QED
    BY <1>1, <1>2, PTL DEF Spec

LEMMA FloorFacts ==
    /\ \A n \in 0 .. 5 : Floors(n) \in Nat /\ Floors(n) <= Floors(5)
    /\ \A n \in 0 .. 4 : Floors(n + 1) = Floors(n) + MinTask
    /\ Floors(5) = 5 * MinTask
<1>1. Floors(0) = 0 /\ Floors(1) = MinTask /\ Floors(2) = 2 * MinTask
      /\ Floors(3) = 3 * MinTask /\ Floors(4) = 4 * MinTask /\ Floors(5) = 5 * MinTask
    BY DEF Floors
<1>2. \A n \in 0 .. 5 : n = 0 \/ n = 1 \/ n = 2 \/ n = 3 \/ n = 4 \/ n = 5
    OBVIOUS
<1>3. \A n \in 0 .. 5 : Floors(n) \in Nat /\ Floors(n) <= Floors(5)
    BY <1>1, <1>2
<1>4. \A n \in 0 .. 4 : Floors(n + 1) = Floors(n) + MinTask
    BY <1>1, <1>2
<1> QED
    BY <1>1, <1>3, <1>4

LEMMA BaseFacts ==
    ASSUME deadline \in Deadlines, deadline # NoDeadline
    PROVE  Base \in Nat /\ deadline - Margin <= Base
BY DEF Base, Max2

LEMMA BegunType ==
    ASSUME TypeOK
    PROVE  Begun \in 0 .. 5
BY DEF Begun

\* A task that starts is one more of the five.
LEMMA StartCounts ==
    ASSUME NEW t \in Tasks, pc = t, phase = "idle", pc' = pc, phase' = "body"
    PROVE  Begun \in 0 .. 4 /\ Begun' = Begun + 1
BY DEF Begun

\* A stage that ends passes the count on to the stage that follows it.
LEMMA SwapCounts ==
    ASSUME phase = "swap", phase' = "idle", pc' \in After(pc), pc' \notin Ending
    PROVE  Begun' = Begun /\ pc \notin Ending
BY DEF Begun, After, Order, Stages, Ending

\* The run as a whole is late by five floors and one thread at most.
THEOREM LatenessIsBounded == Spec => []LatenessBounded
<1>1. Init => TimeInv
    <2> SUFFICES ASSUME Init, deadline # NoDeadline PROVE TimeInv
        BY DEF TimeInv
    <2>1. Base \in Nat /\ Floors(5) \in Nat /\ Begun = 0 /\ Floors(0) \in Nat
        BY BaseFacts, FloorFacts DEF Init, Begun
    <2> QED
        BY <2>1 DEF Init, TimeInv
<1>2. ASSUME TypeOK, Quiet, TimeInv, [Next]_vars
      PROVE  TimeInv'
    <2> USE <1>2
    <2> SUFFICES ASSUME deadline' # NoDeadline
                 PROVE  TimeInv'
        BY DEF TimeInv
    <2>a. deadline' = deadline /\ Base' = Base
        <3>1. CASE Next
            BY <3>1, ConfigKept DEF config, Base
        <3>2. CASE UNCHANGED vars
            BY <3>2 DEF vars, config, Base
        <3> QED
            BY <3>1, <3>2
    <2>b. /\ Base \in Nat /\ deadline - Margin <= Base /\ deadline # NoDeadline
          /\ now \in Nat /\ due \in Nat /\ threads \in Nat
        BY <2>a, BaseFacts DEF TypeOK
    <2>c. Begun \in 0 .. 5 /\ Floors(Begun) \in Nat /\ Floors(5) \in Nat
          /\ Floors(Begun) <= Floors(5)
        BY BegunType, FloorFacts
    <2>d. /\ phase = "body" => pc \in Tasks /\ now <= due /\ due <= Base + Floors(Begun)
          /\ pc \notin Ending => now <= Base + Floors(Begun)
          /\ now <= Base + Floors(5) + ThreadTime
          /\ threads <= Base + Floors(5) + ThreadTime
        BY <2>b DEF TimeInv
    <2>0. ASSUME phase' # "body", now' = now, threads' = threads,
                 pc' \in Ending \/ (pc \notin Ending /\ Begun' = Begun)
          PROVE  TimeInv'
        BY <2>0, <2>a, <2>b, <2>c, <2>d DEF TimeInv
    <2>1. CASE Save
        <3>1. CASE WriteTmp
            <4>1. phase' = "swap" /\ phase = "write" /\ pc' = pc /\ UNCHANGED times
                BY <3>1 DEF WriteTmp
            <4>2. Begun' = Begun
                BY <4>1 DEF Begun
            <4> QED
                BY <4>1, <4>2, <2>0 DEF times
        <3>2. CASE Swap
            <4>1. phase' = "idle" /\ phase = "swap" /\ pc' \in After(pc) /\ UNCHANGED times
                BY <3>2 DEF Swap
            <4> QED
                BY <4>1, <2>0, SwapCounts DEF times
        <3>3. CASE SaveFails
            <4>1. pc' \in Ending /\ phase' = "idle" /\ UNCHANGED times
                BY <3>3 DEF SaveFails, After, Order, Stages, Ending
            <4> QED
                BY <4>1, <2>0 DEF times
        <3> QED
            BY <2>1, <3>1, <3>2, <3>3 DEF Save
    <2>2. CASE RunAll
        <3>1. CASE CheckEnv
            <4>1. phase' = "write" /\ pc = "env" /\ pc' = pc /\ UNCHANGED times
                BY <3>1 DEF CheckEnv, Record
            <4> QED
                BY <4>1, <2>0 DEF times, Begun, Ending
        <3>2. CASE ReadSettings \/ MakeClient \/ BuildLlm
            <4>1. CASE phase = "body"
                BY <4>1, <2>d, <3>2 DEF ReadSettings, MakeClient, BuildLlm
            <4>2. CASE phase # "body"
                <5>1. phase' = phase /\ UNCHANGED times
                    BY <3>2 DEF ReadSettings, MakeClient, BuildLlm
                <5>2. \/ pc' = "shutdown"
                      \/ pc = "settings" /\ pc' = "client"
                      \/ pc = "client" /\ pc' = "preflight"
                      \/ pc = "llm" /\ pc' = "model"
                    BY <3>2 DEF ReadSettings, MakeClient, BuildLlm
                <5>3. pc' \in Ending \/ (pc \notin Ending /\ Begun' = Begun)
                    BY <4>2, <5>1, <5>2 DEF Begun, Ending, Quiet
                <5>4. phase' # "body" /\ now' = now /\ threads' = threads
                    BY <4>2, <5>1 DEF times
                <5> QED
                    BY <5>3, <5>4, <2>0, Zenon
            <4> QED
                BY <4>1, <4>2
        <3> QED
            BY <2>2, <3>1, <3>2 DEF RunAll
    <2>3. ASSUME NEW t \in Tasks, RunTask(t)
          PROVE  TimeInv'
        <3>1. CASE Start(t)
            <4> DEFINE limit == IF CanRun(t) THEN Limit[t] ELSE Skipped
            <4>1. limit \in Nat
                <5>1. Limit[t] \in Nat /\ Skipped \in Nat
                    OBVIOUS
                <5>2. CASE CanRun(t)
                    BY <5>1, <5>2
                <5>3. CASE ~CanRun(t)
                    BY <5>1, <5>3
                <5> QED
                    BY <5>2, <5>3
            <4>2. due' = now + TaskTimeout(limit)
                BY <3>1 DEF Start
            <4> HIDE DEF limit
            <4>3. /\ pc = t /\ phase = "idle" /\ phase' = "body"
                  /\ UNCHANGED <<pc, now, threads>>
                BY <3>1 DEF Start
            <4>4. TaskTimeout(limit) \in Nat
                  /\ \/ now + TaskTimeout(limit) <= deadline - Margin
                     \/ now + TaskTimeout(limit) <= now + MinTask
                <5>1. deadline \in Deadlines /\ now \in Nat /\ deadline # NoDeadline
                    BY <2>b DEF TypeOK
                <5>2. /\ TaskTimeout(limit) \in Nat
                      /\ deadline # NoDeadline =>
                            \/ now + TaskTimeout(limit) <= deadline - Margin
                            \/ now + TaskTimeout(limit) <= now + MinTask
                    BY <4>1, <5>1, TimeoutBounds, Zenon
                <5> QED
                    BY <5>1, <5>2, Zenon
            <4>5. Begun \in 0 .. 4 /\ Begun' = Begun + 1
                BY <4>3, StartCounts
            <4>6. Floors(Begun') = Floors(Begun) + MinTask
                BY <4>5, FloorFacts
            <4>7. pc \notin Ending
                BY <4>3 DEF Ending
            <4>8. now <= due' /\ due' <= Base + Floors(Begun')
                <5> HIDE DEF Begun, Floors
                <5>1. deadline \in Int
                    BY <2>b DEF TypeOK
                <5> QED
                    BY <4>2, <4>4, <4>6, <4>7, <5>1, <2>b, <2>c, <2>d
            <4> QED
                BY <4>3, <4>6, <4>7, <4>8, <2>a, <2>b, <2>c, <2>d DEF TimeInv
        <3>2. CASE BodyEnds(t)
            <4>1. phase = "body" /\ phase' = "write" /\ pc' = pc /\ UNCHANGED times /\ pc = t
                BY <3>2 DEF BodyEnds, Record
            <4>2. Begun' = Begun /\ pc \notin Ending
                BY <4>1 DEF Begun, Ending
            <4> QED
                BY <4>1, <4>2, <2>0 DEF times
        <3>3. CASE CutOff(t) \/ Interrupt(t)
            <4>1. PICK left \in 0 .. ThreadTime : threads' = Max2(threads, now + left)
                BY <3>3 DEF CutOff, Interrupt, LeavesThread
            <4>2. /\ phase = "body" /\ phase' # "body" /\ now' = now
                  /\ pc = t /\ (pc' = pc \/ pc' = "shutdown")
                  /\ pc' = pc => phase' = "write"
                BY <3>3 DEF CutOff, Interrupt, Record, Ending
            <4>3. pc' \in Ending \/ Begun' = Begun
                BY <4>2 DEF Begun, Ending
            <4>4. pc \notin Ending
                BY <4>2 DEF Ending
            <4>5. threads' <= Base + Floors(5) + ThreadTime
                BY <4>1, <4>4, <2>b, <2>c, <2>d DEF Max2
            <4> QED
                BY <4>2, <4>3, <4>4, <4>5, <2>a, <2>b, <2>c, <2>d DEF TimeInv
        <3> QED
            BY <2>3, <3>1, <3>2, <3>3 DEF RunTask
    <2>4. CASE Main
        <4>1. pc' \in Ending /\ UNCHANGED times /\ (phase' = phase \/ phase' = "write")
              /\ pc \in Ending
            BY <2>4 DEF Main, Shutdown, RecordCrash, RecordContract, Record, Ending
        <4>2. phase # "body"
            BY <4>1, <2>d DEF Ending
        <4> QED
            BY <4>1, <4>2, <2>0 DEF times
    <2>5. CASE Tick
        <3>1. /\ now' = now + 1
              /\ UNCHANGED <<pc, phase, due, threads>>
              /\ (phase = "body" /\ now < due) \/ (pc = "shutdown" /\ now < threads)
            BY <2>5 DEF Tick
        <3>2. Begun' = Begun
            BY <3>1 DEF Begun
        <3>3. pc = "shutdown" => pc \in Ending /\ pc \notin Tasks
            BY DEF Ending
        <3> QED
            BY <3>1, <3>2, <3>3, <2>a, <2>b, <2>c, <2>d DEF TimeInv
    <2>6. CASE UNCHANGED vars
        <3>1. UNCHANGED <<pc, phase, now, due, threads>>
            BY <2>6 DEF vars, times
        <3>2. Begun' = Begun
            BY <3>1 DEF Begun
        <3> QED
            BY <3>1, <3>2, <2>a, <2>b, <2>d DEF TimeInv
    <2> QED
        BY <2>1, <2>2, <2>3, <2>4, <2>5, <2>6 DEF Next
<1>3. TimeInv => LatenessBounded
    BY FloorFacts DEF TimeInv, LatenessBounded, Base
<1> QED
    BY <1>1, <1>2, <1>3, CentralTypeCorrect, StaysQuiet, PTL DEF Spec

-----------------------------------------------------------------------------
(* The rows.                                                               *)

\* How many rows a run records before the tasks' own, and before main's.
EnvRows == IF dry THEN 0 ELSE 1
TaskRows == IF dry THEN 3 ELSE 6

\* How many rows an undisturbed run has recorded when it comes to a stage.
RowsBefore(p) ==
    IF p = "env" THEN 0
    ELSE IF p \in {"settings", "client", "preflight"} THEN EnvRows
    ELSE IF p = "canonical" THEN EnvRows + 1
    ELSE IF p = "refusal" THEN EnvRows + 2
    ELSE IF p \in {"llm", "model"} THEN 4
    ELSE IF p = "loop" THEN 5
    ELSE TaskRows

Saving == phase \in {"write", "swap"}
OwnRow == IF Saving /\ pc \notin {"crash", "contract"} THEN 1 ELSE 0

\* Whether the crash row and the contract row are in the list.
CrashRow == IF crashed /\ (pc \in {"contract", "over"} \/ (pc = "crash" /\ Saving)) THEN 1 ELSE 0
ContractRow == IF pc = "over" \/ (pc = "contract" /\ Saving) THEN 1 ELSE 0

\* A list of n expected rows, and of main's two rows those that it has.
Filled(list, n, crash, contract) ==
    /\ Len(list) = n + crash + contract
    /\ \A i \in 1 .. n : list[i].task = Expected[i]
    /\ crash = 1 => list[n + 1].task = "runner-crash"
    /\ contract = 1 => list[n + crash + 1].task = "result-contract"

StageInv ==
    /\ crashed => pc \in Ending
    /\ pc = "crash" => crashed
    /\ pc \in {"env", "llm", "model", "loop"} => ~dry
    /\ phase # "idle" => pc \in Tasks \cup {"env", "crash", "contract"}

RowsInv ==
    \E n \in 0 .. TaskRows :
        /\ Filled(rows, n, CrashRow, ContractRow)
        /\ ~crashed => n = RowsBefore(pc) + OwnRow

\* The row of a stage is the one expected after those recorded before it.
LEMMA OwnRowExpected ==
    ASSUME TypeOK, NEW p \in Tasks \cup {"env"}, p \in {"env", "model", "loop"} => ~dry
    PROVE  /\ RowsBefore(p) + 1 \in 1 .. TaskRows
           /\ Expected[RowsBefore(p) + 1] = IF p = "env" THEN "env-contract" ELSE p
<1>1. CASE dry
    BY <1>1 DEF Expected, RowsBefore, EnvRows, TaskRows
<1>2. CASE ~dry
    BY <1>2 DEF Expected, RowsBefore, EnvRows, TaskRows
<1> QED
    BY <1>1, <1>2

LEMMA StagesHold == Spec => []StageInv
<1>1. Init => StageInv
    BY DEF Init, StageInv
<1>2. ASSUME TypeOK, StageInv, [Next]_vars
      PROVE  StageInv'
    <2> USE <1>2 DEF StageInv, Ending
    <2>1. CASE WriteTmp
        BY <2>1 DEF WriteTmp, config, Save
    <2>2. CASE Swap
        <3>1. /\ phase' = "idle" /\ pc' \in Stages /\ <<pc, pc'>> \in Order
              /\ UNCHANGED <<dry, crashed>> /\ phase # "idle"
            BY <2>2 DEF Swap, After, config
        <3>2. CASE dry
            BY <3>1, <3>2 DEF Order
        <3>3. CASE ~dry
            BY <3>1, <3>3 DEF Order
        <3> QED
            BY <3>2, <3>3
    <2>3. CASE SaveFails
        <3>1. /\ phase' = "idle" /\ UNCHANGED dry
              /\ \/ pc' = "shutdown" /\ crashed' = TRUE
                 \/ pc \in {"crash", "contract"} /\ <<pc, pc'>> \in Order /\ UNCHANGED crashed
            BY <2>3 DEF SaveFails, After, config
        <3>2. pc \in {"crash", "contract"} /\ <<pc, pc'>> \in Order => pc' \in {"contract", "over"}
            BY DEF Order
        <3> QED
            BY <3>1, <3>2
    <2>4. CASE RunAll
        BY <2>4 DEF RunAll, CheckEnv, ReadSettings, MakeClient, BuildLlm, Record, config
    <2>5. ASSUME NEW t \in Tasks, RunTask(t)
          PROVE  StageInv'
        BY <2>5 DEF RunTask, Start, BodyEnds, CutOff, Interrupt, Record, config
    <2>6. CASE Main
        BY <2>6 DEF Main, Shutdown, RecordCrash, RecordContract, Record, config
    <2>7. CASE Tick \/ UNCHANGED vars
        BY <2>7 DEF Tick, vars, config
    <2> QED
        BY <2>1, <2>2, <2>3, <2>4, <2>5, <2>6, <2>7 DEF Next, Save
<1> QED
    BY <1>1, <1>2, CentralTypeCorrect, PTL DEF Spec

LEMMA RowsKept ==
    ASSUME RowsInv, UNCHANGED <<rows, dry>>, CrashRow' = CrashRow, ContractRow' = ContractRow,
           crashed' \/ (~crashed /\ RowsBefore(pc)' + OwnRow' = RowsBefore(pc) + OwnRow)
    PROVE  RowsInv'
<1>1. PICK n \in 0 .. TaskRows :
          /\ Filled(rows, n, CrashRow, ContractRow)
          /\ ~crashed => n = RowsBefore(pc) + OwnRow
    BY DEF RowsInv
<1>2. TaskRows' = TaskRows /\ Expected' = Expected
    BY DEF TaskRows, Expected
<1>3. Filled(rows, n, CrashRow, ContractRow)'
    BY <1>1, <1>2, Zenon DEF Filled
<1>4. crashed' \/ n = RowsBefore(pc)' + OwnRow'
    BY <1>1, Zenon
<1> QED
    BY <1>1, <1>2, <1>3, <1>4, Zenon DEF RowsInv

\* A task records its row while nothing has crashed.
LEMMA OwnRowJoins ==
    ASSUME TypeOK, StageInv, RowsInv, pc \in Tasks \cup {"env"}, ~Saving,
           NEW t \in Tasks \cup {"env-contract", "runner-crash", "result-contract"},
           NEW passed \in BOOLEAN, Record(t, passed), UNCHANGED <<pc, dry, crashed>>,
           t = pc \/ (pc = "env" /\ t = "env-contract")
    PROVE  RowsInv'
<1>1. ~crashed /\ ~crashed' /\ phase' = "write"
    BY Zenon DEF StageInv, Ending, Record
<1>2. /\ CrashRow = 0 /\ ContractRow = 0 /\ CrashRow' = 0 /\ ContractRow' = 0
      /\ OwnRow = 0 /\ OwnRow' = 1
    BY <1>1 DEF CrashRow, ContractRow, OwnRow, Saving
<1>3. TaskRows' = TaskRows /\ Expected' = Expected /\ RowsBefore(pc)' = RowsBefore(pc)
    BY DEF TaskRows, Expected, RowsBefore, EnvRows
<1> DEFINE n == RowsBefore(pc)
<1>4. /\ n + 1 \in 1 .. TaskRows
      /\ Expected[n + 1] = t
    <2>1. pc \in {"env", "model", "loop"} => ~dry
        BY DEF StageInv
    <2>2. t = IF pc = "env" THEN "env-contract" ELSE pc
        OBVIOUS
    <2> QED
        BY <2>1, <2>2, OwnRowExpected
<1>5. Filled(rows, n, 0, 0)
    <2>1. PICK m \in 0 .. TaskRows :
              /\ Filled(rows, m, CrashRow, ContractRow)
              /\ ~crashed => m = RowsBefore(pc) + OwnRow
        BY DEF RowsInv
    <2>2. n \in Int
        BY DEF RowsBefore, EnvRows, TaskRows
    <2>3. m = n
        BY <1>1, <1>2, <2>1, <2>2
    <2> QED
        BY <1>2, <2>1, <2>3, Zenon
<1> HIDE DEF n
<1>6. TaskRows \in Nat /\ n \in Nat /\ n + 1 \in 0 .. TaskRows
    BY <1>4 DEF TaskRows, n, RowsBefore, EnvRows
<1>7. Filled(rows', n + 1, 0, 0)
    <2>1. Len(rows) = n /\ \A i \in 1 .. n : rows[i].task = Expected[i]
        BY <1>5, <1>6 DEF Filled
    <2>2. /\ \A i \in 1 .. n : rows'[i] = rows[i]
          /\ rows'[n + 1].task = t
        BY <2>1, Appended
    <2>3. Len(rows') = n + 1
        BY <2>1, RecordType
    <2>4. \A i \in 1 .. n + 1 : rows'[i].task = Expected[i]
        <3>1. \A i \in 1 .. n : rows'[i].task = Expected[i]
            BY <2>1, <2>2, Zenon
        <3>2. \A i \in 1 .. n + 1 : i \in 1 .. n \/ i = n + 1
            BY <1>6
        <3> QED
            BY <1>4, <2>2, <3>1, <3>2, Zenon
    <2> QED
        BY <1>6, <2>3, <2>4 DEF Filled
<1> DEFINE m == n + 1
<1>8. m \in 0 .. TaskRows /\ m = RowsBefore(pc)' + OwnRow'
    BY <1>2, <1>3, <1>6 DEF n
<1>9. Filled(rows', m, 0, 0)
    BY <1>7
<1> HIDE DEF m
<1>10. PICK k \in 0 .. TaskRows : Filled(rows', k, 0, 0) /\ k = RowsBefore(pc)' + OwnRow'
    BY <1>8, <1>9, Zenon
<1>11. Filled(rows, k, CrashRow, ContractRow)'
    BY <1>2, <1>3, <1>10, Zenon DEF Filled
<1> QED
    BY <1>3, <1>10, <1>11, Zenon DEF RowsInv

\* main's rows join behind what there is.
LEMMA CrashRowJoins ==
    ASSUME TypeOK, StageInv, RowsInv, pc = "crash", ~Saving, Record("runner-crash", FALSE),
           UNCHANGED <<pc, dry, crashed>>
    PROVE  RowsInv'
<1>1. crashed /\ crashed' /\ phase' = "write"
    BY Zenon DEF StageInv, Record
<1>2. CrashRow = 0 /\ ContractRow = 0 /\ CrashRow' = 1 /\ ContractRow' = 0
    BY <1>1 DEF CrashRow, ContractRow, Saving
<1>3. TaskRows' = TaskRows /\ Expected' = Expected
    BY DEF TaskRows, Expected
<1>4. PICK n \in 0 .. TaskRows : Filled(rows, n, 0, 0)
    BY <1>2, Zenon DEF RowsInv
<1>5. n \in Nat
    BY <1>4 DEF TaskRows
<1>6. Len(rows) = n
    BY <1>4, <1>5 DEF Filled
<1>7. /\ \A i \in 1 .. n : rows'[i] = rows[i]
      /\ rows'[n + 1].task = "runner-crash"
    BY <1>6, Appended
<1>8. Len(rows') = n + 1
    BY <1>6, RecordType
<1>9. Filled(rows', n, 1, 0)
    BY <1>4, <1>5, <1>7, <1>8 DEF Filled
<1>10. Filled(rows, n, CrashRow, ContractRow)'
    BY <1>2, <1>3, <1>9 DEF Filled
<1> QED
    BY <1>1, <1>3, <1>4, <1>10, Zenon DEF RowsInv

LEMMA ContractRowJoins ==
    ASSUME TypeOK, RowsInv, pc = "contract", ~Saving,
           NEW passed \in BOOLEAN, Record("result-contract", passed),
           UNCHANGED <<pc, dry, crashed>>
    PROVE  RowsInv'
<1>1. phase' = "write"
    BY DEF Record
<1>2. /\ ContractRow = 0 /\ ContractRow' = 1 /\ CrashRow' = CrashRow /\ CrashRow \in {0, 1}
      /\ OwnRow = 0 /\ OwnRow' = 0
    BY <1>1 DEF CrashRow, ContractRow, Saving, OwnRow
<1>3. TaskRows' = TaskRows /\ Expected' = Expected /\ RowsBefore(pc)' = RowsBefore(pc)
    BY DEF TaskRows, Expected, RowsBefore, EnvRows
<1>4. PICK n \in 0 .. TaskRows :
          /\ Filled(rows, n, CrashRow, 0)
          /\ ~crashed => n = RowsBefore(pc) + OwnRow
    BY <1>2, Zenon DEF RowsInv
<1> DEFINE c == CrashRow
<1>5. n \in Nat /\ c \in {0, 1}
    BY <1>2, <1>4 DEF TaskRows
<1> HIDE DEF c
<1>6. /\ Len(rows) = n + c
      /\ \A i \in 1 .. n : rows[i].task = Expected[i]
      /\ c = 1 => rows[n + 1].task = "runner-crash"
    BY <1>4, <1>5 DEF Filled, c
<1>7. /\ \A i \in 1 .. n + c : rows'[i] = rows[i]
      /\ rows'[n + c + 1].task = "result-contract"
    BY <1>6, Appended
<1>8. Len(rows') = n + c + 1
    BY <1>6, RecordType
<1>9. Filled(rows', n, c, 1)
    <2>1. \A i \in 1 .. n : i \in 1 .. n + c
        BY <1>5
    <2>2. c = 1 => n + 1 \in 1 .. n + c
        BY <1>5
    <2>3. \A i \in 1 .. n : rows'[i].task = Expected[i]
        BY <1>6, <1>7, <2>1, Zenon
    <2>4. c = 1 => rows'[n + 1].task = "runner-crash"
        BY <1>6, <1>7, <2>2, Zenon
    <2> QED
        BY <1>7, <1>8, <2>3, <2>4, Zenon DEF Filled
<1>10. Filled(rows, n, CrashRow, ContractRow)'
    BY <1>2, <1>3, <1>9 DEF Filled, c
<1>11. ~crashed' => n = RowsBefore(pc)' + OwnRow'
    BY <1>2, <1>3, <1>4, Zenon
<1> QED
    BY <1>3, <1>4, <1>10, <1>11, Zenon DEF RowsInv

\* A list made of two is their concatenation.
LEMMA Joined ==
    ASSUME NEW S, NEW list \in Seq(S), NEW a \in Seq(S), NEW b \in Seq(S),
           Len(list) = Len(a) + Len(b),
           \A i \in 1 .. Len(a) : list[i] = a[i],
           \A i \in 1 .. Len(b) : list[Len(a) + i] = b[i]
    PROVE  list = a \o b
<1>1. /\ a \o b \in Seq(S) /\ Len(a \o b) = Len(a) + Len(b)
      /\ \A i \in 1 .. Len(a) + Len(b) :
            (a \o b)[i] = IF i <= Len(a) THEN a[i] ELSE b[i - Len(a)]
    BY ConcatProperties
<1>2. \A i \in 1 .. Len(list) : list[i] = (a \o b)[i]
    <2> SUFFICES ASSUME NEW i \in 1 .. Len(a) + Len(b) PROVE list[i] = (a \o b)[i]
        OBVIOUS
    <2>1. CASE i <= Len(a)
        BY <1>1, <2>1
    <2>2. CASE i > Len(a)
        <3>1. i - Len(a) \in 1 .. Len(b) /\ Len(a) + (i - Len(a)) = i
            BY <2>2
        <3>2. list[i] = b[i - Len(a)]
            BY <3>1
        <3> QED
            BY <1>1, <2>2, <3>2
    <2> QED
        BY <2>1, <2>2
<1> QED
    BY <1>1, <1>2, SeqEqual

\* With a list so filled, a run that is over has reported what it should.
LEMMA FilledIsComplete ==
    ASSUME TypeOK, RowsInv, pc = "over", phase = "idle"
    PROVE  ReportComplete
<1> DEFINE Named == Tasks \cup {"env-contract", "runner-crash", "result-contract"}
<1>1. /\ CrashRow = IF crashed THEN 1 ELSE 0
      /\ ContractRow = 1 /\ OwnRow = 0 /\ RowsBefore(pc) = TaskRows
    BY DEF CrashRow, ContractRow, OwnRow, Saving, RowsBefore
<1>2. PICK n \in 0 .. TaskRows :
          /\ Filled(rows, n, CrashRow, 1)
          /\ ~crashed => n = TaskRows + 0
    BY <1>1, Zenon DEF RowsInv
<1>3. n \in Nat /\ TaskRows \in Nat /\ TaskRows + 0 = TaskRows
    BY <1>2 DEF TaskRows
<1>4. Len(Expected) = TaskRows /\ Expected \in Seq(Named)
    <2>1. CASE dry
        BY <2>1 DEF Expected, TaskRows
    <2>2. CASE ~dry
        BY <2>2 DEF Expected, TaskRows
    <2> QED
        BY <2>1, <2>2
<1>5. /\ RowTasks \in Seq(Named) /\ Len(RowTasks) = Len(rows)
      /\ \A i \in 1 .. Len(rows) : RowTasks[i] = rows[i].task
    <2>1. rows \in Seq(Row)
        BY DEF TypeOK
    <2>2. DOMAIN rows = 1 .. Len(rows) /\ Len(rows) \in Nat
        BY <2>1
    <2>3. \A i \in 1 .. Len(rows) : rows[i] \in Row
        BY <2>1
    <2>4. \A i \in 1 .. Len(rows) : rows[i].task \in Named
        BY <2>3 DEF Row
    <2>5. RowTasks = [i \in 1 .. Len(rows) |-> rows[i].task]
        BY <2>2, Zenon DEF RowTasks
    <2> QED
        BY <2>2, <2>4, <2>5
<1> HIDE DEF Named
<1>6. CASE crashed
    <2>1. Filled(rows, n, 1, 1)
        BY <1>1, <1>2, <1>6, Zenon
    <2> DEFINE first == SubSeq(Expected, 1, n)
               last == <<"runner-crash", "result-contract">>
    <2>2. /\ first \in Seq(Named) /\ Len(first) = n
          /\ \A i \in 1 .. n : first[i] = Expected[i]
        BY <1>2, <1>3, <1>4
    <2>3. last \in Seq(Named) /\ Len(last) = 2
          /\ last[1] = "runner-crash" /\ last[2] = "result-contract"
        BY DEF Named
    <2> HIDE DEF first, last
    <2>4. /\ Len(rows) = n + 2 /\ \A i \in 1 .. n : rows[i].task = Expected[i]
          /\ rows[n + 1].task = "runner-crash" /\ rows[n + 2].task = "result-contract"
        BY <1>3, <2>1 DEF Filled
    <2>5. \A i \in 1 .. n : RowTasks[i] = first[i]
        <3>1. \A i \in 1 .. n : i \in 1 .. Len(rows)
            BY <1>3, <2>4
        <3> QED
            BY <1>5, <2>2, <2>4, <3>1, Zenon
    <2>6. \A i \in 1 .. 2 : RowTasks[n + i] = last[i]
        <3>1. RowTasks[n + 1] = last[1] /\ RowTasks[n + 2] = last[2]
            BY <1>3, <1>5, <2>3, <2>4
        <3>2. \A i \in 1 .. 2 : i = 1 \/ i = 2
            OBVIOUS
        <3> QED
            BY <3>1, <3>2, Zenon
    <2>7. RowTasks = first \o last
        <3>1. /\ Len(RowTasks) = Len(first) + Len(last)
              /\ \A i \in 1 .. Len(first) : RowTasks[i] = first[i]
              /\ \A i \in 1 .. Len(last) : RowTasks[Len(first) + i] = last[i]
            BY <1>5, <2>2, <2>3, <2>4, <2>5, <2>6, Zenon
        <3> QED
            BY <1>5, <2>2, <2>3, <3>1, Joined
    <2>8. n \in 0 .. Len(Expected)
        BY <1>2, <1>4
    <2> QED
        BY <1>6, <2>7, <2>8, Zenon DEF ReportComplete, first, last
<1>7. CASE ~crashed
    <2>1. Filled(rows, n, 0, 1) /\ n = TaskRows
        BY <1>1, <1>2, <1>3, <1>7, Zenon
    <2> DEFINE last == <<"result-contract">>
    <2>2. last \in Seq(Named) /\ Len(last) = 1 /\ last[1] = "result-contract"
        BY DEF Named
    <2> HIDE DEF last
    <2>3. /\ Len(rows) = n + 1 /\ \A i \in 1 .. n : rows[i].task = Expected[i]
          /\ rows[n + 1].task = "result-contract"
        BY <1>3, <2>1 DEF Filled
    <2>4. \A i \in 1 .. n : RowTasks[i] = Expected[i]
        <3>1. \A i \in 1 .. n : i \in 1 .. Len(rows)
            BY <1>3, <2>3
        <3> QED
            BY <1>5, <2>3, <3>1, Zenon
    <2>5. \A i \in 1 .. 1 : RowTasks[n + i] = last[i]
        BY <1>3, <1>5, <2>2, <2>3
    <2>6. RowTasks = Expected \o last
        <3>1. /\ Len(RowTasks) = Len(Expected) + Len(last)
              /\ \A i \in 1 .. Len(Expected) : RowTasks[i] = Expected[i]
              /\ \A i \in 1 .. Len(last) : RowTasks[Len(Expected) + i] = last[i]
            BY <1>4, <1>5, <2>1, <2>2, <2>3, <2>4, <2>5, Zenon
        <3> QED
            BY <1>4, <1>5, <2>2, <3>1, Joined
    <2> QED
        BY <1>7, <2>6, Zenon DEF ReportComplete, last
<1> QED
    BY <1>6, <1>7

\* Every step keeps the list filled.
LEMMA StepKeepsRows ==
    ASSUME TypeOK, StageInv, RowsInv, [Next]_vars
    PROVE  RowsInv'
<1> USE DEF Ending
<1>0. dry' = dry
    BY ConfigKept DEF config, vars
<1>1. CASE WriteTmp
    <2>1. UNCHANGED <<rows, pc, crashed>> /\ Saving /\ Saving'
        BY <1>1 DEF WriteTmp, Saving
    <2>2. /\ CrashRow' = CrashRow /\ ContractRow' = ContractRow
          /\ RowsBefore(pc)' = RowsBefore(pc) /\ OwnRow' = OwnRow
        BY <1>0, <2>1 DEF CrashRow, ContractRow, OwnRow, RowsBefore, EnvRows, TaskRows
    <2> QED
        BY <1>0, <2>1, <2>2, RowsKept, Zenon DEF TypeOK
<1>2. CASE Swap
    <2>1. /\ UNCHANGED <<rows, crashed>> /\ Saving /\ ~Saving' /\ <<pc, pc'>> \in Order
        BY <1>2 DEF Swap, Saving, After
    <2>2. pc \notin {"llm", "settings", "client", "shutdown", "over"}
        BY <2>1 DEF StageInv, Saving
    <2>3. CrashRow' = CrashRow /\ ContractRow' = ContractRow
        BY <2>1, <2>2 DEF CrashRow, ContractRow, Order, StageInv
    <2>4. crashed \/ RowsBefore(pc)' + OwnRow' = RowsBefore(pc) + OwnRow
        <3>1. CASE dry
            BY <1>0, <2>1, <2>2, <3>1 DEF Order, OwnRow, RowsBefore, EnvRows, TaskRows, StageInv
        <3>2. CASE ~dry
            BY <1>0, <2>1, <2>2, <3>2 DEF Order, OwnRow, RowsBefore, EnvRows, TaskRows, StageInv
        <3> QED
            BY <3>1, <3>2
    <2> QED
        BY <1>0, <2>1, <2>3, <2>4, RowsKept, Zenon DEF TypeOK
<1>3. CASE SaveFails
    <2>1. UNCHANGED rows /\ Saving /\ ~Saving'
        BY <1>3 DEF SaveFails, Saving
    <2>2. CASE pc \notin {"crash", "contract"} /\ pc' = "shutdown" /\ crashed' = TRUE
        <3>1. ~crashed \/ pc = "over" \/ pc = "shutdown"
            BY <2>2 DEF StageInv
        <3>2. pc \notin {"over", "shutdown"}
            BY <2>1 DEF StageInv, Saving
        <3>3. /\ CrashRow' = CrashRow /\ ContractRow' = ContractRow
            BY <2>1, <2>2, <3>1, <3>2 DEF CrashRow, ContractRow
        <3> QED
            BY <1>0, <2>1, <2>2, <3>3, RowsKept, Zenon
    <2>3. CASE pc \in {"crash", "contract"} /\ pc' \in After(pc) /\ UNCHANGED crashed
        <3>1. \/ pc = "crash" /\ pc' = "contract"
              \/ pc = "contract" /\ pc' = "over"
            BY <2>3 DEF After, Order
        <3>2. CrashRow' = CrashRow /\ ContractRow' = ContractRow
            BY <2>1, <2>3, <3>1 DEF CrashRow, ContractRow, StageInv
        <3>3. crashed \/ RowsBefore(pc)' + OwnRow' = RowsBefore(pc) + OwnRow
            BY <1>0, <2>1, <3>1 DEF RowsBefore, OwnRow, EnvRows, TaskRows, StageInv
        <3> QED
            BY <1>0, <2>1, <2>3, <3>2, <3>3, RowsKept, Zenon DEF TypeOK
    <2> QED
        BY <1>3, <2>2, <2>3 DEF SaveFails
<1>4. CASE CheckEnv
    <2>1. PICK passed \in BOOLEAN : Record("env-contract", passed)
        BY <1>4 DEF CheckEnv
    <2>2. pc = "env" /\ ~Saving /\ UNCHANGED <<pc, crashed>>
        BY <1>4 DEF CheckEnv, Saving
    <2> QED
        BY <1>0, <2>1, <2>2, OwnRowJoins
<1>5. CASE ReadSettings \/ MakeClient \/ BuildLlm
    <2>1. /\ UNCHANGED <<rows, phase>> /\ pc \in {"settings", "client", "llm"}
          /\ \/ UNCHANGED crashed /\ <<pc, pc'>> \in {<<"settings", "client">>,
                                          <<"client", "preflight">>, <<"llm", "model">>}
             \/ pc' = "shutdown" /\ crashed' = TRUE
        BY <1>5 DEF ReadSettings, MakeClient, BuildLlm
    <2>2. ~crashed /\ ~Saving /\ ~Saving'
        BY <2>1 DEF StageInv, Saving
    <2>3. CrashRow' = CrashRow /\ ContractRow' = ContractRow
        BY <2>1, <2>2 DEF CrashRow, ContractRow
    <2>4. crashed' \/ RowsBefore(pc)' + OwnRow' = RowsBefore(pc) + OwnRow
        BY <1>0, <2>1, <2>2 DEF RowsBefore, OwnRow, EnvRows, TaskRows
    <2> QED
        BY <1>0, <2>1, <2>2, <2>3, <2>4, RowsKept, Zenon
<1>6. ASSUME NEW t \in Tasks, RunTask(t)
      PROVE  RowsInv'
    <2>1. CASE Start(t)
        <3>1. UNCHANGED <<rows, pc, crashed>> /\ ~Saving /\ ~Saving'
            BY <2>1 DEF Start, Saving
        <3>2. /\ CrashRow' = CrashRow /\ ContractRow' = ContractRow
              /\ RowsBefore(pc)' = RowsBefore(pc) /\ OwnRow' = OwnRow
            BY <1>0, <3>1 DEF CrashRow, ContractRow, OwnRow, RowsBefore, EnvRows, TaskRows
        <3> QED
            BY <1>0, <3>1, <3>2, RowsKept, Zenon DEF TypeOK
    <2>2. CASE BodyEnds(t) \/ CutOff(t)
        <3>1. \E passed \in BOOLEAN : Record(t, passed)
            BY <2>2 DEF BodyEnds, CutOff
        <3>2. pc = t /\ ~Saving /\ UNCHANGED <<pc, crashed>>
            BY <2>2 DEF BodyEnds, CutOff, Saving
        <3> QED
            BY <1>0, <3>1, <3>2, OwnRowJoins
    <2>3. CASE Interrupt(t)
        <3>1. /\ UNCHANGED rows /\ ~Saving /\ ~Saving' /\ pc \in Tasks
              /\ pc' = "shutdown" /\ crashed' = TRUE
            BY <2>3 DEF Interrupt, Saving
        <3>2. CrashRow' = CrashRow /\ ContractRow' = ContractRow
            BY <3>1 DEF CrashRow, ContractRow
        <3> QED
            BY <1>0, <3>1, <3>2, RowsKept, Zenon
    <2> QED
        BY <1>6, <2>1, <2>2, <2>3 DEF RunTask
<1>7. CASE Shutdown
    <2>1. /\ UNCHANGED <<rows, crashed, phase>> /\ pc = "shutdown"
          /\ pc' = IF crashed THEN "crash" ELSE "contract"
        BY <1>7 DEF Shutdown
    <2>2. ~Saving /\ ~Saving'
        BY <2>1 DEF Saving, StageInv
    <2>3. CrashRow' = CrashRow /\ ContractRow' = ContractRow
        BY <2>1, <2>2 DEF CrashRow, ContractRow
    <2>4. crashed \/ RowsBefore(pc)' + OwnRow' = RowsBefore(pc) + OwnRow
        BY <1>0, <2>1, <2>2 DEF RowsBefore, OwnRow, EnvRows, TaskRows
    <2> QED
        BY <1>0, <2>1, <2>3, <2>4, RowsKept, Zenon DEF TypeOK
<1>8. CASE RecordCrash
    BY <1>0, <1>8, CrashRowJoins DEF RecordCrash, Saving
<1>9. CASE RecordContract
    <2>1. UniqueIds(rows) \in BOOLEAN
        BY DEF UniqueIds
    <2> QED
        BY <1>0, <1>9, <2>1, ContractRowJoins DEF RecordContract, Saving
<1>10. CASE Tick \/ UNCHANGED vars
    <2>1. UNCHANGED <<rows, pc, phase, crashed>>
        BY <1>10 DEF Tick, vars
    <2>2. /\ CrashRow' = CrashRow /\ ContractRow' = ContractRow
          /\ RowsBefore(pc)' = RowsBefore(pc) /\ OwnRow' = OwnRow
        BY <1>0, <2>1 DEF CrashRow, ContractRow, OwnRow, RowsBefore, EnvRows, TaskRows, Saving
    <2> QED
        BY <1>0, <2>1, <2>2, RowsKept, Zenon DEF TypeOK
<1> QED
    BY <1>1, <1>2, <1>3, <1>4, <1>5, <1>6, <1>7, <1>8, <1>9, <1>10
       DEF Next, Save, RunAll, Main

\* The report of a run that is over has a row for each task, in order, or a
\* crash row in the place of the missing ones, and the contract row last,
\* whatever was cut off, raised or interrupted, and whichever saves failed.
THEOREM ReportsComplete == Spec => []ReportComplete
<1>1. Init => RowsInv
    <2> SUFFICES ASSUME Init PROVE RowsInv
        OBVIOUS
    <2>1. /\ CrashRow = 0 /\ ContractRow = 0 /\ OwnRow = 0 /\ RowsBefore(pc) = 0
          /\ TaskRows \in Nat
        BY DEF Init, CrashRow, ContractRow, OwnRow, Saving, RowsBefore, EnvRows, TaskRows
    <2>2. Filled(rows, 0, 0, 0)
        BY DEF Init, Filled
    <2>3. 0 \in 0 .. TaskRows /\ 0 = RowsBefore(pc) + OwnRow
        BY <2>1
    <2> QED
        BY <2>1, <2>2, <2>3, Zenon DEF RowsInv
<1>2. TypeOK /\ StageInv /\ RowsInv /\ [Next]_vars => RowsInv'
    BY StepKeepsRows
<1>3. TypeOK /\ StageInv /\ RowsInv => ReportComplete
    <2>1. StageInv /\ pc = "over" => phase = "idle"
        BY DEF StageInv
    <2> QED
        BY <2>1, FilledIsComplete, Zenon DEF ReportComplete
<1> QED
    BY <1>1, <1>2, <1>3, CentralTypeCorrect, StagesHold, PTL DEF Spec

=============================================================================
