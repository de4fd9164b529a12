---------------------------- MODULE CentralRunner ----------------------------
(***************************************************************************)
(* The entry point the central evaluator starts: it runs its tasks one     *)
(* after the other, each under a time limit cut down to the evaluator's    *)
(* time left, and rewrites results.json after every row.  A task may pass, *)
(* fail, raise, hang or be interrupted; a save may fail; the evaluator may *)
(* stop the process at any moment and reads whatever file it finds: each    *)
(* state is one it may find.                                               *)
(***************************************************************************)
EXTENDS Integers, Sequences

CONSTANTS
    Limit,        \* the time limit of each task
    Skipped,      \* SKIPPED_TIMEOUT
    Margin,       \* TIME_MARGIN
    MinTask,      \* MIN_TASK_TIMEOUT
    ThreadTime,   \* how long an abandoned POST can keep its worker thread
    NoDeadline,   \* the evaluator gave no budget
    Deadlines     \* the budgets it may give, NoDeadline among them or not

\* The tasks that go through run_task.
Tasks == {"preflight", "canonical", "refusal", "model", "loop"}

ASSUME CentralAssumption ==
    /\ Limit \in [Tasks -> Nat]
    /\ Skipped \in Nat /\ Margin \in Nat /\ MinTask \in Nat /\ ThreadTime \in Nat
    /\ NoDeadline \notin Int
    /\ Deadlines \subseteq Int \cup {NoDeadline}

VARIABLES
    pc,        \* the stage main or run_all is at
    phase,     \* within a stage: before its body, in it, or saving its row
    dry,       \* --dry-run
    deadline,  \* DEADLINE
    client,    \* the MCP client could be created
    llm,       \* the model backend could be created
    model_ok,  \* the model probe passed
    rows,      \* results.tasks
    tmp,       \* results.json.tmp
    disk,      \* results.json
    now,       \* time.monotonic()
    due,       \* when wait_for cancels the current body
    threads,   \* when the last worker thread left behind is done
    crashed,   \* an exception left run_all
    exit       \* how the process ends: main returns 0, or raises

config == <<dry, deadline>>
found == <<client, llm, model_ok>>
files == <<tmp, disk>>
times == <<now, due, threads>>
vars == <<pc, phase, config, found, rows, files, times, crashed, exit>>

Stages == {"env", "settings", "client", "llm"} \cup Tasks
          \cup {"shutdown", "crash", "contract", "over"}

\* A file is whole or half-written; it holds the first `upto` rows of the
\* list, which only grows.  A file that was never written holds none.
File == [whole : BOOLEAN, upto : Nat]
Torn == [whole |-> FALSE, upto |-> 0]
NoRows == [whole |-> TRUE, upto |-> 0]

Min2(a, b) == IF a <= b THEN a ELSE b
Max2(a, b) == IF a <= b THEN b ELSE a

Init ==
    /\ dry \in BOOLEAN /\ deadline \in Deadlines
    /\ pc = (IF dry THEN "settings" ELSE "env") /\ phase = "idle"
    /\ client = FALSE /\ llm = FALSE /\ model_ok = FALSE
    /\ rows = <<>> /\ tmp = NoRows /\ disk = NoRows
    /\ now = 0 /\ due = 0 /\ threads = 0
    /\ crashed = FALSE /\ exit = "zero"

-----------------------------------------------------------------------------
(* results.json.                                                           *)

\* BeginSave, if the rows were written straight into results.json.
SaveInPlace == disk' = Torn /\ UNCHANGED tmp

\* tmp.write_text truncates the temp file; results.json is untouched.
BeginSave == tmp' = Torn /\ UNCHANGED disk

\* Results.record: the row joins the list and the save starts.
Record(t, passed) ==
    /\ rows' = Append(rows, [task |-> t, passed |-> passed])
    /\ phase' = "write"
    /\ BeginSave

WriteTmp ==
    /\ phase = "write"
    /\ tmp' = [whole |-> TRUE, upto |-> Len(rows)]
    /\ phase' = "swap"
    /\ UNCHANGED <<pc, config, found, rows, disk, times, crashed, exit>>

\* Which stage follows which, once its row is saved.
Order == {<<"env", "settings">>, <<"preflight", "canonical">>, <<"canonical", "refusal">>,
          <<"refusal", IF dry THEN "shutdown" ELSE "llm">>, <<"model", "loop">>,
          <<"loop", "shutdown">>, <<"crash", "contract">>, <<"contract", "over">>}

\* After, if a failed probe left the loop without a row.
AfterForgetful(p) ==
    {q \in Stages : IF p = "model" /\ ~model_ok THEN q = "shutdown" ELSE <<p, q>> \in Order}

After(p) == {q \in Stages : <<p, q>> \in Order}

\* os.replace puts the whole file in the place of the last one.
Swap ==
    /\ phase = "swap"
    /\ disk' = tmp
    /\ phase' = "idle" /\ pc' \in After(pc)
    /\ UNCHANGED <<config, found, rows, tmp, times, crashed, exit>>

\* Out of disk: record is outside run_task's try, so the error leaves run_all,
\* and from the last two rows it leaves main.
SaveFails ==
    /\ phase \in {"write", "swap"}
    /\ phase' = "idle"
    /\ \/ /\ pc \notin {"crash", "contract"}
          /\ pc' = "shutdown" /\ crashed' = TRUE /\ UNCHANGED exit
       \/ /\ pc \in {"crash", "contract"}
          /\ pc' \in After(pc) /\ exit' = "raised" /\ UNCHANGED crashed
    /\ UNCHANGED <<config, found, rows, files, times>>

-----------------------------------------------------------------------------
(* run_all.                                                                *)

CheckEnv ==
    /\ pc = "env" /\ phase = "idle"
    /\ \E passed \in BOOLEAN : Record("env-contract", passed)
    /\ UNCHANGED <<pc, config, found, times, crashed, exit>>

\* Settings.from_central_env is outside every try.
ReadSettings ==
    /\ pc = "settings"
    /\ \/ pc' = "client" /\ UNCHANGED crashed
       \/ pc' = "shutdown" /\ crashed' = TRUE
    /\ UNCHANGED <<phase, config, found, rows, files, times, exit>>

MakeClient ==
    /\ pc = "client"
    /\ client' \in BOOLEAN
    /\ pc' = "preflight"
    /\ UNCHANGED <<phase, config, llm, model_ok, rows, files, times, crashed, exit>>

BuildLlm ==
    /\ pc = "llm"
    /\ llm' \in BOOLEAN
    /\ pc' = "model"
    /\ UNCHANGED <<phase, config, client, model_ok, rows, files, times, crashed, exit>>

\* What a task needs; without it record_failure stands in for it.
CanRun(t) ==
    /\ t \in {"preflight", "canonical", "loop"} => client
    /\ t \in {"model", "loop"} => llm
    /\ t = "loop" => model_ok

\* TaskTimeout, before the evaluator's budget was taken into account.
WholeLimit(limit) == limit

\* The limit, cut down to the time left less the margin, but never below
\* MinTask.
TaskTimeout(limit) ==
    IF deadline = NoDeadline
    THEN limit
    ELSE Max2(MinTask, Min2(limit, deadline - now - Margin))

\* run_task (record_failure included) enters wait_for.
Start(t) ==
    /\ pc = t /\ phase = "idle"
    /\ phase' = "body"
    /\ due' = now + TaskTimeout(IF CanRun(t) THEN Limit[t] ELSE Skipped)
    /\ UNCHANGED <<pc, config, found, rows, files, now, threads, crashed, exit>>

\* Only these bodies wait for anything; the others end as they start.
Awaits(t) == t # "refusal" /\ CanRun(t)

\* The body returns, or raises an Exception: that is a failed row.
BodyEnds(t) ==
    /\ pc = t /\ phase = "body"
    /\ \E passed \in BOOLEAN :
          /\ passed => CanRun(t)
          /\ Record(t, passed)
          /\ model_ok' = IF t = "model" THEN passed ELSE model_ok
    /\ UNCHANGED <<pc, config, client, llm, times, crashed, exit>>

\* A POST in a worker thread outlives the task that waits for it.
LeavesThread ==
    \E left \in 0 .. ThreadTime : threads' = Max2(threads, now + left)

\* CutOff, if the body were awaited without a limit.
NeverCut(t) == FALSE /\ UNCHANGED vars

\* wait_for cancels the body: "timed out" is a failed row as well.
CutOff(t) ==
    /\ pc = t /\ phase = "body" /\ Awaits(t)
    /\ now >= due
    /\ Record(t, FALSE)
    /\ LeavesThread
    /\ UNCHANGED <<pc, config, found, now, due, crashed, exit>>

\* KeyboardInterrupt cancels run_all; run_task does not catch it.
Interrupt(t) ==
    /\ pc = t /\ phase = "body" /\ Awaits(t)
    /\ LeavesThread
    /\ pc' = "shutdown" /\ phase' = "idle" /\ crashed' = TRUE
    /\ UNCHANGED <<config, found, rows, files, now, due, exit>>

-----------------------------------------------------------------------------
(* main.                                                                   *)

\* asyncio.run returns, or raises, once the worker threads are done.
Shutdown ==
    /\ pc = "shutdown" /\ now >= threads
    /\ pc' = IF crashed THEN "crash" ELSE "contract"
    /\ UNCHANGED <<phase, config, found, rows, files, times, crashed, exit>>

RecordCrash ==
    /\ pc = "crash" /\ phase = "idle"
    /\ Record("runner-crash", FALSE)
    /\ UNCHANGED <<pc, config, found, times, crashed, exit>>

UniqueIds(list) == \A i, j \in DOMAIN list : list[i].task = list[j].task => i = j

\* check_contract, then its own row.
RecordContract ==
    /\ pc = "contract" /\ phase = "idle"
    /\ Record("result-contract", UniqueIds(rows))
    /\ UNCHANGED <<pc, config, found, times, crashed, exit>>

\* Time passes while a body waits and while threads are waited for.
Tick ==
    /\ \/ phase = "body" /\ Awaits(pc) /\ now < due
       \/ pc = "shutdown" /\ now < threads
    /\ now' = now + 1
    /\ UNCHANGED <<pc, phase, config, found, rows, files, due, threads, crashed, exit>>

RunTask(t) == Start(t) \/ BodyEnds(t) \/ CutOff(t) \/ Interrupt(t)
RunAll == CheckEnv \/ ReadSettings \/ MakeClient \/ BuildLlm
Main == Shutdown \/ RecordCrash \/ RecordContract
Save == WriteTmp \/ Swap \/ SaveFails

Next == Save \/ RunAll \/ (\E t \in Tasks : RunTask(t)) \/ Main \/ Tick

Spec == Init /\ [][Next]_vars

\* The program's own steps are taken and time passes.  Nothing is assumed of a
\* body that waits: it may hang until wait_for cuts it off.
OwnStep ==
    \/ Save \/ RunAll \/ Main \/ Tick
    \/ \E t \in Tasks : Start(t) \/ CutOff(t) \/ (~Awaits(t) /\ BodyEnds(t))

FairSpec == Spec /\ WF_vars(OwnStep)

-----------------------------------------------------------------------------
(* Properties.                                                             *)

Row == [task : Tasks \cup {"env-contract", "runner-crash", "result-contract"},
        passed : BOOLEAN]

\* Types of the variables.  A body is never given a limit in the past.
TypeOK ==
    /\ pc \in Stages /\ phase \in {"idle", "body", "write", "swap"}
    /\ dry \in BOOLEAN /\ deadline \in Deadlines
    /\ client \in BOOLEAN /\ llm \in BOOLEAN /\ model_ok \in BOOLEAN
    /\ rows \in Seq(Row)
    /\ tmp \in File /\ disk \in File
    /\ now \in Nat /\ due \in Nat /\ threads \in Nat
    /\ crashed \in BOOLEAN /\ exit \in {"zero", "raised"}

\* The file the evaluator finds is whole at every moment, whatever it stops,
\* and while a task runs it holds every row recorded before (Results.save).
ReportIsCurrent ==
    /\ disk.whole
    /\ disk.upto <= Len(rows)
    /\ phase = "body" => disk.upto = Len(rows)

\* What the evaluator finds.
Shown == [whole |-> disk.whole, rows |-> SubSeq(rows, 1, disk.upto)]

\* To the evaluator the runner is a list that only grows, shown whole, a row
\* behind at most and never while a task runs, until something breaks; what a
\* failed save left out, the next one shows (Results, run_task, main).
Report == INSTANCE ReportFile WITH
    Rows <- Row, log <- rows, file <- Shown,
    working <- phase = "body", broken <- crashed \/ exit = "raised"

KeepsReport == Report!Spec

RowTasks == [i \in DOMAIN rows |-> rows[i].task]
Expected ==
    IF dry THEN <<"preflight", "canonical", "refusal">>
    ELSE <<"env-contract", "preflight", "canonical", "refusal", "model", "loop">>

\* A run reports every task once, in order, or a crash
\* row in the place of the missing ones, and the contract row last; nothing it
\* meets on the way leaves a task without a row (run_all, main).
ReportComplete ==
    pc = "over" =>
        IF crashed
        THEN \E n \in 0 .. Len(Expected) :
                RowTasks = SubSeq(Expected, 1, n)
                               \o <<"runner-crash", "result-contract">>
        ELSE RowTasks = Expected \o <<"result-contract">>

\* A loop task that passes was preceded by a probe the model answered: a green
\* loop row never stands beside a red model row (run_all's last branch).
LoopNeedsProbe ==
    \A i \in DOMAIN rows :
        rows[i].task = "loop" /\ rows[i].passed =>
            \E j \in 1 .. i - 1 : rows[j].task = "model" /\ rows[j].passed

\* With a budget, the time limits keep the whole run within it up to the floor
\* of each of the five tasks and one abandoned worker thread (task_timeout).
LatenessBounded ==
    deadline # NoDeadline =>
        now <= Max2(0, deadline - Margin) + 5 * MinTask + ThreadTime

\* "No task is given more than that minus TIME_MARGIN, so results.json is final
\* before the evaluator stops the run" (central_runner.py).
FinalBeforeDeadline ==
    deadline # NoDeadline /\ now > deadline => pc = "over"

\* "Always exit 0: the evaluator scores results.json, not the exit code"
\* (main): whatever happens, main returns.
ExitsZero == pc = "over" => exit = "zero"

\* However its bodies hang, a run gets to its end.
Ends == <>(pc = "over")
=============================================================================
