----------------------------- MODULE RunArtifact -----------------------------
(***************************************************************************)
(* One run of the CLI as its directory shows it: run_artifact starts the   *)
(* directory, main_async runs a task against a recording client and writes *)
(* the result, then the status.  A write truncates its file first and may  *)
(* fail; a task may raise, be interrupted or be cut off with its process,  *)
(* so each state is one the directory may be left in.                      *)
(***************************************************************************)
EXTENDS Integers, Sequences

CONSTANTS
    Tasks,      \* the --task values: canonical, preflight, loop, log-contact
    MaxCalls    \* bound on a run's tool calls

ASSUME ArtifactAssumption ==
    /\ Tasks \subseteq {"canonical", "preflight", "loop", "log-contact"}
    /\ MaxCalls \in Nat

VARIABLES
    pc,      \* where main_async is
    task,    \* --task
    files,   \* what each file of the run directory holds
    todo,    \* the writes under way: pairs of a file and what it is to hold
    open,    \* the first of them has truncated its file
    run,     \* the TaskRun: does it carry an error, and how did it end
    made,    \* tool calls the task has made
    traced,  \* how many of them are in run.steps
    broke    \* a write, or the console, has failed

record == <<task, run, made, traced>>
vars == <<pc, files, todo, open, record, broke>>

Names == {"input", "config", "result", "error", "status"}
Statuses == {"running", "completed", "failed"}
Contents == {"absent", "torn", "whole"} \cup Statuses

Endings == {"unset", "done", "refused", "error", "max_steps", "token_budget", "time_budget"}
Run == [error : BOOLEAN, ended : Endings]

Write(name, content) == [name |-> name, content |-> content]
Fresh == [error |-> FALSE, ended |-> "unset"]

Init ==
    /\ pc = "starting" /\ task \in Tasks
    /\ files = [n \in Names |-> "absent"]
    \* RunArtifactWriter.start: the directory, the request, the configuration,
    \* and the marker the directory is born with.
    /\ todo = <<Write("input", "whole"), Write("config", "whole"), Write("status", "running")>>
    /\ open = FALSE
    /\ run = Fresh /\ made = 0 /\ traced = 0 /\ broke = FALSE

-----------------------------------------------------------------------------
(* Files.                                                                  *)

\* finalize, if the status flipped before the result was written.
StatusFirst(r) ==
    <<Write("status", IF r.error /\ r.ended # "refused" THEN "failed" ELSE "completed"),
      Write("result", "whole")>>

\* finalize: the whole result, then the status.
Finalize(r) ==
    <<Write("result", "whole"),
      Write("status", IF r.error /\ r.ended # "refused" THEN "failed" ELSE "completed")>>

\* MarkFailed, without the exception.
StatusOnly == <<Write("status", "failed")>>

\* mark_failed.
MarkFailed == <<Write("error", "whole"), Write("status", "failed")>>

\* write_text opens the file, which empties it, and then fills it.
Truncate ==
    /\ todo # <<>> /\ ~open
    /\ files' = [files EXCEPT ![Head(todo).name] = "torn"]
    /\ open' = TRUE
    /\ UNCHANGED <<pc, todo, record, broke>>

Fill ==
    /\ todo # <<>> /\ open
    /\ files' = [files EXCEPT ![Head(todo).name] = Head(todo).content]
    /\ open' = FALSE /\ todo' = Tail(todo)
    /\ UNCHANGED <<pc, record, broke>>

\* An OSError reaches run_artifact, unless it comes from start, which is
\* outside its try, or from mark_failed itself.
WriteFails ==
    /\ todo # <<>>
    /\ open' = FALSE /\ broke' = TRUE
    /\ \/ /\ pc \in {"starting", "marking"}
          /\ pc' = "raised" /\ todo' = <<>>
       \/ /\ pc \in {"finalizing", "failing"}
          /\ pc' = "marking" /\ todo' = MarkFailed
    /\ UNCHANGED <<files, record>>

-----------------------------------------------------------------------------
(* main_async.                                                             *)

\* The request guard refuses before any call, except for the tasks it does not
\* look at.
Guard ==
    /\ pc = "starting" /\ todo = <<>>
    /\ \/ pc' = "working" /\ UNCHANGED run
       \/ /\ task \in {"canonical", "loop"}
          /\ pc' = "reporting" /\ run' = [run EXCEPT !.ended = "refused"]
    /\ UNCHANGED <<task, files, todo, open, made, traced, broke>>

\* RecordingMCPClient: a result, a refusal and any other MCPToolError become a
\* step; an exception of another type does not.
Traced(answer) == answer \in {"ok", "denied", "failed"}

\* The loop has the bare client and notes what the model asked for: the company
\* clock, the duplicate guard's reads and those of the derived tools go unnoted.
Steps(answer) == IF ~Traced(answer) THEN {0} ELSE IF task = "loop" THEN {0, 1} ELSE {1}

\* What a task lets a call do without failing: probe_entity catches every
\* exception, everything else at most an MCPToolError.
Survives(answer) == answer \in {"ok", "denied", "failed"} \/ task = "preflight"

\* The loop and preflight catch every MCPToolError; the other two let some of
\* them through, and only preflight's probes catch anything else.
CanRaise(answer) == answer = "raw" \/ (answer # "ok" /\ task \in {"canonical", "log-contact"})

\* A task that raises: the run is finalized as an error and the exception goes
\* on.  The loop keeps its steps in a TaskRun of its own, which is lost with it.
Raises ==
    /\ run' = [error |-> TRUE, ended |-> "error"]
    /\ pc' = "failing" /\ todo' = Finalize(run')

Call ==
    /\ pc = "working" /\ made < MaxCalls
    /\ made' = made + 1
    /\ \E answer \in {"ok", "denied", "failed", "raw"} : \E noted \in Steps(answer) :
          \/ /\ Survives(answer)
             /\ traced' = traced + noted
             /\ UNCHANGED <<pc, run, todo>>
          \/ /\ CanRaise(answer)
             /\ Raises
             /\ traced' = IF task = "loop" THEN 0 ELSE traced + noted
    /\ UNCHANGED <<task, files, open, broke>>

\* How a task that returns can have ended.
Ended(t) ==
    {[error |-> FALSE, ended |-> "done"]}
    \cup (IF t \in {"canonical", "log-contact"} THEN {[error |-> FALSE, ended |-> "refused"]} ELSE {})
    \cup (IF t = "loop"
          THEN {[error |-> FALSE, ended |-> "max_steps"]}
               \cup [error : {TRUE}, ended : {"refused", "error", "token_budget", "time_budget"}]
          ELSE {})

Returns ==
    /\ pc = "working"
    /\ run' \in Ended(task)
    /\ pc' = "reporting"
    /\ UNCHANGED <<task, files, todo, open, made, traced, broke>>

\* _report_result and the summary lines go to the console, then finalize.
Report ==
    /\ pc = "reporting"
    /\ pc' = "finalizing" /\ todo' = Finalize(run)
    /\ UNCHANGED <<files, open, record, broke>>

\* A closed console raises outside main_async's try, before or after finalize.
ConsoleFails ==
    /\ pc = "reporting" \/ (pc = "finalizing" /\ todo = <<>>)
    /\ pc' = "marking" /\ todo' = MarkFailed
    /\ broke' = TRUE
    /\ UNCHANGED <<files, open, record>>

\* KeyboardInterrupt and CancelledError are no Exception: nothing is written.
Interrupted ==
    /\ pc = "working"
    /\ pc' = "interrupted"
    /\ UNCHANGED <<files, todo, open, record, broke>>

\* What follows the last write: the run is over, or its exception goes on.
Finished ==
    /\ todo = <<>>
    /\ \/ pc = "finalizing" /\ pc' = "done" /\ UNCHANGED todo
       \/ pc = "failing" /\ pc' = "marking" /\ todo' = MarkFailed
       \/ pc = "marking" /\ pc' = "raised" /\ UNCHANGED todo
    /\ UNCHANGED <<files, open, record, broke>>

Writing == Truncate \/ Fill \/ WriteFails
Working == Guard \/ Call \/ Returns \/ Interrupted
Closing == Report \/ ConsoleFails \/ Finished

Next == Writing \/ Working \/ Closing

Spec == Init /\ [][Next]_vars

-----------------------------------------------------------------------------
(* Properties.                                                             *)

Pcs == {"starting", "working", "reporting", "finalizing", "failing", "marking",
        "done", "raised", "interrupted"}

\* Types of the variables.
TypeOK ==
    /\ pc \in Pcs /\ task \in Tasks
    /\ files \in [Names -> Contents]
    /\ todo \in Seq([name : Names, content : Contents])
    /\ open \in BOOLEAN /\ (open => todo # <<>>)
    /\ run \in Run
    /\ made \in 0 .. MaxCalls /\ traced \in 0 .. made
    /\ broke \in BOOLEAN

\* A directory whose status is "completed" holds a whole result, and that
\* result is no error, at every moment the process may die: the order in which
\* finalize and mark_failed write, over every path that leads to them.
CompletedIsWhole ==
    files["status"] = "completed" =>
        /\ files["result"] = "whole"
        /\ run.error => run.ended = "refused"

\* A completed canonical or log-contact run has every call in its trace: neither
\* survives a call its recorder missed (RecordingMCPClient).
CompletedIsTraced ==
    files["status"] = "completed" /\ task \in {"canonical", "log-contact"} => traced = made

\* A run that leaves with an exception is marked failed, with the exception in
\* the directory, unless the files themselves could not be written; one that is
\* interrupted still reads "running" (run_artifact).
CrashIsDiagnosable ==
    /\ pc = "raised" /\ ~broke => files["status"] = "failed" /\ files["error"] = "whole"
    /\ pc = "interrupted" => files["status"] = "running"

\* "If the process dies mid-run, the directory is left with status "running"
\* (or "failed" ...) - never silently absent" (artifacts.py).
StatusIsReadable == made > 0 => files["status"] \in Statuses

\* "every call, success or refusal or error, is appended to the same `steps`
\* list the run artifact writes to disk" (recording.py).
EveryCallTraced == files["status"] \in {"completed", "failed"} => traced = made

\* "never "completed" for a run that didn't finish" (artifacts.py): the model
\* answered, or the task refused.
CompletedHasFinished ==
    files["status"] = "completed" => run.ended \in {"done", "refused"}
=============================================================================
