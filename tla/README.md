# Pipeline agent: specifications

TLA+ models of the pipeline agent (`src/pipeline_agent`): what it may do to the shared CRM book,
what it reports, and what it leaves behind when things go wrong. TLC checks them on small
instances; TLAPS proves the main results for every value of the constants. Paths below are
relative to `src/src/pipeline_agent/` unless they start with `docs/` or `tasks/`.

## The system

The agent is one Python process that talks to a CRM over MCP. Nothing in it is shared with another
agent except the CRM book itself, which teammates and other agents edit at the same time.

| Part | State it keeps | Operations | Model |
|---|---|---|---|
| Canonical task (`agent/workflow.py`, `contract.py`, `refusal.py`) | the deals listed, the Activity index, the deals to act on, the actions reported | read threshold, deals, activities, sources; narrow; per deal: re-read, re-check, create; answer or refuse | `CanonicalRun`, abstractly `RunContract` |
| Shared book (a service) | deals, their stages, Activity rows | list (filtered, one page), get, create, transitions, edits by others | `Book` |
| Model loop (`harness/loop.py`, the argument merge of `mcp/tool_names.py`) | history, calls, notes, denials, reads, token and time spent, writes, ids | ask the model, gate its call, run it, wrap up, end | `AgentLoop` |
| Central runner (`central_runner.py`) | rows, `results.json` and its `.tmp`, the deadline | five tasks under time limits, record and save, crash row, contract row | `CentralRunner`, abstractly `ReportFile` |
| MCP client (`mcp/transport.py`, `real_client.py`) | `_initialised`, its lock, request ids | lazy handshake, tools/call, tools/list, map failures | `Transport` |
| Run directory (`harness/artifacts.py`, `recording.py`, `runner.py`) | input, config, status, result, error files; the step trace | start, finalize, mark_failed, record a call, report | `RunArtifact` |
| Offset reads (`workflow.py`, `agent/aggregate.py`, `agent/pipeline_checks.py`) | offset, rows so far, the reported total | read a page, stop, fail | `Paging` |
| Activity index (`workflow.py`) | open row, contact dates, touches per deal and party | add a row, answer open / contact / rot questions | `RotIndex` |
| Derived tools (`agent/contact_status.py`, `agent/aggregate.py`) and log-contact (`runner.py`) | the run's `cache`: the analysis, the aggregates' records; the day the platform goes by | analyse in two passes, show a page, sum up, while the run and others write; report a contact | `DerivedReads` |
| Refusal task (`tasks/mandatory_refusal_task.py`) | four files of an artifacts directory, two snapshots, the probe's result | preflight, snapshot, probe, evaluate, verify | `RefusalTask` |
| Integration fixtures (`tasks/it01/it01.py`, `controller.py`, `scenario.py`) | `fixtures.json`, the records it names | seed, adversary, approve, Run C, cleanup | `FixtureLedger` |
| Advisory checks, request guard, preflight, LLM client, events, configuration | see `PROJECT.json` | | parts of the above; see *Not modelled* |

Parts meet in these places. The canonical task and the loop call the client; the recorder sits between the
task and the client; `main_async` owns the run directory and takes what the task returns or raises. The
central runner calls the same tasks without `main_async`, under `asyncio.wait_for`, and shares one client
between them. `aggregate` and `contact_status` are tools that the loop answers itself, by reading through the client, and keeps
what it read for the run; `contact_status` asks the canonical task for what rots and reads the book a second time for its rows. The refusal task and
the integration tests are programs of their own, which start the agent and share the book with it.

What is hard here: others write to the book between any two calls; any call may be refused, fail, or take
effect with its reply lost; a request whose sender gave up may be served later; the process may be killed and started
again; the model may ask for anything, repeatedly; budgets cut a run off in the middle; a cancelled coroutine leaves
its worker thread behind; files are written in two steps, and a directory may hold those of several runs; an analysis is kept while the book goes on. `PROJECT.json` lists the hazards line by line.

What makes each part correct, by the name of the property that says so:

| Part | Properties |
|---|---|
| Canonical task | one create per deal (`OneCreatePerDeal`), nothing overlooked that was there to be seen (`NoBlindCreate`, `ExistingWasSeen`), the answer lists what was written (`AnswerAccountsForWrites`), a restart adds nothing (`RerunAddsNothing`), the request binds (`KeepsContract`) |
| Model loop | budgets (`OvershootAtMostOneCall`), the wrap-up is last (`NothingAfterWrapUp`), it ends (`Terminates`), a refusal is not retried (`RefusedOnceOnly`), writes are checked (`NoUncheckedCreate`), recorded (`RecordsItsCreates`) and within policy (`StaysInPolicy`) |
| Central runner | the report on disk grows row by row, whole and current (`KeepsReport`), complete (`ReportComplete`), in time (`LatenessBounded`); it ends (`Ends`); a green loop row has a green probe (theorem `LoopProbed`) |
| MCP client | one handshake (`OneHandshake`) before everything else (`NoEarlyRequest`), every operation ends but a list that is served new cursors for ever (`OperationsEnd`), a lock held by the handshake alone (theorem `LockHeldInHandshake`) |
| Run directory | the status never says more than the files hold (`CompletedIsWhole`; theorem `CompletedTraced` for the trace of a canonical or log-contact run), a crash can be read off it (`CrashIsDiagnosable`) |
| Offset reads | what may be missed (`OnlyJumpedMissed`) or doubled (`CopiesNeedEdits`); they end (`ReadEnds`) |
| Activity index | independent of order (`OpenIsBest`), consistent (`OneContactDate`), never claims no contact wrongly (`NeverIsNever`), a deal is laundered by the agent's rows only for a named cause (`LaunderingHasCause`) |
| Derived tools, log-contact | pages tile, however the loop truncates them (`PagesTile`); what is stale or torn is so because of a write (`StaleOnlyWhereWritten`, `TornOnlyByWrites`); one read per aggregate's scope (theorem `AggregatesAgree`); a last contact has the day somebody said it had (`DatesAsSaid`) |
| Refusal task | verify passes only what a run passed (`VerifyNeedsPass`) and repeats its verdict (`VerifyAgrees`); what the run's agent wrote shows, whatever the agents of earlier runs still do (`AgentChangeShows`) |
| Integration fixtures | a record is lost only with its command (`OrphansAreStops`), a cleanup with nothing to report leaves open only parties and rows that lost their tag (`CleanupIsWhole`), a Run C that counts was hit twice, or told that it could not be (`RunCWasHit`) |

## Modules

**Book** holds the deals (`stage`), the Activity `rows` and the teammates' actions, with
the history variables `touched` (rows that came or changed since the agent's re-read) and `hidden` (rows a re-read asked for
that its page had no room for). `Covering` is the rule the code
repeats in three places: an open row on the deal, or one on its customer that names no deal. Replies to a filtered list
are any page of at most `ReadLimit` matching rows (`limit=100`), because the order of the list is the server's.

**CanonicalRun** has one action per call of `run_canonical_task` and `determine_next_action`; `pc` is the call about
to be made. A create is a request on `wire`: it is served, rejected, or served after its sender gave up (`Serve`, `late`).
`Kill` and `Restart` end and begin runs on the same book. `listed` counts how often the list returned a deal, so that
`UniqueDeals` (the dedupe by id) matters. Which open deals are rotting is a free choice; which of them may be
written for is not (`InScope`, `Asked`, `Keeps`, `NewAction`); a request's `tests` is
`PIPELINE_INCLUDE_TEST_DATA` as it was when that run started.

**RunContract** is the abstract specification of one start of the task: choose once within the request, write at most once per
chosen deal and only in create mode, refuse only before a write, answer for all that was written or break off.
`CanonicalRun!Contract` is the refinement mapping.

**AgentLoop** is `run_loop`: clock and budget at the top of a round (`BeginRound`), the model's reply, the gates in the code's order (`StopRepeatedDenial`, `RefuseRepeat`, `BlockWrite`, then the duplicate guard's
reads `GuardDeal`, `GetDeal`, `GuardParty`), the call and each of its outcomes. `hist` counts the history's entries, which is what the
repeat-read window is measured in. A field of a write may stand in three `Places`: beside `data`, in it, or in `filters`. The gates read the top level
before `data` (`WriteField`, `WriteTargetDeal`); what is sent has `filters`, then `data`, laid over the top level (`ToWire`: `to_wire` on the
entity-scoped surface, which is the default one). A call that gives a field twice is therefore checked for one record and
written for another. What the gates do promise is said of `Plain` calls, which give no field twice and none in `filters`; the
configuration `loop_writes_refuted` asks it of every call.

**CentralRunner** is `main`: each task's body begins under `TaskTimeout`, passes, fails, raises, is cut off or interrupted, and may
leave a thread. `Record` appends a row; `WriteTmp` and `Swap` are `save`; `SaveFails` may strike in either. Each
state is one in which the evaluator may stop the process and read `disk`.

**ReportFile** is the abstract specification of `results.json` to that evaluator: a list that only grows, shown whole or not at all, a row
behind at most and never while a task is worked on, until a save fails or the tasks are left early. `CentralRunner!Report` is the refinement mapping: a
row recorded is `Add`, `os.replace` is `Publish`, and writing `.tmp` is a step the evaluator does not see.

**Transport** has callers that share a client: `at` is the message a caller waits for, `wire` the requests that no longer
have a waiting caller but may still be served, `holder` the handshake's lock. A list follows any number of new cursors (`pages`).

**RunArtifact** is one run of the CLI seen from its directory. `todo` is the list of file writes under way; a write truncates
(`Truncate`) and then fills (`Fill`) its file, or fails. Each state is one the directory may be left in. The loop's own reads pass unrecorded: the
company clock, the duplicate guard's, and those of the derived tools, which are given the client without its recorder.

**Paging** keeps on which side of the offset each row stands. Teammates' writes push rows across it. Its parts are named for the read
(`ReadInit`, `ReadNext`, `ReadSpec`), so that `ReadProofs` can extend it beside `RotIndex`.

**RotIndex** scans the Activity rows in any order, as pages and the server may bring them; `Add` is the body of
`load_activity_index`'s loop, and each variable a table of the index. `undated_` and `future_contact_*` are one set each for deals and
customers, since both make the contact's day unknown. `LastContacted`, `RotAge`, `Mirror`, `Boundary` and `Rotting` are the
functions that read it. Its deals are the open ones: a closed deal is never rotting and calibrates nothing.
`Strays` are rows that link a deal to another customer: the index drops them, the platform counts them. `Measured` says that
the platform's line could be read off both fresh and flagged deals. Every row has a `due_date`,
as the platform requires one on create (`docs/open_items.md:50`).

**DerivedReads** is one run of the model loop reduced to its derived tools, beside teammates and `--task log-contact`. An analysis is four
reads (`deals1`, `rows1`: what the canonical answer calls rotting; `deals2`, `rows2`: the rows), then kept in `analysis`; a page is cut from it, and shown
only as far as the loop's truncation leaves it, at any row (`Show`). `store` is the aggregates' cache, `told` the last answer to each question. Which deals
rot is free: a deal's line moves with the ages of all others (`RotIndex` has the rules). What is kept of it is the contact each one was judged
by (`flagged`, then `why` in the row). A completed call, meeting or email counts as a contact on its due date, whoever completed it; what
`log_contact` writes names the day itself. `Rewrites` gives a row any of the `Contents`, or takes it away: what teammates do, and what the run's own creates and updates
come to (`AgentLoop` has their gates). Only the section of open deals is paged.

**RefusalTask** follows `cmd_run` from file to file and page to page; `VerifyExit` is `cmd_verify`, an operator on the directory that may be asked in any
state. What a row holds tells who wrote it and in which run. An
agent whose request timed out goes on beside later runs (`busy`, the runs whose agent may be at work), until an answer says that it is done. `Bodies` are the replies that `probe` tells apart. A `Kill` may tear the file being written.

**FixtureLedger** has the integration test's commands: `Seed*`, `Controller` with the adversary's hits, `Agent` (a canonical run between
whose pause and write a hit may fall) and `Cleanup*`; `Stops` interrupts any of them between two steps, or in the middle of writing the ledger.
`cmd` is the one command under way; the agent of a Run C whose controller stopped goes on beside the next command, a cleanup too. Parties are in the ledger and
have no end. A cleanup closes the ledger's Activities, then asks for the agent's rows (`CleanupSweeps`), and passes over those without
the TAG in their subject (`Spares`): the subject repeats the deal's title, which a teammate may have changed (`MateRenames`). `mark_lost` closes a deal
only where its stage has the transition (`Closable`); that it answered False to the adversary is remembered in `spared` and nowhere in the code.
Its specification is `LedgerSpec`, since `TaskProofs` extends it beside `RefusalTask`.

`MC*` modules hold the values of constants for TLC. `*Proofs` modules hold the theorems, of the module of the same name; `ReadProofs` those of
`Paging` and `RotIndex`, `TaskProofs` those of `RefusalTask` and `FixtureLedger`.

## Runs

`tlc -config <name>.cfg <module>`; `PROJECT.json` names the module of each. Row ids are interchangeable in the two
passing `canonical` runs (symmetry), which check no liveness; no other run uses symmetry. Deadlock is not
checked: every one of these programs ends, and an ended run is a state without a successor.

| Run | Question | Bounds and why they suffice |
|---|---|---|
| `canonical_shared` | can a run write what it should not, or fail to answer for it? | two deals of one customer (a party row covers both), three rows (one per deal and one of a teammate), pages of one row, so that a second match lies beyond the page; two edits: one before and one after a re-read |
| `canonical_rerun` | may the task be started again, and does each request bind its run? | three starts, each with a request of its own: propose or create, named deals, a limit of 1, 0 or -1, test data included or not; one deal is a supplier's, one is a test deal and has no customer; no edits, so that every row is the agent's |
| `loop_budgets` | do the budgets hold, and does a run end? | budgets of six tokens and six ticks, calls that cost 1 or 3 and take 0 or 2, five rounds: a wrap-up falls into any of them |
| `loop_writes` | do the gates hold? | an empty book, and one where a cancelled row stands before an open one; three rows, pages of one row, two deals (one of no customer), calls that give fields once or twice (over the allow-list, a completed state, another record, null), three rounds, one edit |
| `central_report` | is the report whole, timely, ended? | limits of one or two ticks; deadlines inside the margin, in the middle, beyond, and none |
| `transport_handshake` | is there one handshake under any race, and does every operation end? | two callers, each of which ends two operations of any kind, of which a list may go on for ever |
| `artifact_files` | what may a directory be left as? | four tasks, three calls |
| `paging_reads` | what may a read miss, and does it end? | five rows, pages of two (three pages, the last one full or short), three writes, each of the five readers |
| `rot_index` | does what the index says depend on the order of the rows? can the agent make a deal look fresh? | up to three of eighteen rows, two of them with another customer than their deal's, in any order, one of them twice; three deals, two of one customer; seven days and two texts that are no date |
| `derived_reads` | what may the cached answers get wrong, and what not? | two deals of one customer, two rows, two pages of one rotting row each, an aggregate, three turns (a question, a write, the question again), one edit, one report, a server whose day is the company's or the next |
| `refusal_files` | what may verify conclude from a directory? | three rows in pages of one: a read of two ends with a short page, one of three meets the cap; two runs, so that files and agents of two runs mix; two writes of agents and one edit |
| `fixture_ledger` | what does the ledger lose, and what may a cleanup claim? | a party, the two deals that are hit and one with a contact and a planned Activity; two interruptions: one of a seed, a hit or a run, and one of the cleanup after it; one rename |

Type invariants are no properties of runs: they are theorems (`*TypeCorrect`) where a module has proofs.

### Where the code and its documents disagree

These configurations lie beside the runs. Each states what a comment, docstring or document says, and ends with that property violated. They run on the modules of
the runs of the same prefix (`canonical_` on `MCCanonicalRun`, `loop_` on `MCAgentLoop`, `central_` on `MCCentralRunner`, `transport_` on `Transport`,
`artifact_` on `RunArtifact`, `paging_` on `Paging`, `rot_` on `MCRotIndex`, `derived_` on `MCDerivedReads`, `refusal_` on `RefusalTask`,
`fixture_` on `MCFixtureLedger`). A `*_refuted` file holds several properties, all but the first in comments: TLC stops at the first violation, so one
is asked at a time.

| Configuration | Property | Statement | What the code does |
|---|---|---|---|
| `canonical_refuted` | `NoWriteAfterDenial` | `agent/refusal.py:12`: no write once a required entity was refused | a refused re-read of the deal is swallowed, and the create goes out |
| | `MovedDealNotWritten` | `docs/agent_contract.md:121`: a deal that moved is not written | when its re-read fails, the stage is not compared |
| | `DenialBecomesRefusal` | `docs/agent_contract.md:243`: a refusal on Deal or Activity becomes a RefusalResult | one in the write phase ends in an error |
| `canonical_late` | `OneAgentActionPerDeal` | `docs/agent_contract.md:13`: one Activity per eligible deal | a create served after its timeout, then a second start |
| `canonical_window` | `PageIsEnough` | `docs/agent_contract.md:191`: if one now exists, stop | cancelled rows fill the one page of the re-read |
| `loop_budget_refuted` | `WrapUpBeforeStop` | `harness/loop.py:453`: one wrap-up call before the budget ends | one dear call goes past both lines |
| | `WrapUpDecidesEnding` | `docs/architecture.md:80`: an unusable wrap-up ends as `token_budget` | in the last round it ends as `max_steps` |
| `loop_writes_refuted` | `CustomerChecked` | `harness/loop.py:307`: an open one on the deal's customer is found | the guard does not ask for the deal's own customer when the call names another |
| | `AtMostMaxRecords` | `harness/loop.py:242`: at most `max_writes` records | a create whose reply was lost is not counted |
| | `GuardAlwaysHolds` | `harness/loop.py:307`: the guard holds whatever the model checked | a deal given beside `data` and in it is checked for the one and stored for the other |
| | `PageIsEnough` | `harness/loop.py:305`: an open Activity on the deal stops the create | a cancelled row fills the one page the guard reads |
| | `ScopeIsKept` | `harness/loop.py:245`: everything outside the scope is blocked | the same: the allow-list is asked about the top level, the server about `data` |
| `loop_repeat` | `RepeatIsInHistory` | `harness/loop.py:624`: the result is still in your history | at the edge of the window it has just left it |
| `loop_crash` | `CreatesArePersisted` | `docs/agent_contract.md:259`: every call is persisted | the loop's own steps and ids are lost with its exception |
| `central_deadline` | `FinalBeforeDeadline` | `central_runner.py:100`: final before the evaluator stops | five floors and a thread pass the deadline |
| `central_exit` | `ExitsZero` | `central_runner.py:426`: always exit 0 | a save fails outside the tasks |
| `transport_refuted` | `BadCredentialIsNoRefusal` | `mcp/real_client.py:42`: a 401 is not a policy refusal | a 401 whose text says "unauthorized" is reported as one |
| | `OneInitialize` | `mcp/transport.py:156`: not two initialize requests | the notification fails and the handshake is begun again |
| | `ListEnds` | `mcp/transport.py:201`: a server that repeats a cursor would page for ever; stop instead | new cursors are followed without a limit |
| `artifact_refuted` | `StatusIsReadable` | `harness/artifacts.py:12`: left "running" or "failed" | the process dies between truncation and write |
| | `EveryCallTraced` | `harness/recording.py:7`: every call is appended | an unknown exception passes unrecorded |
| | `CompletedHasFinished` | `harness/artifacts.py:14`: never "completed" unfinished | a loop without an answer is completed |
| `paging_complete` | `CompleteIsWhole` | `agent/aggregate.py:45`: complete when every record was read | a copy stands in for a missed row |
| `rot_laundered` | `NoLaundering` | `agent/workflow.py:397`: the agent's task must not make a deal look fresh | see below |
| `derived_refuted` | `ReportIsTaken` | `runner.py:102`: the row is dated today because a past date is refused | in the company's evening its today is the server's yesterday (`tasks/it01/it01.py:101`) |
| | `OneRowPerReport` | `runner.py:100`: records a contact a person reports | run again after a lost reply, it creates the row again |
| | `PagesSuffice` | `agent/contact_status.py:255`: a section is read by following `next_offset` | a page longer than `RESULT_CHAR_BUDGET` is cut by the loop (`harness/loop.py:656`) while `next_offset` stays |
| `refusal_refuted` | `VerdictOfOneRun` | `tasks/mandatory_refusal_task.py:21`: the verdict is read from the run's result and status | files of an earlier run complete a killed run's directory |
| | `PassIsUnchanged` | `tasks/mandatory_refusal_task.py:20`: the snapshots show no change | a new row is skipped when a row before it is deleted during the read |
| | `EarlierAgentsShow` | `tasks/mandatory_refusal_task.py:20`: the snapshots show no change | the agent of an earlier run that timed out writes once the second snapshot has gone past the row |
| `fixture_refuted` | `SeedIsCleanable` | `tasks/it01/it01.py:107`: a failed seed is still cleanable | a record created just before the stop is not in the ledger |
| | `HitsHold` | `tasks/it01/it01.py:146`: the adversary closes the deal | `mark_lost`'s False is not looked at, and the run counts |
| | `NothingLeft` | `tasks/it01/it01.py:194`: the agent's own rows are closed too | a row whose subject lost the TAG is passed over, and nothing is said (`it01.py:199`) |
| | `AgentRowsAreClosed` | `tasks/it01/it01.py:194`: the agent's own rows are closed too | a run that failed lists none |
| | `ManualIsOpen` | `tasks/it01/it01.py:163`: a deal closed meanwhile needs no person | its note stays in the ledger until a cleanup runs to its end |
| | `HitComesFirst` | `tasks/it01/controller.py:81`: the pause gives the adversary a window | the pause ends by time, and the write may come before the hit |

`derived_sums` is the same model asked about aggregates alone: answers on one scope are made of the same records (`OneReadPerScope`). Its instance has two of them and four turns.

The agent's task must not make a deal look fresh (`NoLaundering`), and `rot_laundered` is a book in which it does. A row that joins a deal to
another customer is left out of the agent's ages (workflow.py:712) but not, as far as `platform_mirror_days` restates it, of the
platform's; a fresh deal kept fresh by it has a large age of the agent's, lifts `calibrate_rot_boundary`'s line above the
platform's, and a deal that the agent wrote to stays under it. `rot_index` has such rows too and checks `LaunderingHasCause`: a deal is
laundered only where such a row keeps a deal fresh that calibrates the line, or where the line could not be measured and the
fallback lies above the platform's. The platform's formula is taken from the docstring of `platform_mirror_days`: the latest of the
deal's `updated_at` and its rows' `created_at`.

### Fairness

Only the liveness properties need it (`FairSpec`, `FairReadSpec`). `AgentLoop` and `CentralRunner` assume that the program itself goes on (weak fairness of
its own steps): the model and the server answer or time out, because every request has a timeout. Task bodies may hang; only
`wait_for` and the shutdown of threads, whose requests time out, end them. `Transport` assumes that each caller
proceeds: a POST ends by its timeout and a lock given back is handed on. `Paging` assumes that a page that does not
fail is answered. Teammates and failures are never assumed to do anything.

## Proofs

| Theorem | Says | Inductive invariant |
|---|---|---|
| `TypeCorrect`, `AtMostOneCreate` | types; one create per deal and run | `TypeOK`; `WorkInv`: what was sent and what is still to come for a deal add up to at most one |
| `ContractKept` | `CanonicalRun` implements `RunContract` | step by step under the mapping, from `TypeOK` and `WorkInv` (`ContractStep`) |
| `AnswersAccount` | the answer lists all rows of the run | `AccountInv`: rows of this run are the created ids, or belong to the request on the wire |
| `ReportedWasThere` | a deal reported as having an action had one during the run | `SeenInv`: deals covered now, and those the index found covered, have been covered at some moment |
| `NothingOverlooked` | no create passes an action that its two pages could show | `RecheckInv`: after each re-read, what covers the deal is in `touched`, or in `hidden` beyond the page |
| `RerunsAddNothing` | any number of starts adds one action per deal | `QuietInv`: with no edits, a deal's row is the one its request brought, and is found by the next run |
| `LoopTypeCorrect`, `RefusedOnce` | types; no refused pair is called again | `GateInv`: what passed the gates was not refused and is within the policy |
| `OvershootBounded`, `WrapUpIsLast` | one call over; nothing after the wrap-up | `BudgetInv`: before the last call, the total was within the budget |
| `PolicyKept` | writes are allowed and counted; those that give no field twice stay in the scope | `GateInv` |
| `CreatesRecorded` | ids and rows agree | `RecordInv` |
| `GuardOverlooksNothing` | a create that gives no field twice is checked | `DuplicateInv`: what each of the guard's reads has covered, or left in `hidden` |
| `CentralTypeCorrect`, `ReportCurrent` | types; the file is whole, and current while a task runs (`ReportIsCurrent`) | `FileInv`: how `.tmp`, the file and the rows agree in each phase of a save |
| `ReportKept` | `CentralRunner` implements `ReportFile` | step by step under the mapping (`ReportStep`), from `ReportInv`: `FileInv`, and what breaks leaves the tasks for good |
| `LoopProbed` | no green loop without a green probe | `ProbeInv` |
| `ReportsComplete` | the report of a run that is over has all its rows | `RowsInv`: the rows are the expected ones up to the task under way, then `main`'s own |
| `LatenessIsBounded` | the bound on lateness for every limit | `TimeInv`: the clock is within the base, one floor per begun task, and the time due |
| `TransportTypeCorrect`, `HandshakeOnce`, `RequestsWait`, `LockHeldInHandshake` | the handshake | `LinkInv`, `HandshakeInv`: the lock, the stage of its holder, and what the server has seen agree |
| `IndexTypeCorrect`, `BestRowIsOpen`, `OneDateEverywhere`, `NeverMeansNever`, `NothingLaundered` | what the Activity index says, for every order of the rows; when alone the agent launders a deal (`LaunderingHasCause`) | `IndexInv`: each table is a function of the rows counted so far |
| `PagingTypeCorrect`, `NothingElseMissed`, `CopiesAreBounded`, `MissesAreBounded` | what a read by offset may miss or hold twice, and how much (`MissesNeedEdits`); with no writes, every row once | `SideInv`: a row before the offset was read or jumped; beyond it, no more copies than writes. `DoneInv`: a read that is done has nothing beyond. `JumpInv`: one jump per write |
| `ArtifactTypeCorrect`, `CompletedWhole`, `CompletedTraced`, `CrashDiagnosed` | what a run directory may be left as; `CompletedTraced` of a canonical or log-contact run | `StageInv`: the files by the writes still to come; `TraceInv` |
| `RefusalTypeCorrect`, `PassIsOnFile` | types; verify passes only a recorded pass | `VerdictInv`: a recorded verdict is the conjunction of the recorded assertions |
| `VerifyRepeats` | verify repeats the verdict of a run that ended | `SavedInv`, `EndedInv`: a run has saved what it has gone past; a status is of an earlier run, or its files are beside it |
| `AgentChangesShow` | what a run's agent wrote does not stand when verify passes that run, but for one kind of row | see below |
| `LedgerTypeCorrect`, `OrphansHaveStops` | types; a readable ledger misses a record per interrupted command | `OrphanInv`: the records no ledger names, with the one in hand, are no more than the stops |
| `CleanupLeavesNothing` | after a cleanup with nothing to report all it went by is over, except parties and untagged rows | `CleanInv`: what a cleanup has behind it is over, pending or spared, and nothing reopens it |
| `RunCHitTwice` | a Run C that came out well was hit twice: the rival is in the ledger, and the second deal closed, or `mark_lost` said it cannot be | `HitInv`: what each step of Run C leaves behind, up to its result |
| `DerivedTypeCorrect` | types | `DerivedTypeOK` |
| `ContactDatesAsSaid` | a last contact has a day that a report named or a completed row was due | `SpokenInv`: each contact row, and the report in hand, has its day in `spoke` |
| `StaleMeansWritten` | what a cached row says of contact and action, and why it rots, holds unless its deal was written about | `ReadsInv`, with `FreshInv`: what each of the four reads found of a deal still holds, while nothing is written about it |
| `TornMeansWritten` | passes that disagree were written between | `PassInv`, `TornInv`: the first pass's findings against the book, at each later read |
| `AggregatesAgree` | aggregates of one scope agree (`OneReadPerScope`) | `SumInv`: each answer is made of what is kept for its scope, and a scope is read only while nothing is kept for it |
| `PagesFollow` | pages followed by `next_offset` show no deal twice, and none is left out unless a page was truncated | `ViewInv`: what was told of a page is a beginning of that page of the analysis kept, a list with one row per deal; offsets that follow each other leave no row out and take none twice |

No theorem has hypotheses beyond the assumptions on constants, which each module states and TLC evaluates. All invariants were first
checked by TLC.

`NothingLaundered` argues from four lemmas: on a deal the agent did not write to, the platform's own level is what it would be anyway
(`UnwrittenKeepsAge`); on any deal, the mirror is never below the platform's age (`MirrorIsOlder`) and equals it on an unwritten deal without strays (`MirrorIsPlatformAge`), so the calibrated line
is at most one day above the oldest deal the platform calls fresh (`BoundaryIsCautious`).

`AgentChangesShow` needs the whole run: the first snapshot has nothing of the run's (`FreshInv`), an agent that answered writes no more
(`AnsweredInv`), so a row that stands was there under the whole second snapshot. `SightInv` says that the read has it once it has gone
past its place, unless a row was deleted: without a deletion places only grow (`PlacesStay`), and a short page holds the last
place because every smaller place is a row's (`PlacesFilled`, `ShortIsLast`). `TakenInv` carries that to the end, `JudgedInv` to the
files. Agents of earlier runs may write all the while; what they wrote is told apart by its run.

Only model-checked: `Terminates`, `Ends`, `OperationsEnd` and `ReadEnds`, liveness under fairness, which is beyond the prover.

## Assumptions about what lies outside

* The order of a list is the server's. `Paging` assumes that a write may bring a row to an earlier place; the client
  asks for lists in descending order without naming a field.
* No Activity row is deleted, except in `RefusalTask` and `DerivedReads`, where one may be. A teammate may cancel or complete a row, or move it to another deal or customer.
* A request is served at most once, and at most one create is on its way per run.
* `ThreadTime` in `CentralRunner` stands for the longest an abandoned worker thread's request may take.

## Not modelled

* Of the canonical task: the ranking of deals; the first-contact, last-call and contact-type tables; time zones and times of day; texts.
* Of the derived tools: the sections other than open deals, quotes, orders and the must-report lines; the arithmetic of the sums, a
  pure function of the records read; midnight between the two passes, each of which reads the clock (`agent/contact_status.py:93`): `Today` is constant.
* Of the tool names: the table and the generic surface, which passes both envelopes on to the server as they are.
* Of preflight: the comparison of the catalogue, and of the advisory checks all but their reads: pure functions over rows.
* Of the LLM client: HTTP payloads, the retry without `max_tokens`, the transient retries inside a call. Their tokens and time are part of a call's cost.
* Of the integration test: the adversary's second close (D16, of Run D) and the completed Activities that the scenario seeds for other runs, which
  a cleanup treats as it does `contact`; the snapshots, Runs D to F, and the gates of `verify.py`, which only read artifacts.
* Parsing of arguments, environment and JSON; the patterns of the request guard; the stub client; the event log; the gap
  report and the tests.

`PROJECT.json` gives each part's reason.

## Plan

1. Done: the canonical task on a shared book with its contract; the loop; the central runner; the transport; the run directory; paging;
   the Activity index; the derived tools with log-contact; the refusal task; the integration fixtures.
2. To model next: the retries of the LLM client and of `_call_with_retry` with their token accounting; the rows' `updated_at` in the
   platform's age; midnight in `DerivedReads`; the composition of `RunArtifact` with the loop's crash; Runs D to F.
3. To state and prove next: a write gate, as an abstract specification that `AgentLoop` and `CanonicalRun` both implement.
