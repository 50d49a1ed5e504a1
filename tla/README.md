# StableLabel in TLA+

StableLabel labels the files of Microsoft 365 tenants with sensitivity labels.
This directory holds TLA+ models of its code, the TLC configurations that check
them, and proofs for TLAPS. The product that runs as a service
(`server/stablelabel-api`) is the core; the desktop product
(`desktop/`) is an Electron shell over a PowerShell module. Both have a user
interface that keeps state of its own, the web client and the renderer.

## 1. The system

| Part | State it keeps | Operations | Hard behaviour |
| --- | --- | --- | --- |
| Job control API (`app/routers/jobs.py`, `app/core/job_states.py`, `app/core/redis.py`) | the `jobs` row; the Redis key `job:{id}:signal` | create, start, pause, resume, cancel, rollback, copy, update; the progress stream | commits first, dispatches or signals afterwards; locks a row that the worker writes without a lock |
| Job executor (`app/worker/executor.py`) | `job_checkpoints`; its own lists and counters; the labels in SharePoint | enumerate, label, roll back, stop on a signal | crash between a Graph call and its commit; several executors on one job; resume from the latest checkpoint |
| Worker settings and scheduler (`app/worker/settings.py`, `cron_eval.py`) | the arq queue; clones of scheduled jobs | run_job, rollback_job, sync_labels, trigger_scheduled_jobs | redelivery after a crash, timeout without retry, commit then enqueue, duplicate guard |
| Deferred classification (`app/worker/deferred_classify.py`) | scan results; the job's counters | classify and label one large file | relative increments against the executor's absolute writes; runs after its job has ended |
| Policy engine and classifier (`app/services/policy_engine.py`, `classifier.py`, `sit_*.py`) | none | evaluate policies, find evidence, split a text in chunks and merge the matches | priorities, proximity, overlapping chunks |
| Document service (`app/services/document_service.py`) | none; the label of a file | apply, verify, bulk apply, bulk remove | guard order, silent failure, partial bulk results |
| Graph client, token manager, rate limiter (`app/services/graph_client.py`, `app/core/auth.py`, `rate_limiter.py`) | tokens, one token bucket per tenant | request with retries, paging, polling, acquire | retry budget, one refresh on 401, concurrent waits on a bucket, eviction |
| Label service and sync (`app/services/label_service.py`, `label_sync.py`) | label cache; label rows | list, get, guards, upsert for all tenants | stale cache; one tenant's failure inside a shared session |
| Tenants, onboarding, users, roles (`app/routers/tenants.py`, `onboard.py`, `users.py`, `app/core/rbac.py`, `entra_auth.py`) | tenant rows with their consent status, users, grants | connect, consent, disconnect, provision, grant, check | consent callback against confirmation, grants replaced while used |
| Management, reports, audit, sites | rows, read-only queries | CRUD | none of their own |
| Web client (`server/stablelabel-web`) | the selected tenant, rows, dialogs, drafts, the calls in flight | load, page, act, build a policy, read a spreadsheet, draw reports | answers that overtake each other or come after the tenant has changed; fields that stay behind a changed mode |
| PowerShell bridge and command registry (`desktop/stablelabel-gui/src/powershell-bridge.ts`, `cmdlet-registry.ts`) | one child process, a queue of commands, the two output buffers | build, invoke, time out, retry, restart, dispose | replies are found by a marker in a stream that commands share |
| Classifier bridge (`classifier-bridge.ts`) | one child process, a queue of requests, the pending one | start, invoke, time out, dispose | late answers, an exit while starting or with requests pending |
| Desktop job runner (`local-job-runner.ts`, `policy-evaluator.ts`), main process (`main.ts`) | one job in memory, the preferences, the windows | start, pause, resume, cancel; save preferences | a loop that looks at its flags between awaits |
| Desktop user interface (`src/renderer`) | tabs, the workspace, forms, dialogs, policies, their runs | open, edit, save, delete, run, schedule | components React keeps for another tab, functions that go on after their page has been left |
| PowerShell module (`desktop/StableLabel`) | connection state, snapshot files, audit log | bulk labels, snapshots, restore, retries | restore that fails half-way |
| Classifier service (`desktop/stablelabel-classifier`) | none | one request per line | one line answers one line |

The parts meet like this. A user calls the control API, which locks the job's
row, writes the new status and commits; then it enqueues a task in Redis
(start, resume, rollback) or sets the signal key (pause, cancel). An arq worker
takes the task and runs a `JobExecutor`, which reads the row and the
checkpoint log, calls Graph through the document service, and commits a
checkpoint and the row's counters after each site or batch. It looks at the
signal key between sites, drives and batches. Nothing ties a task to the
status it was dispatched for: two tasks of one job may run at the same time,
and the executor overwrites the row without the API's lock.

The web client calls the API with the user's token; every page has a tenant
selector of its own and loads anew when it changes, while the calls made before
are still under way. On the desktop the renderer sends commands to the main
process, which builds a PowerShell command line of each and queues it for the one
PowerShell process; jobs and preferences live in the main process and outlast the
page that began them. The job runner awaits PowerShell and the classifier.

What makes each part correct:

* control API: every status change is an arrow of the documented diagram;
  whatever the interleaving, an active job has somebody working on it and
  reaches an end;
* executor: the checkpoint log is single-valued (a site once, a file once), the
  row's counters are the log's, completion means the whole manifest was
  processed, rollback restores, a dry run writes nothing, a crash is invisible;
* scheduler: one clone per due minute, none lost; deferred tasks: no lost
  increment; document service: no guard is passed over, the bulk totals add up;
  rate limiter: the budget of a tenant is never exceeded; label sync: what is
  committed is what Graph returned; tenants: only a consented tenant is worked
  on;
* web client: what is sent is what the user saw, for the tenant selected at the
  click; what is shown is what is selected; nothing spins for ever;
* bridges: one answer per request, of that request; desktop job: its counters are
  its results, a cancelled job labels no more;
* renderer: a form, a dialog or a detail belongs to the tab it is in; what is
  removed was named to the user; a run does no more than it was asked.

## 2. The modules

| Module | Models | Kind |
| --- | --- | --- |
| `JobStates` | the transition table of `job_states.py` and the diagram of `jobs.py` | tables |
| `JobStore` | the shared stores: the row and log in PostgreSQL, the signal key, the queue, the labels in SharePoint, plus each executor's memory; the queries on the log | state, types |
| `JobApi` | `job_action`: accept, commit, then dispatch or signal | actions |
| `JobExecutor` | `run_job`, `rollback_job`, `JobExecutor` and arq's part in them | actions |
| `JobSystem` | the composition for one job; all the properties | specification |
| `JobProgress` | what an undisturbed labelling job promises | abstract specification |
| `JobSystem_proofs` | theorems about the control, the enumeration, the log, the counters, the labels, the completion and the rollback of `JobSystem`, and the steps of its refinement | proofs |
| `MCJobSystem` | the small instances | TLC |
| `DeferredLabelling` | the labelling phase of a policy-driven job together with `classify_and_label_file` | specification |
| `DeferredLabelling_proofs` | theorems about `DeferredLabelling` | proofs |
| `Scheduler`, `MCScheduler` | `trigger_scheduled_jobs` under arq's cron and worker slots | specification, TLC |
| `Scheduler_proofs` | theorems about `Scheduler` | proofs |
| `JobAdmission` | concurrent requests over the jobs of one tenant: `create_job`, `update_job`, copy, the limit of active jobs, the row lock | specification |
| `JobAdmission_proofs` | theorems about `JobAdmission` | proofs |
| `PowerShellBridge` | callers, queue, markers, the two output streams and the processes of `powershell-bridge.ts` | specification |
| `PowerShellBridge_proofs` | theorems about `PowerShellBridge` | proofs |
| `ClassifierBridge` | `classifier-bridge.ts` and its process | actions |
| `LocalJobRunner` | `local-job-runner.ts` | actions |
| `DesktopMain`, `MCDesktopMain` | the handlers of `main.ts` over the runner and the classifier bridge, on one thread | specification, TLC |
| `DesktopMain_proofs` | theorems about `DesktopMain` | proofs |
| `WebSession` | the user, the route, `useTenants`, the API calls in flight | state, actions |
| `WebJobs` | `JobsPage.tsx` with its dialog and panel, and the endpoints of jobs | actions |
| `WebRules` | `RuleBuilder.tsx` and when a rule matches without evidence | operators |
| `WebPolicies` | `PoliciesPage.tsx`, `SitPicker.tsx`, and the endpoints of policies | actions |
| `WebAutoLabel` | `AutoLabelPage.tsx`: the overview, the upload, the spreadsheet parser | actions |
| `WebViews` | Dashboard, Reports, Labels, Audit and Explorer: what is loaded and drawn | actions |
| `WebSecurity` | `SecurityPage.tsx` and the endpoints of tenants and onboarding | actions |
| `WebClient`, `MCWebClient` | the router over all pages and one server | specification, TLC |
| `WebClient_proofs` | theorems about `WebClient` | proofs |
| `CommandRegistry` | `cmdlet-registry.ts`: every cmdlet, what `buildCommand` makes of parameters | operators |
| `RendererSession` | the mounted page and the queue of commands behind `usePowerShell` | state, actions |
| `LabelTabs` | the Labels page: lists, tabs, details, forms, deletion | actions |
| `ClassifyPolicies` | the Classify & Label page: policies, wizard, runs, schedule | actions |
| `Renderer`, `MCRenderer` | `App.tsx` over both pages | specification, TLC |
| `Renderer_proofs` | theorems about `Renderer` | proofs |

`JobStore` declares the variables; `JobApi` and `JobExecutor` extend it with the
actions of the two kinds of process, and `JobSystem` extends both. The other three
specifications each look at what `JobSystem` holds fixed: what a batch does with
large files, where scheduled jobs come from, and several jobs and requests at once.
`DesktopMain` extends `LocalJobRunner` and `ClassifierBridge`. `WebClient` extends the
modules of the pages, which all extend `WebSession`; `WebJobs` takes the transition
table of the API from `JobStates`. `Renderer` extends `LabelTabs` and
`ClassifyPolicies`, which extend `RendererSession` and with it `CommandRegistry`.

### How the model corresponds to the code

* `job` is the row's `status`, `total_files`, `processed_files`. `cps` is the set
  of checkpoint rows; the keys of `scope_cursor` that the code reads back are
  fields of the record. `signal` is the Redis key. `task[t]` is the t-th task
  enqueued for the job, with arq's try count. `w[t]` and `mem[t]` are the local
  variables of the executor that runs it; they vanish when the task leaves
  the worker (`Leave`).
* Every `await` at which another process may intervene separates two actions:
  `BeginTask` (load the row), `EnumInit`, one `ListSite` per site with its
  commit, `AfterEnum` (refresh) and `ToRunning` (write) apart from each other,
  `LabelInit`, `NextBatch` (look at the signal), `Capture` (extract the former
  label), `ApplyLabel` and its two failing variants, `CommitBatch`, `AfterLabel`
  and `Complete`, and the same for rollback. `AckSignal` deletes the key and
  `StopOnSignal` commits, in the order of `_handle_signal`.
* `Commit` is every commit of a checkpoint. If the unique constraint refuses the
  row, SQLAlchemy's session is in a failed transaction, `db.refresh` in the
  `except` block of `run` raises as well, and the task ends with the row
  as it was.
* `WithStatus` is SQLAlchemy's unit of work: an assignment of the value that the
  session had loaded emits no UPDATE.
* A failing call is a disjunct of its own guarded by `Fault`, which uses up the
  bound `MaxFaults`: `SkipSite`, a drive missing from a `Listing`, `Raise`,
  `LabelConfigFails`, `ApplyRefused`, `ApplyUnknown` (silent failure, timeout,
  still running), `UndoFails`, `Timeout`, `LoseDispatch`, `SignalExpires`. Which
  files a drive returns is not a fault: `Listing[s]` holds every result of
  walking site `s`.
* `excused` is a history variable. It collects the files whose way back to the
  former label something outside the rollback's control has cut off: a crash
  between labelling and commit, an unknown outcome, a failed capture or undo, or
  a worker that labels after the rollback has read the log. A rollback that ends
  early excuses nothing.
* `halfway` is another. It notes that a rollback a signal had stopped was taken for
  one that had ended: `run_rollback` re-reads the row and asks only whether it is
  `rolling_back` (`executor.py:162`), which it is again if the user has asked for
  another rollback meanwhile.
* `skipped`, `failed` and `labelled` are one count: the code only ever uses their
  sum for the row's progress.

* `DeferredLabelling`: `ex` is the executor with its own tally (`count`), the
  column values its session knows (`seen`) and the scan results it has added but
  not committed (`pending`). `Assign` is the unit of work again: only a column
  whose value differs from the session's is written, absolutely. `sub[s]` is the
  task of the deferred row `s`; `SubResolves` and `SubCounts` are its two
  transactions. `SubRaises` is its `except` block, which records and counts a
  failure whatever came before. Many files are abstracted to how they may end:
  skipped, labelled, failed, or unanswered. A row of `scan_results` is a file and
  the delivery that wrote it, because a repeated batch writes a second row.
* `Scheduler`: `tick[m]` is the cron task arq queued for minute `m`. It may begin
  late, when a slot is free, and reads the clock only then (`now`). `txn` is what
  PostgreSQL's `now()` yields, the minute in which the transaction began; it
  becomes the `created_at` of a clone. `Due` says when an expression matches;
  `Broken` holds the sources whose expression raises. A copy made by a user is a
  recent row to the guard and nothing else here: that it is itself a scheduled
  job (`schedule_cron` is copied) is left out.
* `JobAdmission`: a start is two actions, `Count` (lock the row, count) and `Admit`
  (check, commit, release), and so is an update, `ReadForUpdate` and
  `WriteUpdate`, without a lock. The other requests do nothing between lock and
  commit that another one could disturb, and are one action. `starts` and `begun`
  are history variables: accepted starts, and the active jobs whose latest
  activation was a start (resume, rollback and the scheduler pass the limit by).

* `PowerShellBridge`: one step is one task of Node's event loop with the microtasks
  it leaves behind. `br` is the object's fields; `br.cur` stands for the current
  marker with its `resolve` and `reject`, `br.out` and `br.err` for the two buffers
  since that command was written. What comes over stdout is a sequence of items, the
  object of a command and its marker, which two statements print
  (`powershell-bridge.ts:421`): `Execute` runs the first and leaves the marker due,
  `PrintMarker` the second, and anything may happen in between. `br.out` is the one
  buffer that the handlers of all processes append to (`:254-290`), so an object of one
  may stand before the marker of another; `from` tells whose it is (a history). An item
  stands for whole lines. `ps[p].todo` is what was written to stdin and not yet run. A
  process that a second caller spawns while the first is being initialised takes
  the place of the first in `br.proc`; the first goes on and its output is heard.
* `ClassifierBridge`: answers carry the id of their request, so the pending request
  is `cb.cur` and a line whose id is not that is dropped. `cb.startup` is the
  pending `__startup__`; a process that comes up late after the startup has timed
  out may answer a later startup.
* `LocalJobRunner`: `job.pc` names the await the runner stands at, or, in `Inner`,
  the code it runs before the next one; nothing else of the process runs then
  (`ThreadFree`). The cmdlet registry of this commit refuses the `IncludeContent`
  that `classifyFile` passes, so no file's content is ever read, and it refuses the
  `Recurse` with which `enumerate` lists a site (`local-job-runner.ts:210`), so that
  as coded the desktop job never lists a file. The model keeps both outcomes of either
  call: what the program does is a small part of it, and what is shown of the job is
  about the runner, with a registry that knows what it is sent.
* `WebSession`: `net` has a slot per call. The server handles a call in one step and
  the page takes the answer in another, so answers overtake each other. `Left` and
  `Aborted` are the AbortControllers and the unmounting: reads are dropped, writes go
  on and are not heard of. `visits` bounds what a session is: the pages, the kinds
  of clicks, their number, and the calls that fail.
* `WebJobs`: a job keeps what was asked of it (`asked`, the dialog as it was shown at
  the submit) beside what was sent (`config`). A cron expression is a preset's, one
  that was typed, sound or malformed, or empty. `WebAutoLabel`: a cell is a sequence
  of characters that the code tells apart (quote, comma, blank, line break, other);
  the text of the sheet is trimmed, split into lines and parsed as the code does.
  `WebViews`: a chart is the function from marks on its axis to what is drawn there.
* `CommandRegistry`: a parameter's value is known by its kind only (empty, text, a
  number, a list ...), which is what `buildCommand` looks at. Every cmdlet of the
  registry is there.
* `RendererSession`: `calls` is the bridge's queue seen from the renderer, in its order;
  a throttled command joins the end of it again. An answer goes to the
  continuation of the page that asked (`for`, `at`), mounted or not.
* `LabelTabs`: `ws` is the component in the workspace; `Turn` says when React keeps it
  for another tab. `ws.from`, `ws.named` and `ws.settled` are history fields: whose
  policy the fields of a form were filled from, whom a dialog named when it opened, and
  whether anything was awaited then. A dialog covers the page for the mouse; that the
  keyboard reaches what is under it (`ConfirmDialog.tsx` traps no focus) is left out.
* `ClassifyPolicies`: `runs` are the calls of `runPolicy` that have not returned, each
  with the policies it closes over (`base`) and what it has sent to `job:start`
  (`JobConfig`); `JobDoes` is what the runner makes of that, and `did` collects what
  jobs and scans have done. `main` is what the main process keeps. `FallBack` has both
  its ways in: a job that is refused and a `jobStart` that throws.

### `UniqueScope`: the constraint as declared and as presupposed

`uq_job_batch` (`app/db/models.py:232`) makes `(job_id, batch_number)` unique for
all checkpoint types together, but `_enumerate`, `_label` and `_rollback` each
number from 0. With the constraint as declared (`UniqueScope = "job"`) the first
labelling commit of a job that enumerated a site is refused: that is the finding
of run `stuck_running`. Everything behind that commit could not be reached, so
the runs that examine the protocol itself use `UniqueScope = "type"`, the
numbering that the executor presupposes. `stuck_running` uses the declared
constraint, so the finding does not depend on the presupposed one. The theorems
hold for both.

## 3. The runs

| Run | Asks | Bounds |
| --- | --- | --- |
| `crash_recovery` | are the counters those of the log, is a completed job complete, does a rollback restore, does a dry run ever write, and does an active job come to an end, whatever crashes? | one site of two listings, two files, batches of one, dry or not; start, cancel and rollback, two requests; 2 crashes, 2 tries, 1 fault, with fairness |
| `progress` | does a job with a crash look like `JobProgress`? | two sites (three files), batches of two, 1 crash, no fault, with fairness |
| `overlap` | is the log single-valued under two executors, and is a rollback that was stopped ever taken for done? | two sites, two files, batches of one, three requests of start, pause, resume and rollback |
| `stuck_running` (violation) | the declared constraint stops every job at its first batch | one start |
| `deferred` | do results, counters and placeholders of deferred files agree, and does every file of a completed job get its result? | three files, one of them large, batches of two, 2 deliveries, 1 crash, 1 fault, with fairness |
| `schedule` | does a tick serve each due job, and once? | two minutes, three sources (one broken), 2 slots, 1 copy, 1 fault |
| `admission` | what does the lock guarantee to concurrent requests? | two requests, three jobs, a limit of one, one edit |
| `bridge` | is an answer ever that of another command, and is every command answered? | two callers, one retry, 2 processes, 1 fault (a crash, a hang or an overflow), with fairness |
| `desktop_job` | do the job's counters, its results and its end agree with what was asked, and is every request to the classifier settled? | two sites, two files, batches of two, 4 configurations, 3 requests, 2 processes, 1 crash, with fairness |
| `web` | is what reaches the API what the user saw, and what is shown what is selected? | two tenants, two calls at once, pages of one row, 17 kinds of visit of up to 7 clicks and one failing call, with fairness |
| `renderer` | do tabs, dialogs, forms and runs stay those of their policies? | two policies of each kind, two sites of one name, 10 kinds of sitting of up to 8 clicks, two commands ahead of their answers, one failure or one throttling, with fairness |
| `edits_cross_tabs` (violation) | a form saves one policy's fields into another | one sitting of 7 clicks |

Why the bounds are enough. Two sites are needed for the second checkpoint of an
enumeration to be fenced off or resumed from; three files with batches of two
give a full and a partial batch; batches of one give two labelling checkpoints
with two files. One file carries a label before the job and the other does not,
so both branches of the undo are taken. Three requests are what the
interleavings with two executors on a job need (start, pause, resume), and what it
takes to stop a rollback and ask for another (pause, rollback, rollback on a job that
the scheduler has started). In
`crash_recovery` two requests are a start and a cancel or, once the job has ended,
a rollback. Two crashes with two tries include the delivery that
is refused. `MaxRequests`, `MaxCrashes` and `MaxFaults` are the model's bounds;
`MaxTries` and `BatchSize` are the program's parameters (2 and 50), the
latter made small.

In `DeferredLabelling` a large file at the end of the first batch makes the
placeholder commit flush the result before it, puts the deferred task beside a
later batch, and lets a crash repeat the batch with the placeholder in it; the
second delivery is the redelivery after that crash or a resume. In `Scheduler` two
minutes are enough for a late tick to meet the next one, and two slots for them
to run together. In `JobAdmission` two requests and a limit of one make the race
for the last place; the theorems hold for any number of either.

In `PowerShellBridge` two callers are enough for one to wait behind the other, for a
second process to be spawned beside one that is coming up, and for output of a
command that was given up to be heard while the next one is current; the limit of
the queue is not reached with two callers (each has one entry in it). In
`DesktopMain` two files and a third id let a late answer meet a later request of the
job or of the renderer, and two processes a restart. A session of the web client is
one `visit`: a page, or two, with a few kinds of clicks, so that the interleavings of
the calls of each dialog are explored in full without multiplying the pages with
each other; two slots are enough for an answer to be overtaken, and pages of one row
for a page number to be beyond the end. The sittings of the renderer are chosen the
same way; two commands ahead of the answers are enough for one to be stale.

Deadlock is not checked: a job that has ended and has no request left stops, and
so do a finished deferred job, a schedule whose minutes are used up, a tenant
whose jobs have all ended, bridges without a request, and users who have gone.

Fairness. `WF(ApiSettle)`: a live API process runs on to the statement after its
commit. `WF(Work(t))`: arq starts a queued task and a live worker's coroutine goes on.
In `deferred`, `WF(Execute)` and `WF(Classify(s))` say the same of the executor and of
each deferred task. Nothing is assumed of users, of crashes, or of faults; `Disrupt`,
`LoseDispatch` and `SignalExpires` are not fair. `JobSettles` excepts behaviours with
a fault or with as many crashes as a task has tries: a lost dispatch or a timeout
leaves a job active for good, which the code accepts (`job_timeout` without retry, no
outbox). In `bridge` the timers of a command, of a retry and of `dispose`, and the
handlers of each process are fair, and PowerShell itself is not: a hung command must
be answered by its timer. In `desktop_job` it is the runner and the event loop of the
bridge, not the classifier. In `web`, `WF(Runs)`: the server answers and the page
takes answers; in `renderer` it is PowerShell, the main process and the page's own
continuations. No user has to click.

### The properties

* `CountersMatchLog`, `ProgressNeverGoesBack`: the row against the log.
* `SitesListedOnce`, `EachFileLoggedOnce`: the log under concurrent writers.
* `CompletedMeansProcessed`: completion against the manifest and the sites.
* `RollbackRestores`, `DryRunTouchesNothing`: the labels against the log.
  `RollbackRestores` excepts the files in `excused` and the jobs in which a rollback was
  taken for done half-way (`halfway`); that every other stopped rollback leaves its job
  not rolled back is a part of what it says, in both runs that check it.
* `JobSettles`: liveness. `RefinesProgress`: the abstract specification, with
  `sites`, `total` and `done` read off the log; a crash is a stutter.
* `NeverOvercounts`, `ResultsAreTrue`, `CompletedAccountsForAll`, `EachFileResolves`:
  the deferred path. The counters may be too low (`CountsEveryResult`, section 5):
  `NeverOvercounts` bounds them from above only. A crash, an error or a redelivery
  adds at most one each; a file recorded as labelled is labelled; a completed job that
  lost nothing has a result or a task in hand for every file. One that crashed between
  placeholder and enqueue may keep a placeholder nobody resolves: that is excepted.
  `EachFileResolves` needs `MaxCrashes < MaxTries`.
* `NoTwinsInTurn`, `TickServesSoundJobs`: the scheduler's guard and what a tick
  leaves behind. A tick that is cut short between the clone's commit and its
  dispatch leaves a job nobody works on; the property names that case.
* `StartedAtMostOnce`, `OvershootBounded`: what the row lock does guarantee.
* `AnswersAreTrue`, `CommandsSettle`: the PowerShell bridge. An object that the process
  of the command has printed means that the command took effect, once for all its
  retries; the text of an error that it did not. A success without data means neither,
  nor does an object that another process has printed (`ObjectsAreOnesOwn`, section 5).
* `CountersMatchResults`, `CancelHolds`, `OwnAnalysis`, `JobEnds`: the desktop job and
  the classifier's requests. `JobEnds` excepts a paused job, cancelled or not.
* `JobsAreAsShown`: what is sent, and what the copies of a job keep, against the dialog
  as it was at the submit, with the schedule picked from the presets, typed, or
  emptied; an emptied one is none (`ScheduledJobsRecur`, section 5). That an action on
  a stale row stays within its tenant is one guard of the server, and no property.
* `PoliciesNeedEvidence`: no sequence of additions, cleared fields and removals in the
  rule builder makes a policy that matches a file without anything found in it (the
  type of a condition is chosen when it is added). `RemovesWhatTheSheetLists`: trimming,
  splitting into lines and parsing against a reference reading of the sheet, for
  sheets none of whose cells holds a line break.
* `ViewsShowWhatIsSelected`, `ChartsAddUp`: late answers, and the pivots of the reports
  against the rows they count; detections are bounded from above only. `SpinnersEnd`:
  liveness of all pages, but for the overview of the reports, whose `loading` nothing
  shows; that the user sees the answer of a dialog that was taken off the screen is not
  said.
* `CallsKeepTheContract`: each command the renderer can send names a cmdlet of the
  registry, only its parameters, the locations of an auto-label policy among them, and
  all required ones.
* `TabsAreSound`, `DetailsShowTheirTab`: the Labels page. `AsksBeforeItRemoves`: if
  nothing was awaited when a dialog opened, what is removed is what the dialog named
  then; otherwise an answer may change what is under it (section 5).
* `RunsDoAsAsked`, `OneRunAtATime`: the runs of the other page, across their fallback,
  the schedule and a page that is left. `RunsDoAsAsked` compares what the runner and
  the scans do with the policy: the dry run, the sites, the label, for a job the
  entities, for a scan the extensions and what it skips.
* `WorkEnds`: every command is answered, every form and list comes to rest, every job
  and scan ends, and so does every run of the page that is shown. The run of a page that
  was left may wait for ever (`EveryRunReturns`, section 5).
* `TypeOK` of the later specifications (`Scheduler`, `PowerShellBridge`, `DesktopMain`,
  `WebClient`, `Renderer`) holds on the same instances; only those of `JobSystem`,
  `DeferredLabelling` and `JobAdmission`, which say more than types, are among the runs'
  properties.
* Properties that no run checks, because the code does not have them, are defined
  beside the others and named in section 5.

## 4. What is proved

`JobSystem_proofs` proves, for all values of the constants under
`StoreAssumption`:

* `SpecControl`: `ControlOK`, the part of the type invariant that speaks of the row,
  the queue and the executors' control, not of the lists they carry, with
  `TriesLeft`: a task in the queue has a try left.
* `SpecSitesListedOnce`: the enumeration log is single-valued however many
  executors list a job. `SitesListedOnce` is not inductive. The argument is
  fencing by batch number: checkpoints are `Numbered` without gaps, and every
  executor that may still list is `Positioned`: it has read all checkpoints below
  its own next number and its sites cover theirs. So if another executor commits
  a checkpoint, its number is free, hence not below anybody's, and
  everyone who stood at that number is refused at commit. `EnumInv` is the
  conjunction; `LogGrows` is the step that matters and `LogKept` all others.
  TLC checked `EnumInv` on instances with overlapping executors, with crashes and
  rollback, and with the declared constraint, before it was proved.

The second part of the module goes on from `EnumInv` to the rest of the log. What is
said of sequences is proved by the least counterexample (`NatLessThanWellFounded` and
`WFMin`), since the induction theorems of the library cannot be used (they take an
operator as a parameter); the concatenations `Manifest` and `AllApplied` are unfolded
at their last batch by `FlattenSeq`.

* `SpecLogInv`. `LogInv` is `EnumInv`, the types of the lists (`DataOK`) and `LogFits`:
  checkpoints of a type are numbered from 0 without gaps (`Dense`); the row's counters
  are those of the latest checkpoint (`RowFits`); an executor that lists counts on from
  the checkpoint before its own (`ListFits`); one that labels has a prefix of the
  manifest, goes on where that checkpoint stopped and stays in its batch
  (`LabelFits`); one that undoes an entry has one (`UndoFits`); and the entries of a dry
  run are dry (`DryFits`). The fencing by batch number is the argument again: an
  executor whose number is taken is refused at commit, so what it holds does not
  matter. With it come `SpecTypeOK`, `SpecCountersMatchLog`,
  `SpecDryRunTouchesNothing` and `SpecProgressNeverGoesBack`.
* `SpecEachFileLoggedOnce`, under `FilesInOnePlace`: a file is listed at one place of
  one site. Graph lists a drive item under one parent, but the code does not check it,
  and without it the property is false: a file listed twice is labelled twice.
  `OnceInv`: the manifest repeats no file, because the log completes no site twice
  (`SitesListedOnce`); what has been logged lies in the manifest before the position
  of the newest labelling checkpoint; and an executor whose batch number is still free
  has its own batch behind that position (`InHand`).
* `SpecCompletedMeansProcessed`, under `"resume" \notin Allowed`. The hypothesis is
  needed: TLC refutes the property with a resume (`jobs.py:442`, section 5). Without
  one, one run of the job is dispatched at most (`RunOnce`), and `RunFits` says what
  that run may rely on where it stands: which sites are listed, that its files are the
  whole manifest, and that the newest checkpoint is at its end when it completes.
* `SpecRollbackRestores`, under `FilesInOnePlace`. `RestoreInv` accounts for the
  former label of each file: it is on the file, or it is in an entry of the log or of
  an executor's batch (`LabelsNoted`), or the file is excused, which only a fault, a
  crash in a batch or an executor that outlives the rollback does. Entries and notes
  speak the truth (`EntriesTrue`, `NotesTrue`), an undo restores what its entry says
  (`UndoTrue`), and the log of the rollback tells which entries have been undone
  (`CheckpointsTrue`, `RolledBack`). `RestoreFrame` reduces a step to what moves: an
  executor's hand, the labels, the log or the status. A file listed twice would be
  noted a second time with the new label as its former one, hence the hypothesis.
  `EndInv` is about how a rollback ends: an executor whose `_rollback` has returned
  early was stopped by a signal or had nothing to undo, and one that is about to write
  `rolled_back` has gone through all its entries, or `halfway` is noted.
* `SpecRefinesProgressSteps`, under the hypotheses of the run `progress`: only a
  start, no fault, any number of crashes. Every step is one of `JobProgress` or
  leaves `sites`, `total` and `done` alone. `PlainInv` says what is special about such
  a job: one executor is at work at most, the row tells its phase, and what it
  holds is where the log ends. The fairness of `JobProgress` stays with TLC.

`LogInv`, `RunInv` with `WholeInv`, `RestoreInv` and `PlainInv` were each checked by TLC
before they were proved.

`JobAdmission_proofs` proves, for all values of the constants under
`AdmissionAssumption`, `SpecTypeOK`, `SpecStartedAtMostOnce` and
`SpecOvershootBounded`. The
invariant `AdmissionInv` adds to the types: a request between count and commit
holds the lock of its job, so what it has read of the row is what the row still
says (`SeesTheRow`, `LocksOwned`); a started job never becomes pending again
(`NoWayBack`); and jobs begun and starts in flight together stay within the limit
and the number of requests less one (`Budget`). `Budget` is inductive because a start
that counts finds fewer than `Limit` active jobs and at most all the other
requests in flight, and `Admit` only moves one from the second summand to the
first. Each action has its lemma (`StepCount`, `StepAdmit`, `StepMove`, ...).

`Scheduler_proofs` proves, under `SchedulerAssumption`, `SpecNoTwinsInTurn`: for any
jobs, schedules, clock, slots, copies and faults, two clones of a job for one minute
come from ticks that run at the same time. `SchedInv` follows one clone from the guard
to its commit. A running tick's minute, and the start of its transaction, lie in the
past (`Timely`) and clones are born no earlier than due (`Born`); so what was cloned
before the guard ran is seen by it, and what is born between the guard and the commit
comes from a tick that runs beside this one (`Guarded`, on record by `Recorded`).
`Ahead`, `Disjoint` and `OncePerTick` say that a tick does not meet itself.
`SpecTickServesSoundJobs`: a tick that went through to its end has left each sound job
that was due a dispatched clone, or has found a recent one. `ServeInv`: a due job that
a tick has found has a clone or copy as young as the tick, unless the tick has yet to
look at it or is creating the clone (`Handled`), and a clone is dispatched unless its
tick is at it or was cut short (`Dispatched`).

`DeferredLabelling_proofs` proves, under `DeferredAssumption`:

* `SpecTypeOK`. The types need `Shape`: what is queued has a try left
  (`TriesLeft`), a running executor has a run of its own and enqueues only for a
  file of the list (`Placed`), and the tasks of the files it has still to reach do
  not exist (`Fresh`), so that to enqueue one never resets a task.
* `SpecResultsAreTrue`. A step can change only three things that speak of labels:
  what the executor has noted down but not committed, what a task is about to
  record, and the committed rows. `Truth` says that each `labelled` among them is
  vouched for by the file or by a dry run. `Monotone` (no label is taken away, no job
  changes its mode) and `StillTrue` reduce each action to what it adds.
* `SpecNeverOvercounts`. The executor assigns a counter that tasks increment, so three
  tallies must be bounded: the row's, the checkpoint's and the one in the executor's
  memory. `Tallied` bounds each by the results that nobody is going to count any more
  (`Closed`), for the executor's with what it has noted down (`Noted`), plus the crashes
  and faults so far. `Placing` says where results can be, so that a step closes the
  result it counts and no other.
* `SpecCompletedAccountsForAll`. If nothing was lost (`Undisturbed`), `Covered`: each
  file behind the position of the checkpoint has a result or a task with a delivery
  left, each behind that of the executor has one or is noted down, and in a completed
  job all have. A delivery is used up only by a crash (`DeliveriesPaid`).

`PowerShellBridge_proofs` proves, under `BridgeAssumption`, `BridgeTypes` and
`BridgeAnswersAreTrue`: for any callers, lengths of the queue, retries, processes and
faults, what a caller is told is true of its own command, if it is not an object that
another process has printed. The functions of the bridge
run one after the other in a task, so the invariant is one of the value they pass on,
`Sound(s, n)`, and a lemma says of each function what it keeps (`ProcessQueueSound`,
`SendRawSound`, `ContinueSound`, `RejectAllSound`, ...); an action is then a chain of
these lemmas. `AnswersAreTrue` is not inductive. A command may have been given up by
its caller and still be written, half printed, or printed in some pipe. What makes it
safe to send a command again is that then it is in no such place: `Unsent` says of a
call that is idle, backs off, is queued or initialises PowerShell that its command waits
in no process, has no marker due and no output under way, and has had no effect;
`WrittenOnce` that a command is in one place at most, which is the conjunction of three:
waiting (`WaitsOnce`), between its two statements (`DueOnce`), or printed, one object at
most and one marker behind it (`PrintedOnce`); `OneEach` and `Awaited` that only a call
that awaits it has a command in the queue or current, and only one. Since all processes
write to one buffer, the order in it has to be known as well (`Orderly`): the next thing
a process prints after an object is the marker of the same command, unless it dies
(`Paired`); so it is with the object heard last (`LastHeard`); and if the current
command has taken effect, something has been heard since it was written or its object
is still on its way (`Kept`), so that text on stderr is never taken for its failure.

`DesktopMain_proofs` proves `DesktopCancelHolds` and `DesktopOwnAnalysis`. For the
first, `CancelInv` adds where a job can be after a file was labelled late: at the head
of a loop, where the next thing it does is to look at the cancellation. For the
second, every request has been told nothing, an error, or its own analysis (`Own`),
which the functions of the bridge preserve one by one; it uses `IdsAreUnique`, that no
id is a word of the protocol.

Its third theorem is `DesktopCountersMatchResults`, under the assumption that walking
the sites finds a file once (`FilesInOnePlace`, as above). Its invariant is one of the
job's record, `Sound(j)`: results are told of the files in their order, up to the one
in hand (`Told`); the counters are the cardinalities of the results by outcome
(`Counted`); no file is listed twice, and none that is listed is of a site still to be
walked (`ListedOnce`). A lemma says what each function of the runner keeps of it.

`Renderer_proofs` proves, under `RendererAssumption`, `LabelTabsAssumption` and
`ClassifyAssumption` (the preferences hold policies, each with a name for each of its
sites: only this page writes them), all the safety properties of run `renderer` for
any policies, sites, sittings and ways of answering: `SpecCallsKeepTheContract`,
`SpecAsksBeforeItRemoves`, `SpecTabsAreSound`, `SpecDetailsShowTheirTab`,
`SpecRunsDoAsAsked` and `SpecOneRunAtATime`. One invariant carries them, `RendererInv`
(`SpecRendererInv`), because every one of them depends on what is in the queue:

* `CallsInv`: each command in flight is `Sensible`, that is, one of eight kinds by
  whose answer it is (`ForList`, `ForPolicy`, `ForDelete`, `ForScan`, ...), with the
  cmdlet and the parameters of that kind and, once answered, an answer of that kind.
  Its answer is `Wanted` by the list, component or form that asked, if that is still
  there, for which a component's number tells its kind and mode; and a scan belongs to
  a run that waits for it (`OfARun`), one at a time (`OneScan`). `SensibleKeeps`
  compares the eight kinds with the table of the registry (`Entries`), which is the
  contract, and with the dialog that `guiConfirm` asks for.
* `LabelInv`: the tabs repeat none and the active one is what the workspace holds;
  a label's component shows a label and any other a policy; only a form has a
  dialog. `Turned` is the lemma of all that open, close and replace tabs.
* `SettledInv`, which builds on `RendererInv`, is about the dialog: under one that
  opened when nothing was awaited nothing is awaited but scans, because the dialog
  covers all that could ask for something; so what is shown stays what was named
  (`SettledSteps`).
* `DetailInv`: React keeps a detail for another policy of its kind, or for another
  label, and the detail takes any answer that comes. What makes the last answer the
  right one is the order of the queue: as long as nothing was throttled, the last
  question open is about the policy of the tab (`DetailOK`).
* `ClassifyInv`: a run of the present mount is the one the page says is running
  (`OneRun`), the active job is a run's that waits for it (`JobOK`), and what is left
  of a run is of its policy's sites (`RunOK`); what it has sent is the policy's config,
  which `JobDoes` turns into what `RunsDoAsAsked` asks for (`ConfigIs`).

TLC checked `RendererInv` on the instance of run `renderer` before it was proved. The
proofs do without three library operators of which nothing can be proved here, as their
definitions cannot be unfolded by the provers: `++` stands for TLC's `@@`, `Filtered`
for `SelectSeq`, and the names of the cmdlets of a kind are a table (`CmdletOf`).

`WebClient_proofs` proves the five safety properties of run `web` for any
tenants, sites, sensitive types, spreadsheets, reports and visits, and any number of
calls in flight. Two assumptions say what the server starts with: jobs whose settings
are those their dialog showed (`FirstJobsAssumption`), and policies of the builder
or the catalog (`FirstPoliciesAssumption`). Two say what the data look like: a
spreadsheet is a table, with a cell in every column of every row
(`SheetsAssumption`), and the rows of a report count things, so that their numbers
are naturals (`ReportsAssumption`). One invariant, `WebInv` (`SpecWebInv`), carries
all five, because whatever reaches the server or a page was a call in flight before:

* `NetInv`: each call in flight is sound and timely. `SoundCall` is about its
  arguments, which are fixed at the click and hold whatever becomes of the page: a new
  job's settings are those shown, the rules sent are the builder's, the items to
  remove are those the sheet lists if none of its cells holds a line break, the rows
  that answer a report are a tally. `TimelyCall` is about what only the page keeps
  true: a report in flight is for the tenant and the filters selected now, since the
  effect's clean-up takes the earlier ones off the slots, and a reading call is of the
  page that is mounted. The lemmas on calls say what each way of changing the slots
  keeps of it (`SentIsGood`, `RepliedIsGood`, `AbortedIsGood`, `LeftIsGood`, ...).
* `JobsInv`: every job agrees with what its dialog showed, a copy as the job it was made
  from; the dialog's own fields are typed by `Forms`, for which `ConfigAgrees` compares
  `Config` with `Shown`.
* `PoliciesInv`: the rules of the policies, the rows, the dialog and the calls are
  `CustomRules` or a catalog entry's, so `RulesNeedEvidence` applies: every count in
  `CustomRules` is at least one, and filled-in entries match nothing in a file that has
  nothing. `BuiltFits` says that no editor of the builder leaves `CustomRules`, with a
  lemma for each kind of edit (`EntryEditsFit`, `CountsFit`, ...).
* `ViewInv`: what is shown and not loading is of what is selected, which follows from
  the timeliness of the call that brings it, and the rows behind a chart are a tally.
* `BoxInv`, an invariant of its own that `WebInv` builds on: the file in a dialog of
  Auto-Label is one of the user's.

Two lemmas carry what computing contributes. The writer, the parser and the sums
are folds of the library, which its definition gives as a CHOOSE of a function over
sets: `FoldExists` and `FoldSteps` turn such a fold into the sequence of its
intermediate values (`Passes`), about which `Upward` reasons step by step.

* `ItemsAreListed` (`SpecRemovesWhatTheSheetLists`): what the code makes of the text
  of a sheet. `ReadsRow`: the parser reads any row of any cells, with commas, quotes,
  blanks and even line breaks in them, as it was before it was written. A written row
  is a chain of cells behind commas (`ChainPlaces`, `RowLies`); behind the place where
  cell i ends the parser has the first i - 1 fields and cell i, and is not in quotes
  (`Is`). `InQuotes` follows it through a doubled cell, where a pair of quotes takes
  two characters and leaves one, `NotInQuotes` through a bare one; it closes because
  what follows a quoted cell is a comma or the end, never a quote. The text is a chain
  of rows behind line breaks; if no cell holds one, its lines are the rows
  (`TextLines`), except that trimming the text may cut blanks off the last one, and a
  row that was cut is read like the whole one up to blanks at its end (`ReadsCut`),
  which the trimming of the cells removes anyway.
* `ChartsOfRows` (`SpecChartsAddUp`): the rows of a bar are those with its day and kind,
  so that drawing every bar counts every row once (`SummaryAddsUp`, `ThroughputAddsUp`,
  `LabelsAddUp`), and a bar of the detections is one of its rows (`DetectionsFit`).

TLC checked `WebInv` on the instance of run `web` before it was proved.

Only model-checked is what is liveness or has a liveness part, which is out of the
prover's reach: `JobSettles`, `EachFileResolves`, `CommandsSettle`, `JobEnds`,
`SpinnersEnd`, `WorkEnds`, and of `RefinesProgress` the fairness. Every other property
of a passing run is a theorem.

## 5. Seen in the models, not among the runs

The models show further behaviours that disagree with a comment, a docstring or
what a user would expect. The passing properties are worded so that they hold
beside them; a name in parentheses is a definition that states the expectation
and that TLC refutes.

The job of the service:

* The worker refreshes the row, decides, and writes the status without a lock
  (`executor.py:113`): a cancel that arrives in between is overwritten
  (`FollowsDiagram` of `JobSystem`).
* A rollback reads the log while a cancelled worker is inside a batch, whose labels
  are in no checkpoint yet and stay (`RollbackRemovesLabels`).
* A rollback that a signal has stopped is declared done, half-way, if the user asks
  for another one before `run_rollback` reads the row again (`executor.py:162`): it
  asks only whether the status is `rolling_back` (`StoppedRollbackRestores` of
  `JobSystem`).
* The executor assigns the counters that deferred tasks increment
  (`executor.py:597`): an increment between load and commit is lost
  (`CountsEveryResult` of `DeferredLabelling`). `NeverOvercounts` is what remains. A
  deferred task may also label a file after its job was cancelled or rolled back
  (`deferred_classify.py:40`).
* A job paused before its first site is committed has no checkpoint; `resume`
  (`jobs.py:442`) makes it running, and it completes without having enumerated.
* A task that exceeds its hour (`settings.py:206`), or whose dispatch fails after the
  commit (`jobs.py:460`), leaves its job active.
* A timed out or still running `apply_label` (`executor.py:534`) leaves the file
  without a count or a scan result; a classifier error (`deferred_classify.py:77`)
  leaves a result without a count.
* A tick that was delayed by busy slots may run together with the next one; both
  pass the guard (`settings.py:108`) and clone the same job. `NoTwinsInTurn`.
* A step of zero in one schedule (`cron_eval.py:68`) ends the tick for the
  schedules behind it, every minute. `TickServesSoundJobs` excepts such ticks.
* A user's copy of a scheduled job has its `source_job_id` (`jobs.py:382`) and makes
  the guard skip that minute's run. `TickServesSoundJobs` names the case.
* Two starts may both count below the limit (`jobs.py:403`). `OvershootBounded`.
* `update_job` (`jobs.py:299`) may write the config of a job that was started
  after it was read.

The desktop application:

* stdout and stderr are two pipes: the marker may be read before the text of the
  error that precedes it, and the command is then a success without data
  (`StderrIsCaptured` of `PowerShellBridge`).
* All processes write to one `outputBuffer` (`powershell-bridge.ts:254-290`): the object
  that a process prints after `dispose`, or after another has taken its place, is taken
  for the answer of the command whose marker comes next, though that command has failed
  (`ObjectsAreOnesOwn`).
* A caller that arrives while PowerShell is being initialised spawns another process
  (`EnsureInitialized`), which takes the place of the first.
* A classifier that becomes ready after its startup has timed out is used for the
  next startup, beside the process that one has spawned.
* A paused job polls its pause flag only (`local-job-runner.ts:248`): a cancel has no
  effect until somebody resumes it (`CancelTakesEffect` of `DesktopMain`).
* The form of an edit tab is kept for the edit tab of another policy: run
  `edits_cross_tabs`.
* With a throttled command in between, the answers of two details change places
  (`PolicyDetail.tsx:22`), and the tab shows the policy of the other.
* An answer that comes under an open dialog loads another policy into the form
  (`PolicyForm.tsx:65`), and the dialog then names that one and removes it
  (`RemovesWhatTheDialogOpenedFor` of `LabelTabs`).
* When a job is refused, the scans take its place and `runPolicy` returns from its `try`
  (`ClassifyLabelPage.tsx:124-128`) without clearing `runningPolicyId`: no other policy
  can be run until the page is left. Only where `jobStart` throws is it cleared.
* A job is told neither of the extensions of its policy nor to skip what is labelled
  (`ClassifyLabelPage.tsx:101-122`), although `PolicyWizard.tsx:282` says "Skip files
  that already have any sensitivity label": `JobsKeepToTheScope` of
  `ClassifyPolicies`. Only the scans keep to them.
* The scans are told nothing of the entities (`ClassifyLabelPage.tsx:178-189`): they
  label every file of the sites (`ScansDetectFirst`).
* The run of a page that is left before its job completes awaits that end for ever:
  the handler returns without `resolve()` (`ClassifyLabelPage.tsx:135`).
  `EveryRunReturns` of `Renderer`; `WorkEnds` speaks of the runs of the page that is
  shown.
* The registry knows no `Recurse` (`local-job-runner.ts:210`), so a job lists no file,
  and no `IncludeContent`, so it would read none.
* The end of a run saves the policies there were when it began
  (`ClassifyLabelPage.tsx:152`): deleted policies come back (`DeletedStaysDeleted` of
  `ClassifyPolicies`).

The web client:

* An Operator's list of tenants is refused, so the pages have no tenant to work on
  (`OperatorsReachATenant` of `WebClient`).
* A tenant that has jobs cannot be disconnected: its jobs would be kept without a
  tenant, which their table forbids (`DisconnectCascades` of `WebSecurity`).
* With the schedule switched on, `custom` chosen and the expression left empty, the
  job is created without a schedule (`JobsPage.tsx:78`), runs once, and nobody is told
  (`ScheduledJobsRecur` of `WebJobs`).
* The rows and the page number of the Jobs page outlive a change of the tenant
  (`JobsPage.tsx:45`): a load that fails, or an action begun before the change, leaves
  or brings back the rows of the former tenant (`RowsAreOfTheTenant`), and behind the
  last page of the new one the table says that there are no jobs
  (`NoRowsMeansNoJobs`).
* A quoted cell of a spreadsheet that holds a line break is split before the quotes
  are looked at (`AutoLabelPage.tsx:383`): its row is left out, or files are named
  that no row lists (`RemovesWhatAnySheetLists` of `WebAutoLabel`).
* `acting` holds one row (`JobsPage.tsx:45`), so a second row's click frees the buttons
  of the first.
* The text of the dialog that connects a tenant may be changed while its lookup runs;
  the answer is taken for the new text (`SecurityPage.tsx:218`).
* Days of a report are keyed without their year (`ReportsPage.tsx:219`): over a year
  the first day of a chart of detections is overwritten by the last.

## 6. Plan

1. (done) The job: control API, executor, their composition, `JobProgress`.
2. (done) `DeferredLabelling`: the counters shared by executor and sub-tasks. Left:
   cancel and rollback beside deferred tasks.
3. (done) `Scheduler`: scheduled jobs, the duplicate guard, commit then enqueue;
   `JobAdmission`: the limit of active jobs, copy and update.
4. (done) `PowerShellBridge`, `ClassifierBridge`, `LocalJobRunner`, `DesktopMain`.
5. (done) The web client over the API: jobs, policies, auto-labelling, views, tenants.
6. (done) The desktop renderer: `CommandRegistry`, Labels, Classify & Label.
7. Left: `GraphRequest` and `TenantRateLimiter`: retries, token refresh, polling, the
   bucket and its eviction, composed with the document service (guards, verify,
   bulk), against an abstract "the call took effect at most as often as reported".
8. Left: `LabelSync` (cache, upsert, shared session); chunking and the cron
   evaluator as operators against reference definitions; `SnapshotRestore`.
9. Proofs. Done: section 4, every safety property of the passing runs.
   Left: the modules of 7 and 8, each with its own.

## 7. Not modelled

Of the service: the Graph client, the rate limiter and label sync (section 6); the
guard chain and bulk operations of the document service; the query texts of the
reports and the read-only endpoints nobody calls; the progress stream; text
extraction, Presidio and the catalogue of sensitive information types (data). In the
job model: which label a policy chooses, the audit and metric rows, and the branch
for an inactive tenant. In `DeferredLabelling`: a second executor on the job, cancel
and rollback, and the fallback when there is no arq pool.

Of the web client: the Settings page (static), the export of a table as CSV (formatting
of what `ViewsShowWhatIsSelected` is about), and wording and layout throughout.

Of the desktop application: the pages beside Labels and Classify & Label, which are
forms and lists over one or two commands each; the device-code and progress events
read off PowerShell's output; credentials, logging and the updater of the main
process; `policy-evaluator.ts` beyond its outcome, a label or none; the PowerShell
module, whose cmdlets are what a command's outcome stands for; and the classifier
service, a loop that answers line by line.
