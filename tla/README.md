# Verification of django-enrichment

TLA+ specifications of `entirius-django-enrichment`, the TLC runs that check them on small instances and
the theorems TLAPS proves about them. Source paths below are relative to `src/src/django_enrichment/`;
`PROJECT.json` maps every definition to the lines it models.

## The system

The application enriches catalogue content with AI workers. An operator (or a spawn rule, a workflow, a CSV
file) orders a **task** for a worker key; the **planner** splits its subjects into **units**; consumers
**lease** units, produce results and hand them in; each result becomes a **proposal** that an operator
reviews, applies to the catalogue through an adapter, undoes or rejects. Everything is kept in one SQL
database; Celery delivers messages and fires periodic beats; web requests and Celery processes run
concurrently and may die at any point. Row locks (`select_for_update`), conditional updates
(`filter(status=old).update(...)`) and single-statement updates are the only synchronisation.

| component | state it keeps | operations | calls / is called by |
|---|---|---|---|
| work queue (`work_queue_service`, `unit_result_service`) | `WorkUnit`: status, lease token, holder, lease_until, not_before, attempts | claim, heartbeat, complete, fail | external workers over HTTP, internal consumers; calls task progress, escalation, proposal intake, cost guard |
| task progress (`task_progress_service`) | `EnrichmentTask.status`, `counts` | mark_started, refresh, finish, re-plan, cancel_units | after every report, reaper, planner, cost guard, task service; tells the workflow |
| planner (`unit_planner`) | units of a task | plan_task, plan_units, _fail_task | Celery; re-plan by task progress |
| consumer (`consumer_service`, `tasks/worker_runner`, `lease_keepalive`) | Celery process | claim-run-report loop, re-queue itself | Celery; work queue |
| reaper (`queue_reaper`) | - | expire leases, cost guard, re-send consume and plan messages | Celery beat |
| escalation and worker control (`queue_escalation`, `queue_status`, `worker_service`) | `Worker.paused_*`, `WorkerInstance.consecutive_failures` | after_failure, pause, resume, stale-queue report | fail; operator |
| cost (`cost_service`, `cost_guard_service`) | `EnrichmentTask.cost_usd` | charge, stop_over_cost | paid calls; claim; reaper |
| task service (`task_service`, `csv_import`, `retry_service`, `run_service`) | tasks, proposals of a task | spawn (with batching), import_csv, transition_status, retry, start run | API, spawn rules, workflow |
| spawn rules (`spawn_rule_service`, `tasks/gap_autospawn`) | `SpawnRule`: key, check, limit, cooldown, auto | create_rule, update_rule, delete_rule, find_running_task, run_rule | operator, Celery beat; calls task service |
| proposals (`proposal_service`, `apply_service`, `undo_service`, `adapters/artifact`) | `ContentProposal`: status, values, previous value | intake, supersede, accept, reject, apply, revert, bulk forms | unit results, operator; adapters, workflow, revisions, memory |
| revisions (`revision_service`, `revise_*`, `qa_service`) | `ProposalRevision` rows, batch cache | edit, restore, revise, QA checks, batch revise | operator, Celery |
| staging and retention (`staging_store`, `cleanup_service`) | staged files, old rows | stage, take, prune | intake, apply, beat |
| workflow (`workflow_service`, `workflow_steps`, `workflow_spec`) | `WorkflowRun`, step states | start, advance, regenerate, cancel, guard | task progress, proposals, operator |
| profiles, memory, rules, templates (`profile_service`, `memory_service`, `memory_promotion`, `rules_service`, `template_service`) | versioned documents | save, set_status, promote, versions | operator, prompts |
| kinds, augmentations, prompts, toolbox calls | - | build prompts, validate values | consumer |
| API, admin, schemas, catalogue adapters | - | (de)serialisation | everything |

Hard behaviours: consumers, the reaper, planners, the cost guard and the operator interleave between short
transactions; stalled workers report late and clients repeat calls; processes die between two commits;
messages get lost; lists are read first and acted on later; counters sit at their limits. What would make
each component correct:

* work queue: one holder per lease, results counted once, attempts and in-flight caps respected, settled
  units final, every lease ends, queued work moves;
* task progress: a task closes exactly when its units have settled, with the right verdict and exact failed
  count, closed tasks stay closed, every task settles;
* worker control: a worker with a full failure streak is paused;
* proposals: a subject's live value is the one of the applied proposal or the one it replaced; apply, undo and
  reject of one proposal exclude each other; edits survive a supersede; staged files outlive what needs them;
* task spawning: no subject is worked by two orders at once, what is appended to an open batch task is planned, a retry
  works what was lost, each page of a rule's targets keeps to the limit and to the answers that are awaited, a file lives
  as long as a task of its import;
* generation: a cost that is stated is what was billed, nothing is researched twice or paid for after the lease is gone;
* prompts and answers: limits are kept and cuts are in the promised order; an answer is read as it was given;
* workflow: a step starts once its inputs are there, one run per subject, a cancelled run starts nothing;
* revisions, memory, profiles: version numbers are unique and history is never rewritten.

## What is modelled

| module | models |
|---|---|
| `UnitLease` | the abstract promise of the queue about one unit: handed out at most `MaxAttempts` times, one lease at a time, results count once and from the latest lease, settled is final |
| `WorkQueue` | the queue of one worker key in full: planner, claim with cost guard, consumer loop, heartbeat, charge, complete, fail, refresh, reaper, operator's close and resume, clock, crashes, lost messages |
| `WorkQueueProofs` | the inductive invariant of the queue and its theorems |
| `FiniteInduction` | induction over numbers and over the subsets of a finite set, stated for sets, and what follows for sums, folds and the lists of `Lists`; used by the proofs |
| `Review` | the abstract promise of the review: a proposal is decided once, an applied one is undone at most once, and the catalogue is written for it only in those two steps |
| `Proposals` | intake, accept, reject, undo, edits and corrections, bulk reject, staged files and the prune of proposals, next to edits of the catalogue from outside |
| `ProposalsProofs` | the invariant of the requests in flight and the theorems about proposals |
| `RunLife` | the abstract promise of a workflow run about its steps |
| `Workflow` | one run with its steps, the task and the proposal of every attempt, the hook of a finished task, approval by accept and by gate, regeneration, cancellation; the queue and the review work on the steps in between |
| `WorkflowProofs` | the invariant of a run, the effects its steps have, and the refinement of `RunLife` |
| `Generation` | one subject in a kind: its paid calls in order, research before them, transient retries, media jobs that are polled, heartbeats, and what the task and the drafts are told they cost |
| `GenerationProofs` | its books and its lease, for every plan; and the theorem of `Prompts` |
| `Knowledge` | the company profile and its versions, memory entries and their promotion, the profile a prompt reads and stamps |
| `KnowledgeProofs` | the history of `Knowledge` and the layers of `RuleLayers` |
| `Spawning` | orders, retries, the rolling batch task, planner and settlement of tasks that grow, the status set by hand |
| `GapRules` | spawn rules and the gap tasks they keep running, page by page |
| `CsvFiles` | an uploaded file, its tasks and the retention |
| `SpawningProofs` | the theorems of `Spawning`, `GapRules` and `CsvFiles` |
| `Corrections` | texts in review, their warnings, paid corrections and checks, the batch of corrections |
| `CorrectionsProofs` | the theorem about warnings; and the theorem of `Answers` |
| `Lists` | comprehensions, slices and `dict.fromkeys`, which the three modules below use |
| `RuleLayers` | rules of proposal, template and worker, the worker's version, the merge of a template and a request into a task |
| `Prompts` | what fits a prompt, as functions: profile, memory, cover scene, search phrases, step blocks |
| `Answers` | what is accepted and how it is read, as functions: corrections and the sanitiser, questions, picks, definitions, import pages, numbers, lengths |
| `MCWorkQueue`, `MCProposals`, `MCWorkflow`, `MCServices` | the instances for TLC |

The mutated forms the runs are tested with are the operators marked "Deviation"; no specification uses them.

How they fit together. The results a unit hands in are the intakes of `Proposals`; the values `Generation` delivers are
those results; `Workflow` is told when a task of `WorkQueue` settles and when an output is accepted; `Spawning`,
`GapRules` and `CsvFiles` make the tasks `WorkQueue` plans; `Knowledge`, `RuleLayers` and `Prompts` make the prompts of
`Generation`; `Corrections` and `Answers` change values `Proposals` holds. The composition that is checked is the one of
`Workflow`, which has the queue and the review of its steps inside. The others share no row with each other that one
of their decisions depends on, except where an action of one stands for the other (`CloseText` and `DriftText` in
`Corrections`, `ReviewAnswer` in `GapRules`, `Deliver` in `Workflow`), so the runs look at one at a time.

`WorkQueue` and `Proposals` meet in one place: the results a unit hands in are intakes. `WorkQueue` counts them,
`Proposals` says what an intake does; an intake that fails, or is refused because of kept edits, is a choice in
`WorkQueue!StoreResults`.

### How `WorkQueue` corresponds to the code

One action is one database transaction, and a handler that commits several times is several actions chained by
`proc[p].pc`, so everything may happen in between:

* `claim` (`work_queue_service.py:33-50`): `ReadOverCost`, per stopped task `StopOverCost` and
  `SettleStopped` (`cost_guard_service`), `Claim` (worker row locked: pause, cap, choice and lease are one
  step), `MarkStarted`.
* `complete` (`unit_result_service.py:26-42`) is the one transaction that is split: `Complete` reads unit and
  task, `StoreResults` takes the results in and commits. The unit's row lock is kept in between (`Locked`), which
  the reaper's `skip_locked` observes and which keeps other reports of that unit out; the task row is not
  locked, so it may be cancelled in between, as in the code. `RefreshAfter` is the refresh after the commit.
* `fail` is `Fail` (unit, counts, streak and pause in one transaction) and `RefreshAfter`.
* the reaper is `ReadExpired`, per unit `ExpireLease` and `RefreshExpired`, then the cost guard, then `Kick`.
* `PATCH tasks/{id}/` is `PatchTask` (the conditional update) and `CloseUnits` (the `cancel_units` after it).
* the planner is `PlanTask`, or `PlanRaises` followed by the two transactions of `_fail_task` (`PlanFailMark`,
  `PlanFailClose`) and `CloseUnits`.
* `resume` is `ResumeWorker` and `ResumeStreaks`, two statements without a transaction.

Data abstractions: `ttl` and `wait` are countdowns for `lease_until - now` and `not_before - now`; a lease
token is the number of the unit's lease instead of a uuid4; subjects of a unit are only counted; a task's cost is
"below" or "at" its limit; the failure streak stops counting at `PauseAfter`. The order of equally ranked units
is left open, because rows locked by others are skipped. Notifications, the event log, `last_seen` and the
counters no decision reads are left out; tasks with a batch key are in `Spawning`, the call into the workflow is in
`Workflow`. The time the planner's re-send waits for is abstracted to any time. `taken` is a history
variable. A lost HTTP answer is the caller repeating its call from `work`.

### Runs

| run | instance | shows |
|---|---|---|
| `WorkQueueLease` | 1 unit of 2 subjects, 1 consumer, 2 external instances, 2 attempts, one crash or failing intake | `LeaseInv` (the inductive invariant), `NoSharedLease`, `ResultsCountOnce`, `FailedCountExact`, and the refinement `UnitLeaseSpec` |
| `WorkQueueSettle` | 2 units, 2 consumers of up to 2 units per run, room for one lease, operator closes, planner raises | `TypeOK`, `SettledStays`, `SettlesWhenQuiet` |
| `WorkQueueLanes` | 3 tasks on 2 lanes, 2 external instances claiming by lane or from any lane, cap 1, pause after 2 failures, resume | `LaneInFlightCap`, `PauseSticks` |
| `WorkQueueLive` | a gap task with a cost limit, a lost message | `TasksSettle` under `FairSpec` |
| `WorkQueueRecover` | 2 consumers, a crash or a lost message, 2 attempts | `LeasesEnd`, `QueuedWorkMoves` under `FairSpec` |
| `WorkQueueCrash` | one consumer that may die | `TasksSettle` is violated: finding 1 |

Bounds. Two instances next to the reaper are enough for every race between a stale holder, a new holder and the
reaper; two attempts give a requeue and a final failure; `Lease` of one tick separates "held", "last moment"
and "expired"; two units of one task separate "some settled" from "all settled"; one fault at any point
covers every single crash. Two faults in one behaviour are not explored by TLC (the theorems hold for any
number). Symmetry over instances is used only in safety runs, where no definition names an instance.
`PauseAfter = 0` with `AutoPause = FALSE` switches the failure streak off where a run does not ask about it.

Fairness (`Fairness` in `WorkQueue`): Celery delivers what it did not lose (`PlanStep`, `StartConsume` of an
internal consumer), a handler goes on unless it crashes (`ConsumeStep`, `ReapStep`, `CloseUnits`,
`PlanFailStep`, `ResumeStreaks`), a worker reports in the end (the consumer's loop wraps every run of a unit in
complete or fail), the beat fires and the clock runs. Nothing obliges the operator, a heartbeat, a paid call, an
external instance's next claim, or a fault.

Deadlock checking is on in every run: the reaper beat can always go round.

### How `Proposals` corresponds to the code

A view or a Celery chunk loads a proposal once and works on that object; nothing is re-read except where the code
says so. `req[r].copy` is that object, and one action is one statement or one transaction of the handler:

* `intake_media` / `intake` (`proposal_service.py:209-261`, `82-137`): `StartIntake` (the file is staged, the
  external reference looked up, the live value read), then one transaction that is split because another intake may
  run in between: `Supersede` takes the pending rows and locks them, `Create` inserts the row and commits. The locked
  rows are `req[r].todo` while `pc` is `"create"`, and `Free` keeps everyone else off them. A plain supersede is a
  single UPDATE: if it meets a locked row it has already chosen its rows, waits (`WaitForRows`) and takes those that
  are still pending afterwards (`SupersedeRest`), without rows created meanwhile (READ COMMITTED). With
  `keep_edited` locking, check and update are statements of their own, so it waits first and looks again.
* `apply` (`apply_service.py:87-156`): `StartAccept` (status guard), `ReadLive`, `SaveSnapshot` and `MarkDrifted` for
  a diverged value, `SaveSnapshot` and `Write` for a re-confirmed one, `Write` otherwise, `DropStaged` after the commit.
* `transition_status` with `_lock_unchanged` is `Unchanged`, inside the action whose transaction it belongs to;
  a refusal rolls the whole action back (`Refused`).
* `reject` is `StartReject`, `Unstage`, `Reject` in the order of the code; `bulk_reject` is `StartBulkReject`,
  `BulkReject`, `UnstageAll`. A bulk accept or undo is a number of single requests, one per proposal; that
  the chunks run in parallel, on lists read long ago, is their interleaving.
* `revert` (`undo_service.py:38-62`): `StartUndo`, `CheckLive`, `Revert`.
* `add_revision`: `Edit` (an operator's edit or restore, one transaction) and `StartRevise`, `SaveRevision` for a
  correction whose AI call runs in between.
* `prune`: `StartPrune`, `PruneFile` per file, `PruneRows`, which evaluates the retention query a second time. `Age`
  lets a row pass the retention; it does not happen during a pass, whose cutoff is fixed.
* `Crash` ends a request anywhere. It also stands for an adapter or a check that raises in the open transaction.

Data abstractions: values and live values are members of `Value`; the snapshot an intake takes and the value it
proposes are independent; a target is module, subject, kind and locator in one. `writes` and `writer` are history
variables. The locks of a workflow run (`guard_apply`), the step it approves and the catalogue pictures kept for undo
(`release_undo_anchor`) are left out. So are the QA warnings and the proposal counters, which no decision reads.

### Runs of `Proposals`

| run | instance | shows |
|---|---|---|
| `ProposalsReview` | 2 proposals, 2 requests, live edits | `DecidedOnce`, `CatalogueMatches` and the refinement `ReviewSpec` |
| `ProposalsIntake` | 3 artifacts of a workflow step, two with one external reference, 2 requests, edits, approvals, refused undos, crashes | `SupersededReplaced`, `EditsKept` |
| `ProposalsFiles` | 2 documents for one target, one with a staged cover, edits, corrections, single and bulk decisions, prune | `TypeOK`, `NoOrphanFile`, `DecidedValueStays` |
| `ProposalsBulkReject` | bulk reject against an accept | `RejectedNeverWritten` is violated: finding 2 |

Bounds. A request takes no part in another's decision, so two at once show every race between a stale and a new
copy; the third proposal of `ProposalsIntake` lets one intake wait for rows a second one is superseding. Two
values tell "the value that was read" from "another one". `MaxRevision = 2` tells edited from unedited rows. All
proposals are for one target: proposals for different ones share nothing. Bulk reject is left out of
`ProposalsReview` because finding 2 breaks each of its properties. `NoOrphanFile` is checked without crashes: a
process that dies between staging and creating leaves its file, and no code looks for it.
`ProposalsIntake` may stop when every proposal of the instance has been taken in, `ProposalsFiles` when all were pruned,
so deadlock is not checked there.

### How `Workflow` corresponds to the code

The run's row is locked by start, hook, approval, regeneration and cancel (`_locked`, `_open_run`), so each of them is one
action: `Start`, `Finish`, `CommitAccept`, `Regenerate`, `Cancel`. Everything that spawns goes through `SpawnReady`, everything that
changes a step through `Move`, which derives the status of the run as `derive_status` does. Outside of the lock: a unit of
a step is claimed, fails, or delivers (`Claim`, `UnitFails`, `Deliver`, `Store`, `StoreFails`), the settled task calls the hook
(`Finish`, with `AutoApprove` for an auto gate; `FinishHookFails` is `_notify_workflow` swallowing an error), the operator
closes a task by hand (a unit that is leased then works on, so that its paid call may still run while the step is
generated again: `OneLiveAttempt` is about tasks), edits, rejects and undoes outputs one by one (the bulk reject of outputs
is left out: finding 2 breaks `ApprovedIffApplied` as it breaks the review); an accept loads its proposal (`LoadAccept`) long before it
commits, is turned to drifted or is given up. A worker has one unit per step; inputs are the values of the approved
outputs. Bounds: `Attempts` per step, `MaxTasks` in all.

`Workflow` (the run): an outline behind review, a text behind an auto gate, a document from both; two attempts, four tasks,
one accept. Three steps in a chain with a fork separate "ready", "waits for one" and "waits for two"; two attempts separate
the current one from a superseded one. `RunInv` is the type invariant with `OneLiveAttempt`. Fairness is weak, per step and attempt, on what the queue does with a spawned
task (`WorkQueueLive` shows that tasks settle); nothing obliges the operator. `ComesToRest` is checked under it, the refinement
`LifeSpec` of `RunLife` in the same run. The instance may stop when the run is closed or its attempts are used up.

### How the modules of `MCServices` correspond to the code

`MCServices` holds one instance each of the nine modules below; the variable `focus`, chosen at the start, says which of
them moves. The whole is one run because the instances are small and independent; a behaviour never mixes two.

* `Generation`: `Plan` lists the paid calls of a kind in order, `ResearchPlan` those of a brief. `Begin` starts the subject, `Answered`,
  `Unusable` and `Breaks` are the outcomes of one call (`toolbox_calls`), `Submit`, `PollAgain`, `JobDone` and `JobFails`
  those of a media job, `Deliver` is the end. `Beat` (part of each call) is `lease_keepalive.beat`, `TakeOver` the reaper
  and another instance. Costs are 1 or unknown; `billed`, `studies` and `sent` are history.
* `Knowledge`: a save is `UpdateProfile` (row and snapshot in one transaction); a form or an entry that is loaded, changed and
  saved is `Retrieve`/`Update` and `LoadEntry`/`SaveStatus`; `Promote` locks. A prompt reads in two statements (`ReadInstance`,
  `ReadOverlay`) and is stamped by a third (`RecordUse`), which reads the rows again, or not at all when nothing of the
  profile reached it (`ProfileBlank`). `overtaken` remembers the scopes saved between their read and the stamp.
  `Reload` is a fixture loaded over a row, not in the middle of a prompt. A task of several units keeps the stamp of its last prompt.
* `Spawning`: an order looks up what is in flight (`OrderRun`, `OrderBatch`) and writes later (`FinishRun`, `FinishBatch`, `AppendRefs`).
  `PlanTask` is the planner with its limit; a plan that raises is `PlanFails` (the error, the task marked started) and `FailTask`
  (its conditional close). `WorkUnit` is a report with the settlement after it, `SetTaskStatus` the `PATCH` of a task, with every
  status the state machine allows. `failedBy` remembers what failed a task.
* `GapRules`: `FindAndProbe` and `SpawnGap` are the two halves of `run_rule`. `PlanGap` is the planner, on an open task as often as
  its message comes, and `SettleGap` the settlement of the last unit; both lock the row of the task and then read page 1
  again and again: one `NextPage` is one `find_gaps` with the filter, and the catalogue, the answers and the reviews go on in
  between. `EndPages` is the page that brings nothing new, after which what was pulled becomes units or the task ends;
  `PagesFail` is a check that raises. `WorkGap` hands in any number of proposals for its subject, each of which counts.
  `from`, `brought`, `extra` and `under` are history. `SetGapStatus` is the `PATCH` of a task.
* `CsvFiles`: `SpawnType` is one spawn of `import_csv`, `ReadLive` and `DropFile` the two halves of the prune of a file.
* `Corrections`: `Load` and `Revise`, `StoreCheck`, `CallFails` are the halves of a paid call; warnings are represented by what they
  were computed on; `LockRunsOut` is the timeout of the cache entry.
* `RuleLayers`: a request holds a copy of a row (`Holds`) and saves all of it; a save of a worker is `BumpVersion`, which reads the
  stored row again, and `SaveWorker`. A copy is `stale` once its row was saved under it, and `behind` as long as the version in
  it is older than the row's; `raced` remembers that such a version was saved. A promotion leaves `promoted` when an edit
  drops it, when a stale copy overwrites it or when its template is deleted. `MergeIntoTask` takes the request as it comes, with
  or without an operation, a preset and rules: `Merged` is `merge_into_task`, `OfKind` what the worker's kind keeps of the result.
* `Prompts` and `Answers` are functions. One step takes one input from a small set, all of them, and keeps it with the answer;
  text is the sequence of the lengths of its lines or words, or of a few characters.
  In `Prompts` the newest `RECALL_LIMIT` entries are cut before anything is looked for among them, and the parts of a cover
  prompt have their own limits, with `must_show` first behind the scene. In `Answers` a text has characters and three kinds of
  tags (an allowed one, its end, an escaped one); `ApplyAnswer` compares the selection with what the model answered and then
  sanitises, which unescapes and balances tags anywhere in the text. A choice of a question may have blanks around it: choices
  are kept as the model gives them, answers are stripped.

`Services` (the run), bounds: three subjects (at most two of them in runs), two callers and two orders separate "in flight",
"being ordered" and "free"; two products on one page, a limit of one and up to two proposals per subject make a gap task refill and
overrun its limit; three work types of a file, one retry; one text, two wordings and
two batches; two rules, two requests, versions up to 3 (the requests are
the same model values as the callers, so that one symmetry set serves both); caps, budgets and limits of the functions so small that each cut
and each boundary is met from both sides. Symmetry over subjects and callers, which no definition names. Where a component has
more freedom than one run can hold, two or three foci share it, each with a part of it free: `gaps` follows two tasks of one
rule, one proposal per unit, answers of the rule only and a still catalogue, `pages` one task with everything around it moving
and no refusals or drift; `layers` the requests on the worker, `templates` those on the template, `merges` one request at a
time on what a template presets and all tasks made of it; `knowledge` the history without a prompt, `prompts` one prompt next to
saves, restores and reloads; `generation` lets a researched subject of kind write keep its lease. The theorems hold without
these restrictions. Each focus ends when its bounds are used up, so deadlock is not checked. All properties but one are
invariants; `PaidOnLease` is about steps. Liveness of these components is not stated: what must happen in the end is the queue's
(`TasksSettle`) or the operator's.

Each property is the conjunction of the parts named in its module, every one of which says one thing of its own; a run that
fails names the whole, the parts are there to be asked one by one.

| focus | property | parts | question |
|---|---|---|---|
| generation | `BooksHonest` | `LedgerHonest`, `DraftCostsHonest`, `ResearchedOnce`, `CallsInOrder` | does any order of failures and retries make the books lie or research twice |
| generation | `PaidOnLease` | | is anything paid for after the lease is gone |
| knowledge | `HistoryKept` | `VersionsStand`, `PromotedIsWritten` | is the history kept, with all that was promoted |
| prompts | `PromptTraceable` | `PromptReadsSaved`, `StampIsExact` | does a prompt read what was saved, and when does its stamp name something else |
| runs, batch | `OrdersServed` | `OpenIsPlanned`, `RunsDisjoint`, `RetriesFailures`, `StatusOfUnits` | is every accepted subject planned, none worked twice |
| gaps, pages | `RuleBounded` | `RuleTasksStack`, `LookupsStand`, `WithinLimit` | which tasks of a rule may overlap, what can exceed the limit |
| gaps, pages | `AnswersAwaited` | | can a target be worked while the rule's answer for it waits or cools down |
| csv | `FileServes` | `FileOutlivesTasks` | does the prune spare a file that will be read |
| corrections | `WarningsTrue` | `WarningsOfValue`, `WarningsAgree`, `OneBatch` | are warnings about the text they stand next to |
| layers, templates, merges | `LayersHold` | `PromotedReach`, `VersionComparable`, `PresetOfOperation` | does a promoted rule reach later corrections, is a version one calibration |
| texts | `PromptsFit` | `ProfileFits`, `RecallFits`, `FreshIsNewest`, `TailIsKept`, `SeedsUsable`, `BriefOnce` | is each limit kept, and cut in the promised order |
| answers | `AnswersRead` | `OutsideKept`, `AnswersHeard`, `PickHasPicture`, `DefinitionRuns`, `PagesCover`, `NumbersMatch`, `LimitsAgree` | is an answer read as it was given, and refused when it must be |

Where a module has state, the first conjunct of its first property is its type invariant.

### Findings

1. `WorkQueueCrash`: complete and fail commit the unit first and refresh the task afterwards. A process that
   dies in between leaves a task in progress although all its units have settled; repeating the call returns
   the stored outcome without a refresh, and no beat looks at such a task.
2. `ProposalsBulkReject`: bulk reject reads the pending proposals and updates them by id only, so one that was applied
   in between is rejected although the catalogue was written, and cannot be undone any more.

### Behaviours the models show and no property forbids

* A unit leased when its task is cancelled goes back to the queue when it fails or expires. No claim returns units of
  closed tasks, so it stays queued for ever, counts as queue depth and lets the reaper re-send consume messages
  (`requeue_or_fail`).
* The in-flight cap the documentation gives per worker is applied per lane when the claim names one, and internal
  consumers always do (`_claimable`).
* Two overlapping intakes for one target both stay pending; two overlapping posts of one external reference create two
  proposals (`intake`).
* A reject deletes the staged file before it is refused: an approved artifact loses its bundle, a media proposal that
  just became drifted can never be applied (`reject`).
* A live edit between the drift check and the write of an accept is overwritten (`apply`).
* Accept writes the value it read: an edit or correction saved meanwhile stays on the applied proposal while the older
  value is in the catalogue (`apply`, against the comment of `revision_service.py:70-71`).
* Re-confirming a drifted proposal saves the live value as the snapshot without a lock or a status check. A second accept
  that started earlier replaces the undo anchor of the applied proposal by the value just applied; the undo then
  restores nothing (`apply_service.py:117`).
* Two requests that promote rules, or a rule and an edit, save whole rows: one change is lost (`promoted` forgets it). A save of
  a worker with a version taken from an older row gives two calibrations one version, or puts the version back, against
  `models/worker.py:13` (`raced`); a template saved from a copy after it was deleted is there again (`RuleLayers`).
* The preset a request brings wins over the template's and is merged with the template's operation when it names none, so a
  task may carry a preset of another operation, which the toolbox refuses (`template_service.py:101`, `PresetOfOperation`).
* `record_use` says it stamps the versions "a task's prompt used" (`profile_service.py:113-116`; `models/enrichment_task.py:40`:
  "whose profile reached this task's prompts"), but it looks the current versions up again. A scope that is saved between the
  read and the stamp is stamped with a version the prompt never saw (`StampIsExact`, `overtaken`), and each prompt of a task
  replaces the stamp of the one before.
* A task that is failed by hand, or a batch task that a later plan fails, names no failed subject; its retry takes the whole scope,
  with the subjects that are finished and those still being worked (`retry_service.py:56-61`, `RetriesFailures`).
* `limit` bounds a page by what is left of it after the proposals so far. Targets of earlier pages that are not worked yet do not
  count, so a task that reads several pages, or is planned twice, brings more than its limit; and since proposals are counted
  and not targets, a subject with two proposals takes up two (`task_service.py:247-257`, `WithinLimit`).
* Saving a worker from a copy loaded before an automatic pause clears the pause (`worker_service.py:85`).
* `_append_refs` merges the subjects of a batch task without a lock, so of two appends at once one is lost. A task that is
  claimed between the lookup of an append and its write is refused by the planner (`unit_planner.py:49`): what was appended
  is never worked. `OpenIsPlanned` is about open tasks (`Spawning`).
* `set_status` saves a memory entry it read before a promotion: the entry is active again although the profile has it.
  A save from a form loaded earlier drops a promoted item from the profile (it stays in a snapshot).
* `fresh` looks at the newest `RECALL_LIMIT` entries before it looks at their language: more recent entries of other
  languages hide a brief, and it is researched again (`memory_service.py:51`).
* In `recall` the slice of the newest `RECALL_LIMIT` entries comes before the budget, so a category's line is shown although an
  older entry of the subject was left out (`RecallFits` is about the recalled ones).
* What a cover scene must show is "never cut" (`cover.py:11`), and cut at `MUST_MAX` characters (`cover.py:120-123`); `TailIsKept`
  is about shorter ones.
* The selection of a correction is compared before the sanitiser runs, as its comment says (`revise_values.py:94-98`): in html the
  saved text may differ outside the selection (`OutsideKept`).
* A choice with blanks around it is kept as it is while answers are stripped before they are compared, so that question can never be
  answered by what it shows (`questions.py:108`, `133`, `145`; `AnswersHeard`).
* The rules of a profile are always shown whole: when they and the room for the note fill the cap, the prompt is longer than
  the cap (`profile_context.py:118`; `ProfileFits` is about shorter ones).
* A cover prompt whose lead and tail fill the limit loses the end of the tail (`cover.py:187`).
* `questions.normalize` says "Unique ids"; a model that numbers its own questions (`q2` first, then a question without an
  id in second place) gets one id twice (`questions.py:104`). `AnswersHeard` is checked for models that number none.
* Of two overlapping occurrences of a fragment `str.count` sees one, so the edit is taken as unambiguous
  (`revise_values.py:140`).
* A correction batch that outlives its lock runs beside a second one, whose lock the first deletes when it ends.
* Retrying a failed import finds its file pruned when the retention has passed.

### Proofs of the queue

`WorkQueueProofs` proves, from `QueueAssumption` alone and so for any numbers of tasks, units, instances,
attempts, ticks and faults:

* `LeasesAreSound`: `Spec => []LeaseInv`. Exclusive leases are not inductive by themselves: that no two instances
  carry one token needs that tokens are issued once and never decrease (`UnitInv`), that whoever carries a token
  carries one that was issued (`ProcInv`), and that a transaction that stores results still holds the lease it
  checked because the row is locked (`ProcInv`, `pc = "store" => HoldsLease`). `LeaseInv` is the conjunction, and
  `LeasesAreExclusive`, `ResultsAreCountedOnce`, `TypesAreKept` follow.
* `SettledStaysSettled`, `ImplementsUnitLease`: action by action from `LeaseInv`; every step maps to a step or a
  stutter of `UnitLease` (lemma `UnitMoves`).
* `LanesAreCapped`: from an invariant that per lane either no lease is out or the leases are finitely many and
  at most the cap; requeues and settlements only shrink the set, a claim adds one to a set it has counted.
* `PauseIsKept`: a full streak implies paused or resuming.

Argument. One step changes at most one process row and, for units, has one of a few effects. The lemmas
`ProcStep`, `UnitsFine`, `LeasesStay` and `UnitMove` state what such an effect preserves; `FreeMoves`
(units without a holder), `CarrierMoves` (the carrier goes on), `HolderAlone` and `HolderReports` (the holder of the
lease is the only one that passes the token check) instantiate them; `ClaimInv`, `CompleteInv`, `StoreInv`,
`FailInv`, `ReaperInv` and the other lemmas named after actions apply them, and `StepInv` combines these.

* `FailuresAreCounted`: `counts.failed` is a sum over the units of a task, and the prover has no induction over data. It has
  induction over sets: `FiniteInduction` proves that every set of subsets of a finite set that is closed upwards in the
  right way is all of them (`SubsetInduction`, from the well-foundedness of the numbers), and from it that the sum of the
  community modules exists, does not depend on the order of its terms (`AnyFirst`) and changes by as much as one term
  does (`SumChange`). `CountMoves` says that a step counts nothing, or exactly the subjects of the one unit it settles or
  re-queues. This is the one result with an assumption of its own, `UnitsAssumption`: the units of a task are finite.
* `TasksSettleQuietly`: a task is closed by the one action that looks at its units in the same transaction
  (`ClosedQuietly`); `ProblemsAreCounted` ties the verdict to the count, through `FailuresAreCounted`.

Only model-checked: the liveness properties `TasksSettle`, `LeasesEnd` and `QueuedWorkMoves` (fairness and `ENABLED` are
outside of the prover).

### Proofs of the review

`ProposalsProofs` proves, from `ReviewAssumption` and for any numbers of proposals, targets, requests and revisions,
with crashes:

* `RequestsAreSound`: `Spec => []ReviewInv`. It is about the requests: whatever happens between two of its steps,
  a request in flight still has an existing row and a copy of the right status (`RowInv`); an intake owns the row it
  is going to create and the rows it locks are still pending; two intakes own and lock different rows (`Apart`); aged
  rows are decided or drifted (`AgedDecided`). No property of a run is inductive without it. `TypesAreKept` follows.
* `Effects`: under `ReviewInv` every step leaves the rows alone, offers a proposal, saves one row in one of a few
  ways, decides one, rejects in bulk, prunes, or edits the catalogue. The other theorems are read off this list:
  `DecidedValuesStay`, `EditsAreKept` and `SupersededAreReplaced`.
* `DecisionsAreFinal`, `CatalogueAgrees` and `ImplementsReview` assume `"bulk_reject" \notin Ops`. With it they are
  false (finding 2); the assumption says exactly which operation is in the way.

* `FilesAreOwned` assumes `"crash" \notin Ops`: a process that dies between staging and creating leaves its file (the
  run makes the same choice). `NoOrphanFile` is inductive only with `PrunesClean`: a prune that goes through its list of
  files still has every file of a row it is going to delete on it, because rows do not pass the retention during a pass.

### Proofs of the workflow

`WorkflowProofs` proves, from `WorkflowAssumption` and `NeedsEarlier` (a definition names earlier steps only, which
`step_errors` checks), for any definition, attempts and requests:

* `RunIsSound`: `Spec => []RunInv`. `RunInv` is inductive as the run checks it: types, one live attempt per step, and which
  rows of tasks and proposals a step's status implies. `InputsStayApproved`, `WritesAreApprovals` and `RunNeverWedged`
  are read off it; the last one needs that of any set of steps one needs none of the others (`FirstOfSteps`).
* Every action has one of six effects on the run: it moves nothing (`Quiet`), cancels, begins, repeats a step, settles
  the step whose task ended, or approves one and spawns what became ready. The `...Quiet`, `StartBegins`, `RegenerateRepeats`,
  `HookSettles`, `ApprovalMoves` and `AutoApproves` lemmas say which action has which; `QuietKeeps` and `MovesKeeps` prove the
  invariant once per effect.
* `CancelIsFinal` and the refinement `RunKeepsLife` (`Spec => LifeSpec` of `RunLife`) are step by step from the same list.

`ComesToRest` is liveness and stays with TLC.

### Proofs of the components around them

* `CorrectionsProofs!WarningsAreTrue`: a save replaces a row by one whose warnings are those of its own value (`OwnWarnings`),
  whatever was loaded before. One batch at a time follows from the lock while none ran out (`OneByLock`).
* `KnowledgeProofs!HistoryIsKept`, `PromptsAreTraceable`: a save takes a number above all that the scope ever used
  (`NextVersionAbove`), nothing else touches the snapshots; a row goes back to an older number only outside of a prompt's two
  reads (`HistoryRests`). The stamp then names what was read unless the scope was saved, and a later version if it was.
* `KnowledgeProofs!LayersAreSound`: `LayersHold` is not inductive. `LayersInv` adds that each promotion stands in its row, that a
  copy its row was not saved under (not `stale`) has all the row's rules and its own, that the version of a copy that is not `behind` is the
  row's, or one more when the calibration differs, and that the row's calibration is the newest. What an operator sees is
  computed by a fold; `DistinctIs` proves for every list that it keeps the members and drops the repetitions (`OnceEachIs` of
  `FiniteInduction`). `MergeKeepsPreset` is the clause about presets, for every request.
* `SpawningProofs!RuleIsBounded`, `AnswersAreAwaited`: a page brings no more than what is left of the limit (`PageBounded`), and a
  page of a task with nothing to work brings it to its limit at most (`FreshBounded`, `PageIsTaken`); other pages are `extra`. Whatever a step does to a task,
  it takes on only targets no answer holds back and keeps what it has (`TaskAdvances`); an answer of the rule for a target that
  another task still has means that both were given the target, and two tasks with one target overlap (`SameTarget`). The assumption:
  a catalogue is a sequence.
* `SpawningProofs!OrdersAreServed`: every change of a task keeps its subjects, never brings it back into flight, and what it
  has lost stays lost (`Advances`). What a caller looked up therefore still holds of the tasks it knew when it writes
  (`CreateServed`). `StatusOfUnits` is the strengthening: a task its units failed has nothing done and nothing under way, and a
  run whose plan failed has no unit, so their retries repeat nothing; the tasks failed by hand and the batch tasks are named by
  `FailedOver`. The subjects are finite.
* `SpawningProofs!FilesServe`: nothing of an import is pruned while its tasks are being created, and once a prune saw that no first
  task of it is live, none comes to life again (`PruneComesLate`); only retries do.
* `GenerationProofs!BooksAreHonest`: the end of every call has one effect on the books (`Booked`, `CostsEnd`): more is billed,
  and the task is told as much, or that it is not known, or nobody will hear of it. `CallsInOrder` (what the subject
  has in hand fits the plan of its kind) is the strengthening; `PlanCalls` and `ResearchCalls` say it of every plan.
* `GenerationProofs!CallsArePaidOnLease`: a unit that was taken over is due for a heartbeat, since the interval is shorter than
  the lease (`Every < LeaseTicks`; `lease_keepalive.py:18` gives 60 and 300 seconds), so the next call asks first.
* `GenerationProofs!PromptsAreFit`: `PromptsFit` for any caps, limits, lengths, budgets and routings. It needs no strengthening: every step
  asks one question and keeps it with its answer, so the proof has one lemma per question (`ProfileHolds`, `RecallHolds`,
  `FreshHolds`, `CoverFits`, `SeedsHold`, `StepHolds`), and each of them is about functions. The assumption with content is
  `NoteReserve >= 2 * Gap + NoteLength`: what is kept free for the truncation note holds it and the gaps around it. A block added
  behind keeps the brief single and under its note (`BlockAdded`); where the newest entries of a list are, and which of them a language finds
first, are `NewestAre` and `FirstIs`; what must be shown is at the start of what follows the scene (`TailIs`); no two seeds have one rank (`RankIs`), so the sort has each once.
* `CorrectionsProofs!AnswersAreRead`: `AnswersRead` for any characters, scenes, pages and numbers, in the same way
  (`CorrectKeeps`, `QuestionsAnswered`, `PickIsRead`, `DefinitionHolds`, `PullCovers`, `NumberChecked`, `LengthsAgree`). `BetweenEnds` and
  `EditsGive` are about the selection before the sanitiser, of which the proof needs only that it is not called outside of html;
  `PageIs` says which rows one page has, `PagesJoin` that all pages together are the whole list; `WritingRead` that
  each of the usual forms of a number has it among its candidates. The theorem says of questions what the run does: up to three,
  of a model that numbers none itself; of definitions, that they have at most three steps. The assumptions: a page has a row, and
  a number is written in groups of three digits but the first, with at most one group behind the decimal mark.

Both rest on `FiniteInduction`. A filter, an elimination of repetitions, a sum, a page are folds, and `FoldsAlong` says of every fold
over a sequence that there is a history of it: its value after each of the members. `ThoseSteps`, `OnceEachSteps`,
`TextSumSteps`, `BudgetedSteps`, `PageSteps` name the histories; what a history keeps follows by `Induction` over the places. This
is why the models write `Those` and `OnceEach` as folds: the prover takes `SelectSeq` as a primitive it knows nothing about.

Every safety invariant and action property a passing run checks is stated by a theorem. Only liveness stays with TLC: `TasksSettle`,
`LeasesEnd`, `QueuedWorkMoves` and `ComesToRest` (fairness and `ENABLED` are outside of the prover).

## Plan

What is left, in this order:

1. `Locks`: the order in which transactions take the rows of task, run, worker and instance (`workflow_service.cancel` against
   `task_progress_service.refresh`, claim against fail). Property: no cycle of waiting transactions; the code has two, which
   the database resolves by aborting one.
2. The prune of applied proposals composed with a run that still waits for them.
3. Proofs: questions in any number, with the ids of a numbering instead of three names; definitions of any length (that what is
   ready is reached by repetition, by induction over the steps).

## Not modelled, and why

* Wording: prompts, reasons, notifications, event log, HTML and JSON repair, the shape of attribute options. Where
  a decision depends on a size or an order it is in `Prompts` or `Answers`.
* The API's schemas, permissions and throttles: they refuse requests; every request the models make is one an endpoint offers.
* The catalogue modules behind the adapters: external. `read_current`, `apply` and `revert` are taken as reading and
  writing one value in the transaction of the caller, as the adapter guide asks.
* The order of row locks inside a transaction, and the database's own deadlock handling.
* Counters and lists no decision reads: `counts` except `failed` and, for a gap task, `proposed`; recorded errors except the subjects a
  retry takes from them; `last_seen`.
* The bulk reject of a run's outputs (in `Workflow`; it is in `Proposals`), the cut of a list of warnings at `MAX_WARNINGS`
  (`qa_service.py:71`, `qa_checklist.py:65`), and a second delivery of the message that starts a correction batch.
* Usage, cost and catalogue reports: read-only. Pictures: data. Migrations, test helpers and demo seeds: not part of the
  running system.
