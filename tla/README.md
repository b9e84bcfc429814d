# TLA+ models of the Codex orchestrator

This directory holds a formal model of `src/orchestrator`: the program that drives a coding agent
(Codex) through turns in an isolated git worktree, validates and evaluates what it did, has a person
review it, commits it and archives what was learnt. All of its state is files below
`.codex-orchestrator/`; an API server, a command line and background threads act on the same files, and any of
them may die between two writes. That is what the models are about.

## The system

| component | state it keeps | operations | talks to |
|---|---|---|---|
| Execution lock (`codex_loop/state.py` 540-621) | `active.lock`: task, pid, token | acquire, judge stale, break, release | every workflow call takes it |
| Task run (`codex_loop/workflow.py`, `models.py`) | `state.json`, `events.jsonl`, `aggregate.json`, `result.json`, `control.json`, prompts; the worktree | start, resume, one step of the drive loop, final persist | App Server, validator, evaluators, queue, control endpoints |
| Codex client (`codex_client.py`) | the App Server's thread | start/resume thread, run a turn, verify the last turn | workflow |
| Validation (`validation_runner.py`) | baseline and protected tests, rebuilt from `state.json` | preflight, one round of commands | workflow, the sandbox |
| Evaluation (`evaluation.py`, `context.py`, `role_runtime.py`) | frozen contexts, two reports, `aggregate.json` | freeze the context, two roles one after the other, aggregate | workflow, roles, knowledge server |
| Audit trail (`audit.py`) | `events.jsonl` | number and append, record items, back-fill | everybody; the event stream reads it |
| Review (`review.py`) | `review.json` or the review history | record a decision bound to a diff hash | service, queue |
| Delivery (`git_delivery.py`) | `delivery/commit.json`, index and branch of the worktree | stage, intent, commit, recover | service, queue |
| Archiver (`archiver.py`) | `archive/outbox.json` | build, retry | delivery's caller, knowledge server |
| Queue (`queue_workflow.py`, `queue_service.py`) | the queue's `state.json`, cumulative diff | run the current child, review, resume, recover, skip, reorder, pause, cancel | task run, review, delivery |
| Executor and admission (`task_executor.py`, services) | one worker, a record per submission | submit, shut down, refuse when something is unfinished | services |
| Plan (`planner.py`, `plan_service.py`) | plan draft, edits, confirmation | draft, edit, confirm, start | task or queue start |
| Context, memory, knowledge (`context.py`, `memory.py`, `knowledge.py`, `skills.py`) | memory and knowledge files | retrieve under a budget | workflow, archiver |
| Accounting backend, front ends (`src/backend`, `*/frontend`) | one SQL table; browser state | CRUD; presentation | - |

What is hard in it, and what correctness means:

* **Lock.** Breaking a dead owner's lock is a read, a decision and an unlink, with nothing to tie them
  together. Correct: never two holders (the code keeps that up to one race, which the model shows); a dead owner's
  file does not block everybody for good.
* **Task run.** A checkpoint is saved before and after everything that cannot be undone, and a crash may fall between any
  two writes. Correct: "success" is about the work that is in the worktree; no prompt runs twice and none is
  lost; the budget of turns holds across crashes; the event timeline is complete; the verdict of a run that has ended stands; a run ends.
* **Review, delivery, archive.** A decision is bound to a diff, a commit to a decision; both span several files and git.
  Correct: one commit of an approved diff and of nothing else, whatever dies or fails in between; an approval is
  delivered in the end; what a status claims is so; an archive that is called complete reached the knowledge server.
* **Queue.** A child starts only after the one before it was approved and committed, from its cumulative diff; every
  queue that is not finished can be made to go on. Several callers load, change and save the queue's file.
* **Admission and plan.** Checks that a project is free are stale by the time they are acted on, and several threads confirm and
  submit. Correct: at most one unfinished task or queue; a plan starts one piece of work, and all of it; what was accepted is begun or refused; a gate
  shared by projects loses no permit.
* **Validation.** The runner's memory of the tests dies with the process. Correct: no test disappears on the way to a passed round, and a
  passed round ran everything it should have, to the end.
* **Evaluation.** Three context files and three result files with a crash between any two, over a knowledge server that changes. Correct: all
  rounds of a run are judged by one context; the published files give the verdict that was acted on.
* **Audit trail.** Half a dozen writers number the lines of one file without a lock, and items are recorded from two sources. Correct: numbers
  without gaps or repeats, one record per item with all that follows from it, a forbidden action that succeeded is not offered for review, and a
  reader of the stream misses nothing.

## Modules

| module | models | checked by | proofs |
|---|---|---|---|
| `ActiveLock` | the lock file at the grain of link, read and unlink | `MCActiveLock` | `ActiveLockProofs` |
| `TaskRun` | one run: the workflow, its files, the App Server's thread, the worktree, and the callers that rewrite its state | itself | `TaskRunProofs` |
| `Delivery` | one task from its final diff to review, commit, promotion, queue entry and archive | itself | `DeliveryProofs` |
| `ReviewedDelivery` | what `Delivery` promises: approve, deliver once, close | refined by `Delivery` | `DeliveryProofs!DeliveryRefines` |
| `TaskQueue` | a queue of children: worker, reviewers and the other endpoints over one state file | itself | `TaskQueueProofs` |
| `Admission` | how work enters a project: plan, confirmation, request, submission, executor, gate | itself | `AdmissionProofs` |
| `Checks` | the validation runner, the test files and the runner's part of the state | itself | `ChecksProofs` |
| `Evaluation` | the frozen contexts, the two evaluators, the aggregate and its publication | itself | `EvaluationProofs` |
| `Timeline` | `events.jsonl`, all who append to it, and the stream that shows it | `MCTimeline` | `TimelineProofs` |

The modules meet at their states. What `TaskQueue` calls a child's run is what `TaskRun` shows at its ends, what it calls a delivery what
`Delivery` does in its middle; what `TaskRun` takes as one step of validation or evaluation is `Checks` and `Evaluation`; the work that
`Admission` begins is a `TaskRun` or a `TaskQueue`; the events of all of them are `Timeline`'s; and where a module takes an operation as exclusive, `ActiveLock`
is the reason - and its race the exception, which these modules leave out. Each module fixes its neighbours to any answer they can give, so none rests on a property of another beyond what is named here.

### ActiveLock

`lock` is the actor whose metadata the file holds, `pc` where each actor stands in acquire or release, `seen` the owner a contender has read, `alive` the process ids
that answer `os.kill(pid, 0)`. `Link` is `os.link`, atomic with complete contents; `LinkExists` is the
`FileExistsError`; `ReadLock` reads the metadata, and `JudgeActive` and `JudgeStale` are the two answers of `os.kill` about what was read; `Unlink` is
`_remove_stale_lock`, which removes the *name*; `ReadForRelease` and `Release` are the token check and the
unlink of `release_active_lock`. Two actors may share a process (a request thread beside the worker thread), which is why the
owner is an actor (a token) and liveness a property of its process. `Reuse` hands a dead id out again.

Callers contend as they please, and then two of them can hold the lock: `overtaken` (contenders that read the file before the present one was linked) and `broken` (one
of them has removed the present one) are history variables that name the way, and `SharedOnlyWhenOvertaken` says that there is no other. `LockRace.cfg` goes that way.

### TaskRun

A step is the code between two durable effects: `save_state`, an appended event, a file, a request to the App Server. `pc` names the
gap. `disk` is `state.json` and `mem` the executor's `RunState` object; `Save` writes both. `audit` holds the
events that the code looks up again (`has_event`) and `started` the prompt kinds of `turn.started`. `thread` is the
App Server's history; `wt` is the version of the worktree, and a diff hash is such a version. `checked`, `judged` and
`unanswered` are history variables: what the last validation and evaluation looked at, and whether a change
request is still to be sent; `overwritten` remembers that a control request has saved an older state over a newer one. No action reads them except to update them.

* `start`: `StartThread`, `BeginPrompt`; failures before the first saved state leave no run, and are left out.
* `resume`: `Resume`, then `ResumeDiverged` (the worktree is not the recorded one), `ResumeFinal`, `ResumeThread`.
* the drive loop: `ApplyControl`/`ClearControl` or `NoControlRequest`, `RecoverRound`, then by phase
  `BeginInitial`; `TurnLimit` or `WritePrompt`, `SaveTurn`, `AcceptTurn`, `FinishTurn` or `TurnFails`,
  `RecordTurn`, `SaveTurnCompleted`; `RecoverTurn` for a checkpoint in `codex_turn`; `StartValidation`, `Validate`,
  `RecordRound`, `DecideRound`; `StartEvaluation`, `Evaluate`, `ApplyEvaluation`.
* the end: `CaptureChanges` (the final diff and the state), `WriteResult` (result and report, return to the caller).
* the control endpoints: `LoadForControl` reads the state, `FindActive` and `FindInactive` look for an executor in their process, and `SaveControl` saves the marked state, over
  whatever is there by then; `RequestQueueControl` is the queue's endpoint, which pauses the child it counts as running. `endpoint` is the request under way.
* others: `RetryInfrastructure` (the queue reopens a run that failed), `RequestChanges` (a review).
* `Fault` stands for whatever raises at any point of `start` or `resume`, the final report included, and ends in `_finish_infrastructure_error`, whatever the status was; `FaultEscapes` for an
  error in that report itself. `Crash` is the death of the executor:
  a turn that is under way then ends on the App Server's side, completed or failed.

An executor, or a start of one, is represented by `pc`: when it is `"down"` nothing drives the run. The execution
lock is taken as held while it is not (that is `ActiveLock`'s subject).

The rebuilding of `result.json` by a read of a queue, the schema-0 runs that are read-only, and a control request that the queue
left before the child's state existed are not in the model.

### Delivery

`kind` tells the three sorts of task apart that the code treats differently: a `"single"` task (one immutable `review.json`), the
`"first"` child of a queue (a review history, a queue entry), and a `"later"` child, whose worktree starts with the approved
cumulative diff staged. Contents are version numbers: `work` the worktree, `index` the git index, `branch` the
commits above `base_commit`, `captured` the saved final diff. `run` is the part of `state.json` that matters here, `reviews` the review files,
`intent` the file `delivery/commit.json`, `child`, `acked` and `promoted` the queue's entry and its cumulative diff, `outbox` the
archive's file and `written` what the knowledge server received. `recorded` and `slipped` (somebody staged between
the comparison of the index and `git write-tree`) are history variables.

The subtle part is what a diff is taken against. `AuditRecorder._complete_diff` compares the worktree with
the *index* for a later child and with the base commit for the others; `DiffUnchanged` says so, and `LiveDiffIsReviewed` and
`StagedIsApproved` are the two comparisons of `deliver`.

* review: `Decide` is `ReviewService.record` up to the review's own file, with the checks of `record_review` (`MayDecide`);
  `SaveDecision` the run's state; `Reopen` and `Settle` what `record_review` does next, and `Rework` the reopened run.
* `deliver`: `Retry` enters it again; `Deliver` decides between `DeliverAgain` (commit.json says committed), `Recover` (an intent is on
  file) and `DeliverFresh`; then `Stage`, `CompareStaged` (`git diff --cached` against the review), `WriteIntent` (`git write-tree`, another process of git, and the intent) or, for an intent that was on file, `Recheck`; `Commit`, `RecordCommit`, `SaveCommitted`. Whatever raises is `Fail`, and the handler goes on with
  `MarkIntentFailed` and, for a child, `SettleFailed`. `Promote` is the cumulative diff.
* archive: `StartArchive`, `BuildOutbox`, `CallTool`, `MarkItem`, `CloseOutbox`, `SaveArchived`; `RetryArchive` enters at the
  outbox. A failure of the archive never fails its caller (`AfterArchive`).
* `DeliveryFault`, `PromoteFault` and `ArchiveFault` are failures of git, of files and of the knowledge server, `Crash` the death of the process at any
  `pc`, `Meddle` a person or a tool that edits the worktree, stages or commits, between any two steps.

One caller at a time works on a task: review and delivery hold the execution lock. `archive` and `retry` do
not; two archivers at once are `Timeline`'s subject and outside this model, as are a worktree switched to another branch and damaged files.
The damage a change request does inside a run is `TaskRun`'s subject: here `Rework` returns any diff and any machine verdict.

### TaskQueue

`disk` is the queue's `state.json`, `cum` its `cumulative.diff`, `qctl`/`ctl` the control files, `run`, `rev`, `base` and `delivered` what the queue sees of its
children. The content of a child is its number, a cumulative diff the set of children in it. Three kinds of thread have a copy `mem[a]` of the
state: `"exec"` (the executor's worker), the members of `Web` (threads that handle a review or a commit retry) and `"loop"` (the event loop
with the other endpoints). `Load` and `Save` are a read and a write of the file with other threads' steps in between, as in the code, where no lock
spans the two; `late` and `stale` only remember that a save overwrote one it had not seen.

* `run_current`: `SelectChild` or `SelectNothing`; `StartBlocked`, `StartFails`, `StartChild`, `RunBegins`, `ResumeChild`; `RunEnds`; `SaveResult`.
* `resume`: `ResumePaused`, `ResumeDelivery` (an approved child), `ResumeRun` with `SaveReopened` (a failed one), `ResumeOther`.
* a delivery, by whichever thread: `BeginDelivery`, `DeliveryRefused`, `Commit`, `DeliveryFails`, `Promote`, `CloseApproved`.
* `review_task`, `retry_commit`: `Review`, `RetryCommit`, `Record`, `RecordRefused`, `Reopen`, `CloseChanges`, `CloseRejected`, then `Refresh`,
  `SaveRefreshed` and `Submit`, which hands the queue to the executor.
* the service: `SkipSubtask`, `ReorderPending`, `PauseInactive`, `CancelInactive` (look, load, change), then `SaveEdit`; `RequestControl`; `ResumeQueue`.
* `Crash` is the death of the process with all its threads.

A second process on the same queue, reports, events and the optional version checks of requests are left out.

### Admission

A request `x` is a confirmation of the one plan (`Confirmers`) or a direct request (`Direct`). `pc[x]` is where its handler stands, `lock` the two submission
locks, `job` the executor's single worker, `gate` the permits of the semaphore shared by the projects of a server, `stage[x]` what became of the work (`"unfinished"`, `"failed"` for a queue in
`infrastructure_error`, `"final"`, and so on).
`draft`, `drafts` and `target` are the draft and the directories it is in: what tells plans apart is whether a directory holds `draft.json`, and whose `confirmation.json`.

* planner and plan service: `Generate` (with the recomputed status, `Status` and `ValidDraft`), `Confirm`, `ReadDraft` (`Confirmable`), `WriteConfirmation`,
  `MakeTarget`, `CopyPlan`, `RenamePlan`.
* task and queue service: `Request`, `Admit` (the check under the lock), `Submit`, `Resume`, `Conclude` (a review or a cancellation ends the work).
* a queue that failed (`Failed`) is final to every check, and yet `ReviveQueue` (resume), `PauseFailed` and `RetryCommit` set it going again and look for no other work; `TakeUp` is the check a resumed run makes,
  and `Rivals` what it looks for: a queue's child does not look among the tasks. `revived` remembers such queues.
* `TaskExecutor`: `Reserve`, `EnterGate`, `BeginTask` (the worker's own check), `EndJob`; `OtherEnters`, `OtherLeaves` are the other projects.

### Checks

`tree` gives each test file's content: absent, as at the start, or changed to a passing or failing one. `val` is the `ValidationRunner`: the baseline, the protected paths, whether
preflight is done. `CaptureBaseline` and `Preflight` are `start`; `Rebuilt` is the runner a `resume` makes from the state. A turn (`BeginTurn`, `EndTurn`, `RecoverTurn`) may do
anything to the files. `Validate` compares and protects; `Targeted` and `Full` are the commands; `RunCommand` and `EndStage` are `_run_commands` and the order of the
stages; `SaveRound` is `_run_validation` with `add_round`, `Decide` what the loop does with the verdict. `Fail`, `PersistFinal` (the final diff of a failed run), `Retry`, `ResumeDiverged` and `Crash` as in `TaskRun`. There is one review
cycle and no evaluator here.

### Evaluation

`server` is the knowledge server (revision and standing of each entry, which `EditKnowledge` changes at any time), `context` the frozen context files, `published` the three result files,
`mem` the evaluation under way. `StartEvaluation` takes a published aggregate of the current round for its own (`Reusable`) or begins. For each role a context is taken over
(`ReuseContext`) or searched, read entry by entry and frozen (`Search`, `SearchReplies`, `ReadEntry`, `Freeze`); `MergeContexts` makes the one both roles are given. `AskAgain`, `RefuseReply`, `SpecReplies` and
`ArchitectureReplies` are the checks of a reply and its one correction; `Blocking` is the aggregate; `Publish` writes the three files one by one; `ApplyEvaluation` is what the
run does with it. A turn together with the round after it is one step (`PassRound`).

### Timeline

`events` is the file. `AppendCounted` is `StateStore.append_event`, which counts the lines on each call; a recorder counts them when it is made (`worker.next`, `arch[w].sink` and
`arch[w].own`) and then trusts its counter. `RecordItem` and `Emit` are one item of a turn with the events derived from it (`Derived`), `ItemRecorded` the test that keeps the back-fill of a
resumed turn from recording an item twice; `ClosingEvent` and `CloseRun` end a run with the saved status first; `Resume`, `ControlInactive`, `Review` and `Commit` are the other
writers. `Retry` is the queue's new attempt at a run that failed.
`BeginArchive` to `EndArchive` are `HarnessRuntime.archive` and `ArchiveCoordinator.archive` with the two recorders they make: `Gather` finds the frozen context or sets out for one, `Retrieve` is one tool call of
the retrieval with its event, `Freeze` writes the file and `AnnounceContext` says so; any number of archivers may be at it, and `crowded` remembers that two were. `RetryArchive` is the endpoint. `ReadPage` and `EndPage`
are one turn of `stream_events`, and `Watched` says whether anybody reads it.

## Runs

| run | asks | bounds |
|---|---|---|
| `Lock` | is there one way only to two holders, and is a dead owner's file reclaimed? | 3 threads, 2 processes, 3 crashes, ids reused |
| `RunSingle` | does a single task with evaluators keep its promises, and does its verdict stand? | any two of 2 crashes, 1 fault, 1 request |
| `RunQueue` | does a queue child answer a change request, earn a manual review, and keep to its turns? | any two of 2 crashes, 1 fault, 1 request; 1 retry, 1 change request |
| `Delivery` | from review to archive, is what was approved what is committed, and does it get there? | all kinds, versions 0..2, 2 items, 2 reviews, 2 crashes, 1 fault, 1 outsider |
| `TaskQueue` | do children run in order on committed work only, does a completed queue hold all of it, and does it end, when three threads write its file? | 2 children, 1 review thread, 1 change request, 1 edit, 1 failure, 1 crash |
| `Admission` | is one thing unfinished at most, does a plan start once and whole, is accepted work begun or refused? | 2 confirmations, 1 direct request, 2 criteria and an unknown one, 1 permit, 1 run of another project, 1 crash; queues may fail |
| `Checks` | does a passed round have every test, and has it run them all? | 2 backend tests and 1 frontend test, of which 1 is new; 3 turns and failures as in the code; 2 faults, 1 crash |
| `Evaluation` | is a run judged by one context, and do its files give the verdict acted on? | 1 criterion, 1 guideline, 1 pitfall, 2 rounds, 1 edit, 1 fault, 1 crash |
| `Timeline` | who can break the numbering, is every item recorded once, is a breach offered for review? | 2 archivers, 2 archives of up to 2 lookups and 1 call, 1 item of 3 sorts, 1 pause or cancellation, 1 crash, any retries |
| `TimelineStream` | does the stream show it all, and does it end? | as above with 1 archiver and 1 lookup; pages of 3 |
| `RunStaleRound` (violation) | can a run succeed without its work having been validated? | 1 crash, 1 change request |
| `TimelineArchive` (violation) | are the trail's numbers continuous? | 1 archive with 1 tool call |

`SavedStateSuffices` in `RunSingle` is three statements: the timeline of a reported success has the event of every turn and round (`AuditIsComplete`), a paused run has a
checkpoint that a resume can start from (`PausedHasCheckpoint`), and a pending prompt finds the round, counter or findings it quotes (`NoDeadEnd`).
`EndedStaysEnded` lets an error in the final report turn any verdict into an infrastructure error, as `mark_infrastructure_error` looks at no status. `TurnsPerCycle` counts what the App Server was asked, not what the
state counts; only a crash after a retry, which has lost count by then, is excepted.

Why the bounds are enough. Three threads on two processes are the fewest that give a holder, a contender in its
process and one in another. In `TaskRun` turns and rounds need no bound of their own: the program's limits (three turns a cycle, three failures)
end every run. One crash puts the run into any saved checkpoint, the second one crashes the recovery from it;
faults, requests and retries are spent at any point, so one of each meets every checkpoint. Crashes, faults and requests together are bounded by `MaxTroubles`, two: every pair of them meets in every order. One change
request gives the second review cycle in which counters are reset and old rounds remain. In `Delivery` three contents are nothing, the
approved version and one that is neither; two items are the fewest of which one can be marked and the other not; a
second review meets the intent of the first; two crashes hit a recovery as well as the first attempt. In `TaskQueue` two children are the fewest with an order, a predecessor and
a successor; a reviewer, the event loop and the worker are three writers, and a lost update takes two, so one edit and one change request meet each other and the worker in every order. In
`Admission` two confirmations and a direct request give a race in the plan's directory and one for the free project, one permit and one other run a gate that is taken. In `Checks` two
backend tests, one old and one new, and a frontend test give an empty, a partial and a full targeted stage; the limits are the program's own. In `Evaluation` a
guideline may block and a pitfall may not, each in one role's context only or in both; the second round meets the contexts frozen in the first. In `Timeline` an item owes one or two
derived events, and an archive makes two recorders; two archivers with two lookups each can be between any two calls of one another, and a second attempt has to get by on the trail the first one left.

Deadlock is checked for the lock. In the others the system may stop, so they say `CHECK_DEADLOCK FALSE`. A run that has returned its result is finished; that it never stops early is `RunSettles`. A closed task has no steps left either, and
`ApprovalIsDelivered` is what it must not stop short of. `QueueEnds`, `AcceptedIsSettled` and `StreamEnds` say it of a queue, of accepted work and of the stream; `Checks` and `Evaluation` end with the
run, whose liveness is `RunSettles`.

Fairness. `ActiveLock!FairSpec`: each thread goes on, retries and releases (every caller releases in a
`finally`). `TaskRun!FairSpec`: a running executor takes its next step, and a run that a crash or a pause left behind is resumed by
somebody; faults, crashes, requests and reviews are never forced. A turn that never answers would violate it: the App
Server is taken to end every turn. `Delivery!FairSpec`: a caller that runs goes on (`WF(Step)`), and somebody retries the delivery of an
approval that failed or was left behind by a crash, as often as it takes (`SF(Retry)`: a retry is not possible while the one before is under
way). Decisions, reworks, retries of the archive, crashes, faults and outsiders are never forced. `TaskQueue!FairSpec`: each thread that has begun goes on (`WF`), a person resumes a queue that has
stopped (`SF(ResumeQueue)`) and decides on a child that waits (`SF(Decide)`); both are strong because another thread's step can disable them for a while. `Admission!FairSpec`: the executor's worker goes on and the runs of
other projects end, or else a thread would wait at the gate for ever; requests and confirmations are never forced. `Timeline!FairSpec`: the run's thread goes on and a reader keeps reading.

### What the violations show

* **Unvalidated success** (`RunStaleRound`). A reviewer asks for changes of a successful run. Codex makes them, `validating`
  is saved, the process dies before the new round is. `_recover_round_checkpoint` sees phase `validating` and a passed last
  round, the one from before the review, and marks the run successful.
* **Two events of one number** (`TimelineArchive`). `HarnessRuntime.archive` makes a recorder for the tool clients and `ArchiveCoordinator.archive` one of its own; both have
  counted the same lines. The first tool call's event and `archive.queued` get the same number, and `AuditRecorder` refuses the trail from then on ("events.jsonl sequence is not
  continuous"): the retry of a failed archive fails for that reason alone.

### Further configurations

These are kept beside the runs. Each checks a single property and has a counterexample; each shows why a run above is bounded, or a property qualified, as it is.

* `LockRace.cfg` (`Exclusive`): two holders, and nobody has to die. A holds the lock and B finds the file there; A releases it; B looks, finds it gone and counts that as stale; C links its own;
  B unlinks that and links its own. With a dead owner two contenders that judge the same file do the same. `state.py:37` calls `ActiveRunError` "Raised when another live process owns the
  repository-wide task lock"; neither raises it.
* `RunPromptTwice.cfg` (`PromptRunsOnce`): the first turn fails to reach the App Server, and the queue retries: `turn_count` goes on
  from 1 while the thread is empty. From then on the thread is one behind the state, so a crash after any turn was accepted looks like
  "never accepted", and the prompt is sent again.
* `RunChangeDropped.cfg` (`SuccessIsAnswered`): a fault hits between the review and the review-repair prompt. The last
  turn of the earlier cycle *is* recorded as completed, so the retry goes to validation, which passes as it did before.
* `RunControlLost.cfg` (`VerdictStands`): the executor died, and the endpoint reads the state, finds no executor and is about to save it as cancelled. Meanwhile the run is resumed; the new
  executor read the state before the endpoint saved it, goes on, and its next save undoes the cancellation.
* `RunStaleResult.cfg` (`ReturnsCurrentResult`): a run is paused and `result.json` says so. It is resumed, fails, saves that, and dies before the new result is written; the
  next `resume` finds a final run and the old result on file, and returns "paused".
* `RunUnearnedReview.cfg` (`ManualIsRejected`): the evaluators refuse a passed round and Codex repairs it until its turns are used up; the process dies while the last repair is validated. Recovery sees `validating`
  and the verdict of the round before, goes to evaluation, finds that round's aggregate and applies the refusal: the repaired work is in `manual_review` and neither
  validated nor evaluated.
* `TaskQueueTwice.cfg` (`CompletedIsWhole`): two threads load the queue while a child waits for review. One approves, delivers and promotes it, and its successor is approved and
  completes the queue; then the other one's approval of the first child is recorded, as a first child's diff is unchanged by its commit, `deliver` finds it committed, and its cumulative diff replaces the whole one.
* `DeliveryStaged.cfg` (`StagingIsRecovered`): a later child is approved, `git add` has run, and the intent cannot be written (no git identity,
  say, or the process dies). The final diff of a later child is taken against the index, so it is empty now, `_verify_live_diff` finds that the
  "task diff changed after human review", and so does every retry. The test that covers this for a task without a baseline
  (`tests/test_git_delivery.py:328`) says "staged content is recovered when process exits before intent".
* `DeliveryRejected.cfg` (`RejectedIsNotCommitted`): `record_review`'s docstring says it updates the queue "atomically". The process dies after the commit
  and before the queue is saved; the child still waits for review, a second reviewer rejects it, and queue and child are rejected with
  the delivery commit on the branch.
* `DeliverySlip.cfg` (`RecordedIsApproved`): somebody stages an edit after `git diff --cached` was found to be the reviewed diff and before `git write-tree`. The tree of the intent is the edited one, so the commit
  passes every later check, and unreviewed work is committed and recorded.
* `AdmissionRevived.cfg` (`NeverTwoUnfinished`): a queue fails; `infrastructure_error` is final, so a task may start. The queue is paused or its commit retried, which looks for no other work, or
  the task is paused and the queue resumed: two pieces of work of one project are unfinished.
* `TaskQueueSkip.cfg` (`SkippedNeverRuns`): a person skips a child while a review of the one before it is saved from an older copy of the queue; the
  skip is acknowledged, overwritten, and the child runs.
* `ChecksUnsaved.cfg` (`StartIsProtected`): the process dies in `start` after the first saved state and before the baseline is. The resumed run's runner has an empty baseline, and a
  test of the task's start can be deleted unnoticed.
* `EvaluationReread.cfg` (`TextIsOfRevision`): an entry is edited between the search and the read, and the frozen item has one revision's metadata and another's text. The server is
  outside the repository.

Each was confirmed by reading the code along the counterexample. Where a property of a run excuses what one of them shows, it does so by a history variable or by what is left of a bound, so that the run has the
case and everything else about it is checked: `SharedOnlyWhenOvertaken` excuses `broken`; the promises of a run excuse `overwritten`, and those that a retry breaks a run once it was retried (`Undisturbed`);
the properties of `Delivery` excuse `slipped`, and `ReviewedDelivery` has it as a step of its own (`Tamper`), after which alone an unapproved version may be delivered; `OneUnfinished` excuses `revived`;
`BrokenOnlyByArchive` tells `crowded` from not, and `BreachFailsTheRun` excuses `retried`. `RunSingle` has no review or retry and `RunQueue` no evaluator.

`StartsInOrder`, `CompletedIsWhole` and `EditsHold` speak of queues in which no copy that was out of date has been
saved (`stale = {}`); `BuildsOnCommitted` has no such condition. `QueueEnds` excuses `Stuck`, which lists the ways in which a queue cannot go on by itself: a child whose start was cut
short, so that its branch exists and its run does not; another unfinished run in the way; a child paused in `infrastructure_error`; a child reopened for changes, or committed, without
the queue's knowledge. `PlanRunsOnce` excuses confirmations that overlap: the one that comes late makes the moved directory anew. `NoTestIsLost` excuses a baseline that was never saved,
`ItemsAreAudited` and `BreachFailsTheRun` an item whose recording a crash cut short.

The liveness property of `Delivery` names what it excuses, in `Undeliverable`, and half of that list is the code's
own doing: the staged later child above, and an intent that belongs to an earlier review. The latter comes from a crash between the intent and
the queue's save: the child waits for review, is approved again, the new review has another number and so another hash, and every
delivery fails with "commit recovery intent changed: review_sha256". An approval of an empty diff is never delivered either: there is nothing to
commit. And an outsider's edit, staging or commit stops a delivery, as it should.

Three more stuck cases are in the model, though no property forbids them, because the approval or request in question was never acknowledged: a single task
whose process died between `review.json` and `state.json` has an immutable review that its state does not know of; a run reopened for
changes whose queue does not know is waiting for a review that is refused, as the run is running; and a delivery that recovered from an integrity
failure leaves the machine status at `infrastructure_error`.

## Proofs

| theorem | says | argument |
|---|---|---|
| `ActiveLockProofs!TwoHoldersNeedAnOvertaking` | `[]SharedOnlyWhenOvertaken` for any actors, processes, crashes and reuse | `LockInv` is inductive |
| `TaskRunProofs!RunTypes` | `[]TypeInv` for every mode and bound | `TypeInv` is inductive |
| `DeliveryProofs!DeliveryTypes`, `DeliveryInvariant` | `[]TypeOK` and `[]DeliveryInv` for all kinds and bounds | inductive together |
| `DeliveryProofs!DeliveryIsReviewed` | `[]` of `RecordedCommitIsReviewed`, `CompletedIsPromoted` | from `DeliveryInv` |
| `DeliveryProofs!DeliveryStatusIsHonest` | `[]StatusIsHonest` | from `DeliveryInv` |
| `DeliveryProofs!ArchiveIsTrue` | `[]` of `ArchivedIsWritten`, `ResentOnlyAfterFailure` | from `DeliveryInv` |
| `DeliveryProofs!DeliveryRefines` | `Spec` implements `ReviewedDelivery!Spec` | step simulation under `DeliveryInv` |
| `TaskQueueProofs!QueueTypes`, `OnlyCommittedIsBuiltOn` | `[]TypeOK` and `[]BuildsOnCommitted` for any number of children, threads, crashes | consequences of `QueueInvariant` |
| `TaskQueueProofs!EditsAreKept`, `ChildrenStartInOrder`, `CompletedQueuesAreDelivered` | `EditsHold`, `StartsInOrder` and, of `CompletedIsWhole`, all but the diff (`CompletedIsDelivered`) for the same | consequences of `QueueSerialized` |
| `TaskQueueProofs!CompletedQueuesAreWhole` | `[]CompletedIsWhole` when at most one thread reviews | `Whole` is inductive with `Serialized` |
| `AdmissionProofs!AdmissionTypes`, `AtMostOneUnfinished`, `WholePlansOnly` | `[]` of `TypeOK`, `OneUnfinished`, `WholePlanRuns` for any requests, criteria, projects | consequences of `AdmissionInvariant` |
| `AdmissionProofs!PlansRunOnce` | `[]PlanRunsOnce` for the same | `OnePlan` is inductive with the types |
| `ChecksProofs!ChecksTypes` | `[]TypeOK` for any tests, turns, faults and crashes | `Counted` bounds the counters |
| `ChecksProofs!TestsAreKept` | `[]NoTestIsLost` for any tests, turns, faults and crashes | the module's `Inv` is inductive |
| `ChecksProofs!PassedRoundsAreProved` | `[]PassedIsProved` for the same | `Proving` is inductive given `Inv` |
| `EvaluationProofs!EvaluationTypes`, `JudgedByOneContext`, `VerdictsAreDocumented` | `[]` of `TypeOK`, `OneYardstick`, `VerdictIsDocumented` for any criteria, knowledge, rounds, edits, faults and crashes | consequences of `EvaluationInvariant` |
| `TaskRunProofs!SuccessMeansValidated` | with no reviews, `[]SuccessIsValidated` for any number of crashes, faults, requests and retries | `TypeInv /\ (~overwritten => VerdictInv)` is inductive |
| `TaskRunProofs!PromptsRunOnce` | `[](Unreopened => PromptRunsOnce)`: until somebody retries the run or sends it back, or an older state is brought back | `Level`, given `Path` |
| `TaskRunProofs!CheckpointsSuffice`, `TimelinesAreWhole`, `NothingDeadEnds` | `[](~overwritten => SavedStateSuffices)` for single tasks; its first and third part also for children, the first while `Unreopened`, the third while `Undisturbed` | `Told`, given `Path`; `Path` |
| `TaskRunProofs!ChangesAreAnswered` | `[]ChangeRequestIsAnswered` (`Undisturbed => ...`) for any reviews, crashes, faults, requests | `Asked`, given `Path` |
| `TaskRunProofs!ManualReviewsAreEarned` | without evaluators, `[]ManualReviewIsEarned` (`Undisturbed => ...`) for the same | `Rejected`, given `Path` |
| `TaskRunProofs!EndedRunsStayEnded` | `EndedStaysEnded` for single tasks, any crashes, faults and requests | `Placed`, while not `overwritten` |
| `TimelineProofs!TimelineTypes`, `OnlyTheArchiverBreaksIt` | `[]` of `TypeOK`, `BrokenOnlyByArchive` for any items, crashes, retries, archivers, calls, attempts and readers | consequences of `TimelineInvariant` |
| `TimelineProofs!EveryItemIsAudited` | `[]ItemsAreAudited` for the same | `Audited` is inductive given `Inv` |
| `TimelineProofs!BreachNeverSucceeds` | `[]BreachFailsTheRun` for the same | `Answered`, given `Inv` and `Audited` |
| `TimelineProofs!StreamIsWhole` | `[]StreamHasNoGap` for the same | `Shown`, given `Inv` |

*Lock.* That two holders need an overtaking is not inductive by itself. `LockInv` adds, as long as no file was broken that way: a holder's file carries its own metadata
(`HolderOwnsFile`); and whoever is deciding without having been overtaken has read the only possible holder and has not yet judged it dead while that one holds the lock (`ReadInTime`), which rests on dead processes
running nothing (`DeadAreIdle`).

*Types.* Being well typed is not inductive either: the kind of a retried prompt is `started[turns]`, so the sequence must be
long enough, the count on disk must not be ahead of the one in memory, nor what an endpoint has read ahead of the disk (`Numbering`), and an endpoint must serve a request that the service accepts (`Serving`).

*Verdict.* "Success means the last validation looked at this worktree and passed" is violated by recovery if a passed round can
outlive the work it was about. `VerdictInv` says when it cannot: `Fresh` - a passed verdict in a checkpoint is about the worktree as it is and
no repair is pending, or else the evaluators refused that very round, in which case recovery leads back to the evaluator's recorded refusal
and not to success. The phases (`AtPoint`, `Checkpoint`) tie the program counter to the saved phase. A human review breaks
`Fresh`, which is the finding above; hence the assumption `MaxReviews = 0`. An older state that a control request saves may be of any point of the past, so all of this is said while not `overwritten`. TLC checks what follows from it, `SuccessIsValidated`, in `RunSingle`.

*Run.* The other promises of a run share an invariant, `Path`. Its part `Placed` holds as long as no control request has brought back an older state: the copy in memory and the file agree but for a
pause or a cancellation that the executor has not seen (`Copies`), and each point of the loop has its phase (`Positions`). `Ready`, while nobody retries the run either, says what a checkpoint holds for the step after it: a pending prompt its
kind and what it quotes, an evaluation a passed round, and behind recovery (`Looked`) fewer failures than the limit. On it rest, each inductive by itself: `Level`, the saved count of turns is the length of the App
Server's history, or one ahead while the checkpoint names a turn that was not taken; `Told`, all turns and rounds but the last are on the timeline, and the last one from a known point on; `Asked`, a change
request that Codex was not given is the prompt that is pending or the turn that is not taken; `Rejected`, the limit on failures is reached by a round that failed on the worktree as it is, and a prompt
that finds the turns used up is the repair of such a round. `EndedRunsStayEnded` needs `Placed`
only: an executor that shares a final verdict is at the end of its work, where all it can still write is that verdict or an error.
That these conditions never come back once lost (`OverwrittenStays`, `BudgetKeeps`) makes each implication inductive.

The conditions are what the code needs, and each has its counterexample. A retry counts on from a turn the App Server never took (`RunPromptTwice`) and goes to validation past a pending change request (`RunChangeDropped`);
so does a review of a run that failed after an old result of it was returned; with evaluators a crash in validation lets an old refusal speak of new work (`RunUnearnedReview`); an endpoint's save crosses an executor's
(`RunControlLost`). `PausedHasCheckpoint` and `EndedStaysEnded` are for single tasks because `QueueService.request_control` pauses a child without a look at its state. That a call returns the result of the state it
leaves is no theorem: it holds by how `WriteResult` returns it, and with a crash it fails (`RunStaleResult`). No theorem bounds crashes, faults or requests otherwise.

*Delivery.* `DeliveryTypes` is the inductive typing; it carries along what a caller has behind it at each `pc` (`Approved` from staging to the archive).
`DeliveryInvariant` proves `TypeOK /\ DeliveryInv` for every kind of task and all bounds. The statement that matters, that a record in commit.json is about
an approved version that is on the branch, is not inductive: recovery believes an intent that is on file, so the intent must be about an approving review
(`IntentIsApproved`), which rests on an approval being of the saved diff (`ApprovalIsCurrent`), and the saved diff must not be replaced once something was recorded
(`RecordIsKept`), which rests on a rework happening only when no commit was made and nobody is at work (`ClosedIsLeft`). `MarksAreTrue` and `OutboxIsTrue`
count what the server received against marks, crashes and faults. `DeliveryIsReviewed` and `ArchiveIsTrue` are the consequences. `DeliveryRefines` maps
`approved` to the versions that some review approved, `delivered` to `recorded`, `tampered` to `slipped` and `outcome` to the queue's entry: `Decide` is `Approve`, `RecordCommit` is
`Deliver` (a second one of the same version is a stutter), `Settle` is `Complete` or `Reject`, a `Meddle` between the comparison and `git write-tree` is `Tamper`, and nothing else moves them. That the intent's tree is the
approved version is kept from `CompareStaged` on by the index staying as it was compared, or else `slipped`.

*Queue.* That a copy of the state is honest is not inductive: `CloseApproved` calls the current child of a thread's own copy completed, and `Promote` puts it into the diff that is handed on,
however old that copy is. `InPlace` ties where a thread stands to what has happened: on a step that works on a child there is one, and from the promotion on its work is committed. `Honest` is then
kept by every save because it speaks of each copy by itself, and `delivered` only grows: so a lost update loses edits, but never makes the queue believe in work that is not there. The
operators on queue states have a lemma each (`MarkSound`, `SumSound`, `CompletedSound`, ...), and a step of one thread leaves the others as they are (`OneThread`).

What the queue promises while nobody has overwritten a save unseen rests on `Ordered`. `FileOK`: the file is that of a serial queue (`Serial`: at most one child is neither finished nor unbegun and it is
the current one, the finished and the current stand before the rest, the recorded sum is the completed children), it knows which children have begun, and a begun current child started from that sum. `CopyOK` and
`EditOK`: a copy that is not late differs from the file only by what its thread is about to save, so a save that is not late keeps `FileOK` (`MarkFile`, `SelectFile`, `CloseFile`, one lemma for
each kind of save), and makes every other copy late (`Overtakes`). `QuietOK`: while the executor runs a child no other copy can be saved any more, because whoever holds one loaded it before the selection, or
has the file itself (`SaveRefreshed`); this is why the child that begins is the one on file, and why a cancellation finds none begun. `BegunOK`, which needs no condition, says that only begun children are
reviewed, reopened and delivered.

`CompletedIsWhole` needs more, because a thread that delivers late writes `cumulative.diff` without ever saving the queue. `Whole` says that whoever delivers is at the current child or at the one completed last
(`HandsOn`), whose diff is the file's sum; that a reviewing thread, while it is at it, has approved nothing else; and hence that the executor, if it delivers too, delivers the same child. The second
part is false with two reviewers (`TaskQueueTwice.cfg`), and so is the property: `OneReviewer` is a hypothesis of `CompletedQueuesAreWhole` and of no other theorem.

*Admission.* Work becomes unfinished in two places, and each looks for other work in the same step: a task when the worker begins it (`BeginTask`, under the execution lock), a queue when it is
submitted (`Submit`, under the executor's lock). That is all `OneUnfinished` rests on, however stale the checks before it are; a third place, where a failed queue is taken up again, does not look, and is excepted (`revived`). Stated over
pairs (`AtMostOne`) it is inductive with the types, and the cardinality follows. The count of permits (`Permits`) is part of `TypeOK`. `Covered` carries what `ReadDraft` has checked along the
steps of a confirmation to the submission. That a plan is not started twice is `OnePlan`: as long as no confirmation has begun while another one held the draft, the draft is in one folder
(`OneFolder`), only one request has it in hand, and when it has left the drafts' folder whoever took it (`Taken`) is the only one who can have work of it.

*Tests.* `Protection` is the chain that has to hold through crashes: every test a round has seen, and of the start once the baseline is saved, is protected by the state; what the
state protects, the runner does while there is one. A round that has not failed misses none of what the runner protects (`Compared`), and while Codex edits, no verdict stands (`Edited`).

The counters of turns and failures are bounded by the program's limits only because of where they are reset; `Counted` ties them to the round and the step.

*Rounds.* What a passed round has run is in `last` only once it is over, so `Proving` says it of the round under way: a changed test has a result or a command that still waits
(`ChangedAreRun`), in the second stage so has every test in a suite, and the build (`AllAreRun`), and nothing that passed had a failing test (`Honest`). When no command waits, all has
been run. It rests on the runner's baseline being the state's (`Recorded`): the start of the task, or nothing, against which every test there is counts as changed.

*Evaluation.* `FrozenOnce`: a context is only made while it is not frozen, the merged one only from the two frozen ones, and every role, report and aggregate has its
items from it; so a resumed run can meet changed knowledge but no other yardstick. `Published`: of the current round there is an aggregate only behind its two reports (`FilesAgree`), and
whoever writes the next file has the earlier ones on disk as it remembers them; an older aggregate has an older round and is not believed. `VerdictIsDocumented` is inductive with these and
with where the executor stands (`InStep`).

*Timeline.* Writers that remember a number and writers that count the lines share a file, so that the numbers stay whole is a matter of who writes when. `Standing` says who can be at work with whom: nobody
reviews a run before its thread has left it, and nobody archives before a delivery. `Numbers` says who may trust a counter: until an archive has written `archive.queued`, or one of two archivers at once anything (`Loose`), whoever counts on from memory is the
only one who appends, so its counter is the number of lines. `Bounds` keeps the counters in their ranges, and the consequence is `BrokenOnlyByArchive`. `Audited` goes over the items: of each item of a turn it says which of its
events are on file, which are still to be told (`Todo`) and by whom, and that an item recorded before a crash is not recorded again. `Answered` adds that the thread remembers a breach it has recorded until the
run's verdict is written, but for what a retry found recorded. `Shown` relates the reader's cursor to the file: everything numbered up to the cursor has been shown. That a page's cut is the least number not shown, and its end the greatest one shown, takes
the existence of a least and a greatest number of a set, which is proved from the library's well-founded minimum instead of by induction.

The constants' assumptions are only their types and disjointness (`ActorAssumption`, `ModeAssumption`, `BoundAssumption`, `ConstantAssumption`, `ChecksAssumption`, `EvaluationAssumption`).

Only model-checked: everything about liveness (`StaleLockIsReclaimed`, `RunSettles`, `ApprovalIsDelivered`, `QueueEnds`, `AcceptedIsSettled`, `StreamEnds`), which is out of the prover's reach.

## Mutants

Beside some definitions stands a second one that no action uses (`JudgeStaleBlindly` before `JudgeStale`): the slip a
programmer could make there. Put in the place of the definition after it, it violates the property PROJECT.json names
with it; so each property is known to depend on the code it is about.

## Not modelled

* Two processes on one queue or project (a command line beside the server): `Admission` and `TaskQueue` have one server process. What ties processes together is the execution lock, and
  `LockRace.cfg` shows how far that goes.
* Two archivers on one outbox: `Timeline` has their events, call by call; the outbox's contents are `Delivery`'s with one caller.
* Two holders of the lock at work on one run: `ActiveLock` shows that they can be, `TaskRun` and `Delivery` have one executor and one caller at a time.
* Task workspace and policy: of `WorkspaceManager` the model has the refusals that a queue meets, of the policy the classification that the recorder acts on; sandbox settings and git are outside.
* The choice and validation of archive candidates, the ranking of knowledge and the skills: functions of data that no later step decides on.
* Of the API, `events` and `stream_events` are in `Timeline` and the endpoints that change state are actions of the modules above; the others parse requests and
  project files.

What would add most from here: an abstract specification of the queue that
`TaskQueue` refines as long as nothing is stale; a second process in `Admission`.

Left out for good: HTTP and command-line parsing, report layout, git's own plumbing, calls to model and tool
servers (they are nondeterministic answers), the accounting backend (each operation is one database transaction) and the front ends.
