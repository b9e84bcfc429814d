------------------------------ MODULE TaskRun -------------------------------
(***************************************************************************)
(* One task run: OrchestrationWorkflow (codex_loop/workflow.py) driving    *)
(* Codex turns, validation rounds and evaluations over a RunState that is  *)
(* saved to state.json between unsafe operations, together with the        *)
(* callers that touch the same file: the pause/cancel endpoint, the queue  *)
(* that retries infrastructure errors, and the review that reopens a run.  *)
(*                                                                         *)
(* A step is the code between two durable effects (save_state, an event    *)
(* appended to events.jsonl, a request to the App Server), so a crash may  *)
(* fall between any two of them.  A diff hash is the number of the version *)
(* of the worktree; 0 is the clean base.                                   *)
(*                                                                         *)
(* MarkedMisspelt, NeverReopened, ReopenedEnded, AddRoundSticky,           *)
(* OutOfTurnsLate, EvaluatedSilently, ReopenedForCheck,                    *)
(* ReopenedKeepingTurns and TurnUnanswered are mutants: slips in the       *)
(* definition after them, which no action uses and the properties must     *)
(* catch.                                                                  *)
(***************************************************************************)
EXTENDS Integers, Sequences, FiniteSets

CONSTANTS
  HasEvaluator,  \* an evaluation coordinator is configured
  InQueue,       \* the run is a queue child, else a single task
  SharedProcess, \* the control endpoint runs in the executor's own process
  MaxCrashes,    \* bound: executor process deaths
  MaxFaults,     \* bound: failures of workspace, App Server, validator, evaluator
  MaxControls,   \* bound: pause and cancel requests
  MaxTroubles,   \* bound: deaths, failures and requests together
  MaxRetries,    \* bound: infrastructure-error retries by the queue
  MaxReviews     \* bound: review decisions that request changes

ASSUME ModeAssumption ==
  {HasEvaluator, InQueue, SharedProcess} \subseteq BOOLEAN
ASSUME BoundAssumption ==
  {MaxCrashes, MaxFaults, MaxControls, MaxTroubles, MaxRetries, MaxReviews} \subseteq Nat

MAX_CODEX_TURNS         == 3
MAX_VALIDATION_FAILURES == 3

VARIABLES
  disk,     \* state.json
  mem,      \* the executor's RunState object
  pc,       \* where the executor is; "down" when no executor runs
  audit,    \* events of events.jsonl that the code looks up again
  started,  \* prompt kind of the last turn.started event of each turn number
  thread,   \* the App Server's history of the Codex thread
  wt,       \* version of the task worktree
  aggregate,\* evaluations/aggregate.json
  changes,  \* diff version of changes/files.json, -1 before it is written
  result,   \* result.json and report.md
  outcome,  \* what start/resume last returned to the caller
  control,  \* control.json
  budget,   \* what the bounds still leave room for
  endpoint, \* the control request being served: what it has read and decided
  checked,  \* history: the last saved validation round and what it ran on
  judged,   \* history: the last evaluation and what it looked at
  unanswered, \* history: a change request that no prompt has carried to Codex
  overwritten \* history: a control request has saved over what it had not read

files  == <<audit, started, aggregate, changes, result, control>>
desk  == <<endpoint, overwritten>>
aside == <<checked, judged, unanswered, endpoint, overwritten>>
vars  == <<disk, mem, pc, audit, started, thread, wt, aggregate, changes, result,
           outcome, control, budget, endpoint, checked, judged, unanswered, overwritten>>

-----------------------------------------------------------------------------
(* State machine vocabulary: RunStatus.is_final, RunPhase, PromptKind.        *)
Status == {"running", "paused", "cancelled", "success", "manual_review",
           "infrastructure_error"}
Final  == Status \ {"running"}
Phase  == {"initialized", "prompt_pending", "codex_turn", "validation_pending",
           "validating", "evaluation_pending", "evaluating", "completed"}
PromptKind == {"initial", "repair", "review_repair", "evaluation_repair"}
Verdict    == {"none", "passed", "failed", "infra"}

RunState == [status : Status, phase : Phase, kind : PromptKind \cup {"none"},
             thread : BOOLEAN, failures : Nat, turns : Nat, cycleTurns : Nat,
             rounds : Nat, verdict : Verdict, summary : BOOLEAN, diff : Nat]

Point == {"down", "start", "begin", "resume", "drive", "control", "recover",
          "phase", "started", "dispatch", "turn", "answered", "completed",
          "validate", "recorded", "decide", "evaluate", "evaluated", "finish",
          "report"}

EventKind == {"turn.completed", "validation.completed", "retry.scheduled"}
CodexTurn == [prompt : Nat, status : {"running", "completed", "failed"}, cycle : Int]
Budget    == [crashes : Nat, faults : Nat, controls : Nat, retries : Nat, reviews : Nat]
Endpoint  == [at : {"idle", "loaded", "marked"}, action : {"pause", "cancel"},
              state : RunState]
Report    == [status : Final \cup {"none"}, diff : Nat]
NoResult  == [status |-> "none", diff |-> 0]

(* mark_success, mark_manual_review, mark_infrastructure_error,            *)
(* mark_cancelled, mark_paused.                                            *)
Completed(s, status) ==
  [s EXCEPT !.status = status, !.phase = "completed", !.kind = "none"]
Paused(s) == [s EXCEPT !.status = "paused"]
MarkedMisspelt(s, action) ==
  IF action = "pause" THEN Paused(s) ELSE Completed(s, "canceled")
Marked(s, action) ==
  IF action = "pause" THEN Paused(s) ELSE Completed(s, "cancelled")

(* reopen_after_pause *)
NeverReopened(s) == s
ReopenedEnded(s) ==
  IF s.status \in {"paused", "cancelled"} THEN [s EXCEPT !.status = "running"] ELSE s
Reopened(s) == IF s.status = "paused" THEN [s EXCEPT !.status = "running"] ELSE s

(* add_round; a round that could not run ends the run. *)
AddRoundSticky(s, verdict) ==
  LET r == [s EXCEPT !.rounds = @ + 1]
  IN  CASE verdict = "passed" -> [r EXCEPT !.verdict = verdict, !.failures = 0]
        [] verdict = "failed" -> [r EXCEPT !.failures = @ + 1,
                                   !.phase = "prompt_pending", !.kind = "repair"]
        [] verdict = "infra"  -> Completed(r, "infrastructure_error")
AddRound(s, verdict) ==
  LET r == [s EXCEPT !.rounds = @ + 1, !.verdict = verdict]
  IN  CASE verdict = "passed" -> [r EXCEPT !.failures = 0]
        [] verdict = "failed" -> [r EXCEPT !.failures = @ + 1,
                                   !.phase = "prompt_pending", !.kind = "repair"]
        [] verdict = "infra"  -> Completed(r, "infrastructure_error")

(* The verdict passed: finished, or on to the evaluator. *)
Accepted(s) ==
  IF HasEvaluator THEN [s EXCEPT !.phase = "evaluation_pending", !.kind = "none"]
                  ELSE Completed(s, "success")

(* The turn budget of a review cycle is used up. *)
OutOfTurnsLate(s) == s.cycleTurns > MAX_CODEX_TURNS
OutOfTurns(s)     == s.cycleTurns >= MAX_CODEX_TURNS

(* _run_evaluation: the evaluators' answer is applied to the state. *)
EvaluatedSilently(s, repair) ==
  LET again == [s EXCEPT !.failures = @ + 1]
  IN  IF ~repair THEN Completed(s, "success")
      ELSE IF OutOfTurns(s) THEN Completed(again, "manual_review")
      ELSE [again EXCEPT !.phase = "prompt_pending", !.kind = "evaluation_repair"]
Evaluated(s, repair) ==
  LET again == [s EXCEPT !.summary = TRUE, !.failures = @ + 1]
  IN  IF ~repair THEN Completed([s EXCEPT !.summary = FALSE], "success")
      ELSE IF OutOfTurns(s) THEN Completed(again, "manual_review")
      ELSE [again EXCEPT !.phase = "prompt_pending", !.kind = "evaluation_repair"]

(* reopen_for_review_changes *)
ReopenedForCheck(s) ==
  [s EXCEPT !.status = "running", !.phase = "validation_pending", !.kind = "none",
            !.failures = 0, !.cycleTurns = 0, !.summary = FALSE]
ReopenedKeepingTurns(s) ==
  [s EXCEPT !.status = "running", !.phase = "prompt_pending",
            !.kind = "review_repair", !.failures = 0, !.summary = FALSE]
ReopenedForReview(s) ==
  [s EXCEPT !.status = "running", !.phase = "prompt_pending",
            !.kind = "review_repair", !.failures = 0, !.cycleTurns = 0,
            !.summary = FALSE]

(* The last turn is on the event timeline as completed. *)
TurnDone(s) == s.turns > 0 /\ <<"turn.completed", s.turns>> \in audit

(* reopen_after_infrastructure_error: a turn that was never recorded as    *)
(* completed is asked for again, else the work done so far is validated.   *)
Incomplete(s) == s.turns > 0 /\ ~TurnDone(s)
Retried(s) ==
  IF Incomplete(s) \/ s.turns = 0
  THEN [s EXCEPT !.status = "running", !.phase = "prompt_pending",
                 !.kind = IF Incomplete(s) THEN started[s.turns] ELSE "initial"]
  ELSE [s EXCEPT !.status = "running", !.phase = "validation_pending", !.kind = "none"]

(* verify_turn_completed compares the saved turn count with the length of  *)
(* the thread's history: the App Server never took the last turn, or it    *)
(* has answered it.                                                        *)
LastTurn       == thread[Len(thread)]
TurnUnanswered == Len(thread) = mem.turns - 1 \/ LastTurn.status # "completed"
TurnNeverTaken == Len(thread) = mem.turns - 1
TurnAnswered   == Len(thread) = mem.turns /\ LastTurn.status = "completed"

(* The aggregate on file belongs to the last validation round. *)
AggregateIsLast == aggregate.round = mem.rounds

Save(s) == mem' = s /\ disk' = s

Troubles    == MaxCrashes - budget.crashes + MaxFaults - budget.faults
                 + MaxControls - budget.controls
Spend(what) ==
  /\ budget[what] > 0 /\ (what \in {"crashes", "faults", "controls"} => Troubles < MaxTroubles)
  /\ budget' = [budget EXCEPT ![what] = @ - 1]

(* Human review cycles so far: turns of one cycle share a turn budget. *)
Cycle == MaxReviews - budget.reviews

Go(from, to) == pc = from /\ pc' = to

-----------------------------------------------------------------------------
(* initialize_run has just written the first state.json. *)
InitialState ==
  [status |-> "running", phase |-> "initialized", kind |-> "initial",
   thread |-> FALSE, failures |-> 0, turns |-> 0, cycleTurns |-> 0, rounds |-> 0,
   verdict |-> "none", summary |-> FALSE, diff |-> 0]

(* No control request is being served. *)
Idle == [at |-> "idle", action |-> "pause", state |-> InitialState]

Init ==
  /\ disk = InitialState /\ mem = InitialState /\ pc = "start"
  /\ audit = {} /\ started = <<>> /\ thread = <<>> /\ wt = 0
  /\ aggregate = [round |-> 0, repair |-> FALSE]
  /\ changes = -1 /\ result = NoResult /\ outcome = NoResult /\ control = "none"
  /\ budget = [crashes |-> MaxCrashes, faults |-> MaxFaults, controls |-> MaxControls,
               retries |-> MaxRetries, reviews |-> MaxReviews]
  /\ checked = [wt |-> 0, verdict |-> "none"]
  /\ judged = [wt |-> 0, repair |-> TRUE]
  /\ unanswered = FALSE
  /\ endpoint = Idle /\ overwritten = FALSE

(* _finish_infrastructure_error: whatever was raised ends the run. *)
Fail == Save(Completed(mem, "infrastructure_error")) /\ pc' = "finish"

(* start: a thread of its own, permissions verified, state saved. *)
StartThread ==
  /\ Go("start", "begin")
  /\ Save([mem EXCEPT !.thread = TRUE])
  /\ UNCHANGED <<files, thread, wt, outcome, budget, aside>>

BeginPrompt ==
  /\ Go("begin", "drive")
  /\ Save([mem EXCEPT !.phase = "prompt_pending", !.kind = "initial"])
  /\ UNCHANGED <<files, thread, wt, outcome, budget, aside>>

(* resume: load the checkpoint; a paused run is reopened and its control   *)
(* request dropped.  A queue resumes only the child it counts as running   *)
(* or paused; a person may resume any run that has not returned a result.  *)
Resume ==
  /\ Go("down", "resume")
  /\ \/ outcome = NoResult
     \/ IF InQueue THEN outcome.status = "paused" ELSE disk.status = "paused"
  /\ outcome' = NoResult
  /\ Save(Reopened(disk))
  /\ control' = IF disk.status = "paused" THEN "none" ELSE control
  /\ UNCHANGED <<audit, started, aggregate, changes, result, thread, wt, budget, aside>>

Diverged == mem.phase # "codex_turn" /\ mem.diff # 0 /\ wt # mem.diff

(* The worktree is not the one the checkpoint recorded. *)
ResumeDiverged ==
  /\ pc = "resume" /\ Diverged
  /\ Fail
  /\ UNCHANGED <<files, thread, wt, outcome, budget, aside>>

(* A final run returns the result on file, or writes the missing one. *)
ResumeFinal ==
  /\ pc = "resume" /\ ~Diverged /\ mem.status \in Final
  /\ \/ result # NoResult /\ outcome' = result /\ pc' = "down"
     \/ result = NoResult /\ UNCHANGED outcome /\ pc' = "finish"
  /\ UNCHANGED <<disk, mem, files, thread, wt, budget, aside>>

ResumeThread ==
  /\ Go("resume", "drive") /\ ~Diverged /\ mem.status = "running"
  /\ Save(IF mem.thread THEN mem
          ELSE [mem EXCEPT !.thread = TRUE, !.phase = "prompt_pending",
                           !.kind = "initial"])
  /\ UNCHANGED <<files, thread, wt, outcome, budget, aside>>

-----------------------------------------------------------------------------
(* _drive, first thing in every iteration: _apply_control. *)
ApplyControl ==
  /\ Go("drive", "control") /\ control # "none"
  /\ Save(Marked(mem, control))
  /\ UNCHANGED <<files, thread, wt, outcome, budget, aside>>

ClearControl ==
  /\ Go("control", "finish")
  /\ control' = "none"
  /\ UNCHANGED <<disk, mem, audit, started, aggregate, changes, result, thread, wt,
                 outcome, budget, aside>>

NoControlRequest ==
  /\ Go("drive", "recover") /\ control = "none"
  /\ UNCHANGED <<disk, mem, files, thread, wt, outcome, budget, aside>>

(* _recover_round_checkpoint: finish the round a crash left half recorded. *)
RecoverRound ==
  /\ pc = "recover"
  /\ audit' = IF mem.rounds = 0 THEN audit
              ELSE audit \cup {<<"validation.completed", mem.rounds>>}
  /\ LET exhausted == mem.rounds > 0 /\ mem.verdict # "passed"
                        /\ mem.failures >= MAX_VALIDATION_FAILURES
         next == IF mem.verdict = "passed" /\ mem.phase = "validating"
                 THEN Accepted(mem)
                 ELSE IF exhausted THEN Completed(mem, "manual_review") ELSE mem
     IN  /\ IF next = mem THEN UNCHANGED <<mem, disk>> ELSE Save(next)
         /\ pc' = IF next.status \in Final THEN "finish" ELSE "phase"
  /\ UNCHANGED <<started, aggregate, changes, result, control, thread, wt, outcome,
                 budget, aside>>

BeginInitial ==
  /\ Go("phase", "drive") /\ mem.phase = "initialized"
  /\ Save([mem EXCEPT !.phase = "prompt_pending", !.kind = "initial"])
  /\ UNCHANGED <<files, thread, wt, outcome, budget, aside>>

(* _ensure_retry_event *)
NoteRetry ==
  audit' = IF /\ mem.kind \in {"repair", "evaluation_repair"}
              /\ mem.rounds > 0
              /\ mem.failures < MAX_VALIDATION_FAILURES
           THEN audit \cup {<<"retry.scheduled", mem.rounds>>}
           ELSE audit

(* What _run_pending_turn needs to render the prompt; it raises otherwise. *)
Renderable(s) ==
  CASE s.kind = "repair"            -> s.rounds > 0 /\ s.failures \in {1, 2}
    [] s.kind = "evaluation_repair" -> s.summary
    [] s.kind = "none"              -> FALSE
    [] OTHER                        -> TRUE

(* _run_pending_turn, the turn budget is used up. *)
TurnLimit ==
  /\ Go("phase", "finish") /\ mem.phase = "prompt_pending"
  /\ NoteRetry
  /\ OutOfTurns(mem)
  /\ Save(Completed(mem, "manual_review"))
  /\ UNCHANGED <<started, aggregate, changes, result, control, thread, wt, outcome,
                 budget, aside>>

(* The prompt is saved and turn.started appended, the state not yet. *)
WritePrompt ==
  /\ Go("phase", "started") /\ mem.phase = "prompt_pending"
  /\ NoteRetry
  /\ ~OutOfTurns(mem) /\ Renderable(mem)
  /\ started' = Append(SubSeq(started, 1, mem.turns), mem.kind)
  /\ UNCHANGED <<disk, mem, aggregate, changes, result, control, thread, wt, outcome,
                 budget, aside>>

SaveTurn ==
  /\ Go("started", "dispatch")
  /\ Save([mem EXCEPT !.turns = @ + 1, !.cycleTurns = @ + 1, !.phase = "codex_turn",
                      !.kind = "none", !.diff = wt])
  /\ UNCHANGED <<files, thread, wt, outcome, budget, aside>>

(* client.run: the App Server takes the turn. *)
AcceptTurn ==
  /\ Go("dispatch", "turn")
  /\ thread' = Append(thread, [prompt |-> mem.turns, status |-> "running",
                               cycle |-> Cycle])
  /\ unanswered' = (unanswered /\ started[mem.turns] # "review_repair")
  /\ UNCHANGED <<disk, mem, files, wt, outcome, budget, checked, judged, desk>>

(* The turn ends and has edited the worktree or left it alone. *)
EndTurn(status) ==
  /\ thread' = [thread EXCEPT ![Len(thread)].status = status]
  /\ wt' \in {wt, wt + 1}

FinishTurn ==
  /\ Go("turn", "answered")
  /\ EndTurn("completed")
  /\ UNCHANGED <<disk, mem, files, outcome, budget, aside>>

TurnFails ==
  /\ pc = "turn" /\ Spend("faults")
  /\ EndTurn("failed")
  /\ Fail
  /\ UNCHANGED <<files, outcome, aside>>

(* _recover_or_dispatch_turn *)
RecoverTurn ==
  /\ pc = "phase" /\ mem.phase = "codex_turn"
  /\ CASE TurnNeverTaken -> pc' = "dispatch" /\ UNCHANGED <<mem, disk>>
       [] TurnAnswered   -> pc' = "answered" /\ UNCHANGED <<mem, disk>>
       [] OTHER          -> Fail
  /\ UNCHANGED <<files, thread, wt, outcome, budget, aside>>

(* _complete_turn *)
RecordTurn ==
  /\ Go("answered", "completed")
  /\ audit' = audit \cup {<<"turn.completed", mem.turns>>}
  /\ UNCHANGED <<disk, mem, started, aggregate, changes, result, control, thread, wt,
                 outcome, budget, aside>>

SaveTurnCompleted ==
  /\ Go("completed", "drive")
  /\ Save([mem EXCEPT !.phase = "validation_pending", !.kind = "none", !.diff = wt])
  /\ UNCHANGED <<files, thread, wt, outcome, budget, aside>>
-----------------------------------------------------------------------------
(* _run_validation: VALIDATING is saved before the commands run. *)
StartValidation ==
  /\ Go("phase", "validate") /\ mem.phase \in {"validation_pending", "validating"}
  /\ Save([mem EXCEPT !.phase = "validating"])
  /\ UNCHANGED <<files, thread, wt, outcome, budget, aside>>

(* The commands ran; save_round, add_round, save_state. *)
Validate(verdict) ==
  /\ Go("validate", "recorded")
  /\ IF verdict = "infra" THEN Spend("faults") ELSE UNCHANGED budget
  /\ Save([AddRound(mem, verdict) EXCEPT !.diff = wt])
  /\ checked' = [wt |-> wt, verdict |-> verdict]
  /\ UNCHANGED <<files, thread, wt, outcome, judged, unanswered, desk>>

RecordRound ==
  /\ Go("recorded", "decide")
  /\ audit' = audit \cup {<<"validation.completed", mem.rounds>>}
  /\ UNCHANGED <<disk, mem, started, aggregate, changes, result, control, thread, wt,
                 outcome, budget, aside>>

(* The rest of _run_validation acts on the verdict it has in memory. *)
DecideRound ==
  LET exhausted == mem.verdict = "failed" /\ mem.failures >= MAX_VALIDATION_FAILURES
      next == CASE mem.verdict = "passed" -> Accepted(mem)
                [] mem.verdict = "failed" ->
                     IF exhausted THEN Completed(mem, "manual_review") ELSE mem
                [] OTHER -> Completed(mem, "infrastructure_error")
  IN  /\ pc = "decide"
      /\ Save(next)
      /\ pc' = IF next.status \in Final THEN "finish" ELSE "drive"
      /\ audit' = IF mem.verdict = "failed" /\ ~exhausted
                  THEN audit \cup {<<"retry.scheduled", mem.rounds>>} ELSE audit
      /\ UNCHANGED <<started, aggregate, changes, result, control, thread, wt, outcome,
                     budget, aside>>

(* _run_evaluation; an error is raised unless the last round passed. *)
StartEvaluation ==
  /\ Go("phase", "evaluate") /\ mem.phase \in {"evaluation_pending", "evaluating"}
  /\ mem.verdict = "passed"
  /\ Save([mem EXCEPT !.phase = "evaluating"])
  /\ UNCHANGED <<files, thread, wt, outcome, budget, aside>>

(* An aggregate on file for this round is reused; the evaluators are asked *)
(* otherwise.                                                              *)
Evaluate(repair) ==
  /\ Go("evaluate", "evaluated")
  /\ IF AggregateIsLast
     THEN UNCHANGED <<aggregate, judged>>
     ELSE /\ aggregate' = [round |-> mem.rounds, repair |-> repair]
          /\ judged' = [wt |-> wt, repair |-> repair]
  /\ UNCHANGED <<disk, mem, audit, started, changes, result, control, thread, wt,
                 outcome, budget, checked, unanswered, desk>>

(* The verdict of the evaluators is applied and saved. *)
ApplyEvaluation ==
  LET next == Evaluated(mem, aggregate.repair)
  IN  /\ pc = "evaluated"
      /\ Save(next)
      /\ pc' = IF next.status \in Final THEN "finish" ELSE "drive"
      /\ audit' = IF next.status = "running"
                  THEN audit \cup {<<"retry.scheduled", mem.rounds>>} ELSE audit
      /\ UNCHANGED <<started, aggregate, changes, result, control, thread, wt, outcome,
                     budget, aside>>

-----------------------------------------------------------------------------
(* A run whose checkpoint says completed goes straight to _persist_final. *)
AlreadyCompleted ==
  /\ Go("phase", "finish") /\ mem.phase = "completed"
  /\ UNCHANGED <<disk, mem, files, thread, wt, outcome, budget, aside>>

(* _persist_final: "Cannot write a final report for a running task". *)
NotFinal ==
  /\ pc = "finish" /\ mem.status \notin Final
  /\ Fail
  /\ UNCHANGED <<files, thread, wt, outcome, budget, aside>>

(* _persist_final: the final diff is captured and the state saved ... *)
CaptureChanges ==
  /\ Go("finish", "report") /\ mem.status \in Final
  /\ changes' = wt
  /\ Save([mem EXCEPT !.diff = wt])
  /\ UNCHANGED <<audit, started, aggregate, result, control, thread, wt, outcome,
                 budget, aside>>

(* ... then result and report are written, and the call returns. *)
WriteResult ==
  /\ Go("report", "down")
  /\ result' = [status |-> mem.status, diff |-> mem.diff]
  /\ outcome' = result'
  /\ UNCHANGED <<disk, mem, audit, started, aggregate, changes, control, thread, wt,
                 budget, aside>>

-----------------------------------------------------------------------------
(* The workspace, the App Server, the validator, an evaluator or a write   *)
(* fails, in the final report too.                                         *)
Fault ==
  /\ pc \notin {"down", "turn"} /\ Spend("faults")
  /\ Fail
  /\ UNCHANGED <<files, thread, wt, outcome, aside>>

(* It fails again while that is being reported: the error leaves start or  *)
(* resume, and a queue takes it for the child's result.                    *)
FaultEscapes ==
  /\ pc \in {"finish", "report"} /\ mem.status = "infrastructure_error" /\ Spend("faults")
  /\ pc' = "down" /\ mem' = disk
  /\ outcome' = IF InQueue THEN [status |-> "infrastructure_error", diff |-> disk.diff]
                ELSE outcome
  /\ UNCHANGED <<disk, files, thread, wt, aside>>

(* The process dies; a turn in flight ends one way or the other. *)
Crash ==
  /\ pc # "down" /\ pc' = "down" /\ Spend("crashes")
  /\ IF pc = "turn" THEN \E status \in {"completed", "failed"} : EndTurn(status)
                    ELSE UNCHANGED <<thread, wt>>
  /\ mem' = disk
  /\ UNCHANGED <<disk, files, outcome, aside>>

Executing == pc # "down" /\ SharedProcess

(* TaskService.request_control reads the state ... *)
LoadForControl(action) ==
  /\ ~InQueue /\ endpoint = Idle /\ Spend("controls")
  /\ disk.status = "running" \/ (disk.status = "paused" /\ action = "cancel")
  /\ endpoint' = [at |-> "loaded", action |-> action, state |-> disk]
  /\ UNCHANGED <<disk, mem, pc, files, thread, wt, outcome, checked, judged, unanswered,
                 overwritten>>

(* ... sees an executor that runs this task, and leaves a request ... *)
FindActive ==
  /\ endpoint.at = "loaded" /\ Executing
  /\ control' = endpoint.action
  /\ endpoint' = Idle
  /\ UNCHANGED <<disk, mem, pc, audit, started, aggregate, changes, result, thread, wt,
                 outcome, budget, checked, judged, unanswered, overwritten>>

(* ... or sees none, and marks the state it has read. *)
FindInactive ==
  /\ endpoint.at = "loaded" /\ ~Executing
  /\ endpoint' = [endpoint EXCEPT !.at = "marked"]
  /\ control' = "none"
  /\ UNCHANGED <<disk, mem, pc, audit, started, aggregate, changes, result, thread, wt,
                 outcome, budget, checked, judged, unanswered, overwritten>>

(* QueueService.request_control does the same with a queue, which pauses   *)
(* the child it counts as running, whatever the child's state says; a      *)
(* queue that is cancelled leaves its child alone.                         *)
RequestQueueControl(action) ==
  /\ InQueue /\ endpoint = Idle /\ Spend("controls")
  /\ \/ Executing /\ control' = action /\ UNCHANGED endpoint
     \/ /\ ~Executing /\ action = "pause" /\ outcome = NoResult
        /\ endpoint' = [at |-> "marked", action |-> action, state |-> disk]
        /\ UNCHANGED control
  /\ UNCHANGED <<disk, mem, pc, audit, started, aggregate, changes, result, thread, wt,
                 outcome, checked, judged, unanswered, overwritten>>

(* The marked state is saved, over whatever is there by now; so is the     *)
(* queue's own, which counts the child as paused.                          *)
Overtaken == disk # endpoint.state \/ (InQueue /\ outcome # NoResult)
SaveControl ==
  /\ endpoint.at = "marked" /\ endpoint' = Idle
  /\ disk' = Marked(endpoint.state, endpoint.action)
  /\ mem' = IF pc = "down" THEN disk' ELSE mem
  /\ outcome' = IF InQueue THEN [status |-> "paused", diff |-> endpoint.state.diff]
                ELSE outcome
  /\ overwritten' = (overwritten \/ Overtaken)
  /\ UNCHANGED <<pc, files, thread, wt, budget, checked, judged, unanswered>>

(* QueueWorkflow.resume after an infrastructure error. *)
RetryInfrastructure ==
  /\ InQueue /\ pc = "down"
  /\ outcome.status = "infrastructure_error" /\ disk.status = "infrastructure_error"
  /\ Spend("retries")
  /\ Save(Retried(disk))
  /\ outcome' = NoResult
  /\ UNCHANGED <<pc, files, thread, wt, aside>>

(* A reviewer of a queue child asks for changes: the review is bound to    *)
(* the captured diff, and the run is reopened (record_review,              *)
(* reopen_for_review_changes).                                             *)
RequestChanges ==
  /\ InQueue /\ pc = "down"
  /\ outcome.status \in {"success", "manual_review"} /\ disk.status \in Final
  /\ changes = disk.diff /\ wt = disk.diff
  /\ Spend("reviews")
  /\ result' = [status |-> disk.status, diff |-> disk.diff]
  /\ Save(ReopenedForReview(disk))
  /\ outcome' = NoResult
  /\ unanswered' = TRUE
  /\ UNCHANGED <<pc, audit, started, aggregate, changes, control, thread, wt, checked,
                 judged, desk>>

-----------------------------------------------------------------------------
Turn == \/ BeginInitial \/ TurnLimit \/ WritePrompt \/ SaveTurn
        \/ AcceptTurn \/ FinishTurn \/ RecoverTurn \/ RecordTurn \/ SaveTurnCompleted

Check == \/ StartValidation \/ \E v \in {"passed", "failed"} : Validate(v)
         \/ RecordRound \/ DecideRound
         \/ StartEvaluation
         \/ \E r \in BOOLEAN : Evaluate(r)
         \/ ApplyEvaluation

Drive == \/ StartThread \/ BeginPrompt
         \/ ResumeDiverged \/ ResumeFinal \/ ResumeThread
         \/ ApplyControl \/ ClearControl \/ NoControlRequest \/ RecoverRound
         \/ Turn \/ Check
         \/ AlreadyCompleted \/ NotFinal \/ CaptureChanges \/ WriteResult

Environment ==
  \/ Fault \/ FaultEscapes \/ TurnFails \/ Validate("infra") \/ Crash
  \/ \E a \in {"pause", "cancel"} : LoadForControl(a) \/ RequestQueueControl(a)
  \/ FindActive \/ FindInactive \/ SaveControl
  \/ RetryInfrastructure \/ RequestChanges

Next == Drive \/ Resume \/ Environment

Spec == Init /\ [][Next]_vars

(* A running executor goes on, and somebody resumes a run that a crash or  *)
(* a pause left behind; nobody has to cause faults, requests or reviews.   *)
FairSpec == Spec /\ WF_vars(Drive) /\ WF_vars(Resume)

-----------------------------------------------------------------------------
(* Type invariant. *)
TypeOK ==
  /\ disk \in RunState /\ mem \in RunState
  /\ pc \in Point
  /\ audit \subseteq EventKind \X Nat
  /\ started \in Seq(PromptKind)
  /\ thread \in Seq(CodexTurn)
  /\ wt \in Nat
  /\ aggregate \in [round : Nat, repair : BOOLEAN]
  /\ changes \in Nat \cup {-1}
  /\ result \in Report /\ outcome \in Report
  /\ control \in {"none", "pause", "cancel"}
  /\ budget \in Budget
  /\ checked \in [wt : Nat, verdict : Verdict]
  /\ judged \in [wt : Nat, repair : BOOLEAN]
  /\ unanswered \in BOOLEAN
  /\ endpoint \in Endpoint /\ overwritten \in BOOLEAN

(* What typing rests on: prompts are numbered without gaps, neither the    *)
(* file nor what an endpoint has read of it is ahead of the executor, and  *)
(* only final runs are reported.                                           *)
Numbering ==
  /\ disk.turns <= mem.turns /\ Len(started) >= mem.turns
  /\ endpoint.at # "idle" => endpoint.state.turns <= disk.turns
  /\ pc = "started" => Len(started) > mem.turns
  /\ pc = "report" => mem.status \in Final

(* A queue only ever pauses its child; a task is not asked to stop when it *)
(* has ended.                                                              *)
Serving ==
  endpoint.at # "idle" =>
    IF InQueue THEN endpoint.at = "marked" /\ endpoint.action = "pause"
    ELSE \/ endpoint.state.status = "running"
         \/ endpoint.state.status = "paused" /\ endpoint.action = "cancel"

TypeInv == TypeOK /\ Numbering /\ Serving

(* machine_status "success" means the fixed validation passed on the work  *)
(* that is in the worktree now, not on an earlier version of it.           *)
SuccessIsValidated ==
  disk.status = "success" /\ ~overwritten => checked = [wt |-> wt, verdict |-> "passed"]

(* With evaluators configured, success also means they looked at this very *)
(* version and asked for nothing.                                          *)
SuccessIsEvaluated ==
  HasEvaluator /\ disk.status = "success" /\ ~overwritten =>
    judged = [wt |-> wt, repair |-> FALSE]

(* A saved prompt reaches Codex at most once, however often the run is     *)
(* interrupted between saving it and reading the answer.                   *)
PromptRunsOnce ==
  ~overwritten =>
    \A i, j \in DOMAIN thread : thread[i].prompt = thread[j].prompt => i = j

(* The queue has not retried an infrastructure error of this run, and no   *)
(* control request has brought back an older state of it.                  *)
Unretried   == budget.retries = MaxRetries
Undisturbed == Unretried /\ ~overwritten

(* MAX_CODEX_TURNS: Codex is asked at most three times between two human   *)
(* reviews, across crashes or across retries; a crash may follow a retry   *)
(* that lost count.                                                        *)
Crashed       == budget.crashes < MaxCrashes
TurnsPerCycle ==
  ~overwritten /\ (Crashed => Unretried) =>
    \A c \in 0 .. Cycle :
      Cardinality({i \in DOMAIN thread : thread[i].cycle = c}) <= MAX_CODEX_TURNS

(* "manual_review" hands a person work that was in fact rejected: the last *)
(* version failed validation or the evaluators refused it.                 *)
IsRejected ==
  \/ checked = [wt |-> wt, verdict |-> "failed"]
  \/ HasEvaluator /\ judged = [wt |-> wt, repair |-> TRUE]
ManualIsRejected     == disk.status = "manual_review" => IsRejected
ManualReviewIsEarned == Undisturbed => ManualIsRejected

(* The event timeline of a reported success accounts for every turn and    *)
(* every validation round, even those a crash left half recorded.          *)
AuditIsComplete ==
  pc = "down" /\ disk.status = "success" /\ result # NoResult =>
    /\ \A n \in 1 .. disk.turns  : <<"turn.completed", n>> \in audit
    /\ \A n \in 1 .. disk.rounds : <<"validation.completed", n>> \in audit

(* A successful run has carried the reviewer's last change request to      *)
(* Codex.                                                                  *)
SuccessIsAnswered       == disk.status = "success" => ~unanswered
ChangeRequestIsAnswered == Undisturbed => SuccessIsAnswered

(* The loop never meets the dead ends it guards against: a pending prompt  *)
(* always has the round or findings it quotes, and only work that passed   *)
(* validation goes to the evaluators.                                      *)
NoDeadEnd ==
  pc = "phase" =>
    /\ mem.phase = "prompt_pending" => Renderable(mem)
    /\ mem.phase \in {"evaluation_pending", "evaluating"} => mem.verdict = "passed"

(* A paused run keeps a checkpoint it can continue from. *)
PausedHasCheckpoint == disk.status = "paused" => disk.phase # "completed"

(* What a run leaves behind is enough for what follows it: a pause can be   *)
(* resumed, a pending prompt has what it quotes, and a success has its      *)
(* whole timeline, wherever crashes and control requests fell.              *)
SavedStateSuffices == AuditIsComplete /\ PausedHasCheckpoint /\ NoDeadEnd

(* The result a call returns is the result of the run it drove: status and *)
(* diff are those of the saved state, unless a control request has brought *)
(* back an older one.                                                      *)
ReturnsCurrentResult ==
  [][outcome' # outcome /\ pc # "down" /\ pc' = "down" =>
       overwritten \/ outcome' = [status |-> disk.status, diff |-> disk.diff]]_vars

(* The verdict of a single task that has ended stands: no resume, control  *)
(* request or executor changes it, but for an error in the final report,   *)
(* which makes any verdict an infrastructure error.  Excepted are a state  *)
(* on file that its executor does not share yet, and an older state that a *)
(* control request has brought back.                                       *)
Kept            == disk'.status \in {disk.status, "infrastructure_error"}
VerdictStands   == [][disk.status \in Final \ {"paused"} => Kept]_vars
Shared          == pc = "down" \/ mem.status = disk.status
EndedStaysEnded ==
  [][disk.status \in Final \ {"paused"} /\ Shared => overwritten' \/ Kept]_vars

(* The inductive invariant behind SuccessIsValidated while no review       *)
(* reopens the run.  Its heart is Fresh: a passed verdict in a checkpoint  *)
(* is about the worktree as it is, unless the evaluators refused that very *)
(* round, and then a resumed validation only meets the refusal again.      *)
InRework(s)  == s.phase \in {"initialized", "prompt_pending", "codex_turn"}
Current      == checked = [wt |-> wt, verdict |-> "passed"]
Refused(s)   == aggregate = [round |-> s.rounds, repair |-> TRUE]
Fresh(s)     == s.verdict = "passed" =>
                  Refused(s) \/ (Current /\ ~InRework(s) /\ TurnDone(s))
Earned(s)    == s.status = "success" => Current
Checkpoint(s) ==
  /\ Fresh(s) /\ Earned(s)
  /\ s.verdict = "passed" => s.rounds > 0
  /\ s.phase \in {"validation_pending", "validating"} => TurnDone(s)
  /\ s.phase = "codex_turn" => s.turns > 0
  /\ s.phase \in {"evaluation_pending", "evaluating"} => HasEvaluator
  /\ ~s.thread => s.verdict = "none"

Working == {"start", "begin", "drive", "recover", "phase", "started", "dispatch",
            "turn", "answered", "completed", "validate", "evaluate", "evaluated"}

AtPoint ==
  /\ pc \in Working => mem.status = "running" /\ disk.status # "success"
  /\ pc \in {"start", "begin"} => mem.verdict = "none"
  /\ pc \in (Working \ {"start"}) \cup {"recorded", "decide"} => mem.thread
  /\ pc = "started" => mem.phase = "prompt_pending"
  /\ pc \in {"dispatch", "turn", "answered", "completed"} => mem.phase = "codex_turn"
  /\ pc = "completed" => TurnDone(mem)
  /\ pc = "validate" => mem.phase = "validating"
  /\ pc \in {"recorded", "decide"} => (mem.verdict = "passed" => Current)
  /\ pc \in {"evaluate", "evaluated"} => mem.verdict = "passed" /\ HasEvaluator
  /\ pc = "evaluated" => aggregate.round = mem.rounds

VerdictInv ==
  /\ budget.reviews = 0
  /\ HasEvaluator \/ aggregate.round = 0
  /\ disk.verdict = mem.verdict /\ disk.rounds = mem.rounds
  /\ disk.turns = mem.turns /\ disk.thread = mem.thread
  /\ Checkpoint(mem) /\ Checkpoint(disk)
  /\ AtPoint

(* Every run comes to a machine verdict, if crashes, faults and requests   *)
(* cease and someone resumes it.                                           *)
RunSettles == <>[](disk.status \in Final \ {"paused"})
=============================================================================
