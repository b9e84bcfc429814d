------------------------------- MODULE Checks -------------------------------
(* Fixed validation of one run: the test files Codex may edit, add and     *)
(* delete turn by turn, the ValidationRunner that compares them with the   *)
(* start of the task and runs the fixed commands, and the part of the      *)
(* run's state the runner is rebuilt from after a crash or a retry.        *)
(*                                                                         *)
(* A test file is a path with a content; a digest is the content itself.   *)
(* One review cycle without evaluators: what reopens a finished run is in  *)
(* TaskRun.                                                                *)
EXTENDS Naturals, Sequences, FiniteSets

CONSTANTS
  Backend,      \* paths of backend tests
  Frontend,     \* paths of frontend tests
  Original,     \* the tests that exist when the task starts
  MaxFailures,  \* MAX_VALIDATION_FAILURES, MAX_CODEX_TURNS
  MaxFaults,    \* bound: infrastructure faults
  MaxCrashes    \* bound: crashes of the executor

Tests == Backend \cup Frontend

ASSUME ChecksAssumption ==
  /\ Backend \cap Frontend = {} /\ Original \subseteq Tests
  /\ MaxFailures \in Nat \ {0} /\ MaxFaults \in Nat /\ MaxCrashes \in Nat

VARIABLES
  tree,      \* the test files in the worktree
  state,     \* state.json
  pc,        \* where the executor is
  val,       \* the ValidationRunner in memory
  todo,      \* the commands of the stage still to run
  results,   \* the results of the round so far
  last,      \* ghost: the last recorded round, until Codex edits again
  seen,      \* ghost: the tests a recorded round has seen
  budget     \* faults and crashes left

vars == <<tree, state, pc, val, todo, results, last, seen, budget>>

Content == {"absent", "original", "good", "bad"}
Tree == [Tests -> Content]
Nothing == [t \in Tests |-> "absent"]
Present(files) == {t \in Tests : files[t] # "absent"}

Phase == {"initialized", "prompt", "codex", "validation", "validating", "completed"}
Status == {"running", "success", "manual_review", "infrastructure_error"}
Verdict == {"passed", "failed", "infrastructure_error"}

(* baseline_test_hashes, protected_test_paths and last_diff_sha256 are      *)
(* empty until they are first saved; round is the verdict of the last one.  *)
RunState == [baseline : Tree, protected : SUBSET Tests, diff : SUBSET Tree,
             phase : Phase, status : Status, turns : 0..MaxFailures,
             complete : BOOLEAN, failures : 0..MaxFailures,
             round : Verdict \cup {"none"}]

(* ValidationRunner: baseline, _protected_test_paths, _preflight_complete.  *)
Runner == [baseline : Tree, protected : SUBSET Tests, ready : BOOLEAN]
NewRunner(baseline, protected) ==
  [baseline |-> baseline, protected |-> Present(baseline) \cup protected, ready |-> FALSE]

Command == [stage : {"targeted", "full"}, tests : SUBSET Tests]
Outcome == {"passed", "failed", "timeout", "denied"}
NoRound == [verdict |-> "none", results |-> {}]

Start == [t \in Tests |-> IF t \in Original THEN "original" ELSE "absent"]

Init ==
  /\ tree = Start
  /\ state = [baseline |-> Nothing, protected |-> {}, diff |-> {}, phase |-> "initialized",
              status |-> "running", turns |-> 0, complete |-> FALSE, failures |-> 0,
              round |-> "none"]
  /\ pc = "setup"
  /\ val = NewRunner(Nothing, {})
  /\ todo = <<>> /\ results = {}
  /\ last = NoRound /\ seen = {}
  /\ budget = [faults |-> MaxFaults, crashes |-> MaxCrashes]

Spend(kind) ==
  budget[kind] > 0 /\ budget' = [budget EXCEPT ![kind] = @ - 1]

-----------------------------------------------------------------------------
(* OrchestrationWorkflow.start, resume, the queue's retry.                  *)

(* The runner takes the baseline and the state saves it.                    *)
CaptureBaseline ==
  /\ pc = "setup"
  /\ val' = NewRunner(tree, {})
  /\ state' = [state EXCEPT !.baseline = tree, !.protected = Present(tree)]
  /\ pc' = "preflight"
  /\ UNCHANGED <<tree, todo, results, last, seen, budget>>

(* A runner is checked once, at the start and after a resume.               *)
Preflight ==
  /\ pc = "preflight"
  /\ val' = [val EXCEPT !.ready = TRUE]
  /\ state' = [state EXCEPT !.phase = IF @ = "initialized" THEN "prompt" ELSE @]
  /\ pc' = "drive"
  /\ UNCHANGED <<tree, todo, results, last, seen, budget>>

(* What is raised ends the run (_finish_infrastructure_error), a verdict    *)
(* that is being made final included; a turn that fails may have edited     *)
(* the worktree.  What the handler itself raises leaves the call.           *)
Fail ==
  /\ pc \in {"setup", "preflight", "drive", "codex", "final"}
  /\ Spend("faults")
  /\ state' = [state EXCEPT !.status = "infrastructure_error"]
  /\ tree' \in IF pc = "codex" THEN Tree ELSE {tree}
  /\ pc' = IF state.status = "infrastructure_error" THEN "down" ELSE "final"
  /\ UNCHANGED <<val, todo, results, last, seen>>

(* _persist_final saves the diff of the worktree as the run leaves it.      *)
PersistFinal ==
  /\ pc = "final"
  /\ state' = [state EXCEPT !.diff = {tree}]
  /\ pc' = "down"
  /\ UNCHANGED <<tree, val, todo, results, last, seen, budget>>

Unchanged == state.phase = "codex" \/ state.diff \subseteq {tree}

\* Mutant of Rebuilt: only the tests of the task's start are protected again.
RebuiltFromBaseline == NewRunner(state.baseline, {})

(* The runner of a resumed run.                                             *)
Rebuilt == NewRunner(state.baseline, state.protected)

Resume ==
  /\ pc = "down" /\ state.status = "running"
  /\ Unchanged
  /\ val' = Rebuilt
  /\ pc' = "preflight"
  /\ UNCHANGED <<tree, state, todo, results, last, seen, budget>>

ResumeDiverged ==
  /\ pc = "down" /\ state.status \in {"running", "infrastructure_error"}
  /\ ~Unchanged
  /\ state' = [state EXCEPT !.status = "infrastructure_error"]
  /\ pc' = "final"
  /\ UNCHANGED <<tree, val, todo, results, last, seen, budget>>

(* QueueWorkflow.resume reopens the run of a queue child: a turn that was   *)
(* not recorded as completed is prompted again, other work is checked.      *)
Retry ==
  /\ pc = "down" /\ state.status = "infrastructure_error"
  /\ Spend("faults")
  /\ state' = [state EXCEPT !.status = "running",
                            !.phase = IF state.turns > 0 /\ state.complete
                                      THEN "validation" ELSE "prompt"]
  /\ UNCHANGED <<tree, pc, val, todo, results, last, seen>>

(* The last recorded round settles the run; the loop looks at that first.   *)
Accepted == state.round = "passed" /\ state.phase = "validating"
Rejected == state.round = "failed" /\ state.failures = MaxFailures
Settled == Accepted \/ Rejected

-----------------------------------------------------------------------------
(* A turn of Codex.                                                         *)

\* Mutant of BeginTurn: the last turn is counted when it is over.
BeginTurnLate ==
  /\ pc = "drive" /\ ~Settled /\ state.phase = "prompt" /\ state.turns <= MaxFailures
  /\ state' = [state EXCEPT !.phase = "codex", !.turns = @ + 1, !.complete = FALSE]
  /\ pc' = "codex"
  /\ last' = NoRound
  /\ UNCHANGED <<tree, val, todo, results, seen, budget>>

BeginTurn ==
  /\ pc = "drive" /\ ~Settled /\ state.phase = "prompt" /\ state.turns < MaxFailures
  /\ state' = [state EXCEPT !.phase = "codex", !.turns = @ + 1, !.complete = FALSE]
  /\ pc' = "codex"
  /\ last' = NoRound
  /\ UNCHANGED <<tree, val, todo, results, seen, budget>>

TurnLimit ==
  /\ pc = "drive" /\ ~Settled /\ state.phase = "prompt" /\ state.turns = MaxFailures
  /\ state' = [state EXCEPT !.phase = "completed", !.status = "manual_review"]
  /\ pc' = "final"
  /\ UNCHANGED <<tree, val, todo, results, last, seen, budget>>

(* Codex edits, adds and deletes test files as it likes.                    *)
EndTurn ==
  /\ pc = "codex"
  /\ tree' \in Tree
  /\ state' = [state EXCEPT !.phase = "validation", !.complete = TRUE, !.diff = {tree'}]
  /\ pc' = "drive"
  /\ UNCHANGED <<val, todo, results, last, seen, budget>>

(* After a crash during a turn the App Server has it completed, or it is    *)
(* dispatched again.                                                        *)
RecoverTurn ==
  /\ pc = "drive" /\ ~Settled /\ state.phase = "codex"
  /\ \/ /\ state' = [state EXCEPT !.phase = "validation", !.complete = TRUE, !.diff = {tree}]
        /\ UNCHANGED pc
     \/ pc' = "codex" /\ UNCHANGED state
  /\ UNCHANGED <<tree, val, todo, results, last, seen, budget>>

-----------------------------------------------------------------------------
(* ValidationRunner.validate.                                               *)

Changed(files) == {t \in Present(files) : val.baseline[t] # files[t]}

Deleted == val.protected \ Present(tree)

(* One command for the changed backend tests, one for the frontend's.       *)
Targeted ==
  LET commands(suite) == IF Changed(tree) \cap suite = {} THEN <<>>
                         ELSE <<[stage |-> "targeted", tests |-> Changed(tree) \cap suite]>>
  IN  commands(Backend) \o commands(Frontend)

(* The backend suite, the frontend suite and the build.                     *)
Full == <<[stage |-> "full", tests |-> Present(tree) \cap Backend],
          [stage |-> "full", tests |-> Present(tree) \cap Frontend],
          [stage |-> "full", tests |-> {}]>>

(* The round compares the files with the runner's memory and protects what  *)
(* it finds; a deleted test fails the round before any command runs.        *)
Validate ==
  /\ pc = "drive" /\ ~Settled /\ state.phase \in {"validation", "validating"}
  /\ state' = [state EXCEPT !.phase = "validating"]
  /\ val' = [val EXCEPT !.protected = @ \cup Present(tree)]
  /\ results' = {}
  /\ IF Deleted # {} THEN pc' = "failed" /\ todo' = <<>>
                     ELSE pc' = "targeted" /\ todo' = Targeted
  /\ UNCHANGED <<tree, last, seen, budget>>

(* What a command may come to: a failing test fails it, a missing tool or   *)
(* a cache the sandbox denies is an infrastructure error whatever the exit  *)
(* code, and any command can run into its timeout.                          *)
Ends(command) ==
  (IF \E t \in command.tests : tree[t] = "bad" THEN {"failed"} ELSE {"passed"})
    \cup (IF command.tests = {} THEN {"failed"} ELSE {})
    \cup (IF budget.faults > 0 THEN {"timeout", "denied"} ELSE {})

Pay(outcome) ==
  budget' = [budget EXCEPT !.faults = IF outcome \in {"timeout", "denied"} THEN @ - 1 ELSE @]

(* _run_commands: all commands of a stage run, but the first infrastructure *)
(* error ends the round.                                                    *)
RunCommand ==
  /\ pc \in {"targeted", "full"} /\ todo # <<>>
  /\ \E outcome \in Ends(Head(todo)) :
       /\ results' = results \cup {[command |-> Head(todo), outcome |-> outcome]}
       /\ Pay(outcome)
       /\ IF outcome = "denied" THEN pc' = "broken" /\ todo' = <<>>
                                ELSE todo' = Tail(todo) /\ UNCHANGED pc
  /\ UNCHANGED <<tree, state, val, last, seen>>

\* Mutant of HasFailures: a command that timed out has no exit code to blame.
HasFailed == \E r \in results : r.outcome = "failed"

HasFailures == \E r \in results : r.outcome \in {"failed", "timeout"}

EndStage ==
  /\ pc \in {"targeted", "full"} /\ todo = <<>>
  /\ \/ HasFailures /\ pc' = "failed" /\ UNCHANGED todo
     \/ ~HasFailures /\ pc = "targeted" /\ pc' = "full" /\ todo' = Full
     \/ ~HasFailures /\ pc = "full" /\ pc' = "passed" /\ UNCHANGED todo
  /\ UNCHANGED <<tree, state, val, results, last, seen, budget>>

-----------------------------------------------------------------------------
(* OrchestrationWorkflow._run_validation: the round reaches the state.      *)

VerdictOf == CASE pc = "passed" -> "passed"
               [] pc = "failed" -> "failed"
               [] pc = "broken" -> "infrastructure_error"

(* RunState.add_round.                                                      *)
AddRound(s) ==
  CASE VerdictOf = "passed" -> [s EXCEPT !.round = "passed", !.failures = 0]
    [] VerdictOf = "failed" -> [s EXCEPT !.round = "failed", !.failures = @ + 1,
                                         !.phase = "prompt"]
    [] VerdictOf = "infrastructure_error" ->
         [s EXCEPT !.round = "infrastructure_error", !.status = "infrastructure_error"]

(* The round, the protected tests and the diff are saved together.          *)
SaveRound ==
  /\ pc \in {"passed", "failed", "broken"}
  /\ state' = [AddRound(state) EXCEPT !.protected = val.protected, !.diff = {tree}]
  /\ last' = [verdict |-> VerdictOf, results |-> results]
  /\ seen' = seen \cup Present(tree)
  /\ pc' = IF VerdictOf = "infrastructure_error" THEN "final" ELSE "drive"
  /\ results' = {}
  /\ UNCHANGED <<tree, val, todo, budget>>

(* The verdict is applied, at once or when a later start finds the round    *)
(* (_recover_round_checkpoint).                                             *)
Decide ==
  /\ pc = "drive"
  /\ \/ /\ Accepted
        /\ state' = [state EXCEPT !.phase = "completed", !.status = "success"]
     \/ /\ Rejected
        /\ state' = [state EXCEPT !.phase = "completed", !.status = "manual_review"]
  /\ pc' = "final"
  /\ UNCHANGED <<tree, val, todo, results, last, seen, budget>>

(* The executor dies; Codex may have edited up to that moment.              *)
Crash ==
  /\ pc # "down"
  /\ Spend("crashes")
  /\ tree' \in IF pc = "codex" THEN Tree ELSE {tree}
  /\ pc' = "down" /\ todo' = <<>> /\ results' = {}
  /\ UNCHANGED <<state, val, last, seen>>

-----------------------------------------------------------------------------
Next ==
  \/ CaptureBaseline \/ Preflight \/ Fail \/ PersistFinal \/ Resume \/ ResumeDiverged \/ Retry
  \/ BeginTurn \/ TurnLimit \/ EndTurn \/ RecoverTurn
  \/ Validate \/ RunCommand \/ EndStage \/ SaveRound \/ Decide
  \/ Crash

Spec == Init /\ [][Next]_vars

(* Type invariant. *)
TypeOK ==
  /\ tree \in Tree
  /\ state \in RunState
  /\ pc \in {"down", "setup", "preflight", "drive", "codex", "targeted", "full",
            "passed", "failed", "broken", "final"}
  /\ val \in Runner
  /\ todo \in Seq(Command)
  /\ results \subseteq [command : Command, outcome : Outcome]
  /\ last.verdict \in Verdict \cup {"none"}
  /\ last.results \subseteq [command : Command, outcome : Outcome]
  /\ seen \subseteq Tests
  /\ budget \in [faults : 0..MaxFaults, crashes : 0..MaxCrashes]

(* No test disappears on the way to a passed round: what passed still has   *)
(* every test file an earlier round saw, and every one of the task's start, *)
(* however often the runner was rebuilt.  The tests of the start are only   *)
(* known once the baseline is saved: a crash or fault before that and a     *)
(* resume leave the run without one for good.                               *)
NoTestIsLost ==
  last.verdict = "passed" =>
    /\ seen \subseteq Present(tree)
    /\ Original \subseteq Present(tree) \/ state.baseline = Nothing

(* "Tests that may not disappear in a later Codex turn"                     *)
(* (protected_test_paths), with no exception: a crash before the baseline   *)
(* is saved breaks it.                                                      *)
StartIsProtected == last.verdict = "passed" => Original \subseteq Present(tree)

(* A passed round is about all the tests as they stand now: those changed   *)
(* since the start of the task passed on their own, then all of them and    *)
(* the build passed, and no command was cut short by a timeout or denied.   *)
PassedIsProved ==
  last.verdict = "passed" =>
    LET ran(stage) == {r \in last.results : r.command.stage = stage}
        covered(stage) == UNION {r.command.tests : r \in ran(stage)}
    IN  /\ {t \in Present(tree) : tree[t] # Start[t]} \subseteq covered("targeted")
        /\ Present(tree) = covered("full")
        /\ \E r \in ran("full") : r.command.tests = {}
        /\ \A r \in last.results :
             r.outcome = "passed" /\ \A t \in r.command.tests : tree[t] # "bad"
=============================================================================
