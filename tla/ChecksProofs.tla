---------------------------- MODULE ChecksProofs ----------------------------
(***************************************************************************)
(* For any test files, any number of turns, faults and crashes: a passed   *)
(* round has not lost a test (NoTestIsLost) and has run all it should      *)
(* (PassedIsProved), and the types and the counters' bounds hold.          *)
(***************************************************************************)
EXTENDS Checks, TLAPS

(* What is saved and remembered, apart from the counters' bounds. *)
SavedState ==
  [baseline : Tree, protected : SUBSET Tests, diff : SUBSET Tree, phase : Phase,
   status : Status, turns : Nat, complete : BOOLEAN, failures : Nat,
   round : Verdict \cup {"none"}]

Typed ==
  /\ tree \in Tree /\ state \in SavedState /\ val \in Runner /\ seen \subseteq Tests
  /\ last.verdict \in Verdict \cup {"none"}

InRound == {"targeted", "full", "passed", "failed", "broken"}

(* What the runner protects is never less than the state does, and the state *)
(* protects every test that a round has seen or that was there at the start. *)
Protection ==
  /\ seen \subseteq state.protected
  /\ state.baseline = Nothing \/ Original \subseteq state.protected
  /\ pc \notin {"down", "final"} => state.protected \subseteq val.protected
  /\ pc = "setup" => tree = Start /\ seen = {} /\ last.verdict = "none"

(* A round that has not failed compares with nothing that is missing. *)
Compared ==
  /\ pc \in InRound => Present(tree) \subseteq val.protected /\ state.phase = "validating"
  /\ pc \in {"targeted", "full", "passed"} => val.protected \subseteq Present(tree)

(* Codex edits only what no passed round speaks of any more. *)
Edited ==
  /\ pc = "codex" => state.phase = "codex"
  /\ state.phase = "codex" => last.verdict = "none"

Inv == Typed /\ Protection /\ Compared /\ Edited /\ NoTestIsLost

(* Before the baseline is captured the tests are those of the start. *)
LEMMA InitInv == Init => Inv
<1> SUFFICES ASSUME Init PROVE Inv
  OBVIOUS
<1>1. Start \in Tree /\ Nothing \in Tree
  BY ChecksAssumption DEF Start, Nothing, Tree, Content
<1>2. Typed
  BY <1>1 DEF Init, Typed, SavedState, Runner, NewRunner, Present, Nothing, Phase, Status, NoRound
<1>3. Protection /\ Compared /\ Edited /\ NoTestIsLost
  BY DEF Init, Protection, Compared, InRound, Edited, NoTestIsLost, NoRound
<1> QED BY <1>2, <1>3 DEF Inv

(* The start: the baseline is the tests of the start, and all of them are protected. *)
LEMMA BaselineKeeps ==
  ASSUME Inv, CaptureBaseline
  PROVE  Inv'
<1> USE DEF Inv, CaptureBaseline
<1>1. Present(tree) \subseteq Tests /\ Original \subseteq Present(tree)
  BY ChecksAssumption DEF Protection, Present, Start
<1>2. val' \in Runner /\ val'.protected = Present(tree)
  BY <1>1 DEF Typed, NewRunner, Runner
<1>3. state' \in SavedState /\ state'.protected = Present(tree) /\ state'.phase = state.phase
  BY <1>1 DEF Typed, SavedState
<1>4. Typed'
  BY <1>2, <1>3 DEF Typed
<1>5. Protection'
  BY <1>1, <1>2, <1>3 DEF Protection
<1>6. Compared' /\ Edited' /\ NoTestIsLost'
  BY <1>3 DEF Compared, InRound, Edited, NoTestIsLost, Protection
<1> QED BY <1>4, <1>5, <1>6

(* A resumed run's runner protects what the state does. *)
LEMMA ResumeKeeps ==
  ASSUME Inv, Resume
  PROVE  Inv'
<1> USE DEF Inv, Resume
<1>1. val' \in Runner /\ state.protected \subseteq val'.protected
  BY DEF Typed, SavedState, Rebuilt, NewRunner, Runner, Present, Tree
<1>2. Typed' /\ Protection'
  BY <1>1 DEF Typed, Protection
<1>3. Compared' /\ Edited' /\ NoTestIsLost'
  BY DEF Compared, InRound, Edited, NoTestIsLost
<1> QED BY <1>2, <1>3

(* A round first compares, then protects what it has found. *)
LEMMA ValidateKeeps ==
  ASSUME Inv, Validate
  PROVE  Inv'
<1> USE DEF Inv, Validate
<1>1. Present(tree) \subseteq Tests
  BY DEF Present
<1>2. val' \in Runner /\ val'.protected = val.protected \cup Present(tree)
  BY <1>1 DEF Typed, Runner
<1>3. /\ state' \in SavedState /\ state'.protected = state.protected
      /\ state'.phase = "validating" /\ state'.baseline = state.baseline
  BY DEF Typed, SavedState, Phase
<1>4. Typed' /\ Protection' /\ Edited' /\ NoTestIsLost'
  BY <1>2, <1>3 DEF Typed, Protection, Edited, NoTestIsLost
<1>5. Compared'
  <2>1. CASE Deleted = {}
    <3>1. val.protected \subseteq Present(tree)
      BY <2>1 DEF Deleted, Typed, Runner
    <3> QED BY <1>2, <1>3, <3>1 DEF Compared, Present
  <2>2. CASE Deleted # {}
    BY <1>2, <1>3, <2>2 DEF Compared, Present
  <2> QED BY <2>1, <2>2
<1> QED BY <1>4, <1>5

(* The round is saved with what the runner protects, in one write. *)
LEMMA SaveRoundKeeps ==
  ASSUME Inv, SaveRound
  PROVE  Inv'
<1> USE DEF Inv, SaveRound
<1>1. /\ state' \in SavedState /\ state'.protected = val.protected
      /\ state'.baseline = state.baseline /\ state'.phase \in {"validating", "prompt"}
  <2> DEFINE added == AddRound(state)
  <2>1. /\ added \in SavedState /\ added.baseline = state.baseline
        /\ added.phase \in {"validating", "prompt"}
    <3>1. state \in SavedState /\ state.phase = "validating" /\ state.failures + 1 \in Nat
      BY DEF Typed, SavedState, Compared, InRound
    <3>2. CASE pc = "passed"
      BY <3>1, <3>2 DEF AddRound, VerdictOf, SavedState, Phase, Status, Verdict
    <3>3. CASE pc = "failed"
      BY <3>1, <3>3 DEF AddRound, VerdictOf, SavedState, Phase, Status, Verdict
    <3>4. CASE pc = "broken"
      BY <3>1, <3>4 DEF AddRound, VerdictOf, SavedState, Phase, Status, Verdict
    <3> QED BY <3>2, <3>3, <3>4
  <2>2. state' = [added EXCEPT !.protected = val.protected, !.diff = {tree}]
    OBVIOUS
  <2>3. val.protected \in SUBSET Tests /\ {tree} \in SUBSET Tree
    BY DEF Typed, Runner
  <2> HIDE DEF added, Inv, SaveRound
  <2> QED BY <2>1, <2>2, <2>3 DEF SavedState
<1>2. Present(tree) \subseteq val.protected /\ pc \notin {"down", "final"}
  BY DEF Compared, InRound
<1>3. last'.verdict \in Verdict /\ (last'.verdict = "passed" => pc = "passed")
  BY DEF VerdictOf, Verdict
<1>4. Typed'
  BY <1>1, <1>3 DEF Typed, Present
<1>5. Protection'
  BY <1>1, <1>2 DEF Protection, Present
<1>6. Compared' /\ Edited'
  BY <1>1 DEF Compared, InRound, Edited
<1>7. NoTestIsLost'
  <2> SUFFICES ASSUME pc = "passed" PROVE NoTestIsLost'
    BY <1>3 DEF NoTestIsLost
  <2>1. val.protected \subseteq Present(tree)
    BY DEF Compared
  <2> QED BY <1>1, <2>1 DEF NoTestIsLost, Protection, Present
<1> QED BY <1>4, <1>5, <1>6, <1>7

(* Codex edits, in a turn that ends, fails or is cut short, when no round speaks of its work. *)
LEMMA EditKeeps ==
  ASSUME Inv, EndTurn \/ Fail \/ Crash
  PROVE  Inv'
<1> USE DEF Inv, EndTurn, Fail, Crash
<1>1. /\ tree' \in Tree /\ val' = val /\ seen' = seen /\ last' = last
      /\ pc # "codex" => tree' = tree
  BY DEF Typed
<1>2. /\ state' \in SavedState /\ state'.protected = state.protected
      /\ state'.baseline = state.baseline /\ state'.phase \in {state.phase, "validation"}
  <2>1. state \in SavedState /\ {tree'} \in SUBSET Tree
    BY <1>1 DEF Typed
  <2>2. CASE EndTurn
    BY <2>1, <2>2 DEF SavedState, Phase
  <2>3. CASE Fail
    BY <2>1, <2>3 DEF SavedState, Status
  <2>4. CASE Crash
    BY <2>1, <2>4
  <2> QED BY <2>2, <2>3, <2>4
<1>3. pc' \in {"drive", "down", "final"}
  OBVIOUS
<1>4. Typed' /\ Protection' /\ Compared' /\ Edited'
  BY <1>1, <1>2, <1>3 DEF Typed, Protection, Compared, InRound, Edited
<1>5. NoTestIsLost'
  BY <1>1, <1>2 DEF NoTestIsLost, Edited, Present
<1> QED BY <1>4, <1>5

(* Everything else leaves the tests, the baseline and what is protected alone. *)
LEMMA RestKeeps ==
  ASSUME Inv,
         \/ Preflight \/ PersistFinal \/ ResumeDiverged \/ Retry \/ BeginTurn \/ TurnLimit
         \/ RecoverTurn
         \/ RunCommand \/ EndStage \/ Decide
  PROVE  Inv'
<1> USE DEF Inv
<1>1. CASE Preflight
  <2>1. /\ state' \in SavedState /\ state'.protected = state.protected
        /\ state'.baseline = state.baseline /\ state'.phase \in {state.phase, "prompt"}
    BY <1>1 DEF Preflight, Typed, SavedState, Phase
  <2>2. val' \in Runner /\ val'.protected = val.protected
    BY <1>1 DEF Preflight, Typed, Runner
  <2> QED BY <1>1, <2>1, <2>2 DEF Preflight, Typed, Protection, Compared, InRound, Edited, NoTestIsLost
<1>2. CASE ResumeDiverged \/ Retry
  <2>1. /\ state' \in SavedState /\ state'.protected = state.protected
        /\ state'.baseline = state.baseline /\ state'.phase \in {state.phase, "validation", "prompt"}
    BY <1>2 DEF ResumeDiverged, Retry, Typed, SavedState, Phase, Status
  <2> QED BY <1>2, <2>1 DEF ResumeDiverged, Retry, Typed, Protection, Compared, InRound, Edited, NoTestIsLost
<1>3. CASE BeginTurn
  <2>1. /\ state' \in SavedState /\ state'.protected = state.protected
        /\ state'.baseline = state.baseline /\ state'.phase = "codex"
    <3>1. state \in SavedState /\ state.turns + 1 \in Nat
      BY DEF Typed, SavedState
    <3> QED BY <1>3, <3>1 DEF BeginTurn, SavedState, Phase
  <2> QED BY <1>3, <2>1 DEF BeginTurn, Typed, Protection, Compared, InRound, Edited, NoTestIsLost, NoRound
<1>4. CASE TurnLimit \/ Decide
  <2>1. /\ state' \in SavedState /\ state'.protected = state.protected
        /\ state'.baseline = state.baseline /\ state'.phase = "completed"
    BY <1>4 DEF TurnLimit, Decide, Typed, SavedState, Phase, Status
  <2> QED BY <1>4, <2>1 DEF TurnLimit, Decide, Typed, Protection, Compared, InRound, Edited, NoTestIsLost
<1>5. CASE RecoverTurn
  <2>1. /\ state' \in SavedState /\ state'.protected = state.protected
        /\ state'.baseline = state.baseline
        /\ \/ pc' = "codex" /\ state' = state
           \/ pc' = pc /\ state'.phase = "validation"
    <3>1. state \in SavedState /\ {tree} \in SUBSET Tree
      BY DEF Typed
    <3> QED BY <1>5, <3>1 DEF RecoverTurn, SavedState, Phase
  <2> QED BY <1>5, <2>1 DEF RecoverTurn, Typed, Protection, Compared, InRound, Edited, NoTestIsLost
<1>6. CASE RunCommand
  <2>1. pc' \in {pc, "broken"} /\ pc \in {"targeted", "full"}
    BY <1>6 DEF RunCommand
  <2> QED BY <1>6, <2>1 DEF RunCommand, Typed, Protection, Compared, InRound, Edited, NoTestIsLost
<1>7. CASE EndStage
  BY <1>7 DEF EndStage, Typed, Protection, Compared, InRound, Edited, NoTestIsLost
<1>8. CASE PersistFinal
  <2>1. /\ state' \in SavedState /\ state'.protected = state.protected
        /\ state'.baseline = state.baseline /\ state'.phase = state.phase
    <3>1. state \in SavedState /\ {tree} \in SUBSET Tree
      BY DEF Typed
    <3> QED BY <1>8, <3>1 DEF PersistFinal, SavedState
  <2> QED BY <1>8, <2>1 DEF PersistFinal, Typed, Protection, Compared, InRound, Edited, NoTestIsLost
<1> QED BY <1>1, <1>2, <1>3, <1>4, <1>5, <1>6, <1>7, <1>8

(* The runner, the state and the rounds agree on what is protected. *)
THEOREM RunnerInvariant == Spec => []Inv
<1>1. Inv /\ [Next]_vars => Inv'
  <2> SUFFICES ASSUME Inv, [Next]_vars PROVE Inv'
    OBVIOUS
  <2>1. CASE UNCHANGED vars
    BY <2>1 DEF vars, Inv, Typed, Protection, Compared, Edited, NoTestIsLost, Present
  <2>2. CASE Next
    BY <2>2, BaselineKeeps, ResumeKeeps, ValidateKeeps, SaveRoundKeeps, EditKeeps, RestKeeps DEF Next
  <2> QED BY <2>1, <2>2
<1> QED BY <1>1, InitInv, PTL DEF Spec

(* No passed round has lost a test file: neither one that an earlier round  *)
(* has seen, whatever became of the runner in between, nor one of the       *)
(* task's start, once the baseline is saved.                                *)
THEOREM TestsAreKept == Spec => []NoTestIsLost
<1>1. Inv => NoTestIsLost
  BY DEF Inv
<1> QED BY <1>1, RunnerInvariant, PTL
-----------------------------------------------------------------------------
(* What a passed round has proved.                                          *)

Tried(t, stage) == \E r \in results : r.command.stage = stage /\ t \in r.command.tests
Waits(t) == \E i \in DOMAIN todo : t \in todo[i].tests
Differs(t) == t \in Present(tree) /\ tree[t] # Start[t]

Recorded ==
  /\ results \subseteq [command : Command, outcome : Outcome] /\ todo \in Seq(Command)
  /\ state.baseline \in {Start, Nothing}
  /\ pc \notin {"down", "final", "setup"} => val.baseline = state.baseline

(* A command that passed had no failing test, and one that was denied has   *)
(* ended the round.                                                         *)
Honest ==
  pc \in {"targeted", "full", "passed"} =>
    \A r \in results : /\ r.outcome # "denied"
                       /\ r.outcome = "passed" => \A t \in r.command.tests : tree[t] # "bad"

(* A changed test has been run on its own, or waits for its command.        *)
ChangedAreRun ==
  /\ pc = "targeted" =>
       /\ \A i \in DOMAIN todo : todo[i].stage = "targeted"
       /\ \A r \in results : r.command.stage = "targeted"
       /\ \A t \in Tests : Differs(t) => Tried(t, "targeted") \/ Waits(t)
  /\ pc \in {"full", "passed"} => \A t \in Tests : Differs(t) => Tried(t, "targeted")

(* So has every test in a suite, and the build.                             *)
AllAreRun ==
  /\ pc = "full" =>
       /\ \A i \in DOMAIN todo : todo[i].stage = "full" /\ todo[i].tests \subseteq Present(tree)
       /\ \A t \in Present(tree) : Tried(t, "full") \/ Waits(t)
       /\ \/ \E r \in results : r.command.stage = "full" /\ r.command.tests = {}
          \/ \E i \in DOMAIN todo : todo[i].tests = {}
  /\ pc \in {"full", "passed"} =>
       \A r \in results : r.command.stage = "full" => r.command.tests \subseteq Present(tree)
  /\ pc = "passed" =>
       /\ \A t \in Present(tree) : Tried(t, "full")
       /\ \E r \in results : r.command.stage = "full" /\ r.command.tests = {}
       /\ \A r \in results : r.outcome = "passed"

Proving == Recorded /\ Honest /\ ChangedAreRun /\ AllAreRun /\ PassedIsProved

(* Short lists of commands. *)
LEMMA NoCommand == <<>> \in Seq(Command)
OBVIOUS

LEMMA TwoCommands ==
  ASSUME NEW b \in Command, NEW f \in Command
  PROVE  LET both == <<b>> \o <<f>>
         IN  both \in Seq(Command) /\ DOMAIN both = 1..2 /\ both[1] = b /\ both[2] = f
<1> HIDE DEF Command
<1>1. <<b>> \in Seq(Command) /\ <<f>> \in Seq(Command)
  OBVIOUS
<1> QED BY <1>1

(* The two stages' commands. *)
LEMMA TargetedRunsChanged ==
  /\ Targeted \in Seq(Command)
  /\ \A i \in DOMAIN Targeted : Targeted[i].stage = "targeted"
  /\ \A t \in Changed(tree) : \E i \in DOMAIN Targeted : t \in Targeted[i].tests
<1> DEFINE command(suite) == [stage |-> "targeted", tests |-> Changed(tree) \cap suite]
           b == command(Backend)
           f == command(Frontend)
<1>1. b \in Command /\ f \in Command /\ b.stage = "targeted" /\ f.stage = "targeted"
  BY DEF Changed, Present, Command
<1>2. \A t \in Changed(tree) : t \in b.tests \/ t \in f.tests
  BY DEF Changed, Present, Tests
<1> DEFINE commands(c) == IF c.tests = {} THEN <<>> ELSE <<c>>
<1>3. Targeted = commands(b) \o commands(f)
  BY DEF Targeted
<1> HIDE DEF b, f
<1>4. CASE b.tests = {} /\ f.tests = {}
  <2>1. Targeted = <<>>
    <3>1. commands(b) = <<>> /\ commands(f) = <<>>
      BY <1>4
    <3> HIDE DEF commands
    <3> QED BY <1>3, <3>1
  <2> QED BY <1>2, <1>4, <2>1
<1>5. CASE b.tests = {} /\ f.tests # {}
  <2>1. Targeted = <<f>>
    <3>1. commands(b) = <<>> /\ commands(f) = <<f>>
      BY <1>5
    <3> HIDE DEF commands
    <3> QED BY <1>3, <3>1
  <2> QED BY <1>1, <1>2, <1>5, <2>1
<1>6. CASE b.tests # {} /\ f.tests = {}
  <2>1. Targeted = <<b>>
    <3>1. commands(b) = <<b>> /\ commands(f) = <<>>
      BY <1>6
    <3> HIDE DEF commands
    <3> QED BY <1>3, <3>1
  <2> QED BY <1>1, <1>2, <1>6, <2>1
<1>7. CASE b.tests # {} /\ f.tests # {}
  <2>1. Targeted = <<b>> \o <<f>>
    <3>1. commands(b) = <<b>> /\ commands(f) = <<f>>
      BY <1>7
    <3> HIDE DEF commands
    <3> QED BY <1>3, <3>1
  <2>2. Targeted \in Seq(Command) /\ DOMAIN Targeted = 1..2 /\ Targeted[1] = b /\ Targeted[2] = f
    BY <1>1, <2>1, TwoCommands
  <2>3. 1 \in DOMAIN Targeted /\ 2 \in DOMAIN Targeted
        /\ \A i \in DOMAIN Targeted : i = 1 \/ i = 2
    BY <2>2
  <2> QED BY <1>1, <1>2, <2>2, <2>3
<1> QED BY <1>4, <1>5, <1>6, <1>7

LEMMA FullRunsAll ==
  /\ Full \in Seq(Command)
  /\ \A i \in DOMAIN Full : Full[i].stage = "full" /\ Full[i].tests \subseteq Present(tree)
  /\ \A t \in Present(tree) : \E i \in DOMAIN Full : t \in Full[i].tests
  /\ \E i \in DOMAIN Full : Full[i].tests = {}
BY DEF Full, Command, Present, Tests

(* A test that differs from the start differs from the baseline, saved or not. *)
LEMMA DiffersIsChanged ==
  ASSUME val.baseline \in {Start, Nothing}, NEW t \in Tests, Differs(t)
  PROVE  t \in Changed(tree)
BY DEF Differs, Changed, Present, Nothing

(* A command's result is added, and the command no longer waits. *)
LEMMA RunCommandProves ==
  ASSUME Inv, Proving, RunCommand
  PROVE  Proving'
<1> USE DEF Proving
<1> DEFINE command == Head(todo)
<1>1. PICK outcome \in Ends(command) :
        /\ results' = results \cup {[command |-> command, outcome |-> outcome]}
        /\ \/ outcome = "denied" /\ pc' = "broken" /\ todo' = <<>>
           \/ outcome # "denied" /\ pc' = pc /\ todo' = Tail(todo)
  BY DEF RunCommand
<1>2. /\ pc \in {"targeted", "full"} /\ todo # <<>> /\ todo \in Seq(Command)
      /\ tree' = tree /\ state' = state /\ val' = val /\ last' = last
  BY DEF RunCommand, Recorded
<1>3. /\ command \in Command /\ command = todo[1] /\ 1 \in DOMAIN todo /\ Tail(todo) \in Seq(Command)
      /\ \A i \in DOMAIN Tail(todo) : i + 1 \in DOMAIN todo /\ Tail(todo)[i] = todo[i + 1]
      /\ \A i \in DOMAIN todo : i = 1 \/ (i - 1 \in DOMAIN Tail(todo) /\ Tail(todo)[i - 1] = todo[i])
  BY <1>2
<1>4. /\ outcome \in Outcome
      /\ outcome = "passed" => \A t \in command.tests : tree[t] # "bad"
  BY DEF Ends, Outcome
<1> DEFINE result == [command |-> command, outcome |-> outcome]
<1>5. result \in [command : Command, outcome : Outcome] /\ result.command = command
      /\ result.outcome = outcome
  BY <1>3, <1>4
<1> HIDE DEF command, result
<1>6. results' = results \cup {result}
  BY <1>1 DEF result
<1>7. Recorded'
  <2>1. results' \subseteq [command : Command, outcome : Outcome]
    BY <1>5, <1>6 DEF Recorded
  <2>2. todo' \in Seq(Command)
    <3>1. CASE todo' = <<>>
      BY <3>1, NoCommand
    <3>2. CASE todo' = Tail(todo)
      BY <1>3, <3>2
    <3> QED BY <1>1, <3>1, <3>2
  <2> QED BY <1>1, <1>2, <2>1, <2>2 DEF Recorded
<1>8. PassedIsProved'
  BY <1>2 DEF PassedIsProved, Present
<1>9. CASE outcome = "denied"
  BY <1>1, <1>2, <1>7, <1>8, <1>9 DEF Honest, ChangedAreRun, AllAreRun
<1>10. CASE outcome # "denied"
  <2>1. pc' = pc /\ todo' = Tail(todo)
    BY <1>1, <1>10
  <2>2. Honest'
    BY <1>2, <1>4, <1>5, <1>6, <1>10, <2>1 DEF Honest
  <2>3. ASSUME NEW t, Waits(t) PROVE t \in command.tests \/ Waits(t)'
    BY <1>3, <2>1, <2>3 DEF Waits
  <2>4. ASSUME NEW t, NEW stage, Tried(t, stage) PROVE Tried(t, stage)'
    BY <1>6, <2>4 DEF Tried
  <2>5. ASSUME NEW t \in command.tests, NEW stage, command.stage = stage PROVE Tried(t, stage)'
    BY <1>5, <1>6, <2>5 DEF Tried
  <2>6. ChangedAreRun'
    BY <1>2, <1>3, <1>5, <1>6, <2>1, <2>3, <2>4, <2>5 DEF ChangedAreRun, Differs, Present
  <2>7. AllAreRun'
    <3>1. CASE pc = "targeted"
      BY <2>1, <3>1 DEF AllAreRun
    <3>2. CASE pc = "full"
      <4>1. \A i \in DOMAIN todo' : todo'[i].stage = "full" /\ todo'[i].tests \subseteq Present(tree)
        BY <1>3, <2>1, <3>2 DEF AllAreRun
      <4>2. command.stage = "full" /\ command.tests \subseteq Present(tree)
        BY <1>3, <3>2 DEF AllAreRun
      <4>3. \A t \in Present(tree) : Tried(t, "full")' \/ Waits(t)'
        BY <2>3, <2>4, <2>5, <3>2, <4>2 DEF AllAreRun
      <4>4. \/ \E r \in results' : r.command.stage = "full" /\ r.command.tests = {}
            \/ \E i \in DOMAIN todo' : todo'[i].tests = {}
        <5>1. CASE \E r \in results : r.command.stage = "full" /\ r.command.tests = {}
          BY <1>6, <5>1
        <5>2. CASE \E i \in DOMAIN todo : todo[i].tests = {}
          BY <1>3, <1>5, <1>6, <2>1, <4>2, <5>2
        <5> QED BY <3>2, <5>1, <5>2 DEF AllAreRun
      <4>5. \A r \in results' : r.command.stage = "full" => r.command.tests \subseteq Present(tree)
        BY <1>5, <1>6, <3>2, <4>2 DEF AllAreRun
      <4> QED BY <1>2, <2>1, <3>2, <4>1, <4>3, <4>4, <4>5 DEF AllAreRun, Present
    <3> QED BY <1>2, <3>1, <3>2
  <2> QED BY <1>7, <1>8, <2>2, <2>6, <2>7
<1> QED BY <1>9, <1>10

(* A stage that had no failure has run all its commands. *)
LEMMA EndStageProves ==
  ASSUME Inv, Proving, EndStage
  PROVE  Proving'
<1> USE DEF Proving
<1>1. /\ pc \in {"targeted", "full"} /\ todo = <<>>
      /\ tree' = tree /\ state' = state /\ val' = val /\ results' = results /\ last' = last
      /\ \/ HasFailures /\ pc' = "failed" /\ todo' = todo
         \/ ~HasFailures /\ pc = "targeted" /\ pc' = "full" /\ todo' = Full
         \/ ~HasFailures /\ pc = "full" /\ pc' = "passed" /\ todo' = todo
  BY DEF EndStage
<1>2. \A t : ~Waits(t)
  BY <1>1 DEF Waits
<1>3. Recorded'
  BY <1>1, FullRunsAll DEF Recorded
<1>4. PassedIsProved' /\ Honest'
  BY <1>1 DEF PassedIsProved, Present, Honest
<1>5. CASE pc' = "failed"
  BY <1>3, <1>4, <1>5 DEF ChangedAreRun, AllAreRun
<1>6. CASE pc = "targeted" /\ pc' = "full"
  <2>1. ChangedAreRun'
    BY <1>1, <1>2, <1>6 DEF ChangedAreRun, Differs, Tried, Present
  <2>2. \A r \in results : r.command.stage # "full"
    BY <1>6 DEF ChangedAreRun
  <2>3. todo' = Full
    BY <1>1, <1>6
  <2>4. AllAreRun'
    BY <1>1, <1>6, <2>2, <2>3, FullRunsAll DEF AllAreRun, Waits, Present
  <2> QED BY <1>3, <1>4, <2>1, <2>4
<1>7. CASE pc = "full" /\ pc' = "passed"
  <2>1. ChangedAreRun'
    BY <1>1, <1>7 DEF ChangedAreRun, Differs, Tried, Present
  <2>2. \A r \in results : r.outcome = "passed"
    BY <1>1, <1>7 DEF HasFailures, Honest, Recorded, Outcome
  <2>3. AllAreRun'
    BY <1>1, <1>2, <1>7, <2>2 DEF AllAreRun, Tried, Present
  <2> QED BY <1>3, <1>4, <2>1, <2>3
<1> QED BY <1>1, <1>5, <1>6, <1>7

(* A round that passed is recorded with all it has run. *)
LEMMA SaveRoundProves ==
  ASSUME Inv, Proving, SaveRound
  PROVE  Proving'
<1> USE DEF Proving
<1>1. /\ pc' \in {"final", "drive"} /\ results' = {} /\ todo' = todo /\ tree' = tree /\ val' = val
      /\ last'.results = results /\ (last'.verdict = "passed" => pc = "passed")
      /\ state'.baseline = state.baseline
  <2>1. state'.baseline = state.baseline
    <3>1. AddRound(state).baseline = state.baseline /\ "baseline" \in DOMAIN AddRound(state)
      BY DEF Inv, Typed, SavedState, SaveRound, AddRound, VerdictOf
    <3>2. state' = [AddRound(state) EXCEPT !.protected = val.protected, !.diff = {tree}]
      BY DEF SaveRound
    <3> DEFINE added == AddRound(state)
    <3> HIDE DEF added
    <3> QED BY <3>1, <3>2 DEF added
  <2> QED BY <2>1 DEF SaveRound, VerdictOf
<1>2. Recorded'
  BY <1>1 DEF SaveRound, Recorded
<1>3. Honest' /\ ChangedAreRun' /\ AllAreRun'
  BY <1>1 DEF Honest, ChangedAreRun, AllAreRun
<1>4. PassedIsProved'
  <2> SUFFICES ASSUME pc = "passed" PROVE PassedIsProved'
    BY <1>1 DEF PassedIsProved
  <2> DEFINE covered(stage) == UNION {r.command.tests : r \in {x \in results : x.command.stage = stage}}
  <2>1. \A stage, t : t \in covered(stage) <=> Tried(t, stage)
    BY DEF Tried
  <2>2. {t \in Present(tree) : tree[t] # Start[t]} \subseteq covered("targeted")
    BY <2>1 DEF ChangedAreRun, Differs, Present
  <2>3. Present(tree) = covered("full")
    BY <2>1 DEF AllAreRun, Tried
  <2>4. \E r \in {x \in results : x.command.stage = "full"} : r.command.tests = {}
    BY DEF AllAreRun
  <2>5. \A r \in results : r.outcome = "passed" /\ \A t \in r.command.tests : tree[t] # "bad"
    BY DEF AllAreRun, Honest
  <2> QED BY <1>1, <2>2, <2>3, <2>4, <2>5 DEF PassedIsProved, Present
<1> QED BY <1>2, <1>3, <1>4

(* Every other step is outside a round, or begins one. *)
LEMMA RestProves ==
  ASSUME Inv, Proving, Next, ~RunCommand, ~EndStage, ~SaveRound
  PROVE  Proving'
<1> USE DEF Proving
<1>1. CASE Validate
  <2>1. /\ pc = "drive" /\ tree' = tree /\ last' = last /\ results' = {}
        /\ val'.baseline = val.baseline /\ state'.baseline = state.baseline
        /\ \/ pc' = "failed" /\ todo' = <<>>
           \/ pc' = "targeted" /\ todo' = Targeted
    BY <1>1 DEF Validate, Inv, Typed, SavedState, Runner
  <2>2. PassedIsProved'
    BY <2>1 DEF PassedIsProved, Present
  <2>3. Recorded'
    <3>1. todo' \in Seq(Command)
      <4>1. CASE todo' = <<>>
        BY <4>1, NoCommand
      <4>2. CASE todo' = Targeted
        BY <4>2, TargetedRunsChanged
      <4> QED BY <2>1, <4>1, <4>2
    <3> QED BY <2>1, <3>1 DEF Recorded
  <2>4. Honest' /\ AllAreRun'
    BY <2>1 DEF Honest, AllAreRun
  <2>5. ChangedAreRun'
    <3> SUFFICES ASSUME pc' = "targeted" PROVE ChangedAreRun'
      BY <2>1 DEF ChangedAreRun
    <3>1. \A t \in Tests : Differs(t)' => Waits(t)'
      BY <2>1, DiffersIsChanged, TargetedRunsChanged DEF Recorded, Differs, Present, Waits
    <3> QED BY <2>1, <3>1, TargetedRunsChanged DEF ChangedAreRun
  <2> QED BY <2>2, <2>3, <2>4, <2>5
<1>2. CASE ~Validate
  <2>1. /\ pc' \in {"down", "final", "preflight", "drive", "codex"}
        /\ results' \in {results, {}} /\ todo' \in {todo, <<>>}
        /\ \/ tree' = tree /\ last' = last
           \/ last'.verdict = "none"
    BY <1>2 DEF Next, CaptureBaseline, Preflight, Fail, PersistFinal, Resume, ResumeDiverged, Retry, BeginTurn,
      TurnLimit, EndTurn, RecoverTurn, Decide, Crash, Inv, Edited, NoRound
  <2>2. /\ state'.baseline \in {Start, Nothing}
        /\ pc' \notin {"down", "final", "setup"} => val'.baseline = state'.baseline
    <3>1. state \in SavedState /\ val \in Runner
      BY DEF Inv, Typed
    <3>2. CASE CaptureBaseline
      BY <3>1, <3>2 DEF CaptureBaseline, NewRunner, Inv, Protection, SavedState
    <3>3. CASE Resume
      BY <3>1, <3>3 DEF Resume, Rebuilt, NewRunner, Recorded
    <3>4. CASE Preflight
      BY <3>1, <3>4 DEF Preflight, Recorded, SavedState, Runner
    <3>5. CASE Fail \/ PersistFinal \/ ResumeDiverged \/ Retry \/ Crash
      BY <3>1, <3>5 DEF Fail, PersistFinal, ResumeDiverged, Retry, Crash, Recorded, SavedState
    <3>6. CASE BeginTurn \/ TurnLimit \/ EndTurn \/ RecoverTurn \/ Decide
      BY <3>1, <3>6 DEF BeginTurn, TurnLimit, EndTurn, RecoverTurn, Decide, Recorded, SavedState
    <3> QED BY <1>2, <3>2, <3>3, <3>4, <3>5, <3>6 DEF Next
  <2>3. Recorded'
    <3>1. todo' \in Seq(Command)
      <4>1. CASE todo' = <<>>
        BY <4>1, NoCommand
      <4>2. CASE todo' = todo
        BY <4>2 DEF Recorded
      <4> QED BY <2>1, <4>1, <4>2
    <3> QED BY <2>1, <2>2, <3>1 DEF Recorded
  <2>4. Honest' /\ ChangedAreRun' /\ AllAreRun'
    BY <2>1 DEF Honest, ChangedAreRun, AllAreRun
  <2>5. PassedIsProved'
    BY <2>1 DEF PassedIsProved, Present
  <2> QED BY <2>3, <2>4, <2>5
<1> QED BY <1>1, <1>2

(* No step leaves Proving. *)
LEMMA ProvingKeeps ==
  ASSUME Inv, Proving, [Next]_vars
  PROVE  Proving'
<1>1. CASE UNCHANGED vars
  BY <1>1 DEF vars, Proving, Recorded, Honest, ChangedAreRun, AllAreRun, PassedIsProved, Present,
    Tried, Waits, Differs
<1>2. CASE Next
  BY <1>2, RunCommandProves, EndStageProves, SaveRoundProves, RestProves
<1> QED BY <1>1, <1>2

(* A passed round has run every test that differs from the start of the     *)
(* task, then all tests and the build, to the end and without a failure.    *)
THEOREM PassedRoundsAreProved == Spec => []PassedIsProved
<1>1. Init => Proving
  BY DEF Init, Proving, Recorded, Honest, ChangedAreRun, AllAreRun, PassedIsProved, NoRound,
    NewRunner
<1>2. Inv /\ Proving /\ [Next]_vars => Proving'
  BY ProvingKeeps
<1>3. Proving => PassedIsProved
  BY DEF Proving
<1> QED BY <1>1, <1>2, <1>3, RunnerInvariant, PTL DEF Spec
-----------------------------------------------------------------------------
(* The counters' bounds.                                                    *)

(* A round is only begun when a failure can still be counted: the last one  *)
(* settles the run, and stays its last round.                               *)
Counted ==
  /\ state.turns \in 0..MaxFailures /\ state.failures \in 0..MaxFailures
  /\ state.failures = MaxFailures => state.round = "failed" /\ pc \notin InRound
  /\ pc \in InRound \cup {"down", "final", "setup", "preflight", "drive", "codex"}
  /\ budget \in [faults : 0..MaxFaults, crashes : 0..MaxCrashes]
  /\ last.results \subseteq [command : Command, outcome : Outcome]

(* What a fault or a crash costs is there to be spent. *)
LEMMA SpendBudget ==
  ASSUME NEW kind \in {"faults", "crashes"}, Spend(kind),
         budget \in [faults : 0..MaxFaults, crashes : 0..MaxCrashes]
  PROVE  budget' \in [faults : 0..MaxFaults, crashes : 0..MaxCrashes]
BY ChecksAssumption DEF Spend

LEMMA CountedKeeps ==
  ASSUME Inv, Recorded, Counted, Next
  PROVE  Counted'
<1> USE ChecksAssumption DEF Counted, InRound
<1>1. state \in SavedState
  BY DEF Inv, Typed
<1>2. CASE SaveRound
  <2>1. pc \in {"passed", "failed", "broken"} /\ state.failures < MaxFailures
    BY <1>2 DEF SaveRound
  <2> DEFINE added == AddRound(state)
  <2>2. /\ added \in SavedState /\ added.turns = state.turns /\ added.failures \in 0..MaxFailures
        /\ added.failures = MaxFailures => added.round = "failed"
    <3>1. CASE pc = "passed"
      <4>1. added = [state EXCEPT !.round = "passed", !.failures = 0]
        BY <3>1 DEF AddRound, VerdictOf
      <4> HIDE DEF added
      <4>2. added \in SavedState /\ added.turns = state.turns /\ added.failures = 0
        BY <1>1, <4>1 DEF SavedState, Verdict
      <4> QED BY <4>2
    <3>2. CASE pc = "failed"
      <4>1. state.failures + 1 \in 0..MaxFailures /\ state.failures + 1 \in Nat
        BY <2>1
      <4> QED BY <1>1, <3>2, <4>1 DEF AddRound, VerdictOf, SavedState, Verdict, Phase
    <3>3. CASE pc = "broken"
      BY <1>1, <2>1, <3>3 DEF AddRound, VerdictOf, SavedState, Verdict, Status
    <3> QED BY <2>1, <3>1, <3>2, <3>3
  <2>3. state' = [added EXCEPT !.protected = val.protected, !.diff = {tree}]
    BY <1>2 DEF SaveRound
  <2> HIDE DEF added
  <2>4. /\ state'.turns = state.turns /\ state'.failures = added.failures
        /\ state'.round = added.round
    BY <2>2, <2>3 DEF SavedState
  <2>5. last'.results = results /\ pc' \in {"final", "drive"} /\ budget' = budget
    BY <1>2 DEF SaveRound
  <2> QED BY <2>2, <2>4, <2>5 DEF Recorded
<1>3. CASE RunCommand
  <2>1. PICK outcome \in Ends(Head(todo)) : Pay(outcome)
    BY <1>3 DEF RunCommand
  <2>2. budget' \in [faults : 0..MaxFaults, crashes : 0..MaxCrashes]
    BY <2>1 DEF Ends, Pay
  <2> QED BY <1>3, <2>2 DEF RunCommand
<1>4. CASE Fail \/ Retry \/ Crash
  <2>1. budget' \in [faults : 0..MaxFaults, crashes : 0..MaxCrashes]
    BY <1>4, SpendBudget DEF Fail, Retry, Crash
  <2> QED BY <1>1, <1>4, <2>1 DEF Fail, Retry, Crash, SavedState
<1>5. CASE CaptureBaseline \/ Preflight \/ PersistFinal \/ Resume \/ ResumeDiverged
  BY <1>1, <1>5 DEF CaptureBaseline, Preflight, PersistFinal, Resume, ResumeDiverged, SavedState
<1>6. CASE BeginTurn \/ TurnLimit \/ EndTurn \/ RecoverTurn
  <2>1. CASE BeginTurn
    <3>1. state.turns + 1 \in 0..MaxFailures
      BY <2>1 DEF BeginTurn
    <3>2. /\ state'.turns = state.turns + 1 /\ state'.failures = state.failures
          /\ state'.round = state.round
      BY <1>1, <2>1 DEF BeginTurn, SavedState
    <3> QED BY <2>1, <3>1, <3>2 DEF BeginTurn, NoRound
  <2>2. CASE TurnLimit
    BY <1>1, <2>2 DEF TurnLimit, SavedState
  <2>3. CASE EndTurn \/ RecoverTurn
    BY <1>1, <2>3 DEF EndTurn, RecoverTurn, SavedState
  <2> QED BY <1>6, <2>1, <2>2, <2>3
<1>7. CASE Validate \/ EndStage \/ Decide
  BY <1>1, <1>7 DEF Validate, EndStage, Decide, Settled, Rejected, SavedState
<1> QED BY <1>2, <1>3, <1>4, <1>5, <1>6, <1>7 DEF Next

(* The types hold; no counter, saved or spent, leaves its bounds.           *)
THEOREM ChecksTypes == Spec => []TypeOK
<1>1. Init => Proving /\ Counted
  BY ChecksAssumption DEF Init, Proving, Recorded, Honest, ChangedAreRun, AllAreRun,
    PassedIsProved, NoRound, NewRunner, Counted
<1>2. Inv /\ (Proving /\ Counted) /\ [Next]_vars => (Proving /\ Counted)'
  <2> SUFFICES ASSUME Inv, Proving, Counted, [Next]_vars PROVE Proving' /\ Counted'
    OBVIOUS
  <2>1. Proving'
    BY ProvingKeeps
  <2>2. CASE UNCHANGED vars
    BY <2>1, <2>2 DEF vars, Counted
  <2>3. CASE Next
    BY <2>1, <2>3, CountedKeeps DEF Proving
  <2> QED BY <2>2, <2>3
<1>3. Inv /\ Proving /\ Counted => TypeOK
  BY DEF Inv, Typed, SavedState, RunState, Proving, Recorded, Counted, InRound, TypeOK
<1> QED BY <1>1, <1>2, <1>3, RunnerInvariant, PTL DEF Spec
=============================================================================
