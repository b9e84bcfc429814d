--------------------------- MODULE TaskRunProofs ----------------------------
(***************************************************************************)
(* Type correctness of a task run for every configuration and bound; the   *)
(* meaning of "success" for every run that no review reopens; and, on the  *)
(* invariant Path of where the executor stands and what its checkpoint     *)
(* holds, what a run promises about prompts, timelines, change requests,   *)
(* manual reviews and verdicts.  Each theorem states under which           *)
(* conditions the code keeps its promise; the README names the run or      *)
(* configuration that breaks it without them.                              *)
(***************************************************************************)
EXTENDS TaskRun, TLAPS

LEMMA IdleTypes == Idle \in Endpoint
<1>1. InitialState \in RunState
  BY DEF InitialState, RunState, Status, Phase, PromptKind, Verdict
<1> QED
  BY <1>1 DEF Idle, Endpoint

LEMMA InitTypeInv == Init => TypeInv
<1> SUFFICES ASSUME Init PROVE TypeInv
  OBVIOUS
<1> USE DEF Init
<1>1. InitialState \in RunState
  BY DEF InitialState, RunState, Status, Phase, PromptKind, Verdict
<1>2. started \in Seq(PromptKind) /\ Len(started) = 0
  OBVIOUS
<1>3. thread \in Seq(CodexTurn)
  OBVIOUS
<1>4. budget \in Budget
  BY BoundAssumption DEF Budget
<1>5. TypeOK
  BY <1>1, <1>2, <1>3, <1>4, IdleTypes
     DEF TypeOK, NoResult, Report, Final, Status, Point, Verdict
<1>6. Numbering
  BY <1>2 DEF Numbering, InitialState, Idle
<1>7. Serving
  BY DEF Serving, Idle
<1> QED
  BY <1>5, <1>6, <1>7 DEF TypeInv

(* What a step saves is a well-typed state. *)
LEMMA SavedTypes ==
  ASSUME NEW s \in RunState
  PROVE  /\ \A status \in Status : Completed(s, status) \in RunState
         /\ Paused(s) \in RunState
         /\ \A a : Marked(s, a) \in RunState
         /\ Reopened(s) \in RunState
         /\ Accepted(s) \in RunState
         /\ \A v \in Verdict \ {"none"} : AddRound(s, v) \in RunState
<1> USE DEF RunState, Status, Phase, PromptKind, Verdict
<1>1. ASSUME NEW t \in RunState, NEW status \in Status
      PROVE  Completed(t, status) \in RunState
  BY ZenonT(60) DEF Completed
<1>2. Paused(s) \in RunState
  BY DEF Paused
<1>3. \A a : Marked(s, a) \in RunState
  BY <1>1, <1>2 DEF Marked
<1>4. Reopened(s) \in RunState
  <2>1. [s EXCEPT !.status = "running"] \in RunState
    BY Zenon
  <2> QED
    BY <2>1 DEF Reopened
<1>5. Accepted(s) \in RunState
  <2>1. [s EXCEPT !.phase = "evaluation_pending", !.kind = "none"] \in RunState
    BY Zenon
  <2> QED
    BY <1>1, <2>1 DEF Accepted
<1>6. ASSUME NEW v \in Verdict \ {"none"} PROVE AddRound(s, v) \in RunState
  <2> DEFINE r == [s EXCEPT !.rounds = @ + 1, !.verdict = v]
  <2>1. s.rounds + 1 \in Nat /\ 0 \in Nat
    OBVIOUS
  <2>2. r \in RunState
    BY <2>1, Zenon
  <2>3. r.failures + 1 \in Nat
    BY <2>2
  <2>4. [r EXCEPT !.failures = 0] \in RunState
    BY <2>1, <2>2, Zenon
  <2>5. [r EXCEPT !.failures = @ + 1, !.phase = "prompt_pending", !.kind = "repair"]
          \in RunState
    BY <2>2, <2>3, Zenon
  <2>6. Completed(r, "infrastructure_error") \in RunState
    BY <2>2, <1>1
  <2> QED
    BY <2>4, <2>5, <2>6 DEF AddRound
<1> QED
  BY <1>1, <1>2, <1>3, <1>4, <1>5, <1>6

(* The fields of a saved state that the invariants talk about. *)
LEMMA SavedFields ==
  ASSUME NEW s \in RunState
  PROVE  /\ \A status : /\ Completed(s, status).status = status
                        /\ Completed(s, status).phase = "completed"
                        /\ Completed(s, status).turns = s.turns
                        /\ Completed(s, status).rounds = s.rounds
                        /\ Completed(s, status).verdict = s.verdict
                        /\ Completed(s, status).thread = s.thread
                        /\ Completed(s, status).diff = s.diff
         /\ Paused(s).status = "paused" /\ Paused(s).phase = s.phase
         /\ Paused(s).turns = s.turns /\ Paused(s).rounds = s.rounds
         /\ Paused(s).verdict = s.verdict /\ Paused(s).thread = s.thread
  BY DEF Completed, Paused, RunState

LEMMA AddRoundFields ==
  ASSUME NEW s \in RunState, NEW v \in Verdict \ {"none"}
  PROVE  /\ AddRound(s, v).turns = s.turns
         /\ AddRound(s, v).rounds = s.rounds + 1
         /\ AddRound(s, v).verdict = v
         /\ AddRound(s, v).thread = s.thread
         /\ v = "passed" => /\ AddRound(s, v).status = s.status
                            /\ AddRound(s, v).phase = s.phase
         /\ v = "failed" => /\ AddRound(s, v).status = s.status
                            /\ AddRound(s, v).phase = "prompt_pending"
         /\ v = "infra" => /\ AddRound(s, v).status = "infrastructure_error"
                           /\ AddRound(s, v).phase = "completed"
  BY DEF AddRound, Completed, RunState, Verdict

(* What the executor and its callers write field by field stays a RunState *)
(* and, but for a new turn, keeps the number of turns.                     *)
LEMMA EditTypes ==
  ASSUME NEW s \in RunState, NEW n \in Nat
  PROVE  /\ [s EXCEPT !.thread = TRUE] \in RunState
         /\ \A p \in Phase : [s EXCEPT !.phase = p] \in RunState
         /\ \A p \in Phase, k \in PromptKind \cup {"none"} :
              [s EXCEPT !.phase = p, !.kind = k] \in RunState
         /\ \A p \in Phase, k \in PromptKind \cup {"none"} :
              [s EXCEPT !.status = "running", !.phase = p, !.kind = k] \in RunState
         /\ [s EXCEPT !.diff = n] \in RunState
         /\ [s EXCEPT !.summary = FALSE] \in RunState
         /\ [s EXCEPT !.summary = TRUE, !.failures = @ + 1] \in RunState
         /\ [s EXCEPT !.thread = TRUE, !.phase = "prompt_pending", !.kind = "initial"]
              \in RunState
         /\ [s EXCEPT !.phase = "validation_pending", !.kind = "none", !.diff = n]
              \in RunState
         /\ [s EXCEPT !.turns = @ + 1, !.cycleTurns = @ + 1, !.phase = "codex_turn",
                      !.kind = "none", !.diff = n] \in RunState
         /\ [s EXCEPT !.status = "running", !.phase = "prompt_pending",
                      !.kind = "review_repair", !.failures = 0, !.cycleTurns = 0,
                      !.summary = FALSE] \in RunState
<1> USE DEF RunState, Status, Phase, PromptKind
<1>1. /\ s.failures + 1 \in Nat /\ s.turns + 1 \in Nat /\ s.cycleTurns + 1 \in Nat
      /\ 0 \in Nat
  OBVIOUS
<1>2. [s EXCEPT !.thread = TRUE] \in RunState
  BY Zenon
<1>3. ASSUME NEW p \in Phase PROVE [s EXCEPT !.phase = p] \in RunState
  BY Zenon
<1>4. ASSUME NEW p \in Phase, NEW k \in PromptKind \cup {"none"}
      PROVE  [s EXCEPT !.phase = p, !.kind = k] \in RunState
  BY Zenon
<1>5. ASSUME NEW p \in Phase, NEW k \in PromptKind \cup {"none"}
      PROVE  [s EXCEPT !.status = "running", !.phase = p, !.kind = k] \in RunState
  BY Zenon
<1>6. [s EXCEPT !.diff = n] \in RunState /\ [s EXCEPT !.summary = FALSE] \in RunState
  BY Zenon
<1>7. [s EXCEPT !.summary = TRUE, !.failures = @ + 1] \in RunState
  BY <1>1, Zenon
<1>8. [s EXCEPT !.thread = TRUE, !.phase = "prompt_pending", !.kind = "initial"]
        \in RunState
  BY Zenon
<1>9. [s EXCEPT !.phase = "validation_pending", !.kind = "none", !.diff = n] \in RunState
  BY Zenon
<1>10. [s EXCEPT !.turns = @ + 1, !.cycleTurns = @ + 1, !.phase = "codex_turn",
                 !.kind = "none", !.diff = n] \in RunState
  BY <1>1, Zenon
<1>11. [s EXCEPT !.status = "running", !.phase = "prompt_pending",
                 !.kind = "review_repair", !.failures = 0, !.cycleTurns = 0,
                 !.summary = FALSE] \in RunState
  BY <1>1, Zenon
<1> HIDE DEF RunState, Status, Phase, PromptKind
<1> QED
  BY <1>2, <1>3, <1>4, <1>5, <1>6, <1>7, <1>8, <1>9, <1>10, <1>11

LEMMA EditTurns ==
  ASSUME NEW s \in RunState, NEW n \in Nat
  PROVE  /\ [s EXCEPT !.thread = TRUE].turns = s.turns
         /\ \A p : [s EXCEPT !.phase = p].turns = s.turns
         /\ \A p, k : [s EXCEPT !.phase = p, !.kind = k].turns = s.turns
         /\ \A p, k : [s EXCEPT !.status = "running", !.phase = p, !.kind = k].turns
                        = s.turns
         /\ [s EXCEPT !.diff = n].turns = s.turns
         /\ [s EXCEPT !.summary = FALSE].turns = s.turns
         /\ [s EXCEPT !.summary = TRUE, !.failures = @ + 1].turns = s.turns
         /\ [s EXCEPT !.thread = TRUE, !.phase = "prompt_pending",
                      !.kind = "initial"].turns = s.turns
         /\ [s EXCEPT !.phase = "validation_pending", !.kind = "none",
                      !.diff = n].turns = s.turns
         /\ [s EXCEPT !.turns = @ + 1, !.cycleTurns = @ + 1, !.phase = "codex_turn",
                      !.kind = "none", !.diff = n].turns = s.turns + 1
         /\ [s EXCEPT !.status = "running", !.phase = "prompt_pending",
                      !.kind = "review_repair", !.failures = 0, !.cycleTurns = 0,
                      !.summary = FALSE].turns = s.turns
         /\ Reopened(s).turns = s.turns /\ Accepted(s).turns = s.turns
         /\ \A a : Marked(s, a).turns = s.turns
  BY DEF RunState, Reopened, Accepted, Marked, Completed, Paused

LEMMA SpendTypes ==
  ASSUME TypeInv, NEW what \in {"crashes", "faults", "controls", "retries", "reviews"},
         Spend(what)
  PROVE  budget' \in Budget
<1>1. budget \in Budget
  BY DEF TypeInv, TypeOK
<1>2. budget[what] - 1 \in Nat
  BY <1>1 DEF Spend, Budget
<1>3. budget' = [budget EXCEPT ![what] = budget[what] - 1]
  BY DEF Spend
<1> QED
  BY <1>1, <1>2, <1>3, Zenon DEF Budget

(* TypeOK without what Save writes and without the numbering of prompts. *)
RestOK ==
  /\ audit \subseteq EventKind \X Nat
  /\ thread \in Seq(CodexTurn)
  /\ wt \in Nat
  /\ aggregate \in [round : Nat, repair : BOOLEAN]
  /\ changes \in Nat \cup {-1}
  /\ result \in Report /\ outcome \in Report
  /\ control \in {"none", "pause", "cancel"}
  /\ budget \in Budget
  /\ checked \in [wt : Nat, verdict : Verdict]
  /\ judged \in [wt : Nat, repair : BOOLEAN]
  /\ unanswered \in BOOLEAN
  /\ endpoint \in Endpoint /\ overwritten \in BOOLEAN

LEMMA Shapes ==
  ASSUME TypeInv
  PROVE  /\ RestOK /\ disk \in RunState /\ mem \in RunState /\ pc \in Point
         /\ started \in Seq(PromptKind) /\ wt \in Nat
         /\ disk.turns <= mem.turns /\ Len(started) >= mem.turns
         /\ mem.turns \in Nat /\ disk.turns \in Nat /\ mem.rounds \in Nat
         /\ mem.diff \in Nat /\ disk.diff \in Nat /\ endpoint.state.turns \in Nat
  <1>1. disk \in RunState /\ mem \in RunState
    BY DEF TypeInv, TypeOK
  <1>2. /\ mem.turns \in Nat /\ mem.rounds \in Nat /\ mem.diff \in Nat
        /\ disk.turns \in Nat /\ disk.diff \in Nat
    BY <1>1 DEF RunState
  <1>3. endpoint.state.turns \in Nat
    <2>1. endpoint.state \in RunState
      BY DEF TypeInv, TypeOK, Endpoint
    <2> QED
      BY <2>1 DEF RunState
  <1> QED
    BY <1>1, <1>2, <1>3 DEF TypeInv, TypeOK, Numbering, RestOK

(* A step that keeps the numbering and what the endpoint has read. *)
LEMMA NumberedStep ==
  ASSUME TypeInv, mem' \in RunState, disk' \in RunState, disk.turns <= disk'.turns,
         disk'.turns <= mem'.turns, started' \in Seq(PromptKind),
         Len(started') >= mem'.turns, pc' \in Point,
         pc' = "started" => Len(started') > mem'.turns,
         pc' = "report" => mem'.status \in Final, RestOK', endpoint' = endpoint
  PROVE  TypeInv'
<1>1. TypeOK'
  BY DEF TypeOK, RestOK
<1>2. Serving'
  BY DEF TypeInv, Serving
<1>3. endpoint.at # "idle" => endpoint.state.turns <= disk.turns
  BY DEF TypeInv, Numbering
<1>4. disk.turns \in Nat /\ endpoint.state.turns \in Nat /\ disk'.turns \in Nat
  BY Shapes DEF RunState
<1>5. endpoint'.at # "idle" => endpoint'.state.turns <= disk'.turns
  BY <1>3, <1>4
<1>6. Numbering'
  BY <1>5 DEF Numbering
<1> QED
  BY <1>1, <1>2, <1>6 DEF TypeInv

(* A step that saves a new state s, or leaves both copies alone. *)
LEMMA SaveStep ==
  ASSUME TypeInv, NEW s \in RunState, Save(s), s.turns \in {mem.turns, disk.turns},
         pc' \in Point \ {"started", "report"}, RestOK', UNCHANGED <<started, endpoint>>
  PROVE  TypeInv'
<1>1. mem' = s /\ disk' = s
  BY DEF Save
<1>2. disk.turns <= disk'.turns /\ disk'.turns <= mem'.turns /\ Len(started) >= mem'.turns
  BY <1>1, Shapes
<1> QED
  BY <1>1, <1>2, Shapes, NumberedStep

LEMMA IdleStep ==
  ASSUME TypeInv, UNCHANGED <<disk, mem, started, endpoint>>,
         pc' \in Point \ {"started", "report"}, RestOK'
  PROVE  TypeInv'
  BY Shapes DEF TypeInv, TypeOK, Numbering, Serving, RestOK

LEMMA FailStep ==
  ASSUME TypeInv, Fail, RestOK', UNCHANGED <<started, endpoint>>
  PROVE  TypeInv'
<1> DEFINE s == Completed(mem, "infrastructure_error")
<1>1. s \in RunState /\ s.turns = mem.turns
  BY Shapes, SavedTypes, SavedFields DEF Status
<1>2. Save(s) /\ pc' \in Point \ {"started", "report"}
  BY DEF Fail, Point
<1> QED
  BY <1>1, <1>2, SaveStep


(* The executor's steps up to its control check. *)
LEMMA StartTypes ==
  ASSUME TypeInv, \/ StartThread \/ BeginPrompt \/ Resume \/ ResumeDiverged
                  \/ ResumeFinal \/ ResumeThread \/ ApplyControl \/ ClearControl
                  \/ NoControlRequest
  PROVE  TypeInv'
<1> USE Shapes
<1>1. CASE StartThread
  <2> DEFINE s == [mem EXCEPT !.thread = TRUE]
  <2>1. s \in RunState /\ s.turns = mem.turns
    BY EditTypes, EditTurns
  <2>2. Save(s) /\ pc' \in Point \ {"started", "report"} /\ UNCHANGED <<started, endpoint>>
    BY <1>1 DEF StartThread, Go, Point, files, aside
  <2>3. RestOK'
    BY <1>1 DEF StartThread, RestOK, files, aside
  <2> QED
    BY <2>1, <2>2, <2>3, SaveStep
<1>2. CASE BeginPrompt
  <2> DEFINE s == [mem EXCEPT !.phase = "prompt_pending", !.kind = "initial"]
  <2>1. s \in RunState /\ s.turns = mem.turns
    <3>1. "prompt_pending" \in Phase /\ "initial" \in PromptKind \cup {"none"}
      BY DEF Phase, PromptKind
    <3>2. s \in RunState
      BY <3>1, EditTypes
    <3>3. s.turns = mem.turns
      BY EditTurns
    <3> QED
      BY <3>2, <3>3
  <2>2. Save(s) /\ pc' \in Point \ {"started", "report"} /\ UNCHANGED <<started, endpoint>>
    BY <1>2 DEF BeginPrompt, Go, Point, files, aside
  <2>3. RestOK'
    BY <1>2 DEF BeginPrompt, RestOK, files, aside
  <2> QED
    BY <2>1, <2>2, <2>3, SaveStep
<1>3. CASE Resume
  <2>1. Reopened(disk) \in RunState /\ Reopened(disk).turns = disk.turns
    BY SavedTypes, EditTurns, 0 \in Nat
  <2>2. Save(Reopened(disk)) /\ pc' \in Point \ {"started", "report"} /\ UNCHANGED <<started, endpoint>>
    BY <1>3 DEF Resume, Go, Point, aside
  <2>3. RestOK'
    BY <1>3 DEF Resume, RestOK, aside, NoResult, Report
  <2> QED
    BY <2>1, <2>2, <2>3, SaveStep
<1>4. CASE ResumeDiverged
  <2>1. Fail /\ UNCHANGED <<started, endpoint>> /\ RestOK'
    BY <1>4 DEF ResumeDiverged, RestOK, files, aside
  <2> QED
    BY <2>1, FailStep
<1>5. CASE ResumeFinal
  <2>1. pc' \in Point \ {"started", "report"} /\ UNCHANGED <<disk, mem, started, endpoint>>
    BY <1>5 DEF ResumeFinal, Point, files, aside
  <2>2. RestOK'
    BY <1>5 DEF ResumeFinal, RestOK, files, aside
  <2> QED
    BY <2>1, <2>2, IdleStep
<1>6. CASE ResumeThread
  <2> DEFINE s == IF mem.thread THEN mem
                 ELSE [mem EXCEPT !.thread = TRUE, !.phase = "prompt_pending",
                                  !.kind = "initial"]
  <2>1. s \in RunState /\ s.turns = mem.turns
    BY EditTypes, EditTurns
  <2>2. Save(s) /\ pc' \in Point \ {"started", "report"} /\ UNCHANGED <<started, endpoint>>
    BY <1>6 DEF ResumeThread, Go, Point, files, aside
  <2>3. RestOK'
    BY <1>6 DEF ResumeThread, RestOK, files, aside
  <2> QED
    BY <2>1, <2>2, <2>3, SaveStep
<1>7. CASE ApplyControl
  <2> DEFINE s == Marked(mem, control)
  <2>1. s \in RunState /\ s.turns = mem.turns
    BY SavedTypes, EditTurns
  <2>2. Save(s) /\ pc' \in Point \ {"started", "report"} /\ UNCHANGED <<started, endpoint>>
    BY <1>7 DEF ApplyControl, Go, Point, files, aside
  <2>3. RestOK'
    BY <1>7 DEF ApplyControl, RestOK, files, aside
  <2> QED
    BY <2>1, <2>2, <2>3, SaveStep
<1>8. CASE ClearControl \/ NoControlRequest
  <2>1. pc' \in Point \ {"started", "report"} /\ UNCHANGED <<disk, mem, started, endpoint>>
    BY <1>8 DEF ClearControl, NoControlRequest, Go, Point, files, aside
  <2>2. RestOK'
    BY <1>8 DEF ClearControl, NoControlRequest, RestOK, files, aside
  <2> QED
    BY <2>1, <2>2, IdleStep
<1> QED
  BY <1>1, <1>2, <1>3, <1>4, <1>5, <1>6, <1>7, <1>8


LEMMA NotedTypes ==
  ASSUME TypeInv, NEW n \in Nat
  PROVE  \A e \in EventKind : audit \cup {<<e, n>>} \subseteq EventKind \X Nat
  BY Shapes DEF RestOK

LEMMA EndTurnTypes ==
  ASSUME TypeInv, NEW status \in {"completed", "failed"}, EndTurn(status)
  PROVE  thread' \in Seq(CodexTurn) /\ wt' \in Nat
<1> DEFINE last == Len(thread)
<1>1. thread \in Seq(CodexTurn) /\ wt \in Nat
  BY Shapes DEF RestOK
<1>2. wt' \in Nat
  BY <1>1 DEF EndTurn
<1>3. ASSUME NEW t \in CodexTurn PROVE [t EXCEPT !.status = status] \in CodexTurn
  BY Zenon DEF CodexTurn
<1>4. CASE last \in DOMAIN thread
  <2>1. thread[last] \in CodexTurn
    BY <1>1, <1>4
  <2>2. thread' = [thread EXCEPT ![last] = [thread[last] EXCEPT !.status = status]]
    BY DEF EndTurn
  <2>3. [thread[last] EXCEPT !.status = status] \in CodexTurn
    BY <1>3, <2>1
  <2>4. thread' \in Seq(CodexTurn)
    BY <1>1, <1>4, <2>2, <2>3
  <2> QED
    BY <1>2, <2>4
<1>5. CASE last \notin DOMAIN thread
  <2>1. thread' = thread
    BY <1>1, <1>5 DEF EndTurn
  <2> QED
    BY <1>1, <1>2, <2>1
<1> QED
  BY <1>4, <1>5

(* A Codex turn, from the recovered round to the recorded answer. *)
LEMMA TurnTypes ==
  ASSUME TypeInv,
         RecoverRound \/ BeginInitial \/ TurnLimit \/ WritePrompt \/
                 SaveTurn \/ AcceptTurn \/ FinishTurn \/ TurnFails \/
                 RecoverTurn \/ RecordTurn \/ SaveTurnCompleted
  PROVE  TypeInv'
<1> USE Shapes
<1>1. CASE RecoverRound
  <2> DEFINE exhausted == mem.rounds > 0 /\ mem.verdict # "passed"
                            /\ mem.failures >= MAX_VALIDATION_FAILURES
             next == IF mem.verdict = "passed" /\ mem.phase = "validating"
                     THEN Accepted(mem)
                     ELSE IF exhausted THEN Completed(mem, "manual_review") ELSE mem
  <2>1. next \in RunState
    BY SavedTypes DEF Status
  <2>2. next.turns = mem.turns
    BY SavedFields, EditTurns
  <2>3. /\ Save(next) \/ UNCHANGED <<disk, mem>>
        /\ pc' \in Point \ {"started", "report"} /\ UNCHANGED <<started, endpoint>>
    BY <1>1 DEF RecoverRound, Point, aside
  <2>5. audit' \subseteq EventKind \X Nat
    BY <1>1, NotedTypes DEF RecoverRound, EventKind, RestOK
  <2>4. RestOK'
    BY <1>1, <2>5 DEF RecoverRound, RestOK, aside
  <2> QED
    BY <2>1, <2>2, <2>3, <2>4, SaveStep, IdleStep
<1>2. CASE BeginInitial
  <2> DEFINE s == [mem EXCEPT !.phase = "prompt_pending", !.kind = "initial"]
  <2>1. s \in RunState
    <3>1. "prompt_pending" \in Phase /\ "initial" \in PromptKind \cup {"none"}
      BY DEF Phase, PromptKind
    <3> QED
      BY <3>1, EditTypes
  <2>2. s.turns = mem.turns
    BY EditTurns
  <2>3. Save(s) /\ pc' \in Point \ {"started", "report"} /\ UNCHANGED <<started, endpoint>>
    BY <1>2 DEF BeginInitial, Go, Point, files, aside
  <2>4. RestOK'
    BY <1>2 DEF BeginInitial, RestOK, files, aside
  <2> QED
    BY <2>1, <2>2, <2>3, <2>4, SaveStep
<1>3. CASE TurnLimit
  <2> DEFINE s == Completed(mem, "manual_review")
  <2>1. s \in RunState
    BY SavedTypes DEF Status
  <2>2. s.turns = mem.turns
    BY SavedFields
  <2>3. Save(s) /\ pc' \in Point \ {"started", "report"} /\ UNCHANGED <<started, endpoint>>
    BY <1>3 DEF TurnLimit, Go, Point, files, NoteRetry, aside
  <2>5. audit' \subseteq EventKind \X Nat
    BY <1>3, NotedTypes DEF TurnLimit, EventKind, RestOK, NoteRetry
  <2>4. RestOK'
    BY <1>3, <2>5 DEF TurnLimit, RestOK, files, aside
  <2> QED
    BY <2>1, <2>2, <2>3, <2>4, SaveStep
<1>4. CASE WritePrompt
  <2>1. mem.kind \in PromptKind
    <3>1. mem.kind \in PromptKind \cup {"none"}
      BY DEF RunState
    <3> QED
      BY <1>4, <3>1 DEF WritePrompt, Renderable
  <2>2. /\ SubSeq(started, 1, mem.turns) \in Seq(PromptKind)
        /\ Len(SubSeq(started, 1, mem.turns)) = mem.turns
    OBVIOUS
  <2>3. started' \in Seq(PromptKind) /\ Len(started') = mem.turns + 1
    BY <1>4, <2>1, <2>2 DEF WritePrompt
  <2>4. UNCHANGED <<disk, mem>> /\ pc' = "started"
    BY <1>4 DEF WritePrompt, Go
  <2>5. audit' \subseteq EventKind \X Nat
    BY <1>4, NotedTypes DEF WritePrompt, NoteRetry, EventKind, RestOK
  <2>6. RestOK'
    BY <1>4, <2>5 DEF WritePrompt, RestOK, aside
  <2>7. /\ mem' \in RunState /\ disk' \in RunState /\ disk'.turns <= mem'.turns
        /\ Len(started') > mem'.turns /\ Len(started') >= mem'.turns
    BY <2>3, <2>4
  <2>8. endpoint' = endpoint
    BY <1>4 DEF WritePrompt, aside
  <2> QED
    BY <2>3, <2>4, <2>6, <2>7, <2>8 DEF TypeInv, TypeOK, Numbering, Serving, RestOK, Point
<1>5. CASE SaveTurn
  <2> DEFINE s == [mem EXCEPT !.turns = @ + 1, !.cycleTurns = @ + 1,
                              !.phase = "codex_turn", !.kind = "none", !.diff = wt]
  <2>1. s \in RunState /\ s.turns = mem.turns + 1
    BY EditTypes, EditTurns
  <2>2. /\ mem' = s /\ disk' = s /\ pc = "started" /\ pc' = "dispatch"
        /\ UNCHANGED <<started, endpoint>>
    BY <1>5 DEF SaveTurn, Save, Go, files, aside
  <2>3. RestOK'
    BY <1>5 DEF SaveTurn, RestOK, files, aside
  <2>4. Len(started) > mem.turns
    BY <2>2 DEF TypeInv, Numbering
  <2>5. /\ mem' \in RunState /\ disk' \in RunState /\ disk.turns <= disk'.turns
        /\ disk'.turns <= mem'.turns /\ Len(started') >= mem'.turns
    BY <2>1, <2>2, <2>4
  <2> QED
    BY <2>2, <2>3, <2>5, NumberedStep DEF Point
<1>6. CASE AcceptTurn
  <2> DEFINE turn == [prompt |-> mem.turns, status |-> "running", cycle |-> Cycle]
  <2>1. pc' \in Point \ {"started", "report"} /\ UNCHANGED <<disk, mem, started, endpoint>>
    BY <1>6 DEF AcceptTurn, Go, Point, files, desk
  <2>2. Cycle \in Int
    <3>1. MaxReviews \in Nat /\ budget.reviews \in Nat
      BY BoundAssumption DEF RestOK, Budget
    <3> QED
      BY <3>1 DEF Cycle
  <2>3. turn \in CodexTurn
    BY <2>2 DEF CodexTurn
  <2>4. thread' \in Seq(CodexTurn)
    BY <1>6, <2>3 DEF AcceptTurn, RestOK
  <2>5. RestOK'
    BY <1>6, <2>4 DEF AcceptTurn, RestOK, files, desk
  <2> QED
    BY <2>1, <2>5, IdleStep
<1>7. CASE FinishTurn
  <2>1. pc' \in Point \ {"started", "report"} /\ UNCHANGED <<disk, mem, started, endpoint>>
    BY <1>7 DEF FinishTurn, Go, Point, files, aside
  <2>2. RestOK'
    BY <1>7, EndTurnTypes DEF FinishTurn, RestOK, files, aside
  <2> QED
    BY <2>1, <2>2, IdleStep
<1>8. CASE TurnFails
  <2>1. Fail /\ UNCHANGED <<started, endpoint>>
    BY <1>8 DEF TurnFails, files, aside
  <2>2. EndTurn("failed") /\ Spend("faults")
    BY <1>8 DEF TurnFails
  <2>3. thread' \in Seq(CodexTurn) /\ wt' \in Nat /\ budget' \in Budget
    BY <2>2, EndTurnTypes, SpendTypes
  <2>4. RestOK'
    BY <1>8, <2>3 DEF TurnFails, RestOK, files, aside
  <2> QED
    BY <2>1, <2>4, FailStep
<1>9. CASE RecoverTurn
  <2>1. RestOK' /\ UNCHANGED <<started, endpoint>>
    BY <1>9 DEF RecoverTurn, RestOK, files, aside
  <2>2. CASE Fail
    BY <2>1, <2>2, FailStep
  <2>3. CASE ~Fail
    <3>1. pc' \in Point \ {"started", "report"} /\ UNCHANGED <<disk, mem, started, endpoint>>
      BY <1>9, <2>1, <2>3 DEF RecoverTurn, Point, aside
    <3> QED
      BY <2>1, <3>1, IdleStep
  <2> QED
    BY <2>2, <2>3
<1>10. CASE RecordTurn
  <2>1. pc' \in Point \ {"started", "report"} /\ UNCHANGED <<disk, mem, started, endpoint>>
    BY <1>10 DEF RecordTurn, Go, Point, aside
  <2>2. audit' \subseteq EventKind \X Nat
    BY <1>10, NotedTypes DEF RecordTurn, EventKind
  <2>3. RestOK'
    BY <1>10, <2>2 DEF RecordTurn, RestOK, aside
  <2> QED
    BY <2>1, <2>3, IdleStep
<1>11. CASE SaveTurnCompleted
  <2> DEFINE s == [mem EXCEPT !.phase = "validation_pending", !.kind = "none", !.diff = wt]
  <2>1. s \in RunState
    BY EditTypes
  <2>2. s.turns = mem.turns
    BY EditTurns
  <2>3. Save(s) /\ pc' \in Point \ {"started", "report"} /\ UNCHANGED <<started, endpoint>>
    BY <1>11 DEF SaveTurnCompleted, Go, Point, files, aside
  <2>4. RestOK'
    BY <1>11 DEF SaveTurnCompleted, RestOK, files, aside
  <2> QED
    BY <2>1, <2>2, <2>3, <2>4, SaveStep
<1> QED
  BY <1>1, <1>2, <1>3, <1>4, <1>5, <1>6, <1>7, <1>8, <1>9, <1>10, <1>11


LEMMA EvaluatedTypes ==
  ASSUME NEW s \in RunState, NEW repair \in BOOLEAN
  PROVE  /\ Evaluated(s, repair) \in RunState
         /\ Evaluated(s, repair).turns = s.turns
<1> DEFINE again == [s EXCEPT !.summary = TRUE, !.failures = @ + 1]
           clean == [s EXCEPT !.summary = FALSE]
           rework == [again EXCEPT !.phase = "prompt_pending",
                                   !.kind = "evaluation_repair"]
<1>1. again \in RunState /\ again.turns = s.turns
  BY EditTypes, EditTurns, 0 \in Nat
<1>2. clean \in RunState /\ clean.turns = s.turns
  BY EditTypes, EditTurns, 0 \in Nat
<1>3. rework \in RunState /\ rework.turns = s.turns
  <2>1. /\ "prompt_pending" \in Phase
        /\ "evaluation_repair" \in PromptKind \cup {"none"}
    BY DEF Phase, PromptKind
  <2>2. rework \in RunState
    BY <1>1, <2>1, EditTypes, 0 \in Nat
  <2>3. rework.turns = again.turns
    BY <1>1, EditTurns, 0 \in Nat
  <2> QED
    BY <1>1, <2>2, <2>3
<1>4. Evaluated(s, repair) = IF ~repair THEN Completed(clean, "success")
        ELSE IF OutOfTurns(s) THEN Completed(again, "manual_review") ELSE rework
  BY DEF Evaluated
<1> HIDE DEF again, clean, rework
<1>5. /\ Completed(clean, "success") \in RunState
      /\ Completed(clean, "success").turns = s.turns
  BY <1>2, SavedTypes, SavedFields DEF Status
<1>6. /\ Completed(again, "manual_review") \in RunState
      /\ Completed(again, "manual_review").turns = s.turns
  BY <1>1, SavedTypes, SavedFields DEF Status
<1> QED
  BY <1>3, <1>4, <1>5, <1>6

(* Validation rounds and evaluations. *)
LEMMA CheckTypes ==
  ASSUME TypeInv,
         StartValidation \/ (\E v \in {"passed", "failed", "infra"} :
                 Validate(v)) \/ RecordRound \/ DecideRound \/
                 StartEvaluation \/ (\E r \in BOOLEAN : Evaluate(r)) \/
                 ApplyEvaluation
  PROVE  TypeInv'
<1> USE Shapes
<1>1. CASE StartValidation
  <2> DEFINE s == [mem EXCEPT !.phase = "validating"]
  <2>1. s \in RunState
    BY EditTypes DEF Phase
  <2>2. s.turns = mem.turns
    BY EditTurns
  <2>3. Save(s) /\ pc' \in Point \ {"started", "report"} /\ UNCHANGED <<started, endpoint>>
    BY <1>1 DEF StartValidation, Go, Point, files, aside
  <2>4. RestOK'
    BY <1>1 DEF StartValidation, RestOK, files, aside
  <2> QED
    BY <2>1, <2>2, <2>3, <2>4, SaveStep
<1>2. ASSUME NEW v \in {"passed", "failed", "infra"}, Validate(v) PROVE TypeInv'
  <2> DEFINE r == AddRound(mem, v)
             s == [r EXCEPT !.diff = wt]
  <2>1. v \in Verdict \ {"none"}
    BY DEF Verdict
  <2>2. r \in RunState /\ r.turns = mem.turns
    BY <2>1, SavedTypes, AddRoundFields
  <2>3. s \in RunState
    BY <2>2, EditTypes
  <2>4. s.turns = mem.turns
    BY <2>2, EditTurns
  <2>5. Save(s) /\ pc' \in Point \ {"started", "report"} /\ UNCHANGED <<started, endpoint>>
    BY <1>2 DEF Validate, Go, Point, files, desk
  <2>6. budget' \in Budget
    <3>1. Spend("faults") \/ UNCHANGED budget
      BY <1>2 DEF Validate
    <3> QED
      BY <3>1, SpendTypes DEF RestOK
  <2>7. RestOK'
    BY <1>2, <2>1, <2>6 DEF Validate, RestOK, files, desk
  <2> QED
    BY <2>3, <2>4, <2>5, <2>7, SaveStep
<1>3. CASE RecordRound
  <2>1. pc' \in Point \ {"started", "report"} /\ UNCHANGED <<disk, mem, started, endpoint>>
    BY <1>3 DEF RecordRound, Go, Point, aside
  <2>2. audit' \subseteq EventKind \X Nat
    BY <1>3, NotedTypes DEF RecordRound, EventKind
  <2>3. RestOK'
    BY <1>3, <2>2 DEF RecordRound, RestOK, aside
  <2> QED
    BY <2>1, <2>3, IdleStep
<1>4. CASE DecideRound
  <2> DEFINE exhausted == mem.failures >= MAX_VALIDATION_FAILURES
             next == CASE mem.verdict = "passed" -> Accepted(mem)
                       [] mem.verdict = "failed" ->
                            IF exhausted THEN Completed(mem, "manual_review") ELSE mem
                       [] OTHER -> Completed(mem, "infrastructure_error")
  <2>1. next \in RunState
    BY SavedTypes DEF Status
  <2>2. next.turns = mem.turns
    BY SavedFields, EditTurns
  <2>3. Save(next) /\ pc' \in Point \ {"started", "report"} /\ UNCHANGED <<started, endpoint>>
    BY <1>4 DEF DecideRound, Point, aside
  <2>4. audit' \subseteq EventKind \X Nat
    BY <1>4, NotedTypes DEF DecideRound, EventKind, RestOK
  <2>5. RestOK'
    BY <1>4, <2>4 DEF DecideRound, RestOK, aside
  <2> QED
    BY <2>1, <2>2, <2>3, <2>5, SaveStep
<1>5. CASE StartEvaluation
  <2> DEFINE s == [mem EXCEPT !.phase = "evaluating"]
  <2>1. s \in RunState
    BY EditTypes DEF Phase
  <2>2. s.turns = mem.turns
    BY EditTurns
  <2>3. Save(s) /\ pc' \in Point \ {"started", "report"} /\ UNCHANGED <<started, endpoint>>
    BY <1>5 DEF StartEvaluation, Go, Point, files, aside
  <2>4. RestOK'
    BY <1>5 DEF StartEvaluation, RestOK, files, aside
  <2> QED
    BY <2>1, <2>2, <2>3, <2>4, SaveStep
<1>6. ASSUME NEW r \in BOOLEAN, Evaluate(r) PROVE TypeInv'
  <2>1. pc' \in Point \ {"started", "report"} /\ UNCHANGED <<disk, mem, started, endpoint>>
    BY <1>6 DEF Evaluate, Go, Point, desk
  <2>2. RestOK'
    BY <1>6 DEF Evaluate, RestOK, desk
  <2> QED
    BY <2>1, <2>2, IdleStep
<1>7. CASE ApplyEvaluation
  <2> DEFINE next == Evaluated(mem, aggregate.repair)
  <2>1. next \in RunState /\ next.turns = mem.turns
    <3>1. aggregate.repair \in BOOLEAN
      BY DEF RestOK
    <3> QED
      BY <3>1, EvaluatedTypes
  <2>2. Save(next) /\ pc' \in Point \ {"started", "report"} /\ UNCHANGED <<started, endpoint>>
    BY <1>7 DEF ApplyEvaluation, Point, aside
  <2>3. audit' \subseteq EventKind \X Nat
    BY <1>7, NotedTypes DEF ApplyEvaluation, EventKind, RestOK
  <2>4. RestOK'
    BY <1>7, <2>3 DEF ApplyEvaluation, RestOK, aside
  <2> QED
    BY <2>1, <2>2, <2>4, SaveStep
<1> QED
  BY <1>1, <1>2, <1>3, <1>4, <1>5, <1>6, <1>7

(* The final diff, result and report, and the process's faults and death. *)
LEMMA FinishTypes ==
  ASSUME TypeInv,
         AlreadyCompleted \/ NotFinal \/ CaptureChanges \/
                 WriteResult \/ Fault \/ FaultEscapes \/ Crash
  PROVE  TypeInv'
<1> USE Shapes
<1>1. CASE AlreadyCompleted
  <2>1. pc' \in Point \ {"started", "report"} /\ UNCHANGED <<disk, mem, started, endpoint>>
    BY <1>1 DEF AlreadyCompleted, Go, Point, files, aside
  <2>2. RestOK'
    BY <1>1 DEF AlreadyCompleted, RestOK, files, aside
  <2> QED
    BY <2>1, <2>2, IdleStep
<1>2. CASE NotFinal
  <2>1. Fail /\ UNCHANGED <<started, endpoint>>
    BY <1>2 DEF NotFinal, files, aside
  <2>2. RestOK'
    BY <1>2 DEF NotFinal, RestOK, files, aside
  <2> QED
    BY <2>1, <2>2, FailStep
<1>3. CASE CaptureChanges
  <2> DEFINE s == [mem EXCEPT !.diff = wt]
  <2>1. s \in RunState
    BY EditTypes
  <2>2. s.turns = mem.turns /\ s.status = mem.status
    BY EditTurns DEF RunState
  <2>3. /\ mem' = s /\ disk' = s /\ pc' = "report" /\ mem.status \in Final
        /\ UNCHANGED <<started, endpoint>>
    BY <1>3 DEF CaptureChanges, Save, Go, aside
  <2>4. RestOK'
    BY <1>3 DEF CaptureChanges, RestOK, aside
  <2> HIDE DEF s
  <2>5. /\ disk.turns <= disk'.turns /\ disk'.turns <= mem'.turns
        /\ Len(started') >= mem'.turns
    BY <2>2, <2>3
  <2> QED
    BY <2>1, <2>2, <2>3, <2>4, <2>5, NumberedStep DEF Point
<1>4. CASE WriteResult
  <2>1. pc' \in Point \ {"started", "report"} /\ UNCHANGED <<disk, mem, started, endpoint>>
    BY <1>4 DEF WriteResult, Go, Point, aside
  <2>2. mem.status \in Final
    BY <1>4 DEF TypeInv, Numbering, WriteResult, Go
  <2>3. result' \in Report /\ outcome' \in Report
    BY <1>4, <2>2 DEF WriteResult, Report
  <2>4. RestOK'
    BY <1>4, <2>3 DEF WriteResult, RestOK, aside
  <2> QED
    BY <2>1, <2>4, IdleStep
<1>5. CASE Fault
  <2>1. Fail /\ UNCHANGED <<started, endpoint>> /\ Spend("faults")
    BY <1>5 DEF Fault, files, aside
  <2>2. RestOK'
    BY <1>5, <2>1, SpendTypes DEF Fault, RestOK, files, aside
  <2> QED
    BY <2>1, <2>2, FailStep
<1>6. CASE Crash
  <2>1. /\ mem' = disk /\ disk' = disk /\ pc' = "down" /\ UNCHANGED <<started, endpoint>>
        /\ Spend("crashes")
    BY <1>6 DEF Crash, files, aside
  <2>2. thread' \in Seq(CodexTurn) /\ wt' \in Nat
    <3>1. \/ EndTurn("completed") \/ EndTurn("failed") \/ UNCHANGED <<thread, wt>>
      BY <1>6 DEF Crash
    <3> QED
      BY <3>1, EndTurnTypes DEF RestOK
  <2>3. budget' \in Budget
    BY <2>1, SpendTypes
  <2>4. RestOK'
    BY <1>6, <2>2, <2>3 DEF Crash, RestOK, files, aside
  <2> QED
    BY <2>1, <2>4, NumberedStep DEF Point
<1>7. CASE FaultEscapes
  <2>1. /\ mem' = disk /\ disk' = disk /\ pc' = "down" /\ UNCHANGED <<started, endpoint>>
        /\ Spend("faults")
    BY <1>7 DEF FaultEscapes, files, aside
  <2>2. outcome' \in Report
    BY <1>7 DEF FaultEscapes, RestOK, Report, Final, Status
  <2>3. RestOK'
    BY <1>7, <2>1, <2>2, SpendTypes DEF FaultEscapes, RestOK, files, aside
  <2> QED
    BY <2>1, <2>3, NumberedStep DEF Point
<1> QED
  BY <1>1, <1>2, <1>3, <1>4, <1>5, <1>6, <1>7

LEMMA RetriedTypes ==
  ASSUME TypeInv
  PROVE  Retried(disk) \in RunState /\ Retried(disk).turns = disk.turns
<1> USE Shapes
<1> DEFINE kind == IF Incomplete(disk) THEN started[disk.turns] ELSE "initial"
           again == [disk EXCEPT !.status = "running", !.phase = "prompt_pending",
                                 !.kind = kind]
           check == [disk EXCEPT !.status = "running", !.phase = "validation_pending",
                                 !.kind = "none"]
<1>1. kind \in PromptKind \cup {"none"}
  BY DEF PromptKind, Incomplete
<1>2. again \in RunState /\ check \in RunState
  <2>1. {"prompt_pending", "validation_pending"} \subseteq Phase
    BY DEF Phase
  <2> HIDE DEF kind
  <2> QED
    BY <1>1, <2>1, EditTypes
<1>3. again.turns = disk.turns /\ check.turns = disk.turns
  BY EditTurns
<1>4. Retried(disk) = IF Incomplete(disk) \/ disk.turns = 0 THEN again ELSE check
  BY DEF Retried
<1> HIDE DEF again, check
<1> QED
  BY <1>2, <1>3, <1>4

(* What the endpoint, the queue and the reviewer do to the run. *)
LEMMA CallerTypes ==
  ASSUME TypeInv,
         \/ \E a \in {"pause", "cancel"} : LoadForControl(a) \/ RequestQueueControl(a)
         \/ FindActive \/ FindInactive \/ SaveControl \/ RetryInfrastructure
         \/ RequestChanges
  PROVE  TypeInv'
<1> USE Shapes
<1>1. ASSUME NEW a \in {"pause", "cancel"}, LoadForControl(a) PROVE TypeInv'
  <2>1. /\ UNCHANGED <<disk, mem, pc, started>> /\ Spend("controls") /\ ~InQueue
        /\ endpoint' = [at |-> "loaded", action |-> a, state |-> disk]
        /\ disk.status = "running" \/ (disk.status = "paused" /\ a = "cancel")
    BY <1>1 DEF LoadForControl, files
  <2>2. endpoint' \in Endpoint
    BY <2>1 DEF Endpoint
  <2>3. RestOK'
    BY <1>1, <2>1, <2>2, SpendTypes DEF LoadForControl, RestOK, files
  <2>4. Serving'
    BY <2>1 DEF Serving
  <2>5. Numbering'
    BY <2>1 DEF Numbering, TypeInv
  <2> QED
    BY <2>1, <2>3, <2>4, <2>5 DEF TypeInv, TypeOK, RestOK
<1>2. ASSUME NEW a \in {"pause", "cancel"}, RequestQueueControl(a) PROVE TypeInv'
  <2>1. /\ UNCHANGED <<disk, mem, pc, started>> /\ Spend("controls") /\ InQueue
        /\ \/ endpoint' = endpoint
           \/ endpoint' = [at |-> "marked", action |-> "pause", state |-> disk]
    BY <1>2 DEF RequestQueueControl
  <2>2. endpoint' \in Endpoint
    BY <2>1 DEF Endpoint, RestOK
  <2>3. RestOK'
    BY <1>2, <2>1, <2>2, SpendTypes DEF RequestQueueControl, RestOK
  <2>4. Serving'
    BY <2>1 DEF Serving, TypeInv
  <2>5. Numbering'
    BY <2>1 DEF Numbering, TypeInv
  <2> QED
    BY <2>1, <2>3, <2>4, <2>5 DEF TypeInv, TypeOK, RestOK
<1>3. CASE FindActive \/ FindInactive
  <2>1. /\ UNCHANGED <<disk, mem, pc, started>> /\ endpoint.at = "loaded"
        /\ \/ endpoint' = Idle
           \/ endpoint' = [endpoint EXCEPT !.at = "marked"]
    BY <1>3 DEF FindActive, FindInactive
  <2>2. /\ endpoint' \in Endpoint
        /\ endpoint'.at # "idle" => /\ endpoint'.state = endpoint.state
                                    /\ endpoint'.action = endpoint.action
    BY <2>1, IdleTypes DEF Endpoint, RestOK, Idle
  <2>3. control' \in {"none", "pause", "cancel"}
    BY <1>3 DEF FindActive, FindInactive, RestOK, Endpoint
  <2>4. RestOK'
    BY <1>3, <2>2, <2>3 DEF FindActive, FindInactive, RestOK
  <2>5. Serving'
    BY <2>1, <2>2 DEF Serving, TypeInv
  <2>6. Numbering'
    BY <2>1, <2>2 DEF Numbering, TypeInv
  <2> QED
    BY <2>1, <2>4, <2>5, <2>6 DEF TypeInv, TypeOK, RestOK
<1>6. CASE SaveControl
  <2> DEFINE s == Marked(endpoint.state, endpoint.action)
  <2>1. endpoint.state \in RunState /\ endpoint.at # "idle"
    BY <1>6 DEF RestOK, Endpoint, SaveControl
  <2>2. s \in RunState /\ s.turns = endpoint.state.turns
    BY <2>1, SavedTypes, EditTurns, 0 \in Nat
  <2>3. s.turns <= disk.turns
    BY <2>1, <2>2 DEF TypeInv, Numbering
  <2> HIDE DEF s
  <2>4. /\ disk' = s /\ mem' = IF pc = "down" THEN s ELSE mem
        /\ UNCHANGED <<pc, started>> /\ endpoint' = Idle
    BY <1>6 DEF SaveControl, files, s
  <2>5. outcome' \in Report
    <3>1. endpoint.state.diff \in Nat
      BY <2>1 DEF RunState
    <3> QED
      BY <1>6, <3>1 DEF SaveControl, Report, Final, Status, RestOK
  <2>6. RestOK'
    BY <1>6, <2>4, <2>5, IdleTypes DEF SaveControl, RestOK, files
  <2>7. Serving'
    BY <2>4 DEF Serving, Idle
  <2>8. Numbering'
    <3>1. s.turns \in Nat /\ Len(started) \in Nat
      BY <2>2 DEF RunState
    <3>2. CASE pc = "down"
      BY <2>2, <2>3, <2>4, <3>1, <3>2 DEF Numbering, TypeInv, Idle
    <3>3. CASE pc # "down"
      BY <2>2, <2>3, <2>4, <3>1, <3>3 DEF Numbering, TypeInv, Idle
    <3> QED
      BY <3>2, <3>3
  <2> QED
    BY <2>2, <2>4, <2>6, <2>7, <2>8 DEF TypeInv, TypeOK, RestOK
<1>4. CASE RetryInfrastructure
  <2>1. Save(Retried(disk)) /\ pc' = "down" /\ UNCHANGED <<started, endpoint>> /\ Spend("retries")
    BY <1>4 DEF RetryInfrastructure, files, aside
  <2>2. RestOK'
    BY <1>4, <2>1, SpendTypes DEF RetryInfrastructure, RestOK, files, aside, NoResult,
       Report
  <2> QED
    BY <2>1, <2>2, RetriedTypes, SaveStep DEF Point
<1>5. CASE RequestChanges
  <2>1. /\ ReopenedForReview(disk) \in RunState
        /\ ReopenedForReview(disk).turns = disk.turns
    BY EditTypes, EditTurns DEF ReopenedForReview
  <2>2. /\ Save(ReopenedForReview(disk)) /\ pc' = "down" /\ UNCHANGED <<started, endpoint>>
        /\ Spend("reviews")
    BY <1>5 DEF RequestChanges, desk
  <2>3. result' \in Report /\ outcome' \in Report
    BY <1>5 DEF RequestChanges, Report, NoResult
  <2>4. RestOK'
    BY <1>5, <2>2, <2>3, SpendTypes DEF RequestChanges, RestOK, desk
  <2> QED
    BY <2>1, <2>2, <2>4, SaveStep DEF Point
<1> QED
  BY <1>1, <1>2, <1>3, <1>4, <1>5, <1>6

LEMMA TypeInvStep == TypeInv /\ [Next]_vars => TypeInv'
<1> SUFFICES ASSUME TypeInv, [Next]_vars PROVE TypeInv'
  OBVIOUS
<1>1. CASE Drive
  <2>1. CASE Turn
    BY <2>1, TurnTypes DEF Turn
  <2>2. CASE Check
    BY <2>2, CheckTypes DEF Check
  <2> QED
    BY <1>1, <2>1, <2>2, StartTypes, TurnTypes, FinishTypes DEF Drive
<1>2. CASE Resume
  BY <1>2, StartTypes
<1>3. CASE Environment
  BY <1>3, TurnTypes, CheckTypes, FinishTypes, CallerTypes DEF Environment
<1>4. CASE UNCHANGED vars
  BY <1>4 DEF vars, TypeInv, TypeOK, Numbering, Serving, TurnDone
<1> QED
  BY <1>1, <1>2, <1>3, <1>4 DEF Next

(* Every reachable state is well typed for every configuration and bound:  *)
(* the saved and the held RunState of models.py agree on the turn they     *)
(* number, and a result is only ever written for a run that is final.      *)
THEOREM RunTypes == Spec => []TypeInv
<1>1. Init => TypeInv
  BY InitTypeInv
<1>2. TypeInv /\ [Next]_vars => TypeInv'
  BY TypeInvStep
<1> QED
  BY <1>1, <1>2, PTL DEF Spec

-----------------------------------------------------------------------------
(* A control request disturbs the run only when it saves over something it *)
(* has not read; the invariants below hold for as long as none has.        *)
Requested == \/ \E a \in {"pause", "cancel"} : LoadForControl(a) \/ RequestQueueControl(a)
             \/ FindActive \/ FindInactive

LEMMA RequestedKeeps ==
  ASSUME TypeInv, Requested
  PROVE  /\ UNCHANGED <<disk, mem, pc, audit, started, aggregate, changes, result, thread,
                        wt, outcome, checked, judged, unanswered, overwritten>>
         /\ budget'.reviews = budget.reviews /\ budget'.retries = budget.retries
<1>1. budget \in Budget
  BY Shapes DEF RestOK
<1>2. UNCHANGED budget \/ Spend("controls")
  BY DEF Requested, LoadForControl, RequestQueueControl, FindActive, FindInactive
<1>3. budget'.reviews = budget.reviews /\ budget'.retries = budget.retries
  BY <1>1, <1>2 DEF Spend, Budget
<1> QED
  BY <1>3 DEF Requested, LoadForControl, RequestQueueControl, FindActive, FindInactive, files

LEMMA MarkedFields ==
  ASSUME NEW s \in RunState, NEW m \in {Paused(s), Completed(s, "cancelled")}
  PROVE  /\ m.thread = s.thread /\ m.failures = s.failures /\ m.turns = s.turns
         /\ m.cycleTurns = s.cycleTurns /\ m.rounds = s.rounds /\ m.verdict = s.verdict
         /\ m.summary = s.summary
         /\ m = Paused(s) => m.status = "paused" /\ m.phase = s.phase /\ m.kind = s.kind
         /\ m = Completed(s, "cancelled") => /\ m.status = "cancelled" /\ m.kind = "none"
                                             /\ m.phase = "completed"
  BY DEF Paused, Completed, RunState

LEMMA SavedControl ==
  ASSUME TypeInv, SaveControl, ~overwritten'
  PROVE  /\ UNCHANGED <<pc, files, thread, wt, budget, checked, judged, unanswered>>
         /\ mem' = IF pc = "down" THEN disk' ELSE mem
         /\ InQueue => /\ disk' = Paused(disk) /\ outcome.status = "none"
                       /\ outcome'.status = "paused"
         /\ ~InQueue => /\ outcome' = outcome
                        /\ \/ disk.status = "running" /\ disk' = Paused(disk)
                           \/ /\ disk.status \in {"running", "paused"}
                              /\ disk' = Completed(disk, "cancelled")
<1>1. endpoint.state = disk /\ (InQueue => outcome = NoResult)
  BY DEF SaveControl, Overtaken
<1>2. endpoint.action \in {"pause", "cancel"} /\ endpoint.at # "idle"
  BY DEF TypeInv, TypeOK, Endpoint, SaveControl
<1>3. CASE InQueue
  BY <1>1, <1>2, <1>3 DEF SaveControl, TypeInv, Serving, Marked, NoResult
<1>4. CASE ~InQueue
  BY <1>1, <1>2, <1>4 DEF SaveControl, TypeInv, Serving, Marked
<1> QED
  BY <1>3, <1>4

(* What a control request has overwritten stays overwritten. *)
LEMMA OverwrittenStays == [Next]_vars /\ ~overwritten' => ~overwritten
<1>1. UNCHANGED vars => UNCHANGED overwritten
  BY DEF vars
<1>2. Drive \/ Resume => UNCHANGED overwritten
  BY DEF Drive, Turn, Check, StartThread, BeginPrompt, Resume, ResumeDiverged, ResumeFinal,
     ResumeThread, ApplyControl, ClearControl, NoControlRequest, RecoverRound, BeginInitial,
     TurnLimit, WritePrompt, SaveTurn, AcceptTurn, FinishTurn, RecoverTurn, RecordTurn,
     SaveTurnCompleted, StartValidation, Validate, RecordRound, DecideRound,
     StartEvaluation, Evaluate, ApplyEvaluation, AlreadyCompleted, NotFinal,
     CaptureChanges, WriteResult, aside, desk
<1>3. Environment => overwritten' = overwritten \/ SaveControl
  BY DEF Environment, Fault, FaultEscapes, TurnFails, Validate, Crash, LoadForControl,
     RequestQueueControl, FindActive, FindInactive, RetryInfrastructure, RequestChanges,
     aside, desk
<1>4. SaveControl /\ ~overwritten' => ~overwritten
  BY DEF SaveControl
<1> QED
  BY <1>1, <1>2, <1>3, <1>4 DEF Next

-----------------------------------------------------------------------------
(***************************************************************************)
(* "success" means validated: machine_status "success" is only ever saved  *)
(* for the worktree version that passed the fixed validation, across any   *)
(* number of crashes, faults, pauses and retries, as long as no reviewer   *)
(* reopens the run and no control request brings back an older state of    *)
(* it.  The inductive invariant is VerdictInv.                             *)
(***************************************************************************)

LEMMA VerdictInit == ASSUME MaxReviews = 0, Init PROVE VerdictInv
  BY DEF Init, InitialState, VerdictInv, Checkpoint, Fresh, Earned, AtPoint, Working,
     TurnDone

(* Resuming a run and its control check. *)
LEMMA VerdictStart ==
  ASSUME TypeInv, VerdictInv,
         StartThread \/ BeginPrompt \/ Resume \/ ResumeDiverged \/ ResumeFinal
         \/ ResumeThread \/ ApplyControl \/ ClearControl \/ NoControlRequest
  PROVE  VerdictInv'
<1> USE DEF VerdictInv, Checkpoint, Fresh, Earned, InRework, Current, Refused,
            TurnDone, AtPoint, Working
<1>0. disk \in RunState /\ mem \in RunState /\ budget \in Budget /\ wt \in Nat
  BY DEF TypeInv, TypeOK
<1> USE <1>0
<1>1. CASE StartThread
  BY <1>1 DEF StartThread, Go, Save, files, aside, RunState
<1>2. CASE BeginPrompt
  BY <1>2 DEF BeginPrompt, Go, Save, files, aside, RunState
<1>3. CASE Resume
  BY <1>3 DEF Resume, Go, NoResult, Save, Reopened, aside, RunState
<1>4. CASE ResumeDiverged
  BY <1>4 DEF ResumeDiverged, Diverged, Fail, Save, Completed, files, aside,
     RunState
<1>5. CASE ResumeFinal
  BY <1>5 DEF ResumeFinal, Diverged, Final, NoResult, files, aside, RunState,
     Status
<1>6. CASE ResumeThread
  BY <1>6 DEF ResumeThread, Go, Diverged, Save, files, aside, RunState
<1>7. CASE ApplyControl
  BY <1>7 DEF ApplyControl, Go, Save, Marked, Paused, Completed, files, aside,
     RunState
<1>8. CASE ClearControl
  BY <1>8 DEF ClearControl, Go, aside, RunState
<1>9. CASE NoControlRequest
  BY <1>9 DEF NoControlRequest, Go, files, aside, RunState
<1> QED
  BY <1>1, <1>2, <1>3, <1>4, <1>5, <1>6, <1>7, <1>8, <1>9

(* A Codex turn: a passed verdict never survives into rework unless it was *)
(* refused, so a turn that edits the worktree finds none to spoil.         *)
LEMMA VerdictTurn ==
  ASSUME TypeInv, VerdictInv,
         BeginInitial \/ TurnLimit \/ WritePrompt \/ SaveTurn \/ AcceptTurn \/
         FinishTurn \/ TurnFails \/ RecoverTurn \/ RecordTurn \/
         SaveTurnCompleted
  PROVE  VerdictInv'
<1> USE DEF VerdictInv, Checkpoint, Fresh, Earned, InRework, Current, Refused,
            TurnDone, AtPoint, Working
<1>0. disk \in RunState /\ mem \in RunState /\ budget \in Budget /\ wt \in Nat
  BY DEF TypeInv, TypeOK
<1> USE <1>0
<1>1. CASE BeginInitial
  BY <1>1 DEF BeginInitial, Go, Save, files, aside, RunState
<1>2. CASE TurnLimit
  BY <1>2 DEF TurnLimit, Go, NoteRetry, OutOfTurns, Save, Completed, aside,
     RunState
<1>3. CASE WritePrompt
  BY <1>3 DEF WritePrompt, Go, NoteRetry, OutOfTurns, aside, RunState
<1>4. CASE SaveTurn
  BY <1>4 DEF SaveTurn, Go, Save, files, aside, RunState
<1>5. CASE AcceptTurn
  BY <1>5 DEF AcceptTurn, Go, files, RunState
<1>6. CASE FinishTurn
  BY <1>6 DEF FinishTurn, Go, EndTurn, files, aside, RunState
<1>7. CASE TurnFails
  BY <1>7 DEF TurnFails, Spend, EndTurn, Fail, Save, Completed, files, aside,
     RunState, Budget
<1>8. CASE RecoverTurn
  <2>1. CASE Fail
    BY <1>8, <2>1 DEF RecoverTurn, Fail, Save, Completed, files, aside
  <2>2. CASE ~Fail
    <3>1. pc = "phase" /\ mem.phase = "codex_turn" /\ pc' \in {"dispatch", "answered"}
      BY <1>8, <2>2 DEF RecoverTurn
    <3>2. UNCHANGED <<disk, mem, audit, aggregate, checked, wt, budget>>
      BY <1>8, <2>2 DEF RecoverTurn, files, aside
    <3> QED
      BY <3>1, <3>2
  <2> QED
    BY <2>1, <2>2
<1>9. CASE RecordTurn
  BY <1>9 DEF RecordTurn, Go, aside, RunState
<1>10. CASE SaveTurnCompleted
  BY <1>10 DEF SaveTurnCompleted, Go, Save, files, aside, RunState
<1> QED
  BY <1>1, <1>2, <1>3, <1>4, <1>5, <1>6, <1>7, <1>8, <1>9, <1>10

(* Validation and evaluation, where verdicts arise and become a success. *)
LEMMA VerdictCheck ==
  ASSUME TypeInv, VerdictInv,
         RecoverRound \/ StartValidation \/ (\E v \in {"passed", "failed",
         "infra"} : Validate(v)) \/ RecordRound \/ DecideRound \/
         StartEvaluation \/ (\E r \in BOOLEAN : Evaluate(r)) \/ ApplyEvaluation
  PROVE  VerdictInv'
<1> USE DEF VerdictInv, Checkpoint, Fresh, Earned, InRework, Current, Refused,
            TurnDone, AtPoint, Working
<1>0. disk \in RunState /\ mem \in RunState /\ budget \in Budget /\ wt \in Nat
  BY DEF TypeInv, TypeOK
<1> USE <1>0
<1>1. CASE RecoverRound
  <2>1. /\ pc = "recover" /\ audit \subseteq audit'
        /\ UNCHANGED <<aggregate, checked, wt, budget>>
    BY <1>1 DEF RecoverRound, aside
  <2>2. CASE mem.verdict = "passed" /\ mem.phase = "validating"
    <3>1. /\ mem' = Accepted(mem) /\ disk' = Accepted(mem)
          /\ pc' = IF Accepted(mem).status \in Final THEN "finish" ELSE "phase"
      BY <1>1, <2>2 DEF RecoverRound, Save, Accepted, Completed, RunState
    <3>2. Refused(mem) => HasEvaluator
      BY <2>2 DEF RunState
    <3> QED
      BY <2>1, <2>2, <3>1, <3>2 DEF Accepted, Completed, RunState, Final, Status
  <2>3. CASE ~(mem.verdict = "passed" /\ mem.phase = "validating")
    <3>1. CASE Save(Completed(mem, "manual_review")) /\ pc' = "finish"
      BY <2>1, <3>1 DEF Save, Completed, RunState
    <3>2. CASE UNCHANGED <<mem, disk>> /\ pc' \in {"finish", "phase"}
      BY <2>1, <3>2
    <3> QED
      BY <1>1, <2>3, <3>1, <3>2 DEF RecoverRound, Completed, RunState, Final, Status
  <2> QED
    BY <2>2, <2>3
<1>2. CASE StartValidation
  BY <1>2 DEF StartValidation, Go, Save, files, aside, RunState
<1>3. ASSUME NEW v \in {"passed", "failed", "infra"}, Validate(v) PROVE VerdictInv'
  <2>1. /\ pc = "validate" /\ pc' = "recorded"
        /\ Save([AddRound(mem, v) EXCEPT !.diff = wt])
        /\ checked' = [wt |-> wt, verdict |-> v]
        /\ UNCHANGED <<audit, aggregate, wt>>
    BY <1>3 DEF Validate, Go, files
  <2>2. budget'.reviews = budget.reviews
    BY <1>3 DEF Validate, Spend, Budget
  <2>3. v \in Verdict \ {"none"} /\ AddRound(mem, v) \in RunState
    BY SavedTypes DEF Verdict
  <2> DEFINE s == [AddRound(mem, v) EXCEPT !.diff = wt]
  <2>4. /\ s.turns = mem.turns /\ s.rounds = mem.rounds + 1 /\ s.verdict = v
        /\ s.thread = mem.thread
        /\ v = "passed" => s.status = mem.status /\ s.phase = mem.phase
        /\ v = "failed" => s.status = mem.status /\ s.phase = "prompt_pending"
        /\ v = "infra" => s.status = "infrastructure_error" /\ s.phase = "completed"
    BY <2>3, AddRoundFields DEF RunState
  <2>5. mem' = s /\ disk' = s
    BY <2>1 DEF Save
  <2>6. /\ mem'.turns = mem.turns /\ mem'.rounds = mem.rounds + 1 /\ mem'.verdict = v
        /\ mem'.thread = mem.thread
        /\ v = "passed" => mem'.status = mem.status /\ mem'.phase = mem.phase
        /\ v = "failed" => mem'.status = mem.status /\ mem'.phase = "prompt_pending"
        /\ v = "infra" => mem'.status = "infrastructure_error"
                          /\ mem'.phase = "completed"
    BY <2>4, <2>5
  <2>7. disk' = mem' /\ mem.rounds \in Nat
    BY <2>5 DEF RunState
  <2> QED
    BY <2>1, <2>2, <2>6, <2>7
<1>4. CASE RecordRound
  BY <1>4 DEF RecordRound, Go, aside, RunState
<1>5. CASE DecideRound
  BY <1>5 DEF DecideRound, Accepted, Completed, Save, Final, aside, RunState,
     Status
<1>6. CASE StartEvaluation
  BY <1>6 DEF StartEvaluation, Go, Save, files, aside, RunState
<1>7. ASSUME NEW r \in BOOLEAN, Evaluate(r) PROVE VerdictInv'
  BY <1>7 DEF Evaluate, Go, AggregateIsLast, RunState
<1>8. CASE ApplyEvaluation
  <2>1. /\ pc = "evaluated" /\ audit \subseteq audit'
        /\ UNCHANGED <<aggregate, checked, wt, budget>>
    BY <1>8 DEF ApplyEvaluation, aside
  <2>2. CASE ~aggregate.repair
    <3>1. /\ Save(Completed([mem EXCEPT !.summary = FALSE], "success"))
          /\ pc' = "finish"
      BY <1>8, <2>2 DEF ApplyEvaluation, Evaluated, Save, Completed, RunState, Final,
         Status
    <3>2. Current
      BY <2>1, <2>2
    <3> QED
      BY <2>1, <2>2, <3>1, <3>2 DEF Save, Completed, RunState
  <2>3. CASE aggregate.repair
    <3> DEFINE again == [mem EXCEPT !.summary = TRUE, !.failures = @ + 1]
    <3>1. Refused(mem)
      BY <2>1, <2>3 DEF TypeInv, TypeOK
    <3>2. \/ Save(Completed(again, "manual_review")) /\ pc' = "finish"
          \/ /\ Save([again EXCEPT !.phase = "prompt_pending",
                                    !.kind = "evaluation_repair"])
             /\ pc' = "drive"
      BY <1>8, <2>3 DEF ApplyEvaluation, Evaluated, Save, Completed, RunState, Final,
         Status
    <3>4. /\ again \in RunState /\ again.rounds = mem.rounds /\ again.turns = mem.turns
          /\ again.verdict = mem.verdict /\ again.thread = mem.thread
          /\ again.status = mem.status
      <4>1. again \in RunState
        BY EditTypes
      <4> QED
        BY <4>1 DEF RunState
    <3> HIDE DEF again
    <3>5. /\ disk' = mem' /\ mem'.rounds = mem.rounds /\ mem'.turns = mem.turns
          /\ mem'.verdict = mem.verdict /\ mem'.thread = mem.thread
          /\ \/ mem'.status = "manual_review" /\ mem'.phase = "completed" /\ pc' = "finish"
             \/ mem'.status = mem.status /\ mem'.phase = "prompt_pending" /\ pc' = "drive"
      <4>1. CASE Save(Completed(again, "manual_review")) /\ pc' = "finish"
        BY <3>4, <4>1, SavedFields DEF Save
      <4>2. CASE /\ Save([again EXCEPT !.phase = "prompt_pending",
                                      !.kind = "evaluation_repair"])
                 /\ pc' = "drive"
        BY <3>4, <4>2 DEF Save, RunState
      <4> QED
        BY <3>2, <4>1, <4>2
    <3> QED
      BY <2>1, <2>3, <3>1, <3>5
  <2> QED
    BY <2>2, <2>3
<1> QED
  BY <1>1, <1>2, <1>3, <1>4, <1>5, <1>6, <1>7, <1>8

(* The result is written, or the process fails or dies. *)
LEMMA VerdictFinish ==
  ASSUME TypeInv, VerdictInv,
         AlreadyCompleted \/ NotFinal \/ CaptureChanges \/ WriteResult \/ Fault
         \/ FaultEscapes \/ Crash
  PROVE  VerdictInv'
<1> USE DEF VerdictInv, Checkpoint, Fresh, Earned, InRework, Current, Refused,
            TurnDone, AtPoint, Working
<1>0. disk \in RunState /\ mem \in RunState /\ budget \in Budget /\ wt \in Nat
  BY DEF TypeInv, TypeOK
<1> USE <1>0
<1>1. CASE AlreadyCompleted
  BY <1>1 DEF AlreadyCompleted, Go, files, aside, RunState
<1>2. CASE NotFinal
  BY <1>2 DEF NotFinal, Final, Fail, Save, Completed, files, aside, RunState,
     Status
<1>3. CASE CaptureChanges
  BY <1>3 DEF CaptureChanges, Go, Final, Save, aside, RunState, Status
<1>4. CASE WriteResult
  BY <1>4 DEF WriteResult, Go, aside, RunState
<1>5. CASE Fault
  BY <1>5 DEF Fault, Spend, Fail, Save, Completed, files, aside, RunState,
     Budget
<1>6. CASE Crash
  BY <1>6 DEF Crash, Spend, EndTurn, files, aside, RunState, Budget
<1>7. CASE FaultEscapes
  BY <1>7 DEF FaultEscapes, Spend, files, aside, RunState, Budget
<1> QED
  BY <1>1, <1>2, <1>3, <1>4, <1>5, <1>6, <1>7

(* The endpoint and the queue; the review is barred by its budget. *)
LEMMA VerdictCallers ==
  ASSUME TypeInv, VerdictInv, ~overwritten',
         Requested \/ SaveControl \/ RetryInfrastructure \/ RequestChanges
  PROVE  VerdictInv'
<1> USE DEF VerdictInv, Checkpoint, Fresh, Earned, InRework, Current, Refused,
            TurnDone, AtPoint, Working
<1>0. disk \in RunState /\ mem \in RunState /\ budget \in Budget /\ wt \in Nat
  BY DEF TypeInv, TypeOK
<1> USE <1>0
<1>1. CASE Requested
  BY <1>1, RequestedKeeps
<1>2. CASE SaveControl
  <2>1. /\ UNCHANGED <<pc, audit, aggregate, wt, budget, checked>>
        /\ mem' = IF pc = "down" THEN disk' ELSE mem
        /\ disk' = Paused(disk) \/ disk' = Completed(disk, "cancelled")
    BY <1>2, SavedControl DEF files
  <2>2. /\ disk'.turns = disk.turns /\ disk'.rounds = disk.rounds
        /\ disk'.verdict = disk.verdict /\ disk'.thread = disk.thread
        /\ disk'.status \in {"paused", "cancelled"}
        /\ disk'.phase = disk.phase \/ disk'.phase = "completed"
    BY <2>1, SavedFields
  <2>3. Checkpoint(disk')
    BY <2>1, <2>2
  <2>4. CASE pc = "down"
    BY <2>1, <2>2, <2>3, <2>4
  <2>5. CASE pc # "down"
    BY <2>1, <2>2, <2>3, <2>5
  <2> QED
    BY <2>4, <2>5
<1>3. CASE RetryInfrastructure
  BY <1>3 DEF RetryInfrastructure, Spend, Save, Retried, Incomplete, NoResult,
     files, aside, RunState, Budget
<1>4. CASE RequestChanges
  BY <1>4 DEF RequestChanges, Final, Spend, Save, ReopenedForReview, NoResult,
     RunState, Budget, Status
<1> QED
  BY <1>1, <1>2, <1>3, <1>4

LEMMA VerdictStep ==
  ASSUME TypeInv, VerdictInv, [Next]_vars, ~overwritten'
  PROVE  VerdictInv'
<1>1. CASE Drive
  <2>1. CASE Turn
    BY <2>1, VerdictTurn DEF Turn
  <2>2. CASE Check
    BY <2>2, VerdictCheck DEF Check
  <2> QED
    BY <1>1, <2>1, <2>2, VerdictStart, VerdictCheck, VerdictFinish DEF Drive
<1>2. CASE Resume
  BY <1>2, VerdictStart
<1>3. CASE Environment
  BY <1>3, VerdictTurn, VerdictCheck, VerdictFinish, VerdictCallers
     DEF Environment, Requested
<1>4. CASE UNCHANGED vars
  BY <1>4 DEF vars, VerdictInv, Checkpoint, Fresh, Earned, InRework, Current, Refused,
     TurnDone, AtPoint
<1> QED
  BY <1>1, <1>2, <1>3, <1>4 DEF Next

(* machine_status "success": the fixed validation passed on the very work  *)
(* that is in the worktree, for every run that no review reopens, whatever *)
(* the bounds on crashes, faults, requests and retries, until a control    *)
(* request brings back an older state of the run.                          *)
THEOREM SuccessMeansValidated ==
  ASSUME MaxReviews = 0
  PROVE  Spec => []SuccessIsValidated
<1> DEFINE I == ~overwritten => VerdictInv
<1>1. Init => I
  BY VerdictInit
<1>2. I => SuccessIsValidated
  BY DEF VerdictInv, Checkpoint, Earned, Current, SuccessIsValidated
<1>3. TypeInv /\ I /\ [Next]_vars => I'
  BY VerdictStep, OverwrittenStays
<1>4. Spec => []TypeInv
  BY RunTypes
<1> HIDE DEF I
<1> QED
  BY <1>1, <1>2, <1>3, <1>4, PTL DEF Spec
-----------------------------------------------------------------------------
(* Where the executor stands, for every configuration and bound: what its  *)
(* checkpoint says at each point, and how far the state on file may differ *)
(* from its own, which is a pause or a cancellation by another process.    *)

Copies ==
  /\ disk.thread = mem.thread /\ disk.failures = mem.failures /\ disk.turns = mem.turns
  /\ disk.cycleTurns = mem.cycleTurns /\ disk.rounds = mem.rounds
  /\ disk.verdict = mem.verdict /\ disk.summary = mem.summary
  /\ \/ /\ disk.phase = mem.phase /\ disk.kind = mem.kind
        /\ disk.status = mem.status \/ disk.status = "paused"
     \/ /\ disk.phase = "completed" /\ disk.kind = "none" /\ disk.status = "cancelled"
        /\ ~InQueue

Judged == {"recorded", "decide"}
InTurn == {"dispatch", "turn", "answered", "completed"}

Positions ==
  /\ mem.status \in {"success", "manual_review"} => mem.phase = "completed"
  /\ pc \in Working => mem.status = "running"
  /\ pc \in (Working \ {"start"}) \cup Judged => mem.thread
  /\ pc \in {"start", "begin"} => mem.phase = "initialized"
  /\ pc = "started" => mem.phase = "prompt_pending"
  /\ pc \in InTurn => mem.phase = "codex_turn"
  /\ pc = "validate" => mem.phase = "validating"
  /\ pc \in {"evaluate", "evaluated"} => mem.phase = "evaluating"
  /\ pc \in Judged =>
       /\ mem.verdict = "passed" => mem.phase = "validating" /\ mem.status = "running"
       /\ mem.verdict = "failed" => /\ mem.phase = "prompt_pending" /\ mem.kind = "repair"
                                    /\ mem.status = "running"
       /\ mem.verdict \in {"none", "infra"} => /\ mem.phase = "completed"
                                               /\ mem.status = "infrastructure_error"

Placed == Copies /\ Positions

LEMMA PlacedSteps ==
  ASSUME TypeInv, Placed,
         \/ StartThread \/ BeginPrompt \/ Resume \/ ResumeDiverged \/ ResumeFinal
         \/ ResumeThread \/ ApplyControl \/ ClearControl \/ NoControlRequest
         \/ RecoverRound \/ BeginInitial
  PROVE  Placed'
<1> USE DEF Placed, Copies, Positions, Working, Judged, InTurn
<1>0. disk \in RunState /\ mem \in RunState
  BY DEF TypeInv, TypeOK
<1> USE <1>0
<1>1. CASE StartThread
  BY <1>1 DEF StartThread, Go, Save, RunState
<1>2. CASE BeginPrompt
  BY <1>2 DEF BeginPrompt, Go, Save, RunState
<1>3. CASE Resume
  BY <1>3 DEF Resume, Go, Save, Reopened, RunState
<1>4. CASE ResumeDiverged
  BY <1>4 DEF ResumeDiverged, Fail, Save, Completed, RunState
<1>5. CASE ResumeFinal
  BY <1>5 DEF ResumeFinal, RunState
<1>6. CASE ResumeThread
  BY <1>6 DEF ResumeThread, Go, Save, RunState
<1>7. CASE ApplyControl
  BY <1>7 DEF ApplyControl, Go, Save, Marked, Paused, Completed, RunState
<1>8. CASE ClearControl \/ NoControlRequest
  BY <1>8 DEF ClearControl, NoControlRequest, Go, RunState
<1>9. CASE RecoverRound
  <2>1. PICK next : /\ \/ next = mem
                       \/ next = Accepted(mem)
                       \/ next = Completed(mem, "manual_review")
                    /\ mem' = next /\ disk' = IF next = mem THEN disk ELSE next
                    /\ pc' = IF next.status \in Final THEN "finish" ELSE "phase"
    BY <1>9 DEF RecoverRound, Save
  <2>2. pc = "recover" /\ mem.status = "running"
    BY <1>9 DEF RecoverRound
  <2>3. CASE next = mem
    BY <2>1, <2>2, <2>3 DEF Final
  <2>4. CASE next = Accepted(mem) /\ next # mem
    <3>1. CASE HasEvaluator
      <4>1. next = [mem EXCEPT !.phase = "evaluation_pending", !.kind = "none"]
        BY <2>4, <3>1 DEF Accepted
      <4>2. next.status = "running"
        BY <2>2, <4>1 DEF RunState
      <4>3. disk' = next /\ mem' = next /\ pc' = "phase"
        BY <2>1, <2>4, <4>2 DEF Final
      <4> QED
        BY <2>2, <4>1, <4>3 DEF RunState
    <3>2. CASE ~HasEvaluator
      BY <2>1, <2>2, <2>4, <3>2 DEF Accepted, Completed, Final, Status, RunState
    <3> QED
      BY <3>1, <3>2
  <2>5. CASE next = Completed(mem, "manual_review")
    BY <2>1, <2>2, <2>5 DEF Completed, Final, Status, RunState
  <2> QED
    BY <2>1, <2>3, <2>4, <2>5
<1>10. CASE BeginInitial
  BY <1>10 DEF BeginInitial, Go, Save, RunState
<1> QED
  BY <1>1, <1>2, <1>3, <1>4, <1>5, <1>6, <1>7, <1>8, <1>9, <1>10

LEMMA PlacedWork ==
  ASSUME TypeInv, Placed,
         \/ TurnLimit \/ WritePrompt \/ SaveTurn \/ AcceptTurn \/ FinishTurn \/ TurnFails
         \/ RecoverTurn \/ RecordTurn \/ SaveTurnCompleted \/ StartValidation
         \/ (\E v \in {"passed", "failed", "infra"} : Validate(v)) \/ RecordRound
         \/ DecideRound \/ StartEvaluation \/ (\E r \in BOOLEAN : Evaluate(r))
         \/ ApplyEvaluation
  PROVE  Placed'
<1> USE DEF Placed, Copies, Positions, Working, Judged, InTurn
<1>0. disk \in RunState /\ mem \in RunState
  BY DEF TypeInv, TypeOK
<1> USE <1>0
<1>1. CASE TurnLimit
  BY <1>1 DEF TurnLimit, Go, Save, Completed, RunState
<1>2. CASE WritePrompt \/ AcceptTurn \/ FinishTurn \/ RecordTurn \/ RecordRound
  BY <1>2 DEF WritePrompt, AcceptTurn, FinishTurn, RecordTurn, RecordRound, Go, files
<1>3. CASE SaveTurn
  BY <1>3 DEF SaveTurn, Go, Save, RunState
<1>4. CASE TurnFails
  BY <1>4 DEF TurnFails, Fail, Save, Completed, RunState
<1>5. CASE RecoverTurn
  <2>1. CASE Fail
    BY <1>5, <2>1 DEF Fail, Save, Completed, RunState
  <2>2. CASE pc' \in {"dispatch", "answered"} /\ UNCHANGED <<mem, disk>>
    BY <1>5, <2>2 DEF RecoverTurn
  <2> QED
    BY <1>5, <2>1, <2>2 DEF RecoverTurn
<1>6. CASE SaveTurnCompleted
  BY <1>6 DEF SaveTurnCompleted, Go, Save, RunState
<1>11. CASE StartValidation
  BY <1>11 DEF StartValidation, Go, Save, RunState
<1>12. CASE StartEvaluation
  BY <1>12 DEF StartEvaluation, Go, Save, RunState
<1>7. ASSUME NEW v \in {"passed", "failed", "infra"}, Validate(v) PROVE Placed'
  BY <1>7 DEF Validate, Go, Save, AddRound, Completed, RunState
<1>8. CASE DecideRound
  BY <1>8 DEF DecideRound, Save, Accepted, Completed, Final, Status, Verdict, RunState
<1>9. ASSUME NEW r \in BOOLEAN, Evaluate(r) PROVE Placed'
  BY <1>9 DEF Evaluate, Go
<1>10. CASE ApplyEvaluation
  BY <1>10 DEF ApplyEvaluation, Evaluated, Save, Completed, Final, Status, RunState
<1> QED
  BY <1>1, <1>2, <1>3, <1>4, <1>5, <1>6, <1>7, <1>8, <1>9, <1>10, <1>11, <1>12

LEMMA PlacedEnd ==
  ASSUME TypeInv, Placed, ~overwritten',
         \/ AlreadyCompleted \/ NotFinal \/ CaptureChanges \/ WriteResult \/ Fault
         \/ FaultEscapes \/ Crash \/ Requested \/ SaveControl \/ RetryInfrastructure
         \/ RequestChanges
  PROVE  Placed'
<1> USE DEF Placed, Copies, Positions, Working, Judged, InTurn
<1>0. disk \in RunState /\ mem \in RunState
  BY DEF TypeInv, TypeOK
<1> USE <1>0
<1>1. CASE AlreadyCompleted \/ WriteResult
  BY <1>1 DEF AlreadyCompleted, WriteResult, Go
<1>2. CASE NotFinal \/ Fault
  <2>1. Fail
    BY <1>2 DEF NotFinal, Fault
  <2> QED
    BY <2>1 DEF Fail, Save, Completed, RunState
<1>3. CASE CaptureChanges
  BY <1>3 DEF CaptureChanges, Go, Save, RunState
<1>4. CASE Crash
  BY <1>4 DEF Crash
<1>5. CASE Requested
  BY <1>5, RequestedKeeps
<1>6. CASE SaveControl
  <2>1. /\ UNCHANGED <<pc, started, audit, result, thread, wt, checked, unanswered>>
        /\ mem' = IF pc = "down" THEN disk' ELSE mem
        /\ InQueue => disk' = Paused(disk) /\ outcome'.status = "paused"
        /\ ~InQueue => /\ outcome' = outcome
                       /\ \/ disk.status = "running" /\ disk' = Paused(disk)
                          \/ disk' = Completed(disk, "cancelled")
    BY <1>6, SavedControl DEF files
  <2>2. disk' \in {Paused(disk), Completed(disk, "cancelled")}
    BY <2>1
  <2>3. /\ disk'.thread = disk.thread /\ disk'.failures = disk.failures
        /\ disk'.turns = disk.turns /\ disk'.cycleTurns = disk.cycleTurns
        /\ disk'.rounds = disk.rounds /\ disk'.verdict = disk.verdict
        /\ disk'.summary = disk.summary
        /\ \/ /\ disk'.status = "paused" /\ disk'.phase = disk.phase
              /\ disk'.kind = disk.kind /\ (InQueue \/ disk.status = "running")
           \/ /\ disk'.status = "cancelled" /\ disk'.kind = "none"
              /\ disk'.phase = "completed" /\ ~InQueue
    BY <2>1, <2>2, MarkedFields
  <2>4. CASE pc = "down"
    BY <2>1, <2>3, <2>4
  <2>5. CASE pc # "down"
    BY <2>1, <2>3, <2>5
  <2> QED
    BY <2>4, <2>5
<1>7. CASE FaultEscapes
  BY <1>7 DEF FaultEscapes
<1>8. CASE RetryInfrastructure
  BY <1>8 DEF RetryInfrastructure, Save, Retried, RunState
<1>9. CASE RequestChanges
  BY <1>9 DEF RequestChanges, Save, ReopenedForReview, RunState
<1> QED
  BY <1>1, <1>2, <1>3, <1>4, <1>5, <1>6, <1>7, <1>8, <1>9

LEMMA PlacedKeeps ==
  ASSUME TypeInv, Placed, [Next]_vars, ~overwritten'
  PROVE  Placed'
<1>1. CASE UNCHANGED vars
  BY <1>1 DEF vars, Placed, Copies, Positions
<1>2. CASE Next
  BY <1>2, PlacedSteps, PlacedWork, PlacedEnd
     DEF Next, Drive, Turn, Check, Environment, Requested
<1> QED
  BY <1>1, <1>2

(* Once the queue has retried the run, it is not undisturbed any more.     *)
LEMMA RetryDisturbs ==
  ASSUME TypeInv, Undisturbed, RetryInfrastructure
  PROVE  ~Undisturbed'
<1>1. budget \in Budget
  BY Shapes DEF RestOK
<1> QED
  BY <1>1 DEF RetryInfrastructure, Spend, Undisturbed, Unretried, Budget

(* A saved prompt has what it quotes, and before every one of them the     *)
(* limit on failed rounds has been looked at.                              *)
Looked   == InTurn \cup {"phase", "started", "validate"}
Reviewed == {"success", "manual_review"}

Ready ==
  /\ mem.phase \in {"evaluation_pending", "evaluating"} => mem.verdict = "passed" /\ HasEvaluator
  /\ mem.phase = "prompt_pending" =>
       /\ mem.kind # "none"
       /\ mem.kind = "repair" => mem.rounds > 0 /\ mem.verdict = "failed" /\ mem.failures > 0
       /\ mem.kind = "evaluation_repair" => mem.summary /\ HasEvaluator
  /\ pc \in Looked =>
       mem.rounds = 0 \/ mem.verdict = "passed" \/ mem.failures < MAX_VALIDATION_FAILURES
  /\ ~InQueue /\ mem.phase = "completed" => mem.status \notin {"running", "paused"}
  /\ ~InQueue /\ disk.phase = "completed" => disk.status \notin {"running", "paused"}
  /\ ~mem.thread => /\ mem.rounds = 0 /\ mem.phase \in {"initialized", "completed"}
                    /\ mem.status \notin Reviewed
                    /\ result.status \notin Reviewed /\ outcome.status \notin Reviewed

LEMMA ReadySteps ==
  ASSUME TypeInv, Placed, Ready,
         \/ StartThread \/ BeginPrompt \/ Resume \/ ResumeDiverged \/ ResumeFinal
         \/ ResumeThread \/ ApplyControl \/ ClearControl \/ NoControlRequest
         \/ RecoverRound \/ BeginInitial
  PROVE  Ready'
<1> USE DEF Placed, Copies, Positions, Working, Judged, InTurn, Ready, Looked, Reviewed, files,
            MAX_VALIDATION_FAILURES
<1>0. disk \in RunState /\ mem \in RunState
  BY DEF TypeInv, TypeOK
<1> USE <1>0
<1>1. CASE StartThread
  BY <1>1 DEF StartThread, Go, Save, RunState
<1>2. CASE BeginPrompt
  BY <1>2 DEF BeginPrompt, Go, Save, RunState
<1>3. CASE Resume
  BY <1>3 DEF Resume, Go, Save, Reopened, NoResult, RunState
<1>4. CASE ResumeDiverged
  BY <1>4 DEF ResumeDiverged, Fail, Save, Completed, RunState
<1>5. CASE ResumeFinal
  BY <1>5 DEF ResumeFinal, RunState
<1>6. CASE ResumeThread
  BY <1>6 DEF ResumeThread, Go, Save, RunState
<1>7. CASE ApplyControl
  BY <1>7 DEF ApplyControl, Go, Save, Marked, Paused, Completed, RunState
<1>8. CASE ClearControl \/ NoControlRequest
  BY <1>8 DEF ClearControl, NoControlRequest, Go, RunState
<1>9. CASE RecoverRound
  <2>1. PICK next : /\ \/ next = mem /\ ~ (/\ mem.rounds > 0 /\ mem.verdict # "passed"
                                          /\ mem.failures >= MAX_VALIDATION_FAILURES)
                       \/ next = Accepted(mem) /\ mem.verdict = "passed"
                       \/ next = Completed(mem, "manual_review")
                    /\ mem' = next /\ disk' = IF next = mem THEN disk ELSE next
                    /\ pc' = IF next.status \in Final THEN "finish" ELSE "phase"
                    /\ UNCHANGED <<result, outcome>>
    BY <1>9 DEF RecoverRound, Save
  <2>2. pc = "recover" /\ mem.status = "running" /\ mem.thread /\ mem.rounds \in Nat
    BY <1>9 DEF RecoverRound, RunState
  <2>3. CASE next = mem /\ ~ (/\ mem.rounds > 0 /\ mem.verdict # "passed"
                             /\ mem.failures >= MAX_VALIDATION_FAILURES)
    BY <2>1, <2>2, <2>3 DEF Final, RunState
  <2>4. CASE next = Accepted(mem) /\ mem.verdict = "passed"
    <3>1. CASE HasEvaluator
      <4>1. next = [mem EXCEPT !.phase = "evaluation_pending", !.kind = "none"]
        BY <2>4, <3>1 DEF Accepted
      <4> QED
        BY <2>1, <2>2, <2>4, <3>1, <4>1 DEF RunState
    <3>2. CASE ~HasEvaluator
      <4>1. next = Completed(mem, "success")
        BY <2>4, <3>2 DEF Accepted
      <4> QED
        BY <2>1, <2>2, <4>1 DEF Completed, Final, Status, RunState
    <3> QED
      BY <3>1, <3>2
  <2>5. CASE next = Completed(mem, "manual_review")
    BY <2>1, <2>2, <2>5 DEF Completed, Final, Status, RunState
  <2> QED
    BY <2>1, <2>3, <2>4, <2>5
<1>10. CASE BeginInitial
  BY <1>10 DEF BeginInitial, Go, Save, RunState
<1> QED
  BY <1>1, <1>2, <1>3, <1>4, <1>5, <1>6, <1>7, <1>8, <1>9, <1>10

LEMMA ReadyWork ==
  ASSUME TypeInv, Placed, Ready,
         \/ TurnLimit \/ WritePrompt \/ SaveTurn \/ AcceptTurn \/ FinishTurn \/ TurnFails
         \/ RecoverTurn \/ RecordTurn \/ SaveTurnCompleted \/ StartValidation
         \/ (\E v \in {"passed", "failed", "infra"} : Validate(v)) \/ RecordRound
         \/ DecideRound \/ StartEvaluation \/ (\E r \in BOOLEAN : Evaluate(r))
         \/ ApplyEvaluation
  PROVE  Ready'
<1> USE DEF Placed, Copies, Positions, Working, Judged, InTurn, Ready, Looked, Reviewed, files
<1>0. disk \in RunState /\ mem \in RunState
  BY DEF TypeInv, TypeOK
<1> USE <1>0
<1>1. CASE TurnLimit
  BY <1>1 DEF TurnLimit, Go, Save, Completed, RunState
<1>2. CASE WritePrompt \/ AcceptTurn \/ FinishTurn \/ RecordTurn \/ RecordRound
  BY <1>2 DEF WritePrompt, AcceptTurn, FinishTurn, RecordTurn, RecordRound, Go, files
<1>3. CASE SaveTurn
  BY <1>3 DEF SaveTurn, Go, Save, RunState
<1>4. CASE TurnFails
  BY <1>4 DEF TurnFails, Fail, Save, Completed, RunState
<1>5. CASE RecoverTurn
  <2>1. CASE Fail
    BY <1>5, <2>1 DEF RecoverTurn, Fail, Save, Completed, RunState
  <2>2. CASE pc = "phase" /\ pc' \in {"dispatch", "answered"} /\ UNCHANGED <<mem, disk>>
    BY <1>5, <2>2 DEF RecoverTurn
  <2> QED
    BY <1>5, <2>1, <2>2 DEF RecoverTurn
<1>6. CASE SaveTurnCompleted
  BY <1>6 DEF SaveTurnCompleted, Go, Save, RunState
<1>7. CASE StartValidation
  BY <1>7 DEF StartValidation, Go, Save, RunState
<1>8. ASSUME NEW v \in {"passed", "failed", "infra"}, Validate(v) PROVE Ready'
  BY <1>8 DEF Validate, Go, Save, AddRound, Completed, RunState
<1>9. CASE DecideRound
  BY <1>9 DEF DecideRound, Save, Accepted, Completed, Final, Status, Verdict, RunState
<1>10. CASE StartEvaluation
  BY <1>10 DEF StartEvaluation, Go, Save, RunState
<1>11. ASSUME NEW r \in BOOLEAN, Evaluate(r) PROVE Ready'
  BY <1>11 DEF Evaluate, Go
<1>12. CASE ApplyEvaluation
  BY <1>12 DEF ApplyEvaluation, Evaluated, Save, Completed, Final, Status, RunState
<1> QED
  BY <1>1, <1>2, <1>3, <1>4, <1>5, <1>6, <1>7, <1>8, <1>9, <1>10, <1>11, <1>12

LEMMA ReadyEnd ==
  ASSUME TypeInv, Placed, Undisturbed, Undisturbed', Ready,
         \/ AlreadyCompleted \/ NotFinal \/ CaptureChanges \/ WriteResult \/ Fault
         \/ FaultEscapes \/ Crash \/ Requested \/ SaveControl \/ RetryInfrastructure
         \/ RequestChanges
  PROVE  Ready'
<1> USE DEF Placed, Copies, Positions, Working, Judged, InTurn, Ready, Looked, Reviewed, files
<1>0. disk \in RunState /\ mem \in RunState
  BY DEF TypeInv, TypeOK
<1> USE <1>0
<1>1. CASE AlreadyCompleted
  BY <1>1 DEF AlreadyCompleted, Go
<1>2. CASE WriteResult
  BY <1>2 DEF WriteResult, Go
<1>10. CASE NotFinal
  BY <1>10 DEF NotFinal, Fail, Save, Completed, RunState
<1>11. CASE Fault
  BY <1>11 DEF Fault, Fail, Save, Completed, RunState
<1>3. CASE CaptureChanges
  BY <1>3 DEF CaptureChanges, Go, Save, RunState
<1>4. CASE Crash
  BY <1>4 DEF Crash
<1>5. CASE Requested
  BY <1>5, RequestedKeeps
<1>6. CASE SaveControl
  <2>1. /\ UNCHANGED <<pc, started, audit, result, thread, wt, checked, unanswered>>
        /\ mem' = IF pc = "down" THEN disk' ELSE mem
        /\ InQueue => disk' = Paused(disk) /\ outcome'.status = "paused"
        /\ ~InQueue => /\ outcome' = outcome
                       /\ \/ disk.status = "running" /\ disk' = Paused(disk)
                          \/ disk' = Completed(disk, "cancelled")
    BY <1>6, SavedControl DEF files, Undisturbed
  <2>2. disk' \in {Paused(disk), Completed(disk, "cancelled")}
    BY <2>1
  <2>3. /\ disk'.thread = disk.thread /\ disk'.failures = disk.failures
        /\ disk'.turns = disk.turns /\ disk'.cycleTurns = disk.cycleTurns
        /\ disk'.rounds = disk.rounds /\ disk'.verdict = disk.verdict
        /\ disk'.summary = disk.summary
        /\ \/ /\ disk'.status = "paused" /\ disk'.phase = disk.phase
              /\ disk'.kind = disk.kind /\ (InQueue \/ disk.status = "running")
           \/ /\ disk'.status = "cancelled" /\ disk'.kind = "none"
              /\ disk'.phase = "completed" /\ ~InQueue
    BY <2>1, <2>2, MarkedFields
  <2>4. CASE pc = "down"
    BY <2>1, <2>3, <2>4
  <2>5. CASE pc # "down"
    BY <2>1, <2>3, <2>5
  <2> QED
    BY <2>4, <2>5
<1>7. CASE FaultEscapes
  BY <1>7 DEF FaultEscapes
<1>8. CASE RetryInfrastructure
  BY <1>8, RetryDisturbs
<1>9. CASE RequestChanges
  BY <1>9 DEF RequestChanges, Save, ReopenedForReview, NoResult, RunState
<1> QED
  BY <1>1, <1>2, <1>3, <1>4, <1>5, <1>6, <1>7, <1>8, <1>9, <1>10, <1>11

(* Without evaluators, work is handed to a person only when the last round *)
(* failed and nothing has touched the worktree since: the limit on failed  *)
(* rounds is met by such a round, and a prompt that meets the limit on     *)
(* turns is the repair of one.                                             *)
LastFailed == checked = [wt |-> wt, verdict |-> "failed"]

Rejected ==
  /\ mem.failures >= MAX_VALIDATION_FAILURES => LastFailed
  /\ mem.rounds = 0 \/ mem.verdict = "passed" => mem.failures = 0
  /\ mem.phase = "initialized" \/ ~mem.thread => mem.cycleTurns = 0
  /\ mem.phase = "prompt_pending" =>
       IF mem.kind = "repair" THEN LastFailed ELSE mem.cycleTurns = 0
  /\ mem.status = "manual_review" => LastFailed

LEMMA RejectedSteps ==
  ASSUME TypeInv, Placed, Ready, Rejected, ~HasEvaluator,
         \/ StartThread \/ BeginPrompt \/ Resume \/ ResumeDiverged \/ ResumeFinal
         \/ ResumeThread \/ ApplyControl \/ ClearControl \/ NoControlRequest
         \/ RecoverRound \/ BeginInitial
  PROVE  Rejected'
<1> USE DEF Placed, Copies, Positions, Working, Judged, InTurn, Ready, Looked, Rejected, LastFailed,
            MAX_VALIDATION_FAILURES, files, aside
<1>0. disk \in RunState /\ mem \in RunState
  BY DEF TypeInv, TypeOK
<1> USE <1>0
<1>1. CASE StartThread
  BY <1>1 DEF StartThread, Go, Save, RunState
<1>2. CASE BeginPrompt
  BY <1>2 DEF BeginPrompt, Go, Save, RunState
<1>3. CASE Resume
  BY <1>3 DEF Resume, Go, Save, Reopened, RunState
<1>4. CASE ResumeDiverged
  BY <1>4 DEF ResumeDiverged, Fail, Save, Completed, RunState
<1>5. CASE ResumeFinal
  BY <1>5 DEF ResumeFinal, RunState
<1>6. CASE ResumeThread
  BY <1>6 DEF ResumeThread, Go, Save, RunState
<1>7. CASE ApplyControl
  BY <1>7 DEF ApplyControl, Go, Save, Marked, Paused, Completed, RunState
<1>8. CASE ClearControl
  BY <1>8 DEF ClearControl, Go
<1>9. CASE NoControlRequest
  BY <1>9 DEF NoControlRequest, Go
<1>10. CASE RecoverRound
  <2>1. PICK next : /\ \/ next = mem
                       \/ next = Accepted(mem) /\ mem.verdict = "passed"
                       \/ /\ next = Completed(mem, "manual_review")
                          /\ mem.failures >= MAX_VALIDATION_FAILURES
                    /\ mem' = next
                    /\ pc' = IF next.status \in Final THEN "finish" ELSE "phase"
                    /\ UNCHANGED <<wt, checked>>
    BY <1>10 DEF RecoverRound, Save
  <2>2. pc = "recover" /\ mem.status = "running" /\ mem.thread /\ mem.failures \in Nat
    BY <1>10 DEF RecoverRound, RunState
  <2>3. CASE next = mem
    BY <2>1, <2>2, <2>3 DEF Final
  <2>4. CASE next = Accepted(mem) /\ mem.verdict = "passed"
    <3>1. next = Completed(mem, "success")
      BY <2>4 DEF Accepted
    <3> QED
      BY <2>1, <2>2, <3>1 DEF Completed, RunState
  <2>5. CASE next = Completed(mem, "manual_review") /\ mem.failures >= MAX_VALIDATION_FAILURES
    BY <2>1, <2>2, <2>5 DEF Completed, RunState
  <2> QED
    BY <2>1, <2>3, <2>4, <2>5
<1>11. CASE BeginInitial
  BY <1>11 DEF BeginInitial, Go, Save, RunState
<1> QED
  BY <1>1, <1>2, <1>3, <1>4, <1>5, <1>6, <1>7, <1>8, <1>9, <1>10, <1>11

LEMMA RejectedWork ==
  ASSUME TypeInv, Placed, Ready, Rejected, ~HasEvaluator,
         \/ TurnLimit \/ WritePrompt \/ SaveTurn \/ AcceptTurn \/ FinishTurn \/ TurnFails
         \/ RecoverTurn \/ RecordTurn \/ SaveTurnCompleted \/ StartValidation
         \/ (\E v \in {"passed", "failed", "infra"} : Validate(v)) \/ RecordRound
         \/ DecideRound \/ StartEvaluation \/ (\E r \in BOOLEAN : Evaluate(r))
         \/ ApplyEvaluation
  PROVE  Rejected'
<1> USE DEF Placed, Copies, Positions, Working, Judged, InTurn, Ready, Looked, Rejected, LastFailed,
            MAX_VALIDATION_FAILURES, files, aside
<1>0. disk \in RunState /\ mem \in RunState
  BY DEF TypeInv, TypeOK
<1> USE <1>0
<1>1. CASE TurnLimit
  BY <1>1 DEF TurnLimit, Go, OutOfTurns, MAX_CODEX_TURNS, Save, Completed, RunState
<1>2. CASE WritePrompt
  BY <1>2 DEF WritePrompt, Go
<1>3. CASE SaveTurn
  BY <1>3 DEF SaveTurn, Go, Save, RunState
<1>4. CASE AcceptTurn
  BY <1>4 DEF AcceptTurn, Go
<1>5. CASE FinishTurn
  <2>1. /\ mem.phase = "codex_turn" /\ mem.status = "running"
        /\ mem.failures \in Nat /\ mem.failures < 3
    BY <1>5 DEF FinishTurn, Go, RunState
  <2> QED
    BY <1>5, <2>1 DEF FinishTurn, Go
<1>6. CASE TurnFails
  BY <1>6 DEF TurnFails, Fail, Save, Completed, RunState
<1>7. CASE RecoverTurn
  <2>1. CASE Fail
    BY <1>7, <2>1 DEF RecoverTurn, Fail, Save, Completed, RunState
  <2>2. CASE pc = "phase" /\ pc' \in {"dispatch", "answered"} /\ UNCHANGED <<mem, disk>>
    BY <1>7, <2>2 DEF RecoverTurn
  <2> QED
    BY <1>7, <2>1, <2>2 DEF RecoverTurn
<1>8. CASE RecordTurn
  BY <1>8 DEF RecordTurn, Go
<1>9. CASE SaveTurnCompleted
  BY <1>9 DEF SaveTurnCompleted, Go, Save, RunState
<1>10. CASE StartValidation
  BY <1>10 DEF StartValidation, Go, Save, RunState
<1>11. ASSUME NEW v \in {"passed", "failed", "infra"}, Validate(v) PROVE Rejected'
  BY <1>11 DEF Validate, Go, Save, AddRound, Completed, RunState
<1>12. CASE RecordRound
  BY <1>12 DEF RecordRound, Go
<1>13. CASE DecideRound
  BY <1>13 DEF DecideRound, Save, Accepted, Completed, Final, Status, Verdict, RunState
<1>14. CASE StartEvaluation
  BY <1>14 DEF StartEvaluation, Go, Save, RunState
<1>15. ASSUME NEW r \in BOOLEAN, Evaluate(r) PROVE Rejected'
  BY <1>15 DEF Evaluate, Go
<1>16. CASE ApplyEvaluation
  BY <1>16 DEF ApplyEvaluation, Evaluated, Save, Completed, Final, Status, RunState
<1> QED
  BY <1>1, <1>2, <1>3, <1>4, <1>5, <1>6, <1>7, <1>8, <1>9, <1>10, <1>11, <1>12,
     <1>13, <1>14, <1>15, <1>16

LEMMA RejectedEnd ==
  ASSUME TypeInv, Placed, Undisturbed, Undisturbed', Ready, Rejected, ~HasEvaluator,
         \/ AlreadyCompleted \/ NotFinal \/ CaptureChanges \/ WriteResult \/ Fault
         \/ FaultEscapes \/ Crash \/ Requested \/ SaveControl \/ RetryInfrastructure
         \/ RequestChanges
  PROVE  Rejected'
<1> USE DEF Placed, Copies, Positions, Working, Judged, InTurn, Ready, Looked, Rejected, LastFailed,
            MAX_VALIDATION_FAILURES, files, aside
<1>0. disk \in RunState /\ mem \in RunState
  BY DEF TypeInv, TypeOK
<1> USE <1>0
<1>1. CASE AlreadyCompleted
  BY <1>1 DEF AlreadyCompleted, Go
<1>2. CASE NotFinal
  BY <1>2 DEF NotFinal, Fail, Save, Completed, RunState
<1>3. CASE CaptureChanges
  BY <1>3 DEF CaptureChanges, Go, Save, RunState
<1>4. CASE WriteResult
  BY <1>4 DEF WriteResult, Go
<1>5. CASE Fault
  BY <1>5 DEF Fault, Fail, Save, Completed, RunState
<1>6. CASE Crash
  <2>1. CASE pc = "turn"
    <3>1. /\ mem.phase = "codex_turn" /\ mem.status = "running"
          /\ mem.failures \in Nat /\ mem.failures < 3
      BY <2>1 DEF RunState
    <3>2. mem' = disk
      BY <1>6 DEF Crash
    <3>3. /\ mem'.phase \in {"codex_turn", "completed"} /\ mem'.failures = mem.failures
          /\ mem'.status \in {"running", "paused", "cancelled"}
      BY <3>1, <3>2
    <3> QED
      BY <3>1, <3>2, <3>3
  <2>2. CASE pc # "turn"
    BY <1>6, <2>2 DEF Crash
  <2> QED
    BY <2>1, <2>2
<1>7. CASE Requested
  BY <1>7, RequestedKeeps
<1>8. CASE SaveControl
  <2>1. /\ UNCHANGED <<pc, started, audit, result, thread, wt, checked, unanswered>>
        /\ mem' = IF pc = "down" THEN disk' ELSE mem
        /\ InQueue => disk' = Paused(disk) /\ outcome'.status = "paused"
        /\ ~InQueue => /\ outcome' = outcome
                       /\ \/ disk.status = "running" /\ disk' = Paused(disk)
                          \/ disk' = Completed(disk, "cancelled")
    BY <1>8, SavedControl DEF files, Undisturbed
  <2>2. disk' \in {Paused(disk), Completed(disk, "cancelled")}
    BY <2>1
  <2>3. /\ disk'.thread = disk.thread /\ disk'.failures = disk.failures
        /\ disk'.turns = disk.turns /\ disk'.cycleTurns = disk.cycleTurns
        /\ disk'.rounds = disk.rounds /\ disk'.verdict = disk.verdict
        /\ disk'.summary = disk.summary
        /\ \/ /\ disk'.status = "paused" /\ disk'.phase = disk.phase
              /\ disk'.kind = disk.kind /\ (InQueue \/ disk.status = "running")
           \/ /\ disk'.status = "cancelled" /\ disk'.kind = "none"
              /\ disk'.phase = "completed" /\ ~InQueue
    BY <2>1, <2>2, MarkedFields
  <2>4. CASE pc = "down"
    BY <2>1, <2>3, <2>4
  <2>5. CASE pc # "down"
    BY <2>1, <2>3, <2>5
  <2> QED
    BY <2>4, <2>5
<1>9. CASE FaultEscapes
  BY <1>9 DEF FaultEscapes
<1>10. CASE RetryInfrastructure
  BY <1>10, RetryDisturbs
<1>11. CASE RequestChanges
  BY <1>11 DEF RequestChanges, Save, ReopenedForReview, NoResult, RunState
<1> QED
  BY <1>1, <1>2, <1>3, <1>4, <1>5, <1>6, <1>7, <1>8, <1>9, <1>10, <1>11

(* A change request that Codex has not been given yet is the prompt that   *)
(* is pending, or the one of a saved turn the App Server has not taken.    *)
Asked ==
  /\ Len(thread) <= mem.turns
  /\ pc = "dispatch" => Len(thread) < mem.turns
  /\ pc \in {"turn", "answered", "completed"} \/ ~mem.thread => ~unanswered
  /\ pc = "started" => started[mem.turns + 1] = mem.kind
  /\ unanswered =>
       \/ mem.phase = "prompt_pending" /\ mem.kind = "review_repair"
       \/ /\ mem.phase = "codex_turn" /\ Len(thread) < mem.turns
          /\ started[mem.turns] = "review_repair"
       \/ mem.phase = "completed" /\ mem.status # "success"

LEMMA AskedSteps ==
  ASSUME TypeInv, Placed, Ready, Asked,
         \/ StartThread \/ BeginPrompt \/ Resume \/ ResumeDiverged \/ ResumeFinal
         \/ ResumeThread \/ ApplyControl \/ ClearControl \/ NoControlRequest
         \/ RecoverRound \/ BeginInitial
  PROVE  Asked'
<1> USE DEF Placed, Copies, Positions, Working, Judged, InTurn, Ready, Reviewed, Asked,
            files, aside
<1>0. disk \in RunState /\ mem \in RunState
  BY DEF TypeInv, TypeOK
<1> USE <1>0
<1>1. CASE StartThread
  BY <1>1 DEF StartThread, Go, Save, RunState
<1>2. CASE BeginPrompt
  BY <1>2 DEF BeginPrompt, Go, Save, RunState
<1>3. CASE Resume
  BY <1>3 DEF Resume, Go, Save, Reopened, RunState
<1>4. CASE ResumeDiverged
  BY <1>4 DEF ResumeDiverged, Fail, Save, Completed, RunState
<1>5. CASE ResumeFinal
  BY <1>5 DEF ResumeFinal, RunState
<1>6. CASE ResumeThread
  BY <1>6 DEF ResumeThread, Go, Save, RunState
<1>7. CASE ApplyControl
  BY <1>7 DEF ApplyControl, Go, Save, Marked, Paused, Completed, RunState
<1>8. CASE ClearControl
  BY <1>8 DEF ClearControl, Go
<1>9. CASE NoControlRequest
  BY <1>9 DEF NoControlRequest, Go
<1>10. CASE RecoverRound
  <2>1. PICK next : /\ \/ next = mem
                       \/ next = Accepted(mem) /\ mem.phase = "validating"
                       \/ next = Completed(mem, "manual_review")
                    /\ mem' = next
                    /\ pc' = IF next.status \in Final THEN "finish" ELSE "phase"
                    /\ UNCHANGED <<thread, started, unanswered>>
    BY <1>10 DEF RecoverRound, Save, aside
  <2>2. pc = "recover" /\ mem.status = "running" /\ mem.thread
    BY <1>10 DEF RecoverRound
  <2>3. CASE next = mem
    BY <2>1, <2>2, <2>3 DEF Final
  <2>4. CASE next = Accepted(mem) /\ mem.phase = "validating"
    <3>1. ~unanswered
      BY <2>4
    <3>2. next.turns = mem.turns
      BY <2>4, EditTurns
    <3> QED
      BY <2>1, <2>2, <3>1, <3>2
  <2>5. CASE next = Completed(mem, "manual_review")
    BY <2>1, <2>2, <2>5 DEF Completed, RunState, Final, Status
  <2> QED
    BY <2>1, <2>3, <2>4, <2>5
<1>11. CASE BeginInitial
  BY <1>11 DEF BeginInitial, Go, Save, RunState
<1> QED
  BY <1>1, <1>2, <1>3, <1>4, <1>5, <1>6, <1>7, <1>8, <1>9, <1>10, <1>11

LEMMA AskedWork ==
  ASSUME TypeInv, Placed, Ready, Asked,
         \/ TurnLimit \/ WritePrompt \/ SaveTurn \/ AcceptTurn \/ FinishTurn \/ TurnFails
         \/ RecoverTurn \/ RecordTurn \/ SaveTurnCompleted \/ StartValidation
         \/ (\E v \in {"passed", "failed", "infra"} : Validate(v)) \/ RecordRound
         \/ DecideRound \/ StartEvaluation \/ (\E r \in BOOLEAN : Evaluate(r))
         \/ ApplyEvaluation
  PROVE  Asked'
<1> USE DEF Placed, Copies, Positions, Working, Judged, InTurn, Ready, Reviewed, Asked,
            files, aside
<1>0. disk \in RunState /\ mem \in RunState
  BY DEF TypeInv, TypeOK
<1> USE <1>0
<1>1. CASE TurnLimit
  BY <1>1 DEF TurnLimit, Go, Save, Completed, RunState
<1>2. CASE WritePrompt
  <2>1. mem.turns \in Nat /\ started \in Seq(PromptKind) /\ Len(started) >= mem.turns
    BY Shapes
  <2>2. mem.kind \in PromptKind
    BY <1>2 DEF WritePrompt, RunState
  <2>3. started'[mem.turns + 1] = mem.kind
    BY <1>2, <2>1, <2>2 DEF WritePrompt
  <2> QED
    BY <1>2, <2>3 DEF WritePrompt, Go
<1>3. CASE SaveTurn
  <2>1. mem.turns \in Nat /\ Len(thread) \in Nat
    BY Shapes DEF RestOK
  <2> QED
    BY <1>3, <2>1 DEF SaveTurn, Go, Save, RunState
<1>4. CASE AcceptTurn
  <2>1. mem.turns \in Nat /\ Len(thread) \in Nat /\ Len(thread') = Len(thread) + 1
    <3>1. thread \in Seq(CodexTurn)
      BY Shapes DEF RestOK
    <3> QED
      BY <1>4, <3>1, Shapes DEF AcceptTurn
  <2>2. ~unanswered'
    BY <1>4 DEF AcceptTurn, Go
  <2> QED
    BY <1>4, <2>1, <2>2 DEF AcceptTurn, Go
<1>5. CASE FinishTurn
  <2>1. Len(thread') = Len(thread)
    <3>1. thread \in Seq(CodexTurn)
      BY Shapes DEF RestOK
    <3> QED
      BY <1>5, <3>1 DEF FinishTurn, EndTurn
  <2> QED
    BY <1>5, <2>1 DEF FinishTurn, Go
<1>6. CASE TurnFails
  <2>1. Len(thread') = Len(thread)
    <3>1. thread \in Seq(CodexTurn)
      BY Shapes DEF RestOK
    <3> QED
      BY <1>6, <3>1 DEF TurnFails, EndTurn
  <2> QED
    BY <1>6, <2>1 DEF TurnFails, Fail, Save, Completed, RunState
<1>7. CASE RecoverTurn
  <2>1. CASE Fail
    BY <1>7, <2>1 DEF RecoverTurn, Fail, Save, Completed, RunState
  <2>2. CASE TurnNeverTaken /\ pc' = "dispatch" /\ UNCHANGED <<mem, disk>>
    <3>1. Len(thread) < mem.turns
      <4>1. mem.turns \in Nat /\ Len(thread) = mem.turns - 1
        BY <2>2, Shapes DEF TurnNeverTaken
      <4> QED
        BY <4>1
    <3> QED
      BY <1>7, <2>2, <3>1 DEF RecoverTurn
  <2>3. CASE TurnAnswered /\ pc' = "answered" /\ UNCHANGED <<mem, disk>>
    <3>1. ~unanswered
      <4>1. mem.turns \in Nat /\ Len(thread) = mem.turns
        BY <2>3, Shapes DEF TurnAnswered
      <4> QED
        BY <1>7, <4>1 DEF RecoverTurn
    <3> QED
      BY <1>7, <2>3, <3>1 DEF RecoverTurn
  <2> QED
    BY <1>7, <2>1, <2>2, <2>3 DEF RecoverTurn
<1>8. CASE RecordTurn
  BY <1>8 DEF RecordTurn, Go
<1>9. CASE SaveTurnCompleted
  BY <1>9 DEF SaveTurnCompleted, Go, Save, RunState
<1>10. CASE StartValidation
  BY <1>10 DEF StartValidation, Go, Save, RunState
<1>11. ASSUME NEW v \in {"passed", "failed", "infra"}, Validate(v) PROVE Asked'
  BY <1>11 DEF Validate, Go, Save, AddRound, Completed, RunState
<1>12. CASE RecordRound
  BY <1>12 DEF RecordRound, Go
<1>13. CASE DecideRound
  BY <1>13 DEF DecideRound, Save, Accepted, Completed, Final, Status, Verdict, RunState
<1>14. CASE StartEvaluation
  BY <1>14 DEF StartEvaluation, Go, Save, RunState
<1>15. ASSUME NEW r \in BOOLEAN, Evaluate(r) PROVE Asked'
  BY <1>15 DEF Evaluate, Go
<1>16. CASE ApplyEvaluation
  BY <1>16 DEF ApplyEvaluation, Evaluated, Save, Completed, Final, Status, RunState
<1> QED
  BY <1>1, <1>2, <1>3, <1>4, <1>5, <1>6, <1>7, <1>8, <1>9, <1>10, <1>11, <1>12,
     <1>13, <1>14, <1>15, <1>16

LEMMA AskedEnd ==
  ASSUME TypeInv, Placed, Undisturbed, Undisturbed', Ready, Asked,
         \/ AlreadyCompleted \/ NotFinal \/ CaptureChanges \/ WriteResult \/ Fault
         \/ FaultEscapes \/ Crash \/ Requested \/ SaveControl \/ RetryInfrastructure
         \/ RequestChanges
  PROVE  Asked'
<1> USE DEF Placed, Copies, Positions, Working, Judged, InTurn, Ready, Reviewed, Asked,
            files, aside
<1>0. disk \in RunState /\ mem \in RunState
  BY DEF TypeInv, TypeOK
<1> USE <1>0
<1>1. CASE AlreadyCompleted
  BY <1>1 DEF AlreadyCompleted, Go
<1>2. CASE NotFinal
  BY <1>2 DEF NotFinal, Fail, Save, Completed, RunState
<1>3. CASE CaptureChanges
  BY <1>3 DEF CaptureChanges, Go, Save, RunState
<1>4. CASE WriteResult
  BY <1>4 DEF WriteResult, Go
<1>5. CASE Fault
  BY <1>5 DEF Fault, Fail, Save, Completed, RunState
<1>6. CASE Crash
  <2>1. Len(thread') = Len(thread) /\ mem' = disk /\ pc' = "down"
    <3>1. thread \in Seq(CodexTurn)
      BY Shapes DEF RestOK
    <3> QED
      BY <1>6, <3>1 DEF Crash, EndTurn
  <2> QED
    BY <1>6, <2>1 DEF Crash
<1>7. CASE Requested
  BY <1>7, RequestedKeeps
<1>8. CASE SaveControl
  <2>1. /\ UNCHANGED <<pc, started, audit, result, thread, wt, checked, unanswered>>
        /\ mem' = IF pc = "down" THEN disk' ELSE mem
        /\ InQueue => disk' = Paused(disk) /\ outcome'.status = "paused"
        /\ ~InQueue => /\ outcome' = outcome
                       /\ \/ disk.status = "running" /\ disk' = Paused(disk)
                          \/ disk' = Completed(disk, "cancelled")
    BY <1>8, SavedControl DEF files, Undisturbed
  <2>2. disk' \in {Paused(disk), Completed(disk, "cancelled")}
    BY <2>1
  <2>3. /\ disk'.thread = disk.thread /\ disk'.failures = disk.failures
        /\ disk'.turns = disk.turns /\ disk'.cycleTurns = disk.cycleTurns
        /\ disk'.rounds = disk.rounds /\ disk'.verdict = disk.verdict
        /\ disk'.summary = disk.summary
        /\ \/ /\ disk'.status = "paused" /\ disk'.phase = disk.phase
              /\ disk'.kind = disk.kind /\ (InQueue \/ disk.status = "running")
           \/ /\ disk'.status = "cancelled" /\ disk'.kind = "none"
              /\ disk'.phase = "completed" /\ ~InQueue
    BY <2>1, <2>2, MarkedFields
  <2>4. CASE pc = "down"
    BY <2>1, <2>3, <2>4
  <2>5. CASE pc # "down"
    BY <2>1, <2>3, <2>5
  <2> QED
    BY <2>4, <2>5
<1>9. CASE FaultEscapes
  BY <1>9 DEF FaultEscapes
<1>10. CASE RetryInfrastructure
  BY <1>10, RetryDisturbs
<1>11. CASE RequestChanges
  BY <1>11 DEF RequestChanges, Save, ReopenedForReview, NoResult, RunState
<1> QED
  BY <1>1, <1>2, <1>3, <1>4, <1>5, <1>6, <1>7, <1>8, <1>9, <1>10, <1>11

(* Nobody has had the run worked on again after it was finished.           *)
Unreopened == Undisturbed /\ budget.reviews = MaxReviews

LEMMA ReviewReopens ==
  ASSUME TypeInv, Unreopened, RequestChanges
  PROVE  ~Unreopened'
<1>1. budget \in Budget
  BY Shapes DEF RestOK
<1> QED
  BY <1>1 DEF RequestChanges, Spend, Unreopened, Budget

(* The saved count of turns is the length of the App Server's history, or  *)
(* one ahead of it while the turn it stands for has not been taken; then   *)
(* the checkpoint says so, and no other prompt is saved after it.          *)
Level ==
  /\ \A i \in DOMAIN thread : thread[i].prompt = i
  /\ mem.turns = Len(thread) \/ mem.turns = Len(thread) + 1
  /\ mem.phase \notin {"codex_turn", "completed"} \/ ~mem.thread => mem.turns = Len(thread)
  /\ pc = "dispatch" => mem.turns = Len(thread) + 1
  /\ pc \in {"turn", "answered", "completed"} => mem.turns = Len(thread)

LEMMA EndTurnPrompts ==
  ASSUME thread \in Seq(CodexTurn), \A i \in DOMAIN thread : thread[i].prompt = i,
         NEW status, EndTurn(status)
  PROVE  Len(thread') = Len(thread) /\ \A i \in DOMAIN thread' : thread'[i].prompt = i
<1> DEFINE n == Len(thread)
<1>1. thread' = [thread EXCEPT ![n] = [thread[n] EXCEPT !.status = status]]
  BY DEF EndTurn
<1>2. DOMAIN thread' = DOMAIN thread /\ Len(thread') = n
  BY <1>1
<1>3. ASSUME NEW i \in DOMAIN thread PROVE thread'[i].prompt = i
  <2>1. thread[i] \in CodexTurn
    BY <1>3
  <2>2. CASE i = n
    <3>1. thread'[i] = [thread[i] EXCEPT !.status = status]
      BY <1>1, <2>2
    <3>2. thread'[i].prompt = thread[i].prompt
      BY <2>1, <3>1 DEF CodexTurn
    <3> QED
      BY <3>2
  <2>3. CASE i # n
    BY <1>1, <2>3
  <2> QED
    BY <2>2, <2>3
<1> QED
  BY <1>2, <1>3

LEMMA LevelSteps ==
  ASSUME TypeInv, Placed, Ready, Level,
         \/ StartThread \/ BeginPrompt \/ Resume \/ ResumeDiverged \/ ResumeFinal
         \/ ResumeThread \/ ApplyControl \/ ClearControl \/ NoControlRequest
         \/ RecoverRound \/ BeginInitial
  PROVE  Level'
<1> USE DEF Placed, Copies, Positions, Working, Judged, InTurn, Ready, Level, files, aside
<1>0. disk \in RunState /\ mem \in RunState
  BY DEF TypeInv, TypeOK
<1> USE <1>0
<1>1. CASE StartThread
  BY <1>1 DEF StartThread, Go, Save, RunState
<1>2. CASE BeginPrompt
  BY <1>2 DEF BeginPrompt, Go, Save, RunState
<1>3. CASE Resume
  BY <1>3 DEF Resume, Go, Save, Reopened, RunState
<1>4. CASE ResumeDiverged
  BY <1>4 DEF ResumeDiverged, Fail, Save, Completed, RunState
<1>5. CASE ResumeFinal
  BY <1>5 DEF ResumeFinal, RunState
<1>6. CASE ResumeThread
  BY <1>6 DEF ResumeThread, Go, Save, RunState
<1>7. CASE ApplyControl
  BY <1>7 DEF ApplyControl, Go, Save, Marked, Paused, Completed, RunState
<1>8. CASE ClearControl
  BY <1>8 DEF ClearControl, Go
<1>9. CASE NoControlRequest
  BY <1>9 DEF NoControlRequest, Go
<1>10. CASE RecoverRound
  <2>1. PICK next : /\ \/ next = mem
                       \/ next = Accepted(mem) /\ mem.phase = "validating"
                       \/ next = Completed(mem, "manual_review")
                    /\ mem' = next
                    /\ pc' = IF next.status \in Final THEN "finish" ELSE "phase"
                    /\ thread' = thread
    BY <1>10 DEF RecoverRound, Save
  <2>2. pc = "recover" /\ mem.status = "running" /\ mem.thread
    BY <1>10 DEF RecoverRound
  <2>3. CASE next = mem
    BY <2>1, <2>2, <2>3 DEF Final
  <2>4. CASE next = Accepted(mem) /\ mem.phase = "validating"
    <3>1. next.turns = mem.turns
      BY <2>4, EditTurns
    <3>2. pc' \notin InTurn
      BY <2>1
    <3> QED
      BY <2>1, <2>4, <3>1, <3>2
  <2>5. CASE next = Completed(mem, "manual_review")
    BY <2>1, <2>2, <2>5 DEF Completed, RunState, Final, Status
  <2> QED
    BY <2>1, <2>3, <2>4, <2>5
<1>11. CASE BeginInitial
  BY <1>11 DEF BeginInitial, Go, Save, RunState
<1> QED
  BY <1>1, <1>2, <1>3, <1>4, <1>5, <1>6, <1>7, <1>8, <1>9, <1>10, <1>11

LEMMA LevelWork ==
  ASSUME TypeInv, Placed, Ready, Level,
         \/ TurnLimit \/ WritePrompt \/ SaveTurn \/ AcceptTurn \/ FinishTurn \/ TurnFails
         \/ RecoverTurn \/ RecordTurn \/ SaveTurnCompleted \/ StartValidation
         \/ (\E v \in {"passed", "failed", "infra"} : Validate(v)) \/ RecordRound
         \/ DecideRound \/ StartEvaluation \/ (\E r \in BOOLEAN : Evaluate(r))
         \/ ApplyEvaluation
  PROVE  Level'
<1> USE DEF Placed, Copies, Positions, Working, Judged, InTurn, Ready, Level, files, aside
<1>0. disk \in RunState /\ mem \in RunState
  BY DEF TypeInv, TypeOK
<1> USE <1>0
<1>1. CASE TurnLimit
  BY <1>1 DEF TurnLimit, Go, Save, Completed, RunState
<1>2. CASE WritePrompt
  BY <1>2 DEF WritePrompt, Go
<1>3. CASE SaveTurn
  <2>1. mem.turns \in Nat /\ Len(thread) \in Nat
    BY Shapes DEF RestOK
  <2> QED
    BY <1>3, <2>1 DEF SaveTurn, Go, Save, RunState
<1>4. CASE AcceptTurn
  <2>1. thread \in Seq(CodexTurn) /\ mem.turns = Len(thread) + 1
    BY <1>4, Shapes DEF AcceptTurn, Go, RestOK
  <2>2. thread' = Append(thread, [prompt |-> mem.turns, status |-> "running", cycle |-> Cycle])
    BY <1>4 DEF AcceptTurn
  <2>3. Len(thread') = Len(thread) + 1 /\ \A i \in DOMAIN thread' : thread'[i].prompt = i
    <3>1. thread' \in Seq(CodexTurn \cup {[prompt |-> mem.turns, status |-> "running", cycle |-> Cycle]})
      BY <2>1, <2>2
    <3>2. Len(thread') = Len(thread) + 1 /\ DOMAIN thread' = 1 .. (Len(thread) + 1)
      BY <2>1, <2>2, <3>1
    <3>3. ASSUME NEW i \in 1 .. (Len(thread) + 1) PROVE thread'[i].prompt = i
      <4>1. CASE i = Len(thread) + 1
        BY <2>1, <2>2, <4>1
      <4>2. CASE i # Len(thread) + 1
        <5>1. i \in DOMAIN thread /\ thread'[i] = thread[i]
          BY <2>1, <2>2, <4>2
        <5> QED
          BY <5>1
      <4> QED
        BY <4>1, <4>2
    <3> QED
      BY <3>2, <3>3
  <2> QED
    BY <1>4, <2>1, <2>3 DEF AcceptTurn, Go
<1>5. CASE FinishTurn
  <2>1. thread \in Seq(CodexTurn)
    BY Shapes DEF RestOK
  <2>2. EndTurn("completed")
    BY <1>5 DEF FinishTurn
  <2>3. Len(thread') = Len(thread) /\ \A i \in DOMAIN thread' : thread'[i].prompt = i
    BY <2>1, <2>2, EndTurnPrompts
  <2> QED
    BY <1>5, <2>3 DEF FinishTurn, Go
<1>6. CASE TurnFails
  <2>1. thread \in Seq(CodexTurn)
    BY Shapes DEF RestOK
  <2>2. EndTurn("failed")
    BY <1>6 DEF TurnFails
  <2>3. Len(thread') = Len(thread) /\ \A i \in DOMAIN thread' : thread'[i].prompt = i
    BY <2>1, <2>2, EndTurnPrompts
  <2> QED
    BY <1>6, <2>3 DEF TurnFails, Fail, Save, Completed, RunState
<1>7. CASE RecoverTurn
  <2>0. mem.turns \in Nat /\ Len(thread) \in Nat
    BY Shapes DEF RestOK
  <2>1. CASE Fail
    BY <1>7, <2>1 DEF RecoverTurn, Fail, Save, Completed, RunState
  <2>2. CASE TurnNeverTaken /\ pc' = "dispatch" /\ UNCHANGED <<mem, disk>>
    BY <1>7, <2>0, <2>2 DEF RecoverTurn, TurnNeverTaken
  <2>3. CASE TurnAnswered /\ pc' = "answered" /\ UNCHANGED <<mem, disk>>
    BY <1>7, <2>0, <2>3 DEF RecoverTurn, TurnAnswered
  <2> QED
    BY <1>7, <2>1, <2>2, <2>3 DEF RecoverTurn
<1>8. CASE RecordTurn
  BY <1>8 DEF RecordTurn, Go
<1>9. CASE SaveTurnCompleted
  BY <1>9 DEF SaveTurnCompleted, Go, Save, RunState
<1>10. CASE StartValidation
  BY <1>10 DEF StartValidation, Go, Save, RunState
<1>11. ASSUME NEW v \in {"passed", "failed", "infra"}, Validate(v) PROVE Level'
  BY <1>11 DEF Validate, Go, Save, AddRound, Completed, RunState
<1>12. CASE RecordRound
  BY <1>12 DEF RecordRound, Go
<1>13. CASE DecideRound
  BY <1>13 DEF DecideRound, Save, Accepted, Completed, Final, Status, Verdict, RunState
<1>14. CASE StartEvaluation
  BY <1>14 DEF StartEvaluation, Go, Save, RunState
<1>15. ASSUME NEW r \in BOOLEAN, Evaluate(r) PROVE Level'
  BY <1>15 DEF Evaluate, Go
<1>16. CASE ApplyEvaluation
  BY <1>16 DEF ApplyEvaluation, Evaluated, Save, Completed, Final, Status, RunState
<1> QED
  BY <1>1, <1>2, <1>3, <1>4, <1>5, <1>6, <1>7, <1>8, <1>9, <1>10, <1>11, <1>12,
     <1>13, <1>14, <1>15, <1>16

LEMMA LevelEnd ==
  ASSUME TypeInv, Placed, Unreopened, Unreopened', Ready, Level,
         \/ AlreadyCompleted \/ NotFinal \/ CaptureChanges \/ WriteResult \/ Fault
         \/ FaultEscapes \/ Crash \/ Requested \/ SaveControl \/ RetryInfrastructure
         \/ RequestChanges
  PROVE  Level'
<1> USE DEF Placed, Copies, Positions, Working, Judged, InTurn, Ready, Unreopened,
            Undisturbed, Level, files, aside
<1>0. disk \in RunState /\ mem \in RunState
  BY DEF TypeInv, TypeOK
<1> USE <1>0
<1>1. CASE AlreadyCompleted
  BY <1>1 DEF AlreadyCompleted, Go
<1>2. CASE NotFinal
  BY <1>2 DEF NotFinal, Fail, Save, Completed, RunState
<1>3. CASE CaptureChanges
  BY <1>3 DEF CaptureChanges, Go, Save, RunState
<1>4. CASE WriteResult
  BY <1>4 DEF WriteResult, Go
<1>5. CASE Fault
  BY <1>5 DEF Fault, Fail, Save, Completed, RunState
<1>6. CASE Crash
  <2>1. mem' = disk /\ pc' = "down" /\ disk.turns = mem.turns
    BY <1>6 DEF Crash
  <2>2. Len(thread') = Len(thread) /\ \A i \in DOMAIN thread' : thread'[i].prompt = i
    <3>1. thread \in Seq(CodexTurn)
      BY Shapes DEF RestOK
    <3>2. CASE pc = "turn"
      <4>1. \/ EndTurn("completed")
            \/ EndTurn("failed")
        BY <1>6, <3>2 DEF Crash
      <4> QED
        BY <3>1, <4>1, EndTurnPrompts
    <3>3. CASE pc # "turn"
      BY <1>6, <3>3 DEF Crash
    <3> QED
      BY <3>2, <3>3
  <2> QED
    BY <2>1, <2>2
<1>7. CASE Requested
  BY <1>7, RequestedKeeps
<1>8. CASE SaveControl
  <2>1. /\ UNCHANGED <<pc, started, audit, result, thread, wt, checked, unanswered>>
        /\ mem' = IF pc = "down" THEN disk' ELSE mem
        /\ InQueue => disk' = Paused(disk) /\ outcome'.status = "paused"
        /\ ~InQueue => /\ outcome' = outcome
                       /\ \/ disk.status = "running" /\ disk' = Paused(disk)
                          \/ disk' = Completed(disk, "cancelled")
    BY <1>8, SavedControl DEF files
  <2>2. disk' \in {Paused(disk), Completed(disk, "cancelled")}
    BY <2>1
  <2>3. /\ disk'.thread = disk.thread /\ disk'.failures = disk.failures
        /\ disk'.turns = disk.turns /\ disk'.cycleTurns = disk.cycleTurns
        /\ disk'.rounds = disk.rounds /\ disk'.verdict = disk.verdict
        /\ disk'.summary = disk.summary
        /\ \/ /\ disk'.status = "paused" /\ disk'.phase = disk.phase
              /\ disk'.kind = disk.kind /\ (InQueue \/ disk.status = "running")
           \/ /\ disk'.status = "cancelled" /\ disk'.kind = "none"
              /\ disk'.phase = "completed" /\ ~InQueue
    BY <2>1, <2>2, MarkedFields
  <2>4. CASE pc = "down"
    BY <2>1, <2>3, <2>4
  <2>5. CASE pc # "down"
    BY <2>1, <2>3, <2>5
  <2> QED
    BY <2>4, <2>5
<1>9. CASE FaultEscapes
  BY <1>9 DEF FaultEscapes
<1>10. CASE RetryInfrastructure
  BY <1>10, RetryDisturbs
<1>11. CASE RequestChanges
  BY <1>11, ReviewReopens
<1> QED
  BY <1>1, <1>2, <1>3, <1>4, <1>5, <1>6, <1>7, <1>8, <1>9, <1>10, <1>11

(* The timeline of a run: all turns but the last are on it as completed,   *)
(* and the last one too once its work goes on to validation; all rounds    *)
(* but the last, and the last one once the loop has looked at it.          *)
TurnsTold(n)  == \A i \in 1 .. n : <<"turn.completed", i>> \in audit
RoundsTold(n) == \A i \in 1 .. n : <<"validation.completed", i>> \in audit
Settled == Looked \cup {"decide", "evaluate", "evaluated"}

Told ==
  /\ TurnsTold(mem.turns - 1) /\ RoundsTold(mem.rounds - 1)
  /\ (mem.phase \notin {"codex_turn", "completed"} \/ mem.status = "success"
        \/ pc = "completed") => TurnsTold(mem.turns)
  /\ pc \in Settled \/ mem.status = "success" => RoundsTold(mem.rounds)
  /\ ~mem.thread => mem.turns = 0

(* What is on the timeline stays there. *)
LEMMA ToldGrows ==
  ASSUME NEW n \in Int, audit \subseteq audit'
  PROVE  /\ TurnsTold(n) => TurnsTold(n)'
         /\ RoundsTold(n) => RoundsTold(n)'
  BY DEF TurnsTold, RoundsTold

LEMMA ToldNext ==
  ASSUME NEW n \in Nat
  PROVE  /\ TurnsTold(n - 1) /\ (n = 0 \/ <<"turn.completed", n>> \in audit) => TurnsTold(n)
         /\ RoundsTold(n - 1) /\ (n = 0 \/ <<"validation.completed", n>> \in audit)
              => RoundsTold(n)
         /\ TurnsTold(n) => TurnsTold(n - 1) /\ TurnsTold(n + 1 - 1)
         /\ RoundsTold(n) => RoundsTold(n - 1) /\ RoundsTold(n + 1 - 1)
<1>1. \A i \in 1 .. n : i \in 1 .. (n - 1) \/ i = n
  OBVIOUS
<1>2. \A i \in 1 .. (n - 1) : i \in 1 .. n
  OBVIOUS
<1>3. n + 1 - 1 = n /\ (n = 0 => 1 .. n = {})
  OBVIOUS
<1>4. TurnsTold(n - 1) /\ (n = 0 \/ <<"turn.completed", n>> \in audit) => TurnsTold(n)
  BY <1>1, <1>3, Zenon DEF TurnsTold
<1>5. RoundsTold(n - 1) /\ (n = 0 \/ <<"validation.completed", n>> \in audit)
        => RoundsTold(n)
  BY <1>1, <1>3, Zenon DEF RoundsTold
<1>6. TurnsTold(n) => TurnsTold(n - 1) /\ TurnsTold(n + 1 - 1)
  BY <1>2, <1>3, Zenon DEF TurnsTold
<1>7. RoundsTold(n) => RoundsTold(n - 1) /\ RoundsTold(n + 1 - 1)
  BY <1>2, <1>3, Zenon DEF RoundsTold
<1> QED
  BY <1>4, <1>5, <1>6, <1>7

LEMMA ToldMoves ==
  ASSUME TypeInv, audit \subseteq audit', mem'.turns = mem.turns, mem'.rounds = mem.rounds
  PROVE  /\ TurnsTold(mem.turns - 1) => TurnsTold(mem.turns - 1)'
         /\ TurnsTold(mem.turns) => TurnsTold(mem.turns)'
         /\ RoundsTold(mem.rounds - 1) => RoundsTold(mem.rounds - 1)'
         /\ RoundsTold(mem.rounds) => RoundsTold(mem.rounds)'
  BY DEF TurnsTold, RoundsTold

LEMMA ToldSteps ==
  ASSUME TypeInv, Placed, Ready, Told,
         \/ StartThread \/ BeginPrompt \/ Resume \/ ResumeDiverged \/ ResumeFinal
         \/ ResumeThread \/ ApplyControl \/ ClearControl \/ NoControlRequest
         \/ RecoverRound \/ BeginInitial
  PROVE  Told'
<1> USE DEF Placed, Copies, Positions, Working, Judged, InTurn, Ready, Reviewed, Told,
            TurnsTold, RoundsTold, Looked, Settled, files, aside
<1>0. disk \in RunState /\ mem \in RunState
  BY DEF TypeInv, TypeOK
<1> USE <1>0
<1>1. CASE StartThread
  BY <1>1 DEF StartThread, Go, Save, RunState
<1>2. CASE BeginPrompt
  BY <1>2 DEF BeginPrompt, Go, Save, RunState
<1>3. CASE Resume
  BY <1>3 DEF Resume, Go, Save, Reopened, RunState
<1>4. CASE ResumeDiverged
  BY <1>4 DEF ResumeDiverged, Fail, Save, Completed, RunState
<1>5. CASE ResumeFinal
  BY <1>5 DEF ResumeFinal, RunState
<1>6. CASE ResumeThread
  BY <1>6 DEF ResumeThread, Go, Save, RunState
<1>7. CASE ApplyControl
  BY <1>7 DEF ApplyControl, Go, Save, Marked, Paused, Completed, RunState
<1>8. CASE ClearControl
  BY <1>8 DEF ClearControl, Go
<1>9. CASE NoControlRequest
  BY <1>9 DEF NoControlRequest, Go
<1>10. CASE RecoverRound
  <2>0. mem.rounds \in Nat
    BY Shapes
  <2>1. PICK next : /\ \/ next = mem
                       \/ next = Accepted(mem) /\ mem.phase = "validating"
                       \/ next = Completed(mem, "manual_review")
                    /\ mem' = next
                    /\ pc' = IF next.status \in Final THEN "finish" ELSE "phase"
    BY <1>10 DEF RecoverRound, Save
  <2>2. pc = "recover" /\ mem.status = "running" /\ mem.thread
    BY <1>10 DEF RecoverRound
  <2>3. /\ next.turns = mem.turns /\ next.rounds = mem.rounds /\ next.thread = mem.thread
        /\ \/ next = mem
           \/ mem.phase = "validating"
           \/ next.phase = "completed" /\ next.status = "manual_review"
    <3>1. CASE next = mem
      BY <3>1
    <3>2. CASE next = Accepted(mem) /\ mem.phase = "validating"
      <4>1. CASE HasEvaluator
        <5>1. next = [mem EXCEPT !.phase = "evaluation_pending", !.kind = "none"]
          BY <3>2, <4>1, Zenon DEF Accepted
        <5>2. next.turns = mem.turns /\ next.rounds = mem.rounds /\ next.thread = mem.thread
          BY <5>1 DEF RunState
        <5> QED
          BY <3>2, <5>2, Zenon
      <4>2. CASE ~HasEvaluator
        <5>1. next = [mem EXCEPT !.status = "success", !.phase = "completed", !.kind = "none"]
          BY <3>2, <4>2, Zenon DEF Accepted, Completed
        <5>2. next.turns = mem.turns /\ next.rounds = mem.rounds /\ next.thread = mem.thread
          BY <5>1 DEF RunState
        <5> QED
          BY <3>2, <5>2, Zenon
      <4> QED
        BY <4>1, <4>2
    <3>3. CASE next = Completed(mem, "manual_review")
      BY <3>3 DEF Completed, RunState
    <3> QED
      BY <2>1, <3>1, <3>2, <3>3
  <2>4. audit \subseteq audit' /\ RoundsTold(mem.rounds)'
    <3>1. audit' = IF mem.rounds = 0 THEN audit
                   ELSE audit \cup {<<"validation.completed", mem.rounds>>}
      BY <1>10 DEF RecoverRound
    <3>2. \A i \in 1 .. mem.rounds : i \in 1 .. (mem.rounds - 1) \/ i = mem.rounds
      BY <2>0
    <3>3. mem'.rounds = mem.rounds
      BY <2>1, <2>3
    <3> QED
      BY <2>0, <3>1, <3>2, <3>3
  <2>5. mem'.turns = mem.turns /\ mem'.rounds = mem.rounds /\ mem'.thread = mem.thread
    BY <2>1, <2>3
  <2>6. TurnsTold(mem.turns - 1)' /\ RoundsTold(mem.rounds - 1)'
    BY <2>4, <2>5, ToldMoves
  <2>7. pc' \in {"finish", "phase"}
    BY <2>1
  <2> HIDE DEF TurnsTold, RoundsTold
  <2> QED
    BY <2>1, <2>2, <2>3, <2>4, <2>5, <2>6, <2>7, ToldMoves
<1>11. CASE BeginInitial
  BY <1>11 DEF BeginInitial, Go, Save, RunState
<1> QED
  BY <1>1, <1>2, <1>3, <1>4, <1>5, <1>6, <1>7, <1>8, <1>9, <1>10, <1>11

LEMMA ToldWork ==
  ASSUME TypeInv, Placed, Ready, Told,
         \/ TurnLimit \/ WritePrompt \/ SaveTurn \/ AcceptTurn \/ FinishTurn \/ TurnFails
         \/ RecoverTurn \/ RecordTurn \/ SaveTurnCompleted \/ StartValidation
         \/ (\E v \in {"passed", "failed", "infra"} : Validate(v)) \/ RecordRound
         \/ DecideRound \/ StartEvaluation \/ (\E r \in BOOLEAN : Evaluate(r))
         \/ ApplyEvaluation
  PROVE  Told'
<1> USE DEF Placed, Copies, Positions, Working, Judged, InTurn, Ready, Reviewed, Told,
            TurnsTold, RoundsTold, Looked, Settled, files, aside
<1>0. disk \in RunState /\ mem \in RunState
  BY DEF TypeInv, TypeOK
<1> USE <1>0
<1>1. CASE TurnLimit
  <2>1. audit \subseteq audit'
    BY <1>1 DEF TurnLimit, NoteRetry
  <2>2. mem'.turns = mem.turns /\ mem'.rounds = mem.rounds /\ mem'.thread = mem.thread
    BY <1>1 DEF TurnLimit, Go, Save, Completed, RunState
  <2>3. TurnsTold(mem.turns - 1)' /\ RoundsTold(mem.rounds - 1)'
    BY <2>1, <2>2, ToldMoves DEF Told
  <2> HIDE DEF TurnsTold, RoundsTold
  <2> QED
    BY <1>1, <2>1, <2>2, <2>3, ToldMoves DEF TurnLimit, Go, Save, Completed, RunState
<1>2. CASE WritePrompt
  <2>1. audit \subseteq audit'
    BY <1>2 DEF WritePrompt, NoteRetry
  <2>2. mem'.turns = mem.turns /\ mem'.rounds = mem.rounds /\ mem'.thread = mem.thread
    BY <1>2 DEF WritePrompt, Go
  <2>3. TurnsTold(mem.turns - 1)' /\ RoundsTold(mem.rounds - 1)'
    BY <2>1, <2>2, ToldMoves DEF Told
  <2> HIDE DEF TurnsTold, RoundsTold
  <2> QED
    BY <1>2, <2>1, <2>2, <2>3, ToldMoves DEF WritePrompt, Go
<1>3. CASE SaveTurn
  <2>1. mem.turns \in Nat
    BY Shapes
  <2>2. TurnsTold(mem.turns)
    BY <1>3 DEF SaveTurn, Go
  <2>3. /\ mem'.turns = mem.turns + 1 /\ mem'.rounds = mem.rounds /\ mem'.thread
        /\ mem'.phase = "codex_turn" /\ mem'.status = "running"
        /\ pc = "started" /\ pc' = "dispatch" /\ audit' = audit
    BY <1>3 DEF SaveTurn, Go, Save, RunState
  <2>4. TurnsTold(mem.turns - 1)'
    <3>1. mem'.turns - 1 = mem.turns
      BY <2>1, <2>3
    <3>2. \A i \in 1 .. mem.turns : <<"turn.completed", i>> \in audit'
      BY <2>2, <2>3
    <3> QED
      BY <3>1, <3>2, Zenon
  <2> QED
    BY <2>3, <2>4
<1>4. CASE AcceptTurn
  BY <1>4 DEF AcceptTurn, Go
<1>5. CASE FinishTurn
  BY <1>5 DEF FinishTurn, Go
<1>6. CASE TurnFails
  BY <1>6 DEF TurnFails, Fail, Save, Completed, RunState
<1>7. CASE RecoverTurn
  <2>1. CASE Fail
    BY <1>7, <2>1 DEF RecoverTurn, Fail, Save, Completed, RunState
  <2>2. CASE pc = "phase" /\ pc' \in {"dispatch", "answered"} /\ UNCHANGED <<mem, disk>>
    BY <1>7, <2>2 DEF RecoverTurn
  <2> QED
    BY <1>7, <2>1, <2>2 DEF RecoverTurn
<1>8. CASE RecordTurn
  <2>1. mem.turns \in Nat
    BY Shapes
  <2>2. audit' = audit \cup {<<"turn.completed", mem.turns>>} /\ mem' = mem
        /\ pc = "answered" /\ pc' = "completed"
    BY <1>8 DEF RecordTurn, Go
  <2>3. TurnsTold(mem.turns)'
    <3>1. \A i \in 1 .. mem.turns : i \in 1 .. (mem.turns - 1) \/ i = mem.turns
      BY <2>1
    <3> QED
      BY <2>2, <3>1
  <2>4. audit \subseteq audit' /\ mem'.turns = mem.turns /\ mem'.rounds = mem.rounds
    BY <2>2
  <2>5. TurnsTold(mem.turns - 1)' /\ RoundsTold(mem.rounds - 1)'
    BY <2>4, ToldMoves
  <2> HIDE DEF TurnsTold, RoundsTold
  <2> QED
    BY <2>2, <2>3, <2>4, <2>5, ToldMoves
<1>9. CASE SaveTurnCompleted
  BY <1>9 DEF SaveTurnCompleted, Go, Save, RunState
<1>10. CASE StartValidation
  BY <1>10 DEF StartValidation, Go, Save, RunState
<1>11. ASSUME NEW v \in {"passed", "failed", "infra"}, Validate(v) PROVE Told'
  BY <1>11 DEF Validate, Go, Save, AddRound, Completed, RunState
<1>12. CASE RecordRound
  <2>1. mem.rounds \in Nat
    BY Shapes
  <2>2. audit' = audit \cup {<<"validation.completed", mem.rounds>>} /\ mem' = mem
        /\ pc = "recorded" /\ pc' = "decide"
    BY <1>12 DEF RecordRound, Go
  <2>3. RoundsTold(mem.rounds)'
    <3>1. \A i \in 1 .. mem.rounds : i \in 1 .. (mem.rounds - 1) \/ i = mem.rounds
      BY <2>1
    <3> QED
      BY <2>2, <3>1
  <2>4. audit \subseteq audit' /\ mem'.turns = mem.turns /\ mem'.rounds = mem.rounds
    BY <2>2
  <2>5. TurnsTold(mem.turns - 1)' /\ RoundsTold(mem.rounds - 1)'
    BY <2>4, ToldMoves
  <2> HIDE DEF TurnsTold, RoundsTold
  <2> QED
    BY <2>2, <2>3, <2>4, <2>5, ToldMoves
<1>13. CASE DecideRound
  <2>1. audit \subseteq audit'
    BY <1>13 DEF DecideRound
  <2>2. /\ mem'.turns = mem.turns /\ mem'.rounds = mem.rounds /\ mem'.thread = mem.thread
        /\ pc = "decide" /\ pc' \in {"finish", "drive"} /\ mem.thread
        /\ mem.verdict \in Verdict
    BY <1>13 DEF DecideRound, Save, Accepted, Completed, RunState
  <2>3. TurnsTold(mem.turns - 1)' /\ RoundsTold(mem.rounds - 1)'
    BY <2>1, <2>2, ToldMoves
  <2> HIDE DEF TurnsTold, RoundsTold
  <2>4. \/ mem.phase \in {"validating", "prompt_pending"}
        \/ mem'.status = "infrastructure_error" /\ mem'.phase = "completed"
    <3>1. CASE mem.verdict \in {"passed", "failed"}
      BY <2>2, <3>1
    <3>2. CASE mem.verdict \in {"none", "infra"}
      <4>1. mem' = Completed(mem, "infrastructure_error")
        BY <1>13, <3>2 DEF DecideRound, Save
      <4> QED
        BY <4>1 DEF Completed, RunState
    <3> QED
      BY <2>2, <3>1, <3>2 DEF Verdict
  <2> QED
    BY <2>1, <2>2, <2>3, <2>4, ToldMoves
<1>14. CASE StartEvaluation
  BY <1>14 DEF StartEvaluation, Go, Save, RunState
<1>15. ASSUME NEW r \in BOOLEAN, Evaluate(r) PROVE Told'
  BY <1>15 DEF Evaluate, Go
<1>16. CASE ApplyEvaluation
  <2>1. audit \subseteq audit'
    BY <1>16 DEF ApplyEvaluation
  <2>2. /\ mem'.turns = mem.turns /\ mem'.rounds = mem.rounds /\ mem'.thread = mem.thread
        /\ pc = "evaluated" /\ pc' \in {"finish", "drive"} /\ mem.thread
        /\ mem.phase = "evaluating"
    BY <1>16 DEF ApplyEvaluation, Evaluated, Save, Completed, RunState
  <2>3. TurnsTold(mem.turns - 1)' /\ RoundsTold(mem.rounds - 1)'
    BY <2>1, <2>2, ToldMoves
  <2> HIDE DEF TurnsTold, RoundsTold
  <2> QED
    BY <2>1, <2>2, <2>3, ToldMoves
<1> QED
  BY <1>1, <1>2, <1>3, <1>4, <1>5, <1>6, <1>7, <1>8, <1>9, <1>10, <1>11, <1>12,
     <1>13, <1>14, <1>15, <1>16

LEMMA ToldEnd ==
  ASSUME TypeInv, Placed, Unreopened, Unreopened', Ready, Told,
         \/ AlreadyCompleted \/ NotFinal \/ CaptureChanges \/ WriteResult \/ Fault
         \/ FaultEscapes \/ Crash \/ Requested \/ SaveControl \/ RetryInfrastructure
         \/ RequestChanges
  PROVE  Told'
<1> USE DEF Placed, Copies, Positions, Working, Judged, InTurn, Ready, Unreopened,
            Undisturbed, Reviewed, Told, TurnsTold, RoundsTold, Looked, Settled, files, aside
<1>0. disk \in RunState /\ mem \in RunState
  BY DEF TypeInv, TypeOK
<1> USE <1>0
<1>1. CASE AlreadyCompleted
  BY <1>1 DEF AlreadyCompleted, Go
<1>2. CASE NotFinal
  BY <1>2 DEF NotFinal, Fail, Save, Completed, RunState
<1>3. CASE CaptureChanges
  BY <1>3 DEF CaptureChanges, Go, Save, RunState
<1>4. CASE WriteResult
  BY <1>4 DEF WriteResult, Go
<1>5. CASE Fault
  BY <1>5 DEF Fault, Fail, Save, Completed, RunState
<1>6. CASE Crash
  BY <1>6 DEF Crash, EndTurn
<1>7. CASE Requested
  BY <1>7, RequestedKeeps
<1>8. CASE SaveControl
  <2>1. /\ UNCHANGED <<pc, started, audit, result, thread, wt, checked, unanswered>>
        /\ mem' = IF pc = "down" THEN disk' ELSE mem
        /\ InQueue => disk' = Paused(disk) /\ outcome'.status = "paused"
        /\ ~InQueue => /\ outcome' = outcome
                       /\ \/ disk.status = "running" /\ disk' = Paused(disk)
                          \/ disk' = Completed(disk, "cancelled")
    BY <1>8, SavedControl DEF files
  <2>2. disk' \in {Paused(disk), Completed(disk, "cancelled")}
    BY <2>1
  <2>3. /\ disk'.thread = disk.thread /\ disk'.failures = disk.failures
        /\ disk'.turns = disk.turns /\ disk'.cycleTurns = disk.cycleTurns
        /\ disk'.rounds = disk.rounds /\ disk'.verdict = disk.verdict
        /\ disk'.summary = disk.summary
        /\ \/ /\ disk'.status = "paused" /\ disk'.phase = disk.phase
              /\ disk'.kind = disk.kind /\ (InQueue \/ disk.status = "running")
           \/ /\ disk'.status = "cancelled" /\ disk'.kind = "none"
              /\ disk'.phase = "completed" /\ ~InQueue
    BY <2>1, <2>2, MarkedFields
  <2>4. CASE pc = "down"
    BY <2>1, <2>3, <2>4
  <2>5. CASE pc # "down"
    BY <2>1, <2>3, <2>5
  <2> QED
    BY <2>4, <2>5
<1>9. CASE FaultEscapes
  BY <1>9 DEF FaultEscapes
<1>10. CASE RetryInfrastructure
  BY <1>10, RetryDisturbs
<1>11. CASE RequestChanges
  BY <1>11, ReviewReopens
<1> QED
  BY <1>1, <1>2, <1>3, <1>4, <1>5, <1>6, <1>7, <1>8, <1>9, <1>10, <1>11

-----------------------------------------------------------------------------
(* The theorems those invariants carry.  Nothing ever raises a bound.      *)
LEMMA BudgetStep ==
  ASSUME TypeInv, [Next]_vars
  PROVE  \/ UNCHANGED budget
         \/ \E w \in {"crashes", "faults", "controls", "retries", "reviews"} : Spend(w)
<1>1. CASE UNCHANGED vars
  BY <1>1 DEF vars
<1>2. CASE Drive
  BY <1>2 DEF Drive, Turn, Check, StartThread, BeginPrompt, ResumeDiverged, ResumeFinal,
     ResumeThread, ApplyControl, ClearControl, NoControlRequest, RecoverRound, BeginInitial,
     TurnLimit, WritePrompt, SaveTurn, AcceptTurn, FinishTurn, RecoverTurn, RecordTurn,
     SaveTurnCompleted, StartValidation, Validate, RecordRound, DecideRound,
     StartEvaluation, Evaluate, ApplyEvaluation, AlreadyCompleted, NotFinal,
     CaptureChanges, WriteResult
<1>3. CASE Resume
  BY <1>3 DEF Resume
<1>4. CASE Environment
  BY <1>4 DEF Environment, Fault, FaultEscapes, TurnFails, Validate, Crash, LoadForControl,
     RequestQueueControl, FindActive, FindInactive, SaveControl, RetryInfrastructure,
     RequestChanges
<1> QED
  BY <1>1, <1>2, <1>3, <1>4 DEF Next

Bounded == budget.retries <= MaxRetries /\ budget.reviews <= MaxReviews

LEMMA BudgetKeeps ==
  ASSUME TypeInv, Bounded, [Next]_vars
  PROVE  /\ Bounded'
         /\ Undisturbed' => Undisturbed
         /\ Unreopened' => Unreopened
<1>1. budget \in Budget /\ MaxRetries \in Nat /\ MaxReviews \in Nat
  BY Shapes, BoundAssumption DEF RestOK
<1>2. \/ UNCHANGED budget
      \/ \E w \in {"crashes", "faults", "controls", "retries", "reviews"} : Spend(w)
  BY BudgetStep
<1>3. ASSUME NEW f \in {"retries", "reviews"}
      PROVE  budget[f] \in Nat /\ budget'[f] \in {budget[f], budget[f] - 1}
  BY <1>1, <1>2 DEF Spend, Budget
<1>4. /\ budget.retries \in Nat /\ budget'.retries \in {budget.retries, budget.retries - 1}
      /\ budget.reviews \in Nat /\ budget'.reviews \in {budget.reviews, budget.reviews - 1}
  BY <1>3
<1>5. Bounded'
  BY <1>1, <1>4 DEF Bounded
<1>6. ASSUME Undisturbed' PROVE Undisturbed
  BY <1>1, <1>4, <1>6, OverwrittenStays DEF Bounded, Undisturbed, Unretried
<1>7. ASSUME Unreopened' PROVE Unreopened
  BY <1>1, <1>4, <1>6, <1>7 DEF Bounded, Unreopened
<1> QED
  BY <1>5, <1>6, <1>7

(* The initial state satisfies all of them. *)
LEMMA PathInit ==
  ASSUME Init
  PROVE  Bounded /\ Placed /\ Ready /\ Rejected /\ Asked /\ Level /\ Told
<1> USE DEF Init, InitialState
<1>0. Bounded
  BY BoundAssumption DEF Bounded
<1>1. Placed
  BY DEF Placed, Copies, Positions, Working, Judged, InTurn
<1>2. Ready
  BY DEF Ready, Looked, InTurn, Reviewed, NoResult
<1>3. Rejected
  BY DEF Rejected, MAX_VALIDATION_FAILURES
<1>4. Asked
  BY DEF Asked
<1>5. Level
  BY DEF Level
<1>6. Told
  BY DEF Told, TurnsTold, RoundsTold, Settled, Looked, InTurn
<1> QED
  BY <1>0, <1>1, <1>2, <1>3, <1>4, <1>5, <1>6

(* Where a run stands whose checkpoints nobody has mixed up, and what it   *)
(* has to go on with as long as nobody retries it.                         *)
Path ==
  /\ TypeInv /\ Bounded
  /\ ~overwritten => Placed
  /\ Undisturbed  => Ready

LEMMA PathKeeps ==
  ASSUME Path, [Next]_vars
  PROVE  Path'
<1>1. TypeInv /\ Bounded
  BY DEF Path
<1>2. TypeInv' /\ Bounded'
  BY <1>1, TypeInvStep, BudgetKeeps
<1>3. ASSUME ~overwritten' PROVE Placed'
  BY <1>1, <1>3, PlacedKeeps, OverwrittenStays DEF Path
<1>4. ASSUME Undisturbed' PROVE Ready'
  <2>1. Undisturbed /\ Placed /\ Ready
    BY <1>1, <1>4, BudgetKeeps DEF Path, Undisturbed
  <2>2. CASE UNCHANGED vars
    BY <2>1, <2>2 DEF vars, Ready, Looked, Reviewed
  <2>3. CASE Next
    BY <1>1, <1>4, <2>1, <2>3, ReadySteps, ReadyWork, ReadyEnd
       DEF Next, Drive, Turn, Check, Environment, Requested
  <2> QED
    BY <2>2, <2>3
<1> QED
  BY <1>2, <1>3, <1>4 DEF Path

LEMMA RunPath == Spec => []Path
<1>1. Init => Path
  BY InitTypeInv, PathInit DEF Path
<1>2. Path /\ [Next]_vars => Path'
  BY PathKeeps
<1> QED
  BY <1>1, <1>2, PTL DEF Spec

LEMMA RejectedKeeps ==
  ASSUME Path, ~HasEvaluator, Undisturbed => Rejected, [Next]_vars, Undisturbed'
  PROVE  Rejected'
<1>1. TypeInv /\ Undisturbed /\ Placed /\ Ready /\ Rejected
  BY BudgetKeeps DEF Path, Undisturbed
<1>2. CASE UNCHANGED vars
  BY <1>1, <1>2 DEF vars, Rejected, LastFailed
<1>3. CASE Next
  BY <1>1, <1>3, RejectedSteps, RejectedWork, RejectedEnd
     DEF Next, Drive, Turn, Check, Environment, Requested
<1> QED
  BY <1>2, <1>3

LEMMA AskedKeeps ==
  ASSUME Path, Undisturbed => Asked, [Next]_vars, Undisturbed'
  PROVE  Asked'
<1>1. TypeInv /\ Undisturbed /\ Placed /\ Ready /\ Asked
  BY BudgetKeeps DEF Path, Undisturbed
<1>2. CASE UNCHANGED vars
  BY <1>1, <1>2 DEF vars, Asked
<1>3. CASE Next
  BY <1>1, <1>3, AskedSteps, AskedWork, AskedEnd
     DEF Next, Drive, Turn, Check, Environment, Requested
<1> QED
  BY <1>2, <1>3

LEMMA LevelKeeps ==
  ASSUME Path, Unreopened => Level, [Next]_vars, Unreopened'
  PROVE  Level'
<1>1. TypeInv /\ Unreopened /\ Placed /\ Ready /\ Level
  BY BudgetKeeps DEF Path, Undisturbed, Unreopened
<1>2. CASE UNCHANGED vars
  BY <1>1, <1>2 DEF vars, Level
<1>3. CASE Next
  BY <1>1, <1>3, LevelSteps, LevelWork, LevelEnd
     DEF Next, Drive, Turn, Check, Environment, Requested
<1> QED
  BY <1>2, <1>3

LEMMA ToldKeeps ==
  ASSUME Path, Unreopened => Told, [Next]_vars, Unreopened'
  PROVE  Told'
<1>1. TypeInv /\ Unreopened /\ Placed /\ Ready /\ Told
  BY BudgetKeeps DEF Path, Undisturbed, Unreopened
<1>2. CASE UNCHANGED vars
  BY <1>1, <1>2 DEF vars, Told, TurnsTold, RoundsTold
<1>3. CASE Next
  BY <1>1, <1>3, ToldSteps, ToldWork, ToldEnd
     DEF Next, Drive, Turn, Check, Environment, Requested
<1> QED
  BY <1>2, <1>3

(* Work handed to a person was rejected: without evaluators, and as long   *)
(* as nobody retries the run or brings back an older state of it,          *)
(* "manual_review" means that the last round failed on the very work that  *)
(* is in the worktree, wherever crashes, faults, requests and reviews fell.*)
THEOREM ManualReviewsAreEarned ==
  ASSUME ~HasEvaluator
  PROVE  Spec => []ManualReviewIsEarned
<1> DEFINE I == Undisturbed => Rejected
<1>1. Init => I
  BY PathInit
<1>2. Path /\ I /\ [Next]_vars => I'
  BY RejectedKeeps
<1>3. Path /\ I => ManualReviewIsEarned
  BY DEF Path, Undisturbed, Placed, Copies, Rejected, LastFailed, ManualReviewIsEarned,
     ManualIsRejected, IsRejected
<1>4. Spec => []Path
  BY RunPath
<1> HIDE DEF I
<1> QED
  BY <1>1, <1>2, <1>3, <1>4, PTL DEF Spec

(* A reviewer's change request reaches Codex before the run can succeed    *)
(* again, however the run is interrupted, as long as nobody retries it or  *)
(* brings back an older state of it.                                       *)
THEOREM ChangesAreAnswered == Spec => []ChangeRequestIsAnswered
<1> DEFINE I == Undisturbed => Asked
<1>1. Init => I
  BY PathInit
<1>2. Path /\ I /\ [Next]_vars => I'
  BY AskedKeeps
<1>3. Path /\ I => ChangeRequestIsAnswered
  BY DEF Path, Undisturbed, Placed, Copies, Positions, Asked, ChangeRequestIsAnswered,
     SuccessIsAnswered
<1>4. Spec => []Path
  BY RunPath
<1> HIDE DEF I
<1> QED
  BY <1>1, <1>2, <1>3, <1>4, PTL DEF Spec

(* The loop of an undisturbed run never meets the dead ends it guards      *)
(* against: what it saves is what the next prompt quotes and what an       *)
(* evaluation asks for.                                                    *)
THEOREM NothingDeadEnds == Spec => [](Undisturbed => NoDeadEnd)
<1>1. Path => (Undisturbed => NoDeadEnd)
  <2> SUFFICES ASSUME Path, Undisturbed, pc = "phase"
               PROVE  /\ mem.phase = "prompt_pending" => Renderable(mem)
                      /\ mem.phase \in {"evaluation_pending", "evaluating"}
                           => mem.verdict = "passed"
    BY DEF NoDeadEnd
  <2>1. mem.failures \in Nat
    BY Shapes DEF Path, RunState
  <2> QED
    BY <2>1 DEF Path, Ready, Looked, Renderable, MAX_VALIDATION_FAILURES
<1>2. Spec => []Path
  BY RunPath
<1> QED
  BY <1>1, <1>2, PTL

(* Every saved prompt reaches Codex at most once, for every run that       *)
(* nobody has worked on again: verify_turn_completed asks again only for a *)
(* turn that the App Server's history does not hold.                       *)
THEOREM PromptsRunOnce == Spec => [](Unreopened => PromptRunsOnce)
<1> DEFINE I == Unreopened => Level
<1>1. Init => I
  BY PathInit
<1>2. Path /\ I /\ [Next]_vars => I'
  BY LevelKeeps
<1>3. I => (Unreopened => PromptRunsOnce)
  BY DEF Level, PromptRunsOnce
<1>4. Spec => []Path
  BY RunPath
<1> HIDE DEF I
<1> QED
  BY <1>1, <1>2, <1>3, <1>4, PTL DEF Spec

(* The event timeline of a reported success has every turn and every round *)
(* of the run, even those that a crash left half recorded, for every run   *)
(* that nobody has worked on again.                                        *)
THEOREM TimelinesAreWhole == Spec => [](Unreopened => AuditIsComplete)
<1> DEFINE I == Unreopened => Told
<1>1. Init => I
  BY PathInit
<1>2. Path /\ I /\ [Next]_vars => I'
  BY ToldKeeps
<1>3. Path /\ I => (Unreopened => AuditIsComplete)
  BY DEF Path, Undisturbed, Unreopened, Placed, Copies, Told, TurnsTold, RoundsTold,
     AuditIsComplete
<1>4. Spec => []Path
  BY RunPath
<1> HIDE DEF I
<1> QED
  BY <1>1, <1>2, <1>3, <1>4, PTL DEF Spec

(* Only a queue retries a run or has it reviewed. *)
LEMMA RunUnreopened ==
  ASSUME ~InQueue
  PROVE  Spec => [](~overwritten => Unreopened)
<1> DEFINE Whole == budget.retries = MaxRetries /\ budget.reviews = MaxReviews
<1>1. Init => Whole
  BY DEF Init
<1>2. TypeInv /\ Whole /\ [Next]_vars => Whole'
  <2> SUFFICES ASSUME TypeInv, Whole, [Next]_vars PROVE Whole'
    OBVIOUS
  <2>1. budget \in Budget
    BY Shapes DEF RestOK
  <2>2. CASE \E w \in {"crashes", "faults", "controls"} : Spend(w)
    BY <2>1, <2>2 DEF Spend, Budget
  <2>3. CASE UNCHANGED budget
    BY <2>3
  <2>4. UNCHANGED budget \/ \E w \in {"crashes", "faults", "controls"} : Spend(w)
    <3>1. CASE UNCHANGED vars
      BY <3>1 DEF vars
    <3>2. CASE Drive
      BY <3>2 DEF Drive, Turn, Check, StartThread, BeginPrompt, ResumeDiverged, ResumeFinal,
         ResumeThread, ApplyControl, ClearControl, NoControlRequest, RecoverRound,
         BeginInitial, TurnLimit, WritePrompt, SaveTurn, AcceptTurn, FinishTurn,
         RecoverTurn, RecordTurn, SaveTurnCompleted, StartValidation, Validate,
         RecordRound, DecideRound, StartEvaluation, Evaluate, ApplyEvaluation,
         AlreadyCompleted, NotFinal, CaptureChanges, WriteResult
    <3>3. CASE Resume
      BY <3>3 DEF Resume
    <3>4. CASE Environment
      BY <3>4 DEF Environment, Fault, FaultEscapes, TurnFails, Validate, Crash,
         LoadForControl, RequestQueueControl, FindActive, FindInactive, SaveControl,
         RetryInfrastructure, RequestChanges
    <3> QED
      BY <3>1, <3>2, <3>3, <3>4 DEF Next
  <2> QED
    BY <2>2, <2>3, <2>4
<1>3. Whole => (~overwritten => Unreopened)
  BY DEF Unreopened, Undisturbed, Unretried
<1>4. Spec => []TypeInv
  BY RunTypes
<1> HIDE DEF Whole
<1> QED
  BY <1>1, <1>2, <1>3, <1>4, PTL DEF Spec

(* What a single task leaves behind is enough for what follows it: a pause *)
(* can be resumed, a pending prompt has what it quotes, and a success has  *)
(* its whole timeline, whatever crashes and requests it went through, as   *)
(* long as no request brings back an older state.                          *)
THEOREM CheckpointsSuffice ==
  ASSUME ~InQueue
  PROVE  Spec => [](~overwritten => SavedStateSuffices)
<1>1. Spec => [](Unreopened => AuditIsComplete)
  BY TimelinesAreWhole
<1>2. Spec => [](Undisturbed => NoDeadEnd)
  BY NothingDeadEnds
<1>3. Spec => []Path
  BY RunPath
<1>4. Spec => [](~overwritten => Unreopened)
  BY RunUnreopened
<1>5. Path => (Undisturbed => PausedHasCheckpoint)
  BY DEF Path, Ready, PausedHasCheckpoint
<1>6. /\ Unreopened => Undisturbed
      /\ AuditIsComplete /\ PausedHasCheckpoint /\ NoDeadEnd => SavedStateSuffices
  BY DEF SavedStateSuffices, Unreopened
<1> QED
  BY <1>1, <1>2, <1>3, <1>4, <1>5, <1>6, PTL

(* The verdict of a task that has ended: which steps write the state of a  *)
(* run that is over on file and in its executor.                           *)
Ended == disk.status \in Final \ {"paused"} /\ Shared

LEMMA EndedSteps ==
  ASSUME TypeInv, Placed, ~InQueue, Ended,
         \/ Drive \/ Resume \/ TurnFails \/ Validate("infra")
  PROVE  Kept
<1>1. disk \in RunState /\ mem \in RunState
  BY DEF TypeInv, TypeOK
<1>2. pc \notin Working
  BY DEF Ended, Shared, Placed, Positions, Working, Final
<1>3. CASE Resume
  BY <1>1, <1>3 DEF Resume, Reopened, Save, Ended, Kept
<1>4. CASE Turn \/ Check \/ TurnFails \/ Validate("infra")
  <2>1. CASE RecordRound
    BY <2>1 DEF RecordRound, Kept
  <2>2. CASE DecideRound
    <3>1. mem.verdict \notin {"passed", "failed"}
      BY <2>2, <1>1 DEF DecideRound, Ended, Shared, Placed, Positions, Judged, Final
    <3>2. Save(Completed(mem, "infrastructure_error"))
      BY <2>2, <3>1 DEF DecideRound
    <3> QED
      BY <1>1, <3>2 DEF Save, Completed, RunState, Kept
  <2> QED
    BY <1>2, <1>4, <2>1, <2>2 DEF Turn, Check, BeginInitial, TurnLimit, WritePrompt,
       SaveTurn, AcceptTurn, FinishTurn, TurnFails, RecoverTurn, RecordTurn,
       SaveTurnCompleted, StartValidation, Validate, StartEvaluation, Evaluate,
       ApplyEvaluation, Go, Working
<1>5. CASE CaptureChanges
  BY <1>1, <1>5 DEF CaptureChanges, Go, Save, RunState, Ended, Shared, Kept
<1>6. CASE ResumeDiverged \/ NotFinal
  BY <1>1, <1>6 DEF ResumeDiverged, NotFinal, Fail, Save, Completed, RunState, Kept
<1>7. CASE ResumeThread
  BY <1>7 DEF ResumeThread, Go, Ended, Shared, Final
<1>8. CASE \/ StartThread \/ BeginPrompt \/ ResumeFinal \/ ApplyControl \/ ClearControl
           \/ NoControlRequest \/ RecoverRound \/ AlreadyCompleted \/ WriteResult
  BY <1>2, <1>8 DEF StartThread, BeginPrompt, ResumeFinal, ApplyControl, ClearControl,
     NoControlRequest, RecoverRound, AlreadyCompleted, WriteResult, Go, Working, Kept
<1> QED
  BY <1>3, <1>4, <1>5, <1>6, <1>7, <1>8 DEF Drive

LEMMA EndedCallers ==
  ASSUME TypeInv, Placed, ~InQueue, Ended, ~overwritten',
         \/ Fault \/ FaultEscapes \/ Crash \/ Requested \/ SaveControl
         \/ RetryInfrastructure \/ RequestChanges
  PROVE  Kept
<1>1. disk \in RunState /\ mem \in RunState
  BY DEF TypeInv, TypeOK
<1>2. CASE Fault
  BY <1>1, <1>2 DEF Fault, Fail, Save, Completed, RunState, Kept
<1>3. CASE FaultEscapes \/ Crash
  BY <1>3 DEF FaultEscapes, Crash, Kept
<1>4. CASE Requested
  BY <1>4, RequestedKeeps DEF Kept
<1>5. CASE SaveControl
  BY <1>5, SavedControl DEF Ended, Final
<1>6. CASE RetryInfrastructure \/ RequestChanges
  BY <1>6 DEF RetryInfrastructure, RequestChanges
<1> QED
  BY <1>2, <1>3, <1>4, <1>5, <1>6

(* A verdict of a single task stands, whatever crashes, faults and control *)
(* requests come after it: only an error in its final report makes it an   *)
(* infrastructure error.  Excepted are what EndedStaysEnded excepts, a     *)
(* state that its executor does not share yet and one that a request has   *)
(* brought back.                                                           *)
THEOREM EndedRunsStayEnded ==
  ASSUME ~InQueue
  PROVE  Spec => EndedStaysEnded
<1> DEFINE A == disk.status \in Final \ {"paused"} /\ Shared => overwritten' \/ Kept
<1>1. Path /\ [Next]_vars => [A]_vars
  <2> SUFFICES ASSUME Path, Next, Ended, ~overwritten' PROVE Kept
    BY DEF Ended
  <2>1. TypeInv /\ Placed
    BY OverwrittenStays DEF Path
  <2> QED
    BY <2>1, EndedSteps, EndedCallers DEF Next, Environment, Requested
<1>2. Spec => []Path
  BY RunPath
<1> HIDE DEF A
<1>3. Spec => [][A]_vars
  BY <1>1, <1>2, PTL DEF Spec
<1> QED
  BY <1>3 DEF A, EndedStaysEnded
=============================================================================
