----------------------------- MODULE Evaluation -----------------------------
(* Independent evaluation of a run whose validation passed: the contexts    *)
(* frozen from a knowledge server that goes on changing, the two evaluator  *)
(* roles, the deterministic aggregate of what they say, the files it is     *)
(* published in, and what the run makes of it after a crash.                *)
(*                                                                          *)
(* Turns and validation rounds are one step here (see TaskRun and Checks);  *)
(* events, skills, memory and the copies under round-NN are left out.       *)
EXTENDS Naturals

CONSTANTS
  Criteria,      \* acceptance criteria of the task
  Guidelines,    \* knowledge entries of type guideline or decision
  Processes,     \* of type process
  Pitfalls,      \* of type pitfall; a model counts as one
  MaxTurns,      \* MAX_CODEX_TURNS
  MaxRounds,     \* bound: evaluated rounds
  MaxEdits,      \* bound: edits of the knowledge server
  MaxFaults,     \* bound: infrastructure errors
  MaxCrashes     \* bound: crashes of the executor

Entries == Guidelines \cup Processes \cup Pitfalls
StrongTypes == Guidelines \cup Processes

(* STAGE_KNOWLEDGE_TYPES: what an evaluator's context is retrieved from.    *)
StageTypes == [spec |-> Guidelines \cup Processes, architecture |-> Guidelines \cup Pitfalls]

ASSUME EvaluationAssumption ==
  /\ Criteria # {}
  /\ Guidelines \cap Processes = {} /\ (Guidelines \cup Processes) \cap Pitfalls = {}
  /\ MaxTurns \in Nat \ {0} /\ MaxRounds \in Nat /\ MaxEdits \in Nat
  /\ MaxFaults \in Nat /\ MaxCrashes \in Nat

VARIABLES
  server,    \* the knowledge server: revision and standing of every entry
  context,   \* the frozen context files of the run
  published, \* evaluations/spec.json, architecture.json, aggregate.json
  state,     \* state.json
  pc,        \* where the executor is
  mem,       \* the evaluation in the executor's memory
  judged,    \* ghost: the contexts the applied aggregates were made under
  budget     \* edits, faults and crashes left

vars == <<server, context, published, state, pc, mem, judged, budget>>

(* maturity and conflict_status together: sound is verified or proven and   *)
(* free of conflict.                                                        *)
Standing == {"sound", "doubted"}
Revision == 1..(MaxEdits + 1)
Meta == [revision : Revision, standing : Standing]

(* KnowledgeItem: what the search said of the entry, and the revision its   *)
(* text was read from.                                                      *)
Item == [entry : Entries, revision : Revision, standing : Standing, text : Revision]

(* KnowledgeItem.constraint_strength.                                       *)
Strength(item) ==
  CASE item.standing = "sound" /\ item.entry \in StrongTypes -> "strong"
    [] item.standing = "doubted" \/ item.entry \in Pitfalls -> "warning"
    [] OTHER -> "context"

(* What a role says of a criterion, or of an entry it cites: supported is a *)
(* failure with evidence, or with a changed location; unsupported stands    *)
(* for any other failure and needs_human; fine for pass, not_applicable and *)
(* not_evaluated.                                                           *)
Mark == {"fine", "unsupported", "supported"}

\* A file that was not written yet, or nothing in memory.
None == [round |-> 0]
Absent == [frozen |-> FALSE, items |-> {}]
Nobody == [c \in Criteria |-> "fine"]

Blank == [stage |-> "spec", found |-> {}, items |-> {}, seen |-> {}, asked |-> 0,
          spec |-> Nobody, findings |-> {}]

Init ==
  /\ server = [e \in Entries |-> [revision |-> 1, standing |-> "sound"]]
  /\ context = [spec |-> Absent, architecture |-> Absent, merged |-> Absent]
  /\ published = [spec |-> None, architecture |-> None, aggregate |-> None]
  /\ state = [status |-> "running", phase |-> "prompt", kind |-> "initial",
              round |-> 0, turns |-> 0, summary |-> {}]
  /\ pc = "drive"
  /\ mem = Blank
  /\ judged = {}
  /\ budget = [edits |-> MaxEdits, faults |-> MaxFaults, crashes |-> MaxCrashes]

Spend(kind) ==
  budget[kind] > 0 /\ budget' = [budget EXCEPT ![kind] = @ - 1]

-----------------------------------------------------------------------------
(* Around the evaluation.                                                   *)

(* Somebody revises an entry, or only marks it as doubtful.                 *)
EditKnowledge ==
  /\ Spend("edits")
  /\ \E e \in Entries, s \in Standing, step \in {0, 1} :
       server' = [server EXCEPT ![e] = [revision |-> @.revision + step, standing |-> s]]
  /\ UNCHANGED <<context, published, state, pc, mem, judged>>

(* A turn if one is pending, and a validation round that passes.            *)
PassRound ==
  /\ pc = "drive" /\ state.round < MaxRounds
  /\ \/ state.phase = "prompt" /\ state.turns < MaxTurns
     \/ state.phase = "validation"
  /\ state' = [state EXCEPT !.round = @ + 1, !.phase = "evaluation", !.kind = "none",
                            !.turns = IF state.phase = "prompt" THEN @ + 1 ELSE @]
  /\ UNCHANGED <<server, context, published, pc, mem, judged, budget>>

(* A person asks for changes of a finished run (reopen_for_review_changes). *)
RequestChanges ==
  /\ pc = "down" /\ state.status \in {"success", "manual_review"}
  /\ state.round < MaxRounds
  /\ state' = [state EXCEPT !.status = "running", !.phase = "prompt",
                            !.kind = "review_repair", !.turns = 0, !.summary = {}]
  /\ pc' = "drive"
  /\ UNCHANGED <<server, context, published, mem, judged, budget>>

(* The queue retries the checkpoint of a run an infrastructure error ended. *)
Retry ==
  /\ pc = "down" /\ state.status = "infrastructure_error"
  /\ state' = [state EXCEPT !.status = "running", !.phase = "validation", !.kind = "none"]
  /\ pc' = "drive"
  /\ UNCHANGED <<server, context, published, mem, judged, budget>>

Resume ==
  /\ pc = "down" /\ state.status = "running"
  /\ pc' = "drive"
  /\ UNCHANGED <<server, context, published, state, mem, judged, budget>>

Crash ==
  /\ pc # "down"
  /\ Spend("crashes")
  /\ pc' = "down" /\ mem' = Blank
  /\ UNCHANGED <<server, context, published, state, judged>>

Broken == [state EXCEPT !.status = "infrastructure_error"]

(* The server cannot be reached or no longer has the entry, a role client   *)
(* does not start: the run ends.                                            *)
Fail ==
  /\ pc \in {"search", "read", "spec_role", "architecture_role"}
  /\ Spend("faults")
  /\ state' = Broken
  /\ pc' = "down" /\ mem' = Blank
  /\ UNCHANGED <<server, context, published, judged>>

-----------------------------------------------------------------------------
(* OrchestrationWorkflow._run_evaluation and the frozen contexts.           *)

(* An aggregate of this round was published before a crash: it is applied.  *)
Reusable == published.aggregate.round = state.round

StartEvaluation ==
  /\ pc = "drive" /\ state.phase \in {"evaluation", "evaluating"}
  /\ state' = [state EXCEPT !.phase = "evaluating"]
  /\ pc' = IF Reusable THEN "apply" ELSE "context"
  /\ mem' = Blank
  /\ UNCHANGED <<server, context, published, judged, budget>>

NextStage ==
  IF mem.stage = "spec" THEN pc' = "context" /\ mem' = [Blank EXCEPT !.stage = "architecture"]
                        ELSE pc' = "merge" /\ mem' = Blank

Frozen(name) == context[name].frozen
As(items) == [frozen |-> TRUE, items |-> items]

\* Mutant of Reuses: a snapshot on disk is retrieved again.
ReusesNothing == FALSE

(* ContextAssembler.assemble: a stage that was frozen is never retrieved    *)
(* again.                                                                   *)
Reuses == Frozen(mem.stage)

ReuseContext ==
  /\ pc = "context" /\ Reuses
  /\ NextStage
  /\ UNCHANGED <<server, context, published, state, judged, budget>>

Search ==
  /\ pc = "context" /\ ~Reuses
  /\ pc' = "search"
  /\ UNCHANGED <<server, context, published, state, mem, judged, budget>>

(* KnowledgeGateway.retrieve: one search, with the metadata of what it      *)
(* found ...                                                                *)
SearchReplies ==
  /\ pc = "search"
  /\ \E hits \in SUBSET StageTypes[mem.stage] :
       mem' = [mem EXCEPT !.found =
                 {[entry |-> e, revision |-> server[e].revision,
                   standing |-> server[e].standing] : e \in hits}]
  /\ pc' = "read"
  /\ UNCHANGED <<server, context, published, state, judged, budget>>

(* ... then one read per result, until the characters are used up.          *)
ReadEntry ==
  /\ pc = "read"
  /\ \E hit \in mem.found :
       /\ \E rest \in {mem.found \ {hit}, {}} :
            mem' = [mem EXCEPT !.found = rest,
                     !.items = @ \cup {[entry |-> hit.entry, revision |-> hit.revision,
                                        standing |-> hit.standing,
                                        text |-> server[hit.entry].revision]}]
  /\ UNCHANGED <<server, context, published, state, pc, judged, budget>>

Freeze ==
  /\ pc = "read" /\ mem.found = {}
  /\ context' = [context EXCEPT ![mem.stage] = As(mem.items)]
  /\ NextStage
  /\ UNCHANGED <<server, published, state, judged, budget>>

(* merge_context_snapshots: a later stage replaces what an earlier one      *)
(* holds of the same entry and revision.                                    *)
Merge(first, second) ==
  {i \in first : \A j \in second : <<i.entry, i.revision>> # <<j.entry, j.revision>>}
    \cup second

(* _assemble_evaluation_context: the merged context is frozen too.          *)
MergeContexts ==
  /\ pc = "merge"
  /\ LET merged == IF Frozen("merged")
                   THEN context.merged.items
                   ELSE Merge(context.spec.items, context.architecture.items)
     IN  /\ context' = [context EXCEPT !.merged = As(merged)]
         /\ mem' = [Blank EXCEPT !.seen = merged]
  /\ pc' = "spec_role"
  /\ UNCHANGED <<server, published, state, judged, budget>>

-----------------------------------------------------------------------------
(* EvaluationCoordinator.evaluate.                                          *)

\* Mutant of AskAgain: nobody counts (up to three).
AskAgainAlways ==
  /\ pc \in {"spec_role", "architecture_role"}
  /\ mem.asked < 3
  /\ mem' = [mem EXCEPT !.asked = @ + 1]
  /\ UNCHANGED <<server, context, published, state, pc, judged, budget>>

(* A reply that is not the JSON asked for is asked for again, once.         *)
AskAgain ==
  /\ pc \in {"spec_role", "architecture_role"}
  /\ mem.asked = 0
  /\ mem' = [mem EXCEPT !.asked = 1]
  /\ UNCHANGED <<server, context, published, state, pc, judged, budget>>

(* The second unreadable reply, a criterion left out or named twice, or a   *)
(* citation outside the frozen context ends the run.                        *)
RefuseReply ==
  /\ pc \in {"spec_role", "architecture_role"}
  /\ Spend("faults")
  /\ state' = Broken
  /\ pc' = "down" /\ mem' = Blank
  /\ UNCHANGED <<server, context, published, judged>>

(* Every criterion of the task has exactly one mark.                        *)
SpecReplies ==
  /\ pc = "spec_role"
  /\ \E marks \in [Criteria -> Mark] :
       mem' = [mem EXCEPT !.spec = marks, !.asked = 0]
  /\ pc' = IF \E i \in mem.seen : i.entry \in StageTypes.architecture
           THEN "architecture_role" ELSE "write_spec"
  /\ UNCHANGED <<server, context, published, state, judged, budget>>

(* The architecture evaluator faults entries of the context it was shown.   *)
ArchitectureReplies ==
  /\ pc = "architecture_role"
  /\ \E marks \in [mem.seen -> Mark] :
       mem' = [mem EXCEPT !.asked = 0,
                 !.findings = {[item |-> i, mark |-> marks[i]] :
                                 i \in {j \in mem.seen : marks[j] # "fine"}}]
  /\ pc' = "write_spec"
  /\ UNCHANGED <<server, context, published, state, judged, budget>>

(* _aggregate: what sends the work back.                                    *)
Blocking(spec, findings) ==
  {<<"specification", c>> : c \in {d \in Criteria : spec[d] = "supported"}} \cup
  {<<"architecture", f.item.entry>> :
     f \in {g \in findings : g.mark = "supported" /\ Strength(g.item) = "strong"}}

SpecFile == [round |-> state.round, marks |-> mem.spec]
ArchitectureFile == [round |-> state.round, findings |-> mem.findings]
AggregateFile == [round |-> state.round, context |-> mem.seen,
                  blocking |-> Blocking(mem.spec, mem.findings)]

Write(here, name, value, next) ==
  /\ pc = here
  /\ published' = [published EXCEPT ![name] = value]
  /\ pc' = next
  /\ UNCHANGED <<server, context, state, mem, judged, budget>>

\* Mutant of Publish: the aggregate is written first.
PublishVerdictFirst ==
  \/ Write("write_spec", "aggregate", AggregateFile, "write_architecture")
  \/ Write("write_architecture", "spec", SpecFile, "write_aggregate")
  \/ Write("write_aggregate", "architecture", ArchitectureFile, "apply")

(* Each file is replaced atomically, the aggregate last.                    *)
Publish ==
  \/ Write("write_spec", "spec", SpecFile, "write_architecture")
  \/ Write("write_architecture", "architecture", ArchitectureFile, "write_aggregate")
  \/ Write("write_aggregate", "aggregate", AggregateFile, "apply")

(* The verdict reaches state.json: another turn, a person, or success.      *)
ApplyEvaluation ==
  /\ pc = "apply"
  /\ LET blocking == published.aggregate.blocking
         next == CASE blocking = {} -> "success"
                   [] blocking # {} /\ state.turns >= MaxTurns -> "manual_review"
                   [] OTHER -> "running"
     IN  /\ state' = [state EXCEPT !.summary = blocking, !.status = next,
                                   !.phase = IF next = "running" THEN "prompt" ELSE "completed",
                                   !.kind = IF next = "running" THEN "evaluation_repair"
                                                                ELSE "none"]
         /\ pc' = IF next = "running" THEN "drive" ELSE "down"
  /\ judged' = judged \cup {published.aggregate.context}
  /\ mem' = Blank
  /\ UNCHANGED <<server, context, published, budget>>

-----------------------------------------------------------------------------
Next ==
  \/ EditKnowledge \/ PassRound \/ RequestChanges \/ Retry \/ Resume \/ Crash \/ Fail
  \/ StartEvaluation \/ ReuseContext \/ Search \/ SearchReplies \/ ReadEntry \/ Freeze
  \/ MergeContexts \/ AskAgain \/ RefuseReply \/ SpecReplies \/ ArchitectureReplies
  \/ Publish \/ ApplyEvaluation

Spec == Init /\ [][Next]_vars

(* Type invariant. *)
TypeOK ==
  /\ server \in [Entries -> Meta]
  /\ \A name \in {"spec", "architecture", "merged"} : 
       context[name].frozen \in BOOLEAN /\ context[name].items \subseteq Item
  /\ \A name \in {"spec", "architecture", "aggregate"} : published[name].round \in 0..MaxRounds
  /\ state.status \in {"running", "success", "manual_review", "infrastructure_error"}
  /\ state.phase \in {"prompt", "validation", "evaluation", "evaluating", "completed"}
  /\ state.kind \in {"none", "initial", "evaluation_repair", "review_repair"}
  /\ state.kind # "none" <=> state.phase = "prompt"
  /\ state.round \in 0..MaxRounds /\ state.turns \in 0..MaxTurns
  /\ mem.seen \subseteq Item /\ mem.items \subseteq Item /\ mem.asked \in {0, 1}
  /\ budget \in [edits : 0..MaxEdits, faults : 0..MaxFaults, crashes : 0..MaxCrashes]

(* Every evaluation of a run is made by one yardstick: the merge of the two *)
(* contexts frozen at the first one, whatever became of the knowledge       *)
(* server and however often the executor was started since.                 *)
OneYardstick ==
  \A used \in judged :
    used = context.merged.items /\ used = Merge(context.spec.items, context.architecture.items)

(* A verdict that stands is the one its documents give: the three files are *)
(* of the round it was given for, and by them the work was accepted only    *)
(* without a supported failure, and sent back only for a criterion of the   *)
(* task or a sound entry of a type that may constrain.                      *)
VerdictIsDocumented ==
  state.status \in {"success", "manual_review"} \/ state.kind = "evaluation_repair" =>
    /\ \A name \in {"spec", "architecture", "aggregate"} : published[name].round = state.round
    /\ LET failed == {c \in Criteria : published.spec.marks[c] = "supported"}
           sound == {f \in published.architecture.findings :
                       /\ f.mark = "supported" /\ f.item \in context.merged.items
                       /\ f.item.standing = "sound" /\ f.item.entry \in StrongTypes}
       IN  state.status = "success" <=> failed = {} /\ sound = {}

(* "source-preserving knowledge access": the text an evaluator is given     *)
(* under a revision is that revision's.  An edit between the search and the *)
(* read breaks it.                                                          *)
TextIsOfRevision ==
  \A i \in context.merged.items : i.text = i.revision
=============================================================================
