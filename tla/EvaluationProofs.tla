-------------------------- MODULE EvaluationProofs --------------------------
(***************************************************************************)
(* For any criteria and knowledge, any number of rounds, edits, faults and *)
(* crashes: the types of Evaluation, that a run is judged by one context,  *)
(* and that the files it publishes give the verdict the run acted on.      *)
(***************************************************************************)
EXTENDS Evaluation, TLAPS

(* What the variables hold, in the shape the program gives it. *)
Context == [frozen : BOOLEAN, items : SUBSET Item]
Hit     == [entry : Entries, revision : Revision, standing : Standing]
Finding == [item : Item, mark : Mark]
Reason  == {"specification", "architecture"} \X (Criteria \cup Entries)
Stage   == {"spec", "architecture"}

Memory ==
  [stage : Stage, found : SUBSET Hit, items : SUBSET Item, seen : SUBSET Item, asked : {0, 1},
   spec : [Criteria -> Mark], findings : SUBSET Finding]

SavedState ==
  [status : {"running", "success", "manual_review", "infrastructure_error"},
   phase : {"prompt", "validation", "evaluation", "evaluating", "completed"},
   kind : {"none", "initial", "evaluation_repair", "review_repair"},
   round : 0..MaxRounds, turns : 0..MaxTurns, summary : SUBSET Reason]

Files ==
  [spec : {None} \cup [round : 0..MaxRounds, marks : [Criteria -> Mark]],
   architecture : {None} \cup [round : 0..MaxRounds, findings : SUBSET Finding],
   aggregate : {None} \cup [round : 0..MaxRounds, context : SUBSET Item, blocking : SUBSET Reason]]

Judging == {"spec_role", "architecture_role", "write_spec", "write_architecture", "write_aggregate"}
Working == {"context", "search", "read", "merge"} \cup Judging

(* An entry's revision is bounded by the edits that were made. *)
ServerOK ==
  /\ server \in [Entries -> Meta]
  /\ budget \in [edits : 0..MaxEdits, faults : 0..MaxFaults, crashes : 0..MaxCrashes]
  /\ \A e \in Entries : server[e].revision + budget.edits <= MaxEdits + 1

DataOK ==
  /\ context \in [spec : Context, architecture : Context, merged : Context]
  /\ published \in Files /\ mem \in Memory /\ state \in SavedState

(* Where the executor stands tells what state it works on. *)
InStep ==
  /\ pc # "down" => state.status = "running"
  /\ state.kind # "none" <=> state.phase = "prompt"
  /\ pc \in Working \cup {"apply"} => state.phase = "evaluating"
  /\ state.phase \in {"evaluation", "evaluating"} => state.round > 0

(* A context that is frozen is not made again, and all that is judged is    *)
(* judged by the merged one.                                                *)
FrozenOnce ==
  /\ Frozen("merged") =>
       /\ Frozen("spec") /\ Frozen("architecture")
       /\ context.merged.items = Merge(context.spec.items, context.architecture.items)
  /\ pc \in {"context", "search", "read"} /\ mem.stage = "architecture" => Frozen("spec")
  /\ pc \in {"search", "read"} => ~Frozen(mem.stage)
  /\ pc = "merge" => Frozen("spec") /\ Frozen("architecture")
  /\ pc \in Judging => Frozen("merged") /\ mem.seen = context.merged.items
  /\ \A f \in mem.findings : f.item \in mem.seen
  /\ \A used \in judged : Frozen("merged") /\ used = context.merged.items
  /\ published.aggregate.round # 0 =>
       Frozen("merged") /\ published.aggregate.context = context.merged.items

(* An aggregate of the current round comes after its two reports and from   *)
(* them, and is published once.                                             *)
FilesAgree ==
  /\ published.spec.round = state.round /\ published.architecture.round = state.round
  /\ published.aggregate.blocking = Blocking(published.spec.marks, published.architecture.findings)
  /\ \A f \in published.architecture.findings : f.item \in context.merged.items

Published ==
  /\ published.aggregate.round <= state.round
  /\ pc \in Working => published.aggregate.round # state.round
  /\ pc \in {"write_architecture", "write_aggregate"} => published.spec = SpecFile
  /\ pc = "write_aggregate" => published.architecture = ArchitectureFile
  /\ pc = "apply" => published.aggregate.round = state.round
  /\ published.aggregate.round = state.round /\ state.round > 0 => FilesAgree

Inv == ServerOK /\ DataOK /\ InStep /\ FrozenOnce /\ Published /\ VerdictIsDocumented
-----------------------------------------------------------------------------
(* Only what is sound and of a type that may constrain is strong. *)
LEMMA StrongItems ==
  ASSUME NEW i
  PROVE  Strength(i) = "strong" <=> i.standing = "sound" /\ i.entry \in StrongTypes
<1>1. i.entry \in StrongTypes => i.entry \notin Pitfalls
  BY EvaluationAssumption DEF StrongTypes
<1>2. CASE i.standing = "sound" /\ i.entry \in StrongTypes
  BY <1>1, <1>2 DEF Strength
<1>3. CASE ~(i.standing = "sound" /\ i.entry \in StrongTypes)
  BY <1>3 DEF Strength
<1> QED BY <1>2, <1>3

(* An aggregate blocks exactly when a criterion failed with evidence, or a  *)
(* strong entry did.                                                        *)
LEMMA BlockingIsEmpty ==
  ASSUME NEW spec, NEW findings
  PROVE  Blocking(spec, findings) = {} <=>
           /\ \A c \in Criteria : spec[c] # "supported"
           /\ \A f \in findings : ~(f.mark = "supported" /\ Strength(f.item) = "strong")
BY DEF Blocking

(* What blocks is a criterion of the task or an entry. *)
LEMMA BlockingTyped ==
  ASSUME NEW spec, NEW findings \in SUBSET Finding
  PROVE  Blocking(spec, findings) \in SUBSET Reason
BY DEF Blocking, Reason, Finding, Item

LEMMA BlankTyped == Blank \in Memory
BY DEF Blank, Memory, Stage, Nobody, Mark

(* At the start nothing is frozen, published or judged. *)
LEMMA InitInv == Init => Inv
<1> SUFFICES ASSUME Init PROVE Inv
  OBVIOUS
<1>1. ServerOK
  BY EvaluationAssumption DEF Init, ServerOK, Meta, Revision, Standing
<1>2. DataOK
  <2>1. context \in [spec : Context, architecture : Context, merged : Context]
    BY DEF Init, Absent, Context
  <2>2. published \in Files
    BY DEF Init, Files
  <2>3. state \in SavedState
    BY EvaluationAssumption DEF Init, SavedState
  <2> QED BY <2>1, <2>2, <2>3, BlankTyped DEF Init, DataOK
<1>3. InStep /\ VerdictIsDocumented
  BY DEF Init, InStep, Working, Judging, VerdictIsDocumented
<1>4. FrozenOnce /\ Published
  BY DEF Init, FrozenOnce, Frozen, Absent, Judging, Blank, None, Published, Working
<1> QED BY <1>1, <1>2, <1>3, <1>4 DEF Inv
-----------------------------------------------------------------------------
(* Somebody edits the knowledge server. *)
LEMMA EditKeeps ==
  ASSUME Inv, EditKnowledge
  PROVE  Inv'
<1>1. ServerOK'
  <2>1. PICK e \in Entries, s \in Standing, step \in {0, 1} :
          server' = [server EXCEPT ![e] = [revision |-> @.revision + step, standing |-> s]]
    BY DEF EditKnowledge
  <2>2. budget.edits > 0 /\ budget' = [budget EXCEPT !.edits = @ - 1]
    BY DEF EditKnowledge, Spend
  <2>3. /\ budget' \in [edits : 0..MaxEdits, faults : 0..MaxFaults, crashes : 0..MaxCrashes]
        /\ budget'.edits = budget.edits - 1
    BY <2>2, EvaluationAssumption DEF Inv, ServerOK
  <2>4. /\ server[e].revision \in Nat \ {0} /\ server[e].revision + budget.edits <= MaxEdits + 1
        /\ budget.edits \in Nat /\ budget.edits > 0 /\ MaxEdits \in Nat
    BY <2>2, EvaluationAssumption DEF Inv, ServerOK, Meta, Revision
  <2>5. [revision |-> server[e].revision + step, standing |-> s] \in Meta
    BY <2>4 DEF Meta, Revision
  <2>6. server' \in [Entries -> Meta]
    BY <2>1, <2>5 DEF Inv, ServerOK
  <2>7. ASSUME NEW d \in Entries PROVE server'[d].revision + budget'.edits <= MaxEdits + 1
    <3>1. CASE d = e
      BY <2>1, <2>3, <2>4, <3>1 DEF Inv, ServerOK
    <3>2. CASE d # e
      <4>1. server'[d] = server[d] /\ server[d].revision \in Nat
        BY <2>1, <3>2, EvaluationAssumption DEF Inv, ServerOK, Meta, Revision
      <4>2. server[d].revision + budget.edits <= MaxEdits + 1
        BY DEF Inv, ServerOK
      <4> QED BY <2>3, <2>4, <4>1, <4>2
    <3> QED BY <3>1, <3>2
  <2> QED BY <2>3, <2>6, <2>7 DEF ServerOK
<1>2. DataOK' /\ InStep' /\ FrozenOnce' /\ VerdictIsDocumented'
  BY DEF Inv, EditKnowledge, DataOK, InStep, FrozenOnce, Frozen, VerdictIsDocumented
<1>3. Published'
  BY DEF Inv, EditKnowledge, Published, FilesAgree, SpecFile, ArchitectureFile
<1> QED BY <1>1, <1>2, <1>3 DEF Inv

(* What a step leaves of the budget is still one. *)
LEMMA BudgetKeeps ==
  ASSUME ServerOK, server' = server,
         budget' = budget \/ Spend("faults") \/ Spend("crashes")
  PROVE  ServerOK'
<1>1. /\ budget' \in [edits : 0..MaxEdits, faults : 0..MaxFaults, crashes : 0..MaxCrashes]
      /\ budget'.edits = budget.edits
  <2>1. CASE budget' = budget
    BY <2>1 DEF ServerOK
  <2>2. CASE Spend("faults")
    BY <2>2, EvaluationAssumption DEF ServerOK, Spend
  <2>3. CASE Spend("crashes")
    BY <2>3, EvaluationAssumption DEF ServerOK, Spend
  <2> QED BY <2>1, <2>2, <2>3
<1> QED BY <1>1 DEF ServerOK

(* A step that only moves the run: no file is touched, and the evaluation   *)
(* under way, if any, is given up.  A new round is later than any aggregate. *)
LEMMA RunKeeps ==
  ASSUME Inv, PassRound \/ RequestChanges \/ Retry \/ Resume \/ Crash \/ Fail \/ RefuseReply
                \/ StartEvaluation
  PROVE  Inv'
<1> USE DEF Inv
<1>1. ServerOK'
  BY BudgetKeeps DEF PassRound, RequestChanges, Retry, Resume, Crash, Fail, RefuseReply,
    StartEvaluation
<1>2. context' = context /\ published' = published /\ judged' = judged /\ mem' \in {mem, Blank}
  BY DEF PassRound, RequestChanges, Retry, Resume, Crash, Fail, RefuseReply, StartEvaluation
<1>3. Blank.findings = {} /\ Blank.stage = "spec"
  BY DEF Blank
<1>4. state \in SavedState /\ state.round \in Nat /\ published.aggregate.round \in Nat
  BY EvaluationAssumption DEF DataOK, SavedState, Files, None
<1>5. CASE PassRound
  <2>1. /\ state' \in SavedState /\ state'.round = state.round + 1 /\ state'.phase = "evaluation"
        /\ state'.kind = "none" /\ state'.status = state.status
    <3> DEFINE turns == IF state.phase = "prompt" THEN state.turns + 1 ELSE state.turns
    <3>1. turns \in 0..MaxTurns /\ state.round + 1 \in 0..MaxRounds
      BY <1>4, <1>5, EvaluationAssumption DEF PassRound, SavedState
    <3>2. state' = [state EXCEPT !.round = @ + 1, !.phase = "evaluation", !.kind = "none",
                                 !.turns = turns]
      BY <1>5 DEF PassRound
    <3> HIDE DEF turns, Inv
    <3> QED BY <1>4, <3>1, <3>2 DEF SavedState
  <2>2. pc = "drive" /\ pc' = pc /\ mem' = mem
    BY <1>5 DEF PassRound
  <2>3. DataOK' /\ InStep' /\ VerdictIsDocumented'
    BY <1>2, <1>4, <2>1, <2>2 DEF DataOK, InStep, Working, Judging, VerdictIsDocumented
  <2>4. FrozenOnce'
    BY <1>2, <2>2 DEF FrozenOnce, Frozen
  <2>5. Published'
    BY <1>2, <1>4, <2>1, <2>2 DEF Published, Working, Judging
  <2> QED BY <1>1, <2>3, <2>4, <2>5
<1>6. CASE StartEvaluation
  <2>1. /\ state' \in SavedState /\ state'.round = state.round /\ state'.phase = "evaluating"
        /\ state'.kind = state.kind /\ state'.status = state.status
    BY <1>4, <1>6 DEF StartEvaluation, SavedState
  <2>2. /\ pc = "drive" /\ mem' = Blank /\ state.phase \in {"evaluation", "evaluating"}
        /\ \/ Reusable /\ pc' = "apply"
           \/ ~Reusable /\ pc' = "context"
    BY <1>6 DEF StartEvaluation
  <2>3. DataOK' /\ InStep' /\ VerdictIsDocumented'
    BY <1>2, <1>4, <2>1, <2>2, BlankTyped DEF DataOK, InStep, VerdictIsDocumented
  <2>4. FrozenOnce'
    BY <1>2, <1>3, <2>2 DEF FrozenOnce, Frozen, Judging
  <2>5. Published'
    BY <1>2, <2>1, <2>2 DEF Published, FilesAgree, Reusable, Working, Judging
  <2> QED BY <1>1, <2>3, <2>4, <2>5
<1>7. CASE RequestChanges \/ Retry \/ Resume \/ Crash \/ Fail \/ RefuseReply
  <2>1. /\ state' \in SavedState /\ state'.round = state.round
        /\ pc' \in {"drive", "down"} /\ (pc' = "drive" => state'.status = "running")
    <3>1. CASE RequestChanges
      <4>1. 0 \in 0..MaxTurns
        BY EvaluationAssumption
      <4>2. /\ pc' = "drive"
            /\ state' = [state EXCEPT !.status = "running", !.phase = "prompt",
                           !.kind = "review_repair", !.turns = 0, !.summary = {}]
        BY <3>1 DEF RequestChanges
      <4> HIDE DEF Inv
      <4> QED BY <1>4, <4>1, <4>2 DEF SavedState
    <3>2. CASE Retry
      BY <1>4, <3>2 DEF Retry, SavedState
    <3>3. CASE Resume \/ Crash
      BY <1>4, <3>3 DEF Resume, Crash
    <3>4. CASE Fail \/ RefuseReply
      BY <1>4, <3>4 DEF Fail, RefuseReply, Broken, SavedState
    <3> QED BY <1>7, <3>1, <3>2, <3>3, <3>4
  <2>2. /\ state'.kind # "none" <=> state'.phase = "prompt"
        /\ state'.phase \in {"evaluation", "evaluating"} => state'.phase = state.phase
    BY <1>4, <1>7 DEF RequestChanges, Retry, Resume, Crash, Fail, RefuseReply, Broken, InStep,
      SavedState
  <2>3. \/ state' = state
        \/ state'.status \in {"running", "infrastructure_error"} /\ state'.kind # "evaluation_repair"
    <3>1. pc \in {"search", "read", "spec_role", "architecture_role"} => state.kind = "none"
      BY DEF InStep, Working, Judging
    <3> QED BY <1>4, <1>7, <3>1 DEF RequestChanges, Retry, Resume, Crash, Fail, RefuseReply,
      Broken, SavedState
  <2>4. DataOK' /\ InStep'
    BY <1>2, <2>1, <2>2, BlankTyped DEF DataOK, InStep, Working, Judging
  <2>5. VerdictIsDocumented'
    BY <1>2, <2>3 DEF VerdictIsDocumented
  <2>6. FrozenOnce'
    BY <1>2, <1>3, <2>1 DEF FrozenOnce, Frozen, Judging
  <2>7. Published'
    BY <1>2, <2>1 DEF Published, FilesAgree, Working, Judging
  <2> QED BY <1>1, <2>4, <2>5, <2>6, <2>7
<1> QED BY <1>5, <1>6, <1>7
-----------------------------------------------------------------------------
(* The contexts: searched, read entry by entry, frozen and merged once. *)
LEMMA ContextKeeps ==
  ASSUME Inv, ReuseContext \/ Search \/ SearchReplies \/ ReadEntry \/ Freeze \/ MergeContexts
  PROVE  Inv'
<1> USE DEF Inv
<1>1. ServerOK'
  BY BudgetKeeps DEF ReuseContext, Search, SearchReplies, ReadEntry, Freeze, MergeContexts
<1>2. published' = published /\ state' = state /\ judged' = judged
  BY DEF ReuseContext, Search, SearchReplies, ReadEntry, Freeze, MergeContexts
<1>3. /\ pc \in {"context", "search", "read", "merge"}
      /\ pc' \in {"context", "search", "read", "merge", "spec_role"}
  BY DEF ReuseContext, Search, SearchReplies, ReadEntry, Freeze, MergeContexts, NextStage
<1>4. InStep' /\ VerdictIsDocumented'
  BY <1>2, <1>3 DEF InStep, Working, Judging, VerdictIsDocumented
<1>5. Published'
  <2>1. published.aggregate.round # state.round
    BY <1>3 DEF Published, Working
  <2> QED BY <1>2, <1>3, <2>1 DEF Published, Working, Judging
<1>6. /\ Blank \in Memory /\ Blank.findings = {} /\ Blank.stage = "spec"
      /\ mem \in Memory /\ mem.stage \in Stage
  BY BlankTyped DEF Blank, DataOK, Memory
<1>7. CASE ReuseContext \/ Search
  <2>1. context' = context /\ mem' \in {mem, Blank, [Blank EXCEPT !.stage = "architecture"]}
    BY <1>7 DEF ReuseContext, Search, NextStage
  <2>2. DataOK'
    BY <1>2, <1>6, <2>1 DEF DataOK, Memory, Stage
  <2>3. FrozenOnce'
    BY <1>2, <1>6, <1>7 DEF ReuseContext, Search, NextStage, Reuses, FrozenOnce, Frozen, Judging,
      Blank, Stage
  <2> QED BY <1>1, <1>4, <1>5, <2>2, <2>3
<1>8. CASE SearchReplies \/ ReadEntry
  <2>1. /\ mem' \in Memory /\ mem'.stage = mem.stage /\ mem'.findings = mem.findings
        /\ mem'.seen = mem.seen
    <3>1. CASE SearchReplies
      <4>1. PICK hits \in SUBSET StageTypes[mem.stage] :
              mem' = [mem EXCEPT !.found =
                        {[entry |-> e, revision |-> server[e].revision,
                          standing |-> server[e].standing] : e \in hits}]
        BY <3>1 DEF SearchReplies
      <4>2. hits \subseteq Entries
        BY <1>6 DEF StageTypes, Stage, Entries
      <4>3. \A e \in hits : [entry |-> e, revision |-> server[e].revision,
                              standing |-> server[e].standing] \in Hit
        BY <4>2 DEF ServerOK, Meta, Hit
      <4> QED BY <1>6, <4>1, <4>3 DEF Memory
    <3>2. CASE ReadEntry
      <4>1. PICK hit \in mem.found : \E rest \in {mem.found \ {hit}, {}} :
              mem' = [mem EXCEPT !.found = rest,
                        !.items = @ \cup {[entry |-> hit.entry, revision |-> hit.revision,
                                           standing |-> hit.standing,
                                           text |-> server[hit.entry].revision]}]
        BY <3>2 DEF ReadEntry
      <4>2. [entry |-> hit.entry, revision |-> hit.revision, standing |-> hit.standing,
             text |-> server[hit.entry].revision] \in Item
        BY <1>6 DEF Memory, Hit, ServerOK, Meta, Item
      <4>3. PICK rest \in {mem.found \ {hit}, {}} :
              mem' = [mem EXCEPT !.found = rest,
                        !.items = @ \cup {[entry |-> hit.entry, revision |-> hit.revision,
                                           standing |-> hit.standing,
                                           text |-> server[hit.entry].revision]}]
        BY <4>1
      <4>4. rest \in SUBSET Hit
        BY <1>6 DEF Memory
      <4> HIDE DEF Inv
      <4> QED BY <1>6, <4>2, <4>3, <4>4 DEF Memory
    <3> QED BY <1>8, <3>1, <3>2
  <2>2. context' = context /\ pc \in {"search", "read"} /\ pc' = "read"
    BY <1>8 DEF SearchReplies, ReadEntry
  <2>3. DataOK' /\ FrozenOnce'
    BY <1>2, <2>1, <2>2 DEF DataOK, FrozenOnce, Frozen, Judging
  <2> QED BY <1>1, <1>4, <1>5, <2>3
<1>9. CASE Freeze
  <2>1. As(mem.items) \in Context
    BY <1>6 DEF As, Context, Memory
  <2>2. ~Frozen(mem.stage) /\ ~Frozen("merged")
    BY <1>6, <1>9 DEF Freeze, FrozenOnce, Frozen, Stage
  <2>3. judged = {} /\ published.aggregate.round = 0
    BY <2>2, EvaluationAssumption DEF FrozenOnce, DataOK, Files, None
  <2>4. CASE mem.stage = "spec"
    <3>1. /\ context' = [context EXCEPT !.spec = As(mem.items)]
          /\ pc' = "context" /\ mem' = [Blank EXCEPT !.stage = "architecture"]
      BY <1>9, <2>4 DEF Freeze, NextStage
    <3>2. DataOK'
      BY <1>2, <1>6, <2>1, <3>1 DEF DataOK, Memory, Stage
    <3>3. /\ context'.spec.frozen /\ ~context'.merged.frozen
          /\ mem'.findings = {} /\ mem'.stage = "architecture"
      BY <2>2, <3>1 DEF DataOK, Frozen, As, Blank
    <3>4. FrozenOnce'
      BY <1>2, <2>3, <3>1, <3>3 DEF FrozenOnce, Frozen, Judging
    <3> QED BY <1>1, <1>4, <1>5, <3>2, <3>4
  <2>5. CASE mem.stage = "architecture"
    <3>1. /\ context' = [context EXCEPT !.architecture = As(mem.items)]
          /\ pc' = "merge" /\ mem' = Blank
      BY <1>9, <2>5 DEF Freeze, NextStage
    <3>2. DataOK'
      BY <1>2, <1>6, <2>1, <3>1 DEF DataOK
    <3>3. context'.spec.frozen /\ context'.architecture.frozen /\ ~context'.merged.frozen
      BY <1>9, <2>2, <2>5, <3>1 DEF Freeze, DataOK, FrozenOnce, Frozen, As
    <3>4. FrozenOnce'
      BY <1>2, <1>6, <2>3, <3>1, <3>3 DEF FrozenOnce, Frozen, Judging
    <3> QED BY <1>1, <1>4, <1>5, <3>2, <3>4
  <2> QED BY <1>6, <2>4, <2>5 DEF Stage
<1>10. CASE MergeContexts
  <2> DEFINE merged == IF Frozen("merged") THEN context.merged.items
                       ELSE Merge(context.spec.items, context.architecture.items)
  <2>1. /\ context' = [context EXCEPT !.merged = As(merged)]
        /\ mem' = [Blank EXCEPT !.seen = merged] /\ pc = "merge" /\ pc' = "spec_role"
    BY <1>10 DEF MergeContexts
  <2>2. merged = Merge(context.spec.items, context.architecture.items)
    BY DEF FrozenOnce
  <2>3. merged \in SUBSET Item
    BY <2>2 DEF DataOK, Context, Merge
  <2>4. Frozen("merged") => merged = context.merged.items
    OBVIOUS
  <2>5. Frozen("spec") /\ Frozen("architecture")
    BY <2>1 DEF FrozenOnce
  <2> HIDE DEF merged
  <2>6. context' \in [spec : Context, architecture : Context, merged : Context]
    BY <2>1, <2>3 DEF DataOK, As, Context
  <2>7. mem' \in Memory /\ mem'.seen = merged /\ mem'.findings = {} /\ mem'.stage = "spec"
    BY <1>6, <2>1, <2>3 DEF Memory, Blank
  <2>8. /\ context'.merged = As(merged) /\ context'.spec = context.spec
        /\ context'.architecture = context.architecture
    BY <2>1 DEF DataOK
  <2>9. FrozenOnce'
    BY <1>2, <2>1, <2>2, <2>4, <2>5, <2>7, <2>8 DEF FrozenOnce, Frozen, As, Judging
  <2> QED BY <1>1, <1>2, <1>4, <1>5, <2>6, <2>7, <2>9 DEF DataOK
<1> QED BY <1>7, <1>8, <1>9, <1>10

(* The two roles reply, or are asked again. *)
LEMMA RolesKeep ==
  ASSUME Inv, AskAgain \/ SpecReplies \/ ArchitectureReplies
  PROVE  Inv'
<1> USE DEF Inv
<1>1. ServerOK'
  BY BudgetKeeps DEF AskAgain, SpecReplies, ArchitectureReplies
<1>2. /\ context' = context /\ published' = published /\ state' = state /\ judged' = judged
      /\ pc \in {"spec_role", "architecture_role"}
      /\ pc' \in {"spec_role", "architecture_role", "write_spec"}
  BY DEF AskAgain, SpecReplies, ArchitectureReplies
<1>3. /\ mem' \in Memory /\ mem'.stage = mem.stage /\ mem'.seen = mem.seen
      /\ \A f \in mem'.findings : f.item \in mem.seen
  <2>1. mem \in Memory /\ \A f \in mem.findings : f.item \in mem.seen
    BY DEF DataOK, FrozenOnce
  <2>2. CASE AskAgain
    BY <2>1, <2>2 DEF AskAgain, Memory
  <2>3. CASE SpecReplies
    BY <2>1, <2>3 DEF SpecReplies, Memory
  <2>4. CASE ArchitectureReplies
    <3>1. PICK marks \in [mem.seen -> Mark] :
            mem' = [mem EXCEPT !.asked = 0,
                      !.findings = {[item |-> i, mark |-> marks[i]] :
                                      i \in {j \in mem.seen : marks[j] # "fine"}}]
      BY <2>4 DEF ArchitectureReplies
    <3> DEFINE findings == {[item |-> i, mark |-> marks[i]] :
                              i \in {j \in mem.seen : marks[j] # "fine"}}
    <3>2. findings \in SUBSET Finding /\ \A f \in findings : f.item \in mem.seen
      BY <2>1 DEF Memory, Finding
    <3>3. mem' = [mem EXCEPT !.asked = 0, !.findings = findings]
      BY <3>1
    <3> HIDE DEF findings, Inv
    <3> QED BY <2>1, <3>2, <3>3 DEF Memory
  <2> QED BY <2>2, <2>3, <2>4
<1>4. DataOK' /\ InStep' /\ VerdictIsDocumented'
  BY <1>2, <1>3 DEF DataOK, InStep, Working, Judging, VerdictIsDocumented
<1>5. FrozenOnce'
  BY <1>2, <1>3 DEF FrozenOnce, Frozen, Judging
<1>6. Published'
  BY <1>2 DEF Published, FilesAgree, Working, Judging
<1> QED BY <1>1, <1>4, <1>5, <1>6

(* The three files, one at a time: until the last one is written the        *)
(* aggregate on file is of an earlier round.                                *)
LEMMA PublishKeeps ==
  ASSUME Inv, Publish
  PROVE  Inv'
<1> USE DEF Inv
<1>1. ServerOK'
  BY BudgetKeeps DEF Publish, Write
<1>2. /\ context' = context /\ state' = state /\ mem' = mem /\ judged' = judged
      /\ pc \in {"write_spec", "write_architecture", "write_aggregate"}
      /\ pc' \in {"write_architecture", "write_aggregate", "apply"}
  BY DEF Publish, Write
<1>3. InStep' /\ VerdictIsDocumented'
  BY <1>2 DEF InStep, Working, Judging, VerdictIsDocumented
<1>4. /\ published \in Files /\ mem \in Memory /\ state.round \in 0..MaxRounds
      /\ published.aggregate.round # state.round /\ state.round > 0
      /\ Frozen("merged") /\ mem.seen = context.merged.items
      /\ \A f \in mem.findings : f.item \in mem.seen
  BY <1>2 DEF DataOK, SavedState, Published, Working, Judging, InStep, FrozenOnce
<1>5. CASE Write("write_spec", "spec", SpecFile, "write_architecture")
  <2>1. /\ pc = "write_spec" /\ pc' = "write_architecture"
        /\ published' = [published EXCEPT !.spec = SpecFile]
    BY <1>5 DEF Write
  <2>2. /\ published' \in Files /\ published'.spec = SpecFile
        /\ published'.aggregate = published.aggregate
    BY <1>4, <2>1 DEF Files, Memory, SpecFile
  <2>3. DataOK' /\ FrozenOnce'
    BY <1>2, <2>1, <2>2 DEF DataOK, FrozenOnce, Frozen, Judging
  <2>4. Published'
    BY <1>2, <1>4, <2>1, <2>2 DEF Published, Working, Judging, SpecFile
  <2> QED BY <1>1, <1>3, <2>3, <2>4
<1>6. CASE Write("write_architecture", "architecture", ArchitectureFile, "write_aggregate")
  <2>1. /\ pc = "write_architecture" /\ pc' = "write_aggregate"
        /\ published' = [published EXCEPT !.architecture = ArchitectureFile]
    BY <1>6 DEF Write
  <2>2. /\ published' \in Files /\ published'.architecture = ArchitectureFile
        /\ published'.spec = published.spec /\ published'.aggregate = published.aggregate
    BY <1>4, <2>1 DEF Files, Memory, ArchitectureFile
  <2>3. DataOK' /\ FrozenOnce'
    BY <1>2, <2>1, <2>2 DEF DataOK, FrozenOnce, Frozen, Judging
  <2>4. Published'
    BY <1>2, <1>4, <2>1, <2>2 DEF Published, Working, Judging, SpecFile, ArchitectureFile
  <2> QED BY <1>1, <1>3, <2>3, <2>4
<1>7. CASE Write("write_aggregate", "aggregate", AggregateFile, "apply")
  <2>1. /\ pc = "write_aggregate" /\ pc' = "apply"
        /\ published' = [published EXCEPT !.aggregate = AggregateFile]
        /\ published.spec = SpecFile /\ published.architecture = ArchitectureFile
    BY <1>7 DEF Write, Published
  <2>2. Blocking(mem.spec, mem.findings) \in SUBSET Reason
    BY <1>4, BlockingTyped DEF Memory
  <2>3. /\ published' \in Files /\ published'.aggregate = AggregateFile
        /\ published'.spec = SpecFile /\ published'.architecture = ArchitectureFile
    BY <1>4, <2>1, <2>2 DEF Files, Memory, AggregateFile
  <2>4. DataOK' /\ FrozenOnce'
    BY <1>2, <1>4, <2>1, <2>3 DEF DataOK, FrozenOnce, Frozen, Judging, AggregateFile
  <2>5. FilesAgree'
    BY <1>2, <1>4, <2>3 DEF FilesAgree, SpecFile, ArchitectureFile, AggregateFile
  <2>6. Published'
    BY <1>2, <1>4, <2>1, <2>3, <2>5 DEF Published, Working, Judging, AggregateFile
  <2> QED BY <1>1, <1>3, <2>4, <2>6
<1> QED BY <1>5, <1>6, <1>7 DEF Publish

(* The verdict is that of the files. *)
LEMMA ApplyKeeps ==
  ASSUME Inv, ApplyEvaluation
  PROVE  Inv'
<1> USE DEF Inv
<1> DEFINE blocking == published.aggregate.blocking
           next == CASE blocking = {} -> "success"
                     [] blocking # {} /\ state.turns >= MaxTurns -> "manual_review"
                     [] OTHER -> "running"
<1>1. ServerOK'
  BY BudgetKeeps DEF ApplyEvaluation
<1>2. /\ pc = "apply" /\ pc' = IF next = "running" THEN "drive" ELSE "down"
      /\ state' = [state EXCEPT !.summary = blocking, !.status = next,
                      !.phase = IF next = "running" THEN "prompt" ELSE "completed",
                      !.kind = IF next = "running" THEN "evaluation_repair" ELSE "none"]
      /\ judged' = judged \cup {published.aggregate.context}
      /\ mem' = Blank /\ context' = context /\ published' = published
  BY DEF ApplyEvaluation
<1>3. /\ state.round > 0 /\ published.aggregate.round = state.round /\ FilesAgree
      /\ Frozen("merged") /\ published.aggregate.context = context.merged.items
  BY <1>2 DEF InStep, Published, FrozenOnce
<1>4. next \in {"success", "manual_review", "running"} /\ (next = "success" <=> blocking = {})
  OBVIOUS
<1>5. blocking \in SUBSET Reason
  BY <1>3 DEF DataOK, Files, None
<1> HIDE DEF blocking, next
<1>6. /\ state' \in SavedState /\ state'.round = state.round /\ state'.status = next
      /\ state'.phase = (IF next = "running" THEN "prompt" ELSE "completed")
      /\ state'.kind = (IF next = "running" THEN "evaluation_repair" ELSE "none")
  BY <1>2, <1>4, <1>5 DEF DataOK, SavedState
<1>7. DataOK' /\ InStep'
  BY <1>2, <1>4, <1>6, BlankTyped DEF DataOK, InStep, Working, Judging
<1>8. FrozenOnce'
  <2>1. Blank.findings = {}
    BY DEF Blank
  <2> QED BY <1>2, <1>3, <1>6, <2>1 DEF FrozenOnce, Frozen, Judging
<1>9. Published'
  BY <1>2, <1>3, <1>6 DEF Published, FilesAgree, Working, Judging
<1>10. VerdictIsDocumented'
  <2> DEFINE failed == {c \in Criteria : published.spec.marks[c] = "supported"}
             sound == {f \in published.architecture.findings :
                         /\ f.mark = "supported" /\ f.item \in context.merged.items
                         /\ f.item.standing = "sound" /\ f.item.entry \in StrongTypes}
  <2>1. blocking = {} <=>
          /\ \A c \in Criteria : published.spec.marks[c] # "supported"
          /\ \A f \in published.architecture.findings :
               ~(f.mark = "supported" /\ Strength(f.item) = "strong")
    BY <1>3, BlockingIsEmpty DEF FilesAgree, blocking
  <2>2. blocking = {} <=> failed = {} /\ sound = {}
    BY <1>3, <2>1, StrongItems DEF FilesAgree
  <2>3. state'.status = "success" <=> failed = {} /\ sound = {}
    BY <1>4, <1>6, <2>2
  <2>4. \A name \in {"spec", "architecture", "aggregate"} : published[name].round = state.round
    BY <1>3 DEF FilesAgree
  <2> QED BY <1>2, <1>6, <2>3, <2>4 DEF VerdictIsDocumented
<1> QED BY <1>1, <1>7, <1>8, <1>9, <1>10
-----------------------------------------------------------------------------
(* Every step keeps the invariant. *)
LEMMA NextKeeps == Inv /\ [Next]_vars => Inv'
<1> SUFFICES ASSUME Inv, [Next]_vars PROVE Inv'
  OBVIOUS
<1>1. CASE Next
  BY <1>1, EditKeeps, RunKeeps, ContextKeeps, RolesKeep, PublishKeeps, ApplyKeeps DEF Next
<1>2. CASE UNCHANGED vars
  BY <1>2 DEF vars, Inv, ServerOK, DataOK, InStep, FrozenOnce, Frozen, Published, FilesAgree,
    SpecFile, ArchitectureFile, VerdictIsDocumented
<1> QED BY <1>1, <1>2

(* Through every edit, fault and crash the files, the contexts and the run  *)
(* stay consistent with each other.                                         *)
THEOREM EvaluationInvariant == Spec => []Inv
BY InitInv, NextKeeps, PTL DEF Spec

(* The knowledge, the contexts, the files and the run keep their types. *)
THEOREM EvaluationTypes == Spec => []TypeOK
<1>1. Inv => TypeOK
  <2> SUFFICES ASSUME Inv PROVE TypeOK
    OBVIOUS
  <2>1. \A name \in {"spec", "architecture", "merged"} :
          context[name].frozen \in BOOLEAN /\ context[name].items \subseteq Item
    BY DEF Inv, DataOK, Context
  <2>2. \A name \in {"spec", "architecture", "aggregate"} :
          published[name].round \in 0..MaxRounds
    BY EvaluationAssumption DEF Inv, DataOK, Files, None
  <2>3. /\ state.status \in {"running", "success", "manual_review", "infrastructure_error"}
        /\ state.phase \in {"prompt", "validation", "evaluation", "evaluating", "completed"}
        /\ state.kind \in {"none", "initial", "evaluation_repair", "review_repair"}
        /\ state.round \in 0..MaxRounds /\ state.turns \in 0..MaxTurns
    BY DEF Inv, DataOK, SavedState
  <2>4. mem.seen \subseteq Item /\ mem.items \subseteq Item /\ mem.asked \in {0, 1}
    BY DEF Inv, DataOK, Memory
  <2> QED BY <2>1, <2>2, <2>3, <2>4 DEF Inv, ServerOK, InStep, TypeOK
<1> QED BY <1>1, EvaluationInvariant, PTL

(* All that a run was ever judged by is the one context merged from the two *)
(* frozen first, whatever became of the knowledge since.                    *)
THEOREM JudgedByOneContext == Spec => []OneYardstick
<1>1. Inv => OneYardstick
  BY DEF Inv, FrozenOnce, OneYardstick
<1> QED BY <1>1, EvaluationInvariant, PTL

(* A verdict that stands is the one its three files give, and they are of   *)
(* the round it was given for.                                              *)
THEOREM VerdictsAreDocumented == Spec => []VerdictIsDocumented
<1>1. Inv => VerdictIsDocumented
  BY DEF Inv
<1> QED BY <1>1, EvaluationInvariant, PTL
=============================================================================
