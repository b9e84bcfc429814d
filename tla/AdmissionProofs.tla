--------------------------- MODULE AdmissionProofs ---------------------------
(***************************************************************************)
(* For any number of confirmations, requests, projects and crashes: the    *)
(* types of Admission and the count of permits, that a project has at most *)
(* one unfinished piece of work that was not revived, that nothing started *)
(* leaves out a criterion of the requirement, and that a plan starts one   *)
(* piece of work.                                                          *)
(***************************************************************************)
EXTENDS Admission, FiniteSetTheorems, TLAPS

(* The permits that are left, and those in use, are all there are. *)
Permits ==
  /\ others \in [inside : Nat, seen : Nat] /\ gate \in Nat
  /\ job \in [id : Ids \union {Nobody}, running : BOOLEAN, begun : BOOLEAN]
  /\ gate + Inside = MaxParallel

PlanTypes ==
  /\ draft \in SUBSET Criteria /\ drafts \in Folder
  /\ target \in [Confirmers -> Folder] /\ raced \in BOOLEAN

RequestTypes ==
  /\ pc \in [Ids -> Steps] /\ mode \in [Ids -> Modes]
  /\ spec \in [Confirmers -> Drafts \union {NoDraft}]
  /\ lock \in [Modes -> Ids \union {Nobody}]

Stages == {"none", "accepted", "unfinished", "failed", "final", "refused", "lost"}

(* Two pieces of unfinished work are the same one, or one of them was revived; and what *)
(* the executor has got to work on is unfinished.                                       *)
AtMostOne ==
  /\ stage \in [Ids -> Stages] /\ revived \subseteq Ids
  /\ \A x, y \in Unfinished \ revived : x = y
  /\ job.running => job.id \in Ids
  /\ job.begun => job.running /\ job.id \in Unfinished

(* A confirmation that has been accepted is of a plan that covers every     *)
(* criterion, and an id that was started is not confirmed another time.     *)
Covered ==
  /\ draft # {} => draft = Criteria
  /\ \A c \in Confirmers :
       /\ pc[c] = "read" => draft = Criteria
       /\ pc[c] \in {"write", "target", "rename", "admit", "submit"} => spec[c].covers = Criteria
       /\ stage[c] # "none" => pc[c] \notin {"new", "read"} /\ spec[c].covers = Criteria

Inv == Permits /\ PlanTypes /\ RequestTypes /\ crashes \in Nat /\ AtMostOne /\ Covered

(* In an empty project nothing is unfinished and every permit is left. *)
LEMMA InitInv == Init => Inv
<1> SUFFICES ASSUME Init PROVE Inv
  OBVIOUS
<1>1. Permits
  BY ConstantAssumption DEF Init, Permits, Inside, NoJob
<1>2. PlanTypes /\ RequestTypes /\ crashes \in Nat
  BY DEF Init, PlanTypes, RequestTypes, NoFolder, Folder, Steps, Modes
<1>3. AtMostOne /\ Covered
  BY DEF Init, AtMostOne, Covered, Unfinished, Stages, Ids, NoJob
<1> QED BY <1>1, <1>2, <1>3 DEF Inv

(* A plan being drafted and confirmed: what is read is accepted only when it covers *)
(* everything it is held against, and that is the requirement of the draft.         *)
LEMMA ConfirmationKeeps ==
  ASSUME Inv,
         \/ \E d \in Drafts : Generate(d.covers)
         \/ \E c \in Confirmers :
              \/ Confirm(c) \/ WriteConfirmation(c) \/ MakeTarget(c) \/ RenamePlan(c)
              \/ \E m \in Modes, d \in Drafts : ReadDraft(c, m, d)
  PROVE  Inv'
<1> USE DEF Inv
<1>1. ASSUME NEW d \in Drafts, Generate(d.covers) PROVE Inv'
  <2>1. draft' = Criteria
    BY <1>1 DEF Generate
  <2>2. Permits' /\ RequestTypes' /\ crashes' \in Nat /\ AtMostOne'
    BY <1>1 DEF Generate, server, work, Permits, Inside, RequestTypes, AtMostOne, Unfinished
  <2>3. PlanTypes'
    BY <1>1, <2>1 DEF Generate, PlanTypes, Folder
  <2>4. Covered'
    BY <1>1, <2>1 DEF Generate, server, work, Covered
  <2> QED BY <2>2, <2>3, <2>4
<1>2. ASSUME NEW c \in Confirmers, Confirm(c) PROVE Inv'
  <2>1. Permits' /\ PlanTypes' /\ RequestTypes' /\ crashes' \in Nat /\ AtMostOne'
    BY <1>2 DEF Confirm, Goto, plan, work, Permits, Inside, PlanTypes, RequestTypes, AtMostOne,
      Unfinished, Steps, Ids
  <2>2. Covered'
    BY <1>2 DEF Confirm, Goto, plan, work, Covered, RequestTypes, Ids
  <2> QED BY <2>1, <2>2
<1>3. ASSUME NEW c \in Confirmers, NEW m \in Modes, NEW d \in Drafts, ReadDraft(c, m, d)
      PROVE  Inv'
  <2>1. Permits' /\ PlanTypes' /\ RequestTypes' /\ crashes' \in Nat /\ AtMostOne'
    BY <1>3 DEF ReadDraft, Goto, plan, work, Permits, Inside, PlanTypes, RequestTypes, AtMostOne,
      Unfinished, Steps, Ids
  <2>2. CASE drafts.draft /\ Confirmable(d)
    <3>1. d.covers = Criteria
      BY <1>3, <2>2 DEF ReadDraft, Confirmable, ValidDraft, Status, Covered
    <3>2. Covered'
      BY <1>3, <2>2, <3>1 DEF ReadDraft, Goto, plan, work, Covered, RequestTypes, Ids
    <3> QED BY <2>1, <3>2
  <2>3. CASE ~ (drafts.draft /\ Confirmable(d))
    <3>1. Covered'
      BY <1>3, <2>3 DEF ReadDraft, Goto, plan, work, Covered, RequestTypes, Ids
    <3> QED BY <2>1, <3>1
  <2> QED BY <2>2, <2>3
<1>4. ASSUME NEW c \in Confirmers, WriteConfirmation(c) \/ MakeTarget(c) \/ RenamePlan(c)
      PROVE  Inv'
  <2> USE <1>4 DEF WriteConfirmation, MakeTarget, RenamePlan, Goto, work
  <2>1. Permits' /\ crashes' \in Nat /\ AtMostOne'
    BY DEF Permits, Inside, AtMostOne, Unfinished
  <2>2. PlanTypes'
    <3>1. raced' \in BOOLEAN
      BY Zenon DEF PlanTypes
    <3>2. drafts' \in Folder /\ UNCHANGED draft
      <4>1. CASE WriteConfirmation(c)
        BY <4>1 DEF PlanTypes, Folder
      <4>2. NoFolder \in Folder
        BY DEF NoFolder, Folder
      <4>3. CASE MakeTarget(c) \/ RenamePlan(c)
        BY <4>2, <4>3 DEF PlanTypes
      <4> QED BY <4>1, <4>3
    <3>3. [target[c] EXCEPT !.exists = TRUE] \in Folder
      BY DEF PlanTypes, Folder
    <3>4. \/ target' = [target EXCEPT ![c] = [target[c] EXCEPT !.exists = TRUE]]
          \/ target' = [target EXCEPT ![c] = drafts] \/ UNCHANGED target
      OBVIOUS
    <3> QED BY <3>1, <3>2, <3>3, <3>4 DEF PlanTypes
  <2>3. RequestTypes'
    BY DEF RequestTypes, Steps, Ids
  <2>4. Covered'
    BY DEF Covered, RequestTypes, Ids
  <2> QED BY <2>1, <2>2, <2>3, <2>4
<1> QED BY <1>1, <1>2, <1>3, <1>4

(* A request on its way to the executor: a queue is durable only where nothing else *)
(* is unfinished.                                                                   *)
LEMMA RequestKeeps ==
  ASSUME Inv, NEW x \in Ids,
         \/ x \in Direct /\ \E m \in Modes : Request(x, m)
         \/ Admit(x) \/ Submit(x) \/ Resume(x) \/ PauseFailed(x) \/ RetryCommit(x)
         \/ \E s \in {"final", "failed"} : Conclude(x, s)
  PROVE  Inv'
<1> USE DEF Inv
<1>1. ASSUME x \in Direct, NEW m \in Modes, Request(x, m) PROVE Inv'
  <2> USE <1>1 DEF Request, Goto, plan, work
  <2>1. Permits' /\ PlanTypes' /\ RequestTypes' /\ crashes' \in Nat /\ AtMostOne'
    BY DEF Permits, Inside, PlanTypes, RequestTypes, AtMostOne, Unfinished, Steps, Ids
  <2>2. Covered'
    BY ConstantAssumption DEF Covered, RequestTypes
  <2> QED BY <2>1, <2>2
<1>2. ASSUME Admit(x) PROVE Inv'
  <2> USE <1>2 DEF Admit, Goto, plan, work
  <2>1. Permits' /\ PlanTypes' /\ crashes' \in Nat /\ AtMostOne'
    BY DEF Permits, Inside, PlanTypes, AtMostOne, Unfinished
  <2>2. RequestTypes'
    BY DEF RequestTypes, Steps, Ids
  <2>3. Covered'
    BY DEF Covered, RequestTypes, Ids
  <2> QED BY <2>1, <2>2, <2>3
<1>3. ASSUME Submit(x) PROVE Inv'
  <2> USE <1>3 DEF Submit, plan
  <2>1. Permits'
    <3>1. CASE UNCHANGED job
      BY <3>1 DEF Permits, Inside
    <3>2. CASE job = NoJob /\ Reserve(x)
      BY <3>2 DEF Permits, Inside, Reserve, NoJob
    <3> QED BY <3>1, <3>2 DEF Active
  <2>2. PlanTypes' /\ RequestTypes' /\ crashes' \in Nat
    BY DEF PlanTypes, RequestTypes, Goto, Steps, Ids
  <2>3. AtMostOne'
    <3>1. CASE UNCHANGED <<job, stage>>
      BY <3>1 DEF AtMostOne, Unfinished
    <3>2. CASE ~ (Active \/ (mode[x] = "queue" /\ Unfinished # {}))
      BY <3>2 DEF AtMostOne, Unfinished, Stages, RequestTypes, Modes, Reserve
    <3> QED BY <3>1, <3>2
  <2>4. Covered'
    BY DEF Covered, Goto, RequestTypes, AtMostOne, Stages, Ids
  <2> QED BY <2>1, <2>2, <2>3, <2>4
<1>4. ASSUME Resume(x) PROVE Inv'
  <2> USE <1>4 DEF Resume, plan, server
  <2>1. Permits'
    BY DEF Permits, Inside, Active, Reserve, NoJob, Ids
  <2>2. PlanTypes' /\ RequestTypes' /\ crashes' \in Nat /\ AtMostOne' /\ Covered'
    BY DEF PlanTypes, RequestTypes, AtMostOne, Unfinished, Reserve, Covered
  <2> QED BY <2>1, <2>2
<1>5. ASSUME NEW s \in {"final", "failed"}, Conclude(x, s) PROVE Inv'
  <2> USE <1>5 DEF Conclude, plan, server
  <2>1. Permits' /\ PlanTypes' /\ RequestTypes' /\ crashes' \in Nat
    BY DEF Permits, Inside, PlanTypes, RequestTypes
  <2>2. AtMostOne' /\ Covered'
    BY DEF AtMostOne, Unfinished, Failed, Stages, Covered, Ids
  <2> QED BY <2>1, <2>2
<1>6. ASSUME PauseFailed(x) \/ RetryCommit(x) PROVE Inv'
  <2> USE <1>6 DEF PauseFailed, RetryCommit, Revives, plan, server
  <2>1. Permits' /\ PlanTypes' /\ RequestTypes' /\ crashes' \in Nat
    BY DEF Permits, Inside, PlanTypes, RequestTypes
  <2>2. AtMostOne' /\ Covered'
    BY DEF AtMostOne, Unfinished, Failed, Stages, Covered, Ids
  <2> QED BY <2>1, <2>2
<1> QED BY <1>1, <1>2, <1>3, <1>4, <1>5, <1>6

(* The worker, the other projects and the end of the process: a task begins only where *)
(* nothing is unfinished, and every permit is returned once.                           *)
LEMMA WorkKeeps ==
  ASSUME Inv, Worker \/ OtherEnters \/ OtherLeaves \/ Crash
  PROVE  Inv'
<1> USE DEF Inv
<1>1. ASSUME EnterGate \/ OtherEnters \/ OtherLeaves PROVE Inv'
  <2> USE <1>1 DEF EnterGate, OtherEnters, OtherLeaves, plan, server, work
  <2>1. Permits'
    <3>1. CASE EnterGate
      <4>1. ~ job.running /\ job'.running /\ job' \in [id : Ids \union {Nobody}, running : BOOLEAN, begun : BOOLEAN]
        BY <3>1 DEF Permits
      <4>2. gate' = gate - 1 /\ gate > 0 /\ UNCHANGED others
        BY <3>1
      <4> QED BY <4>1, <4>2, ConstantAssumption DEF Permits, Inside
    <3>2. CASE OtherEnters \/ OtherLeaves
      BY <3>2 DEF Permits, Inside
    <3> QED BY <3>1, <3>2
  <2>2. PlanTypes' /\ RequestTypes' /\ crashes' \in Nat /\ Covered'
    BY DEF PlanTypes, RequestTypes, Covered
  <2>3. AtMostOne'
    <3>1. CASE EnterGate
      <4>1. job.id # Nobody /\ job'.id = job.id /\ job'.begun = job.begun /\ job'.running
        BY <3>1 DEF Permits, Active, NoJob, AtMostOne
      <4> QED BY <3>1, <4>1 DEF Permits, AtMostOne, Unfinished
    <3>2. CASE OtherEnters \/ OtherLeaves
      BY <3>2 DEF AtMostOne, Unfinished
    <3> QED BY <3>1, <3>2
  <2> QED BY <2>1, <2>2, <2>3
<1>2. ASSUME BeginTask \/ ReviveQueue \/ TakeUp PROVE Inv'
  <2> USE <1>2 DEF BeginTask, ReviveQueue, TakeUp, Revives, LeaveGate, plan, server
  <2>1. Permits'
    <3>1. CASE UNCHANGED gate /\ job' \in {job, [job EXCEPT !.begun = TRUE]}
      BY <3>1 DEF Permits, Inside
    <3>2. CASE job.running /\ job' = NoJob /\ gate' = gate + 1
      BY <3>2 DEF Permits, Inside, NoJob
    <3> QED BY <3>1, <3>2
  <2>2. PlanTypes' /\ RequestTypes' /\ crashes' \in Nat
    BY DEF PlanTypes, RequestTypes
  <2>3. AtMostOne'
    <3>1. CASE BeginTask
      <4>1. job.id \in Ids /\ stage[job.id] \notin {"unfinished", "none"}
        BY <3>1 DEF AtMostOne
      <4>2. ~ job.begun
        BY <4>1 DEF AtMostOne, Unfinished
      <4>3. CASE Unfinished = {}
        <5>1. Unfinished' = {job.id} /\ job'.id = job.id /\ job'.running /\ stage' \in [Ids -> Stages]
          BY <3>1, <4>1, <4>3 DEF AtMostOne, Unfinished, Stages, Permits
        <5> QED BY <3>1, <4>1, <5>1 DEF AtMostOne
      <4>4. CASE Unfinished # {}
        BY <3>1, <4>1, <4>2, <4>4 DEF AtMostOne, Unfinished, Stages, NoJob
      <4> QED BY <4>3, <4>4
    <3>2. CASE ReviveQueue
      <4>1. job.id \in Ids /\ ~ job.begun
        BY <3>2 DEF AtMostOne, Unfinished, Failed
      <4>2. CASE stage' = [stage EXCEPT ![job.id] = "unfinished"] /\ UNCHANGED job
                 /\ revived' = revived \union {job.id}
        BY <4>1, <4>2 DEF AtMostOne, Unfinished, Stages
      <4>3. ASSUME NEW s \in {"failed", "final"}, stage' = [stage EXCEPT ![job.id] = s],
                   job' = NoJob, UNCHANGED revived
            PROVE  AtMostOne'
        BY <4>1, <4>3 DEF AtMostOne, Unfinished, Stages, NoJob
      <4> QED BY <3>2, <4>2, <4>3
    <3>3. CASE TakeUp
      BY <3>3 DEF AtMostOne, Unfinished, Stages, Permits, NoJob, Ids
    <3> QED BY <3>1, <3>2, <3>3
  <2>4. Covered'
    BY DEF Covered, AtMostOne, Stages, Failed, Ids
  <2> QED BY <2>1, <2>2, <2>3, <2>4
<1>3. ASSUME NEW s \in Outcomes, EndJob(s) PROVE Inv'
  <2> USE <1>3 DEF EndJob, Outcomes, LeaveGate, plan, server
  <2>1. Permits'
    BY DEF Permits, Inside, NoJob, AtMostOne
  <2>2. PlanTypes' /\ RequestTypes' /\ crashes' \in Nat
    BY DEF PlanTypes, RequestTypes
  <2>3. AtMostOne'
    BY DEF AtMostOne, Unfinished, Stages, NoJob
  <2>4. Covered'
    BY DEF Covered, AtMostOne, Unfinished, Stages, Ids
  <2> QED BY <2>1, <2>2, <2>3, <2>4
<1>4. ASSUME Crash PROVE Inv'
  <2> USE <1>4 DEF Crash, plan
  <2>1. Permits'
    BY ConstantAssumption DEF Permits, Inside, NoJob
  <2>2. PlanTypes' /\ RequestTypes' /\ crashes' \in Nat
    BY DEF PlanTypes, RequestTypes, Steps
  <2>3. AtMostOne'
    BY DEF AtMostOne, Unfinished, Stages, NoJob
  <2>4. Covered'
    BY DEF Covered, RequestTypes, AtMostOne, Ids
  <2> QED BY <2>1, <2>2, <2>3, <2>4
<1> QED BY <1>1, <1>2, <1>3, <1>4 DEF Worker

(* Whatever is interleaved with whatever, the invariant holds. *)
THEOREM AdmissionInvariant == Spec => []Inv
<1>1. Inv /\ [Next]_vars => Inv'
  <2> SUFFICES ASSUME Inv, [Next]_vars PROVE Inv'
    OBVIOUS
  <2>1. CASE UNCHANGED vars
    BY <2>1 DEF vars, plan, server, work, Inv, Permits, Inside, PlanTypes, RequestTypes, AtMostOne,
      Unfinished, Covered
  <2>2. CASE Next
    BY <2>2, ConfirmationKeeps, RequestKeeps, WorkKeeps DEF Next, Ids
  <2> QED BY <2>1, <2>2
<1> QED BY <1>1, InitInv, PTL DEF Spec

(* The types hold, and no permit of the gate is ever lost or returned twice. *)
THEOREM AdmissionTypes == Spec => []TypeOK
<1>1. Inv => TypeOK
  BY DEF Inv, TypeOK, Permits, PlanTypes, RequestTypes, AtMostOne, Unfinished, Stages
<1> QED BY <1>1, AdmissionInvariant, PTL

(* A project never has two unfinished pieces of work of which neither is a queue that *)
(* failed and was taken up again, for any number of requests: neither check is atomic *)
(* with what it admits, but the last one each passes is.                              *)
THEOREM AtMostOneUnfinished == Spec => []OneUnfinished
<1>1. Inv => OneUnfinished
  <2> SUFFICES ASSUME Inv PROVE OneUnfinished
    OBVIOUS
  <2> DEFINE U == Unfinished \ revived
  <2>1. CASE U = {}
    BY <2>1, FS_EmptySet DEF OneUnfinished
  <2>2. CASE U # {}
    <3>1. PICK x \in U : U = {x}
      BY <2>2 DEF Inv, AtMostOne
    <3> QED BY <3>1, FS_Singleton DEF OneUnfinished
  <2> QED BY <2>1, <2>2
<1> QED BY <1>1, AdmissionInvariant, PTL

(* Whatever the planner proposed and however its draft was edited, what is started covers *)
(* every acceptance criterion.                                                            *)
THEOREM WholePlansOnly == Spec => []WholePlanRuns
<1>1. Inv => WholePlanRuns
  BY DEF Inv, Covered, WholePlanRuns, Started
<1> QED BY <1>1, AdmissionInvariant, PTL
-----------------------------------------------------------------------------
(* The one plan.                                                            *)

(* The confirmations that have the plan's directory, or had it.             *)
Taken == {c \in Confirmers : pc[c] \in {"admit", "submit"} \/ stage[c] # "none"}

(* The directory is where the last writer left it until that writer moves   *)
(* it, and then nobody finds it who is not in a race.                       *)
OneFolder ==
  /\ drafts.exists => drafts.draft
  /\ \A c \in Confirmers :
       pc[c] \in {"target", "rename"} => drafts = [exists |-> TRUE, draft |-> TRUE, by |-> c]
  /\ \A c \in Taken : /\ ~drafts.exists
                      /\ target[c] = [exists |-> TRUE, draft |-> TRUE, by |-> c]
  /\ \A c, d \in Taken : c = d

OnePlan ==
  /\ draft = {} => /\ drafts = NoFolder
                   /\ \A c \in Confirmers : pc[c] \in {"new", "done"} /\ stage[c] = "none"
  /\ \A c \in Confirmers : stage[c] # "none" => pc[c] = "done"
  /\ raced \/ OneFolder

(* The plan is drafted once, and a confirmation writes, makes its target and moves the *)
(* directory there.                                                                    *)
LEMMA PlanStepKeepsOne ==
  ASSUME Inv, OnePlan,
         \/ \E d \in Drafts : Generate(d.covers)
         \/ \E c \in Confirmers :
              \/ Confirm(c) \/ WriteConfirmation(c) \/ MakeTarget(c) \/ RenamePlan(c)
              \/ \E m \in Modes, d \in Drafts : ReadDraft(c, m, d)
  PROVE  OnePlan'
<1> USE DEF OnePlan
<1>1. /\ pc \in [Ids -> Steps] /\ Confirmers \subseteq Ids /\ drafts \in Folder
      /\ target \in [Confirmers -> Folder]
  BY DEF Inv, RequestTypes, PlanTypes, Ids
<1>2. ASSUME NEW d \in Drafts, Generate(d.covers) PROVE OnePlan'
  <2>1. draft = {} /\ draft' # {} /\ UNCHANGED <<pc, stage, target, raced>>
    BY <1>2, ConstantAssumption DEF Generate, server, work
  <2>2. /\ drafts' = [exists |-> TRUE, draft |-> TRUE, by |-> Nobody]
        /\ \A c \in Confirmers : pc[c] \in {"new", "done"} /\ stage[c] = "none"
    BY <1>2, <2>1 DEF Generate
  <2>3. CASE raced
    BY <2>1, <2>2, <2>3
  <2>4. CASE ~raced
    <3>1. Taken' = {}
      BY <2>1, <2>2 DEF Taken
    <3>2. OneFolder'
      BY <2>1, <2>2, <3>1 DEF OneFolder
    <3> QED BY <2>1, <2>2, <3>2
  <2> QED BY <2>3, <2>4
<1>3. ASSUME NEW c \in Confirmers, Confirm(c) PROVE OnePlan'
  BY <1>1, <1>3 DEF Confirm, Goto, work, plan, OneFolder, Taken
<1>4. ASSUME NEW c \in Confirmers, NEW m \in Modes, NEW d \in Drafts, ReadDraft(c, m, d)
      PROVE  OnePlan'
  BY <1>1, <1>4 DEF ReadDraft, Goto, work, plan, OneFolder, Taken
<1>5. ASSUME NEW c \in Confirmers, WriteConfirmation(c) PROVE OnePlan'
  <2>1. /\ pc[c] = "write" /\ pc' = [pc EXCEPT ![c] = "target"]
        /\ drafts' = [drafts EXCEPT !.exists = TRUE, !.by = c]
        /\ UNCHANGED <<draft, target, stage>>
        /\ raced' = (raced \/ ~drafts.exists \/ \E d \in Confirmers : pc[d] \in {"target", "rename"})
    BY <1>5 DEF WriteConfirmation, Goto, work
  <2>2. ASSUME ~raced' PROVE OneFolder'
    <3>1. /\ OneFolder /\ drafts.exists
          /\ \A d \in Confirmers : pc[d] \notin {"target", "rename"}
      BY <2>1, <2>2
    <3>2. drafts' = [exists |-> TRUE, draft |-> TRUE, by |-> c]
      BY <1>1, <2>1, <3>1 DEF Folder, OneFolder
    <3>3. Taken' = {}
      BY <1>1, <2>1, <3>1 DEF Taken, OneFolder
    <3> QED BY <1>1, <2>1, <3>1, <3>2, <3>3 DEF OneFolder
  <2> QED BY <1>1, <2>1, <2>2
<1>6. ASSUME NEW c \in Confirmers, MakeTarget(c) PROVE OnePlan'
  <2>1. c \notin Taken
    BY <1>6 DEF MakeTarget, Taken
  <2> QED BY <1>1, <1>6, <2>1 DEF MakeTarget, Goto, work, OneFolder, Taken
<1>7. ASSUME NEW c \in Confirmers, RenamePlan(c) PROVE OnePlan'
  <2>1. CASE drafts.exists
    <3>1. /\ pc[c] = "rename" /\ pc' = [pc EXCEPT ![c] = "admit"] /\ drafts' = NoFolder
          /\ target' = [target EXCEPT ![c] = drafts] /\ UNCHANGED <<draft, stage, raced>>
      BY <1>7, <2>1 DEF RenamePlan, Goto, work
    <3>2. ASSUME OneFolder PROVE OneFolder'
      <4>1. /\ Taken = {} /\ drafts = [exists |-> TRUE, draft |-> TRUE, by |-> c]
            /\ \A d \in Confirmers : pc[d] \in {"target", "rename"} => d = c
        BY <2>1, <3>1, <3>2 DEF OneFolder
      <4>2. Taken' = {c}
        BY <1>1, <3>1, <4>1 DEF Taken
      <4> QED BY <1>1, <3>1, <4>1, <4>2 DEF OneFolder, NoFolder
    <3> QED BY <1>1, <3>1, <3>2
  <2>2. CASE ~drafts.exists
    BY <1>1, <1>7, <2>2 DEF RenamePlan, Goto, work, OneFolder, Taken
  <2> QED BY <2>1, <2>2
<1> QED BY <1>2, <1>3, <1>4, <1>5, <1>6, <1>7

(* Nothing else moves a plan, and only what has taken it is submitted. *)
LEMMA OtherStepKeepsOne ==
  ASSUME Inv, OnePlan,
         \/ \E x \in Direct, m \in Modes : Request(x, m)
         \/ \E x \in Ids :
              \/ Admit(x) \/ Submit(x) \/ Resume(x) \/ PauseFailed(x) \/ RetryCommit(x)
              \/ \E s \in {"final", "failed"} : Conclude(x, s)
         \/ Worker \/ OtherEnters \/ OtherLeaves \/ Crash
  PROVE  OnePlan'
<1> USE DEF OnePlan
<1>1. /\ pc \in [Ids -> Steps] /\ Confirmers \subseteq Ids /\ stage \in [Ids -> Stages]
      /\ Confirmers \cap Direct = {}
  BY ConstantAssumption DEF Inv, RequestTypes, AtMostOne, Ids
<1>2. UNCHANGED plan
  BY DEF Request, Admit, Submit, Resume, PauseFailed, RetryCommit, Conclude, Worker, EnterGate,
    BeginTask, ReviveQueue, TakeUp, EndJob, OtherEnters, OtherLeaves, Crash
<1>3. \A c \in Confirmers :
        /\ pc'[c] \in {pc[c], "done"} \/ (pc[c] = "admit" /\ pc'[c] = "submit")
        /\ stage'[c] # "none" => pc[c] = "submit" \/ stage[c] # "none"
        /\ stage'[c] # "none" => pc'[c] = "done"
  <2>1. CASE \E x \in Direct, m \in Modes : Request(x, m)
    BY <1>1, <2>1 DEF Request, Goto, work
  <2>2. CASE \E x \in Ids : Admit(x) \/ Submit(x)
    BY <1>1, <2>2 DEF Admit, Submit, Goto, work
  <2>3. CASE \E x \in Ids : \/ Resume(x) \/ PauseFailed(x) \/ RetryCommit(x)
                           \/ \E s \in {"final", "failed"} : Conclude(x, s)
    BY <1>1, <2>3 DEF Resume, PauseFailed, RetryCommit, Revives, Conclude, Unfinished, Failed,
      server
  <2>4. CASE Worker \/ OtherEnters \/ OtherLeaves
    <3>1. job.begun => stage[job.id] # "none"
      BY DEF Inv, AtMostOne, Unfinished
    <3> QED BY <1>1, <2>4, <3>1 DEF Worker, EnterGate, BeginTask, ReviveQueue, Revives, TakeUp,
          EndJob, Failed, OtherEnters, OtherLeaves, server, work
  <2>5. CASE Crash
    BY <1>1, <2>5 DEF Crash
  <2> QED BY <2>1, <2>2, <2>3, <2>4, <2>5
<1>4. Taken' \subseteq Taken
  BY <1>3 DEF Taken
<1>5. OneFolder => OneFolder'
  BY <1>2, <1>3, <1>4 DEF OneFolder, plan
<1> QED BY <1>2, <1>3, <1>5 DEF plan

(* A plan starts one piece of work, beside the draft and the confirmation of the person *)
(* who started it, unless two confirmations raced for it: for any number of them, and   *)
(* however conflicts and crashes cut them short.                                        *)
THEOREM PlansRunOnce == Spec => []PlanRunsOnce
<1>1. Init => OnePlan
  BY DEF Init, OnePlan, OneFolder, Taken, NoFolder, Ids
<1>2. Inv /\ OnePlan /\ [Next]_vars => OnePlan'
  <2> SUFFICES ASSUME Inv, OnePlan, [Next]_vars PROVE OnePlan'
    OBVIOUS
  <2>1. CASE UNCHANGED vars
    BY <2>1 DEF vars, plan, server, work, OnePlan, OneFolder, Taken
  <2>2. CASE Next
    BY <2>2, PlanStepKeepsOne, OtherStepKeepsOne DEF Next
  <2> QED BY <2>1, <2>2
<1>3. OnePlan => PlanRunsOnce
  <2> SUFFICES ASSUME OneFolder PROVE PlanRunsOnce
    BY DEF OnePlan, PlanRunsOnce
  <2>1. \A c, d \in Started : c = d
    BY DEF OneFolder, Taken, Started
  <2>2. Cardinality(Started) <= 1
    <3>1. CASE Started = {}
      BY <3>1, FS_EmptySet
    <3>2. CASE Started # {}
      <4>1. PICK c \in Started : Started = {c}
        BY <2>1, <3>2
      <4>2. Cardinality({c}) = 1
        BY FS_Singleton
      <4> QED BY <4>1, <4>2
    <3> QED BY <3>1, <3>2
  <2> QED BY <2>2 DEF OneFolder, Taken, Started, PlanRunsOnce
<1> QED BY <1>1, <1>2, <1>3, AdmissionInvariant, PTL DEF Spec
=============================================================================
