------------------------------ MODULE Admission -----------------------------
(***************************************************************************)
(* How work enters a project: a plan drafted by the planner's role and     *)
(* confirmed by a person, tasks and queues requested directly, and the     *)
(* executor that runs one of them, behind a gate shared with the other     *)
(* projects of the server.                                                 *)
(*                                                                         *)
(* Confirmations are handled by threads of the server's pool, direct       *)
(* requests one at a time by its event loop.  Both check that the project  *)
(* is free, and check again under a lock before they submit; tasks and     *)
(* queues have a lock each.  A task is durable once the worker begins it,  *)
(* a queue before it is submitted.                                         *)
(*                                                                         *)
(* A queue that fails counts as finished when the project is asked whether *)
(* it is free, and yet it can be resumed, paused, or repaired by a retry   *)
(* of its commit.  Nobody asks again then.                                 *)
(*                                                                         *)
(* There is one plan.  Of its subtasks the model keeps the acceptance      *)
(* criteria they cover, and of a directory what tells plans apart: whether *)
(* it holds draft.json, and whose confirmation.json.                       *)
(***************************************************************************)
EXTENDS Integers, FiniteSets

CONSTANTS
  Confirmers,  \* confirmations of the plan, each with the target it would start
  Direct,      \* tasks and queues requested without a plan
  Criteria,    \* acceptance criteria of the requirement
  Unknown,     \* a criterion only the planner has heard of
  MaxParallel, \* projects that may run at once
  MaxOthers,   \* runs of other projects
  MaxCrashes

ASSUME ConstantAssumption ==
  /\ Confirmers \cap Direct = {} /\ "nobody" \notin Confirmers \union Direct
  /\ Criteria # {} /\ Unknown \notin Criteria
  /\ MaxParallel \in Nat \ {0} /\ MaxOthers \in Nat /\ MaxCrashes \in Nat

Ids    == Confirmers \union Direct
Nobody == "nobody"

Modes  == {"task", "queue"}
Drafts == [covers : (SUBSET (Criteria \union {Unknown})) \ {{}}, criteria : SUBSET Criteria,
           status : {"ready", "manual_input_required"}]
Folder == [exists : BOOLEAN, draft : BOOLEAN, by : Confirmers \union {Nobody}]
NoFolder == [exists |-> FALSE, draft |-> FALSE, by |-> Nobody]
Steps  == {"new", "read", "write", "target", "rename", "admit", "submit", "done"}

VARIABLES
  draft,    \* the criteria that the drafted plan is held against; none before
  drafts,   \* the plan's directory under drafts/
  target,   \* the plan directory of each confirmed target
  pc, mode, spec, \* per request: where it stands, task or queue, the plan it confirms
  lock,     \* who holds the submission lock of tasks, and that of queues
  job,      \* the executor's work, whether it has passed the gate and got to work
  stage,    \* what became of each requested id
  revived,  \* history: the queues that failed and are unfinished again
  gate,     \* permits left
  others,   \* runs of other projects: behind the gate, and all so far
  raced,    \* history: two confirmations were past the reading of one draft
  crashes

plan   == <<draft, drafts, target, raced>>
server == <<pc, mode, spec, lock>>
work   == <<job, stage, revived>>
vars == <<plan, server, work, gate, others, crashes>>

NoJob   == [id |-> Nobody, running |-> FALSE, begun |-> FALSE]
NoDraft == [covers |-> {}, criteria |-> {}, status |-> "manual_input_required"]

Init ==
  /\ draft = {} /\ drafts = NoFolder /\ target = [c \in Confirmers |-> NoFolder]
  /\ pc = [x \in Ids |-> "new"] /\ mode = [x \in Ids |-> "task"]
  /\ spec = [c \in Confirmers |-> NoDraft] /\ lock = [m \in Modes |-> Nobody]
  /\ job = NoJob /\ stage = [x \in Ids |-> "none"] /\ revived = {}
  /\ gate = MaxParallel /\ others = [inside |-> 0, seen |-> 0]
  /\ raced = FALSE /\ crashes = 0

Unfinished == {x \in Ids : stage[x] = "unfinished"}
Active     == job # NoJob
Available  == ~Active /\ Unfinished = {}
Failed     == {x \in Ids : stage[x] = "failed"}

Goto(x, step) == pc' = [pc EXCEPT ![x] = step]
-----------------------------------------------------------------------------
\* A draft is refused when a subtask names an unknown criterion, and ready exactly when none
\* is left out.
Status(covers, criteria) ==
  IF covers = criteria THEN "ready" ELSE "manual_input_required"

ValidDraft(d) == d.covers \subseteq d.criteria /\ d.status = Status(d.covers, d.criteria)

\* Whatever the planner's role says of status and unassigned criteria is computed again.  Of the
\* draft only what it is held against matters later: the person may change the rest.
Generate(covers) ==
  LET d == [covers |-> covers, criteria |-> Criteria, status |-> Status(covers, Criteria)]
  IN /\ ~drafts.exists /\ draft = {} /\ ValidDraft(d)
     /\ draft' = d.criteria /\ drafts' = [exists |-> TRUE, draft |-> TRUE, by |-> Nobody]
     /\ UNCHANGED <<target, raced, server, work, gate, others, crashes>>

Confirm(c) ==
  /\ pc[c] = "new" /\ draft # {} /\ Available
  /\ Goto(c, "read")
  /\ UNCHANGED <<plan, mode, spec, lock, work, gate, others, crashes>>

\* Mutant of Confirmable: a plan that leaves criteria out may be confirmed.
ConfirmableAnyhow(d) == ValidDraft(d) /\ d.criteria = draft

\* The person may have edited the draft, but not what it is held against.
Confirmable(d) == ValidDraft(d) /\ d.criteria = draft /\ d.status = "ready"

\* A plan is a single task, or a queue of at least two.
ReadDraft(c, m, d) ==
  /\ pc[c] = "read"
  /\ IF drafts.draft /\ Confirmable(d)
       THEN /\ Goto(c, "write")
            /\ mode' = [mode EXCEPT ![c] = m] /\ spec' = [spec EXCEPT ![c] = d]
       ELSE Goto(c, "new") /\ UNCHANGED <<mode, spec>>
  /\ UNCHANGED <<plan, lock, work, gate, others, crashes>>

\* The writer of confirmation.json makes the directory anew if it has been moved away.
WriteConfirmation(c) ==
  /\ pc[c] = "write"
  /\ drafts' = [drafts EXCEPT !.exists = TRUE, !.by = c]
  /\ raced' = (raced \/ ~drafts.exists \/ \E d \in Confirmers : pc[d] \in {"target", "rename"})
  /\ Goto(c, "target")
  /\ UNCHANGED <<draft, target, mode, spec, lock, work, gate, others, crashes>>

MakeTarget(c) ==
  /\ pc[c] = "target" /\ target' = [target EXCEPT ![c].exists = TRUE]
  /\ Goto(c, "rename")
  /\ UNCHANGED <<draft, drafts, raced, mode, spec, lock, work, gate, others, crashes>>

\* Mutant of RenamePlan: the directory is copied.
CopyPlan(c) ==
  /\ pc[c] = "rename"
  /\ IF drafts.exists THEN target' = [target EXCEPT ![c] = drafts] /\ Goto(c, "admit")
     ELSE Goto(c, "done") /\ UNCHANGED target
  /\ UNCHANGED <<draft, drafts, raced, mode, spec, lock, work, gate, others, crashes>>

RenamePlan(c) ==
  /\ pc[c] = "rename"
  /\ IF drafts.exists
       THEN target' = [target EXCEPT ![c] = drafts] /\ drafts' = NoFolder /\ Goto(c, "admit")
       ELSE Goto(c, "done") /\ UNCHANGED <<drafts, target>>
  /\ UNCHANGED <<draft, raced, mode, spec, lock, work, gate, others, crashes>>
-----------------------------------------------------------------------------
\* The event loop handles one request from beginning to end.
Request(x, m) ==
  /\ pc[x] = "new" /\ \A y \in Direct : pc[y] \in {"new", "done"}
  /\ Goto(x, "admit") /\ mode' = [mode EXCEPT ![x] = m]
  /\ UNCHANGED <<plan, spec, lock, work, gate, others, crashes>>

Admit(x) ==
  /\ pc[x] = "admit" /\ lock[mode[x]] = Nobody
  /\ IF Available THEN lock' = [lock EXCEPT ![mode[x]] = x] /\ Goto(x, "submit")
     ELSE Goto(x, "done") /\ UNCHANGED lock
  /\ UNCHANGED <<plan, mode, spec, work, gate, others, crashes>>

Reserve(x) == job' = [id |-> x, running |-> FALSE, begun |-> FALSE]

\* Under the executor's lock: one job at a time, and a queue is checked and saved before its
\* job is taken.
Submit(x) ==
  /\ pc[x] = "submit" /\ Goto(x, "done") /\ lock' = [lock EXCEPT ![mode[x]] = Nobody]
  /\ IF Active \/ (mode[x] = "queue" /\ Unfinished # {}) THEN UNCHANGED <<job, stage>>
     ELSE /\ Reserve(x)
          /\ stage' = [stage EXCEPT ![x] =
                         IF mode[x] = "queue" THEN "unfinished" ELSE "accepted"]
  /\ UNCHANGED <<plan, mode, spec, revived, gate, others, crashes>>

\* A person resumes it, or reviews a child.  Only the executor has to be free.
Resume(x) ==
  /\ x \in Unfinished \union Failed /\ ~Active /\ Reserve(x)
  /\ UNCHANGED <<plan, server, stage, revived, gate, others, crashes>>

\* A person cancels it, or reviews the last child; the delivery of a queue's child may fail.
Conclude(x, s) ==
  /\ x \in Unfinished \union Failed /\ job.id # x
  /\ s = "failed" => mode[x] = "queue"
  /\ stage' = [stage EXCEPT ![x] = s]
  /\ UNCHANGED <<plan, server, job, revived, gate, others, crashes>>

Revives(x) ==
  stage' = [stage EXCEPT ![x] = "unfinished"] /\ revived' = revived \union {x}

\* A failed queue is paused while nobody works on it, or the commit it failed at is retried and
\* children are left.  Neither looks for other work.
PauseFailed(x) ==
  /\ x \in Failed /\ job.id # x /\ Revives(x)
  /\ UNCHANGED <<plan, server, job, gate, others, crashes>>

RetryCommit(x) ==
  /\ x \in Failed
  /\ \/ Revives(x)
     \/ stage' = [stage EXCEPT ![x] = "final"] /\ UNCHANGED revived
  /\ UNCHANGED <<plan, server, job, gate, others, crashes>>
-----------------------------------------------------------------------------
EnterGate ==
  /\ Active /\ ~job.running /\ gate > 0
  /\ gate' = gate - 1 /\ job' = [job EXCEPT !.running = TRUE]
  /\ UNCHANGED <<plan, server, stage, revived, others, crashes>>

LeaveGate == gate' = gate + 1 /\ job' = NoJob

\* Mutants of BeginTask: it does not look for other work, or waits until there is none.
BeginTaskUnchecked ==
  /\ job.running /\ stage[job.id] = "accepted"
  /\ stage' = [stage EXCEPT ![job.id] = "unfinished"] /\ job' = [job EXCEPT !.begun = TRUE]
  /\ UNCHANGED <<plan, server, revived, gate, others, crashes>>

BeginTaskPatiently ==
  /\ job.running /\ stage[job.id] = "accepted" /\ Unfinished = {}
  /\ stage' = [stage EXCEPT ![job.id] = "unfinished"] /\ job' = [job EXCEPT !.begun = TRUE]
  /\ UNCHANGED <<plan, server, revived, gate, others, crashes>>

\* Workflow.start looks again, under the execution lock, before it makes the run durable.
BeginTask ==
  /\ job.running /\ stage[job.id] = "accepted"
  /\ IF Unfinished = {}
       THEN /\ stage' = [stage EXCEPT ![job.id] = "unfinished"]
            /\ job' = [job EXCEPT !.begun = TRUE] /\ UNCHANGED gate
       ELSE stage' = [stage EXCEPT ![job.id] = "refused"] /\ LeaveGate
  /\ UNCHANGED <<plan, server, revived, others, crashes>>

\* QueueWorkflow.resume of a failed queue: it fails again, its last commit was all that was
\* missing, or it is saved as running.
ReviveQueue ==
  /\ job.running /\ job.id \in Failed
  /\ \/ Revives(job.id) /\ UNCHANGED <<job, gate>>
     \/ \E s \in {"failed", "final"} :
          stage' = [stage EXCEPT ![job.id] = s] /\ LeaveGate /\ UNCHANGED revived
  /\ UNCHANGED <<plan, server, others, crashes>>

\* What a run looks for when it starts or resumes: a child of a queue looks among the children
\* of its queue and the other queues, never among the tasks.
Rivals(x) == {y \in Unfinished \ {x} : mode[x] = "task" \/ mode[y] = "queue"}

\* Work that is already durable is taken up, or left as it is where something else is unfinished.
TakeUp ==
  /\ job.running /\ ~job.begun /\ stage[job.id] \in {"unfinished", "final"}
  /\ IF stage[job.id] = "unfinished" /\ Rivals(job.id) = {}
       THEN job' = [job EXCEPT !.begun = TRUE] /\ UNCHANGED gate
       ELSE LeaveGate
  /\ UNCHANGED <<plan, server, stage, revived, others, crashes>>

\* Mutant of EndJob: the permit is not returned.
EndJobInside(s) ==
  /\ job.begun /\ (s = "failed" => mode[job.id] = "queue")
  /\ stage' = [stage EXCEPT ![job.id] = s] /\ job' = NoJob
  /\ UNCHANGED <<plan, server, revived, gate, others, crashes>>

\* The workflow returns: its work is over, or waits for a person, or the queue has failed.
EndJob(s) ==
  /\ job.begun /\ (s = "failed" => mode[job.id] = "queue")
  /\ stage' = [stage EXCEPT ![job.id] = s] /\ LeaveGate
  /\ UNCHANGED <<plan, server, revived, others, crashes>>

OtherEnters ==
  /\ gate > 0 /\ others.seen < MaxOthers /\ gate' = gate - 1
  /\ others' = [inside |-> others.inside + 1, seen |-> others.seen + 1]
  /\ UNCHANGED <<plan, server, work, crashes>>

OtherLeaves ==
  /\ others.inside > 0 /\ gate' = gate + 1 /\ others' = [others EXCEPT !.inside = @ - 1]
  /\ UNCHANGED <<plan, server, work, crashes>>

\* The server dies: what was accepted and not begun is gone, and what a request had made of
\* the plan stays as it is.
Crash ==
  /\ crashes < MaxCrashes /\ crashes' = crashes + 1
  /\ pc' = [x \in Ids |-> IF pc[x] = "new" THEN "new" ELSE "done"]
  /\ lock' = [m \in Modes |-> Nobody] /\ job' = NoJob
  /\ stage' = [x \in Ids |-> IF stage[x] = "accepted" THEN "lost" ELSE stage[x]]
  /\ gate' = MaxParallel /\ others' = [others EXCEPT !.inside = 0]
  /\ UNCHANGED <<plan, mode, spec, revived>>
-----------------------------------------------------------------------------
Outcomes == {"unfinished", "final", "failed"}

Worker == EnterGate \/ BeginTask \/ ReviveQueue \/ TakeUp \/ \E s \in Outcomes : EndJob(s)

Next ==
  \/ \E d \in Drafts : Generate(d.covers)
  \/ \E c \in Confirmers :
       \/ Confirm(c) \/ WriteConfirmation(c) \/ MakeTarget(c) \/ RenamePlan(c)
       \/ \E m \in Modes, d \in Drafts : ReadDraft(c, m, d)
  \/ \E x \in Direct, m \in Modes : Request(x, m)
  \/ \E x \in Ids :
       \/ Admit(x) \/ Submit(x) \/ Resume(x) \/ PauseFailed(x) \/ RetryCommit(x)
       \/ \E s \in {"final", "failed"} : Conclude(x, s)
  \/ Worker \/ OtherEnters \/ OtherLeaves \/ Crash

Spec == Init /\ [][Next]_vars

\* Runs end, here and in the other projects, so a thread waiting at the gate gets through:
\* they are finitely many, and a permit that nobody else takes stays.
FairSpec == Spec /\ WF_vars(Worker) /\ WF_vars(OtherLeaves)
-----------------------------------------------------------------------------
\* Whoever is behind the gate holds one of its permits.
Inside == others.inside + (IF job.running THEN 1 ELSE 0)

TypeOK ==
  /\ draft \in SUBSET Criteria /\ drafts \in Folder
  /\ target \in [Confirmers -> Folder]
  /\ pc \in [Ids -> Steps] /\ mode \in [Ids -> Modes]
  /\ spec \in [Confirmers -> Drafts \union {NoDraft}] /\ lock \in [Modes -> Ids \union {Nobody}]
  /\ job \in [id : Ids \union {Nobody}, running : BOOLEAN, begun : BOOLEAN]
  /\ job.begun => job.running /\ stage[job.id] = "unfinished"
  /\ stage \in [Ids -> {"none", "accepted", "unfinished", "failed", "final", "refused", "lost"}]
  /\ revived \subseteq Ids
  /\ gate \in Nat /\ gate + Inside = MaxParallel /\ raced \in BOOLEAN /\ crashes \in Nat

\* However requests, confirmations, reviews and crashes interleave, a project has at most one
\* task or queue that has begun and not finished, not counting queues that failed once and
\* were taken up again: the first check may be stale by the time of the submission, and the
\* submission by the time the worker begins.
OneUnfinished == Cardinality(Unfinished \ revived) <= 1

\* The same with them: the project is to be free before anything is taken up.
NeverTwoUnfinished == Cardinality(Unfinished) <= 1

\* A plan starts one piece of work, kept beside the draft it came from and the confirmation
\* of the person whose version it is, through conflicts and crashes - unless two people
\* confirmed it at once: the writer that comes late makes the moved directory anew, and then
\* moves it to a second target.
Started == {c \in Confirmers : stage[c] # "none"}

PlanRunsOnce ==
  raced \/ /\ Cardinality(Started) <= 1
           /\ \A c \in Started : target[c] = [exists |-> TRUE, draft |-> TRUE, by |-> c]

\* What is started covers every acceptance criterion of the requirement, whatever the planner
\* proposed and however the draft was edited.
WholePlanRuns == \A c \in Started : spec[c].covers = Criteria

\* Accepted work is not forgotten: the worker begins it or says why it will not, unless the
\* server dies first.
AcceptedIsSettled == \A x \in Ids : (stage[x] = "accepted") ~> (stage[x] # "accepted")
=============================================================================
