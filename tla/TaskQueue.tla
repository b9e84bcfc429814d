----------------------------- MODULE TaskQueue -----------------------------
(***************************************************************************)
(* A serial task queue: QueueWorkflow (run_current, resume, record_review, *)
(* recover_approved_delivery) and QueueService (skip, reorder, pause,      *)
(* cancel, resume), with TaskService.review_task and retry_commit.         *)
(*                                                                         *)
(* Three kinds of thread read the queue's state.json into memory and write *)
(* it back later: the executor's worker, the threads in which a person's   *)
(* reviews are handled, and the event loop with the other endpoints.  A    *)
(* step is the code between two durable effects, and no lock spans a load  *)
(* and the save that follows it.                                           *)
(*                                                                         *)
(* A child's run is what TaskRun shows of it at its ends, its delivery what *)
(* Delivery shows; the content of a child is its own number, and a         *)
(* cumulative diff the set of children whose work it holds.                *)
(***************************************************************************)
EXTENDS Integers, FiniteSets

CONSTANTS
  N,           \* children of the queue
  Web,         \* threads that handle reviews and commit retries
  MaxReviews,  \* change requests and refused decisions
  MaxEdits,    \* skips, reorders, pauses and cancellations
  MaxFaults,   \* runs and deliveries that fail
  MaxCrashes

ASSUME ConstantAssumption ==
  /\ N \in Nat \ {0, 1}
  /\ Web \cap {"exec", "loop"} = {}
  /\ MaxReviews \in Nat /\ MaxEdits \in Nat /\ MaxFaults \in Nat /\ MaxCrashes \in Nat

Tasks  == 1 .. N
NoTask == 0
Actors == Web \union {"exec", "loop"}

QueueStatus == {"pending", "running", "paused", "cancelled", "waiting_review",
                "rejected", "infrastructure_error", "completed"}
ChildStatus == {"pending", "running", "paused", "cancelled", "skipped",
                "waiting_review", "completed", "rejected", "infrastructure_error"}
Decisions == {"approved", "changes_requested", "rejected"}
Reviews   == Decisions \union {"pending"}
Requests  == {"none", "pause", "cancel"}
RunStatus == {"absent", "created", "running", "paused", "cancelled", "success",
              "manual_review", "infrastructure_error"}
Final      == {"paused", "cancelled", "success", "manual_review", "infrastructure_error"}
Unfinished == {"running", "paused"}
Closed     == {"completed", "cancelled", "rejected"}
Done       == {"completed", "skipped"}

QueueState == [status : QueueStatus, current : Tasks \union {NoTask},
               child : [Tasks -> ChildStatus], slot : [Tasks -> Tasks],
               acked : [Tasks -> Reviews], sum : SUBSET Tasks]

Steps == {"idle", "resume", "reopened", "select", "start", "create", "work", "end",
          "record", "reopen", "deliver", "delivering", "promote", "close",
          "refresh", "refreshed", "submit", "save"}

VARIABLES
  disk,      \* the queue's state.json; sum stands for cumulative_diff_sha256
  cum,       \* the queue's changes/cumulative.diff
  qctl, ctl, \* control.json of the queue and of each child
  run,       \* each child's run; "created" has a worktree and nothing to resume
  rev,       \* the review status in each child's own state
  base,      \* the work each child's worktree started from
  delivered, \* children whose work is committed to their branches
  pc, op, mem, \* per thread: where it stands, why, and the state it has loaded
  late,      \* history: somebody saved since the thread loaded
  stale,     \* history: who has overwritten a save it had not seen
  skipped, stopped, \* history: acknowledged skips, an acknowledged cancellation
  reviews, edits, faults, crashes

runs    == <<run, rev, base, delivered>>
control == <<qctl, ctl>>
history == <<skipped, stopped>>
budget  == <<reviews, edits, faults, crashes>>
vars == <<disk, cum, control, runs, pc, op, mem, late, stale, history, budget>>

NewQueue ==
  [status |-> "pending", current |-> NoTask, child |-> [t \in Tasks |-> "pending"],
   slot |-> [t \in Tasks |-> t], acked |-> [t \in Tasks |-> "pending"], sum |-> {}]

\* The service has prepared the queue and submitted run_current.
Init ==
  /\ disk = NewQueue /\ cum = {}
  /\ qctl = "none" /\ ctl = [t \in Tasks |-> "none"]
  /\ run = [t \in Tasks |-> "absent"] /\ rev = [t \in Tasks |-> "pending"]
  /\ base = [t \in Tasks |-> {}] /\ delivered = {}
  /\ pc = [a \in Actors |-> IF a = "exec" THEN "select" ELSE "idle"]
  /\ op = [a \in Actors |-> "none"] /\ mem = [a \in Actors |-> NewQueue]
  /\ late = [a \in Actors |-> FALSE] /\ stale = {}
  /\ skipped = {} /\ stopped = FALSE
  /\ reviews = 0 /\ edits = 0 /\ faults = 0 /\ crashes = 0
-----------------------------------------------------------------------------
(* Reading a queue state.                                                  *)

AllDone(q) == \A t \in Tasks : q.child[t] \in Done

\* Mutant of IsNextPending: a skipped child is taken for a pending one.
IsNextUnfinished(q, t) ==
  /\ q.child[t] \in {"pending", "skipped"}
  /\ \A u \in Tasks : q.slot[u] < q.slot[t] => q.child[u] \in Done

\* The first child in order that is not completed or skipped, if it is pending.
IsNextPending(q, t) ==
  /\ q.child[t] = "pending"
  /\ \A u \in Tasks : q.slot[u] < q.slot[t] => q.child[u] \in Done

Mark(q, t, childStatus, status) ==
  [q EXCEPT !.child[t] = childStatus, !.status = status]

HasPredecessor(q, t) ==
  \E u \in Tasks : q.slot[u] < q.slot[t] /\ q.child[u] = "completed"

(* Threads.                                                                *)

Active == pc["exec"] # "idle"
LockFree == \A a \in Actors : pc[a] \notin {"create", "work", "delivering"}

Goto(a, step) == pc' = [pc EXCEPT ![a] = step]
Keep(a, q)    == mem' = [mem EXCEPT ![a] = q]

\* The end of a thread's operation; what it had in memory is gone.
Return(a) ==
  /\ Goto(a, "idle") /\ Keep(a, NewQueue)
  /\ op' = [op EXCEPT ![a] = "none"]

Load(a, q) ==
  /\ Keep(a, q)
  /\ late' = [late EXCEPT ![a] = FALSE]
  /\ UNCHANGED <<disk, stale>>

\* QueueStore.save_state: whatever is on file is replaced.
Save(a, q) ==
  /\ disk' = q
  /\ late' = [b \in Actors |-> b # a /\ (late[b] \/ pc[b] # "idle")]
  /\ stale' = stale \union (IF late[a] THEN {a} ELSE {})

SaveAndReturn(a, q) == Save(a, q) /\ Return(a)
-----------------------------------------------------------------------------
(* The executor: resume.                                                   *)

\* Mutant of Unpaused: the child is left as it is.
QueueUnpaused(q) ==
  IF q.current = NoTask THEN [q EXCEPT !.status = "pending"] ELSE [q EXCEPT !.status = "running"]

\* A paused queue goes on with its current child, if it has one.
Unpaused(q) ==
  IF q.current = NoTask THEN [q EXCEPT !.status = "pending"]
  ELSE IF q.child[q.current] = "paused" THEN Mark(q, q.current, "running", "running")
  ELSE [q EXCEPT !.status = "running"]

ResumePaused ==
  /\ pc["exec"] = "resume" /\ disk.status = "paused"
  /\ disk' = Unpaused(disk) /\ Keep("exec", Unpaused(disk))
  /\ late' = [b \in Actors |-> b # "exec" /\ (late[b] \/ pc[b] # "idle")]
  /\ qctl' = "none"
  /\ Goto("exec", "select")
  /\ UNCHANGED <<cum, ctl, runs, op, stale, history, budget>>

\* An approved child is delivered again; recover_approved_delivery.
ResumeDelivery ==
  /\ pc["exec"] = "resume" /\ disk.status = "infrastructure_error"
  /\ disk.current # NoTask /\ disk.acked[disk.current] = "approved"
  /\ Load("exec", disk)
  /\ Goto("exec", "deliver") /\ op' = [op EXCEPT !["exec"] = "recover"]
  /\ UNCHANGED <<cum, control, runs, history, budget>>

\* Any other child's run is reopened, and the queue is told afterwards.  A run that is not
\* in infrastructure_error refuses to be reopened, and the resume ends there.
ResumeRun ==
  /\ pc["exec"] = "resume" /\ disk.status = "infrastructure_error"
  /\ disk.current # NoTask /\ disk.acked[disk.current] # "approved"
  /\ LET t == disk.current IN
       \/ /\ run[t] \in {"absent", "created", "infrastructure_error"}
          /\ run' = IF run[t] = "infrastructure_error" THEN [run EXCEPT ![t] = "running"] ELSE run
          /\ Load("exec", disk)
          /\ Goto("exec", "reopened") /\ UNCHANGED op
       \/ /\ run[t] \notin {"absent", "created", "infrastructure_error"}
          /\ Return("exec") /\ UNCHANGED <<disk, run, late, stale>>
  /\ UNCHANGED <<cum, control, rev, base, delivered, history, budget>>

SaveReopened ==
  /\ pc["exec"] = "reopened"
  /\ LET q == Mark(mem["exec"], mem["exec"].current, "running", "running") IN
       Save("exec", q) /\ Keep("exec", q)
  /\ Goto("exec", "select")
  /\ UNCHANGED <<cum, control, runs, op, history, budget>>

ResumeOther ==
  /\ pc["exec"] = "resume" /\ disk.status \notin {"paused", "infrastructure_error"}
  /\ Goto("exec", "select")
  /\ UNCHANGED <<disk, cum, control, runs, op, mem, late, stale, history, budget>>
-----------------------------------------------------------------------------
(* The executor: run_current.                                              *)

Runnable == disk.status \in {"pending", "running"}

\* Mutant of Selects: any pending child will do.
SelectsAnyPending(t) ==
  IF disk.current # NoTask THEN t = disk.current /\ disk.child[t] = "running"
                           ELSE disk.child[t] = "pending"

\* The child the durable state selects: the current one if it is running, else the next.
Selects(t) ==
  IF disk.current # NoTask THEN t = disk.current /\ disk.child[t] = "running"
                           ELSE IsNextPending(disk, t)

SelectChild(t) ==
  /\ pc["exec"] = "select" /\ Runnable /\ Selects(t)
  /\ LET q == [Mark(disk, t, "running", "running") EXCEPT !.current = t] IN
       /\ disk' = q /\ Keep("exec", q)
       /\ late' = [b \in Actors |-> b # "exec" /\ (late[b] \/ pc[b] # "idle")]
  /\ Goto("exec", "start")
  /\ UNCHANGED <<cum, control, runs, op, stale, history, budget>>

\* Nothing to run.  A queue with nothing left is completed here as well.
SelectNothing ==
  /\ pc["exec"] = "select"
  /\ ~ (Runnable /\ \E t \in Tasks : Selects(t))
  /\ IF Runnable /\ disk.current = NoTask /\ AllDone(disk)
       THEN SaveAndReturn("exec", [disk EXCEPT !.status = "completed"])
       ELSE Return("exec") /\ UNCHANGED <<disk, late, stale>>
  /\ UNCHANGED <<cum, control, runs, history, budget>>

\* A later child needs the approved cumulative diff, unchanged.
BaselineIsApproved(q, t) == HasPredecessor(q, t) => q.sum # {} /\ cum = q.sum

FailQueue(a) ==
  SaveAndReturn(a, Mark(mem[a], mem[a].current, "infrastructure_error", "infrastructure_error"))

\* A wrong baseline, or a run whose beginning was interrupted: its branch and worktree exist
\* and WorkspaceManager.create refuses to make them again.
StartFails ==
  /\ pc["exec"] = "start"
  /\ LET t == mem["exec"].current IN
       \/ ~ BaselineIsApproved(mem["exec"], t)
       \/ run[t] = "created" /\ LockFree
  /\ FailQueue("exec")
  /\ UNCHANGED <<cum, control, runs, history, budget>>

OtherUnfinished(t) == \E u \in Tasks \ {t} : run[u] \in Unfinished

\* ActiveRunError: the queue stays as it was saved.
StartBlocked ==
  /\ pc["exec"] = "start"
  /\ LET t == mem["exec"].current IN
       /\ BaselineIsApproved(mem["exec"], t)
       /\ ~ LockFree \/ OtherUnfinished(t)
  /\ Return("exec")
  /\ UNCHANGED <<disk, cum, control, runs, late, stale, history, budget>>

\* OrchestrationWorkflow.start up to the worktree with the inherited diff in it.
StartChild ==
  /\ pc["exec"] = "start"
  /\ LET t == mem["exec"].current IN
       /\ BaselineIsApproved(mem["exec"], t) /\ LockFree /\ ~ OtherUnfinished(t)
       /\ run[t] = "absent"
       /\ run' = [run EXCEPT ![t] = "created"]
       /\ base' = [base EXCEPT ![t] = IF HasPredecessor(mem["exec"], t) THEN cum ELSE {}]
  /\ Goto("exec", "create")
  /\ UNCHANGED <<disk, cum, control, rev, delivered, op, mem, late, stale, history, budget>>

\* ... and from there to its first checkpoint: a request made of the queue is passed on.
RunBegins ==
  /\ pc["exec"] = "create"
  /\ LET t == mem["exec"].current IN
       /\ run' = [run EXCEPT ![t] = "running"]
       /\ ctl' = IF qctl = "none" THEN ctl ELSE [ctl EXCEPT ![t] = qctl]
  /\ Goto("exec", "work")
  /\ UNCHANGED <<disk, cum, qctl, rev, base, delivered, op, mem, late, stale, history, budget>>

\* OrchestrationWorkflow.resume: a commit has moved the branch off the base commit, so a
\* delivered child's worktree is refused; a finished run hands back its result.
ResumeChild ==
  /\ pc["exec"] = "start"
  /\ LET t == mem["exec"].current IN
       /\ BaselineIsApproved(mem["exec"], t) /\ LockFree /\ ~ OtherUnfinished(t)
       /\ run[t] \notin {"absent", "created"}
       /\ IF t \in delivered
            THEN /\ run' = [run EXCEPT ![t] = "infrastructure_error"]
                 /\ Goto("exec", "end") /\ UNCHANGED ctl
          ELSE IF run[t] \in Unfinished
            THEN /\ run' = [run EXCEPT ![t] = "running"]
                 /\ ctl' = IF run[t] = "paused" THEN [ctl EXCEPT ![t] = "none"] ELSE ctl
                 /\ Goto("exec", "work")
          ELSE Goto("exec", "end") /\ UNCHANGED <<run, ctl>>
  /\ UNCHANGED <<disk, cum, qctl, rev, base, delivered, op, mem, late, stale, history, budget>>

\* The run comes to one of its ends; a request is honoured only where the run looks.
RunEnds(s) ==
  /\ pc["exec"] = "work"
  /\ LET t == mem["exec"].current IN
       /\ s = "paused" => ctl[t] = "pause"
       /\ s = "cancelled" => ctl[t] = "cancel"
       /\ run' = [run EXCEPT ![t] = s]
       /\ ctl' = IF s \in {"paused", "cancelled"} THEN [ctl EXCEPT ![t] = "none"] ELSE ctl
  /\ faults' = IF s = "infrastructure_error" THEN faults + 1 ELSE faults
  /\ faults' <= MaxFaults
  /\ Goto("exec", "end")
  /\ UNCHANGED <<disk, cum, qctl, rev, base, delivered, op, mem, late, stale, history,
                 reviews, edits, crashes>>

\* Mutant of Filed: the run's own status.
FiledAsIs(s) == s

\* The child's entry after its run: the statuses a result is filed under.
Filed(s) ==
  IF s \in {"paused", "cancelled", "infrastructure_error"} THEN s ELSE "waiting_review"

SaveResult ==
  /\ pc["exec"] = "end"
  /\ LET t == mem["exec"].current
         q == Mark(mem["exec"], t, Filed(run[t]), Filed(run[t]))
     IN /\ SaveAndReturn("exec", [q EXCEPT !.acked[t] = rev[t]])
        /\ qctl' = IF run[t] \in {"paused", "cancelled"} THEN "none" ELSE qctl
  /\ UNCHANGED <<cum, ctl, runs, history, budget>>
-----------------------------------------------------------------------------
(* A review: TaskService.review_task and QueueWorkflow.record_review.      *)

Review(w, d) ==
  /\ pc[w] = "idle"
  /\ disk.current # NoTask /\ disk.child[disk.current] = "waiting_review"
  /\ d = "changes_requested" => reviews < MaxReviews
  /\ reviews' = IF d = "changes_requested" THEN reviews + 1 ELSE reviews
  /\ Load(w, disk)
  /\ Goto(w, "record") /\ op' = [op EXCEPT ![w] = d]
  /\ UNCHANGED <<cum, control, runs, history, edits, faults, crashes>>

\* ReviewService.record accepts: the run is final, an approval needs success, and the diff is
\* unchanged.  A later child's diff is taken against its index, so it is not once committed.
Acceptable(t, d) ==
  /\ run[t] \in Final
  /\ d = "approved" => run[t] = "success"
  /\ ~ (t \in delivered /\ base[t] # {})

Record(w) ==
  /\ pc[w] = "record" /\ LockFree
  /\ LET t == mem[w].current IN
       /\ Acceptable(t, op[w])
       /\ rev' = [rev EXCEPT ![t] = op[w]]
       /\ Keep(w, [mem[w] EXCEPT !.acked[t] = op[w]])
  /\ Goto(w, CASE op[w] = "approved" -> "deliver"
               [] op[w] = "changes_requested" -> "reopen"
               [] OTHER -> "close")
  /\ UNCHANGED <<disk, cum, control, run, base, delivered, op, late, stale, history, budget>>

RecordRefused(w) ==
  /\ pc[w] = "record"
  /\ ~ (LockFree /\ Acceptable(mem[w].current, op[w]))
  /\ Return(w)
  /\ UNCHANGED <<disk, cum, control, runs, late, stale, history, budget>>

\* reopen_for_review_changes, saved without the execution lock.
Reopen(w) ==
  /\ pc[w] = "reopen"
  /\ run' = [run EXCEPT ![mem[w].current] = "running"]
  /\ rev' = [rev EXCEPT ![mem[w].current] = "pending"]
  /\ Goto(w, "close")
  /\ UNCHANGED <<disk, cum, control, base, delivered, op, mem, late, stale, history, budget>>

\* POST .../commit/retry goes straight to recover_approved_delivery.
RetryCommit(w) ==
  /\ pc[w] = "idle" /\ disk.status = "infrastructure_error"
  /\ disk.current # NoTask /\ disk.acked[disk.current] = "approved"
  /\ Load(w, disk)
  /\ Goto(w, "deliver") /\ op' = [op EXCEPT ![w] = "recover"]
  /\ UNCHANGED <<cum, control, runs, history, budget>>

\* GitDeliveryService.deliver takes the lock; if it cannot, or refuses, or fails, the
\* approval is an infrastructure error of the queue.
BeginDelivery(a) ==
  /\ pc[a] = "deliver" /\ LockFree /\ rev[mem[a].current] = "approved"
  /\ Goto(a, "delivering")
  /\ UNCHANGED <<disk, cum, control, runs, op, mem, late, stale, history, budget>>

DeliveryRefused(a) ==
  /\ pc[a] = "deliver"
  /\ ~ (LockFree /\ rev[mem[a].current] = "approved")
  /\ FailQueue(a)
  /\ UNCHANGED <<cum, control, runs, history, budget>>

Commit(a) ==
  /\ pc[a] = "delivering"
  /\ delivered' = delivered \union {mem[a].current}
  /\ Goto(a, "promote")
  /\ UNCHANGED <<disk, cum, control, run, rev, base, op, mem, late, stale, history, budget>>

\* Mutant of DeliveryFails: the failure is logged and the promotion goes on.
DeliveryFailureLogged(a) ==
  /\ pc[a] \in {"delivering", "promote"} /\ faults < MaxFaults
  /\ faults' = faults + 1
  /\ Goto(a, "promote")
  /\ UNCHANGED <<disk, cum, control, runs, op, mem, late, stale, history, reviews, edits, crashes>>

\* A failed commit, or a failed promotion after it.
DeliveryFails(a) ==
  /\ pc[a] \in {"delivering", "promote"} /\ faults < MaxFaults
  /\ faults' = faults + 1
  /\ FailQueue(a)
  /\ UNCHANGED <<cum, control, runs, history, reviews, edits, crashes>>

\* Mutant of Promoted: the child's final diff in place of its cumulative one.
PromotedAlone(t) == {t}

\* The cumulative diff of a child: what it started from and its own work.
Promoted(t) == base[t] \union {t}

Promote(a) ==
  /\ pc[a] = "promote"
  /\ cum' = Promoted(mem[a].current)
  /\ Keep(a, [mem[a] EXCEPT !.sum = Promoted(mem[a].current)])
  /\ Goto(a, "close")
  /\ UNCHANGED <<disk, control, runs, op, late, stale, history, budget>>

\* What the queue becomes, and what the thread does next.
CloseApproved(a) ==
  /\ pc[a] = "close" /\ op[a] \in {"approved", "recover"}
  /\ LET done == [mem[a] EXCEPT !.child[mem[a].current] = "completed", !.current = NoTask]
         q == [done EXCEPT !.status = IF AllDone(done) THEN "completed" ELSE "pending"]
     IN /\ Save(a, q)
        /\ IF a = "exec"
             THEN /\ Goto(a, IF q.status = "completed" THEN "idle" ELSE "select")
                  /\ Keep(a, NewQueue) /\ op' = [op EXCEPT ![a] = "none"]
             ELSE /\ Goto(a, IF op[a] = "approved" THEN "refresh" ELSE "submit")
                  /\ Keep(a, q) /\ UNCHANGED op
  /\ UNCHANGED <<cum, control, runs, history, budget>>

CloseChanges(w) ==
  /\ pc[w] = "close" /\ op[w] = "changes_requested"
  /\ LET q == Mark(mem[w], mem[w].current, "running", "running") IN Save(w, q) /\ Keep(w, q)
  /\ Goto(w, "submit")
  /\ UNCHANGED <<cum, control, runs, op, history, budget>>

CloseRejected(w) ==
  /\ pc[w] = "close" /\ op[w] = "rejected"
  /\ SaveAndReturn(w, Mark(mem[w], mem[w].current, "rejected", "rejected"))
  /\ UNCHANGED <<cum, control, runs, history, budget>>

\* review_task loads the queue once more to copy the delivery status into it.
Refresh(w) ==
  /\ pc[w] = "refresh"
  /\ Load(w, disk) /\ Goto(w, "refreshed")
  /\ UNCHANGED <<cum, control, runs, op, history, budget>>

SaveRefreshed(w) ==
  /\ pc[w] = "refreshed"
  /\ Save(w, mem[w]) /\ Goto(w, "submit")
  /\ UNCHANGED <<cum, control, runs, op, mem, history, budget>>

\* The queue goes on unless the executor is busy, which is a conflict answer.
Submit(w) ==
  /\ pc[w] = "submit"
  /\ pc' = [pc EXCEPT ![w] = "idle",
              !["exec"] = IF mem[w].status \in {"pending", "running"} /\ ~ Active
                            THEN "select" ELSE @]
  /\ Keep(w, NewQueue) /\ op' = [op EXCEPT ![w] = "none"]
  /\ UNCHANGED <<disk, cum, control, runs, late, stale, history, budget>>
-----------------------------------------------------------------------------
(* The other endpoints, on the event loop: look, then load, then save.     *)

Begin(o, q) ==
  /\ pc["loop"] = "idle" /\ edits < MaxEdits
  /\ Load("loop", q)
  /\ Goto("loop", "save") /\ op' = [op EXCEPT !["loop"] = o]
  /\ edits' = edits + 1
  /\ UNCHANGED <<cum, control, runs, history, reviews, faults, crashes>>

SkipSubtask(t) ==
  /\ ~ Active /\ disk.child[t] = "pending"
  /\ LET q == [disk EXCEPT !.child[t] = "skipped"] IN
       Begin("skip", IF q.current = NoTask /\ AllDone(q) THEN [q EXCEPT !.status = "completed"] ELSE q)

\* The pending children change places among themselves.
ReorderPending(t, u) ==
  /\ ~ Active /\ t < u
  /\ disk.child[t] = "pending" /\ disk.child[u] = "pending"
  /\ Begin("reorder", [disk EXCEPT !.slot[t] = disk.slot[u], !.slot[u] = disk.slot[t]])

Controllable(action) ==
  disk.status \notin Closed \union (IF action = "pause" THEN {"waiting_review", "paused"} ELSE {})

\* While the executor works on the queue a request is only left on file.
RequestControl(action) ==
  /\ pc["loop"] = "idle" /\ edits < MaxEdits
  /\ Controllable(action) /\ Active
  /\ qctl' = action
  /\ ctl' = IF disk.current # NoTask /\ run[disk.current] \notin {"absent", "created"}
              THEN [ctl EXCEPT ![disk.current] = action] ELSE ctl
  /\ edits' = edits + 1
  /\ UNCHANGED <<disk, cum, runs, pc, op, mem, late, stale, history, reviews, faults, crashes>>

PauseInactive ==
  /\ Controllable("pause") /\ ~ Active
  /\ LET t == disk.current IN
       Begin("pause", IF t # NoTask /\ disk.child[t] = "running"
                        THEN Mark(disk, t, "paused", "paused")
                        ELSE [disk EXCEPT !.status = "paused"])

CancelInactive ==
  /\ Controllable("cancel") /\ ~ Active
  /\ LET t == disk.current IN
       Begin("cancel", IF t # NoTask /\ disk.child[t] \notin Done
                         THEN Mark(disk, t, "cancelled", "cancelled")
                         ELSE [disk EXCEPT !.status = "cancelled"])

\* The queue's save; a child that was running is marked paused in its own state before it.
SaveEdit ==
  /\ pc["loop"] = "save"
  /\ LET q == mem["loop"]
         t == q.current IN
       /\ run' = IF /\ op["loop"] = "pause" /\ t # NoTask /\ q.child[t] = "paused"
                    /\ run[t] \notin {"absent", "created"}
                   THEN [run EXCEPT ![t] = "paused"] ELSE run
       /\ qctl' = IF op["loop"] \in {"pause", "cancel"} THEN "none" ELSE qctl
       /\ skipped' = {u \in Tasks : u \in skipped \/ q.child[u] = "skipped"}
       /\ stopped' = (stopped \/ op["loop"] = "cancel")
       /\ SaveAndReturn("loop", q)
  /\ UNCHANGED <<cum, ctl, rev, base, delivered, budget>>

ResumeQueue ==
  /\ pc["loop"] = "idle" /\ ~ Active
  /\ disk.status \notin Closed \union {"waiting_review"}
  /\ Goto("exec", "resume")
  /\ UNCHANGED <<disk, cum, control, runs, op, mem, late, stale, history, budget>>

\* The process dies, with every thread; the lock dies with it (ActiveLock).
Crash ==
  /\ crashes < MaxCrashes /\ \E a \in Actors : pc[a] # "idle"
  /\ crashes' = crashes + 1
  /\ pc' = [a \in Actors |-> "idle"] /\ op' = [a \in Actors |-> "none"]
  /\ mem' = [a \in Actors |-> NewQueue] /\ late' = [a \in Actors |-> FALSE]
  /\ UNCHANGED <<disk, cum, control, runs, stale, history, reviews, edits, faults>>
-----------------------------------------------------------------------------
ExecStep ==
  \/ ResumePaused \/ ResumeDelivery \/ ResumeRun \/ SaveReopened \/ ResumeOther
  \/ (\E t \in Tasks : SelectChild(t)) \/ SelectNothing
  \/ StartFails \/ StartBlocked \/ StartChild \/ RunBegins \/ ResumeChild
  \/ (\E s \in Final : RunEnds(s)) \/ SaveResult

DeliveryStep(a) ==
  \/ BeginDelivery(a) \/ DeliveryRefused(a) \/ Commit(a) \/ DeliveryFails(a)
  \/ Promote(a) \/ CloseApproved(a)

WebStep(w) ==
  \/ Record(w) \/ RecordRefused(w) \/ Reopen(w) \/ CloseChanges(w) \/ CloseRejected(w)
  \/ Refresh(w) \/ SaveRefreshed(w) \/ Submit(w)

Edit ==
  \/ \E t \in Tasks : SkipSubtask(t)
  \/ \E t, u \in Tasks : ReorderPending(t, u)
  \/ \E action \in {"pause", "cancel"} : RequestControl(action)
  \/ PauseInactive \/ CancelInactive

Next ==
  \/ ExecStep \/ SaveEdit \/ ResumeQueue \/ Edit \/ Crash
  \/ \E a \in Web \union {"exec"} : DeliveryStep(a)
  \/ \E w \in Web : WebStep(w) \/ RetryCommit(w) \/ \E d \in Decisions : Review(w, d)

Spec == Init /\ [][Next]_vars

\* Threads that have begun go on; a person resumes a queue that stopped, and of the decisions
\* that would be accepted makes one that ends the child's review.
Decide ==
  \E w \in Web, d \in {"approved", "rejected"} :
    Review(w, d) /\ LockFree /\ Acceptable(disk.current, d)

FairSpec ==
  /\ Spec
  /\ WF_vars(ExecStep \/ DeliveryStep("exec")) /\ WF_vars(SaveEdit)
  /\ \A w \in Web : WF_vars(WebStep(w) \/ DeliveryStep(w))
  /\ SF_vars(ResumeQueue) /\ SF_vars(Decide)
-----------------------------------------------------------------------------
TypeOK ==
  /\ disk \in QueueState /\ cum \in SUBSET Tasks
  /\ qctl \in Requests /\ ctl \in [Tasks -> Requests]
  /\ run \in [Tasks -> RunStatus] /\ rev \in [Tasks -> Reviews]
  /\ base \in [Tasks -> SUBSET Tasks] /\ delivered \in SUBSET Tasks
  /\ pc \in [Actors -> Steps] /\ mem \in [Actors -> QueueState]
  /\ op \in [Actors -> Decisions \union {"none", "recover", "skip", "reorder", "pause", "cancel"}]
  /\ late \in [Actors -> BOOLEAN] /\ stale \in SUBSET Actors
  /\ skipped \in SUBSET Tasks /\ stopped \in BOOLEAN
  /\ {reviews, edits, faults, crashes} \subseteq Nat

\* Nothing but reviewed and committed work is ever built upon: whatever copy of the queue a
\* thread holds or has saved, however old, the children it calls completed, the diff it hands
\* on and the worktrees made from that diff hold committed work only.
Honest(q) == q.sum \subseteq delivered /\ \A t \in Tasks : q.child[t] = "completed" => t \in delivered

BuildsOnCommitted ==
  /\ Honest(disk) /\ cum \subseteq delivered
  /\ \A a \in Actors : Honest(mem[a])
  /\ \A t \in Tasks : base[t] \subseteq delivered

\* The queue is strictly serial: a child's worktree is made only when every child begun
\* before it is delivered, and from all of their work - unless a save has overwritten one it
\* had not seen.
Starts(t) == run[t] = "absent" /\ run'[t] # "absent"
Begun == {t \in Tasks : run[t] # "absent"}

StartsInOrder ==
  [][\A t \in Tasks : Starts(t) /\ stale = {} =>
       Begun = delivered /\ base'[t] = delivered]_vars

\* A completed queue has delivered and handed on the work of all its children but the skipped.
CompletedIsWhole ==
  disk.status = "completed" /\ stale = {} =>
    cum = delivered /\ disk.sum = delivered /\ delivered = {t \in Tasks : disk.child[t] = "completed"}

\* An acknowledged skip or cancellation holds: a skipped child never runs, and after a
\* cancellation none does - unless somebody's save has overwritten it.
EditsHold ==
  stale = {} =>
    /\ \A t \in skipped : run[t] = "absent"
    /\ stopped => pc["exec"] \notin {"start", "create", "work"}

\* record_review is to "update the parent queue atomically": no acknowledged skip is lost.
SkippedNeverRuns == \A t \in skipped : run[t] = "absent"

\* The ways in which a queue gets stuck until somebody cancels it: a child whose start was cut short, one
\* paused in infrastructure_error, one reopened without the queue, one committed without it.
Stuck ==
  /\ disk.current # NoTask
  /\ LET t == disk.current IN
       \/ run[t] = "created" \/ OtherUnfinished(t)
       \/ disk.child[t] = "infrastructure_error" /\ disk.status \in {"paused", "running"}
       \/ disk.child[t] = "waiting_review" /\ run[t] = "running"
       \/ /\ disk.child[t] = "infrastructure_error" /\ disk.acked[t] # "approved"
          /\ run[t] \notin {"absent", "infrastructure_error"}
       \/ disk.child[t] = "waiting_review" /\ t \in delivered /\ base[t] # {}

\* A queue comes to an end, whatever fails and whoever dies, unless it gets stuck.
QueueEnds == disk.status \notin Closed ~> (disk.status \in Closed \/ Stuck)
=============================================================================
