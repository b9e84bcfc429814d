--------------------------- MODULE TaskQueueProofs ---------------------------
(* For any number of children and threads: the types of TaskQueue, that     *)
(* nothing but committed work is ever built upon (BuildsOnCommitted), and,  *)
(* while no save has overwritten one it had not seen, that children start   *)
(* in order (StartsInOrder), that edits hold (EditsHold) and what a         *)
(* completed queue has delivered (CompletedIsWhole, for one reviewer).      *)
EXTENDS TaskQueue, TLAPS

(* The steps in which a thread works on the child its copy calls current.   *)
OnChild == {"reopened", "start", "create", "work", "end", "record", "reopen",
            "deliver", "delivering", "promote", "close"}

(* Where a thread stands tells what it has behind it: a current child, and  *)
(* from the promotion on that child's commit.                               *)
InPlace(a) ==
  /\ pc[a] \in OnChild => mem[a].current \in Tasks
  /\ pc[a] = "record" => op[a] \in Decisions
  /\ pc[a] = "reopen" => op[a] = "changes_requested"
  /\ pc[a] = "promote" => mem[a].current \in delivered
  /\ pc[a] = "close" /\ op[a] \in {"approved", "recover"} => mem[a].current \in delivered

(* The invariant is inductive: what is on file, the children's runs, the    *)
(* threads, and the history and budgets.                                    *)
Sound(q) == q \in QueueState /\ Honest(q)

Ops == Decisions \union {"none", "recover", "skip", "reorder", "pause", "cancel"}

FilesOK ==
  /\ Sound(disk) /\ cum \in SUBSET Tasks /\ cum \subseteq delivered
  /\ qctl \in Requests /\ ctl \in [Tasks -> Requests]

RunsOK ==
  /\ run \in [Tasks -> RunStatus] /\ rev \in [Tasks -> Reviews]
  /\ base \in [Tasks -> SUBSET Tasks] /\ delivered \in SUBSET Tasks
  /\ \A t \in Tasks : base[t] \subseteq delivered

ThreadsOK ==
  /\ pc \in [Actors -> Steps] /\ op \in [Actors -> Ops] /\ mem \in [Actors -> QueueState]
  /\ \A a \in Actors : Honest(mem[a]) /\ InPlace(a)

RestOK ==
  /\ late \in [Actors -> BOOLEAN] /\ stale \in SUBSET Actors
  /\ skipped \in SUBSET Tasks /\ stopped \in BOOLEAN
  /\ reviews \in Nat /\ edits \in Nat /\ faults \in Nat /\ crashes \in Nat

Inv == FilesOK /\ RunsOK /\ ThreadsOK /\ RestOK
-----------------------------------------------------------------------------
(* What the operators on queue states keep.                                 *)

(* A new queue has nothing in it that could be untrue. *)
LEMMA NewQueueSound == Sound(NewQueue) /\ NewQueue.current = NoTask
BY ConstantAssumption DEF Sound, Honest, NewQueue, QueueState, Tasks, NoTask,
  QueueStatus, ChildStatus, Reviews, Decisions

(* Marking a child as anything but completed claims no work. *)
LEMMA MarkSound ==
  ASSUME NEW q, Sound(q), NEW t \in Tasks, NEW c \in ChildStatus, c # "completed",
         NEW s \in QueueStatus
  PROVE  Sound(Mark(q, t, c, s)) /\ Mark(q, t, c, s).current = q.current
BY DEF Sound, Honest, Mark, QueueState

(* A step of one thread leaves the others as they are, or sends the         *)
(* executor to select a child; work that is committed stays committed.      *)
LEMMA OneThread ==
  ASSUME ThreadsOK, NEW a \in Actors, delivered \subseteq delivered',
         pc' \in [Actors -> Steps], op' \in [Actors -> Ops], mem' \in [Actors -> QueueState],
         \A b \in Actors \ {a} : pc'[b] \in {pc[b], "select"} /\ op'[b] = op[b] /\ mem'[b] = mem[b],
         Honest(mem[a])', InPlace(a)'
  PROVE  ThreadsOK'
BY DEF ThreadsOK, Honest, InPlace, OnChild

(* The queue's own status, the order and the reviews claim no work. *)
LEMMA StatusSound ==
  ASSUME NEW q, Sound(q), NEW s \in QueueStatus
  PROVE  Sound([q EXCEPT !.status = s]) /\ [q EXCEPT !.status = s].current = q.current
BY DEF Sound, Honest, QueueState

(* A paused queue that goes on. *)
LEMMA UnpausedSound ==
  ASSUME NEW q, Sound(q)
  PROVE  Sound(Unpaused(q)) /\ Unpaused(q).current = q.current
<1>1. q.current \in Tasks \union {NoTask}
  BY DEF Sound, QueueState
<1>2. {"pending", "running"} \subseteq QueueStatus /\ "running" \in ChildStatus
  BY DEF QueueStatus, ChildStatus
<1>3. CASE q.current = NoTask
  BY <1>2, <1>3, StatusSound DEF Unpaused
<1>4. CASE q.current # NoTask /\ q.child[q.current] = "paused"
  BY <1>1, <1>2, <1>4, MarkSound DEF Unpaused
<1>5. CASE q.current # NoTask /\ q.child[q.current] # "paused"
  BY <1>2, <1>5, StatusSound DEF Unpaused
<1> QED BY <1>3, <1>4, <1>5

(* So do a selection, an acknowledged review, ... *)
LEMMA SelectionSound ==
  ASSUME NEW q, Sound(q), NEW t \in Tasks \union {NoTask}
  PROVE  Sound([q EXCEPT !.current = t]) /\ [q EXCEPT !.current = t].current = t
BY DEF Sound, Honest, QueueState

LEMMA AckSound ==
  ASSUME NEW q, Sound(q), NEW t \in Tasks, NEW r \in Reviews
  PROVE  Sound([q EXCEPT !.acked[t] = r]) /\ [q EXCEPT !.acked[t] = r].current = q.current
BY DEF Sound, Honest, QueueState

(* ... a cumulative diff of committed work, and another order. *)
LEMMA SumSound ==
  ASSUME NEW q, Sound(q), NEW S \in SUBSET Tasks, S \subseteq delivered
  PROVE  Sound([q EXCEPT !.sum = S]) /\ [q EXCEPT !.sum = S].current = q.current
BY DEF Sound, Honest, QueueState

LEMMA OrderSound ==
  ASSUME NEW q, Sound(q), NEW t \in Tasks, NEW u \in Tasks
  PROVE  Sound([q EXCEPT !.slot[t] = q.slot[u], !.slot[u] = q.slot[t]])
BY DEF Sound, Honest, QueueState

LEMMA SkipSound ==
  ASSUME NEW q, Sound(q), NEW t \in Tasks
  PROVE  Sound([q EXCEPT !.child[t] = "skipped"])
BY DEF Sound, Honest, QueueState, ChildStatus

(* A child may be called completed once its work is committed. *)
LEMMA CompletedSound ==
  ASSUME NEW q, Sound(q), NEW t \in Tasks, t \in delivered
  PROVE  Sound([q EXCEPT !.child[t] = "completed"])
BY DEF Sound, Honest, QueueState, ChildStatus
-----------------------------------------------------------------------------
(* The actions.  A step is that of one thread; these definitions are its    *)
(* vocabulary and are expanded throughout.                                  *)
USE DEF Inv, Actors, Steps, Ops, Decisions, NoTask, runs, control, history, budget, Goto, Keep

(* The first step of a resume, on whatever the queue stopped at. *)
LEMMA ResumeKeeps ==
  ASSUME Inv, ResumePaused \/ ResumeDelivery \/ ResumeRun \/ SaveReopened \/ ResumeOther
  PROVE  Inv'
<1>1. ASSUME ResumePaused PROVE Inv'
  <2> DEFINE q == Unpaused(disk)
  <2>1. Sound(q)
    BY <1>1, UnpausedSound DEF FilesOK
  <2>2. disk' = q /\ mem' = [mem EXCEPT !["exec"] = q]
    BY <1>1 DEF ResumePaused
  <2> HIDE DEF q
  <2>3. FilesOK' /\ RunsOK' /\ RestOK'
    BY <1>1, <2>1, <2>2 DEF ResumePaused, FilesOK, RunsOK, RestOK, Sound, Honest, Requests
  <2>4. ThreadsOK'
    <3>1. pc' \in [Actors -> Steps] /\ op' \in [Actors -> Ops] /\ mem' \in [Actors -> QueueState]
      BY <1>1, <2>1, <2>2, NewQueueSound DEF ResumePaused, ThreadsOK, Sound
    <3>2. Honest(mem["exec"])'
      BY <1>1, <2>1, <2>2, NewQueueSound DEF ResumePaused, ThreadsOK, Sound, Honest
    <3>3. InPlace("exec")'
      BY <1>1, <2>1, <2>2 DEF ResumePaused, ThreadsOK, InPlace, OnChild
    <3> QED BY <1>1, <3>1, <3>2, <3>3, OneThread DEF ResumePaused
  <2> QED BY <2>3, <2>4
<1>2. ASSUME ResumeDelivery PROVE Inv'
  <2>1. FilesOK' /\ RunsOK' /\ RestOK'
    BY <1>2 DEF ResumeDelivery, FilesOK, RunsOK, RestOK, Sound, Honest, Load
  <2>2. ThreadsOK'
    <3>1. pc' \in [Actors -> Steps] /\ op' \in [Actors -> Ops] /\ mem' \in [Actors -> QueueState]
      BY <1>2, NewQueueSound DEF ResumeDelivery, FilesOK, ThreadsOK, Sound, Load, QueueState
    <3>2. Honest(mem["exec"])'
      BY <1>2, NewQueueSound DEF ResumeDelivery, FilesOK, ThreadsOK, Sound, Honest, Load,
        QueueState
    <3>3. InPlace("exec")'
      BY <1>2, NewQueueSound DEF ResumeDelivery, FilesOK, RunsOK, ThreadsOK, Sound, InPlace,
        OnChild, Load, QueueState
    <3> QED BY <1>2, <3>1, <3>2, <3>3, OneThread DEF ResumeDelivery, Load
  <2> QED BY <2>1, <2>2
<1>3. ASSUME ResumeRun PROVE Inv'
  <2>1. FilesOK' /\ RunsOK' /\ RestOK'
    BY <1>3 DEF ResumeRun, FilesOK, RunsOK, RestOK, Sound, Honest, Load, Return, QueueState,
      RunStatus
  <2>2. ThreadsOK'
    <3>1. pc' \in [Actors -> Steps] /\ op' \in [Actors -> Ops] /\ mem' \in [Actors -> QueueState]
      BY <1>3, NewQueueSound DEF ResumeRun, FilesOK, ThreadsOK, Sound, Load, Return, QueueState,
        RunStatus
    <3>2. Honest(mem["exec"])'
      BY <1>3, NewQueueSound DEF ResumeRun, FilesOK, ThreadsOK, Sound, Honest, Load, Return,
        QueueState, RunStatus
    <3>3. InPlace("exec")'
      BY <1>3, NewQueueSound DEF ResumeRun, FilesOK, RunsOK, ThreadsOK, Sound, InPlace, OnChild,
        Load, Return, QueueState, RunStatus
    <3> QED BY <1>3, <3>1, <3>2, <3>3, OneThread DEF ResumeRun, Load, Return
  <2> QED BY <2>1, <2>2
<1>4. ASSUME SaveReopened PROVE Inv'
  <2> DEFINE q == Mark(mem["exec"], mem["exec"].current, "running", "running")
  <2>1. Sound(q) /\ q.current = mem["exec"].current
    BY <1>4, MarkSound DEF SaveReopened, ThreadsOK, InPlace, OnChild, Sound, ChildStatus,
      QueueStatus
  <2>2. disk' = q /\ mem' = [mem EXCEPT !["exec"] = q]
    BY <1>4 DEF SaveReopened, Save
  <2> HIDE DEF q
  <2>3. FilesOK' /\ RunsOK' /\ RestOK'
    BY <1>4, <2>1, <2>2 DEF SaveReopened, FilesOK, RunsOK, RestOK, Sound, Honest, Save
  <2>4. ThreadsOK'
    <3>1. pc' \in [Actors -> Steps] /\ op' \in [Actors -> Ops] /\ mem' \in [Actors -> QueueState]
      BY <1>4, <2>1, <2>2, NewQueueSound DEF SaveReopened, ThreadsOK, Sound, Save
    <3>2. Honest(mem["exec"])'
      BY <1>4, <2>1, <2>2, NewQueueSound DEF SaveReopened, ThreadsOK, Sound, Honest, Save
    <3>3. InPlace("exec")'
      BY <1>4, <2>1, <2>2 DEF SaveReopened, ThreadsOK, InPlace, OnChild, Save
    <3> QED BY <1>4, <3>1, <3>2, <3>3, OneThread DEF SaveReopened, Save
  <2> QED BY <2>3, <2>4
<1>5. ASSUME ResumeOther PROVE Inv'
  <2>1. FilesOK' /\ RunsOK' /\ RestOK'
    BY <1>5 DEF ResumeOther, FilesOK, RunsOK, RestOK, Sound, Honest
  <2>2. ThreadsOK'
    <3>1. pc' \in [Actors -> Steps] /\ op' \in [Actors -> Ops] /\ mem' \in [Actors -> QueueState]
      BY <1>5 DEF ResumeOther, ThreadsOK
    <3>2. Honest(mem["exec"])'
      BY <1>5 DEF ResumeOther, ThreadsOK, Honest
    <3>3. InPlace("exec")'
      BY <1>5 DEF ResumeOther, ThreadsOK, InPlace, OnChild
    <3> QED BY <1>5, <3>1, <3>2, <3>3, OneThread DEF ResumeOther
  <2> QED BY <2>1, <2>2
<1> QED BY <1>1, <1>2, <1>3, <1>4, <1>5

(* A step of run_current, from the selection of a child to its filed result. *)
LEMMA RunStepKeeps ==
  ASSUME Inv, (\E t \in Tasks : SelectChild(t)) \/ SelectNothing \/ StartFails \/ StartBlocked
           \/ StartChild \/ RunBegins \/ ResumeChild \/ (\E s \in Final : RunEnds(s)) \/ SaveResult
  PROVE  Inv'
<1>1. ASSUME NEW t \in Tasks, SelectChild(t) PROVE Inv'
  <2> DEFINE q == [Mark(disk, t, "running", "running") EXCEPT !.current = t]
  <2>1. Sound(q) /\ q.current = t
    <3>1. Sound(Mark(disk, t, "running", "running"))
      BY <1>1, MarkSound DEF FilesOK, ChildStatus, QueueStatus
    <3> QED BY <1>1, <3>1, SelectionSound
  <2>2. disk' = q /\ mem' = [mem EXCEPT !["exec"] = q]
    BY <1>1 DEF SelectChild
  <2> HIDE DEF q
  <2>3. FilesOK' /\ RunsOK' /\ RestOK'
    BY <1>1, <2>1, <2>2 DEF SelectChild, FilesOK, RunsOK, RestOK, Sound, Honest
  <2>4. ThreadsOK'
    <3>1. pc' \in [Actors -> Steps] /\ op' \in [Actors -> Ops] /\ mem' \in [Actors -> QueueState]
      BY <1>1, <2>1, <2>2, NewQueueSound DEF SelectChild, ThreadsOK, Sound
    <3>2. Honest(mem["exec"])'
      BY <1>1, <2>1, <2>2, NewQueueSound DEF SelectChild, ThreadsOK, Sound, Honest
    <3>3. InPlace("exec")'
      BY <1>1, <2>1, <2>2 DEF SelectChild, ThreadsOK, InPlace, OnChild
    <3> QED BY <1>1, <3>1, <3>2, <3>3, OneThread DEF SelectChild
  <2> QED BY <2>3, <2>4
<1>2. ASSUME SelectNothing PROVE Inv'
  <2> DEFINE q == [disk EXCEPT !.status = "completed"]
  <2>1. Sound(q)
    BY <1>2, StatusSound DEF FilesOK, QueueStatus
  <2>2. disk' \in {q, disk} /\ mem' = [mem EXCEPT !["exec"] = NewQueue]
    BY <1>2 DEF SelectNothing, SaveAndReturn, Save, Return
  <2> HIDE DEF q
  <2>3. FilesOK' /\ RunsOK' /\ RestOK'
    BY <1>2, <2>1, <2>2 DEF SelectNothing, FilesOK, RunsOK, RestOK, Sound, Honest,
      SaveAndReturn, Save, Return
  <2>4. ThreadsOK'
    <3>1. pc' \in [Actors -> Steps] /\ op' \in [Actors -> Ops] /\ mem' \in [Actors -> QueueState]
      BY <1>2, <2>1, <2>2, NewQueueSound DEF SelectNothing, ThreadsOK, Sound, SaveAndReturn,
        Save, Return
    <3>2. Honest(mem["exec"])'
      BY <1>2, <2>1, <2>2, NewQueueSound DEF SelectNothing, ThreadsOK, Sound, Honest,
        SaveAndReturn, Save, Return
    <3>3. InPlace("exec")'
      BY <1>2, <2>1, <2>2 DEF SelectNothing, ThreadsOK, InPlace, OnChild, SaveAndReturn, Save,
        Return
    <3> QED BY <1>2, <3>1, <3>2, <3>3, OneThread DEF SelectNothing, SaveAndReturn, Save, Return
  <2> QED BY <2>3, <2>4
<1>3. ASSUME StartFails PROVE Inv'
  <2> DEFINE q == Mark(mem["exec"], mem["exec"].current,
                      "infrastructure_error", "infrastructure_error")
  <2>1. Sound(q)
    BY <1>3, MarkSound DEF StartFails, ThreadsOK, InPlace, OnChild, Sound, ChildStatus,
      QueueStatus
  <2>2. disk' = q /\ mem' = [mem EXCEPT !["exec"] = NewQueue]
    BY <1>3 DEF StartFails, FailQueue, SaveAndReturn, Save, Return
  <2> HIDE DEF q
  <2>3. FilesOK' /\ RunsOK' /\ RestOK'
    BY <1>3, <2>1, <2>2 DEF StartFails, FilesOK, RunsOK, RestOK, Sound, Honest, FailQueue,
      SaveAndReturn, Save, Return
  <2>4. ThreadsOK'
    <3>1. pc' \in [Actors -> Steps] /\ op' \in [Actors -> Ops] /\ mem' \in [Actors -> QueueState]
      BY <1>3, <2>1, <2>2, NewQueueSound DEF StartFails, ThreadsOK, Sound, FailQueue,
        SaveAndReturn, Save, Return
    <3>2. Honest(mem["exec"])'
      BY <1>3, <2>1, <2>2, NewQueueSound DEF StartFails, ThreadsOK, Sound, Honest, FailQueue,
        SaveAndReturn, Save, Return
    <3>3. InPlace("exec")'
      BY <1>3, <2>1, <2>2 DEF StartFails, ThreadsOK, InPlace, OnChild, FailQueue, SaveAndReturn,
        Save, Return
    <3> QED BY <1>3, <3>1, <3>2, <3>3, OneThread DEF StartFails, FailQueue, SaveAndReturn, Save,
        Return
  <2> QED BY <2>3, <2>4
<1>4. ASSUME StartBlocked PROVE Inv'
  <2>1. FilesOK' /\ RunsOK' /\ RestOK'
    BY <1>4 DEF StartBlocked, FilesOK, RunsOK, RestOK, Sound, Honest, Return
  <2>2. ThreadsOK'
    <3>1. pc' \in [Actors -> Steps] /\ op' \in [Actors -> Ops] /\ mem' \in [Actors -> QueueState]
      BY <1>4, NewQueueSound DEF StartBlocked, ThreadsOK, Sound, Return
    <3>2. Honest(mem["exec"])'
      BY <1>4, NewQueueSound DEF StartBlocked, ThreadsOK, Sound, Honest, Return
    <3>3. InPlace("exec")'
      BY <1>4 DEF StartBlocked, ThreadsOK, InPlace, OnChild, Return
    <3> QED BY <1>4, <3>1, <3>2, <3>3, OneThread DEF StartBlocked, Return
  <2> QED BY <2>1, <2>2
<1>5. ASSUME StartChild PROVE Inv'
  <2>1. FilesOK' /\ RunsOK' /\ RestOK'
    BY <1>5 DEF StartChild, FilesOK, RunsOK, RestOK, Sound, Honest, RunStatus
  <2>2. ThreadsOK'
    <3>1. pc' \in [Actors -> Steps] /\ op' \in [Actors -> Ops] /\ mem' \in [Actors -> QueueState]
      BY <1>5 DEF StartChild, ThreadsOK
    <3>2. Honest(mem["exec"])'
      BY <1>5 DEF StartChild, ThreadsOK, Honest
    <3>3. InPlace("exec")'
      BY <1>5 DEF StartChild, ThreadsOK, InPlace, OnChild
    <3> QED BY <1>5, <3>1, <3>2, <3>3, OneThread DEF StartChild
  <2> QED BY <2>1, <2>2
<1>6. ASSUME RunBegins PROVE Inv'
  <2>1. FilesOK' /\ RunsOK' /\ RestOK'
    BY <1>6 DEF RunBegins, FilesOK, RunsOK, RestOK, Sound, Honest, RunStatus, Requests
  <2>2. ThreadsOK'
    <3>1. pc' \in [Actors -> Steps] /\ op' \in [Actors -> Ops] /\ mem' \in [Actors -> QueueState]
      BY <1>6 DEF RunBegins, ThreadsOK
    <3>2. Honest(mem["exec"])'
      BY <1>6 DEF RunBegins, ThreadsOK, Honest
    <3>3. InPlace("exec")'
      BY <1>6 DEF RunBegins, ThreadsOK, InPlace, OnChild
    <3> QED BY <1>6, <3>1, <3>2, <3>3, OneThread DEF RunBegins
  <2> QED BY <2>1, <2>2
<1>7. ASSUME ResumeChild PROVE Inv'
  <2>1. FilesOK' /\ RunsOK' /\ RestOK'
    BY <1>7 DEF ResumeChild, FilesOK, RunsOK, RestOK, Sound, Honest, RunStatus, Requests
  <2>2. ThreadsOK'
    <3>1. pc' \in [Actors -> Steps] /\ op' \in [Actors -> Ops] /\ mem' \in [Actors -> QueueState]
      BY <1>7 DEF ResumeChild, ThreadsOK
    <3>2. Honest(mem["exec"])'
      BY <1>7 DEF ResumeChild, ThreadsOK, Honest
    <3>3. InPlace("exec")'
      BY <1>7 DEF ResumeChild, ThreadsOK, InPlace, OnChild
    <3> QED BY <1>7, <3>1, <3>2, <3>3, OneThread DEF ResumeChild
  <2> QED BY <2>1, <2>2
<1>8. ASSUME NEW s \in Final, RunEnds(s) PROVE Inv'
  <2>1. FilesOK'
    BY <1>8 DEF RunEnds, FilesOK, RunsOK, Sound, Honest, RunStatus, Requests, Final
  <2>2. RunsOK'
    BY <1>8 DEF RunEnds, RunsOK, RunStatus, Requests, Final
  <2>3. RestOK'
    BY <1>8 DEF RunEnds, RestOK
  <2>4. ThreadsOK'
    <3>1. pc' \in [Actors -> Steps] /\ op' \in [Actors -> Ops] /\ mem' \in [Actors -> QueueState]
      BY <1>8 DEF RunEnds, ThreadsOK
    <3>2. Honest(mem["exec"])'
      BY <1>8 DEF RunEnds, ThreadsOK, Honest
    <3>3. InPlace("exec")'
      BY <1>8 DEF RunEnds, ThreadsOK, InPlace, OnChild
    <3> QED BY <1>8, <3>1, <3>2, <3>3, OneThread DEF RunEnds
  <2> QED BY <2>1, <2>2, <2>3, <2>4
<1>9. ASSUME SaveResult PROVE Inv'
  <2> DEFINE q == LET t == mem["exec"].current
                 IN  [Mark(mem["exec"], t, Filed(run[t]), Filed(run[t])) EXCEPT !.acked[t] = rev[t]]
  <2>1. Sound(q)
    BY <1>9, MarkSound, AckSound DEF SaveResult, RunsOK, ThreadsOK, InPlace, OnChild, Sound,
      ChildStatus, QueueStatus, Filed
  <2>2. disk' = q /\ mem' = [mem EXCEPT !["exec"] = NewQueue]
    BY <1>9 DEF SaveResult, SaveAndReturn, Save, Return
  <2> HIDE DEF q
  <2>3. FilesOK' /\ RunsOK' /\ RestOK'
    BY <1>9, <2>1, <2>2 DEF SaveResult, FilesOK, RunsOK, RestOK, Sound, Honest, SaveAndReturn,
      Save, Return, Requests
  <2>4. ThreadsOK'
    <3>1. pc' \in [Actors -> Steps] /\ op' \in [Actors -> Ops] /\ mem' \in [Actors -> QueueState]
      BY <1>9, <2>1, <2>2, NewQueueSound DEF SaveResult, ThreadsOK, Sound, SaveAndReturn, Save,
        Return
    <3>2. Honest(mem["exec"])'
      BY <1>9, <2>1, <2>2, NewQueueSound DEF SaveResult, ThreadsOK, Sound, Honest,
        SaveAndReturn, Save, Return
    <3>3. InPlace("exec")'
      BY <1>9, <2>1, <2>2 DEF SaveResult, ThreadsOK, InPlace, OnChild, SaveAndReturn, Save,
        Return
    <3> QED BY <1>9, <3>1, <3>2, <3>3, OneThread DEF SaveResult, SaveAndReturn, Save, Return
  <2> QED BY <2>3, <2>4
<1> QED BY <1>1, <1>2, <1>3, <1>4, <1>5, <1>6, <1>7, <1>8, <1>9

(* A step of a delivery, whichever thread delivers: a child is called completed, and its
   work handed on, only behind its commit. *)
LEMMA DeliveryKeeps ==
  ASSUME Inv, NEW a \in Web \union {"exec"}, DeliveryStep(a)
  PROVE  Inv'
<1>1. ASSUME BeginDelivery(a) PROVE Inv'
  <2>1. FilesOK' /\ RunsOK' /\ RestOK'
    BY <1>1 DEF BeginDelivery, FilesOK, RunsOK, RestOK, Sound, Honest
  <2>2. ThreadsOK'
    <3>1. pc' \in [Actors -> Steps] /\ op' \in [Actors -> Ops] /\ mem' \in [Actors -> QueueState]
      BY <1>1 DEF BeginDelivery, ThreadsOK
    <3>2. Honest(mem[a])'
      BY <1>1 DEF BeginDelivery, ThreadsOK, Honest
    <3>3. InPlace(a)'
      BY <1>1 DEF BeginDelivery, ThreadsOK, InPlace, OnChild
    <3> QED BY <1>1, <3>1, <3>2, <3>3, OneThread DEF BeginDelivery
  <2> QED BY <2>1, <2>2
<1>2. ASSUME DeliveryRefused(a) PROVE Inv'
  <2> DEFINE q == Mark(mem[a], mem[a].current, "infrastructure_error", "infrastructure_error")
  <2>1. Sound(q)
    BY <1>2, MarkSound DEF DeliveryRefused, ThreadsOK, InPlace, OnChild, Sound, ChildStatus,
      QueueStatus
  <2>2. disk' = q /\ mem' = [mem EXCEPT ![a] = NewQueue]
    BY <1>2 DEF DeliveryRefused, FailQueue, SaveAndReturn, Save, Return
  <2> HIDE DEF q
  <2>3. FilesOK' /\ RunsOK' /\ RestOK'
    BY <1>2, <2>1, <2>2 DEF DeliveryRefused, FilesOK, RunsOK, RestOK, Sound, Honest, FailQueue,
      SaveAndReturn, Save, Return
  <2>4. ThreadsOK'
    <3>1. pc' \in [Actors -> Steps] /\ op' \in [Actors -> Ops] /\ mem' \in [Actors -> QueueState]
      BY <1>2, <2>1, <2>2, NewQueueSound DEF DeliveryRefused, ThreadsOK, Sound, FailQueue,
        SaveAndReturn, Save, Return
    <3>2. Honest(mem[a])'
      BY <1>2, <2>1, <2>2, NewQueueSound DEF DeliveryRefused, ThreadsOK, Sound, Honest,
        FailQueue, SaveAndReturn, Save, Return
    <3>3. InPlace(a)'
      BY <1>2, <2>1, <2>2 DEF DeliveryRefused, ThreadsOK, InPlace, OnChild, FailQueue,
        SaveAndReturn, Save, Return
    <3> QED BY <1>2, <3>1, <3>2, <3>3, OneThread DEF DeliveryRefused, FailQueue, SaveAndReturn, Save,
        Return
  <2> QED BY <2>3, <2>4
<1>3. ASSUME Commit(a) PROVE Inv'
  <2>1. FilesOK'
    BY <1>3 DEF Commit, FilesOK, RunsOK, Sound, Honest
  <2>2. RunsOK'
    BY <1>3 DEF Commit, RunsOK, FilesOK, ThreadsOK, InPlace, OnChild, Sound, Honest
  <2>3. RestOK'
    BY <1>3 DEF Commit, RestOK
  <2>4. ThreadsOK'
    <3>1. pc' \in [Actors -> Steps] /\ op' \in [Actors -> Ops] /\ mem' \in [Actors -> QueueState]
      BY <1>3 DEF Commit, ThreadsOK
    <3>2. Honest(mem[a])'
      BY <1>3 DEF Commit, ThreadsOK, Honest
    <3>3. InPlace(a)'
      BY <1>3 DEF Commit, ThreadsOK, InPlace, OnChild
    <3> QED BY <1>3, <3>1, <3>2, <3>3, OneThread DEF Commit
  <2> QED BY <2>1, <2>2, <2>3, <2>4
<1>4. ASSUME DeliveryFails(a) PROVE Inv'
  <2> DEFINE q == Mark(mem[a], mem[a].current, "infrastructure_error", "infrastructure_error")
  <2>1. Sound(q)
    BY <1>4, MarkSound DEF DeliveryFails, ThreadsOK, InPlace, OnChild, Sound, ChildStatus,
      QueueStatus
  <2>2. disk' = q /\ mem' = [mem EXCEPT ![a] = NewQueue]
    BY <1>4 DEF DeliveryFails, FailQueue, SaveAndReturn, Save, Return
  <2> HIDE DEF q
  <2>3. FilesOK' /\ RunsOK' /\ RestOK'
    BY <1>4, <2>1, <2>2 DEF DeliveryFails, FilesOK, RunsOK, RestOK, Sound, Honest, FailQueue,
      SaveAndReturn, Save, Return
  <2>4. ThreadsOK'
    <3>1. pc' \in [Actors -> Steps] /\ op' \in [Actors -> Ops] /\ mem' \in [Actors -> QueueState]
      BY <1>4, <2>1, <2>2, NewQueueSound DEF DeliveryFails, ThreadsOK, Sound, FailQueue,
        SaveAndReturn, Save, Return
    <3>2. Honest(mem[a])'
      BY <1>4, <2>1, <2>2, NewQueueSound DEF DeliveryFails, ThreadsOK, Sound, Honest, FailQueue,
        SaveAndReturn, Save, Return
    <3>3. InPlace(a)'
      BY <1>4, <2>1, <2>2 DEF DeliveryFails, ThreadsOK, InPlace, OnChild, FailQueue,
        SaveAndReturn, Save, Return
    <3> QED BY <1>4, <3>1, <3>2, <3>3, OneThread DEF DeliveryFails, FailQueue, SaveAndReturn, Save,
        Return
  <2> QED BY <2>3, <2>4
<1>5. ASSUME Promote(a) PROVE Inv'
  <2> DEFINE q == [mem[a] EXCEPT !.sum = Promoted(mem[a].current)]
  <2>1. Sound(q) /\ q.current = mem[a].current
    BY <1>5, SumSound DEF Promote, RunsOK, ThreadsOK, InPlace, OnChild, Sound, Promoted
  <2>2. mem' = [mem EXCEPT ![a] = q]
    BY <1>5 DEF Promote, Promoted
  <2> HIDE DEF q
  <2>3. FilesOK'
    BY <1>5, <2>1, <2>2 DEF Promote, FilesOK, RunsOK, ThreadsOK, InPlace, OnChild, Sound,
      Honest, Promoted
  <2>4. RunsOK'
    BY <1>5, <2>1, <2>2 DEF Promote, RunsOK, Promoted
  <2>5. RestOK'
    BY <1>5, <2>1, <2>2 DEF Promote, RestOK, Promoted
  <2>6. ThreadsOK'
    <3>1. pc' \in [Actors -> Steps] /\ op' \in [Actors -> Ops] /\ mem' \in [Actors -> QueueState]
      BY <1>5, <2>1, <2>2, NewQueueSound DEF Promote, ThreadsOK, Sound, Promoted
    <3>2. Honest(mem[a])'
      BY <1>5, <2>1, <2>2, NewQueueSound DEF Promote, ThreadsOK, Sound, Honest, Promoted
    <3>3. InPlace(a)'
      BY <1>5, <2>1, <2>2 DEF Promote, ThreadsOK, InPlace, OnChild, Promoted
    <3> QED BY <1>5, <3>1, <3>2, <3>3, OneThread DEF Promote, Promoted
  <2> QED BY <2>3, <2>4, <2>5, <2>6
<1>6. ASSUME CloseApproved(a) PROVE Inv'
  <2> DEFINE q == LET done == [mem[a] EXCEPT !.child[mem[a].current] = "completed",
                                      !.current = NoTask]
                 IN  [done EXCEPT !.status = IF AllDone(done) THEN "completed" ELSE "pending"]
  <2>1. Sound(q)
    <3> DEFINE done == [mem[a] EXCEPT !.child[mem[a].current] = "completed", !.current = NoTask]
    <3>1. Sound(mem[a]) /\ mem[a].current \in delivered /\ delivered \subseteq Tasks
      BY <1>6 DEF CloseApproved, RunsOK, ThreadsOK, InPlace, OnChild, Sound
    <3>2. Sound(done)
      BY <3>1, CompletedSound, SelectionSound
    <3>3. "completed" \in QueueStatus /\ "pending" \in QueueStatus
      BY DEF QueueStatus
    <3> HIDE DEF done
    <3>4. Sound([done EXCEPT !.status = IF AllDone(done) THEN "completed" ELSE "pending"])
      BY <3>2, <3>3, StatusSound
    <3> QED BY <3>4 DEF done
  <2>2. disk' = q /\ mem' \in {[mem EXCEPT ![a] = q], [mem EXCEPT ![a] = NewQueue]}
    BY <1>6 DEF CloseApproved, Save
  <2> HIDE DEF q
  <2>3. FilesOK' /\ RunsOK' /\ RestOK'
    BY <1>6, <2>1, <2>2 DEF CloseApproved, FilesOK, RunsOK, RestOK, Sound, Honest, Save
  <2>4. ThreadsOK'
    <3>1. pc' \in [Actors -> Steps] /\ op' \in [Actors -> Ops] /\ mem' \in [Actors -> QueueState]
      BY <1>6, <2>1, <2>2, NewQueueSound DEF CloseApproved, ThreadsOK, Sound, Save
    <3>2. Honest(mem[a])'
      BY <1>6, <2>1, <2>2, NewQueueSound DEF CloseApproved, ThreadsOK, Sound, Honest, Save
    <3>3. InPlace(a)'
      BY <1>6, <2>1, <2>2 DEF CloseApproved, ThreadsOK, InPlace, OnChild, Save
    <3> QED BY <1>6, <3>1, <3>2, <3>3, OneThread DEF CloseApproved, Save
  <2> QED BY <2>3, <2>4
<1> QED BY <1>1, <1>2, <1>3, <1>4, <1>5, <1>6 DEF DeliveryStep

(* A step of a review or a commit retry. *)
LEMMA WebKeeps ==
  ASSUME Inv, NEW w \in Web,
         WebStep(w) \/ RetryCommit(w) \/ \E d \in Decisions : Review(w, d)
  PROVE  Inv'
<1>1. ASSUME NEW d \in Decisions, Review(w, d) PROVE Inv'
  <2>1. FilesOK' /\ RunsOK' /\ RestOK'
    BY <1>1 DEF Review, FilesOK, RunsOK, RestOK, Sound, Honest, Load
  <2>2. ThreadsOK'
    <3>1. pc' \in [Actors -> Steps] /\ op' \in [Actors -> Ops] /\ mem' \in [Actors -> QueueState]
      BY <1>1, NewQueueSound DEF Review, FilesOK, ThreadsOK, Sound, Load, QueueState
    <3>2. Honest(mem[w])'
      BY <1>1, NewQueueSound DEF Review, FilesOK, ThreadsOK, Sound, Honest, Load, QueueState
    <3>3. InPlace(w)'
      BY <1>1, NewQueueSound DEF Review, FilesOK, RunsOK, ThreadsOK, Sound, InPlace, OnChild,
        Load, QueueState
    <3> QED BY <1>1, <3>1, <3>2, <3>3, OneThread DEF Review, Load
  <2> QED BY <2>1, <2>2
<1>2. ASSUME Record(w) PROVE Inv'
  <2> DEFINE q == [mem[w] EXCEPT !.acked[mem[w].current] = op[w]]
  <2>1. Sound(q) /\ q.current = mem[w].current
    <3>1. Sound(mem[w]) /\ mem[w].current \in Tasks
      BY <1>2 DEF Record, ThreadsOK, InPlace, OnChild, Sound
    <3>2. op[w] \in Reviews
      BY <1>2 DEF Record, ThreadsOK, InPlace, Reviews
    <3> QED BY <3>1, <3>2, AckSound
  <2>2. mem' = [mem EXCEPT ![w] = q]
    BY <1>2 DEF Record
  <2> HIDE DEF q
  <2>3. FilesOK'
    BY <1>2, <2>1, <2>2 DEF Record, FilesOK, RunsOK, Sound, Honest, Reviews
  <2>4. RunsOK'
    BY <1>2, <2>1, <2>2 DEF Record, RunsOK, FilesOK, ThreadsOK, InPlace, OnChild, Sound, Honest,
      Reviews
  <2>5. RestOK'
    BY <1>2, <2>1, <2>2 DEF Record, RestOK
  <2>6. ThreadsOK'
    <3>1. pc' \in [Actors -> Steps] /\ op' \in [Actors -> Ops] /\ mem' \in [Actors -> QueueState]
      BY <1>2, <2>1, <2>2, NewQueueSound DEF Record, ThreadsOK, Sound
    <3>2. Honest(mem[w])'
      BY <1>2, <2>1, <2>2 DEF Record, ThreadsOK, Honest
    <3>3. InPlace(w)'
      BY <1>2, <2>1, <2>2 DEF Record, ThreadsOK, InPlace, OnChild
    <3> QED BY <1>2, <3>1, <3>2, <3>3, OneThread DEF Record
  <2> QED BY <2>3, <2>4, <2>5, <2>6
<1>3. ASSUME RecordRefused(w) PROVE Inv'
  <2>1. FilesOK' /\ RunsOK' /\ RestOK'
    BY <1>3 DEF RecordRefused, FilesOK, RunsOK, RestOK, Sound, Honest, Return
  <2>2. ThreadsOK'
    <3>1. pc' \in [Actors -> Steps] /\ op' \in [Actors -> Ops] /\ mem' \in [Actors -> QueueState]
      BY <1>3, NewQueueSound DEF RecordRefused, ThreadsOK, Sound, Return
    <3>2. Honest(mem[w])'
      BY <1>3, NewQueueSound DEF RecordRefused, ThreadsOK, Sound, Honest, Return
    <3>3. InPlace(w)'
      BY <1>3 DEF RecordRefused, ThreadsOK, InPlace, OnChild, Return
    <3> QED BY <1>3, <3>1, <3>2, <3>3, OneThread DEF RecordRefused, Return
  <2> QED BY <2>1, <2>2
<1>4. ASSUME Reopen(w) PROVE Inv'
  <2>1. FilesOK' /\ RunsOK' /\ RestOK'
    BY <1>4 DEF Reopen, FilesOK, RunsOK, RestOK, Sound, Honest, RunStatus, Reviews
  <2>2. ThreadsOK'
    <3>1. pc' \in [Actors -> Steps] /\ op' \in [Actors -> Ops] /\ mem' \in [Actors -> QueueState]
      BY <1>4 DEF Reopen, ThreadsOK
    <3>2. Honest(mem[w])'
      BY <1>4 DEF Reopen, ThreadsOK, Honest
    <3>3. InPlace(w)'
      BY <1>4 DEF Reopen, ThreadsOK, InPlace, OnChild
    <3> QED BY <1>4, <3>1, <3>2, <3>3, OneThread DEF Reopen
  <2> QED BY <2>1, <2>2
<1>5. ASSUME RetryCommit(w) PROVE Inv'
  <2>1. FilesOK' /\ RunsOK' /\ RestOK'
    BY <1>5 DEF RetryCommit, FilesOK, RunsOK, RestOK, Sound, Honest, Load
  <2>2. ThreadsOK'
    <3>1. pc' \in [Actors -> Steps] /\ op' \in [Actors -> Ops] /\ mem' \in [Actors -> QueueState]
      BY <1>5, NewQueueSound DEF RetryCommit, FilesOK, ThreadsOK, Sound, Load, QueueState
    <3>2. Honest(mem[w])'
      BY <1>5, NewQueueSound DEF RetryCommit, FilesOK, ThreadsOK, Sound, Honest, Load,
        QueueState
    <3>3. InPlace(w)'
      BY <1>5, NewQueueSound DEF RetryCommit, FilesOK, RunsOK, ThreadsOK, Sound, InPlace,
        OnChild, Load, QueueState
    <3> QED BY <1>5, <3>1, <3>2, <3>3, OneThread DEF RetryCommit, Load
  <2> QED BY <2>1, <2>2
<1>6. ASSUME CloseChanges(w) PROVE Inv'
  <2> DEFINE q == Mark(mem[w], mem[w].current, "running", "running")
  <2>1. Sound(q)
    BY <1>6, MarkSound DEF CloseChanges, ThreadsOK, InPlace, OnChild, Sound, ChildStatus,
      QueueStatus
  <2>2. disk' = q /\ mem' = [mem EXCEPT ![w] = q]
    BY <1>6 DEF CloseChanges, Save
  <2> HIDE DEF q
  <2>3. FilesOK' /\ RunsOK' /\ RestOK'
    BY <1>6, <2>1, <2>2 DEF CloseChanges, FilesOK, RunsOK, RestOK, Sound, Honest, Save
  <2>4. ThreadsOK'
    <3>1. pc' \in [Actors -> Steps] /\ op' \in [Actors -> Ops] /\ mem' \in [Actors -> QueueState]
      BY <1>6, <2>1, <2>2, NewQueueSound DEF CloseChanges, ThreadsOK, Sound, Save
    <3>2. Honest(mem[w])'
      BY <1>6, <2>1, <2>2, NewQueueSound DEF CloseChanges, ThreadsOK, Sound, Honest, Save
    <3>3. InPlace(w)'
      BY <1>6, <2>1, <2>2 DEF CloseChanges, ThreadsOK, InPlace, OnChild, Save
    <3> QED BY <1>6, <3>1, <3>2, <3>3, OneThread DEF CloseChanges, Save
  <2> QED BY <2>3, <2>4
<1>7. ASSUME CloseRejected(w) PROVE Inv'
  <2> DEFINE q == Mark(mem[w], mem[w].current, "rejected", "rejected")
  <2>1. Sound(q)
    BY <1>7, MarkSound DEF CloseRejected, ThreadsOK, InPlace, OnChild, Sound, ChildStatus,
      QueueStatus
  <2>2. disk' = q /\ mem' = [mem EXCEPT ![w] = NewQueue]
    BY <1>7 DEF CloseRejected, SaveAndReturn, Save, Return
  <2> HIDE DEF q
  <2>3. FilesOK' /\ RunsOK' /\ RestOK'
    BY <1>7, <2>1, <2>2 DEF CloseRejected, FilesOK, RunsOK, RestOK, Sound, Honest,
      SaveAndReturn, Save, Return
  <2>4. ThreadsOK'
    <3>1. pc' \in [Actors -> Steps] /\ op' \in [Actors -> Ops] /\ mem' \in [Actors -> QueueState]
      BY <1>7, <2>1, <2>2, NewQueueSound DEF CloseRejected, ThreadsOK, Sound, SaveAndReturn,
        Save, Return
    <3>2. Honest(mem[w])'
      BY <1>7, <2>1, <2>2, NewQueueSound DEF CloseRejected, ThreadsOK, Sound, Honest,
        SaveAndReturn, Save, Return
    <3>3. InPlace(w)'
      BY <1>7, <2>1, <2>2 DEF CloseRejected, ThreadsOK, InPlace, OnChild, SaveAndReturn, Save,
        Return
    <3> QED BY <1>7, <3>1, <3>2, <3>3, OneThread DEF CloseRejected, SaveAndReturn, Save, Return
  <2> QED BY <2>3, <2>4
<1>8. ASSUME Refresh(w) PROVE Inv'
  <2>1. FilesOK' /\ RunsOK' /\ RestOK'
    BY <1>8 DEF Refresh, FilesOK, RunsOK, RestOK, Sound, Honest, Load
  <2>2. ThreadsOK'
    <3>1. pc' \in [Actors -> Steps] /\ op' \in [Actors -> Ops] /\ mem' \in [Actors -> QueueState]
      BY <1>8, NewQueueSound DEF Refresh, FilesOK, ThreadsOK, Sound, Load
    <3>2. Honest(mem[w])'
      BY <1>8, NewQueueSound DEF Refresh, FilesOK, ThreadsOK, Sound, Honest, Load
    <3>3. InPlace(w)'
      BY <1>8 DEF Refresh, ThreadsOK, InPlace, OnChild, Load
    <3> QED BY <1>8, <3>1, <3>2, <3>3, OneThread DEF Refresh, Load
  <2> QED BY <2>1, <2>2
<1>9. ASSUME SaveRefreshed(w) PROVE Inv'
  <2>1. FilesOK' /\ RunsOK' /\ RestOK'
    BY <1>9 DEF SaveRefreshed, FilesOK, RunsOK, RestOK, ThreadsOK, Sound, Honest, Save
  <2>2. ThreadsOK'
    <3>1. pc' \in [Actors -> Steps] /\ op' \in [Actors -> Ops] /\ mem' \in [Actors -> QueueState]
      BY <1>9 DEF SaveRefreshed, ThreadsOK, Save
    <3>2. Honest(mem[w])'
      BY <1>9 DEF SaveRefreshed, ThreadsOK, Honest, Save
    <3>3. InPlace(w)'
      BY <1>9 DEF SaveRefreshed, ThreadsOK, InPlace, OnChild, Save
    <3> QED BY <1>9, <3>1, <3>2, <3>3, OneThread DEF SaveRefreshed, Save
  <2> QED BY <2>1, <2>2
<1>10. ASSUME Submit(w) PROVE Inv'
  <2>1. FilesOK' /\ RunsOK' /\ RestOK'
    BY <1>10 DEF Submit, FilesOK, RunsOK, RestOK, Sound, Honest
  <2>2. ThreadsOK'
    <3>1. pc' \in [Actors -> Steps] /\ op' \in [Actors -> Ops] /\ mem' \in [Actors -> QueueState]
      BY <1>10, NewQueueSound DEF Submit, ThreadsOK, Sound
    <3>2. Honest(mem[w])'
      BY <1>10, NewQueueSound DEF Submit, ThreadsOK, Sound, Honest
    <3>3. InPlace(w)'
      BY <1>10 DEF Submit, ThreadsOK, InPlace, OnChild
    <3> QED BY <1>10, <3>1, <3>2, <3>3, OneThread DEF Submit
  <2> QED BY <2>1, <2>2
<1> QED BY <1>1, <1>2, <1>3, <1>4, <1>5, <1>6, <1>7, <1>8, <1>9, <1>10 DEF WebStep

(* An edit of the queue, a resume request, or the end of the process. *)
LEMMA EditKeeps ==
  ASSUME Inv, Edit \/ SaveEdit \/ ResumeQueue \/ Crash
  PROVE  Inv'
<1>1. ASSUME NEW t \in Tasks, SkipSubtask(t) PROVE Inv'
  <2> DEFINE q == LET s == [disk EXCEPT !.child[t] = "skipped"]
                 IN  IF s.current = NoTask /\ AllDone(s) THEN [s EXCEPT !.status = "completed"] ELSE s
  <2>1. Sound(q)
    BY <1>1, SkipSound, StatusSound DEF FilesOK, QueueStatus
  <2>2. mem' = [mem EXCEPT !["loop"] = q]
    BY <1>1 DEF SkipSubtask, Begin, Load
  <2> HIDE DEF q
  <2>3. FilesOK' /\ RunsOK' /\ RestOK'
    BY <1>1, <2>1, <2>2 DEF SkipSubtask, FilesOK, RunsOK, RestOK, Sound, Honest, Begin, Load
  <2>4. ThreadsOK'
    <3>1. pc' \in [Actors -> Steps] /\ op' \in [Actors -> Ops] /\ mem' \in [Actors -> QueueState]
      BY <1>1, <2>1, <2>2, NewQueueSound DEF SkipSubtask, ThreadsOK, Sound, Begin, Load
    <3>2. Honest(mem["loop"])'
      BY <1>1, <2>1, <2>2, NewQueueSound DEF SkipSubtask, ThreadsOK, Sound, Honest, Begin, Load
    <3>3. InPlace("loop")'
      BY <1>1, <2>1, <2>2 DEF SkipSubtask, ThreadsOK, InPlace, OnChild, Begin, Load
    <3> QED BY <1>1, <3>1, <3>2, <3>3, OneThread DEF SkipSubtask, Begin, Load
  <2> QED BY <2>3, <2>4
<1>2. ASSUME NEW t \in Tasks, NEW u \in Tasks, ReorderPending(t, u) PROVE Inv'
  <2> DEFINE q == [disk EXCEPT !.slot[t] = disk.slot[u], !.slot[u] = disk.slot[t]]
  <2>1. Sound(q)
    BY <1>2, OrderSound DEF FilesOK
  <2>2. mem' = [mem EXCEPT !["loop"] = q]
    BY <1>2 DEF ReorderPending, Begin, Load
  <2> HIDE DEF q
  <2>3. FilesOK' /\ RunsOK' /\ RestOK'
    BY <1>2, <2>1, <2>2 DEF ReorderPending, FilesOK, RunsOK, RestOK, Sound, Honest, Begin, Load
  <2>4. ThreadsOK'
    <3>1. pc' \in [Actors -> Steps] /\ op' \in [Actors -> Ops] /\ mem' \in [Actors -> QueueState]
      BY <1>2, <2>1, <2>2, NewQueueSound DEF ReorderPending, ThreadsOK, Sound, Begin, Load
    <3>2. Honest(mem["loop"])'
      BY <1>2, <2>1, <2>2, NewQueueSound DEF ReorderPending, ThreadsOK, Sound, Honest, Begin,
        Load
    <3>3. InPlace("loop")'
      BY <1>2, <2>1, <2>2 DEF ReorderPending, ThreadsOK, InPlace, OnChild, Begin, Load
    <3> QED BY <1>2, <3>1, <3>2, <3>3, OneThread DEF ReorderPending, Begin, Load
  <2> QED BY <2>3, <2>4
<1>3. ASSUME NEW action \in {"pause", "cancel"}, RequestControl(action) PROVE Inv'
  <2>1. FilesOK'
    BY <1>3 DEF RequestControl, FilesOK, RunsOK, Sound, Honest, Requests
  <2>2. RunsOK'
    BY <1>3 DEF RequestControl, RunsOK
  <2>3. RestOK'
    BY <1>3 DEF RequestControl, RestOK
  <2>4. ThreadsOK'
    <3>1. pc' \in [Actors -> Steps] /\ op' \in [Actors -> Ops] /\ mem' \in [Actors -> QueueState]
      BY <1>3 DEF RequestControl, ThreadsOK
    <3>2. Honest(mem["loop"])'
      BY <1>3 DEF RequestControl, ThreadsOK, Honest
    <3>3. InPlace("loop")'
      BY <1>3 DEF RequestControl, ThreadsOK, InPlace, OnChild
    <3> QED BY <1>3, <3>1, <3>2, <3>3, OneThread DEF RequestControl
  <2> QED BY <2>1, <2>2, <2>3, <2>4
<1>4. ASSUME PauseInactive PROVE Inv'
  <2> DEFINE q == IF disk.current # NoTask /\ disk.child[disk.current] = "running"
                   THEN Mark(disk, disk.current, "paused", "paused")
                   ELSE [disk EXCEPT !.status = "paused"]
  <2>1. Sound(q)
    <3>1. Sound(disk) /\ (disk.current # NoTask => disk.current \in Tasks)
      BY DEF FilesOK, Sound, QueueState
    <3>2. "paused" \in QueueStatus /\ "paused" \in ChildStatus
      BY DEF QueueStatus, ChildStatus
    <3>3. CASE disk.current # NoTask /\ disk.child[disk.current] = "running"
      BY <3>1, <3>2, <3>3, MarkSound
    <3>4. CASE ~ (disk.current # NoTask /\ disk.child[disk.current] = "running")
      BY <3>1, <3>2, <3>4, StatusSound
    <3> QED BY <3>3, <3>4
  <2>2. mem' = [mem EXCEPT !["loop"] = q]
    BY <1>4 DEF PauseInactive, Begin, Load
  <2> HIDE DEF q
  <2>3. FilesOK' /\ RunsOK' /\ RestOK'
    BY <1>4, <2>1, <2>2 DEF PauseInactive, FilesOK, RunsOK, RestOK, Sound, Honest, Begin, Load
  <2>4. ThreadsOK'
    <3>1. pc' \in [Actors -> Steps] /\ op' \in [Actors -> Ops] /\ mem' \in [Actors -> QueueState]
      BY <1>4, <2>1, <2>2, NewQueueSound DEF PauseInactive, ThreadsOK, Sound, Begin, Load
    <3>2. Honest(mem["loop"])'
      BY <1>4, <2>1, <2>2, NewQueueSound DEF PauseInactive, ThreadsOK, Sound, Honest, Begin,
        Load
    <3>3. InPlace("loop")'
      BY <1>4, <2>1, <2>2 DEF PauseInactive, ThreadsOK, InPlace, OnChild, Begin, Load
    <3> QED BY <1>4, <3>1, <3>2, <3>3, OneThread DEF PauseInactive, Begin, Load
  <2> QED BY <2>3, <2>4
<1>5. ASSUME CancelInactive PROVE Inv'
  <2> DEFINE q == IF disk.current # NoTask /\ disk.child[disk.current] \notin Done
                   THEN Mark(disk, disk.current, "cancelled", "cancelled")
                   ELSE [disk EXCEPT !.status = "cancelled"]
  <2>1. Sound(q)
    <3>1. Sound(disk) /\ (disk.current # NoTask => disk.current \in Tasks)
      BY DEF FilesOK, Sound, QueueState
    <3>2. "cancelled" \in QueueStatus /\ "cancelled" \in ChildStatus
      BY DEF QueueStatus, ChildStatus
    <3>3. CASE disk.current # NoTask /\ disk.child[disk.current] \notin Done
      BY <3>1, <3>2, <3>3, MarkSound
    <3>4. CASE ~ (disk.current # NoTask /\ disk.child[disk.current] \notin Done)
      BY <3>1, <3>2, <3>4, StatusSound
    <3> QED BY <3>3, <3>4
  <2>2. mem' = [mem EXCEPT !["loop"] = q]
    BY <1>5 DEF CancelInactive, Begin, Load
  <2> HIDE DEF q
  <2>3. FilesOK' /\ RunsOK' /\ RestOK'
    BY <1>5, <2>1, <2>2 DEF CancelInactive, FilesOK, RunsOK, RestOK, Sound, Honest, Begin, Load
  <2>4. ThreadsOK'
    <3>1. pc' \in [Actors -> Steps] /\ op' \in [Actors -> Ops] /\ mem' \in [Actors -> QueueState]
      BY <1>5, <2>1, <2>2, NewQueueSound DEF CancelInactive, ThreadsOK, Sound, Begin, Load
    <3>2. Honest(mem["loop"])'
      BY <1>5, <2>1, <2>2, NewQueueSound DEF CancelInactive, ThreadsOK, Sound, Honest, Begin,
        Load
    <3>3. InPlace("loop")'
      BY <1>5, <2>1, <2>2 DEF CancelInactive, ThreadsOK, InPlace, OnChild, Begin, Load
    <3> QED BY <1>5, <3>1, <3>2, <3>3, OneThread DEF CancelInactive, Begin, Load
  <2> QED BY <2>3, <2>4
<1>6. ASSUME SaveEdit PROVE Inv'
  <2>1. FilesOK' /\ RunsOK' /\ RestOK'
    BY <1>6 DEF SaveEdit, FilesOK, RunsOK, RestOK, ThreadsOK, Sound, Honest, SaveAndReturn,
      Save, Return, RunStatus, Requests, QueueState
  <2>2. ThreadsOK'
    <3>1. pc' \in [Actors -> Steps] /\ op' \in [Actors -> Ops] /\ mem' \in [Actors -> QueueState]
      BY <1>6, NewQueueSound DEF SaveEdit, ThreadsOK, Sound, SaveAndReturn, Save, Return
    <3>2. Honest(mem["loop"])'
      BY <1>6, NewQueueSound DEF SaveEdit, ThreadsOK, Sound, Honest, SaveAndReturn, Save, Return
    <3>3. InPlace("loop")'
      BY <1>6 DEF SaveEdit, ThreadsOK, InPlace, OnChild, SaveAndReturn, Save, Return
    <3> QED BY <1>6, <3>1, <3>2, <3>3, OneThread DEF SaveEdit, SaveAndReturn, Save, Return
  <2> QED BY <2>1, <2>2
<1>7. ASSUME ResumeQueue PROVE Inv'
  <2>1. FilesOK' /\ RunsOK' /\ RestOK'
    BY <1>7 DEF ResumeQueue, FilesOK, RunsOK, RestOK, Sound, Honest
  <2>2. ThreadsOK'
    <3>1. pc' \in [Actors -> Steps] /\ op' \in [Actors -> Ops] /\ mem' \in [Actors -> QueueState]
      BY <1>7 DEF ResumeQueue, ThreadsOK
    <3>2. Honest(mem["exec"])'
      BY <1>7 DEF ResumeQueue, ThreadsOK, Honest
    <3>3. InPlace("exec")'
      BY <1>7 DEF ResumeQueue, ThreadsOK, InPlace, OnChild
    <3> QED BY <1>7, <3>1, <3>2, <3>3, OneThread DEF ResumeQueue
  <2> QED BY <2>1, <2>2
<1>8. ASSUME Crash PROVE Inv'
  <2>1. FilesOK' /\ RunsOK' /\ RestOK'
    BY <1>8 DEF Crash, FilesOK, RunsOK, RestOK, Sound, Honest
  <2>2. ThreadsOK'
    BY <1>8, NewQueueSound DEF Crash, ThreadsOK, Sound, Honest, InPlace, OnChild
  <2> QED BY <2>1, <2>2
<1> QED BY <1>1, <1>2, <1>3, <1>4, <1>5, <1>6, <1>7, <1>8 DEF Edit

-----------------------------------------------------------------------------
(* The queue as it is prepared satisfies the invariant. *)
LEMMA InitKeeps == Init => Inv
<1> SUFFICES ASSUME Init PROVE Inv
  OBVIOUS
<1>1. FilesOK /\ RunsOK /\ RestOK
  BY ConstantAssumption, NewQueueSound
  DEF Init, FilesOK, RunsOK, RestOK, Sound, Honest, Requests, RunStatus, Reviews
<1>2. ThreadsOK
  BY NewQueueSound DEF Init, ThreadsOK, Sound, Honest, InPlace, OnChild, NewQueue
<1> QED BY <1>1, <1>2

(* Every step of the specification keeps the invariant. *)
LEMMA NextKeeps == Inv /\ [Next]_vars => Inv'
<1> SUFFICES ASSUME Inv, [Next]_vars PROVE Inv'
  OBVIOUS
<1>1. CASE ExecStep
  BY <1>1, ResumeKeeps, RunStepKeeps DEF ExecStep
<1>2. CASE \E a \in Web \union {"exec"} : DeliveryStep(a)
  BY <1>2, DeliveryKeeps
<1>3. CASE \E w \in Web : WebStep(w) \/ RetryCommit(w) \/ \E d \in Decisions : Review(w, d)
  BY <1>3, WebKeeps
<1>4. CASE Edit \/ SaveEdit \/ ResumeQueue \/ Crash
  BY <1>4, EditKeeps
<1>5. CASE UNCHANGED vars
  BY <1>5 DEF vars, FilesOK, RunsOK, ThreadsOK, RestOK, Sound, Honest, InPlace
<1> QED BY <1>1, <1>2, <1>3, <1>4, <1>5 DEF Next

(* Whatever the threads do and wherever the process dies, the invariant holds. *)
THEOREM QueueInvariant == Spec => []Inv
BY InitKeeps, NextKeeps, PTL DEF Spec

(* The states of the queue, of its children and of the threads keep their types. *)
THEOREM QueueTypes == Spec => []TypeOK
<1>1. Inv => TypeOK
  BY DEF TypeOK, FilesOK, RunsOK, ThreadsOK, RestOK, Sound
<1> QED BY <1>1, QueueInvariant, PTL

(* The queue never builds on work that is not committed: neither its own copies of the state, *)
(* however old the one that is written back last, nor the cumulative diff, nor the worktrees  *)
(* made from it hold any.                                                                      *)
THEOREM OnlyCommittedIsBuiltOn == Spec => []BuildsOnCommitted
<1>1. Inv => BuildsOnCommitted
  BY DEF BuildsOnCommitted, FilesOK, RunsOK, ThreadsOK, Sound
<1> QED BY <1>1, QueueInvariant, PTL
-----------------------------------------------------------------------------
(* While nobody has overwritten a save unseen, the queue is serial and      *)
(* edits hold.  The invariant behind it: the file is that of a serial       *)
(* queue, and every copy that is not late differs from it only by what its  *)
(* thread is about to save.                                                 *)

Unbegun == {"pending", "skipped"}
CompletedOf(q) == {t \in Tasks : q.child[t] = "completed"}

(* One child at a time, in order, each with the work of those before it. *)
Serial(q) ==
  /\ \A t, u \in Tasks : q.slot[t] = q.slot[u] => t = u
  /\ \A t \in Tasks : t = q.current <=> q.child[t] \notin Unbegun \union {"completed"}
  /\ \A t, u \in Tasks :
       (q.child[t] = "completed" \/ t = q.current) /\ q.child[u] \notin Done /\ u # t
         => q.slot[t] < q.slot[u]
  /\ q.sum = CompletedOf(q)

(* The file tells which children have begun, which are skipped, and what    *)
(* the current one started from.                                            *)
FileOK(q) ==
  /\ Serial(q)
  /\ \A t \in Tasks : q.child[t] \in Unbegun => t \notin Begun
  /\ \A t \in Tasks : t \in skipped => q.child[t] = "skipped"
  /\ q.current \in Begun => base[q.current] = q.sum
  /\ q.status = "completed" => q.current = NoTask

(* After a cancellation nothing can be reviewed, resumed or selected. *)
StoppedAt(q) ==
  /\ q.status \in {"cancelled", "completed"}
  /\ q.current # NoTask => q.child[q.current] # "waiting_review"

(* Where the executor runs a child, and where a copy waits to be saved. *)
Quiet   == {"start", "create", "work", "end"}
Editing == {"reopened", "record", "reopen", "deliver", "delivering", "promote", "close"}

Same(q) == q.child = disk.child /\ q.current = disk.current /\ q.slot = disk.slot

Extended(a) == pc[a] = "close" /\ op[a] \in {"approved", "recover"}

CopyOK(a) ==
  /\ pc[a] \in Editing =>
       /\ Same(mem[a]) /\ ~ stopped
       /\ mem[a].sum = IF Extended(a) THEN disk.sum \union {disk.current} ELSE disk.sum
  /\ pc[a] = "refreshed" => mem[a] = disk

EditOK ==
  pc["loop"] = "save" =>
    /\ Serial(mem["loop"])
    /\ mem["loop"].current = disk.current /\ mem["loop"].sum = disk.sum
    /\ \A t \in Tasks :
         \/ mem["loop"].child[t] = disk.child[t]
         \/ disk.child[t] = "pending" /\ mem["loop"].child[t] = "skipped"
         \/ t = disk.current
    /\ mem["loop"].status = "completed" => mem["loop"].current = NoTask
    /\ stopped \/ op["loop"] = "cancel" => StoppedAt(mem["loop"])

(* While the executor runs a child nobody else's copy can still be saved. *)
QuietOK ==
  pc["exec"] \in Quiet =>
    /\ mem["exec"] = disk /\ disk.current \in Tasks
    /\ disk.child[disk.current] = "running" /\ disk.status = "running"
    /\ ~ stopped
    /\ \A a \in Actors : pc[a] \in Editing \union {"save"} => late[a]

Ordered ==
  /\ FileOK(disk) /\ QuietOK
  /\ stopped => StoppedAt(disk)
  /\ \A a \in Actors : late[a] \/ CopyOK(a)
  /\ late["loop"] \/ EditOK

(* Whatever the saves do: work is done on begun children only, and delivered on approval. *)
BegunOK ==
  /\ delivered \subseteq Begun /\ pc["loop"] \in {"idle", "save"}
  /\ \A t \in Tasks : rev[t] # "pending" => t \in Begun
  /\ \A a \in Actors :
       /\ pc[a] \in {"reopen", "delivering", "create", "work"} => mem[a].current \in Begun
       /\ pc[a] \in {"deliver", "delivering", "promote"} => op[a] \in {"approved", "recover"}
-----------------------------------------------------------------------------
(* A child begins in StartChild and nowhere else, and stays begun. *)
LEMMA BegunSteps ==
  ASSUME Inv, BegunOK, Next
  PROVE  BegunOK' /\ (StartChild \/ (Begun' = Begun /\ base' = base))
<1>1. ASSUME ResumeRun PROVE BegunOK' /\ Begun' = Begun /\ base' = base
  BY <1>1 DEF ResumeRun, BegunOK, Begun, RunsOK, ThreadsOK, Load, Return
<1>2. ASSUME ResumePaused \/ ResumeDelivery \/ SaveReopened \/ ResumeOther \/ SelectNothing
               \/ StartFails \/ StartBlocked \/ \E t \in Tasks : SelectChild(t)
      PROVE  BegunOK' /\ Begun' = Begun /\ base' = base
  BY <1>2 DEF ResumePaused, ResumeDelivery, SaveReopened, ResumeOther, SelectNothing, StartFails,
    StartBlocked, SelectChild, BegunOK, Begun, ThreadsOK, Load, Save, Return, SaveAndReturn,
    FailQueue
<1>3. ASSUME StartChild PROVE BegunOK'
  BY <1>3 DEF StartChild, BegunOK, Begun, RunsOK, ThreadsOK, InPlace, OnChild
<1>4. ASSUME RunBegins \/ ResumeChild \/ SaveResult \/ \E s \in Final : RunEnds(s)
      PROVE  BegunOK' /\ Begun' = Begun /\ base' = base
  <2>1. ASSUME RunBegins PROVE BegunOK' /\ Begun' = Begun /\ base' = base
    BY <2>1 DEF RunBegins, BegunOK, Begun, RunsOK, ThreadsOK
  <2>2. ASSUME ResumeChild PROVE BegunOK' /\ Begun' = Begun /\ base' = base
    BY <2>2 DEF ResumeChild, BegunOK, Begun, RunsOK, ThreadsOK, InPlace, OnChild
  <2>3. ASSUME SaveResult PROVE BegunOK' /\ Begun' = Begun /\ base' = base
    BY <2>3 DEF SaveResult, BegunOK, Begun, ThreadsOK, Save, Return, SaveAndReturn
  <2>4. ASSUME NEW s \in Final, RunEnds(s) PROVE BegunOK' /\ Begun' = Begun /\ base' = base
    BY <2>4 DEF RunEnds, BegunOK, Begun, RunsOK, ThreadsOK, Final
  <2> QED BY <1>4, <2>1, <2>2, <2>3, <2>4
<1>5. ASSUME NEW a \in Web \union {"exec"}, DeliveryStep(a)
      PROVE  BegunOK' /\ Begun' = Begun /\ base' = base
  <2>1. ASSUME BeginDelivery(a) PROVE BegunOK' /\ Begun' = Begun /\ base' = base
    BY <2>1 DEF BeginDelivery, BegunOK, Begun, RunsOK, ThreadsOK, InPlace, OnChild
  <2>2. ASSUME Commit(a) PROVE BegunOK' /\ Begun' = Begun /\ base' = base
    BY <2>2 DEF Commit, BegunOK, Begun, RunsOK, ThreadsOK
  <2>3. ASSUME DeliveryRefused(a) \/ DeliveryFails(a)
        PROVE  BegunOK' /\ Begun' = Begun /\ base' = base
    BY <2>3 DEF DeliveryRefused, DeliveryFails, BegunOK, Begun, ThreadsOK, Save, Return,
      SaveAndReturn, FailQueue
  <2>4. ASSUME Promote(a) \/ CloseApproved(a) PROVE BegunOK' /\ Begun' = Begun /\ base' = base
    BY <2>4 DEF Promote, CloseApproved, BegunOK, Begun, ThreadsOK, Save
  <2> QED BY <1>5, <2>1, <2>2, <2>3, <2>4 DEF DeliveryStep
<1>6. ASSUME NEW w \in Web, WebStep(w) \/ RetryCommit(w) \/ \E d \in Decisions : Review(w, d)
      PROVE  BegunOK' /\ Begun' = Begun /\ base' = base
  <2>1. ASSUME Record(w) PROVE BegunOK' /\ Begun' = Begun /\ base' = base
    BY <2>1 DEF Record, Acceptable, Final, BegunOK, Begun, RunsOK, ThreadsOK, InPlace, OnChild,
      QueueState
  <2>2. ASSUME Reopen(w) PROVE BegunOK' /\ Begun' = Begun /\ base' = base
    BY <2>2 DEF Reopen, BegunOK, Begun, RunsOK, ThreadsOK
  <2>3. ASSUME RecordRefused(w) \/ CloseChanges(w) \/ CloseRejected(w) \/ Refresh(w)
                 \/ SaveRefreshed(w) \/ Submit(w) \/ RetryCommit(w)
                 \/ \E d \in Decisions : Review(w, d)
        PROVE  BegunOK' /\ Begun' = Begun /\ base' = base
    <3>1. w # "loop"
      BY ConstantAssumption
    <3>2. ASSUME CloseChanges(w) \/ CloseRejected(w) \/ SaveRefreshed(w)
          PROVE  BegunOK' /\ Begun' = Begun /\ base' = base
      BY <3>1, <3>2 DEF CloseChanges, CloseRejected, SaveRefreshed, BegunOK, Begun, ThreadsOK, Save,
        Return, SaveAndReturn
    <3>3. ASSUME RecordRefused(w) \/ Refresh(w) \/ Submit(w)
          PROVE  BegunOK' /\ Begun' = Begun /\ base' = base
      BY <3>1, <3>3 DEF RecordRefused, Refresh, Submit, BegunOK, Begun, ThreadsOK, Load, Return
    <3>4. ASSUME RetryCommit(w) \/ \E d \in Decisions : Review(w, d)
          PROVE  BegunOK' /\ Begun' = Begun /\ base' = base
      BY <3>1, <3>4 DEF RetryCommit, Review, BegunOK, Begun, ThreadsOK, Load
    <3> QED BY <2>3, <3>2, <3>3, <3>4
  <2> QED BY <1>6, <2>1, <2>2, <2>3 DEF WebStep
<1>7. ASSUME SaveEdit PROVE BegunOK' /\ Begun' = Begun /\ base' = base
  BY <1>7 DEF SaveEdit, BegunOK, Begun, RunsOK, ThreadsOK, QueueState, Save, Return, SaveAndReturn
<1>8. ASSUME Edit PROVE BegunOK' /\ Begun' = Begun /\ base' = base
  <2>1. ASSUME NEW o, NEW q, Begin(o, q) PROVE BegunOK' /\ Begun' = Begun /\ base' = base
    BY <2>1 DEF Begin, Load, BegunOK, Begun, ThreadsOK
  <2>2. ASSUME NEW action, RequestControl(action)
        PROVE  BegunOK' /\ Begun' = Begun /\ base' = base
    BY <2>2 DEF RequestControl, BegunOK, Begun, ThreadsOK
  <2> QED BY <1>8, <2>1, <2>2 DEF Edit, SkipSubtask, ReorderPending, PauseInactive, CancelInactive
<1>9. ASSUME ResumeQueue \/ Crash PROVE BegunOK' /\ Begun' = Begun /\ base' = base
  BY <1>9 DEF ResumeQueue, Crash, BegunOK, Begun, ThreadsOK
<1> QED BY <1>1, <1>2, <1>3, <1>4, <1>5, <1>6, <1>7, <1>8, <1>9 DEF Next, ExecStep
-----------------------------------------------------------------------------
(* What a save makes of the file.                                           *)

(* The file's predicate speaks of the runs only as begun, and of their bases. *)
LEMMA FileAfter ==
  ASSUME NEW q, FileOK(q), disk' = q, Begun' = Begun, base' = base, skipped' = skipped
  PROVE  FileOK(disk)'
BY DEF FileOK, Serial, CompletedOf

(* A copy that agrees with the file, with its current child marked anew: neither finished *)
(* nor unbegun, nor is the queue completed.                                               *)
LEMMA MarkFile ==
  ASSUME FileOK(disk), NEW q \in QueueState, Same(q), q.sum = disk.sum, q.current \in Tasks,
         NEW c \in ChildStatus \ {"pending", "skipped", "completed"},
         NEW s \in QueueStatus \ {"completed"}
  PROVE  FileOK(Mark(q, q.current, c, s))
<1> DEFINE t == q.current
           m == Mark(q, t, c, s)
<1>1. /\ m.current = t /\ m.slot = disk.slot /\ m.sum = disk.sum /\ m.status = s
      /\ m.child[t] = c /\ \A u \in Tasks \ {t} : m.child[u] = disk.child[u]
  BY DEF Mark, QueueState, Same
<1>2. t = disk.current /\ t \in Tasks /\ disk.child[t] \notin Unbegun \union {"completed"}
  BY DEF Same, FileOK, Serial
<1> HIDE DEF m, t
<1>3. c \notin Unbegun /\ c \notin Done /\ c # "completed"
  BY DEF Unbegun, Done
<1>4. CompletedOf(m) = CompletedOf(disk)
  BY <1>1, <1>2, <1>3 DEF CompletedOf
<1>5. Serial(m)
  <2>1. \A u, v \in Tasks : m.slot[u] = m.slot[v] => u = v
    BY <1>1 DEF FileOK, Serial
  <2>2. \A u \in Tasks : u = m.current <=> m.child[u] \notin Unbegun \union {"completed"}
    BY <1>1, <1>2, <1>3 DEF FileOK, Serial
  <2>3. ASSUME NEW u \in Tasks, NEW v \in Tasks, m.child[u] = "completed" \/ u = m.current,
               m.child[v] \notin Done, u # v
        PROVE  m.slot[u] < m.slot[v]
    <3>1. disk.child[u] = "completed" \/ u = disk.current
      BY <1>1, <1>2, <1>3, <2>3
    <3>2. disk.child[v] \notin Done
      BY <1>1, <1>2, <2>3 DEF Done, Unbegun
    <3> QED BY <1>1, <2>3, <3>1, <3>2 DEF FileOK, Serial
  <2>4. m.sum = CompletedOf(m)
    BY <1>1, <1>4 DEF FileOK, Serial
  <2> QED BY <2>1, <2>2, <2>3, <2>4 DEF Serial
<1> QED
  <2> SUFFICES FileOK(m)
    BY DEF m, t
  <2> QED BY <1>1, <1>2, <1>3, <1>5 DEF FileOK, Unbegun

(* Only the status changed. *)
LEMMA StatusFile ==
  ASSUME FileOK(disk), disk \in QueueState, NEW s \in QueueStatus,
         s = "completed" => disk.current = NoTask
  PROVE  FileOK([disk EXCEPT !.status = s])
<1> DEFINE m == [disk EXCEPT !.status = s]
<1>1. /\ m.child = disk.child /\ m.current = disk.current /\ m.slot = disk.slot
      /\ m.sum = disk.sum /\ m.status = s
  BY DEF QueueState
<1> HIDE DEF m
<1>2. FileOK(m)
  BY <1>1 DEF FileOK, Serial, CompletedOf
<1> QED BY <1>2 DEF m

(* The queue becomes the one that selected a child: the current one, or the first unfinished. *)
LEMMA SelectFile ==
  ASSUME FileOK(disk), disk \in QueueState, NEW t \in Tasks, Selects(t)
  PROVE  FileOK([Mark(disk, t, "running", "running") EXCEPT !.current = t])
<1> DEFINE m == [Mark(disk, t, "running", "running") EXCEPT !.current = t]
<1>1. /\ m.current = t /\ m.slot = disk.slot /\ m.sum = disk.sum /\ m.status = "running"
      /\ m.child[t] = "running" /\ \A u \in Tasks \ {t} : m.child[u] = disk.child[u]
  BY DEF Mark, QueueState
<1> HIDE DEF m
<1>2. "running" \notin Unbegun /\ "running" \notin Done
  BY DEF Unbegun, Done
<1>3. disk.child[t] # "completed"
  BY DEF Selects, IsNextPending
<1>4. CompletedOf(m) = CompletedOf(disk)
  BY <1>1, <1>3 DEF CompletedOf
<1>5. CASE disk.current # NoTask
  <2>1. t = disk.current /\ disk.child[t] = "running"
    BY <1>5 DEF Selects
  <2>2. \A u \in Tasks : m.child[u] = disk.child[u]
    BY <1>1, <2>1
  <2>3. Serial(m)
    BY <1>1, <1>4, <2>1, <2>2 DEF FileOK, Serial
  <2>4. FileOK(m)
    BY <1>1, <1>2, <2>1, <2>2, <2>3 DEF FileOK
  <2> QED BY <2>4 DEF m
<1>6. CASE disk.current = NoTask
  <2>1. disk.child[t] = "pending" /\ \A u \in Tasks : disk.slot[u] < disk.slot[t] => disk.child[u] \in Done
    BY <1>6 DEF Selects, IsNextPending
  <2>2. t \notin Begun
    BY <2>1 DEF FileOK, Unbegun
  <2>3. \A u \in Tasks : disk.child[u] \in Unbegun \union {"completed"}
    BY <1>6 DEF FileOK, Serial, Tasks
  <2>4. Serial(m)
    <3>1. \A u, v \in Tasks : m.slot[u] = m.slot[v] => u = v
      BY <1>1 DEF FileOK, Serial
    <3>2. \A u \in Tasks : u = m.current <=> m.child[u] \notin Unbegun \union {"completed"}
      BY <1>1, <1>2, <2>3
    <3>3. ASSUME NEW u \in Tasks, NEW v \in Tasks, m.child[u] = "completed" \/ u = m.current,
                 m.child[v] \notin Done, u # v
          PROVE  m.slot[u] < m.slot[v]
      <4>1. CASE u = t
        <5>1. disk.child[v] \notin Done
          BY <1>1, <3>3, <4>1
        <5>2. ~ (disk.slot[v] < disk.slot[t]) /\ disk.slot[v] # disk.slot[t]
          BY <2>1, <3>3, <4>1, <5>1 DEF FileOK, Serial
        <5>3. disk.slot[v] \in Int /\ disk.slot[t] \in Int
          BY ConstantAssumption DEF QueueState, Tasks
        <5> QED BY <1>1, <4>1, <5>2, <5>3
      <4>2. CASE u # t
        <5>1. disk.child[u] = "completed" /\ disk.child[v] \notin Done
          BY <1>1, <2>1, <3>3, <4>2 DEF Done
        <5> QED BY <1>1, <3>3, <5>1 DEF FileOK, Serial
      <4> QED BY <4>1, <4>2
    <3>4. m.sum = CompletedOf(m)
      BY <1>1, <1>4 DEF FileOK, Serial
    <3> QED BY <3>1, <3>2, <3>3, <3>4 DEF Serial
  <2>5. FileOK(m)
    <3>1. \A u \in Tasks : m.child[u] \in Unbegun => u \notin Begun
      BY <1>1, <1>2 DEF FileOK
    <3>2. \A u \in Tasks : u \in skipped => m.child[u] = "skipped"
      BY <1>1, <2>1 DEF FileOK
    <3> QED BY <1>1, <2>2, <2>4, <3>1, <3>2 DEF FileOK
  <2> QED BY <2>5 DEF m
<1> QED BY <1>5, <1>6

(* The current child, committed and promoted, is completed. *)
LEMMA CloseFile ==
  ASSUME FileOK(disk), disk \in QueueState, NEW q \in QueueState, Same(q), q.current \in Tasks,
         q.sum = disk.sum \union {disk.current}, NEW s \in QueueStatus
  PROVE  FileOK([[q EXCEPT !.child[q.current] = "completed", !.current = NoTask]
                   EXCEPT !.status = s])
<1> DEFINE t == q.current
           m == [[q EXCEPT !.child[t] = "completed", !.current = NoTask] EXCEPT !.status = s]
<1>1. /\ m.current = NoTask /\ m.slot = disk.slot /\ m.sum = disk.sum \union {t} /\ m.status = s
      /\ m.child[t] = "completed" /\ \A u \in Tasks \ {t} : m.child[u] = disk.child[u]
  BY DEF QueueState, Same
<1>2. t = disk.current /\ t \in Tasks /\ disk.child[t] \notin Unbegun \union {"completed"}
  BY DEF Same, FileOK, Serial
<1>3. NoTask \notin Tasks
  BY DEF Tasks
<1> HIDE DEF m, t
<1>4. CompletedOf(m) = CompletedOf(disk) \union {t}
  BY <1>1, <1>2 DEF CompletedOf
<1>5. Serial(m)
  <2>1. \A u, v \in Tasks : m.slot[u] = m.slot[v] => u = v
    BY <1>1 DEF FileOK, Serial
  <2>2. \A u \in Tasks : u = m.current <=> m.child[u] \notin Unbegun \union {"completed"}
    BY <1>1, <1>2, <1>3 DEF FileOK, Serial
  <2>3. ASSUME NEW u \in Tasks, NEW v \in Tasks, m.child[u] = "completed" \/ u = m.current,
               m.child[v] \notin Done, u # v
        PROVE  m.slot[u] < m.slot[v]
    <3>1. disk.child[u] = "completed" \/ u = disk.current
      BY <1>1, <1>2, <1>3, <2>3
    <3>2. disk.child[v] \notin Done
      BY <1>1, <1>2, <2>3 DEF Done, Unbegun
    <3> QED BY <1>1, <2>3, <3>1, <3>2 DEF FileOK, Serial
  <2>4. m.sum = CompletedOf(m)
    BY <1>1, <1>4 DEF FileOK, Serial
  <2> QED BY <2>1, <2>2, <2>3, <2>4 DEF Serial
<1>6. NoTask \notin Begun
  BY <1>3 DEF Begun
<1>7. \A u \in Tasks : m.child[u] \in Unbegun => u \notin Begun
  BY <1>1, <1>2 DEF FileOK, Unbegun
<1>8. \A u \in Tasks : u \in skipped => m.child[u] = "skipped"
  BY <1>1, <1>2 DEF FileOK, Unbegun
<1>9. FileOK(m)
  BY <1>1, <1>5, <1>6, <1>7, <1>8 DEF FileOK
<1> QED BY <1>9 DEF m, t
-----------------------------------------------------------------------------
(* What a step of one thread leaves to the others.                          *)

Fresh(b) == late[b] \/ CopyOK(b)

(* A step that saves nothing leaves the other threads' copies as good as they were. *)
LEMMA Bystanders ==
  ASSUME Ordered, NEW a \in Actors, UNCHANGED <<disk, stopped>>,
         \A b \in Actors \ {a} : /\ late'[b] = late[b] /\ mem'[b] = mem[b] /\ op'[b] = op[b]
                                 /\ pc'[b] \in {pc[b], "select"}
  PROVE  /\ \A b \in Actors \ {a} : Fresh(b)'
         /\ a # "loop" => (late["loop"] \/ EditOK)'
         /\ stopped' => StoppedAt(disk)'
<1>1. \A b \in Actors \ {a} : Fresh(b)'
  BY DEF Ordered, Fresh, CopyOK, Editing, Same, Extended
<1>2. a # "loop" => (late["loop"] \/ EditOK)'
  BY DEF Ordered, EditOK, Serial, CompletedOf, StoppedAt
<1> QED BY <1>1, <1>2 DEF Ordered, StoppedAt

(* A save makes every other copy late. *)
Overtaken(a) == late' = [b \in Actors |-> b # a /\ (late[b] \/ pc[b] # "idle")]

LEMMA Overtakes ==
  ASSUME NEW a \in Actors, Overtaken(a), \A b \in Actors \ {a} : pc'[b] \in {pc[b], "select"}
  PROVE  /\ \A b \in Actors \ {a} : Fresh(b)' /\ (pc'[b] \in {"idle", "select"} \/ late'[b])
         /\ a # "loop" => (late["loop"] \/ EditOK)'
<1>1. \A b \in Actors \ {a} : pc'[b] \in {"idle", "select"} \/ late'[b]
  BY DEF Overtaken
<1>2. \A b \in Actors \ {a} : Fresh(b)'
  BY <1>1 DEF Fresh, CopyOK, Editing
<1>3. a # "loop" => (late["loop"] \/ EditOK)'
  BY <1>1 DEF EditOK
<1> QED BY <1>1, <1>2, <1>3

(* A thread whose copy is not late and that is about to save finds the executor between runs. *)
LEMMA NobodyRuns ==
  ASSUME Ordered, NEW a \in Actors, ~ late[a], pc[a] \in Editing \union {"save"}
  PROVE  pc["exec"] \notin Quiet
BY DEF Ordered, QuietOK

(* A thread that saves its copy and has none afterwards: what is left is the file. *)
LEMMA SaveKeeps ==
  ASSUME Inv, Ordered, NEW a \in Actors, NEW q, Save(a, q), stale' = {},
         pc[a] \in Editing \union {"save", "end"} \/ (a = "exec" /\ pc[a] = "start"),
         a # "exec" => pc[a] \in Editing \union {"save"},
         \A b \in Actors \ {a} : pc'[b] \in {pc[b], "select"},
         pc'[a] \in {"idle", "select", "submit", "refresh"},
         FileOK(disk)', stopped' => StoppedAt(disk)'
  PROVE  Ordered'
<1>1. Overtaken(a) /\ ~ late[a]
  BY DEF Save, Overtaken
<1>2. Fresh(a)' /\ (late["loop"] \/ EditOK)' /\ \A b \in Actors \ {a} : Fresh(b)'
  BY <1>1, Overtakes DEF Fresh, CopyOK, EditOK, Editing
<1>3. QuietOK'
  <2>1. CASE a = "exec"
    BY <2>1 DEF QuietOK, Quiet
  <2>2. CASE a # "exec"
    BY <1>1, <2>2, NobodyRuns DEF QuietOK, Quiet
  <2> QED BY <2>1, <2>2
<1> QED BY <1>2, <1>3 DEF Ordered, Fresh

(* A thread that loads the file, or goes on with what it has, while the executor does not run. *)
LEMMA GoesOn ==
  ASSUME Inv, Ordered, NEW a \in Actors, UNCHANGED <<disk, skipped, stopped>>,
         Begun' = Begun, base' = base,
         \A b \in Actors \ {a} : /\ late'[b] = late[b] /\ mem'[b] = mem[b] /\ op'[b] = op[b]
                                 /\ pc'[b] \in {pc[b], "select"},
         Fresh(a)', (late["loop"] \/ EditOK)', QuietOK'
  PROVE  Ordered'
<1>1. FileOK(disk)'
  BY FileAfter DEF Ordered
<1>2. (stopped => StoppedAt(disk))' /\ \A b \in Actors : Fresh(b)'
  BY Bystanders
<1> QED BY <1>1, <1>2 DEF Ordered, Fresh

(* The executor's run is not disturbed by a thread that gets nothing to save. *)
LEMMA RunUndisturbed ==
  ASSUME Ordered, NEW a \in Actors \ {"exec"}, UNCHANGED <<disk, stopped>>,
         \A b \in Actors \ {a} : /\ late'[b] = late[b] /\ mem'[b] = mem[b]
                                 /\ pc'[b] \in {pc[b], "select"},
         pc'[a] \in Editing \union {"save"} =>
           late'[a] = late[a] /\ pc[a] \in Editing \union {"save"}
  PROVE  QuietOK'
BY DEF Ordered, QuietOK, Quiet, Editing
-----------------------------------------------------------------------------
(* The actions.                                                             *)

(* The executor resumes. *)
LEMMA ResumeOrdered ==
  ASSUME Inv, Ordered, Begun' = Begun, base' = base, stale' = {},
         ResumePaused \/ ResumeDelivery \/ ResumeRun \/ SaveReopened \/ ResumeOther
  PROVE  Ordered'
<1>0. disk \in QueueState /\ mem["exec"] \in QueueState /\ disk.current \in Tasks \union {NoTask}
  BY DEF FilesOK, Sound, ThreadsOK, QueueState
<1>1. ASSUME ResumePaused PROVE Ordered'
  <2> DEFINE q == Unpaused(disk)
  <2>1. FileOK(q)
    <3>1. {"pending", "running"} \subseteq QueueStatus \ {"completed"}
          /\ "running" \in ChildStatus \ {"pending", "skipped", "completed"}
      BY DEF QueueStatus, ChildStatus
    <3>2. CASE disk.current # NoTask /\ disk.child[disk.current] = "paused"
      BY <1>0, <3>1, <3>2, MarkFile DEF Unpaused, Ordered, Same
    <3>3. CASE ~ (disk.current # NoTask /\ disk.child[disk.current] = "paused")
      BY <1>0, <3>1, <3>3, StatusFile DEF Unpaused, Ordered
    <3> QED BY <3>2, <3>3
  <2>2. disk' = q /\ Overtaken("exec") /\ pc' = [pc EXCEPT !["exec"] = "select"]
    BY <1>1 DEF ResumePaused, Overtaken
  <2> HIDE DEF q
  <2>3. FileOK(disk)'
    BY <1>1, <2>1, <2>2, FileAfter DEF ResumePaused
  <2>4. pc'["exec"] = "select" /\ \A b \in Actors \ {"exec"} : pc'[b] = pc[b]
    BY <2>2 DEF ThreadsOK
  <2>5. \A b \in Actors \ {"exec"} : Fresh(b)'
    BY <2>2, <2>4, Overtakes
  <2>6. (late["loop"] \/ EditOK)'
    BY <2>2, <2>4, Overtakes
  <2>7. Fresh("exec")' /\ QuietOK'
    BY <2>4 DEF Fresh, CopyOK, QuietOK, Quiet, Editing
  <2>8. ~ stopped'
    BY <1>1 DEF ResumePaused, Ordered, StoppedAt
  <2> QED BY <2>3, <2>5, <2>6, <2>7, <2>8 DEF Ordered, Fresh
<1>2. ASSUME ResumeDelivery PROVE Ordered'
  <2>1. Fresh("exec")' /\ QuietOK'
    BY <1>2 DEF ResumeDelivery, Load, Fresh, CopyOK, QuietOK, Quiet, Editing, Same, Extended,
      Ordered, StoppedAt, ThreadsOK, RestOK
  <2>2. (late["loop"] \/ EditOK)'
    BY <1>2, Bystanders DEF ResumeDelivery, Load, ThreadsOK, RestOK
  <2> QED BY <1>2, <2>1, <2>2, GoesOn DEF ResumeDelivery, Load, ThreadsOK, RestOK
<1>3. ASSUME ResumeRun PROVE Ordered'
  <2>1. Fresh("exec")' /\ QuietOK'
    BY <1>3 DEF ResumeRun, Load, Return, Fresh, CopyOK, QuietOK, Quiet, Editing, Same, Extended,
      Ordered, StoppedAt, ThreadsOK, RestOK
  <2>2. UNCHANGED <<disk, skipped, stopped>>
        /\ \A b \in Actors \ {"exec"} : late'[b] = late[b] /\ mem'[b] = mem[b] /\ op'[b] = op[b]
                                        /\ pc'[b] \in {pc[b], "select"}
    BY <1>3 DEF ResumeRun, Load, Return, ThreadsOK, RestOK
  <2>3. (late["loop"] \/ EditOK)'
    BY <2>2, Bystanders
  <2> QED BY <2>1, <2>2, <2>3, GoesOn
<1>4. ASSUME SaveReopened PROVE Ordered'
  <2> DEFINE q == Mark(mem["exec"], mem["exec"].current, "running", "running")
  <2>1. ~ late["exec"] /\ pc["exec"] = "reopened" /\ mem["exec"].current \in Tasks
    BY <1>4 DEF SaveReopened, Save, RestOK, ThreadsOK, InPlace, OnChild
  <2>2. Same(mem["exec"]) /\ mem["exec"].sum = disk.sum /\ ~ stopped
    BY <2>1 DEF Ordered, CopyOK, Editing, Extended
  <2>3. FileOK(q)
    BY <1>0, <2>1, <2>2, MarkFile DEF Ordered, QueueStatus, ChildStatus
  <2>4. Save("exec", q) /\ disk' = q
    BY <1>4 DEF SaveReopened, Save
  <2> HIDE DEF q
  <2>5. FileOK(disk)'
    BY <1>4, <2>3, <2>4, FileAfter DEF SaveReopened
  <2> QED BY <1>4, <2>1, <2>2, <2>4, <2>5, SaveKeeps DEF SaveReopened, ThreadsOK, Editing
<1>5. ASSUME ResumeOther PROVE Ordered'
  <2>1. Fresh("exec")' /\ QuietOK'
    BY <1>5 DEF ResumeOther, Fresh, CopyOK, QuietOK, Quiet, Editing, ThreadsOK
  <2>2. (late["loop"] \/ EditOK)'
    BY <1>5, Bystanders DEF ResumeOther, ThreadsOK
  <2> QED BY <1>5, <2>1, <2>2, GoesOn DEF ResumeOther, ThreadsOK
<1> QED BY <1>1, <1>2, <1>3, <1>4, <1>5

(* The executor selects a child: every copy but its own is late from now on. *)
LEMMA SelectOrdered ==
  ASSUME Inv, Ordered, Begun' = Begun, base' = base, stale' = {},
         (\E t \in Tasks : SelectChild(t)) \/ SelectNothing
  PROVE  Ordered'
<1>0. disk \in QueueState
  BY DEF FilesOK, Sound
<1>1. ASSUME NEW t \in Tasks, SelectChild(t) PROVE Ordered'
  <2> DEFINE q == [Mark(disk, t, "running", "running") EXCEPT !.current = t]
  <2>1. FileOK(q) /\ q.current = t /\ q.child[t] = "running" /\ q.status = "running"
    BY <1>0, <1>1, SelectFile DEF SelectChild, Ordered, Mark, QueueState
  <2>2. disk' = q /\ mem' = [mem EXCEPT !["exec"] = q] /\ Overtaken("exec")
        /\ pc' = [pc EXCEPT !["exec"] = "start"]
    BY <1>1 DEF SelectChild, Overtaken
  <2> HIDE DEF q
  <2>3. FileOK(disk)'
    BY <1>1, <2>1, <2>2, FileAfter DEF SelectChild
  <2>4. pc'["exec"] = "start" /\ mem'["exec"] = q /\ \A b \in Actors \ {"exec"} : pc'[b] = pc[b]
    BY <2>2 DEF ThreadsOK
  <2>5. /\ \A b \in Actors \ {"exec"} : Fresh(b)' /\ (pc'[b] \in {"idle", "select"} \/ late'[b])
        /\ (late["loop"] \/ EditOK)'
    BY <2>2, <2>4, Overtakes
  <2>6. ~ stopped'
    BY <1>1 DEF SelectChild, Runnable, Ordered, StoppedAt
  <2>7. QuietOK'
    BY <2>1, <2>2, <2>4, <2>5, <2>6 DEF QuietOK, Editing
  <2>8. Fresh("exec")'
    BY <2>4 DEF Fresh, CopyOK, Editing
  <2> QED BY <2>3, <2>5, <2>6, <2>7, <2>8 DEF Ordered, Fresh
<1>2. ASSUME SelectNothing PROVE Ordered'
  <2>1. pc["exec"] = "select" /\ pc'["exec"] = "idle"
        /\ \A b \in Actors \ {"exec"} : pc'[b] = pc[b] /\ mem'[b] = mem[b] /\ op'[b] = op[b]
    BY <1>2 DEF SelectNothing, SaveAndReturn, Save, Return, ThreadsOK
  <2>2. Fresh("exec")' /\ QuietOK'
    BY <2>1 DEF Fresh, CopyOK, QuietOK, Quiet, Editing
  <2>3. CASE Runnable /\ disk.current = NoTask /\ AllDone(disk)
    <3>1. disk' = [disk EXCEPT !.status = "completed"] /\ Overtaken("exec")
      BY <1>2, <2>3 DEF SelectNothing, SaveAndReturn, Save, Overtaken
    <3>2. FileOK([disk EXCEPT !.status = "completed"])
      BY <1>0, <2>3, StatusFile DEF Ordered, QueueStatus
    <3>3. FileOK(disk)'
      BY <1>2, <3>1, <3>2, FileAfter DEF SelectNothing
    <3>4. ~ stopped'
      BY <1>2, <2>3 DEF SelectNothing, Runnable, Ordered, StoppedAt
    <3>5. (late["loop"] \/ EditOK)' /\ \A b \in Actors \ {"exec"} : Fresh(b)'
      BY <2>1, <3>1, Overtakes
    <3> QED BY <2>2, <3>3, <3>4, <3>5 DEF Ordered, Fresh
  <2>4. CASE ~ (Runnable /\ disk.current = NoTask /\ AllDone(disk))
    <3>1. UNCHANGED <<disk, late, skipped, stopped>>
      BY <1>2, <2>4 DEF SelectNothing
    <3>2. (late["loop"] \/ EditOK)'
      BY <2>1, <3>1, Bystanders
    <3> QED BY <2>1, <2>2, <3>1, <3>2, GoesOn
  <2> QED BY <2>3, <2>4
<1> QED BY <1>1, <1>2

(* The selected child begins, from the work of every child before it. *)
LEMMA StartOrdered ==
  ASSUME Inv, BegunOK, Ordered, StartChild
  PROVE  /\ Ordered' /\ Begun = delivered
         /\ Begun' = Begun \union {disk.current} /\ base'[disk.current] = delivered
<1> DEFINE t == disk.current
<1>1. /\ mem["exec"] = disk /\ t \in Tasks /\ disk.child[t] = "running" /\ ~ stopped
      /\ run[t] = "absent" /\ run' = [run EXCEPT ![t] = "created"]
      /\ base' = [base EXCEPT ![t] = IF HasPredecessor(disk, t) THEN cum ELSE {}]
      /\ BaselineIsApproved(disk, t)
  BY DEF StartChild, Ordered, QuietOK, Quiet
<1>2. Begun = CompletedOf(disk) /\ delivered = CompletedOf(disk)
  <2>1. Begun \subseteq CompletedOf(disk)
    <3> SUFFICES ASSUME NEW u \in Begun PROVE u \in CompletedOf(disk)
      OBVIOUS
    <3>1. u \in Tasks /\ u # t
      BY <1>1 DEF Begun
    <3>2. disk.child[u] \notin Unbegun
      BY <3>1 DEF Ordered, FileOK
    <3>3. disk.child[u] = "completed"
      BY <3>1, <3>2 DEF Ordered, FileOK, Serial
    <3> QED BY <3>1, <3>3 DEF CompletedOf
  <2>2. CompletedOf(disk) \subseteq delivered
    BY DEF FilesOK, Sound, Honest, CompletedOf
  <2> QED BY <2>1, <2>2 DEF BegunOK
<1>3. Begun' = Begun \union {t}
  BY <1>1 DEF Begun, RunsOK
<1>4. base'[t] = disk.sum
  <2>1. disk.sum = CompletedOf(disk)
    BY DEF Ordered, FileOK, Serial
  <2>2. base'[t] = IF HasPredecessor(disk, t) THEN cum ELSE {}
    BY <1>1 DEF RunsOK
  <2>3. CASE HasPredecessor(disk, t)
    BY <1>1, <2>2, <2>3 DEF BaselineIsApproved
  <2>4. CASE ~ HasPredecessor(disk, t)
    <3>1. CompletedOf(disk) = {}
      <4> SUFFICES ASSUME NEW u \in CompletedOf(disk) PROVE FALSE
        OBVIOUS
      <4>1. u \in Tasks /\ disk.child[u] = "completed" /\ u # t
        BY <1>1 DEF CompletedOf
      <4>2. disk.slot[u] < disk.slot[t]
        BY <1>1, <4>1 DEF Ordered, FileOK, Serial, Done
      <4> QED BY <2>4, <4>1, <4>2 DEF HasPredecessor
    <3> QED BY <2>1, <2>2, <2>4, <3>1
  <2> QED BY <2>3, <2>4
<1>5. disk' = disk /\ mem' = mem /\ late' = late /\ op' = op /\ skipped' = skipped /\ stopped' = stopped
      /\ pc["exec"] = "start" /\ pc'["exec"] = "create"
      /\ \A b \in Actors \ {"exec"} : pc'[b] = pc[b]
  BY DEF StartChild, ThreadsOK
<1>6. FileOK(disk)'
  <2>1. Serial(disk) /\ disk.status = "running"
    BY <1>5 DEF Ordered, FileOK, QuietOK, Quiet
  <2>2. \A u \in Tasks : disk.child[u] \in Unbegun => u \notin Begun'
    BY <1>1, <1>3 DEF Ordered, FileOK, Unbegun
  <2>3. \A u \in Tasks : u \in skipped => disk.child[u] = "skipped"
    BY DEF Ordered, FileOK
  <2> QED BY <1>4, <1>5, <2>1, <2>2, <2>3 DEF FileOK
<1>7. (late["loop"] \/ EditOK)' /\ (stopped => StoppedAt(disk))'
      /\ \A b \in Actors \ {"exec"} : Fresh(b)'
  BY <1>5, Bystanders
<1>8. Fresh("exec")' /\ QuietOK'
  BY <1>1, <1>5 DEF Fresh, CopyOK, QuietOK, Quiet, Editing, Ordered
<1> QED
  BY <1>2, <1>3, <1>4, <1>6, <1>7, <1>8 DEF Ordered, Fresh, FileOK, Serial

(* The executor runs the child it selected, which nobody else's save can touch. *)
LEMMA RunOrdered ==
  ASSUME Inv, Ordered, Begun' = Begun, base' = base, stale' = {},
         StartFails \/ StartBlocked \/ RunBegins \/ ResumeChild
           \/ (\E s \in Final : RunEnds(s)) \/ SaveResult
  PROVE  Ordered'
<1>0. disk \in QueueState
  BY DEF FilesOK, Sound
<1>1. ASSUME StartFails PROVE Ordered'
  <2> DEFINE q == Mark(disk, disk.current, "infrastructure_error", "infrastructure_error")
  <2>1. pc["exec"] = "start" /\ mem["exec"] = disk /\ disk.current \in Tasks /\ ~ stopped
    BY <1>1 DEF StartFails, Ordered, QuietOK, Quiet
  <2>2. FileOK(q)
    BY <1>0, <2>1, MarkFile DEF Ordered, Same, QueueStatus, ChildStatus
  <2>3. Save("exec", q) /\ disk' = q
    BY <1>1, <2>1 DEF StartFails, FailQueue, SaveAndReturn, Save
  <2> HIDE DEF q
  <2>4. FileOK(disk)'
    BY <1>1, <2>2, <2>3, FileAfter DEF StartFails
  <2> QED BY <1>1, <2>1, <2>3, <2>4, SaveKeeps
    DEF StartFails, FailQueue, SaveAndReturn, Return, ThreadsOK
<1>2. ASSUME StartBlocked PROVE Ordered'
  <2>1. Fresh("exec")' /\ QuietOK'
    BY <1>2 DEF StartBlocked, Return, Fresh, CopyOK, QuietOK, Quiet, Editing, ThreadsOK
  <2>2. (late["loop"] \/ EditOK)'
    BY <1>2, Bystanders DEF StartBlocked, Return, ThreadsOK
  <2> QED BY <1>2, <2>1, <2>2, GoesOn DEF StartBlocked, Return, ThreadsOK
<1>3. ASSUME RunBegins \/ ResumeChild \/ \E s \in Final : RunEnds(s) PROVE Ordered'
  <2>1. /\ UNCHANGED <<disk, mem, late, op, skipped, stopped>>
        /\ pc["exec"] \in Quiet /\ pc'["exec"] \in Quiet
        /\ \A b \in Actors \ {"exec"} : pc'[b] = pc[b]
    BY <1>3 DEF RunBegins, ResumeChild, RunEnds, ThreadsOK, Quiet
  <2>2. Fresh("exec")' /\ QuietOK'
    BY <2>1 DEF Fresh, CopyOK, QuietOK, Quiet, Editing, Ordered
  <2>3. (late["loop"] \/ EditOK)'
    BY <2>1, Bystanders
  <2> QED BY <2>1, <2>2, <2>3, GoesOn
<1>4. ASSUME SaveResult PROVE Ordered'
  <2> DEFINE t == disk.current
             m == Mark(disk, t, Filed(run[t]), Filed(run[t]))
             q == [m EXCEPT !.acked[t] = rev[t]]
  <2>1. pc["exec"] = "end" /\ mem["exec"] = disk /\ t \in Tasks /\ ~ stopped
    BY <1>4 DEF SaveResult, Ordered, QuietOK, Quiet
  <2>2. FileOK(m)
    BY <1>0, <2>1, MarkFile DEF Ordered, Same, QueueStatus, ChildStatus, Filed
  <2>3. /\ q.child = m.child /\ q.slot = m.slot /\ q.sum = m.sum /\ q.status = m.status
        /\ q.current = m.current
    OBVIOUS
  <2>4. Save("exec", q) /\ disk' = q
    BY <1>4, <2>1 DEF SaveResult, SaveAndReturn, Save
  <2> HIDE DEF q, m
  <2>5. FileOK(q)
    BY <2>2, <2>3 DEF FileOK, Serial, CompletedOf
  <2>6. FileOK(disk)'
    BY <1>4, <2>4, <2>5, FileAfter DEF SaveResult
  <2> QED BY <1>4, <2>1, <2>4, <2>6, SaveKeeps DEF SaveResult, SaveAndReturn, Return, ThreadsOK
<1> QED BY <1>1, <1>2, <1>3, <1>4

(* A delivery, whichever thread delivers. *)
LEMMA DeliveryOrdered ==
  ASSUME Inv, Ordered, Begun' = Begun, base' = base, stale' = {}, BegunOK,
         NEW a \in Web \union {"exec"}, DeliveryStep(a)
  PROVE  Ordered'
<1>0. mem[a] \in QueueState /\ a # "loop" /\ a \in Actors
  BY ConstantAssumption DEF ThreadsOK
<1>1. ASSUME BeginDelivery(a) \/ Commit(a) PROVE Ordered'
  <2>1. /\ UNCHANGED <<disk, mem, late, op, skipped, stopped>>
        /\ pc[a] \in {"deliver", "delivering"} /\ pc'[a] \in {"delivering", "promote"}
        /\ \A b \in Actors \ {a} : pc'[b] = pc[b]
    BY <1>0, <1>1 DEF BeginDelivery, Commit, ThreadsOK
  <2>2. Fresh(a)'
    BY <2>1 DEF Fresh, CopyOK, Editing, Ordered, Same, Extended
  <2>3. QuietOK'
    BY <1>0, <2>1, RunUndisturbed DEF QuietOK, Quiet, Editing
  <2>4. (late["loop"] \/ EditOK)'
    BY <1>0, <2>1, Bystanders
  <2> QED BY <1>0, <2>1, <2>2, <2>3, <2>4, GoesOn
<1>2. ASSUME DeliveryRefused(a) \/ DeliveryFails(a) PROVE Ordered'
  <2> DEFINE q == Mark(mem[a], mem[a].current, "infrastructure_error", "infrastructure_error")
  <2>1. /\ pc[a] \in {"deliver", "delivering", "promote"} /\ pc'[a] = "idle"
        /\ Save(a, q) /\ disk' = q /\ UNCHANGED <<skipped, stopped>>
        /\ \A b \in Actors \ {a} : pc'[b] = pc[b]
    BY <1>0, <1>2 DEF DeliveryRefused, DeliveryFails, FailQueue, SaveAndReturn, Save, Return, ThreadsOK
  <2>2. ~ late[a] /\ mem[a].current \in Tasks
    BY <1>0, <2>1 DEF Save, RestOK, ThreadsOK, InPlace, OnChild
  <2>3. Same(mem[a]) /\ mem[a].sum = disk.sum /\ ~ stopped
    BY <1>0, <2>1, <2>2 DEF Ordered, CopyOK, Editing, Extended
  <2>4. FileOK(q)
    BY <1>0, <2>2, <2>3, MarkFile DEF Ordered, QueueStatus, ChildStatus
  <2> HIDE DEF q
  <2>5. FileOK(disk)'
    BY <2>1, <2>4, FileAfter
  <2> QED BY <1>0, <2>1, <2>3, <2>5, SaveKeeps DEF Editing
<1>3. ASSUME Promote(a) PROVE Ordered'
  <2> DEFINE t == mem[a].current
  <2>1. /\ UNCHANGED <<disk, late, op, skipped, stopped>> /\ pc[a] = "promote" /\ pc'[a] = "close"
        /\ mem'[a] = [mem[a] EXCEPT !.sum = Promoted(t)]
        /\ \A b \in Actors \ {a} : pc'[b] = pc[b] /\ mem'[b] = mem[b]
    BY <1>0, <1>3 DEF Promote, ThreadsOK
  <2>2. t \in delivered
    BY <1>0, <2>1 DEF ThreadsOK, InPlace
  <2>3. Fresh(a)'
    <3> SUFFICES ASSUME ~ late[a] PROVE CopyOK(a)'
      BY <2>1 DEF Fresh
    <3>1. Same(mem[a]) /\ ~ stopped
      BY <1>0, <2>1 DEF Ordered, CopyOK, Editing
    <3>2. /\ mem'[a].child = mem[a].child /\ mem'[a].current = t /\ mem'[a].slot = mem[a].slot
          /\ mem'[a].sum = Promoted(t)
      BY <1>0, <2>1 DEF QueueState
    <3>3. base[t] = disk.sum
      BY <2>2, <3>1 DEF BegunOK, Ordered, FileOK, Same
    <3>4. Promoted(t) = disk.sum \union {disk.current}
      BY <3>1, <3>3 DEF Promoted, Same
    <3>5. op[a] \in {"approved", "recover"}
      BY <1>0, <2>1 DEF BegunOK
    <3> HIDE DEF t
    <3> QED BY <2>1, <3>1, <3>2, <3>4, <3>5 DEF CopyOK, Same, Extended
  <2>4. QuietOK'
    BY <1>0, <2>1, RunUndisturbed DEF QuietOK, Quiet, Editing
  <2>5. (late["loop"] \/ EditOK)'
    BY <1>0, <2>1, Bystanders
  <2> QED BY <1>0, <2>1, <2>3, <2>4, <2>5, GoesOn
<1>4. ASSUME CloseApproved(a) PROVE Ordered'
  <2> DEFINE done == [mem[a] EXCEPT !.child[mem[a].current] = "completed", !.current = NoTask]
             s == IF AllDone(done) THEN "completed" ELSE "pending"
             q == [done EXCEPT !.status = s]
  <2>1. /\ pc[a] = "close" /\ op[a] \in {"approved", "recover"} /\ Save(a, q) /\ disk' = q
        /\ UNCHANGED <<skipped, stopped>>
        /\ \A b \in Actors \ {a} : pc'[b] = pc[b]
    BY <1>0, <1>4 DEF CloseApproved, Save, ThreadsOK
  <2>2. pc'[a] \in {"idle", "select", "refresh", "submit"}
    <3>1. \E r \in {"idle", "select", "refresh", "submit"} : pc' = [pc EXCEPT ![a] = r]
      BY <1>4 DEF CloseApproved
    <3> QED BY <1>0, <3>1 DEF ThreadsOK
  <2>3. ~ late[a] /\ mem[a].current \in Tasks
    BY <1>0, <2>1 DEF Save, RestOK, ThreadsOK, InPlace, OnChild
  <2>4. Same(mem[a]) /\ mem[a].sum = disk.sum \union {disk.current} /\ ~ stopped
    BY <1>0, <2>1, <2>3 DEF Ordered, CopyOK, Editing, Extended
  <2>5. FileOK(q)
    <3>1. s \in QueueStatus
      BY DEF QueueStatus
    <3>2. FileOK(disk) /\ disk \in QueueState
      BY DEF Ordered, FilesOK, Sound
    <3> HIDE DEF s
    <3> QED BY <1>0, <2>3, <2>4, <3>1, <3>2, CloseFile
  <2> HIDE DEF q
  <2>6. FileOK(disk)'
    BY <2>1, <2>5, FileAfter
  <2> QED BY <1>0, <2>1, <2>2, <2>4, <2>6, SaveKeeps DEF Editing
<1> QED BY <1>1, <1>2, <1>3, <1>4 DEF DeliveryStep

(* A review or a commit retry. *)
LEMMA WebOrdered ==
  ASSUME Inv, Ordered, Begun' = Begun, base' = base, stale' = {},
         NEW w \in Web, WebStep(w) \/ RetryCommit(w) \/ \E d \in Decisions : Review(w, d)
  PROVE  Ordered'
<1>0. mem[w] \in QueueState /\ w # "loop" /\ w # "exec" /\ w \in Actors
  BY ConstantAssumption DEF ThreadsOK
<1>1. ASSUME (\E d \in Decisions : Review(w, d)) \/ RetryCommit(w) PROVE Ordered'
  <2>1. /\ UNCHANGED <<disk, skipped, stopped>> /\ pc'[w] \in {"record", "deliver"} /\ mem'[w] = disk
        /\ pc[w] = "idle"
        /\ \A b \in Actors \ {w} : late'[b] = late[b] /\ mem'[b] = mem[b] /\ op'[b] = op[b]
                                   /\ pc'[b] = pc[b]
    BY <1>0, <1>1 DEF Review, RetryCommit, Load, ThreadsOK, RestOK
  <2>2. \/ disk.child[disk.current] = "waiting_review" /\ disk.current # NoTask
        \/ disk.status = "infrastructure_error"
    BY <1>1 DEF Review, RetryCommit
  <2>3. Fresh(w)'
    BY <2>1, <2>2 DEF Fresh, CopyOK, Editing, Same, Extended, Ordered, StoppedAt
  <2>4. QuietOK'
    <3>1. pc["exec"] \notin Quiet
      BY <2>2 DEF Ordered, QuietOK
    <3> QED BY <1>0, <2>1, <3>1 DEF QuietOK
  <2>5. (late["loop"] \/ EditOK)'
    BY <1>0, <2>1, Bystanders
  <2> QED BY <1>0, <2>1, <2>3, <2>4, <2>5, GoesOn
<1>2. ASSUME Record(w) \/ Reopen(w) PROVE Ordered'
  <2>1. /\ UNCHANGED <<disk, late, op, skipped, stopped>>
        /\ pc[w] \in {"record", "reopen"} /\ pc'[w] \in {"deliver", "reopen", "close"}
        /\ pc'[w] = "close" => op[w] \notin {"approved", "recover"}
        /\ \A b \in Actors \ {w} : pc'[b] = pc[b] /\ mem'[b] = mem[b]
    <3>1. CASE Record(w)
      <4>1. \E r \in {"deliver", "reopen", "close"} :
              /\ pc' = [pc EXCEPT ![w] = r] /\ r = "close" => op[w] # "approved"
        BY <3>1 DEF Record
      <4>2. op[w] # "recover"
        BY <1>0, <3>1 DEF Record, ThreadsOK, InPlace
      <4> QED BY <1>0, <3>1, <4>1, <4>2 DEF Record, ThreadsOK
    <3>2. CASE Reopen(w)
      BY <1>0, <3>2 DEF Reopen, ThreadsOK, InPlace
    <3> QED BY <1>2, <3>1, <3>2
  <2>2. /\ mem'[w].child = mem[w].child /\ mem'[w].current = mem[w].current
        /\ mem'[w].slot = mem[w].slot /\ mem'[w].sum = mem[w].sum
    BY <1>0, <1>2 DEF Record, Reopen, ThreadsOK, QueueState
  <2>3. Fresh(w)'
    <3> SUFFICES ASSUME ~ late[w] PROVE CopyOK(w)'
      BY <2>1 DEF Fresh
    <3>1. Same(mem[w]) /\ ~ stopped /\ mem[w].sum = disk.sum
      BY <1>0, <2>1 DEF Ordered, CopyOK, Editing, Extended
    <3> QED BY <2>1, <2>2, <3>1 DEF CopyOK, Same, Extended, Editing
  <2>4. QuietOK'
    BY <1>0, <2>1, RunUndisturbed DEF Editing
  <2>5. (late["loop"] \/ EditOK)'
    BY <1>0, <2>1, Bystanders
  <2> QED BY <1>0, <2>1, <2>3, <2>4, <2>5, GoesOn
<1>3. ASSUME RecordRefused(w) \/ Refresh(w) \/ Submit(w) PROVE Ordered'
  <2>1. /\ UNCHANGED <<disk, skipped, stopped>> /\ pc'[w] \in {"idle", "refreshed"}
        /\ pc'[w] = "refreshed" => mem'[w] = disk
        /\ \A b \in Actors \ {w} : /\ late'[b] = late[b] /\ mem'[b] = mem[b] /\ op'[b] = op[b]
                                   /\ pc'[b] \in {pc[b], "select"}
    <3>1. CASE RecordRefused(w)
      BY <1>0, <3>1 DEF RecordRefused, Return, ThreadsOK
    <3>2. CASE Refresh(w)
      BY <1>0, <3>2 DEF Refresh, Load, ThreadsOK, RestOK
    <3>3. CASE Submit(w)
      BY <1>0, <3>3 DEF Submit, ThreadsOK
    <3> QED BY <1>3, <3>1, <3>2, <3>3
  <2>2. Fresh(w)'
    BY <2>1 DEF Fresh, CopyOK, Editing
  <2>3. QuietOK'
    BY <1>0, <2>1, RunUndisturbed DEF Editing
  <2>4. (late["loop"] \/ EditOK)'
    BY <1>0, <2>1, Bystanders
  <2> QED BY <1>0, <2>1, <2>2, <2>3, <2>4, GoesOn
<1>4. ASSUME CloseChanges(w) \/ CloseRejected(w) PROVE Ordered'
  <2>1. \E c \in {"running", "rejected"}, r \in {"submit", "idle"} :
          LET q == Mark(mem[w], mem[w].current, c, c) IN
            Save(w, q) /\ disk' = q /\ pc' = [pc EXCEPT ![w] = r]
    BY <1>4 DEF CloseChanges, CloseRejected, SaveAndReturn, Save, Return
  <2>2. PICK c \in {"running", "rejected"}, r \in {"submit", "idle"} :
          LET q == Mark(mem[w], mem[w].current, c, c) IN
            Save(w, q) /\ disk' = q /\ pc' = [pc EXCEPT ![w] = r]
    BY <2>1
  <2> DEFINE q == Mark(mem[w], mem[w].current, c, c)
  <2>3. /\ pc[w] = "close" /\ op[w] \notin {"approved", "recover"} /\ UNCHANGED <<skipped, stopped>>
        /\ Save(w, q) /\ disk' = q /\ pc'[w] \in {"submit", "idle"}
        /\ \A b \in Actors \ {w} : pc'[b] = pc[b]
    BY <1>0, <1>4, <2>2 DEF CloseChanges, CloseRejected, ThreadsOK
  <2>4. ~ late[w] /\ mem[w].current \in Tasks
    BY <1>0, <2>3 DEF Save, RestOK, ThreadsOK, InPlace, OnChild
  <2>5. Same(mem[w]) /\ mem[w].sum = disk.sum /\ ~ stopped
    BY <1>0, <2>3, <2>4 DEF Ordered, CopyOK, Editing, Extended
  <2>6. FileOK(q)
    BY <1>0, <2>4, <2>5, MarkFile DEF Ordered, QueueStatus, ChildStatus
  <2> HIDE DEF q
  <2>7. FileOK(disk)'
    BY <2>3, <2>6, FileAfter
  <2> QED BY <1>0, <2>3, <2>5, <2>7, SaveKeeps DEF Editing
<1>5. ASSUME SaveRefreshed(w) PROVE Ordered'
  <2>1. /\ pc[w] = "refreshed" /\ ~ late[w] /\ disk' = mem[w] /\ Overtaken(w) /\ pc'[w] = "submit"
        /\ UNCHANGED <<mem, skipped, stopped>>
        /\ \A b \in Actors \ {w} : pc'[b] = pc[b]
    BY <1>0, <1>5 DEF SaveRefreshed, Save, Overtaken, ThreadsOK, RestOK
  <2>2. disk' = disk
    BY <1>0, <2>1 DEF Ordered, CopyOK
  <2>3. FileOK(disk)'
    BY <2>1, <2>2, FileAfter DEF Ordered
  <2>4. /\ \A b \in Actors \ {w} : Fresh(b)' /\ (pc'[b] \in {"idle", "select"} \/ late'[b])
        /\ (late["loop"] \/ EditOK)'
    BY <1>0, <2>1, Overtakes
  <2>5. Fresh(w)'
    BY <2>1 DEF Fresh, CopyOK, Editing
  <2>6. QuietOK'
    BY <1>0, <2>1, <2>2, <2>4 DEF Ordered, QuietOK, Quiet, Editing
  <2> QED BY <2>1, <2>2, <2>3, <2>4, <2>5, <2>6 DEF Ordered, Fresh, StoppedAt
<1> QED BY <1>1, <1>2, <1>3, <1>4, <1>5 DEF WebStep

(* A skipped child was pending, and the rest of the queue is as it was. *)
LEMMA SkipSerial ==
  ASSUME Serial(disk), disk \in QueueState, NEW t \in Tasks, disk.child[t] = "pending"
  PROVE  Serial([disk EXCEPT !.child[t] = "skipped"])
<1> DEFINE m == [disk EXCEPT !.child[t] = "skipped"]
<1>1. /\ m.current = disk.current /\ m.slot = disk.slot /\ m.sum = disk.sum
      /\ m.child[t] = "skipped" /\ \A u \in Tasks \ {t} : m.child[u] = disk.child[u]
  BY DEF QueueState
<1> HIDE DEF m
<1>2. CompletedOf(m) = CompletedOf(disk)
  BY <1>1 DEF CompletedOf
<1>3. \A u \in Tasks : m.child[u] \notin Done => disk.child[u] \notin Done
  BY <1>1 DEF Done
<1>4. \A u \in Tasks : m.child[u] = "completed" => disk.child[u] = "completed"
  BY <1>1
<1>5. \A u \in Tasks : u = m.current <=> m.child[u] \notin Unbegun \union {"completed"}
  BY <1>1 DEF Serial, Unbegun
<1>6. Serial(m)
  BY <1>1, <1>2, <1>3, <1>4, <1>5 DEF Serial
<1> QED BY <1>6 DEF m

(* Two pending children change places behind all that are finished or current. *)
LEMMA ReorderSerial ==
  ASSUME Serial(disk), disk \in QueueState, NEW t \in Tasks, NEW u \in Tasks, t # u,
         disk.child[t] = "pending", disk.child[u] = "pending"
  PROVE  Serial([disk EXCEPT !.slot[t] = disk.slot[u], !.slot[u] = disk.slot[t]])
<1> DEFINE m == [disk EXCEPT !.slot[t] = disk.slot[u], !.slot[u] = disk.slot[t]]
<1>1. /\ m.current = disk.current /\ m.child = disk.child /\ m.sum = disk.sum
      /\ m.slot[t] = disk.slot[u] /\ m.slot[u] = disk.slot[t]
      /\ \A v \in Tasks \ {t, u} : m.slot[v] = disk.slot[v]
  BY DEF QueueState
<1> HIDE DEF m
<1>2. \A v, w \in Tasks : m.slot[v] = m.slot[w] => v = w
  BY <1>1 DEF Serial
<1>3. ASSUME NEW v \in Tasks, NEW w \in Tasks, disk.child[v] = "completed" \/ v = disk.current,
             disk.child[w] \notin Done, w # v
      PROVE  m.slot[v] < m.slot[w]
  <2>1. v \notin {t, u}
    BY <1>3 DEF Serial, Unbegun
  <2>2. "pending" \notin Done
    BY DEF Done
  <2>3. disk.slot[v] < disk.slot[t] /\ disk.slot[v] < disk.slot[u] /\ disk.slot[v] < disk.slot[w]
    BY <1>3, <2>1, <2>2 DEF Serial
  <2> QED BY <1>1, <2>1, <2>3
<1>4. Serial(m)
  BY <1>1, <1>2, <1>3 DEF Serial, CompletedOf
<1> QED BY <1>4 DEF m

(* An endpoint has looked at the file and loaded it. *)
LEMMA BeginOrdered ==
  ASSUME Inv, Ordered, Begun' = Begun, base' = base, NEW o, NEW q, Begin(o, q), ~ Active,
         Serial(q), q.current = disk.current, q.sum = disk.sum,
         \A t \in Tasks : \/ q.child[t] = disk.child[t]
                          \/ disk.child[t] = "pending" /\ q.child[t] = "skipped"
                          \/ t = disk.current,
         q.status = "completed" => q.current = NoTask,
         stopped \/ o = "cancel" => StoppedAt(q)
  PROVE  Ordered'
<1>1. /\ UNCHANGED <<disk, skipped, stopped>> /\ pc'["loop"] = "save" /\ mem'["loop"] = q
      /\ op'["loop"] = o
      /\ \A b \in Actors \ {"loop"} : late'[b] = late[b] /\ mem'[b] = mem[b] /\ op'[b] = op[b]
                                      /\ pc'[b] = pc[b]
  BY DEF Begin, Load, ThreadsOK, RestOK
<1>2. Fresh("loop")'
  BY <1>1 DEF Fresh, CopyOK, Editing
<1>3. (late["loop"] \/ EditOK)'
  BY <1>1 DEF EditOK, Serial, CompletedOf, StoppedAt
<1>4. QuietOK'
  BY <1>1, ConstantAssumption DEF Active, QuietOK, Quiet
<1> QED BY <1>1, <1>2, <1>3, <1>4, GoesOn

(* The endpoints look, load and save; people resume the queue; the process dies. *)
LEMMA EditOrdered ==
  ASSUME Inv, Ordered, Begun' = Begun, base' = base, stale' = {},
         Edit \/ SaveEdit \/ ResumeQueue \/ Crash
  PROVE  Ordered'
<1>0. /\ disk \in QueueState /\ mem["loop"] \in QueueState /\ disk.current \in Tasks \union {NoTask}
      /\ FileOK(disk) /\ Serial(disk)
  BY DEF FilesOK, Sound, ThreadsOK, QueueState, Ordered, FileOK
<1>1. ASSUME NEW t \in Tasks, SkipSubtask(t) PROVE Ordered'
  <2> DEFINE m == [disk EXCEPT !.child[t] = "skipped"]
             q == IF m.current = NoTask /\ AllDone(m) THEN [m EXCEPT !.status = "completed"] ELSE m
  <2>1. Begin("skip", q) /\ ~ Active /\ disk.child[t] = "pending"
    BY <1>1 DEF SkipSubtask
  <2>2. /\ Serial(m) /\ m.current = disk.current /\ m.sum = disk.sum /\ m.status = disk.status
        /\ m.child[t] = "skipped" /\ \A u \in Tasks \ {t} : m.child[u] = disk.child[u]
    BY <1>0, <2>1, SkipSerial DEF QueueState
  <2>3. m \in QueueState
    BY <1>0 DEF QueueState, ChildStatus
  <2> HIDE DEF m
  <2>4. /\ q.child = m.child /\ q.slot = m.slot /\ q.current = m.current /\ q.sum = m.sum
        /\ q.status = m.status \/ (q.status = "completed" /\ q.current = NoTask)
    BY <2>3 DEF QueueState
  <2> HIDE DEF q
  <2>5. Serial(q)
    BY <2>2, <2>4 DEF Serial, CompletedOf
  <2>6. q.status = "completed" => q.current = NoTask
    BY <1>0, <2>2, <2>4 DEF FileOK
  <2>7. stopped => StoppedAt(q)
    <3>1. disk.current # NoTask => disk.current # t
      BY <1>0, <2>1 DEF Serial, Unbegun
    <3> QED BY <1>0, <2>2, <2>4, <3>1 DEF Ordered, StoppedAt
  <2> QED BY <2>1, <2>2, <2>4, <2>5, <2>6, <2>7, BeginOrdered
<1>2. ASSUME NEW t \in Tasks, NEW u \in Tasks, ReorderPending(t, u) PROVE Ordered'
  <2> DEFINE q == [disk EXCEPT !.slot[t] = disk.slot[u], !.slot[u] = disk.slot[t]]
  <2>1. Begin("reorder", q) /\ ~ Active /\ t # u
        /\ disk.child[t] = "pending" /\ disk.child[u] = "pending"
    BY <1>2, ConstantAssumption DEF ReorderPending, Tasks
  <2>2. /\ Serial(q) /\ q.current = disk.current /\ q.sum = disk.sum /\ q.status = disk.status
        /\ q.child = disk.child
    BY <1>0, <2>1, ReorderSerial DEF QueueState
  <2> HIDE DEF q
  <2>3. stopped => StoppedAt(q)
    BY <2>2 DEF Ordered, StoppedAt
  <2> QED BY <1>0, <2>1, <2>2, <2>3, BeginOrdered DEF FileOK
<1>3. ASSUME NEW action \in {"pause", "cancel"}, RequestControl(action) PROVE Ordered'
  <2>1. UNCHANGED <<disk, pc, op, mem, late, skipped, stopped>>
    BY <1>3 DEF RequestControl
  <2>2. Fresh("loop")' /\ (late["loop"] \/ EditOK)' /\ QuietOK'
    BY <2>1 DEF Fresh, CopyOK, Editing, Same, Extended, EditOK, Serial, CompletedOf, StoppedAt,
      QuietOK, Quiet, Ordered
  <2> QED BY <2>1, <2>2, GoesOn
<1>4. ASSUME PauseInactive \/ CancelInactive PROVE Ordered'
  <2>1. PICK o \in {"pause", "cancel"} :
          /\ ~ Active /\ Controllable(o)
          /\ \E q : Begin(o, q) /\ LET s == IF o = "pause" THEN "paused" ELSE "cancelled" IN
               \/ disk.current # NoTask /\ q = Mark(disk, disk.current, s, s)
               \/ /\ q = [disk EXCEPT !.status = s]
                  /\ o = "cancel" /\ disk.current # NoTask => disk.child[disk.current] \in Done
    <3>1. CASE PauseInactive
      BY <3>1 DEF PauseInactive
    <3>2. CASE CancelInactive
      BY <3>2 DEF CancelInactive
    <3> QED BY <1>4, <3>1, <3>2
  <2> DEFINE s == IF o = "pause" THEN "paused" ELSE "cancelled"
  <2>2. PICK q : Begin(o, q) /\
               \/ disk.current # NoTask /\ q = Mark(disk, disk.current, s, s)
               \/ /\ q = [disk EXCEPT !.status = s]
                  /\ o = "cancel" /\ disk.current # NoTask => disk.child[disk.current] \in Done
    BY <2>1
  <2>3. s \in QueueStatus \ {"completed"} /\ s \in ChildStatus \ {"pending", "skipped", "completed"}
    BY DEF QueueStatus, ChildStatus
  <2>4. FileOK(q)
    <3>1. CASE disk.current # NoTask /\ q = Mark(disk, disk.current, s, s)
      BY <1>0, <2>3, <3>1, MarkFile DEF Same
    <3>2. CASE q = [disk EXCEPT !.status = s]
      BY <1>0, <2>3, <3>2, StatusFile
    <3> QED BY <2>2, <3>1, <3>2
  <2>5. /\ q.current = disk.current /\ q.sum = disk.sum /\ q.status = s
        /\ \A u \in Tasks : q.child[u] = disk.child[u] \/ u = disk.current
        /\ o = "cancel" /\ q.current # NoTask => q.child[q.current] # "waiting_review"
    <3>1. CASE disk.current # NoTask /\ q = Mark(disk, disk.current, s, s)
      BY <1>0, <2>3, <3>1 DEF QueueState, Mark
    <3>2. CASE /\ q = [disk EXCEPT !.status = s]
               /\ o = "cancel" /\ disk.current # NoTask => disk.child[disk.current] \in Done
      BY <1>0, <2>3, <3>2 DEF QueueState, Done
    <3> QED BY <2>2, <3>1, <3>2
  <2>6. ~ stopped
    BY <2>1 DEF Controllable, Closed, Ordered, StoppedAt
  <2>7. o = "cancel" => StoppedAt(q)
    BY <2>5 DEF StoppedAt
  <2> QED BY <2>1, <2>2, <2>3, <2>4, <2>5, <2>6, <2>7, BeginOrdered DEF FileOK
<1>5. ASSUME SaveEdit PROVE Ordered'
  <2> DEFINE q == mem["loop"]
  <2>1. /\ pc["loop"] = "save" /\ ~ late["loop"] /\ Save("loop", q) /\ disk' = q
        /\ pc'["loop"] = "idle" /\ \A b \in Actors \ {"loop"} : pc'[b] = pc[b]
        /\ skipped' = {u \in Tasks : u \in skipped \/ q.child[u] = "skipped"}
        /\ stopped' = (stopped \/ op["loop"] = "cancel")
    BY <1>5 DEF SaveEdit, SaveAndReturn, Save, Return, ThreadsOK, RestOK
  <2>2. EditOK
    BY <2>1 DEF Ordered
  <2>3. \A u \in Tasks : q.child[u] \in Unbegun => u \notin Begun
    BY <1>0, <2>1, <2>2 DEF EditOK, Serial, FileOK, Unbegun
  <2>4. FileOK(disk)'
    <3>1. \A u \in Tasks : u \in skipped' => q.child[u] = "skipped"
      BY <1>0, <2>1, <2>2 DEF EditOK, Serial, FileOK, Unbegun
    <3>2. /\ Serial(q)
          /\ q.current \in Begun => base[q.current] = q.sum
          /\ q.status = "completed" => q.current = NoTask
      BY <1>0, <2>1, <2>2 DEF EditOK, FileOK
    <3> HIDE DEF q
    <3> QED BY <2>1, <2>3, <3>1, <3>2 DEF FileOK, Serial, CompletedOf
  <2>5. stopped' => StoppedAt(disk)'
    BY <2>1, <2>2 DEF EditOK, StoppedAt
  <2> QED BY <2>1, <2>4, <2>5, SaveKeeps
<1>6. ASSUME ResumeQueue PROVE Ordered'
  <2>1. UNCHANGED <<disk, mem, op, late, skipped, stopped>> /\ pc'["exec"] = "resume"
        /\ \A b \in Actors \ {"exec"} : pc'[b] = pc[b]
    BY <1>6 DEF ResumeQueue, ThreadsOK
  <2>2. Fresh("exec")' /\ QuietOK'
    BY <2>1 DEF Fresh, CopyOK, Editing, QuietOK, Quiet
  <2>3. (late["loop"] \/ EditOK)'
    BY <2>1, Bystanders
  <2> QED BY <2>1, <2>2, <2>3, GoesOn
<1>7. ASSUME Crash PROVE Ordered'
  <2>1. UNCHANGED <<disk, skipped, stopped>> /\ \A b \in Actors : pc'[b] = "idle"
    BY <1>7 DEF Crash
  <2>2. FileOK(disk)'
    BY <1>0, <2>1, FileAfter
  <2>3. (\A b \in Actors : Fresh(b)') /\ (late["loop"] \/ EditOK)' /\ QuietOK'
    BY <2>1 DEF Fresh, CopyOK, Editing, EditOK, QuietOK, Quiet
  <2> QED BY <2>1, <2>2, <2>3 DEF Ordered, Fresh, StoppedAt
<1> QED BY <1>1, <1>2, <1>3, <1>4, <1>5, <1>6, <1>7 DEF Edit
-----------------------------------------------------------------------------
(* A save that overwrote one it had not seen is never forgotten. *)
LEMMA StaleStays ==
  ASSUME Inv, Next
  PROVE  stale \subseteq stale'
<1>1. ASSUME ExecStep PROVE stale \subseteq stale'
  BY <1>1 DEF ExecStep, ResumePaused, ResumeDelivery, ResumeRun, SaveReopened, ResumeOther,
    SelectChild, SelectNothing, StartFails, StartBlocked, StartChild, RunBegins, ResumeChild,
    RunEnds, SaveResult, Load, Save, SaveAndReturn, FailQueue
<1>2. ASSUME NEW a, DeliveryStep(a) PROVE stale \subseteq stale'
  BY <1>2 DEF DeliveryStep, BeginDelivery, DeliveryRefused, Commit, DeliveryFails, Promote,
    CloseApproved, Save, SaveAndReturn, FailQueue
<1>3. ASSUME NEW w, WebStep(w) \/ RetryCommit(w) \/ \E d \in Decisions : Review(w, d)
      PROVE  stale \subseteq stale'
  BY <1>3 DEF WebStep, RetryCommit, Review, Record, RecordRefused, Reopen, CloseChanges,
    CloseRejected, Refresh, SaveRefreshed, Submit, Load, Save, SaveAndReturn
<1>4. ASSUME Edit \/ SaveEdit \/ ResumeQueue \/ Crash PROVE stale \subseteq stale'
  BY <1>4 DEF Edit, SkipSubtask, ReorderPending, RequestControl, PauseInactive, CancelInactive,
    Begin, SaveEdit, ResumeQueue, Crash, Load, Save, SaveAndReturn
<1> QED BY <1>1, <1>2, <1>3, <1>4 DEF Next

Serialized == BegunOK /\ (stale = {} => Ordered)

LEMMA InitSerialized == Init => Serialized
<1> SUFFICES ASSUME Init PROVE Serialized
  OBVIOUS
<1>1. /\ disk.current = NoTask /\ disk.sum = {} /\ disk.status = "pending"
      /\ \A t \in Tasks : disk.child[t] = "pending" /\ disk.slot[t] = t
  BY DEF Init, NewQueue
<1>2. Begun = {} /\ skipped = {} /\ ~ stopped /\ delivered = {} /\ \A t \in Tasks : rev[t] = "pending"
  BY DEF Init, Begun
<1>3. pc["loop"] = "idle" /\ \A a \in Actors : pc[a] \in {"idle", "select"}
  BY DEF Init
<1>4. FileOK(disk)
  BY <1>1, <1>2 DEF FileOK, Serial, CompletedOf, Unbegun, Tasks
<1>5. QuietOK /\ EditOK /\ (\A a \in Actors : CopyOK(a)) /\ BegunOK
  BY <1>2, <1>3 DEF QuietOK, Quiet, EditOK, CopyOK, Editing, BegunOK
<1> QED BY <1>2, <1>4, <1>5 DEF Serialized, Ordered

LEMMA NextSerialized == Inv /\ Serialized /\ [Next]_vars => Serialized'
<1> SUFFICES ASSUME Inv, Serialized, [Next]_vars PROVE Serialized'
  OBVIOUS
<1>1. CASE Next
  <2>1. BegunOK' /\ (StartChild \/ (Begun' = Begun /\ base' = base)) /\ stale \subseteq stale'
    BY <1>1, BegunSteps, StaleStays DEF Serialized
  <2>2. ASSUME stale' = {} PROVE Ordered'
    <3>1. Ordered /\ BegunOK
      BY <2>1, <2>2 DEF Serialized
    <3>2. CASE StartChild
      BY <3>1, <3>2, StartOrdered
    <3>3. CASE ~ StartChild
      <4>1. Begun' = Begun /\ base' = base
        BY <2>1, <3>3
      <4>2. CASE ExecStep
        BY <2>2, <3>1, <3>3, <4>1, <4>2, ResumeOrdered, SelectOrdered, RunOrdered DEF ExecStep
      <4>3. CASE \E a \in Web \union {"exec"} : DeliveryStep(a)
        BY <2>2, <3>1, <4>1, <4>3, DeliveryOrdered
      <4>4. CASE \E w \in Web : WebStep(w) \/ RetryCommit(w) \/ \E d \in Decisions : Review(w, d)
        BY <2>2, <3>1, <4>1, <4>4, WebOrdered
      <4>5. CASE Edit \/ SaveEdit \/ ResumeQueue \/ Crash
        BY <2>2, <3>1, <4>1, <4>5, EditOrdered
      <4> QED BY <1>1, <4>2, <4>3, <4>4, <4>5 DEF Next
    <3> QED BY <3>2, <3>3
  <2> QED BY <2>1, <2>2 DEF Serialized
<1>2. CASE UNCHANGED vars
  <2>1. BegunOK'
    BY <1>2 DEF vars, Serialized, BegunOK, Begun
  <2>2. ASSUME Ordered PROVE Ordered'
    <3>1. UNCHANGED <<disk, pc, op, mem, late, skipped, stopped, base>> /\ Begun' = Begun
      BY <1>2 DEF vars, Begun
    <3>2. Fresh("exec")' /\ (late["loop"] \/ EditOK)' /\ QuietOK'
      BY <2>2, <3>1 DEF Fresh, CopyOK, Editing, Same, Extended, EditOK, Serial, CompletedOf,
        StoppedAt, QuietOK, Quiet, Ordered
    <3> QED BY <2>2, <3>1, <3>2, GoesOn
  <2> QED BY <1>2, <2>1, <2>2 DEF vars, Serialized
<1> QED BY <1>1, <1>2

(* While no save has overwritten one it had not seen, the file is that of a serial queue and  *)
(* each copy that can still be saved agrees with it.                                          *)
THEOREM QueueSerialized == Spec => []Serialized
BY QueueInvariant, InitSerialized, NextSerialized, PTL DEF Spec

(* An acknowledged skip or cancellation holds, for any number of children, threads, edits and *)
(* crashes: a skipped child never runs and a cancelled queue starts none - unless a save has  *)
(* overwritten one it had not seen.                                                           *)
THEOREM EditsAreKept == Spec => []EditsHold
<1>1. Inv /\ Serialized => EditsHold
  <2> SUFFICES ASSUME Inv, Serialized, stale = {} PROVE EditsHold
    BY DEF EditsHold
  <2>1. ASSUME NEW t \in skipped PROVE run[t] = "absent"
    <3>1. t \in Tasks
      BY <2>1 DEF RestOK
    <3>2. disk.child[t] \in Unbegun
      BY <2>1, <3>1 DEF Serialized, Ordered, FileOK, Unbegun
    <3> QED BY <3>1, <3>2 DEF Serialized, Ordered, FileOK, Begun
  <2>2. stopped => pc["exec"] \notin {"start", "create", "work"}
    BY DEF Serialized, Ordered, QuietOK, Quiet
  <2> QED BY <2>1, <2>2 DEF EditsHold
<1> QED BY <1>1, QueueInvariant, QueueSerialized, PTL

(* The queue is strictly serial: a child begins only when every child begun before it is       *)
(* delivered, and from exactly their work - unless a save has overwritten one it had not seen. *)
THEOREM ChildrenStartInOrder == Spec => StartsInOrder
<1>1. Inv /\ Serialized /\ [Next]_vars =>
        [\A t \in Tasks : Starts(t) /\ stale = {} => Begun = delivered /\ base'[t] = delivered]_vars
  <2> SUFFICES ASSUME Inv, Serialized, Next, NEW t \in Tasks, Starts(t), stale = {}
               PROVE  Begun = delivered /\ base'[t] = delivered
    BY DEF vars, Starts
  <2>1. t \notin Begun /\ t \in Begun'
    BY DEF Starts, Begun
  <2>2. StartChild
    BY <2>1, BegunSteps DEF Serialized
  <2>3. Begun = delivered /\ Begun' = Begun \union {disk.current} /\ base'[disk.current] = delivered
    BY <2>2, StartOrdered DEF Serialized
  <2> QED BY <2>1, <2>3
<1> QED BY <1>1, QueueInvariant, QueueSerialized, PTL DEF Spec, StartsInOrder
-----------------------------------------------------------------------------
(* With one reviewing thread the cumulative diff, too, is that of the       *)
(* completed children.  A thread that delivers late promotes the diff once  *)
(* more, but only of the child that was completed last.                     *)

Rev   == {"record", "deliver", "delivering", "promote"}
Deliv == {"deliver", "delivering", "promote", "close"}

HandsOn(t) == base[t] \union {t} = disk.sum

(* The diff is that of the completed children, perhaps with the current one's. *)
DiffOK ==
  cum = disk.sum \/ (disk.current \in Tasks /\ cum = disk.sum \union {disk.current})

(* The executor delivers the current child, or the one completed last. *)
ExecDelivers ==
  pc["exec"] \in Deliv =>
    LET u == mem["exec"].current IN disk.current = u \/ (disk.current = NoTask /\ HandsOn(u))

(* So does a reviewing thread, and it has approved no other child since it loaded; *)
(* the executor, if it delivers as well, delivers the same child.                  *)
WebDelivers(w) ==
  pc[w] \in Rev =>
    LET t == mem[w].current
        v == mem["exec"].current
    IN /\ mem[w].sum \subseteq disk.sum
       /\ t = disk.current \/ HandsOn(t)
       /\ \A u \in Tasks : u # t /\ u \notin mem[w].sum => rev[u] # "approved"
       /\ pc["exec"] \in Deliv => t = v \/ (pc["exec"] = "deliver" /\ v \notin mem[w].sum)

(* A delivery about to be saved has promoted the diff. *)
HasPromoted(a) == Extended(a) /\ ~ late[a] => cum = mem[a].sum

Whole ==
  /\ DiffOK /\ ExecDelivers
  /\ \A w \in Web : WebDelivers(w)
  /\ \A a \in Actors : HasPromoted(a)

OneReviewer == \A v, w \in Web : v = w

(* A step that touches neither the diff, the current child nor a delivery. *)
LEMMA Calm ==
  ASSUME Inv, Ordered, Whole, cum' = cum, disk'.current = disk.current, disk'.sum = disk.sum,
         \A t \in Tasks : t # disk.current => base'[t] = base[t],
         \A t \in Tasks : rev'[t] = "approved" => rev[t] = "approved",
         \A a \in Actors : pc'[a] \in Rev \union Deliv =>
            /\ pc'[a] = pc[a] /\ op'[a] = op[a] /\ (late[a] => late'[a])
            /\ mem'[a].current = mem[a].current /\ mem'[a].sum = mem[a].sum
  PROVE  Whole'
<1>1. DiffOK'
  BY DEF Whole, DiffOK
<1>2. \A a \in Actors : pc[a] \in Rev \union Deliv => mem[a].current \in Tasks
  BY DEF ThreadsOK, InPlace, OnChild, Rev, Deliv
<1>3. ExecDelivers'
  BY <1>2 DEF Whole, ExecDelivers, HandsOn
<1>4. ASSUME NEW w \in Web PROVE WebDelivers(w)'
  <2> SUFFICES ASSUME pc'[w] \in Rev PROVE WebDelivers(w)'
    BY DEF WebDelivers
  <2>1. /\ w \in Actors /\ pc[w] \in Rev /\ mem[w].current \in Tasks /\ WebDelivers(w)
        /\ mem'[w].current = mem[w].current /\ mem'[w].sum = mem[w].sum
    BY <1>2 DEF Whole
  <2>2. pc'["exec"] \in Deliv =>
          pc'["exec"] = pc["exec"] /\ mem'["exec"].current = mem["exec"].current
    OBVIOUS
  <2> QED BY <2>1, <2>2 DEF WebDelivers, HandsOn
<1>5. \A a \in Actors : HasPromoted(a)'
  BY DEF Whole, HasPromoted, Extended, Deliv
<1> QED BY <1>1, <1>3, <1>4, <1>5 DEF Whole

(* The steps of the executor that are not a delivery's. *)
LEMMA ExecWhole ==
  ASSUME Inv, BegunOK, Ordered, Whole, stale' = {}, ExecStep
  PROVE  Whole'
<1>0. /\ disk \in QueueState /\ mem["exec"] \in QueueState /\ NoTask \notin Tasks
      /\ disk.current \in Tasks \union {NoTask} /\ "exec" \in Actors
  BY DEF FilesOK, Sound, ThreadsOK, QueueState, Tasks
<1>1. CASE ResumePaused
  <2>1. disk'.current = disk.current /\ disk'.sum = disk.sum
    BY <1>0, <1>1 DEF ResumePaused, Unpaused, Mark, QueueState
  <2> QED BY <1>1, <2>1, Calm DEF ResumePaused, ThreadsOK, Rev, Deliv, RestOK
<1>2. CASE ResumeDelivery
  <2>1. /\ UNCHANGED <<disk, cum, base, rev>> /\ pc'["exec"] = "deliver" /\ mem'["exec"] = disk
        /\ \A b \in Actors \ {"exec"} : pc'[b] = pc[b] /\ mem'[b] = mem[b] /\ op'[b] = op[b]
                                        /\ late'[b] = late[b]
    BY <1>2 DEF ResumeDelivery, Load, ThreadsOK, RestOK
  <2>2. DiffOK' /\ ExecDelivers'
    BY <2>1 DEF Whole, DiffOK, ExecDelivers
  <2>3. ASSUME NEW w \in Web PROVE WebDelivers(w)'
    <3>1. w # "exec" /\ w \in Actors
      BY ConstantAssumption
    <3>2. disk.current \notin disk.sum
      BY <1>0 DEF Ordered, FileOK, Serial, CompletedOf
    <3> QED BY <2>1, <3>1, <3>2 DEF Whole, WebDelivers, HandsOn
  <2>4. \A a \in Actors : HasPromoted(a)'
    BY <2>1 DEF Whole, HasPromoted, Extended
  <2> QED BY <2>2, <2>3, <2>4 DEF Whole
<1>3. CASE ResumeRun
  BY <1>3, Calm DEF ResumeRun, Load, Return, ThreadsOK, RestOK, Rev, Deliv
<1>4. CASE SaveReopened
  <2>1. ~ late["exec"] /\ pc["exec"] = "reopened"
    BY <1>4 DEF SaveReopened, Save, RestOK
  <2>2. Same(mem["exec"]) /\ mem["exec"].sum = disk.sum
    BY <2>1 DEF Ordered, CopyOK, Editing, Extended
  <2>3. disk'.current = disk.current /\ disk'.sum = disk.sum
    BY <1>0, <1>4, <2>2 DEF SaveReopened, Save, Mark, Same, QueueState
  <2> QED BY <1>4, <2>3, Calm DEF SaveReopened, Save, ThreadsOK, RestOK, Rev, Deliv
<1>5. CASE ResumeOther
  BY <1>5, Calm DEF ResumeOther, ThreadsOK, RestOK, Rev, Deliv
<1>6. ASSUME NEW t \in Tasks, SelectChild(t) PROVE Whole'
  <2>1. /\ disk'.current = t /\ disk'.sum = disk.sum /\ disk.current \in {NoTask, t}
        /\ UNCHANGED <<cum, base, rev, op>> /\ pc'["exec"] = "start"
        /\ \A b \in Actors \ {"exec"} : pc'[b] = pc[b] /\ mem'[b] = mem[b]
        /\ \A b \in Actors \ {"exec"} : late'[b] = (late[b] \/ pc[b] # "idle")
    BY <1>0, <1>6 DEF SelectChild, Selects, Mark, QueueState, ThreadsOK, RestOK
  <2>2. DiffOK' /\ ExecDelivers'
    BY <1>0, <2>1 DEF Whole, DiffOK, ExecDelivers, Deliv
  <2>3. ASSUME NEW w \in Web PROVE WebDelivers(w)'
    <3>1. w # "exec" /\ w \in Actors
      BY ConstantAssumption
    <3>2. pc[w] \in Rev => mem[w].current \in Tasks
      BY <3>1 DEF ThreadsOK, InPlace, OnChild, Rev
    <3> QED BY <1>0, <2>1, <3>1, <3>2 DEF Whole, WebDelivers, HandsOn, Deliv
  <2>4. \A a \in Actors : HasPromoted(a)'
    BY <2>1 DEF Whole, HasPromoted, Extended
  <2> QED BY <2>2, <2>3, <2>4 DEF Whole
<1>7. CASE SelectNothing
  <2>1. disk'.current = disk.current /\ disk'.sum = disk.sum
    BY <1>0, <1>7 DEF SelectNothing, SaveAndReturn, Save, QueueState
  <2> QED BY <1>7, <2>1, Calm
    DEF SelectNothing, SaveAndReturn, Save, Return, ThreadsOK, RestOK, Rev, Deliv
<1>8. CASE StartFails \/ SaveResult
  <2>1. mem["exec"] = disk
    BY <1>8 DEF StartFails, SaveResult, Ordered, QuietOK, Quiet
  <2>2. disk'.current = disk.current /\ disk'.sum = disk.sum
    <3>1. CASE StartFails
      BY <1>0, <2>1, <3>1 DEF StartFails, FailQueue, SaveAndReturn, Save, Mark, QueueState
    <3>2. CASE SaveResult
      <4> DEFINE m == Mark(disk, disk.current, Filed(run[disk.current]), Filed(run[disk.current]))
      <4>1. m.current = disk.current /\ m.sum = disk.sum
        BY <1>0 DEF Mark, QueueState
      <4>2. disk' = [m EXCEPT !.acked[disk.current] = rev[disk.current]]
        BY <2>1, <3>2 DEF SaveResult, SaveAndReturn, Save
      <4> HIDE DEF m
      <4> QED BY <4>1, <4>2
    <3> QED BY <1>8, <3>1, <3>2
  <2> QED BY <1>8, <2>2, Calm
    DEF StartFails, SaveResult, FailQueue, SaveAndReturn, Save, Return, ThreadsOK, RestOK, Rev, Deliv
<1>9. CASE StartBlocked
  BY <1>9, Calm DEF StartBlocked, Return, ThreadsOK, RestOK, Rev, Deliv
<1>10. CASE StartChild
  <2>1. mem["exec"] = disk
    BY <1>10 DEF StartChild, Ordered, QuietOK, Quiet
  <2>2. \A t \in Tasks : t # disk.current => base'[t] = base[t]
    BY <1>10, <2>1 DEF StartChild, RunsOK
  <2> QED BY <1>10, <2>2, Calm DEF StartChild, ThreadsOK, RestOK, Rev, Deliv
<1>11. CASE RunBegins \/ ResumeChild \/ \E s \in Final : RunEnds(s)
  <2>1. /\ UNCHANGED <<disk, cum, base, rev, mem, late, op>> /\ pc'["exec"] \in Quiet
        /\ \A b \in Actors \ {"exec"} : pc'[b] = pc[b]
    BY <1>11 DEF RunBegins, ResumeChild, RunEnds, ThreadsOK, Quiet
  <2> QED BY <2>1, Calm DEF Quiet, Rev, Deliv
<1> QED BY <1>1, <1>2, <1>3, <1>4, <1>5, <1>6, <1>7, <1>8, <1>9, <1>10, <1>11 DEF ExecStep

(* A delivery: with one reviewer, whoever else delivers is at the same child. *)
LEMMA DeliveryWhole ==
  ASSUME Inv, BegunOK, Ordered, Whole, OneReviewer, stale' = {},
         NEW a \in Web \union {"exec"}, DeliveryStep(a)
  PROVE  Whole'
<1>0. /\ disk \in QueueState /\ mem[a] \in QueueState /\ NoTask \notin Tasks /\ a # "loop"
      /\ a \in Actors /\ "exec" \in Actors /\ "exec" \notin Web
      /\ \A w \in Web : w \in Actors /\ (w = a \/ a = "exec")
  BY ConstantAssumption DEF FilesOK, Sound, ThreadsOK, Tasks, OneReviewer
<1>1. CASE BeginDelivery(a) \/ Commit(a)
  <2> DEFINE t == mem[a].current
  <2>1. /\ UNCHANGED <<disk, cum, base, rev, mem, late, op>>
        /\ pc[a] \in {"deliver", "delivering"} /\ pc'[a] \in {"delivering", "promote"}
        /\ pc[a] = "deliver" => rev[t] = "approved"
        /\ \A b \in Actors \ {a} : pc'[b] = pc[b]
    BY <1>0, <1>1 DEF BeginDelivery, Commit, ThreadsOK
  <2>2. t \in Tasks
    BY <1>0, <2>1 DEF ThreadsOK, InPlace, OnChild
  <2>3. DiffOK' /\ ExecDelivers'
    BY <1>0, <2>1 DEF Whole, DiffOK, ExecDelivers, HandsOn, Deliv
  <2>4. ASSUME NEW w \in Web PROVE WebDelivers(w)'
    <3>1. CASE w = a
      BY <1>0, <2>1, <3>1 DEF Whole, WebDelivers, HandsOn, Rev, Deliv
    <3>2. CASE w # a
      BY <1>0, <2>1, <2>2, <3>2 DEF Whole, WebDelivers, HandsOn, Rev, Deliv
    <3> QED BY <3>1, <3>2
  <2>5. \A b \in Actors : HasPromoted(b)'
    BY <2>1 DEF Whole, HasPromoted, Extended
  <2> QED BY <2>3, <2>4, <2>5 DEF Whole
<1>2. CASE DeliveryRefused(a) \/ DeliveryFails(a)
  <2>1. pc[a] \in {"deliver", "delivering", "promote"} /\ ~ late[a]
    BY <1>0, <1>2 DEF DeliveryRefused, DeliveryFails, FailQueue, SaveAndReturn, Save, RestOK
  <2>2. Same(mem[a]) /\ mem[a].sum = disk.sum
    BY <1>0, <2>1 DEF Ordered, CopyOK, Editing, Extended
  <2>3. disk'.current = disk.current /\ disk'.sum = disk.sum
    BY <1>0, <1>2, <2>2
    DEF DeliveryRefused, DeliveryFails, FailQueue, SaveAndReturn, Save, Mark, Same, QueueState
  <2> QED BY <1>0, <1>2, <2>3, Calm
    DEF DeliveryRefused, DeliveryFails, FailQueue, SaveAndReturn, Save, Return, ThreadsOK, RestOK,
      Rev, Deliv
<1>3. CASE Promote(a)
  <2> DEFINE t == mem[a].current
  <2>1. /\ UNCHANGED <<disk, base, rev, late, op>> /\ pc[a] = "promote" /\ pc'[a] = "close"
        /\ cum' = Promoted(t) /\ mem'[a].sum = Promoted(t) /\ mem'[a].current = t
        /\ \A b \in Actors \ {a} : pc'[b] = pc[b] /\ mem'[b] = mem[b]
    BY <1>0, <1>3 DEF Promote, ThreadsOK, QueueState
  <2>2. t \in Tasks /\ t \in delivered
    BY <1>0, <2>1 DEF ThreadsOK, InPlace, OnChild
  <2>3. t = disk.current \/ HandsOn(t)
    BY <1>0, <2>1 DEF Whole, ExecDelivers, WebDelivers, Rev, Deliv
  <2>4. t = disk.current => Promoted(t) = disk.sum \union {disk.current}
    BY <2>2 DEF Promoted, BegunOK, Ordered, FileOK
  <2>5. HandsOn(t) => Promoted(t) = disk.sum
    BY DEF Promoted, HandsOn
  <2>6. DiffOK'
    BY <2>1, <2>2, <2>3, <2>4, <2>5 DEF DiffOK
  <2>7. ExecDelivers'
    BY <1>0, <2>1 DEF Whole, ExecDelivers, HandsOn, Deliv
  <2>8. ASSUME NEW w \in Web PROVE WebDelivers(w)'
    BY <1>0, <2>1 DEF Whole, WebDelivers, HandsOn, Rev, Deliv
  <2>9. ASSUME NEW b \in Actors PROVE HasPromoted(b)'
    <3>1. CASE b = a
      BY <2>1, <3>1 DEF HasPromoted
    <3>2. ASSUME b # a, Extended(b), ~ late[b] PROVE cum' = mem[b].sum
      <4>1. Same(mem[b]) /\ mem[b].sum = disk.sum \union {disk.current} /\ mem[b].current \in Tasks
        BY <3>2 DEF Ordered, CopyOK, Editing, Extended, ThreadsOK, InPlace, OnChild
      <4>2. b \in Web \union {"exec"}
        BY <3>2 DEF Extended, BegunOK
      <4>3. t = disk.current
        <5>1. CASE a = "exec"
          BY <1>0, <2>1, <4>1, <5>1 DEF Whole, ExecDelivers, Deliv, Same
        <5>2. CASE a # "exec"
          <6>1. b = "exec"
            BY <1>0, <3>2, <4>2, <5>2
          <6> QED BY <1>0, <2>1, <3>2, <4>1, <5>2, <6>1
                DEF Whole, WebDelivers, Rev, Deliv, Same, Extended
        <5> QED BY <5>1, <5>2
      <4> QED BY <2>1, <2>4, <4>1, <4>3
    <3> QED BY <2>1, <3>1, <3>2 DEF HasPromoted, Extended
  <2> QED BY <2>6, <2>7, <2>8, <2>9 DEF Whole
<1>4. CASE CloseApproved(a)
  <2> DEFINE t == mem[a].current
             done == [mem[a] EXCEPT !.child[t] = "completed", !.current = NoTask]
  <2>1. /\ pc[a] = "close" /\ op[a] \in {"approved", "recover"} /\ ~ late[a]
        /\ UNCHANGED <<cum, base, rev>>
        /\ \A b \in Actors \ {a} : /\ pc'[b] = pc[b] /\ mem'[b] = mem[b] /\ op'[b] = op[b]
                                   /\ late'[b] = (late[b] \/ pc[b] # "idle")
    BY <1>0, <1>4 DEF CloseApproved, Save, ThreadsOK, RestOK
  <2>2. pc'[a] \in {"idle", "select", "refresh", "submit"}
    <3>1. \E r \in {"idle", "select", "refresh", "submit"} : pc' = [pc EXCEPT ![a] = r]
      BY <1>4 DEF CloseApproved
    <3> QED BY <1>0, <3>1 DEF ThreadsOK
  <2>3. t = disk.current /\ t \in Tasks /\ mem[a].sum = disk.sum \union {t} /\ cum = mem[a].sum
    BY <1>0, <2>1 DEF Ordered, CopyOK, Editing, Extended, Same, ThreadsOK, InPlace, OnChild, Whole,
      HasPromoted
  <2>4. disk'.current = NoTask /\ disk'.sum = mem[a].sum
    <3>1. done.current = NoTask /\ done.sum = mem[a].sum
      BY <1>0 DEF QueueState
    <3>2. disk' = [done EXCEPT !.status = IF AllDone(done) THEN "completed" ELSE "pending"]
      BY <1>4 DEF CloseApproved, Save
    <3> HIDE DEF done
    <3> QED BY <3>1, <3>2
  <2>5. base[t] \union {t} = disk'.sum
    <3>1. t \in Begun
      BY <1>0, <2>1 DEF ThreadsOK, InPlace, BegunOK
    <3> QED BY <2>3, <2>4, <3>1 DEF Ordered, FileOK
  <2>6. DiffOK'
    BY <2>1, <2>3, <2>4 DEF DiffOK
  <2>7. ExecDelivers'
    <3>1. CASE a = "exec"
      BY <2>2, <3>1 DEF ExecDelivers, Deliv
    <3>2. ASSUME a # "exec", pc["exec"] \in Deliv PROVE mem["exec"].current = t
      BY <1>0, <2>3, <3>2 DEF Whole, ExecDelivers
    <3> QED BY <1>0, <2>1, <2>4, <2>5, <3>1, <3>2 DEF ExecDelivers, HandsOn
  <2>8. ASSUME NEW w \in Web PROVE WebDelivers(w)'
    <3>1. CASE w = a
      BY <2>2, <3>1 DEF WebDelivers, Rev
    <3>2. CASE w # a
      <4>1. a = "exec" /\ pc["exec"] \in Deliv /\ pc["exec"] # "deliver"
        BY <1>0, <2>1, <3>2 DEF Deliv
      <4>2. pc'["exec"] \notin Deliv /\ pc'[w] = pc[w] /\ mem'[w] = mem[w]
        BY <1>0, <2>1, <2>2, <3>2, <4>1 DEF Deliv
      <4>3. pc[w] \in Rev => mem[w].current = t
        BY <4>1 DEF Whole, WebDelivers
      <4>4. pc[w] \in Rev => mem[w].sum \subseteq disk'.sum
        BY <2>3, <2>4 DEF Whole, WebDelivers
      <4>5. pc[w] \in Rev => \A u \in Tasks : u # mem[w].current /\ u \notin mem[w].sum => rev[u] # "approved"
        BY DEF Whole, WebDelivers
      <4> HIDE DEF t
      <4> QED BY <2>1, <2>5, <4>2, <4>3, <4>4, <4>5 DEF WebDelivers, HandsOn
    <3> QED BY <3>1, <3>2
  <2>9. \A b \in Actors : HasPromoted(b)'
    BY <2>1, <2>2 DEF HasPromoted, Extended
  <2> QED BY <2>6, <2>7, <2>8, <2>9 DEF Whole
<1> QED BY <1>1, <1>2, <1>3, <1>4 DEF DeliveryStep

(* The reviewing thread itself. *)
LEMMA WebWhole ==
  ASSUME Inv, BegunOK, Ordered, Whole, OneReviewer, stale' = {},
         NEW w \in Web, WebStep(w) \/ RetryCommit(w) \/ \E d \in Decisions : Review(w, d)
  PROVE  Whole'
<1>0. /\ disk \in QueueState /\ mem[w] \in QueueState /\ NoTask \notin Tasks
      /\ w # "loop" /\ w # "exec" /\ w \in Actors /\ \A v \in Web : v = w
      /\ disk.current \in Tasks \union {NoTask}
  <2>1. disk \in QueueState /\ disk.current \in Tasks \union {NoTask}
    BY DEF FilesOK, Sound, QueueState
  <2> QED BY <2>1, ConstantAssumption DEF ThreadsOK, Tasks, OneReviewer
<1>1. CASE RetryCommit(w) \/ \E d \in Decisions : Review(w, d)
  <2>1. /\ UNCHANGED <<disk, cum, base, rev>> /\ pc'[w] \in {"record", "deliver"} /\ mem'[w] = disk
        /\ disk.current # NoTask
        /\ \A b \in Actors \ {w} : pc'[b] = pc[b] /\ mem'[b] = mem[b] /\ op'[b] = op[b]
                                   /\ late'[b] = late[b]
    BY <1>0, <1>1 DEF Review, RetryCommit, Load, ThreadsOK, RestOK
  <2>2. DiffOK' /\ ExecDelivers'
    BY <1>0, <2>1 DEF Whole, DiffOK, ExecDelivers, HandsOn
  <2>3. ASSUME NEW u \in Tasks, u # disk.current, u \notin disk.sum PROVE rev[u] # "approved"
    BY <2>3 DEF Ordered, FileOK, Serial, CompletedOf, BegunOK
  <2>4. WebDelivers(w)'
    BY <1>0, <2>1, <2>2, <2>3 DEF WebDelivers, ExecDelivers
  <2>5. \A a \in Actors : HasPromoted(a)'
    BY <2>1 DEF Whole, HasPromoted, Extended
  <2> QED BY <1>0, <2>2, <2>4, <2>5 DEF Whole
<1>2. CASE Record(w)
  <2> DEFINE t == mem[w].current
  <2>1. /\ UNCHANGED <<disk, cum, base, late, op>> /\ pc[w] = "record"
        /\ \A u \in Tasks \ {t} : rev'[u] = rev[u]
        /\ mem'[w].current = t /\ mem'[w].sum = mem[w].sum
        /\ \A b \in Actors \ {w} : pc'[b] = pc[b] /\ mem'[b] = mem[b]
    BY <1>0, <1>2 DEF Record, ThreadsOK, RunsOK, QueueState
  <2>2. pc'[w] \in {"deliver", "reopen", "close"} /\ (pc'[w] = "close" => op[w] \notin {"approved", "recover"})
    <3>1. \E r \in {"deliver", "reopen", "close"} :
            pc' = [pc EXCEPT ![w] = r] /\ (r = "close" => op[w] # "approved")
      BY <1>2 DEF Record
    <3>2. op[w] # "recover"
      BY <1>0, <1>2 DEF Record, ThreadsOK, InPlace
    <3> QED BY <1>0, <3>1, <3>2 DEF ThreadsOK
  <2>3. DiffOK' /\ ExecDelivers'
    BY <1>0, <2>1 DEF Whole, DiffOK, ExecDelivers, HandsOn
  <2>4. WebDelivers(w)'
    BY <1>0, <2>1, <2>2 DEF Whole, WebDelivers, HandsOn, Rev
  <2>5. \A a \in Actors : HasPromoted(a)'
    BY <2>1, <2>2 DEF Whole, HasPromoted, Extended
  <2> QED BY <1>0, <2>3, <2>4, <2>5 DEF Whole
<1>3. CASE RecordRefused(w) \/ Refresh(w) \/ Submit(w)
  <2>1. UNCHANGED <<disk, cum, base, rev>> /\ pc'[w] \notin Rev \union Deliv
        /\ \A b \in Actors \ {w} : /\ pc'[b] \in {pc[b], "select"} /\ mem'[b] = mem[b]
                                   /\ op'[b] = op[b] /\ late'[b] = late[b]
    <3>1. CASE RecordRefused(w)
      BY <1>0, <3>1 DEF RecordRefused, Return, ThreadsOK, Rev, Deliv
    <3>2. CASE Refresh(w)
      BY <1>0, <3>2 DEF Refresh, Load, ThreadsOK, RestOK, Rev, Deliv
    <3>3. CASE Submit(w)
      BY <1>0, <3>3 DEF Submit, ThreadsOK, Rev, Deliv
    <3> QED BY <1>3, <3>1, <3>2, <3>3
  <2> QED BY <2>1, Calm DEF Rev, Deliv
<1>4. CASE Reopen(w)
  <2>1. /\ UNCHANGED <<disk, cum, base, mem, late, op>> /\ pc'[w] = "close"
        /\ op[w] = "changes_requested"
        /\ \A b \in Actors \ {w} : pc'[b] = pc[b]
        /\ \A u \in Tasks : rev'[u] = "approved" => rev[u] = "approved"
    BY <1>0, <1>4 DEF Reopen, ThreadsOK, InPlace, RunsOK
  <2>2. DiffOK' /\ ExecDelivers'
    BY <1>0, <2>1 DEF Whole, DiffOK, ExecDelivers, HandsOn
  <2>3. WebDelivers(w)'
    BY <2>1 DEF WebDelivers, Rev
  <2>4. \A a \in Actors : HasPromoted(a)'
    BY <2>1 DEF Whole, HasPromoted, Extended
  <2> QED BY <1>0, <2>2, <2>3, <2>4 DEF Whole
<1>5. CASE CloseChanges(w) \/ CloseRejected(w)
  <2>1. ~ late[w] /\ pc[w] = "close" /\ op[w] \notin {"approved", "recover"}
    BY <1>0, <1>5 DEF CloseChanges, CloseRejected, SaveAndReturn, Save, RestOK
  <2>2. Same(mem[w]) /\ mem[w].sum = disk.sum
    BY <1>0, <2>1 DEF Ordered, CopyOK, Editing, Extended
  <2>3. disk'.current = disk.current /\ disk'.sum = disk.sum
    BY <1>0, <1>5, <2>2 DEF CloseChanges, CloseRejected, SaveAndReturn, Save, Mark, Same, QueueState
  <2>4. UNCHANGED <<cum, base, rev>> /\ pc'[w] \notin Rev \union Deliv
        /\ \A b \in Actors \ {w} : /\ pc'[b] = pc[b] /\ mem'[b] = mem[b] /\ op'[b] = op[b]
                                   /\ (late[b] => late'[b])
    BY <1>0, <1>5 DEF CloseChanges, CloseRejected, SaveAndReturn, Save, Return, ThreadsOK, RestOK,
      Rev, Deliv
  <2> QED BY <2>3, <2>4, Calm
<1>6. CASE SaveRefreshed(w)
  <2>1. disk' = disk
    BY <1>0, <1>6 DEF SaveRefreshed, Save, Ordered, CopyOK, RestOK
  <2>2. UNCHANGED <<cum, base, rev, mem, op>> /\ pc'[w] = "submit"
        /\ \A b \in Actors \ {w} : pc'[b] = pc[b] /\ (late[b] => late'[b])
    BY <1>0, <1>6 DEF SaveRefreshed, Save, ThreadsOK, RestOK
  <2> QED BY <2>1, <2>2, Calm DEF Rev, Deliv
<1> QED BY <1>1, <1>2, <1>3, <1>4, <1>5, <1>6 DEF WebStep

(* The endpoints' edits, a resume request and a crash. *)
LEMMA EditWhole ==
  ASSUME Inv, Ordered, Whole, stale' = {}, Edit \/ SaveEdit \/ ResumeQueue \/ Crash
  PROVE  Whole'
<1>1. ASSUME NEW o, NEW q, Begin(o, q) PROVE Whole'
  <2>1. UNCHANGED <<disk, cum, base, rev>> /\ pc'["loop"] = "save"
        /\ \A b \in Actors \ {"loop"} : pc'[b] = pc[b] /\ mem'[b] = mem[b] /\ op'[b] = op[b]
                                        /\ late'[b] = late[b]
    BY <1>1 DEF Begin, Load, ThreadsOK, RestOK
  <2> QED BY <2>1, Calm DEF Rev, Deliv
<1>2. ASSUME NEW action, RequestControl(action) PROVE Whole'
  BY <1>2, Calm DEF RequestControl
<1>3. CASE SaveEdit
  <2>1. disk' = mem["loop"] /\ disk'.current = disk.current /\ disk'.sum = disk.sum
    BY <1>3 DEF SaveEdit, SaveAndReturn, Save, RestOK, Ordered, EditOK
  <2>2. UNCHANGED <<cum, base, rev>> /\ pc'["loop"] = "idle"
        /\ \A b \in Actors \ {"loop"} : /\ pc'[b] = pc[b] /\ mem'[b] = mem[b] /\ op'[b] = op[b]
                                        /\ (late[b] => late'[b])
    BY <1>3 DEF SaveEdit, SaveAndReturn, Save, Return, ThreadsOK, RestOK
  <2> QED BY <2>1, <2>2, Calm DEF Rev, Deliv
<1>4. CASE ResumeQueue
  BY <1>4, Calm DEF ResumeQueue, ThreadsOK, Rev, Deliv
<1>5. CASE Crash
  BY <1>5, Calm DEF Crash, Rev, Deliv
<1> QED BY <1>1, <1>2, <1>3, <1>4, <1>5 DEF Edit, SkipSubtask, ReorderPending, PauseInactive,
          CancelInactive

LEMMA InitWhole == Init => Whole
<1> SUFFICES ASSUME Init PROVE Whole
  OBVIOUS
<1>1. cum = {} /\ disk.sum = {} /\ \A a \in Actors : pc[a] \in {"idle", "select"}
  BY DEF Init, NewQueue
<1> QED BY <1>1 DEF Whole, DiffOK, ExecDelivers, WebDelivers, HasPromoted, Extended, Rev, Deliv

LEMMA NextWhole ==
  Inv /\ Serialized /\ OneReviewer /\ (stale = {} => Whole) /\ [Next]_vars => (stale = {} => Whole)'
<1> SUFFICES ASSUME Inv, Serialized, OneReviewer, stale = {} => Whole, [Next]_vars, stale' = {}
             PROVE  Whole'
  OBVIOUS
<1>1. CASE Next
  <2>1. BegunOK /\ Ordered /\ Whole
    BY <1>1, StaleStays DEF Serialized
  <2>2. CASE ExecStep
    BY <2>1, <2>2, ExecWhole
  <2>3. CASE \E a \in Web \union {"exec"} : DeliveryStep(a)
    BY <2>1, <2>3, DeliveryWhole
  <2>4. CASE \E w \in Web : WebStep(w) \/ RetryCommit(w) \/ \E d \in Decisions : Review(w, d)
    BY <2>1, <2>4, WebWhole
  <2>5. CASE Edit \/ SaveEdit \/ ResumeQueue \/ Crash
    BY <2>1, <2>5, EditWhole
  <2> QED BY <1>1, <2>2, <2>3, <2>4, <2>5 DEF Next
<1>2. CASE UNCHANGED vars
  BY <1>2, Calm DEF vars, Serialized
<1> QED BY <1>1, <1>2

(* A completed queue has called completed, and handed on, exactly what is delivered - unless a *)
(* save has overwritten one it had not seen.                                                    *)
CompletedIsDelivered ==
  disk.status = "completed" /\ stale = {} =>
    disk.sum = delivered /\ delivered = {t \in Tasks : disk.child[t] = "completed"}

(* That holds for any number of children, threads, edits and crashes. *)
THEOREM CompletedQueuesAreDelivered == Spec => []CompletedIsDelivered
<1>1. Inv /\ Serialized => CompletedIsDelivered
  <2> SUFFICES ASSUME Inv, Serialized, disk.status = "completed", stale = {}
               PROVE  disk.sum = CompletedOf(disk) /\ delivered = CompletedOf(disk)
    BY DEF CompletedIsDelivered, CompletedOf
  <2>1. disk.sum = CompletedOf(disk) /\ disk.current = NoTask
    BY DEF Serialized, Ordered, FileOK, Serial
  <2>2. CompletedOf(disk) \subseteq delivered
    BY DEF FilesOK, Sound, Honest, CompletedOf
  <2>3. ASSUME NEW t \in delivered PROVE t \in CompletedOf(disk)
    <3>1. t \in Tasks /\ t \in Begun
      BY <2>3 DEF Serialized, BegunOK, RunsOK
    <3>2. disk.child[t] \notin Unbegun /\ t # NoTask
      BY <3>1 DEF Serialized, Ordered, FileOK, Tasks
    <3> QED BY <2>1, <3>1, <3>2 DEF Serialized, Ordered, FileOK, Serial, CompletedOf
  <2> QED BY <2>1, <2>2, <2>3
<1> QED BY <1>1, QueueInvariant, QueueSerialized, PTL

(* With one reviewing thread the cumulative diff of a completed queue is that work as well.    *)
THEOREM CompletedQueuesAreWhole ==
  ASSUME OneReviewer
  PROVE  Spec => []CompletedIsWhole
<1>1. Inv /\ Serialized /\ (stale = {} => Whole) /\ CompletedIsDelivered => CompletedIsWhole
  BY DEF Serialized, Ordered, FileOK, Whole, DiffOK, CompletedIsDelivered, CompletedIsWhole, Tasks
<1>2. Init => (stale = {} => Whole)
  BY InitWhole
<1>3. Inv /\ Serialized /\ (stale = {} => Whole) /\ [Next]_vars => (stale = {} => Whole)'
  BY NextWhole
<1>4. Spec => [](stale = {} => Whole)
  BY <1>2, <1>3, QueueInvariant, QueueSerialized, PTL DEF Spec
<1> QED BY <1>1, <1>4, QueueInvariant, QueueSerialized, CompletedQueuesAreDelivered, PTL
=============================================================================
