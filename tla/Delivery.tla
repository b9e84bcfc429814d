------------------------------ MODULE Delivery ------------------------------
(***************************************************************************)
(* A reviewed task on its way from its final diff to a commit and to the   *)
(* knowledge archive: ReviewService.record, GitDeliveryService.deliver,    *)
(* QueueWorkflow.record_review and recover_approved_delivery, and          *)
(* ArchiveCoordinator.archive and retry.  A step is the code between two   *)
(* durable effects (a JSON file, the index, the branch, a call to the      *)
(* knowledge server), and the process may die between any two of them.     *)
(*                                                                         *)
(* Contents are version numbers.  Nothing is the content the task started  *)
(* from: the base commit or, for a later queue child, the approved         *)
(* cumulative diff that was applied to its index and worktree.             *)
(***************************************************************************)
EXTENDS Integers, Sequences

CONSTANTS
  Kinds,      \* which of the three kinds of task are looked at
  MaxVersion, \* contents the agent and outsiders produce
  MaxItems,   \* most outbox items of an archive
  MaxReviews, \* decisions a queue child may receive
  MaxCrashes, MaxFaults, MaxMeddles

\* A task of its own, the first child of a queue, and a child that inherits the
\* approved work of the children before it as a staged baseline.
AllKinds == {"single", "first", "later"}

ASSUME BoundAssumption ==
  /\ Kinds \subseteq AllKinds
  /\ MaxVersion \in Nat /\ MaxItems \in Nat \ {0} /\ MaxReviews \in Nat
  /\ MaxCrashes \in Nat /\ MaxFaults \in Nat /\ MaxMeddles \in Nat

Nothing  == 0
BaseTree == -1    \* the base commit's tree, when it is not Nothing
Versions == 0 .. MaxVersion

VARIABLES
  kind,      \* constant for a task
  work,      \* content of the worktree
  captured,  \* content of the saved final diff (changes/)
  index,     \* content of the git index
  branch,    \* commits on the task branch above base_commit
  run,       \* state.json: machine status, review status, delivery status
  reviews,   \* review.json, or the files reviews/review-NN.json of a queue child
  intent,    \* delivery/commit.json
  child,     \* the queue's entry for the child: its status
  acked,     \* ... and its review_status
  promoted,  \* the queue's cumulative diff, once it holds this child
  recorded,  \* history: the trees that commit.json has called committed
  slipped,   \* history: somebody staged between the comparison and git write-tree
  outbox,    \* archive/outbox.json
  written,   \* the knowledge server: how often it received each item
  pc,        \* where the caller that works on the task stands
  archiveOnly, \* the caller is retry_archive
  crashes, faults, meddles

repo == <<work, captured, index, branch, slipped>>
queue == <<child, acked, promoted>>
delivery == <<intent, recorded>>
archive == <<outbox, written, archiveOnly>>
budget == <<crashes, faults, meddles>>
vars == <<kind, repo, run, reviews, delivery, queue, archive, pc, budget>>

Queued == kind # "single"
Later  == kind = "later"

Decisions == {"approved", "changes_requested", "rejected"}
Delivered == {"committed", "archive_pending", "archived"}

NoIntent == [status |-> "none", review |-> 0, version |-> Nothing, tree |-> Nothing]
NoOutbox == [status |-> "none", size |-> 0, done |-> 0]
-----------------------------------------------------------------------------
(* What git shows.                                                         *)

HeadTree ==
  IF branch # <<>> THEN branch[Len(branch)].tree
  ELSE IF Later THEN BaseTree ELSE Nothing

\* The live final diff is the saved one.  A later child's diff is taken against
\* the index (AuditRecorder._complete_diff), any other against base_commit.
DiffUnchanged ==
  IF Later THEN \/ index = Nothing /\ work = captured
                \/ captured = Nothing /\ index = work
           ELSE work = captured

\* _verify_live_diff: a queue child's cumulative diff is compared as well.
LiveDiffIsReviewed == DiffUnchanged /\ work = captured

\* The staged diff against base_commit is not empty and is the approved one.
StagedIsApproved == index = captured /\ index # (IF Later THEN BaseTree ELSE Nothing)

\* git status --porcelain prints nothing.
Clean == index = HeadTree /\ work = HeadTree
-----------------------------------------------------------------------------
Init ==
  /\ kind \in Kinds
  /\ captured \in Versions
  /\ work = captured /\ index = Nothing /\ branch = <<>> /\ slipped = FALSE
  /\ \E s \in {"success", "manual_review"} :
       run = [status |-> s, review |-> "pending", delivery |-> "not_ready"]
  /\ reviews = <<>> /\ intent = NoIntent /\ recorded = {}
  /\ child = "waiting_review" /\ acked = "pending" /\ promoted = FALSE
  /\ outbox = NoOutbox /\ written = [i \in 1 .. MaxItems |-> 0] /\ archiveOnly = FALSE
  /\ pc = "idle"
  /\ crashes = 0 /\ faults = 0 /\ meddles = 0
-----------------------------------------------------------------------------
(* Review.                                                                 *)

\* Mutant of MayDecide: whatever the queue says of the child.
MayDecideAnyTime(d) ==
  /\ run.status # "running"
  /\ IF Queued THEN d = "approved" => run.status = "success" ELSE reviews = <<>>
  /\ DiffUnchanged

\* The checks of record_review and record: the queue waits for this child, a single task
\* has no review yet, and the worktree is as it was when the diff was captured.
MayDecide(d) ==
  /\ run.status # "running"
  /\ IF Queued THEN /\ child = "waiting_review"
                    /\ d = "approved" => run.status = "success"
               ELSE reviews = <<>>
  /\ DiffUnchanged

\* ReviewService.record up to the review's own file.
Decide(d) ==
  /\ pc = "idle"
  /\ MayDecide(d)
  /\ Len(reviews) < MaxReviews
  /\ reviews' = Append(reviews, [decision |-> d, version |-> captured])
  /\ pc' = "recorded"
  /\ archiveOnly' = FALSE
  /\ UNCHANGED <<kind, repo, run, delivery, queue, outbox, written, budget>>

LatestReview == reviews[Len(reviews)]

\* ... and from there: the run's state, and what record_review does next.
SaveDecision ==
  /\ pc = "recorded"
  /\ LET d == LatestReview.decision IN
       /\ run' = [run EXCEPT !.review = d,
                    !.delivery = IF d = "approved" THEN "commit_pending" ELSE "not_ready"]
       /\ pc' = CASE d = "approved" -> "deliver"
                  [] d = "changes_requested" /\ Queued -> "reopen"
                  [] d = "rejected" /\ Queued -> "settle"
                  [] OTHER -> "idle"
  /\ UNCHANGED <<kind, repo, reviews, delivery, queue, archive, budget>>

\* RunState.reopen_for_review_changes, saved before the queue knows.
Reopen ==
  /\ pc = "reopen"
  /\ run' = [status |-> "running", review |-> "pending", delivery |-> "not_ready"]
  /\ pc' = "settle"
  /\ UNCHANGED <<kind, repo, reviews, delivery, queue, archive, budget>>

\* The queue's save_state at the end of record_review and of
\* recover_approved_delivery.
Settle ==
  /\ pc = "settle"
  /\ acked' = LatestReview.decision
  /\ child' = CASE acked' = "approved" -> "completed"
                [] acked' = "changes_requested" -> "running"
                [] acked' = "rejected" -> "rejected"
  /\ pc' = "idle"
  /\ UNCHANGED <<kind, repo, run, reviews, delivery, promoted, archive, budget>>

\* The reopened run answers the change request: another diff, another verdict.
\* Its resume refuses a worktree that is not the recorded one.
Rework ==
  /\ pc = "idle" /\ child = "running"
  /\ IF DiffUnchanged /\ branch = <<>>
     THEN \E v \in Versions, s \in {"success", "manual_review"} :
            /\ work' = v /\ captured' = v
            /\ run' = [run EXCEPT !.status = s]
            /\ child' = "waiting_review"
     ELSE /\ run' = [run EXCEPT !.status = "infrastructure_error"]
          /\ child' = "infrastructure_error"
          /\ UNCHANGED <<work, captured>>
  /\ acked' = "pending"
  /\ UNCHANGED <<kind, index, branch, slipped, reviews, delivery, promoted, archive, pc, budget>>
-----------------------------------------------------------------------------
(* GitDeliveryService.deliver.                                             *)

\* retry_commit on a single task; resume or retry_commit on a queue child whose
\* approved delivery failed.
Retry ==
  /\ pc = "idle"
  /\ Queued => child = "infrastructure_error" /\ acked = "approved"
  /\ pc' = "deliver" /\ archiveOnly' = FALSE
  /\ UNCHANGED <<kind, repo, run, reviews, delivery, queue, outbox, written, budget>>

\* The exception handler, first half of _mark_failed: an integrity error also
\* ends the run in infrastructure_error.
Fail(integrity) ==
  /\ run' = [run EXCEPT !.delivery = "failed",
               !.status = IF integrity THEN "infrastructure_error" ELSE @]
  /\ pc' = "mark"
  /\ UNCHANGED <<repo, delivery>>

Approved ==
  /\ reviews # <<>> /\ LatestReview.decision = "approved"
  /\ run.review = "approved"

\* Mutant of IntentIsForeign: looks at the diff only.
IntentIsOfOtherDiff == intent.version # captured

\* The intent on file is about another review or another diff.
IntentIsForeign == intent.review # Len(reviews) \/ intent.version # captured

StartCommitting(next) ==
  /\ run' = [run EXCEPT !.delivery = "committing"]
  /\ pc' = next
  /\ UNCHANGED <<repo, delivery>>

\* deliver on a task that was delivered before: _verify_completed.
DeliverAgain ==
  /\ intent.status = "committed"
  /\ IF Len(branch) = 1
     THEN /\ run' = [run EXCEPT !.delivery = "committed"]
          /\ pc' = IF Queued THEN "promote" ELSE "archive"
          /\ UNCHANGED <<repo, delivery>>
     ELSE Fail(TRUE)

\* _recover_or_continue, for an intent that was not completed.
Recover ==
  /\ intent.status \in {"committing", "failed"}
  /\ CASE IntentIsForeign -> Fail(FALSE)
       [] ~IntentIsForeign /\ branch # <<>> ->
            pc' = "verify" /\ UNCHANGED <<repo, run, delivery>>
       [] ~IntentIsForeign /\ branch = <<>> /\ ~StagedIsApproved -> Fail(TRUE)
       [] ~IntentIsForeign /\ branch = <<>> /\ StagedIsApproved ->
            pc' = "recheck" /\ UNCHANGED <<repo, run, delivery>>

\* Mutant of DeliverFresh: does not know its own staged content again.
DeliverFreshUnstaged ==
  /\ intent.status = "none"
  /\ CASE branch # <<>> -> Fail(TRUE)
       [] branch = <<>> /\ ~(LiveDiffIsReviewed /\ index = Nothing) -> Fail(FALSE)
       [] branch = <<>> /\ LiveDiffIsReviewed /\ index = Nothing ->
            StartCommitting(IF StagedIsApproved THEN "compare" ELSE "stage")

\* The gates of a first attempt, or of one that failed before its intent.
DeliverFresh ==
  /\ intent.status = "none"
  /\ CASE branch # <<>> -> Fail(TRUE)
       [] branch = <<>> /\ ~LiveDiffIsReviewed -> Fail(FALSE)
       [] branch = <<>> /\ LiveDiffIsReviewed /\ StagedIsApproved -> StartCommitting("compare")
       [] branch = <<>> /\ LiveDiffIsReviewed /\ ~StagedIsApproved ->
            IF index = Nothing THEN StartCommitting("stage") ELSE Fail(FALSE)

Deliver ==
  /\ pc = "deliver"
  /\ IF Approved THEN DeliverAgain \/ Recover \/ DeliverFresh ELSE Fail(FALSE)
  /\ UNCHANGED <<kind, reviews, queue, archive, budget>>

\* _stage_reviewed_files: git add of the reviewed files, of which a task that
\* changed nothing has none.
Stage ==
  /\ pc = "stage"
  /\ IF captured = Nothing
     THEN Fail(FALSE)
     ELSE /\ index' = work /\ pc' = "compare"
          /\ UNCHANGED <<work, captured, branch, slipped, run, delivery>>
  /\ UNCHANGED <<kind, reviews, queue, archive, budget>>

\* The end of _recover_or_continue: git write-tree, a process after the comparison.
Recheck ==
  /\ pc = "recheck"
  /\ IF index = intent.tree THEN StartCommitting("commit") ELSE Fail(TRUE)
  /\ UNCHANGED <<kind, reviews, queue, archive, budget>>

\* Mutant of CompareStaged: the comparison is left to the gates before it.
CompareNothing ==
  /\ pc = "compare"
  /\ pc' = "intent"
  /\ UNCHANGED <<kind, repo, run, delivery, reviews, queue, archive, budget>>

\* git diff --cached: what is staged is compared with what was approved.
CompareStaged ==
  /\ pc = "compare"
  /\ IF StagedIsApproved THEN pc' = "intent" /\ UNCHANGED <<repo, run, delivery>>
                         ELSE Fail(FALSE)
  /\ UNCHANGED <<kind, reviews, queue, archive, budget>>

\* git write-tree, another process, takes what the index holds by now, and the intent
\* names that tree.
WriteIntent ==
  /\ pc = "intent"
  /\ intent' = [status |-> "committing", review |-> Len(reviews), version |-> captured,
                tree |-> index]
  /\ pc' = "commit"
  /\ UNCHANGED <<kind, repo, run, recorded, reviews, queue, archive, budget>>

\* git commit, which refuses when nothing is staged.
Commit ==
  /\ pc = "commit"
  /\ IF index # HeadTree
     THEN /\ branch' = Append(branch, [tree |-> index, by |-> "delivery"])
          /\ pc' = "verify"
          /\ UNCHANGED <<work, captured, index, slipped, run, delivery>>
     ELSE Fail(FALSE)
  /\ UNCHANGED <<kind, reviews, queue, archive, budget>>

\* Mutant of HeadIsIntended: forgets the tree.
HeadIsOurs == Len(branch) = 1 /\ branch[1].by = "delivery"

\* HEAD is the one commit on base_commit, of the intended tree and subject.
HeadIsIntended ==
  /\ Len(branch) = 1
  /\ branch[1] = [tree |-> intent.tree, by |-> "delivery"]

\* _recover_created_commit up to the record in commit.json.
RecordCommit ==
  /\ pc = "verify"
  /\ CASE ~HeadIsIntended -> Fail(TRUE)
       [] HeadIsIntended /\ ~Clean -> Fail(FALSE)
       [] HeadIsIntended /\ Clean ->
            /\ intent' = [intent EXCEPT !.status = "committed"]
            /\ recorded' = recorded \union {intent.tree}
            /\ pc' = "save"
            /\ UNCHANGED <<repo, run>>
  /\ UNCHANGED <<kind, reviews, queue, archive, budget>>

\* Mutant of SaveCommitted: goes on to the archive.
SaveCommittedUnpromoted ==
  /\ pc = "save"
  /\ run' = [run EXCEPT !.delivery = "committed"]
  /\ pc' = "archive"
  /\ UNCHANGED <<kind, repo, reviews, delivery, queue, archive, budget>>

\* ... and its end.
SaveCommitted ==
  /\ pc = "save"
  /\ run' = [run EXCEPT !.delivery = "committed"]
  /\ pc' = IF Queued THEN "promote" ELSE "archive"
  /\ UNCHANGED <<kind, repo, reviews, delivery, queue, archive, budget>>

\* The second half of _mark_failed: commit.json, when there is one.
MarkIntentFailed ==
  /\ pc = "mark"
  /\ intent' = IF intent.status = "none" THEN intent ELSE [intent EXCEPT !.status = "failed"]
  /\ pc' = IF Queued THEN "settle_failed" ELSE "idle"
  /\ UNCHANGED <<kind, repo, run, reviews, recorded, queue, archive, budget>>

\* The queue's handler of a failed delivery.
SettleFailed ==
  /\ pc = "settle_failed"
  /\ child' = "infrastructure_error" /\ acked' = LatestReview.decision
  /\ pc' = "idle"
  /\ UNCHANGED <<kind, repo, run, reviews, delivery, promoted, archive, budget>>

\* _promote_cumulative_diff.
Promote ==
  /\ pc = "promote"
  /\ promoted' = TRUE
  /\ pc' = "archive"
  /\ UNCHANGED <<kind, repo, run, reviews, delivery, child, acked, archive, budget>>
-----------------------------------------------------------------------------
(* ArchiveCoordinator.                                                     *)

\* Mutant of AfterArchive: forgets that a single task has no queue.
AfterArchiveSettle == IF archiveOnly THEN "idle" ELSE "settle"

\* Where a caller goes when it is done with the archive.
AfterArchive == IF archiveOnly \/ ~Queued THEN "idle" ELSE "settle"

Archiving(next) ==
  /\ run' = [run EXCEPT !.delivery = "archive_pending"]
  /\ pc' = next

\* retry_archive: an existing outbox only.
RetryArchive ==
  /\ pc = "idle" /\ outbox.status # "none"
  /\ Archiving("write")
  /\ archiveOnly' = TRUE
  /\ UNCHANGED <<kind, repo, reviews, delivery, queue, outbox, written, budget>>

\* Mutant of StartArchive: builds the outbox every time.
StartArchiveAfresh ==
  /\ pc = "archive"
  /\ Archiving("build")
  /\ UNCHANGED <<kind, repo, reviews, delivery, queue, archive, budget>>

\* archive: an existing outbox is retried, else the archiver role will build one.
StartArchive ==
  /\ pc = "archive"
  /\ Archiving(IF outbox.status = "none" THEN "build" ELSE "write")
  /\ UNCHANGED <<kind, repo, reviews, delivery, queue, archive, budget>>

\* The role's candidates and the references, and the workflow's completion last.
BuildOutbox ==
  /\ pc = "build"
  /\ \E n \in 1 .. MaxItems : outbox' = [status |-> "pending", size |-> n, done |-> 0]
  /\ pc' = "write"
  /\ UNCHANGED <<kind, repo, run, reviews, delivery, queue, written, archiveOnly, budget>>

\* retry's loop: the call, ...
CallTool ==
  /\ pc = "write" /\ outbox.done < outbox.size
  /\ written' = [written EXCEPT ![outbox.done + 1] = @ + 1]
  /\ pc' = "called"
  /\ UNCHANGED <<kind, repo, run, reviews, delivery, queue, outbox, archiveOnly, budget>>

\* Mutant of MarkItem: one answer completes them all.
MarkAllItems ==
  /\ pc = "called"
  /\ outbox' = [outbox EXCEPT !.done = outbox.size]
  /\ pc' = "write"
  /\ UNCHANGED <<kind, repo, run, reviews, delivery, queue, written, archiveOnly, budget>>

\* ... and the outbox that says so.
MarkItem ==
  /\ pc = "called"
  /\ outbox' = [outbox EXCEPT !.done = @ + 1]
  /\ pc' = "write"
  /\ UNCHANGED <<kind, repo, run, reviews, delivery, queue, written, archiveOnly, budget>>

CloseOutbox ==
  /\ pc = "write" /\ outbox.done = outbox.size
  /\ outbox' = [outbox EXCEPT !.status = "completed"]
  /\ pc' = "archived"
  /\ UNCHANGED <<kind, repo, run, reviews, delivery, queue, written, archiveOnly, budget>>

SaveArchived ==
  /\ pc = "archived"
  /\ run' = [run EXCEPT !.delivery = "archived"]
  /\ pc' = AfterArchive
  /\ UNCHANGED <<kind, repo, reviews, delivery, queue, archive, budget>>
-----------------------------------------------------------------------------
(* The environment.                                                        *)

InDelivery == {"deliver", "recheck", "stage", "compare", "intent", "commit", "verify", "save"}

\* git fails, the user has no git identity, a file cannot be written.
DeliveryFault ==
  /\ faults < MaxFaults /\ pc \in InDelivery
  /\ Fail(FALSE)
  /\ faults' = faults + 1
  /\ UNCHANGED <<kind, reviews, queue, archive, crashes, meddles>>

\* The cumulative diff cannot be promoted.
PromoteFault ==
  /\ faults < MaxFaults /\ pc = "promote"
  /\ pc' = "settle_failed"
  /\ faults' = faults + 1
  /\ UNCHANGED <<kind, repo, run, reviews, delivery, queue, archive, crashes, meddles>>

\* The archiver role or the knowledge server fails, the latter perhaps after it
\* wrote the item; the caller goes on.
ArchiveFault ==
  /\ faults < MaxFaults /\ pc \in {"archive", "build", "write", "called"}
  /\ run' = [run EXCEPT !.delivery = "failed"]
  /\ outbox' = IF pc \in {"write", "called"} THEN [outbox EXCEPT !.status = "failed"] ELSE outbox
  /\ pc' = AfterArchive
  /\ faults' = faults + 1
  /\ UNCHANGED <<kind, repo, reviews, delivery, queue, written, archiveOnly, crashes, meddles>>

\* The process dies.
Crash ==
  /\ crashes < MaxCrashes /\ pc # "idle"
  /\ pc' = "idle"
  /\ crashes' = crashes + 1
  /\ UNCHANGED <<kind, repo, run, reviews, delivery, queue, archive, faults, meddles>>

\* Somebody edits the task's worktree, stages the edit, or commits it.
Meddle ==
  /\ meddles < MaxMeddles
  /\ work' \in Versions
  /\ \/ /\ work' # work /\ UNCHANGED <<index, branch>>
     \/ /\ index # work' /\ index' = work' /\ UNCHANGED branch
     \/ /\ HeadTree # work' /\ index' = work'
        /\ branch' = Append(branch, [tree |-> work', by |-> "somebody"])
  /\ slipped' = (slipped \/ (pc = "intent" /\ index' # index))
  /\ meddles' = meddles + 1
  /\ UNCHANGED <<kind, captured, run, reviews, delivery, queue, archive, pc, crashes, faults>>
-----------------------------------------------------------------------------
DeliverySteps == Deliver \/ Recheck \/ Stage \/ CompareStaged \/ WriteIntent \/ Commit
                 \/ RecordCommit \/ SaveCommitted \/ MarkIntentFailed \/ SettleFailed \/ Promote

Archive == StartArchive \/ BuildOutbox \/ CallTool \/ MarkItem \/ CloseOutbox \/ SaveArchived

Step == SaveDecision \/ Reopen \/ Settle \/ DeliverySteps \/ Archive

Next ==
  \/ \E d \in Decisions : Decide(d)
  \/ Step \/ Rework \/ Retry \/ RetryArchive
  \/ DeliveryFault \/ PromoteFault \/ ArchiveFault \/ Crash \/ Meddle

Spec == Init /\ [][Next]_vars

\* A running caller goes on, and somebody retries a delivery that can be retried.
Fairness == WF_vars(Step) /\ SF_vars(Retry)

FairSpec == Spec /\ Fairness
-----------------------------------------------------------------------------
(* Properties.                                                             *)

MachineStatus  == {"success", "manual_review", "running", "infrastructure_error"}
ReviewStatus   == Decisions \union {"pending"}
DeliveryStatus == Delivered \union {"not_ready", "commit_pending", "committing", "failed"}
ChildStatus    == {"waiting_review", "running", "completed", "rejected", "infrastructure_error"}

RunState  == [status : MachineStatus, review : ReviewStatus, delivery : DeliveryStatus]
Review    == [decision : Decisions, version : Versions]
CommitSet == [tree : Versions, by : {"delivery", "somebody"}]
Intent    == [status : {"none", "committing", "failed", "committed"}, review : Nat,
              version : Versions, tree : Versions]
Outbox    == [status : {"none", "pending", "failed", "completed"}, size : 0 .. MaxItems, done : 0 .. MaxItems]
Point     == InDelivery \union {"idle", "recorded", "reopen", "settle", "mark", "settle_failed",
                "promote", "archive", "build", "write", "called", "archived"}

Types ==
  /\ kind \in Kinds
  /\ work \in Versions /\ captured \in Versions /\ index \in Versions
  /\ branch \in Seq(CommitSet) /\ slipped \in BOOLEAN
  /\ run \in RunState /\ reviews \in Seq(Review)
  /\ intent \in Intent /\ recorded \subseteq Versions
  /\ child \in ChildStatus /\ acked \in ReviewStatus /\ promoted \in BOOLEAN
  /\ outbox \in Outbox /\ written \in [1 .. MaxItems -> Nat] /\ archiveOnly \in BOOLEAN
  /\ pc \in Point
  /\ crashes \in 0 .. MaxCrashes /\ faults \in 0 .. MaxFaults /\ meddles \in 0 .. MaxMeddles

AtArchive == {"write", "called", "archived"}

\* Types, and what a caller at each point has behind it: a review to work on, an
\* approval for a delivery, a queue behind a settlement, an outbox to write.
TypeOK ==
  /\ Types
  /\ pc \in (InDelivery \ {"deliver"}) \union {"promote", "archive", "build"} => Approved
  /\ pc \in AtArchive /\ ~archiveOnly => Approved
  /\ pc \in {"recorded", "reopen", "settle", "settle_failed", "promote"} => reviews # <<>>
  /\ (Queued /\ pc \in {"deliver", "mark"}) \/ acked # "pending" => reviews # <<>>
  /\ pc \in {"reopen", "settle", "settle_failed", "promote"} => Queued
  /\ intent.status = "none" => intent = NoIntent
  /\ pc \in {"write", "called", "archived"} => outbox.status # "none"
  /\ outbox.done <= outbox.size /\ (pc = "called" => outbox.done < outbox.size)

ApprovedVersions == {reviews[i].version : i \in {j \in DOMAIN reviews : reviews[j].decision = "approved"}}

\* A closed or reopened child is left alone, but for retries of its archive.
ClosedIsLeft ==
  /\ child \in {"running", "completed", "rejected"} =>
       pc = "idle" \/ (archiveOnly /\ pc \in AtArchive)
  /\ child = "running" => run.review = "pending"
  /\ ~Queued => child = "waiting_review"

\* A review that state.json knows to be an approval is of the saved diff, and so is what the
\* caller has in hand.
ApprovalIsCurrent ==
  /\ run.review = "approved" => reviews # <<>> /\ LatestReview.version = captured
  /\ pc = "recorded" => LatestReview.version = captured
  /\ pc = "reopen" => LatestReview.decision = "changes_requested"
  /\ pc = "settle" => /\ LatestReview.decision = "approved" => Approved /\ recorded # {} /\ promoted
                      /\ LatestReview.decision = "changes_requested" => run.review = "pending"

\* An intent is about an approved review and, but for a staging in the gap, about the tree that
\* was approved; the commit under way is about the latest review.
IntentIsApproved ==
  /\ intent.status # "none" =>
       /\ intent.review \in DOMAIN reviews
       /\ reviews[intent.review] = [decision |-> "approved", version |-> intent.version]
       /\ slipped \/ intent.tree = intent.version
  /\ pc \in {"stage", "compare", "intent"} => intent.status = "none"
  /\ pc = "intent" => slipped \/ index = captured
  /\ pc \in {"recheck", "commit", "verify", "save"} =>
       intent.status # "none" /\ intent.version = captured /\ intent.review = Len(reviews)

\* What was recorded is there for good, and everything after the commit rests on it.
RecordIsKept ==
  /\ recorded # {} =>
       /\ recorded = {intent.tree} /\ intent.status # "none" /\ intent.version = captured
       /\ branch # <<>> /\ branch[1] = [tree |-> intent.tree, by |-> "delivery"]
  /\ \/ pc \in {"save", "promote", "archive", "build"} \cup AtArchive
     \/ intent.status = "committed" \/ run.delivery \in Delivered \/ outbox.status # "none"
     => recorded # {}
  /\ child = "completed" => promoted /\ recorded # {}
  /\ Queued /\ pc \in {"archive", "build"} => promoted
  /\ Queued /\ pc \in AtArchive /\ ~archiveOnly => promoted

\* An item that is marked, or whose call was answered, was sent; one that is not was sent only
\* by callers that crashed or failed.
MarksAreTrue ==
  \A i \in 1 .. MaxItems :
    IF i <= outbox.done \/ (i = outbox.done + 1 /\ pc = "called")
    THEN written[i] > 0 /\ written[i] <= 1 + crashes + faults
    ELSE written[i] <= crashes + faults

\* What is called complete is marked to the end.
OutboxIsTrue ==
  /\ IF outbox.status = "none" THEN outbox = NoOutbox ELSE outbox.size > 0
  /\ pc = "build" => outbox.status = "none" /\ run.delivery # "archived"
  /\ outbox.status = "completed" \/ pc = "archived" \/ run.delivery = "archived" =>
       outbox.status # "none" /\ outbox.done = outbox.size

\* The inductive invariant behind everything below.
DeliveryInv ==
  ClosedIsLeft /\ ApprovalIsCurrent /\ IntentIsApproved /\ RecordIsKept
  /\ MarksAreTrue /\ OutboxIsTrue

\* What commit.json calls committed is on the branch, the first commit above the base and made
\* by the delivery; and it is of the very version that the review it names approved and that is
\* the saved diff, unless somebody staged between the last comparison and git write-tree.  Other
\* edits, stagings and commits by others and crashes notwithstanding.
RecordedCommitIsReviewed ==
  intent.status = "committed" =>
    /\ branch # <<>> /\ branch[1] = [tree |-> intent.tree, by |-> "delivery"]
    /\ intent.review \in DOMAIN reviews
    /\ reviews[intent.review] = [decision |-> "approved", version |-> captured]
    /\ slipped \/ intent.tree = captured

\* A delivery status at or after "committed" is not only a word in state.json: the branch
\* starts with a delivery that commit.json has recorded, of an approved version unless somebody
\* staged in the gap.
StatusIsHonest ==
  run.delivery \in Delivered =>
    /\ branch # <<>> /\ branch[1].by = "delivery" /\ branch[1].tree \in recorded
    /\ slipped \/ recorded \subseteq ApprovedVersions

\* The same without the exception: what is recorded as delivered was approved.
RecordedIsApproved == recorded \subseteq ApprovedVersions

\* A completed child was promoted, and what the next child inherits is what was committed,
\* unless somebody staged in the gap.
CompletedIsPromoted ==
  child = "completed" => promoted /\ recorded = {intent.tree} /\ (slipped \/ recorded = {captured})

\* An archive that is called complete has reached the knowledge server in full.
ArchivedIsWritten ==
  run.delivery = "archived" \/ outbox.status = "completed" =>
    outbox.size > 0 /\ \A i \in 1 .. outbox.size : written[i] > 0

\* No item is sent twice unless a crash or a failure hid the first answer: retries of the
\* commit and of the archive go on from the outbox and never build it again.
ResentOnlyAfterFailure ==
  \A i \in 1 .. MaxItems : written[i] <= 1 + crashes + faults

Acknowledged == IF Queued THEN acked = "approved" ELSE run.review = "approved"

Closed == IF Queued THEN child = "completed" ELSE intent.status = "committed"

\* The ways in which an approved delivery can get stuck (the last two are faults of the code:
\* see StagingIsRecovered and the README).
Undeliverable ==
  \/ meddles > 0
  \/ captured = Nothing
  \/ Later /\ index = captured /\ intent.status = "none"
  \/ intent.status # "none" /\ intent.review # Len(reviews)

\* "... idempotent task-branch commit delivery": however often it crashes or fails, an approval that
\* the owner of the task has acknowledged is in the end delivered, for a queue child up to
\* its completion, unless it is one of the undeliverable cases.
ApprovalIsDelivered == Acknowledged ~> (Closed \/ Undeliverable)

\* Content that was staged before the intent was written is recovered by a retry
\* (tests/test_git_delivery.py, test_staged_content_is_recovered_when_process_exits_before_intent).
StagingIsRecovered ==
  (Acknowledged /\ meddles = 0 /\ captured # Nothing /\ index = captured /\ intent.status = "none")
    ~> (Closed \/ meddles > 0)

\* record_review is to "Record a child review and update the parent queue atomically": a child
\* the queue calls rejected has not been committed.
RejectedIsNotCommitted ==
  child = "rejected" => \A i \in DOMAIN branch : branch[i].by # "delivery"

Promise == INSTANCE ReviewedDelivery WITH
  Versions <- Versions, approved <- ApprovedVersions, delivered <- recorded, tampered <- slipped,
  outcome <- IF child \in {"completed", "rejected"} THEN child ELSE "open"

\* Review, delivery and queue together do what a reviewed delivery promises.
KeepsPromise == Promise!Spec
=============================================================================
