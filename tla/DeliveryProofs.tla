--------------------------- MODULE DeliveryProofs ---------------------------
(***************************************************************************)
(* What review, delivery and archive keep true for every kind of task, any *)
(* number of crashes, faults and reviews and any content, whatever others  *)
(* do to the worktree and the branch; and that they implement              *)
(* ReviewedDelivery.                                                       *)
(***************************************************************************)
EXTENDS Delivery, TLAPS

(* The sequences grow at the end: a new review is the latest, old entries stay. *)
LEMMA Grown ==
  ASSUME NEW S, NEW s \in Seq(S), NEW e \in S
  PROVE  /\ Append(s, e) \in Seq(S) /\ Append(s, e) # <<>>
         /\ Len(Append(s, e)) = Len(s) + 1 /\ Append(s, e)[Len(s) + 1] = e
         /\ \A i \in DOMAIN s : i \in DOMAIN Append(s, e) /\ Append(s, e)[i] = s[i]
         /\ s # <<>> => Append(s, e)[1] = s[1]
<1>1. Append(s, e) \in Seq(S) /\ Len(Append(s, e)) = Len(s) + 1 /\ Append(s, e)[Len(s) + 1] = e
  OBVIOUS
<1>2. ASSUME NEW i \in DOMAIN s PROVE i \in DOMAIN Append(s, e) /\ Append(s, e)[i] = s[i]
  OBVIOUS
<1>3. Append(s, e) # <<>>
  BY <1>1
<1>4. s # <<>> => 1 \in DOMAIN s
  OBVIOUS
<1> QED
  BY <1>1, <1>2, <1>3, <1>4

(* A branch of one commit has a commit. *)
LEMMA NotEmpty == \A s : Len(s) = 1 => s # <<>>
  OBVIOUS

(* Once there is a review, the latest is one of them. *)
LEMMA LatestIsReview ==
  ASSUME TypeOK, reviews # <<>>
  PROVE  LatestReview \in Review /\ LatestReview.decision \in Decisions
         /\ Len(reviews) \in DOMAIN reviews
<1>1. LatestReview \in Review /\ Len(reviews) \in DOMAIN reviews
  BY DEF TypeOK, Types, LatestReview
<1> QED
  BY <1>1 DEF Review

-----------------------------------------------------------------------------
(* Types, one variable or a few at a time. *)

(* The types hold at first. *)
LEMMA InitTypes == Init => TypeOK
<1> SUFFICES ASSUME Init PROVE TypeOK
  OBVIOUS
<1>1. Types
  <2>1. run \in RunState
    BY DEF Init, RunState, MachineStatus, ReviewStatus, DeliveryStatus
  <2>2. branch \in Seq(CommitSet) /\ reviews \in Seq(Review) /\ intent \in Intent
    BY BoundAssumption DEF Init, NoIntent, Intent, Versions, Nothing
  <2>3. outbox \in Outbox /\ written \in [1 .. MaxItems -> Nat]
    BY BoundAssumption DEF Init, NoOutbox, Outbox
  <2>4. kind \in Kinds /\ work \in Versions /\ captured \in Versions /\ index \in Versions
    BY BoundAssumption DEF Init, Versions, Nothing
  <2>5. child \in ChildStatus /\ acked \in ReviewStatus /\ pc \in Point
    BY DEF Init, ChildStatus, ReviewStatus, Point
  <2>6. crashes \in 0 .. MaxCrashes /\ faults \in 0 .. MaxFaults /\ meddles \in 0 .. MaxMeddles
    BY BoundAssumption DEF Init
  <2> QED
    BY <2>1, <2>2, <2>3, <2>4, <2>5, <2>6 DEF Init, Types
<1> QED
  BY <1>1 DEF Init, TypeOK, NoOutbox, NoIntent, InDelivery, AtArchive

(* state.json keeps its type: an action that touches it writes known values. *)
LEMMA RunTypes ==
  ASSUME TypeOK, [Next]_vars
  PROVE  run' \in RunState
<1> USE DEF TypeOK, Types, RunState, MachineStatus, ReviewStatus, DeliveryStatus, Delivered
<1>1. CASE SaveDecision
  BY <1>1, LatestIsReview DEF SaveDecision
<1>2. CASE Reopen
  BY <1>2 DEF Reopen, repo, queue, delivery, archive, budget
<1>3. CASE Deliver
  BY <1>3 DEF Deliver, DeliverAgain, Recover, DeliverFresh, StartCommitting, Fail, repo,
     delivery, queue, archive, budget
<1>4. CASE Stage
  BY <1>4 DEF Stage, Fail, repo, queue, delivery, archive, budget
<1>5. CASE WriteIntent
  BY <1>5 DEF WriteIntent, Fail, StagedIsApproved, repo, queue, delivery, archive, budget
<1>6. CASE Commit
  BY <1>6 DEF Commit, Fail, repo, queue, delivery, archive, budget
<1>7. CASE RecordCommit
  BY <1>7 DEF RecordCommit, Fail, HeadIsIntended, repo, queue, delivery, archive, budget
<1>8. CASE DeliveryFault
  BY <1>8 DEF DeliveryFault, Fail, repo, queue, delivery, archive
<1>9. CASE SaveCommitted
  BY <1>9 DEF SaveCommitted, repo, queue, delivery, archive, budget
<1>10. CASE StartArchive
  BY <1>10 DEF StartArchive, Archiving, repo, queue, delivery, archive, budget
<1>11. CASE SaveArchived
  BY <1>11 DEF SaveArchived, AfterArchive, repo, queue, delivery, archive, budget
<1>12. CASE RetryArchive
  BY <1>12 DEF RetryArchive, Archiving, repo, queue, delivery, budget
<1>13. CASE Rework
  BY <1>13 DEF Rework, delivery, archive, budget
<1>14. CASE ArchiveFault
  BY <1>14 DEF ArchiveFault, AfterArchive, repo, queue, delivery
<1>15. CASE (\E d \in Decisions : Decide(d)) \/ Settle \/ MarkIntentFailed \/ SettleFailed
            \/ Promote \/ BuildOutbox \/ CallTool \/ MarkItem \/ CloseOutbox \/ Retry \/
            PromoteFault \/ Crash \/ Meddle \/ UNCHANGED vars
  BY <1>15 DEF Decide, Settle, MarkIntentFailed, SettleFailed, Promote, BuildOutbox,
     CallTool, MarkItem, CloseOutbox, Retry, PromoteFault, Crash, Meddle, vars, repo, queue,
     delivery, archive, budget
<1>16. CASE Recheck \/ CompareStaged
  BY <1>16 DEF Recheck, CompareStaged, StartCommitting, Fail, repo, queue, delivery, archive, budget
<1> QED
  BY <1>1, <1>2, <1>3, <1>4, <1>5, <1>6, <1>7, <1>8, <1>9, <1>10, <1>11, <1>12, <1>13,
     <1>14, <1>15, <1>16 DEF Next, Step, DeliverySteps, Archive

(* Only Decide adds a review. *)
LEMMA ReviewTypes ==
  ASSUME TypeOK, [Next]_vars
  PROVE  reviews' \in Seq(Review)
<1> USE DEF TypeOK, Types
<1>1. CASE \E d \in Decisions : Decide(d)
  BY <1>1, Grown DEF Decide, Review
<1>2. CASE SaveDecision \/ Reopen \/ Settle \/ Deliver \/ Recheck \/ CompareStaged \/
           Stage \/ WriteIntent \/ Commit \/ RecordCommit \/ SaveCommitted \/
           MarkIntentFailed \/ SettleFailed \/ Promote \/ StartArchive \/ BuildOutbox \/
           CallTool \/ MarkItem \/ CloseOutbox \/ SaveArchived \/ Rework \/ Retry \/
           RetryArchive \/ DeliveryFault \/ PromoteFault \/ ArchiveFault \/ Crash \/
           Meddle \/ UNCHANGED vars
  BY <1>2 DEF Recheck, CompareStaged, SaveDecision, Reopen, Settle, Deliver, Stage,
     Fail, WriteIntent, Commit, RecordCommit, SaveCommitted, MarkIntentFailed,
     SettleFailed, Promote, StartArchive, BuildOutbox, CallTool, MarkItem, CloseOutbox,
     SaveArchived, Rework, Retry, RetryArchive, DeliveryFault, PromoteFault,
     ArchiveFault, Crash, Meddle, DeliverAgain, Recover, DeliverFresh, StartCommitting,
     vars, repo, queue, delivery, archive, budget
<1> QED
  BY <1>1, <1>2 DEF Next, Step, DeliverySteps, Archive

(* Only Stage, Commit, Rework and others' edits touch the repository. *)
LEMMA RepoTypes ==
  ASSUME TypeOK, [Next]_vars
  PROVE  /\ branch' \in Seq(CommitSet) /\ work' \in Versions /\ captured' \in Versions
         /\ index' \in Versions
<1> USE DEF TypeOK, Types
<1>1. CASE Stage
  BY <1>1 DEF Stage, Fail, repo, queue, delivery, archive, budget
<1>2. CASE Commit
  <2>1. [tree |-> index, by |-> "delivery"] \in CommitSet
    BY DEF CommitSet
  <2>2. Append(branch, [tree |-> index, by |-> "delivery"]) \in Seq(CommitSet)
    BY <2>1, Grown
  <2>3. branch' \in {branch, Append(branch, [tree |-> index, by |-> "delivery"])}
    BY <1>2 DEF Commit, Fail, repo
  <2>4. UNCHANGED <<work, captured, index>>
    BY <1>2 DEF Commit, Fail, repo
  <2> QED
    BY <2>2, <2>3, <2>4
<1>3. CASE Rework
  BY <1>3 DEF Rework, delivery, archive, budget
<1>4. CASE Meddle
  <2>1. work' \in Versions /\ index' \in {index, work'} /\ captured' = captured
    BY <1>4 DEF Meddle
  <2>2. [tree |-> work', by |-> "somebody"] \in CommitSet
    BY <2>1 DEF CommitSet
  <2>3. Append(branch, [tree |-> work', by |-> "somebody"]) \in Seq(CommitSet)
    BY <2>2, Grown
  <2>4. branch' \in {branch, Append(branch, [tree |-> work', by |-> "somebody"])}
    BY <1>4 DEF Meddle
  <2> QED
    BY <2>1, <2>3, <2>4
<1>5. CASE (\E d \in Decisions : Decide(d)) \/ SaveDecision \/ Reopen \/ Settle \/
           Deliver \/ Recheck \/ CompareStaged \/ WriteIntent \/ RecordCommit \/
           SaveCommitted \/ MarkIntentFailed \/ SettleFailed \/ Promote \/ StartArchive
           \/ BuildOutbox \/ CallTool \/ MarkItem \/ CloseOutbox \/ SaveArchived \/
           Retry \/ RetryArchive \/ DeliveryFault \/ PromoteFault \/ ArchiveFault \/
           Crash \/ UNCHANGED vars
  BY <1>5 DEF Recheck, CompareStaged, Decide, SaveDecision, Reopen, Settle, Deliver,
     WriteIntent, Fail, RecordCommit, SaveCommitted, MarkIntentFailed, SettleFailed,
     Promote, StartArchive, BuildOutbox, CallTool, MarkItem, CloseOutbox, SaveArchived,
     Retry, RetryArchive, DeliveryFault, PromoteFault, ArchiveFault, Crash,
     DeliverAgain, Recover, DeliverFresh, StartCommitting, vars, repo, queue, delivery,
     archive, budget
<1> QED
  BY <1>1, <1>2, <1>3, <1>4, <1>5 DEF Next, Step, DeliverySteps, Archive

(* Only an outsider makes a staging slip in. *)
LEMMA SlippedType ==
  ASSUME TypeOK, [Next]_vars
  PROVE  slipped' \in BOOLEAN
<1> USE DEF TypeOK, Types
<1>1. CASE Meddle
  BY <1>1 DEF Meddle
<1>2. CASE (\E d \in Decisions : Decide(d)) \/ SaveDecision \/ Reopen \/ Settle \/
           Deliver \/ Recheck \/ CompareStaged \/ WriteIntent \/ RecordCommit \/
           SaveCommitted \/ MarkIntentFailed \/ SettleFailed \/ Promote \/ StartArchive
           \/ BuildOutbox \/ CallTool \/ MarkItem \/ CloseOutbox \/ SaveArchived \/
           Retry \/ RetryArchive \/ DeliveryFault \/ PromoteFault \/ ArchiveFault \/
           Crash \/ Stage \/ Commit \/ Rework \/ UNCHANGED vars
  BY <1>2 DEF Recheck, CompareStaged, Decide, SaveDecision, Reopen, Settle, Deliver,
     WriteIntent, Fail, Stage, Commit, Rework, RecordCommit, SaveCommitted,
     MarkIntentFailed, SettleFailed, Promote, StartArchive, BuildOutbox, CallTool,
     MarkItem, CloseOutbox, SaveArchived, Retry, RetryArchive, DeliveryFault,
     PromoteFault, ArchiveFault, Crash, DeliverAgain, Recover, DeliverFresh,
     StartCommitting, vars, repo, queue, delivery, archive, budget
<1> QED
  BY <1>1, <1>2 DEF Next, Step, DeliverySteps, Archive

(* Only three actions touch commit.json. *)
LEMMA IntentTypes ==
  ASSUME TypeOK, [Next]_vars
  PROVE  intent' \in Intent /\ recorded' \subseteq Versions
         /\ (intent'.status = "none" => intent' = NoIntent)
<1> USE DEF TypeOK, Types, Intent, NoIntent
<1>1. CASE WriteIntent
  BY <1>1 DEF WriteIntent, Fail, StagedIsApproved, repo, queue, delivery, archive, budget
<1>2. CASE RecordCommit
  BY <1>2 DEF RecordCommit, Fail, HeadIsIntended, repo, queue, delivery, archive, budget
<1>3. CASE MarkIntentFailed
  BY <1>3 DEF MarkIntentFailed, repo, queue, archive, budget
<1>4. CASE (\E d \in Decisions : Decide(d)) \/ SaveDecision \/ Reopen \/ Settle \/
           Deliver \/ Recheck \/ CompareStaged \/ Stage \/ Commit \/ SaveCommitted \/
           SettleFailed \/ Promote \/ StartArchive \/ BuildOutbox \/ CallTool \/
           MarkItem \/ CloseOutbox \/ SaveArchived \/ Rework \/ Retry \/ RetryArchive \/
           DeliveryFault \/ PromoteFault \/ ArchiveFault \/ Crash \/ Meddle \/ UNCHANGED
           vars
  BY <1>4 DEF Recheck, CompareStaged, Decide, SaveDecision, Reopen, Settle, Deliver,
     Stage, Fail, Commit, SaveCommitted, SettleFailed, Promote, StartArchive,
     BuildOutbox, CallTool, MarkItem, CloseOutbox, SaveArchived, Rework, Retry,
     RetryArchive, DeliveryFault, PromoteFault, ArchiveFault, Crash, Meddle,
     DeliverAgain, Recover, DeliverFresh, StartCommitting, vars, repo, queue, delivery,
     archive, budget
<1> QED
  BY <1>1, <1>2, <1>3, <1>4 DEF Next, Step, DeliverySteps, Archive

(* The outbox stays within its size bound. *)
LEMMA ArchiveTypes ==
  ASSUME TypeOK, [Next]_vars
  PROVE  outbox' \in Outbox /\ written' \in [1 .. MaxItems -> Nat] /\ archiveOnly' \in BOOLEAN
<1> USE BoundAssumption DEF TypeOK, Types, Outbox, NoOutbox
<1>1. CASE \E d \in Decisions : Decide(d)
  BY <1>1 DEF Decide, MayDecide, repo, queue, delivery, budget
<1>2. CASE Retry
  BY <1>2 DEF Retry, repo, queue, delivery, budget
<1>3. CASE RetryArchive
  BY <1>3 DEF RetryArchive, Archiving, repo, queue, delivery, budget
<1>4. CASE BuildOutbox
  BY <1>4 DEF BuildOutbox, repo, queue, delivery, budget
<1>5. CASE CallTool
  BY <1>5 DEF CallTool, repo, queue, delivery, budget
<1>6. CASE MarkItem
  <2>1. outbox.done + 1 \in 0 .. MaxItems
    BY <1>6 DEF MarkItem
  <2> QED
    BY <1>6, <2>1 DEF MarkItem
<1>7. CASE CloseOutbox
  BY <1>7 DEF CloseOutbox, repo, queue, delivery, budget
<1>8. CASE ArchiveFault
  BY <1>8 DEF ArchiveFault, AfterArchive, repo, queue, delivery
<1>9. CASE SaveDecision \/ Reopen \/ Settle \/ Deliver \/ Recheck \/ CompareStaged \/
           Stage \/ WriteIntent \/ Commit \/ RecordCommit \/ SaveCommitted \/
           MarkIntentFailed \/ SettleFailed \/ Promote \/ StartArchive \/ SaveArchived
           \/ Rework \/ DeliveryFault \/ PromoteFault \/ Crash \/ Meddle \/ UNCHANGED
           vars
  BY <1>9 DEF Recheck, CompareStaged, SaveDecision, Reopen, Settle, Deliver, Stage,
     Fail, WriteIntent, Commit, RecordCommit, SaveCommitted, MarkIntentFailed,
     SettleFailed, Promote, StartArchive, SaveArchived, Rework, DeliveryFault,
     PromoteFault, Crash, Meddle, DeliverAgain, Recover, DeliverFresh, StartCommitting,
     vars, repo, queue, delivery, archive, budget
<1> QED
  BY <1>1, <1>2, <1>3, <1>4, <1>5, <1>6, <1>7, <1>8, <1>9 DEF Next, Step, DeliverySteps,
     Archive

(* The queue's entry and the kind of the task. *)
LEMMA QueueTypes ==
  ASSUME TypeOK, [Next]_vars
  PROVE  child' \in ChildStatus /\ acked' \in ReviewStatus /\ promoted' \in BOOLEAN
         /\ kind' \in Kinds
<1> USE DEF TypeOK, Types, ChildStatus, ReviewStatus
<1>1. CASE Settle
  BY <1>1, LatestIsReview DEF Settle, Decisions
<1>2. CASE SettleFailed
  BY <1>2, LatestIsReview DEF SettleFailed, Decisions
<1>3. CASE Promote
  BY <1>3 DEF Promote, repo, delivery, archive, budget
<1>4. CASE Rework
  BY <1>4 DEF Rework, delivery, archive, budget
<1>5. CASE (\E d \in Decisions : Decide(d)) \/ SaveDecision \/ Reopen \/ Deliver \/
           Recheck \/ CompareStaged \/ Stage \/ WriteIntent \/ Commit \/ RecordCommit \/
           SaveCommitted \/ MarkIntentFailed \/ StartArchive \/ BuildOutbox \/ CallTool
           \/ MarkItem \/ CloseOutbox \/ SaveArchived \/ Retry \/ RetryArchive \/
           DeliveryFault \/ PromoteFault \/ ArchiveFault \/ Crash \/ Meddle \/ UNCHANGED
           vars
  BY <1>5 DEF Recheck, CompareStaged, Decide, SaveDecision, Reopen, Deliver, Stage,
     Fail, WriteIntent, Commit, RecordCommit, SaveCommitted, MarkIntentFailed,
     StartArchive, BuildOutbox, CallTool, MarkItem, CloseOutbox, SaveArchived, Retry,
     RetryArchive, DeliveryFault, PromoteFault, ArchiveFault, Crash, Meddle,
     DeliverAgain, Recover, DeliverFresh, StartCommitting, vars, repo, queue, delivery,
     archive, budget
<1> QED
  BY <1>1, <1>2, <1>3, <1>4, <1>5 DEF Next, Step, DeliverySteps, Archive

(* The failure budgets stay within their bounds. *)
LEMMA BudgetTypes ==
  ASSUME TypeOK, [Next]_vars
  PROVE  crashes' \in 0 .. MaxCrashes /\ faults' \in 0 .. MaxFaults
         /\ meddles' \in 0 .. MaxMeddles
<1> USE BoundAssumption DEF TypeOK, Types
<1>1. CASE DeliveryFault
  BY <1>1 DEF DeliveryFault, Fail, repo, queue, delivery, archive
<1>2. CASE PromoteFault
  BY <1>2 DEF PromoteFault, repo, queue, delivery, archive
<1>3. CASE ArchiveFault
  BY <1>3 DEF ArchiveFault, AfterArchive, repo, queue, delivery
<1>4. CASE Crash
  BY <1>4 DEF Crash, repo, queue, delivery, archive
<1>5. CASE Meddle
  BY <1>5 DEF Meddle, queue, delivery, archive
<1>6. CASE (\E d \in Decisions : Decide(d)) \/ SaveDecision \/ Reopen \/ Settle \/
           Deliver \/ Recheck \/ CompareStaged \/ Stage \/ WriteIntent \/ Commit \/
           RecordCommit \/ SaveCommitted \/ MarkIntentFailed \/ SettleFailed \/ Promote
           \/ StartArchive \/ BuildOutbox \/ CallTool \/ MarkItem \/ CloseOutbox \/
           SaveArchived \/ Rework \/ Retry \/ RetryArchive \/ UNCHANGED vars
  BY <1>6 DEF Recheck, CompareStaged, Decide, SaveDecision, Reopen, Settle, Deliver,
     Stage, Fail, WriteIntent, Commit, RecordCommit, SaveCommitted, MarkIntentFailed,
     SettleFailed, Promote, StartArchive, BuildOutbox, CallTool, MarkItem, CloseOutbox,
     SaveArchived, Rework, Retry, RetryArchive, DeliverAgain, Recover, DeliverFresh,
     StartCommitting, vars, repo, queue, delivery, archive, budget
<1> QED
  BY <1>1, <1>2, <1>3, <1>4, <1>5, <1>6 DEF Next, Step, DeliverySteps, Archive

(* The program counter, ... *)
LEMMA PointTypes ==
  ASSUME TypeOK, [Next]_vars
  PROVE  pc' \in Point
<1> USE DEF TypeOK, Types, Point, InDelivery
<1>1. CASE \E d \in Decisions : Decide(d)
  BY <1>1 DEF Decide, MayDecide, repo, queue, delivery, budget
<1>2. CASE SaveDecision
  BY <1>2 DEF SaveDecision, repo, queue, delivery, archive, budget
<1>3. CASE Reopen
  BY <1>3 DEF Reopen, repo, queue, delivery, archive, budget
<1>4. CASE Settle
  BY <1>4 DEF Settle, repo, delivery, archive, budget
<1>5. CASE Deliver
  <2>1. CASE ~Approved
    BY <1>5, <2>1 DEF Deliver, Fail, repo, delivery, queue, archive, budget
  <2>2. CASE Approved /\ DeliverAgain
    BY <1>5, <2>2 DEF Deliver, DeliverAgain, Fail, repo, delivery, queue, archive, budget
  <2>3. CASE Approved /\ Recover
    BY <1>5, <2>3 DEF Deliver, Recover, IntentIsForeign, StartCommitting, Fail, repo,
       delivery, queue, archive, budget
  <2>4. CASE Approved /\ DeliverFresh
    BY <1>5, <2>4 DEF Deliver, DeliverFresh, StartCommitting, Fail, repo, delivery, queue,
       archive, budget
  <2> QED
    BY <1>5, <2>1, <2>2, <2>3, <2>4 DEF Deliver
<1>6. CASE Stage
  BY <1>6 DEF Stage, Fail, repo, queue, delivery, archive, budget
<1>7. CASE WriteIntent
  BY <1>7 DEF WriteIntent, repo, queue, delivery, archive, budget
<1>8. CASE Commit
  BY <1>8 DEF Commit, Fail, repo, queue, delivery, archive, budget
<1>9. CASE RecordCommit
  BY <1>9 DEF RecordCommit, Fail, HeadIsIntended, repo, queue, delivery, archive, budget
<1>10. CASE SaveCommitted
  BY <1>10 DEF SaveCommitted, repo, queue, delivery, archive, budget
<1>11. CASE MarkIntentFailed
  BY <1>11 DEF MarkIntentFailed, repo, queue, archive, budget
<1>12. CASE SettleFailed
  BY <1>12 DEF SettleFailed, repo, delivery, archive, budget
<1>13. CASE Promote
  BY <1>13 DEF Promote, repo, delivery, archive, budget
<1>14. CASE StartArchive
  BY <1>14 DEF StartArchive, Archiving, repo, queue, delivery, archive, budget
<1>15. CASE BuildOutbox
  BY <1>15 DEF BuildOutbox, repo, queue, delivery, budget
<1>16. CASE CallTool
  BY <1>16 DEF CallTool, repo, queue, delivery, budget
<1>17. CASE MarkItem
  BY <1>17 DEF MarkItem, repo, queue, delivery, budget
<1>18. CASE CloseOutbox
  BY <1>18 DEF CloseOutbox, repo, queue, delivery, budget
<1>19. CASE SaveArchived
  BY <1>19 DEF SaveArchived, AfterArchive, repo, queue, delivery, archive, budget
<1>20. CASE Rework
  BY <1>20 DEF Rework, delivery, archive, budget
<1>21. CASE Retry
  BY <1>21 DEF Retry, repo, queue, delivery, budget
<1>22. CASE RetryArchive
  BY <1>22 DEF RetryArchive, Archiving, repo, queue, delivery, budget
<1>23. CASE DeliveryFault
  BY <1>23 DEF DeliveryFault, Fail, repo, queue, delivery, archive
<1>24. CASE PromoteFault
  BY <1>24 DEF PromoteFault, repo, queue, delivery, archive
<1>25. CASE ArchiveFault
  BY <1>25 DEF ArchiveFault, AfterArchive, repo, queue, delivery
<1>26. CASE Crash
  BY <1>26 DEF Crash, repo, queue, delivery, archive
<1>27. CASE Meddle
  BY <1>27 DEF Meddle, queue, delivery, archive
<1>28. CASE UNCHANGED vars
  BY <1>28 DEF vars, repo, queue, delivery, archive, budget
<1>29. CASE Recheck
  BY <1>29 DEF Recheck, StartCommitting, Fail, repo, queue, delivery, archive, budget
<1>30. CASE CompareStaged
  BY <1>30 DEF CompareStaged, StagedIsApproved, Fail, repo, queue, delivery, archive, budget
<1> QED
  BY <1>1, <1>2, <1>3, <1>4, <1>5, <1>6, <1>7, <1>8, <1>9, <1>10, <1>11, <1>12, <1>13,
     <1>14, <1>15, <1>16, <1>17, <1>18, <1>19, <1>20, <1>21, <1>22, <1>23, <1>24, <1>25,
     <1>26, <1>27, <1>28, <1>29, <1>30 DEF Next, Step, DeliverySteps, Archive

(* ... and what it says of the rest. *)
LEMMA PointImplies ==
  ASSUME TypeOK, [Next]_vars
  PROVE
         /\ (pc \in (InDelivery \ {"deliver"}) \union {"promote", "archive", "build"} => Approved)'
         /\ (pc \in AtArchive /\ ~archiveOnly => Approved)'

         /\ (pc \in {"recorded", "reopen", "settle", "settle_failed", "promote"} => reviews # <<>>)'
         /\ ((Queued /\ pc \in {"deliver", "mark"}) \/ acked # "pending" => reviews # <<>>)'
         /\ (pc \in {"reopen", "settle", "settle_failed", "promote"} => Queued)'
         /\ (pc \in {"write", "called", "archived"} => outbox.status # "none")'
         /\ outbox'.done <= outbox'.size /\ (pc' = "called" => outbox'.done < outbox'.size)
<1> USE DEF TypeOK, Types, InDelivery, Approved, Queued, LatestReview, RunState, Outbox,
    AtArchive
<1>1. CASE \E d \in Decisions : Decide(d)
  BY <1>1 DEF Decide, MayDecide, repo, queue, delivery, budget
<1>2. CASE SaveDecision
  BY <1>2 DEF SaveDecision, repo, queue, delivery, archive, budget
<1>3. CASE Reopen
  BY <1>3 DEF Reopen, repo, queue, delivery, archive, budget
<1>4. CASE Settle
  BY <1>4 DEF Settle, repo, delivery, archive, budget
<1>5. CASE Deliver
  <2>1. CASE ~Approved
    BY <1>5, <2>1 DEF Deliver, Fail, repo, delivery, queue, archive, budget
  <2>2. CASE Approved /\ DeliverAgain
    BY <1>5, <2>2 DEF Deliver, DeliverAgain, Fail, repo, delivery, queue, archive, budget
  <2>3. CASE Approved /\ Recover
    BY <1>5, <2>3 DEF Deliver, Recover, IntentIsForeign, StartCommitting, Fail, repo,
       delivery, queue, archive, budget
  <2>4. CASE Approved /\ DeliverFresh
    BY <1>5, <2>4 DEF Deliver, DeliverFresh, StartCommitting, Fail, repo, delivery, queue,
       archive, budget
  <2> QED
    BY <1>5, <2>1, <2>2, <2>3, <2>4 DEF Deliver
<1>6. CASE Stage
  BY <1>6 DEF Stage, Fail, repo, queue, delivery, archive, budget
<1>7. CASE WriteIntent
  BY <1>7 DEF WriteIntent, repo, queue, delivery, archive, budget
<1>8. CASE Commit
  BY <1>8 DEF Commit, Fail, repo, queue, delivery, archive, budget
<1>9. CASE RecordCommit
  <2>1. pc = "verify" /\ pc' \in {"save", "mark"} /\ (pc' = "save" => run' = run)
    BY <1>9 DEF RecordCommit, Fail
  <2>2. UNCHANGED <<kind, reviews, outbox, archiveOnly, acked>>
    BY <1>9 DEF RecordCommit, archive, queue
  <2> QED
    BY <2>1, <2>2
<1>10. CASE SaveCommitted
  BY <1>10 DEF SaveCommitted, repo, queue, delivery, archive, budget
<1>11. CASE MarkIntentFailed
  <2>1. pc' \in {"settle_failed", "idle"} /\ (pc' = "settle_failed" => Queued)
    BY <1>11 DEF MarkIntentFailed
  <2>2. UNCHANGED <<kind, reviews, outbox, archiveOnly, acked>> /\ pc = "mark"
    BY <1>11 DEF MarkIntentFailed, archive, queue
  <2> QED
    BY <2>1, <2>2
<1>12. CASE SettleFailed
  BY <1>12 DEF SettleFailed, repo, delivery, archive, budget
<1>13. CASE Promote
  BY <1>13 DEF Promote, repo, delivery, archive, budget
<1>14. CASE StartArchive
  BY <1>14 DEF StartArchive, Archiving, repo, queue, delivery, archive, budget
<1>15. CASE BuildOutbox
  BY <1>15 DEF BuildOutbox, repo, queue, delivery, budget
<1>16. CASE CallTool
  BY <1>16 DEF CallTool, repo, queue, delivery, budget
<1>17. CASE MarkItem
  BY <1>17 DEF MarkItem, repo, queue, delivery, budget
<1>18. CASE CloseOutbox
  BY <1>18 DEF CloseOutbox, repo, queue, delivery, budget
<1>19. CASE SaveArchived
  BY <1>19 DEF SaveArchived, AfterArchive, repo, queue, delivery, archive, budget
<1>20. CASE Rework
  BY <1>20 DEF Rework, delivery, archive, budget
<1>21. CASE Retry
  BY <1>21 DEF Retry, repo, queue, delivery, budget
<1>22. CASE RetryArchive
  BY <1>22 DEF RetryArchive, Archiving, repo, queue, delivery, budget
<1>23. CASE DeliveryFault
  BY <1>23 DEF DeliveryFault, Fail, repo, queue, delivery, archive
<1>24. CASE PromoteFault
  BY <1>24 DEF PromoteFault, repo, queue, delivery, archive
<1>25. CASE ArchiveFault
  BY <1>25 DEF ArchiveFault, AfterArchive, repo, queue, delivery
<1>26. CASE Crash
  BY <1>26 DEF Crash, repo, queue, delivery, archive
<1>27. CASE Meddle
  BY <1>27 DEF Meddle, queue, delivery, archive
<1>28. CASE UNCHANGED vars
  BY <1>28 DEF vars, repo, queue, delivery, archive, budget
<1>29. CASE Recheck
  BY <1>29 DEF Recheck, StartCommitting, Fail, repo, queue, delivery, archive, budget
<1>30. CASE CompareStaged
  BY <1>30 DEF CompareStaged, StagedIsApproved, Fail, repo, queue, delivery, archive, budget
<1> QED
  BY <1>1, <1>2, <1>3, <1>4, <1>5, <1>6, <1>7, <1>8, <1>9, <1>10, <1>11, <1>12, <1>13,
     <1>14, <1>15, <1>16, <1>17, <1>18, <1>19, <1>20, <1>21, <1>22, <1>23, <1>24, <1>25,
     <1>26, <1>27, <1>28, <1>29, <1>30 DEF Next, Step, DeliverySteps, Archive

(* All types together. *)
LEMMA NextTypes ==
  ASSUME TypeOK, [Next]_vars
  PROVE  TypeOK'
<1>1. Types'
  BY RunTypes, ReviewTypes, RepoTypes, SlippedType, IntentTypes, ArchiveTypes, QueueTypes, BudgetTypes,
      PointTypes
  DEF Types
<1> QED
  BY <1>1, IntentTypes, PointImplies DEF TypeOK

\* Every variable has its type, and every caller what it needs where it stands.
THEOREM DeliveryTypes == Spec => []TypeOK
<1>1. TypeOK /\ [Next]_vars => TypeOK'
  BY NextTypes
<1> QED
  BY InitTypes, <1>1, PTL DEF Spec
-----------------------------------------------------------------------------
(* The inductive invariant, one part after the other. *)

(* Every part holds at first. *)
LEMMA InitInv == Init => DeliveryInv
<1> SUFFICES ASSUME Init PROVE DeliveryInv
  OBVIOUS
<1>1. ClosedIsLeft /\ ApprovalIsCurrent /\ IntentIsApproved
  BY DEF Init, ClosedIsLeft, ApprovalIsCurrent, IntentIsApproved, NoIntent
<1>2. RecordIsKept
  BY DEF Init, RecordIsKept, NoIntent, NoOutbox, AtArchive, Delivered
<1>3. MarksAreTrue /\ OutboxIsTrue
  BY DEF Init, MarksAreTrue, OutboxIsTrue, NoOutbox
<1> QED
  BY <1>1, <1>2, <1>3 DEF DeliveryInv

(* A commit, whoever makes it, leaves the first one in place. *)
LEMMA BranchGrows ==
  ASSUME TypeOK, Commit \/ Meddle
  PROVE  branch # <<>> => branch' # <<>> /\ branch'[1] = branch[1]
<1>1. \A v \in Versions, s \in {"delivery", "somebody"} : [tree |-> v, by |-> s] \in CommitSet
  BY DEF CommitSet
<1>2. branch \in Seq(CommitSet) /\ index \in Versions
  BY DEF TypeOK, Types
<1>3. branch' = branch \/ \E e \in CommitSet : branch' = Append(branch, e)
  <2>1. CASE Commit
    BY <1>1, <1>2, <2>1 DEF Commit, Fail, repo
  <2>2. CASE Meddle
    BY <1>1, <2>2 DEF Meddle
  <2> QED
    BY <2>1, <2>2
<1> QED
  BY <1>2, <1>3, Grown

(* Nobody works on a closed child but a retry of its archive. *)
LEMMA ClosedStays ==
  ASSUME TypeOK, DeliveryInv, [Next]_vars
  PROVE  ClosedIsLeft'
<1> USE DEF TypeOK, Types, DeliveryInv, ClosedIsLeft, AtArchive, InDelivery, Queued, RunState
<1>1. CASE \E d \in Decisions : Decide(d)
  BY <1>1 DEF Decide, MayDecide, repo, queue, delivery, budget
<1>2. CASE SaveDecision
  BY <1>2 DEF SaveDecision, repo, queue, delivery, archive, budget
<1>3. CASE Reopen
  BY <1>3 DEF Reopen, repo, queue, delivery, archive, budget
<1>4. CASE Settle
  <2>1. \/ LatestReview.decision = "approved" /\ child' = "completed"
        \/ LatestReview.decision = "changes_requested" /\ child' = "running"
        \/ LatestReview.decision = "rejected" /\ child' = "rejected"
    BY <1>4, LatestIsReview DEF Settle, Decisions
  <2>2. LatestReview.decision = "changes_requested" => run.review = "pending"
    BY <1>4 DEF Settle, ApprovalIsCurrent
  <2> QED
    BY <1>4, <2>1, <2>2 DEF Settle
<1>5. CASE Deliver
  <2>1. CASE ~Approved
    BY <1>5, <2>1 DEF Deliver, Fail, repo, delivery, queue, archive, budget
  <2>2. CASE Approved /\ DeliverAgain
    BY <1>5, <2>2 DEF Deliver, DeliverAgain, Fail, repo, delivery, queue, archive, budget
  <2>3. CASE Approved /\ Recover
    BY <1>5, <2>3 DEF Deliver, Recover, IntentIsForeign, StartCommitting, Fail, repo,
       delivery, queue, archive, budget
  <2>4. CASE Approved /\ DeliverFresh
    BY <1>5, <2>4 DEF Deliver, DeliverFresh, StartCommitting, Fail, repo, delivery, queue,
       archive, budget
  <2> QED
    BY <1>5, <2>1, <2>2, <2>3, <2>4 DEF Deliver
<1>6. CASE Stage
  BY <1>6 DEF Stage, Fail, repo, queue, delivery, archive, budget
<1>7. CASE WriteIntent
  BY <1>7 DEF WriteIntent, repo, queue, delivery, archive, budget
<1>8. CASE Commit
  BY <1>8 DEF Commit, Fail, repo, queue, delivery, archive, budget
<1>9. CASE RecordCommit
  BY <1>9 DEF RecordCommit, Fail, HeadIsIntended, repo, queue, delivery, archive, budget
<1>10. CASE SaveCommitted
  BY <1>10 DEF SaveCommitted, repo, queue, delivery, archive, budget
<1>11. CASE MarkIntentFailed
  BY <1>11 DEF MarkIntentFailed, repo, queue, archive, budget
<1>12. CASE SettleFailed
  BY <1>12 DEF SettleFailed, repo, delivery, archive, budget
<1>13. CASE Promote
  BY <1>13 DEF Promote, repo, delivery, archive, budget
<1>14. CASE StartArchive
  BY <1>14 DEF StartArchive, Archiving, repo, queue, delivery, archive, budget
<1>15. CASE BuildOutbox
  BY <1>15 DEF BuildOutbox, repo, queue, delivery, budget
<1>16. CASE CallTool
  BY <1>16 DEF CallTool, repo, queue, delivery, budget
<1>17. CASE MarkItem
  BY <1>17 DEF MarkItem, repo, queue, delivery, budget
<1>18. CASE CloseOutbox
  BY <1>18 DEF CloseOutbox, repo, queue, delivery, budget
<1>19. CASE SaveArchived
  BY <1>19 DEF SaveArchived, AfterArchive, repo, queue, delivery, archive, budget
<1>20. CASE Rework
  BY <1>20 DEF Rework, delivery, archive, budget
<1>21. CASE Retry
  BY <1>21 DEF Retry, repo, queue, delivery, budget
<1>22. CASE RetryArchive
  BY <1>22 DEF RetryArchive, Archiving, repo, queue, delivery, budget
<1>23. CASE DeliveryFault
  BY <1>23 DEF DeliveryFault, Fail, repo, queue, delivery, archive
<1>24. CASE PromoteFault
  BY <1>24 DEF PromoteFault, repo, queue, delivery, archive
<1>25. CASE ArchiveFault
  BY <1>25 DEF ArchiveFault, AfterArchive, repo, queue, delivery
<1>26. CASE Crash
  BY <1>26 DEF Crash, repo, queue, delivery, archive
<1>27. CASE Meddle
  BY <1>27 DEF Meddle, queue, delivery, archive
<1>28. CASE UNCHANGED vars
  BY <1>28 DEF vars, repo, queue, delivery, archive, budget
<1>29. CASE Recheck
  BY <1>29 DEF Recheck, StartCommitting, Fail, repo, queue, delivery, archive, budget
<1>30. CASE CompareStaged
  BY <1>30 DEF CompareStaged, StagedIsApproved, Fail, repo, queue, delivery, archive, budget
<1> QED
  BY <1>1, <1>2, <1>3, <1>4, <1>5, <1>6, <1>7, <1>8, <1>9, <1>10, <1>11, <1>12, <1>13,
     <1>14, <1>15, <1>16, <1>17, <1>18, <1>19, <1>20, <1>21, <1>22, <1>23, <1>24, <1>25,
     <1>26, <1>27, <1>28, <1>29, <1>30 DEF Next, Step, DeliverySteps, Archive

(* An approval is of the saved diff. *)
LEMMA ApprovalStays ==
  ASSUME TypeOK, DeliveryInv, [Next]_vars
  PROVE  ApprovalIsCurrent'
<1> USE DEF TypeOK, Types, DeliveryInv, ApprovalIsCurrent, ClosedIsLeft, RecordIsKept,
    AtArchive, InDelivery, Queued, RunState, LatestReview, Approved, Delivered
<1>1. CASE \E d \in Decisions : Decide(d)
  BY <1>1 DEF Decide, MayDecide, repo, queue, delivery, budget
<1>2. CASE SaveDecision
  BY <1>2 DEF SaveDecision, repo, queue, delivery, archive, budget
<1>3. CASE Reopen
  BY <1>3 DEF Reopen, repo, queue, delivery, archive, budget
<1>4. CASE Settle
  BY <1>4 DEF Settle, repo, delivery, archive, budget
<1>5. CASE Deliver
  <2>1. CASE ~Approved
    BY <1>5, <2>1 DEF Deliver, Fail, repo, delivery, queue, archive, budget
  <2>2. CASE Approved /\ DeliverAgain
    BY <1>5, <2>2 DEF Deliver, DeliverAgain, Fail, repo, delivery, queue, archive, budget
  <2>3. CASE Approved /\ Recover
    BY <1>5, <2>3 DEF Deliver, Recover, IntentIsForeign, StartCommitting, Fail, repo,
       delivery, queue, archive, budget
  <2>4. CASE Approved /\ DeliverFresh
    BY <1>5, <2>4 DEF Deliver, DeliverFresh, StartCommitting, Fail, repo, delivery, queue,
       archive, budget
  <2> QED
    BY <1>5, <2>1, <2>2, <2>3, <2>4 DEF Deliver
<1>6. CASE Stage
  BY <1>6 DEF Stage, Fail, repo, queue, delivery, archive, budget
<1>7. CASE WriteIntent
  BY <1>7 DEF WriteIntent, repo, queue, delivery, archive, budget
<1>8. CASE Commit
  BY <1>8 DEF Commit, Fail, repo, queue, delivery, archive, budget
<1>9. CASE RecordCommit
  BY <1>9 DEF RecordCommit, Fail, HeadIsIntended, repo, queue, delivery, archive, budget
<1>10. CASE SaveCommitted
  BY <1>10 DEF SaveCommitted, repo, queue, delivery, archive, budget
<1>11. CASE MarkIntentFailed
  BY <1>11 DEF MarkIntentFailed, repo, queue, archive, budget
<1>12. CASE SettleFailed
  BY <1>12 DEF SettleFailed, repo, delivery, archive, budget
<1>13. CASE Promote
  BY <1>13 DEF Promote, repo, delivery, archive, budget
<1>14. CASE StartArchive
  BY <1>14 DEF StartArchive, Archiving, repo, queue, delivery, archive, budget
<1>15. CASE BuildOutbox
  BY <1>15 DEF BuildOutbox, repo, queue, delivery, budget
<1>16. CASE CallTool
  BY <1>16 DEF CallTool, repo, queue, delivery, budget
<1>17. CASE MarkItem
  BY <1>17 DEF MarkItem, repo, queue, delivery, budget
<1>18. CASE CloseOutbox
  BY <1>18 DEF CloseOutbox, repo, queue, delivery, budget
<1>19. CASE SaveArchived
  BY <1>19 DEF SaveArchived, AfterArchive, repo, queue, delivery, archive, budget
<1>20. CASE Rework
  BY <1>20 DEF Rework, delivery, archive, budget
<1>21. CASE Retry
  BY <1>21 DEF Retry, repo, queue, delivery, budget
<1>22. CASE RetryArchive
  BY <1>22 DEF RetryArchive, Archiving, repo, queue, delivery, budget
<1>23. CASE DeliveryFault
  BY <1>23 DEF DeliveryFault, Fail, repo, queue, delivery, archive
<1>24. CASE PromoteFault
  BY <1>24 DEF PromoteFault, repo, queue, delivery, archive
<1>25. CASE ArchiveFault
  BY <1>25 DEF ArchiveFault, AfterArchive, repo, queue, delivery
<1>26. CASE Crash
  BY <1>26 DEF Crash, repo, queue, delivery, archive
<1>27. CASE Meddle
  BY <1>27 DEF Meddle, queue, delivery, archive
<1>28. CASE UNCHANGED vars
  BY <1>28 DEF vars, repo, queue, delivery, archive, budget
<1>29. CASE Recheck
  BY <1>29 DEF Recheck, StartCommitting, Fail, repo, queue, delivery, archive, budget
<1>30. CASE CompareStaged
  BY <1>30 DEF CompareStaged, StagedIsApproved, Fail, repo, queue, delivery, archive, budget
<1> QED
  BY <1>1, <1>2, <1>3, <1>4, <1>5, <1>6, <1>7, <1>8, <1>9, <1>10, <1>11, <1>12, <1>13,
     <1>14, <1>15, <1>16, <1>17, <1>18, <1>19, <1>20, <1>21, <1>22, <1>23, <1>24, <1>25,
     <1>26, <1>27, <1>28, <1>29, <1>30 DEF Next, Step, DeliverySteps, Archive

(* The intent names an approving review. *)
LEMMA IntentStays ==
  ASSUME TypeOK, DeliveryInv, [Next]_vars
  PROVE  IntentIsApproved'
<1> USE DEF TypeOK, Types, DeliveryInv, IntentIsApproved, ApprovalIsCurrent, ClosedIsLeft,
    RecordIsKept, AtArchive, InDelivery, Queued, LatestReview, Approved, Review, Intent
<1>1. CASE \E d \in Decisions : Decide(d)
  BY <1>1 DEF Decide, MayDecide, repo, queue, delivery, budget
<1>2. CASE SaveDecision
  BY <1>2 DEF SaveDecision, repo, queue, delivery, archive, budget
<1>3. CASE Reopen
  BY <1>3 DEF Reopen, repo, queue, delivery, archive, budget
<1>4. CASE Settle
  BY <1>4 DEF Settle, repo, delivery, archive, budget
<1>5. CASE Deliver
  <2>1. CASE ~Approved
    BY <1>5, <2>1 DEF Deliver, Fail, repo, delivery, queue, archive, budget
  <2>2. CASE Approved /\ DeliverAgain
    BY <1>5, <2>2 DEF Deliver, DeliverAgain, Fail, repo, delivery, queue, archive, budget
  <2>3. CASE Approved /\ Recover
    BY <1>5, <2>3 DEF Deliver, Recover, IntentIsForeign, StartCommitting, Fail, repo,
       delivery, queue, archive, budget
  <2>4. CASE Approved /\ DeliverFresh
    BY <1>5, <2>4 DEF Deliver, DeliverFresh, StartCommitting, Fail, repo, delivery, queue,
       archive, budget
  <2> QED
    BY <1>5, <2>1, <2>2, <2>3, <2>4 DEF Deliver
<1>6. CASE Stage
  BY <1>6 DEF Stage, Fail, repo, queue, delivery, archive, budget
<1>7. CASE WriteIntent
  <2>1. intent' = [status |-> "committing", review |-> Len(reviews), version |-> captured,
                   tree |-> index]
        /\ pc' = "commit"
    BY <1>7 DEF WriteIntent
  <2>2. UNCHANGED <<reviews, captured, slipped>>
    BY <1>7 DEF WriteIntent, repo
  <2>3. LatestReview \in Review /\ LatestReview.decision = "approved"
        /\ LatestReview.version = captured
    BY <1>7, LatestIsReview DEF WriteIntent
  <2>4. reviews[Len(reviews)] = [decision |-> "approved", version |-> captured]
    BY <2>3 DEF Review, LatestReview
  <2>5. Len(reviews) \in DOMAIN reviews
    BY <1>7, LatestIsReview DEF WriteIntent
  <2>6. slipped \/ index = captured
    BY <1>7 DEF WriteIntent
  <2> QED
    BY <2>1, <2>2, <2>4, <2>5, <2>6 DEF IntentIsApproved
<1>8. CASE Commit
  BY <1>8 DEF Commit, Fail, repo, queue, delivery, archive, budget
<1>9. CASE RecordCommit
  BY <1>9 DEF RecordCommit, Fail, HeadIsIntended, repo, queue, delivery, archive, budget
<1>10. CASE SaveCommitted
  BY <1>10 DEF SaveCommitted, repo, queue, delivery, archive, budget
<1>11. CASE MarkIntentFailed
  BY <1>11 DEF MarkIntentFailed, repo, queue, archive, budget
<1>12. CASE SettleFailed
  BY <1>12 DEF SettleFailed, repo, delivery, archive, budget
<1>13. CASE Promote
  BY <1>13 DEF Promote, repo, delivery, archive, budget
<1>14. CASE StartArchive
  BY <1>14 DEF StartArchive, Archiving, repo, queue, delivery, archive, budget
<1>15. CASE BuildOutbox
  BY <1>15 DEF BuildOutbox, repo, queue, delivery, budget
<1>16. CASE CallTool
  BY <1>16 DEF CallTool, repo, queue, delivery, budget
<1>17. CASE MarkItem
  BY <1>17 DEF MarkItem, repo, queue, delivery, budget
<1>18. CASE CloseOutbox
  BY <1>18 DEF CloseOutbox, repo, queue, delivery, budget
<1>19. CASE SaveArchived
  BY <1>19 DEF SaveArchived, AfterArchive, repo, queue, delivery, archive, budget
<1>20. CASE Rework
  BY <1>20 DEF Rework, delivery, archive, budget
<1>21. CASE Retry
  BY <1>21 DEF Retry, repo, queue, delivery, budget
<1>22. CASE RetryArchive
  BY <1>22 DEF RetryArchive, Archiving, repo, queue, delivery, budget
<1>23. CASE DeliveryFault
  BY <1>23 DEF DeliveryFault, Fail, repo, queue, delivery, archive
<1>24. CASE PromoteFault
  BY <1>24 DEF PromoteFault, repo, queue, delivery, archive
<1>25. CASE ArchiveFault
  BY <1>25 DEF ArchiveFault, AfterArchive, repo, queue, delivery
<1>26. CASE Crash
  BY <1>26 DEF Crash, repo, queue, delivery, archive
<1>27. CASE Meddle
  BY <1>27 DEF Meddle, queue, delivery, archive
<1>28. CASE UNCHANGED vars
  BY <1>28 DEF vars, repo, queue, delivery, archive, budget
<1>29. CASE Recheck
  BY <1>29 DEF Recheck, StartCommitting, Fail, repo, queue, delivery, archive, budget
<1>30. CASE CompareStaged
  BY <1>30 DEF CompareStaged, StagedIsApproved, Fail, repo, queue, delivery, archive, budget
<1> QED
  BY <1>1, <1>2, <1>3, <1>4, <1>5, <1>6, <1>7, <1>8, <1>9, <1>10, <1>11, <1>12, <1>13,
     <1>14, <1>15, <1>16, <1>17, <1>18, <1>19, <1>20, <1>21, <1>22, <1>23, <1>24, <1>25,
     <1>26, <1>27, <1>28, <1>29, <1>30 DEF Next, Step, DeliverySteps, Archive

(* What was recorded stays true. *)
LEMMA RecordStays ==
  ASSUME TypeOK, DeliveryInv, [Next]_vars
  PROVE  RecordIsKept'
<1> USE DEF TypeOK, Types, DeliveryInv, RecordIsKept, IntentIsApproved, ApprovalIsCurrent,
    ClosedIsLeft, AtArchive, InDelivery, Queued, RunState, Delivered, Intent, NoIntent,
    NoOutbox
<1>1. CASE \E d \in Decisions : Decide(d)
  BY <1>1 DEF Decide, MayDecide, repo, queue, delivery, budget
<1>2. CASE SaveDecision
  BY <1>2 DEF SaveDecision, repo, queue, delivery, archive, budget
<1>3. CASE Reopen
  BY <1>3 DEF Reopen, repo, queue, delivery, archive, budget
<1>4. CASE Settle
  <2>1. child' = "completed" => LatestReview.decision = "approved"
    BY <1>4, LatestIsReview DEF Settle, Decisions
  <2>2. pc = "settle" /\ pc' = "idle"
        /\ UNCHANGED <<captured, branch, recorded, intent, run, promoted, outbox>>
    BY <1>4 DEF Settle, repo, delivery, archive
  <2> QED
    BY <2>1, <2>2
<1>5. CASE Deliver
  <2>1. CASE ~Approved
    BY <1>5, <2>1 DEF Deliver, Fail, repo, delivery, queue, archive, budget
  <2>2. CASE Approved /\ DeliverAgain
    BY <1>5, <2>2 DEF Deliver, DeliverAgain, Fail, repo, delivery, queue, archive, budget
  <2>3. CASE Approved /\ Recover
    <3>1. pc' \in {"mark", "verify", "recheck"}
      BY <2>3 DEF Recover, StartCommitting, Fail
    <3>2. run'.delivery \in {run.delivery, "failed", "committing"}
          /\ UNCHANGED <<repo, delivery>>
      BY <2>3 DEF Recover, StartCommitting, Fail, repo, delivery
    <3>3. UNCHANGED <<kind, child, promoted, outbox, archiveOnly>>
      BY <1>5 DEF Deliver, queue, archive
    <3> QED
      BY <3>1, <3>2, <3>3 DEF repo, delivery
  <2>4. CASE Approved /\ DeliverFresh
    BY <1>5, <2>4 DEF Deliver, DeliverFresh, StartCommitting, Fail, repo, delivery, queue,
       archive, budget
  <2> QED
    BY <1>5, <2>1, <2>2, <2>3, <2>4 DEF Deliver
<1>6. CASE Stage
  BY <1>6 DEF Stage, Fail, repo, queue, delivery, archive, budget
<1>7. CASE WriteIntent
  <2>1. recorded = {} /\ pc = "intent"
    BY <1>7 DEF WriteIntent
  <2>2. pc' = "commit" /\ UNCHANGED <<recorded, run, kind, child, promoted, outbox, archiveOnly>>
    BY <1>7 DEF WriteIntent, queue, archive
  <2>3. intent'.status = "committing"
    BY <1>7 DEF WriteIntent
  <2> QED
    BY <2>1, <2>2, <2>3
<1>8. CASE Commit
  <2>1. pc = "commit" /\ pc' \in {"verify", "mark"}
        /\ run'.delivery \in {run.delivery, "failed"}
    BY <1>8 DEF Commit, Fail
  <2>2. UNCHANGED <<captured, intent, recorded, kind, child, promoted, outbox, archiveOnly>>
    BY <1>8 DEF Commit, Fail, repo, delivery, queue, archive
  <2> QED
    BY <1>8, <2>1, <2>2, BranchGrows
<1>9. CASE RecordCommit
  <2>1. pc = "verify"
        /\ UNCHANGED <<captured, branch, kind, child, promoted, outbox, archiveOnly>>
    BY <1>9 DEF RecordCommit, Fail, repo, queue, archive
  <2>2. CASE HeadIsIntended /\ Clean
    <3>1. intent' = [intent EXCEPT !.status = "committed"]
          /\ recorded' = recorded \union {intent.tree}
      BY <1>9, <2>2 DEF RecordCommit
    <3>2. intent'.status = "committed" /\ intent'.version = captured /\ intent'.tree = intent.tree
      BY <2>1, <3>1
    <3>3. recorded' = {intent'.tree}
      BY <3>1, <3>2
    <3>4. branch # <<>> /\ branch[1] = [tree |-> intent'.tree, by |-> "delivery"]
      <4>1. branch \in Seq(CommitSet)
        OBVIOUS
      <4>2. Len(branch) = 1 /\ branch[1] = [tree |-> intent.tree, by |-> "delivery"]
        BY <2>2 DEF HeadIsIntended
      <4>3. branch # <<>>
        BY <4>1, <4>2, NotEmpty
      <4> QED
        BY <3>2, <4>2, <4>3
    <3>5. pc' = "save"
      BY <1>9, <2>2 DEF RecordCommit
    <3> QED
      BY <2>1, <3>2, <3>3, <3>4, <3>5
  <2>3. CASE ~(HeadIsIntended /\ Clean)
    <3>1. pc' = "mark" /\ run'.delivery = "failed" /\ UNCHANGED delivery
      BY <1>9, <2>3 DEF RecordCommit, Fail
    <3> QED
      BY <2>1, <3>1 DEF delivery
  <2> QED
    BY <2>2, <2>3
<1>10. CASE SaveCommitted
  BY <1>10 DEF SaveCommitted, repo, queue, delivery, archive, budget
<1>11. CASE MarkIntentFailed
  BY <1>11 DEF MarkIntentFailed, repo, queue, archive, budget
<1>12. CASE SettleFailed
  BY <1>12 DEF SettleFailed, repo, delivery, archive, budget
<1>13. CASE Promote
  BY <1>13 DEF Promote, repo, delivery, archive, budget
<1>14. CASE StartArchive
  BY <1>14 DEF StartArchive, Archiving, repo, queue, delivery, archive, budget
<1>15. CASE BuildOutbox
  BY <1>15 DEF BuildOutbox, repo, queue, delivery, budget
<1>16. CASE CallTool
  BY <1>16 DEF CallTool, repo, queue, delivery, budget
<1>17. CASE MarkItem
  BY <1>17 DEF MarkItem, repo, queue, delivery, budget
<1>18. CASE CloseOutbox
  BY <1>18 DEF CloseOutbox, repo, queue, delivery, budget
<1>19. CASE SaveArchived
  BY <1>19 DEF SaveArchived, AfterArchive, repo, queue, delivery, archive, budget
<1>20. CASE Rework
  BY <1>20 DEF Rework, delivery, archive, budget
<1>21. CASE Retry
  BY <1>21 DEF Retry, repo, queue, delivery, budget
<1>22. CASE RetryArchive
  BY <1>22 DEF RetryArchive, Archiving, repo, queue, delivery, budget
<1>23. CASE DeliveryFault
  BY <1>23 DEF DeliveryFault, Fail, repo, queue, delivery, archive
<1>24. CASE PromoteFault
  BY <1>24 DEF PromoteFault, repo, queue, delivery, archive
<1>25. CASE ArchiveFault
  BY <1>25 DEF ArchiveFault, AfterArchive, repo, queue, delivery
<1>26. CASE Crash
  BY <1>26 DEF Crash, repo, queue, delivery, archive
<1>27. CASE Meddle
  <2>1. UNCHANGED <<captured, intent, recorded, kind, child, promoted, outbox, archiveOnly, pc, run>>
    BY <1>27 DEF Meddle, delivery, queue, archive
  <2> QED
    BY <1>27, <2>1, BranchGrows
<1>28. CASE UNCHANGED vars
  BY <1>28 DEF vars, repo, queue, delivery, archive, budget
<1>29. CASE Recheck
  BY <1>29 DEF Recheck, StartCommitting, Fail, repo, queue, delivery, archive, budget
<1>30. CASE CompareStaged
  BY <1>30 DEF CompareStaged, StagedIsApproved, Fail, repo, queue, delivery, archive, budget
<1> QED
  BY <1>1, <1>2, <1>3, <1>4, <1>5, <1>6, <1>7, <1>8, <1>9, <1>10, <1>11, <1>12, <1>13,
     <1>14, <1>15, <1>16, <1>17, <1>18, <1>19, <1>20, <1>21, <1>22, <1>23, <1>24, <1>25,
     <1>26, <1>27, <1>28, <1>29, <1>30 DEF Next, Step, DeliverySteps, Archive

(* A mark follows its call; an unmarked call is paid for by a crash or a fault. *)
LEMMA MarksStay ==
  ASSUME TypeOK, DeliveryInv, [Next]_vars
  PROVE  MarksAreTrue'
<1> USE BoundAssumption DEF TypeOK, Types, DeliveryInv, MarksAreTrue, Outbox
<1>1. CASE \E d \in Decisions : Decide(d)
  BY <1>1 DEF Decide, MayDecide, repo, queue, delivery, budget
<1>2. CASE SaveDecision
  BY <1>2 DEF SaveDecision, repo, queue, delivery, archive, budget
<1>3. CASE Reopen
  BY <1>3 DEF Reopen, repo, queue, delivery, archive, budget
<1>4. CASE Settle
  BY <1>4 DEF Settle, repo, delivery, archive, budget
<1>5. CASE Deliver
  <2>1. CASE ~Approved
    BY <1>5, <2>1 DEF Deliver, Fail, repo, delivery, queue, archive, budget
  <2>2. CASE Approved /\ DeliverAgain
    BY <1>5, <2>2 DEF Deliver, DeliverAgain, Fail, repo, delivery, queue, archive, budget
  <2>3. CASE Approved /\ Recover
    BY <1>5, <2>3 DEF Deliver, Recover, IntentIsForeign, StartCommitting, Fail, repo,
       delivery, queue, archive, budget
  <2>4. CASE Approved /\ DeliverFresh
    BY <1>5, <2>4 DEF Deliver, DeliverFresh, StartCommitting, Fail, repo, delivery, queue,
       archive, budget
  <2> QED
    BY <1>5, <2>1, <2>2, <2>3, <2>4 DEF Deliver
<1>6. CASE Stage
  BY <1>6 DEF Stage, Fail, repo, queue, delivery, archive, budget
<1>7. CASE WriteIntent
  BY <1>7 DEF WriteIntent, repo, queue, delivery, archive, budget
<1>8. CASE Commit
  BY <1>8 DEF Commit, Fail, repo, queue, delivery, archive, budget
<1>9. CASE RecordCommit
  BY <1>9 DEF RecordCommit, Fail, HeadIsIntended, repo, queue, delivery, archive, budget
<1>10. CASE SaveCommitted
  BY <1>10 DEF SaveCommitted, repo, queue, delivery, archive, budget
<1>11. CASE MarkIntentFailed
  BY <1>11 DEF MarkIntentFailed, repo, queue, archive, budget
<1>12. CASE SettleFailed
  BY <1>12 DEF SettleFailed, repo, delivery, archive, budget
<1>13. CASE Promote
  BY <1>13 DEF Promote, repo, delivery, archive, budget
<1>14. CASE StartArchive
  BY <1>14 DEF StartArchive, Archiving, repo, queue, delivery, archive, budget
<1>15. CASE BuildOutbox
  <2>1. outbox.done = 0 /\ outbox'.done = 0
    BY <1>15 DEF BuildOutbox, OutboxIsTrue, NoOutbox
  <2> QED
    BY <1>15, <2>1 DEF BuildOutbox, budget
<1>16. CASE CallTool
  BY <1>16 DEF CallTool, repo, queue, delivery, budget
<1>17. CASE MarkItem
  <2>1. outbox'.done = outbox.done + 1 /\ pc = "called" /\ pc' = "write"
    BY <1>17 DEF MarkItem
  <2>2. UNCHANGED <<written, crashes, faults>>
    BY <1>17 DEF MarkItem, budget
  <2>3. outbox.done \in Nat
    BY BoundAssumption DEF Outbox
  <2> QED
    BY <2>1, <2>2, <2>3, SMTT(30)
<1>18. CASE CloseOutbox
  BY <1>18 DEF CloseOutbox, repo, queue, delivery, budget
<1>19. CASE SaveArchived
  BY <1>19 DEF SaveArchived, AfterArchive, repo, queue, delivery, archive, budget
<1>20. CASE Rework
  BY <1>20 DEF Rework, delivery, archive, budget
<1>21. CASE Retry
  BY <1>21 DEF Retry, repo, queue, delivery, budget
<1>22. CASE RetryArchive
  BY <1>22 DEF RetryArchive, Archiving, repo, queue, delivery, budget
<1>23. CASE DeliveryFault
  <2>1. pc \notin {"called"} /\ pc' # "called" /\ UNCHANGED <<written, outbox, crashes>>
        /\ faults' = faults + 1
    BY <1>23 DEF DeliveryFault, Fail, archive, InDelivery
  <2> QED
    BY <2>1
<1>24. CASE PromoteFault
  BY <1>24 DEF PromoteFault, repo, queue, delivery, archive
<1>25. CASE ArchiveFault
  <2>1. outbox'.done = outbox.done
    BY <1>25 DEF ArchiveFault
  <2>2. pc' # "called" /\ UNCHANGED <<written, crashes>> /\ faults' = faults + 1
    BY <1>25 DEF ArchiveFault, AfterArchive
  <2> QED
    BY <2>1, <2>2
<1>26. CASE Crash
  BY <1>26 DEF Crash, repo, queue, delivery, archive
<1>27. CASE Meddle
  BY <1>27 DEF Meddle, queue, delivery, archive
<1>28. CASE UNCHANGED vars
  BY <1>28 DEF vars, repo, queue, delivery, archive, budget
<1>29. CASE Recheck
  BY <1>29 DEF Recheck, StartCommitting, Fail, repo, queue, delivery, archive, budget
<1>30. CASE CompareStaged
  BY <1>30 DEF CompareStaged, StagedIsApproved, Fail, repo, queue, delivery, archive, budget
<1> QED
  BY <1>1, <1>2, <1>3, <1>4, <1>5, <1>6, <1>7, <1>8, <1>9, <1>10, <1>11, <1>12, <1>13,
     <1>14, <1>15, <1>16, <1>17, <1>18, <1>19, <1>20, <1>21, <1>22, <1>23, <1>24, <1>25,
     <1>26, <1>27, <1>28, <1>29, <1>30 DEF Next, Step, DeliverySteps, Archive

(* A complete archive is marked to the end. *)
LEMMA OutboxStays ==
  ASSUME TypeOK, DeliveryInv, [Next]_vars
  PROVE  OutboxIsTrue'
<1> USE DEF TypeOK, Types, DeliveryInv, OutboxIsTrue, RecordIsKept, RunState, Outbox,
    NoOutbox, Delivered, AtArchive, InDelivery
<1>1. CASE \E d \in Decisions : Decide(d)
  BY <1>1 DEF Decide, MayDecide, repo, queue, delivery, budget
<1>2. CASE SaveDecision
  BY <1>2 DEF SaveDecision, repo, queue, delivery, archive, budget
<1>3. CASE Reopen
  BY <1>3 DEF Reopen, repo, queue, delivery, archive, budget
<1>4. CASE Settle
  BY <1>4 DEF Settle, repo, delivery, archive, budget
<1>5. CASE Deliver
  <2>1. CASE ~Approved
    BY <1>5, <2>1 DEF Deliver, Fail, repo, delivery, queue, archive, budget
  <2>2. CASE Approved /\ DeliverAgain
    BY <1>5, <2>2 DEF Deliver, DeliverAgain, Fail, repo, delivery, queue, archive, budget
  <2>3. CASE Approved /\ Recover
    BY <1>5, <2>3 DEF Deliver, Recover, IntentIsForeign, StartCommitting, Fail, repo,
       delivery, queue, archive, budget
  <2>4. CASE Approved /\ DeliverFresh
    BY <1>5, <2>4 DEF Deliver, DeliverFresh, StartCommitting, Fail, repo, delivery, queue,
       archive, budget
  <2> QED
    BY <1>5, <2>1, <2>2, <2>3, <2>4 DEF Deliver
<1>6. CASE Stage
  BY <1>6 DEF Stage, Fail, repo, queue, delivery, archive, budget
<1>7. CASE WriteIntent
  BY <1>7 DEF WriteIntent, repo, queue, delivery, archive, budget
<1>8. CASE Commit
  BY <1>8 DEF Commit, Fail, repo, queue, delivery, archive, budget
<1>9. CASE RecordCommit
  BY <1>9 DEF RecordCommit, Fail, HeadIsIntended, repo, queue, delivery, archive, budget
<1>10. CASE SaveCommitted
  BY <1>10 DEF SaveCommitted, repo, queue, delivery, archive, budget
<1>11. CASE MarkIntentFailed
  BY <1>11 DEF MarkIntentFailed, repo, queue, archive, budget
<1>12. CASE SettleFailed
  BY <1>12 DEF SettleFailed, repo, delivery, archive, budget
<1>13. CASE Promote
  BY <1>13 DEF Promote, repo, delivery, archive, budget
<1>14. CASE StartArchive
  BY <1>14 DEF StartArchive, Archiving, repo, queue, delivery, archive, budget
<1>15. CASE BuildOutbox
  BY <1>15 DEF BuildOutbox, repo, queue, delivery, budget
<1>16. CASE CallTool
  BY <1>16 DEF CallTool, repo, queue, delivery, budget
<1>17. CASE MarkItem
  BY <1>17 DEF MarkItem, repo, queue, delivery, budget
<1>18. CASE CloseOutbox
  BY <1>18 DEF CloseOutbox, repo, queue, delivery, budget
<1>19. CASE SaveArchived
  BY <1>19 DEF SaveArchived, AfterArchive, repo, queue, delivery, archive, budget
<1>20. CASE Rework
  BY <1>20 DEF Rework, delivery, archive, budget
<1>21. CASE Retry
  BY <1>21 DEF Retry, repo, queue, delivery, budget
<1>22. CASE RetryArchive
  BY <1>22 DEF RetryArchive, Archiving, repo, queue, delivery, budget
<1>23. CASE DeliveryFault
  BY <1>23 DEF DeliveryFault, Fail, repo, queue, delivery, archive
<1>24. CASE PromoteFault
  BY <1>24 DEF PromoteFault, repo, queue, delivery, archive
<1>25. CASE ArchiveFault
  BY <1>25 DEF ArchiveFault, AfterArchive, repo, queue, delivery
<1>26. CASE Crash
  BY <1>26 DEF Crash, repo, queue, delivery, archive
<1>27. CASE Meddle
  BY <1>27 DEF Meddle, queue, delivery, archive
<1>28. CASE UNCHANGED vars
  BY <1>28 DEF vars, repo, queue, delivery, archive, budget
<1>29. CASE Recheck
  BY <1>29 DEF Recheck, StartCommitting, Fail, repo, queue, delivery, archive, budget
<1>30. CASE CompareStaged
  BY <1>30 DEF CompareStaged, StagedIsApproved, Fail, repo, queue, delivery, archive, budget
<1> QED
  BY <1>1, <1>2, <1>3, <1>4, <1>5, <1>6, <1>7, <1>8, <1>9, <1>10, <1>11, <1>12, <1>13,
     <1>14, <1>15, <1>16, <1>17, <1>18, <1>19, <1>20, <1>21, <1>22, <1>23, <1>24, <1>25,
     <1>26, <1>27, <1>28, <1>29, <1>30 DEF Next, Step, DeliverySteps, Archive

(* All parts together. *)
LEMMA NextInv ==
  ASSUME TypeOK, DeliveryInv, [Next]_vars
  PROVE  DeliveryInv'
BY ClosedStays, ApprovalStays, IntentStays, RecordStays, MarksStay, OutboxStays DEF DeliveryInv

\* The inductive invariant: the approval, the intent, the record and the commit are of one
\* version from the decision to the archive, and the outbox says what the server has.
THEOREM DeliveryInvariant == Spec => [](TypeOK /\ DeliveryInv)
<1>1. TypeOK /\ DeliveryInv /\ [Next]_vars => (TypeOK /\ DeliveryInv)'
  BY NextTypes, NextInv
<1> QED
  BY InitTypes, InitInv, <1>1, PTL DEF Spec

-----------------------------------------------------------------------------
(* What it is for. *)

(* The recorded tree is the intended one: the saved diff, which a review approved, unless
   somebody staged in the gap. *)
LEMMA RecordedIsIntended ==
  ASSUME TypeOK, DeliveryInv, recorded # {}
  PROVE  /\ recorded = {intent.tree} /\ captured \in ApprovedVersions
         /\ slipped \/ intent.tree = captured
<1>1. recorded = {intent.tree} /\ intent.version = captured /\ intent.review \in DOMAIN reviews
      /\ (slipped \/ intent.tree = captured)
  BY DEF DeliveryInv, RecordIsKept, IntentIsApproved
<1>2. reviews[intent.review] = [decision |-> "approved", version |-> captured]
  BY <1>1 DEF DeliveryInv, RecordIsKept, IntentIsApproved
<1>3. reviews[intent.review].decision = "approved" /\ reviews[intent.review].version = captured
  BY <1>2
<1> QED
  BY <1>1, <1>3 DEF ApprovedVersions

\* What commit.json records is on the branch, and a completed child has been promoted with it;
\* it is what a review approved, unless somebody staged between the comparison of the index and
\* git write-tree.
THEOREM DeliveryIsReviewed == Spec => [](RecordedCommitIsReviewed /\ CompletedIsPromoted)
<1>1. ASSUME TypeOK, DeliveryInv PROVE RecordedCommitIsReviewed
  BY <1>1 DEF DeliveryInv, RecordedCommitIsReviewed, RecordIsKept, IntentIsApproved
<1>2. ASSUME TypeOK, DeliveryInv PROVE CompletedIsPromoted
  BY <1>2, RecordedIsIntended DEF DeliveryInv, CompletedIsPromoted, RecordIsKept
<1> QED
  BY <1>1, <1>2, DeliveryInvariant, PTL

\* The delivery status in state.json claims a delivery only where there is one, of approved work
\* unless somebody staged in the gap.
THEOREM DeliveryStatusIsHonest == Spec => []StatusIsHonest
<1>1. ASSUME TypeOK, DeliveryInv PROVE StatusIsHonest
  BY <1>1, RecordedIsIntended DEF DeliveryInv, StatusIsHonest, RecordIsKept
<1> QED
  BY <1>1, DeliveryInvariant, PTL

\* An archive that is called complete is on the knowledge server, and only a crash or a failure
\* makes an item arrive there twice.
THEOREM ArchiveIsTrue == Spec => [](ArchivedIsWritten /\ ResentOnlyAfterFailure)
<1>1. ASSUME TypeOK, DeliveryInv PROVE ArchivedIsWritten
  <2> SUFFICES ASSUME run.delivery = "archived" \/ outbox.status = "completed"
               PROVE  outbox.size > 0 /\ \A i \in 1 .. outbox.size : written[i] > 0
    BY DEF ArchivedIsWritten
  <2>1. outbox.size > 0 /\ outbox.done = outbox.size
    BY <1>1 DEF DeliveryInv, OutboxIsTrue
  <2>2. outbox.size \in 0 .. MaxItems
    BY <1>1 DEF TypeOK, Types, Outbox
  <2>3. \A i \in 1 .. outbox.size : i \in 1 .. MaxItems /\ i <= outbox.done
    BY <2>1, <2>2, BoundAssumption
  <2> QED
    BY <1>1, <2>1, <2>3 DEF DeliveryInv, MarksAreTrue
<1>2. ASSUME TypeOK, DeliveryInv PROVE ResentOnlyAfterFailure
  BY <1>2 DEF TypeOK, Types, DeliveryInv, MarksAreTrue, ResentOnlyAfterFailure
<1> QED
  BY <1>1, <1>2, DeliveryInvariant, PTL

-----------------------------------------------------------------------------
(* The refinement of ReviewedDelivery. *)

Outcome == IF child \in {"completed", "rejected"} THEN child ELSE "open"

Abstract == <<ApprovedVersions, recorded, slipped, Outcome>>

(* The promise starts with nothing approved and nothing delivered. *)
LEMMA PromiseInit == Init => Promise!Init
BY DEF Init, Promise!Init, ApprovedVersions

(* As long as a caller works on it, a child is open. *)
LEMMA OpenWhileAtWork ==
  ASSUME TypeOK, DeliveryInv, pc # "idle", ~(archiveOnly /\ pc \in AtArchive)
  PROVE  child \notin {"completed", "rejected"}
BY DEF DeliveryInv, ClosedIsLeft

(* A decision is an approval, or nothing the promise knows of. *)
LEMMA DecideIsApprove ==
  ASSUME TypeOK, DeliveryInv, NEW d \in Decisions, Decide(d)
  PROVE  (\E v \in Versions : Promise!Approve(v)) \/ UNCHANGED Abstract
<1> DEFINE r == [decision |-> d, version |-> captured]
<1>1. r \in Review /\ captured \in Versions /\ reviews \in Seq(Review)
  BY DEF Review, TypeOK, Types
<1>2. reviews' = Append(reviews, r) /\ r.decision = d /\ r.version = captured
  BY DEF Decide
<1>3. UNCHANGED <<recorded, slipped, child>>
  BY DEF Decide, repo, delivery, queue
<1>4. child = "waiting_review"
  BY DEF Decide, MayDecide, DeliveryInv, ClosedIsLeft
<1>5. /\ DOMAIN reviews' = DOMAIN reviews \union {Len(reviews) + 1}
      /\ \A i \in DOMAIN reviews : reviews'[i] = reviews[i]
      /\ reviews'[Len(reviews) + 1] = r
  BY <1>1, <1>2
<1>6. CASE d = "approved"
  <2>1. ApprovedVersions' = ApprovedVersions \union {captured}
    BY <1>1, <1>2, <1>5, <1>6 DEF ApprovedVersions
  <2>2. Promise!Approve(captured)
    BY <1>3, <1>4, <2>1 DEF Promise!Approve
  <2> QED
    BY <1>1, <2>2
<1>7. CASE d # "approved"
  <2>1. ApprovedVersions' = ApprovedVersions
    BY <1>1, <1>2, <1>5, <1>7 DEF ApprovedVersions
  <2> QED
    BY <1>3, <2>1 DEF Abstract, Outcome
<1> QED
  BY <1>6, <1>7

(* The record in commit.json is the delivery, once. *)
LEMMA RecordIsDeliver ==
  ASSUME TypeOK, DeliveryInv, RecordCommit
  PROVE  (\E v \in Versions : Promise!Deliver(v)) \/ UNCHANGED Abstract
<1>1. UNCHANGED <<child, reviews, slipped>> /\ pc = "verify"
  BY DEF RecordCommit, Fail, repo, queue
<1>2. ApprovedVersions' = ApprovedVersions
  BY <1>1 DEF ApprovedVersions
<1>3. child \notin {"completed", "rejected"}
  BY <1>1, OpenWhileAtWork DEF AtArchive
<1>4. /\ intent.tree \in Versions /\ intent.version = captured /\ intent.review \in DOMAIN reviews
      /\ reviews[intent.review] = [decision |-> "approved", version |-> captured]
      /\ slipped \/ intent.tree = captured
  BY <1>1 DEF TypeOK, Types, Intent, DeliveryInv, IntentIsApproved
<1>5. reviews[intent.review].decision = "approved" /\ reviews[intent.review].version = captured
  BY <1>4
<1>6. slipped \/ intent.tree \in ApprovedVersions
  BY <1>4, <1>5 DEF ApprovedVersions
<1>7. recorded' \in {recorded, recorded \union {intent.tree}}
  BY <1>4 DEF RecordCommit, Fail, delivery
<1>8. recorded \in {{}, {intent.tree}}
  BY DEF DeliveryInv, RecordIsKept
<1>9. CASE recorded' = recorded
  BY <1>1, <1>2, <1>9 DEF Abstract, Outcome
<1>10. CASE recorded' # recorded
  <2>1. recorded = {} /\ recorded' = {intent.tree}
    BY <1>7, <1>8, <1>10
  <2>2. Promise!Deliver(intent.tree)
    BY <1>1, <1>2, <1>3, <1>6, <2>1 DEF Promise!Deliver
  <2> QED
    BY <1>4, <2>2
<1> QED
  BY <1>9, <1>10

(* A staging in the gap is what the promise calls tampering. *)
LEMMA MeddleIsTamper ==
  ASSUME TypeOK, DeliveryInv, Meddle
  PROVE  Promise!Tamper \/ UNCHANGED Abstract
<1>1. UNCHANGED <<child, recorded, reviews, pc>>
  BY DEF Meddle, queue, delivery
<1>2. ApprovedVersions' = ApprovedVersions
  BY <1>1 DEF ApprovedVersions
<1>3. CASE slipped' = slipped
  BY <1>1, <1>2, <1>3 DEF Abstract, Outcome
<1>4. CASE slipped' # slipped
  <2>1. slipped' = TRUE /\ slipped = FALSE /\ pc = "intent"
    BY <1>4 DEF Meddle, TypeOK, Types
  <2>2. child \notin {"completed", "rejected"}
    BY <2>1, OpenWhileAtWork DEF AtArchive
  <2> QED
    BY <1>1, <1>2, <2>1, <2>2 DEF Promise!Tamper
<1> QED
  BY <1>3, <1>4

(* The queue closes the child, or leaves it open. *)
LEMMA SettleIsClose ==
  ASSUME TypeOK, DeliveryInv, Settle
  PROVE  Promise!Complete \/ Promise!Reject \/ UNCHANGED Abstract
<1>1. UNCHANGED <<recorded, reviews, slipped>> /\ pc = "settle"
  BY DEF Settle, repo, delivery
<1>2. ApprovedVersions' = ApprovedVersions
  BY <1>1 DEF ApprovedVersions
<1>3. child \notin {"completed", "rejected"}
  BY <1>1, OpenWhileAtWork DEF AtArchive
<1>4. \/ LatestReview.decision = "approved" /\ child' = "completed"
      \/ child' = "running" \/ child' = "rejected"
  BY <1>1, LatestIsReview DEF Settle, Decisions, TypeOK
<1>5. LatestReview.decision = "approved" => recorded # {}
  BY <1>1 DEF DeliveryInv, ApprovalIsCurrent
<1> QED
  BY <1>1, <1>2, <1>3, <1>4, <1>5 DEF Promise!Complete, Promise!Reject, Abstract, Outcome

(* The other steps are not of the promise's concern. *)
LEMMA OthersStutter ==
  ASSUME TypeOK, DeliveryInv, [Next]_vars, \A d \in Decisions : ~Decide(d), ~RecordCommit, ~Settle, ~Meddle
  PROVE  UNCHANGED Abstract
<1>1. CASE SaveDecision \/ Reopen \/ Deliver \/ Recheck \/ CompareStaged \/ Stage \/ WriteIntent \/ Commit \/
            SaveCommitted \/ MarkIntentFailed \/ Promote \/ StartArchive \/ BuildOutbox \/
            CallTool \/ MarkItem \/ CloseOutbox \/ SaveArchived \/ Retry \/ RetryArchive \/
            DeliveryFault \/ PromoteFault \/ ArchiveFault \/ Crash \/ UNCHANGED
            vars
  <2>1. UNCHANGED <<child, recorded, reviews, slipped>>
    BY <1>1 DEF SaveDecision, Reopen, Deliver, DeliverAgain, Recheck, CompareStaged, Recover, DeliverFresh,
       StartCommitting, Stage, Fail, WriteIntent, Commit, SaveCommitted, MarkIntentFailed,
       Promote, StartArchive, BuildOutbox, CallTool, MarkItem, CloseOutbox, SaveArchived,
       Retry, RetryArchive, DeliveryFault, PromoteFault, ArchiveFault, Crash, Meddle, vars,
       repo, queue, delivery, archive, budget
  <2> QED
    BY <2>1 DEF Abstract, Outcome, ApprovedVersions
<1>2. CASE SettleFailed
  <2>1. child' = "infrastructure_error" /\ pc = "settle_failed"
        /\ UNCHANGED <<recorded, reviews, slipped>>
    BY <1>2 DEF SettleFailed, repo, delivery
  <2>2. child \notin {"completed", "rejected"}
    BY <2>1, OpenWhileAtWork DEF AtArchive
  <2> QED
    BY <2>1, <2>2 DEF Abstract, Outcome, ApprovedVersions
<1>3. CASE Rework
  <2>1. child = "running" /\ child' \in {"waiting_review", "infrastructure_error"}
    BY <1>3 DEF Rework
  <2>2. UNCHANGED <<recorded, reviews, slipped>>
    BY <1>3 DEF Rework, delivery
  <2> QED
    BY <2>1, <2>2 DEF Abstract, Outcome, ApprovedVersions
<1> QED
  BY <1>1, <1>2, <1>3 DEF Next, Step, DeliverySteps, Archive

\* Review, delivery and queue do what ReviewedDelivery promises: only approved versions are
\* delivered unless the index was tampered with in the gap, one at most, and a child is completed only after its delivery.
THEOREM DeliveryRefines == Spec => KeepsPromise
<1>1. ASSUME TypeOK, DeliveryInv, [Next]_vars
      PROVE  [Promise!Next]_(Promise!vars)
  <2>1. CASE \E d \in Decisions : Decide(d)
    BY <1>1, <2>1, DecideIsApprove DEF Promise!Next, Promise!vars, Abstract, Outcome
  <2>2. CASE RecordCommit
    BY <1>1, <2>2, RecordIsDeliver DEF Promise!Next, Promise!vars, Abstract, Outcome
  <2>3. CASE Settle
    BY <1>1, <2>3, SettleIsClose DEF Promise!Next, Promise!vars, Abstract, Outcome
  <2>4. CASE Meddle
    BY <1>1, <2>4, MeddleIsTamper DEF Promise!Next, Promise!vars, Abstract, Outcome
  <2>5. CASE (\A d \in Decisions : ~Decide(d)) /\ ~RecordCommit /\ ~Settle /\ ~Meddle
    BY <1>1, <2>5, OthersStutter DEF Promise!vars, Abstract, Outcome
  <2> QED
    BY <2>1, <2>2, <2>3, <2>4, <2>5
<1> QED
  BY PromiseInit, DeliveryInvariant, <1>1, PTL DEF Spec, KeepsPromise, Promise!Spec
=============================================================================
