------------------------------ MODULE Timeline ------------------------------
(***************************************************************************)
(* The audit trail of one run: its events.jsonl, everyone who appends to   *)
(* it, and the stream that shows it.                                       *)
(*                                                                         *)
(* An AuditRecorder counts the lines once, when it is made, and numbers    *)
(* from its own counter after that; StateStore.append_event counts the     *)
(* lines each time.  Neither takes a lock.  The writers are the run's      *)
(* worker, the service on a run nobody executes, a review, a delivery, and *)
(* the archiver's threads, which work outside the execution lock.  A step  *)
(* is one append, or one save of the run's state.                          *)
(*                                                                         *)
(* An event carries its number, its type and the item of the Codex turn it *)
(* is about (0: none).  An item is what the recorder's classification      *)
(* tells apart; path parsing and the names of forbidden commands are       *)
(* abstracted to "banned".                                                 *)
(***************************************************************************)
EXTENDS Integers, FiniteSets, Sequences, FiniteSetsExt

CONSTANTS
  Web,         \* threads that archive
  Outbox,      \* tool calls of an archive
  Lookups,     \* tool calls of a retrieval that succeed, at most
  Watched,     \* somebody has the stream open
  Limit,       \* events in a page of the stream
  Calls,       \* what Codex may complete: the type, and what the recorder makes of it
  MaxItems,    \* items Codex completes
  MaxControls, \* pauses and cancellations
  MaxArchives, \* archive attempts
  MaxCrashes

ASSUME ConstantAssumption ==
  /\ Calls \subseteq [type : {"command", "file"}, banned : BOOLEAN, refused : BOOLEAN, ok : BOOLEAN]
  /\ Watched \in BOOLEAN /\ Limit \in Nat \ {0} /\ Lookups \in Nat \ {0}
  /\ {Outbox, MaxItems, MaxControls, MaxArchives, MaxCrashes} \subseteq Nat

\* "success" stands for manual_review too: both are reviewed, and neither is resumed.  The
\* child of a queue is tried again after an infrastructure error.
RunStatus == {"running", "paused", "cancelled", "success", "infrastructure_error"}
Terminal  == {"cancelled", "success", "infrastructure_error"}
Delivery  == {"not_ready", "commit_pending", "committed", "archive_pending", "archived", "failed"}

VARIABLES
  events,   \* events.jsonl
  status,   \* the run's saved status
  review, delivery,
  history,  \* the items of the thread, as the App Server keeps them
  worker,   \* the run's thread: where it stands, its recorder's next number, events it owes
  item,     \* the item whose events it owes
  gathered, outbox, sent, \* the archive's frozen context, its saved outbox, items completed
  arch,     \* an archiver's thread: where it stands, the two recorders it holds, the tool
            \* calls of its retrieval that are still to come
  view,     \* the stream: its cursor, the page just read, where the file ended when one was
            \* empty, and what it has shown
  dropped,  \* history: items whose recording a crash has cut short
  retried,  \* history: items recorded when a failed run was tried again
  crowded,  \* history: an archive began while another was under way
  controls, archives, crashes

run     == <<status, review, delivery>>
archive == <<gathered, outbox, sent, arch>>
noted   == <<dropped, retried, crowded>>
budget  == <<controls, archives, crashes>>
vars == <<events, run, history, worker, item, archive, view, noted, budget>>

Types == {"run.started", "codex.item.completed", "command.completed", "permission.denied",
          "file.changed", "workspace.verified", "run.resumed", "run.paused", "run.cancelled",
          "run.completed", "run.failed", "review.recorded", "commit.started",
          "commit.completed", "context.assembled", "archive.queued", "mcp.tool_completed",
          "archive.completed", "knowledge.write_failed"}

Off    == [pc |-> "off", next |-> 0, todo |-> <<>>]
Idle   == [pc |-> "off", sink |-> 0, own |-> 0, calls |-> 0]

Event(seq, type, about) == [seq |-> seq, type |-> type, item |-> about]
Has(type) == \E i \in DOMAIN events : events[i].type = type

\* What a new recorder insists on before it numbers from the end.
IsContinuous == \A i \in DOMAIN events : events[i].seq = i
NextSeq      == Len(events) + 1

\* An append by somebody who counts the lines first.
AppendCounted(type) == events' = Append(events, Event(NextSeq, type, 0))

Init ==
  /\ events = <<Event(1, "run.started", 0)>>
  /\ status = "running" /\ review = "pending" /\ delivery = "not_ready"
  /\ history = <<>> /\ worker = [pc |-> "turn", next |-> 2, todo |-> <<>>] /\ item = 0
  /\ gathered = FALSE /\ outbox = FALSE /\ sent = 0 /\ arch = [w \in Web |-> Idle]
  /\ view = [cursor |-> 0, page |-> "none", mark |-> 0, shown |-> {}, ended |-> FALSE]
  /\ dropped = {} /\ retried = {} /\ crowded = FALSE /\ controls = 0 /\ archives = 0 /\ crashes = 0
-----------------------------------------------------------------------------
\* A denial is recorded for a banned command or path, and for a command whose output shows
\* that the sandbox refused it; a banned one that succeeded ends the run.
Denied(i) == history[i].banned \/ history[i].refused
Breach(i) == history[i].banned /\ history[i].ok

Derived(i) ==
  LET denial == IF Denied(i) THEN <<"permission.denied">> ELSE <<>>
  IN IF history[i].type = "command" THEN <<"command.completed">> \o denial
     ELSE denial \o <<"file.changed">>

\* Mutant of Recorded: item events are looked for among the commands' events.
RecordedCommands == {e.item : e \in {events[j] : j \in {k \in DOMAIN events :
                       events[k].type = "command.completed"}}}

Recorded == {e.item : e \in {events[j] : j \in {k \in DOMAIN events :
               events[k].type = "codex.item.completed"}}}

\* The App Server completes an item of the turn.
CompleteItem(call) ==
  /\ worker.pc = "turn" /\ Len(history) < MaxItems
  /\ history' = Append(history, call)
  /\ UNCHANGED <<events, run, worker, item, archive, view, noted, budget>>

\* The next item is recorded: as its notification arrives, or from the thread's history at
\* the end of the turn or after an interruption, when its item event is not there yet.
RecordItem ==
  LET i == Min(DOMAIN history \ Recorded)
  IN /\ worker.pc = "turn" /\ worker.todo = <<>> /\ item = 0
     /\ DOMAIN history \ Recorded # {}
     /\ events' = Append(events, Event(worker.next, "codex.item.completed", i))
     /\ worker' = [worker EXCEPT !.next = @ + 1, !.todo = Derived(i)]
     /\ item' = i
     /\ UNCHANGED <<run, history, archive, view, noted, budget>>

Emit ==
  /\ worker.todo # <<>>
  /\ events' = Append(events, Event(worker.next, Head(worker.todo), item))
  /\ worker' = [worker EXCEPT !.next = @ + 1, !.todo = Tail(@)]
  /\ UNCHANGED <<run, history, item, archive, view, noted, budget>>

\* Mutant of ItemRecorded: a forbidden action that succeeded is recorded and no more.
ItemRecordedOnly ==
  /\ item # 0 /\ worker.todo = <<>> /\ item' = 0
  /\ UNCHANGED <<events, run, worker, history, archive, view, noted, budget>>

ItemRecorded ==
  /\ item # 0 /\ worker.todo = <<>>
  /\ IF Breach(item)
       THEN status' = "infrastructure_error" /\ worker' = [worker EXCEPT !.pc = "closing"]
       ELSE UNCHANGED <<status, worker>>
  /\ item' = 0
  /\ UNCHANGED <<events, review, delivery, history, archive, view, noted, budget>>

\* A turn is over and the loop decides: a verdict, or a request found at a checkpoint.  The
\* state is saved before the event that closes the run.
EndRun(s) ==
  /\ worker.pc = "turn" /\ worker.todo = <<>> /\ item = 0
  /\ DOMAIN history \subseteq Recorded
  /\ s \in {"paused", "cancelled"} => controls < MaxControls
  /\ controls' = controls + (IF s \in {"paused", "cancelled"} THEN 1 ELSE 0)
  /\ status' = s /\ worker' = [worker EXCEPT !.pc = "closing"]
  /\ UNCHANGED <<events, review, delivery, history, item, archive, view, noted,
                 archives, crashes>>

ClosingEvent ==
  CASE status = "infrastructure_error" -> "run.failed"
    [] status = "paused"    -> "run.paused"
    [] status = "cancelled" -> "run.cancelled"
    [] OTHER -> "run.completed"

CloseRun ==
  /\ worker.pc = "closing"
  /\ events' = IF Has(ClosingEvent) THEN events
               ELSE Append(events, Event(worker.next, ClosingEvent, 0))
  /\ worker' = Off
  /\ UNCHANGED <<run, history, item, archive, view, noted, budget>>

\* Workflow.resume makes a recorder; where the trail refuses it the run fails, and writing
\* its report fails the same way.
Resume ==
  /\ worker.pc = "off" /\ status \in {"running", "paused"}
  /\ IF IsContinuous
       THEN /\ worker' = [pc |-> "turn", next |-> NextSeq, todo |-> <<"workspace.verified">> \o
                           (IF status = "paused" THEN <<"run.resumed">> ELSE <<>>)]
            /\ status' = "running"
       ELSE status' = "infrastructure_error" /\ UNCHANGED worker
  /\ UNCHANGED <<events, review, delivery, history, item, archive, view, noted, budget>>

\* QueueWorkflow.resume tries a failed child again, after a look at its trail; the run then
\* goes on like one that was interrupted.
Retry ==
  /\ worker.pc = "off" /\ status = "infrastructure_error" /\ IsContinuous
  /\ status' = "running" /\ retried' = retried \union Recorded
  /\ UNCHANGED <<events, review, delivery, history, worker, item, archive, view, dropped,
                 crowded, budget>>

\* Mutant of ControlInactive: the service does not ask whether the run is being executed.
ControlAnyway(s) ==
  /\ controls < MaxControls /\ status = "running"
  /\ status' = s /\ controls' = controls + 1
  /\ AppendCounted(IF s = "paused" THEN "run.paused" ELSE "run.cancelled")
  /\ UNCHANGED <<review, delivery, history, worker, item, archive, view, noted,
                 archives, crashes>>

\* A pause or a cancellation of a run that nobody executes.
ControlInactive(s) ==
  /\ worker.pc = "off" /\ controls < MaxControls
  /\ \/ status = "running"
     \/ status = "paused" /\ s = "cancelled"
  /\ status' = s /\ controls' = controls + 1
  /\ AppendCounted(IF s = "paused" THEN "run.paused" ELSE "run.cancelled")
  /\ UNCHANGED <<review, delivery, history, worker, item, archive, view, noted,
                 archives, crashes>>

\* The server dies: the worker's debts are forgotten, and the archivers' recorders.  With
\* nobody at work there is nothing to forget.
Crash ==
  /\ crashes < MaxCrashes /\ crashes' = crashes + 1
  /\ worker.pc # "off" \/ \E w \in Web : arch[w].pc # "off"
  /\ dropped' = dropped \union ({item} \ {0}) /\ UNCHANGED <<retried, crowded>>
  /\ worker' = Off /\ item' = 0 /\ arch' = [w \in Web |-> Idle]
  /\ view' = [view EXCEPT !.page = "none"]
  /\ UNCHANGED <<events, run, history, gathered, outbox, sent, controls, archives>>
-----------------------------------------------------------------------------
\* Both hold the execution lock, and make a recorder first.
Review(decision) ==
  /\ worker.pc = "off" /\ status = "success" /\ review = "pending"
  /\ IsContinuous /\ AppendCounted("review.recorded")
  /\ review' = decision
  /\ delivery' = IF decision = "approved" THEN "commit_pending" ELSE "not_ready"
  /\ UNCHANGED <<status, history, worker, item, archive, view, noted, budget>>

Commit ==
  /\ worker.pc = "off" /\ delivery = "commit_pending" /\ IsContinuous
  /\ events' = events \o <<Event(NextSeq, "commit.started", 0),
                           Event(NextSeq + 1, "commit.completed", 0)>>
  /\ delivery' = "committed"
  /\ UNCHANGED <<status, review, history, worker, item, archive, view, noted, budget>>
-----------------------------------------------------------------------------
\* _archive_after_commit swallows what the archiver raises.
ArchiveFails(w) ==
  /\ delivery' = "failed" /\ AppendCounted("knowledge.write_failed")
  /\ arch' = [arch EXCEPT ![w] = Idle]

\* After a delivery, or a retry of one that is committed: HarnessRuntime.archive makes the
\* recorder that its tool client will append to.
BeginArchive(w) ==
  /\ arch[w].pc = "off" /\ archives < MaxArchives /\ archives' = archives + 1
  /\ delivery \in {"committed", "archive_pending", "archived", "failed"}
  /\ IF IsContinuous
       THEN /\ arch' = [arch EXCEPT ![w] = [Idle EXCEPT !.pc = "gather", !.sink = NextSeq]]
            /\ crowded' = (crowded \/ \E x \in Web : arch[x].pc # "off")
            /\ delivery' = "committed" /\ UNCHANGED events
       ELSE ArchiveFails(w) /\ UNCHANGED crowded
  /\ UNCHANGED <<status, review, history, worker, item, gathered, outbox, sent, view,
                 dropped, retried, controls, crashes>>

\* The knowledge it reads is frozen once, and that is looked at before anything is retrieved:
\* a catalogue, a search, entries and skills, each with a tool call.
Gather(w) ==
  /\ arch[w].pc = "gather"
  /\ IF gathered THEN arch' = [arch EXCEPT ![w].pc = "queue"]
     ELSE \E n \in 1 .. Lookups : arch' = [arch EXCEPT ![w].pc = "retrieve", ![w].calls = n]
  /\ UNCHANGED <<events, run, history, worker, item, gathered, outbox, sent, view, noted,
                 budget>>

\* What an archiver announces through the first of its recorders.
Announce(w, type, state) ==
  /\ events' = Append(events, Event(arch[w].sink, type, 0))
  /\ arch' = [arch EXCEPT ![w] = [state EXCEPT !.sink = @ + 1]]

\* The client announces a call that succeeds; where one for the knowledge fails, so does the
\* archive, and a skill that cannot be read is left out.
Retrieve(w) ==
  /\ arch[w].pc = "retrieve" /\ arch[w].calls > 0
  /\ \/ /\ Announce(w, "mcp.tool_completed", [arch[w] EXCEPT !.calls = @ - 1])
        /\ UNCHANGED delivery
     \/ ArchiveFails(w)
  /\ UNCHANGED <<status, review, history, worker, item, gathered, outbox, sent, view, noted,
                 budget>>

Freeze(w) ==
  /\ arch[w].pc = "retrieve" /\ arch[w].calls = 0 /\ gathered' = TRUE
  /\ arch' = [arch EXCEPT ![w].pc = "frozen"]
  /\ UNCHANGED <<events, run, history, worker, item, outbox, sent, view, noted, budget>>

AnnounceContext(w) ==
  /\ arch[w].pc = "frozen"
  /\ Announce(w, "context.assembled", [arch[w] EXCEPT !.pc = "queue"])
  /\ UNCHANGED <<run, history, worker, item, gathered, outbox, sent, view, noted, budget>>

\* ArchiveCoordinator.archive goes on with a saved outbox, and makes a recorder of its own
\* to start one.
Queue(w) ==
  /\ arch[w].pc = "queue"
  /\ \/ outbox /\ arch' = [arch EXCEPT ![w].pc = "send"] /\ UNCHANGED <<events, delivery>>
     \/ /\ ~outbox /\ IsContinuous /\ delivery' = "archive_pending"
        /\ events' = IF Has("archive.queued") THEN events
                     ELSE Append(events, Event(NextSeq, "archive.queued", 0))
        /\ arch' = [arch EXCEPT ![w].pc = "summarise", ![w].own = Len(events') + 1]
     \/ ~outbox /\ ~IsContinuous /\ ArchiveFails(w)
  /\ UNCHANGED <<status, review, history, worker, item, gathered, outbox, sent, view,
                 noted, budget>>

\* The archiver's role answers and the outbox is saved, or it does not.
Summarise(w) ==
  /\ arch[w].pc = "summarise"
  /\ \/ /\ outbox' = TRUE /\ sent' = 0 /\ arch' = [arch EXCEPT ![w].pc = "send"]
        /\ UNCHANGED <<events, delivery>>
     \/ ArchiveFails(w) /\ UNCHANGED <<outbox, sent>>
  /\ UNCHANGED <<status, review, history, worker, item, gathered, view, noted, budget>>

\* Mutant of SendItem: completed items are sent again.
SendItemAgain(w) ==
  /\ arch[w].pc = "send" /\ sent' = sent + 1
  /\ UNCHANGED <<events, run, history, worker, item, gathered, outbox, arch, view, noted,
                 budget>>

\* A call that succeeds is announced by the client, through the first recorder.
SendItem(w) ==
  /\ arch[w].pc = "send" /\ sent < Outbox /\ sent' = sent + 1
  /\ delivery' = "archive_pending"
  /\ IF arch[w].sink = 0 THEN UNCHANGED <<events, arch>>
     ELSE Announce(w, "mcp.tool_completed", arch[w])
  /\ UNCHANGED <<status, review, history, worker, item, gathered, outbox, view, noted, budget>>

SendFails(w) ==
  /\ arch[w].pc = "send" /\ sent < Outbox
  /\ \/ /\ arch[w].own # 0 /\ delivery' = "failed" /\ arch' = [arch EXCEPT ![w] = Idle]
        /\ events' = Append(events, Event(arch[w].own, "knowledge.write_failed", 0))
     \/ arch[w].own = 0 /\ arch[w].sink # 0 /\ ArchiveFails(w)
     \/ /\ arch[w].own = 0 /\ arch[w].sink = 0 /\ delivery' = "failed"
        /\ arch' = [arch EXCEPT ![w] = Idle] /\ UNCHANGED events
  /\ UNCHANGED <<status, review, history, worker, item, gathered, outbox, sent, view,
                 noted, budget>>

EndArchive(w) ==
  /\ arch[w].pc = "send" /\ sent = Outbox /\ delivery' = "archived"
  /\ events' = IF arch[w].own = 0 THEN events
               ELSE Append(events, Event(arch[w].own, "archive.completed", 0))
  /\ arch' = [arch EXCEPT ![w] = Idle]
  /\ UNCHANGED <<status, review, history, worker, item, gathered, outbox, sent, view,
                 noted, budget>>

\* A person's retry of the archive makes no recorder: its client announces nothing.
RetryArchive(w) ==
  /\ arch[w].pc = "off" /\ outbox /\ archives < MaxArchives /\ archives' = archives + 1
  /\ arch' = [arch EXCEPT ![w].pc = "send"] /\ delivery' = "archive_pending"
  /\ UNCHANGED <<events, status, review, history, worker, item, gathered, outbox, sent,
                 view, noted, controls, crashes>>
-----------------------------------------------------------------------------
\* The stream reads a page of events numbered after its cursor, then asks whether the run is
\* over; it ends on a final status and an empty page.
Page(cursor) ==
  LET fresh == {i \in DOMAIN events : events[i].seq > cursor}
  IN {i \in fresh : Cardinality({j \in fresh : j <= i}) <= Limit}

\* Mutant of ReadPage: the cursor moves to the end of the file, past a page that was cut off.
ReadPageToEnd ==
  LET page == Page(view.cursor)
  IN /\ Watched /\ ~view.ended /\ view.page = "none"
     /\ view' = [view EXCEPT !.page = IF page = {} THEN "empty" ELSE "full",
                             !.shown = @ \union page, !.cursor = events[Len(events)].seq,
                             !.mark = IF page = {} THEN Len(events) ELSE 0]
     /\ UNCHANGED <<events, run, history, worker, item, archive, noted, budget>>

ReadPage ==
  LET page == Page(view.cursor)
  IN /\ Watched /\ ~view.ended /\ view.page = "none"
     /\ view' = IF page = {} THEN [view EXCEPT !.page = "empty", !.mark = Len(events)]
                ELSE [view EXCEPT !.page = "full", !.shown = @ \union page,
                                  !.cursor = events[Max(page)].seq]
     /\ UNCHANGED <<events, run, history, worker, item, archive, noted, budget>>

\* Mutant of EndPage: a cancelled run is not counted as over.
EndPageOfRun ==
  /\ view.page # "none"
  /\ LET over == status \in Terminal \ {"cancelled"} /\ view.page = "empty"
     IN view' = [view EXCEPT !.page = "none", !.ended = over]
  /\ UNCHANGED <<events, run, history, worker, item, archive, noted, budget>>

EndPage ==
  /\ view.page # "none"
  /\ LET over == status \in Terminal /\ view.page = "empty"
     IN view' = [view EXCEPT !.page = "none", !.ended = over, !.mark = IF over THEN @ ELSE 0]
  /\ UNCHANGED <<events, run, history, worker, item, archive, noted, budget>>
-----------------------------------------------------------------------------
WorkerStep ==
  \/ RecordItem \/ Emit \/ ItemRecorded \/ CloseRun \/ Resume
  \/ \E s \in {"success", "paused", "cancelled"} : EndRun(s)

ArchiveStep(w) ==
  \/ Gather(w) \/ Retrieve(w) \/ Freeze(w) \/ AnnounceContext(w)
  \/ Queue(w) \/ Summarise(w) \/ SendItem(w) \/ SendFails(w) \/ EndArchive(w)

Next ==
  \/ WorkerStep \/ Retry \/ ReadPage \/ EndPage \/ Crash \/ Commit
  \/ \E call \in Calls : CompleteItem(call)
  \/ \E s \in {"paused", "cancelled"} : ControlInactive(s)
  \/ \E decision \in {"approved", "rejected"} : Review(decision)
  \/ \E w \in Web : ArchiveStep(w) \/ BeginArchive(w) \/ RetryArchive(w)

Spec == Init /\ [][Next]_vars

\* The executor's thread and the stream's generator go on, and a person resumes a run that
\* stopped; nobody has to review or deliver.
FairSpec == Spec /\ WF_vars(WorkerStep) /\ WF_vars(ReadPage \/ EndPage)
-----------------------------------------------------------------------------
TypeOK ==
  /\ \A i \in DOMAIN events :
       events[i] \in [seq : Nat, type : Types, item : 0 .. Len(history)]
  /\ status \in RunStatus /\ review \in {"pending", "approved", "rejected"}
  /\ delivery \in Delivery /\ history \in Seq(Calls) /\ item \in {0} \union DOMAIN history
  /\ worker.pc \in {"off", "turn", "closing"} /\ worker.next \in Nat
  /\ {gathered, outbox} \subseteq BOOLEAN /\ sent \in 0 .. Outbox
  /\ arch \in [Web -> [pc : {"off", "gather", "retrieve", "frozen", "queue", "summarise", "send"},
                       sink : Nat, own : Nat, calls : 0 .. Lookups]]
  /\ view.shown \subseteq DOMAIN events /\ view.cursor <= Len(events)
  /\ dropped \subseteq DOMAIN history /\ retried \subseteq DOMAIN history /\ crowded \in BOOLEAN

\* The recorder's rule, as it checks it on everyone else's events: the numbers of the trail
\* are 1, 2, 3 and so on.  The archiver breaks it.
TrailIsContinuous == IsContinuous

\* Only the archiver does: run, service, review and delivery never number two events alike,
\* through any pauses, crashes, retries and resumptions.  What comes before the first number
\* out of place is an archive.queued - or, where two archives of the run were under way at
\* once, any event that an archiver writes before its outbox is sent.
Archiving == {"mcp.tool_completed", "context.assembled", "archive.queued",
              "knowledge.write_failed"}

BrokenOnlyByArchive ==
  \A i \in DOMAIN events : events[i].seq # i =>
    \E j \in 1 .. i - 1 :
      events[j].type = "archive.queued" \/ (crowded /\ events[j].type \in Archiving)

\* A crash neither loses nor repeats what the trail says of an item: each has one item event,
\* and with it exactly the events derived from it, unless it is being recorded or a crash cut
\* its recording short.
Told(i, type) == {j \in DOMAIN events : events[j].item = i /\ events[j].type = type}

ItemsAreAudited ==
  \A i \in Recorded :
    /\ Cardinality(Told(i, "codex.item.completed")) = 1
    /\ i # item /\ i \notin dropped =>
         \A type \in {"command.completed", "file.changed", "permission.denied"} :
           Cardinality(Told(i, type)) =
             (IF \E k \in DOMAIN Derived(i) : Derived(i)[k] = type THEN 1 ELSE 0)

\* The attempt in which a forbidden command or a change outside the worktree succeeded is
\* never offered for review - unless the server died while recording it: the item event is
\* there, so the history is not looked at again.  A queue may try the failed run again, and
\* then what was recorded by that time is not looked at either.
BreachFailsTheRun ==
  status = "success" => \A i \in DOMAIN history : Breach(i) => i \in dropped \union retried

\* While the trail is sound the stream shows it without a gap, and one that has ended had
\* shown everything written when it last looked.
StreamHasNoGap ==
  IsContinuous => /\ view.shown = 1 .. view.cursor
                  /\ view.ended => view.shown = 1 .. view.mark

\* A reader who stays is told in the end that the run is over.
StreamEnds == (status \in Terminal) ~> view.ended
=============================================================================
