---------------------------- MODULE TimelineProofs ---------------------------
(***************************************************************************)
(* For any items, archivers, tool calls, controls, archives and crashes:   *)
(* the types of Timeline, that only the archiver breaks the numbering,     *)
(* that an item is recorded once and whole, that a forbidden action which  *)
(* succeeded keeps a run from success, and that the stream has no gap.     *)
(***************************************************************************)
EXTENDS Timeline, FiniteSetTheorems, SequenceTheorems, WellFoundedInduction, TLAPS

USE DEF noted

Entry == [seq : Nat, type : Types, item : Nat]

(* What the run's thread owes: no item event, and nothing of an archive. *)
Owes == {"command.completed", "permission.denied", "file.changed", "workspace.verified",
         "run.resumed"}

WorkerState == [pc : {"off", "turn", "closing"}, next : Nat, todo : Seq(Owes)]

Stand == {"off", "gather", "retrieve", "frozen", "queue", "summarise", "send"}

ArchState == [pc : Stand, sink : Nat, own : Nat, calls : 0 .. Lookups]

(* What the variables hold. *)
Data ==
  /\ events \in Seq(Entry) /\ history \in Seq(Calls)
  /\ status \in RunStatus /\ review \in {"pending", "approved", "rejected"} /\ delivery \in Delivery
  /\ worker \in WorkerState
  /\ item \in {0} \union DOMAIN history /\ dropped \subseteq DOMAIN history /\ crowded \in BOOLEAN
  /\ gathered \in BOOLEAN /\ outbox \in BOOLEAN /\ sent \in 0 .. Outbox
  /\ arch \in [Web -> ArchState]

(* Who may be at work: no one reviews or delivers before the run's thread   *)
(* has left it as a success, and no one archives before the delivery.       *)
Standing ==
  /\ worker.pc = "turn" => status = "running"
  /\ worker.pc # "off" => review = "pending"
  /\ worker.pc # "turn" => worker.todo = <<>> /\ item = 0
  /\ review # "pending" => status = "success"
  /\ delivery # "not_ready" => review = "approved"
  /\ gathered \/ outbox \/ (\E w \in Web : arch[w].pc # "off")
       => delivery \notin {"not_ready", "commit_pending"}

(* A number may be out of place: an archive was queued, or two were under   *)
(* way and one of them has written.                                         *)
Loose ==
  \/ Has("archive.queued")
  \/ crowded /\ \E i \in DOMAIN events : events[i].type \in Archiving

(* Whoever counts on is the only one who writes: the run's thread while it  *)
(* is there, and an archiver that is alone, until it has queued.            *)
Numbers ==
  /\ worker.pc # "off" => worker.next = NextSeq
  /\ ~ Loose => \A w \in Web : arch[w].pc # "off" => arch[w].sink = NextSeq
  /\ ~ Loose /\ ~ crowded =>
       \A v, w \in Web : arch[v].pc # "off" /\ arch[w].pc # "off" => v = w
  /\ (\E w \in Web : arch[w].pc \in {"summarise", "send"}) \/ outbox => Has("archive.queued")
  /\ BrokenOnlyByArchive

(* No counter is ahead of the file, and so no number is. *)
Bounds ==
  /\ \A i \in DOMAIN events : events[i].seq <= i
  /\ worker.next <= NextSeq
  /\ \A w \in Web : arch[w].sink <= NextSeq /\ arch[w].own <= NextSeq

Inv == Data /\ Standing /\ Numbers /\ Bounds

(* A step's new events: in number with the file, unless archiving let go of *)
(* the numbers before them; and two archivers at once are remembered.       *)
Grown ==
  /\ events' \in Seq(Entry) /\ Len(events') >= Len(events)
  /\ \A i \in DOMAIN events : events'[i] = events[i]
  /\ \A i \in DOMAIN events' \ DOMAIN events :
       events'[i].seq <= i /\ (events'[i].seq = i \/ Loose)
  /\ crowded => crowded'

(* The steps that say nothing of an item. *)
Quiet ==
  \A i \in DOMAIN events' \ DOMAIN events :
    events'[i].item = 0 /\ events'[i].type # "codex.item.completed"
-----------------------------------------------------------------------------
(* A set of numbers has a least one, and one within bounds a greatest. *)
LEMMA LeastNatural ==
  ASSUME NEW S \in SUBSET Nat, S # {}
  PROVE  Min(S) \in S /\ \A k \in S : Min(S) <= k
<1> DEFINE R == OpToRel(<, Nat)
<1>1. IsWellFoundedOn(R, Nat)
  BY NatLessThanWellFounded
<1>2. ASSUME NEW x \in Nat, NEW y \in Nat, x < y PROVE <<x, y>> \in R
  BY <1>2 DEF OpToRel
<1> HIDE DEF R
<1>3. \E m \in S : \A y \in S : ~ (<<y, m>> \in R)
  BY <1>1, WFMin, Zenon
<1>4. PICK m \in S : \A y \in S : ~ (<<y, m>> \in R)
  BY <1>3
<1>5. ASSUME NEW y \in S PROVE m <= y
  <2>1. m \in Nat /\ y \in Nat
    OBVIOUS
  <2>2. ~ (y < m)
    BY <1>2, <1>4, <2>1
  <2> QED BY <2>1, <2>2
<1> QED BY <1>5 DEF Min

LEMMA GreatestNatural ==
  ASSUME NEW n \in Nat, NEW S \in SUBSET (1 .. n), S # {}
  PROVE  Max(S) \in S /\ \A k \in S : k <= Max(S)
<1> DEFINE T == {m \in Nat : \A k \in S : k <= m}
<1>1. n \in T /\ T \in SUBSET Nat
  OBVIOUS
<1>2. Min(T) \in T /\ \A k \in T : Min(T) <= k
  <2> HIDE DEF T
  <2> QED BY <1>1, LeastNatural, Zenon
<1> DEFINE m == Min(T)
<1> HIDE DEF m
<1>3. m \in Nat /\ \A k \in S : k <= m
  BY <1>2 DEF m
<1>4. m \in S
  <2> SUFFICES ASSUME m \notin S PROVE FALSE
    OBVIOUS
  <2>1. \A k \in S : k <= m - 1 /\ m - 1 \in Nat
    BY <1>3
  <2>2. m - 1 \in T
    BY <2>1
  <2> QED BY <1>2, <1>3, <2>2 DEF m
<1> QED BY <1>3, <1>4 DEF Max

LEMMA SameGrows ==
  ASSUME Data, UNCHANGED events, crowded => crowded'
  PROVE  Grown /\ Quiet
BY DEF Data, Grown, Quiet

LEMMA AppendGrows ==
  ASSUME Data, NEW e \in Entry, events' = Append(events, e),
         e.seq <= NextSeq, e.seq = NextSeq \/ Loose, crowded => crowded'
  PROVE  /\ Grown /\ Len(events') = Len(events) + 1 /\ events'[NextSeq] = e
         /\ e.item = 0 /\ e.type # "codex.item.completed" => Quiet
<1>1. /\ events' \in Seq(Entry) /\ Len(events') = Len(events) + 1 /\ events'[Len(events) + 1] = e
      /\ \A i \in DOMAIN events : events'[i] = events[i]
      /\ \A i \in DOMAIN events' \ DOMAIN events : i = Len(events) + 1
  BY DEF Data
<1> QED BY <1>1 DEF Grown, Quiet, NextSeq

LEMMA EventTyped ==
  ASSUME NEW seq \in Nat, NEW type \in Types, NEW about \in Nat
  PROVE  /\ Event(seq, type, about) \in Entry /\ Event(seq, type, about).seq = seq
         /\ Event(seq, type, about).type = type /\ Event(seq, type, about).item = about
BY DEF Event, Entry

LEMMA EventAt ==
  ASSUME Data, NEW k \in DOMAIN events
  PROVE  /\ events[k] \in Entry /\ events[k].seq \in Nat /\ events[k].type \in Types
         /\ events[k].item \in Nat
<1>1. events[k] \in Entry
  BY DEF Data
<1> QED BY <1>1 DEF Entry

(* An append by somebody who counts, or whose count is of the file. *)
LEMMA EventGrows ==
  ASSUME Data, NEW seq \in Nat, NEW type \in Types, NEW about \in Nat,
         events' = Append(events, Event(seq, type, about)),
         seq <= NextSeq, seq = NextSeq \/ Loose, crowded => crowded'
  PROVE  /\ Grown /\ Len(events') = Len(events) + 1
         /\ events'[NextSeq] = Event(seq, type, about)
         /\ about = 0 /\ type # "codex.item.completed" => Quiet
<1> DEFINE e == Event(seq, type, about)
<1>1. e \in Entry /\ e.seq = seq /\ e.type = type /\ e.item = about
  BY EventTyped
<1> HIDE DEF e
<1>2. events' = Append(events, e) /\ e.seq <= NextSeq /\ (e.seq = NextSeq \/ Loose)
  BY <1>1 DEF e
<1>3. /\ Grown /\ Len(events') = Len(events) + 1 /\ events'[NextSeq] = e
      /\ e.item = 0 /\ e.type # "codex.item.completed" => Quiet
  BY <1>1, <1>2, AppendGrows
<1> QED BY <1>1, <1>3 DEF e

(* What the file said it still says; its numbers keep their order or an archive has broken it. *)
LEMMA GrownKeeps ==
  ASSUME Data, Grown
  PROVE  /\ NextSeq' >= NextSeq
         /\ \A type : Has(type) => Has(type)'
         /\ Loose => Loose'
         /\ BrokenOnlyByArchive => BrokenOnlyByArchive'
         /\ (\A i \in DOMAIN events : events[i].seq <= i)
              => \A i \in DOMAIN events' : events'[i].seq <= i
         /\ IsContinuous' => IsContinuous
<1>1. /\ Len(events) \in Nat /\ Len(events') \in Nat /\ Len(events') >= Len(events)
      /\ DOMAIN events = 1 .. Len(events) /\ DOMAIN events' = 1 .. Len(events')
      /\ DOMAIN events \subseteq DOMAIN events'
  BY DEF Data, Grown
<1>2. NextSeq' >= NextSeq
  BY <1>1 DEF NextSeq
<1>3. ASSUME NEW type, Has(type) PROVE Has(type)'
  BY <1>1, <1>3 DEF Has, Grown
<1>4. ASSUME BrokenOnlyByArchive PROVE BrokenOnlyByArchive'
  <2> SUFFICES ASSUME NEW i \in DOMAIN events', events'[i].seq # i
               PROVE  \E j \in 1 .. i - 1 : \/ events'[j].type = "archive.queued"
                                            \/ crowded' /\ events'[j].type \in Archiving
    BY DEF BrokenOnlyByArchive
  <2>1. CASE i \in DOMAIN events
    <3>1. PICK j \in 1 .. i - 1 :
            events[j].type = "archive.queued" \/ (crowded /\ events[j].type \in Archiving)
      BY <1>4, <2>1 DEF BrokenOnlyByArchive, Grown
    <3>2. j \in DOMAIN events
      BY <1>1, <2>1
    <3> QED BY <3>1, <3>2 DEF Grown
  <2>2. CASE i \notin DOMAIN events
    <3>1. PICK j \in DOMAIN events :
            events[j].type = "archive.queued" \/ (crowded /\ events[j].type \in Archiving)
      BY <2>2 DEF Grown, Has, Loose
    <3>2. j \in 1 .. i - 1
      BY <1>1, <2>2, <3>1
    <3> QED BY <3>1, <3>2 DEF Grown
  <2> QED BY <2>1, <2>2
<1>5. ASSUME \A i \in DOMAIN events : events[i].seq <= i
      PROVE  \A i \in DOMAIN events' : events'[i].seq <= i
  BY <1>5 DEF Grown
<1>6. ASSUME IsContinuous' PROVE IsContinuous
  BY <1>1, <1>6 DEF IsContinuous, Grown
<1>7. ASSUME Loose PROVE Loose'
  BY <1>1, <1>3, <1>7 DEF Loose, Grown
<1> QED BY <1>2, <1>3, <1>4, <1>5, <1>6, <1>7

(* Until archiving lets go of the numbers the trail is continuous. *)
LEMMA TightIsContinuous ==
  ASSUME Numbers, Data, ~ Loose
  PROVE  IsContinuous
<1> SUFFICES ASSUME NEW i \in DOMAIN events, events[i].seq # i PROVE FALSE
  BY DEF IsContinuous
<1>1. PICK j \in 1 .. i - 1 :
        events[j].type = "archive.queued" \/ (crowded /\ events[j].type \in Archiving)
  BY DEF Numbers, BrokenOnlyByArchive
<1>2. j \in DOMAIN events
  BY DEF Data
<1> QED BY <1>1, <1>2 DEF Has, Loose
-----------------------------------------------------------------------------
(* While a run is not over, nobody reviews or delivers. *)
LEMMA AloneAtWork ==
  ASSUME Inv, worker.pc # "off" \/ status # "success"
  PROVE  review = "pending" /\ delivery = "not_ready"
BY DEF Inv, Standing

(* Before the delivery, nobody archives. *)
LEMMA AloneKeeps ==
  ASSUME Inv, delivery \in {"not_ready", "commit_pending"},
         Grown, UNCHANGED archive,
         worker'.next <= NextSeq', worker'.pc # "off" => worker'.next = NextSeq'
  PROVE  Numbers' /\ Bounds'
<1>1. ~outbox /\ \A w \in Web : arch[w].pc = "off"
  BY DEF Inv, Standing
<1>2. /\ NextSeq' >= NextSeq /\ BrokenOnlyByArchive'
      /\ \A i \in DOMAIN events' : events'[i].seq <= i
  BY GrownKeeps DEF Inv, Numbers, Bounds
<1>4. Numbers'
  BY <1>1, <1>2 DEF Numbers, archive
<1>5. Bounds'
  <2>1. NextSeq \in Nat /\ NextSeq' \in Nat
    BY DEF Inv, Data, Grown, NextSeq
  <2>2. \A w \in Web : arch'[w].sink <= NextSeq' /\ arch'[w].own <= NextSeq'
    <3> TAKE w \in Web
    <3>1. arch[w].sink \in Nat /\ arch[w].own \in Nat /\ arch' = arch
      BY DEF Inv, Data, archive, ArchState
    <3> QED BY <1>2, <2>1, <3>1 DEF Inv, Bounds
  <2> QED BY <1>2, <2>2 DEF Bounds
<1> QED BY <1>4, <1>5

(* An event by the run's thread has the next number. *)
LEMMA WorkerAppends ==
  ASSUME Inv, worker.pc # "off", NEW type \in Types, NEW about \in Nat,
         events' = Append(events, Event(worker.next, type, about)), crowded' = crowded
  PROVE  /\ Grown /\ worker.next = NextSeq /\ NextSeq \in Nat /\ NextSeq' = NextSeq + 1
         /\ about = 0 /\ type # "codex.item.completed" => Quiet
<1>1. worker.next = NextSeq /\ NextSeq \in Nat
  BY DEF Inv, Numbers, NextSeq, Data
<1>2. Data /\ type \in Types /\ worker.next \in Nat /\ worker.next <= NextSeq
  BY <1>1 DEF Inv
<1>3. /\ Grown /\ Len(events') = Len(events) + 1
      /\ events'[NextSeq] = Event(worker.next, type, about)
      /\ about = 0 /\ type # "codex.item.completed" => Quiet
  BY <1>1, <1>2, EventGrows
<1>4. NextSeq' = NextSeq + 1
  BY <1>3 DEF NextSeq, Inv, Data
<1> QED BY <1>1, <1>3, <1>4

(* The thread goes on to the next number, and owes something else. *)
LEMMA NextInTurn ==
  ASSUME worker \in WorkerState, worker.pc = "turn", NEW todo \in Seq(Owes),
         worker' = [worker EXCEPT !.next = @ + 1, !.todo = todo]
  PROVE  worker' \in WorkerState /\ worker'.pc = "turn" /\ worker'.next = worker.next + 1
<1>1. worker.next + 1 \in Nat
  BY DEF WorkerState
<1>2. worker' = [pc |-> "turn", next |-> worker.next + 1, todo |-> todo]
  BY DEF WorkerState
<1> QED BY <1>1, <1>2 DEF WorkerState

(* Recording an item: its event, what it owes, and the end of the run if it was a breach. *)
LEMMA RecordItemKeeps ==
  ASSUME Inv, RecordItem
  PROVE  Inv' /\ Grown
<1> DEFINE i == Min(DOMAIN history \ Recorded)
<1>1. /\ worker.pc = "turn" /\ item = 0 /\ worker.todo = <<>>
      /\ events' = Append(events, Event(worker.next, "codex.item.completed", i))
      /\ worker' = [worker EXCEPT !.next = @ + 1, !.todo = Derived(i)] /\ item' = i
      /\ UNCHANGED <<run, history, archive, noted>>
  BY DEF RecordItem
<1>2. i \in DOMAIN history
  <2>1. DOMAIN history \ Recorded # {} /\ DOMAIN history \ Recorded \in SUBSET Nat
    BY DEF RecordItem, Inv, Data
  <2> QED BY <2>1, LeastNatural
<1> HIDE DEF i
<1>3. i \in Nat
  BY <1>2 DEF Inv, Data
<1>4. Derived(i) \in Seq(Owes)
  BY DEF Derived, Owes
<1>5. /\ Grown /\ worker.next = NextSeq /\ NextSeq \in Nat /\ NextSeq' = NextSeq + 1
  BY <1>1, <1>3, WorkerAppends DEF Types
<1>6. /\ worker' \in WorkerState
      /\ worker'.pc = "turn" /\ worker'.next = NextSeq'
  BY <1>1, <1>4, <1>5, NextInTurn DEF Inv, Data
<1>7. Data' /\ Standing'
  BY <1>1, <1>2, <1>5, <1>6 DEF Inv, Data, Standing, run, archive, Grown
<1>8. Numbers' /\ Bounds'
  BY <1>1, <1>5, <1>6, AloneKeeps, AloneAtWork
<1> QED BY <1>5, <1>7, <1>8 DEF Inv

LEMMA EmitKeeps ==
  ASSUME Inv, Emit
  PROVE  Inv' /\ Grown
<1>1. /\ worker.todo # <<>> /\ worker.pc = "turn"
      /\ events' = Append(events, Event(worker.next, Head(worker.todo), item))
      /\ worker' = [worker EXCEPT !.next = @ + 1, !.todo = Tail(@)]
      /\ UNCHANGED <<run, history, item, archive, noted>>
  BY DEF Emit, Inv, Standing, Data
<1>2. /\ Head(worker.todo) \in Owes /\ Tail(worker.todo) \in Seq(Owes) /\ item \in Nat
  BY <1>1 DEF Inv, Data, WorkerState
<1>3. /\ Grown /\ worker.next = NextSeq /\ NextSeq \in Nat /\ NextSeq' = NextSeq + 1
  <2>1. Head(worker.todo) \in Types
    BY <1>2 DEF Owes, Types
  <2> QED BY <1>1, <1>2, <2>1, WorkerAppends
<1>4. /\ worker' \in WorkerState
      /\ worker'.pc = "turn" /\ worker'.next = NextSeq'
  BY <1>1, <1>2, <1>3, NextInTurn DEF Inv, Data
<1>5. Data' /\ Standing'
  BY <1>1, <1>3, <1>4 DEF Inv, Data, Standing, run, archive, Grown
<1>6. Numbers' /\ Bounds'
  BY <1>1, <1>3, <1>4, AloneKeeps, AloneAtWork
<1> QED BY <1>3, <1>5, <1>6 DEF Inv

(* Steps of the run's thread that write nothing. *)
LEMMA SilentKeeps ==
  ASSUME Inv,
         \/ ItemRecorded \/ \E call \in Calls : CompleteItem(call)
         \/ \E s \in {"success", "paused", "cancelled"} : EndRun(s)
  PROVE  Inv' /\ Grown /\ Quiet
<1>1. Grown /\ Quiet /\ UNCHANGED <<events, archive, review, delivery>> /\ NextSeq' = NextSeq
  BY SameGrows DEF ItemRecorded, CompleteItem, EndRun, run, Inv, NextSeq
<1>2. /\ worker.pc = "turn" /\ worker'.pc \in {"turn", "closing"} /\ worker'.next = worker.next
      /\ worker' \in WorkerState
      /\ worker'.todo = worker.todo
  BY DEF ItemRecorded, CompleteItem, EndRun, Inv, Data, Standing, WorkerState
<1>3. Data'
  <2>1. CASE ItemRecorded
    BY <1>1, <1>2, <2>1 DEF ItemRecorded, Inv, Data, RunStatus, archive
  <2>2. ASSUME NEW call \in Calls, CompleteItem(call) PROVE Data'
    <3>1. history' \in Seq(Calls) /\ DOMAIN history \subseteq DOMAIN history'
      BY <2>2 DEF CompleteItem, Inv, Data
    <3> QED BY <1>1, <1>2, <2>2, <3>1 DEF CompleteItem, Inv, Data, run, archive
  <2>3. ASSUME NEW s \in {"success", "paused", "cancelled"}, EndRun(s) PROVE Data'
    BY <1>1, <1>2, <2>3 DEF EndRun, Inv, Data, RunStatus, archive
  <2> QED BY <2>1, <2>2, <2>3
<1>4. Standing'
  BY <1>1, <1>2 DEF ItemRecorded, CompleteItem, EndRun, Inv, Data, WorkerState, Standing, run, archive
<1>5. Numbers' /\ Bounds'
  <2>1. worker'.next <= NextSeq' /\ worker'.next = NextSeq'
    BY <1>1, <1>2 DEF Inv, Numbers, Bounds
  <2> QED BY <1>1, <1>2, <2>1, AloneKeeps, AloneAtWork
<1> QED BY <1>1, <1>3, <1>4, <1>5 DEF Inv

(* The thread leaves with an event, unless the trail has one. *)
LEMMA CloseRunKeeps ==
  ASSUME Inv, CloseRun
  PROVE  Inv' /\ Grown /\ Quiet
<1>1. /\ worker.pc = "closing" /\ worker' = Off /\ UNCHANGED <<run, history, item, archive, noted>>
      /\ ClosingEvent \in Types \ {"codex.item.completed"}
  BY DEF CloseRun, ClosingEvent, Types
<1>2. /\ Grown /\ Quiet
  <2>1. CASE UNCHANGED events
    BY <1>1, <2>1, SameGrows DEF Inv
  <2>2. CASE events' = Append(events, Event(worker.next, ClosingEvent, 0))
    BY <1>1, <2>2, WorkerAppends
  <2> QED BY <2>1, <2>2 DEF CloseRun
<1>3. /\ worker' \in WorkerState /\ worker'.pc = "off" /\ worker'.todo = <<>>
      /\ worker'.next = 0 /\ 0 <= NextSeq'
  BY <1>1, <1>2 DEF Off, WorkerState, Grown, NextSeq
<1>4. Data'
  BY <1>1, <1>2, <1>3 DEF Inv, Data, run, archive, Grown
<1>5. Standing'
  BY <1>1, <1>3 DEF Inv, Standing, run, archive
<1>6. Numbers' /\ Bounds'
  BY <1>1, <1>2, <1>3, AloneKeeps, AloneAtWork
<1> QED BY <1>2, <1>4, <1>5, <1>6 DEF Inv

(* Whoever resumes a run starts where its trail ends. *)
LEMMA ResumeKeeps ==
  ASSUME Inv, Resume
  PROVE  Inv' /\ Grown /\ Quiet
<1>1. /\ worker.pc = "off" /\ status \in {"running", "paused"}
      /\ UNCHANGED <<events, review, delivery, history, item, archive, noted>>
  BY DEF Resume
<1>2. Grown /\ Quiet /\ NextSeq' = NextSeq /\ NextSeq \in Nat
  BY <1>1, SameGrows DEF Inv, Data, NextSeq
<1>3. /\ worker' \in WorkerState /\ worker'.next <= NextSeq'
      /\ worker'.pc # "off" => worker'.pc = "turn" /\ worker'.next = NextSeq' /\ status' = "running"
      /\ worker'.pc = "off" => worker'.todo = <<>>
      /\ status' \in RunStatus
  <2>1. CASE UNCHANGED worker /\ status' = "infrastructure_error"
    BY <1>1, <1>2, <2>1 DEF Inv, Data, Bounds, Standing, RunStatus
  <2> DEFINE todo == <<"workspace.verified">> \o
                       (IF status = "paused" THEN <<"run.resumed">> ELSE <<>>)
  <2>2. CASE status' = "running" /\ worker' = [pc |-> "turn", next |-> NextSeq, todo |-> todo]
    <3>1. todo \in Seq(Owes)
      <4>1. <<"workspace.verified">> \in Seq(Owes) /\ <<"run.resumed">> \in Seq(Owes)
            /\ <<>> \in Seq(Owes)
        BY DEF Owes
      <4> QED BY <4>1
    <3> HIDE DEF todo
    <3> QED BY <1>2, <2>2, <3>1 DEF WorkerState, RunStatus
  <2> QED BY <2>1, <2>2 DEF Resume
<1>4. Data'
  BY <1>1, <1>2, <1>3 DEF Inv, Data, archive, Grown
<1>5. Standing'
  BY <1>1, <1>3, AloneAtWork DEF Inv, Standing, archive
<1>6. Numbers' /\ Bounds'
  BY <1>1, <1>2, <1>3, AloneKeeps, AloneAtWork
<1> QED BY <1>2, <1>4, <1>5, <1>6 DEF Inv

(* A failed run that is tried again waits for its thread. *)
LEMMA RetryKeeps ==
  ASSUME Inv, Retry
  PROVE  Inv' /\ Grown /\ Quiet
<1>1. /\ worker.pc = "off" /\ status = "infrastructure_error" /\ status' = "running"
      /\ UNCHANGED <<events, review, delivery, history, worker, item, archive, dropped, crowded>>
  BY DEF Retry
<1>2. Grown /\ Quiet /\ NextSeq' = NextSeq
  BY <1>1, SameGrows DEF Inv, NextSeq
<1>3. Data'
  BY <1>1 DEF Inv, Data, archive, RunStatus
<1>4. Standing'
  BY <1>1, AloneAtWork DEF Inv, Standing, archive
<1>5. Numbers' /\ Bounds'
  <2>1. worker'.next <= NextSeq' /\ worker'.pc = "off"
    BY <1>1, <1>2 DEF Inv, Bounds
  <2> QED BY <1>1, <1>2, <2>1, AloneKeeps, AloneAtWork
<1> QED BY <1>2, <1>3, <1>4, <1>5 DEF Inv

(* An event by somebody who counts the lines. *)
LEMMA CountedAppends ==
  ASSUME Inv, NEW type \in Types \ {"codex.item.completed"}, AppendCounted(type), crowded' = crowded
  PROVE  /\ Grown /\ Quiet /\ NextSeq' = NextSeq + 1 /\ NextSeq \in Nat
         /\ \A k \in DOMAIN events' \ DOMAIN events : events'[k].type = type
<1>1. Data /\ NextSeq \in Nat /\ NextSeq <= NextSeq
  BY DEF Inv, Data, NextSeq
<1>2. /\ Grown /\ Len(events') = Len(events) + 1 /\ events'[NextSeq] = Event(NextSeq, type, 0)
      /\ Quiet
  BY <1>1, EventGrows DEF AppendCounted
<1>3. NextSeq' = NextSeq + 1
  BY <1>2 DEF NextSeq, Inv, Data
<1>4. \A k \in DOMAIN events' \ DOMAIN events : k = NextSeq
  BY <1>2 DEF Grown, Inv, Data, NextSeq
<1> QED BY <1>1, <1>2, <1>3, <1>4, EventTyped

(* A pause or cancellation of a run nobody executes, and a review. *)
LEMMA PersonKeeps ==
  ASSUME Inv,
         \/ \E s \in {"paused", "cancelled"} : ControlInactive(s)
         \/ \E decision \in {"approved", "rejected"} : Review(decision)
  PROVE  Inv' /\ Grown /\ Quiet
<1>1. /\ worker.pc = "off" /\ UNCHANGED <<history, worker, item, archive, noted>>
      /\ review = "pending" /\ delivery = "not_ready"
  BY AloneAtWork DEF ControlInactive, Review, Inv, Standing
<1>2. PICK type \in {"run.paused", "run.cancelled", "review.recorded"} : AppendCounted(type)
  BY DEF ControlInactive, Review
<1>3. /\ Grown /\ Quiet /\ NextSeq' = NextSeq + 1 /\ NextSeq \in Nat
  BY <1>1, <1>2, CountedAppends DEF Types
<1>4. worker'.next <= NextSeq' /\ worker'.pc = "off"
  BY <1>1, <1>3 DEF Inv, Data, WorkerState, Bounds
<1>5. /\ status' \in RunStatus /\ review' \in {"pending", "approved", "rejected"}
      /\ delivery' \in Delivery
      /\ review' # "pending" => status' = "success"
      /\ delivery' # "not_ready" => review' = "approved"
  BY <1>1 DEF ControlInactive, Review, RunStatus, Delivery
<1>6. Data'
  BY <1>1, <1>3, <1>5 DEF Inv, Data, archive, Grown
<1>7. Standing'
  BY <1>1, <1>5 DEF Inv, Standing, archive
<1>8. Numbers' /\ Bounds'
  BY <1>1, <1>3, <1>4, AloneKeeps
<1> QED BY <1>3, <1>6, <1>7, <1>8 DEF Inv

LEMMA CommitKeeps ==
  ASSUME Inv, Commit
  PROVE  Inv' /\ Grown /\ Quiet
<1> DEFINE first == Event(NextSeq, "commit.started", 0)
           second == Event(NextSeq + 1, "commit.completed", 0)
<1>1. /\ worker.pc = "off" /\ delivery = "commit_pending" /\ delivery' = "committed"
      /\ events' = events \o <<first, second>>
      /\ UNCHANGED <<status, review, history, worker, item, archive, noted>>
  BY DEF Commit
<1>2. NextSeq \in Nat /\ NextSeq + 1 \in Nat
  BY DEF Inv, Data, NextSeq
<1>3. /\ first \in Entry /\ first.seq = NextSeq /\ first.item = 0 /\ first.type = "commit.started"
      /\ second \in Entry /\ second.seq = NextSeq + 1 /\ second.item = 0
      /\ second.type = "commit.completed"
  BY <1>2, EventTyped DEF Types
<1> HIDE DEF first, second
<1>4. /\ events' \in Seq(Entry) /\ Len(events') = Len(events) + 2
      /\ \A i \in DOMAIN events : events'[i] = events[i]
      /\ events'[NextSeq] = first /\ events'[NextSeq + 1] = second
      /\ \A i \in DOMAIN events' \ DOMAIN events : i = NextSeq \/ i = NextSeq + 1
  BY <1>1, <1>3 DEF Inv, Data, NextSeq
<1>5. /\ Grown /\ Quiet
  <2>1. \A i \in DOMAIN events' \ DOMAIN events :
          /\ events'[i].seq = i /\ events'[i].item = 0
          /\ events'[i].type \in {"commit.started", "commit.completed"}
    BY <1>3, <1>4
  <2>2. Len(events') >= Len(events) /\ \A i \in DOMAIN events' \ DOMAIN events : i <= i
    BY <1>2, <1>4 DEF Inv, Data
  <2> QED BY <1>1, <1>4, <2>1, <2>2 DEF Grown, Quiet
<1>6. worker'.next <= NextSeq' /\ worker'.pc = "off"
  BY <1>1, <1>4 DEF Inv, Data, WorkerState, Bounds, NextSeq
<1>7. Data'
  BY <1>1, <1>4 DEF Inv, Data, archive, Delivery
<1>8. Standing'
  BY <1>1 DEF Inv, Standing, archive
<1>9. Numbers' /\ Bounds'
  BY <1>1, <1>5, <1>6, AloneKeeps
<1> QED BY <1>5, <1>7, <1>8, <1>9 DEF Inv

(* The server dies: what the file and the saved state say is left. *)
LEMMA CrashKeeps ==
  ASSUME Inv, Crash
  PROVE  Inv' /\ Grown /\ Quiet
<1>1. /\ UNCHANGED <<events, run, history, gathered, outbox, sent>> /\ worker' = Off /\ item' = 0
      /\ arch' = [w \in Web |-> Idle] /\ dropped' = dropped \union ({item} \ {0})
      /\ crowded' = crowded
  BY DEF Crash
<1>2. Grown /\ Quiet /\ NextSeq' = NextSeq /\ NextSeq \in Nat
  BY <1>1, SameGrows DEF Inv, Data, NextSeq
<1>3. /\ worker' \in WorkerState /\ worker'.pc = "off" /\ worker'.next = 0 /\ worker'.todo = <<>>
  BY <1>1 DEF Off, WorkerState
<1>4. /\ arch' \in [Web -> ArchState]
      /\ \A w \in Web : arch'[w].pc = "off" /\ arch'[w].sink = 0 /\ arch'[w].own = 0
  BY <1>1, ConstantAssumption DEF Idle, ArchState, Stand
<1>5. Data'
  BY <1>1, <1>2, <1>3, <1>4 DEF Inv, Data, run, Grown
<1>6. Standing'
  BY <1>1, <1>3, <1>4 DEF Inv, Standing, run
<1>7. Has("archive.queued")' <=> Has("archive.queued")
  BY <1>1 DEF Has
<1>8. Numbers'
  BY <1>1, <1>3, <1>4, <1>7 DEF Inv, Numbers, BrokenOnlyByArchive
<1>9. Bounds'
  BY <1>1, <1>2, <1>3, <1>4 DEF Inv, Bounds
<1> QED BY <1>2, <1>5, <1>6, <1>8, <1>9 DEF Inv
-----------------------------------------------------------------------------
(* An archiver's step, seen from outside: where it stands next, and what that takes. *)
Moves(w, a) ==
  /\ arch' = [arch EXCEPT ![w] = a] /\ a \in ArchState
  /\ a.sink <= NextSeq' /\ a.own <= NextSeq'
  /\ a.pc # "off" /\ ~ Loose' => a.sink = NextSeq'
  /\ a.pc \in {"summarise", "send"} => Has("archive.queued")'
  /\ a.pc # "off" /\ arch[w].pc = "off" /\ (\E x \in Web : arch[x].pc # "off")
       => crowded' \/ Loose'

Archives(w) ==
  /\ delivery \notin {"not_ready", "commit_pending"}
  /\ delivery' \in Delivery \ {"not_ready", "commit_pending"}
  /\ UNCHANGED <<status, review, history, worker, item, dropped>>
  /\ gathered' \in BOOLEAN /\ outbox' \in BOOLEAN /\ crowded' \in BOOLEAN
  /\ sent' \in 0 .. Outbox
  /\ outbox' => outbox \/ Has("archive.queued")'
  /\ NextSeq' = NextSeq \/ Loose' \/ (~ crowded /\ arch[w].pc # "off")

LEMMA ArchiverKeeps ==
  ASSUME Inv, NEW w \in Web, NEW a, Grown, Moves(w, a), Archives(w)
  PROVE  Inv'
<1> USE DEF Moves, Archives
<1>1. /\ NextSeq' >= NextSeq /\ BrokenOnlyByArchive'
      /\ \A i \in DOMAIN events' : events'[i].seq <= i
      /\ Has("archive.queued") => Has("archive.queued")'
      /\ Loose => Loose'
      /\ crowded => crowded'
  BY GrownKeeps DEF Inv, Numbers, Bounds, Grown
<1>2. NextSeq \in Nat /\ NextSeq' \in Nat
  BY DEF Inv, Data, Grown, NextSeq
<1>3. /\ arch \in [Web -> ArchState] /\ arch' \in [Web -> ArchState]
      /\ arch'[w] = a /\ \A x \in Web \ {w} : arch'[x] = arch[x]
  BY DEF Inv, Data
<1>4. worker.pc = "off" /\ review = "approved"
  BY DEF Inv, Standing, Data
<1>5. Data'
  BY <1>3 DEF Inv, Data, Grown
<1>6. Standing'
  BY <1>4 DEF Inv, Standing
<1>7. Numbers'
  <2>1. ASSUME ~ Loose', NEW x \in Web, arch'[x].pc # "off" PROVE arch'[x].sink = NextSeq'
    <3>1. CASE x = w
      BY <1>3, <2>1, <3>1
    <3>2. CASE x # w
      <4>1. arch'[x] = arch[x] /\ ~ Loose /\ arch[x].sink = NextSeq
        BY <1>1, <1>3, <2>1, <3>2 DEF Inv, Numbers
      <4>2. NextSeq' = NextSeq
        BY <2>1, <3>2, <4>1 DEF Inv, Numbers
      <4> QED BY <4>1, <4>2
    <3> QED BY <3>1, <3>2
  <2>2. ASSUME ~ Loose', ~ crowded', NEW x \in Web, NEW y \in Web,
               arch'[x].pc # "off", arch'[y].pc # "off"
        PROVE  x = y
    <3>1. \A u, v \in Web : arch[u].pc # "off" /\ arch[v].pc # "off" => u = v
      <4>1. ~ Loose /\ ~ crowded
        BY <1>1, <2>2
      <4> QED BY <4>1 DEF Inv, Numbers
    <3>2. \A z \in Web : z # w /\ arch'[z].pc # "off" => arch[z].pc # "off"
      BY <1>3
    <3>3. \A z \in Web : z # w /\ arch'[z].pc # "off" => arch'[w].pc = "off"
      BY <1>3, <2>2, <3>1, <3>2
    <3> QED BY <2>2, <3>1, <3>2, <3>3
  <2>3. \A x \in Web : arch'[x].pc \in {"summarise", "send"} => Has("archive.queued")'
    BY <1>1, <1>3 DEF Inv, Numbers
  <2>4. outbox' => Has("archive.queued")'
    BY <1>1 DEF Inv, Numbers
  <2> QED BY <1>1, <1>4, <2>1, <2>2, <2>3, <2>4 DEF Numbers
<1>8. Bounds'
  <2>1. worker'.next <= NextSeq'
    BY <1>1, <1>2 DEF Inv, Bounds, Data, WorkerState
  <2>2. ASSUME NEW x \in Web PROVE arch'[x].sink <= NextSeq' /\ arch'[x].own <= NextSeq'
    <3>1. arch[x].sink \in Nat /\ arch[x].own \in Nat
      BY <1>3 DEF ArchState
    <3> QED BY <1>1, <1>2, <1>3, <3>1 DEF Inv, Bounds
  <2> QED BY <1>1, <2>1, <2>2 DEF Bounds
<1> QED BY <1>5, <1>6, <1>7, <1>8 DEF Inv

(* What an archiver writes while another is about lets go of the numbers. *)
LEMMA CrowdLoosens ==
  ASSUME Data, Grown, Len(events') = Len(events) + 1, crowded' = crowded,
         events'[NextSeq].type \in Archiving
  PROVE  crowded \/ Loose => Loose'
<1>1. NextSeq \in DOMAIN events'
  BY DEF Data, Grown, NextSeq
<1>2. Loose => Loose'
  BY GrownKeeps
<1> QED BY <1>1, <1>2 DEF Loose

(* Where archivers are, the commit is delivered. *)
LEMMA ArchiverStands ==
  ASSUME Inv, NEW w \in Web
  PROVE  /\ arch[w] \in ArchState
         /\ arch[w] = [pc |-> arch[w].pc, sink |-> arch[w].sink, own |-> arch[w].own,
                       calls |-> arch[w].calls]
         /\ arch[w].sink \in Nat /\ arch[w].own \in Nat /\ arch[w].calls \in 0 .. Lookups
         /\ arch[w].sink <= NextSeq /\ arch[w].own <= NextSeq
         /\ NextSeq \in Nat
         /\ arch[w].pc # "off" => delivery \notin {"not_ready", "commit_pending"}
         /\ arch[w].pc \in {"summarise", "send"} => Has("archive.queued")
         /\ arch[w].pc # "off" => arch[w].sink = NextSeq \/ Loose
         /\ ~ Loose => IsContinuous
<1>1. arch[w] \in ArchState
  BY DEF Inv, Data
<1>2. /\ arch[w] = [pc |-> arch[w].pc, sink |-> arch[w].sink, own |-> arch[w].own,
                    calls |-> arch[w].calls]
      /\ arch[w].sink \in Nat /\ arch[w].own \in Nat /\ arch[w].calls \in 0 .. Lookups
  BY <1>1 DEF ArchState
<1>3. ~ Loose => IsContinuous
  BY TightIsContinuous DEF Inv
<1> QED BY <1>1, <1>2, <1>3 DEF Inv, Bounds, Standing, Numbers, Data, NextSeq

(* What a step makes of an archiver. *)
LEMMA NewState ==
  ASSUME Inv, NEW w \in Web, NEW p \in Stand
  PROVE  LET a == [arch[w] EXCEPT !.pc = p]
         IN  a \in ArchState /\ a.pc = p /\ a.sink = arch[w].sink /\ a.own = arch[w].own
<1>1. PICK k \in Stand, m \in Nat, o \in Nat, q \in 0 .. Lookups :
        arch[w] = [pc |-> k, sink |-> m, own |-> o, calls |-> q]
  BY DEF Inv, Data, ArchState
<1> QED BY <1>1 DEF ArchState

LEMMA NewFields ==
  ASSUME NEW b \in ArchState, NEW n \in Nat, NEW c \in 0 .. Lookups
  PROVE  LET r == [b EXCEPT !.calls = c]
             o == [b EXCEPT !.own = n]
         IN  /\ r \in ArchState /\ r.pc = b.pc /\ r.sink = b.sink /\ r.own = b.own
             /\ o \in ArchState /\ o.pc = b.pc /\ o.sink = b.sink /\ o.own = n
BY DEF ArchState

(* An archiver goes on and writes nothing. *)
LEMMA QuietMoveKeeps ==
  ASSUME Inv, NEW w \in Web, NEW a \in ArchState, arch' = [arch EXCEPT ![w] = a],
         arch[w].pc # "off" \/ Has("archive.queued"),
         a.sink = arch[w].sink, a.own = arch[w].own,
         a.pc \in {"summarise", "send"} => Has("archive.queued"),
         delivery \notin {"not_ready", "commit_pending"},
         delivery' \in {delivery, "archive_pending"},
         gathered' \in BOOLEAN, outbox' \in BOOLEAN, sent' \in 0 .. Outbox,
         outbox' => outbox \/ Has("archive.queued"),
         UNCHANGED <<events, status, review, history, worker, item, noted>>
  PROVE  Inv' /\ Grown /\ Quiet
<1>1. Grown /\ Quiet /\ NextSeq' = NextSeq /\ Loose' = Loose
      /\ Has("archive.queued")' = Has("archive.queued")
  BY SameGrows DEF Inv, NextSeq, Loose, Has
<1>2. /\ arch[w].sink <= NextSeq /\ arch[w].own <= NextSeq
      /\ arch[w].pc # "off" => arch[w].sink = NextSeq \/ Loose
      /\ Has("archive.queued") => Loose
  BY ArchiverStands DEF Loose
<1>3. Moves(w, a)
  BY <1>1, <1>2 DEF Moves
<1>4. Archives(w)
  BY <1>1 DEF Archives, Delivery, Inv, Data
<1> QED BY <1>1, <1>3, <1>4, ArchiverKeeps

(* An archiver writes through its first recorder: its number is the next, or the numbers are *)
(* let go of.                                                                                  *)
LEMMA AnnounceKeeps ==
  ASSUME Inv, NEW w \in Web, arch[w].pc # "off",
         NEW type \in {"mcp.tool_completed", "context.assembled"}, NEW state \in ArchState,
         state.sink = arch[w].sink, state.own = arch[w].own, state.pc # "off",
         state.pc \in {"summarise", "send"} => Has("archive.queued"),
         Announce(w, type, state), delivery' \in {delivery, "archive_pending"},
         sent' \in 0 .. Outbox,
         UNCHANGED <<status, review, history, worker, item, gathered, outbox, noted>>
  PROVE  Inv' /\ Grown /\ Quiet
<1> DEFINE a == [state EXCEPT !.sink = @ + 1]
<1>1. /\ arch[w].sink \in Nat /\ arch[w].sink <= NextSeq /\ NextSeq \in Nat
      /\ arch[w].own <= NextSeq /\ arch[w].own \in Nat
      /\ arch[w].sink = NextSeq \/ Loose
      /\ delivery \notin {"not_ready", "commit_pending"}
  BY ArchiverStands
<1>2. /\ arch' = [arch EXCEPT ![w] = a]
      /\ events' = Append(events, Event(arch[w].sink, type, 0))
  BY DEF Announce
<1>3. a \in ArchState /\ a.pc = state.pc /\ a.sink = arch[w].sink + 1 /\ a.own = arch[w].own
  <2>1. arch[w].sink + 1 \in Nat
    BY <1>1
  <2> QED BY <2>1 DEF ArchState
<1> HIDE DEF a
<1>4. /\ Grown /\ Quiet /\ Len(events') = Len(events) + 1
      /\ events'[NextSeq] = Event(arch[w].sink, type, 0)
  <2>1. Data /\ type \in Types /\ 0 \in Nat /\ type # "codex.item.completed"
        /\ (crowded => crowded')
    BY DEF Inv, Types
  <2> QED BY <1>1, <1>2, <2>1, EventGrows
<1>5. crowded \/ Loose => Loose'
  <2>1. events'[NextSeq].type \in Archiving
    <3>1. type \in Types /\ 0 \in Nat /\ type \in Archiving
      BY DEF Types, Archiving
    <3> QED BY <1>1, <1>4, <3>1, EventTyped
  <2> QED BY <1>4, <2>1, CrowdLoosens DEF Inv
<1>6. NextSeq' = NextSeq + 1 /\ (Has("archive.queued") => Has("archive.queued")')
  BY <1>4, GrownKeeps DEF NextSeq, Inv, Data
<1>7. a.sink <= NextSeq' /\ a.own <= NextSeq' /\ (a.sink = NextSeq' \/ Loose')
  BY <1>1, <1>3, <1>5, <1>6
<1>8. Moves(w, a)
  BY <1>2, <1>3, <1>6, <1>7 DEF Moves
<1>9. Archives(w)
  BY <1>1, <1>5 DEF Archives, Delivery, Inv, Data
<1> QED BY <1>4, <1>8, <1>9, ArchiverKeeps

(* An archive that fails says so at the end of the file, and is at rest. *)
LEMMA ArchiveFailsKeeps ==
  ASSUME Inv, NEW w \in Web, ArchiveFails(w), arch[w].pc # "off" \/ Loose,
         delivery \notin {"not_ready", "commit_pending"},
         UNCHANGED <<status, review, history, worker, item, noted, gathered, outbox, sent>>
  PROVE  Inv' /\ Grown /\ Quiet
<1>1. /\ Grown /\ Quiet /\ NextSeq' = NextSeq + 1 /\ NextSeq \in Nat
      /\ \A k \in DOMAIN events' \ DOMAIN events : events'[k].type = "knowledge.write_failed"
  BY CountedAppends DEF ArchiveFails, Types
<1>2. Idle \in ArchState /\ Idle.pc = "off" /\ Idle.sink = 0 /\ Idle.own = 0
  BY ConstantAssumption DEF Idle, ArchState, Stand
<1>3. 0 <= NextSeq'
  BY <1>1
<1>4. Moves(w, Idle)
  BY <1>2, <1>3 DEF ArchiveFails, Moves
<1>5. crowded \/ Loose => Loose'
  <2>1. Len(events') = Len(events) + 1 /\ NextSeq \in DOMAIN events' \ DOMAIN events
    BY <1>1 DEF NextSeq, Inv, Data, Grown
  <2>2. events'[NextSeq].type \in Archiving
    BY <1>1, <2>1 DEF Archiving
  <2> QED BY <1>1, <2>1, <2>2, CrowdLoosens DEF Inv
<1>6. Archives(w)
  BY <1>5 DEF ArchiveFails, Archives, Delivery, Inv, Data
<1> QED BY <1>1, <1>4, <1>6, ArchiverKeeps

(* Beginning one: the others who are at work are remembered. *)
LEMMA BeginArchiveKeeps ==
  ASSUME Inv, NEW w \in Web, BeginArchive(w)
  PROVE  Inv' /\ Grown /\ Quiet
<1>1. /\ delivery \notin {"not_ready", "commit_pending"} /\ arch[w].pc = "off"
      /\ UNCHANGED <<status, review, history, worker, item, dropped, retried, gathered, outbox, sent>>
  BY DEF BeginArchive
<1>2. CASE ~ IsContinuous
  <2>1. Loose /\ ArchiveFails(w) /\ UNCHANGED crowded
    BY <1>2, ArchiverStands DEF BeginArchive
  <2> QED BY <1>1, <2>1, ArchiveFailsKeeps
<1>3. CASE IsContinuous
  <2> DEFINE a == [pc |-> "gather", sink |-> NextSeq, own |-> 0, calls |-> 0]
  <2>1. /\ arch' = [arch EXCEPT ![w] = a] /\ delivery' = "committed" /\ UNCHANGED events
        /\ crowded' = (crowded \/ \E x \in Web : arch[x].pc # "off")
    BY <1>3 DEF BeginArchive, Idle
  <2>2. Grown /\ Quiet /\ NextSeq' = NextSeq /\ NextSeq \in Nat
    BY <2>1, SameGrows DEF Inv, Data, NextSeq
  <2>3. a \in ArchState /\ a.pc = "gather" /\ a.sink = NextSeq /\ a.own = 0
    BY <2>2, ConstantAssumption DEF ArchState, Stand
  <2> HIDE DEF a
  <2>4. Moves(w, a)
    <3>1. (\E x \in Web : arch[x].pc # "off") => crowded'
      BY <2>1, Zenon
    <3> QED BY <2>1, <2>2, <2>3, <3>1 DEF Moves
  <2>5. Archives(w)
    BY <1>1, <2>1, <2>2 DEF Archives, Delivery, Inv, Data
  <2> QED BY <2>2, <2>4, <2>5, ArchiverKeeps
<1> QED BY <1>2, <1>3

(* The context is looked for, and frozen. *)
LEMMA ContextKeeps ==
  ASSUME Inv, NEW w \in Web, Gather(w) \/ Freeze(w)
  PROVE  Inv' /\ Grown /\ Quiet
<1>1. /\ arch[w].pc \in {"gather", "retrieve"} /\ delivery \notin {"not_ready", "commit_pending"}
      /\ UNCHANGED <<events, status, delivery, review, history, worker, item, noted, outbox, sent>>
      /\ gathered' \in BOOLEAN /\ outbox' \in BOOLEAN /\ sent' \in 0 .. Outbox
  BY ArchiverStands DEF Gather, Freeze, run, Inv, Data
<1>2. ASSUME NEW p \in Stand \ {"summarise", "send"}, arch' = [arch EXCEPT ![w].pc = p]
      PROVE  Inv' /\ Grown /\ Quiet
  <2> DEFINE a == [arch[w] EXCEPT !.pc = p]
  <2>1. a \in ArchState /\ a.pc = p /\ a.sink = arch[w].sink /\ a.own = arch[w].own
    BY NewState
  <2>2. arch' = [arch EXCEPT ![w] = a]
    BY <1>2
  <2> HIDE DEF a
  <2> QED BY <1>1, <2>1, <2>2, QuietMoveKeeps
<1>3. ASSUME NEW c \in 0 .. Lookups, arch' = [arch EXCEPT ![w].pc = "retrieve", ![w].calls = c]
      PROVE  Inv' /\ Grown /\ Quiet
  <2> DEFINE b == [arch[w] EXCEPT !.pc = "retrieve"]
             a == [b EXCEPT !.calls = c]
  <2>1. a \in ArchState /\ a.pc = "retrieve" /\ a.sink = arch[w].sink /\ a.own = arch[w].own
    <3>1. "retrieve" \in Stand
      BY DEF Stand
    <3>2. b \in ArchState /\ b.pc = "retrieve" /\ b.sink = arch[w].sink /\ b.own = arch[w].own
      BY <3>1, NewState
    <3>3. 0 \in Nat /\ 0 \in 0 .. Lookups
      BY ConstantAssumption
    <3> HIDE DEF b
    <3> QED BY <3>2, <3>3, NewFields
  <2>2. arch' = [arch EXCEPT ![w] = a]
    BY <1>3, ArchiverStands DEF Inv, Data
  <2> HIDE DEF a
  <2> QED BY <1>1, <2>1, <2>2, QuietMoveKeeps
<1> QED BY <1>2, <1>3, ConstantAssumption DEF Gather, Freeze, Stand

(* A call of the retrieval is announced, or ends the archive. *)
LEMMA RetrieveKeeps ==
  ASSUME Inv, NEW w \in Web, Retrieve(w)
  PROVE  Inv' /\ Grown /\ Quiet
<1>1. /\ arch[w].pc = "retrieve" /\ arch[w].calls > 0 /\ delivery \notin {"not_ready", "commit_pending"}
      /\ UNCHANGED <<status, review, history, worker, item, noted, gathered, outbox, sent>>
  BY ArchiverStands DEF Retrieve
<1>2. CASE ArchiveFails(w)
  BY <1>1, <1>2, ArchiveFailsKeeps
<1> DEFINE a == [arch[w] EXCEPT !.calls = @ - 1]
<1>3. CASE Announce(w, "mcp.tool_completed", a) /\ UNCHANGED delivery
  <2>1. a \in ArchState /\ a.pc = "retrieve" /\ a.sink = arch[w].sink /\ a.own = arch[w].own
    <3>1. PICK k \in Stand, m \in Nat, o \in Nat, q \in 0 .. Lookups :
            arch[w] = [pc |-> k, sink |-> m, own |-> o, calls |-> q]
      BY DEF Inv, Data, ArchState
    <3>2. q - 1 \in 0 .. Lookups
      BY <1>1, <3>1, ConstantAssumption
    <3> QED BY <1>1, <3>1, <3>2 DEF ArchState
  <2>2. sent' \in 0 .. Outbox
    BY <1>1 DEF Inv, Data
  <2> HIDE DEF a
  <2> QED BY <1>1, <1>3, <2>1, <2>2, AnnounceKeeps
<1> QED BY <1>2, <1>3 DEF Retrieve

LEMMA AnnounceContextKeeps ==
  ASSUME Inv, NEW w \in Web, AnnounceContext(w)
  PROVE  Inv' /\ Grown /\ Quiet
<1> DEFINE a == [arch[w] EXCEPT !.pc = "queue"]
<1>1. /\ arch[w].pc = "frozen" /\ Announce(w, "context.assembled", a)
      /\ UNCHANGED <<status, review, delivery, history, worker, item, noted, gathered, outbox, sent>>
  BY DEF AnnounceContext, run
<1>2. a \in ArchState /\ a.pc = "queue" /\ a.sink = arch[w].sink /\ a.own = arch[w].own
  <2>1. "queue" \in Stand
    BY DEF Stand
  <2> QED BY <2>1, NewState
<1>3. sent' \in 0 .. Outbox
  BY <1>1 DEF Inv, Data
<1> HIDE DEF a
<1> QED BY <1>1, <1>2, <1>3, AnnounceKeeps

LEMMA QueueKeeps ==
  ASSUME Inv, NEW w \in Web, Queue(w)
  PROVE  Inv' /\ Grown /\ Quiet
<1>1. /\ arch[w].pc = "queue" /\ delivery \notin {"not_ready", "commit_pending"}
      /\ UNCHANGED <<status, review, history, worker, item, noted, gathered, outbox, sent>>
      /\ gathered' \in BOOLEAN /\ outbox' \in BOOLEAN /\ sent' \in 0 .. Outbox
  BY ArchiverStands DEF Queue, Inv, Data
<1>2. CASE ArchiveFails(w)
  BY <1>1, <1>2, ArchiveFailsKeeps
<1>3. CASE outbox /\ arch' = [arch EXCEPT ![w].pc = "send"] /\ UNCHANGED <<events, delivery>>
  <2> DEFINE a == [arch[w] EXCEPT !.pc = "send"]
  <2>1. a \in ArchState /\ a.pc = "send" /\ a.sink = arch[w].sink /\ a.own = arch[w].own
    <3>1. "send" \in Stand
      BY DEF Stand
    <3> QED BY <3>1, NewState
  <2>2. arch' = [arch EXCEPT ![w] = a] /\ Has("archive.queued")
    BY <1>3 DEF Inv, Numbers
  <2> HIDE DEF a
  <2> QED BY <1>1, <1>3, <2>1, <2>2, QuietMoveKeeps
<1>4. CASE /\ ~ outbox /\ IsContinuous /\ delivery' = "archive_pending"
           /\ events' = IF Has("archive.queued") THEN events
                        ELSE Append(events, Event(NextSeq, "archive.queued", 0))
           /\ arch' = [arch EXCEPT ![w].pc = "summarise", ![w].own = Len(events') + 1]
  <2>1. Grown /\ Quiet /\ NextSeq' \in Nat /\ Has("archive.queued")'
    <3>1. CASE Has("archive.queued")
      BY <1>1, <1>4, <3>1, SameGrows DEF Inv, Data, NextSeq, Has
    <3>2. CASE AppendCounted("archive.queued")
      <4>1. /\ Grown /\ Quiet /\ NextSeq' = NextSeq + 1 /\ NextSeq \in Nat
            /\ \A k \in DOMAIN events' \ DOMAIN events : events'[k].type = "archive.queued"
        BY <1>1, <3>2, CountedAppends DEF Types
      <4>2. NextSeq \in DOMAIN events' \ DOMAIN events
        BY <4>1 DEF NextSeq, Inv, Data, Grown
      <4> QED BY <4>1, <4>2 DEF Has
    <3> QED BY <1>4, <3>1, <3>2 DEF AppendCounted
  <2>2. PICK n \in Nat : n = NextSeq'
    BY <2>1
  <2> DEFINE b == [arch[w] EXCEPT !.pc = "summarise"]
             a == [b EXCEPT !.own = n]
  <2>3. arch' = [arch EXCEPT ![w] = a]
    BY <1>4, <2>2, ArchiverStands DEF NextSeq, Inv, Data
  <2>4. a \in ArchState /\ a.pc = "summarise" /\ a.sink = arch[w].sink /\ a.own = n
    <3>1. "summarise" \in Stand
      BY DEF Stand
    <3>2. b \in ArchState /\ b.pc = "summarise" /\ b.sink = arch[w].sink /\ b.own = arch[w].own
      BY <3>1, NewState
    <3>3. 0 \in Nat /\ 0 \in 0 .. Lookups
      BY ConstantAssumption
    <3> HIDE DEF b
    <3> QED BY <3>2, <3>3, NewFields
  <2>5. a.sink <= NextSeq' /\ a.own <= NextSeq' /\ Loose'
    <3>1. /\ arch[w].sink \in Nat /\ NextSeq \in Nat /\ arch[w].sink <= NextSeq
          /\ NextSeq' >= NextSeq
      BY <2>1, ArchiverStands, GrownKeeps DEF Inv
    <3> QED BY <2>1, <2>2, <2>4, <3>1 DEF Loose
  <2> HIDE DEF a
  <2>6. Moves(w, a)
    BY <1>1, <2>1, <2>3, <2>4, <2>5 DEF Moves
  <2>7. Archives(w)
    BY <1>1, <1>4, <2>1, <2>5 DEF Archives, Inv, Data, Delivery
  <2> QED BY <2>1, <2>6, <2>7, ArchiverKeeps
<1> QED BY <1>2, <1>3, <1>4 DEF Queue

LEMMA SummariseKeeps ==
  ASSUME Inv, NEW w \in Web, Summarise(w)
  PROVE  Inv' /\ Grown /\ Quiet
<1>1. /\ arch[w].pc = "summarise" /\ delivery \notin {"not_ready", "commit_pending"}
      /\ Has("archive.queued") /\ gathered' \in BOOLEAN
      /\ UNCHANGED <<status, review, history, worker, item, noted, gathered>>
  BY ArchiverStands DEF Summarise, Inv, Data
<1>2. CASE ArchiveFails(w) /\ UNCHANGED <<outbox, sent>>
  BY <1>1, <1>2, ArchiveFailsKeeps
<1>3. CASE /\ outbox' = TRUE /\ sent' = 0 /\ arch' = [arch EXCEPT ![w].pc = "send"]
           /\ UNCHANGED <<events, delivery>>
  <2> DEFINE a == [arch[w] EXCEPT !.pc = "send"]
  <2>1. a \in ArchState /\ a.pc = "send" /\ a.sink = arch[w].sink /\ a.own = arch[w].own
    <3>1. "send" \in Stand
      BY DEF Stand
    <3> QED BY <3>1, NewState
  <2>2. arch' = [arch EXCEPT ![w] = a] /\ sent' \in 0 .. Outbox /\ outbox' \in BOOLEAN
    BY <1>3, ConstantAssumption
  <2> HIDE DEF a
  <2> QED BY <1>1, <1>3, <2>1, <2>2, QuietMoveKeeps
<1> QED BY <1>2, <1>3 DEF Summarise

(* A call is announced by the client, with the next number of the recorder it has. *)
LEMMA SendItemKeeps ==
  ASSUME Inv, NEW w \in Web, SendItem(w)
  PROVE  Inv' /\ Grown /\ Quiet
<1>1. /\ arch[w].pc = "send" /\ delivery \notin {"not_ready", "commit_pending"}
      /\ Has("archive.queued") /\ delivery' = "archive_pending" /\ sent < Outbox /\ sent' = sent + 1
      /\ UNCHANGED <<status, review, history, worker, item, noted, gathered, outbox>>
      /\ gathered' \in BOOLEAN /\ outbox' \in BOOLEAN
  BY ArchiverStands DEF SendItem, Inv, Data
<1>2. sent' \in 0 .. Outbox /\ arch[w] \in ArchState
  BY <1>1, ArchiverStands, ConstantAssumption DEF Inv, Data
<1>3. CASE UNCHANGED <<events, arch>>
  <2>1. arch' = [arch EXCEPT ![w] = arch[w]]
    BY <1>3 DEF Inv, Data
  <2> QED BY <1>1, <1>2, <1>3, <2>1, QuietMoveKeeps
<1>4. CASE Announce(w, "mcp.tool_completed", arch[w])
  BY <1>1, <1>2, <1>4, AnnounceKeeps
<1> QED BY <1>3, <1>4 DEF SendItem

(* An archive's last event, by the recorder it has of its own. *)
LEMMA OwnEventKeeps ==
  ASSUME Inv, NEW w \in Web, arch[w].pc = "send",
         NEW type \in {"knowledge.write_failed", "archive.completed"},
         events' \in {events, Append(events, Event(arch[w].own, type, 0))},
         arch' = [arch EXCEPT ![w] = Idle], delivery' \in {"failed", "archived"},
         UNCHANGED <<status, review, history, worker, item, gathered, outbox, sent, noted>>
  PROVE  Inv' /\ Grown /\ Quiet
<1>1. /\ delivery \notin {"not_ready", "commit_pending"} /\ Has("archive.queued") /\ Loose
      /\ arch[w].own \in Nat /\ NextSeq \in Nat /\ arch[w].own <= NextSeq
  BY ArchiverStands DEF Loose
<1>2. Grown /\ Quiet /\ Loose' /\ 0 <= NextSeq'
  <2>1. Grown /\ Quiet
    <3>1. CASE UNCHANGED events
      BY <3>1, SameGrows DEF Inv
    <3>2. CASE events' = Append(events, Event(arch[w].own, type, 0))
      <4>1. Data /\ type \in Types /\ type # "codex.item.completed" /\ 0 \in Nat
        BY DEF Inv, Types
      <4> QED BY <1>1, <3>2, <4>1, EventGrows
    <3> QED BY <3>1, <3>2
  <2> QED BY <1>1, <2>1, GrownKeeps DEF Inv, NextSeq, Data
<1>3. Idle \in ArchState /\ Idle.pc = "off" /\ Idle.sink = 0 /\ Idle.own = 0
  BY ConstantAssumption DEF Idle, ArchState, Stand
<1>4. Moves(w, Idle)
  BY <1>2, <1>3 DEF Moves
<1>5. Archives(w)
  BY <1>1, <1>2 DEF Archives, Delivery, Inv, Data
<1> QED BY <1>2, <1>4, <1>5, ArchiverKeeps

LEMMA EndsKeep ==
  ASSUME Inv, NEW w \in Web, SendFails(w) \/ EndArchive(w)
  PROVE  Inv' /\ Grown /\ Quiet
<1>1. CASE SendFails(w)
  <2>1. /\ arch[w].pc = "send" /\ delivery \notin {"not_ready", "commit_pending"}
        /\ UNCHANGED <<status, review, history, worker, item, gathered, outbox, sent, noted>>
    BY <1>1, ArchiverStands DEF SendFails
  <2>2. CASE ArchiveFails(w)
    BY <2>1, <2>2, ArchiveFailsKeeps
  <2>3. CASE /\ events' \in {events, Append(events, Event(arch[w].own, "knowledge.write_failed", 0))}
             /\ arch' = [arch EXCEPT ![w] = Idle] /\ delivery' = "failed"
    BY <2>1, <2>3, OwnEventKeeps
  <2> QED BY <1>1, <2>2, <2>3 DEF SendFails
<1>2. CASE EndArchive(w)
  <2>1. /\ arch[w].pc = "send"
        /\ events' \in {events, Append(events, Event(arch[w].own, "archive.completed", 0))}
        /\ arch' = [arch EXCEPT ![w] = Idle] /\ delivery' = "archived"
        /\ UNCHANGED <<status, review, history, worker, item, gathered, outbox, sent, noted>>
    BY <1>2 DEF EndArchive
  <2> QED BY <2>1, OwnEventKeeps
<1> QED BY <1>1, <1>2

LEMMA RetryArchiveKeeps ==
  ASSUME Inv, NEW w \in Web, RetryArchive(w)
  PROVE  Inv' /\ Grown /\ Quiet
<1> DEFINE a == [arch[w] EXCEPT !.pc = "send"]
<1>1. /\ outbox /\ arch' = [arch EXCEPT ![w] = a] /\ delivery' = "archive_pending"
      /\ UNCHANGED <<events, status, review, history, worker, item, gathered, outbox, sent, noted>>
      /\ delivery \notin {"not_ready", "commit_pending"} /\ Has("archive.queued")
      /\ gathered' \in BOOLEAN /\ outbox' \in BOOLEAN /\ sent' \in 0 .. Outbox
  BY DEF RetryArchive, Inv, Standing, Numbers, Data
<1>2. a \in ArchState /\ a.pc = "send" /\ a.sink = arch[w].sink /\ a.own = arch[w].own
  <2>1. "send" \in Stand
    BY DEF Stand
  <2> QED BY <2>1, NewState
<1> HIDE DEF a
<1> QED BY <1>1, <1>2, QuietMoveKeeps

(* The archiver works on nothing but its own and the trail. *)
LEMMA ArchiverLeaves ==
  ASSUME NEW w \in Web, ArchiveStep(w) \/ BeginArchive(w) \/ RetryArchive(w)
  PROVE  UNCHANGED <<status, worker, item, history, view, dropped, retried>>
BY DEF ArchiveStep, Gather, Retrieve, Freeze, AnnounceContext, Queue, Summarise, SendItem,
       SendFails, EndArchive, BeginArchive, RetryArchive, run

(* Every step, and reading the stream as well. *)
LEMMA StepKeeps ==
  ASSUME Inv, [Next]_vars
  PROVE  Inv' /\ Grown /\ (Quiet \/ RecordItem \/ Emit)
<1>1. CASE RecordItem \/ Emit
  BY <1>1, RecordItemKeeps, EmitKeeps
<1>2. CASE \/ ItemRecorded \/ \E call \in Calls : CompleteItem(call)
           \/ \E s \in {"success", "paused", "cancelled"} : EndRun(s)
  BY <1>2, SilentKeeps
<1>3. CASE CloseRun \/ Resume \/ Retry \/ Commit \/ Crash
  BY <1>3, CloseRunKeeps, ResumeKeeps, RetryKeeps, CommitKeeps, CrashKeeps
<1>4. CASE \/ \E s \in {"paused", "cancelled"} : ControlInactive(s)
           \/ \E decision \in {"approved", "rejected"} : Review(decision)
  BY <1>4, PersonKeeps
<1>5. ASSUME NEW w \in Web, ArchiveStep(w) \/ BeginArchive(w) \/ RetryArchive(w)
      PROVE  Inv' /\ Grown /\ Quiet
  BY <1>5, ContextKeeps, RetrieveKeeps, AnnounceContextKeeps, QueueKeeps, SummariseKeeps, SendItemKeeps, EndsKeep, BeginArchiveKeeps,
     RetryArchiveKeeps DEF ArchiveStep
<1>6. CASE ReadPage \/ EndPage \/ UNCHANGED vars
  <2>1. UNCHANGED <<events, run, history, worker, item, archive, noted>>
    BY <1>6 DEF ReadPage, EndPage, vars
  <2>2. Grown /\ Quiet
    BY <2>1, SameGrows DEF Inv
  <2>3. Inv'
    BY <2>1 DEF Inv, Data, Standing, Numbers, Bounds, BrokenOnlyByArchive, Has, Loose, NextSeq, run, archive
  <2> QED BY <2>2, <2>3
<1> QED BY <1>1, <1>2, <1>3, <1>4, <1>5, <1>6 DEF Next, WorkerStep

(* What the variables hold, who may be at work, and where the numbers stand, in every state. *)
THEOREM TimelineInvariant == Spec => []Inv
<1>1. Init => Inv
  <2> SUFFICES ASSUME Init PROVE Inv
    OBVIOUS
  <2>1. /\ Event(1, "run.started", 0) \in Entry /\ Event(1, "run.started", 0).seq = 1
        /\ Event(1, "run.started", 0).type = "run.started"
    BY EventTyped DEF Types
  <2>2. /\ events \in Seq(Entry) /\ Len(events) = 1 /\ DOMAIN events = {1}
        /\ events[1].seq = 1 /\ events[1].type = "run.started"
    BY <2>1 DEF Init
  <2>3. worker \in WorkerState /\ worker.pc = "turn" /\ worker.next = 2
    BY DEF Init, WorkerState
  <2>4. /\ arch \in [Web -> ArchState]
        /\ \A w \in Web : arch[w].pc = "off" /\ arch[w].sink = 0 /\ arch[w].own = 0
    BY ConstantAssumption DEF Init, Idle, ArchState, Stand
  <2>5. Data
    <3>1. history \in Seq(Calls) /\ sent \in 0 .. Outbox
      BY ConstantAssumption DEF Init
    <3>2. /\ status \in RunStatus /\ review = "pending" /\ delivery \in Delivery /\ item = 0
          /\ dropped = {} /\ crowded = FALSE /\ gathered = FALSE /\ outbox = FALSE
      BY DEF Init, RunStatus, Delivery
    <3> QED BY <2>2, <2>3, <2>4, <3>1, <3>2 DEF Data
  <2>6. Standing
    BY <2>3, <2>4 DEF Init, Standing
  <2>7. Numbers
    BY <2>2, <2>3, <2>4 DEF Init, Numbers, BrokenOnlyByArchive, Has, NextSeq
  <2>8. Bounds
    BY <2>2, <2>3, <2>4 DEF Bounds, NextSeq
  <2> QED BY <2>5, <2>6, <2>7, <2>8 DEF Inv
<1>2. Inv /\ [Next]_vars => Inv'
  BY StepKeeps
<1> QED BY <1>1, <1>2, PTL DEF Spec

(* Only the archiver breaks the numbering: what AuditRecorder's check would reject was written *)
(* after an archive was queued, or after two archivers were at work at once and one had        *)
(* written, whatever the run, the service, a review and a delivery did.                         *)
THEOREM OnlyTheArchiverBreaksIt == Spec => []BrokenOnlyByArchive
<1>1. Inv => BrokenOnlyByArchive
  BY DEF Inv, Numbers
<1> QED BY <1>1, TimelineInvariant, PTL
-----------------------------------------------------------------------------
ViewState == [cursor : Nat, page : {"none", "empty", "full"}, mark : Nat, shown : SUBSET Nat, ended : BOOLEAN]

(* The stream: while the numbers are sound, it has shown everything up to its cursor, and an *)
(* empty page means that the cursor is where the file ended.                                  *)
Shown ==
  /\ view \in ViewState /\ view.shown \subseteq DOMAIN events /\ view.cursor <= Len(events)
  /\ view.ended => view.page = "none"
  /\ IsContinuous => /\ view.shown = 1 .. view.cursor
                     /\ view.page = "empty" \/ view.ended => view.cursor = view.mark

(* A page is cut from the events after the cursor: it is empty only when there are none, and *)
(* nothing is left out below its last one.                                                    *)
LEMMA PageIsCut ==
  ASSUME Data, NEW cursor \in Nat
  PROVE  LET fresh == {i \in DOMAIN events : events[i].seq > cursor}
         IN  /\ Page(cursor) \subseteq fresh /\ Page(cursor) \in SUBSET (1 .. Len(events))
             /\ IsFiniteSet(Page(cursor))
             /\ Page(cursor) = {} => fresh = {}
             /\ \A i \in Page(cursor) : \A k \in fresh : k <= i => k \in Page(cursor)
<1> DEFINE fresh == {i \in DOMAIN events : events[i].seq > cursor}
           below(i) == {j \in fresh : j <= i}
<1>1. /\ DOMAIN events = 1 .. Len(events) /\ Len(events) \in Nat
      /\ IsFiniteSet(1 .. Len(events)) /\ fresh \in SUBSET (1 .. Len(events))
  <2>1. DOMAIN events = 1 .. Len(events) /\ Len(events) \in Nat
    BY DEF Data
  <2>2. 1 \in Int /\ Len(events) \in Int
    BY <2>1
  <2>3. IsFiniteSet(1 .. Len(events))
    BY <2>2, FS_Interval
  <2> QED BY <2>1, <2>3
<1>2. IsFiniteSet(fresh)
  BY <1>1, FS_Subset
<1>3. Page(cursor) = {i \in fresh : Cardinality(below(i)) <= Limit}
  BY DEF Page
<1>4. \A i \in fresh : IsFiniteSet(below(i)) /\ Cardinality(below(i)) \in Nat
  <2> TAKE i \in fresh
  <2>1. below(i) \in SUBSET fresh
    OBVIOUS
  <2> HIDE DEF fresh, below
  <2> QED BY <1>2, <2>1, FS_Subset, FS_CardinalityType
<1>5. Page(cursor) \subseteq fresh /\ Page(cursor) \in SUBSET (1 .. Len(events))
  BY <1>1, <1>3
<1>6. ASSUME fresh # {} PROVE Page(cursor) # {}
  <2> DEFINE m == Min(fresh)
  <2>1. m \in fresh /\ \A k \in fresh : m <= k
    <3>1. fresh \in SUBSET Nat
      BY <1>1
    <3> HIDE DEF fresh
    <3> QED BY <1>6, <3>1, LeastNatural
  <2> HIDE DEF m
  <2>2. below(m) = {m}
    <3>1. m \in Nat /\ \A j \in fresh : j \in Nat
      BY <1>1, <2>1
    <3>2. \A j \in fresh : j <= m <=> j = m
      BY <2>1, <3>1
    <3> HIDE DEF fresh
    <3> QED BY <2>1, <3>2
  <2>3. Cardinality(below(m)) = 1
    <3> HIDE DEF below
    <3> QED BY <2>2, FS_Singleton
  <2>4. 1 <= Limit
    BY ConstantAssumption
  <2> HIDE DEF fresh, below
  <2> QED BY <1>3, <2>1, <2>3, <2>4
<1>7. ASSUME NEW i \in Page(cursor), NEW k \in fresh, k <= i PROVE k \in Page(cursor)
  <2>1. i \in fresh /\ Cardinality(below(i)) <= Limit
    BY <1>3
  <2>2. below(k) \in SUBSET below(i)
    <3>1. i \in Nat /\ k \in Nat /\ \A j \in fresh : j \in Nat
      BY <1>1, <1>7, <2>1
    <3>2. \A j \in fresh : j <= k => j <= i
      BY <1>7, <3>1
    <3> HIDE DEF fresh
    <3> QED BY <3>2
  <2>3. Cardinality(below(k)) <= Cardinality(below(i))
    <3> HIDE DEF fresh, below
    <3> QED BY <1>4, <2>1, <2>2, FS_Subset
  <2>4. Cardinality(below(k)) \in Nat /\ Cardinality(below(i)) \in Nat /\ Limit \in Nat
    <3> HIDE DEF fresh, below
    <3> QED BY <1>4, <1>7, <2>1, ConstantAssumption
  <2>5. Cardinality(below(k)) <= Limit
    <3> HIDE DEF fresh, below
    <3> QED BY <2>1, <2>3, <2>4
  <2> HIDE DEF fresh, below
  <2> QED BY <1>3, <1>7, <2>5
<1>8. IsFiniteSet(Page(cursor))
  BY <1>1, <1>5, FS_Subset
<1> HIDE DEF fresh
<1>9. /\ Page(cursor) \subseteq fresh /\ Page(cursor) \in SUBSET (1 .. Len(events))
      /\ IsFiniteSet(Page(cursor)) /\ (Page(cursor) = {} => fresh = {})
      /\ \A i \in Page(cursor) : \A k \in fresh : k <= i => k \in Page(cursor)
  BY <1>5, <1>6, <1>7, <1>8
<1> QED BY <1>9 DEF fresh

LEMMA ReadPageShows ==
  ASSUME Inv, Shown, ReadPage
  PROVE  Shown'
<1> DEFINE page == Page(view.cursor)
           fresh == {i \in DOMAIN events : events[i].seq > view.cursor}
<1>1. /\ view.cursor \in Nat /\ view.shown \subseteq DOMAIN events /\ ~ view.ended
      /\ view.cursor <= Len(events) /\ Len(events) \in Nat /\ DOMAIN events = 1 .. Len(events)
      /\ IsContinuous => view.shown = 1 .. view.cursor
  BY DEF Shown, ViewState, ReadPage, Inv, Data
<1>2. /\ page \subseteq fresh /\ page \in SUBSET (1 .. Len(events)) /\ IsFiniteSet(page)
      /\ page = {} => fresh = {}
      /\ \A i \in page : \A k \in fresh : k <= i => k \in page
  BY <1>1, PageIsCut DEF Inv
<1> DEFINE cursor == IF page = {} THEN view.cursor ELSE events[Max(page)].seq
           mark == IF page = {} THEN Len(events) ELSE view.mark
<1>3. view' = [cursor |-> cursor, page |-> IF page = {} THEN "empty" ELSE "full", mark |-> mark,
               shown |-> view.shown \union page, ended |-> FALSE]
      /\ UNCHANGED events
  BY DEF ReadPage, Shown, ViewState
<1> HIDE DEF page
<1>5. page # {} => Max(page) \in page /\ \A k \in page : k <= Max(page)
  BY <1>1, <1>2, GreatestNatural
<1>6. cursor \in Nat /\ cursor <= Len(events)
  <2>1. CASE page = {}
    BY <1>1, <2>1
  <2>2. CASE page # {}
    <3>1. Max(page) \in DOMAIN events
      BY <1>1, <1>2, <1>5, <2>2
    <3>2. \A k \in DOMAIN events : events[k].seq \in Nat /\ events[k].seq <= k
      <4>1. \A k \in DOMAIN events : events[k].seq \in Nat
        BY EventAt DEF Inv
      <4>2. \A k \in DOMAIN events : events[k].seq <= k
        BY DEF Inv, Bounds
      <4> QED BY <4>1, <4>2
    <3>3. events[Max(page)].seq \in Nat /\ events[Max(page)].seq <= Max(page)
      BY <3>1, <3>2
    <3> QED BY <1>1, <2>2, <3>1, <3>3
  <2> QED BY <2>1, <2>2
<1>7. ASSUME IsContinuous
      PROVE  /\ view.shown \union page = 1 .. cursor
             /\ page = {} => cursor = Len(events)
  <2>1. fresh = {i \in 1 .. Len(events) : i > view.cursor}
    BY <1>1, <1>7 DEF IsContinuous
  <2>2. CASE page = {}
    <3>1. view.cursor = Len(events)
      <4>1. Len(events) \notin fresh
        BY <1>2, <2>2
      <4> HIDE DEF fresh
      <4> QED BY <1>1, <2>1, <4>1
    <3> QED BY <1>1, <1>7, <2>2, <3>1
  <2>3. CASE page # {}
    <3> DEFINE m == Max(page)
    <3>1. m \in page /\ \A k \in page : k <= m
      BY <1>5, <2>3
    <3> HIDE DEF m
    <3>2. m \in 1 .. Len(events) /\ m > view.cursor /\ m \in fresh
      BY <1>2, <2>1, <3>1
    <3>3. cursor = m
      BY <1>1, <1>7, <2>3, <3>2 DEF IsContinuous, m
    <3>4. \A k \in Nat : k \in page <=> k > view.cursor /\ k <= m
      <4> TAKE k \in Nat
      <4>1. k \in page => k > view.cursor /\ k <= m
        BY <1>2, <2>1, <3>1
      <4>2. k > view.cursor /\ k <= m => k \in fresh
        BY <1>1, <2>1, <3>2
      <4> HIDE DEF fresh
      <4> QED BY <1>2, <3>1, <4>1, <4>2
    <3>5. \A k \in page : k \in Nat
      BY <1>2
    <3>6. view.shown \union page = 1 .. m
      <4> HIDE DEF fresh, cursor, mark
      <4> QED BY <1>1, <1>7, <3>2, <3>4, <3>5
    <3> QED BY <2>3, <3>3, <3>6
  <2> QED BY <2>2, <2>3
<1> HIDE DEF cursor, fresh
<1>8. /\ view' \in ViewState /\ view'.shown = view.shown \union page /\ view'.cursor = cursor
      /\ ~ view'.ended /\ (view'.page = "empty" => page = {} /\ view'.mark = Len(events))
  <2>1. view.shown \union page \in SUBSET Nat /\ mark \in Nat
    <3>1. view.shown \in SUBSET Nat /\ view.mark \in Nat
      BY DEF Shown, ViewState
    <3>2. page \in SUBSET Nat
      BY <1>2
    <3> QED BY <1>1, <3>1, <3>2
  <2> QED BY <1>3, <1>6, <2>1 DEF ViewState
<1>9. IsContinuous' => IsContinuous
  BY <1>3 DEF IsContinuous
<1> QED BY <1>1, <1>2, <1>3, <1>6, <1>7, <1>8, <1>9 DEF Shown

LEMMA StepShows ==
  ASSUME Inv, Shown, [Next]_vars
  PROVE  Shown'
<1>1. Grown /\ Len(events) \in Nat /\ Len(events') \in Nat
  BY StepKeeps DEF Inv, Data, Grown
<1>2. DOMAIN events \subseteq DOMAIN events' /\ Len(events') >= Len(events)
      /\ (IsContinuous' => IsContinuous)
  BY <1>1, GrownKeeps DEF Inv, Data, Grown
<1>3. CASE ReadPage
  BY <1>3, ReadPageShows
<1>4. CASE EndPage
  <2> DEFINE over == status \in Terminal /\ view.page = "empty"
  <2>1. view' = [cursor |-> view.cursor, page |-> "none", shown |-> view.shown, ended |-> over,
                 mark |-> IF over THEN view.mark ELSE 0]
    BY <1>4 DEF EndPage, Shown, ViewState
  <2>2. /\ view' \in ViewState /\ view'.page = "none"
        /\ view'.cursor = view.cursor /\ view'.shown = view.shown
        /\ view'.ended => view.page = "empty" /\ view'.mark = view.mark
    <3>1. over \in BOOLEAN /\ (over => view.page = "empty")
      OBVIOUS
    <3>2. view.cursor \in Nat /\ view.shown \in SUBSET Nat /\ view.mark \in Nat
      BY DEF Shown, ViewState
    <3> HIDE DEF over
    <3> QED BY <2>1, <3>1, <3>2 DEF ViewState
  <2> QED BY <1>1, <1>2, <2>2 DEF Shown, ViewState
<1>5. CASE Crash
  <2>1. view' = [cursor |-> view.cursor, page |-> "none", shown |-> view.shown,
                 ended |-> view.ended, mark |-> view.mark]
    BY <1>5 DEF Crash, Shown, ViewState
  <2>2. /\ view' \in ViewState /\ view'.page = "none"
        /\ view'.cursor = view.cursor /\ view'.shown = view.shown
        /\ view'.ended = view.ended /\ view'.mark = view.mark
    BY <2>1 DEF Shown, ViewState
  <2> QED BY <1>1, <1>2, <2>2 DEF Shown, ViewState
<1>6. CASE UNCHANGED view
  BY <1>1, <1>2, <1>6 DEF Shown, ViewState
<1>7. ReadPage \/ EndPage \/ Crash \/ UNCHANGED view
  BY ArchiverLeaves DEF Next, vars, WorkerStep, RecordItem, Emit, ItemRecorded, CloseRun, Resume,
     Retry, EndRun, Commit, CompleteItem, ControlInactive, Review
<1> QED BY <1>3, <1>4, <1>5, <1>6, <1>7

LEMMA ShownAlways == Spec => []Shown
<1>1. Init => Shown
  BY DEF Init, Shown, ViewState
<1>2. Inv /\ Shown /\ [Next]_vars => Shown'
  BY StepShows
<1> QED BY <1>1, <1>2, TimelineInvariant, PTL DEF Spec

(* While the trail is sound the stream has shown every event up to its cursor, and one that *)
(* ended has shown every event there was when it last read the file.                        *)
THEOREM StreamIsWhole == Spec => []StreamHasNoGap
<1>1. Shown => StreamHasNoGap
  BY DEF Shown, StreamHasNoGap
<1> QED BY <1>1, ShownAlways, PTL
-----------------------------------------------------------------------------
Kinds == {"command.completed", "file.changed", "permission.denied"}

DerivedTypes(i) == {Derived(i)[k] : k \in DOMAIN Derived(i)}
Todo == {worker.todo[k] : k \in DOMAIN worker.todo}
Tells(i, type) == IF type \in DerivedTypes(i) /\ ~ (i = item /\ type \in Todo) THEN 1 ELSE 0

(* An event about an item comes after the item's own, which there is once; of what is derived *)
(* from an item there is one event each, except what the thread still owes.                   *)
Audited ==
  /\ \A j \in DOMAIN events : events[j].item \in {0} \union Recorded
  /\ Recorded \subseteq DOMAIN history /\ item \in {0} \union Recorded
  /\ retried \subseteq DOMAIN history
  /\ \A k, l \in DOMAIN worker.todo : worker.todo[k] = worker.todo[l] => k = l
  /\ Todo \subseteq IF item = 0 THEN {"workspace.verified", "run.resumed"} ELSE DerivedTypes(item)
  /\ \A i \in Recorded : Cardinality(Told(i, "codex.item.completed")) = 1
  /\ \A i \in Recorded \ dropped : \A type \in Kinds : Cardinality(Told(i, type)) = Tells(i, type)

LEMMA RecordedIs ==
  ASSUME NEW i
  PROVE  i \in Recorded <=> \E k \in DOMAIN events :
                              events[k].type = "codex.item.completed" /\ events[k].item = i
BY DEF Recorded

LEMMA RecordedIsNext ==
  ASSUME NEW i
  PROVE  i \in Recorded' <=> \E k \in DOMAIN events' :
                               events'[k].type = "codex.item.completed" /\ events'[k].item = i
BY DEF Recorded

(* What is derived from an item differs from one another. *)
LEMMA PairDiffers ==
  ASSUME NEW S, NEW x \in S, NEW y \in S, x # y
  PROVE  /\ <<x>> \o <<y>> \in Seq(S)
         /\ \A k, l \in DOMAIN (<<x>> \o <<y>>) : (<<x>> \o <<y>>)[k] = (<<x>> \o <<y>>)[l] => k = l
         /\ {(<<x>> \o <<y>>)[k] : k \in DOMAIN (<<x>> \o <<y>>)} = {x, y}
<1> DEFINE s == <<x>>
           t == <<y>>
           u == s \o t
<1>1. s \in Seq(S) /\ t \in Seq(S) /\ Len(s) = 1 /\ Len(t) = 1 /\ s[1] = x /\ t[1] = y
  OBVIOUS
<1> HIDE DEF s, t
<1>2. u \in Seq(S) /\ Len(u) = 2 /\ u[1] = x /\ u[2] = y /\ DOMAIN u = 1 .. 2
  <2>1. /\ u \in Seq(S) /\ Len(u) = Len(s) + Len(t)
        /\ \A k \in 1 .. Len(s) + Len(t) : u[k] = IF k <= Len(s) THEN s[k] ELSE t[k - Len(s)]
    BY <1>1, ConcatProperties
  <2> HIDE DEF u
  <2>2. DOMAIN u = 1 .. Len(u)
    BY <2>1
  <2> QED BY <1>1, <2>1, <2>2
<1> HIDE DEF u
<1>3. \A k, l \in DOMAIN u : u[k] = u[l] => k = l
  BY <1>2
<1>4. {u[k] : k \in DOMAIN u} = {x, y}
  BY <1>2
<1> QED BY <1>2, <1>3, <1>4 DEF u, s, t

LEMMA DerivedIs ==
  ASSUME Data, NEW i \in DOMAIN history
  PROVE  /\ Derived(i) \in Seq(Kinds)
         /\ \A k, l \in DOMAIN Derived(i) : Derived(i)[k] = Derived(i)[l] => k = l
<1> DEFINE c == <<"command.completed">>
           d == <<"permission.denied">>
           f == <<"file.changed">>
<1>1. Derived(i) \in {c \o d, d \o f, c \o <<>>, <<>> \o f}
  <2> HIDE DEF c, d, f
  <2> QED BY DEF Derived, c, d, f
<1>2. c \o <<>> = c
  OBVIOUS
<1>3. <<>> \o f = f
  OBVIOUS
<1>4. CASE Derived(i) = c \o d
  <2>1. "command.completed" \in Kinds /\ "permission.denied" \in Kinds
        /\ "command.completed" # "permission.denied"
    BY DEF Kinds
  <2>2. c \o d \in Seq(Kinds) /\ \A k, l \in DOMAIN (c \o d) : (c \o d)[k] = (c \o d)[l] => k = l
    BY <2>1, PairDiffers
  <2> HIDE DEF c, d, f
  <2> QED BY <1>4, <2>2
<1>5. CASE Derived(i) = d \o f
  <2>1. "permission.denied" \in Kinds /\ "file.changed" \in Kinds
        /\ "permission.denied" # "file.changed"
    BY DEF Kinds
  <2>2. d \o f \in Seq(Kinds) /\ \A k, l \in DOMAIN (d \o f) : (d \o f)[k] = (d \o f)[l] => k = l
    BY <2>1, PairDiffers
  <2> HIDE DEF c, d, f
  <2> QED BY <1>5, <2>2
<1>6. CASE Derived(i) = c
  BY <1>6 DEF Kinds
<1>7. CASE Derived(i) = f
  BY <1>7 DEF Kinds
<1> QED
  <2> HIDE DEF c, d, f
  <2> QED BY <1>1, <1>2, <1>3, <1>4, <1>5, <1>6, <1>7

(* Taking the first of what is owed leaves the rest. *)
LEMMA FirstIsTaken ==
  ASSUME NEW s \in Seq(Types), s # <<>>, \A k, l \in DOMAIN s : s[k] = s[l] => k = l
  PROVE  LET t == Tail(s) IN
         /\ \A k, l \in DOMAIN t : t[k] = t[l] => k = l
         /\ {t[k] : k \in DOMAIN t} = {s[k] : k \in DOMAIN s} \ {Head(s)}
         /\ Head(s) \in {s[k] : k \in DOMAIN s}
<1> DEFINE t == Tail(s)
<1>1. /\ Len(s) \in Nat /\ Len(s) >= 1 /\ DOMAIN s = 1 .. Len(s)
      /\ DOMAIN t = 1 .. (Len(s) - 1) /\ Head(s) = s[1]
      /\ \A k \in DOMAIN t : t[k] = s[k + 1]
  OBVIOUS
<1> HIDE DEF t
<1>2. \A k \in DOMAIN t : k + 1 \in DOMAIN s /\ k + 1 # 1
  BY <1>1
<1>3. ASSUME NEW k \in DOMAIN t, NEW l \in DOMAIN t, t[k] = t[l] PROVE k = l
  <2>1. k + 1 = l + 1
    BY <1>1, <1>2, <1>3
  <2> QED BY <1>1, <2>1
<1>4. 1 \in DOMAIN s
  BY <1>1
<1>5. ASSUME NEW k \in DOMAIN t PROVE t[k] \in {s[m] : m \in DOMAIN s} \ {Head(s)}
  BY <1>1, <1>2, <1>4
<1>6. ASSUME NEW m \in DOMAIN s, s[m] # Head(s) PROVE \E k \in DOMAIN t : t[k] = s[m]
  <2>1. m - 1 \in DOMAIN t /\ (m - 1) + 1 = m
    BY <1>1, <1>6
  <2> QED BY <1>1, <2>1
<1> QED BY <1>1, <1>3, <1>4, <1>5, <1>6 DEF t

LEMMA ToldIsFinite ==
  ASSUME Data, NEW i, NEW type
  PROVE  IsFiniteSet(Told(i, type))
<1>1. DOMAIN events = 1 .. Len(events) /\ 1 \in Int /\ Len(events) \in Int
  BY DEF Data
<1>2. IsFiniteSet(DOMAIN events)
  BY <1>1, FS_Interval
<1>3. Told(i, type) \in SUBSET DOMAIN events
  BY DEF Told
<1> QED BY <1>2, <1>3, FS_Subset

(* Where nothing is said of an item, what was said of the items stands. *)
LEMMA QuietTells ==
  ASSUME Data, Grown, Quiet
  PROVE  /\ Recorded' = Recorded
         /\ \A i, type : i # 0 => Told(i, type)' = Told(i, type)
         /\ \A j \in DOMAIN events' : events'[j].item = 0 \/ (j \in DOMAIN events /\ events'[j] = events[j])
<1>1. DOMAIN events \subseteq DOMAIN events' /\ \A j \in DOMAIN events : events'[j] = events[j]
  BY DEF Data, Grown
<1>2. ASSUME NEW i PROVE i \in Recorded' <=> i \in Recorded
  BY <1>1, RecordedIs, RecordedIsNext DEF Quiet
<1>3. ASSUME NEW i, NEW type, i # 0 PROVE Told(i, type)' = Told(i, type)
  BY <1>1, <1>3 DEF Told, Quiet
<1> QED BY <1>1, <1>2, <1>3 DEF Quiet

(* An event about an item adds one to what is said of it, and to nothing else. *)
LEMMA AppendTells ==
  ASSUME Data, NEW seq \in Nat, NEW kind \in Types, NEW about \in Nat,
         events' = Append(events, Event(seq, kind, about))
  PROVE  /\ \A i, type : i # about \/ type # kind => Told(i, type)' = Told(i, type)
         /\ Cardinality(Told(about, kind))' = Cardinality(Told(about, kind)) + 1
         /\ Recorded' = Recorded \union (IF kind = "codex.item.completed" THEN {about} ELSE {})
         /\ \A j \in DOMAIN events' : events'[j].item = about
                                      \/ (j \in DOMAIN events /\ events'[j] = events[j])
<1> DEFINE n == Len(events) + 1
           e == Event(seq, kind, about)
<1>1. /\ n \notin DOMAIN events /\ DOMAIN events' = DOMAIN events \union {n}
      /\ \A j \in DOMAIN events : events'[j] = events[j]
      /\ events'[n] = e
  <2> HIDE DEF e
  <2> QED BY DEF Data, e
<1>2. e.type = kind /\ e.item = about
  BY EventTyped
<1> HIDE DEF n, e
<1>3. ASSUME NEW i, NEW type, i # about \/ type # kind PROVE Told(i, type)' = Told(i, type)
  BY <1>1, <1>2, <1>3 DEF Told
<1>4. Cardinality(Told(about, kind))' = Cardinality(Told(about, kind)) + 1
  <2>1. Told(about, kind)' = Told(about, kind) \union {n} /\ n \notin Told(about, kind)
    BY <1>1, <1>2 DEF Told
  <2>2. IsFiniteSet(Told(about, kind))
    BY ToldIsFinite
  <2> QED BY <2>1, <2>2, FS_AddElement
<1>5. ASSUME NEW i
      PROVE  i \in Recorded' <=> i \in Recorded \union (IF kind = "codex.item.completed" THEN {about} ELSE {})
  BY <1>1, <1>2, RecordedIs, RecordedIsNext
<1> QED BY <1>1, <1>2, <1>3, <1>4, <1>5

(* The thread takes up what it owes anew, or forgets it. *)
Distinct(s) == \A k, l \in DOMAIN s : s[k] = s[l] => k = l

LEMMA ResumedOwes ==
  ASSUME Inv, Resume
  PROVE  item' = 0 /\ item = 0 /\ Distinct(worker'.todo)
         /\ Todo' \subseteq {"workspace.verified", "run.resumed"}
<1>1. item' = 0 /\ item = 0 /\ worker.todo = <<>>
  BY DEF Resume, Inv, Standing
<1>2. CASE UNCHANGED worker
  BY <1>1, <1>2 DEF Todo, Distinct
<1> DEFINE v == <<"workspace.verified">>
           r == <<"run.resumed">>
<1>3. CASE worker'.todo = v \o r
  <2>1. "workspace.verified" \in Types /\ "run.resumed" \in Types
        /\ "workspace.verified" # "run.resumed"
    BY DEF Types
  <2>2. Distinct(v \o r)
        /\ {(v \o r)[k] : k \in DOMAIN (v \o r)} = {"workspace.verified", "run.resumed"}
    BY <2>1, PairDiffers DEF Distinct
  <2> HIDE DEF v, r
  <2>3. Todo' = {(v \o r)[k] : k \in DOMAIN (v \o r)}
    BY <1>3 DEF Todo
  <2> QED BY <1>1, <1>3, <2>2, <2>3
<1>4. CASE worker'.todo = v
  BY <1>1, <1>4 DEF Todo, Distinct
<1>5. v \o <<>> = v
  OBVIOUS
<1>6. UNCHANGED worker \/ worker'.todo = v \o r \/ worker'.todo = v \o <<>>
  <2> HIDE DEF v, r
  <2> QED BY DEF Resume, v, r
<1> QED
  <2> HIDE DEF v, r
  <2> QED BY <1>2, <1>3, <1>4, <1>5, <1>6

(* Any step but the recording of an item says nothing of one, and owes no more of one. *)
LEMMA OthersOwe ==
  ASSUME Inv, Audited, [Next]_vars, ~ RecordItem, ~ Emit
  PROVE  /\ Quiet /\ Grown /\ Inv'
         /\ history' = history \/ (\E call \in Calls : history' = Append(history, call))
         /\ dropped \subseteq dropped' /\ retried' \subseteq retried \union Recorded
         /\ \/ item' = item /\ Todo' = Todo
            \/ item' = 0 /\ (item \in {0} \union dropped' \/ Todo = {})
         /\ Distinct(worker'.todo)
         /\ item' = 0 => Todo' \subseteq {"workspace.verified", "run.resumed"}
<1>1. Quiet /\ Grown /\ Inv'
  BY StepKeeps
<1>2. Distinct(worker.todo) /\ (item = 0 => Todo \subseteq {"workspace.verified", "run.resumed"})
  BY DEF Audited, Distinct
<1>3. Distinct(<<>>) /\ Distinct(Off.todo) /\ Off.todo = <<>>
  BY DEF Distinct, Off
<1>4. CASE ItemRecorded
  BY <1>1, <1>3, <1>4 DEF ItemRecorded, Todo, Inv, Data, WorkerState
<1>5. CASE CloseRun
  BY <1>1, <1>3, <1>5 DEF CloseRun, Todo, Inv, Standing
<1>6. CASE Crash
  BY <1>1, <1>3, <1>6 DEF Crash, Todo
<1>7. CASE Resume
  BY <1>1, <1>7, ResumedOwes DEF Resume
<1>8. CASE \E s \in {"success", "paused", "cancelled"} : EndRun(s)
  <2>1. worker'.todo = worker.todo /\ UNCHANGED <<item, history, dropped, retried>>
    BY <1>8 DEF EndRun, Inv, Data, WorkerState
  <2> QED BY <1>1, <1>2, <2>1 DEF Todo
<1>9. CASE \E call \in Calls : CompleteItem(call)
  BY <1>1, <1>2, <1>9 DEF CompleteItem, Todo
<1>10. CASE Retry
  BY <1>1, <1>2, <1>10 DEF Retry, Todo
<1>11. CASE UNCHANGED <<worker, item, history, dropped, retried>>
  BY <1>1, <1>2, <1>11 DEF Todo
<1>12. \/ ItemRecorded \/ CloseRun \/ Crash \/ Resume \/ Retry
       \/ \E s \in {"success", "paused", "cancelled"} : EndRun(s)
       \/ \E call \in Calls : CompleteItem(call)
       \/ UNCHANGED <<worker, item, history, dropped, retried>>
  BY ArchiverLeaves DEF Next, vars, WorkerStep, ReadPage, EndPage, Commit, ControlInactive, Review,
     run, archive
<1> QED BY <1>4, <1>5, <1>6, <1>7, <1>8, <1>9, <1>10, <1>11, <1>12

(* The App Server keeps what it has completed. *)
LEMMA HistoryGrows ==
  ASSUME Data, history' = history \/ (\E call \in Calls : history' = Append(history, call))
  PROVE  DOMAIN history \subseteq DOMAIN history' /\ \A i \in DOMAIN history : history'[i] = history[i]
<1>1. CASE history' = history
  BY <1>1
<1>2. ASSUME NEW call \in Calls, history' = Append(history, call)
      PROVE  DOMAIN history \subseteq DOMAIN history' /\ \A i \in DOMAIN history : history'[i] = history[i]
  <2>1. history \in Seq(Calls)
    BY DEF Data
  <2> QED BY <1>2, <2>1
<1> QED BY <1>1, <1>2

LEMMA OthersAudit ==
  ASSUME Inv, Audited, [Next]_vars, ~ RecordItem, ~ Emit
  PROVE  Audited'
<1>1. /\ Quiet /\ Grown /\ Data
      /\ history' = history \/ (\E call \in Calls : history' = Append(history, call))
      /\ dropped \subseteq dropped' /\ retried' \subseteq retried \union Recorded
      /\ \/ item' = item /\ Todo' = Todo
         \/ item' = 0 /\ (item \in {0} \union dropped' \/ Todo = {})
      /\ Distinct(worker'.todo)
      /\ item' = 0 => Todo' \subseteq {"workspace.verified", "run.resumed"}
  BY OthersOwe DEF Inv
<1>2. /\ Recorded' = Recorded
      /\ \A i, type : i # 0 => Told(i, type)' = Told(i, type)
      /\ \A j \in DOMAIN events' : events'[j].item = 0 \/ (j \in DOMAIN events /\ events'[j] = events[j])
  BY <1>1, QuietTells
<1>3. DOMAIN history \subseteq DOMAIN history' /\ \A i \in DOMAIN history : history'[i] = history[i]
  BY <1>1, HistoryGrows
<1>4. /\ Recorded \subseteq DOMAIN history /\ item \in {0} \union Recorded
      /\ \A i \in Recorded : i # 0
  BY DEF Audited, Inv, Data
<1>5. \A i \in DOMAIN history : DerivedTypes(i)' = DerivedTypes(i)
  <2> TAKE i \in DOMAIN history
  <2>1. Derived(i)' = Derived(i)
    BY <1>3 DEF Derived, Denied
  <2> QED BY <2>1 DEF DerivedTypes
<1>6. \A j \in DOMAIN events' : events'[j].item \in {0} \union Recorded'
  BY <1>2 DEF Audited
<1>7. /\ Recorded' \subseteq DOMAIN history' /\ item' \in {0} \union Recorded'
      /\ retried' \subseteq DOMAIN history'
  BY <1>1, <1>2, <1>3, <1>4 DEF Audited
<1>8. \A k, l \in DOMAIN worker'.todo : worker'.todo[k] = worker'.todo[l] => k = l
  BY <1>1 DEF Distinct
<1>9. Todo' \subseteq IF item' = 0 THEN {"workspace.verified", "run.resumed"} ELSE DerivedTypes(item)'
  <2>1. CASE item' = 0
    BY <1>1, <2>1
  <2>2. CASE item' # 0
    BY <1>1, <1>4, <1>5, <2>2 DEF Audited
  <2> QED BY <2>1, <2>2
<1>10. \A i \in Recorded' : Cardinality(Told(i, "codex.item.completed"))' = 1
  BY <1>2, <1>4 DEF Audited
<1>11. ASSUME NEW i \in Recorded' \ dropped', NEW type \in Kinds
       PROVE  Cardinality(Told(i, type))' = Tells(i, type)'
  <2>1. i \in Recorded /\ i \notin dropped /\ i # 0 /\ i \in DOMAIN history
    BY <1>1, <1>2, <1>4
  <2>2. Told(i, type)' = Told(i, type) /\ DerivedTypes(i)' = DerivedTypes(i)
    BY <1>2, <1>5, <2>1
  <2>3. (i = item /\ type \in Todo) <=> (i = item' /\ type \in Todo')
    BY <1>1, <2>1
  <2>4. Cardinality(Told(i, type)) = Tells(i, type)
    BY <2>1 DEF Audited
  <2> QED BY <2>2, <2>3, <2>4 DEF Tells
<1> QED BY <1>6, <1>7, <1>8, <1>9, <1>10, <1>11 DEF Audited

LEMMA RecordItemAudits ==
  ASSUME Inv, Audited, RecordItem
  PROVE  Audited'
<1>1. PICK n \in DOMAIN history :
        /\ n \notin Recorded /\ worker.todo = <<>> /\ item = 0 /\ item' = n
        /\ events' = Append(events, Event(worker.next, "codex.item.completed", n))
        /\ worker' = [worker EXCEPT !.next = @ + 1, !.todo = Derived(n)]
        /\ UNCHANGED <<history, noted>>
  <2> DEFINE S == DOMAIN history \ Recorded
  <2>1. Min(S) \in S
    <3>1. S # {} /\ S \in SUBSET Nat
      BY DEF RecordItem, Inv, Data
    <3> HIDE DEF S
    <3> QED BY <3>1, LeastNatural
  <2> QED BY <2>1 DEF RecordItem
<1>2. /\ item = 0 /\ item' = n /\ events' = Append(events, Event(worker.next, "codex.item.completed", n))
      /\ worker' = [worker EXCEPT !.next = @ + 1, !.todo = Derived(n)]
      /\ UNCHANGED <<history, noted>>
  BY <1>1
<1>3. Data /\ worker.next \in Nat /\ n \in Nat /\ n # 0 /\ worker'.todo = Derived(n)
  BY <1>1, <1>2 DEF Inv, Data, WorkerState
<1>4. "codex.item.completed" \in Types /\ "codex.item.completed" \notin Kinds
  BY DEF Types, Kinds
<1>5. /\ \A i, type : i # n \/ type # "codex.item.completed" => Told(i, type)' = Told(i, type)
      /\ Cardinality(Told(n, "codex.item.completed"))'
           = Cardinality(Told(n, "codex.item.completed")) + 1
      /\ Recorded' = Recorded \union {n}
      /\ \A j \in DOMAIN events' : events'[j].item = n \/ (j \in DOMAIN events /\ events'[j] = events[j])
  BY <1>2, <1>3, <1>4, AppendTells
<1>6. \A type : Told(n, type) = {} /\ Cardinality(Told(n, type)) = 0
  <2> TAKE type
  <2>1. Told(n, type) = {}
    BY <1>1, <1>3 DEF Audited, Told
  <2> QED BY <2>1, FS_EmptySet
<1>7. \A i : DerivedTypes(i)' = DerivedTypes(i)
  BY <1>2 DEF DerivedTypes, Derived, Denied
<1>8. Todo' = DerivedTypes(n) /\ Distinct(worker'.todo)
  BY <1>1, <1>3, DerivedIs DEF Todo, DerivedTypes, Distinct
<1>9. /\ \A j \in DOMAIN events' : events'[j].item \in {0} \union Recorded'
      /\ Recorded' \subseteq DOMAIN history' /\ item' \in {0} \union Recorded'
      /\ retried' \subseteq DOMAIN history'
  BY <1>1, <1>2, <1>5 DEF Audited
<1>10. /\ \A k, l \in DOMAIN worker'.todo : worker'.todo[k] = worker'.todo[l] => k = l
       /\ Todo' \subseteq IF item' = 0 THEN {"workspace.verified", "run.resumed"} ELSE DerivedTypes(item)'
  BY <1>2, <1>3, <1>7, <1>8 DEF Distinct
<1>11. ASSUME NEW i \in Recorded' PROVE Cardinality(Told(i, "codex.item.completed"))' = 1
  <2>1. CASE i = n
    BY <1>5, <1>6, <2>1
  <2>2. CASE i # n
    <3>1. i \in Recorded /\ Told(i, "codex.item.completed")' = Told(i, "codex.item.completed")
      BY <1>5, <2>2
    <3> QED BY <3>1 DEF Audited
  <2> QED BY <2>1, <2>2
<1>12. ASSUME NEW i \in Recorded' \ dropped', NEW type \in Kinds
       PROVE  Cardinality(Told(i, type))' = Tells(i, type)'
  <2>1. Told(i, type)' = Told(i, type)
    BY <1>4, <1>5
  <2>2. CASE i = n
    <3>1. Tells(i, type)' = 0
      BY <1>2, <1>7, <1>8, <2>2 DEF Tells
    <3> QED BY <1>6, <2>1, <2>2, <3>1
  <2>3. CASE i # n
    <3>1. i \in Recorded \ dropped /\ i # 0
      BY <1>2, <1>5, <2>3 DEF Audited, Inv, Data
    <3>2. Cardinality(Told(i, type)) = Tells(i, type)
      BY <3>1 DEF Audited
    <3>3. Tells(i, type)' = Tells(i, type)
      BY <1>2, <1>7, <2>3, <3>1 DEF Tells
    <3> QED BY <2>1, <3>2, <3>3
  <2> QED BY <2>2, <2>3
<1> QED BY <1>9, <1>10, <1>11, <1>12 DEF Audited

LEMMA EmitAudits ==
  ASSUME Inv, Audited, Emit
  PROVE  Audited'
<1>1. /\ worker.todo # <<>>
      /\ events' = Append(events, Event(worker.next, Head(worker.todo), item))
      /\ worker' = [worker EXCEPT !.next = @ + 1, !.todo = Tail(@)]
      /\ UNCHANGED <<history, noted, item>>
  BY DEF Emit
<1>2. /\ Data /\ worker.next \in Nat /\ item \in Nat /\ worker'.todo = Tail(worker.todo)
      /\ worker.todo \in Seq(Owes) /\ Head(worker.todo) \in Owes
  BY <1>1 DEF Inv, Data, WorkerState
<1>3. PICK kind \in Owes, about \in Nat : kind = Head(worker.todo) /\ about = item
  BY <1>2
<1>4. /\ kind \in Types /\ kind # "codex.item.completed"
      /\ Distinct(worker'.todo) /\ Todo' = Todo \ {kind} /\ kind \in Todo
      /\ about = item /\ about = item'
  <2> DEFINE s == worker.todo
             t == Tail(s)
  <2>1. kind \in Types /\ kind # "codex.item.completed" /\ s \in Seq(Types) /\ s # <<>>
        /\ \A k, l \in DOMAIN s : s[k] = s[l] => k = l
    BY <1>1, <1>2 DEF Owes, Types, Audited
  <2>2. /\ \A k, l \in DOMAIN t : t[k] = t[l] => k = l
        /\ {t[k] : k \in DOMAIN t} = {s[k] : k \in DOMAIN s} \ {Head(s)}
        /\ Head(s) \in {s[k] : k \in DOMAIN s}
    <3> HIDE DEF s
    <3> QED BY <2>1, FirstIsTaken
  <2>3. Todo' = {t[k] : k \in DOMAIN t} /\ Todo = {s[k] : k \in DOMAIN s}
        /\ worker'.todo = t /\ kind = Head(s)
    BY <1>2, <1>3 DEF Todo
  <2> HIDE DEF s, t
  <2> QED BY <1>1, <1>3, <2>1, <2>2, <2>3 DEF Distinct
<1>5. /\ \A i, type : i # about \/ type # kind => Told(i, type)' = Told(i, type)
      /\ Cardinality(Told(about, kind))' = Cardinality(Told(about, kind)) + 1
      /\ Recorded' = Recorded
      /\ \A j \in DOMAIN events' : events'[j].item = about \/ (j \in DOMAIN events /\ events'[j] = events[j])
  <2>1. events' = Append(events, Event(worker.next, kind, about))
    BY <1>1, <1>3
  <2>2. Recorded' = Recorded \union (IF kind = "codex.item.completed" THEN {about} ELSE {})
        /\ <1>5!1 /\ <1>5!2 /\ <1>5!4
    BY <1>2, <1>4, <2>1, AppendTells
  <2> QED BY <1>4, <2>2
<1>6. \A i : DerivedTypes(i)' = DerivedTypes(i)
  BY <1>1 DEF DerivedTypes, Derived, Denied
<1>7. /\ \A j \in DOMAIN events' : events'[j].item \in {0} \union Recorded'
      /\ Recorded' \subseteq DOMAIN history' /\ item' \in {0} \union Recorded'
      /\ retried' \subseteq DOMAIN history'
  BY <1>1, <1>4, <1>5 DEF Audited
<1>8. /\ \A k, l \in DOMAIN worker'.todo : worker'.todo[k] = worker'.todo[l] => k = l
      /\ Todo' \subseteq IF item' = 0 THEN {"workspace.verified", "run.resumed"} ELSE DerivedTypes(item)'
  BY <1>1, <1>4, <1>6 DEF Distinct, Audited
<1>9. \A i \in Recorded' : Cardinality(Told(i, "codex.item.completed"))' = 1
  BY <1>4, <1>5 DEF Audited
<1>10. ASSUME NEW i \in Recorded' \ dropped', NEW type \in Kinds
       PROVE  Cardinality(Told(i, type))' = Tells(i, type)'
  <2>1. i \in Recorded \ dropped /\ Cardinality(Told(i, type)) = Tells(i, type)
    BY <1>1, <1>5 DEF Audited
  <2>2. CASE i # about \/ type # kind
    <3>1. Told(i, type)' = Told(i, type) /\ Tells(i, type)' = Tells(i, type)
      BY <1>1, <1>4, <1>5, <1>6, <2>2 DEF Tells
    <3> QED BY <2>1, <3>1
  <2>3. CASE i = about /\ type = kind
    <3>1. item # 0 /\ kind \in DerivedTypes(item)
      BY <1>4, <2>1, <2>3 DEF Audited, Inv, Data
    <3>2. Tells(i, type) = 0 /\ Tells(i, type)' = 1
      BY <1>1, <1>4, <1>6, <2>3, <3>1 DEF Tells
    <3>3. Cardinality(Told(i, type))' = Cardinality(Told(i, type)) + 1
      BY <1>5, <2>3
    <3> QED BY <2>1, <3>2, <3>3
  <2> QED BY <2>2, <2>3
<1> QED BY <1>7, <1>8, <1>9, <1>10 DEF Audited

LEMMA AuditedAlways == Spec => []Audited
<1>1. Init => Audited
  <2> SUFFICES ASSUME Init PROVE Audited
    OBVIOUS
  <2>1. /\ DOMAIN events = {1} /\ events[1].type = "run.started" /\ events[1].item = 0
        /\ worker.todo = <<>> /\ item = 0 /\ retried = {}
    BY DEF Init, Event
  <2>2. Recorded = {}
    BY <2>1 DEF Recorded
  <2> QED BY <2>1, <2>2 DEF Audited, Todo
<1>2. Inv /\ Audited /\ [Next]_vars => Audited'
  BY OthersAudit, RecordItemAudits, EmitAudits
<1> QED BY <1>1, <1>2, TimelineInvariant, PTL DEF Spec

(* Pauses, crashes and resumptions neither lose nor repeat what the trail says of an item: the *)
(* item's own event is there once, and with it exactly the events the recorder derives.         *)
THEOREM EveryItemIsAudited == Spec => []ItemsAreAudited
<1>1. Audited => ItemsAreAudited
  <2> SUFFICES ASSUME Audited PROVE ItemsAreAudited
    OBVIOUS
  <2>1. \A i \in Recorded : i # item /\ i \notin dropped =>
          \A type \in {"command.completed", "file.changed", "permission.denied"} :
            Cardinality(Told(i, type)) =
              (IF \E k \in DOMAIN Derived(i) : Derived(i)[k] = type THEN 1 ELSE 0)
    BY DEF Audited, Tells, DerivedTypes, Kinds
  <2> QED BY <2>1 DEF Audited, ItemsAreAudited
<1> QED BY <1>1, AuditedAlways, PTL

(* What the variables of the trail and of its readers hold: no event is about an item the *)
(* thread never completed, and the stream is never ahead of the file.                     *)
THEOREM TimelineTypes == Spec => []TypeOK
<1>1. Inv /\ Audited /\ Shown => TypeOK
  <2> SUFFICES ASSUME Inv, Audited, Shown PROVE TypeOK
    OBVIOUS
  <2>1. ASSUME NEW i \in DOMAIN events
        PROVE  events[i] \in [seq : Nat, type : Types, item : 0 .. Len(history)]
    <3>1. events[i] \in Entry
      BY EventAt DEF Inv
    <3>2. events[i].item \in 0 .. Len(history)
      <4>1. events[i].item \in {0} \union DOMAIN history
        BY DEF Audited
      <4>2. DOMAIN history = 1 .. Len(history) /\ Len(history) \in Nat
        BY DEF Inv, Data
      <4> QED BY <4>1, <4>2
    <3> QED BY <3>1, <3>2 DEF Entry
  <2>2. worker.pc \in {"off", "turn", "closing"} /\ worker.next \in Nat
    BY DEF Inv, Data, WorkerState
  <2>3. /\ arch \in [Web -> [pc : {"off", "gather", "retrieve", "frozen", "queue", "summarise",
                                "send"}, sink : Nat, own : Nat, calls : 0 .. Lookups]]
        /\ retried \subseteq DOMAIN history
    BY DEF Inv, Data, ArchState, Stand, Audited
  <2> QED BY <2>1, <2>2, <2>3 DEF Inv, Data, Shown, TypeOK
<1> QED BY <1>1, TimelineInvariant, AuditedAlways, ShownAlways, PTL
-----------------------------------------------------------------------------
(* A run that goes on has answered for every forbidden action that succeeded and is recorded, *)
(* but for the one being recorded and those a retry found there; one that succeeded has        *)
(* recorded all there was.                                                                      *)
Answered ==
  /\ status # "infrastructure_error" => \A i \in Recorded : Breach(i) => i \in dropped \union retried \union {item}
  /\ status = "success" => DOMAIN history \subseteq Recorded

(* How a step that records no item can go on from a forbidden action that succeeded. *)
LEMMA OthersAnswer ==
  ASSUME Inv, [Next]_vars, ~ RecordItem, ~ Emit
  PROVE  /\ status' # "infrastructure_error" =>
              status # "infrastructure_error" \/ Recorded \subseteq retried'
         /\ retried \subseteq retried'
         /\ status' = "success" =>
              history' = history /\ (status = "success" \/ DOMAIN history \subseteq Recorded)
         /\ status' # "infrastructure_error" =>
              \/ dropped' = dropped /\ (item' = item \/ ~ Breach(item))
              \/ dropped' = dropped \union ({item} \ {0})
<1>1. /\ worker.pc = "turn" => status = "running"
      /\ item # 0 => worker.pc = "turn"
  BY DEF Inv, Standing
<1>2. CASE ItemRecorded
  BY <1>1, <1>2 DEF ItemRecorded
<1>3. CASE CloseRun \/ Resume
  BY <1>1, <1>3 DEF CloseRun, Resume, run
<1>4. CASE Crash
  BY <1>4 DEF Crash, run
<1>5. CASE \E s \in {"success", "paused", "cancelled"} : EndRun(s)
  BY <1>1, <1>5 DEF EndRun
<1>6. CASE \E call \in Calls : CompleteItem(call)
  BY <1>1, <1>6 DEF CompleteItem, run
<1>7. CASE \E s \in {"paused", "cancelled"} : ControlInactive(s)
  BY <1>7 DEF ControlInactive
<1>8. CASE Retry
  BY <1>8 DEF Retry
<1>9. CASE UNCHANGED <<status, item, history, dropped, retried>>
  BY <1>9
<1>10. CASE \/ ReadPage \/ EndPage \/ Commit \/ UNCHANGED vars
            \/ \E decision \in {"approved", "rejected"} : Review(decision)
  <2>1. UNCHANGED <<status, item, history, dropped, retried>>
    BY <1>10 DEF ReadPage, EndPage, Commit, Review, vars, run
  <2> QED BY <1>9, <2>1
<1>11. ASSUME NEW w \in Web, ArchiveStep(w) \/ BeginArchive(w) \/ RetryArchive(w)
       PROVE  UNCHANGED <<status, item, history, dropped, retried>>
  BY <1>11, ArchiverLeaves
<1> QED BY <1>2, <1>3, <1>4, <1>5, <1>6, <1>7, <1>8, <1>9, <1>10, <1>11 DEF Next, WorkerStep

LEMMA StepAnswers ==
  ASSUME Inv, Audited, Answered, [Next]_vars
  PROVE  Answered'
<1>1. /\ Recorded \subseteq DOMAIN history
      /\ worker.pc = "turn" => status = "running"
      /\ worker.pc # "turn" => worker.todo = <<>>
  BY DEF Audited, Inv, Standing
<1>2. CASE RecordItem
  <2>1. /\ worker.pc = "turn" /\ UNCHANGED <<status, history, noted>> /\ item = 0
        /\ Recorded' \subseteq Recorded \union {item'}
    <3>1. /\ events' = Append(events, Event(worker.next, "codex.item.completed", item'))
          /\ UNCHANGED <<status, history, noted>> /\ item = 0 /\ worker.pc = "turn"
      BY <1>2 DEF RecordItem, run
    <3>2. PICK n \in Nat : n = item'
      BY <1>2, RecordItemKeeps DEF Inv, Data
    <3>3. Recorded' \subseteq Recorded \union {n}
      <4>1. Data /\ worker.next \in Nat /\ "codex.item.completed" \in Types
            /\ events' = Append(events, Event(worker.next, "codex.item.completed", n))
        BY <3>1, <3>2 DEF Inv, Data, WorkerState, Types
      <4> QED BY <4>1, AppendTells
    <3> QED BY <3>1, <3>2, <3>3
  <2>2. \A i : Breach(i)' <=> Breach(i)
    BY <2>1 DEF Breach
  <2>3. \A i \in Recorded : i # 0
    BY <1>1 DEF Inv, Data
  <2> QED BY <1>1, <2>1, <2>2, <2>3 DEF Answered
<1>3. CASE Emit
  <2>1. worker.pc = "turn" /\ UNCHANGED <<status, history, noted, item>>
    BY <1>1, <1>3 DEF Emit, run
  <2>2. Recorded' = Recorded
    <3>1. PICK kind \in Owes, about \in Nat : kind = Head(worker.todo) /\ about = item
      BY <1>3 DEF Emit, Inv, Data, WorkerState
    <3>2. Data /\ worker.next \in Nat /\ kind \in Types /\ kind # "codex.item.completed"
          /\ events' = Append(events, Event(worker.next, kind, about))
      BY <1>3, <3>1 DEF Emit, Inv, Data, WorkerState, Owes, Types
    <3> QED BY <3>2, AppendTells
  <2>3. \A i : Breach(i)' <=> Breach(i)
    BY <2>1 DEF Breach
  <2> QED BY <1>1, <2>1, <2>2, <2>3 DEF Answered
<1>4. CASE ~ RecordItem /\ ~ Emit
  <2>1. /\ Quiet /\ Grown /\ Data
        /\ history' = history \/ (\E call \in Calls : history' = Append(history, call))
    BY <1>4, OthersOwe DEF Inv
  <2>2. Recorded' = Recorded
    BY <2>1, QuietTells
  <2>3. \A i \in DOMAIN history : Breach(i)' <=> Breach(i)
    <3>1. \A i \in DOMAIN history : history'[i] = history[i]
      BY <2>1, HistoryGrows
    <3> QED BY <3>1 DEF Breach
  <2>4. /\ status' # "infrastructure_error" =>
             status # "infrastructure_error" \/ Recorded \subseteq retried'
        /\ retried \subseteq retried'
        /\ status' = "success" =>
             history' = history /\ (status = "success" \/ DOMAIN history \subseteq Recorded)
        /\ status' # "infrastructure_error" =>
             \/ dropped' = dropped /\ (item' = item \/ ~ Breach(item))
             \/ dropped' = dropped \union ({item} \ {0})
    BY <1>4, OthersAnswer
  <2>5. \A i \in Recorded : i # 0
    BY <1>1 DEF Inv, Data
  <2> QED BY <1>1, <2>2, <2>3, <2>4, <2>5 DEF Answered
<1> QED BY <1>2, <1>3, <1>4

(* A run is offered for review only if every forbidden command and change outside the worktree *)
(* that succeeded is one whose recording a crash cut short, or one that was recorded when a     *)
(* queue tried the failed run again.                                                            *)
THEOREM BreachNeverSucceeds == Spec => []BreachFailsTheRun
<1>1. Init => Answered
  <2> SUFFICES ASSUME Init PROVE Answered
    OBVIOUS
  <2>1. events[1].type = "run.started" /\ DOMAIN events = {1} /\ status = "running"
    BY DEF Init, Event
  <2> QED BY <2>1 DEF Answered, Recorded
<1>2. Inv /\ Audited /\ Answered /\ [Next]_vars => Answered'
  BY StepAnswers
<1>3. Inv /\ Answered => BreachFailsTheRun
  BY DEF Inv, Data, Standing, Answered, BreachFailsTheRun
<1> QED BY <1>1, <1>2, <1>3, TimelineInvariant, AuditedAlways, PTL DEF Spec
=============================================================================
