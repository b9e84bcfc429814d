----------------------------- MODULE ActiveLock -----------------------------
(***************************************************************************)
(* The repository-wide lock file .codex-orchestrator/active.lock, as       *)
(* StateStore acquires, judges, breaks and releases it (codex_loop/        *)
(* state.py).  The file system gives exactly two atomic operations: link,  *)
(* which fails when the name exists, and unlink, which removes whatever    *)
(* the name holds now.  Everything between two file operations, or between *)
(* a file operation and os.kill, is a point where another thread or        *)
(* process may run.                                                        *)
(*                                                                         *)
(* overtaken and broken are history variables: no action reads them but to *)
(* update them.  LinkOver, JudgeActiveBlindly and JudgeStaleBlindly are    *)
(* mutants: slips in the definition after them, which no action uses and   *)
(* the properties must catch.                                              *)
(***************************************************************************)
EXTENDS Naturals

CONSTANTS
  Actors,      \* threads that may take the lock
  Processes,   \* process ids; one process may hold several actors
  PidOf,       \* the process of each actor
  PidReuse,    \* TRUE: a dead process id may come back to life
  MaxCrashes,  \* bound on process crashes
  NoOwner      \* the lock file does not exist

ASSUME ActorAssumption == PidOf \in [Actors -> Processes] /\ NoOwner \notin Actors
ASSUME ModeAssumption  == PidReuse \in BOOLEAN
ASSUME BoundAssumption == MaxCrashes \in Nat

VARIABLES
  lock,      \* the actor whose metadata the lock file holds, or NoOwner
  pc,        \* where each actor is in acquire / release
  seen,      \* the owner a contender has read and is judging
  alive,     \* the process ids that os.kill(pid, 0) finds
  crashes,   \* crashes so far
  overtaken, \* contenders who read the file before the present one was linked
  broken     \* one of them has removed the file

vars == <<lock, pc, seen, alive, crashes, overtaken, broken>>

Owner == Actors \cup {NoOwner}

Contending == {"link", "inspect", "judge", "unlink", "conflict"}

(* The contenders whose decision rests on what the file held when they     *)
(* read it.                                                                *)
Deciding == {a \in Actors : pc[a] \in {"judge", "unlink"}}
Holders  == {a \in Actors : pc[a] \in {"holding", "release"}}

Running(a) == PidOf[a] \in alive

Move(a, from, to) ==
  /\ Running(a)
  /\ pc[a] = from
  /\ pc' = [pc EXCEPT ![a] = to]

-----------------------------------------------------------------------------
Init ==
  /\ lock = NoOwner
  /\ pc = [a \in Actors |-> "idle"]
  /\ seen = [a \in Actors |-> NoOwner]
  /\ alive = Processes
  /\ crashes = 0
  /\ overtaken = {}
  /\ broken = FALSE

(* acquire_active_lock writes its private candidate file; nothing shared.  *)
Prepare(a) ==
  /\ Move(a, "idle", "link")
  /\ UNCHANGED <<lock, seen, alive, crashes, overtaken, broken>>

(* os.link(candidate, active.lock): atomic create with the full metadata.  *)
(* Mutant: a rename, which replaces a file that is there.                  *)
LinkOver(a) ==
  /\ Move(a, "link", "holding")
  /\ lock' = a
  /\ overtaken' = overtaken \cup Deciding
  /\ UNCHANGED <<seen, alive, crashes, broken>>

Link(a) ==
  /\ lock = NoOwner
  /\ Move(a, "link", "holding")
  /\ lock' = a
  /\ overtaken' = overtaken \cup Deciding
  /\ UNCHANGED <<seen, alive, crashes, broken>>

(* os.link raises FileExistsError. *)
LinkExists(a) ==
  /\ lock # NoOwner
  /\ Move(a, "link", "inspect")
  /\ UNCHANGED <<lock, seen, alive, crashes, overtaken, broken>>

(* _existing_lock_is_active reads the metadata; a file that is gone by now *)
(* counts as stale.                                                        *)
ReadLock(a) ==
  /\ Move(a, "inspect", IF lock = NoOwner THEN "unlink" ELSE "judge")
  /\ seen' = [seen EXCEPT ![a] = lock]
  /\ UNCHANGED <<lock, alive, crashes, overtaken, broken>>

(* The answer was given; what was read is forgotten. *)
Decided(a) == seen' = [seen EXCEPT ![a] = NoOwner]

(* os.kill(pid, 0) finds the process that was read. *)
JudgeActiveBlindly(a) ==
  /\ Move(a, "judge", "conflict")
  /\ Decided(a)
  /\ overtaken' = overtaken \ {a}
  /\ UNCHANGED <<lock, alive, crashes, broken>>

JudgeActive(a) ==
  /\ Move(a, "judge", "conflict")
  /\ Running(seen[a])
  /\ Decided(a)
  /\ overtaken' = overtaken \ {a}
  /\ UNCHANGED <<lock, alive, crashes, broken>>

(* os.kill raises ProcessLookupError. *)
JudgeStaleBlindly(a) ==
  /\ Move(a, "judge", "unlink")
  /\ Decided(a)
  /\ UNCHANGED <<lock, alive, crashes, overtaken, broken>>

JudgeStale(a) ==
  /\ Move(a, "judge", "unlink")
  /\ ~Running(seen[a])
  /\ Decided(a)
  /\ UNCHANGED <<lock, alive, crashes, overtaken, broken>>

(* _remove_stale_lock unlinks the name, whoever owns it by now, and the    *)
(* loop of acquire_active_lock tries again.                                *)
Unlink(a) ==
  /\ Move(a, "unlink", "link")
  /\ lock' = NoOwner
  /\ broken' = (broken \/ a \in overtaken)
  /\ overtaken' = overtaken \ {a}
  /\ UNCHANGED <<seen, alive, crashes>>

(* ActiveRunError, or FileNotFoundError when the owner let go meanwhile.   *)
Refuse(a) ==
  /\ Move(a, "conflict", "idle")
  /\ UNCHANGED <<lock, seen, alive, crashes, overtaken, broken>>

(* release_active_lock reads the metadata; it returns without unlinking    *)
(* when the file is gone or carries another token.                         *)
ReadForRelease(a) ==
  /\ Move(a, "holding", IF lock = a THEN "release" ELSE "idle")
  /\ UNCHANGED <<lock, seen, alive, crashes, overtaken, broken>>

Release(a) ==
  /\ Move(a, "release", "idle")
  /\ lock' = NoOwner
  /\ UNCHANGED <<seen, alive, crashes, overtaken, broken>>

(* A process dies with all its threads; what it wrote stays on disk. *)
Crash(p) ==
  /\ p \in alive
  /\ crashes < MaxCrashes
  /\ crashes' = crashes + 1
  /\ alive' = alive \ {p}
  /\ pc' = [a \in Actors |-> IF PidOf[a] = p THEN "idle" ELSE pc[a]]
  /\ seen' = [a \in Actors |-> IF PidOf[a] = p THEN NoOwner ELSE seen[a]]
  /\ overtaken' = {a \in overtaken : PidOf[a] # p}
  /\ UNCHANGED <<lock, broken>>

(* The operating system hands the dead process's id out again. *)
Reuse(p) ==
  /\ PidReuse
  /\ p \in Processes \ alive
  /\ alive' = alive \cup {p}
  /\ UNCHANGED <<lock, pc, seen, crashes, overtaken, broken>>

Step(a) ==
  \/ Prepare(a) \/ Link(a) \/ LinkExists(a) \/ ReadLock(a)
  \/ JudgeActive(a) \/ JudgeStale(a) \/ Unlink(a) \/ Refuse(a)
  \/ ReadForRelease(a) \/ Release(a)

Next ==
  \/ \E a \in Actors : Step(a)
  \/ \E p \in Processes : Crash(p) \/ Reuse(p)

Spec == Init /\ [][Next]_vars

(* A thread that runs keeps running: every actor retries for ever and      *)
(* releases what it holds (the finally clauses of every caller).           *)
FairSpec == Spec /\ \A a \in Actors : WF_vars(Step(a))

-----------------------------------------------------------------------------
(* Type invariant. *)
TypeOK ==
  /\ lock \in Owner
  /\ pc \in [Actors -> Contending \cup {"idle", "holding", "release"}]
  /\ seen \in [Actors -> Owner]
  /\ \A a \in Actors : pc[a] = "judge" => seen[a] \in Actors
  /\ alive \subseteq Processes
  /\ overtaken \subseteq Deciding
  /\ broken \in BOOLEAN

(* At most one live thread believes it owns the repository, as ActiveRun-  *)
(* Error is "Raised when another live process owns the repository-wide     *)
(* task lock" (state.py:37).  The code does not keep this: see LockRace.   *)
Exclusive == \A a, b \in Holders : a = b

(* What the code does keep, for callers that contend as they please: only  *)
(* a contender that read the file before the present one was linked, and   *)
(* then removed the present one, can let a second holder in.  Crashes,     *)
(* reused process ids, releases and judgements in time never do.           *)
SharedOnlyWhenOvertaken == broken \/ Exclusive

(* The inductive strengthening: dead processes run nothing, and until a    *)
(* file was broken that way, a holder's file carries its metadata, what a  *)
(* contender has read is still the only possible holder, and who is about  *)
(* to unlink in time is breaking a lock that nobody holds.                 *)
DeadAreIdle    == \A a \in Actors : ~Running(a) => pc[a] = "idle"
HolderOwnsFile == \A a \in Holders : lock = a
ReadInTime     ==
  \A a \in Deciding \ overtaken :
    \A h \in Holders : pc[a] = "judge" /\ seen[a] = h
LockInv ==
  /\ TypeOK
  /\ DeadAreIdle
  /\ broken \/ (HolderOwnsFile /\ ReadInTime)

(* A crashed owner never blocks the repository for good: the file it left  *)
(* behind is eventually removed, as long as some process lives to ask for  *)
(* the lock and the dead one's id is not handed out again.                 *)
StaleLockIsReclaimed ==
  \A a \in Actors :
    lock = a /\ ~Running(a) ~> lock # a \/ Running(a) \/ alive = {}
=============================================================================
