-------------------------- MODULE ActiveLockProofs --------------------------
(***************************************************************************)
(* The lock protocol for callers that contend as they please: any set of   *)
(* threads and processes, any number of crashes and any reuse of ids.      *)
(***************************************************************************)
EXTENDS ActiveLock, TLAPS

LEMMA InitLockInv == Init => LockInv
  BY ActorAssumption DEF Init, LockInv, TypeOK, Owner, DeadAreIdle,
     HolderOwnsFile, ReadInTime, Deciding, Holders, Contending, Running

LEMMA LockInvStep ==
  ASSUME LockInv, [Next]_vars
  PROVE  LockInv'
<1> USE DEF LockInv, TypeOK, Owner, DeadAreIdle, HolderOwnsFile, ReadInTime,
            Deciding, Holders, Contending, Running
<1>1. ASSUME NEW a \in Actors, Prepare(a) PROVE LockInv'
  BY <1>1, ActorAssumption DEF Prepare, Move
<1>2. ASSUME NEW a \in Actors, Link(a) PROVE LockInv'
  BY <1>2, ActorAssumption DEF Link, Move
<1>3. ASSUME NEW a \in Actors, LinkExists(a) PROVE LockInv'
  BY <1>3, ActorAssumption DEF LinkExists, Move
<1>4. ASSUME NEW a \in Actors, ReadLock(a) PROVE LockInv'
  <2>1. CASE lock = NoOwner
    BY <1>4, <2>1, ActorAssumption DEF ReadLock, Move
  <2>2. CASE lock # NoOwner
    BY <1>4, <2>2, ActorAssumption DEF ReadLock, Move
  <2> QED
    BY <2>1, <2>2
<1>5. ASSUME NEW a \in Actors, JudgeActive(a) PROVE LockInv'
  BY <1>5, ActorAssumption DEF JudgeActive, Move, Decided
<1>6. ASSUME NEW a \in Actors, JudgeStale(a) PROVE LockInv'
  BY <1>6, ActorAssumption DEF JudgeStale, Move, Decided
<1>7. ASSUME NEW a \in Actors, Unlink(a) PROVE LockInv'
  BY <1>7, ActorAssumption DEF Unlink, Move
<1>8. ASSUME NEW a \in Actors, Refuse(a) PROVE LockInv'
  BY <1>8, ActorAssumption DEF Refuse, Move
<1>9. ASSUME NEW a \in Actors, ReadForRelease(a) PROVE LockInv'
  BY <1>9, ActorAssumption DEF ReadForRelease, Move
<1>10. ASSUME NEW a \in Actors, Release(a) PROVE LockInv'
  BY <1>10, ActorAssumption DEF Release, Move
<1>11. ASSUME NEW p \in Processes, Crash(p) PROVE LockInv'
  BY <1>11, ActorAssumption DEF Crash
<1>12. ASSUME NEW p \in Processes, Reuse(p) PROVE LockInv'
  BY <1>12, ActorAssumption DEF Reuse
<1>13. CASE UNCHANGED vars
  BY <1>13 DEF vars
<1> QED
  BY <1>1, <1>2, <1>3, <1>4, <1>5, <1>6, <1>7, <1>8, <1>9, <1>10, <1>11,
     <1>12, <1>13 DEF Next, Step

(* Until a contender removes a lock linked after the one it read, the file *)
(* names the live holder and nobody is about to remove a holder's file.    *)
THEOREM LockInvariant == Spec => []LockInv
<1>1. LockInv /\ [Next]_vars => LockInv'
  BY LockInvStep
<1> QED
  BY InitLockInv, <1>1, PTL DEF Spec

(* That late removal is the only way to two holders, whatever crashes,     *)
(* whichever process ids come back and however many callers contend.       *)
THEOREM TwoHoldersNeedAnOvertaking == Spec => []SharedOnlyWhenOvertaken
<1>1. LockInv => SharedOnlyWhenOvertaken
  BY DEF LockInv, HolderOwnsFile, SharedOnlyWhenOvertaken, Exclusive
<1> QED
  BY LockInvariant, <1>1, PTL
=============================================================================
