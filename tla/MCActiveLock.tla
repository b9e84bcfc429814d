---------------------------- MODULE MCActiveLock ----------------------------
(* Three threads in three processes, or two of them in one process (the    *)
(* API server runs an executor thread and request threads side by side).   *)
EXTENDS ActiveLock

CONSTANTS a1, a2, a3, p1, p2, p3

MCSeparate == [a \in Actors |-> IF a = a1 THEN p1 ELSE IF a = a2 THEN p2 ELSE p3]
MCShared   == [a \in Actors |-> IF a = a3 THEN p2 ELSE p1]
=============================================================================
