----------------------------- MODULE MCTimeline -----------------------------
(* The items of Timeline for TLC: a command that the sandbox refused, one    *)
(* that is forbidden and succeeded, and a change outside the worktree that   *)
(* did not.                                                                  *)
EXTENDS Timeline

Call(type, banned, refused, ok) ==
  [type |-> type, banned |-> banned, refused |-> refused, ok |-> ok]

MCCalls == {Call("command", FALSE, TRUE, FALSE), Call("command", TRUE, FALSE, TRUE),
            Call("file", TRUE, FALSE, FALSE)}
=============================================================================
