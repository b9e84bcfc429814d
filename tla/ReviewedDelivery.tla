-------------------------- MODULE ReviewedDelivery --------------------------
(***************************************************************************)
(* What review and delivery promise together, without files, git and       *)
(* crashes: a version of the work is approved, one version is delivered,   *)
(* an approved one unless the work was tampered with, and the task is      *)
(* closed as completed only when it was.                                   *)
(***************************************************************************)
EXTENDS Naturals

CONSTANT Versions

VARIABLES
  approved,  \* the versions a person approved
  delivered, \* the version that was delivered, as a set of at most one
  tampered,  \* somebody got at the work between its last inspection and its delivery
  outcome    \* "open", "completed" or "rejected"

vars == <<approved, delivered, tampered, outcome>>

Init == approved = {} /\ delivered = {} /\ tampered = FALSE /\ outcome = "open"

\* A person approves a version while the task is open.
Approve(v) ==
  /\ outcome = "open"
  /\ approved' = approved \union {v}
  /\ UNCHANGED <<delivered, tampered, outcome>>

Tamper ==
  /\ outcome = "open" /\ ~tampered
  /\ tampered' = TRUE
  /\ UNCHANGED <<approved, delivered, outcome>>

\* The only delivery there ever is.
Deliver(v) ==
  /\ outcome = "open"
  /\ delivered = {} /\ (tampered \/ v \in approved)
  /\ delivered' = {v}
  /\ UNCHANGED <<approved, tampered, outcome>>

Complete ==
  /\ outcome = "open" /\ delivered # {}
  /\ outcome' = "completed"
  /\ UNCHANGED <<approved, delivered, tampered>>

Reject ==
  /\ outcome = "open"
  /\ outcome' = "rejected"
  /\ UNCHANGED <<approved, delivered, tampered>>

Next == (\E v \in Versions : Approve(v) \/ Deliver(v)) \/ Tamper \/ Complete \/ Reject

Spec == Init /\ [][Next]_vars
=============================================================================
