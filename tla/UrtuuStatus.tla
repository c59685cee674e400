---------------------------- MODULE UrtuuStatus ----------------------------
(***************************************************************************)
(* The states of a task, domain/urtuu/wire/status.go, and the order in     *)
(* which news of them supersedes older news, domain/urtuu/urtuu.go.        *)
(***************************************************************************)
EXTENDS Naturals

Statuses == {"RECEIVED", "ACCEPTED", "IN_PROGRESS", "DELEGATED",
             "COMPLETED", "RETURNED", "CLOSED"}

\* "from -> what may follow": the whole state machine.
Transitions ==
    [s \in Statuses |->
        CASE s = "RECEIVED" -> {"ACCEPTED", "RETURNED"}
          [] s = "ACCEPTED" -> {"IN_PROGRESS", "DELEGATED", "COMPLETED", "RETURNED"}
          [] s = "IN_PROGRESS" -> {"DELEGATED", "COMPLETED", "RETURNED"}
          [] s = "DELEGATED" -> {"COMPLETED", "RETURNED"}
          [] s \in {"COMPLETED", "RETURNED"} -> {"CLOSED"}
          [] s = "CLOSED" -> {}]

CanMoveTo(from, to) == to \in Transitions[from]

Rank(s) ==
    CASE s = "RECEIVED" -> 0
      [] s = "ACCEPTED" -> 1
      [] s \in {"IN_PROGRESS", "DELEGATED"} -> 2
      [] s \in {"COMPLETED", "RETURNED"} -> 3
      [] s = "CLOSED" -> 4

\* Slip: only the same news twice is turned away.
SupersededByAny(current, incoming) == incoming # current

\* A subordinate's news is applied unless it is older than what is known.
SupersededBy(current, incoming) ==
    incoming # current /\ Rank(current) <= Rank(incoming)
=============================================================================
