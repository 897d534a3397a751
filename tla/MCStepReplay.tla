---------------------------- MODULE MCStepReplay ----------------------------
(***************************************************************************)
(* Instances of the step replay.                                            *)
(***************************************************************************)
EXTENDS StepReplay

CONSTANTS a, b

Labels == {[kind |-> "label", value |-> a]}

\* One message of every kind, and two where which of them matters.
Messages ==
  {[kind |-> k, value |-> v] : k \in {"parameter", "description"}, v \in {a, b}}
    \cup {[kind |-> k, value |-> a] : k \in {"label", "link", "warning"}}
    \cup {[kind |-> "priority", value |-> v, known |-> v = a] : v \in {a, b}}
    \cup {[kind |-> "tag", tags |-> <<b, a>>]}
    \cup {[kind |-> "attachment", value |-> a, large |-> l] : l \in BOOLEAN}
=============================================================================
