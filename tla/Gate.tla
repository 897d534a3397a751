--------------------------------- MODULE Gate ---------------------------------
(***************************************************************************)
(* enabled.go: whether the library of a test process emits at all, decided   *)
(* at its first call and kept.  The process is a record of the value of       *)
(* QUALFLARE_GO in it, whether it was started by `go test -json`, the gate,   *)
(* the metadata calls made, those of them whose message fits on a line, and   *)
(* the messages that were emitted.  `early' is history, for the properties:   *)
(* what a test last gave QUALFLARE_GO before the first call, if one did.      *)
(***************************************************************************)
EXTENDS Integers

On  == {"1", "true", "yes", "on"}
Off == {"0", "false", "no", "off"}

Undecided == "undecided"

TestProcess(variable, json) ==
  [variable |-> variable, json |-> json, early |-> "none", gate |-> Undecided,
   calls |-> 0, fitting |-> 0, emitted |-> 0]

\* t.Setenv, or its cleanup.
WithVariable(process, value) ==
  [process EXCEPT !.variable = value, !.early = IF process.calls = 0 THEN value ELSE @]

ResolveGate(process) ==
  IF process.variable \in On THEN "open"
  ELSE IF process.variable \in Off THEN "closed"
  ELSE IF process.json THEN "open" ELSE "closed"

\* Mutant of Enabled: the environment is read at every call.
EveryTime(process) == ResolveGate(process)

\* sync.Once.
Enabled(process) ==
  IF process.gate = Undecided THEN ResolveGate(process) ELSE process.gate

\* Any metadata call of a test; a step asks once for its start and its stop.  A
\* message that is too large for a line is dropped behind the gate.
Call(process, fits) ==
  [process EXCEPT !.gate = Enabled(process),
                  !.calls = @ + 1,
                  !.fitting = IF fits THEN @ + 1 ELSE @,
                  !.emitted = IF fits /\ Enabled(process) = "open" THEN @ + 1 ELSE @]
=============================================================================
