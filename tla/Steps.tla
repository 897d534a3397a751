-------------------------------- MODULE Steps --------------------------------
(***************************************************************************)
(* step.go: one test's goroutine running nested qualflare.Step closures.     *)
(* A frame is one run of a step: where it was opened, what happened in it    *)
(* (the ground truth: `blamed` is whether the test came to fail while it     *)
(* ran), and what the library concludes of it.  A closure ends by returning, *)
(* by a panic (re-raised after each step is closed) or by runtime.Goexit     *)
(* (t.Fatal, t.SkipNow), which runs the deferred closes on the way out.      *)
(***************************************************************************)
EXTENDS Integers, Sequences, SequencesExt

CONSTANTS Names, Values,
          MaxFrames   \* bound on the steps one test runs

VARIABLES frames,  \* every step begun, in order
          stack,   \* the frames not yet closed, outermost first
          failed,  \* tb.Failed()
          mode     \* how the goroutine is leaving its closures, if it is

Frame == [name : Names, parent : Nat, failedBefore : BOOLEAN, blamed : BOOLEAN,
          closed : BOOLEAN, status : {"passed", "failed"}, error : BOOLEAN,
          parameters : Seq(Values)]

StepsInit ==
  /\ frames = <<>>
  /\ stack = <<>>
  /\ failed = FALSE
  /\ mode = "running"

Enclosing == IF stack = <<>> THEN 0 ELSE Last(stack)

\* The step began: failedBefore is read before its step_start is emitted.
BeginStep(name) ==
  /\ mode = "running" /\ Len(frames) < MaxFrames
  /\ frames' = Append(frames, [name |-> name, parent |-> Enclosing, failedBefore |-> failed,
                               blamed |-> FALSE, closed |-> FALSE, status |-> "passed", error |-> FALSE,
                               parameters |-> <<>>])
  /\ stack' = Append(stack, Len(frames) + 1)
  /\ UNCHANGED <<failed, mode>>

\* Mutant of Outcome: the test's verdict so far, whoever it is due to.
FailedSoFar(frame) == IF failed THEN "failed" ELSE "passed"

\* The step failed if the test did while the step ran.
Outcome(frame) == IF failed /\ ~frame.failedBefore THEN "failed" ELSE "passed"

\* What closeStep reports of the innermost step: a panic is a failure with a
\* text, everything else the change in tb.Failed().
ClosingStatus == IF mode = "panicking" THEN "failed" ELSE Outcome(frames[Last(stack)])

\* The innermost closure is left; unwinding goes on with the one around it.
CloseStep ==
  /\ stack # <<>>
  /\ frames' = [frames EXCEPT ![Last(stack)].closed = TRUE,
                              ![Last(stack)].status = ClosingStatus,
                              ![Last(stack)].error = (mode = "panicking")]
  /\ stack' = Front(stack)
  /\ UNCHANGED <<failed, mode>>

StepStart(name) == [kind |-> "step_start", name |-> name]

StepStop == [kind |-> "step_stop", status |-> ClosingStatus, duration |-> Last(stack),
             error |-> (mode = "panicking")]

\* A parameter belongs to the step it is emitted in, if any.
AddParameter(value) ==
  /\ mode = "running"
  /\ frames' = IF stack = <<>> THEN frames
               ELSE [frames EXCEPT ![Last(stack)].parameters = Append(@, value)]
  /\ UNCHANGED <<stack, failed, mode>>

\* t.Error or t.Fatal, in the innermost step: the first one is on every step
\* that runs.
FailNow ==
  /\ mode = "running"
  /\ failed' = TRUE
  /\ mode' \in {"running", "exiting"}
  /\ frames' = [f \in DOMAIN frames |->
                 IF ~failed /\ Contains(stack, f) THEN [frames[f] EXCEPT !.blamed = TRUE]
                 ELSE frames[f]]
  /\ UNCHANGED stack

\* t.SkipNow, a panic, and a recover in code between two steps.
SkipNow == mode = "running" /\ mode' = "exiting" /\ UNCHANGED <<frames, stack, failed>>

Panics == mode = "running" /\ mode' = "panicking" /\ UNCHANGED <<frames, stack, failed>>

Recovers == mode = "panicking" /\ mode' = "running" /\ UNCHANGED <<frames, stack, failed>>

\* All closures are left: the test's Cleanup functions run, and may use steps.
CleansUp ==
  /\ stack = <<>> /\ mode # "running"
  /\ mode' = "running"
  /\ failed' = (failed \/ mode = "panicking")
  /\ UNCHANGED <<frames, stack>>

StepsTypeOK ==
  /\ frames \in Seq(Frame)
  /\ stack \in Seq(1..Len(frames))
  /\ failed \in BOOLEAN
  /\ mode \in {"running", "panicking", "exiting"}
=============================================================================
