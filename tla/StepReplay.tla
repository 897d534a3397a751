----------------------------- MODULE StepReplay -----------------------------
(***************************************************************************)
(* The library and the replay together: each message a test emits either    *)
(* reaches its log, and is folded into the case in that order, or is dropped *)
(* by emitTo because it does not fit on one line.                           *)
(***************************************************************************)
EXTENDS Replay, Slices

CONSTANTS MaxFrames,      \* bound on the steps one test runs
          CaseMessages,   \* the messages other than steps a test emits
          MaxMessages,    \* bound on how many of them
          MaxCalls,       \* bound on steps and messages together
          Droppable       \* the kinds of message that may be too large for a line

ASSUME BoundsAssumption == {MaxFrames, MaxMessages, MaxCalls} \subseteq Nat

\* What the replay says of dropped steps is not something that a test says.
ASSUME MessagesAssumption ==
  \A m \in CaseMessages :
    /\ m.kind \notin {"step_start", "step_stop"}
    /\ m.kind = "parameter" => m.value \in Values
    /\ m.kind = "tag" => m.tags \in Seq(Values)
    /\ m.kind = "warning" => m.value # "steps_dropped"

VARIABLES frames, stack, failed, mode,   \* the test (Steps)
          emitted   \* the messages other than steps emitted so far

INSTANCE Steps

stepVars == <<frames, stack, failed, mode>>

vars == <<replayVars, stepVars, emitted>>

Init ==
  /\ ReplayInit
  /\ StepsInit
  /\ emitted = <<>>

\* A stop carries text of the user's, and can only be too large, after a panic.
MayDrop(m) == m.kind \in Droppable /\ (m.kind = "step_stop" => m.error)

\* emitTo: a message Encode refuses is only mentioned on the test's stderr.
Emit(m) ==
  \/ ReplayMessage(m)
  \/ MayDrop(m) /\ UNCHANGED replayVars

MayCall == Len(frames) + Len(emitted) < MaxCalls

Begins(name) ==
  /\ MayCall
  /\ BeginStep(name)
  /\ Emit(StepStart(name))
  /\ UNCHANGED emitted

Closes ==
  /\ CloseStep
  /\ Emit(StepStop)
  /\ UNCHANGED emitted

Emits(m) ==
  /\ mode = "running" /\ MayCall /\ Len(emitted) < MaxMessages
  /\ IF m.kind = "parameter" THEN AddParameter(m.value) ELSE UNCHANGED stepVars
  /\ Emit(m)
  /\ emitted' = Append(emitted, m)

Elsewhere ==
  /\ FailNow \/ SkipNow \/ Panics \/ Recovers \/ CleansUp
  /\ UNCHANGED <<replayVars, emitted>>

Next ==
  \/ \E name \in Names : Begins(name)
  \/ Closes
  \/ \E m \in CaseMessages : Emits(m)
  \/ Elsewhere

Spec == Init /\ [][Next]_vars
-----------------------------------------------------------------------------
TypeOK == ReplayTypeOK /\ StepsTypeOK

\* The messages that begin and end a step all fit on a line.
StepsFit == Droppable \cap {"step_start", "step_stop"} = {}

Recorded(frame) == frame <= MaxStepsPerTestAttempt

\* The replay's stack is the test's: a recorded step that is running is open, a
\* step beyond the cap holds its place with a sentinel, and nothing else is there.
Lockstep ==
  openSteps = [i \in DOMAIN stack |-> IF Recorded(stack[i]) THEN stack[i] ELSE CapSentinel]

\* Each step that fits in the report is there under its own name and parent, and
\* once its closure is left it has the status, error and duration of its own run,
\* never those of a step nested in it, around it or dropped at the cap.
StepsFaithful ==
  /\ Len(steps) = IF Recorded(Len(frames)) THEN Len(frames) ELSE MaxStepsPerTestAttempt
  /\ \A i \in DOMAIN steps :
       /\ steps[i].name = frames[i].name
       /\ steps[i].parent = frames[i].parent
       /\ steps[i].status = frames[i].status
       /\ steps[i].error = frames[i].error
       /\ steps[i].duration = IF frames[i].closed THEN i ELSE NoDuration

\* A recorded step is failed exactly when the test came to fail while it ran, or a
\* panic left it: a failure before it, after it or in a step beside it is not its own.
OutcomesTrue ==
  \A i \in DOMAIN steps : steps[i].duration # NoDuration =>
    (steps[i].status = "failed" <=> frames[i].blamed \/ steps[i].error)

\* Steps are dropped exactly beyond the cap, and then the case says so.
DropsReported ==
  (Len(frames) > MaxStepsPerTestAttempt) <=> Contains(FinalWarnings, "steps_dropped")

First(s, cap) == SubSeq(s, 1, IF Len(s) < cap THEN Len(s) ELSE cap)

\* What a test emitted of one kind.
Of(kind) == Filtered(emitted, {m \in CaseMessages : m.kind = kind})

\* The parameters of the steps.
InSteps == [f \in DOMAIN frames |-> frames[f].parameters]

\* A parameter belongs to the step it was emitted in, never to one already closed
\* or to the case; up to the cap, in order.
ParametersBelong ==
  ~droppedSteps =>
    /\ \A i \in DOMAIN steps :
         steps[i].parameters = First(frames[i].parameters, MaxParametersPerStep)
    /\ Len(caseParameters) = Len(Of("parameter")) - Len(FlattenSeq(InSteps))

ValuesOf(ms) == [i \in DOMAIN ms |-> ms[i].value]
TagsOf(ms) == [i \in DOMAIN ms |-> ms[i].tags]
LastOf(ms) == IF ms = <<>> THEN {} ELSE {Last(ms).value}

\* The fields of the case are the first messages of each kind up to its cap, and
\* the last description and valid priority, whatever was emitted in between and
\* whichever attachments did not fit on a line.
FieldsFaithful ==
  /\ fields.labels = First(ValuesOf(Of("label")), MaxLabelsPerCase)
  /\ fields.links = First(ValuesOf(Of("link")), MaxLinksPerCase)
  /\ fields.tags = First(FlattenSeq(TagsOf(Of("tag"))), MaxTagsPerCase)
  /\ fields.description = LastOf(Of("description"))
  /\ fields.priority = LastOf(Filtered(emitted, {m \in CaseMessages : m.kind = "priority" /\ m.known}))
  /\ LET fit == Len(First(Of("attachment"), MaxAttachmentsPerCase))
     IN  Len(fields.attachments) \in IF "attachment" \in Droppable THEN 0..fit ELSE {fit}

\* The record of a step is final once the step is closed.
ClosedStepsKept ==
  [][\A i \in DOMAIN steps : steps[i].duration # NoDuration =>
       i \in DOMAIN steps' /\ steps'[i] = steps[i]]_vars
-----------------------------------------------------------------------------
\* METADATA-API.md:146-149: whatever a cap drops, "A drop is never silent. The
\* case carries a `qualflare.warnings` property saying what was lost".
DropsNeverSilent ==
  \/ Len(Of("label")) > MaxLabelsPerCase
  \/ Len(Of("link")) > MaxLinksPerCase
  \/ Len(Of("attachment")) > MaxAttachmentsPerCase
  => FinalWarnings # <<>>
=============================================================================
