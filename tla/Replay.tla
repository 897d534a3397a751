------------------------------- MODULE Replay -------------------------------
(***************************************************************************)
(* internal/replay/replay.go: one test's metadata messages folded, in the   *)
(* order they were emitted, onto the fields of its case.  Step indices count *)
(* from 1 and 0 stands for no parent; a cap sentinel is -1 as in the code.   *)
(***************************************************************************)
EXTENDS Integers, Sequences, SequencesExt

CONSTANTS Names, Values,             \* names of steps; label, link, tag and other values
          MaxStepsPerTestAttempt,
          MaxParametersPerStep,
          MaxLabelsPerCase, MaxLinksPerCase, MaxTagsPerCase, MaxAttachmentsPerCase

ASSUME CapsAssumption ==
  {MaxStepsPerTestAttempt, MaxParametersPerStep, MaxLabelsPerCase, MaxLinksPerCase,
   MaxTagsPerCase, MaxAttachmentsPerCase} \subseteq Nat

VARIABLES steps,          \* Replayed.Steps
          openSteps,      \* indices into steps, -1 for a step beyond the cap
          droppedSteps,
          caseParameters,
          fields,         \* labels, links, tags, attachments, description, priority
          warnings

replayVars == <<steps, openSteps, droppedSteps, caseParameters, fields, warnings>>

CapSentinel == -1

\* Mutant of NoParent: the index as it is, like CapSentinel.
RawNoParent == -1

NoParent == 0
NoDuration == 0

\* A duration is a token: the number of the step whose run it measured.
Step == [name : Names, parent : Nat, status : {"passed", "failed"},
         duration : Nat, error : BOOLEAN, parameters : Seq(Values)]

NoFields == [labels |-> <<>>, links |-> <<>>, tags |-> <<>>, attachments |-> <<>>,
             description |-> {}, priority |-> {}]

ReplayInit ==
  /\ steps = <<>>
  /\ openSteps = <<>>
  /\ droppedSteps = FALSE
  /\ caseParameters = <<>>
  /\ fields = NoFields
  /\ warnings = <<>>

\* Mutant of Capped: one element too many.
CappedLate(slice, element, cap) == IF Len(slice) <= cap THEN Append(slice, element) ELSE slice

\* append, unless the slice is at its cap.
Capped(slice, element, cap) == IF Len(slice) < cap THEN Append(slice, element) ELSE slice

\* Mutant of Innermost: the first open step, not the last.
Outermost(open) == IF open = <<>> THEN -1 ELSE Head(open)

\* The innermost step that is really open, skipping cap sentinels; -1 for none.
Innermost(open) ==
  LET i == SelectLastInSeq(open, LAMBDA index : index # CapSentinel)
  IN  IF i = 0 THEN -1 ELSE open[i]

\* The messages that only touch one capped or last-writer-wins field.
ReplayField(m) ==
  /\ fields' =
       CASE m.kind = "label" -> [fields EXCEPT !.labels = Capped(@, m.value, MaxLabelsPerCase)]
         [] m.kind = "link"  -> [fields EXCEPT !.links = Capped(@, m.value, MaxLinksPerCase)]
         [] m.kind = "tag"   -> [fields EXCEPT !.tags =
              LET all == @ \o m.tags
              IN  SubSeq(all, 1, IF Len(all) < MaxTagsPerCase THEN Len(all) ELSE MaxTagsPerCase)]
         [] m.kind = "description" -> [fields EXCEPT !.description = {m.value}]
         [] m.kind = "priority" -> IF m.known THEN [fields EXCEPT !.priority = {m.value}] ELSE fields
  /\ UNCHANGED <<steps, openSteps, droppedSteps, caseParameters, warnings>>

ReplayParameter(m) ==
  LET target == Innermost(openSteps)
  IN  /\ m.kind = "parameter"
      /\ IF target # -1
         THEN /\ steps' = [steps EXCEPT ![target].parameters =
                             Capped(@, m.value, MaxParametersPerStep)]
              /\ UNCHANGED caseParameters
         ELSE /\ caseParameters' = Append(caseParameters, m.value)
              /\ UNCHANGED steps
      /\ UNCHANGED <<openSteps, droppedSteps, fields, warnings>>

\* Mutant of WithDropped: a bare skip.
Skipped(open) == open

\* Beyond the cap a sentinel keeps the place of the dropped step, for its stop.
WithDropped(open) == Append(open, CapSentinel)

ReplayStepStart(m) ==
  LET parent == Innermost(openSteps)
  IN  /\ m.kind = "step_start"
      /\ IF Len(steps) >= MaxStepsPerTestAttempt
         THEN /\ droppedSteps' = TRUE
              /\ openSteps' = WithDropped(openSteps)
              /\ UNCHANGED steps
         ELSE /\ steps' = Append(steps,
                   [name |-> m.name, parent |-> IF parent = -1 THEN NoParent ELSE parent,
                    status |-> "passed", duration |-> NoDuration, error |-> FALSE,
                    parameters |-> <<>>])
              /\ openSteps' = Append(openSteps, Len(steps) + 1)
              /\ UNCHANGED droppedSteps
      /\ UNCHANGED <<caseParameters, fields, warnings>>

\* Mutant of Stopped: the step recorded last.
LatestStarted(open) == Len(steps)

\* The step a stop closes.
Stopped(open) == Last(open)

ReplayStepStop(m) ==
  /\ m.kind = "step_stop"
  /\ IF openSteps = <<>> THEN UNCHANGED <<steps, openSteps>>
     ELSE LET index == Stopped(openSteps)
          IN  /\ openSteps' = Front(openSteps)
              /\ steps' = IF index = CapSentinel THEN steps
                          ELSE [steps EXCEPT ![index].status = m.status,
                                             ![index].duration = m.duration,
                                             ![index].error = @ \/ m.error]
  /\ UNCHANGED <<droppedSteps, caseParameters, fields, warnings>>

\* An attachment too large to inline is recorded by name only, with a warning.
ReplayAttachment(m) ==
  /\ m.kind = "attachment"
  /\ IF Len(fields.attachments) < MaxAttachmentsPerCase
     THEN /\ fields' = [fields EXCEPT !.attachments =
                          Append(@, [name |-> m.value, content |-> ~m.large])]
          /\ warnings' = IF m.large THEN Append(warnings, "skipping_attachment") ELSE warnings
     ELSE UNCHANGED <<fields, warnings>>
  /\ UNCHANGED <<steps, openSteps, droppedSteps, caseParameters>>

ReplayWarning(m) ==
  /\ m.kind = "warning"
  /\ warnings' = Append(warnings, m.value)
  /\ UNCHANGED <<steps, openSteps, droppedSteps, caseParameters, fields>>

ReplayMessage(m) ==
  \/ m.kind \in {"label", "link", "tag", "description", "priority"} /\ ReplayField(m)
  \/ ReplayParameter(m)
  \/ ReplayStepStart(m)
  \/ ReplayStepStop(m)
  \/ ReplayAttachment(m)
  \/ ReplayWarning(m)

\* Mutant of FinalWarnings: the explicit ones only.
ExplicitWarnings == warnings

\* The warnings of the case once every message has been folded.
FinalWarnings ==
  IF droppedSteps THEN Append(warnings, "steps_dropped") ELSE warnings

ReplayTypeOK ==
  /\ steps \in Seq(Step)
  /\ openSteps \in Seq(Nat \cup {CapSentinel})
  /\ droppedSteps \in BOOLEAN
  /\ caseParameters \in Seq(Values)
=============================================================================
