-------------------------- MODULE StepReplayProofs --------------------------
(***************************************************************************)
(* Proofs about the library and the replay: while every step message fits    *)
(* on a line, the replay's stack stays in lockstep with the test's, so every *)
(* step that fits in the report is recorded as it ran, for any caps, any     *)
(* nesting, and any mix of returns, panics, recovers and exits.              *)
(***************************************************************************)
EXTENDS StepReplay, SequenceLemmas

\* What makes Lockstep and StepsFaithful inductive: the running frames are
\* stacked in the order they began, and nothing is recorded of them yet.
FramesOK ==
  /\ \A i \in DOMAIN stack : ~frames[stack[i]].closed
  /\ \A i, j \in DOMAIN stack : i < j => stack[i] < stack[j]
  /\ \A f \in DOMAIN frames : ~frames[f].closed => frames[f].status = "passed" /\ ~frames[f].error

IInv == TypeOK /\ FramesOK /\ Lockstep /\ StepsFaithful
-----------------------------------------------------------------------------
\* Innermost returns an index of the stack that is not a sentinel, or -1.
LEMMA InnermostIsOpen ==
  ASSUME NEW open \in Seq(Nat \cup {CapSentinel})
  PROVE  \/ Innermost(open) = -1
         \/ \E i \in 1..Len(open) : open[i] # CapSentinel /\ Innermost(open) = open[i]
<1> DEFINE I == {i \in 1..Len(open) : open[i] # CapSentinel}
<1>1. Len(open) \in Nat /\ I \in SUBSET (1..Len(open))
  OBVIOUS
<1>2. CASE I = {}
  BY <1>2 DEF Innermost, SelectLastInSeq
<1>3. CASE I # {}
  <2>1. Max(I) \in I
    BY <1>1, <1>3, MaxOfPositions
  <2>2. Max(I) # 0
    BY <2>1
  <2>3. SelectLastInSeq(open, LAMBDA index : index # CapSentinel) = Max(I)
    BY <1>3 DEF SelectLastInSeq
  <2>4. Innermost(open) = open[Max(I)]
    BY <2>2, <2>3 DEF Innermost
  <2> QED
    BY <2>1, <2>4
<1> QED
  BY <1>2, <1>3

\* Without sentinels it is the top of the stack.
LEMMA InnermostIsLast ==
  ASSUME NEW open \in Seq(Nat \cup {CapSentinel}), \A i \in 1..Len(open) : open[i] # CapSentinel
  PROVE  Innermost(open) = IF open = <<>> THEN -1 ELSE open[Len(open)]
<1> DEFINE I == {i \in 1..Len(open) : open[i] # CapSentinel}
<1>1. Len(open) \in Nat /\ I = 1..Len(open)
  OBVIOUS
<1>2. CASE open = <<>>
  BY <1>1, <1>2 DEF Innermost, SelectLastInSeq
<1>3. CASE open # <<>>
  <2>1. Len(open) \in I
    BY <1>1, <1>3
  <2>2. Max(I) \in I /\ \A i \in I : Max(I) >= i
    BY <1>1, <2>1, MaxOfPositions
  <2>3. Max(I) = Len(open)
    BY <1>1, <2>1, <2>2
  <2>4. SelectLastInSeq(open, LAMBDA index : index # CapSentinel) = Max(I)
    BY <2>1 DEF SelectLastInSeq
  <2>5. Len(open) # 0
    BY <1>1, <2>1
  <2>6. Innermost(open) = open[Len(open)]
    BY <2>3, <2>4, <2>5 DEF Innermost
  <2> QED
    BY <1>3, <2>6
<1> QED
  BY <1>2, <1>3
-----------------------------------------------------------------------------
\* The type invariants say what they need: a capped slice stays a slice.
LEMMA CappedSlice ==
  ASSUME NEW S, NEW slice \in Seq(S), NEW element \in S, NEW cap
  PROVE  Capped(slice, element, cap) \in Seq(S)
<1>1. Append(slice, element) \in Seq(S)
  OBVIOUS
<1> QED
  BY <1>1 DEF Capped

\* Replay and the test both start with no step open.
LEMMA InitIInv == ASSUME Init PROVE IInv
<1> USE DEF Init, ReplayInit, StepsInit
<1>1. TypeOK
  <2>1. \A S : <<>> \in Seq(S)
    OBVIOUS
  <2>2. ReplayTypeOK
    BY <2>1 DEF ReplayTypeOK
  <2>3. StepsTypeOK
    BY <2>1 DEF StepsTypeOK
  <2> QED
    BY <2>2, <2>3 DEF TypeOK
<1>2. FramesOK
  BY DEF FramesOK
<1>3. Lockstep
  BY DEF Lockstep
<1>4. StepsFaithful
  BY CapsAssumption DEF StepsFaithful, Recorded
<1> QED
  BY <1>1, <1>2, <1>3, <1>4 DEF IInv

\* A step_start that is replayed as the test begins the step pushes onto both
\* stacks: an index, or the sentinel once the cap is reached.
LEMMA BeginsKeepsIInv ==
  ASSUME IInv, StepsFit, NEW name \in Names, Begins(name)
  PROVE  IInv'
<1> DEFINE max == MaxStepsPerTestAttempt
           new == Len(frames) + 1
           frame == [name |-> name, parent |-> Enclosing, failedBefore |-> failed,
                     blamed |-> FALSE, closed |-> FALSE, status |-> "passed", error |-> FALSE, parameters |-> <<>>]
<1> USE DEF IInv, TypeOK
<1>1. ReplayStepStart(StepStart(name))
  <2>1. ~ MayDrop(StepStart(name))
    BY DEF StepsFit, MayDrop, StepStart
  <2> QED
    BY <2>1 DEF Begins, Emit, ReplayMessage, StepStart, ReplayField, ReplayParameter,
                ReplayStepStop, ReplayAttachment, ReplayWarning
<1>2. max \in Nat /\ Len(frames) \in Nat /\ Len(stack) \in Nat
  BY CapsAssumption DEF StepsTypeOK
<1>3. frame \in Frame
  BY DEF Enclosing, Last, StepsTypeOK, Frame
<1>4. /\ frames' = Append(frames, frame)
      /\ stack' = Append(stack, new)
      /\ UNCHANGED <<failed, mode>>
  BY DEF Begins, BeginStep
<1>5. StepsTypeOK'
  <2>1. frames' \in Seq(Frame) /\ Len(frames') = new
    BY <1>3, <1>4 DEF StepsTypeOK
  <2>2. stack' \in Seq(1..Len(frames'))
    <3>1. stack \in Seq(1..new)
      BY <1>2, PositionsWiden DEF StepsTypeOK
    <3>2. new \in 1..new
      BY <1>2
    <3> QED
      BY <1>4, <2>1, <3>1, <3>2
  <2> QED
    BY <1>4, <2>1, <2>2 DEF StepsTypeOK
<1>6. FramesOK'
  BY <1>2, <1>4 DEF FramesOK, StepsTypeOK
<1>7. Len(openSteps) = Len(stack)
  BY <1>2 DEF Lockstep, StepsTypeOK
<1>8. CASE Len(steps) >= max
  <2>1. /\ UNCHANGED <<steps, caseParameters, fields, warnings>>
        /\ openSteps' = Append(openSteps, CapSentinel)
        /\ droppedSteps' = TRUE
    BY <1>1, <1>8 DEF ReplayStepStart, WithDropped
  <2>2. ~ Recorded(new)
    BY <1>2, <1>8 DEF StepsFaithful, Recorded
  <2>3. ReplayTypeOK'
    BY <2>1 DEF ReplayTypeOK
  <2>4. Lockstep'
    BY <1>2, <1>4, <2>1, <2>2 DEF Lockstep, StepsTypeOK
  <2>5. StepsFaithful'
    <3>1. Len(steps) = max /\ max < new /\ Len(frames') = new
      BY <1>2, <1>4, <1>8, <2>2 DEF StepsFaithful, Recorded, StepsTypeOK
    <3>2. \A i \in DOMAIN steps : i \in 1..Len(frames) /\ frames'[i] = frames[i]
      BY <1>2, <1>4, <3>1 DEF StepsTypeOK, ReplayTypeOK
    <3>3. ~ Recorded(Len(frames'))
      BY <2>2, <3>1
    <3> QED
      BY <2>1, <3>1, <3>2, <3>3 DEF StepsFaithful
  <2> QED
    BY <1>5, <1>6, <2>3, <2>4, <2>5
<1>9. CASE ~ (Len(steps) >= max)
  <2> DEFINE parent == Innermost(openSteps)
             step == [name |-> name, parent |-> IF parent = -1 THEN NoParent ELSE parent,
                      status |-> "passed", duration |-> NoDuration, error |-> FALSE,
                      parameters |-> <<>>]
  <2>1. /\ steps' = Append(steps, step)
        /\ openSteps' = Append(openSteps, Len(steps) + 1)
        /\ UNCHANGED <<droppedSteps, caseParameters, fields, warnings>>
    BY <1>1, <1>9 DEF ReplayStepStart, StepStart
  <2>2. Len(steps) = Len(frames) /\ Recorded(new)
    BY <1>2, <1>9 DEF StepsFaithful, Recorded, ReplayTypeOK
  <2>3. openSteps = stack
    BY <1>2, <2>2 DEF Lockstep, Recorded, StepsTypeOK
  <2>4. step.parent = Enclosing
    <3>1. \A i \in 1..Len(openSteps) : openSteps[i] # CapSentinel
      BY <2>3 DEF StepsTypeOK, CapSentinel
    <3>2. parent = IF stack = <<>> THEN -1 ELSE stack[Len(stack)]
      BY <2>3, <3>1, InnermostIsLast DEF ReplayTypeOK
    <3>3. stack # <<>> => stack[Len(stack)] # -1
      BY DEF StepsTypeOK
    <3> QED
      BY <3>2, <3>3 DEF Enclosing, Last, NoParent
  <2>5. step \in Step
    <3>1. Enclosing \in Nat
      BY DEF Enclosing, Last, StepsTypeOK
    <3> QED
      BY <2>4, <3>1 DEF Step, NoDuration
  <2>6. ReplayTypeOK'
    BY <2>1, <2>5 DEF ReplayTypeOK
  <2>7. Lockstep'
    BY <1>2, <1>4, <2>1, <2>2 DEF Lockstep, StepsTypeOK
  <2>8. StepsFaithful'
    <3>1. Len(steps') = new /\ Len(frames') = new
      BY <1>2, <1>4, <2>1, <2>2 DEF ReplayTypeOK
    <3>2. ASSUME NEW i \in 1..Len(frames)
          PROVE  steps'[i] = steps[i] /\ frames'[i] = frames[i]
      BY <1>2, <1>4, <2>1, <2>2 DEF ReplayTypeOK, StepsTypeOK
    <3>3. steps'[new] = step /\ frames'[new] = frame
      BY <1>2, <1>4, <2>1, <2>2 DEF ReplayTypeOK, StepsTypeOK
    <3>4. Recorded(Len(frames'))
      BY <2>2, <3>1
    <3>5. DOMAIN steps = 1..Len(frames) /\ DOMAIN steps' = 1..new
      BY <1>2, <2>1, <2>2 DEF ReplayTypeOK
    <3>6. ASSUME NEW i \in DOMAIN steps'
          PROVE  /\ steps'[i].name = frames'[i].name
                 /\ steps'[i].parent = frames'[i].parent
                 /\ steps'[i].status = frames'[i].status
                 /\ steps'[i].error = frames'[i].error
                 /\ steps'[i].duration = IF frames'[i].closed THEN i ELSE NoDuration
      <4>1. CASE i = new
        <5>1. /\ step.name = frame.name /\ step.parent = frame.parent
              /\ step.status = frame.status /\ step.error = frame.error
              /\ step.duration = NoDuration /\ ~ frame.closed
          BY <2>4
        <5> HIDE DEF step, frame
        <5> QED
          BY <3>3, <4>1, <5>1
      <4>2. CASE i # new
        <5>1. i \in 1..Len(frames)
          BY <1>2, <3>5, <4>2
        <5> QED
          BY <3>2, <3>5, <5>1 DEF StepsFaithful
      <4> QED
        BY <4>1, <4>2
    <3> QED
      BY <3>1, <3>4, <3>6 DEF StepsFaithful
  <2> QED
    BY <1>5, <1>6, <2>6, <2>7, <2>8
<1> QED
  BY <1>8, <1>9

\* Leaving a closure closes the step it opened, in both stacks.
LEMMA ClosesKeepsIInv ==
  ASSUME IInv, StepsFit, Closes
  PROVE  IInv'
<1> DEFINE n == Len(stack)
           top == Last(stack)
           index == Last(openSteps)
<1> USE DEF IInv, TypeOK
<1>1. ReplayStepStop(StepStop)
  <2>1. ~ MayDrop(StepStop)
    BY DEF StepsFit, MayDrop, StepStop
  <2> QED
    BY <2>1 DEF Closes, Emit, ReplayMessage, StepStop, ReplayField, ReplayParameter,
                ReplayStepStart, ReplayAttachment, ReplayWarning
<1>2. /\ n \in Nat \ {0} /\ top = stack[n] /\ top \in 1..Len(frames)
      /\ stack' = Front(stack) /\ UNCHANGED <<failed, mode>>
  BY DEF Closes, CloseStep, StepsTypeOK, Last
<1> DEFINE panic == mode = "panicking"
           status == ClosingStatus
           after == [frames[top] EXCEPT !.closed = TRUE, !.status = status, !.error = panic]
<1>a. status \in {"passed", "failed"} /\ panic \in BOOLEAN /\ frames[top] \in Frame
  BY <1>2 DEF ClosingStatus, Outcome, StepsTypeOK
<1>b. frames' = [frames EXCEPT ![top] = after]
  <2>1. frames' = [frames EXCEPT ![top].closed = TRUE, ![top].status = status,
                                 ![top].error = panic]
    BY DEF Closes, CloseStep
  <2> QED
    BY <1>2, <2>1, Zenon DEF StepsTypeOK
<1>c. after \in Frame /\ after.closed /\ after.name = frames[top].name
      /\ after.parent = frames[top].parent /\ after.status = status /\ after.error = panic
  <2>1. after = [frames[top] EXCEPT !.closed = TRUE, !.status = status, !.error = panic]
    OBVIOUS
  <2> DEFINE frame == frames[top]
  <2>2. after = [frame EXCEPT !.closed = TRUE, !.status = status, !.error = panic]
    BY <2>1
  <2>3. frame \in Frame
    BY <1>a
  <2> HIDE DEF status, panic, after, frame
  <2>4. after \in Frame /\ after.closed /\ after.name = frame.name
        /\ after.parent = frame.parent /\ after.status = status /\ after.error = panic
    BY <1>a, <2>2, <2>3 DEF Frame
  <2> QED
    BY <2>4 DEF frame
<1> HIDE DEF status, panic, after
<1>3. /\ frames' \in Seq(Frame) /\ Len(frames') = Len(frames)
      /\ \A f \in 1..Len(frames) : f # top => frames'[f] = frames[f]
  BY <1>2, <1>b, <1>c, ReplacedElement DEF StepsTypeOK
<1>4. frames'[top] = after
  BY <1>2, <1>b, <1>c, ReplacedElement DEF StepsTypeOK
<1>5. /\ stack' \in Seq(1..Len(frames)) /\ Len(stack') = n - 1
      /\ DOMAIN stack' = 1..n - 1
      /\ \A i \in 1..n - 1 : i \in DOMAIN stack /\ stack'[i] = stack[i]
  BY <1>2, FrontProperties, LenProperties DEF StepsTypeOK
<1>6. StepsTypeOK'
  BY <1>2, <1>3, <1>5 DEF StepsTypeOK
<1>7. FramesOK'
  <2>1. \A i \in 1..n - 1 : stack[i] # top
    BY <1>2 DEF FramesOK, StepsTypeOK
  <2>2. \A i \in DOMAIN stack' : i \in 1..n - 1 /\ stack'[i] = stack[i]
    BY <1>5
  <2>3. \A i \in 1..n - 1 : i \in DOMAIN stack /\ stack[i] \in 1..Len(frames)
    BY <1>2 DEF StepsTypeOK
  <2>4. \A i \in DOMAIN stack' : ~ frames'[stack'[i]].closed
    BY <1>3, <2>1, <2>2, <2>3 DEF FramesOK
  <2>5. \A i, j \in DOMAIN stack' : i < j => stack'[i] < stack'[j]
    BY <2>2, <2>3 DEF FramesOK
  <2>6. \A f \in DOMAIN frames' :
          ~ frames'[f].closed => frames'[f].status = "passed" /\ ~ frames'[f].error
    BY <1>3, <1>4, <1>c DEF FramesOK, StepsTypeOK
  <2> QED
    BY <2>4, <2>5, <2>6 DEF FramesOK
<1>8. /\ Len(openSteps) = n /\ openSteps # <<>>
      /\ index = IF Recorded(top) THEN top ELSE CapSentinel
  BY <1>2 DEF Lockstep, StepsTypeOK, ReplayTypeOK, Last
<1>9. /\ openSteps' = Front(openSteps)
      /\ UNCHANGED <<droppedSteps, caseParameters, fields, warnings>>
  BY <1>1, <1>8 DEF ReplayStepStop, Stopped
<1>10. /\ openSteps' \in Seq(Nat \cup {CapSentinel}) /\ Len(openSteps') = n - 1
       /\ \A i \in 1..n - 1 : openSteps'[i] = openSteps[i]
  BY <1>8, <1>9, FrontProperties DEF ReplayTypeOK
<1>11. Lockstep'
  <2>1. DOMAIN stack' = 1..n - 1 /\ DOMAIN openSteps' = 1..n - 1
    BY <1>2, <1>5, <1>10
  <2>2. \A i \in 1..n - 1 :
          openSteps'[i] = IF Recorded(stack'[i]) THEN stack'[i] ELSE CapSentinel
    BY <1>5, <1>10 DEF Lockstep
  <2>3. openSteps' = [i \in 1..n - 1 |-> openSteps'[i]]
    BY <1>10, <2>1
  <2> QED
    BY <2>1, <2>2, <2>3 DEF Lockstep, Recorded
<1>12. CASE Recorded(top)
  <2>1. index = top /\ index # CapSentinel
    BY <1>2, <1>8, <1>12 DEF CapSentinel
  <2>2. top \in 1..Len(steps) /\ steps[top] \in Step
    BY <1>2, <1>12, CapsAssumption DEF StepsFaithful, Recorded, StepsTypeOK, ReplayTypeOK
  <2> DEFINE record == [steps[top] EXCEPT !.status = status, !.duration = top,
                                          !.error = @ \/ panic]
  <2>3. steps' = [steps EXCEPT ![top] = record]
    <3>1. steps' = [steps EXCEPT ![top].status = status, ![top].duration = top,
                                 ![top].error = @ \/ panic]
      BY <1>1, <1>8, <2>1 DEF ReplayStepStop, Stopped, StepStop, status, panic
    <3> QED
      BY <2>2, <3>1, Zenon DEF ReplayTypeOK
  <2>4. ~ steps[top].error
    <3>1. ~ frames[top].error
      BY <1>2 DEF FramesOK, StepsTypeOK, Closes, CloseStep
    <3> QED
      BY <2>2, <3>1 DEF StepsFaithful, ReplayTypeOK
  <2>5. /\ record \in Step /\ record.name = steps[top].name
        /\ record.parent = steps[top].parent /\ record.status = status
        /\ record.duration = top /\ record.error = panic
    <3> DEFINE step == steps[top]
    <3>1. record = [step EXCEPT !.status = status, !.duration = top, !.error = @ \/ panic]
      OBVIOUS
    <3>2. step \in Step /\ ~ step.error /\ top \in Nat
      BY <1>2, <2>2, <2>4
    <3> HIDE DEF record, step, top
    <3>3. /\ record \in Step /\ record.name = step.name
          /\ record.parent = step.parent /\ record.status = status
          /\ record.duration = top /\ record.error = panic
      BY <1>a, <3>1, <3>2 DEF Step
    <3> QED
      BY <3>3 DEF step
  <2> HIDE DEF record
  <2>6. /\ steps' \in Seq(Step) /\ Len(steps') = Len(steps) /\ steps'[top] = record
        /\ \A i \in 1..Len(steps) : i # top => steps'[i] = steps[i]
    BY <2>2, <2>3, <2>5, ReplacedElement DEF ReplayTypeOK
  <2>7. ReplayTypeOK'
    BY <1>9, <1>10, <2>6 DEF ReplayTypeOK
  <2>8. ASSUME NEW i \in DOMAIN steps'
        PROVE  /\ steps'[i].name = frames'[i].name
               /\ steps'[i].parent = frames'[i].parent
               /\ steps'[i].status = frames'[i].status
               /\ steps'[i].error = frames'[i].error
               /\ steps'[i].duration = IF frames'[i].closed THEN i ELSE NoDuration
    <3>1. i \in DOMAIN steps /\ i \in 1..Len(steps) /\ i \in 1..Len(frames)
      BY <2>6, CapsAssumption DEF StepsFaithful, Recorded, ReplayTypeOK, StepsTypeOK
    <3>2. CASE i = top
      BY <1>4, <1>c, <2>5, <2>6, <3>1, <3>2 DEF StepsFaithful
    <3>3. CASE i # top
      BY <1>3, <2>6, <3>1, <3>3 DEF StepsFaithful
    <3> QED
      BY <3>2, <3>3
  <2>9. StepsFaithful'
    BY <1>3, <2>6, <2>8 DEF StepsFaithful, Recorded
  <2> QED
    BY <1>6, <1>7, <1>11, <2>7, <2>9
<1>13. CASE ~ Recorded(top)
  <2>1. steps' = steps
    BY <1>1, <1>8, <1>13 DEF ReplayStepStop, Stopped
  <2>2. ReplayTypeOK'
    BY <1>9, <1>10, <2>1 DEF ReplayTypeOK
  <2>3. \A i \in DOMAIN steps : i \in 1..Len(frames) /\ i <= MaxStepsPerTestAttempt
    BY CapsAssumption DEF StepsFaithful, Recorded, ReplayTypeOK, StepsTypeOK
  <2>4. \A i \in DOMAIN steps : frames'[i] = frames[i]
    BY <1>2, <1>3, <1>13, <2>3, CapsAssumption DEF Recorded
  <2>5. StepsFaithful'
    BY <1>3, <2>1, <2>4 DEF StepsFaithful, Recorded
  <2> QED
    BY <1>6, <1>7, <1>11, <2>2, <2>5
<1> QED
  BY <1>12, <1>13

\* What leaves the stacks alone and changes at most the parameters of frames
\* and records keeps the invariant.
LEMMA ParametersKeepIInv ==
  ASSUME IInv, TypeOK', UNCHANGED <<stack, openSteps>>,
         Len(frames') = Len(frames), Len(steps') = Len(steps),
         \A f \in 1..Len(frames) :
           /\ frames'[f].name = frames[f].name /\ frames'[f].parent = frames[f].parent
           /\ frames'[f].status = frames[f].status /\ frames'[f].error = frames[f].error
           /\ frames'[f].closed = frames[f].closed,
         \A i \in 1..Len(steps) :
           /\ steps'[i].name = steps[i].name /\ steps'[i].parent = steps[i].parent
           /\ steps'[i].status = steps[i].status /\ steps'[i].error = steps[i].error
           /\ steps'[i].duration = steps[i].duration
  PROVE  IInv'
<1>1. /\ DOMAIN frames = 1..Len(frames) /\ DOMAIN frames' = 1..Len(frames)
      /\ DOMAIN steps = 1..Len(steps) /\ DOMAIN steps' = 1..Len(steps)
  BY DEF IInv, TypeOK, StepsTypeOK, ReplayTypeOK
<1>2. \A i \in DOMAIN stack : stack[i] \in 1..Len(frames)
  BY DEF IInv, TypeOK, StepsTypeOK
<1>3. \A i \in DOMAIN steps : i \in 1..Len(frames)
  BY <1>1, CapsAssumption DEF IInv, StepsFaithful, Recorded, TypeOK, StepsTypeOK
<1>4. FramesOK'
  BY <1>1, <1>2 DEF IInv, FramesOK
<1>5. Lockstep'
  BY DEF IInv, Lockstep, Recorded
<1>6. StepsFaithful'
  BY <1>1, <1>3 DEF IInv, StepsFaithful, Recorded
<1> QED
  BY <1>4, <1>5, <1>6 DEF IInv

\* Every other message leaves the stacks alone.
LEMMA EmitsKeepsIInv ==
  ASSUME IInv, NEW m \in CaseMessages, Emits(m)
  PROVE  IInv'
<1> USE DEF IInv, TypeOK
<1>1. UNCHANGED stack /\ UNCHANGED failed /\ UNCHANGED mode
  BY DEF Emits, AddParameter, stepVars
<1>2. m.kind \notin {"step_start", "step_stop"} /\ (m.kind = "parameter" => m.value \in Values)
  BY MessagesAssumption
<1>3. \/ UNCHANGED replayVars
      \/ ReplayParameter(m)
      \/ UNCHANGED <<steps, openSteps, droppedSteps, caseParameters>>
  BY <1>2 DEF Emits, Emit, ReplayMessage, ReplayField, ReplayStepStart, ReplayStepStop,
              ReplayAttachment, ReplayWarning
<1>4. UNCHANGED <<openSteps, droppedSteps>>
  BY <1>3 DEF replayVars, ReplayParameter
<1>5. /\ frames' \in Seq(Frame) /\ Len(frames') = Len(frames)
      /\ \A f \in 1..Len(frames) :
           /\ frames'[f].name = frames[f].name /\ frames'[f].parent = frames[f].parent
           /\ frames'[f].status = frames[f].status /\ frames'[f].error = frames[f].error
           /\ frames'[f].closed = frames[f].closed
  <2>1. CASE UNCHANGED frames
    BY <2>1 DEF StepsTypeOK
  <2>2. CASE frames' # frames
    <3> DEFINE top == Last(stack)
               after == [frames[top] EXCEPT !.parameters = Append(@, m.value)]
    <3>1. /\ m.kind = "parameter" /\ stack # <<>>
          /\ frames' = [frames EXCEPT ![top].parameters = Append(@, m.value)]
      BY <2>2 DEF Emits, AddParameter, stepVars
    <3>2. top \in 1..Len(frames) /\ frames[top] \in Frame
      BY <3>1 DEF StepsTypeOK, Last
    <3>3. frames' = [frames EXCEPT ![top] = after]
      BY <3>1, <3>2, Zenon DEF StepsTypeOK
    <3>4. /\ after \in Frame /\ after.name = frames[top].name
          /\ after.parent = frames[top].parent /\ after.status = frames[top].status
          /\ after.error = frames[top].error /\ after.closed = frames[top].closed
      <4>1. Append(frames[top].parameters, m.value) \in Seq(Values)
        BY <1>2, <3>1, <3>2, AppendProperties DEF Frame
      <4> QED
        BY <3>2, <4>1 DEF Frame
    <3> HIDE DEF after
    <3>5. /\ frames' \in Seq(Frame) /\ Len(frames') = Len(frames) /\ frames'[top] = after
          /\ \A f \in 1..Len(frames) : f # top => frames'[f] = frames[f]
      BY <3>2, <3>3, <3>4, ReplacedElement DEF StepsTypeOK
    <3> QED
      BY <3>4, <3>5
  <2> QED
    BY <2>1, <2>2
<1>6. /\ steps' \in Seq(Step) /\ Len(steps') = Len(steps)
      /\ \A i \in 1..Len(steps) :
           /\ steps'[i].name = steps[i].name /\ steps'[i].parent = steps[i].parent
           /\ steps'[i].status = steps[i].status /\ steps'[i].error = steps[i].error
           /\ steps'[i].duration = steps[i].duration
  <2>1. CASE UNCHANGED steps
    BY <2>1 DEF ReplayTypeOK
  <2>2. CASE steps' # steps
    <3> DEFINE target == Innermost(openSteps)
               after == [steps[target] EXCEPT !.parameters =
                           Capped(@, m.value, MaxParametersPerStep)]
    <3>1. /\ m.kind = "parameter" /\ target # -1
          /\ steps' = [steps EXCEPT ![target].parameters =
                         Capped(@, m.value, MaxParametersPerStep)]
      BY <1>3, <2>2 DEF ReplayParameter, replayVars
    <3>2. target \in 1..Len(steps) /\ steps[target] \in Step
      <4>1. PICK i \in 1..Len(openSteps) :
              openSteps[i] # CapSentinel /\ target = openSteps[i]
        BY <3>1, InnermostIsOpen DEF ReplayTypeOK
      <4>2. i \in DOMAIN stack /\ openSteps[i] = stack[i] /\ Recorded(stack[i])
        BY <4>1 DEF Lockstep, ReplayTypeOK, StepsTypeOK
      <4> QED
        <5>1. stack[i] \in 1..Len(frames) /\ target = stack[i] /\ stack[i] <= MaxStepsPerTestAttempt
          BY <4>1, <4>2 DEF Recorded, StepsTypeOK
        <5>2. target \in 1..Len(steps)
          BY <5>1, CapsAssumption DEF StepsFaithful, Recorded, StepsTypeOK
        <5> HIDE DEF target
        <5> QED
          BY <5>2 DEF ReplayTypeOK
    <3>3. steps' = [steps EXCEPT ![target] = after]
      BY <3>1, <3>2, Zenon DEF ReplayTypeOK
    <3>4. /\ after \in Step /\ after.name = steps[target].name
          /\ after.parent = steps[target].parent /\ after.status = steps[target].status
          /\ after.error = steps[target].error /\ after.duration = steps[target].duration
      <4>1. Capped(steps[target].parameters, m.value, MaxParametersPerStep) \in Seq(Values)
        BY <1>2, <3>1, <3>2, CappedSlice DEF Step
      <4> QED
        BY <3>2, <4>1 DEF Step
    <3> HIDE DEF after, target
    <3>5. /\ steps' \in Seq(Step) /\ Len(steps') = Len(steps) /\ steps'[target] = after
          /\ \A i \in 1..Len(steps) : i # target => steps'[i] = steps[i]
      BY <3>2, <3>3, <3>4, ReplacedElement DEF ReplayTypeOK
    <3> QED
      BY <3>4, <3>5
  <2> QED
    BY <2>1, <2>2
<1>7. caseParameters' \in Seq(Values)
  <2>1. m.kind = "parameter" => Append(caseParameters, m.value) \in Seq(Values)
    BY <1>2, AppendProperties DEF ReplayTypeOK
  <2> QED
    BY <1>3, <2>1 DEF ReplayParameter, ReplayTypeOK, replayVars
<1>8. TypeOK'
  BY <1>1, <1>4, <1>5, <1>6, <1>7 DEF ReplayTypeOK, StepsTypeOK
<1> QED
  BY <1>1, <1>4, <1>5, <1>6, <1>8, ParametersKeepIInv

\* A failure of the test changes nothing in the frames but whom it is on.
LEMMA FailNowOnlyBlames ==
  ASSUME StepsTypeOK, FailNow
  PROVE  /\ frames' \in Seq(Frame) /\ Len(frames') = Len(frames)
         /\ \A f \in 1..Len(frames) :
              /\ frames'[f].name = frames[f].name /\ frames'[f].parent = frames[f].parent
              /\ frames'[f].status = frames[f].status /\ frames'[f].error = frames[f].error
              /\ frames'[f].closed = frames[f].closed
              /\ frames'[f].failedBefore = frames[f].failedBefore
              /\ frames'[f].parameters = frames[f].parameters
              /\ ~ failed /\ Contains(stack, f) => frames'[f].blamed
              /\ failed \/ ~ Contains(stack, f) => frames'[f] = frames[f]
<1> DEFINE after(f) == IF ~failed /\ Contains(stack, f)
                       THEN [frames[f] EXCEPT !.blamed = TRUE] ELSE frames[f]
<1>1. Len(frames) \in Nat /\ DOMAIN frames = 1..Len(frames)
  BY DEF StepsTypeOK
<1>2. frames' = [f \in 1..Len(frames) |-> after(f)]
  BY <1>1 DEF FailNow
<1>3. ASSUME NEW f \in 1..Len(frames)
      PROVE  /\ after(f) \in Frame
             /\ after(f).name = frames[f].name /\ after(f).parent = frames[f].parent
             /\ after(f).status = frames[f].status /\ after(f).error = frames[f].error
             /\ after(f).closed = frames[f].closed
             /\ after(f).failedBefore = frames[f].failedBefore
             /\ after(f).parameters = frames[f].parameters
             /\ ~ failed /\ Contains(stack, f) => after(f).blamed
  <2>1. frames[f] \in Frame
    BY <1>1 DEF StepsTypeOK
  <2> DEFINE frame == frames[f]
  <2> HIDE DEF frame
  <2>2. frame \in Frame
    BY <2>1 DEF frame
  <2> DEFINE blamed == [frame EXCEPT !.blamed = TRUE]
  <2>3. /\ blamed \in Frame
        /\ blamed.name = frame.name /\ blamed.parent = frame.parent
        /\ blamed.status = frame.status /\ blamed.error = frame.error
        /\ blamed.closed = frame.closed /\ blamed.failedBefore = frame.failedBefore
        /\ blamed.parameters = frame.parameters
        /\ blamed.blamed
    BY <2>2 DEF Frame
  <2>4. after(f) = blamed \/ (after(f) = frame /\ ~ (~ failed /\ Contains(stack, f)))
    BY DEF frame
  <2> HIDE DEF blamed, after
  <2> QED
    BY <2>2, <2>3, <2>4 DEF frame
<1> HIDE DEF after
<1>4. frames' \in Seq(Frame) /\ Len(frames') = Len(frames)
  BY <1>1, <1>2, <1>3
<1>5. \A f \in 1..Len(frames) : failed \/ ~ Contains(stack, f) => after(f) = frames[f]
  BY DEF after
<1> QED
  BY <1>2, <1>3, <1>4, <1>5

\* t.Error, t.Fatal, t.SkipNow, panics and recovers say nothing to the replay.
LEMMA ElsewhereKeepsIInv == ASSUME IInv, Elsewhere PROVE IInv'
<1> USE DEF IInv, TypeOK
<1>1. UNCHANGED <<replayVars, stack>>
  BY DEF Elsewhere, FailNow, SkipNow, Panics, Recovers, CleansUp
<1>2. failed' \in BOOLEAN /\ mode' \in {"running", "panicking", "exiting"}
  BY DEF Elsewhere, FailNow, SkipNow, Panics, Recovers, CleansUp, StepsTypeOK
<1>3. /\ frames' \in Seq(Frame) /\ Len(frames') = Len(frames)
      /\ \A f \in 1..Len(frames) :
           /\ frames'[f].name = frames[f].name /\ frames'[f].parent = frames[f].parent
           /\ frames'[f].status = frames[f].status /\ frames'[f].error = frames[f].error
           /\ frames'[f].closed = frames[f].closed
  BY FailNowOnlyBlames DEF Elsewhere, SkipNow, Panics, Recovers, CleansUp, StepsTypeOK
<1>4. TypeOK'
  BY <1>1, <1>2, <1>3 DEF StepsTypeOK, ReplayTypeOK, replayVars
<1> QED
  BY <1>1, <1>3, <1>4, ParametersKeepIInv DEF replayVars

\* The invariant, over every step of a test whose step messages fit.
THEOREM Invariance == ASSUME StepsFit PROVE Spec => []IInv
<1>1. Init => IInv
  BY InitIInv
<1>2. IInv /\ [Next]_vars => IInv'
  <2> SUFFICES ASSUME IInv, [Next]_vars PROVE IInv'
    OBVIOUS
  <2>1. CASE \E name \in Names : Begins(name)
    BY <2>1, BeginsKeepsIInv
  <2>2. CASE Closes
    BY <2>2, ClosesKeepsIInv
  <2>3. CASE \E m \in CaseMessages : Emits(m)
    BY <2>3, EmitsKeepsIInv
  <2>4. CASE Elsewhere
    BY <2>4, ElsewhereKeepsIInv
  <2>5. CASE UNCHANGED vars
    <3>1. TypeOK'
      BY <2>5 DEF IInv, TypeOK, ReplayTypeOK, StepsTypeOK, vars, replayVars, stepVars
    <3> QED
      BY <2>5, <3>1, ParametersKeepIInv DEF vars, replayVars, stepVars
  <2> QED
    BY <2>1, <2>2, <2>3, <2>4, <2>5 DEF Next
<1> QED
  BY <1>1, <1>2, PTL DEF Spec

\* The types of the report and of the test hold throughout.
THEOREM TypesHold == ASSUME StepsFit PROVE Spec => []TypeOK
BY Invariance, PTL DEF IInv

\* The replay's stack never drifts from the test's: whatever is beyond a cap,
\* panics, is recovered or exits, a stop closes the step that emitted it.
THEOREM LockstepHolds == ASSUME StepsFit PROVE Spec => []Lockstep
BY Invariance, PTL DEF IInv

\* Every step that fits in the report is recorded as it ran.
THEOREM StepsAreFaithful == ASSUME StepsFit PROVE Spec => []StepsFaithful
BY Invariance, PTL DEF IInv

\* No step of the replay changes the record of a closed step: a closed step is
\* not on the stack, and only the steps on the stack are written to.
LEMMA ClosedStepKept ==
  ASSUME IInv, StepsFit, Next,
         NEW i \in DOMAIN steps, steps[i].duration # NoDuration
  PROVE  i \in DOMAIN steps' /\ steps'[i] = steps[i]
<1> USE DEF IInv, TypeOK
<1>1. i \in 1..Len(steps) /\ i \in Nat /\ Len(steps) \in Nat
  BY DEF ReplayTypeOK
<1>2. \A j \in 1..Len(openSteps) : openSteps[j] # i
  <2>1. frames[i].closed
    BY DEF StepsFaithful
  <2>2. \A j \in DOMAIN stack : stack[j] # i
    BY <2>1 DEF FramesOK
  <2> QED
    BY <1>1, <2>2 DEF Lockstep, CapSentinel, ReplayTypeOK
<1>3. CASE UNCHANGED steps
  BY <1>3
<1>4. CASE \E name \in Names : Begins(name)
  <2>1. UNCHANGED steps \/ \E step : steps' = Append(steps, step)
    BY <1>4 DEF Begins, Emit, ReplayMessage, StepStart, ReplayField, ReplayParameter,
                ReplayStepStart, ReplayStepStop, ReplayAttachment, ReplayWarning, replayVars
  <2> QED
    BY <1>1, <2>1 DEF ReplayTypeOK
<1>5. CASE Closes /\ ~ UNCHANGED steps
  <2> DEFINE index == Last(openSteps)
  <2>1. /\ openSteps # <<>>
        /\ steps' = [steps EXCEPT ![index].status = ClosingStatus,
                                  ![index].duration = Last(stack),
                                  ![index].error = @ \/ (mode = "panicking")]
    BY <1>5 DEF Closes, Emit, ReplayMessage, StepStop, ReplayField, ReplayParameter,
                ReplayStepStart, ReplayStepStop, Stopped, ReplayAttachment, ReplayWarning, replayVars
  <2>2. index # i
    BY <1>2, <2>1 DEF Last, ReplayTypeOK
  <2> QED
    BY <1>1, <2>1, <2>2, Zenon DEF ReplayTypeOK
<1>6. CASE (\E m \in CaseMessages : Emits(m)) /\ ~ UNCHANGED steps
  <2>1. PICK m \in CaseMessages : Emits(m)
    BY <1>6
  <2> DEFINE target == Innermost(openSteps)
  <2>2. /\ target # -1
        /\ steps' = [steps EXCEPT ![target].parameters =
                       Capped(@, m.value, MaxParametersPerStep)]
    BY <1>6, <2>1, MessagesAssumption
       DEF Emits, Emit, ReplayMessage, ReplayField, ReplayParameter,
           ReplayStepStart, ReplayStepStop, ReplayAttachment, ReplayWarning, replayVars
  <2>3. target # i
    BY <1>2, <2>2, InnermostIsOpen DEF ReplayTypeOK
  <2> QED
    BY <1>1, <2>2, <2>3, Zenon DEF ReplayTypeOK
<1>7. Elsewhere => UNCHANGED steps
  BY DEF Elsewhere, replayVars
<1> QED
  BY <1>3, <1>4, <1>5, <1>6, <1>7 DEF Next

\* What the report says of a step is final once the step is closed.
THEOREM ClosedStepsStayAsTheyAre == ASSUME StepsFit PROVE Spec => ClosedStepsKept
<1>1. IInv /\ [Next]_vars =>
        [\A i \in DOMAIN steps : steps[i].duration # NoDuration =>
           i \in DOMAIN steps' /\ steps'[i] = steps[i]]_vars
  BY ClosedStepKept
<1> QED
  BY <1>1, Invariance, PTL DEF Spec, ClosedStepsKept
-----------------------------------------------------------------------------
\* What makes OutcomesTrue inductive: the change in tb.Failed() since a step
\* began, which is all the library looks at, is what that step is to blame for.
BlameOK ==
  /\ \A f \in 1..Len(frames) : frames[f].failedBefore => failed
  /\ \A f \in 1..Len(frames) : ~ frames[f].closed =>
       Contains(stack, f) /\ (frames[f].blamed <=> failed /\ ~ frames[f].failedBefore)
  /\ \A f \in 1..Len(frames) : frames[f].closed =>
       (frames[f].status = "failed" <=> frames[f].blamed \/ frames[f].error)

\* A step whose stack and verdict stay and whose frames change at most in their
\* parameters keeps it.
LEMMA SameBlame ==
  ASSUME BlameOK, UNCHANGED <<stack, failed>>, Len(frames') = Len(frames),
         \A f \in 1..Len(frames) :
           /\ frames'[f].failedBefore = frames[f].failedBefore
           /\ frames'[f].blamed = frames[f].blamed /\ frames'[f].closed = frames[f].closed
           /\ frames'[f].status = frames[f].status /\ frames'[f].error = frames[f].error
  PROVE  BlameOK'
BY DEF BlameOK, Contains

\* A new step is blamed for nothing yet, whether or not the test failed before.
LEMMA BeginsKeepsBlame ==
  ASSUME IInv, BlameOK, NEW name \in Names, BeginStep(name)
  PROVE  BlameOK'
<1> DEFINE new == Len(frames) + 1
<1>1. /\ Len(frames) \in Nat /\ Len(frames') = new
      /\ \A f \in 1..Len(frames) : frames'[f] = frames[f]
      /\ frames'[new].failedBefore = failed /\ ~ frames'[new].blamed
      /\ ~ frames'[new].closed
  BY DEF BeginStep, IInv, TypeOK, StepsTypeOK
<1>2. /\ Contains(stack', new) /\ UNCHANGED failed
      /\ \A f \in 1..Len(frames) : Contains(stack, f) => Contains(stack', f)
  <2>1. /\ stack \in Seq(1..Len(frames)) /\ Len(stack) \in Nat
        /\ stack' = Append(stack, new) /\ UNCHANGED failed
    BY DEF BeginStep, IInv, TypeOK, StepsTypeOK
  <2>2. /\ Len(stack') = Len(stack) + 1 /\ stack'[Len(stack) + 1] = new
        /\ \A i \in 1..Len(stack) : stack'[i] = stack[i]
    BY <2>1
  <2> QED
    BY <2>1, <2>2 DEF Contains
<1>3. \A f \in 1..new : f = new \/ f \in 1..Len(frames)
  BY <1>1
<1> QED
  BY <1>1, <1>2, <1>3 DEF BlameOK

\* Closing a step gives it the status its blame calls for: the test came to
\* fail while it ran, or a panic leaves it.
LEMMA ClosesKeepsBlame == ASSUME IInv, BlameOK, CloseStep PROVE BlameOK'
<1> DEFINE top == Last(stack)
<1>1. /\ stack \in Seq(1..Len(frames)) /\ stack # <<>> /\ Len(stack) \in Nat \ {0}
      /\ top = stack[Len(stack)] /\ top \in 1..Len(frames) /\ stack' = Front(stack)
      /\ UNCHANGED failed
  BY DEF CloseStep, Last, IInv, TypeOK, StepsTypeOK
<1>2. Len(frames') = Len(frames) /\ \A f \in 1..Len(frames) : f # top => frames'[f] = frames[f]
  BY DEF CloseStep, IInv, TypeOK, StepsTypeOK
<1>3. /\ frames'[top].closed /\ frames'[top].status = ClosingStatus
      /\ frames'[top].error = (mode = "panicking")
      /\ frames'[top].blamed = frames[top].blamed
      /\ frames'[top].failedBefore = frames[top].failedBefore
  BY <1>1 DEF CloseStep, IInv, TypeOK, StepsTypeOK, Frame
<1>4. \A f \in 1..Len(frames) : Contains(stack, f) /\ f # top => Contains(stack', f)
  <2>1. /\ Len(stack') = Len(stack) - 1 /\ DOMAIN stack' = 1..Len(stack) - 1
        /\ \A i \in 1..Len(stack) - 1 : stack'[i] = stack[i]
    BY <1>1, FrontProperties, LenProperties
  <2> QED
    BY <1>1, <2>1 DEF Contains
<1>5. frames[top].blamed <=> failed /\ ~ frames[top].failedBefore
  <2>1. ~ frames[top].closed
    BY <1>1 DEF IInv, FramesOK
  <2> QED
    BY <1>1, <2>1 DEF BlameOK
<1>6. frames'[top].status = "failed" <=> frames'[top].blamed \/ frames'[top].error
  BY <1>3, <1>5 DEF ClosingStatus, Outcome
<1> QED
  BY <1>1, <1>2, <1>3, <1>4, <1>6 DEF BlameOK

\* A first failure of the test blames every step open at that moment, no other.
LEMMA ElsewhereKeepsBlame == ASSUME IInv, BlameOK, Elsewhere PROVE BlameOK'
<1>1. CASE FailNow
  <2>1. /\ failed' = TRUE /\ UNCHANGED stack /\ Len(frames') = Len(frames)
        /\ \A f \in 1..Len(frames) :
             /\ frames'[f].failedBefore = frames[f].failedBefore
             /\ frames'[f].closed = frames[f].closed
             /\ ~ failed /\ Contains(stack, f) => frames'[f].blamed
             /\ failed \/ ~ Contains(stack, f) => frames'[f] = frames[f]
    BY <1>1, FailNowOnlyBlames DEF FailNow, IInv, TypeOK
  <2>2. \A f \in 1..Len(frames) : frames[f].closed => ~ Contains(stack, f)
    BY DEF IInv, FramesOK, Contains, TypeOK, StepsTypeOK
  <2> QED
    BY <2>1, <2>2 DEF BlameOK, Contains
<1>2. CASE SkipNow \/ Panics \/ Recovers
  BY <1>2, SameBlame DEF SkipNow, Panics, Recovers
<1>3. CASE CleansUp
  <2>1. \A f \in 1..Len(frames) : ~ Contains(stack, f)
    BY <1>3 DEF CleansUp, Contains
  <2> QED
    BY <1>3, <2>1 DEF CleansUp, BlameOK
<1> QED
  BY <1>1, <1>2, <1>3 DEF Elsewhere

\* Metadata blames nobody.
LEMMA EmitsKeepsBlame ==
  ASSUME IInv, BlameOK, NEW m \in CaseMessages, Emits(m)
  PROVE  BlameOK'
<1>1. UNCHANGED <<stack, failed>>
  BY DEF Emits, AddParameter, stepVars
<1>2. CASE UNCHANGED frames
  BY <1>1, <1>2, SameBlame
<1>3. CASE frames' # frames
  <2> DEFINE top == Last(stack)
  <2>1. stack # <<>> /\ frames' = [frames EXCEPT ![top].parameters = Append(@, m.value)]
    BY <1>3 DEF Emits, AddParameter, stepVars
  <2>2. top \in 1..Len(frames)
    BY <2>1 DEF Last, IInv, TypeOK, StepsTypeOK
  <2>3. /\ Len(frames') = Len(frames)
        /\ \A f \in 1..Len(frames) :
             /\ frames'[f].failedBefore = frames[f].failedBefore
             /\ frames'[f].blamed = frames[f].blamed /\ frames'[f].closed = frames[f].closed
             /\ frames'[f].status = frames[f].status /\ frames'[f].error = frames[f].error
    <3> DEFINE after == [frames[top] EXCEPT !.parameters = Append(@, m.value)]
    <3>1. frames[top] \in Frame
      BY <2>2 DEF IInv, TypeOK, StepsTypeOK
    <3>2. /\ Len(frames') = Len(frames)
          /\ \A f \in 1..Len(frames) : frames'[f] = IF f = top THEN after ELSE frames[f]
      BY <2>1, <2>2 DEF IInv, TypeOK, StepsTypeOK
    <3>3. /\ after.failedBefore = frames[top].failedBefore
          /\ after.blamed = frames[top].blamed /\ after.closed = frames[top].closed
          /\ after.status = frames[top].status /\ after.error = frames[top].error
      BY <3>1 DEF Frame
    <3> HIDE DEF after
    <3> QED
      BY <3>2, <3>3
  <2> QED
    BY <1>1, <2>3, SameBlame
<1> QED
  BY <1>2, <1>3

\* A step that fits in the report is failed exactly when the test came to fail
\* while it ran or a panic left it, however the steps nest and fail.
THEOREM OutcomesAreTrue == ASSUME StepsFit PROVE Spec => []OutcomesTrue
<1>1. Init => BlameOK
  BY DEF Init, StepsInit, BlameOK
<1>2. IInv /\ BlameOK /\ [Next]_vars => BlameOK'
  <2> SUFFICES ASSUME IInv, BlameOK, [Next]_vars PROVE BlameOK'
    OBVIOUS
  <2>1. CASE \E name \in Names : Begins(name)
    BY <2>1, BeginsKeepsBlame DEF Begins
  <2>2. CASE Closes
    BY <2>2, ClosesKeepsBlame DEF Closes
  <2>3. CASE \E m \in CaseMessages : Emits(m)
    BY <2>3, EmitsKeepsBlame
  <2>4. CASE Elsewhere
    BY <2>4, ElsewhereKeepsBlame
  <2>5. CASE UNCHANGED vars
    BY <2>5, SameBlame DEF vars, stepVars
  <2> QED
    BY <2>1, <2>2, <2>3, <2>4, <2>5 DEF Next
<1>3. IInv /\ BlameOK => OutcomesTrue
  <2> SUFFICES ASSUME IInv, BlameOK, NEW i \in DOMAIN steps, steps[i].duration # NoDuration
               PROVE  steps[i].status = "failed" <=> frames[i].blamed \/ steps[i].error
    BY DEF OutcomesTrue
  <2>1. i \in 1..Len(frames)
    BY CapsAssumption DEF IInv, StepsFaithful, Recorded, TypeOK, ReplayTypeOK, StepsTypeOK
  <2>2. /\ frames[i].closed /\ steps[i].status = frames[i].status
        /\ steps[i].error = frames[i].error
    BY DEF IInv, StepsFaithful
  <2> QED
    BY <2>1, <2>2 DEF BlameOK
<1> QED
  BY <1>1, <1>2, <1>3, Invariance, PTL DEF Spec
-----------------------------------------------------------------------------
\* While the messages of steps fit on a line, each of them is replayed.
LEMMA BeginsReplays ==
  ASSUME StepsFit, NEW name, Begins(name)
  PROVE  ReplayStepStart(StepStart(name))
<1>1. ~ MayDrop(StepStart(name))
  BY DEF StepsFit, MayDrop, StepStart
<1> QED
  BY <1>1 DEF Begins, Emit, ReplayMessage, StepStart, ReplayField, ReplayParameter,
              ReplayStepStop, ReplayAttachment, ReplayWarning

LEMMA ClosesReplays ==
  ASSUME StepsFit, Closes
  PROVE  ReplayStepStop(StepStop)
<1>1. ~ MayDrop(StepStop)
  BY DEF StepsFit, MayDrop, StepStop
<1> QED
  BY <1>1 DEF Closes, Emit, ReplayMessage, StepStop, ReplayField, ReplayParameter,
              ReplayStepStart, ReplayAttachment, ReplayWarning

\* What the test says in warnings, and what the replay says of attachments.
Said == {"skipping_attachment"} \cup {m.value : m \in {n \in CaseMessages : n.kind = "warning"}}

\* What makes DropsReported inductive.
DropsOK ==
  /\ droppedSteps <=> ~ Recorded(Len(frames))
  /\ warnings \in Seq(Said)

LEMMA EmitsKeepsDrops ==
  ASSUME IInv, DropsOK, NEW m \in CaseMessages, Emits(m)
  PROVE  DropsOK'
<1>1. Len(frames') = Len(frames)
  BY DEF Emits, AddParameter, stepVars, IInv, TypeOK, StepsTypeOK
<1>2. droppedSteps' = droppedSteps
  BY MessagesAssumption DEF Emits, Emit, ReplayMessage, ReplayField, ReplayParameter,
     ReplayStepStart, ReplayStepStop, ReplayAttachment, ReplayWarning, replayVars
<1>3. \/ UNCHANGED warnings
      \/ warnings' = Append(warnings, "skipping_attachment")
      \/ m.kind = "warning" /\ warnings' = Append(warnings, m.value)
  BY MessagesAssumption DEF Emits, Emit, ReplayMessage, ReplayField, ReplayParameter,
     ReplayStepStart, ReplayStepStop, ReplayAttachment, ReplayWarning, replayVars
<1>4. "skipping_attachment" \in Said /\ (m.kind = "warning" => m.value \in Said)
  BY DEF Said
<1>5. warnings' \in Seq(Said)
  BY <1>3, <1>4, AppendProperties DEF DropsOK
<1> QED
  BY <1>1, <1>2, <1>5 DEF DropsOK, Recorded

\* Steps are dropped exactly beyond the cap, and the case says so exactly then.
THEOREM DropsAreReported == ASSUME StepsFit PROVE Spec => []DropsReported
<1>1. Init => DropsOK
  <2>1. <<>> \in Seq(Said)
    OBVIOUS
  <2> QED
    BY <2>1, CapsAssumption DEF Init, ReplayInit, StepsInit, DropsOK, Recorded
<1>2. IInv /\ DropsOK /\ [Next]_vars => DropsOK'
  <2> SUFFICES ASSUME IInv, DropsOK, [Next]_vars PROVE DropsOK'
    OBVIOUS
  <2>1. CASE \E name \in Names : Begins(name)
    <3>1. PICK name \in Names : Begins(name)
      BY <2>1
    <3>2. ReplayStepStart(StepStart(name))
      BY <3>1, BeginsReplays
    <3>3. Len(frames') = Len(frames) + 1 /\ Len(frames) \in Nat /\ MaxStepsPerTestAttempt \in Nat
      BY <3>1, CapsAssumption DEF Begins, BeginStep, IInv, TypeOK, StepsTypeOK
    <3>4. Len(steps) >= MaxStepsPerTestAttempt <=> ~ Recorded(Len(frames) + 1)
      BY <3>3 DEF IInv, StepsFaithful, Recorded
    <3>5. droppedSteps' <=> droppedSteps \/ ~ Recorded(Len(frames) + 1)
      BY <3>2, <3>4 DEF ReplayStepStart, IInv, TypeOK, ReplayTypeOK
    <3> QED
      BY <3>2, <3>3, <3>5 DEF DropsOK, Recorded, ReplayStepStart
  <2>2. CASE Closes
    <3>1. UNCHANGED <<droppedSteps, warnings>>
      BY <2>2, ClosesReplays DEF ReplayStepStop
    <3>2. Len(frames') = Len(frames)
      BY <2>2 DEF Closes, CloseStep, IInv, TypeOK, StepsTypeOK
    <3> QED
      BY <3>1, <3>2 DEF DropsOK, Recorded
  <2>3. CASE \E m \in CaseMessages : Emits(m)
    BY <2>3, EmitsKeepsDrops
  <2>4. CASE Elsewhere
    <3>1. Len(frames') = Len(frames)
      BY <2>4, FailNowOnlyBlames DEF Elsewhere, SkipNow, Panics, Recovers, CleansUp, IInv, TypeOK
    <3> QED
      BY <2>4, <3>1 DEF Elsewhere, replayVars, DropsOK, Recorded
  <2>5. CASE UNCHANGED vars
    BY <2>5 DEF vars, replayVars, stepVars, DropsOK, Recorded
  <2> QED
    BY <2>1, <2>2, <2>3, <2>4, <2>5 DEF Next
<1>3. IInv /\ DropsOK => DropsReported
  <2> SUFFICES ASSUME IInv, DropsOK PROVE DropsReported
    OBVIOUS
  <2>1. Len(frames) > MaxStepsPerTestAttempt <=> droppedSteps
    BY CapsAssumption DEF DropsOK, Recorded, IInv, TypeOK, StepsTypeOK
  <2>2. "steps_dropped" \notin Said
    BY MessagesAssumption DEF Said
  <2>3. ~ Contains(warnings, "steps_dropped")
    BY <2>2 DEF DropsOK, Contains
  <2>4. Contains(Append(warnings, "steps_dropped"), "steps_dropped")
    <3>1. Len(warnings) \in Nat /\ Len(Append(warnings, "steps_dropped")) = Len(warnings) + 1
          /\ Append(warnings, "steps_dropped")[Len(warnings) + 1] = "steps_dropped"
      BY DEF DropsOK
    <3> QED
      BY <3>1 DEF Contains
  <2> QED
    BY <2>1, <2>3, <2>4 DEF DropsReported, FinalWarnings
<1> QED
  BY <1>1, <1>2, <1>3, Invariance, PTL DEF Spec
-----------------------------------------------------------------------------
\* A slice that is appended to up to a cap is the first of what was appended.
LEMMA FirstLength ==
  ASSUME NEW S, NEW s \in Seq(S), NEW cap \in Nat
  PROVE  /\ First(s, cap) \in Seq(S) /\ Len(s) \in Nat
         /\ Len(First(s, cap)) = IF Len(s) < cap THEN Len(s) ELSE cap
         /\ \A i \in 1..Len(First(s, cap)) : First(s, cap)[i] = s[i]
         /\ Len(s) <= cap => First(s, cap) = s
<1>1. PICK n : n = IF Len(s) < cap THEN Len(s) ELSE cap
  OBVIOUS
<1>2. n \in Nat /\ n <= Len(s) /\ Len(s) \in Nat
  BY <1>1
<1>3. PICK t : t = SubSeq(s, 1, n)
  OBVIOUS
<1>4. t \in Seq(S) /\ Len(t) = n /\ \A i \in 1..n : t[i] = s[i]
  BY <1>2, <1>3
<1>5. First(s, cap) = t
  BY <1>1, <1>3 DEF First
<1>6. Len(s) <= cap => t = s
  BY <1>1, <1>2, <1>4, SeqEqual
<1> QED
  BY <1>1, <1>2, <1>4, <1>5, <1>6

LEMMA FirstOfAppend ==
  ASSUME NEW S, NEW s \in Seq(S), NEW e \in S, NEW cap \in Nat
  PROVE  First(Append(s, e), cap) = Capped(First(s, cap), e, cap)
<1>1. PICK a : a = Append(s, e)
  OBVIOUS
<1>2. /\ a \in Seq(S) /\ Len(a) = Len(s) + 1 /\ a[Len(s) + 1] = e /\ Len(s) \in Nat
      /\ \A i \in 1..Len(s) : a[i] = s[i]
  BY <1>1
<1>3. PICK f, g : f = First(s, cap) /\ g = First(a, cap)
  OBVIOUS
<1>4. /\ f \in Seq(S) /\ Len(f) = (IF Len(s) < cap THEN Len(s) ELSE cap)
      /\ \A i \in 1..Len(f) : f[i] = s[i]
  BY <1>3, FirstLength
<1>5. /\ g \in Seq(S) /\ Len(g) = (IF Len(s) + 1 < cap THEN Len(s) + 1 ELSE cap)
      /\ \A i \in 1..Len(g) : g[i] = a[i]
  BY <1>2, <1>3, FirstLength
<1>6. CASE Len(s) < cap
  <2>1. First(s, cap) = s
    BY <1>2, <1>6, FirstLength
  <2>2. First(a, cap) = a
    BY <1>2, <1>6, FirstLength
  <2> QED
    BY <1>1, <1>6, <2>1, <2>2 DEF Capped
<1>7. CASE ~ (Len(s) < cap)
  <2>1. Len(f) = cap /\ Len(g) = cap
    BY <1>2, <1>4, <1>5, <1>7
  <2>4. \A i \in 1..cap : i \in 1..Len(s)
    BY <1>2, <1>7
  <2>2. \A i \in 1..cap : f[i] = s[i] /\ g[i] = s[i]
    BY <1>2, <1>4, <1>5, <2>1, <2>4
  <2>3. f = g
    BY <1>4, <1>5, <2>1, <2>2, SeqEqual
  <2> QED
    BY <1>1, <1>3, <2>1, <2>3 DEF Capped
<1> QED
  BY <1>6, <1>7

LEMMA LeftPart ==
  ASSUME NEW S, NEW u \in Seq(S), NEW v \in Seq(S)
  PROVE  /\ u \o v \in Seq(S) /\ Len(u \o v) = Len(u) + Len(v)
         /\ \A i \in 1..Len(u) : (u \o v)[i] = u[i]
OBVIOUS

LEMMA FirstOfConcat ==
  ASSUME NEW S, NEW s \in Seq(S), NEW t \in Seq(S), NEW cap \in Nat
  PROVE  First(First(s, cap) \o t, cap) = First(s \o t, cap)
<1>1. PICK u, f : u = s \o t /\ f = First(s, cap)
  OBVIOUS
<1>2. /\ u \in Seq(S) /\ Len(u) = Len(s) + Len(t) /\ Len(s) \in Nat /\ Len(t) \in Nat
      /\ \A i \in 1..Len(s) : u[i] = s[i]
  BY <1>1, LeftPart
<1>3. CASE Len(s) <= cap
  BY <1>3, FirstLength
<1>4. CASE ~ (Len(s) <= cap)
  <2>1. f \in Seq(S) /\ Len(f) = cap /\ \A i \in 1..cap : f[i] = s[i]
    <3>1. Len(f) = IF Len(s) < cap THEN Len(s) ELSE cap
      BY <1>1, FirstLength
    <3> QED
      BY <1>1, <1>2, <1>4, <3>1, FirstLength
  <2>2. PICK v : v = f \o t
    OBVIOUS
  <2>3. v \in Seq(S) /\ Len(v) = cap + Len(t) /\ \A i \in 1..cap : v[i] = f[i]
    BY <2>1, <2>2, LeftPart
  <2>4. PICK g, h : g = First(v, cap) /\ h = First(u, cap)
    OBVIOUS
  <2>5. g \in Seq(S) /\ Len(g) = cap /\ \A i \in 1..cap : g[i] = v[i]
    <3>1. g \in Seq(S) /\ Len(g) = (IF Len(v) < cap THEN Len(v) ELSE cap)
          /\ \A i \in 1..Len(g) : g[i] = v[i]
      BY <2>3, <2>4, FirstLength
    <3> QED
      BY <1>2, <2>3, <3>1
  <2>6. h \in Seq(S) /\ Len(h) = cap /\ \A i \in 1..cap : h[i] = u[i]
    <3>1. h \in Seq(S) /\ Len(h) = (IF Len(u) < cap THEN Len(u) ELSE cap)
          /\ \A i \in 1..Len(h) : h[i] = u[i]
      BY <1>2, <2>4, FirstLength
    <3> QED
      BY <1>2, <1>4, <3>1
  <2>7. \A i \in 1..cap : g[i] = h[i]
    <3>1. \A i \in 1..cap : i \in 1..Len(s)
      BY <1>2, <1>4
    <3> QED
      BY <1>2, <2>1, <2>3, <2>5, <2>6, <3>1
  <2>8. g = h
    BY <2>5, <2>6, <2>7, SeqEqual
  <2> QED
    BY <1>1, <2>2, <2>4, <2>8
<1> QED
  BY <1>2, <1>3, <1>4
-----------------------------------------------------------------------------
\* Only attachments may be too large for a line.
OthersFit == Droppable \subseteq {"attachment"}

\* A message is counted with those of its kind.
LEMMA OfAnother ==
  ASSUME NEW m \in CaseMessages, emitted \in Seq(CaseMessages), emitted' = Append(emitted, m), NEW kind
  PROVE  /\ emitted' \in Seq(CaseMessages)
         /\ Of(kind) \in Seq(CaseMessages)
         /\ m.kind = kind => Of(kind)' = Append(Of(kind), m)
         /\ m.kind # kind => Of(kind)' = Of(kind)
<1> DEFINE kept == {n \in CaseMessages : n.kind = kind}
<1>1. FiltersOn(emitted, m, kept) /\ Filtered(emitted, kept) \in Seq(CaseMessages)
  <2> HIDE DEF kept
  <2> QED
    BY FilteredProperties
<1>2. m \in kept <=> m.kind = kind
  OBVIOUS
<1> QED
  BY <1>1, <1>2, AppendProperties DEF Of, FiltersOn
-----------------------------------------------------------------------------
\* What makes ParametersBelong inductive: whether a step has been dropped.
ParametersOK ==
  /\ emitted \in Seq(CaseMessages)
  /\ droppedSteps <=> ~ Recorded(Len(frames))
  /\ ParametersBelong

\* The parameters of the steps are texts, of as many steps as there are frames.
ParametersOf(fs) == [f \in DOMAIN fs |-> fs[f].parameters]

LEMMA FrameParameters ==
  ASSUME NEW frame \in Frame
  PROVE  frame.parameters \in Seq(Values)
BY DEF Frame

LEMMA ParametersTyped ==
  ASSUME NEW fs \in Seq(Frame)
  PROVE  /\ ParametersOf(fs) \in Seq(Seq(Values))
         /\ Len(ParametersOf(fs)) = Len(fs) /\ Len(fs) \in Nat
         /\ \A f \in 1..Len(fs) : ParametersOf(fs)[f] = fs[f].parameters
<1>1. \A frame \in Frame : frame.parameters \in Seq(Values)
  BY FrameParameters
<1>2. Len(fs) \in Nat /\ DOMAIN fs = 1..Len(fs) /\ \A f \in 1..Len(fs) : fs[f] \in Frame
  OBVIOUS
<1>3. PICK s : s = ParametersOf(fs)
  OBVIOUS
<1>4. s = [f \in 1..Len(fs) |-> fs[f].parameters]
  BY <1>2, <1>3 DEF ParametersOf
<1>5. s \in [1..Len(fs) -> Seq(Values)]
  BY <1>1, <1>2, <1>4
<1>6. s \in Seq(Seq(Values)) /\ Len(s) = Len(fs)
  BY ONLY <1>2, <1>5
<1> QED
  BY <1>2, <1>3, <1>4, <1>6

LEMMA InStepsTyped ==
  ASSUME IInv
  PROVE  /\ InSteps \in Seq(Seq(Values)) /\ Len(InSteps) = Len(frames) /\ Len(frames) \in Nat
         /\ \A f \in 1..Len(frames) : InSteps[f] = frames[f].parameters
BY ParametersTyped DEF IInv, TypeOK, StepsTypeOK, InSteps, ParametersOf

\* Where nothing is said of parameters, they stay where they are.
LEMMA SameParameters ==
  ASSUME IInv, IInv', ParametersOK, UNCHANGED <<droppedSteps, caseParameters, emitted>>,
         Len(frames') = Len(frames), Len(steps') = Len(steps),
         \A f \in 1..Len(frames) : frames'[f].parameters = frames[f].parameters,
         \A i \in 1..Len(steps) : steps'[i].parameters = steps[i].parameters
  PROVE  ParametersOK'
<1>1. /\ DOMAIN frames = 1..Len(frames) /\ DOMAIN frames' = 1..Len(frames)
      /\ DOMAIN steps = 1..Len(steps) /\ DOMAIN steps' = 1..Len(steps)
  BY DEF IInv, TypeOK, StepsTypeOK, ReplayTypeOK
<1>2. \A i \in 1..Len(steps) : i \in 1..Len(frames)
  BY <1>1, CapsAssumption DEF IInv, StepsFaithful, Recorded, TypeOK, StepsTypeOK
<1>3. InSteps' = InSteps
  BY <1>1 DEF InSteps
<1>4. Of("parameter")' = Of("parameter")
  BY DEF Of
<1>5. ParametersBelong'
  BY <1>1, <1>2, <1>3, <1>4 DEF ParametersOK, ParametersBelong, First
<1> QED
  BY <1>5 DEF ParametersOK, Recorded

\* A step begins without parameters.
LEMMA BeginsKeepsParameters ==
  ASSUME IInv, IInv', StepsFit, ParametersOK, NEW name \in Names, Begins(name)
  PROVE  ParametersOK'
<1>1. ReplayStepStart(StepStart(name))
  BY BeginsReplays
<1> DEFINE frame == [name |-> name, parent |-> Enclosing, failedBefore |-> failed,
                     blamed |-> FALSE, closed |-> FALSE, status |-> "passed", error |-> FALSE,
                     parameters |-> <<>>]
<1>2. frames' = Append(frames, frame) /\ frame.parameters = <<>>
  BY DEF Begins, BeginStep
<1> HIDE DEF frame
<1>3. /\ frames \in Seq(Frame) /\ Len(frames) \in Nat /\ MaxStepsPerTestAttempt \in Nat
      /\ Len(frames') = Len(frames) + 1 /\ frames'[Len(frames) + 1] = frame
      /\ \A f \in 1..Len(frames) : frames'[f] = frames[f]
  <2>1. frames \in Seq(Frame) /\ frames' \in Seq(Frame)
    BY DEF IInv, TypeOK, StepsTypeOK
  <2> QED
    BY <1>2, <2>1, CapsAssumption
<1>4. Len(steps) >= MaxStepsPerTestAttempt <=> ~ Recorded(Len(frames) + 1)
  BY <1>3 DEF IInv, StepsFaithful, Recorded
<1>5. droppedSteps' <=> ~ Recorded(Len(frames'))
  <2>1. droppedSteps' <=> droppedSteps \/ ~ Recorded(Len(frames) + 1)
    BY <1>1, <1>4 DEF ReplayStepStart, IInv, TypeOK, ReplayTypeOK
  <2> QED
    BY <1>3, <2>1 DEF ParametersOK, Recorded
<1>6. UNCHANGED <<caseParameters, emitted>>
  BY <1>1 DEF Begins, ReplayStepStart
<1>7. ASSUME ~ droppedSteps' PROVE ParametersBelong'
  <2>1. ~ droppedSteps /\ Len(steps) = Len(frames) /\ Recorded(Len(frames) + 1)
    BY <1>3, <1>5, <1>7 DEF ParametersOK, Recorded, IInv, StepsFaithful
  <2>2. PICK step : steps' = Append(steps, step) /\ step.parameters = <<>>
    BY <1>1, <1>4, <2>1 DEF ReplayStepStart
  <2>3. /\ DOMAIN steps' = 1..Len(frames) + 1 /\ steps'[Len(frames) + 1] = step
        /\ \A i \in 1..Len(frames) : i \in DOMAIN steps /\ steps'[i] = steps[i]
    <3>1. steps \in Seq(Step) /\ steps' \in Seq(Step)
      BY DEF IInv, TypeOK, ReplayTypeOK
    <3> QED
      BY <2>1, <2>2, <3>1
  <2>4. First(<<>>, MaxParametersPerStep) = <<>>
    <3>1. PICK empty : empty = <<>>
      OBVIOUS
    <3>2. empty \in Seq(Values) /\ Len(empty) <= MaxParametersPerStep /\ MaxParametersPerStep \in Nat
      BY <3>1, CapsAssumption
    <3>3. First(empty, MaxParametersPerStep) = empty
      BY ONLY <3>2, FirstLength
    <3> QED
      BY <3>1, <3>3
  <2>5. ASSUME NEW i \in DOMAIN steps'
        PROVE  steps'[i].parameters = First(frames'[i].parameters, MaxParametersPerStep)
    <3>1. CASE i = Len(frames) + 1
      BY <1>2, <1>3, <2>2, <2>3, <2>4, <3>1
    <3>2. CASE i \in 1..Len(frames)
      BY <1>3, <2>1, <2>3, <3>2 DEF ParametersOK, ParametersBelong
    <3> QED
      BY <1>3, <2>3, <3>1, <3>2
  <2>6. InSteps' = Append(InSteps, <<>>)
    <3>1. PICK a : a = Append(InSteps, <<>>)
      OBVIOUS
    <3>2. <<>> \in Seq(Values)
      OBVIOUS
    <3>3. /\ a \in Seq(Seq(Values)) /\ Len(a) = Len(InSteps) + 1 /\ a[Len(InSteps) + 1] = <<>>
          /\ \A f \in 1..Len(InSteps) : a[f] = InSteps[f]
      BY <3>1, <3>2, InStepsTyped, AppendProperties
    <3>4. PICK b : b = InSteps'
      OBVIOUS
    <3>5. /\ b \in Seq(Seq(Values)) /\ Len(b) = Len(frames')
          /\ \A f \in 1..Len(frames') : b[f] = frames'[f].parameters
      <4>1. /\ InSteps' \in Seq(Seq(Values)) /\ Len(InSteps') = Len(frames')
            /\ \A f \in 1..Len(frames') : InSteps'[f] = frames'[f].parameters
        BY ParametersTyped DEF IInv, TypeOK, StepsTypeOK, InSteps, ParametersOf
      <4> QED
        BY <3>4, <4>1
    <3>6. Len(a) = Len(b) /\ \A f \in 1..Len(a) : a[f] = b[f]
      <4>1. \A f \in 1..Len(frames) + 1 : f \in 1..Len(frames) \/ f = Len(frames) + 1
        BY <1>3
      <4>2. Len(InSteps) = Len(frames) /\ \A f \in 1..Len(frames) : InSteps[f] = frames[f].parameters
        BY InStepsTyped
      <4>3. Len(a) = Len(b) /\ Len(a) = Len(frames) + 1
        BY <1>3, <3>3, <3>5, <4>2
      <4>4. \A f \in 1..Len(frames) : f \in 1..Len(frames') /\ frames'[f].parameters = frames[f].parameters
        BY <1>3
      <4>5. \A f \in 1..Len(frames) : a[f] = b[f]
        BY <3>3, <3>5, <4>2, <4>4
      <4>6. a[Len(frames) + 1] = b[Len(frames) + 1]
        <5>1. Len(frames) + 1 \in 1..Len(frames')
          BY <1>3
        <5> QED
          BY <1>2, <1>3, <3>3, <3>5, <4>2, <5>1
      <4> QED
        BY <4>1, <4>3, <4>5, <4>6
    <3> QED
      BY ONLY <3>1, <3>3, <3>4, <3>5, <3>6, SeqEqual
  <2>7. Len(FlattenSeq(InSteps')) = Len(FlattenSeq(InSteps))
    <3>1. PICK flat : flat = FlattenSeq(InSteps)
      OBVIOUS
    <3>2. <<>> \in Seq(Values) /\ InSteps \in Seq(Seq(Values))
      BY InStepsTyped
    <3>3. flat \in Seq(Values) /\ FlattenSeq(InSteps') = flat \o <<>>
      BY <2>6, <3>1, <3>2, FlattenProperties
    <3> QED
      BY <3>1, <3>2, <3>3
  <2>8. FlattenSeq(InSteps)' = FlattenSeq(InSteps') /\ Of("parameter")' = Of("parameter")
    BY <1>6 DEF Of
  <2> QED
    BY <1>6, <2>1, <2>5, <2>7, <2>8 DEF ParametersOK, ParametersBelong
<1> QED
  BY <1>5, <1>6, <1>7 DEF ParametersOK, ParametersBelong

\* The step that is closed keeps its parameters.
LEMMA ClosesKeepsParameters ==
  ASSUME IInv, IInv', StepsFit, ParametersOK, Closes
  PROVE  ParametersOK'
<1>1. ReplayStepStop(StepStop) /\ UNCHANGED emitted
  BY ClosesReplays DEF Closes
<1>2. UNCHANGED <<droppedSteps, caseParameters>>
  BY <1>1 DEF ReplayStepStop
<1>3. /\ Len(frames') = Len(frames)
      /\ \A f \in 1..Len(frames) : frames'[f].parameters = frames[f].parameters
  <2>1. PICK top, frame :
          /\ frames' = [frames EXCEPT ![top] = frame]
          /\ top \in 1..Len(frames) => frame.parameters = frames[top].parameters
    <3> DEFINE k == Last(stack)
               after == [frames[k] EXCEPT !.closed = TRUE, !.status = ClosingStatus,
                                          !.error = (mode = "panicking")]
    <3>1. frames \in Seq(Frame) /\ k \in 1..Len(frames) /\ frames[k] \in Frame
      BY DEF Closes, CloseStep, IInv, TypeOK, StepsTypeOK, Last
    <3>2. frames' = [frames EXCEPT ![k] = after]
      <4>1. frames' = [frames EXCEPT ![k].closed = TRUE, ![k].status = ClosingStatus,
                                     ![k].error = (mode = "panicking")]
        BY DEF Closes, CloseStep
      <4> HIDE DEF k
      <4> QED
        BY ONLY <3>1, <4>1, Zenon
    <3>3. after.parameters = frames[k].parameters
      <4> HIDE DEF k
      <4>1. PICK old : old = frames[k]
        OBVIOUS
      <4>2. old \in Frame
        BY <3>1, <4>1
      <4>3. [old EXCEPT !.closed = TRUE, !.status = ClosingStatus,
                        !.error = (mode = "panicking")].parameters = old.parameters
        BY ONLY <4>2 DEF Frame
      <4> QED
        BY <4>1, <4>3
    <3> HIDE DEF k, after
    <3> QED
      BY <3>2, <3>3
  <2> QED
    BY <2>1 DEF IInv, TypeOK, StepsTypeOK
<1>4. /\ Len(steps') = Len(steps)
      /\ \A i \in 1..Len(steps) : steps'[i].parameters = steps[i].parameters
  <2>1. CASE UNCHANGED steps
    BY <2>1
  <2>2. CASE ~ UNCHANGED steps
    <3> DEFINE k == Last(openSteps)
               after == [steps[k] EXCEPT !.status = ClosingStatus, !.duration = Last(stack),
                                         !.error = @ \/ (mode = "panicking")]
    <3>1. steps' = [steps EXCEPT ![k].status = ClosingStatus, ![k].duration = Last(stack),
                                 ![k].error = @ \/ (mode = "panicking")]
      BY <1>1, <2>2 DEF ReplayStepStop, StepStop, Stopped
    <3>2. steps \in Seq(Step) /\ steps' \in Seq(Step)
      BY DEF IInv, TypeOK, ReplayTypeOK
    <3>3. CASE k \in 1..Len(steps)
      <4> HIDE DEF k
      <4>1. steps' = [steps EXCEPT ![k] = after]
        BY ONLY <3>1, <3>2, <3>3, Zenon DEF after
      <4>2. PICK old : old = steps[k]
        OBVIOUS
      <4>3. old \in Step
        BY <3>2, <3>3, <4>2
      <4>4. [old EXCEPT !.status = ClosingStatus, !.duration = Last(stack),
                        !.error = @ \/ (mode = "panicking")].parameters = old.parameters
        BY ONLY <4>3 DEF Step
      <4>5. after.parameters = steps[k].parameters
        BY <4>2, <4>4
      <4> HIDE DEF after
      <4> QED
        BY <3>2, <3>3, <4>1, <4>5
    <3>4. CASE k \notin 1..Len(steps)
      <4> HIDE DEF k
      <4>1. UNCHANGED steps
        <5>1. k \notin DOMAIN steps
          BY <3>2, <3>4
        <5>2. steps' = [i \in DOMAIN steps |-> steps[i]]
          BY ONLY <3>1, <5>1, Zenon
        <5> QED
          BY <3>2, <5>2
      <4> QED
        BY <4>1
    <3> QED
      BY <3>3, <3>4
  <2> QED
    BY <2>1, <2>2
<1> QED
  BY <1>1, <1>2, <1>3, <1>4, SameParameters

\* t.Error and its like say nothing of parameters.
LEMMA ElsewhereKeepsParameters ==
  ASSUME IInv, IInv', ParametersOK, Elsewhere
  PROVE  ParametersOK'
<1>1. UNCHANGED <<replayVars, emitted>>
  BY DEF Elsewhere
<1>2. /\ Len(frames') = Len(frames)
      /\ \A f \in 1..Len(frames) : frames'[f].parameters = frames[f].parameters
  BY FailNowOnlyBlames DEF Elsewhere, SkipNow, Panics, Recovers, CleansUp, IInv, TypeOK
<1> QED
  BY <1>1, <1>2, SameParameters DEF replayVars

\* A parameter goes to the step that runs, or to the case.
LEMMA EmitsKeepsParameters ==
  ASSUME IInv, IInv', OthersFit, ParametersOK, NEW m \in CaseMessages, Emits(m)
  PROVE  ParametersOK'
<1>1. emitted' = Append(emitted, m) /\ UNCHANGED <<stack, openSteps, droppedSteps>>
  <2>1. emitted' = Append(emitted, m) /\ UNCHANGED stack
    BY DEF Emits, AddParameter, stepVars
  <2>2. UNCHANGED <<openSteps, droppedSteps>>
    BY MessagesAssumption DEF Emits, Emit, ReplayMessage, ReplayField, ReplayParameter,
       ReplayStepStart, ReplayStepStop, ReplayAttachment, ReplayWarning, replayVars
  <2> QED
    BY <2>1, <2>2
<1>2. /\ emitted' \in Seq(CaseMessages) /\ Of("parameter") \in Seq(CaseMessages)
      /\ m.kind = "parameter" => Of("parameter")' = Append(Of("parameter"), m)
      /\ m.kind # "parameter" => Of("parameter")' = Of("parameter")
  BY <1>1, OfAnother DEF ParametersOK
<1>3. /\ frames \in Seq(Frame) /\ frames' \in Seq(Frame) /\ Len(frames) \in Nat
      /\ steps \in Seq(Step) /\ steps' \in Seq(Step) /\ stack \in Seq(1..Len(frames))
      /\ caseParameters \in Seq(Values) /\ Len(caseParameters) \in Nat
      /\ MaxStepsPerTestAttempt \in Nat /\ MaxParametersPerStep \in Nat
  <2>1. ReplayTypeOK /\ StepsTypeOK /\ ReplayTypeOK' /\ StepsTypeOK'
    BY DEF IInv, TypeOK
  <2> QED
    <3>1. /\ frames \in Seq(Frame) /\ frames' \in Seq(Frame) /\ stack \in Seq(1..Len(frames))
          /\ steps \in Seq(Step) /\ steps' \in Seq(Step) /\ caseParameters \in Seq(Values)
      BY ONLY <2>1, Zenon DEF StepsTypeOK, ReplayTypeOK
    <3>2. Len(frames) \in Nat /\ Len(caseParameters) \in Nat
      BY ONLY <3>1
    <3> QED
      BY <3>1, <3>2, CapsAssumption
<1>4. CASE m.kind # "parameter"
  <2>1. UNCHANGED frames
    BY <1>4 DEF Emits, stepVars
  <2>2. UNCHANGED <<steps, caseParameters>>
    BY <1>4, MessagesAssumption DEF Emits, Emit, ReplayMessage, ReplayField, ReplayParameter,
       ReplayStepStart, ReplayStepStop, ReplayAttachment, ReplayWarning, replayVars
  <2>3. ParametersBelong'
    BY <1>1, <1>2, <1>4, <2>1, <2>2 DEF ParametersOK, ParametersBelong, InSteps, First
  <2> QED
    BY <1>1, <1>2, <2>1, <2>3 DEF ParametersOK, Recorded
<1>5. CASE m.kind = "parameter"
  <2>1. m.value \in Values /\ ReplayParameter(m) /\ AddParameter(m.value)
    <3>1. ~ MayDrop(m)
      BY <1>5 DEF OthersFit, MayDrop
    <3> QED
      BY <1>5, <3>1, MessagesAssumption DEF Emits, Emit, ReplayMessage, ReplayField, ReplayParameter,
         ReplayStepStart, ReplayStepStop, ReplayAttachment, ReplayWarning
  <2>2. Len(frames') = Len(frames)
    BY <2>1 DEF AddParameter, IInv, TypeOK, StepsTypeOK
  <2>3. Len(Of("parameter")') = Len(Of("parameter")) + 1 /\ Len(Of("parameter")) \in Nat
    BY <1>2, <1>5
  <2>4. ASSUME ~ droppedSteps PROVE ParametersBelong'
    <3>1. openSteps = stack /\ Len(steps) = Len(frames) /\ Len(steps') = Len(frames)
      <4>1. Recorded(Len(frames)) /\ \A j \in DOMAIN stack : Recorded(stack[j])
        <5>1. Recorded(Len(frames))
          BY <2>4 DEF ParametersOK
        <5>2. \A j \in DOMAIN stack : stack[j] \in 1..Len(frames)
          BY <1>3
        <5> QED
          BY <1>3, <5>1, <5>2 DEF Recorded
      <4>2. openSteps = stack
        BY <1>3, <4>1 DEF IInv, Lockstep
      <4> QED
        BY <2>2, <4>1, <4>2 DEF IInv, StepsFaithful, Recorded
    <3>2. Innermost(openSteps) = IF stack = <<>> THEN -1 ELSE Last(stack)
      <4>1. stack \in Seq(Nat \cup {CapSentinel}) /\ \A i \in 1..Len(stack) : stack[i] # CapSentinel
        <5>1. openSteps \in Seq(Nat \cup {CapSentinel})
          BY DEF IInv, TypeOK, ReplayTypeOK
        <5>2. DOMAIN stack = 1..Len(stack) /\ \A i \in DOMAIN stack : stack[i] \in 1..Len(frames)
          BY <1>3
        <5> QED
          BY <3>1, <5>1, <5>2 DEF CapSentinel
      <4>2. Innermost(stack) = IF stack = <<>> THEN -1 ELSE stack[Len(stack)]
        BY <4>1, InnermostIsLast
      <4> QED
        BY <3>1, <4>2 DEF Last
    <3>3. CASE stack = <<>>
      <4>1. UNCHANGED <<frames, steps>> /\ caseParameters' = Append(caseParameters, m.value)
        BY <2>1, <3>2, <3>3 DEF ReplayParameter, AddParameter
      <4>2. Len(caseParameters') = Len(caseParameters) + 1
        BY <1>3, <2>1, <4>1
      <4>3. InSteps' = InSteps
        BY <4>1 DEF InSteps
      <4>4. Len(FlattenSeq(InSteps)) \in Nat
        BY InStepsTyped, FlattenProperties
      <4> QED
        BY <2>3, <2>4, <4>1, <4>2, <4>3, <4>4 DEF ParametersOK, ParametersBelong, First
    <3>4. CASE stack # <<>>
      <4>1. PICK top : top = Last(stack)
        OBVIOUS
      <4>2. top \in 1..Len(frames) /\ top # -1
        BY <1>3, <3>4, <4>1 DEF Last
      <4>3. /\ frames' = [frames EXCEPT ![top].parameters = Append(@, m.value)]
            /\ steps' = [steps EXCEPT ![top].parameters = Capped(@, m.value, MaxParametersPerStep)]
            /\ UNCHANGED caseParameters
        BY <2>1, <3>2, <3>4, <4>1, <4>2 DEF ReplayParameter, AddParameter
      <4>4. /\ frames'[top].parameters = Append(frames[top].parameters, m.value)
            /\ \A f \in 1..Len(frames) : f # top => frames'[f].parameters = frames[f].parameters
        <5>1. frames[top] \in Frame
          BY <1>3, <4>2
        <5>2. /\ frames'[top] = [frames[top] EXCEPT !.parameters = Append(@, m.value)]
              /\ \A f \in 1..Len(frames) : f # top => frames'[f] = frames[f]
          <6>1. frames \in Seq(Frame) /\ top \in 1..Len(frames)
            BY <1>3, <4>2
          <6>2. frames' = [frames EXCEPT ![top] = [frames[top] EXCEPT !.parameters = Append(@, m.value)]]
            BY <4>3
          <6> QED
            BY ONLY <6>1, <6>2, OneReplaced
        <5> QED
          BY ONLY <5>1, <5>2 DEF Frame
      <4>5. /\ steps'[top].parameters = Capped(steps[top].parameters, m.value, MaxParametersPerStep)
            /\ \A i \in 1..Len(steps) : i # top => steps'[i].parameters = steps[i].parameters
        <5>1. top \in 1..Len(steps) /\ steps[top] \in Step
          BY <1>3, <3>1, <4>2
        <5>2. /\ steps'[top] = [steps[top] EXCEPT
                                  !.parameters = Capped(@, m.value, MaxParametersPerStep)]
              /\ \A i \in 1..Len(steps) : i # top => steps'[i] = steps[i]
          <6>1. steps' = [steps EXCEPT ![top] =
                           [steps[top] EXCEPT !.parameters = Capped(@, m.value, MaxParametersPerStep)]]
            BY <4>3
          <6>2. steps \in Seq(Step)
            BY <1>3
          <6> QED
            BY ONLY <5>1, <6>1, <6>2, OneReplaced
        <5> QED
          BY ONLY <5>1, <5>2 DEF Step
      <4>6. DOMAIN steps = 1..Len(frames) /\ DOMAIN steps' = 1..Len(frames)
        BY <1>3, <3>1
      <4>7. steps'[top].parameters = First(frames'[top].parameters, MaxParametersPerStep)
        <5>1. steps[top].parameters = First(frames[top].parameters, MaxParametersPerStep)
          BY <2>4, <4>2, <4>6 DEF ParametersOK, ParametersBelong
        <5>2. frames[top].parameters \in Seq(Values)
          BY <1>3, <4>2, FrameParameters
        <5> QED
          BY <1>3, <2>1, <4>4, <4>5, <5>1, <5>2, FirstOfAppend
      <4>8. \A i \in DOMAIN steps' :
              steps'[i].parameters = First(frames'[i].parameters, MaxParametersPerStep)
        <5>1. \A i \in 1..Len(frames) : i # top =>
                steps'[i].parameters = First(frames'[i].parameters, MaxParametersPerStep)
          BY <2>4, <3>1, <4>4, <4>5, <4>6 DEF ParametersOK, ParametersBelong
        <5> QED
          BY <4>6, <4>7, <5>1
      <4>9. PICK a, b : a = InSteps /\ b = InSteps'
        OBVIOUS
      <4>10. /\ a \in Seq(Seq(Values)) /\ Len(a) = Len(frames)
             /\ \A f \in 1..Len(frames) : a[f] = frames[f].parameters
        BY <4>9, InStepsTyped
      <4>11. /\ b \in Seq(Seq(Values)) /\ Len(b) = Len(frames)
             /\ \A f \in 1..Len(frames) : b[f] = frames'[f].parameters
        BY <1>3, <2>2, <4>9, ParametersTyped DEF InSteps, ParametersOf
      <4>12. GrownAt(a, top, b, m.value)
        BY <4>2, <4>4, <4>10, <4>11 DEF GrownAt
      <4>13. LongerByOne(a, b)
        BY <2>1, <4>10, <4>11, <4>12, FlattenGrown
      <4>14. Len(FlattenSeq(a)) \in Nat
        BY <4>10, FlattenProperties
      <4>15. Len(FlattenSeq(InSteps)') = Len(FlattenSeq(InSteps)) + 1 /\ Len(FlattenSeq(InSteps)) \in Nat
        BY <4>9, <4>13, <4>14 DEF LongerByOne
      <4> QED
        BY <2>3, <2>4, <4>3, <4>8, <4>15 DEF ParametersOK, ParametersBelong
    <3> QED
      BY <3>3, <3>4
  <2> QED
    BY <1>1, <1>2, <2>2, <2>4 DEF ParametersOK, ParametersBelong, Recorded
<1> QED
  BY <1>4, <1>5

\* Every parameter is filed with the step it was emitted in, up to the cap, and
\* with the case when it was emitted in none.
THEOREM ParametersDoBelong == ASSUME OthersFit PROVE Spec => []ParametersBelong
<1>0. StepsFit
  BY DEF OthersFit, StepsFit
<1>1. Init => ParametersOK
  <2> SUFFICES ASSUME Init PROVE ParametersOK
    OBVIOUS
  <2>1. emitted = <<>> /\ steps = <<>> /\ frames = <<>> /\ caseParameters = <<>> /\ droppedSteps = FALSE
    BY DEF Init, ReplayInit, StepsInit
  <2>2. Of("parameter") = <<>>
    BY <2>1, FilteredProperties DEF Of
  <2>3. InSteps = <<>>
    BY <2>1 DEF InSteps
  <2>4. FlattenSeq(InSteps) = <<>>
    BY <2>3, FlattenProperties
  <2>5. <<>> \in Seq(CaseMessages) /\ Len(<<>>) = 0 /\ DOMAIN <<>> = {}
    OBVIOUS
  <2> QED
    BY <2>1, <2>2, <2>4, <2>5, CapsAssumption DEF ParametersOK, ParametersBelong, Recorded
<1>2. IInv /\ IInv' /\ ParametersOK /\ [Next]_vars => ParametersOK'
  <2> SUFFICES ASSUME IInv, IInv', ParametersOK, [Next]_vars PROVE ParametersOK'
    OBVIOUS
  <2>1. CASE \E name \in Names : Begins(name)
    BY <1>0, <2>1, BeginsKeepsParameters
  <2>2. CASE Closes
    BY <1>0, <2>2, ClosesKeepsParameters
  <2>3. CASE \E m \in CaseMessages : Emits(m)
    BY <2>3, EmitsKeepsParameters
  <2>4. CASE Elsewhere
    BY <2>4, ElsewhereKeepsParameters
  <2>5. CASE UNCHANGED vars
    BY <2>5, SameParameters DEF vars, replayVars, stepVars
  <2> QED
    BY <2>1, <2>2, <2>3, <2>4, <2>5 DEF Next
<1>3. ParametersOK => ParametersBelong
  BY DEF ParametersOK
<1>4. Spec => []IInv
  BY <1>0, Invariance
<1> QED
  BY <1>1, <1>2, <1>3, <1>4, PTL DEF Spec
-----------------------------------------------------------------------------
\* What makes FieldsFaithful inductive: its types.
MessageValues == {m.value : m \in CaseMessages}
AttachmentRecords == {[name |-> m.value, content |-> ~m.large] : m \in CaseMessages}

FieldsTyped ==
  fields \in [labels : Seq(MessageValues), links : Seq(MessageValues), tags : Seq(Values),
              attachments : Seq(AttachmentRecords),
              description : SUBSET MessageValues, priority : SUBSET MessageValues]

FieldsOK == emitted \in Seq(CaseMessages) /\ FieldsTyped /\ FieldsFaithful

\* The values and the tags of messages, one more message at a time.
LEMMA ValuesAppend ==
  ASSUME NEW s \in Seq(CaseMessages), NEW m \in CaseMessages
  PROVE  /\ ValuesOf(s) \in Seq(MessageValues) /\ m.value \in MessageValues
         /\ ValuesOf(Append(s, m)) = Append(ValuesOf(s), m.value)
<1>1. PICK F : F = [n \in CaseMessages |-> n.value]
  OBVIOUS
<1>2. F \in [CaseMessages -> MessageValues] /\ F[m] = m.value /\ m.value \in MessageValues
  BY <1>1 DEF MessageValues
<1>3. ASSUME NEW t \in Seq(CaseMessages) PROVE ValuesOf(t) = Mapped(F, t)
  BY <1>1 DEF ValuesOf, Mapped
<1>4. Append(s, m) \in Seq(CaseMessages)
  OBVIOUS
<1>5. ValuesOf(s) = Mapped(F, s) /\ ValuesOf(Append(s, m)) = Mapped(F, Append(s, m))
  BY <1>3, <1>4
<1>6. MapsOn(F, s, m, MessageValues)
  BY <1>2, MappedAppend
<1> QED
  BY <1>2, <1>5, <1>6 DEF MapsOn

LEMMA TagsAppend ==
  ASSUME NEW K, \A n \in K : n.tags \in Seq(Values), NEW s \in Seq(K), NEW m \in K
  PROVE  /\ TagsOf(s) \in Seq(Seq(Values)) /\ m.tags \in Seq(Values)
         /\ TagsOf(Append(s, m)) = Append(TagsOf(s), m.tags)
<1>1. PICK F : F = [n \in K |-> n.tags]
  OBVIOUS
<1>2. F \in [K -> Seq(Values)] /\ F[m] = m.tags
  BY <1>1
<1>3. ASSUME NEW t \in Seq(K) PROVE TagsOf(t) = Mapped(F, t)
  BY <1>1 DEF TagsOf, Mapped
<1>4. Append(s, m) \in Seq(K)
  OBVIOUS
<1>5. TagsOf(s) = Mapped(F, s) /\ TagsOf(Append(s, m)) = Mapped(F, Append(s, m))
  BY <1>3, <1>4
<1>6. MapsOn(F, s, m, Seq(Values))
  BY <1>2, MappedAppend
<1> QED
  BY <1>2, <1>5, <1>6 DEF MapsOn

LEMMA LastOfAppend ==
  ASSUME NEW S, NEW s \in Seq(S), NEW m \in S
  PROVE  LastOf(Append(s, m)) = {m.value}
<1>1. Append(s, m) # <<>>
  BY AppendProperties
<1>2. Last(Append(s, m)) = m
  BY FrontAndLastOfAppend
<1> QED
  BY <1>1, <1>2 DEF LastOf

\* All the messages of a kind are of that kind.
LEMMA OfKind ==
  ASSUME emitted \in Seq(CaseMessages), NEW kind
  PROVE  Of(kind) \in Seq({n \in CaseMessages : n.kind = kind})
<1> DEFINE kept == {n \in CaseMessages : n.kind = kind}
<1>1. PICK t : t = Filtered(emitted, kept)
  OBVIOUS
<1>2. t \in Seq(CaseMessages) /\ Filters(emitted, kept, t)
  <2> HIDE DEF kept
  <2> QED
    BY <1>1, FilteredElements
<1>3. \A i \in 1..Len(t) : t[i] \in kept
  <2> HIDE DEF kept
  <2> QED
    BY <1>2 DEF Filters, Contains
<1>4. t \in Seq(kept)
  <2> HIDE DEF kept
  <2> QED
    BY <1>2, <1>3
<1> QED
  BY <1>1, <1>4 DEF Of

\* What a message that is emitted does to the fields.
LEMMA FieldsAfter ==
  ASSUME OthersFit, FieldsTyped, NEW m \in CaseMessages, Emits(m)
  PROVE  /\ fields'.labels = IF m.kind = "label" THEN Capped(fields.labels, m.value, MaxLabelsPerCase)
                             ELSE fields.labels
         /\ fields'.links = IF m.kind = "link" THEN Capped(fields.links, m.value, MaxLinksPerCase)
                            ELSE fields.links
         /\ fields'.tags = IF m.kind = "tag" THEN First(fields.tags \o m.tags, MaxTagsPerCase)
                           ELSE fields.tags
         /\ fields'.description = IF m.kind = "description" THEN {m.value} ELSE fields.description
         /\ fields'.priority = IF m.kind = "priority" /\ m.known THEN {m.value} ELSE fields.priority
         /\ \/ fields'.attachments = fields.attachments
               /\ \/ m.kind # "attachment" \/ "attachment" \in Droppable
                  \/ ~ (Len(fields.attachments) < MaxAttachmentsPerCase)
            \/ /\ m.kind = "attachment" /\ Len(fields.attachments) < MaxAttachmentsPerCase
               /\ fields'.attachments = Append(fields.attachments, [name |-> m.value, content |-> ~m.large])
<1> DEFINE Shape(f) == f = [labels |-> f.labels, links |-> f.links, tags |-> f.tags,
                            attachments |-> f.attachments, description |-> f.description,
                            priority |-> f.priority]
<1>1. Shape(fields)
  BY DEF FieldsTyped
<1>2. \/ ReplayMessage(m)
      \/ m.kind = "attachment" /\ "attachment" \in Droppable /\ UNCHANGED fields
  BY DEF Emits, Emit, MayDrop, OthersFit, replayVars
<1>3. CASE m.kind = "attachment"
  <2>1. \/ /\ Len(fields.attachments) < MaxAttachmentsPerCase
           /\ fields' = [fields EXCEPT !.attachments =
                           Append(@, [name |-> m.value, content |-> ~m.large])]
        \/ UNCHANGED fields /\ ("attachment" \in Droppable \/ ~ (Len(fields.attachments) < MaxAttachmentsPerCase))
    BY <1>2, <1>3 DEF ReplayMessage, ReplayField, ReplayParameter, ReplayStepStart, ReplayStepStop,
       ReplayAttachment, ReplayWarning
  <2> QED
    BY <1>1, <1>3, <2>1
<1>4. CASE m.kind \in {"label", "link", "tag", "description", "priority"}
  <2>1. ReplayField(m)
    BY <1>2, <1>4 DEF ReplayMessage, ReplayParameter, ReplayStepStart, ReplayStepStop,
       ReplayAttachment, ReplayWarning
  <2>2. CASE m.kind = "label"
    <3>1. fields' = [fields EXCEPT !.labels = Capped(@, m.value, MaxLabelsPerCase)]
      BY <2>1, <2>2 DEF ReplayField
    <3> QED
      BY <1>1, <2>2, <3>1
  <2>3. CASE m.kind = "link"
    <3>1. fields' = [fields EXCEPT !.links = Capped(@, m.value, MaxLinksPerCase)]
      BY <2>1, <2>3 DEF ReplayField
    <3> QED
      BY <1>1, <2>3, <3>1
  <2>4. CASE m.kind = "tag"
    <3>1. fields' = [fields EXCEPT !.tags = First(@ \o m.tags, MaxTagsPerCase)]
      BY <2>1, <2>4 DEF ReplayField, First
    <3> QED
      BY <1>1, <2>4, <3>1
  <2>5. CASE m.kind = "description"
    <3>1. fields' = [fields EXCEPT !.description = {m.value}]
      BY <2>1, <2>5 DEF ReplayField
    <3> QED
      BY <1>1, <2>5, <3>1
  <2>6. CASE m.kind = "priority"
    <3>1. fields' = IF m.known THEN [fields EXCEPT !.priority = {m.value}] ELSE fields
      BY <2>1, <2>6 DEF ReplayField
    <3> QED
      BY <1>1, <2>6, <3>1
  <2> QED
    BY <1>4, <2>2, <2>3, <2>4, <2>5, <2>6
<1>5. CASE m.kind \notin {"attachment", "label", "link", "tag", "description", "priority"}
  <2>1. UNCHANGED fields
    BY <1>2, <1>5 DEF ReplayMessage, ReplayField, ReplayParameter, ReplayStepStart, ReplayStepStop,
       ReplayAttachment, ReplayWarning
  <2> QED
    BY <1>5, <2>1
<1> QED
  BY <1>3, <1>4, <1>5

\* The fields stay the six that they are.
LEMMA FieldsShape ==
  ASSUME FieldsTyped, NEW m \in CaseMessages, Emits(m)
  PROVE  fields' = [labels |-> fields'.labels, links |-> fields'.links, tags |-> fields'.tags,
                    attachments |-> fields'.attachments, description |-> fields'.description,
                    priority |-> fields'.priority]
<1>1. fields = [labels |-> fields.labels, links |-> fields.links, tags |-> fields.tags,
                attachments |-> fields.attachments, description |-> fields.description,
                priority |-> fields.priority]
  BY DEF FieldsTyped
<1>2. \/ UNCHANGED fields
      \/ \E new : fields' = [fields EXCEPT !.labels = new]
      \/ \E new : fields' = [fields EXCEPT !.links = new]
      \/ \E new : fields' = [fields EXCEPT !.tags = new]
      \/ \E new : fields' = [fields EXCEPT !.description = new]
      \/ \E new : fields' = [fields EXCEPT !.priority = new]
      \/ \E new : fields' = [fields EXCEPT !.attachments = new]
  BY DEF Emits, Emit, ReplayMessage, ReplayField, ReplayParameter, ReplayStepStart, ReplayStepStop,
     ReplayAttachment, ReplayWarning, replayVars
<1> QED
  BY <1>1, <1>2

KnownPriorities == {m \in CaseMessages : m.kind = "priority" /\ m.known}

\* Every message that is emitted is in the field of its kind as far as it fits.
LEMMA EmitsKeepsFields ==
  ASSUME OthersFit, FieldsOK, NEW m \in CaseMessages, Emits(m)
  PROVE  FieldsOK'
<1>1. emitted \in Seq(CaseMessages) /\ emitted' = Append(emitted, m) /\ emitted' \in Seq(CaseMessages)
  <2>1. emitted' = Append(emitted, m) /\ emitted \in Seq(CaseMessages)
    BY DEF Emits, FieldsOK
  <2> QED
    BY <2>1, AppendProperties
<1>2. \A kind : /\ Of(kind) \in Seq(CaseMessages)
                /\ m.kind = kind => Of(kind)' = Append(Of(kind), m)
                /\ m.kind # kind => Of(kind)' = Of(kind)
  <2> TAKE kind
  <2> QED
    BY <1>1, OfAnother
<1>3. /\ MaxLabelsPerCase \in Nat /\ MaxLinksPerCase \in Nat /\ MaxTagsPerCase \in Nat
      /\ MaxAttachmentsPerCase \in Nat
  BY CapsAssumption
<1>4. PICK f, g : f = fields /\ g = fields'
  OBVIOUS
<1>5. /\ f.labels \in Seq(MessageValues) /\ f.links \in Seq(MessageValues)
      /\ f.tags \in Seq(Values) /\ f.attachments \in Seq(AttachmentRecords)
      /\ f.description \in SUBSET MessageValues /\ f.priority \in SUBSET MessageValues
  BY <1>4 DEF FieldsOK, FieldsTyped
<1>6. /\ g.labels = IF m.kind = "label" THEN Capped(f.labels, m.value, MaxLabelsPerCase) ELSE f.labels
      /\ g.links = IF m.kind = "link" THEN Capped(f.links, m.value, MaxLinksPerCase) ELSE f.links
      /\ g.tags = IF m.kind = "tag" THEN First(f.tags \o m.tags, MaxTagsPerCase) ELSE f.tags
      /\ g.description = IF m.kind = "description" THEN {m.value} ELSE f.description
      /\ g.priority = IF m.kind = "priority" /\ m.known THEN {m.value} ELSE f.priority
      /\ \/ g.attachments = f.attachments
            /\ \/ m.kind # "attachment" \/ "attachment" \in Droppable
               \/ ~ (Len(f.attachments) < MaxAttachmentsPerCase)
         \/ /\ m.kind = "attachment" /\ Len(f.attachments) < MaxAttachmentsPerCase
            /\ g.attachments = Append(f.attachments, [name |-> m.value, content |-> ~m.large])
  BY <1>4, FieldsAfter DEF FieldsOK
<1>7. m.value \in MessageValues /\ [name |-> m.value, content |-> ~m.large] \in AttachmentRecords
  BY DEF MessageValues, AttachmentRecords
<1>8. /\ f.labels = First(ValuesOf(Of("label")), MaxLabelsPerCase)
      /\ f.links = First(ValuesOf(Of("link")), MaxLinksPerCase)
      /\ f.tags = First(FlattenSeq(TagsOf(Of("tag"))), MaxTagsPerCase)
      /\ f.description = LastOf(Of("description"))
      /\ f.priority = LastOf(Filtered(emitted, KnownPriorities))
      /\ Len(f.attachments) \in IF "attachment" \in Droppable
                                THEN 0..Len(First(Of("attachment"), MaxAttachmentsPerCase))
                                ELSE {Len(First(Of("attachment"), MaxAttachmentsPerCase))}
  BY <1>4 DEF FieldsOK, FieldsFaithful, KnownPriorities
<1>9. g.labels = First(ValuesOf(Of("label")'), MaxLabelsPerCase) /\ g.labels \in Seq(MessageValues)
  <2>1. CASE m.kind = "label"
    <3>1. PICK o : o = Of("label")
      OBVIOUS
    <3>2. o \in Seq(CaseMessages) /\ Of("label")' = Append(o, m)
      BY <1>2, <2>1, <3>1
    <3>3. PICK v : v = ValuesOf(o)
      OBVIOUS
    <3>4. v \in Seq(MessageValues) /\ ValuesOf(Append(o, m)) = Append(v, m.value)
      BY <3>2, <3>3, ValuesAppend
    <3>5. First(Append(v, m.value), MaxLabelsPerCase) = Capped(First(v, MaxLabelsPerCase), m.value, MaxLabelsPerCase)
      BY <1>3, <1>7, <3>4, FirstOfAppend
    <3>6. Capped(f.labels, m.value, MaxLabelsPerCase) \in Seq(MessageValues)
      BY <1>5, <1>7, CappedSlice
    <3> QED
      BY <1>6, <1>8, <2>1, <3>1, <3>2, <3>3, <3>4, <3>5, <3>6
  <2>2. CASE m.kind # "label"
    BY <1>2, <1>5, <1>6, <1>8, <2>2
  <2> QED
    BY <2>1, <2>2
<1>10. g.links = First(ValuesOf(Of("link")'), MaxLinksPerCase) /\ g.links \in Seq(MessageValues)
  <2>1. CASE m.kind = "link"
    <3>1. PICK o : o = Of("link")
      OBVIOUS
    <3>2. o \in Seq(CaseMessages) /\ Of("link")' = Append(o, m)
      BY <1>2, <2>1, <3>1
    <3>3. PICK v : v = ValuesOf(o)
      OBVIOUS
    <3>4. v \in Seq(MessageValues) /\ ValuesOf(Append(o, m)) = Append(v, m.value)
      BY <3>2, <3>3, ValuesAppend
    <3>5. First(Append(v, m.value), MaxLinksPerCase) = Capped(First(v, MaxLinksPerCase), m.value, MaxLinksPerCase)
      BY <1>3, <1>7, <3>4, FirstOfAppend
    <3>6. Capped(f.links, m.value, MaxLinksPerCase) \in Seq(MessageValues)
      BY <1>5, <1>7, CappedSlice
    <3> QED
      BY <1>6, <1>8, <2>1, <3>1, <3>2, <3>3, <3>4, <3>5, <3>6
  <2>2. CASE m.kind # "link"
    BY <1>2, <1>5, <1>6, <1>8, <2>2
  <2> QED
    BY <2>1, <2>2
<1>11. g.tags = First(FlattenSeq(TagsOf(Of("tag")')), MaxTagsPerCase) /\ g.tags \in Seq(Values)
  <2>1. CASE m.kind = "tag"
    <3>1. PICK o, K : o = Of("tag") /\ K = {n \in CaseMessages : n.kind = "tag"}
      OBVIOUS
    <3>2. o \in Seq(K) /\ m \in K /\ Of("tag")' = Append(o, m) /\ \A n \in K : n.tags \in Seq(Values)
      <4>1. Of("tag") \in Seq({n \in CaseMessages : n.kind = "tag"})
        BY <1>1, OfKind
      <4> QED
        BY <1>2, <2>1, <3>1, <4>1, MessagesAssumption
    <3>3. PICK v : v = TagsOf(o)
      OBVIOUS
    <3>4. v \in Seq(Seq(Values)) /\ m.tags \in Seq(Values) /\ TagsOf(Append(o, m)) = Append(v, m.tags)
      BY <3>2, <3>3, TagsAppend
    <3>5. PICK flat : flat = FlattenSeq(v)
      OBVIOUS
    <3>6. flat \in Seq(Values) /\ FlattenSeq(Append(v, m.tags)) = flat \o m.tags
      BY <3>4, <3>5, FlattenProperties
    <3>7. First(First(flat, MaxTagsPerCase) \o m.tags, MaxTagsPerCase) = First(flat \o m.tags, MaxTagsPerCase)
      BY <1>3, <3>4, <3>6, FirstOfConcat
    <3>8. First(flat \o m.tags, MaxTagsPerCase) \in Seq(Values)
      <4>1. flat \o m.tags \in Seq(Values)
        BY <3>4, <3>6, LeftPart
      <4> QED
        BY <1>3, <4>1, FirstLength
    <3> QED
      BY <1>6, <1>8, <2>1, <3>1, <3>2, <3>3, <3>4, <3>5, <3>6, <3>7, <3>8
  <2>2. CASE m.kind # "tag"
    BY <1>2, <1>5, <1>6, <1>8, <2>2
  <2> QED
    BY <2>1, <2>2
<1>12. g.description = LastOf(Of("description")') /\ g.description \in SUBSET MessageValues
  <2>1. CASE m.kind = "description"
    <3>1. Of("description")' = Append(Of("description"), m) /\ Of("description") \in Seq(CaseMessages)
      BY <1>2, <2>1
    <3>2. LastOf(Of("description")') = {m.value}
      BY <3>1, LastOfAppend
    <3> QED
      BY <1>6, <1>7, <2>1, <3>2
  <2>2. CASE m.kind # "description"
    BY <1>2, <1>5, <1>6, <1>8, <2>2
  <2> QED
    BY <2>1, <2>2
<1>13. /\ g.priority = LastOf(Filtered(emitted', KnownPriorities))
       /\ g.priority \in SUBSET MessageValues
  <2>1. FiltersOn(emitted, m, KnownPriorities) /\ Filtered(emitted, KnownPriorities) \in Seq(CaseMessages)
    BY <1>1, FilteredProperties
  <2>2. CASE m \in KnownPriorities
    <3>1. m.kind = "priority" /\ m.known
      BY <2>2 DEF KnownPriorities
    <3>2. Filtered(emitted', KnownPriorities) = Append(Filtered(emitted, KnownPriorities), m)
      BY <1>1, <2>1, <2>2 DEF FiltersOn
    <3>3. LastOf(Filtered(emitted', KnownPriorities)) = {m.value}
      BY <2>1, <3>2, LastOfAppend
    <3> QED
      BY <1>6, <1>7, <3>1, <3>3
  <2>3. CASE m \notin KnownPriorities
    <3>1. ~ (m.kind = "priority" /\ m.known)
      BY <2>3 DEF KnownPriorities
    <3>2. Filtered(emitted', KnownPriorities) = Filtered(emitted, KnownPriorities)
      BY <1>1, <2>1, <2>3 DEF FiltersOn
    <3> QED
      BY <1>5, <1>6, <1>8, <3>1, <3>2
  <2> QED
    BY <2>2, <2>3
<1>14. /\ Len(g.attachments) \in IF "attachment" \in Droppable
                                 THEN 0..Len(First(Of("attachment")', MaxAttachmentsPerCase))
                                 ELSE {Len(First(Of("attachment")', MaxAttachmentsPerCase))}
       /\ g.attachments \in Seq(AttachmentRecords)
  <2>1. PICK o, p : o = Of("attachment") /\ p = Of("attachment")'
    OBVIOUS
  <2>2. o \in Seq(CaseMessages) /\ p = IF m.kind = "attachment" THEN Append(o, m) ELSE o
    BY <1>2, <2>1
  <2>3. p \in Seq(CaseMessages) /\ Len(o) \in Nat /\ Len(p) = IF m.kind = "attachment" THEN Len(o) + 1 ELSE Len(o)
    BY <2>2, AppendProperties
  <2>4. /\ Len(First(o, MaxAttachmentsPerCase)) =
             IF Len(o) < MaxAttachmentsPerCase THEN Len(o) ELSE MaxAttachmentsPerCase
        /\ Len(First(p, MaxAttachmentsPerCase)) =
             IF Len(p) < MaxAttachmentsPerCase THEN Len(p) ELSE MaxAttachmentsPerCase
    BY <1>3, <2>2, <2>3, FirstLength
  <2>5. PICK n, k : n = Len(f.attachments) /\ k = Len(g.attachments)
    OBVIOUS
  <2>6. /\ g.attachments \in Seq(AttachmentRecords) /\ n \in Nat
        /\ \/ k = n /\ (m.kind # "attachment" \/ "attachment" \in Droppable \/ ~ (n < MaxAttachmentsPerCase))
           \/ m.kind = "attachment" /\ n < MaxAttachmentsPerCase /\ k = n + 1
    <3>1. PICK new : new = [name |-> m.value, content |-> ~m.large]
      OBVIOUS
    <3>2. /\ n \in Nat /\ Append(f.attachments, new) \in Seq(AttachmentRecords)
          /\ Len(Append(f.attachments, new)) = n + 1
      BY <1>5, <1>7, <2>5, <3>1, AppendProperties
    <3> QED
      BY <1>5, <1>6, <2>5, <3>1, <3>2
  <2>7. PICK fit, fit2 : /\ fit = Len(First(o, MaxAttachmentsPerCase))
                        /\ fit2 = Len(First(p, MaxAttachmentsPerCase))
    OBVIOUS
  <2>8. n \in IF "attachment" \in Droppable THEN 0..fit ELSE {fit}
    BY <1>8, <2>1, <2>5, <2>7
  <2>9. k \in IF "attachment" \in Droppable THEN 0..fit2 ELSE {fit2}
    <3>1. /\ fit = IF Len(o) < MaxAttachmentsPerCase THEN Len(o) ELSE MaxAttachmentsPerCase
          /\ fit2 = IF Len(p) < MaxAttachmentsPerCase THEN Len(p) ELSE MaxAttachmentsPerCase
      BY <2>4, <2>7
    <3>2. CASE "attachment" \in Droppable
      BY <1>3, <2>3, <2>6, <2>8, <3>1, <3>2
    <3>3. CASE "attachment" \notin Droppable
      BY <1>3, <2>3, <2>6, <2>8, <3>1, <3>3
    <3> QED
      BY <3>2, <3>3
  <2> QED
    BY <2>1, <2>5, <2>6, <2>7, <2>9
<1>15. FieldsTyped'
  <2>1. g = [labels |-> g.labels, links |-> g.links, tags |-> g.tags, attachments |-> g.attachments,
             description |-> g.description, priority |-> g.priority]
    BY <1>4, FieldsShape DEF FieldsOK
  <2>2. g \in [labels : Seq(MessageValues), links : Seq(MessageValues), tags : Seq(Values),
               attachments : Seq(AttachmentRecords),
               description : SUBSET MessageValues, priority : SUBSET MessageValues]
    BY <1>9, <1>10, <1>11, <1>12, <1>13, <1>14, <2>1
  <2> QED
    BY <1>4, <2>2 DEF FieldsTyped
<1>16. FieldsFaithful'
  BY <1>4, <1>9, <1>10, <1>11, <1>12, <1>13, <1>14 DEF FieldsFaithful, KnownPriorities
<1> QED
  BY <1>1, <1>15, <1>16 DEF FieldsOK

\* The fields of the case are what was emitted, the first of each kind up to its cap.
THEOREM FieldsAreFaithful == ASSUME OthersFit PROVE Spec => []FieldsFaithful
<1>1. Init => FieldsOK
  <2> SUFFICES ASSUME Init PROVE FieldsOK
    OBVIOUS
  <2>1. emitted = <<>> /\ fields = NoFields
    BY DEF Init, ReplayInit
  <2>2. \A S : <<>> \in Seq(S)
    OBVIOUS
  <2>3. \A kept : Filtered(<<>>, kept) = <<>>
    <3> TAKE kept
    <3> QED
      BY FilteredProperties
  <2>4. \A kind : Of(kind) = <<>>
    BY <2>1, <2>3 DEF Of
  <2>5. FieldsTyped
    BY <2>1, <2>2 DEF FieldsTyped, NoFields
  <2>6. ValuesOf(<<>>) = <<>> /\ TagsOf(<<>>) = <<>> /\ LastOf(<<>>) = {}
    BY DEF ValuesOf, TagsOf, LastOf
  <2>7. FlattenSeq(<<>>) = <<>>
    BY FlattenProperties
  <2>8. ASSUME NEW cap \in Nat PROVE First(<<>>, cap) = <<>>
    <3>1. PICK empty : empty = <<>>
      OBVIOUS
    <3>2. empty \in Seq(Values) /\ Len(empty) <= cap
      BY <3>1
    <3>3. First(empty, cap) = empty
      BY ONLY <2>8, <3>2, FirstLength
    <3> QED
      BY <3>1, <3>3
  <2>9. FieldsFaithful
    <3>1. /\ fields.labels = <<>> /\ fields.links = <<>> /\ fields.tags = <<>>
          /\ fields.description = {} /\ fields.priority = {} /\ fields.attachments = <<>>
      BY <2>1 DEF NoFields
    <3>2. /\ First(<<>>, MaxLabelsPerCase) = <<>> /\ First(<<>>, MaxLinksPerCase) = <<>>
          /\ First(<<>>, MaxTagsPerCase) = <<>> /\ First(<<>>, MaxAttachmentsPerCase) = <<>>
      BY <2>8, CapsAssumption
    <3>3. Len(<<>>) = 0 /\ 0 \in 0..0
      OBVIOUS
    <3> QED
      BY <2>1, <2>3, <2>4, <2>6, <2>7, <3>1, <3>2, <3>3 DEF FieldsFaithful
  <2> QED
    BY <2>1, <2>2, <2>5, <2>9 DEF FieldsOK
<1>2. FieldsOK /\ [Next]_vars => FieldsOK'
  <2> SUFFICES ASSUME FieldsOK, [Next]_vars PROVE FieldsOK'
    OBVIOUS
  <2>1. CASE \E m \in CaseMessages : Emits(m)
    BY <2>1, EmitsKeepsFields
  <2>2. CASE UNCHANGED <<fields, emitted>>
    BY <2>2 DEF FieldsOK, FieldsTyped, FieldsFaithful, Of
  <2>3. CASE \E name \in Names : Begins(name)
    <3>1. StepsFit
      BY DEF OthersFit, StepsFit
    <3>2. UNCHANGED <<fields, emitted>>
      BY <2>3, <3>1, BeginsReplays DEF Begins, ReplayStepStart
    <3> QED
      BY <2>2, <3>2
  <2>4. CASE Closes
    <3>1. StepsFit
      BY DEF OthersFit, StepsFit
    <3>2. UNCHANGED <<fields, emitted>>
      BY <2>4, <3>1, ClosesReplays DEF Closes, ReplayStepStop
    <3> QED
      BY <2>2, <3>2
  <2> QED
    BY <2>1, <2>2, <2>3, <2>4 DEF Next, Elsewhere, vars, replayVars
<1>3. FieldsOK => FieldsFaithful
  BY DEF FieldsOK
<1> QED
  BY <1>1, <1>2, <1>3, PTL DEF Spec
=============================================================================
