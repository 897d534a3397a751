--------------------------- MODULE WrapperProofs ---------------------------
(***************************************************************************)
(* Proof that the wrapper reports the whole run and keeps its verdict, for   *)
(* pipes and captures of any size, whatever the child and its orphans do.   *)
(***************************************************************************)
EXTENDS Wrapper, TLAPS

\* What was written to a pipe is what was read from it and what is in it.
Flow ==
  /\ out = consumed \o stdout
  /\ copier = "running" => err = echoed \o stderr
  /\ captured = Cut(echoed, MaxCapture)

\* A reader that has stopped by itself has seen the end of its pipe.
Ends ==
  /\ pc \in {"waiting", "writing"} => stdout = <<>> /\ ~Held("stdout")
  /\ copier = "done" /\ pc # "killed" => err = echoed /\ stderr = <<>> /\ ~Held("stderr")

\* The main goroutine takes its steps in order.
Stages ==
  /\ pc = "starting" => child = "absent" /\ copier = "done"
  /\ child = "absent" => orphans = {}
  /\ pc \in {"starting", "consuming", "waiting"} => report = "absent"
  /\ report # "absent" => child \in Statuses
  /\ pc \notin {"done", "killed"} => exit = NoExit
  /\ pc = "writing" => child \in Statuses /\ copier # "running" /\ evidence = Evidence(consumed, captured)

IInv == TypeOK /\ Flow /\ Ends /\ Stages /\ VerdictKept
-----------------------------------------------------------------------------
\* The capture of a longer text is made from the capture of the text before.
LEMMA CutAppend ==
  ASSUME NEW S, NEW text \in Seq(S), NEW chunk \in S, NEW n \in Nat
  PROVE  /\ Cut(Append(Cut(text, n), chunk), n) = Cut(Append(text, chunk), n)
         /\ Cut(text, n) \in Seq(S) /\ Len(Cut(text, n)) <= n
<1>1. Cut(text, n) \in Seq(S) /\ Len(Cut(text, n)) <= n
  BY DEF Cut
<1>2. CASE Len(text) < n
  <2>1. Cut(text, n) = text
    BY <1>2 DEF Cut
  <2> QED
    BY <1>1, <2>1
<1>3. CASE Len(text) >= n
  <2>1. Cut(text, n) = SubSeq(text, 1, n)
    BY <1>3 DEF Cut
  <2>2. Cut(Append(text, chunk), n) = SubSeq(text, 1, n)
    BY <1>3 DEF Cut
  <2>3. Len(Append(SubSeq(text, 1, n), chunk)) = n + 1
    BY <1>3
  <2>4. Cut(Append(SubSeq(text, 1, n), chunk), n) = SubSeq(text, 1, n)
    BY <1>3, <2>3 DEF Cut
  <2> QED
    BY <1>1, <2>1, <2>2, <2>4
<1> QED
  BY <1>2, <1>3
-----------------------------------------------------------------------------
\* Before the child is started nothing was written, read or reported.
LEMMA InitIInv == ASSUME Init PROVE IInv
<1>1. TypeOK
  BY WrapperAssumption DEF Init, TypeOK, Pipes, NoExit
<1>2. Flow
  BY WrapperAssumption DEF Init, Flow, Cut
<1>3. Ends /\ Stages /\ VerdictKept
  BY DEF Init, Ends, Stages, VerdictKept, Held, NoExit, Statuses
<1> QED
  BY <1>1, <1>2, <1>3 DEF IInv

\* A process that writes to stdout holds it, so nothing has seen its end yet.
LEMMA WriteOutKeepsIInv == ASSUME IInv, NEW chunk \in Chunks, WriteOut(chunk) PROVE IInv'
<1> USE DEF IInv, WriteOut, copierVars
<1>1. /\ out' = consumed' \o stdout' /\ {out', stdout', consumed'} \subseteq Seq(Chunks)
      /\ Len(stdout') <= PipeSize
  <2>1. /\ consumed \in Seq(Chunks) /\ stdout \in Seq(Chunks) /\ out = consumed \o stdout
        /\ Len(stdout) < PipeSize /\ chunk \in Chunks /\ PipeSize \in Nat
        /\ stdout' = Append(stdout, chunk) /\ out' = Append(out, chunk) /\ consumed' = consumed
    BY WrapperAssumption DEF TypeOK, Flow
  <2>2. Append(consumed \o stdout, chunk) = consumed \o Append(stdout, chunk)
    <3>1. consumed \in Seq(Chunks) /\ stdout \in Seq(Chunks)
      BY ONLY <2>1
    <3> QED
      BY ONLY <3>1
  <2>3. consumed \o stdout \in Seq(Chunks)
    BY ONLY <2>1
  <2>4. /\ Append(stdout, chunk) \in Seq(Chunks) /\ Append(out, chunk) \in Seq(Chunks)
        /\ Len(Append(stdout, chunk)) = Len(stdout) + 1
    BY ONLY <2>1, <2>3
  <2> QED
    BY ONLY <2>1, <2>2, <2>4
<1>2. TypeOK'
  BY <1>1 DEF TypeOK
<1>3. Flow'
  BY <1>1 DEF Flow
<1>4. Ends'
  BY DEF Ends, Held
<1>5. Stages' /\ VerdictKept'
  BY DEF Stages, VerdictKept
<1> QED
  BY <1>2, <1>3, <1>4, <1>5

\* The same of stderr, whose copier is still running.
LEMMA WriteErrKeepsIInv == ASSUME IInv, WriteErr PROVE IInv'
<1> USE DEF IInv, WriteErr, copierVars
<1>1. /\ err' = echoed' \o stderr' /\ {err', stderr', echoed'} \subseteq Seq(Nat)
      /\ Len(stderr') <= PipeSize
  <2>1. Len(err) + 1 \in Nat
    BY DEF TypeOK
  <2> DEFINE line == Len(err) + 1
  <2>2. /\ echoed \in Seq(Nat) /\ stderr \in Seq(Nat) /\ err = echoed \o stderr
        /\ Len(stderr) < PipeSize /\ line \in Nat /\ PipeSize \in Nat
        /\ stderr' = Append(stderr, line) /\ err' = Append(err, line) /\ echoed' = echoed
    BY <2>1, WrapperAssumption DEF TypeOK, Flow
  <2> HIDE DEF line
  <2>3. Append(echoed \o stderr, line) = echoed \o Append(stderr, line)
    <3> DEFINE Lines == Nat
    <3>1. echoed \in Seq(Lines) /\ stderr \in Seq(Lines) /\ line \in Lines
      BY ONLY <2>2
    <3> HIDE DEF Lines
    <3> QED
      BY ONLY <3>1
  <2>4. echoed \o stderr \in Seq(Nat)
    BY ONLY <2>2
  <2>5. /\ Append(stderr, line) \in Seq(Nat) /\ Append(err, line) \in Seq(Nat)
        /\ Len(Append(stderr, line)) = Len(stderr) + 1
    BY ONLY <2>2, <2>4
  <2> QED
    BY ONLY <2>2, <2>3, <2>5
<1>2. TypeOK'
  BY <1>1 DEF TypeOK
<1>3. Flow'
  BY <1>1 DEF Flow
<1>4. Ends'
  BY DEF Ends, Held
<1>5. Stages' /\ VerdictKept'
  BY DEF Stages, VerdictKept
<1> QED
  BY <1>2, <1>3, <1>4, <1>5

\* The child starts others, exits or is killed, and those close what they hold:
\* a pipe nobody holds any more stays so.
LEMMA HoldersKeepIInv ==
  ASSUME IInv,
         \/ \E pipes \in SUBSET Pipes \ {{}} : LeavesOrphan(pipes)
         \/ \E status \in Statuses : ChildExits(status)
         \/ \E pipe \in Pipes : OrphanCloses(pipe)
  PROVE  IInv'
<1> USE DEF IInv, copierVars
<1>1. ASSUME NEW pipes \in SUBSET Pipes \ {{}}, LeavesOrphan(pipes) PROVE IInv'
  <2> USE <1>1 DEF LeavesOrphan
  <2>1. TypeOK' /\ Flow'
    BY DEF TypeOK, Flow, Pipes
  <2>2. Ends'
    BY DEF Ends, Held
  <2>3. Stages' /\ VerdictKept'
    BY DEF Stages, VerdictKept
  <2> QED
    BY <2>1, <2>2, <2>3
<1>2. ASSUME NEW status \in Statuses, ChildExits(status) PROVE IInv'
  <2> USE <1>2 DEF ChildExits
  <2>1. TypeOK' /\ Flow'
    BY DEF TypeOK, Flow
  <2>2. Ends'
    BY DEF Ends, Held, Statuses
  <2>3. Stages'
    BY DEF Stages, Statuses
  <2>4. VerdictKept'
    BY DEF VerdictKept, Stages, Statuses, NoExit
  <2> QED
    BY <2>1, <2>2, <2>3, <2>4
<1>3. ASSUME NEW pipe \in Pipes, OrphanCloses(pipe) PROVE IInv'
  <2> USE <1>3 DEF OrphanCloses
  <2>1. TypeOK' /\ Flow'
    BY DEF TypeOK, Flow
  <2>2. Ends'
    BY DEF Ends, Held
  <2>3. Stages' /\ VerdictKept'
    BY DEF Stages, VerdictKept
  <2> QED
    BY <2>1, <2>2, <2>3
<1> QED
  BY <1>1, <1>2, <1>3
-----------------------------------------------------------------------------
\* The copier moves a chunk to what was echoed and captured, or breaks off; it
\* ends by itself when stderr has.
LEMMA CopierKeepsIInv == ASSUME IInv, Copier PROVE IInv'
<1> USE DEF IInv, childVars
<1>1. CASE Copy /\ copier' = copier
  <2> USE <1>1 DEF Copy
  <2>1. PICK chunk \in Nat : chunk = Head(stderr)
    BY DEF TypeOK
  <2>2. /\ echoed' = Append(echoed, chunk) /\ captured' = Captured(captured, chunk)
        /\ stderr' = Tail(stderr) /\ copier = "running" /\ stderr # <<>>
    BY <2>1
  <2>3. /\ echoed' \o stderr' = err /\ {stderr', echoed'} \subseteq Seq(Nat)
        /\ Len(stderr') <= PipeSize
    <3>1. /\ echoed \in Seq(Nat) /\ stderr \in Seq(Nat) /\ err = echoed \o stderr
          /\ Len(stderr) <= PipeSize /\ PipeSize \in Nat
      BY <2>2, WrapperAssumption DEF TypeOK, Flow
    <3>2. Append(echoed, Head(stderr)) \o Tail(stderr) = echoed \o stderr
      <4> DEFINE Lines == Nat
      <4>1. echoed \in Seq(Lines) /\ stderr \in Seq(Lines) /\ stderr # <<>>
        BY ONLY <3>1, <2>2
      <4> HIDE DEF Lines
      <4> QED
        BY ONLY <4>1
    <3>3. /\ Append(echoed, Head(stderr)) \in Seq(Nat) /\ Tail(stderr) \in Seq(Nat)
          /\ Len(Tail(stderr)) = Len(stderr) - 1
      BY ONLY <3>1, <2>2
    <3> QED
      BY ONLY <3>1, <3>2, <3>3, <2>1, <2>2
  <2>4. /\ captured' = Cut(echoed', MaxCapture) /\ captured' \in Seq(Nat)
        /\ Len(captured') <= MaxCapture
    <3>1. /\ echoed \in Seq(Nat) /\ MaxCapture \in Nat /\ chunk \in Nat
          /\ captured = Cut(echoed, MaxCapture)
      BY <2>1, WrapperAssumption DEF TypeOK, Flow
    <3>2. Append(echoed, chunk) \in Seq(Nat)
      BY ONLY <3>1
    <3>3. Cut(Append(Cut(echoed, MaxCapture), chunk), MaxCapture) = Cut(Append(echoed, chunk), MaxCapture)
      BY ONLY <3>1, CutAppend
    <3>4. /\ Cut(Append(echoed, chunk), MaxCapture) \in Seq(Nat)
          /\ Len(Cut(Append(echoed, chunk), MaxCapture)) <= MaxCapture
      BY ONLY <3>1, <3>2, CutAppend
    <3> QED
      BY ONLY <2>2, <3>1, <3>3, <3>4 DEF Captured
  <2>5. TypeOK'
    BY <2>2, <2>3, <2>4 DEF TypeOK
  <2>6. Flow'
    BY <2>2, <2>3, <2>4 DEF Flow
  <2>7. Ends'
    BY <2>2 DEF Ends, Held
  <2>8. Stages' /\ VerdictKept'
    BY <2>2 DEF Stages, VerdictKept
  <2> QED
    BY <2>5, <2>6, <2>7, <2>8
<1>2. CASE Copy /\ copier' = "failed"
  <2> USE <1>2 DEF Copy
  <2>1. /\ stderr' = Tail(stderr) /\ copier = "running" /\ stderr # <<>>
        /\ UNCHANGED <<echoed, captured>>
    BY DEF TypeOK
  <2>2. stderr' \in Seq(Nat) /\ Len(stderr') <= PipeSize
    BY <2>1, WrapperAssumption DEF TypeOK
  <2>3. TypeOK'
    BY <2>1, <2>2 DEF TypeOK
  <2>4. Flow' /\ Ends'
    BY <2>1 DEF Flow, Ends, Held
  <2>5. Stages' /\ VerdictKept'
    BY <2>1 DEF Stages, VerdictKept
  <2> QED
    BY <2>3, <2>4, <2>5
<1>3. CASE CopyEnds
  <2> USE <1>3 DEF CopyEnds
  <2>1. err = echoed
    BY DEF TypeOK, Flow
  <2>2. TypeOK' /\ Flow'
    BY DEF TypeOK, Flow
  <2>3. Ends'
    BY <2>1 DEF Ends, Held
  <2>4. Stages' /\ VerdictKept'
    BY DEF Stages, VerdictKept
  <2> QED
    BY <2>2, <2>3, <2>4
<1> QED
  BY <1>1, <1>2, <1>3 DEF Copier, Copy
-----------------------------------------------------------------------------
\* The main goroutine until the child has ended.
LEMMA RunKeepsIInv == ASSUME IInv, Start \/ Consume \/ ConsumeEnds PROVE IInv'
<1> USE DEF IInv, childVars, copierVars
<1>1. CASE Start
  <2> USE <1>1 DEF Start, Fails
  <2>1. TypeOK'
    BY DEF TypeOK, Statuses
  <2>2. Flow' /\ Ends'
    BY DEF Flow, Ends, Held, Stages, TypeOK
  <2>3. Stages' /\ VerdictKept'
    BY DEF Stages, VerdictKept, Statuses, NoExit
  <2> QED
    BY <2>1, <2>2, <2>3
<1>2. CASE Consume
  <2> USE <1>2 DEF Consume
  <2>1. /\ consumed' \o stdout' = out /\ {stdout', consumed'} \subseteq Seq(Chunks)
        /\ Len(stdout') <= PipeSize
    <3>1. /\ consumed \in Seq(Chunks) /\ stdout \in Seq(Chunks) /\ out = consumed \o stdout
          /\ Len(stdout) <= PipeSize /\ PipeSize \in Nat
          /\ stdout # <<>> /\ stdout' = Tail(stdout)
          /\ consumed' = Append(consumed, Head(stdout)) /\ out' = out
      BY WrapperAssumption DEF TypeOK, Flow
    <3>2. Append(consumed, Head(stdout)) \o Tail(stdout) = consumed \o stdout
      BY ONLY <3>1
    <3>3. /\ Append(consumed, Head(stdout)) \in Seq(Chunks) /\ Tail(stdout) \in Seq(Chunks)
          /\ Len(Tail(stdout)) = Len(stdout) - 1
      BY ONLY <3>1
    <3> QED
      BY ONLY <3>1, <3>2, <3>3
  <2>2. TypeOK' /\ Flow'
    BY <2>1 DEF TypeOK, Flow
  <2>3. Ends' /\ Stages' /\ VerdictKept'
    BY DEF Ends, Held, Stages, VerdictKept
  <2> QED
    BY <2>2, <2>3
<1>3. CASE ConsumeEnds
  <2> USE <1>3 DEF ConsumeEnds
  <2>1. TypeOK' /\ Flow'
    BY DEF TypeOK, Flow
  <2>2. Ends'
    BY DEF Ends, Held, EndOfStream
  <2>3. Stages' /\ VerdictKept'
    BY DEF Stages, VerdictKept
  <2> QED
    BY <2>1, <2>2, <2>3
<1> QED
  BY <1>1, <1>2, <1>3

\* The main goroutine from Wait to the end of the process.
LEMMA WriteKeepsIInv ==
  ASSUME IInv, Wait \/ CreateFile \/ FillFile \/ WriteFails \/ Exits PROVE IInv'
<1> USE DEF IInv, childVars, copierVars
<1>1. CASE Wait
  <2> USE <1>1 DEF Wait, Fails
  <2>1. TypeOK' /\ Flow'
    BY DEF TypeOK, Flow, Statuses
  <2>2. Ends'
    BY DEF Ends, Held
  <2>3. Stages'
    BY DEF Stages, Waited
  <2>4. VerdictKept'
    BY DEF VerdictKept, Stages, NoExit
  <2> QED
    BY <2>1, <2>2, <2>3, <2>4
<1>2. CASE CreateFile \/ FillFile
  <2> USE <1>2 DEF CreateFile, FillFile
  <2>1. TypeOK' /\ Flow' /\ Ends'
    BY DEF TypeOK, Flow, Ends, Held
  <2>2. Stages' /\ VerdictKept'
    BY DEF Stages, VerdictKept, NoExit
  <2> QED
    BY <2>1, <2>2
<1>3. CASE WriteFails
  <2> USE <1>3 DEF WriteFails
  <2>1. TypeOK' /\ Flow' /\ Ends'
    BY DEF TypeOK, Flow, Ends, Held, Statuses
  <2>2. Stages' /\ VerdictKept'
    BY DEF Stages, VerdictKept
  <2> QED
    BY <2>1, <2>2
<1>4. CASE Exits
  <2> USE <1>4 DEF Exits
  <2>1. TypeOK' /\ Flow' /\ Ends'
    BY DEF TypeOK, Flow, Ends, Held, Statuses, Verdict
  <2>2. Stages' /\ VerdictKept'
    BY DEF Stages, VerdictKept, Verdict
  <2> QED
    BY <2>1, <2>2
<1> QED
  BY <1>1, <1>2, <1>3, <1>4

\* A signal at any moment leaves what was read and written as it is.
LEMMA KilledKeepsIInv == ASSUME IInv, Killed PROVE IInv'
<1> USE DEF IInv, Killed, childVars
<1>1. TypeOK' /\ Flow'
  BY DEF TypeOK, Flow, Statuses
<1>2. Ends' /\ Stages' /\ VerdictKept'
  BY DEF Ends, Held, Stages, VerdictKept
<1> QED
  BY <1>1, <1>2
-----------------------------------------------------------------------------
\* The inductive invariant of the wrapper.
THEOREM Invariance == Spec => []IInv
<1>1. Init => IInv
  BY InitIInv
<1>2. IInv /\ [Next]_vars => IInv'
  <2> SUFFICES ASSUME IInv, [Next]_vars PROVE IInv'
    OBVIOUS
  <2>1. CASE Child
    BY <2>1, WriteOutKeepsIInv, WriteErrKeepsIInv, HoldersKeepIInv DEF Child
  <2>2. CASE Copier
    BY <2>2, CopierKeepsIInv
  <2>3. CASE Main
    BY <2>3, RunKeepsIInv, WriteKeepsIInv DEF Main
  <2>4. CASE Killed
    BY <2>4, KilledKeepsIInv
  <2>5. CASE UNCHANGED vars
    BY <2>5 DEF IInv, TypeOK, Flow, Ends, Stages, VerdictKept, Held,
                vars, childVars, copierVars
  <2> QED
    BY <2>1, <2>2, <2>3, <2>4, <2>5 DEF Next
<1> QED
  BY <1>1, <1>2, PTL DEF Spec

\* The capture and the pipes stay within their sizes.
THEOREM TypesHold == Spec => []TypeOK
BY Invariance, PTL DEF IInv

\* The report is written from everything any process wrote to stdout, and from
\* the beginning of all it wrote to stderr when the stream has no text of its own.
THEOREM WholeRunIsReported == Spec => []WholeRunReported
<1>1. IInv => WholeRunReported
  <2> SUFFICES ASSUME IInv, pc = "writing" PROVE WholeRunReported
    BY DEF WholeRunReported
  <2>1. consumed = out
    BY DEF IInv, TypeOK, Flow, Ends
  <2>2. ASSUME copier = "done" PROVE echoed = err
    BY <2>2 DEF IInv, Ends
  <2>3. ASSUME copier = "done" PROVE Contains(out, "text") \/ evidence = Cut(err, MaxCapture)
    BY <2>1, <2>2, <2>3 DEF IInv, Stages, Flow, Evidence
  <2> QED
    BY <2>1, <2>2, <2>3 DEF WholeRunReported
<1> QED
  BY <1>1, Invariance, PTL

\* Success is only claimed for a child that succeeded and a report that is
\* complete, and with a complete report the verdict is the child's.
THEOREM VerdictIsKept == Spec => []VerdictKept
BY Invariance, PTL DEF IInv
=============================================================================
