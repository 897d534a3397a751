------------------------------- MODULE Wrapper -------------------------------
(***************************************************************************)
(* `qualflare-go ./...`: runner.Run and main.wrap around a child process.    *)
(* The child and the processes it leaves behind write to two pipes; the main *)
(* goroutine consumes stdout until its end, then waits; a goroutine of       *)
(* os/exec copies stderr to ours and to a bounded capture.  Afterwards the   *)
(* report is written and the child's exit status passed on.                  *)
(***************************************************************************)
EXTENDS Integers, Sequences, SequencesExt

CONSTANTS PipeSize,     \* what each pipe holds
          MaxCapture,   \* what the capture of stderr holds
          MaxOut, MaxErr, \* bounds on what is written to each pipe
          StderrBreaks  \* TRUE when our own stderr may stop taking text

ASSUME WrapperAssumption ==
  /\ {PipeSize, MaxCapture} \subseteq Nat \ {0}
  /\ {MaxOut, MaxErr} \subseteq Nat
  /\ StderrBreaks \in BOOLEAN

VARIABLES
  child,         \* "absent", "running", or its exit status
  orphans,       \* the pipes that processes the child started still hold
  stdout, stderr, \* the pipes
  out, err,      \* everything written to them
  consumed,      \* what the decoder has read
  echoed,        \* what the user has seen of stderr
  captured,      \* capture.buf
  copier,        \* the goroutine copying stderr: "running", "done", "failed"
  pc,            \* the main goroutine
  report,        \* the report file: "absent", "partial" or "complete"
  evidence,      \* the text handed to the report
  exit           \* the wrapper's own exit status

childVars == <<child, orphans, out, err>>
copierVars == <<echoed, captured, copier>>
vars == <<childVars, stdout, stderr, consumed, copierVars, pc, report, evidence, exit>>

Pipes == {"stdout", "stderr"}
Chunks == {"event", "text"}
Statuses == {"zero", "nonzero", "signaled"}
NoExit == "none"

Init ==
  /\ child = "absent" /\ orphans = {}
  /\ stdout = <<>> /\ stderr = <<>> /\ out = <<>> /\ err = <<>>
  /\ consumed = <<>> /\ echoed = <<>> /\ captured = <<>>
  /\ copier = "done"
  /\ pc = "starting"
  /\ report = "absent" /\ evidence = <<>> /\ exit = NoExit
-----------------------------------------------------------------------------
(***************************************************************************)
(* The child.  It blocks while a pipe is full.                              *)
(***************************************************************************)
Held(pipe) == child = "running" \/ pipe \in orphans

WriteOut(chunk) ==
  /\ Held("stdout") /\ pc # "killed"
  /\ Len(out) < MaxOut /\ Len(stdout) < PipeSize
  /\ stdout' = Append(stdout, chunk)
  /\ out' = Append(out, chunk)
  /\ UNCHANGED <<child, orphans, err, stderr, consumed, copierVars, pc, report, evidence, exit>>

WriteErr ==
  /\ Held("stderr") /\ pc # "killed" /\ copier = "running"
  /\ Len(err) < MaxErr /\ Len(stderr) < PipeSize
  /\ stderr' = Append(stderr, Len(err) + 1)
  /\ err' = Append(err, Len(err) + 1)
  /\ UNCHANGED <<child, orphans, out, stdout, consumed, copierVars, pc, report, evidence, exit>>

LeavesOrphan(pipes) ==
  /\ child = "running" /\ orphans = {}
  /\ orphans' = pipes
  /\ UNCHANGED <<child, out, err, stdout, stderr, consumed, copierVars, pc, report, evidence, exit>>

\* On its own, or by a signal: SIGPIPE when nobody reads what it writes.
ChildExits(status) ==
  /\ child = "running"
  /\ child' = status
  /\ UNCHANGED <<orphans, out, err, stdout, stderr, consumed, copierVars, pc, report, evidence, exit>>

OrphanCloses(pipe) ==
  /\ pipe \in orphans
  /\ orphans' = orphans \ {pipe}
  /\ UNCHANGED <<child, out, err, stdout, stderr, consumed, copierVars, pc, report, evidence, exit>>

Child ==
  \/ \E chunk \in Chunks : WriteOut(chunk)
  \/ WriteErr
  \/ \E pipes \in SUBSET Pipes \ {{}} : LeavesOrphan(pipes)
  \/ \E status \in Statuses : ChildExits(status)
  \/ \E pipe \in Pipes : OrphanCloses(pipe)
-----------------------------------------------------------------------------
(***************************************************************************)
(* io.Copy of stderr into io.MultiWriter(os.Stderr, &stderr).               *)
(***************************************************************************)
Cut(s, n) == SubSeq(s, 1, IF Len(s) < n THEN Len(s) ELSE n)

\* Mutant of Captured: no bound.
CapturedAll(text, chunk) == Append(text, chunk)

\* capture.Write: what there is room for, the whole of it claimed as written.
Captured(text, chunk) == Cut(Append(text, chunk), MaxCapture)

Copy ==
  /\ copier = "running" /\ stderr # <<>>
  /\ stderr' = Tail(stderr)
  /\ \/ /\ echoed' = Append(echoed, Head(stderr))
        /\ captured' = Captured(captured, Head(stderr))
        /\ UNCHANGED copier
     \* The MultiWriter stops at the first writer that fails, and Copy with it.
     \/ /\ StderrBreaks
        /\ copier' = "failed"
        /\ UNCHANGED <<echoed, captured>>
  /\ UNCHANGED <<childVars, stdout, consumed, pc, report, evidence, exit>>

CopyEnds ==
  /\ copier = "running" /\ stderr = <<>> /\ ~Held("stderr")
  /\ copier' = "done"
  /\ UNCHANGED <<childVars, stdout, stderr, consumed, echoed, captured, pc, report, evidence, exit>>

Copier == Copy \/ CopyEnds
-----------------------------------------------------------------------------
(***************************************************************************)
(* The main goroutine.                                                      *)
(***************************************************************************)
\* wrap reports that it could not run the command, and writes nothing.
Fails ==
  /\ pc' = "done"
  /\ exit' = "nonzero"
  /\ UNCHANGED <<report, evidence>>

Start ==
  /\ pc = "starting"
  /\ \/ /\ child' = "running"
        /\ copier' = "running"
        /\ pc' = "consuming"
        /\ UNCHANGED <<report, evidence, exit>>
     \/ Fails /\ UNCHANGED <<child, copier>>
  /\ UNCHANGED <<orphans, out, err, stdout, stderr, consumed, echoed, captured>>

\* Mutant of MayConsume: the stream is only drained at the end.
WhenExited == child # "running"

\* The stream is consumed while the child runs.
MayConsume == TRUE

Consume ==
  /\ pc = "consuming" /\ MayConsume /\ stdout # <<>>
  /\ consumed' = Append(consumed, Head(stdout))
  /\ stdout' = Tail(stdout)
  /\ UNCHANGED <<childVars, stderr, copierVars, pc, report, evidence, exit>>

\* The read end of stdout sees its end when no process holds the other one.
EndOfStream == stdout = <<>> /\ ~Held("stdout")

ConsumeEnds ==
  /\ pc = "consuming" /\ EndOfStream
  /\ pc' = "waiting"
  /\ UNCHANGED <<childVars, stdout, stderr, consumed, copierVars, report, evidence, exit>>

\* Mutants of Waited: the process only; the copying to succeed.
ProcessOnly == child \in Statuses

CopiedAll == child \in Statuses /\ copier = "done"

\* cmd.Wait waits for the process and for the copying of stderr.
Waited == child \in Statuses /\ copier # "running"

\* Text in the stream, or else what was captured of stderr.
Evidence(stream, capture) ==
  IF Contains(stream, "text") THEN SelectSeq(stream, LAMBDA chunk : chunk = "text")
  ELSE capture

\* An error of Wait other than the exit status of the child loses the run.
Wait ==
  /\ pc = "waiting" /\ Waited
  /\ IF child = "zero" /\ copier = "failed" THEN Fails
     ELSE /\ pc' = "writing"
          /\ evidence' = Evidence(consumed, captured)
          /\ UNCHANGED <<report, exit>>
  /\ UNCHANGED <<childVars, stdout, stderr, consumed, copierVars>>

\* os.WriteFile creates or truncates the file, then writes it.
CreateFile ==
  /\ pc = "writing" /\ report = "absent"
  /\ report' = "partial"
  /\ UNCHANGED <<childVars, stdout, stderr, consumed, copierVars, pc, evidence, exit>>

FillFile ==
  /\ pc = "writing" /\ report = "partial"
  /\ report' = "complete"
  /\ UNCHANGED <<childVars, stdout, stderr, consumed, copierVars, pc, evidence, exit>>

\* MkdirAll, Marshal or WriteFile fails.
WriteFails ==
  /\ pc = "writing" /\ report # "complete"
  /\ pc' = "done"
  /\ exit' = "nonzero"
  /\ UNCHANGED <<childVars, stdout, stderr, consumed, copierVars, report, evidence>>

\* Mutant of Verdict: the reporter's own success.
OwnVerdict == "zero"

\* ExitCode() is -1 for a signal, and os.Exit(-1) a failure.
Verdict == IF child = "zero" THEN "zero" ELSE "nonzero"

Exits ==
  /\ pc = "writing" /\ report = "complete"
  /\ pc' = "done"
  /\ exit' = Verdict
  /\ UNCHANGED <<childVars, stdout, stderr, consumed, copierVars, report, evidence>>

Main == Start \/ Consume \/ ConsumeEnds \/ Wait \/ CreateFile \/ FillFile \/ WriteFails \/ Exits

\* Nothing handles a signal: the wrapper is gone at any moment, with its copier.
Killed ==
  /\ pc # "done" /\ pc # "killed"
  /\ pc' = "killed"
  /\ exit' = "signaled"
  /\ copier' = "done"
  /\ UNCHANGED <<childVars, stdout, stderr, consumed, echoed, captured, report, evidence>>

Next == Child \/ Copier \/ Main \/ Killed

\* Both goroutines keep running; nothing is assumed of the child.
Spec == Init /\ [][Next]_vars /\ WF_vars(Copier) /\ WF_vars(Main)
-----------------------------------------------------------------------------
TypeOK ==
  /\ child \in {"absent", "running"} \cup Statuses
  /\ orphans \subseteq Pipes
  /\ {out, stdout, consumed} \subseteq Seq(Chunks)
  /\ {err, stderr, echoed, captured} \subseteq Seq(Nat)
  /\ Len(stdout) <= PipeSize /\ Len(stderr) <= PipeSize
  /\ Len(captured) <= MaxCapture
  /\ copier \in {"running", "done", "failed"}
  /\ pc \in {"starting", "consuming", "waiting", "writing", "done", "killed"}
  /\ report \in {"absent", "partial", "complete"}
  /\ exit \in {NoExit} \cup Statuses

\* The report is written from the whole run: everything any process wrote to stdout,
\* and, unless the copy of stderr broke, the beginning of all it wrote there.
WholeRunReported ==
  pc = "writing" =>
    /\ consumed = out
    /\ copier = "done" =>
         /\ echoed = err
         /\ Contains(out, "text") \/ evidence = Cut(err, MaxCapture)

\* Success is only claimed for a child that succeeded, with a complete report on
\* disk, and a complete report only loses the child's verdict to a signal.
VerdictKept ==
  /\ exit = "zero" => child = "zero" /\ report = "complete"
  /\ pc = "done" /\ report = "complete" => (exit = "zero" <=> child = "zero")

\* A child that waits for room in a pipe gets it, unless the wrapper dies.
RoomReturns ==
  /\ (Len(stdout) = PipeSize) ~> (Len(stdout) < PipeSize \/ pc = "killed")
  /\ (Len(stderr) = PipeSize) ~> (Len(stderr) < PipeSize \/ copier # "running")

\* Once nobody holds the pipes any more the wrapper ends.
WrapperEnds == (child \in Statuses /\ orphans = {}) ~> pc \in {"done", "killed"}
=============================================================================
