------------------------------ MODULE Pipeline ------------------------------
(***************************************************************************)
(* `go test -json` composed with the run model and the report: every event  *)
(* the toolchain emits is added to the builder in the order it was written, *)
(* and at the end of the stream the report is compared with what the tests  *)
(* really did.                                                             *)
(***************************************************************************)
EXTENDS Report

CONSTANTS Commands,
          Binary         \* the test binary of each package: its build events' ImportPath

ASSUME CommandsAssumption ==
  \A c \in Commands : /\ c.packages \subseteq Packages /\ c.tests \subseteq Tests
                      /\ {c.count, c.files, c.parallel} \subseteq Nat \ {0} /\ c.text \in Nat

ASSUME BinaryAssumption == Binary \in [Packages -> ImportPaths]

\* Panic and Banner are what the runtime says when a process dies, and nothing that
\* a test logs of its own.
ASSUME OutputAssumption == \A chunk \in Chunks : ToSet(chunk) \cap {Panic, Banner} = {}

VARIABLES command, process, iteration, executions, death, red, childExit, file

INSTANCE GoTest

toolchain == <<command, process, iteration, executions, death, red, childExit, file>>

vars == <<builderVars, toolchain>>

Init == BuilderInit /\ GoTestInit
-----------------------------------------------------------------------------
Blank == [action |-> "start", package |-> NoPackage, test |-> NoTest, output |-> <<>>,
          importPath |-> NoBinary, failedBuild |-> NoBinary]

PackageEv(p, action) == [Blank EXCEPT !.package = p, !.action = action]

TestEv(p, t, action) == [PackageEv(p, action) EXCEPT !.test = t]

OutputEv(p, t, text) == [TestEv(p, t, "output") EXCEPT !.output = text]

Begins(p) ==
  \/ Begin(p, "running") /\ Add(PackageEv(p, "start"))
  \/ Begin(p, "no tests") /\ Add(PackageEv(p, "start"))
  \/ Begin(p, "unbuilt") /\ UNCHANGED builderVars
  \/ /\ Begin(p, "broken")
     /\ \E text \in Chunks :
          Add([Blank EXCEPT !.action = "build-output", !.importPath = Binary[p], !.output = text])

Starts(p, t) == StartTest(p, t) /\ Add(TestEv(p, t, "run"))

Logs(p, t) == \E text \in Chunks : Log(p, t, text) /\ Add(OutputEv(p, t, text))

Fails(p, t) == FailTest(p, t) /\ UNCHANGED builderVars

Ends(p, t) ==
  \E action \in Terminal : EndTest(p, t, action) /\ Add(TestEv(p, t, action))

Dies(p, t) ==
  \E why \in {"exit", "panic", "timeout"} :
    /\ Die(p, t, why)
    /\ IF LastWords(why) = <<>> THEN UNCHANGED builderVars
       ELSE Add(OutputEv(p, t, LastWords(why)))

Reports(p) ==
  \E action \in {"pass", "fail", "skip"} :
    /\ ReportPackage(p, action)
    /\ Add([PackageEv(p, action) EXCEPT
              !.failedBuild = IF process[p] = "broken" THEN Binary[p] ELSE NoBinary])

Quietly(p) == (NextIteration(p) \/ EndProcess(p)) /\ UNCHANGED builderVars

Exits == (NextFile \/ \E status \in {"zero", "nonzero", "killed"} : Exit(status)) /\ UNCHANGED builderVars

\* Finish, once the (last) stream is exhausted.
Finishes == childExit # "none" /\ file = command.files /\ Finish /\ UNCHANGED toolchain

Next ==
  \/ \E p \in Packages :
       \/ Begins(p) \/ Quietly(p) \/ Reports(p)
       \/ \E t \in Tests : Starts(p, t) \/ Logs(p, t) \/ Fails(p, t) \/ Ends(p, t) \/ Dies(p, t)
  \/ Exits
  \/ Finishes

Spec == Init /\ [][Next]_vars
\* What the wrapper hands to the backstop: the non-JSON text of the stream, and
\* the child's stderr only when there is none.  A build failure that a toolchain
\* before Go 1.24 keeps out of the stream leaves a line of each.
Unbuilt == \E p \in Packages : process[p] = "unbuilt"

Preamble == IF Unbuilt THEN <<"setup failed">> ELSE <<>>

Stderr == IF Unbuilt THEN <<"compiler error">> ELSE <<>>

Evidence == IF Preamble = <<>> THEN Stderr ELSE Preamble
-----------------------------------------------------------------------------
\* How an execution ended, in the report's words.
Outcome(p, t, n) ==
  LET this == executions[p][t][n]
      ending == death[p][((this.iteration - 1) \div command.count) + 1]
  IN  CASE this.outcome = "pass" -> "passed"
        [] this.outcome = "fail" -> "failed"
        [] this.outcome = "skip" -> "skipped"
        [] this.outcome = "running" ->
             IF ending.why = "timeout" THEN "timeout"
             ELSE IF ending = [why |-> "panic", test |-> t] THEN "error"
             ELSE "aborted"

Outcomes(p, t) == [n \in DOMAIN executions[p][t] |-> Outcome(p, t, n)]

\* Every execution of every test is an occurrence of its own, in order, with the
\* outcome it had: -count iterations do not overwrite each other, and the tests a
\* timeout, a panic or an exit left unfinished are told apart.  (The timeout of a
\* later recorded stream is also read into what an earlier one left unfinished.)
ExecutionsRecorded ==
  finished =>
    \A p \in Packages, t \in Tests :
      /\ Len(occurrences[p][t]) = Len(executions[p][t])
      /\ \A n \in DOMAIN executions[p][t] :
           \/ occurrences[p][t][n].status = Outcome(p, t, n)
           \/ /\ command.files > 1
              /\ executions[p][t][n].outcome = "running"
              /\ occurrences[p][t][n].status \in Unfinished

\* A text after its last line has been ended too.
Terminated(text) == IF text = <<>> \/ Last(text) = NL THEN text ELSE Append(text, NL)

\* At every moment the lines filed under an execution, and the half line the
\* joiner still holds for the last one, are what that execution printed: nothing
\* is lost, reordered or spliced with the output of a test running beside it.
\* What a recorded stream left of a line goes to the next execution of the test in
\* the streams that follow, but it is not lost either.
OutputAttributed ==
  \A p \in Packages, t \in Tests :
    LET runs == executions[p][t]
        filed == [n \in DOMAIN runs |-> Joined(occurrences[p][t][n].lines, NL)]
        held(n) == IF n = Len(runs) THEN partial[<<p, t>>] ELSE <<>>
        is(told, text) == told = text \/ (finished /\ told = Terminated(text))
    IN  /\ command.files = 1 => \A n \in DOMAIN runs : is(filed[n] \o held(n), runs[n].text)
        /\ is(FlattenSeq(filed) \o held(Len(runs)),
              FlattenSeq([n \in DOMAIN runs |-> runs[n].text]))

\* The cases of the whole report.
Reported(repeat, exit) == ToSet(FlattenSeq(Collect(repeat, exit, Evidence)))

\* The exit status is seen in wrapper mode only, not through a pipe or from files.
Observations == IF command.files = 1 THEN {childExit, NoExit} ELSE {NoExit}

\* The reports that may be made of the run, however reruns are treated.
AllReported == {Reported(repeat, exit) : repeat \in Repeats, exit \in Observations}

Failing(p, t, n) == IsFailure(Outcome(p, t, n))

\* A red execution of a test without subtests, or the last one of a test with some.
\* (ParentFailuresReported is about the others.)
Owed(p, t, n) == Failing(p, t, n) /\ (n = Len(executions[p][t]) \/ ~HasChildren(p, t))

\* The cases of the tests in a report of a package.
TestCases(cases, p) == {case \in cases : case.kind = "test" /\ case.package = p}

\* The report has no room for a test, or for a package.
FullWithout(cases, p, t) ==
  \/ Cardinality({case \in TestCases(cases, p) : case.test # t}) >= MaxCasesPerSuite
  \/ Cardinality({case.package : case \in cases} \ {p}) >= MaxSuitesPerLaunch

\* More executions than a case has attempts: those in the middle are not listed.
Trimmed(p, t) == Len(executions[p][t]) > MaxAttemptsPerCase

\* No red execution of a test without subtests goes missing from the report, in
\* the attempt that had it, or in the flakiness of the case when that attempt was
\* trimmed; a red last one of a test with subtests shows there or below.  Only a
\* report that is full without the test leaves it out.
FailuresReported ==
  finished =>
    \A cases \in AllReported, p \in Packages, t \in Tests :
      LET shown(n) == \E case \in TestCases(cases, p) :
            \/ /\ case.test = t
               /\ IF case.attempts = <<>> THEN IsFailure(case.status) /\ case.repeat \in {0, n}
                  ELSE IF Trimmed(p, t) THEN case.flaky \/ IsFailure(case.status)
                  ELSE IsFailure(case.attempts[n])
            \/ IsUnder(case.test, t) /\ ExplainsAFailure(case)
      IN  \A n \in DOMAIN executions[p][t] :
            Owed(p, t, n) => shown(n) \/ FullWithout(cases, p, t)

\* A package whose "fail" reached the stream has a red case in its own suite, even
\* when the tests that failed did not fit in it, unless the report is full of other
\* packages; and a red exit has one somewhere whatever did not fit: the report is
\* never greener than the run.  (Of several recorded streams of one package, only
\* the last counts.)
NeverGreener ==
  finished /\ command.files = 1 =>
    \A repeat \in Repeats, exit \in Observations :
      LET cases == Reported(repeat, exit)
          failing == {case \in cases : ExplainsAFailure(case)}
      IN  /\ \A p \in red :
               \/ \E case \in failing : case.package = p
               \/ Cardinality({case.package : case \in cases} \ {p}) >= MaxSuitesPerLaunch
          /\ exit \notin {NoExit, "zero"} => failing # {}

\* Nothing red is made up: a failing case stands for a failing execution of its
\* test, and a synthetic one only for a failure the report owes to no test, or to
\* one it has no room for.
NothingInvented ==
  finished =>
    \A cases \in AllReported : \A case \in {c \in cases : IsFailure(c.status)} :
      LET unseen(p) == \A t \in Tests :
            \/ Trimmed(p, t)
            \/ FullWithout(cases, p, t)
            \/ \A n \in DOMAIN executions[p][t] : ~Owed(p, t, n)
      IN  CASE case.kind = "test" -> \E n \in DOMAIN executions[case.package][case.test] :
                                       Failing(case.package, case.test, n)
            [] case.kind \in {"package", "build"} ->
                 case.package \in red /\ unseen(case.package)
            [] case.kind = "unattributed" ->
                 childExit # "zero" /\ \A p \in Packages : unseen(p)

\* A collapsed case mirrors the last execution, lists every one of them as an
\* attempt, or as many as fit with the last among them, and is flaky exactly when it ended well after a red one.  (The timeout of
\* a later recorded stream is also read into what an earlier one left unfinished.)
CasesMirrorExecutions ==
  finished /\ command.files = 1 =>
    \A case \in {c \in UNION AllReported : c.kind = "test" /\ c.repeat = 0} :
      LET outcomes == Outcomes(case.package, case.test)
      IN  /\ case.status = Last(outcomes)
          /\ IF Trimmed(case.package, case.test)
             THEN /\ Len(case.attempts) = MaxAttemptsPerCase
                  /\ Last(case.attempts) = Last(outcomes)
             ELSE Len(outcomes) > 1 => case.attempts = outcomes
          /\ case.flaky <=> /\ ~IsFailure(Last(outcomes))
                           /\ \E n \in DOMAIN outcomes : IsFailure(outcomes[n])

\* The lines of a text, the last of which may not have been ended.
LinesOf(text) ==
  LET pieces == Split(text, NL)
  IN  IF Last(pieces) = <<>> THEN Front(pieces) ELSE pieces

\* What a test said in a text: not the metadata, and not what the runner said.
Said(text) ==
  Filtered(LinesOf(text),
           {line \in ToSet(LinesOf(text)) : ~Mentions(line, Sentinel) /\ ~IsFraming(line)})

\* The error of a failing case is what the execution that failed printed, line by
\* line and whatever ran beside it, without its metadata and the runner's lines; that
\* of a build failure is what the compiler said.  Of a text longer than the cap only
\* the head is left.  A failure with nothing to show for it has a text all the same.
\* (What one of several recorded streams left of a line is printed by the next
\* execution of the test.)
FailuresCarryEvidence ==
  finished =>
    \A case \in {c \in UNION AllReported : IsFailure(c.status)} :
      LET runs == executions[case.package][case.test]
          n == IF case.repeat = 0 THEN Len(runs) ELSE case.repeat
          headOf(text) == Truncate(text, MaxCaseErrorRunes)
      IN  CASE case.kind = "test" ->
                 command.files = 1 => case.error = headOf(Join(Said(runs[n].text), NL))
            [] case.kind = "build" ->
                 case.error = headOf(FlattenSeq(buildOutput[Binary[case.package]]))
            [] case.kind \in {"package", "unattributed"} -> case.error # <<>>
-----------------------------------------------------------------------------
\* case.go:126-127: a parent that failed while no child did "is a real
\* parent-level assertion or cleanup failure, and dropping it loses the only
\* thing that went wrong".
ParentFailuresReported ==
  finished =>
    \A p \in Packages, t \in Tests : \A n \in DOMAIN executions[p][t] :
      /\ Failing(p, t, n)
      /\ \A u \in Below(t) : \A m \in DOMAIN executions[p][u] : ~Failing(p, u, m)
      => \E case \in UNION AllReported : case.kind = "test" /\ case.test = t

\* main.go:124: "stderr carries the compiler error when the stream does not", so
\* the failure synthesised for a build that left no event shows that error.
BuildErrorsShown ==
  finished =>
    \A case \in UNION AllReported :
      case.kind = "unattributed" /\ Unbuilt => Contains(case.error, "compiler error")
=============================================================================
