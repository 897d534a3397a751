------------------------------- MODULE Report -------------------------------
(***************************************************************************)
(* internal/build: the report assembled from the finished run model.        *)
(* A case keeps what decides pass or fail and what a reader of a failure    *)
(* needs: its status, its attempts, its error text.  Ids, durations, shard  *)
(* numbers and the metadata fields are left out (Replay has the steps).     *)
(***************************************************************************)
EXTENDS Builder

CONSTANTS MaxSuitesPerLaunch,
          MaxCasesPerSuite,
          MaxAttemptsPerCase,
          MaxCaseErrorRunes,   \* of an error text, a symbol being a rune
          Framing              \* what the runner's own lines begin with: "=== RUN", ...

ASSUME ReportAssumption ==
  {MaxSuitesPerLaunch, MaxCasesPerSuite, MaxAttemptsPerCase, MaxCaseErrorRunes} \subseteq Nat \ {0}

\* What Config.Repeat makes of a test that ran several times (-count).
Repeats == {"collapse", "split"}

\* The exit status of the child when nobody observed it (pipe and file modes).
NoExit == "none"

IsFailure(status) == status \in {"failed", "error", "timeout", "aborted"}

\* splitOutput: the metadata lines of an occurrence apart from the others, of which
\* those of the runner are dropped.
HasMessages(occ) == \E i \in DOMAIN occ.lines : Mentions(occ.lines[i], Sentinel)

IsFraming(line) == line # <<>> /\ line[1] = Framing

PlainLines(occ) ==
  Filtered(occ.lines, {line \in ToSet(occ.lines) : ~Mentions(line, Sentinel) /\ ~IsFraming(line)})

\* The output of an occurrence, as much of it as a case has room for.
ErrorText(occ) == Truncate(Join(PlainLines(occ), NL), MaxCaseErrorRunes)

AnyChildFailed(p, t) ==
  \E i \in DOMAIN testOrder[p] :
    IsUnder(testOrder[p][i], t) /\ IsFailure(FinalStatus(p, testOrder[p][i]))

\* Mutant of KeepTest: tests without subtests only.
LeavesOnly(p, t) == ~HasChildren(p, t)

\* A parent is dropped, because its children are reported, unless it carries
\* metadata or failed on its own.
KeepTest(p, t) ==
  \/ ~HasChildren(p, t)
  \/ \E n \in DOMAIN occurrences[p][t] : HasMessages(occurrences[p][t][n])
  \/ IsFailure(FinalStatus(p, t)) /\ ~AnyChildFailed(p, t)

NewCase(kind, p, t, status, error) ==
  [kind |-> kind, package |-> p, test |-> t, repeat |-> 0, status |-> status,
   error |-> error, attempts |-> <<>>, flaky |-> FALSE]

\* Mutant of BuildOne: a text for "failed" only.
TextOfFailed(p, t, occ) ==
  NewCase("test", p, t, occ.status, IF occ.status = "failed" THEN ErrorText(occ) ELSE <<>>)

BuildOne(p, t, occ) ==
  NewCase("test", p, t, occ.status, IF IsFailure(occ.status) THEN ErrorText(occ) ELSE <<>>)

\* Mutant of TrimAttempts: without the final one.
AllButLast(attempts) == IF Len(attempts) < 2 THEN <<>> ELSE Front(attempts)

\* Fewer than two attempts are not worth sending; beyond the cap the head and
\* the final one are kept.
TrimAttempts(attempts) ==
  IF Len(attempts) < 2 THEN <<>>
  ELSE IF Len(attempts) <= MaxAttemptsPerCase THEN attempts
  ELSE Append(SubSeq(attempts, 1, MaxAttemptsPerCase - 1), Last(attempts))

WithAttempts(case, occs) ==
  LET attempts == TrimAttempts([n \in DOMAIN occs |-> occs[n].status])
      failedEarlier == \E n \in 1..Len(occs) - 1 : IsFailure(occs[n].status)
  IN  IF attempts = <<>> THEN case
      ELSE [case EXCEPT !.attempts = attempts,
                        !.flaky = ~IsFailure(case.status) /\ failedEarlier]

Cases(p, t, repeat) ==
  LET occs == occurrences[p][t]
  IN  IF occs = <<>> \/ ~KeepTest(p, t) THEN <<>>
      ELSE IF repeat = "split" /\ Len(occs) > 1
      THEN [n \in DOMAIN occs |-> [BuildOne(p, t, occs[n]) EXCEPT !.repeat = n]]
      ELSE <<WithAttempts(BuildOne(p, t, Last(occs)), occs)>>

ExplainsAFailure(case) ==
  \/ IsFailure(case.status)
  \/ \E n \in DOMAIN case.attempts : IsFailure(case.attempts[n])

\* Mutant of AnythingExplainsAFailure: any case will do.
AnyCase(cases) == cases # <<>>

AnythingExplainsAFailure(cases) == \E i \in DOMAIN cases : ExplainsAFailure(cases[i])

\* Texts of the reporter's own, for want of evidence.
NotAttributed == <<"package-level failure not attributed to any test">>
NothingSeen == <<"go test exited but no test reported a failure">>

PackageFailureCase(p) ==
  LET binary == package[p].failedBuild
      built == binary # NoBinary
      text == IF built /\ buildOutput[binary] # <<>> THEN FlattenSeq(buildOutput[binary])
              ELSE Join(package[p].lines, NL)
  IN  NewCase(IF built THEN "build" ELSE "package", p, NoTest, "error",
              TruncateOr(text, MaxCaseErrorRunes, NotAttributed))

\* The cases of one package's suite: those of its tests up to the cap, and a
\* synthetic one when the package failed with nothing to blame it on.
SuiteCases(p, repeat) ==
  LET cases == Gathered(testOrder[p], [t \in Tests |-> Cases(p, t, repeat)], MaxCasesPerSuite)
  IN  IF package[p].status = "fail" /\ ~AnythingExplainsAFailure(cases)
      THEN Append(cases, PackageFailureCase(p))
      ELSE cases

\* A package that contributed nothing has no suite.
Suites(repeat) ==
  LET shown == Filtered(packageOrder, {p \in Packages : SuiteCases(p, repeat) # <<>>})
      room == IF Len(shown) > MaxSuitesPerLaunch THEN MaxSuitesPerLaunch ELSE Len(shown)
  IN  [i \in 1..room |-> SuiteCases(shown[i], repeat)]

Unattributed(evidence) ==
  NewCase("unattributed", NoPackage, NoTest, "error",
          Truncate(IF evidence = <<>> THEN NothingSeen ELSE evidence, MaxCaseErrorRunes))

\* Mutant of WithBackstop: whatever the report says.
WithFailure(suites, exit, evidence) ==
  IF exit \in {NoExit, "zero"} THEN suites
  ELSE Append(suites, <<Unattributed(evidence)>>)

\* The backstop: a red exit and a green report get a synthetic failure.
WithBackstop(suites, exit, evidence) ==
  IF \/ exit \in {NoExit, "zero"}
     \/ \E i \in DOMAIN suites : AnythingExplainsAFailure(suites[i])
  THEN suites
  ELSE Append(suites, <<Unattributed(evidence)>>)

\* The report, as the sequence of its suites' cases.
Collect(repeat, exit, evidence) == WithBackstop(Suites(repeat), exit, evidence)
=============================================================================
