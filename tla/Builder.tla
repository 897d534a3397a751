------------------------------- MODULE Builder -------------------------------
(***************************************************************************)
(* internal/model/model.go: the run model folded from the event stream.     *)
(*                                                                          *)
(* A test name is the sequence of its path components, so "TestA/x" is      *)
(* <<"A", "x">> and the package itself is NoTest.  Output is symbolic: Panic *)
(* stands for the text "panic:", Banner for the " test timed out" that       *)
(* follows it when the -timeout alarm fires, Sentinel for one metadata line; *)
(* elapsed times and timestamps are left out.                               *)
(***************************************************************************)
EXTENDS Slices

CONSTANTS Packages,       \* import paths of packages under test
          Tests,          \* test names (non-empty sequences), the same in each package
          ImportPaths,    \* test binaries, the keys of build events
          Symbols,
          NL,
          Chunks,         \* the Output fields of the events considered
          Panic, Banner, Sentinel, \* the symbols the reporter looks for
          NoPackage, NoBinary      \* the absent Package and ImportPath

NoTest == <<>>

Keys == Packages \X (Tests \cup {NoTest})

VARIABLES
  partial, order,   \* the Joiner
  packageOrder,     \* Run.PackageOrder
  package,          \* [Packages -> Status, FailedBuild and Lines of a package]
  testOrder,        \* [Packages -> Package.TestOrder]
  occurrences,      \* [Packages -> [Tests -> Test.Occurrences]]
  open,             \* index of the occurrence b.open points at, 0 for none
  buildOutput,      \* Run.BuildOutput
  finished          \* Finish has run

INSTANCE Joiner

builderVars == <<partial, order, packageOrder, package, testOrder, occurrences,
                 open, buildOutput, finished>>

ASSUME NamesAssumption == /\ NoTest \notin Tests
                          /\ NoPackage \notin Packages
                          /\ NoBinary \notin ImportPaths

ASSUME TestsAssumption == \A t \in Tests : t \in Seq(ToSet(t))

ASSUME ChunksAssumption == Chunks \subseteq Seq(Bytes) \ {<<>>}

ASSUME SymbolsAssumption == {Panic, Banner, Sentinel} \subseteq Symbols /\ NL \notin Symbols

\* The empty Status of an occurrence no terminal event has reached, and of a
\* package that has not reported.
None == "none"

Verdicts == {"passed", "failed", "skipped"}
Unfinished == {"timeout", "error", "aborted"}
Terminal == {"pass", "fail", "skip", "bench"}

Occurrence == [status : {None} \cup Verdicts \cup Unfinished,
               terminal : BOOLEAN,
               lines : Seq(Seq(Symbols))]

NewOccurrence == [status |-> None, terminal |-> FALSE, lines |-> <<>>]

NewPackage == [status |-> None, failedBuild |-> NoBinary, lines |-> <<>>]

\* The events the decoder lets through, by what the builder makes of them.
BuildEvent == [action : {"build-output", "build-fail"}, package : {NoPackage}, test : {NoTest},
               output : Chunks \cup {<<>>}, importPath : ImportPaths, failedBuild : {NoBinary}]
OutputEvent == [action : {"output"}, package : Packages \cup {NoPackage}, test : Tests \cup {NoTest},
                output : Chunks, importPath : {NoBinary}, failedBuild : {NoBinary}]
PackageEvent == [action : {"start"} \cup Terminal, package : Packages, test : {NoTest},
                 output : {<<>>}, importPath : {NoBinary}, failedBuild : ImportPaths \cup {NoBinary}]
TestEvent == [action : {"run", "pause", "cont"} \cup Terminal, package : Packages, test : Tests,
              output : {<<>>}, importPath : {NoBinary}, failedBuild : {NoBinary}]
Event == BuildEvent \cup OutputEvent \cup PackageEvent \cup TestEvent

BuilderInit ==
  /\ JoinerInit
  /\ packageOrder = <<>>
  /\ package = [p \in Packages |-> NewPackage]
  /\ testOrder = [p \in Packages |-> <<>>]
  /\ occurrences = [p \in Packages |-> [t \in Tests |-> <<>>]]
  /\ open = [p \in Packages |-> [t \in Tests |-> 0]]
  /\ buildOutput = [b \in ImportPaths |-> <<>>]
  /\ finished = FALSE
-----------------------------------------------------------------------------
Registered(names, name) == IF Contains(names, name) THEN names ELSE Append(names, name)

\* Build events carry an ImportPath and no Package.
AddBuild(ev) ==
  /\ ev.importPath # NoBinary
  /\ buildOutput' = IF ev.output = <<>> THEN buildOutput
                    ELSE [buildOutput EXCEPT ![ev.importPath] = Append(@, ev.output)]
  /\ UNCHANGED <<partial, order, packageOrder, package, testOrder, occurrences, open>>

\* An event that names neither is dropped.
AddNothing(ev) ==
  /\ ev.importPath = NoBinary
  /\ ev.package = NoPackage
  /\ UNCHANGED <<partial, order, packageOrder, package, testOrder, occurrences, open, buildOutput>>

\* appendLine for lines of one test: they go to its last occurrence, which is
\* synthesised when the test has none.
WithLines(occs, lines) ==
  IF lines = <<>> THEN occs
  ELSE LET known == IF occs = <<>> THEN <<NewOccurrence>> ELSE occs
       IN  [known EXCEPT ![Len(known)].lines = @ \o lines]

\* Mutant of OpenedBy: a synthesised occurrence is not opened.
StaysClosed(index, occs, lines) == index

\* The occurrence a test's b.open entry refers to after appendLine.
OpenedBy(index, occs, lines) == IF occs = <<>> /\ lines # <<>> THEN 1 ELSE index

AddOutput(ev) ==
  LET p == ev.package
      t == ev.test
      lines == Completed(<<p, t>>, ev.output)
  IN  /\ ev.importPath = NoBinary /\ p # NoPackage /\ ev.output # <<>>
      /\ JoinerAdd(<<p, t>>, ev.output)
      /\ packageOrder' = Registered(packageOrder, p)
      /\ IF t = NoTest
         THEN /\ package' = [package EXCEPT ![p].lines = @ \o lines]
              /\ UNCHANGED <<testOrder, occurrences, open>>
         ELSE /\ testOrder' = IF lines = <<>> THEN testOrder
                              ELSE [testOrder EXCEPT ![p] = Registered(@, t)]
              /\ occurrences' = [occurrences EXCEPT ![p][t] = WithLines(@, lines)]
              /\ open' = [open EXCEPT ![p][t] = OpenedBy(@, occurrences[p][t], lines)]
              /\ UNCHANGED package
      /\ UNCHANGED buildOutput

\* A package's own terminal event overwrites whatever it reported before.
AddPackage(ev) ==
  LET p == ev.package
  IN  /\ ev.importPath = NoBinary /\ p # NoPackage /\ ev.output = <<>> /\ ev.test = NoTest
      /\ packageOrder' = Registered(packageOrder, p)
      /\ package' = IF ev.action \notin Terminal THEN package
                    ELSE [package EXCEPT ![p].status = ev.action,
                                         ![p].failedBuild = ev.failedBuild]
      /\ UNCHANGED <<partial, order, testOrder, occurrences, open, buildOutput>>

\* What every event of a test, other than output, registers.
Registers(ev) ==
  /\ ev.importPath = NoBinary /\ ev.package # NoPackage
  /\ ev.output = <<>> /\ ev.test # NoTest
  /\ packageOrder' = Registered(packageOrder, ev.package)
  /\ testOrder' = [testOrder EXCEPT ![ev.package] = Registered(@, ev.test)]
  /\ UNCHANGED <<partial, order, package, buildOutput>>

\* `run` always opens a new occurrence: under -count it is another iteration.
AddRun(ev) ==
  LET p == ev.package
      t == ev.test
  IN  /\ Registers(ev)
      /\ ev.action = "run"
      /\ occurrences' = [occurrences EXCEPT ![p][t] = Append(@, NewOccurrence)]
      /\ open' = [open EXCEPT ![p][t] = Len(occurrences'[p][t])]

\* Mutant of WithCurrent: whatever was opened last, finished or not.
Reopened(occs, index) == IF index # 0 THEN occs ELSE Append(occs, NewOccurrence)

\* currentOccurrence: the occurrences of a test after making sure one is open.
WithCurrent(occs, index) ==
  IF index # 0 /\ ~occs[index].terminal THEN occs ELSE Append(occs, NewOccurrence)

\* Mutant of Verdict: the action as it is.
RawAction(action) == action

Verdict(action) == CASE action \in {"pass", "bench"} -> "passed"
                     [] action = "fail"              -> "failed"
                     [] action = "skip"              -> "skipped"

AddTerminal(ev) ==
  LET p == ev.package
      t == ev.test
      before == occurrences[p][t]
      current == WithCurrent(before, open[p][t])
      index == IF current = before THEN open[p][t] ELSE Len(current)
  IN  /\ Registers(ev)
      /\ ev.action \in Terminal
      /\ occurrences' = [occurrences EXCEPT ![p][t] =
                           [current EXCEPT ![index].terminal = TRUE,
                                           ![index].status = Verdict(ev.action)]]
      /\ open' = [open EXCEPT ![p][t] = index]

\* pause, cont, attr and the like only register the test.
AddOther(ev) ==
  /\ Registers(ev)
  /\ ev.action \notin {"run"} \cup Terminal
  /\ UNCHANGED <<occurrences, open>>

Add(ev) ==
  /\ ~finished
  /\ \/ AddBuild(ev)
     \/ AddNothing(ev)
     \/ AddOutput(ev)
     \/ AddPackage(ev)
     \/ AddRun(ev)
     \/ AddTerminal(ev)
     \/ AddOther(ev)
  /\ UNCHANGED finished
-----------------------------------------------------------------------------
Mentions(line, symbol) == Contains(line, symbol)

IsBanner(line) == \E i \in 1..Len(line) - 1 : line[i] = Panic /\ line[i + 1] = Banner

\* Mutant of PackageTimedOut: the output of the package itself only.
TimedOutByItself(lines, occs) == \E i \in DOMAIN lines : IsBanner(lines[i])

\* packageTimedOut: the banner anywhere in the package, because test2json
\* attributes the single one the runtime prints to a single test.
PackageTimedOut(lines, occs) ==
  \/ \E i \in DOMAIN lines : IsBanner(lines[i])
  \/ \E t \in Tests : \E n \in DOMAIN occs[t] :
       \E i \in DOMAIN occs[t][n].lines : IsBanner(occs[t][n].lines[i])

ClassifyNonTerminal(lines, timedOut) ==
  IF timedOut THEN "timeout"
  ELSE IF \E i \in DOMAIN lines : Mentions(lines[i], Panic) THEN "error"
  ELSE "aborted"

\* Mutant of Classified: finished or not.
Reclassified(occ, timedOut) ==
  [occ EXCEPT !.status = ClassifyNonTerminal(occ.lines, timedOut)]

Classified(occ, timedOut) ==
  IF occ.terminal THEN occ
  ELSE [occ EXCEPT !.status = ClassifyNonTerminal(occ.lines, timedOut)]

\* The unterminated text of a key, as the lines Flush hands to appendLine.
Remainder(p, t) == IF partial[<<p, t>>] = <<>> THEN <<>> ELSE <<partial[<<p, t>>]>>

FlushedLines(p) == package[p].lines \o Remainder(p, NoTest)

FlushedOccurrences(p) ==
  [t \in Tests |-> WithLines(occurrences[p][t], Remainder(p, t))]

\* Tests of p known only by their unterminated output.
Unregistered(p) ==
  Filtered(Remainders, {k \in Keys : k[1] = p /\ k[2] # NoTest /\ ~Contains(testOrder[p], k[2])})

Finish ==
  /\ ~finished
  /\ finished' = TRUE
  /\ JoinerFlush
  /\ package' = [p \in Packages |-> [package[p] EXCEPT !.lines = FlushedLines(p)]]
  /\ testOrder' = [p \in Packages |->
       testOrder[p] \o [i \in DOMAIN Unregistered(p) |-> Unregistered(p)[i][2]]]
  /\ occurrences' = [p \in Packages |-> [t \in Tests |->
       LET flushed == FlushedOccurrences(p)
       IN  [n \in DOMAIN flushed[t] |->
              Classified(flushed[t][n], PackageTimedOut(FlushedLines(p), flushed))]]]
  /\ open' = [p \in Packages |-> [t \in Tests |->
       OpenedBy(open[p][t], occurrences[p][t], Remainder(p, t))]]
  /\ UNCHANGED <<packageOrder, buildOutput>>
-----------------------------------------------------------------------------
\* HasChildren and FinalStatus, the questions the report asks of the model.
IsUnder(t, parent) == IsStrictPrefix(parent, t)

HasChildren(p, t) == \E i \in DOMAIN testOrder[p] : IsUnder(testOrder[p][i], t)

FinalStatus(p, t) ==
  IF occurrences[p][t] = <<>> THEN "aborted" ELSE Last(occurrences[p][t]).status
-----------------------------------------------------------------------------
(***************************************************************************)
(* The builder on its own promises something for ANY sequence of events:    *)
(* "order-tolerant beyond the one guarantee the toolchain makes".           *)
(***************************************************************************)
BuilderNext == (\E ev \in Event : Add(ev)) \/ Finish

BuilderSpec == BuilderInit /\ [][BuilderNext]_builderVars

BuilderTypeOK ==
  /\ JoinerTypeOK
  /\ packageOrder \in Seq(Packages)
  /\ package \in [Packages -> [status : {None} \cup Terminal,
                               failedBuild : ImportPaths \cup {NoBinary},
                               lines : Seq(Seq(Symbols))]]
  /\ testOrder \in [Packages -> Seq(Tests)]
  /\ occurrences \in [Packages -> [Tests -> Seq(Occurrence)]]
  /\ open \in [Packages -> [Tests -> Nat]]
  /\ buildOutput \in [ImportPaths -> Seq(Seq(Bytes))]
  /\ finished \in BOOLEAN

\* currentOccurrence and appendLine never disagree: the occurrence a terminal
\* event closes (b.open) is the one output goes to (the last in the list).
OpenIsLast ==
  \A p \in Packages, t \in Tests : open[p][t] = Len(occurrences[p][t])

\* A test with anything recorded about it is listed exactly once, so the report,
\* which walks TestOrder, neither misses it nor repeats it.
ListedOnce ==
  \A p \in Packages :
    /\ \A i, j \in DOMAIN testOrder[p] : testOrder[p][i] = testOrder[p][j] => i = j
    /\ \A t \in Tests : occurrences[p][t] # <<>> => Contains(testOrder[p], t)
    /\ testOrder[p] # <<>> => Contains(packageOrder, p)

\* Whatever events come, in whatever order, the indices the run model is read
\* through still agree with what it holds.
IndicesAgree == OpenIsLast /\ ListedOnce

\* No event takes output back: an occurrence keeps its place, its lines so far and
\* the status a terminal event gave it.
NothingIsLost ==
  [][\A p \in Packages, t \in Tests : \A n \in DOMAIN occurrences[p][t] :
       /\ n \in DOMAIN occurrences'[p][t]
       /\ IsPrefix(occurrences[p][t][n].lines, occurrences'[p][t][n].lines)
       /\ occurrences[p][t][n].terminal =>
            /\ occurrences'[p][t][n].terminal
            /\ occurrences'[p][t][n].status = occurrences[p][t][n].status]_builderVars

\* The builder implements the ledger of executions: an occurrence with no status
\* yet is a running entry.  Under any events none is overwritten, decided twice or
\* dropped, and one -timeout is the outcome of all it cut short in a package.
Entry(occ) == IF occ.status = None THEN "running" ELSE occ.status

Ledger == INSTANCE TestLedger WITH
  ledger <- [p \in Packages |-> [t \in Tests |->
               [n \in DOMAIN occurrences[p][t] |-> Entry(occurrences[p][t][n])]]],
  closed <- finished

ImplementsLedger == Ledger!LedgerSpec
=============================================================================
