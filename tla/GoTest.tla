------------------------------- MODULE GoTest -------------------------------
(***************************************************************************)
(* The environment: `go test -json` as the reporter relies on it.  Each     *)
(* package is a process that runs its tests command.count times; subtests run       *)
(* inside their parent and any two siblings may overlap (t.Parallel).       *)
(* A process can fail to build, die with tests still running, or have its   *)
(* TestMain fail.  `executions` is the ground truth the report is compared  *)
(* with: what each execution of a test really did.                         *)
(***************************************************************************)
EXTENDS Integers, Sequences, FiniteSets, SequencesExt

CONSTANTS Packages, Tests, NoTest,
          Commands,  \* what may be run: packages, tests, -count, -p, how often (files),
                     \* and text, the bound on the output of one execution
          NL, Panic, Banner

VARIABLES command,     \* the one of Commands that is run
          process,     \* [Packages -> state of the package's test process]
          iteration,   \* [Packages -> the -count iteration it is in]
          executions,  \* [Packages -> [Tests -> what its executions did, in order]]
          death,       \* [Packages -> [files -> why the process died with tests running]]
          red,         \* packages whose "fail" event is in the stream
          childExit,   \* exit status of go test, "none" while it runs
          file         \* which stream is being read

Alive == [why |-> "none", test |-> NoTest]

GoTestInit ==
  /\ command \in Commands
  /\ process = [p \in Packages |-> IF p \in command.packages THEN "waiting" ELSE "absent"]
  /\ iteration = [p \in Packages |-> 1]
  /\ executions = [p \in Packages |-> [t \in Tests |-> <<>>]]
  /\ death = [p \in Packages |-> [f \in 1..command.files |-> Alive]]
  /\ red = {}
  /\ childExit = "none"
  /\ file = 1

\* Running in this stream: an earlier one may have been cut short.
Running(p, t) ==
  /\ executions[p][t] # <<>>
  /\ Last(executions[p][t]).outcome = "running"
  /\ Last(executions[p][t]).iteration = iteration[p]

Above(t) == {u \in Tests : IsStrictPrefix(u, t)}

Below(t) == {u \in Tests : IsStrictPrefix(t, u)}

Live(p) == process[p] = "running" /\ childExit = "none"

\* The process starts, cannot be built (Go 1.24 and later say so in the stream,
\* earlier ones do not), or has no test files.
Begin(p, outcome) ==
  /\ process[p] = "waiting" /\ childExit = "none"
  /\ Cardinality({q \in Packages : process[q] \notin {"absent", "waiting", "unbuilt", "reported"}})
       < command.parallel
  /\ process' = [process EXCEPT ![p] = outcome]
  /\ UNCHANGED <<iteration, executions, death, red, childExit, file, command>>

StartTest(p, t) ==
  /\ Live(p) /\ t \in command.tests
  /\ \A u \in Above(t) : Running(p, u)
  /\ executions[p][t] # <<>> => Last(executions[p][t]).iteration < iteration[p]
  /\ executions' = [executions EXCEPT ![p][t] =
       Append(@, [outcome |-> "running", failed |-> FALSE, text |-> <<>>,
                  iteration |-> iteration[p]])]
  /\ UNCHANGED <<process, iteration, death, red, childExit, file, command>>

Write(texts, p, t, chunk) == [texts EXCEPT ![p][t][Len(texts[p][t])].text = @ \o chunk]

Log(p, t, chunk) ==
  /\ Live(p) /\ Running(p, t)
  /\ Len(Last(executions[p][t]).text) + Len(chunk) <= command.text
  /\ executions' = Write(executions, p, t, chunk)
  /\ UNCHANGED <<process, iteration, death, red, childExit, file, command>>

\* t.Fail marks the test and every test it runs in.
FailTest(p, t) ==
  LET marked(runs) == [runs EXCEPT ![Len(runs)].failed = TRUE]
  IN  /\ Live(p) /\ Running(p, t)
      /\ ~Last(executions[p][t]).failed
      /\ executions' = [executions EXCEPT ![p] = [u \in Tests |->
           IF u \in Above(t) \cup {t} THEN marked(@[u]) ELSE @[u]]]
      /\ UNCHANGED <<process, iteration, death, red, childExit, file, command>>

\* The result line has ended any open line by the time the event is sent.
EndTest(p, t, action) ==
  LET this == Last(executions[p][t])
  IN  /\ Live(p) /\ Running(p, t)
      /\ \A u \in Below(t) : ~Running(p, u)
      /\ this.text # <<>> => Last(this.text) = NL
      /\ action \in (IF this.failed THEN {"fail"} ELSE {"pass", "skip"})
      /\ executions' = [executions EXCEPT ![p][t][Len(executions[p][t])].outcome = action]
      /\ UNCHANGED <<process, iteration, death, red, childExit, file, command>>

NextIteration(p) ==
  /\ Live(p) /\ iteration[p] < command.count * file
  /\ \A t \in Tests : ~Running(p, t)
  /\ iteration' = [iteration EXCEPT ![p] = @ + 1]
  /\ UNCHANGED <<process, executions, death, red, childExit, file, command>>

\* The process ends with its tests finished; TestMain may still make it fail.
EndProcess(p) ==
  /\ Live(p) /\ iteration[p] = command.count * file
  /\ \A t \in Tests : ~Running(p, t)
  /\ \/ process' = [process EXCEPT ![p] = "failing"]
     \/ /\ \A t \in Tests : \A n \in DOMAIN executions[p][t] :
             executions[p][t][n].iteration > command.count * (file - 1) =>
               executions[p][t][n].outcome # "fail"
        /\ process' = [process EXCEPT ![p] = "passing"]
  /\ UNCHANGED <<iteration, executions, death, red, childExit, file, command>>

\* os.Exit, a panic outside the test goroutines or the -timeout alarm takes the
\* process away from the tests that run; the last words go to one of them.
LastWords(why) == CASE why = "exit"    -> <<>>
                    [] why = "panic"   -> <<Panic, NL>>
                    [] why = "timeout" -> <<Panic, Banner, NL>>

Die(p, t, why) ==
  /\ Live(p) /\ Running(p, t)
  /\ process' = [process EXCEPT ![p] = "failing"]
  /\ death' = [death EXCEPT ![p][file] = [why |-> why, test |-> t]]
  /\ executions' = Write(executions, p, t, LastWords(why))
  /\ UNCHANGED <<iteration, red, childExit, file, command>>

\* go test reports the package.
ReportPackage(p, action) ==
  /\ childExit = "none"
  /\ process[p] \in (IF action = "fail" THEN {"failing", "broken"}
                     ELSE IF action = "pass" THEN {"passing"} ELSE {"no tests"})
  /\ process' = [process EXCEPT ![p] = "reported"]
  /\ red' = IF action = "fail" THEN red \cup {p} ELSE red
  /\ UNCHANGED <<iteration, executions, death, childExit, file, command>>

\* go test exits: in its own time, or killed with the stream cut short.
Exit(status) ==
  /\ childExit = "none"
  /\ \/ /\ \A p \in command.packages : process[p] \in {"reported", "unbuilt"}
        /\ status = IF red # {} \/ \E p \in Packages : process[p] = "unbuilt"
                    THEN "nonzero" ELSE "zero"
     \/ status = "killed"
  /\ childExit' = status
  /\ UNCHANGED <<process, iteration, executions, death, red, file, command>>

\* The next recorded stream: the same packages, run again.
NextFile ==
  /\ childExit # "none" /\ file < command.files
  /\ file' = file + 1
  /\ childExit' = "none"
  /\ process' = [p \in Packages |-> IF p \in command.packages THEN "waiting" ELSE "absent"]
  /\ iteration' = [p \in Packages |-> command.count * file + 1]
  /\ UNCHANGED <<executions, death, red, command>>
=============================================================================
