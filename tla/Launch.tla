-------------------------------- MODULE Launch --------------------------------
(***************************************************************************)
(* cmd/qualflare-go run, wrap and write: several invocations around one       *)
(* directory of reports -- shards, retries and reruns, on machines or in       *)
(* containers whose process ids repeat.  What the invocations are is the       *)
(* `situation', fixed at the start: mode ("wrap" or "read", a pipe or files), *)
(* argv, flags, env, git, pid, and what they really are: launch, and branch,  *)
(* the branch or the tag that is built.                                      *)
(***************************************************************************)
EXTENDS Config, Gate

CONSTANTS Situations,  \* the sequences of invocations considered
          MaxCalls,    \* bound on the metadata calls of a test process
          Values       \* what QUALFLARE_GO may be after a t.Setenv or its cleanup

ASSUME LaunchAssumption == MaxCalls \in Nat /\ Values \subseteq STRING

\* What follows the `--' is not empty, and a `go' in front has its command behind it;
\* git answers with a branch and a commit, either of which may be empty.
ASSUME SituationsAssumption ==
  \A group \in Situations : \A s \in Range(group) :
    /\ s.argv \in Seq(STRING) \ {<<>>}
    /\ s.argv[1] = "go" /\ Len(s.argv) > 1 => s.argv[2] # "-args"
    /\ s.git = [branch |-> s.git.branch, commit |-> s.git.commit]

-----------------------------------------------------------------------------
(***************************************************************************)
(* What the world outside guarantees of a situation: the variables that the  *)
(* providers document.                                                      *)
(***************************************************************************)
Marker == [github |-> "GITHUB_ACTIONS", gitlab |-> "GITLAB_CI", circle |-> "CIRCLECI",
           jenkins |-> "JENKINS_URL"]

BuildID == [github |-> "GITHUB_RUN_ID", gitlab |-> "CI_PIPELINE_ID",
            circle |-> "CIRCLE_WORKFLOW_ID", jenkins |-> "BUILD_TAG"]

RunsOn(s) == {p \in DOMAIN Marker : Get(s.env, Marker[p]) # Unset}

\* The user names the launch, by one word.
ToldBy(s) ==
  /\ Told(s.flags, s.env, "RUN_ID") = <<s.launch[2]>>
  /\ s.launch = <<"told", s.launch[2]>>

\* Nobody does.
ByHand(s) ==
  /\ Told(s.flags, s.env, "RUN_ID") = Unset /\ RunsOn(s) = {}
  /\ s.launch = <<"local", s.launch[2]>>

\* One provider does; GitHub numbers the attempts, but its first may have no number.
BuiltBy(s, p) ==
  /\ Told(s.flags, s.env, "RUN_ID") = Unset /\ RunsOn(s) = {p}
  /\ p # "jenkins" => Get(s.env, Marker[p]) = <<"true">>
  /\ Get(s.env, BuildID[p]) = <<s.launch[2]>>
  /\ IF p # "github" THEN s.launch = <<p, s.launch[2]>>
     ELSE /\ s.launch = <<p, s.launch[2], s.launch[3]>>
          /\ Get(s.env, "GITHUB_RUN_ATTEMPT") \in
               {<<s.launch[3]>>} \cup (IF s.launch[3] = "1" THEN {Unset} ELSE {})

ASSUME LaunchesAssumption ==
  \A group \in Situations : \A i \in DOMAIN group :
    \/ ToldBy(group[i]) \/ \E p \in DOMAIN Marker : BuiltBy(group[i], p)
    \/ ByHand(group[i]) /\ \A j \in DOMAIN group : j # i => group[j].launch # group[i].launch

\* How a Jenkins job that checks out a remote branch names it.
RemoteBranch(s) == <<"origin/">> \o s.branch

\* Whoever names a branch names that of the build, but for a detached checkout, the
\* merge ref of a pull request, and Jenkins, which may name that of the remote.
ASSUME BranchesAssumption ==
  \A group \in Situations : \A s \in Range(group) :
    LET known == {Unset, s.branch}
    IN  /\ s.git.branch \in known \cup {<<"HEAD">>}
        /\ Get(s.env, "GITHUB_HEAD_REF") \in known
        /\ Get(s.env, "GITHUB_HEAD_REF") = Unset => Get(s.env, "GITHUB_REF_NAME") \in known
        /\ Get(s.env, "CI_COMMIT_REF_NAME") \in known /\ Get(s.env, "CIRCLE_BRANCH") \in known
        /\ Get(s.env, "GIT_BRANCH") \in known \cup {RemoteBranch(s)}
-----------------------------------------------------------------------------
VARIABLES
  situation,
  pc,       \* "idle", "testing", "collecting", "writing", "written" or "exited"
  cfg,      \* the resolved configurations of those that started
  test,     \* the test process of those that are testing
  verdict,  \* the exit status of `go test`
  exit,     \* their own
  files     \* [path -> the invocations whose bytes are in it]

vars == <<situation, pc, cfg, test, verdict, exit, files>>

Invocations == DOMAIN situation

None == "none"
NoCfg == [runID |-> Unset]
NoTest == TestProcess(None, FALSE)

Init ==
  /\ situation \in Situations
  /\ pc = [i \in Invocations |-> "idle"]
  /\ cfg = [i \in Invocations |-> NoCfg]
  /\ test = [i \in Invocations |-> NoTest]
  /\ verdict = [i \in Invocations |-> None]
  /\ exit = [i \in Invocations |-> None]
  /\ files = <<>>
-----------------------------------------------------------------------------
\* goTestArgv.  A bare `go` is sliced beyond its end.
Shorthand(rest) == IF rest[1] # "go" THEN <<"go", "test">> \o rest ELSE rest

Asked(argv) == {"-json", "--json"} \cap ToSet(argv) # {}

Panics(rest) == ~Asked(rest) /\ Len(Shorthand(rest)) < 2

\* Mutant of GoTestArgv: the flag goes last.
JsonLast(rest) ==
  LET argv == Shorthand(rest) IN IF Asked(argv) THEN argv ELSE Append(argv, "-json")

GoTestArgv(rest) ==
  LET argv == Shorthand(rest) IN IF Asked(argv) THEN argv ELSE InsertAt(argv, 3, "-json")

\* What `go test` itself reads as flags: the rest is for the test binary.
GoTestReads(argv) ==
  IF Contains(argv, "-args") THEN SubSeq(argv, 1, SelectInSeq(argv, LAMBDA a : a = "-args") - 1)
  ELSE argv

\* newRunID: the process and the time, so never the same twice.
NewRunID(i) == <<"local-", i>>

Exit(i, status) == /\ pc' = [pc EXCEPT ![i] = "exited"]
                   /\ exit' = [exit EXCEPT ![i] = status]

\* run: resolve, and either do nothing, read a stream or start `go test`.
Starts(i) ==
  LET s == situation[i]
      c == Resolve(s.flags, s.env, s.git, NewRunID(i))
      tests == c.enabled /\ s.mode = "wrap"
      variable == Get(s.env, "QUALFLARE_GO")
  IN  /\ pc[i] = "idle"
      /\ cfg' = [cfg EXCEPT ![i] = c]
      /\ IF ~c.enabled THEN Exit(i, "zero") /\ UNCHANGED test
         ELSE IF tests /\ Panics(s.argv) THEN Exit(i, "nonzero") /\ UNCHANGED test
         ELSE /\ pc' = [pc EXCEPT ![i] = IF tests THEN "testing" ELSE "collecting"]
              /\ test' = IF ~tests THEN test
                         ELSE [test EXCEPT ![i] =
                           TestProcess(IF variable = Unset THEN None ELSE variable[1],
                                       Asked(GoTestReads(GoTestArgv(s.argv))))]
              /\ UNCHANGED exit
      /\ UNCHANGED <<situation, verdict, files>>
-----------------------------------------------------------------------------
Calls(i) ==
  /\ pc[i] = "testing" /\ test[i].calls < MaxCalls
  /\ \E fits \in BOOLEAN : test' = [test EXCEPT ![i] = Call(@, fits)]
  /\ UNCHANGED <<situation, pc, cfg, verdict, exit, files>>

\* A test changes its process's environment, before the first metadata call or after.
Sets(i, value) ==
  /\ pc[i] = "testing"
  /\ test' = [test EXCEPT ![i] = WithVariable(@, value)]
  /\ UNCHANGED <<situation, pc, cfg, verdict, exit, files>>

TestsEnd(i, status) ==
  /\ pc[i] = "testing"
  /\ verdict' = [verdict EXCEPT ![i] = status]
  /\ pc' = [pc EXCEPT ![i] = "collecting"]
  /\ test' = [test EXCEPT ![i] = NoTest]
  /\ UNCHANGED <<situation, cfg, exit, files>>
-----------------------------------------------------------------------------
\* Mutant of Path: one name for the reports of a launch.
PathOfLaunch(c, pid) == <<c.outputDir, c.runID>>

Path(c, pid) == <<c.outputDir, pid, c.runID>>

PathOf(i) == Path(cfg[i], situation[i].pid)

Within(path) == IF path \in DOMAIN files THEN files[path] ELSE {}

Truncated(path) ==
  [p \in DOMAIN files \cup {path} |-> IF p = path THEN {} ELSE files[p]]

\* os.WriteFile truncates what is there, and writes afterwards.
CreateFile(i) ==
  /\ pc[i] = "collecting"
  /\ files' = Truncated(PathOf(i))
  /\ pc' = [pc EXCEPT ![i] = "writing"]
  /\ UNCHANGED <<situation, cfg, test, verdict, exit>>

FillFile(i) ==
  /\ pc[i] = "writing"
  /\ files' = [files EXCEPT ![PathOf(i)] = @ \cup {i}]
  /\ pc' = [pc EXCEPT ![i] = "written"]
  /\ UNCHANGED <<situation, cfg, test, verdict, exit>>

WriteFails(i) ==
  /\ pc[i] \in {"collecting", "writing"}
  /\ Exit(i, "nonzero")
  /\ UNCHANGED <<situation, cfg, test, verdict, files>>

\* Mutant of Status: the report is what counts.
Reported(i) == "zero"

\* wrap passes the verdict on, the other modes have none.
Status(i) == IF situation[i].mode = "wrap" THEN verdict[i] ELSE "zero"

Exits(i) ==
  /\ pc[i] = "written"
  /\ Exit(i, Status(i))
  /\ UNCHANGED <<situation, cfg, test, verdict, files>>

Killed(i) ==
  /\ pc[i] \notin {"idle", "exited"}
  /\ Exit(i, "signaled")
  /\ test' = [test EXCEPT ![i] = NoTest]
  /\ UNCHANGED <<situation, cfg, verdict, files>>

Next ==
  \E i \in Invocations :
    \/ Starts(i) \/ Calls(i) \/ CreateFile(i) \/ FillFile(i)
    \/ WriteFails(i) \/ Exits(i) \/ Killed(i)
    \/ \E value \in Values : Sets(i, value)
    \/ \E status \in {"zero", "nonzero"} : TestsEnd(i, status)

Spec == Init /\ [][Next]_vars
-----------------------------------------------------------------------------
Started == {i \in Invocations : pc[i] # "idle"}

\* Invocations of the same build have the same run id although nothing
\* coordinates them, and those of different builds, attempts or providers do not:
\* reports are grouped into the launches they belong to.
RunIdsAgree ==
  \A i, j \in Started :
    cfg[i].runID = cfg[j].runID <=> situation[i].launch = situation[j].launch

\* A branch that is reported is the one that was asked for or the one the build
\* is of, on Jenkins alone perhaps as the remote's; a detached checkout or a merge
\* ref is none.
BranchesTrue ==
  \A i \in Started :
    LET s == situation[i]
    IN  \/ cfg[i].branch \in {Unset, s.branch, Told(s.flags, s.env, "BRANCH")}
        \/ DetectCI(s.env).provider = <<"jenkins">> /\ cfg[i].branch = RemoteBranch(s)

\* Asking git only when it is needed leaves the outcome as if it were always asked.
LazyIsEager ==
  \A i \in Started :
    LET s == situation[i]
        ci == DetectCI(s.env)
    IN  /\ cfg[i].branch = Pick(<<Told(s.flags, s.env, "BRANCH"), ci.branch, DetectGit(s.git).branch>>)
        /\ cfg[i].commit = Pick(<<Told(s.flags, s.env, "COMMIT"), ci.commit, DetectGit(s.git).commit>>)

\* Whatever a test does to its environment, the metadata of a process is emitted as
\* a whole or not at all, but for the messages that do not fit on a line.
AllOrNothing == \A i \in Started : test[i].emitted \in {0, test[i].fitting}

\* A wrapper that was not told otherwise runs `go test' so that the library speaks:
\* every message of its tests that fits on a line is emitted, wherever -json had to
\* be put and whatever they set afterwards.  Only a test that switched the library
\* off before the first call silences it, and then all tests of the process, even
\* when it has put the variable back.
MetadataArrives ==
  \A i \in Started :
    LET s == situation[i]
        left == Get(s.env, "QUALFLARE_GO") = Unset
        misplaced == Asked(s.argv) /\ ~Asked(GoTestReads(s.argv))
    IN  left /\ ~misplaced =>
          test[i].emitted = IF test[i].early \in Off THEN 0 ELSE test[i].fitting

Twins(i, j) ==
  /\ i # j
  /\ situation[i].pid = situation[j].pid /\ situation[i].launch = situation[j].launch

\* An invocation that ends well has left its whole report and nothing else in its
\* file, unless one of the same launch has the same process id; and one that
\* runs `go test' claims no success that it did not see.
ReportsLand ==
  \A i \in Invocations : pc[i] = "exited" /\ exit[i] = "zero" /\ cfg[i].enabled =>
    /\ Within(PathOf(i)) = {i} \/ \E j \in Started : Twins(i, j)
    /\ situation[i].mode = "wrap" => verdict[i] = "zero"

\* No report is changed by an invocation of another launch, nor by one of another
\* process of the same launch, even where process ids repeat and writers overlap.
ReportsKept ==
  [][\A path \in DOMAIN files : files[path] # {} =>
       \/ files'[path] = files[path]
       \/ \E i \in Started, j \in files[path] : Twins(i, j) /\ pc'[i] # pc[i]]_vars

\* The wrapper is a drop-in replacement for `go test`: it is green only when the
\* tests were run and passed.
VerdictPassedThrough ==
  \A i \in Invocations : situation[i].mode = "wrap" /\ exit[i] = "zero" => verdict[i] = "zero"
=============================================================================
