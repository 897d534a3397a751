-------------------------------- MODULE Config --------------------------------
(***************************************************************************)
(* internal/config, cidetect and gitdetect: what an invocation makes of its  *)
(* flags, its environment, its CI provider and the working copy.  A string is *)
(* a sequence of tokens, so that it can be put together; <<>> is the empty    *)
(* one, which is the same as none.                                          *)
(***************************************************************************)
EXTENDS Integers, Sequences, SequencesExt

CONSTANTS Numerals,    \* the strings strconv.Atoi reads
          Affirmations \* the spellings of true boolOr knows

Unset == <<>>

Get(values, name) == IF name \in DOMAIN values THEN values[name] ELSE Unset

Given(values) == {n \in DOMAIN values : values[n] # Unset}

Pick(values) == IF Given(values) = {} THEN Unset ELSE values[Min(Given(values))]

IntOrNil(raw) == IF raw \in Numerals THEN raw ELSE Unset

BoolOr(raw, default) == IF raw = Unset THEN default ELSE raw \in Affirmations

\* An id of the provider with the provider's prefix; none without one.
Prefixed(prefix, id) == IF id = Unset THEN Unset ELSE <<prefix>> \o id
-----------------------------------------------------------------------------
(***************************************************************************)
(* cidetect: one table per provider, the first provider that shows itself.  *)
(***************************************************************************)
NoCI == [provider |-> Unset, buildNumber |-> Unset, runURL |-> Unset, prNumber |-> Unset,
         branch |-> Unset, commit |-> Unset, runID |-> Unset]

Provider(env, name, number, url, branch, commit, runID) ==
  [NoCI EXCEPT !.provider = <<name>>, !.buildNumber = Get(env, number), !.runURL = url,
               !.branch = branch, !.commit = Get(env, commit), !.runID = runID]

\* Mutant of GithubRunID: every attempt of a run is the same launch.
GithubRun(env) == Prefixed("gh-", Get(env, "GITHUB_RUN_ID"))

GithubRunID(env) ==
  IF Get(env, "GITHUB_RUN_ID") = Unset THEN Unset
  ELSE Prefixed("gh-", Get(env, "GITHUB_RUN_ID")) \o <<"-">>
         \o Pick(<<Get(env, "GITHUB_RUN_ATTEMPT"), <<"1">>>>)

GithubURL(env) ==
  LET repo == Get(env, "GITHUB_REPOSITORY")
      run == Get(env, "GITHUB_RUN_ID")
  IN  IF Unset \in {repo, run} THEN Unset
      ELSE <<"https://github.com/">> \o repo \o <<"/actions/runs/">> \o run

\* refs/pull/<number>/merge, its parts being the tokens.
GithubPR(env) ==
  LET ref == Get(env, "GITHUB_REF")
  IN  IF IsPrefix(<<"refs", "pull">>, ref) /\ Len(ref) > 2 THEN IntOrNil(<<ref[3]>>) ELSE Unset

\* Mutant of GithubBranch: the merge ref of a pull request.
GithubRef(env) == Pick(<<Get(env, "GITHUB_REF_NAME"), Get(env, "GITHUB_HEAD_REF")>>)

GithubBranch(env) == Pick(<<Get(env, "GITHUB_HEAD_REF"), Get(env, "GITHUB_REF_NAME")>>)

Github(env) ==
  [Provider(env, "github", "GITHUB_RUN_NUMBER", GithubURL(env), GithubBranch(env),
            "GITHUB_SHA", GithubRunID(env)) EXCEPT !.prNumber = GithubPR(env)]

Gitlab(env) ==
  [Provider(env, "gitlab", "CI_PIPELINE_IID", Get(env, "CI_PIPELINE_URL"),
            Get(env, "CI_COMMIT_REF_NAME"), "CI_COMMIT_SHA",
            Prefixed("gl-", Get(env, "CI_PIPELINE_ID")))
     EXCEPT !.prNumber = IntOrNil(Get(env, "CI_MERGE_REQUEST_IID"))]

Circleci(env) ==
  Provider(env, "circleci", "CIRCLE_BUILD_NUM", Get(env, "CIRCLE_BUILD_URL"),
           Get(env, "CIRCLE_BRANCH"), "CIRCLE_SHA1",
           Prefixed("circle-", Get(env, "CIRCLE_WORKFLOW_ID")))

Jenkins(env) ==
  Provider(env, "jenkins", "BUILD_NUMBER", Get(env, "BUILD_URL"), Get(env, "GIT_BRANCH"),
           "GIT_COMMIT", Prefixed("jenkins-", Get(env, "BUILD_TAG")))

DetectCI(env) ==
  CASE Get(env, "GITHUB_ACTIONS") = <<"true">> -> Github(env)
    [] Get(env, "GITHUB_ACTIONS") # <<"true">> /\ Get(env, "GITLAB_CI") = <<"true">> -> Gitlab(env)
    [] OTHER -> IF Get(env, "CIRCLECI") = <<"true">> THEN Circleci(env)
                ELSE IF Get(env, "JENKINS_URL") # Unset THEN Jenkins(env) ELSE NoCI
-----------------------------------------------------------------------------
(***************************************************************************)
(* gitdetect: git says the branch and the commit, or nothing when it fails.  *)
(***************************************************************************)
\* Mutant of DetectGit: a detached HEAD is taken for a branch.
RawGit(git) == git

DetectGit(git) == IF git.branch = <<"HEAD">> THEN [git EXCEPT !.branch = Unset] ELSE git

NoGit == [branch |-> Unset, commit |-> Unset]

\* Mutant of ConsultGit: git is only asked when the branch is missing.
AskForBranch(branch, commit, git) == IF branch = Unset THEN DetectGit(git) ELSE NoGit

\* git is asked when nothing better reported a branch, and then for the commit.
ConsultGit(branch, commit, git) ==
  LET first == IF branch = Unset THEN DetectGit(git) ELSE NoGit
  IN  IF commit = Unset /\ first.commit = Unset
      THEN [first EXCEPT !.commit = DetectGit(git).commit]
      ELSE first
-----------------------------------------------------------------------------
\* Flag, then QUALFLARE_ variable.
Told(flags, env, name) == Pick(<<Get(flags, name), Get(env, "QUALFLARE_" \o name)>>)

Resolve(flags, env, git, fresh) ==
  LET ci == DetectCI(env)
      told(name) == Told(flags, env, name)
      asked == ConsultGit(Pick(<<told("BRANCH"), ci.branch>>), Pick(<<told("COMMIT"), ci.commit>>), git)
  IN  [outputDir |-> Pick(<<told("OUTPUT_DIR"), <<"qualflare-results">>>>),
       environment |-> Pick(<<told("ENVIRONMENT"), <<"development">>>>),
       language |-> Pick(<<told("LANGUAGE"), <<"en-US">>>>),
       framework |-> Pick(<<told("FRAMEWORK"), <<"golang">>>>),
       platform |-> Pick(<<told("PLATFORM"), <<"api">>>>),
       branch |-> Pick(<<told("BRANCH"), ci.branch, asked.branch>>),
       commit |-> Pick(<<told("COMMIT"), ci.commit, asked.commit>>),
       enabled |-> BoolOr(told("ENABLED"), TRUE),
       repeat |-> Pick(<<told("REPEAT"), <<"collapse">>>>),
       runID |-> Pick(<<told("RUN_ID"), ci.runID, fresh>>),
       milestone |-> IntOrNil(told("MILESTONE")),
       shardIndex |-> IntOrNil(told("SHARD_INDEX")),
       ci |-> ci]
=============================================================================
