------------------------------- MODULE MCLaunch -------------------------------
(***************************************************************************)
(* Pairs and triples of invocations on the CI providers and by hand, with    *)
(* the environments those set.                                              *)
(***************************************************************************)
EXTENDS Launch, TLC

MCNumerals == {<<"1">>, <<"7">>}

MCAffirmations == {<<a>> : a \in {"1", "true", "yes", "on", "TRUE", "True", "On", "Yes"}}

Main == <<"main">>
Fix == <<"fix">>

Checkout(branch) == [branch |-> branch, commit |-> <<"c1">>]
Detached == Checkout(<<"HEAD">>)
NoRepository == [branch |-> Unset, commit |-> Unset]

GithubPush(run, attempt) ==
  [GITHUB_ACTIONS |-> <<"true">>, GITHUB_RUN_ID |-> <<run>>, GITHUB_RUN_ATTEMPT |-> attempt,
   GITHUB_REPOSITORY |-> <<"q">>, GITHUB_REF |-> <<"refs", "heads", "main">>,
   GITHUB_REF_NAME |-> Main, GITHUB_SHA |-> <<"c1">>]

GithubPullRequest(run, attempt) ==
  [GITHUB_HEAD_REF |-> Fix, GITHUB_REF_NAME |-> <<"7", "/merge">>,
   GITHUB_REF |-> <<"refs", "pull", "7", "merge">>] @@ GithubPush(run, attempt)

GitlabPipeline(id) ==
  [GITLAB_CI |-> <<"true">>, CI_PIPELINE_ID |-> <<id>>, CI_MERGE_REQUEST_IID |-> <<"x">>]

CircleWorkflow(id) ==
  [CIRCLECI |-> <<"true">>, CIRCLE_WORKFLOW_ID |-> <<id>>, CIRCLE_BRANCH |-> Main]

JenkinsBuild(tag) ==
  [JENKINS_URL |-> <<"ci">>, BUILD_TAG |-> <<tag>>, GIT_COMMIT |-> <<"c1">>,
   GIT_BRANCH |-> <<"origin/", "main">>]

By(pid, env, git, launch, branch) ==
  [pid |-> pid, env |-> env, git |-> git, launch |-> launch, branch |-> branch,
   flags |-> <<>>, mode |-> "wrap", argv |-> <<"./...">>]

OnGithub(pid, run, attempt) ==
  By(pid, GithubPush(run, <<attempt>>), Detached, <<"github", run, attempt>>, Main)

OnGitlab(pid, id) == By(pid, GitlabPipeline(id), Checkout(Main), <<"gitlab", id>>, Main)

Local(pid, name) == By(pid, <<>>, Checkout(Fix), <<"local", name>>, Fix)

Reading(s) == [s EXCEPT !.mode = "read"]

Named(s, id) == [s EXCEPT !.flags = [RUN_ID |-> <<id>>], !.launch = <<"told", id>>]

Groups ==
  { <<OnGithub(4, "7", "1"), OnGithub(5, "7", "1")>>,
    <<OnGithub(4, "7", "1"), OnGithub(4, "7", "1")>>,
    \* A rerun, whose first attempt may not have been numbered.
    <<[OnGithub(4, "7", "1") EXCEPT !.env = GithubPush("7", Unset)], OnGithub(4, "7", "2")>>,
    <<Reading(OnGithub(4, "7", "1")), Reading(OnGithub(5, "7", "1")), Reading(OnGithub(4, "7", "2"))>>,
    <<By(4, GithubPullRequest("7", <<"1">>), Detached, <<"github", "7", "1">>, Fix), OnGitlab(4, "7")>>,
    <<OnGitlab(4, "7"), Reading([OnGitlab(5, "7") EXCEPT !.git = Detached])>>,
    <<By(4, CircleWorkflow("7"), Detached, <<"circle", "7">>, Main),
      By(5, CircleWorkflow("7"), NoRepository, <<"circle", "7">>, Main)>>,
    <<By(4, [JenkinsBuild("7") EXCEPT !.GIT_BRANCH = Unset], Detached, <<"jenkins", "7">>, Main),
      [By(4, JenkinsBuild("1"), Detached, <<"jenkins", "1">>, Main) EXCEPT
         !.flags = [BRANCH |-> Fix]]>>,
    <<Local(4, "a"), Local(4, "b")>>,
    <<Reading(Named(Local(4, "a"), "r")), Reading(Named(Local(5, "b"), "r")),
      Reading(Local(4, "c"))>> }

\* The first invocation of a group with other arguments or another environment.
With(group, argv, env) == [group EXCEPT ![1].argv = argv, ![1].env = env @@ @]

Argvs ==
  {<<"go", "test", "./...", "-args", "-x">>, <<"go", "test", "--json", "./...">>, <<"go">>,
   <<"go", "test", "./...", "-args", "-json">>}

Environments ==
  {[QUALFLARE_GO |-> <<"1">>], [QUALFLARE_GO |-> <<"0">>], [QUALFLARE_GO |-> <<"x">>],
   [QUALFLARE_BRANCH |-> Main], [QUALFLARE_ENABLED |-> <<"YES">>], [QUALFLARE_SHARD_INDEX |-> <<"1">>]}

MCSituations ==
  Groups
    \cup {With(g, argv, <<>>) : g \in {g \in Groups : Len(g) = 2}, argv \in Argvs}
    \cup {With(g, <<"./...">>, env) : g \in Groups, env \in Environments}
=============================================================================
