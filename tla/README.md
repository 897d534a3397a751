# A verification of qualflare-go

qualflare-go turns the stream of `go test -json` into a test report. A library,
imported by the tests, adds metadata to that stream through `t.Log`; a command,
`qualflare-go`, runs or reads `go test`, rebuilds what ran from the events, and
writes one JSON report. This directory models that program in TLA+, checks the
models with TLC on small instances and proves the most important of their
properties with TLAPS for every instance.

Paths below are relative to the repository.

## 1. The system

### 1.1 Inventory

| Part | Code | State | Operations | What makes it correct |
|---|---|---|---|---|
| Stream decoder | `internal/stream/decode.go` | reader position, the line being assembled, counters, preamble | `Next`, `readLine`, `decode`, `recordUnparsed` | every event under the line cap is delivered once and in order; whatever was skipped is counted; text that is not JSON is kept up to a bound; reading ends |
| Output joiner | `internal/stream/joiner.go` | a half line per (package, test), the order of first appearance | `Add`, `Flush` | every byte comes back once, under its own key, in order, cut at newlines only |
| Events | `internal/stream/event.go` | none | `IsTerminal`, known actions | - |
| Run model | `internal/model/model.go` | packages and tests in order, occurrences of each test, the open occurrence, build output | `Add` per action, `Finish`, `HasChildren`, `FinalStatus` | an execution is never overwritten, merged or lost; unfinished ones are told apart |
| Report builder | `internal/build` | none (a function of the run model) | `Cases`, `Suite`, `Collect`, the backstop | the report is never greener than the run and makes up nothing |
| Wire contract | `internal/wire/wire.go` | none | `TrimAttempts`, sanitising, JSON | limits applied where the reader expects them |
| Metadata replay | `internal/replay/replay.go` | steps, the stack of open steps, fields, warnings | one case per kind of message | steps nest as they ran, fields stay within their caps |
| Metadata library | `qualflare.go`, `step.go`, `attach.go`, `emit.go` | the open steps are Go stack frames | `Step`, `Label` ... `Attach`, `emit` | nothing changes a test's outcome; every step that begins also ends |
| Library gate | `enabled.go` | one cached bit per process | `Enabled` | a process emits all of its metadata or none, and all of it under the wrapper |
| Sentinel format | `internal/sentinel/sentinel.go` | none | `Encode`, `Decode` | messages survive their line; other text is never taken for one |
| Runner | `internal/runner/runner.go` | the child, two pipes, the captured stderr | `Run` | the whole output is read, nobody blocks for ever |
| Command | `cmd/qualflare-go/main.go` | the report file | `run`, `goTestArgv`, `wrap`, `fromPipe`, `fromFiles`, `write` | the child's verdict is passed on; no report replaces another |
| Configuration | `internal/config` | none | `Resolve` from flags, `QUALFLARE_` variables, CI, git and defaults | shards of one build agree on a run id and nobody else does |
| CI and git detection | `internal/cidetect`, `internal/gitdetect` | none | one table per provider; two git commands | the branch reported is the one the build is of |
| Version, text helpers, constants | `internal/version`, `internal/textutil`, `internal/constants` | none | `Truncate`, `TruncateOr`; formatting | the head of a text is kept, up to a number of runes |

### 1.2 How the parts interact

    test process                                    qualflare-go
    ------------                                    ------------
    library --t.Log--> testing --> test2json --> go test --pipe--> decoder
                                                  | stderr            | events
                                                  v                   v
                                             capture (bounded)     run model <--> joiner
                                                  |                   | Finish
                                                  +-- backstop --> report builder <--> replay
                                                                      |
                                                                      v
                                                                   report file

The events of all packages and of all tests that overlap arrive in one stream.
The run model puts output back together per test through the joiner, and
remembers each execution of a test as an occurrence. After the end of the
stream `Finish` flushes the joiner and classifies what never ended. The report
builder turns occurrences into cases, splits each case's output into messages
and text, and replays the messages into steps and fields. In wrapper mode the
exit status and the stderr of the child serve as a backstop.

What is hard: tests that overlap and write half lines; reruns with `-count`;
processes that die with tests running, where one test is given the last words
of all; streams cut short; a report assembled from several streams; closures
left by panics and `runtime.Goexit`; caps at which something is dropped but its
counterpart still arrives; messages that do not fit on a line; pipes that fill
up, orphans that keep them open and signals between two steps; shards, reruns and
retries that share a directory, on machines that do not talk to each other. The file
`PROJECT.json` lists each of these with its line and the properties about it.

## 2. The modules

| Module | Models | State of the code | Actions |
|---|---|---|---|
| `Decoder` | `decode.go` over streams of tokens | `input`, `buf`, `truncated`, `stats`, `preamble`, `events` | `ReadSlice` (`Continues`, `Completes`), `NewDecoder` |
| `Streams` | `consume` and `fromFiles` around the decoder | `files`, `current`, `totals`, `text`, `outcome` | `OpenFile`, `Reads`, `EndFile`, `Report` |
| `Joiner` | `joiner.go` | `partial`, `order` | `JoinerAdd`, `JoinerFlush` |
| `JoinedText` | the joiner fed with anything, and its promise | ... and the text `fed`, `lines` | `Feed`, `Flush` |
| `Slices` | what the code does with strings and slices: cut, split, join, truncate, filter, collect up to a cap | none: operators on sequences | `Split`, `Joined`, `Join`, `Truncate`, `LastIndex`, `Filtered`, `Gathered` |
| `Sentinel` | `sentinel.go` | none: operators on lines of tokens | `Encode`, `Decode` |
| `Output` | what tests write, through the joiner and `splitOutput` | those of `JoinedText` | those of `JoinedText`; `MessagesOf`, `TextOf`, `WarningsOf` on the lines |
| `Builder` | `model.go`, with the joiner inside | `packageOrder`, `package`, `testOrder`, `occurrences`, `open`, `buildOutput` | `Add` (`AddBuild`, `AddOutput`, `AddPackage`, `AddRun`, `AddTerminal`, ...), `Finish` |
| `TestLedger` | abstract: what the run model promises | `ledger`, `closed` | `Enter`, `Decide`, `Close` |
| `Report` | `internal/build` | none: operators on the finished run model | `Cases`, `SuiteCases`, `Collect` |
| `GoTest` | the environment: `go test -json` | `process`, `iteration`, `executions` (the ground truth), `death` ... | `StartTest`, `Log`, `FailTest`, `EndTest`, `Die`, `ReportPackage`, `Exit`, `NextFile` ... |
| `Pipeline` | `GoTest`, `Builder` and `Report` composed | all of the above | every step of the toolchain with the event it emits |
| `Replay` | `replay.go` | `steps`, `openSteps`, `droppedSteps`, `fields`, `warnings` | `ReplayMessage`, by kind |
| `Steps` | `step.go` in one test | `frames`, `stack`, `failed`, `mode` | `BeginStep`, `CloseStep`, `FailNow`, `SkipNow`, `Panics`, `Recovers`, `CleansUp` |
| `StepReplay` | library, emitter and replay composed | all of the above | `Begins`, `Closes`, `Emits`, `Elsewhere` |
| `Wrapper` | `runner.Run` and `wrap` around a child | `child`, `orphans`, pipes, `captured`, `copier`, `pc`, `report`, `exit` | of the child, of the copier, of the main goroutine, a signal |
| `Config` | `config.go`, `detect.go` of CI and git | none: operators on an invocation | `Resolve`, `DetectCI`, `ConsultGit` |
| `Gate` | `enabled.go` | a record per test process | `Enabled`, `Call`, `WithVariable` |
| `Launch` | several invocations of `main.go`, with `Config` and `Gate` inside | `pc`, `cfg`, `test`, `verdict`, `exit` of each, and `files` | `Starts`, `Calls`, `Sets`, `TestsEnd`, `CreateFile`, `FillFile`, `WriteFails`, `Exits`, `Killed` |

`MC...` modules give the constants values for TLC; `SequenceLemmas`,
`OutputProofs`, `StreamsProofs`, `PipelineProofs`, `ReportProofs`,
`StepReplayProofs`, `WrapperProofs` and `LaunchProofs` hold the proofs.

Abstractions, each chosen for what the properties can tell apart:

- A byte of a decoded stream is a token (a brace, an action, other content, a
  blank, CR, NL). A buffer of three tokens and a cap of five stand for 64 KiB
  and 16 MiB.
- In the pipeline output is a sequence of symbols and newlines. The reporter looks
  for four things in it, `panic:`, the banner of a timeout, a metadata line and a
  line of the runner (`=== RUN` and the like, at its beginning), and each is one
  symbol. `Output` takes the metadata line apart. A symbol is a rune where an error
  text is cut at `MaxCaseErrorRunes`.
- A line of `Sentinel` is a sequence of tokens: the delimiter `@@`, the magic that
  makes a prefix of it, a version, the payload in two pieces (so that a chunk can
  end inside it) and the checksum. The checksum and base64 are functions of the
  message that tell messages apart; that a CRC may collide is left out. Where a
  message begins and how it is recognised are the code's: the first prefix of the
  line, then each field up to the next delimiter.
- A string of `Config` is a sequence of tokens, so that run ids can be put together
  out of parts and compared; the empty sequence is the empty string, which the
  code treats as unset everywhere.
- What an invocation of `Launch` *is* (`launch`, `branch`) stands next to what it can
  *see* (`flags`, `env`, `git`, `pid`): the properties compare the two.
- A test's name is the sequence of its path components.
- Times are left out, except that a step's duration is a token that names the
  frame it was measured in: a stop that closes a step other than its own shows.
- A case keeps its status, attempts, flakiness and error text. Of an attempt the
  status is kept; its message and its trace are the same output cut at other caps
  (`case.go:212`), and are left out as is the text of the joined warnings, which is
  cut at 2048 runes (`case.go:173`).
- In `StepReplay` a message is replayed as it is emitted. The code replays them
  after the run, from lines kept in order, with nothing else touching the
  replay's variables, so the result is the same.
- In `Wrapper` the child is the environment: it may write, start processes that
  keep its pipes, exit or be killed at any moment.

## 3. The runs

`tlc -config <run>.cfg <module>` in this directory. All of them disable the
deadlock check because the modelled program stops.

| Run | Module | What it asks |
|---|---|---|
| `MCJoinedText` | `MCJoinedText` | two tests, four chunks in any interleaving: text with no, one or two newlines, the runner's lines, messages whole, cut in the payload, of a kind or a version this build does not know, and text that begins like one: `Reassembled`, `MessagesRead`, `TextKept` |
| `MCBuilder` | `MCBuilder` | the run model fed with *every* sequence of up to four events, in orders the toolchain never produces too: `IndicesAgree` (`OpenIsLast` and `ListedOnce`), `NothingIsLost`, and the refinement `ImplementsLedger` |
| `MCPipelineStream` | `MCPipeline` | two overlapping tests that write letter by letter, and one test in two recorded streams, the first of which may end inside a line: `OutputAttributed` at every moment, `ExecutionsRecorded` at the end |
| `MCPipelineReport` | `MCPipeline` | reruns of a test and its subtest, two tests, two packages that may not build, two recorded streams, and three tests, packages and executions and longer output under caps of two: `FailuresReported`, `NeverGreener`, `NothingInvented`, `CasesMirrorExecutions`, `FailuresCarryEvidence`, each for reruns collapsed and split, with the exit status seen and not |
| `MCSteps` | `MCStepReplay` | up to four calls over a cap of two steps, attachments that may not fit on a line: `Lockstep`, `StepsFaithful`, `OutcomesTrue`, `ParametersBelong`, `FieldsFaithful`, `DropsReported`, `ClosedStepsKept` |
| `MCStreams` | `MCStreams` | every stream of up to three lines, one or two files, any of them missing or cut short, and the diagnostics of the report: `EventsDelivered`, `LinesAccounted`, `EvidenceRetained`, `Terminates` |
| `MCWrapper` | `Wrapper` | a child, its orphans, pipes of two chunks, a capture of two: `WholeRunReported`, `VerdictKept`, `RoomReturns`, `WrapperEnds` |
| `MCLaunch` | `MCLaunch` | two or three invocations around one directory, in 102 situations: `RunIdsAgree`, `BranchesTrue`, `LazyIsEager`, `AllOrNothing`, `MetadataArrives`, `ReportsLand`, `ReportsKept` |

Each run except the pipeline's and the launch's also checks the type invariant of
its module.

Four runs are expected to fail: each checks what a comment or a document says
and TLC shows a behaviour of the code that contradicts it (section 5).

### 3.1 Why the bounds are enough

- *Joiner.* Keys do not interact except through `order`; two keys and chunks
  with a newline first, last, twice or not at all reach every branch of `Add`
  and `Flush`. The main property is also proved without bounds.
- *Messages.* Four chunks are enough for a first half, a chunk of the other test, a
  second half of the same or of another message, and text in front of it; `MaxFed`
  is above what four chunks can hold. One of the runner's lines runs into the magic
  of a message. The three properties are also proved without bounds.
- *Run model.* `Add` reads one package, one test and its last occurrence. Four
  events allow run, output, verdict and a second run of one test, or any
  disorder of these over a test and its subtest.
- *Pipeline.* The interesting interleavings need two tests that overlap, and two
  executions of one; a parent and a child for `keepTest`; two packages for the
  backstop, which looks across suites; two files. Each command of
  `MCPipeline!Mixed` is one of these. The caps on attempts, cases and suites are
  two, and the commands of `Crowds` have three executions of a test, three tests
  and three packages: a red one can be the one that is cut off. The cap on an error
  text is two as well: a line of a test and the last words of its process exceed it,
  each alone does not, and the lines that do not count for it, those of the runner and
  the metadata, are among what a test prints. (That the compiler's output is cut is
  left to the proof.) All seven
  properties are also proved without bounds.
- *Steps.* With a cap of two, four calls reach a dropped step inside, after and
  around recorded ones. The properties of steps are also proved without bounds.
- *Streams.* The lines include each kind at, below and above the cap, and
  three of them put a short line before and after a long one; the buffer
  divides none of the lengths evenly. The safety properties are also proved
  without bounds.
- *Wrapper.* Pipes and capture are smaller than what is written to them, so
  every full, empty and truncated case occurs.
- *Launch.* Invocations meet only in a file, so two of them show every conflict and
  a third shows that somebody else's rerun does not repair it. The situations hold
  each provider with a shard, a rerun or another pipeline next to it, process ids
  equal and not, a provider next to another, flags and variables over each of
  them, and each shape of argument list `goTestArgv` tells apart. Two calls per
  test process are needed to see a gate that changes its mind. A test may set its
  variable before the first of them, between them and afterwards, to a word that
  opens the gate and to one that closes it, and put it back. TLC evaluates on the
  situations
  what `LaunchesAssumption` and `BranchesAssumption` say of a provider's variables,
  and the seven properties are proved of any situations these hold of.

### 3.2 Fairness

Only liveness properties use any. In `Streams` the reader is weakly fair:
`consume` is a loop that nothing else disables, on a finite input. In `Wrapper`
the two goroutines (the copier of stderr and the main one) are each weakly
fair, as the Go scheduler runs every goroutine that can run; nothing at all is
assumed of the child or of its orphans, so `WrapperEnds` is stated from the
moment they hold no pipe. The copier also writes what it reads to the stderr of the
wrapper itself: that it goes on takes a reader of that stderr who goes on reading, or
closes it.

## 4. The proofs

`tlapm <module>.tla`. The constants are arbitrary throughout, under the
assumptions of the modules, which TLC evaluates on each instance.

**`SequenceLemmas`.** What `Split`, `Joined`, `Filtered`, `FlattenSeq` and the rest
return for every text. They are recursive functions, and the library's induction
theorems cannot be used here (they take operators), so induction is done once, by
hand: a set of naturals that misses one has a least one it misses
(`InductionUpTo`), which gives induction over sequences as a fact about *sets* of
sequences (`SequenceInduction`), and a fold with a typed step exists and is what a
recursive function over the positions of a sequence returns (`FoldExists`,
`FoldReturned`). From these: a text is its finished lines, each with its newline,
and the rest (`SplitKeepsText`); two texts are split together as the first one is,
with its rest in front of the second (`SplitConcat`); lists of lines that are put
together are joined together (`JoinedConcat`); one element more in one of several
lists is one element more in their concatenation (`FlattenGrown`); `Gathered`
holds nothing but what its parts hold, and a part that is missing from it was met
when there was enough (`GatheredElements`).

**`OutputProofs`.** For any keys, chunks, messages and tokens, under `NLAssumption`,
`FeedAssumption` and `SentinelAssumption` (a payload or a checksum holds no
delimiter, and those of two messages differ):

- `TypesHold` and `ReassembledHolds`: `Spec => []TypeOK` and `Spec => []Reassembled`;
- `ReadsMessages` and `KeepsText`: `Spec => []MessagesRead` and `Spec => []TextKept`.

The inductive invariant says where the joiner is: the lines handed out for a key are
the finished lines of what was fed for it, and the text held is the last, open one
(`SplitSoFar`); and `Flush`, which only visits the keys in `order`, meets every key
with held text there (`HeldKeysOrdered`). It is preserved because `Add` cuts a buffer
in two at its last newline with nothing in between (`SplitAtLast`), so that feeding a
chunk splits as feeding all at once (`FedOn`).

With that the two others are about lines. `LineRead` says what `Decode` makes of any
line, by following it: the place of the first prefix, the version up to the next
delimiter, the body up to the one after, the checksum behind it. A line carries a
message exactly when `Front(Encode(m))` stands in it with no prefix before it, and then
`Decode` finds that message and no other, which is where it matters that payloads
differ and hold no delimiter; otherwise it is reported as unusable exactly when the
line claims to be one. `AllMessages` and `TextLines` take this to all the lines of a
test, by induction over them.

**`StreamsProofs`.** For any cap, buffer, tokens and files, under `SizesAssumption`
and `StreamsAssumption`:

- `TypeCorrect`: `Spec => []TypeOK`;
- `DeliversEvents`: `Spec => []EventsDelivered`;
- `AccountsForLines`: `Spec => []LinesAccounted`;
- `RetainsEvidence`: `Spec => []EvidenceRetained`.

The reference is the same input cut into its lines at once, each judged as a whole.
The decoder sees slices, so what must be known between two of them is where it is:
the invariant `ReadingOK` says that the stream is `done`, whole lines, followed by
`open`, the part of a line that was read, and what is still to come; that the buffer
is the beginning of `open` up to the cap and the line is given up on exactly when
`open` exceeds it; and that the events, the counters and the preamble are those of
the lines in `done` (`At`), except that a line too long is counted at the slice that
overflows and not at its end (`StatsOf`). A slice that ends a line moves `open` over to
`done`; one that does not makes it longer; the end of the input does the first
without a newline, and then nothing is open. The preamble is cut while it grows and
the reference when it is complete: both have the same beginning (`Evidence`).
`TotalsOK` carries the counters of one file over to the report of all.

**`PipelineProofs`.** First the run model alone, for any packages, tests, text and
events:

- `NothingIsTakenBack`: `BuilderSpec => NothingIsLost`;
- `BuilderKeepsTheLedger`: `BuilderSpec => ImplementsLedger`, the refinement of
  `TestLedger`;
- `BuilderTypes` and `IndicesHold`: `BuilderSpec => []BuilderTypeOK` and
  `BuilderSpec => []IndicesAgree`.

The first two follow from what an event does to the occurrences of a test: it leaves them
alone, or output, `run` or a verdict changes them as the ledger allows (`Change`;
one lemma each: `LinesAreAChange`, `RunIsAChange`, `VerdictIsAChange`), and
`Finish` settles them (`FinishSettles`). The invariant is that `open` is the index
of the last occurrence, without which a verdict could fall on an earlier entry,
and that before `Finish` an occurrence has a status exactly when an event gave it
one, without which an entry that counts as running could have been decided.
`IndicesAgree` needs to know that what `Finish` flushes is listed once, which is
about `Filtered` over the joiner's order: each key is in it once, and those of tests
already listed are left out.

Then the run model fed by `go test -json`, for any packages, tests, commands, binaries
and chunks, under `CommandsAssumption`, `BinaryAssumption` and `OutputAssumption`
(tests do not print what only the runtime prints when a process dies):

- `ExecutionsHold`: `Spec => []ExecutionsRecorded`.

This is about the end of a run and says nothing before it. What does is `Ongoing`:
types; `OpenIsLast`; `Twins`, that an occurrence is undecided exactly as long as its
execution runs and has the verdict it came to afterwards; that nothing is held for a
test that has not started (`NothingHeldBefore`); and, when there is one stream, that
only what runs in the present iteration runs at all (`ProcessOK`) and that the lines
of an execution mention a panic or a banner exactly when they are the last words of
the process (`SpeechOK`). From the last, `Finish` classifies each unfinished
execution as it really ended (`FinishRecords`). After `Finish` nothing happens any
more (`Closed`).

**`ReportProofs`.** Under the same assumptions:

- `OutputHolds`: `Spec => []OutputAttributed`.

The invariant is `Attributed`: for each test, the text filed and the half line held
are the text printed, one execution at a time in one stream and all together in
several, and an execution that has ended has left no half line, which is what keeps
the next one's text out of it.

The rest of the module is about the report. For any packages, tests (sequences
of components, which is all `TestsAssumption` says), commands and positive caps,
however reruns are treated and whether the exit status is seen or not:

- `FailuresAreReported`: `Spec => []FailuresReported`;
- `ReportIsNeverGreener`: `Spec => []NeverGreener`;
- `NothingIsInvented`: `Spec => []NothingInvented`;
- `CasesDoMirror`: `Spec => []CasesMirrorExecutions`;
- `EvidenceIsCarried`: `Spec => []FailuresCarryEvidence`.

The report is a function of the finished run, so each follows from what holds of
it then (`Complete`, and `OutputAttributed` and `Compiled` for the last). The executions are
recorded, as proved above, and three more things are invariants of the
composition (`Books`): the lists of packages and tests name each once (`Lists`,
from `IndicesHold`); a listed test has an occurrence (`Seen`), without which a
parent could be dropped for a child that never ran; and what the model says of a
package is what `go test` said of it last (`PackagesTold`), from which a package
that failed is listed and carries no build failure but its own. `FinishBooks`
takes them across `Finish`, which lists the tests it only knows by a half line.

From there the argument follows the code. The cases of a test are one per
execution or one for all, and say what was recorded (`Stands`). A suite holds the
cases of each listed test that is kept or, if it does not, has as many of others
as the cap (`SuiteHolds`, where the tests before the missing one all contributed
cases of their own), and the package's own case exactly when nothing in it explains
the failure. The report holds the suite of each package that has one, or as many
others as its cap, and the backstop's case only for a red exit that nothing
explains (`ReportTold`). A red test that `KeepTest` drops has a red descendant that
is kept, namely one with the longest name (`DescendantKept`), which is the only
place where an order on names is needed. `NothingInvented` is the converse: every
case comes from one of those three places (`CaseOrigin`), and a synthetic one is
only made where no red case was, so by `FailuresReported` none was owed
(`UnseenThen`). For the evidence, splitting the text of an execution gives the
lines filed under it (`LinesOfRun`), because joining and splitting are inverse
(`LinesOfJoined`), whether or not its last line was ended; what is neither metadata nor
the runner's is then the same in both, and so is its head (`CaseCarries`). That a
failed build has the compiler's output for its text, and no failure an empty one
(`BlameShows`), needs one more invariant: a package that does not build has left
something to show (`Compiled`).

**`StepReplayProofs`.** Under `StepsFit` (the messages that begin and end steps
are never too large for a line), for any caps, names, messages and nesting:

- `LockstepHolds`: the replay's stack mirrors the test's, with a sentinel for
  each step beyond the cap;
- `StepsAreFaithful`: a step within the cap is recorded with its own name,
  parent, status, error and duration;
- `ClosedStepsStayAsTheyAre`: nothing changes the record of a closed step;
- `OutcomesAreTrue`: a step is failed exactly when the test came to fail while
  it ran, or a panic left it;
- `DropsAreReported`: the report warns of dropped steps exactly when more were
  begun than the cap;

and under `OthersFit` (only attachments may be too large for a line):

- `ParametersDoBelong`: a parameter is recorded in the step it was set in, in
  order, and in no other;
- `FieldsAreFaithful`: labels, links and tags are what the test set, in order and up
  to their caps, and description and priority the last valid ones; of attachments it
  gives the number.

The inductive invariant adds to these `FramesOK`: the frames on the stack are
open, in the order they began, and nothing is recorded of them yet. It gives
that the top of the replay's stack is the step being closed and that no index
occurs twice. `OutcomesTrue` needs `BlameOK` as well: what the library can see
(the test failed now and had not when the step began) is what the step is to
blame for, which holds because every step open at the first failure is blamed
at once and no later one can be. The number of steps
dropped is the number of frames beyond the cap (`DropsOK`); the parameters of all
steps together are what was emitted inside steps, each list kept in its order while
another grows (`ParametersOK`, `FlattenGrown`); and each list of fields is the first
`cap` of the values emitted, because the first of a list with one more element is
the capped append the replay does (`FieldsOK`). `StepsFit` is needed: without it TLC
finds `Lockstep` violated in a few steps (section 5).

**`WrapperProofs`.** For pipes and captures of any size: `TypeOK`,
`WholeRunReported` and `VerdictKept`. The invariant behind the second is that
what was written to a pipe is what was read from it followed by what is in it,
that the capture is the beginning of what was echoed, that the main goroutine
is past consuming only when stdout is at its end, and past waiting only when
the copier has stopped, which it does by itself only at the end of stderr.

**`LaunchProofs`.** For any invocations and any situations of them:

- `ProcessesSpeakAsOne`: `AllOrNothing`, because an undecided gate has seen no
  call, an open one has let every message through that fits on a line and a closed one
  none, and only the first call decides (`GateKept`);
- `MetadataDoesArrive`: `MetadataArrives`. What decides is in another process: the
  argument list `go test` gets, in which `Asked` must find the `-json` that
  `GoTestArgv` put in (`JsonIsRead`), and the variable the test process inherits;
  the gate is then open at the first call and lets every later one through, unless a
  test has switched the library off by then, which `early` remembers (`SpeechOK`).
  `SituationsAssumption` says what command lines and variables look
  like;
- `LazinessDoesNotShow`: `LazyIsEager`. A list of candidates gives its first that is
  set (`PickFirst`, `PickThree`), so what git says is not looked at where
  `ConsultGit` did not ask it (`LazinessIsFree`);
- `RunIdsDoAgree`: `RunIdsAgree`. What the world gives an invocation is stated with
  its launch (`LaunchesAssumption`): the user names the launch by one word, or exactly
  one provider shows itself and gives the id of the build, and GitHub the attempt, or
  nobody does and no other invocation is of its launch. Each of these makes one shape
  of run id (`ResolvedId`, through `DetectedId` and the precedence of `Pick`), and two
  ids of such shapes are equal exactly when the launches are (`IdsTellApart`): no
  provider's id can be taken for another's, nor a missing attempt for a second;
- `BranchesAreTrue`: `BranchesTrue`, when whoever names a branch names the branch or
  the tag that is built, but for a detached checkout, the merge ref of a pull request,
  and Jenkins, which may name the remote's branch (`BranchesAssumption`). The first two
  never get through; the third does, on Jenkins only, as it is (section 5);
- `ReportsAreKept` and `ReportsDoLand`: `ReportsKept` and `ReportsLand`. By
  `RunIdsDoAgree` two writers of one file are of one launch (`OneFileOneLaunch`). The
  invariants behind both are that a report is only in the file its writer names
  (`FilesOK`), and that who has written is in its file or has a twin, a process of its
  launch with its process id, that has started (`WrittenOK`).

**Only model-checked.** All liveness (`Terminates`, `RoomReturns`, `WrapperEnds`),
which the prover cannot do under fairness. Every invariant and every action property
of the passing runs is proved. The four runs of section 5 are counterexamples of one
instance each and need no proof.

## 5. Where the code and what is said of it differ

Each of the first four is a run of its own.

1. `MCParentEarlier`: under `-count`, a parent that failed on its own in an
   earlier iteration and passed in the last is dropped with its failure
   (`internal/build/case.go:139` looks at the last execution only), although
   `case.go:126` says that dropping such a failure "loses the only thing that
   went wrong".
2. `MCOldToolchain`: the fallback to stderr (`main.go:125`) applies only to an
   empty preamble, and the toolchains it is for leave a `[setup failed]` line
   there, so the compiler error is not in the report.
3. `MCCapsSilent`: labels, links and attachments beyond their caps are dropped
   without the warning `docs/METADATA-API.md:149` promises.
4. `MCDisabledRun`: a disabled wrapper returns before it runs the tests
   (`main.go:80`) and is green. `main.go:132` calls it a drop-in replacement for
   `go test`, and `docs/CONFIGURATION.md:31` says only that no report is written.
   `QUALFLARE_ENABLED=YES` disables it, because `boolOr` knows `yes` and `Yes`.

Others came up while modelling and have no run. The properties are stated so
that each shows as the exception it is:

- An attachment that does not fit on a line leaves no warning in the report
  (`docs/METADATA-API.md:107`); `emit.go:42` writes it to the test's stderr.
  `FieldsFaithful` allows an attachment to be missing where one can be dropped.
- `fromFiles` leaves the counts of unknown actions out (`main.go:179`;
  `docs/CONFIGURATION.md:71`). `LinesAccounted` asks for them of one stream only.
- A `step_start` too large for a line is dropped while its stop is not, and the
  stop closes the enclosing step: with `Droppable = {"step_start"}`, `Lockstep`
  fails. The comment at `replay.go:96` describes the same mismatch for the cap.
- The stop of a step left by a panic with a long text is dropped
  (`Droppable = {"step_stop"}`), and the step stays as it began: passed.
- With more executions than the cap on attempts, the red ones can be trimmed
  away before `Suite` looks for an explanation of a package failure
  (`wire.go:147`, `collect.go:125`), and one is synthesised.
- The cap on cases is looked at before a test is added: a test split into its
  executions, and the case of a failed package, go beyond it, as the suite of the
  backstop goes beyond the cap on suites (`collect.go:114`, `:125`, `:217`).
- With two `-i` files of one package, a pass in the second erases the package
  failure of the first (`model.go:124`), the timeout banner of one is read into
  what the other left unfinished, and a half line at the end of one begins the
  first line of the other (`main.go:162`). `NeverGreener`,
  `CasesMirrorExecutions` and what `FailuresCarryEvidence` says of tests are
  therefore stated for one stream.
- A line of a test that begins with `=== RUN` is taken for the runner's and
  dropped, unless it also looks like a message that cannot be read, and so is text
  that shares a line with a message (`case.go:242`), in spite of `case.go:234`: "a
  user must always be able to see what their test printed". `TextKept` excepts those
  two.
- Two processes of one launch can have one process id, in containers, and then
  write the same file; `README.md:103` says that "shards never overwrite each
  other". `ReportsLand` and `ReportsKept` except exactly these (`Twins`).
- A retried GitLab job keeps the id of its pipeline and so its run id
  (`cidetect.go`), unlike the attempts of GitHub.
- In a build of a tag, `GITHUB_REF_NAME` and `CI_COMMIT_REF_NAME` hold the tag, and
  the report has that as its branch (`cidetect.go:47`): `branch` of a situation is the
  branch or the tag. Jenkins may put the remote in front, and `origin/main` is then
  reported as it is (`cidetect.go:103`, `cidetect_test.go:144`); `BranchesTrue`
  excepts this.
- Output beyond `MaxCaseErrorRunes` loses its end (`case.go:93`, `collect.go:178` and
  `:215`), and that is where a failing test often says why it failed.
  `FailuresCarryEvidence` promises the head.
- A test that sets `QUALFLARE_GO` to `0` before any test of its process has made a
  call switches the library off for all of them, for good: the gate is decided once
  (`enabled.go:21`), and what `t.Setenv` puts back afterwards is not looked at.
  `MetadataArrives` excepts this case, and promises only the messages that fit on a
  line (`emit.go:42`).
- The wrapper never sets `QUALFLARE_GO`, although `enabled.go:17`, `README.md`
  and `docs/CONFIGURATION.md:38` say so: an inherited `0` keeps the library
  silent. Nothing reads or sets `QUALFLARE_GO_SPILL`.
- A `-json` meant for the test binary, after `-args`, is taken for one of
  `go test` (`main.go:143`), so none is put in; `MetadataArrives` excepts it.
- `qualflare-go -- go` slices one argument at two and panics (`main.go:150`).

## 6. What is not modelled, and why

- The version string, which is formatting. The caps of `constants.go` on cases,
  suites, attempts, error texts, steps and fields are CONSTANTS of the modules that
  apply them; those on the length of a tag, on the content of an attachment and on the
  message and trace of an attempt are left out.
- The totals, times, clamping, identifiers and the header of a report, and the
  layout of the JSON: each is one function of the run, with nothing that an order
  of events or a failure could change.
- The `-version` flag, flag errors and the progress lines of the command.
- The time limits of the two git commands: a command that fails or is too slow is
  an empty answer.
- A collision of checksums, and damage that is itself valid base64 of a message.
- Goroutines of one test that use steps at once, and goroutines that outlive
  their test: `docs/LIMITATIONS.md` excludes them, and where such a line goes is
  decided by the testing package.
- `go test`, `test2json` and the testing package are the environment: `GoTest`
  models the order of their events as far as the reporter depends on it.
- The end-to-end verifier, the fixtures and the workflows are not the program.

## 7. Plan

Done: the joiner and its proof, with the messages found in what it joins; the run
model, the ledger and the pipeline with the report and its caps; the step replay;
the decoder and the streams; the wrapper; the configuration, the gate and several
invocations around one directory; the proofs of section 4.

Every safety property of the passing runs is now stated by a theorem. What could be
added is more of the program, not of the proofs: the header and the totals of a
report, and two goroutines of one test that use the library at once.
