---------------------------- MODULE LaunchProofs ----------------------------
(***************************************************************************)
(* Proofs about invocations that share a directory, for any number of them,   *)
(* started with anything: the metadata of a process is emitted as a whole, run *)
(* ids tell launches apart, and no report is lost to another process.         *)
(***************************************************************************)
EXTENDS Launch, SequenceLemmas

\* The variables are functions of the invocations, whatever their values.
Shapes ==
  /\ pc = [i \in Invocations |-> pc[i]]
  /\ cfg = [i \in Invocations |-> cfg[i]]
  /\ test = [i \in Invocations |-> test[i]]
  /\ verdict = [i \in Invocations |-> verdict[i]]
  /\ exit = [i \in Invocations |-> exit[i]]

IsProcess(process) ==
  process \in [variable : {process.variable}, json : {process.json}, early : {process.early},
               gate : {process.gate}, calls : Nat, fitting : Nat, emitted : Nat]

\* The gate says what has become of the calls so far: a closed one has let none
\* through, an open one all that fit, and one that was never asked had none to decide.
GateKept(process) ==
  \/ process.gate = Undecided /\ process.calls = 0 /\ process.fitting = 0 /\ process.emitted = 0
  \/ process.gate = "open" /\ process.calls # 0 /\ process.emitted = process.fitting
  \/ process.gate = "closed" /\ process.calls # 0 /\ process.emitted = 0

ProcessesOK == \A i \in Invocations : IsProcess(test[i]) /\ GateKept(test[i])

LEMMA FreshProcess ==
  ASSUME NEW variable, NEW json
  PROVE  IsProcess(TestProcess(variable, json)) /\ GateKept(TestProcess(variable, json))
BY DEF TestProcess, IsProcess, GateKept

LEMMA CalledProcess ==
  ASSUME NEW process, NEW fits, IsProcess(process), GateKept(process)
  PROVE  /\ IsProcess(Call(process, fits)) /\ GateKept(Call(process, fits))
         /\ Call(process, fits).gate = Enabled(process) /\ Call(process, fits).early = process.early
<1> DEFINE gate == Enabled(process)
           fitting == IF fits THEN process.fitting + 1 ELSE process.fitting
           emitted == IF fits /\ gate = "open" THEN process.emitted + 1 ELSE process.emitted
           called == [process EXCEPT !.gate = gate, !.calls = @ + 1, !.fitting = fitting,
                                     !.emitted = emitted]
<1>1. Call(process, fits) = called
  BY DEF Call
<1>2. gate \in {"open", "closed"}
  BY DEF Enabled, ResolveGate, GateKept, Undecided
<1>3. process.gate # Undecided => gate = process.gate
  BY DEF Enabled
<1>4. process.calls \in Nat /\ process.fitting \in Nat /\ process.emitted \in Nat
  BY DEF IsProcess
<1>5. emitted \in Nat /\ fitting \in Nat /\ emitted = IF gate = "open" THEN fitting ELSE 0
  BY <1>2, <1>3, <1>4 DEF GateKept, Undecided
<1> HIDE DEF gate, fitting, emitted
<1>6. IsProcess(called) /\ called.gate = gate /\ called.calls = process.calls + 1
        /\ called.fitting = fitting /\ called.emitted = emitted /\ called.early = process.early
  <2>1. called \in [variable : {process.variable}, json : {process.json}, early : {process.early},
                    gate : {gate}, calls : {process.calls + 1}, fitting : {fitting},
                    emitted : {emitted}]
    BY DEF IsProcess
  <2> HIDE DEF called
  <2> QED
    BY <1>4, <1>5, <2>1 DEF IsProcess
<1>7. GateKept(called)
  BY <1>2, <1>4, <1>5, <1>6 DEF GateKept
<1> QED
  BY <1>1, <1>6, <1>7 DEF gate

\* t.Setenv decides what is remembered of it as long as no call was made.
LEMMA ChangedProcess ==
  ASSUME NEW process, NEW value, IsProcess(process), GateKept(process)
  PROVE  LET changed == WithVariable(process, value)
         IN  /\ IsProcess(changed) /\ GateKept(changed)
             /\ changed.gate = process.gate /\ changed.json = process.json
             /\ process.gate = Undecided => changed.variable = value /\ changed.early = value
             /\ process.gate # Undecided => changed.early = process.early
<1> DEFINE early == IF process.calls = 0 THEN value ELSE process.early
           changed == [process EXCEPT !.variable = value, !.early = early]
<1>1. WithVariable(process, value) = changed
  BY DEF WithVariable
<1>2. process.gate = Undecided <=> process.calls = 0
  BY DEF GateKept, Undecided
<1> HIDE DEF early
<1>3. changed \in [variable : {value}, json : {process.json}, early : {early},
                   gate : {process.gate}, calls : {process.calls}, fitting : {process.fitting},
                   emitted : {process.emitted}]
  BY DEF IsProcess
<1>4. process.calls \in Nat /\ process.fitting \in Nat /\ process.emitted \in Nat
  BY DEF IsProcess
<1> HIDE DEF changed
<1>5. IsProcess(changed) /\ GateKept(changed)
  BY <1>3, <1>4 DEF IsProcess, GateKept
<1> QED
  BY <1>1, <1>2, <1>3, <1>5 DEF early

LEMMA ProcessesInvariance == Spec => [](Shapes /\ ProcessesOK)
<1> DEFINE P == Shapes /\ ProcessesOK
<1>1. Init => P
  <2> SUFFICES ASSUME Init PROVE P
    OBVIOUS
  <2>1. Shapes
    BY DEF Init, Shapes
  <2>2. \A i \in Invocations : test[i] = TestProcess(None, FALSE)
    BY DEF Init, NoTest
  <2> QED
    BY <2>1, <2>2, FreshProcess DEF ProcessesOK
<1>2. P /\ [Next]_vars => P'
  <2> SUFFICES ASSUME P, [Next]_vars PROVE P'
    OBVIOUS
  <2>1. CASE UNCHANGED vars
    BY <2>1 DEF vars, Shapes, ProcessesOK, Invocations, IsProcess, GateKept
  <2>2. CASE Next
    <3>1. PICK i \in Invocations :
            \/ Starts(i) \/ Calls(i) \/ CreateFile(i) \/ FillFile(i)
            \/ WriteFails(i) \/ Exits(i) \/ Killed(i)
            \/ \E value \in Values : Sets(i, value)
            \/ \E status \in {"zero", "nonzero"} : TestsEnd(i, status)
      BY <2>2 DEF Next
    <3>2. Invocations' = Invocations
      BY <3>1 DEF Starts, Calls, CreateFile, FillFile, WriteFails, Exits, Killed, Sets, TestsEnd, Invocations
    <3>3. Shapes'
      BY <3>1, <3>2 DEF Shapes, Starts, Calls, CreateFile, FillFile, WriteFails, Exits, Killed,
         Sets, TestsEnd, Exit
    <3>4. \/ test' = test
          \/ \E variable, json : test' = [test EXCEPT ![i] = TestProcess(variable, json)]
          \/ \E fits : test' = [test EXCEPT ![i] = Call(test[i], fits)]
          \/ \E value : test' = [test EXCEPT ![i] = WithVariable(test[i], value)]
      <4>1. CASE Starts(i)
        BY <4>1 DEF Starts
      <4>2. CASE \E status \in {"zero", "nonzero"} : TestsEnd(i, status)
        BY <4>2 DEF TestsEnd, NoTest
      <4>3. CASE \E value \in Values : Sets(i, value)
        BY <4>3 DEF Sets
      <4> QED
        BY <3>1, <4>1, <4>2, <4>3 DEF Calls, CreateFile, FillFile, WriteFails, Exits, Killed, NoTest
    <3>5. ASSUME NEW j \in Invocations PROVE IsProcess(test'[j]) /\ GateKept(test'[j])
      <4>0. IsProcess(test[j]) /\ GateKept(test[j])
        BY DEF ProcessesOK
      <4>1. CASE test' = test
        BY <4>0, <4>1
      <4>2. ASSUME NEW variable, NEW json, test' = [test EXCEPT ![i] = TestProcess(variable, json)]
            PROVE  IsProcess(test'[j]) /\ GateKept(test'[j])
        <5>1. test'[j] = test[j] \/ test'[j] = TestProcess(variable, json)
          BY <4>2 DEF Shapes
        <5> QED
          BY <4>0, <5>1, FreshProcess
      <4>3. ASSUME NEW fits, test' = [test EXCEPT ![i] = Call(test[i], fits)]
            PROVE  IsProcess(test'[j]) /\ GateKept(test'[j])
        <5>1. test'[j] = test[j] \/ test'[j] = Call(test[j], fits)
          BY <4>3 DEF Shapes
        <5> QED
          BY <4>0, <5>1, CalledProcess
      <4>4. ASSUME NEW value, test' = [test EXCEPT ![i] = WithVariable(test[i], value)]
            PROVE  IsProcess(test'[j]) /\ GateKept(test'[j])
        <5>1. test'[j] = test[j] \/ test'[j] = WithVariable(test[j], value)
          BY <4>4 DEF Shapes
        <5> QED
          BY <4>0, <5>1, ChangedProcess
      <4> QED
        BY <3>4, <4>1, <4>2, <4>3, <4>4
    <3> QED
      BY <3>2, <3>3, <3>5 DEF ProcessesOK, IsProcess, GateKept
  <2> QED
    BY <2>1, <2>2
<1> QED
  BY <1>1, <1>2, PTL DEF Spec

\* Whether the metadata of a test process is emitted is decided once: whatever its
\* tests do to their environment, all of its messages that fit on a line are emitted
\* or none.
THEOREM ProcessesSpeakAsOne == Spec => []AllOrNothing
<1>1. Shapes /\ ProcessesOK => AllOrNothing
  BY DEF AllOrNothing, ProcessesOK, GateKept, Started
<1> QED
  BY <1>1, ProcessesInvariance, PTL

\* A step leaves the name of a report and what it is named after alone.
LEMMA StartedStay ==
  ASSUME Shapes, [Next]_vars
  PROVE  /\ Shapes' /\ situation' = situation /\ Invocations' = Invocations
         /\ \A i \in Started : i \in Started' /\ cfg'[i] = cfg[i] /\ PathOf(i)' = PathOf(i)
<1>1. CASE UNCHANGED vars
  BY <1>1 DEF vars, Shapes, Invocations, Started, PathOf
<1>2. CASE Next
  <2>1. PICK i \in Invocations :
          \/ Starts(i) \/ Calls(i) \/ CreateFile(i) \/ FillFile(i)
          \/ WriteFails(i) \/ Exits(i) \/ Killed(i)
          \/ \E value \in Values : Sets(i, value)
          \/ \E status \in {"zero", "nonzero"} : TestsEnd(i, status)
    BY <1>2 DEF Next
  <2>2. situation' = situation /\ Invocations' = Invocations
    BY <2>1 DEF Starts, Calls, CreateFile, FillFile, WriteFails, Exits, Killed, Sets, TestsEnd, Invocations
  <2>3. Shapes'
    BY <2>1, <2>2 DEF Shapes, Starts, Calls, CreateFile, FillFile, WriteFails, Exits, Killed,
       Sets, TestsEnd, Exit
  <2>4. /\ cfg' = cfg \/ \E c : pc[i] = "idle" /\ cfg' = [cfg EXCEPT ![i] = c]
        /\ pc' = pc \/ \E where \in {"testing", "collecting", "writing", "written", "exited"} :
                         pc' = [pc EXCEPT ![i] = where]
    <3>1. CASE Starts(i)
      BY <3>1 DEF Starts, Exit
    <3>2. CASE \E status \in {"zero", "nonzero"} : TestsEnd(i, status)
      BY <3>2 DEF TestsEnd
    <3>3. CASE Calls(i) \/ \E value \in Values : Sets(i, value)
      BY <3>3 DEF Calls, Sets
    <3> QED
      BY <2>1, <3>1, <3>2, <3>3 DEF CreateFile, FillFile, WriteFails, Exits, Killed, Exit
  <2>5. ASSUME NEW j \in Started
        PROVE  j \in Started' /\ cfg'[j] = cfg[j]
    BY <2>2, <2>4 DEF Shapes, Started
  <2> QED
    BY <2>2, <2>3, <2>5 DEF PathOf
<1> QED
  BY <1>1, <1>2

-----------------------------------------------------------------------------
\* What `go test' reads of a list of arguments is what stands before the first -args.
Requests == {"-json", "--json"}

ReadsJson(argv) ==
  \E k \in 1..Len(argv) : argv[k] \in Requests /\ \A j \in 1..k : argv[j] # "-args"

LEMMA AskedMeans ==
  ASSUME NEW S, NEW argv \in Seq(S)
  PROVE  Asked(argv) <=> \E k \in 1..Len(argv) : argv[k] \in Requests
BY DEF Asked, ToSet, Requests

LEMMA WhatIsRead ==
  ASSUME NEW S, NEW argv \in Seq(S)
  PROVE  Asked(GoTestReads(argv)) <=> ReadsJson(argv)
<1> DEFINE ends == {i \in 1..Len(argv) : argv[i] = "-args"}
           m == Min(ends)
<1>1. ASSUME NEW read \in Seq(S) PROVE Asked(read) <=> \E k \in 1..Len(read) : read[k] \in Requests
  BY AskedMeans
<1>2. CASE ends = {}
  <2>1. GoTestReads(argv) = argv /\ \A j \in 1..Len(argv) : argv[j] # "-args"
    BY <1>2 DEF GoTestReads, Contains
  <2> QED
    BY <1>1, <2>1 DEF ReadsJson
<1>3. CASE ends # {}
  <2>1. m \in 1..Len(argv) /\ argv[m] = "-args" /\ \A i \in ends : m <= i
    <3>1. ends \in SUBSET (1..Len(argv)) /\ Len(argv) \in Nat
      OBVIOUS
    <3>2. m \in ends /\ \A i \in ends : m <= i
      BY <1>3, <3>1, MinOfPositions
    <3> QED
      BY <3>2
  <2>2. GoTestReads(argv) = SubSeq(argv, 1, m - 1)
    BY <1>3 DEF GoTestReads, Contains, SelectInSeq
  <2> HIDE DEF m
  <2>3. PICK read : read = SubSeq(argv, 1, m - 1)
    OBVIOUS
  <2>4. /\ read \in Seq(S) /\ Len(read) = m - 1
        /\ \A k \in 1..m - 1 : read[k] = argv[k]
    BY <2>1, <2>3
  <2>5. \A k \in 1..Len(argv) : k < m <=> \A j \in 1..k : argv[j] # "-args"
    <3> SUFFICES ASSUME NEW k \in 1..Len(argv)
                 PROVE  k < m <=> \A j \in 1..k : argv[j] # "-args"
      OBVIOUS
    <3>1. ASSUME k < m, NEW j \in 1..k, argv[j] = "-args" PROVE FALSE
      <4>1. j \in ends
        BY <3>1
      <4> QED
        BY <2>1, <3>1, <4>1
    <3>2. ASSUME ~ (k < m) PROVE m \in 1..k /\ argv[m] = "-args"
      BY <2>1, <3>2
    <3> QED
      BY <3>1, <3>2
  <2>6. Asked(read) <=> \E k \in 1..m - 1 : argv[k] \in Requests
    BY <1>1, <2>4
  <2>7. (\E k \in 1..m - 1 : argv[k] \in Requests) <=> ReadsJson(argv)
    <3>1. \A k \in 1..Len(argv) : k < m <=> k \in 1..m - 1
      BY <2>1
    <3>2. \A k \in 1..m - 1 : k \in 1..Len(argv)
      BY <2>1
    <3> QED
      BY <2>5, <3>1, <3>2 DEF ReadsJson
  <2> QED
    BY <2>2, <2>3, <2>6, <2>7
<1> QED
  BY <1>2, <1>3

\* Wherever goTestArgv has to put it, `go test' reads a -json.
LEMMA JsonIsRead ==
  ASSUME NEW argv \in Seq(STRING), argv # <<>>, argv[1] = "go" /\ Len(argv) > 1 => argv[2] # "-args",
         ~Panics(argv), Asked(argv) => Asked(GoTestReads(argv))
  PROVE  Asked(GoTestReads(GoTestArgv(argv)))
<1> DEFINE S == STRING \cup {"go", "test", "-json"}
<1>0. argv \in Seq(S) /\ "go" \in S /\ "test" \in S /\ "-json" \in S
  BY SeqMonotonic
<1> HIDE DEF S
<1>1. PICK told : told = Shorthand(argv)
  OBVIOUS
<1>2. /\ told \in Seq(S) /\ (Asked(told) <=> Asked(argv))
      /\ argv[1] # "go" =>
           /\ Len(told) = Len(argv) + 2 /\ Len(argv) \in Nat /\ told[1] = "go" /\ told[2] = "test"
           /\ \A j \in 1..Len(argv) : told[j + 2] = argv[j]
  <2>1. CASE argv[1] = "go"
    BY <1>0, <1>1, <2>1 DEF Shorthand
  <2>2. CASE argv[1] # "go"
    <3>1. PICK front : front = <<"go", "test">>
      OBVIOUS
    <3>2. front \in Seq(S) /\ Len(front) = 2 /\ front[1] = "go" /\ front[2] = "test"
      BY <1>0, <3>1
    <3>3. told = front \o argv /\ argv \in Seq(S)
      BY <1>0, <1>1, <2>2, <3>1 DEF Shorthand
    <3>4. /\ told \in Seq(S) /\ Len(told) = 2 + Len(argv) /\ Len(argv) \in Nat
          /\ told[1] = "go" /\ told[2] = "test" /\ \A j \in 1..Len(argv) : told[j + 2] = argv[j]
      <4>1. /\ told \in Seq(S) /\ Len(told) = Len(front) + Len(argv)
            /\ \A k \in 1..Len(front) + Len(argv) :
                 told[k] = IF k <= Len(front) THEN front[k] ELSE argv[k - Len(front)]
        BY ONLY <3>2, <3>3, ConcatProperties
      <4>2. Len(argv) \in Nat
        BY <3>3
      <4>3. \A j \in 1..Len(argv) : j + 2 \in 1..2 + Len(argv) /\ ~ (j + 2 <= 2) /\ (j + 2) - 2 = j
        BY <4>2
      <4> QED
        BY <3>2, <4>1, <4>2, <4>3
    <3>5. ASSUME NEW read \in Seq(S) PROVE Asked(read) <=> \E k \in 1..Len(read) : read[k] \in Requests
      BY AskedMeans
    <3>6. \A k \in 1..Len(told) : told[k] \in Requests => k - 2 \in 1..Len(argv) /\ told[k] = argv[k - 2]
      <4> SUFFICES ASSUME NEW k \in 1..Len(told), told[k] \in Requests
                   PROVE  k - 2 \in 1..Len(argv) /\ told[k] = argv[k - 2]
        OBVIOUS
      <4>1. k # 1 /\ k # 2
        BY <3>4 DEF Requests
      <4>2. k - 2 \in 1..Len(argv) /\ (k - 2) + 2 = k
        BY <3>4, <4>1
      <4> QED
        BY <3>4, <4>2
    <3>7. \A j \in 1..Len(argv) : j + 2 \in 1..Len(told) /\ told[j + 2] = argv[j]
      BY <3>4
    <3> QED
      <4>1. Asked(told) <=> Asked(argv)
        BY <3>3, <3>4, <3>5, <3>6, <3>7
      <4> QED
        BY <3>4, <4>1
  <2> QED
    BY <2>1, <2>2
<1>3. CASE Asked(argv)
  <2>1. GoTestArgv(argv) = told
    BY <1>1, <1>2, <1>3 DEF GoTestArgv
  <2>2. PICK k \in 1..Len(argv) : argv[k] \in Requests /\ \A j \in 1..k : argv[j] # "-args"
    BY <1>3, WhatIsRead DEF ReadsJson
  <2>3. CASE argv[1] = "go"
    BY <1>1, <1>3, <2>1, <2>3 DEF Shorthand
  <2>4. CASE argv[1] # "go"
    <3>2. /\ Len(told) = Len(argv) + 2 /\ told[1] = "go" /\ told[2] = "test" /\ Len(argv) \in Nat
          /\ \A j \in 1..Len(argv) : told[j + 2] = argv[j]
      BY <1>2, <2>4
    <3>3. k + 2 \in 1..Len(told) /\ told[k + 2] \in Requests
      BY <2>2, <3>2
    <3>4. \A j \in 1..k + 2 : told[j] # "-args"
      <4> SUFFICES ASSUME NEW j \in 1..k + 2 PROVE told[j] # "-args"
        OBVIOUS
      <4>1. CASE j \in {1, 2}
        BY <3>2, <4>1
      <4>2. CASE j \notin {1, 2}
        <5>1. j - 2 \in 1..k /\ j - 2 \in 1..Len(argv) /\ (j - 2) + 2 = j
          BY <4>2
        <5> QED
          BY <2>2, <3>2, <5>1
      <4> QED
        BY <4>1, <4>2
    <3> QED
      BY <1>2, <2>1, <3>3, <3>4, WhatIsRead DEF ReadsJson
  <2> QED
    BY <2>3, <2>4
<1>4. CASE ~Asked(argv)
  <2>1. Len(told) >= 2 /\ Len(told) \in Nat
    BY <1>1, <1>2, <1>4 DEF Panics
  <2>2. told[1] # "-args" /\ told[2] # "-args"
    <3>1. CASE argv[1] = "go"
      BY <1>1, <2>1, <3>1 DEF Shorthand
    <3>2. CASE argv[1] # "go"
      BY <1>1, <3>2 DEF Shorthand
    <3> QED
      BY <3>1, <3>2
  <2>3. PICK front, back, put :
          /\ front = SubSeq(told, 1, 2) /\ back = SubSeq(told, 3, Len(told))
          /\ put = front \o <<"-json">> \o back
    OBVIOUS
  <2>4. GoTestArgv(argv) = put
    <3>1. GoTestArgv(argv) = InsertAt(told, 3, "-json")
      BY <1>1, <1>2, <1>4 DEF GoTestArgv
    <3> QED
      BY <2>3, <3>1 DEF InsertAt
  <2>5. front \in Seq(S) /\ Len(front) = 2 /\ front[1] = told[1] /\ front[2] = told[2]
    BY <1>0, <1>2, <2>1, <2>3
  <2>6. back \in Seq(S)
    BY <1>0, <1>2, <2>1, <2>3
  <2>7. PICK flag, head : flag = <<"-json">> /\ head = front \o flag
    OBVIOUS
  <2>8. flag \in Seq(S) /\ Len(flag) = 1 /\ flag[1] = "-json"
    BY <1>0, <2>7
  <2>9. head \in Seq(S) /\ Len(head) = 3 /\ head[1] = told[1] /\ head[2] = told[2] /\ head[3] = "-json"
    <3>1. /\ head \in Seq(S) /\ Len(head) = Len(front) + Len(flag)
          /\ \A k \in 1..Len(front) + Len(flag) :
               head[k] = IF k <= Len(front) THEN front[k] ELSE flag[k - Len(front)]
      BY ONLY <2>5, <2>7, <2>8, ConcatProperties
    <3> QED
      BY <2>5, <2>8, <3>1
  <2>10. /\ put \in Seq(S) /\ 3 \in 1..Len(put)
         /\ put[1] = told[1] /\ put[2] = told[2] /\ put[3] = "-json"
    <3>1. put = head \o back
      BY <2>3, <2>7
    <3>2. /\ put \in Seq(S) /\ Len(put) = Len(head) + Len(back) /\ Len(back) \in Nat
          /\ \A k \in 1..Len(head) + Len(back) :
               put[k] = IF k <= Len(head) THEN head[k] ELSE back[k - Len(head)]
      BY ONLY <2>6, <2>9, <3>1, ConcatProperties, LenProperties
    <3> QED
      BY <2>9, <3>2
  <2>11. \A j \in 1..3 : put[j] # "-args"
    BY <2>2, <2>10
  <2> QED
    BY <1>0, <2>4, <2>10, <2>11, WhatIsRead DEF ReadsJson, Requests
<1> QED
  BY <1>3, <1>4
\* Nobody told the library otherwise, and the -json there is where `go test' reads it.
Left(i) == Get(situation[i].env, "QUALFLARE_GO") = Unset

Misplaced(i) == Asked(situation[i].argv) /\ ~Asked(GoTestReads(situation[i].argv))

\* Then nothing but a test can keep a gate closed that is not decided: the process was
\* started with -json, and the variable is what a test made it, if it is anything.
Opens(process) ==
  process.gate = Undecided /\ process.variable = process.early /\ process.json = TRUE

\* The first call decided as it had to.
Decided(process) == process.gate = IF process.early \in Off THEN "closed" ELSE "open"

SpeechOK ==
  \A i \in Invocations : Left(i) /\ ~Misplaced(i) =>
    \/ Decided(test[i])
    \/ Opens(test[i])
    \/ test[i].gate = Undecided /\ pc[i] # "testing"

LEMMA StartedProcess ==
  ASSUME situation \in Situations, NEW i \in Invocations, Starts(i), Left(i), ~Misplaced(i), Shapes
  PROVE  \/ Opens(test'[i])
         \/ test' = test /\ pc'[i] # "testing"
<1> DEFINE s == situation[i]
           variable == Get(s.env, "QUALFLARE_GO")
           heard == Asked(GoTestReads(GoTestArgv(s.argv)))
           process == TestProcess(IF variable = Unset THEN None ELSE variable[1], heard)
<1>1. s \in Range(situation)
  BY DEF Range, Invocations
<1>2. s.argv \in Seq(STRING) /\ s.argv # <<>> /\ (s.argv[1] = "go" /\ Len(s.argv) > 1 => s.argv[2] # "-args")
  BY <1>1, SituationsAssumption
<1>3. \/ test' = test /\ pc'[i] # "testing"
      \/ ~Panics(s.argv) /\ test' = [test EXCEPT ![i] = process]
  BY DEF Starts, Exit, Shapes
<1>4. ASSUME ~Panics(s.argv), test' = [test EXCEPT ![i] = process] PROVE Opens(test'[i])
  <2>1. heard = TRUE
    <3>1. heard
      BY <1>2, <1>4, JsonIsRead DEF Misplaced
    <3>2. heard \in BOOLEAN
      BY DEF Asked
    <3> QED
      BY <3>1, <3>2
  <2> HIDE DEF heard
  <2>2. test'[i] = process
    BY <1>4 DEF Shapes
  <2>3. process = TestProcess(None, TRUE)
    BY <2>1 DEF Left
  <2> QED
    BY <2>2, <2>3 DEF Opens, TestProcess, None
<1> QED
  BY <1>3, <1>4

\* A wrapper that was not told otherwise hears every message of its tests that fits on
\* a line: the gate of the test process opens at the first call, whatever -json it took
\* and wherever it had to be put, and no change of the environment closes it again; it
\* stays closed exactly when a test had switched the library off before that call.
THEOREM MetadataDoesArrive == Spec => []MetadataArrives
<1> DEFINE P == Shapes /\ ProcessesOK
           Q == situation \in Situations /\ SpeechOK
<1>1. Init => Q
  BY DEF Init, SpeechOK, NoTest, TestProcess, Undecided
<1>2. P /\ Q /\ [Next]_vars => Q'
  <2> SUFFICES ASSUME P, Q, [Next]_vars PROVE Q'
    OBVIOUS
  <2>1. situation' = situation /\ Invocations' = Invocations
    BY StartedStay
  <2>2. ASSUME NEW j \in Invocations, Left(j), ~Misplaced(j)
        PROVE  \/ Decided(test'[j])
               \/ Opens(test'[j])
               \/ test'[j].gate = Undecided /\ pc'[j] # "testing"
    <3>0. \/ Decided(test[j])
          \/ Opens(test[j])
          \/ test[j].gate = Undecided /\ pc[j] # "testing"
      BY <2>2 DEF SpeechOK
    <3>1. CASE UNCHANGED vars
      BY <3>0, <3>1 DEF vars, Opens, Decided
    <3>2. CASE Next
      <4>1. PICK i \in Invocations :
              \/ Starts(i) \/ Calls(i) \/ CreateFile(i) \/ FillFile(i)
              \/ WriteFails(i) \/ Exits(i) \/ Killed(i)
              \/ \E value \in Values : Sets(i, value)
              \/ \E status \in {"zero", "nonzero"} : TestsEnd(i, status)
        BY <3>2 DEF Next
      <4>2. IsProcess(test[j]) /\ GateKept(test[j])
        BY DEF ProcessesOK
      <4>3. CASE Starts(i)
        <5>1. CASE i = j
          BY <2>2, <3>0, <4>3, <5>1, StartedProcess DEF Starts, Opens, Decided
        <5>2. CASE i # j
          <6>1. test'[j] = test[j] /\ pc'[j] = pc[j]
            BY <4>3, <5>2 DEF Starts, Exit, Shapes
          <6> QED
            BY <3>0, <6>1 DEF Opens, Decided
        <5> QED
          BY <5>1, <5>2
      <4>4. CASE Calls(i)
        <5>1. PICK fits : pc' = pc /\ test' = [test EXCEPT ![i] = Call(test[i], fits)]
          BY <4>4 DEF Calls
        <5>2. CASE i = j
          <6>1. test'[j] = Call(test[j], fits) /\ pc[j] = "testing"
            BY <4>4, <5>1, <5>2 DEF Shapes, Calls
          <6>2. Enabled(test[j]) = IF test[j].early \in Off THEN "closed" ELSE "open"
            BY <3>0, <6>1 DEF Opens, Decided, Enabled, ResolveGate, Undecided, On, Off
          <6> QED
            BY <4>2, <6>1, <6>2, CalledProcess DEF Decided
        <5>3. CASE i # j
          BY <3>0, <5>1, <5>3 DEF Shapes, Opens, Decided
        <5> QED
          BY <5>2, <5>3
      <4>5. ASSUME NEW value \in Values, Sets(i, value)
            PROVE  \/ Decided(test'[j])
                   \/ Opens(test'[j])
                   \/ test'[j].gate = Undecided /\ pc'[j] # "testing"
        <5>1. /\ pc' = pc /\ test' = [test EXCEPT ![i] = WithVariable(test[i], value)]
              /\ pc[i] = "testing"
          BY <4>5 DEF Sets
        <5>2. CASE i = j
          <6>1. test'[j] = WithVariable(test[j], value)
            BY <5>1, <5>2 DEF Shapes
          <6>2. PICK changed : changed = WithVariable(test[j], value)
            OBVIOUS
          <6>3. /\ changed.gate = test[j].gate /\ changed.json = test[j].json
                /\ test[j].gate = Undecided => changed.variable = value /\ changed.early = value
                /\ test[j].gate # Undecided => changed.early = test[j].early
            BY <4>2, <6>2, ChangedProcess
          <6> QED
            BY <3>0, <5>1, <5>2, <6>1, <6>2, <6>3 DEF Decided, Opens, Undecided
        <5>3. CASE i # j
          BY <3>0, <5>1, <5>3 DEF Shapes, Opens, Decided
        <5> QED
          BY <5>2, <5>3
      <4>6. CASE \E status \in {"zero", "nonzero"} : TestsEnd(i, status)
        <5>1. /\ pc' = [pc EXCEPT ![i] = "collecting"] /\ test' = [test EXCEPT ![i] = NoTest]
          BY <4>6 DEF TestsEnd
        <5> QED
          BY <3>0, <5>1 DEF Shapes, Opens, Decided, NoTest, TestProcess, Undecided
      <4>7. CASE Killed(i)
        <5>1. /\ pc' = [pc EXCEPT ![i] = "exited"] /\ test' = [test EXCEPT ![i] = NoTest]
          BY <4>7 DEF Killed, Exit
        <5> QED
          BY <3>0, <5>1 DEF Shapes, Opens, Decided, NoTest, TestProcess, Undecided
      <4>8. CASE CreateFile(i) \/ FillFile(i) \/ WriteFails(i) \/ Exits(i)
        <5>1. /\ test' = test
              /\ \E where \in {"writing", "written", "exited"} : pc' = [pc EXCEPT ![i] = where]
          BY <4>8 DEF CreateFile, FillFile, WriteFails, Exits, Exit
        <5> QED
          BY <3>0, <5>1 DEF Shapes, Opens, Decided
      <4> QED
        BY <4>1, <4>3, <4>4, <4>5, <4>6, <4>7, <4>8
    <3> QED
      BY <3>1, <3>2
  <2> QED
    BY <2>1, <2>2 DEF SpeechOK, Left, Misplaced, Opens, Decided
<1>3. P /\ Q => MetadataArrives
  BY DEF MetadataArrives, SpeechOK, ProcessesOK, GateKept, Started, Left, Misplaced, Opens, Decided, Undecided
<1> QED
  BY <1>1, <1>2, <1>3, ProcessesInvariance, PTL DEF Spec
-----------------------------------------------------------------------------
\* The first that is given.
LEMMA PickFirst ==
  ASSUME NEW n \in Nat, NEW values, DOMAIN values = 1..n,
         NEW k \in 1..n, values[k] # Unset, \A j \in 1..n : j < k => values[j] = Unset
  PROVE  Pick(values) = values[k]
<1> DEFINE given == Given(values)
<1>1. given \in SUBSET (1..n) /\ k \in given
  BY DEF Given
<1>2. Min(given) \in given /\ \A i \in given : Min(given) <= i
  BY <1>1, MinOfPositions
<1>3. Min(given) = k
  <2>1. PICK m : m = Min(given)
    OBVIOUS
  <2>2. m \in 1..n /\ m <= k /\ values[m] # Unset
    BY <1>1, <1>2, <2>1 DEF Given
  <2>3. ~ (m < k)
    BY <2>2
  <2> QED
    BY <2>1, <2>2, <2>3
<1> QED
  BY <1>1, <1>3 DEF Pick

LEMMA PickTwo ==
  ASSUME NEW a, NEW b
  PROVE  Pick(<<a, b>>) = IF a # Unset THEN a ELSE b
<1>1. PICK v : v = <<a, b>>
  OBVIOUS
<1>2. DOMAIN v = 1..2 /\ v[1] = a /\ v[2] = b
  BY <1>1
<1>3. CASE a # Unset
  <2>1. 2 \in Nat /\ 1 \in 1..2 /\ v[1] # Unset
    BY <1>2, <1>3
  <2>2. \A j \in 1..2 : j < 1 => v[j] = Unset
    BY <1>2, <1>3
  <2>3. Pick(v) = v[1]
    BY <1>2, <2>1, <2>2, PickFirst
  <2> QED
    BY <1>1, <1>2, <1>3, <2>3
<1>4. CASE a = Unset /\ b # Unset
  <2>1. 2 \in Nat /\ 2 \in 1..2 /\ v[2] # Unset
    BY <1>2, <1>4
  <2>2. \A j \in 1..2 : j < 2 => v[j] = Unset
    BY <1>2, <1>4
  <2>3. Pick(v) = v[2]
    BY <1>2, <2>1, <2>2, PickFirst
  <2> QED
    BY <1>1, <1>2, <1>4, <2>3
<1>5. CASE a = Unset /\ b = Unset
  <2>1. Given(v) = {}
    BY <1>2, <1>5 DEF Given
  <2> QED
    BY <1>1, <1>5, <2>1 DEF Pick
<1> QED
  BY <1>3, <1>4, <1>5

LEMMA PickThree ==
  ASSUME NEW a, NEW b, NEW c
  PROVE  Pick(<<a, b, c>>) = IF a # Unset THEN a ELSE IF b # Unset THEN b ELSE c
<1>1. PICK v : v = <<a, b, c>>
  OBVIOUS
<1>2. DOMAIN v = 1..3 /\ v[1] = a /\ v[2] = b /\ v[3] = c
  BY <1>1
<1>3. CASE a # Unset
  <2>1. 3 \in Nat /\ 1 \in 1..3 /\ v[1] # Unset
    BY <1>2, <1>3
  <2>2. \A j \in 1..3 : j < 1 => v[j] = Unset
    BY <1>2, <1>3
  <2>3. Pick(v) = v[1]
    BY <1>2, <2>1, <2>2, PickFirst
  <2> QED
    BY <1>1, <1>2, <1>3, <2>3
<1>4. CASE a = Unset /\ b # Unset
  <2>1. 3 \in Nat /\ 2 \in 1..3 /\ v[2] # Unset
    BY <1>2, <1>4
  <2>2. \A j \in 1..3 : j < 2 => v[j] = Unset
    BY <1>2, <1>4
  <2>3. Pick(v) = v[2]
    BY <1>2, <2>1, <2>2, PickFirst
  <2> QED
    BY <1>1, <1>2, <1>4, <2>3
<1>5. CASE a = Unset /\ b = Unset /\ c # Unset
  <2>1. 3 \in Nat /\ 3 \in 1..3 /\ v[3] # Unset
    BY <1>2, <1>5
  <2>2. \A j \in 1..3 : j < 3 => v[j] = Unset
    BY <1>2, <1>5
  <2>3. Pick(v) = v[3]
    BY <1>2, <2>1, <2>2, PickFirst
  <2> QED
    BY <1>1, <1>2, <1>5, <2>3
<1>6. CASE a = Unset /\ b = Unset /\ c = Unset
  <2>1. Given(v) = {}
    BY <1>2, <1>6 DEF Given
  <2> QED
    BY <1>1, <1>6, <2>1 DEF Pick
<1> QED
  BY <1>3, <1>4, <1>5, <1>6

\* git is asked only when it is needed, and then says all that it would have said.
LEMMA LazinessIsFree ==
  ASSUME NEW flags, NEW env, NEW git, git = [branch |-> git.branch, commit |-> git.commit], NEW fresh
  PROVE  LET ci == DetectCI(env)
             c == Resolve(flags, env, git, fresh)
         IN  /\ c.branch = Pick(<<Told(flags, env, "BRANCH"), ci.branch, DetectGit(git).branch>>)
             /\ c.commit = Pick(<<Told(flags, env, "COMMIT"), ci.commit, DetectGit(git).commit>>)
<1> DEFINE ci == DetectCI(env)
           branch == Told(flags, env, "BRANCH")
           commit == Told(flags, env, "COMMIT")
           asked == ConsultGit(Pick(<<branch, ci.branch>>), Pick(<<commit, ci.commit>>), git)
           all == DetectGit(git)
<1>1. PICK cb, cc : cb = ci.branch /\ cc = ci.commit
  OBVIOUS
<1>2. /\ Resolve(flags, env, git, fresh).branch = Pick(<<branch, cb, asked.branch>>)
      /\ Resolve(flags, env, git, fresh).commit = Pick(<<commit, cc, asked.commit>>)
  BY <1>1 DEF Resolve
<1>3. PICK gb, gc : all = [branch |-> gb, commit |-> gc]
  BY DEF DetectGit
<1>4. PICK b, c : b = Pick(<<branch, cb>>) /\ c = Pick(<<commit, cc>>)
  OBVIOUS
<1>5. asked = ConsultGit(b, c, git)
  BY <1>1, <1>4
<1> HIDE DEF ci, branch, commit, asked, all
<1>6. /\ b = IF branch # Unset THEN branch ELSE cb
      /\ c = IF commit # Unset THEN commit ELSE cc
  BY <1>4, PickTwo
<1>7. /\ b = Unset => asked.branch = all.branch
      /\ c = Unset => asked.commit = all.commit
  BY <1>3, <1>5 DEF ConsultGit, NoGit, Unset, all
<1>8. Pick(<<branch, cb, asked.branch>>) = Pick(<<branch, cb, all.branch>>)
  BY <1>6, <1>7, PickThree
<1>9. Pick(<<commit, cc, asked.commit>>) = Pick(<<commit, cc, all.commit>>)
  BY <1>6, <1>7, PickThree
<1> QED
  BY <1>1, <1>2, <1>8, <1>9 DEF ci, branch, commit, all

ResolvedOK ==
  \A i \in Started : cfg[i] = Resolve(situation[i].flags, situation[i].env, situation[i].git, NewRunID(i))

LEMMA ResolvedInvariance == Spec => [](Shapes /\ situation \in Situations /\ ResolvedOK)
<1> DEFINE P == Shapes /\ situation \in Situations /\ ResolvedOK
<1>1. Init => P
  BY DEF Init, Shapes, ResolvedOK, Started
<1>2. P /\ [Next]_vars => P'
  <2> SUFFICES ASSUME P, [Next]_vars PROVE P'
    OBVIOUS
  <2>1. /\ Shapes' /\ situation' = situation /\ Invocations' = Invocations
        /\ \A i \in Started : cfg'[i] = cfg[i]
    BY StartedStay
  <2>2. ASSUME NEW j \in Started', j \notin Started
        PROVE  cfg'[j] = Resolve(situation[j].flags, situation[j].env, situation[j].git, NewRunID(j))
    <3>1. j \in Invocations /\ pc[j] = "idle" /\ pc'[j] # "idle"
      BY <2>1, <2>2 DEF Started
    <3>2. ~ UNCHANGED vars
      BY <3>1 DEF vars
    <3>3. PICK i \in Invocations :
            \/ Starts(i) \/ Calls(i) \/ CreateFile(i) \/ FillFile(i)
            \/ WriteFails(i) \/ Exits(i) \/ Killed(i)
            \/ \E value \in Values : Sets(i, value)
            \/ \E status \in {"zero", "nonzero"} : TestsEnd(i, status)
      BY <3>2 DEF Next
    <3>4. CASE Starts(i)
      <4>1. i = j
        BY <3>1, <3>4 DEF Starts, Exit, Shapes
      <4>2. cfg' = [cfg EXCEPT ![j] = Resolve(situation[j].flags, situation[j].env, situation[j].git, NewRunID(j))]
        BY <3>4, <4>1 DEF Starts
      <4> QED
        BY <3>1, <4>2 DEF Shapes
    <3>5. CASE Calls(i) \/ \E value \in Values : Sets(i, value)
      BY <3>1, <3>5 DEF Calls, Sets
    <3>6. CASE \E status \in {"zero", "nonzero"} : TestsEnd(i, status)
      BY <3>1, <3>6 DEF TestsEnd, Shapes
    <3>7. CASE CreateFile(i) \/ FillFile(i) \/ WriteFails(i) \/ Exits(i) \/ Killed(i)
      BY <3>1, <3>7 DEF CreateFile, FillFile, WriteFails, Exits, Killed, Exit, Shapes
    <3> QED
      BY <3>3, <3>4, <3>5, <3>6, <3>7
  <2>3. ASSUME NEW j \in Started'
        PROVE  cfg'[j] = Resolve(situation[j].flags, situation[j].env, situation[j].git, NewRunID(j))
    <3>1. CASE j \in Started
      BY <2>1, <3>1 DEF ResolvedOK
    <3>2. CASE j \notin Started
      BY <2>2, <3>2
    <3> QED
      BY <3>1, <3>2
  <2>4. ResolvedOK'
    BY ONLY <2>1, <2>3 DEF ResolvedOK
  <2> QED
    BY <2>1, <2>4
<1> QED
  BY <1>1, <1>2, PTL DEF Spec

\* Whichever flags, variables and providers an invocation has, asking git only for
\* what nothing better reported gives the branch and the commit that asking it
\* always would.
THEOREM LazinessDoesNotShow == Spec => []LazyIsEager
<1> DEFINE P == Shapes /\ situation \in Situations /\ ResolvedOK
<1>1. P => LazyIsEager
  <2> SUFFICES ASSUME P, NEW i \in Started
               PROVE  /\ cfg[i].branch = Pick(<<Told(situation[i].flags, situation[i].env, "BRANCH"),
                           DetectCI(situation[i].env).branch, DetectGit(situation[i].git).branch>>)
                      /\ cfg[i].commit = Pick(<<Told(situation[i].flags, situation[i].env, "COMMIT"),
                           DetectCI(situation[i].env).commit, DetectGit(situation[i].git).commit>>)
    BY DEF LazyIsEager
  <2>1. situation[i] \in Range(situation)
    BY DEF Range, Started, Invocations
  <2>2. situation[i].git = [branch |-> situation[i].git.branch, commit |-> situation[i].git.commit]
    BY <2>1, SituationsAssumption
  <2>3. cfg[i] = Resolve(situation[i].flags, situation[i].env, situation[i].git, NewRunID(i))
    BY DEF ResolvedOK
  <2> QED
    BY <2>2, <2>3, LazinessIsFree
<1> QED
  BY <1>1, ResolvedInvariance, PTL
-----------------------------------------------------------------------------
(***************************************************************************)
(* What a run id is made of tells launches apart.                           *)
(***************************************************************************)
Prefix == [gitlab |-> "gl-", circle |-> "circle-", jenkins |-> "jenkins-"]

\* A launch and the run id of its i-th invocation.
IdFits(launch, id, i) ==
  \/ \E x : launch = <<"told", x>> /\ id = <<x>>
  \/ \E x : launch = <<"local", x>> /\ id = <<"local-", i>>
  \/ \E x, y : launch = <<"github", x, y>> /\ id = <<"gh-", x, "-", y>>
  \/ \E p \in DOMAIN Prefix : \E x : launch = <<p, x>> /\ id = <<Prefix[p], x>>

LEMMA IdsTellApart ==
  ASSUME NEW l, NEW m, NEW a, NEW b, NEW i, NEW j, i # j,
         IdFits(l, a, i), IdFits(m, b, j), l[1] = "local" \/ m[1] = "local" => l # m
  PROVE  a = b <=> l = m
<1> DEFINE told(launch, id) == \E x : launch = <<"told", x>> /\ id = <<x>>
           local(launch, id, n) == \E x : launch = <<"local", x>> /\ id = <<"local-", n>>
           github(launch, id) == \E x, y : launch = <<"github", x, y>> /\ id = <<"gh-", x, "-", y>>
           other(launch, id) == \E p \in DOMAIN Prefix : \E x : launch = <<p, x>> /\ id = <<Prefix[p], x>>
<1>1. \A launch, id : told(launch, id) =>
        Len(id) = 1 /\ launch[1] = "told" /\ launch = <<"told", id[1]>> /\ id = <<id[1]>>
  OBVIOUS
<1>2. \A launch, id, n : local(launch, id, n) =>
        Len(id) = 2 /\ id[1] = "local-" /\ launch[1] = "local" /\ id[2] = n
  OBVIOUS
<1>3. \A launch, id : github(launch, id) =>
        /\ Len(id) = 4 /\ launch[1] = "github"
        /\ launch = <<"github", id[2], id[4]>> /\ id = <<"gh-", launch[2], "-", launch[3]>>
  OBVIOUS
<1>4. \A launch, id : other(launch, id) =>
        /\ Len(id) = 2 /\ launch[1] \in DOMAIN Prefix /\ id[1] = Prefix[launch[1]]
        /\ launch = <<launch[1], id[2]>> /\ id = <<Prefix[launch[1]], launch[2]>>
  OBVIOUS
<1>5. /\ \A p \in DOMAIN Prefix : /\ p # "told" /\ p # "local" /\ p # "github" /\ Prefix[p] # "local-"
      /\ \A p, q \in DOMAIN Prefix : Prefix[p] = Prefix[q] => p = q
  BY DEF Prefix
<1>6. /\ told(l, a) \/ local(l, a, i) \/ github(l, a) \/ other(l, a)
      /\ told(m, b) \/ local(m, b, j) \/ github(m, b) \/ other(m, b)
  BY DEF IdFits
<1> HIDE DEF told, local, github, other
<1>7. CASE told(l, a)
  <2>1. CASE told(m, b)
    BY <1>1, <1>7, <2>1
  <2>2. CASE local(m, b, j)
    BY <1>1, <1>2, <1>7, <2>2
  <2>3. CASE github(m, b)
    BY <1>1, <1>3, <1>7, <2>3
  <2>4. CASE other(m, b)
    BY <1>1, <1>4, <1>5, <1>7, <2>4
  <2> QED
    BY <1>6, <2>1, <2>2, <2>3, <2>4
<1>8. CASE local(l, a, i)
  <2>1. CASE told(m, b)
    BY <1>1, <1>2, <1>8, <2>1
  <2>2. CASE local(m, b, j)
    BY <1>2, <1>8, <2>2
  <2>3. CASE github(m, b)
    BY <1>2, <1>3, <1>8, <2>3
  <2>4. CASE other(m, b)
    BY <1>2, <1>4, <1>5, <1>8, <2>4
  <2> QED
    BY <1>6, <2>1, <2>2, <2>3, <2>4
<1>9. CASE github(l, a)
  <2>1. CASE told(m, b)
    BY <1>1, <1>3, <1>9, <2>1
  <2>2. CASE local(m, b, j)
    BY <1>2, <1>3, <1>9, <2>2
  <2>3. CASE github(m, b)
    BY <1>3, <1>9, <2>3
  <2>4. CASE other(m, b)
    BY <1>3, <1>4, <1>5, <1>9, <2>4
  <2> QED
    BY <1>6, <2>1, <2>2, <2>3, <2>4
<1>10. CASE other(l, a)
  <2>1. CASE told(m, b)
    BY <1>1, <1>4, <1>5, <1>10, <2>1
  <2>2. CASE local(m, b, j)
    BY <1>2, <1>4, <1>5, <1>10, <2>2
  <2>3. CASE github(m, b)
    BY <1>3, <1>4, <1>5, <1>10, <2>3
  <2>4. CASE other(m, b)
    BY <1>4, <1>5, <1>10, <2>4
  <2> QED
    BY <1>6, <2>1, <2>2, <2>3, <2>4
<1> QED
  BY <1>6, <1>7, <1>8, <1>9, <1>10

\* The id that each provider's branch of Detect puts together.
LEMMA DetectedId ==
  ASSUME NEW env
  PROVE  LET runs(p) == Get(env, Marker[p]) = <<"true">>
             id == DetectCI(env).runID
         IN  /\ runs("github") => id = GithubRunID(env)
             /\ ~runs("github") /\ runs("gitlab") => id = Prefixed("gl-", Get(env, "CI_PIPELINE_ID"))
             /\ ~runs("github") /\ ~runs("gitlab") /\ runs("circle") =>
                  id = Prefixed("circle-", Get(env, "CIRCLE_WORKFLOW_ID"))
             /\ ~runs("github") /\ ~runs("gitlab") /\ ~runs("circle") =>
                  id = IF Get(env, "JENKINS_URL") # Unset THEN Prefixed("jenkins-", Get(env, "BUILD_TAG"))
                       ELSE Unset
<1>1. \A name, number, url, branch, commit, runID :
        Provider(env, name, number, url, branch, commit, runID).runID = runID
  BY DEF Provider, NoCI
<1>2. \A name, number, url, branch, commit, runID, pr :
        [Provider(env, name, number, url, branch, commit, runID) EXCEPT !.prNumber = pr].runID = runID
  BY DEF Provider, NoCI
<1>3. /\ Github(env).runID = GithubRunID(env)
      /\ Gitlab(env).runID = Prefixed("gl-", Get(env, "CI_PIPELINE_ID"))
      /\ Circleci(env).runID = Prefixed("circle-", Get(env, "CIRCLE_WORKFLOW_ID"))
      /\ Jenkins(env).runID = Prefixed("jenkins-", Get(env, "BUILD_TAG"))
      /\ NoCI.runID = Unset
  BY <1>1, <1>2 DEF Github, Gitlab, Circleci, Jenkins, NoCI
<1>4. /\ Marker["github"] = "GITHUB_ACTIONS" /\ Marker["gitlab"] = "GITLAB_CI"
      /\ Marker["circle"] = "CIRCLECI"
  BY DEF Marker
<1>5. PICK g, l, c, j : /\ g = Get(env, "GITHUB_ACTIONS") /\ l = Get(env, "GITLAB_CI")
                       /\ c = Get(env, "CIRCLECI") /\ j = Get(env, "JENKINS_URL")
  OBVIOUS
<1>6. /\ g = <<"true">> => DetectCI(env) = Github(env)
      /\ g # <<"true">> /\ l = <<"true">> => DetectCI(env) = Gitlab(env)
      /\ g # <<"true">> /\ l # <<"true">> =>
           DetectCI(env) = IF c = <<"true">> THEN Circleci(env)
                           ELSE IF j # Unset THEN Jenkins(env) ELSE NoCI
  BY <1>5 DEF DetectCI
<1> QED
  BY <1>3, <1>4, <1>5, <1>6
LEMMA WordsJoined ==
  /\ \A a, b : <<a>> \o <<b>> = <<a, b>>
  /\ \A a, b, c, d : <<a, b>> \o <<c>> \o <<d>> = <<a, b, c, d>>
<1>1. ASSUME NEW a, NEW b PROVE <<a>> \o <<b>> = <<a, b>>
  <2>1. PICK T, s, t, u : T = {a, b} /\ s = <<a>> /\ t = <<b>> /\ u = s \o t
    OBVIOUS
  <2>2. /\ s \in Seq(T) /\ Len(s) = 1 /\ s[1] = a
        /\ t \in Seq(T) /\ Len(t) = 1 /\ t[1] = b
    BY <2>1
  <2>3. u \in Seq(T) /\ Len(u) = 2 /\ u[1] = a /\ u[2] = b
    BY ONLY <2>1, <2>2, ConcatAt
  <2>4. u = <<a, b>>
    BY ONLY <2>3
  <2> QED
    BY <2>1, <2>4
<1>2. ASSUME NEW a, NEW b, NEW c, NEW d
      PROVE  <<a, b>> \o <<c>> \o <<d>> = <<a, b, c, d>>
  <2>1. PICK T, s, t, u, v, w : /\ T = {a, b, c, d} /\ s = <<a, b>> /\ t = <<c>> /\ u = <<d>>
                               /\ v = s \o t /\ w = v \o u
    OBVIOUS
  <2>2. /\ s \in Seq(T) /\ Len(s) = 2 /\ s[1] = a /\ s[2] = b
        /\ t \in Seq(T) /\ Len(t) = 1 /\ t[1] = c
        /\ u \in Seq(T) /\ Len(u) = 1 /\ u[1] = d
    BY <2>1
  <2>3. v \in Seq(T) /\ Len(v) = 3 /\ v[1] = a /\ v[2] = b /\ v[3] = c
    BY ONLY <2>1, <2>2, ConcatAt
  <2>4. w \in Seq(T) /\ Len(w) = 4 /\ w[1] = a /\ w[2] = b /\ w[3] = c /\ w[4] = d
    BY ONLY <2>1, <2>2, <2>3, ConcatAt
  <2>5. w = <<a, b, c, d>>
    BY ONLY <2>4
  <2> QED
    BY <2>1, <2>5
<1> QED
  BY <1>1, <1>2

\* The id an invocation resolves is the one of the launch it is of.
LEMMA ResolvedId ==
  ASSUME NEW s, NEW i,
         ToldBy(s) \/ ByHand(s) \/ \E p \in DOMAIN Marker : BuiltBy(s, p)
  PROVE  IdFits(s.launch, Resolve(s.flags, s.env, s.git, NewRunID(i)).runID, i)
<1>1. PICK told, ci, id : /\ told = Told(s.flags, s.env, "RUN_ID") /\ ci = DetectCI(s.env).runID
                         /\ id = Resolve(s.flags, s.env, s.git, NewRunID(i)).runID
  OBVIOUS
<1>2. id = IF told # Unset THEN told ELSE IF ci # Unset THEN ci ELSE <<"local-", i>>
  <2>1. id = Pick(<<told, ci, NewRunID(i)>>)
    BY <1>1 DEF Resolve
  <2> QED
    BY <2>1, PickThree DEF NewRunID
<1>3. PICK launch, x, y : launch = s.launch /\ x = launch[2] /\ y = launch[3]
  OBVIOUS
<1>4. \A z : <<z>> # Unset
  BY DEF Unset
<1>5. \A a, b : <<a>> \o <<b>> = <<a, b>>
  BY WordsJoined
<1>6. \A prefix, z : Prefixed(prefix, <<z>>) = <<prefix, z>> /\ <<prefix, z>> # Unset
  BY <1>4, <1>5 DEF Prefixed, Unset
<1>7. CASE ToldBy(s)
  <2>1. told = <<x>> /\ launch = <<"told", x>>
    BY <1>1, <1>3, <1>7 DEF ToldBy
  <2> QED
    BY <1>1, <1>2, <1>3, <1>4, <2>1 DEF IdFits
<1>8. CASE ByHand(s)
  <2>1. told = Unset /\ launch = <<"local", x>> /\ \A p \in DOMAIN Marker : Get(s.env, Marker[p]) = Unset
    BY <1>1, <1>3, <1>8 DEF ByHand, RunsOn
  <2>2. ci = Unset
    <3>1. /\ Get(s.env, Marker["github"]) = Unset /\ Get(s.env, Marker["gitlab"]) = Unset
          /\ Get(s.env, Marker["circle"]) = Unset /\ Get(s.env, "JENKINS_URL") = Unset
      BY <2>1 DEF Marker
    <3> QED
      BY <1>1, <1>4, <3>1, DetectedId
  <2> QED
    BY <1>1, <1>2, <1>3, <2>1, <2>2 DEF IdFits
<1>9. ASSUME NEW p \in DOMAIN Marker, BuiltBy(s, p)
      PROVE  IdFits(launch, id, i)
  <2>1. /\ told = Unset /\ Get(s.env, BuildID[p]) = <<x>>
        /\ p # "jenkins" => Get(s.env, Marker[p]) = <<"true">>
    BY <1>1, <1>3, <1>9 DEF BuiltBy
  <2>2. /\ Get(s.env, Marker[p]) # Unset
        /\ \A q \in DOMAIN Marker : q # p => Get(s.env, Marker[q]) = Unset
    BY <1>9 DEF BuiltBy, RunsOn
  <2>3. DOMAIN Marker = {"github", "gitlab", "circle", "jenkins"}
    BY DEF Marker
  <2>4. p # "github" => launch = <<p, x>>
    BY <1>3, <1>9 DEF BuiltBy
  <2>5. CASE p = "github"
    <3>1. Get(s.env, "GITHUB_RUN_ID") = <<x>>
      BY <2>1, <2>5 DEF BuildID
    <3>2. launch = <<"github", x, y>> /\ Pick(<<Get(s.env, "GITHUB_RUN_ATTEMPT"), <<"1">>>>) = <<y>>
      <4>1. /\ launch = <<"github", x, y>>
            /\ \/ Get(s.env, "GITHUB_RUN_ATTEMPT") = <<y>>
               \/ Get(s.env, "GITHUB_RUN_ATTEMPT") = Unset /\ y = "1"
        BY <1>3, <1>9, <2>5 DEF BuiltBy
      <4> QED
        BY <1>4, <4>1, PickTwo
    <3>3. ci = GithubRunID(s.env)
      BY <1>1, <2>1, <2>5, DetectedId
    <3>4. GithubRunID(s.env) = Prefixed("gh-", <<x>>) \o <<"-">> \o <<y>>
      BY <1>4, <3>1, <3>2 DEF GithubRunID
    <3>5. <<"gh-", x>> \o <<"-">> \o <<y>> = <<"gh-", x, "-", y>>
      BY WordsJoined
    <3>6. <<"gh-", x, "-", y>> # Unset
      BY DEF Unset
    <3> QED
      BY <1>2, <1>6, <2>1, <3>2, <3>3, <3>4, <3>5, <3>6 DEF IdFits
  <2>6. CASE p \in DOMAIN Prefix
    <3>1. ci = <<Prefix[p], x>>
      <4>1. Get(s.env, Marker["github"]) # <<"true">>
        BY <1>4, <2>2, <2>3, <2>6 DEF Prefix
      <4>2. CASE p = "gitlab"
        <5>1. Get(s.env, "CI_PIPELINE_ID") = <<x>> /\ Prefix[p] = "gl-"
          BY <2>1, <4>2 DEF BuildID, Prefix
        <5> QED
          BY <1>1, <1>6, <2>1, <4>1, <4>2, <5>1, DetectedId
      <4>3. CASE p = "circle"
        <5>1. Get(s.env, "CIRCLE_WORKFLOW_ID") = <<x>> /\ Prefix[p] = "circle-"
          BY <2>1, <4>3 DEF BuildID, Prefix
        <5>2. Get(s.env, Marker["gitlab"]) # <<"true">>
          BY <1>4, <2>2, <2>3, <4>3
        <5> QED
          BY <1>1, <1>6, <2>1, <4>1, <4>3, <5>1, <5>2, DetectedId
      <4>4. CASE p = "jenkins"
        <5>1. Get(s.env, "BUILD_TAG") = <<x>> /\ Prefix[p] = "jenkins-" /\ Get(s.env, "JENKINS_URL") # Unset
          BY <2>1, <2>2, <4>4 DEF BuildID, Prefix, Marker
        <5>2. Get(s.env, Marker["gitlab"]) # <<"true">> /\ Get(s.env, Marker["circle"]) # <<"true">>
          BY <1>4, <2>2, <2>3, <4>4
        <5> QED
          BY <1>1, <1>6, <4>1, <5>1, <5>2, DetectedId
      <4> QED
        BY <2>6, <4>2, <4>3, <4>4 DEF Prefix
    <3>2. launch = <<p, x>>
      BY <2>4, <2>6 DEF Prefix
    <3>3. <<Prefix[p], x>> # Unset
      BY DEF Unset
    <3> QED
      BY <1>2, <2>1, <2>6, <3>1, <3>2, <3>3 DEF IdFits
  <2>7. p = "github" \/ p \in DOMAIN Prefix
    BY <2>3 DEF Prefix
  <2> QED
    BY <2>5, <2>6, <2>7
<1> QED
  BY <1>1, <1>3, <1>7, <1>8, <1>9

\* Whatever the ids that providers and users give, the processes of a launch agree
\* on its run id without having talked, and no other process has it.
THEOREM RunIdsDoAgree == Spec => []RunIdsAgree
<1> DEFINE P == Shapes /\ situation \in Situations /\ ResolvedOK
<1>1. P => RunIdsAgree
  <2> SUFFICES ASSUME P, NEW i \in Started, NEW j \in Started
               PROVE  cfg[i].runID = cfg[j].runID <=> situation[i].launch = situation[j].launch
    BY DEF RunIdsAgree
  <2>1. PICK s, t : s = situation[i] /\ t = situation[j]
    OBVIOUS
  <2>2. i \in DOMAIN situation /\ j \in DOMAIN situation
    BY DEF Started, Invocations
  <2>3. PICK a, b : /\ a = Resolve(s.flags, s.env, s.git, NewRunID(i)).runID
                   /\ b = Resolve(t.flags, t.env, t.git, NewRunID(j)).runID
    OBVIOUS
  <2>4. a = cfg[i].runID /\ b = cfg[j].runID
    BY <2>1, <2>3 DEF ResolvedOK
  <2>5. IdFits(s.launch, a, i) /\ IdFits(t.launch, b, j)
    <3>1. /\ ToldBy(s) \/ ByHand(s) \/ \E p \in DOMAIN Marker : BuiltBy(s, p)
          /\ ToldBy(t) \/ ByHand(t) \/ \E p \in DOMAIN Marker : BuiltBy(t, p)
      BY <2>1, <2>2, LaunchesAssumption
    <3> QED
      BY <2>3, <3>1, ResolvedId
  <2>6. CASE i = j
    BY <2>6
  <2>7. CASE i # j
    <3>1. s.launch[1] = "local" \/ t.launch[1] = "local" => s.launch # t.launch
      <4>1. \A n, m \in DOMAIN situation :
               situation[n].launch[1] = "local" /\ n # m => situation[m].launch # situation[n].launch
        BY LaunchesAssumption DEF ToldBy, BuiltBy, ByHand, Marker
      <4> QED
        BY <2>1, <2>2, <2>7, <4>1
    <3> QED
      BY ONLY <2>1, <2>4, <2>5, <2>7, <3>1, IdsTellApart
  <2> QED
    BY <2>6, <2>7
<1> QED
  BY <1>1, ResolvedInvariance, PTL

\* The branch that each provider's part of Detect reports.
LEMMA DetectedBranch ==
  ASSUME NEW env
  PROVE  \/ DetectCI(env).branch \in {Unset, GithubBranch(env), Get(env, "CI_COMMIT_REF_NAME"),
                                      Get(env, "CIRCLE_BRANCH")}
         \/ DetectCI(env).provider = <<"jenkins">> /\ DetectCI(env).branch = Get(env, "GIT_BRANCH")
<1>1. \A name, number, url, branch, commit, runID :
        Provider(env, name, number, url, branch, commit, runID).branch = branch
  BY DEF Provider, NoCI
<1>2. \A name, number, url, branch, commit, runID, pr :
        [Provider(env, name, number, url, branch, commit, runID) EXCEPT !.prNumber = pr].branch = branch
  BY DEF Provider, NoCI
<1>3. /\ Github(env).branch = GithubBranch(env)
      /\ Gitlab(env).branch = Get(env, "CI_COMMIT_REF_NAME")
      /\ Circleci(env).branch = Get(env, "CIRCLE_BRANCH")
      /\ Jenkins(env).branch = Get(env, "GIT_BRANCH") /\ Jenkins(env).provider = <<"jenkins">>
      /\ NoCI.branch = Unset
  BY <1>1, <1>2 DEF Github, Gitlab, Circleci, Jenkins, Provider, NoCI
<1>4. DetectCI(env) \in {Github(env), Gitlab(env), Circleci(env), Jenkins(env), NoCI}
  BY DEF DetectCI
<1> QED
  BY <1>3, <1>4

\* Whatever the provider and however it checks the sources out, the branch of the
\* report is the one that is built, the one the user gave, or none: never "HEAD" and
\* never the merge ref of a pull request.  On Jenkins, and nowhere else, it may be the
\* remote's branch of that name.
THEOREM BranchesAreTrue == Spec => []BranchesTrue
<1> DEFINE P == Shapes /\ situation \in Situations /\ ResolvedOK
<1>1. P => BranchesTrue
  <2> SUFFICES ASSUME P, NEW i \in Started
               PROVE  LET s == situation[i]
                      IN  \/ cfg[i].branch \in {Unset, s.branch, Told(s.flags, s.env, "BRANCH")}
                          \/ DetectCI(s.env).provider = <<"jenkins">> /\ cfg[i].branch = RemoteBranch(s)
    BY Zenon DEF BranchesTrue
  <2>1. PICK s : s = situation[i]
    OBVIOUS
  <2>2. situation \in Situations /\ s \in Range(situation)
    BY <2>1 DEF Range, Started, Invocations
  <2>3. PICK told, ci, git : /\ told = Told(s.flags, s.env, "BRANCH") /\ ci = DetectCI(s.env).branch
                            /\ git = DetectGit(s.git).branch
    OBVIOUS
  <2>4. cfg[i].branch = Pick(<<told, ci, git>>)
    <3>1. s.git = [branch |-> s.git.branch, commit |-> s.git.commit]
      BY <2>2, SituationsAssumption
    <3>2. cfg[i] = Resolve(s.flags, s.env, s.git, NewRunID(i))
      BY <2>1 DEF ResolvedOK
    <3>3. /\ cfg[i].branch = Pick(<<Told(s.flags, s.env, "BRANCH"), DetectCI(s.env).branch,
                                   DetectGit(s.git).branch>>)
          /\ cfg[i].commit = Pick(<<Told(s.flags, s.env, "COMMIT"), DetectCI(s.env).commit,
                                   DetectGit(s.git).commit>>)
      BY <3>1, <3>2, LazinessIsFree
    <3> QED
      BY <2>3, <3>3
  <2>5. \/ ci \in {Unset, s.branch}
        \/ DetectCI(s.env).provider = <<"jenkins">> /\ ci = RemoteBranch(s)
    <3>1. /\ Get(s.env, "GITHUB_HEAD_REF") \in {Unset, s.branch}
          /\ Get(s.env, "GITHUB_HEAD_REF") = Unset =>
               Get(s.env, "GITHUB_REF_NAME") \in {Unset, s.branch}
          /\ Get(s.env, "CI_COMMIT_REF_NAME") \in {Unset, s.branch}
          /\ Get(s.env, "CIRCLE_BRANCH") \in {Unset, s.branch}
          /\ Get(s.env, "GIT_BRANCH") \in {Unset, s.branch, RemoteBranch(s)}
      BY <2>2, BranchesAssumption
    <3>2. GithubBranch(s.env) \in {Unset, s.branch}
      BY <3>1, PickTwo DEF GithubBranch
    <3> QED
      BY <2>3, <3>1, <3>2, DetectedBranch
  <2>6. git \in {Unset, s.branch}
    <3>1. s.git.branch \in {Unset, s.branch, <<"HEAD">>}
      BY <2>2, BranchesAssumption
    <3>2. s.git = [branch |-> s.git.branch, commit |-> s.git.commit]
      BY <2>2, SituationsAssumption
    <3> QED
      BY <2>3, <3>1, <3>2 DEF DetectGit
  <2>7. Pick(<<told, ci, git>>) \in {told, ci, git}
    BY PickThree
  <2> QED
    BY <2>1, <2>3, <2>4, <2>5, <2>6, <2>7
<1> QED
  BY <1>1, ResolvedInvariance, PTL
-----------------------------------------------------------------------------
\* What is in a file was written by somebody who was told to write there.
FilesOK ==
  /\ files = [path \in DOMAIN files |-> files[path]]
  /\ \A path \in DOMAIN files : \A j \in files[path] :
       j \in Invocations /\ pc[j] \in {"written", "exited"} /\ PathOf(j) = path

\* Who has written has a report in its file, unless a twin has been there since, and
\* who is writing at least has the file.
Succeeded(i) == pc[i] = "exited" /\ exit[i] = "zero" /\ cfg[i].enabled

WrittenOK ==
  \A i \in Invocations :
    /\ pc[i] = "writing" => PathOf(i) \in DOMAIN files
    /\ pc[i] = "written" \/ Succeeded(i) =>
         i \in Within(PathOf(i)) \/ \E j \in Started : Twins(i, j)
    /\ Succeeded(i) => Status(i) = "zero"

\* What a step may do to the files.
Creates(i) == /\ pc[i] = "collecting"
              /\ pc' = [pc EXCEPT ![i] = "writing"]
              /\ files' = Truncated(PathOf(i))
              /\ UNCHANGED exit

Fills(i) == /\ pc[i] = "writing"
            /\ pc' = [pc EXCEPT ![i] = "written"]
            /\ files' = [files EXCEPT ![PathOf(i)] = @ \cup {i}]
            /\ UNCHANGED exit

LEMMA FilesChange ==
  ASSUME [Next]_vars
  PROVE  files' = files \/ \E i \in Invocations : Creates(i) \/ Fills(i)
<1>1. CASE UNCHANGED vars
  BY <1>1 DEF vars
<1>2. CASE Next
  <2>1. PICK i \in Invocations :
          \/ Starts(i) \/ Calls(i) \/ CreateFile(i) \/ FillFile(i)
          \/ WriteFails(i) \/ Exits(i) \/ Killed(i)
          \/ \E value \in Values : Sets(i, value)
          \/ \E status \in {"zero", "nonzero"} : TestsEnd(i, status)
    BY <1>2 DEF Next
  <2>2. CASE CreateFile(i)
    BY <2>2 DEF CreateFile, Creates
  <2>3. CASE FillFile(i)
    BY <2>3 DEF FillFile, Fills
  <2> QED
    BY <2>1, <2>2, <2>3 DEF Starts, Calls, WriteFails, Exits, Killed, Sets, TestsEnd
<1> QED
  BY <1>1, <1>2

\* Two writers of one file are of one launch.
LEMMA OneFileOneLaunch ==
  ASSUME RunIdsAgree, NEW i \in Started, NEW j \in Started, PathOf(i) = PathOf(j), i # j
  PROVE  Twins(i, j)
BY DEF RunIdsAgree, PathOf, Path, Twins

LEMMA FilesStayOK ==
  ASSUME Shapes, FilesOK, [Next]_vars
  PROVE  FilesOK'
<1>1. ASSUME NEW j \in Invocations, pc[j] \in {"written", "exited"}
      PROVE  j \in Invocations' /\ pc'[j] \in {"written", "exited"} /\ PathOf(j)' = PathOf(j)
  <2>1. j \in Started
    BY <1>1 DEF Started
  <2>2. pc'[j] \in {"written", "exited"}
    BY <1>1 DEF Shapes, Next, vars, Starts, Calls, CreateFile, FillFile, WriteFails, Exits,
       Killed, Exit, Sets, TestsEnd
  <2> QED
    BY <2>1, <2>2, StartedStay
<1>2. CASE files' = files
  BY <1>1, <1>2 DEF FilesOK
<1>3. ASSUME NEW i \in Invocations, Creates(i) PROVE FilesOK'
  BY <1>1, <1>3, StartedStay DEF FilesOK, Creates, Truncated
<1>4. ASSUME NEW i \in Invocations, Fills(i) PROVE FilesOK'
  <2>1. i \in Started /\ pc'[i] = "written"
    BY <1>4 DEF Fills, Started, Shapes
  <2>2. i \in Invocations' /\ PathOf(i)' = PathOf(i)
    BY <2>1, StartedStay DEF Started
  <2> QED
    BY <1>1, <1>4, <2>1, <2>2 DEF FilesOK, Fills
<1> QED
  BY <1>2, <1>3, <1>4, FilesChange

\* No report is changed by another launch, or by another process of its own launch,
\* whichever of them overlap, fail or are killed: run ids tell launches apart.
THEOREM ReportsAreKept == Spec => ReportsKept
<1> DEFINE Kept == \A path \in DOMAIN files : files[path] # {} =>
              \/ files'[path] = files[path]
              \/ \E i \in Started, j \in files[path] : Twins(i, j) /\ pc'[i] # pc[i]
<1>1. Init => Shapes /\ FilesOK
  BY DEF Init, Shapes, FilesOK
<1>2. Shapes /\ FilesOK /\ [Next]_vars => Shapes' /\ FilesOK'
  BY StartedStay, FilesStayOK
<1>3. Shapes /\ FilesOK /\ RunIdsAgree /\ [Next]_vars => [Kept]_vars
  <2> SUFFICES ASSUME Shapes, FilesOK, RunIdsAgree, [Next]_vars,
                      NEW path \in DOMAIN files, files[path] # {}, files'[path] # files[path]
               PROVE  \E i \in Started, j \in files[path] : Twins(i, j) /\ pc'[i] # pc[i]
    OBVIOUS
  <2>1. PICK i \in Invocations : Creates(i) \/ Fills(i)
    BY FilesChange
  <2>2. i \in Started /\ pc[i] \in {"collecting", "writing"} /\ pc'[i] # pc[i]
    BY <2>1 DEF Creates, Fills, Started, Shapes
  <2>3. PathOf(i) = path
    BY <2>1 DEF Creates, Fills, FilesOK, Truncated
  <2>4. PICK j \in files[path] : TRUE
    OBVIOUS
  <2>5. j \in Started /\ pc[j] \in {"written", "exited"} /\ PathOf(j) = path
    BY <2>4 DEF FilesOK, Started
  <2>6. Twins(i, j)
    BY <2>2, <2>3, <2>5, OneFileOneLaunch
  <2> QED
    BY <2>2, <2>4, <2>6
<1> QED
  BY <1>1, <1>2, <1>3, RunIdsDoAgree, PTL DEF Spec, ReportsKept

\* Whoever is still in its file after a step, or has a twin, remains so.
Landed(i) == i \in Within(PathOf(i)) \/ \E j \in Started : Twins(i, j)

LEMMA LandedStays ==
  ASSUME Shapes, FilesOK, RunIdsAgree, [Next]_vars, NEW i \in Started, Landed(i)
  PROVE  Landed(i)'
<1>1. CASE \E j \in Started : Twins(i, j)
  BY <1>1, StartedStay DEF Landed, Twins
<1>2. CASE i \in Within(PathOf(i))
  <2>1. PathOf(i)' = PathOf(i) /\ PathOf(i) \in DOMAIN files /\ i \in files[PathOf(i)]
    BY <1>2, StartedStay DEF Within
  <2>2. CASE i \in files'[PathOf(i)] /\ PathOf(i) \in DOMAIN files'
    BY <2>1, <2>2 DEF Landed, Within
  <2>3. CASE \E j \in Invocations : Creates(j) /\ PathOf(j) = PathOf(i)
    <3>1. PICK j \in Invocations : Creates(j) /\ PathOf(j) = PathOf(i)
      BY <2>3
    <3>2. j \in Started /\ j # i
      BY <2>1, <3>1 DEF Creates, Started, FilesOK
    <3>3. Twins(i, j)
      BY <3>1, <3>2, OneFileOneLaunch
    <3> QED
      BY <3>2, <3>3, StartedStay DEF Landed, Twins
  <2> QED
    BY <2>1, <2>2, <2>3, FilesChange DEF Creates, Fills, Truncated, FilesOK
<1> QED
  BY <1>1, <1>2 DEF Landed

\* How an invocation comes to write, to have written and to succeed.
LEMMA Progress ==
  ASSUME Shapes, [Next]_vars, NEW i \in Invocations
  PROVE  /\ pc'[i] = "writing" => pc[i] = "writing" \/ Creates(i)
         /\ pc'[i] = "written" => pc[i] = "written" \/ Fills(i)
         /\ Succeeded(i)' => \/ Succeeded(i) /\ Status(i)' = Status(i)
                             \/ pc[i] = "written" /\ exit'[i] = Status(i) /\ Status(i)' = Status(i)
<1>1. CASE UNCHANGED vars
  BY <1>1 DEF vars, Succeeded, Status
<1>2. CASE Next
  <2>1. PICK j \in Invocations :
          \/ Starts(j) \/ Calls(j) \/ CreateFile(j) \/ FillFile(j)
          \/ WriteFails(j) \/ Exits(j) \/ Killed(j)
          \/ \E value \in Values : Sets(j, value)
          \/ \E status \in {"zero", "nonzero"} : TestsEnd(j, status)
    BY <1>2 DEF Next
  <2>2. CASE Starts(j)
    <3>1. /\ pc[j] = "idle" /\ UNCHANGED <<situation, verdict>>
          /\ \E c : cfg' = [cfg EXCEPT ![j] = c]
                    /\ \/ ~c.enabled /\ Exit(j, "zero")
                       \/ Exit(j, "nonzero")
                       \/ (\E where \in {"testing", "collecting"} : pc' = [pc EXCEPT ![j] = where])
                          /\ exit' = exit
      BY <2>2 DEF Starts
    <3> QED
      BY <3>1 DEF Shapes, Exit, Succeeded, Status
  <2>3. CASE CreateFile(j) \/ FillFile(j)
    BY <2>3 DEF CreateFile, FillFile, Creates, Fills, Shapes, Succeeded, Status
  <2>4. CASE WriteFails(j) \/ Killed(j)
    BY <2>4 DEF WriteFails, Killed, Exit, Shapes, Succeeded, Status
  <2>5. CASE Exits(j)
    BY <2>5 DEF Exits, Exit, Shapes, Succeeded, Status
  <2>6. CASE Calls(j) \/ \E value \in Values : Sets(j, value)
    BY <2>6 DEF Calls, Sets, Succeeded, Status
  <2>7. CASE \E status \in {"zero", "nonzero"} : TestsEnd(j, status)
    BY <2>7 DEF TestsEnd, Shapes, Succeeded, Status
  <2> QED
    BY <2>1, <2>2, <2>3, <2>4, <2>5, <2>6, <2>7
<1> QED
  BY <1>1, <1>2

LEMMA WrittenStaysOK ==
  ASSUME Shapes, FilesOK, WrittenOK, RunIdsAgree, [Next]_vars
  PROVE  WrittenOK'
<1>1. ASSUME NEW i \in Invocations, pc'[i] = "writing" PROVE PathOf(i)' \in DOMAIN files'
  <2>1. i \in Started
    BY <1>1, Progress DEF Creates, Started
  <2>2. PathOf(i) \in DOMAIN files'
    BY <1>1, Progress, FilesChange DEF WrittenOK, Creates, Fills, Truncated
  <2> QED
    BY <2>1, <2>2, StartedStay
<1>2. ASSUME NEW i \in Invocations, pc'[i] = "written" \/ Succeeded(i)' PROVE Landed(i)'
  <2>1. CASE Fills(i)
    <3>1. i \in Started /\ PathOf(i) \in DOMAIN files
      BY <2>1 DEF Fills, Started, WrittenOK
    <3>2. PathOf(i)' = PathOf(i) /\ i \in files'[PathOf(i)] /\ PathOf(i) \in DOMAIN files'
      BY <2>1, <3>1, StartedStay DEF Fills, FilesOK
    <3> QED
      BY <3>2 DEF Landed, Within
  <2>2. CASE pc[i] = "written" \/ Succeeded(i)
    <3>1. i \in Started /\ Landed(i)
      BY <2>2 DEF WrittenOK, Landed, Succeeded, Started
    <3> QED
      BY <3>1, LandedStays
  <2> QED
    BY <1>2, <2>1, <2>2, Progress
<1>3. ASSUME NEW i \in Invocations, Succeeded(i)' PROVE (Status(i) = "zero")'
  BY <1>3, Progress DEF WrittenOK, Succeeded
<1> QED
  BY <1>1, <1>2, <1>3, StartedStay DEF WrittenOK, Landed

\* An invocation that ends well has left its report and nothing else in its file,
\* unless another process of its launch has its process id; and if it ran `go test',
\* the tests passed.
THEOREM ReportsDoLand == Spec => []ReportsLand
<1> DEFINE P == Shapes /\ FilesOK /\ WrittenOK
<1>1. Init => P
  BY DEF Init, Shapes, FilesOK, WrittenOK, Succeeded
<1>2. P /\ RunIdsAgree /\ [Next]_vars => P'
  BY StartedStay, FilesStayOK, WrittenStaysOK
<1>3. P /\ RunIdsAgree => ReportsLand
  <2> SUFFICES ASSUME P, RunIdsAgree, NEW i \in Invocations, Succeeded(i)
               PROVE  /\ Within(PathOf(i)) = {i} \/ \E j \in Started : Twins(i, j)
                      /\ situation[i].mode = "wrap" => verdict[i] = "zero"
    BY DEF ReportsLand, Succeeded
  <2>1. i \in Started /\ Landed(i) /\ Status(i) = "zero"
    BY DEF Succeeded, Started, WrittenOK, Landed
  <2>2. ASSUME NEW j \in Within(PathOf(i)), j # i PROVE j \in Started /\ Twins(i, j)
    <3>1. j \in Started /\ PathOf(i) = PathOf(j)
      BY <2>2 DEF Within, FilesOK, Started
    <3> QED
      BY <2>1, <2>2, <3>1, OneFileOneLaunch
  <2> QED
    BY <2>1, <2>2 DEF Landed, Status
<1> QED
  BY <1>1, <1>2, <1>3, RunIdsDoAgree, PTL DEF Spec
=============================================================================
